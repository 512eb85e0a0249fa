---------------------------- MODULE MCDirectWrite ----------------------------
(* The instance of DirectWrite and of its invariant that TLC checks.        *)
EXTENDS DirectWriteInvariant, TLC

\* Periodic reconcilers are interchangeable.
Symmetry == Permutations(Periodic)
=============================================================================
