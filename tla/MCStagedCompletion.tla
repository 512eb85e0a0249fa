------------------------- MODULE MCStagedCompletion -------------------------
(* The instance of StagedCompletion that TLC checks.                        *)
EXTENDS StagedCompletionInvariant, TLC

\* All uploads belong to the same tenant.
MCTenantOf == [u \in Uploads |-> CHOOSE t \in Tenants : TRUE]

\* Nothing tells keys, workers, parts or digests apart.
Symmetry ==
    UNION {Permutations(S) : S \in {Keys, Workers, Parts, Etags}}
=============================================================================
