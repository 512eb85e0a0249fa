----------------------------- MODULE AtomicWrite -----------------------------
(***************************************************************************)
(* What a journaled write promises: while the outcome is pending the       *)
(* object may appear at the destination; the write is settled once, as     *)
(* committed only when the object is there and as aborted only when it is  *)
(* not; an object never disappears again, and none appears after an abort. *)
(***************************************************************************)
VARIABLES outcome, object

Init == outcome = "pending" /\ object = FALSE

Appear ==
    /\ outcome # "aborted" /\ ~object
    /\ object' = TRUE
    /\ UNCHANGED outcome

Commit ==
    /\ outcome = "pending" /\ object
    /\ outcome' = "committed"
    /\ UNCHANGED object

Abort ==
    /\ outcome = "pending" /\ ~object
    /\ outcome' = "aborted"
    /\ UNCHANGED object

Next == Appear \/ Commit \/ Abort

Spec == Init /\ [][Next]_<<outcome, object>>
=============================================================================
