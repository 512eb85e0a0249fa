------------------------------- MODULE MCManaged -------------------------------
EXTENDS ManagedPurge

CONSTANTS b1, b2

\* One backend, and then the other.
Move == <<[primary |-> b1, replica |-> Nil], [primary |-> b2, replica |-> Nil]>>

Stay == <<[primary |-> b1, replica |-> Nil]>>

Swap == <<[primary |-> b1, replica |-> b2], [primary |-> b2, replica |-> b1]>>

Unmirror == <<[primary |-> b1, replica |-> b2], [primary |-> b2, replica |-> Nil]>>

Return == <<[primary |-> b1, replica |-> Nil], [primary |-> b2, replica |-> Nil],
            [primary |-> b1, replica |-> Nil]>>

Mirror == <<[primary |-> b1, replica |-> b2]>>

\* The tables without leases, purge marks and expiry.
Contract ==
    INSTANCE ManagedContract WITH
        repairs <- [key \in RepairKeys |-> [repairs[key] EXCEPT !.token = 0, !.live = FALSE,
                                                         !.attempts = 0]],
        intents <- {[write |-> w, epoch |-> intents[w].epoch,
                     blocked |-> intents[w].state = "BLOCKED"] : w \in DOMAIN intents},
        ledger <- {[write |-> l.write, n |-> l.n, epoch |-> l.epoch] : l \in ledger},
        purges <- [p \in Purges |-> [state |-> purges[p].state, deleted |-> purges[p].deleted]],
        activity <- [u \in Uploads |-> [state |-> activity[u].state, epoch |-> activity[u].epoch]],
        MaxCas <- 4, MaxToken <- 4, MaxEpochs <- 4

\* Every transaction of the database repository does what the method of the
\* repository behind one lock does (managed.rs, its two implementations of
\* ManagedRepository), whatever steps of other processes come between the
\* statements of a request, a worker or a reconciler.
ImplementsContract == Contract!Spec
=============================================================================
