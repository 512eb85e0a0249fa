-------------------------- MODULE OperationJournal --------------------------
(***************************************************************************)
(* One row of the durable operation journal and the statements the         *)
(* PostgresOperationJournal issues against it.                             *)
(*                                                                         *)
(* Instants are kept as the number of ticks left (or, for an observation,  *)
(* the number of ticks passed), so that a row has finitely many values:    *)
(*   window   ticks until mutation_not_before_ms                           *)
(*   absence  age of exact_absence_observed_at_ms, NoAbsence when NULL     *)
(*   lease    ticks until lease_expires_at_ms, 0 when NULL or expired      *)
(***************************************************************************)
EXTENDS Integers

CONSTANTS Window,        \* PROVIDER_MUTATION_AMBIGUITY_WINDOW (75 s)
          Separation,    \* EXACT_ABSENCE_CONFIRMATION_DELAY (5 s)
          JournalLease,  \* the lease a reconciler takes on a row (30 or 120 s)
          NoOwner        \* lease_owner IS NULL

ASSUME JournalAssumption ==
    /\ Window \in Nat \ {0}
    /\ Separation \in Nat \ {0}
    /\ JournalLease \in Nat \ {0}

OperationStates ==
    {"Intent", "Open", "Completing", "CommitUnknown", "Committed", "Aborting",
     "ProvenAborted"}

Terminal == {"Committed", "ProvenAborted"}

CanTransitionTo ==
    { <<"Intent", "Open">>, <<"Intent", "Aborting">>,
      <<"Open", "Completing">>, <<"Open", "Aborting">>,
      <<"Completing", "Committed">>, <<"Completing", "CommitUnknown">>,
      <<"Completing", "ProvenAborted">>,
      <<"CommitUnknown", "Committed">>, <<"CommitUnknown", "ProvenAborted">>,
      <<"Aborting", "ProvenAborted">> }

NoAbsence == -1

\* insert_intent: a new row is an INTENT without upload, lease or evidence.
IntentRow ==
    [state |-> "Intent", upload |-> FALSE, window |-> 0, absence |-> NoAbsence,
     owner |-> NoOwner, lease |-> 0, version |-> 0, history |-> TRUE]

\* The compare-and-set of transition(): the row is still in the expected state.
Cas(row, from, to) == row.state = from /\ <<from, to>> \in CanTransitionTo

\* The update of transition(): it drops whatever lease the row carries.
Moved(row, to) == [row EXCEPT !.state = to, !.owner = NoOwner, !.lease = 0]

MovedToCommitted(row, version, history) ==
    [Moved(row, "Committed") EXCEPT !.version = version, !.history = history]

\* set_open() keeps the lease columns, unlike transition().
Opened(row, upload) == [row EXCEPT !.state = "Open", !.upload = upload]

\* The first statement of record_mutation_launch() reads the row and refuses a
\* terminal one; the second extends the window and forgets any observation.
LaunchAllowed(row) == row.state \notin Terminal

\* Mutant of Launched: mutation_not_before_ms is not moved.
LaunchedWithoutWindow(row, left) == [row EXCEPT !.absence = NoAbsence]

Launched(row, left) ==
    [row EXCEPT !.window = IF left > @ THEN left ELSE @, !.absence = NoAbsence]

\* confirm_exact_absence() reads the row and either refuses, confirms, or goes
\* on to store a first observation with a second statement.
AbsenceConfirmed(row) ==
    /\ row.window = 0
    /\ row.absence >= Separation

AbsenceFirst(row) == row.window = 0 /\ row.absence = NoAbsence

AbsenceStored(row, age) == [row EXCEPT !.absence = age]

\* Mutant of Claimable: an expired claim still counts.
ClaimableUnowned(row) == row.state \notin Terminal /\ row.owner = NoOwner

\* claim_reconcilable_operation(): a nonterminal row whose lease is free.
Claimable(row) == row.state \notin Terminal /\ row.lease = 0

Claimed(row, owner) == [row EXCEPT !.owner = owner, !.lease = JournalLease]

Decrement(n) == IF n > 0 THEN n - 1 ELSE 0

\* One tick of the clock, as the row's instants see it.
RowTick(row) ==
    [row EXCEPT !.window = Decrement(@),
                !.lease = Decrement(@),
                !.absence = IF @ = NoAbsence \/ @ = Separation THEN @ ELSE @ + 1]

Rows(Owners, Versions) ==
    [state : OperationStates, upload : BOOLEAN, window : 0..Window,
     absence : Nat \cup {NoAbsence}, owner : Owners \cup {NoOwner},
     lease : 0..JournalLease, version : Versions, history : BOOLEAN]
=============================================================================
