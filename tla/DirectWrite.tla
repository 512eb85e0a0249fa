----------------------------- MODULE DirectWrite -----------------------------
(***************************************************************************)
(* One journaled write to an S3 provider: the DirectS3Sink of the request, *)
(* the reconcilers that may run for the same operation, the journal row    *)
(* they share, the routing lease that fences their provider calls, and the *)
(* provider, where a call whose reply was lost may still take effect.      *)
(*                                                                         *)
(* The sink and the reconcilers are the actors.  An actor's pc names the   *)
(* next statement of its code that touches shared state.  A provider call  *)
(* is a flight: it takes effect (Land) at any time during FlightTime ticks *)
(* after it was sent, whether or not its caller still waits, or never.     *)
(***************************************************************************)
EXTENDS OperationJournal, FiniteSets

CONSTANTS Sink,            \* the request's DirectS3Sink
          Request,         \* the reconciler spawned with the request
          Periodic,        \* retry and periodic reconcilers
          MaxAttempts,     \* provider attempts per completion (3)
          FlightTime,      \* ticks a sent provider call may still take effect
          Stall,           \* ticks from computing a window to using it
          RouteLease,      \* WORKSPACE_OPERATION_LEASE_TTL (120 s)
          Exact,           \* exact_version_recovery of the backend
          KeyOccupied,     \* the key already holds another operation's object
          AbortIdempotent, \* the provider accepts aborting a missing upload
          UploadsExpire,   \* the bucket expires incomplete uploads by itself
          LateDeletes,     \* a delete may take effect after its caller gave up
          Pauses,          \* an actor may be paused beyond its routing lease
          MaxVersions,     \* bound on provider versions
          MaxFaults        \* bound on injected failures

Reconcilers == {Request} \cup Periodic
Actors == {Sink} \cup Reconcilers

ASSUME DirectWriteAssumption ==
    /\ Sink \notin Reconcilers /\ Request \notin Periodic
    /\ NoOwner \notin Actors
    /\ MaxAttempts \in Nat \ {0} /\ MaxVersions \in Nat /\ MaxFaults \in Nat
    /\ FlightTime \in Nat \ {0} /\ Stall \in Nat /\ RouteLease \in Nat \ {0}
    /\ {Exact, KeyOccupied, AbortIdempotent, UploadsExpire, LateDeletes, Pauses}
          \subseteq BOOLEAN
    /\ Stall + FlightTime < Window      \* 60 s timeout inside the 75 s window
    /\ Window < RouteLease              \* 75 s inside the 120 s routing lease

VARIABLES row,      \* the journal row
          route,    \* the workspace routing lease of the operation
          sink,     \* the sink's fields that outlive one call
          work,     \* per actor: pc and the locals of its current call
          flights,  \* provider calls that may still take effect
          versions, \* provider versions carrying this operation's id
          minted,   \* number of versions the provider has created
          upload,   \* the operation's multipart upload at the provider
          faults    \* failures injected so far

provider == <<flights, versions, minted, upload>>
vars == <<row, route, sink, work, flights, versions, minted, upload, faults>>

-----------------------------------------------------------------------------
(* Versions are numbered in the order the provider created them.  A version *)
(* made by completing the upload lacks the digest and size metadata         *)
(* (full = FALSE), because the upload was created before they were known.   *)

Ids == {v.id : v \in versions}
FullIds == {v.id : v \in {w \in versions : w.full}}
Latest(S) == CHOOSE i \in S : \A j \in S : j <= i

Idle == [pc |-> "idle", snap |-> "Intent", known |-> FALSE, from |-> "Completing",
         version |-> 0, first |-> 0, redundant |-> {}, got |-> 0]

Flight(kind, a, v) ==
    [kind |-> kind, by |-> a, version |-> v, attempt |-> sink.attempt,
     left |-> FlightTime, awaited |-> TRUE]

Send(kind, a, v) == flights' = flights \cup {Flight(kind, a, v)}

\* The caller stops waiting; what it sent may still take effect.
Unawaited(a) ==
    {[f EXCEPT !.awaited = f.awaited /\ f.by # a] :
        f \in {g \in flights : LateDeletes \/ g.kind # "delete" \/ g.by # a}}

At(a, pc) == work[a].pc = pc
Goto(a, pc) == work' = [work EXCEPT ![a].pc = pc, ![a].got = 0]

Running(a) == work[a].pc \notin {"idle", "over", "gone", "done", "aborted"}

\* A fence exists, and its heartbeat runs, from the lease on: not while a
\* reconciler is still claiming the row.
Leasing(a) == Running(a) /\ work[a].pc \notin {"claim", "recover"}

\* Err reaches the caller: a reconciler gives up, the sink's owner reacts.
Returned(a) ==
    [Idle EXCEPT !.pc = IF a = Sink THEN "failed"
                        ELSE IF a = Request THEN "over" ELSE "idle"]
Return(a) == work' = [work EXCEPT ![a] = Returned(a)]

\* assert_current(): the caller holds the route's token and it has not expired.
Fenced(a) == a \in route.holders /\ route.left > 0 /\ route.settled = "held"

\* An error inside one attempt of the sink's completion loop is ambiguous and
\* retried; anywhere else it propagates to the caller.
Error(a) ==
    IF a = Sink /\ work[a].from = "Completing"
    THEN /\ Goto(a, "attempt")
         /\ sink' = [sink EXCEPT !.ambiguous = TRUE]
    ELSE Return(a) /\ UNCHANGED sink

Init ==
    /\ row = IntentRow
    /\ route = [holders |-> {Sink, Request}, left |-> RouteLease, settled |-> "held"]
    /\ sink = [state |-> "Intent", upload |-> FALSE, next |-> "create",
               attempt |-> 0, ambiguous |-> FALSE, stall |-> 0, signalled |-> FALSE]
    /\ work = [a \in Actors |-> IF a = Sink THEN [Idle EXCEPT !.pc = "write"] ELSE Idle]
    /\ flights = {} /\ versions = {} /\ minted = 0 /\ upload = "none"
    /\ faults = 0

-----------------------------------------------------------------------------
(* The sink: DirectS3Sink behind WorkspaceLeasedSink.                       *)

\* record_mutation_launch, first statement: read the row, refuse a terminal
\* one.  The window it will store is computed before the read.
SinkLaunch ==
    /\ \/ /\ At(Sink, "write") /\ ~sink.upload
          /\ sink' = [sink EXCEPT !.next = "create", !.stall = Stall]
       \/ /\ At(Sink, "attempt") /\ sink.attempt < MaxAttempts
          /\ sink' = [sink EXCEPT !.next = IF sink.upload THEN "complete" ELSE "put",
                                  !.attempt = @ + 1, !.stall = Stall]
    /\ IF LaunchAllowed(row) THEN Goto(Sink, "launch") ELSE Return(Sink)
    /\ UNCHANGED <<row, route, provider, faults>>

\* record_mutation_launch, second statement: an update by id alone.
SinkRecordLaunch ==
    /\ At(Sink, "launch")
    /\ row' = Launched(row, Window - (Stall - sink.stall))
    /\ Goto(Sink, "call")
    /\ UNCHANGED <<route, sink, provider, faults>>

SinkCallCreate ==
    /\ At(Sink, "call") /\ sink.next = "create"
    /\ IF Fenced(Sink) THEN Goto(Sink, "wait") /\ Send("create", Sink, 0)
                       ELSE Return(Sink) /\ UNCHANGED flights
    /\ UNCHANGED <<row, route, sink, versions, minted, upload, faults>>

SinkCreated ==
    /\ At(Sink, "wait") /\ sink.next = "create" /\ work[Sink].got # 0
    /\ Goto(Sink, "setOpen")
    /\ UNCHANGED <<row, route, sink, provider, faults>>

\* ensure_multipart() records the upload id; the statement may take effect and
\* still be reported as failed.
SinkSetOpen ==
    /\ At(Sink, "setOpen")
    /\ IF Cas(row, "Intent", "Open")
       THEN /\ row' = Opened(row, TRUE)
            /\ \/ Goto(Sink, "write") /\ sink' = [sink EXCEPT !.state = "Open", !.upload = TRUE]
               \/ Return(Sink) /\ UNCHANGED sink
       ELSE Return(Sink) /\ UNCHANGED <<row, sink>>
    /\ UNCHANGED <<route, provider, faults>>

\* upload_buffered_part(), while writing and for the rest of the buffer when
\* completing: parts only move the window; a part's failure fails the write.
SinkUploadPart ==
    /\ work[Sink].pc \in {"write", "opened"} /\ sink.upload
    /\ \/ LaunchAllowed(row) /\ row' = Launched(row, Window) /\ (UNCHANGED work \/ Return(Sink))
       \/ ~LaunchAllowed(row) /\ Return(Sink) /\ UNCHANGED row
    /\ UNCHANGED <<route, sink, provider, faults>>

\* verify_output() stores the expected digest and size while the row is still
\* INTENT or OPEN; complete() then asserts the fence.
SinkVerify ==
    /\ At(Sink, "write")
    /\ IF row.state \in {"Intent", "Open"} /\ Fenced(Sink)
       THEN Goto(Sink, IF sink.upload THEN "opened" ELSE "verified")
       ELSE Return(Sink)
    /\ UNCHANGED <<row, route, sink, provider, faults>>

SinkOpenSingle ==
    /\ At(Sink, "verified")
    /\ IF Cas(row, "Intent", "Open")
       THEN /\ row' = Opened(row, FALSE)
            /\ \/ Goto(Sink, "opened") /\ sink' = [sink EXCEPT !.state = "Open"]
               \/ Return(Sink) /\ UNCHANGED sink
       ELSE Return(Sink) /\ UNCHANGED <<row, sink>>
    /\ UNCHANGED <<route, provider, faults>>

SinkStartCompletion ==
    /\ At(Sink, "opened")
    /\ IF Cas(row, "Open", "Completing")
       THEN /\ row' = Moved(row, "Completing")
            /\ \/ Goto(Sink, "attempt") /\ sink' = [sink EXCEPT !.state = "Completing"]
               \/ Return(Sink) /\ UNCHANGED sink
       ELSE Return(Sink) /\ UNCHANGED <<row, sink>>
    /\ UNCHANGED <<route, provider, faults>>

SinkCallPut ==
    /\ At(Sink, "call") /\ sink.next = "put"
    /\ IF Fenced(Sink)
       THEN Goto(Sink, "wait") /\ Send("put", Sink, 0) /\ UNCHANGED sink
       ELSE Error(Sink) /\ UNCHANGED flights
    /\ UNCHANGED <<row, route, versions, minted, upload, faults>>

-----------------------------------------------------------------------------
(* What a probe of the provider sees.                                       *)

\* finalized_multipart() finds a version with the expected metadata ...
ProbeCommitted == IF Exact THEN FullIds # {} ELSE Ids # {} /\ Latest(Ids) \in FullIds
ProbeVersion == IF Exact THEN Latest(FullIds) ELSE Latest(Ids)
ProbeRedundant == IF Exact THEN Ids \ {ProbeVersion} ELSE {}
\* ... or one of this operation that still has to be rewritten ...
ProbePartial == Ids # {} /\ ~ProbeCommitted
\* ... or none at all.
ProbeMissing == Ids = {}

ProbeFinds(a) ==
    \/ /\ ProbeCommitted
       /\ work' = [work EXCEPT ![a].pc = "purge", ![a].version = ProbeVersion,
                               ![a].first = 0, ![a].redundant = ProbeRedundant]
    \/ /\ ProbePartial
       /\ work' = [work EXCEPT ![a].pc = "rewrite", ![a].version = Latest(Ids), ![a].first = 0]

\* complete_multipart() probes before it completes the upload.
SinkCallComplete ==
    /\ At(Sink, "call") /\ sink.next = "complete"
    /\ \/ ~Fenced(Sink) /\ Error(Sink) /\ UNCHANGED flights
       \/ Fenced(Sink) /\ ProbeFinds(Sink) /\ UNCHANGED <<sink, flights>>
       \/ /\ Fenced(Sink) /\ ProbeMissing
          /\ Goto(Sink, "wait") /\ Send("complete", Sink, 0) /\ UNCHANGED sink
    /\ UNCHANGED <<row, route, versions, minted, upload, faults>>

\* A PUT's version is final; a completed upload's is rewritten next.
SinkCommitted ==
    /\ At(Sink, "wait") /\ sink.next # "create" /\ work[Sink].got # 0
    /\ work' = [work EXCEPT ![Sink].pc = IF sink.next = "put" THEN "resolve" ELSE "rewrite",
                            ![Sink].version = work[Sink].got, ![Sink].got = 0,
                            ![Sink].first = IF sink.next = "put" THEN 0 ELSE work[Sink].got]
    /\ UNCHANGED <<row, route, sink, provider, faults>>

\* Timeout, 5xx, throttling or lost reply: the call may or may not take effect.
AmbiguousReply(a) ==
    /\ work[a].pc \in {"wait", "rewriteWait", "purgeWait"}
    /\ flights' = Unawaited(a)
    /\ IF work[a].pc = "purgeWait" \/ (work[a].pc = "wait" /\ sink.next = "create")
       THEN Return(a) /\ UNCHANGED sink
       ELSE Error(a)
    /\ UNCHANGED <<row, route, versions, minted, upload, faults>>

\* Mutant of SinkRejected: any rejection is taken for a proof of absence.
SinkRejectedAsProof ==
    /\ At(Sink, "wait")
    /\ \E f \in flights : f.by = Sink /\ f.awaited /\ flights' = flights \ {f}
    /\ IF sink.next = "create" THEN Return(Sink)
       ELSE Goto(Sink, IF sink.next = "put" THEN "finishAbort" ELSE "cleanup")
    /\ UNCHANGED <<row, route, sink, versions, minted, upload, faults>>

\* A 4xx: this attempt had no effect, but only the first attempt's rejection
\* says that nothing had.
SinkRejected ==
    /\ At(Sink, "wait")
    /\ \E f \in flights : f.by = Sink /\ f.awaited /\ flights' = flights \ {f}
    /\ IF sink.next = "create" THEN Return(Sink) /\ UNCHANGED sink
       ELSE IF sink.ambiguous THEN Goto(Sink, "attempt") /\ UNCHANGED sink
       ELSE Goto(Sink, IF sink.next = "put" THEN "finishAbort" ELSE "cleanup") /\ UNCHANGED sink
    /\ UNCHANGED <<row, route, versions, minted, upload, faults>>

\* rewrite_completed_multipart_metadata() copies a version onto a new one.
Rewrite(a) ==
    /\ At(a, "rewrite")
    /\ IF Fenced(a)
       THEN Goto(a, "rewriteWait") /\ Send("rewrite", a, work[a].version) /\ UNCHANGED sink
       ELSE Error(a) /\ UNCHANGED flights
    /\ UNCHANGED <<row, route, versions, minted, upload, faults>>

Rewritten(a) ==
    /\ At(a, "rewriteWait") /\ work[a].got # 0
    /\ work' = [work EXCEPT ![a].pc = "resolve", ![a].version = work[a].got, ![a].got = 0]
    /\ UNCHANGED <<row, route, sink, provider, faults>>

\* resolve_exact_version_history(): the version just created must be listed;
\* every other version of the operation is redundant.
Resolve(a) ==
    /\ At(a, "resolve")
    /\ IF Exact /\ (~Fenced(a) \/ work[a].version \notin Ids)
       THEN Error(a)
       ELSE /\ work' = [work EXCEPT ![a].pc = "purge",
                          ![a].redundant = ((IF Exact THEN Ids ELSE {}) \cup {work[a].first})
                                              \ {0, work[a].version}]
            /\ UNCHANGED sink
    /\ UNCHANGED <<row, route, provider, faults>>

\* delete_redundant_versions(): one exact-version delete after the other.
Purge(a) ==
    /\ At(a, "purge") /\ work[a].redundant # {}
    /\ IF Fenced(a)
       THEN \E v \in work[a].redundant : Goto(a, "purgeWait") /\ Send("delete", a, v)
       ELSE Return(a) /\ UNCHANGED flights
    /\ UNCHANGED <<row, route, sink, versions, minted, upload, faults>>

Purged(a) ==
    /\ At(a, "purgeWait") /\ work[a].got # 0
    /\ work' = [work EXCEPT ![a].pc = "purge", ![a].redundant = @ \ {work[a].got},
                            ![a].got = 0]
    /\ UNCHANGED <<row, route, sink, provider, faults>>

\* version_history_complete of the metadata about to be stored.
History(a) ==
    Exact \/ (a = Sink /\ work[a].from = "Completing" /\ sink.attempt = 1)

\* Mutant of Commit: the refused transition is ignored.
CommitRegardless(a) ==
    /\ At(a, "purge") /\ work[a].redundant = {}
    /\ row' = IF Cas(row, work[a].from, "Committed")
              THEN MovedToCommitted(row, work[a].version, History(a)) ELSE row
    /\ IF a = Sink
       THEN Goto(Sink, "release") /\ sink' = [sink EXCEPT !.state = "Committed"]
       ELSE Return(a) /\ UNCHANGED sink
    /\ UNCHANGED <<route, provider, faults>>

\* Mutant of Commit: the row names the version that the rewrite replaced.
CommitReplaced(a) ==
    /\ At(a, "purge") /\ work[a].redundant = {}
    /\ Cas(row, work[a].from, "Committed")
    /\ row' = MovedToCommitted(row, work[a].first, History(a))
    /\ Return(a)
    /\ UNCHANGED <<route, sink, provider, faults>>

\* The COMMITTED transition; the sink answers a refused or failed one with
\* reconcile_completion().
Commit(a) ==
    /\ At(a, "purge") /\ work[a].redundant = {}
    /\ \/ /\ Cas(row, work[a].from, "Committed")
          /\ row' = MovedToCommitted(row, work[a].version, History(a))
          /\ IF a = Sink
             THEN \/ Goto(Sink, "release") /\ sink' = [sink EXCEPT !.state = "Committed"]
                  \/ Goto(Sink, "reprobe") /\ work[a].from = "Completing" /\ UNCHANGED sink
             ELSE Return(a) /\ UNCHANGED sink
       \/ /\ ~Cas(row, work[a].from, "Committed")
          /\ IF a = Sink /\ work[a].from = "Completing" THEN Goto(a, "reprobe") ELSE Return(a)
          /\ UNCHANGED <<row, sink>>
    /\ UNCHANGED <<route, provider, faults>>

\* mark_commit_unknown(), once the attempts are spent.
SinkMarkUnknown ==
    /\ At(Sink, "attempt") /\ sink.attempt = MaxAttempts
    /\ IF Cas(row, "Completing", "CommitUnknown")
       THEN /\ row' = Moved(row, "CommitUnknown")
            /\ sink' = [sink EXCEPT !.state = "CommitUnknown"]
            /\ Goto(Sink, "reprobe")
       ELSE Return(Sink) /\ UNCHANGED <<row, sink>>
    /\ UNCHANGED <<route, provider, faults>>

\* reconcile_completion(): reload the row; only COMMIT_UNKNOWN is probed.  A
\* COMPLETING row that moved between the reload and the update is a conflict.
SinkReprobe ==
    /\ At(Sink, "reprobe")
    /\ \/ /\ row' = IF row.state = "Completing" THEN Moved(row, "CommitUnknown") ELSE row
          /\ sink' = [sink EXCEPT !.state = row'.state]
          /\ IF row'.state = "CommitUnknown"
             THEN work' = [work EXCEPT ![Sink] =
                             [Idle EXCEPT !.pc = "probe", !.from = "CommitUnknown"]]
             ELSE IF row'.state = "Committed" THEN Goto(Sink, "release") ELSE Return(Sink)
       \/ row.state # "Completing" /\ Return(Sink) /\ UNCHANGED <<row, sink>>
    /\ UNCHANGED <<route, provider, faults>>

-----------------------------------------------------------------------------
(* probe_completion() and its consequences, for the sink and reconcilers.   *)

\* The version listing and the HEAD.  Absence is only provable with exact
\* recovery, and only while the key is free.
Probe(a) ==
    /\ At(a, "probe")
    /\ \/ ~Fenced(a) /\ Return(a)
       \/ Fenced(a) /\ ProbeFinds(a)
       \/ /\ Fenced(a) /\ ProbeMissing
          /\ IF Exact /\ ~KeyOccupied THEN Goto(a, "uploads") ELSE Return(a)
    /\ UNCHANGED <<row, route, sink, provider, faults>>

\* The listing of incomplete uploads, a later call than the version listing.
ProbeUploads(a) ==
    /\ At(a, "uploads")
    /\ IF Fenced(a) /\ upload # "live" THEN Goto(a, "confirm") ELSE Return(a)
    /\ UNCHANGED <<row, route, sink, provider, faults>>

\* confirm_exact_absence(), the read.  Only the reconciler looks for uploads
\* again before it settles the abort.
ConfirmRead(a) ==
    /\ At(a, "confirm")
    /\ IF AbsenceFirst(row) THEN Goto(a, "confirmWrite")
       ELSE IF AbsenceConfirmed(row) THEN Goto(a, IF a = Sink THEN "finishAbort" ELSE "cleanup")
       ELSE Return(a)
    /\ UNCHANGED <<row, route, sink, provider, faults>>

\* confirm_exact_absence(), the update by id; got is the observation's age.
ConfirmWrite(a) ==
    /\ At(a, "confirmWrite")
    /\ row' = AbsenceStored(row, work[a].got)
    /\ Return(a)
    /\ UNCHANGED <<route, sink, provider, faults>>

\* abort_multipart() of the recorded upload, where there is one, and then
\* abort_discovered() of whatever upload the provider lists.
Cleanup(a) ==
    LET recorded == /\ work[a].from # "CommitUnknown"
                    /\ IF a = Sink THEN sink.upload ELSE work[a].known
    IN  /\ At(a, "cleanup")
        /\ IF Fenced(a) /\ (recorded /\ upload # "live" => AbortIdempotent)
           THEN /\ Goto(a, "finishAbort")
                /\ upload' = IF upload = "live" THEN "closed" ELSE upload
           ELSE Return(a) /\ UNCHANGED upload
        /\ UNCHANGED <<row, route, sink, flights, versions, minted, faults>>

\* The PROVEN_ABORTED transition.  abort() goes on to release the route; a
\* rejected or absent completion is an error that its owner answers with abort().
FinishAbort(a) ==
    /\ At(a, "finishAbort")
    /\ IF Cas(row, work[a].from, "ProvenAborted")
       THEN /\ row' = Moved(row, "ProvenAborted")
            /\ IF a = Sink
               THEN /\ IF work[a].from = "Aborting" THEN Goto(Sink, "release") ELSE Return(Sink)
                    /\ sink' = [sink EXCEPT !.state = "ProvenAborted"]
               ELSE Return(a) /\ UNCHANGED sink
       ELSE Return(a) /\ UNCHANGED <<row, sink>>
    /\ UNCHANGED <<route, provider, faults>>

-----------------------------------------------------------------------------
(* The sink's end.                                                          *)

\* WorkspaceLeasedSink::abort() asserts the fence before the sink's abort(),
\* which refuses a completion whose outcome is unknown.
SinkAbort ==
    /\ At(Sink, "failed") /\ Fenced(Sink)
    /\ sink.state \in {"Intent", "Open", "Aborting"}
    /\ sink.state # "Aborting" => Cas(row, sink.state, "Aborting")
    /\ row' = IF sink.state = "Aborting" THEN row ELSE Moved(row, "Aborting")
    /\ sink' = [sink EXCEPT !.state = "Aborting"]
    /\ work' = [work EXCEPT ![Sink].pc = "cleanup", ![Sink].from = "Aborting"]
    /\ UNCHANGED <<route, provider, faults>>

\* Nothing is left to abort: abort() only releases the route.
SinkAbortFinished ==
    /\ At(Sink, "failed") /\ Fenced(Sink)
    /\ sink.state = "ProvenAborted"
    /\ Goto(Sink, "release")
    /\ UNCHANGED <<row, route, sink, provider, faults>>

\* release_streaming_operation_lease() verifies the row's terminal state and the
\* lease identity; a stale token is an error and leaves the settlement to the
\* periodic pass.
SinkRelease ==
    /\ At(Sink, "release")
    /\ IF Sink \in route.holders /\ row.state \in Terminal /\ row.state = sink.state
       THEN /\ Goto(Sink, IF sink.state = "Committed" THEN "done" ELSE "aborted")
            /\ route' = [route EXCEPT !.settled = sink.state]
       ELSE Return(Sink) /\ UNCHANGED route
    /\ UNCHANGED <<row, sink, provider, faults>>

\* The sink is dropped (its Drop signals the request's reconciler unless the
\* operation is finished), or the whole process dies.
SinkDrop ==
    /\ Running(Sink)
    /\ flights' = Unawaited(Sink)
    /\ \/ /\ work' = [work EXCEPT ![Sink] = [Idle EXCEPT !.pc = "gone"]]
          /\ sink' = [sink EXCEPT !.signalled = sink.state \notin Terminal]
       \/ /\ work' = [work EXCEPT ![Sink] = [Idle EXCEPT !.pc = "gone"],
                                  ![Request] = [Idle EXCEPT !.pc = "over"]]
          /\ UNCHANGED sink
    /\ UNCHANGED <<row, route, versions, minted, upload, faults>>

-----------------------------------------------------------------------------
(* OperationReconciler.                                                     *)

\* claim_reconcilable_operation(), the read: the request's reconciler waits for
\* the sink's signal, the others take any nonterminal row.
ClaimRead(r) ==
    /\ At(r, "idle") /\ Claimable(row)
    /\ r = Request => sink.signalled
    /\ work' = [work EXCEPT ![r].pc = "claim", ![r].snap = row.state, ![r].known = row.upload]
    /\ UNCHANGED <<row, route, sink, provider, faults>>

\* The update filters on the lease only; the record returned is the one read.
ClaimWrite(r) ==
    /\ At(r, "claim")
    /\ IF row.lease = 0
       THEN row' = Claimed(row, r) /\ Goto(r, IF r = Request THEN "begin" ELSE "recover")
       ELSE Return(r) /\ UNCHANGED row
    /\ UNCHANGED <<route, sink, provider, faults>>

\* recover_streaming_operation_lease(): expired leases only, journal claim
\* still owned; it moves the fencing token.
Recover(r) ==
    /\ At(r, "recover")
    /\ IF /\ route.left = 0 /\ route.settled = "held"
          /\ row.owner = r /\ row.state \notin Terminal
       THEN /\ route' = [route EXCEPT !.holders = {r}, !.left = RouteLease]
            /\ Goto(r, "begin")
       ELSE Return(r) /\ UNCHANGED route
    /\ UNCHANGED <<row, sink, provider, faults>>

\* reconcile(): dispatch on the state that was read with the claim.
Begin(r) ==
    /\ At(r, "begin")
    /\ LET snap == work[r].snap
           next == IF snap = "Completing" THEN "CommitUnknown" ELSE "Aborting"
           from == IF snap \in {"Completing", "CommitUnknown"} THEN "CommitUnknown" ELSE "Aborting"
           go == work' = [work EXCEPT ![r].from = from,
                            ![r].pc = IF from = "Aborting" THEN "cleanup" ELSE "probe"]
       IN  IF snap \in {"Aborting", "CommitUnknown"} THEN go /\ UNCHANGED row
           ELSE IF Cas(row, snap, next) THEN go /\ row' = Moved(row, next)
           ELSE Return(r) /\ UNCHANGED row
    /\ UNCHANGED <<route, sink, provider, faults>>

\* settle_terminal_workspace_lease(): no provider call, any number of times.
SettleTerminal(r) ==
    /\ r \in Periodic /\ At(r, "idle")
    /\ row.state \in Terminal /\ route.settled = "held"
    /\ route' = [route EXCEPT !.settled = row.state]
    /\ UNCHANGED <<row, sink, work, provider, faults>>

-----------------------------------------------------------------------------
(* Environment.                                                             *)

\* A journal or evidence statement, an observation or the process fails.
Fail(a) ==
    /\ faults < MaxFaults /\ faults' = faults + 1
    /\ Running(a) /\ ~At(a, "failed")
    /\ flights' = Unawaited(a)
    /\ Return(a)
    /\ UNCHANGED <<row, route, sink, versions, minted, upload>>

\* The heartbeat of an actor that is running and still holds the route.
Renew(a) ==
    /\ Fenced(a) /\ Leasing(a)
    /\ route' = [route EXCEPT !.left = RouteLease]
    /\ UNCHANGED <<row, sink, work, provider, faults>>

NewVersion(full) ==
    /\ minted < MaxVersions
    /\ minted' = minted + 1
    /\ versions' = versions \cup {[id |-> minted + 1, full |-> full]}

\* A flight takes effect; its caller learns the new version, the deleted one,
\* or 1 for a created upload.
Land(f) ==
    /\ f \in flights /\ flights' = flights \ {f}
    /\ \/ /\ f.kind = "create" /\ upload = "none" /\ upload' = "live"
          /\ UNCHANGED <<versions, minted>>
       \/ f.kind = "put" /\ NewVersion(TRUE) /\ UNCHANGED upload
       \/ /\ f.kind = "complete" /\ upload = "live" /\ upload' = "closed"
          /\ NewVersion(FALSE)
       \/ f.kind = "rewrite" /\ f.version \in Ids /\ NewVersion(TRUE) /\ UNCHANGED upload
       \/ /\ f.kind = "delete" /\ versions' = {v \in versions : v.id # f.version}
          /\ UNCHANGED <<minted, upload>>
    /\ work' = IF f.awaited
               THEN [work EXCEPT ![f.by].got =
                       IF f.kind = "create" THEN 1
                       ELSE IF f.kind = "delete" THEN f.version ELSE minted + 1]
               ELSE work
    /\ UNCHANGED <<row, route, sink, faults>>

\* A lifecycle rule of the bucket drops the incomplete upload.
ExpireUpload ==
    /\ UploadsExpire /\ upload = "live" /\ upload' = "closed"
    /\ UNCHANGED <<row, route, sink, work, flights, versions, minted, faults>>

\* The timing the code relies on: a launch is recorded, and a PUT sent, at most
\* Stall ticks after its window was computed, and the row is read in the tick
\* in which observed_at_ms was taken.  Without pauses a running holder's
\* heartbeat keeps its routing lease alive.
Urgent ==
    \/ /\ sink.stall = 0
       /\ At(Sink, "launch") \/ (At(Sink, "call") /\ sink.next = "put")
    \/ \E a \in Actors : At(a, "confirm")
    \/ ~Pauses /\ route.left = 1 /\ \E a \in route.holders : Leasing(a)

Tick ==
    /\ ~Urgent
    /\ row' = RowTick(row)
    /\ route' = [route EXCEPT !.left = Decrement(@)]
    /\ sink' = [sink EXCEPT !.stall = Decrement(@)]
    /\ flights' = {[f EXCEPT !.left = @ - 1] : f \in {g \in flights : g.left > 1}}
    /\ work' = [a \in Actors |->
                  IF At(a, "confirmWrite") /\ work[a].got < Separation
                  THEN [work[a] EXCEPT !.got = @ + 1] ELSE work[a]]
    /\ UNCHANGED <<versions, minted, upload, faults>>

SinkNext ==
    \/ SinkLaunch \/ SinkRecordLaunch \/ SinkCallCreate \/ SinkCreated \/ SinkSetOpen
    \/ SinkUploadPart \/ SinkVerify \/ SinkOpenSingle \/ SinkStartCompletion
    \/ SinkCallPut \/ SinkCallComplete \/ SinkCommitted \/ SinkRejected
    \/ SinkMarkUnknown \/ SinkReprobe \/ SinkAbort \/ SinkAbortFinished
    \/ SinkRelease \/ SinkDrop

CallNext(a) ==
    \/ AmbiguousReply(a) \/ Rewrite(a) \/ Rewritten(a) \/ Resolve(a) \/ Purge(a)
    \/ Purged(a) \/ Commit(a) \/ Probe(a) \/ ProbeUploads(a) \/ ConfirmRead(a)
    \/ ConfirmWrite(a) \/ Cleanup(a) \/ FinishAbort(a)

ReconcilerNext(r) ==
    ClaimRead(r) \/ ClaimWrite(r) \/ Recover(r) \/ Begin(r) \/ SettleTerminal(r)

Next ==
    \/ SinkNext
    \/ \E a \in Actors : CallNext(a) \/ Fail(a) \/ Renew(a)
    \/ \E r \in Reconcilers : ReconcilerNext(r)
    \/ \E f \in flights : Land(f)
    \/ ExpireUpload
    \/ Tick

Spec == Init /\ [][Next]_vars

-----------------------------------------------------------------------------
(* Fairness.  The clock runs; a request ends (client disconnects and server *)
(* timeouts drop its sink); the periodic pass keeps reconciling; and the     *)
(* provider does not lose every call a reconciler waits for.                 *)

Fairness ==
    /\ WF_vars(Tick) /\ WF_vars(ExpireUpload)
    /\ WF_vars(SinkDrop) /\ WF_vars(Renew(Sink))
    /\ \A r \in Reconcilers : WF_vars(CallNext(r) \/ ReconcilerNext(r)) /\ WF_vars(Renew(r))
    /\ SF_vars(\E f \in flights : f.awaited /\ f.by \in Reconcilers /\ Land(f))

FairSpec == Spec /\ Fairness

-----------------------------------------------------------------------------
(* Properties.                                                              *)

Pcs == {"idle", "over", "write", "launch", "call", "wait", "setOpen", "verified",
        "opened", "attempt", "rewrite", "rewriteWait", "resolve", "purge",
        "purgeWait", "reprobe", "probe", "uploads", "confirm", "confirmWrite",
        "cleanup", "finishAbort", "release", "done", "aborted", "failed", "gone",
        "claim", "recover", "begin"}

Works ==
    [pc : Pcs, snap : OperationStates, known : BOOLEAN, from : OperationStates,
     version : Nat, first : Nat, redundant : SUBSET Nat, got : Nat]

Flights ==
    [kind : {"create", "put", "complete", "rewrite", "delete"}, by : Actors,
     version : Nat, attempt : 0..MaxAttempts, left : 1..FlightTime, awaited : BOOLEAN]

Routes == [holders : SUBSET Actors, left : 0..RouteLease, settled : {"held"} \cup Terminal]

Sinks ==
    [state : OperationStates, upload : BOOLEAN, next : {"create", "put", "complete"},
     attempt : 0..MaxAttempts, ambiguous : BOOLEAN, stall : 0..Stall, signalled : BOOLEAN]

\* Every variable keeps its type: the shape of the journal row, the routing
\* lease, the sink, the actors' locals and the provider's state.
TypeOK ==
    /\ row \in Rows(Reconcilers, Nat)
    /\ route \in Routes
    /\ sink \in Sinks
    /\ work \in [Actors -> Works]
    /\ flights \subseteq Flights
    /\ versions \subseteq [id : 1..minted, full : BOOLEAN]
    /\ minted \in 0..MaxVersions
    /\ upload \in {"none", "live", "closed"}
    /\ faults \in 0..MaxFaults

\* PROVEN_ABORTED is a proof: no version of the operation exists at the
\* provider, and none appears later, whatever call was still under way when a
\* sink, a reconciler or two of them decided that the write had not happened.
AbortedMeansAbsent == row.state = "ProvenAborted" => versions = {}

\* Aborting and completing exclude each other through the row: as long as the
\* row can still take the ABORTING path, no call that creates a version has
\* been sent, so the cleanup of that path needs no probe.
NoCommitBeforeCompleting ==
    row.state \in {"Intent", "Open", "Aborting"} =>
        /\ versions = {}
        /\ \A f \in flights : f.kind = "create"

\* What complete() or abort() answered, how the route was settled and what the
\* journal says agree, across conflicts, lost replies and takeovers.
AnswersAgree ==
    /\ sink.state \in Terminal => row.state = sink.state
    /\ route.settled # "held" => route.settled = row.state

\* The version the journal names as committed exists and is never deleted as
\* redundant by another cleanup.
CommittedVersionSurvives == row.state = "Committed" => row.version \in Ids

\* The write as its user sees it.
Outcome ==
    IF row.state = "Committed" THEN "committed"
    ELSE IF row.state = "ProvenAborted" THEN "aborted" ELSE "pending"

Abstract == INSTANCE AtomicWrite WITH outcome <- Outcome, object <- versions # {}

\* The detailed write implements the abstract one: the object appears at most
\* once, never vanishes and never outlives a proof of its absence.
ImplementsAtomicWrite == Abstract!Spec

\* Every operation whose sink is gone reaches a terminal journal state and its
\* route is settled, through crashes, ambiguous calls and failed passes.
EventuallySettled == <>(row.state \in Terminal /\ route.settled # "held")

\* docs/security.md:355: "On any failure the sink is aborted and the
\* destination multipart upload is cleaned up."
AbortLeavesNoUpload == row.state = "ProvenAborted" => upload # "live"

\* The same sentence for a failure after COMPLETING was recorded: the upload of
\* an operation whose outcome is unknown is in the end completed or aborted.
UnknownUploadCleanedUp == row.state = "CommitUnknown" ~> upload # "live"

\* transaction/mod.rs:836: only a backend that "enumerated exact operation
\* versions" may claim a complete version history; then no version other than
\* the committed one is left behind.
CompleteHistoryIsComplete ==
    row.state = "Committed" /\ row.history /\ Exact => Ids \subseteq {row.version}
=============================================================================
