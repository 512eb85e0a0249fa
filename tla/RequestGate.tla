----------------------------- MODULE RequestGate -----------------------------
(* What every S3 request does with its reservation.  After authentication a
   request is authorized by the control plane, which reserves usage for its
   operation id; from there on exactly one of three things happens to the
   reservation: it is recorded as usage, it is released, or it is left for the
   control plane to recover.

   A request is the handler's future.  Its phase names the await it is at; the
   client may go away at any of them, and then the future is dropped there. *)
EXTENDS Naturals, Sequences, FiniteSets

CONSTANTS
  Requests,
  OperationsOf, \* the operations each client asks for
  MaxFaults,    \* bound on failing and unanswered calls to the control plane and the backend
  MaxCancels    \* bound on clients that go away

AllOperations ==
  {"get", "transformed", "head", "delete", "abort", "list", "put",
   "parts", "initiate", "part"}

GateAssumption ==
  /\ \A r \in Requests : OperationsOf[r] \subseteq AllOperations
  /\ IsFiniteSet(Requests)
  /\ MaxFaults \in Nat /\ MaxCancels \in Nat

VARIABLES
  req,          \* the handlers
  reservation,  \* the control plane's books, one per operation id
  budget        \* faults and cancellations so far

gateVars == <<req, reservation, budget>>

(* safe: every component of the frozen pipeline is prefix-safe.  seen and got:
   the content the preflight and the source read found.  sent: something of the
   body has been handed to the client.  effect: the mutation has happened.
   cause: why the reservation may be left behind. *)
Fresh ==
  [op |-> "none", phase |-> "idle", safe |-> FALSE, avro |-> FALSE, seen |-> 0, got |-> 0,
   sent |-> FALSE, tries |-> 0, effect |-> FALSE, cause |-> {}, answer |-> "none"]

GateInit ==
  /\ req = [r \in Requests |-> Fresh]
  /\ reservation = [r \in Requests |-> "none"]
  /\ budget = [faults |-> 0, cancels |-> 0]

GateTypeOK ==
  /\ \A r \in Requests :
       /\ req[r].op \in AllOperations \cup {"none"}
       /\ req[r].answer \in {"none", "ok", "error", "truncated"}
       /\ req[r].cause \subseteq {"control", "cancelled", "unknown", "oversize", "avro", "crash"}
       /\ req[r].tries \in Nat
  /\ reservation \in [Requests -> {"none", "held", "recorded", "released"}]
  /\ budget \in [faults : 0 .. MaxFaults, cancels : 0 .. MaxCancels]

At(r, phase) == req[r].phase = phase
Ended(r) == req[r].phase = "ended"

\* The handler is awaiting something; a body belongs to the server, a detached task to nobody.
Handling(r) == req[r].phase \notin {"idle", "ended", "body", "settling", "replay", "detached"}

Fault == budget.faults < MaxFaults /\ budget' = [budget EXCEPT !.faults = @ + 1]
NoFault == UNCHANGED budget

GoTo(r, phase) == req' = [req EXCEPT ![r].phase = phase]

\* An answer that returns from the handler at once.
Answer(r, answer) == req' = [req EXCEPT ![r].phase = "ended", ![r].answer = answer]

\* The same, when the handler keeps the reservation behind for a reason.
Leave(r, why) ==
  req' = [req EXCEPT ![r].phase = "ended", ![r].answer = "error", ![r].cause = @ \cup {why}]

\* release_failure: the error response waits for the control plane's release.
ToRelease(r) == GoTo(r, "release")

\* metered_read_response: a response that failed, and one whose size is unknown
\* or above the grant, releases; the others wait for the usage to be recorded.
MeteredRead(r) == GoTo(r, "record") \/ ToRelease(r)

-----------------------------------------------------------------------------
Piped(op) == op \in {"transformed", "put"}

\* The requests that stage a multipart upload are not metered before its completion.
Unmetered(op) == op \in {"parts", "initiate", "part"}

\* An authenticated request without a client-chosen metering id.
Arrive(r) ==
  /\ At(r, "idle")
  /\ \E op \in OperationsOf[r] :
       req' = [req EXCEPT ![r].op = op,
                          ![r].phase = CASE Piped(op) -> "resolve"
                                         [] Unmetered(op) -> "staging"
                                         [] OTHER -> "authorize"]
  /\ UNCHANGED <<reservation, budget>>

\* GET with an upload id: the staging repository's page, or an error.
ListParts(r) ==
  /\ At(r, "staging") /\ req[r].op = "parts"
  /\ Answer(r, "ok") \/ Answer(r, "error")
  /\ UNCHANGED <<reservation, budget>>

\* PUT with an upload id and a part number: the staging protocol is StagedParts'.
UploadPart(r) ==
  /\ At(r, "staging") /\ req[r].op = "part"
  /\ Answer(r, "ok") \/ Answer(r, "error")
  /\ UNCHANGED <<reservation, budget>>

\* record_failed_pipeline_attempt: best-effort evidence, without usage; then the error.
FailedAttempt(r) == Answer(r, "error")

\* POST ?uploads: the pipeline is resolved and frozen in the upload's row, with
\* nothing reserved.
InitiateUpload(r) ==
  /\ At(r, "staging") /\ req[r].op = "initiate"
  /\ Answer(r, "ok") \/ Answer(r, "error") \/ FailedAttempt(r)
  /\ UNCHANGED <<reservation, budget>>

\* Gateway::resolve freezes the pipeline before the authorization; a failure is
\* reported as an attempt without usage and returned.
Resolve(r) ==
  /\ At(r, "resolve")
  /\ \/ /\ \E safe \in BOOLEAN :
             req' = [req EXCEPT ![r].safe = safe, ![r].phase = "authorize"]
        /\ NoFault
     \/ Fault /\ FailedAttempt(r)
  /\ UNCHANGED reservation

ResolvePipeline(r) == req[r].op = "transformed" /\ Resolve(r)
ResolveForWrite(r) == req[r].op = "put" /\ Resolve(r)

\* authorize_request: granted, blocked, or not answered (the reservation may
\* have been made all the same; the handler returns without a grant).
Authorize(r) ==
  /\ At(r, "authorize")
  /\ \/ /\ reservation' = [reservation EXCEPT ![r] = "held"]
        /\ GoTo(r, IF Piped(req[r].op) THEN "snapshot" ELSE "backend") /\ NoFault
     \/ Answer(r, "error") /\ NoFault /\ UNCHANGED reservation
     \/ /\ Fault /\ Leave(r, "control")
        /\ reservation' \in {reservation, [reservation EXCEPT ![r] = "held"]}

\* snapshot_for loads and compiles what the resolution names; a read or write
\* mode below what the request needs is refused here as well.
LoadSnapshot(r) ==
  /\ At(r, "snapshot")
  /\ \/ GoTo(r, "backend") /\ NoFault
     \/ ToRelease(r) /\ NoFault
  /\ UNCHANGED reservation

BuildSnapshot(r) == req[r].op = "transformed" /\ LoadSnapshot(r)
SnapshotForWrite(r) == req[r].op = "put" /\ LoadSnapshot(r)

\* resolve_backend, and the first call of the operation behind it.
FirstCall(r) ==
  CASE req[r].op = "transformed" -> "preflight"
    [] req[r].op \in {"get", "head"} -> "open"
    [] req[r].op = "put" -> "sink"
    [] OTHER -> "call"

ResolveBackend(r) ==
  /\ At(r, "backend")
  /\ \/ GoTo(r, FirstCall(r)) /\ NoFault
     \/ ToRelease(r) /\ NoFault   \* unknown, presigned where metadata are needed, disabled
  /\ UNCHANGED reservation

-----------------------------------------------------------------------------
(* The end of a request: its reservation *)

\* The reservation store is idempotent by operation id: a settled one stays as it is.
Released(r) ==
  reservation' = [reservation EXCEPT ![r] = IF @ = "held" THEN "released" ELSE @]

Recorded(r) ==
  reservation' = [reservation EXCEPT ![r] = IF @ = "held" THEN "recorded" ELSE @]

\* control.release: the reply may be lost after the release took effect.
ReleaseFailure(r) ==
  /\ At(r, "release")
  /\ \/ Released(r) /\ Answer(r, "error") /\ NoFault
     \/ Fault /\ Leave(r, "control") /\ (Released(r) \/ UNCHANGED reservation)

\* control.record: an error reaches the client instead of the answer.
RecordUsage(r) ==
  /\ At(r, "record")
  /\ \/ /\ Recorded(r) /\ NoFault
        /\ req' = [req EXCEPT
             ![r].answer = "ok",
             ![r].sent = req[r].op \in {"get", "list", "head"} \/ @,
             ![r].phase = IF req[r].op = "transformed" THEN "replay" ELSE "ended"]
     \/ Fault /\ Leave(r, "control") /\ (Recorded(r) \/ UNCHANGED reservation)

\* A release spawned by a body that was dropped or failed before it disclosed anything.
DetachedRelease(r) ==
  /\ At(r, "detached")
  /\ \/ Released(r) /\ GoTo(r, "ended") /\ NoFault
     \/ /\ Fault /\ UNCHANGED reservation
        /\ req' = [req EXCEPT ![r].phase = "ended", ![r].cause = @ \cup {"control"}]

ClientGone ==
  /\ budget.cancels < MaxCancels
  /\ budget' = [budget EXCEPT !.cancels = @ + 1]

\* The handler's future is dropped at the await it is at: a mutation that was
\* under way may have happened, a reservation or a settlement may have been made.
Cancel(r) ==
  /\ Handling(r) /\ ClientGone
  /\ \E happened \in IF req[r].phase \in {"call", "commit"} THEN BOOLEAN ELSE {req[r].effect} :
       req' = [req EXCEPT ![r].phase = "ended", ![r].effect = happened,
                          ![r].cause = @ \cup {"cancelled"}]
  /\ \/ UNCHANGED reservation
     \/ At(r, "authorize") /\ reservation' = [reservation EXCEPT ![r] = "held"]
     \/ At(r, "release") /\ Released(r)
     \/ At(r, "record") /\ Recorded(r)

GateStep(r) ==
  \/ ResolvePipeline(r) \/ ResolveForWrite(r) \/ Authorize(r)
  \/ BuildSnapshot(r) \/ SnapshotForWrite(r) \/ ResolveBackend(r)
  \/ ReleaseFailure(r) \/ RecordUsage(r) \/ DetachedRelease(r)
  \/ ListParts(r) \/ UploadPart(r) \/ InitiateUpload(r)
=============================================================================
