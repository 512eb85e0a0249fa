-------------------------- MODULE CompletionBilling --------------------------
(* Who pays for a multipart completion.  The operation id of a completion is
   derived from the upload and the canonical request, so that a client's retries
   share one reservation, one journaled write and one usage receipt.

   A request that finds the completion's lease free takes it, asks the journal
   what has become of an earlier attempt, and writes, or adopts the committed
   object with the usage evidence that was persisted before the commit.  The
   lease may lapse under a request that is still at work; the journal's
   reconciler settles a write that was left behind. *)
EXTENDS Naturals, FiniteSets

CONSTANTS
  Retries,          \* exact retries of one CompleteMultipartUpload
  MaxCompletions,   \* bound on the acquisitions of the lease
  MaxBillingFaults  \* bound on failing calls

BillingAssumption == MaxCompletions \in Nat /\ MaxBillingFaults \in Nat

VARIABLES
  avroUpload,    \* the upload's content type is Avro
  retry,         \* the requests: what each is about to do, and its fencing token
  uploadLease,   \* the upload's row: its life, its token, whether the lease is live
  written,       \* the journaled write of the operation
  evidence,      \* the usage evidence under the operation's receipt id
  books,         \* the reservation
  billingFaults

billingVars == <<avroUpload, retry, uploadLease, written, evidence, books, billingFaults>>

NotStarted == [at |-> "idle", token |-> 0]

BillingInit ==
  /\ avroUpload \in BOOLEAN
  /\ retry = [p \in Retries |-> NotStarted]
  /\ uploadLease = [life |-> "OPEN", token |-> 0, live |-> FALSE]
  /\ written = [state |-> "none", live |-> FALSE]
  /\ evidence = FALSE
  /\ books = "none"
  /\ billingFaults = 0

IsAt(p, at) == retry[p].at = at
MoveTo(p, at) == retry' = [retry EXCEPT ![p].at = at]
CallFails == billingFaults < MaxBillingFaults /\ billingFaults' = billingFaults + 1
CallWorks == UNCHANGED billingFaults

\* The body is read and verified, the XML parsed, the pipeline's frozen
\* resolution restored and the backend resolved before anything is reserved.
AskCompletion(p) ==
  /\ IsAt(p, "idle")
  /\ MoveTo(p, "authorize") \/ MoveTo(p, "answered")
  /\ UNCHANGED <<avroUpload, uploadLease, written, evidence, books, billingFaults>>

\* The control plane grants an operation it knows again, with the reservation
\* as it stands; it may also refuse, and reserve without being heard.
AuthorizeCompletion(p) ==
  /\ IsAt(p, "authorize")
  /\ \/ /\ MoveTo(p, "acquire") /\ CallWorks
        /\ books' = IF books = "none" THEN "held" ELSE books
     \/ /\ MoveTo(p, "answered") /\ CallWorks /\ UNCHANGED books
     \/ /\ MoveTo(p, "answered") /\ CallFails
        /\ books' \in {books, IF books = "none" THEN "held" ELSE books}
  /\ UNCHANGED <<avroUpload, uploadLease, written, evidence>>

\* acquire_completion: the recorded result, somebody else's live lease, or the
\* lease.  An error of any other kind gives the reservation back.
AcquireCompletion(p) ==
  /\ IsAt(p, "acquire")
  /\ \/ /\ uploadLease.life = "COMPLETED"
        /\ MoveTo(p, "record") /\ CallWorks /\ UNCHANGED uploadLease
     \/ /\ uploadLease.life = "COMPLETING" /\ uploadLease.live
        /\ MoveTo(p, "answered") /\ CallWorks /\ UNCHANGED uploadLease
     \/ /\ uploadLease.life # "COMPLETED" /\ ~ uploadLease.live
        /\ uploadLease.token < MaxCompletions
        /\ uploadLease' = [life |-> "COMPLETING", token |-> uploadLease.token + 1, live |-> TRUE]
        /\ retry' = [retry EXCEPT ![p] = [at |-> "reconcile", token |-> uploadLease.token + 1]]
        /\ CallWorks
     \/ MoveTo(p, "release") /\ CallFails /\ UNCHANGED uploadLease
  /\ UNCHANGED <<avroUpload, written, evidence, books>>

\* reconcile_claimed, for a write nobody holds any more: aborted when it had not
\* been committed, committed when it had; unknown ones may stay so.
Reconciled == CASE written.state = "OPEN" -> {"ABORTED"}
                [] written.state = "COMMITTING" -> {"COMMITTING", "COMMITTED", "ABORTED"}
                [] OTHER -> {written.state}

\* reconcile_existing_direct_completion
ReconcileExisting(p) ==
  /\ IsAt(p, "reconcile")
  /\ \/ /\ written.state # "none" /\ ~ written.live /\ CallWorks
        /\ \E s \in Reconciled :
             /\ written' = [written EXCEPT !.state = s]
             /\ MoveTo(p, CASE s = "COMMITTED" -> "adopt"
                            [] s = "ABORTED" -> "release"
                            [] OTHER -> "answered")
     \/ /\ written.state = "none" /\ CallWorks
        /\ MoveTo(p, "begin") /\ UNCHANGED written
     \/ /\ written.state # "none" /\ CallWorks   \* pending, or another backend by now
        /\ MoveTo(p, "answered") /\ UNCHANGED written
     \/ CallFails /\ MoveTo(p, "answered") /\ UNCHANGED written
  /\ UNCHANGED <<avroUpload, uploadLease, evidence, books>>

Holding(p) == uploadLease.life = "COMPLETING" /\ uploadLease.token = retry[p].token

Completed == uploadLease' = [uploadLease EXCEPT !.life = "COMPLETED", !.live = FALSE]

\* load_usage_evidence: under the receipt id every exact retry derives.
EvidenceFound == evidence

\* recovered_multipart_result, then complete_completion with the lease's token;
\* an answer that is lost may be that of a call that was done.  Every error keeps
\* the reservation.
AdoptCommitted(p) ==
  /\ IsAt(p, "adopt")
  /\ \/ EvidenceFound /\ Holding(p) /\ Completed /\ MoveTo(p, "record") /\ CallWorks
     \/ ~ (EvidenceFound /\ Holding(p)) /\ MoveTo(p, "answered") /\ UNCHANGED uploadLease /\ CallWorks
     \/ /\ CallFails /\ MoveTo(p, "answered")
        /\ UNCHANGED uploadLease \/ (EvidenceFound /\ Holding(p) /\ Completed)
  /\ UNCHANGED <<avroUpload, written, evidence, books>>

\* renew_and_fence_completion, then begin_streaming_sink inserts the journal's
\* row: there is one per operation id.
BeginWrite(p) ==
  /\ IsAt(p, "begin")
  /\ \/ /\ Holding(p) /\ written.state = "none" /\ CallWorks
        /\ written' = [state |-> "OPEN", live |-> TRUE]
        /\ MoveTo(p, "write")
     \/ /\ ~ Holding(p) \/ written.state # "none"
        /\ CallWorks /\ MoveTo(p, "release") /\ UNCHANGED written
     \/ /\ CallFails /\ MoveTo(p, "release")
        /\ written' \in {written} \cup {w \in {[state |-> "OPEN", live |-> FALSE]} : written.state = "none"}
  /\ UNCHANGED <<avroUpload, uploadLease, evidence, books>>

\* An error before the commit: the reservation is given back and the sink may be
\* aborted.  It is not when the lease is lost, when the abort itself fails, which
\* is ignored, nor by the returns before the sink's errors are caught: reading the
\* parts of the form for Avro, opening the session of the other.
WriteFailed(p) ==
  /\ MoveTo(p, "release")
  /\ written' \in {written} \cup
       {w \in {[state |-> "ABORTED", live |-> FALSE]} : Holding(p) /\ written.state = "OPEN"}

\* The parts are read and the output is written and verified.
WriteParts(p) ==
  /\ IsAt(p, "write")
  /\ \/ MoveTo(p, "evidence") /\ Holding(p) /\ CallWorks /\ UNCHANGED written
     \/ WriteFailed(p) /\ (Holding(p) => CallFails) /\ (~ Holding(p) => CallWorks)
  /\ UNCHANGED <<avroUpload, uploadLease, evidence, books>>

\* Mutant: the evidence is persisted on a best-effort basis.
PersistEvidenceLossy(p) ==
  /\ IsAt(p, "evidence")
  /\ \/ evidence' = TRUE /\ MoveTo(p, "fence") /\ CallWorks
     \/ CallFails /\ MoveTo(p, "fence") /\ UNCHANGED evidence
  /\ UNCHANGED <<avroUpload, uploadLease, written, books>>

\* persist_transaction_usage_evidence, under the deterministic receipt id.
PersistEvidence(p) ==
  /\ IsAt(p, "evidence")
  /\ \/ evidence' = TRUE /\ MoveTo(p, "fence") /\ CallWorks /\ UNCHANGED written
     \/ CallFails /\ WriteFailed(p) /\ UNCHANGED evidence
  /\ UNCHANGED <<avroUpload, uploadLease, books>>

\* Where an error after the start of the commit goes: PreserveReservation, which
\* only the form for records wraps the error in.
AfterCommitError == IF avroUpload THEN "release" ELSE "answered"

\* renew_and_fence_completion before the commit.
FenceCommit(p) ==
  /\ IsAt(p, "fence")
  /\ \/ Holding(p) /\ MoveTo(p, "commit") /\ CallWorks /\ UNCHANGED written
     \/ ~ Holding(p) /\ WriteFailed(p) /\ CallWorks
     \/ CallFails /\ WriteFailed(p)
  /\ UNCHANGED <<avroUpload, uploadLease, evidence, books>>

\* sink.complete: the write is committed, its outcome is unknown, or it was
\* reconciled away under the request.
CommitWrite(p) ==
  /\ IsAt(p, "commit")
  /\ \/ /\ written.state = "OPEN" /\ CallWorks
        /\ written' = [state |-> "COMMITTED", live |-> FALSE]
        /\ MoveTo(p, "settle")
     \/ /\ written.state = "OPEN" /\ CallFails
        /\ written' = [state |-> "COMMITTING", live |-> FALSE]
        /\ MoveTo(p, AfterCommitError)
     \/ /\ written.state # "OPEN" /\ CallWorks
        /\ WriteFailed(p)
  /\ UNCHANGED <<avroUpload, uploadLease, evidence, books>>

\* renew_and_fence_completion and complete_completion, if the lease is still this
\* request's; the call may fail all the same, done or not.
SettleUpload(p) ==
  /\ IsAt(p, "settle")
  /\ \/ Holding(p) /\ Completed /\ MoveTo(p, "record") /\ CallWorks
     \/ ~ Holding(p) /\ MoveTo(p, AfterCommitError) /\ UNCHANGED uploadLease /\ CallWorks
     \/ /\ CallFails /\ MoveTo(p, AfterCommitError)
        /\ UNCHANGED uploadLease \/ (Holding(p) /\ Completed)
  /\ UNCHANGED <<avroUpload, written, evidence, books>>

\* record_durable_operation_with_event: replays of a receipt are one receipt; an
\* operation whose reservation was given back is not recorded.
RecordCompletion(p) ==
  /\ IsAt(p, "record")
  /\ MoveTo(p, "answered")
  /\ \/ books' = (IF books = "held" THEN "recorded" ELSE books) /\ CallWorks
     \/ CallFails /\ books' \in {books, IF books = "held" THEN "recorded" ELSE books}
  /\ UNCHANGED <<avroUpload, uploadLease, written, evidence>>

\* multipart_completion_failure_response
ReleaseCompletion(p) ==
  /\ IsAt(p, "release")
  /\ MoveTo(p, "answered")
  /\ \/ books' = (IF books = "held" THEN "released" ELSE books) /\ CallWorks
     \/ CallFails /\ books' \in {books, IF books = "held" THEN "released" ELSE books}
  /\ UNCHANGED <<avroUpload, uploadLease, written, evidence>>

\* The hosted time limit, or the client, ends the request where it is; a commit
\* that was under way may have happened.
CompletionCut(p) ==
  /\ retry[p].at \notin {"idle", "answered"} /\ CallFails
  /\ MoveTo(p, "answered")
  /\ written' \in {written} \cup
       {w \in {[state |-> "COMMITTING", live |-> FALSE]} : IsAt(p, "commit") /\ written.state = "OPEN"}
  /\ UNCHANGED <<avroUpload, uploadLease, evidence, books>>

\* The client asks again.
RetryCompletion(p) ==
  /\ IsAt(p, "answered") /\ books # "recorded"
  /\ retry' = [retry EXCEPT ![p] = NotStarted]
  /\ UNCHANGED <<avroUpload, uploadLease, written, evidence, books, billingFaults>>

\* COMPLETION_LEASE passes without a renewal; the journal's lease likewise.
LeaseLapses ==
  /\ uploadLease.live
  /\ uploadLease' = [uploadLease EXCEPT !.live = FALSE]
  /\ UNCHANGED <<avroUpload, retry, written, evidence, books, billingFaults>>

WriteLapses ==
  /\ written.live
  /\ written' = [written EXCEPT !.live = FALSE]
  /\ UNCHANGED <<avroUpload, retry, uploadLease, evidence, books, billingFaults>>

\* The background reconciler.
ReconcileInBackground ==
  /\ written.state \in {"OPEN", "COMMITTING"} /\ ~ written.live
  /\ \E s \in Reconciled : written' = [written EXCEPT !.state = s]
  /\ UNCHANGED <<avroUpload, retry, uploadLease, evidence, books, billingFaults>>

BillingStep(p) ==
  \/ AuthorizeCompletion(p) \/ AcquireCompletion(p) \/ ReconcileExisting(p) \/ AdoptCommitted(p)
  \/ BeginWrite(p) \/ WriteParts(p) \/ PersistEvidence(p) \/ FenceCommit(p) \/ CommitWrite(p)
  \/ SettleUpload(p) \/ RecordCompletion(p) \/ ReleaseCompletion(p)

BillingNext ==
  \/ \E p \in Retries : AskCompletion(p) \/ BillingStep(p) \/ CompletionCut(p) \/ RetryCompletion(p)
  \/ LeaseLapses \/ WriteLapses \/ ReconcileInBackground

BillingSpec == BillingInit /\ [][BillingNext]_billingVars

-----------------------------------------------------------------------------
(* A completion is charged for an object that exists: usage is recorded, and the
   upload is completed, only over a committed write whose evidence was persisted
   before the commit, so that a later request that adopts the object finds what
   to charge; and a write that was aborted is never charged for. *)
ChargedForCommitted ==
  /\ books = "recorded" \/ uploadLease.life = "COMPLETED" => written.state = "COMMITTED"
  /\ written.state \in {"COMMITTING", "COMMITTED"} => evidence

(* control.rs: release is for a reservation whose "operation did not become
   billable": the reservation of a completion whose object is committed has not
   been given back. *)
CommittedNotReleased == written.state = "COMMITTED" => books # "released"
=============================================================================
