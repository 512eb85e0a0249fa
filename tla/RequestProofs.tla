---------------------------- MODULE RequestProofs ----------------------------
(* What is proved about requests, for any number of requests, credentials, versions,
   faults, cancellations, overwrites and crashes.

   Who is let in, where a write goes and who pays for it (Authentication,
   BackendRouting, CompletionBilling): each part has one inductive invariant, a conjunction of named parts, and for each
   action one lemma that says that the action preserves it.

   What becomes of a reservation, and what of an object is disclosed (FrontDoor): a
   request's state, its reservation and its spool are changed by steps of that
   request alone (a crash apart), so the inductive invariant is a predicate of one
   request, RequestOK, and the quota's count over all of them. *)
EXTENDS Authentication, BackendRouting, CompletionBilling, FrontDoor,
        FiniteSetTheorems, SequenceTheorems, TLAPS

-----------------------------------------------------------------------------
(* Completions *)

\* Where a request of a completion can be.
CompletionPoints ==
  {"idle", "authorize", "acquire", "reconcile", "adopt", "begin", "write", "evidence",
   "fence", "commit", "settle", "record", "release", "answered"}

UploadRows == [life : {"OPEN", "COMPLETING", "COMPLETED"}, token : Nat, live : BOOLEAN]
WrittenStates == {"none", "OPEN", "COMMITTING", "COMMITTED", "ABORTED"}
WrittenRows == [state : WrittenStates, live : BOOLEAN]

BillingTypeOK ==
  /\ avroUpload \in BOOLEAN
  /\ retry \in [Retries -> [at : CompletionPoints, token : Nat]]
  /\ uploadLease \in UploadRows
  /\ written \in WrittenRows
  /\ evidence \in BOOLEAN
  /\ books \in {"none", "held", "released", "recorded"}
  /\ billingFaults \in Nat

(* A request that is about to complete the upload or to record its usage knows
   the write to be committed, and one that is about to commit has persisted the
   evidence: both facts outlive the request's lease, for nobody takes a commit
   or the evidence back. *)
KnownCommitted ==
  \A p \in Retries :
    /\ retry[p].at \in {"adopt", "settle", "record"} => written.state = "COMMITTED"
    /\ retry[p].at \in {"fence", "commit"} => evidence

BillingInvariant == BillingTypeOK /\ KnownCommitted /\ ChargedForCommitted

\* The rows of uploads that the actions write are rows.
LEMMA UploadRowsWritten ==
  /\ \A r \in UploadRows : /\ [life |-> "COMPLETING", token |-> r.token + 1, live |-> TRUE] \in UploadRows
                          /\ [r EXCEPT !.life = "COMPLETED", !.live = FALSE] \in UploadRows
                          /\ r.token + 1 \in Nat
<1>1. \A n \in Nat : [life |-> "COMPLETING", token |-> n, live |-> TRUE] \in UploadRows
  BY Zenon DEF UploadRows
<1>2. \A r \in UploadRows : [r EXCEPT !.life = "COMPLETED", !.live = FALSE] \in UploadRows
  BY DEF UploadRows
<1>3. \A r \in UploadRows : r.token + 1 \in Nat
  BY DEF UploadRows
<1> QED BY <1>1, <1>2, <1>3

\* So are the journal's rows.
LEMMA WrittenRowsWritten ==
  \A s \in WrittenStates : \A b \in BOOLEAN : [state |-> s, live |-> b] \in WrittenRows
  BY Zenon DEF WrittenRows

(* The invariant holds before the first request. *)
LEMMA BillingInitially == ASSUME BillingInit PROVE BillingInvariant
  BY DEF BillingInit, NotStarted, BillingInvariant, BillingTypeOK, KnownCommitted,
         ChargedForCommitted, CompletionPoints,
         UploadRows, WrittenRows, WrittenStates

(* A request that moves on keeps what the others know, when a commit and the
   evidence stay, and knows itself what its new place calls for. *)
LEMMA RequestMoves ==
  ASSUME BillingTypeOK, KnownCommitted, NEW p \in Retries, NEW at \in CompletionPoints,
         NEW token \in Nat, retry' = [retry EXCEPT ![p] = [at |-> at, token |-> token]],
         written.state = "COMMITTED" => written'.state = "COMMITTED",
         evidence => evidence',
         at \in {"adopt", "settle", "record"} => written'.state = "COMMITTED",
         at \in {"fence", "commit"} => evidence'
  PROVE  retry' \in [Retries -> [at : CompletionPoints, token : Nat]] /\ KnownCommitted'
  BY DEF BillingTypeOK, KnownCommitted

\* MoveTo is such a move with the token kept.
LEMMA MoveKeepsToken ==
  ASSUME BillingTypeOK, NEW p \in Retries, NEW at \in CompletionPoints, MoveTo(p, at)
  PROVE  /\ retry' = [retry EXCEPT ![p] = [at |-> at, token |-> retry[p].token]]
         /\ retry[p].token \in Nat
<1>1. retry[p] \in [at : CompletionPoints, token : Nat]
  BY DEF BillingTypeOK
<1>2. [retry[p] EXCEPT !.at = at] = [at |-> at, token |-> retry[p].token]
  BY <1>1
<1> QED
  BY <1>1, <1>2 DEF BillingTypeOK, MoveTo

(* Every step of a retry and of the background keeps it. *)
LEMMA BillingStepPreserves ==
  ASSUME BillingInvariant, [BillingNext]_billingVars PROVE BillingInvariant'
<1> USE DEF BillingInvariant
<1>1. ASSUME NEW p \in Retries, AskCompletion(p) PROVE BillingInvariant'
  BY <1>1 DEF AskCompletion, IsAt, MoveTo, BillingTypeOK,
                KnownCommitted, ChargedForCommitted, CompletionPoints, UploadRows, WrittenRows, WrittenStates
<1>2. ASSUME NEW p \in Retries, AuthorizeCompletion(p) PROVE BillingInvariant'
  BY <1>2 DEF AuthorizeCompletion, IsAt, MoveTo, CallWorks, CallFails, BillingTypeOK,
                KnownCommitted, ChargedForCommitted, CompletionPoints, UploadRows, WrittenRows, WrittenStates
<1>3. ASSUME NEW p \in Retries, AcquireCompletion(p) PROVE BillingInvariant'
  <2>1. uploadLease' \in UploadRows /\ uploadLease.token + 1 \in Nat
    BY <1>3, UploadRowsWritten DEF AcquireCompletion, BillingTypeOK
  <2>2. written' \in WrittenRows /\ evidence' \in BOOLEAN
    BY <1>3 DEF AcquireCompletion, BillingTypeOK
  <2>3. /\ avroUpload' \in BOOLEAN /\ billingFaults' \in Nat
        /\ books' \in {"none", "held", "released", "recorded"}
    BY <1>3 DEF AcquireCompletion, CallWorks, CallFails, BillingTypeOK
  <2>4. PICK at \in CompletionPoints, token \in Nat :
          /\ retry' = [retry EXCEPT ![p] = [at |-> at, token |-> token]]
          /\ at \in {"adopt", "settle", "record"} => written'.state = "COMMITTED"
          /\ at \in {"fence", "commit"} => evidence'
    BY <1>3, <2>1, MoveKeepsToken
    DEF AcquireCompletion, IsAt, KnownCommitted, BillingTypeOK, CompletionPoints, ChargedForCommitted
  <2>5. (written.state = "COMMITTED" => written'.state = "COMMITTED") /\ (evidence => evidence')
    BY <1>3 DEF AcquireCompletion, BillingTypeOK
  <2>6. ChargedForCommitted'
    BY <1>3, <2>5 DEF AcquireCompletion, IsAt, KnownCommitted, ChargedForCommitted, BillingTypeOK
  <2> QED
    BY <2>1, <2>2, <2>3, <2>4, <2>5, <2>6, RequestMoves DEF BillingTypeOK
<1>4. ASSUME NEW p \in Retries, ReconcileExisting(p) PROVE BillingInvariant'
  BY <1>4 DEF ReconcileExisting, Reconciled, IsAt, MoveTo, CallWorks, CallFails, BillingTypeOK,
                KnownCommitted, ChargedForCommitted, CompletionPoints, UploadRows, WrittenRows, WrittenStates
<1>5. ASSUME NEW p \in Retries, AdoptCommitted(p) PROVE BillingInvariant'
  <2>1. uploadLease' \in UploadRows /\ uploadLease.token + 1 \in Nat
    BY <1>5, UploadRowsWritten DEF AdoptCommitted, EvidenceFound, Completed, Holding, BillingTypeOK
  <2>2. written' \in WrittenRows /\ evidence' \in BOOLEAN
    BY <1>5 DEF AdoptCommitted, EvidenceFound, Completed, Holding, BillingTypeOK
  <2>3. /\ avroUpload' \in BOOLEAN /\ billingFaults' \in Nat
        /\ books' \in {"none", "held", "released", "recorded"}
    BY <1>5 DEF AdoptCommitted, CallWorks, CallFails, BillingTypeOK
  <2>4. PICK at \in CompletionPoints, token \in Nat :
          /\ retry' = [retry EXCEPT ![p] = [at |-> at, token |-> token]]
          /\ at \in {"adopt", "settle", "record"} => written'.state = "COMMITTED"
          /\ at \in {"fence", "commit"} => evidence'
    BY <1>5, <2>1, MoveKeepsToken
    DEF AdoptCommitted, EvidenceFound, Completed, Holding, IsAt, KnownCommitted, BillingTypeOK, CompletionPoints, ChargedForCommitted
  <2>5. (written.state = "COMMITTED" => written'.state = "COMMITTED") /\ (evidence => evidence')
    BY <1>5 DEF AdoptCommitted, EvidenceFound, Completed, Holding, BillingTypeOK
  <2>6. ChargedForCommitted'
    BY <1>5, <2>5 DEF AdoptCommitted, EvidenceFound, Completed, Holding, IsAt, KnownCommitted, ChargedForCommitted, BillingTypeOK
  <2> QED
    BY <2>1, <2>2, <2>3, <2>4, <2>5, <2>6, RequestMoves DEF BillingTypeOK
<1>6. ASSUME NEW p \in Retries, BeginWrite(p) PROVE BillingInvariant'
  <2>1. uploadLease' \in UploadRows /\ evidence' \in BOOLEAN
    BY <1>6 DEF BeginWrite, BillingTypeOK
  <2>2. written' \in WrittenRows
    BY <1>6, WrittenRowsWritten DEF BeginWrite, BillingTypeOK, WrittenStates
  <2>3. /\ avroUpload' \in BOOLEAN /\ billingFaults' \in Nat
        /\ books' \in {"none", "held", "released", "recorded"}
    BY <1>6 DEF BeginWrite, CallWorks, CallFails, BillingTypeOK
  <2>4. PICK at \in CompletionPoints, token \in Nat :
          /\ retry' = [retry EXCEPT ![p] = [at |-> at, token |-> token]]
          /\ at \in {"adopt", "settle", "record"} => written'.state = "COMMITTED"
          /\ at \in {"fence", "commit"} => evidence'
    BY <1>6, MoveKeepsToken
    DEF BeginWrite, IsAt, KnownCommitted, BillingTypeOK, CompletionPoints, ChargedForCommitted
  <2>5. (written.state = "COMMITTED" => written'.state = "COMMITTED") /\ (evidence => evidence')
    BY <1>6 DEF BeginWrite, BillingTypeOK
  <2>6. ChargedForCommitted'
    BY <1>6, <2>5 DEF BeginWrite, IsAt, KnownCommitted, ChargedForCommitted, BillingTypeOK
  <2> QED
    BY <2>1, <2>2, <2>3, <2>4, <2>5, <2>6, RequestMoves DEF BillingTypeOK
<1>7. ASSUME NEW p \in Retries, WriteParts(p) PROVE BillingInvariant'
  <2>1. uploadLease' \in UploadRows /\ evidence' \in BOOLEAN
    BY <1>7 DEF WriteParts, WriteFailed, BillingTypeOK
  <2>2. written' \in WrittenRows
    BY <1>7, WrittenRowsWritten DEF WriteParts, WriteFailed, BillingTypeOK, WrittenStates
  <2>3. /\ avroUpload' \in BOOLEAN /\ billingFaults' \in Nat
        /\ books' \in {"none", "held", "released", "recorded"}
    BY <1>7 DEF WriteParts, CallWorks, CallFails, BillingTypeOK
  <2>4. PICK at \in CompletionPoints, token \in Nat :
          /\ retry' = [retry EXCEPT ![p] = [at |-> at, token |-> token]]
          /\ at \in {"adopt", "settle", "record"} => written'.state = "COMMITTED"
          /\ at \in {"fence", "commit"} => evidence'
    BY <1>7, MoveKeepsToken
    DEF WriteParts, WriteFailed, IsAt, KnownCommitted, BillingTypeOK, CompletionPoints, ChargedForCommitted
  <2>5. (written.state = "COMMITTED" => written'.state = "COMMITTED") /\ (evidence => evidence')
    BY <1>7 DEF WriteParts, WriteFailed, BillingTypeOK
  <2>6. ChargedForCommitted'
    BY <1>7, <2>5 DEF WriteParts, WriteFailed, IsAt, KnownCommitted, ChargedForCommitted, BillingTypeOK
  <2> QED
    BY <2>1, <2>2, <2>3, <2>4, <2>5, <2>6, RequestMoves DEF BillingTypeOK
<1>8. ASSUME NEW p \in Retries, PersistEvidence(p) PROVE BillingInvariant'
  <2>1. uploadLease' \in UploadRows /\ evidence' \in BOOLEAN
    BY <1>8, Zenon DEF PersistEvidence, WriteFailed, BillingTypeOK
  <2>2. written' \in WrittenRows
    BY <1>8, WrittenRowsWritten DEF PersistEvidence, WriteFailed, BillingTypeOK, WrittenStates
  <2>3. avroUpload' = avroUpload /\ books' = books /\ (CallWorks \/ CallFails)
    BY <1>8 DEF PersistEvidence
  <2>4. PICK at \in CompletionPoints, token \in Nat :
          /\ retry' = [retry EXCEPT ![p] = [at |-> at, token |-> token]]
          /\ at \in {"adopt", "settle", "record"} => written'.state = "COMMITTED"
          /\ at \in {"fence", "commit"} => evidence'
    BY <1>8, MoveKeepsToken
    DEF PersistEvidence, WriteFailed, IsAt, KnownCommitted, BillingTypeOK, CompletionPoints, ChargedForCommitted
  <2>5. (written.state = "COMMITTED" => written'.state = "COMMITTED") /\ (evidence => evidence')
    BY <1>8 DEF PersistEvidence, WriteFailed, BillingTypeOK
  <2>6. ChargedForCommitted'
    BY <1>8, <2>5 DEF PersistEvidence, WriteFailed, IsAt, KnownCommitted, ChargedForCommitted, BillingTypeOK
  <2>7. billingFaults' \in Nat
    BY <2>3 DEF CallWorks, CallFails, BillingTypeOK
  <2> QED
    BY <2>1, <2>2, <2>3, <2>4, <2>5, <2>6, <2>7, RequestMoves DEF BillingTypeOK
<1>9. ASSUME NEW p \in Retries, CommitWrite(p) PROVE BillingInvariant'
  <2>1. uploadLease' \in UploadRows /\ evidence' \in BOOLEAN
    BY <1>9 DEF CommitWrite, AfterCommitError, WriteFailed, BillingTypeOK
  <2>2. written' \in WrittenRows
    BY <1>9, WrittenRowsWritten DEF CommitWrite, AfterCommitError, WriteFailed, BillingTypeOK, WrittenStates
  <2>3. avroUpload' = avroUpload /\ books' = books /\ (CallWorks \/ CallFails)
    BY <1>9 DEF CommitWrite
  <2>4. PICK at \in CompletionPoints, token \in Nat :
          /\ retry' = [retry EXCEPT ![p] = [at |-> at, token |-> token]]
          /\ at \in {"adopt", "settle", "record"} => written'.state = "COMMITTED"
          /\ at \in {"fence", "commit"} => evidence'
    BY <1>9, MoveKeepsToken
    DEF CommitWrite, AfterCommitError, WriteFailed, IsAt, KnownCommitted, BillingTypeOK, CompletionPoints, ChargedForCommitted
  <2>5. (written.state = "COMMITTED" => written'.state = "COMMITTED") /\ (evidence => evidence')
    BY <1>9 DEF CommitWrite, AfterCommitError, WriteFailed, BillingTypeOK
  <2>6. ChargedForCommitted'
    BY <1>9, <2>5 DEF CommitWrite, AfterCommitError, WriteFailed, IsAt, KnownCommitted, ChargedForCommitted, BillingTypeOK
  <2>7. billingFaults' \in Nat
    BY <2>3 DEF CallWorks, CallFails, BillingTypeOK
  <2> QED
    BY <2>1, <2>2, <2>3, <2>4, <2>5, <2>6, <2>7, RequestMoves DEF BillingTypeOK
<1>10. ASSUME NEW p \in Retries, SettleUpload(p) PROVE BillingInvariant'
  <2>1. uploadLease' \in UploadRows /\ uploadLease.token + 1 \in Nat
    BY <1>10, UploadRowsWritten DEF SettleUpload, AfterCommitError, Completed, Holding, BillingTypeOK
  <2>2. written' \in WrittenRows /\ evidence' \in BOOLEAN
    BY <1>10 DEF SettleUpload, AfterCommitError, Completed, Holding, BillingTypeOK
  <2>3. /\ avroUpload' \in BOOLEAN /\ billingFaults' \in Nat
        /\ books' \in {"none", "held", "released", "recorded"}
    BY <1>10 DEF SettleUpload, CallWorks, CallFails, BillingTypeOK
  <2>4. PICK at \in CompletionPoints, token \in Nat :
          /\ retry' = [retry EXCEPT ![p] = [at |-> at, token |-> token]]
          /\ at \in {"adopt", "settle", "record"} => written'.state = "COMMITTED"
          /\ at \in {"fence", "commit"} => evidence'
    BY <1>10, <2>1, MoveKeepsToken
    DEF SettleUpload, AfterCommitError, Completed, Holding, IsAt, KnownCommitted, BillingTypeOK, CompletionPoints, ChargedForCommitted
  <2>5. (written.state = "COMMITTED" => written'.state = "COMMITTED") /\ (evidence => evidence')
    BY <1>10 DEF SettleUpload, AfterCommitError, Completed, Holding, BillingTypeOK
  <2>6. ChargedForCommitted'
    BY <1>10, <2>5 DEF SettleUpload, AfterCommitError, Completed, Holding, IsAt, KnownCommitted, ChargedForCommitted, BillingTypeOK
  <2> QED
    BY <2>1, <2>2, <2>3, <2>4, <2>5, <2>6, RequestMoves DEF BillingTypeOK
<1>11. ASSUME NEW p \in Retries, RecordCompletion(p) PROVE BillingInvariant'
  BY <1>11 DEF RecordCompletion, IsAt, MoveTo, CallWorks, CallFails, BillingTypeOK,
                KnownCommitted, ChargedForCommitted, CompletionPoints, UploadRows, WrittenRows, WrittenStates
<1>12. ASSUME NEW p \in Retries, ReleaseCompletion(p) PROVE BillingInvariant'
  BY <1>12 DEF ReleaseCompletion, IsAt, MoveTo, CallWorks, CallFails, BillingTypeOK,
                KnownCommitted, ChargedForCommitted, CompletionPoints, UploadRows, WrittenRows, WrittenStates
<1>13. ASSUME NEW p \in Retries, CompletionCut(p) PROVE BillingInvariant'
  <2>1. uploadLease' \in UploadRows /\ evidence' \in BOOLEAN
    BY <1>13 DEF CompletionCut, BillingTypeOK
  <2>2. written' \in WrittenRows
    BY <1>13, WrittenRowsWritten DEF CompletionCut, BillingTypeOK, WrittenStates
  <2>3. /\ avroUpload' \in BOOLEAN /\ billingFaults' \in Nat
        /\ books' \in {"none", "held", "released", "recorded"}
    BY <1>13 DEF CompletionCut, CallFails, BillingTypeOK
  <2>4. PICK at \in CompletionPoints, token \in Nat :
          /\ retry' = [retry EXCEPT ![p] = [at |-> at, token |-> token]]
          /\ at \in {"adopt", "settle", "record"} => written'.state = "COMMITTED"
          /\ at \in {"fence", "commit"} => evidence'
    BY <1>13, MoveKeepsToken
    DEF CompletionCut, IsAt, KnownCommitted, BillingTypeOK, CompletionPoints, ChargedForCommitted
  <2>5. (written.state = "COMMITTED" => written'.state = "COMMITTED") /\ (evidence => evidence')
    BY <1>13 DEF CompletionCut, BillingTypeOK
  <2>6. ChargedForCommitted'
    BY <1>13, <2>5 DEF CompletionCut, IsAt, KnownCommitted, ChargedForCommitted, BillingTypeOK
  <2> QED
    BY <2>1, <2>2, <2>3, <2>4, <2>5, <2>6, RequestMoves DEF BillingTypeOK
<1>14. ASSUME NEW p \in Retries, RetryCompletion(p) PROVE BillingInvariant'
  BY <1>14 DEF RetryCompletion, NotStarted, IsAt, BillingTypeOK,
                KnownCommitted, ChargedForCommitted, CompletionPoints, UploadRows, WrittenRows, WrittenStates
<1>15. CASE LeaseLapses
  BY <1>15 DEF LeaseLapses, UploadRows, BillingTypeOK, KnownCommitted, ChargedForCommitted
<1>16. CASE WriteLapses
  BY <1>16 DEF WriteLapses, WrittenRows, WrittenStates, BillingTypeOK, KnownCommitted, ChargedForCommitted
<1>17. CASE ReconcileInBackground
  BY <1>17 DEF ReconcileInBackground, WrittenRows, WrittenStates, Reconciled, BillingTypeOK, KnownCommitted, ChargedForCommitted
<1>18. CASE UNCHANGED billingVars
  BY <1>18 DEF billingVars, BillingTypeOK, KnownCommitted, ChargedForCommitted
<1>19. ASSUME NEW p \in Retries, FenceCommit(p) PROVE BillingInvariant'
  <2>1. uploadLease' \in UploadRows /\ evidence' \in BOOLEAN
    BY <1>19 DEF FenceCommit, WriteFailed, BillingTypeOK
  <2>2. written' \in WrittenRows
    BY <1>19, WrittenRowsWritten DEF FenceCommit, WriteFailed, BillingTypeOK, WrittenStates
  <2>3. avroUpload' = avroUpload /\ books' = books /\ (CallWorks \/ CallFails)
    BY <1>19 DEF FenceCommit
  <2>4. PICK at \in CompletionPoints, token \in Nat :
          /\ retry' = [retry EXCEPT ![p] = [at |-> at, token |-> token]]
          /\ at \in {"adopt", "settle", "record"} => written'.state = "COMMITTED"
          /\ at \in {"fence", "commit"} => evidence'
    BY <1>19, MoveKeepsToken
    DEF FenceCommit, WriteFailed, IsAt, KnownCommitted, BillingTypeOK, CompletionPoints, ChargedForCommitted
  <2>5. (written.state = "COMMITTED" => written'.state = "COMMITTED") /\ (evidence => evidence')
    BY <1>19 DEF FenceCommit, WriteFailed, BillingTypeOK
  <2>6. ChargedForCommitted'
    BY <1>19, <2>5 DEF FenceCommit, WriteFailed, IsAt, KnownCommitted, ChargedForCommitted, BillingTypeOK
  <2>7. billingFaults' \in Nat
    BY <2>3 DEF CallWorks, CallFails, BillingTypeOK
  <2> QED
    BY <2>1, <2>2, <2>3, <2>4, <2>5, <2>6, <2>7, RequestMoves DEF BillingTypeOK
<1> QED
  BY <1>1, <1>2, <1>3, <1>4, <1>5, <1>6, <1>7, <1>8, <1>9, <1>10, <1>11, <1>12, <1>13, <1>14,
     <1>15, <1>16, <1>17, <1>18, <1>19 DEF BillingNext, BillingStep

(* A completion is charged for, and its upload completed, only over a committed
   write whose evidence was persisted first (complete_staged_multipart). *)
THEOREM CompletionsCharged == BillingSpec => []ChargedForCommitted
<1>1. BillingInit => BillingInvariant
  BY BillingInitially
<1>2. BillingInvariant /\ [BillingNext]_billingVars => BillingInvariant'
  BY BillingStepPreserves
<1>3. BillingInvariant => ChargedForCommitted
  BY DEF BillingInvariant
<1> QED
  BY <1>1, <1>2, <1>3, PTL DEF BillingSpec

-----------------------------------------------------------------------------
(* Routes *)

Places == Versions \cup {"managed", "global", "memory", "presigned"}
RouteRequests ==
  [at : {"idle", "resolved", "writing", "ended", "leased", "acting"}, place : Places \cup {Unset},
   epoch : Nat, token : Nat]

LeaseRows ==
  [state : {"none", "held", "settled"}, version : Places \cup {Unset}, epoch : Nat, token : Nat, live : BOOLEAN]
BoundRows ==
  [state : {"none", "open", "terminal"}, version : Places \cup {Unset}, epoch : Nat, token : Nat]
Workspaces == [version : Versions \cup {Unset}, epoch : Nat \ {0}, moving : BOOLEAN]

RoutingTypeOK ==
  /\ workspace \in Workspaces
  /\ write \in [Writes -> RouteRequests]
  /\ recovery \in [Writes -> RouteRequests]
  /\ lease \in [Writes -> LeaseRows]
  /\ bound \in [Writes -> BoundRows]
  /\ places \in [Writes -> SUBSET (Places \cup {Unset})]
  /\ calls \in [Writes -> SUBSET (Places \cup {Unset})]
  /\ fence \in Nat
  /\ forced \in BOOLEAN

(* One store for each write: the one its request was resolved to.  A row and a
   lease exist together, of a request that was admitted to that store, and a
   recovery acts on the row's version. *)
OneRoute(o) ==
  /\ places[o] \subseteq {write[o].place} /\ calls[o] \subseteq {write[o].place}
  /\ write[o].at \in {"idle", "resolved"} => bound[o].state = "none" /\ places[o] = {} /\ calls[o] = {}
  /\ calls[o] # {} /\ write[o].place \in Versions => bound[o].state # "none"
  /\ lease[o].state # "none" <=> bound[o].state # "none"
  /\ bound[o].state # "none" => bound[o].version = write[o].place /\ lease[o].version = bound[o].version
  /\ recovery[o].at # "idle" => bound[o].state # "none"
  /\ recovery[o].at = "acting" => recovery[o].place = bound[o].version

(* Only a workspace whose routing is persisted has epochs and leases, and an open
   lease pins the active version: no switch starts or ends under it. *)
LeasePins(o) ==
  /\ write[o].epoch # 0 => deploy.persisted
  /\ lease[o].state = "held" =>
       /\ deploy.persisted
       /\ ~ forced => lease[o].version = workspace.version /\ ~ workspace.moving

RoutingInvariant ==
  /\ RoutingTypeOK
  /\ \A o \in Writes : OneRoute(o)
  /\ \A o \in Writes : LeasePins(o)

\* The requests and recoveries the actions write are such records.
LEMMA RequestsWritten ==
  /\ NotRouted \in RouteRequests
  /\ \A p \in Places \cup {Unset}, e, t \in Nat :
       [at |-> "resolved", place |-> p, epoch |-> e, token |-> t] \in RouteRequests
  /\ \A e, t \in Nat : [at |-> "leased", place |-> Unset, epoch |-> e, token |-> t] \in RouteRequests
  /\ \A r \in RouteRequests :
       /\ [r EXCEPT !.at = "ended"] \in RouteRequests
       /\ [r EXCEPT !.at = "writing"] \in RouteRequests
       /\ \A t \in Nat : [r EXCEPT !.at = "writing", !.token = t] \in RouteRequests
       /\ \A p \in Places \cup {Unset} : [r EXCEPT !.at = "acting", !.place = p] \in RouteRequests
       /\ r.epoch \in Nat /\ r.place \in Places \cup {Unset}
<1>1. NotRouted \in RouteRequests
  BY Zenon DEF NotRouted, RouteRequests
<1> QED
  BY <1>1 DEF RouteRequests

\* So are the rows of leases,
LEMMA LeasesWritten ==
  /\ NoLease \in LeaseRows
  /\ \A v \in Places \cup {Unset}, e, t \in Nat :
       [state |-> "held", version |-> v, epoch |-> e, token |-> t, live |-> TRUE] \in LeaseRows
  /\ \A r \in LeaseRows :
       /\ [r EXCEPT !.state = "settled"] \in LeaseRows
       /\ [r EXCEPT !.live = FALSE] \in LeaseRows
       /\ \A t \in Nat : [r EXCEPT !.token = t, !.live = TRUE] \in LeaseRows
<1>1. NoLease \in LeaseRows
  BY Zenon DEF NoLease, LeaseRows
<1>2. \A v \in Places \cup {Unset}, e, t \in Nat :
        [state |-> "held", version |-> v, epoch |-> e, token |-> t, live |-> TRUE] \in LeaseRows
  BY Zenon DEF LeaseRows
<1> QED
  BY <1>1, <1>2 DEF LeaseRows

\* and the journal's.
LEMMA BoundsWritten ==
  /\ NoRow \in BoundRows
  /\ \A v \in Places \cup {Unset}, e, t \in Nat :
       [state |-> "open", version |-> v, epoch |-> e, token |-> t] \in BoundRows
  /\ \A r \in BoundRows :
       /\ [r EXCEPT !.state = "terminal"] \in BoundRows
       /\ \A t \in Nat : [r EXCEPT !.token = t] \in BoundRows
       /\ r.version \in Places \cup {Unset} /\ r.epoch \in Nat
<1>1. NoRow \in BoundRows
  BY Zenon DEF NoRow, BoundRows
<1> QED
  BY <1>1 DEF BoundRows

\* Settling keeps leases leases.
LEMMA SettledLeases ==
  ASSUME RoutingTypeOK, NEW o \in Writes, lease' = [lease EXCEPT ![o].state = "settled"]
  PROVE  lease' \in [Writes -> LeaseRows]
<1>1. lease[o] \in LeaseRows
  BY DEF RoutingTypeOK
<1>2. [lease[o] EXCEPT !.state = "settled"] \in LeaseRows
  BY <1>1 DEF LeaseRows
<1>3. lease' = [lease EXCEPT ![o] = [lease[o] EXCEPT !.state = "settled"]]
  OBVIOUS
<1> QED
  BY <1>2, <1>3 DEF RoutingTypeOK

\* A resolution names a place or none.
LEMMA ResolvedPlace ==
  ASSUME RoutingTypeOK, NEW header
  PROVE  ResolveWithRouting(header) \in Places \cup {Unset}
  BY DEF RoutingTypeOK, Workspaces, ResolveWithRouting, DefaultPlace, Places

(* The invariant holds before the first request. *)
LEMMA RoutingInitially == ASSUME RoutingInit PROVE RoutingInvariant
<1>1. workspace \in Workspaces
  BY DEF RoutingInit, Workspaces
<1>2. RoutingTypeOK
  BY <1>1, RequestsWritten, LeasesWritten, BoundsWritten DEF RoutingInit, RoutingTypeOK
<1> QED
  BY <1>2 DEF RoutingInit, NotRouted, NoLease, NoRow, RoutingInvariant, OneRoute, LeasePins

(* Every step keeps it. *)
LEMMA RoutingStepPreserves ==
  ASSUME RoutingInvariant, [RoutingNext]_routingVars PROVE RoutingInvariant'
<1> USE DEF RoutingInvariant
<1>1. ASSUME NEW o \in Writes, ResolveWorkspace(o) PROVE RoutingInvariant'
  <2>1. PICK place \in Places \cup {Unset}, epoch \in Nat :
          /\ epoch # 0 => deploy.persisted
          /\ \/ write' = [write EXCEPT ![o] = [at |-> "resolved", place |-> place, epoch |-> epoch, token |-> 0]]
             \/ write' = [write EXCEPT ![o].at = "ended"]
    BY <1>1, ResolvedPlace DEF ResolveWorkspace, StableEpoch, RoutingTypeOK, Workspaces
  <2>2. /\ UNCHANGED <<deploy, workspace, lease, bound, recovery, places, calls, fence, forced>>
        /\ write[o].at = "idle"
    BY <1>1 DEF ResolveWorkspace
  <2>3. RoutingTypeOK'
    <3>1. write[o] \in RouteRequests
      BY DEF RoutingTypeOK
    <3>2. [at |-> "resolved", place |-> place, epoch |-> epoch, token |-> 0] \in RouteRequests
      BY RequestsWritten
    <3>3. write' \in [Writes -> RouteRequests]
      BY <2>1, <3>1, <3>2, RequestsWritten DEF RoutingTypeOK
    <3> QED BY <2>2, <3>3 DEF RoutingTypeOK
  <2>4. ASSUME NEW q \in Writes PROVE OneRoute(q)'
    BY <2>1, <2>2 DEF RoutingTypeOK, OneRoute, RouteRequests
  <2>5. ASSUME NEW q \in Writes PROVE LeasePins(q)'
    <3>1. LeasePins(q)
      OBVIOUS
    <3>2. write'[q].epoch # 0 => deploy.persisted
      BY <2>1, <3>1 DEF RoutingTypeOK, LeasePins, RouteRequests
    <3> QED BY <2>2, <3>1, <3>2 DEF LeasePins
  <2> QED BY <2>3, <2>4, <2>5
<1>2. ASSUME NEW o \in Writes, RefuseBackend(o) PROVE RoutingInvariant'
  <2>1. RoutingTypeOK'
    BY <1>2, RequestsWritten, LeasesWritten, BoundsWritten
    DEF RefuseBackend, RoutingTypeOK
  <2>2. ASSUME NEW q \in Writes PROVE OneRoute(q)'
    BY <1>2 DEF RefuseBackend, RoutingTypeOK, OneRoute, LeasePins, RouteRequests, LeaseRows, BoundRows, Places
  <2>3. ASSUME NEW q \in Writes PROVE LeasePins(q)'
    BY <1>2 DEF RefuseBackend, RoutingTypeOK, OneRoute, LeasePins, RouteRequests, LeaseRows, BoundRows, Workspaces
  <2> QED BY <2>1, <2>2, <2>3
<1>3. ASSUME NEW o \in Writes, Admit(o) PROVE RoutingInvariant'
  <2>1. /\ write[o].at = "resolved" /\ write[o].place \in Versions
        /\ UNCHANGED <<deploy, workspace, recovery, places, calls, forced>>
    BY <1>3 DEF Admit
  <2>2. CASE UNCHANGED <<lease, bound, fence>> /\ write' = [write EXCEPT ![o].at = "ended"]
    <3>1. RoutingTypeOK'
      BY <2>1, <2>2, RequestsWritten DEF RoutingTypeOK
    <3>2. ASSUME NEW q \in Writes PROVE OneRoute(q)' /\ LeasePins(q)'
      BY <2>1, <2>2 DEF RoutingTypeOK, OneRoute, LeasePins, RouteRequests
    <3> QED BY <3>1, <3>2
  <2>3. CASE /\ AdmissionMatches(o) /\ Admitted(o)
             /\ \/ write' = [write EXCEPT ![o].at = "writing", ![o].token = fence + 1]
                \/ write' = [write EXCEPT ![o].at = "ended"]
    <3>1. fence + 1 \in Nat /\ write[o] \in RouteRequests
      BY DEF RoutingTypeOK
    <3>2. write' \in [Writes -> RouteRequests]
      <4>1. CASE write' = [write EXCEPT ![o].at = "writing", ![o].token = fence + 1]
        BY <4>1, <3>1 DEF RoutingTypeOK, RouteRequests
      <4>2. CASE write' = [write EXCEPT ![o].at = "ended"]
        BY <4>2, <3>1, RequestsWritten DEF RoutingTypeOK
      <4> QED BY <2>3, <4>1, <4>2
    <3>3. lease' \in [Writes -> LeaseRows]
      BY <2>3, <3>1, RequestsWritten, LeasesWritten DEF RoutingTypeOK, Admitted
    <3>4. bound' \in [Writes -> BoundRows]
      BY <2>3, <3>1, RequestsWritten, BoundsWritten DEF RoutingTypeOK, Admitted
    <3>5. RoutingTypeOK'
      BY <2>1, <2>3, <3>1, <3>2, <3>3, <3>4 DEF RoutingTypeOK, Admitted
    <3>6. ASSUME NEW q \in Writes PROVE OneRoute(q)'
      BY <2>1, <2>3, <3>1 DEF RoutingTypeOK, OneRoute, RouteRequests, Admitted
    <3>7. ASSUME NEW q \in Writes PROVE LeasePins(q)'
      BY <2>1, <2>3, <3>1 DEF RoutingTypeOK, LeasePins, RouteRequests, Admitted, AdmissionMatches, Workspaces
    <3> QED BY <3>5, <3>6, <3>7
  <2> QED BY <1>3, <2>2, <2>3 DEF Admit
<1>4. ASSUME NEW o \in Writes, BeginUnrouted(o) PROVE RoutingInvariant'
  <2>1. RoutingTypeOK'
    BY <1>4, RequestsWritten, LeasesWritten, BoundsWritten
    DEF BeginUnrouted, RoutingTypeOK
  <2>2. ASSUME NEW q \in Writes PROVE OneRoute(q)'
    BY <1>4 DEF BeginUnrouted, RoutingTypeOK, OneRoute, LeasePins, RouteRequests, LeaseRows, BoundRows, Places
  <2>3. ASSUME NEW q \in Writes PROVE LeasePins(q)'
    BY <1>4 DEF BeginUnrouted, RoutingTypeOK, OneRoute, LeasePins, RouteRequests, LeaseRows, BoundRows, Workspaces
  <2> QED BY <2>1, <2>2, <2>3
<1>17. ASSUME NEW o \in Writes, CallLands(o) PROVE RoutingInvariant'
  <2>1. RoutingTypeOK'
    BY <1>17 DEF CallLands, RoutingTypeOK
  <2>2. ASSUME NEW q \in Writes PROVE OneRoute(q)'
    BY <1>17 DEF CallLands, RoutingTypeOK, OneRoute
  <2>3. ASSUME NEW q \in Writes PROVE LeasePins(q)'
    BY <1>17 DEF CallLands, LeasePins
  <2> QED BY <2>1, <2>2, <2>3
<1>5. ASSUME NEW o \in Writes, ProviderCall(o) PROVE RoutingInvariant'
  <2>1. RoutingTypeOK'
    BY <1>5 DEF ProviderCall, Send, HoldsRoute, RoutingTypeOK, RouteRequests, LeaseRows, BoundRows
  <2>2. ASSUME NEW q \in Writes PROVE OneRoute(q)'
    BY <1>5 DEF ProviderCall, Send, HoldsRoute, RoutingTypeOK, OneRoute, LeasePins, RouteRequests, LeaseRows, BoundRows, Places
  <2>3. ASSUME NEW q \in Writes PROVE LeasePins(q)'
    BY <1>5 DEF ProviderCall, Send, HoldsRoute, RoutingTypeOK, OneRoute, LeasePins, RouteRequests, LeaseRows, BoundRows, Workspaces
  <2> QED BY <2>1, <2>2, <2>3
<1>6. ASSUME NEW o \in Writes, EndWrite(o) PROVE RoutingInvariant'
  <2>1. RoutingTypeOK'
    <3>1. write' \in [Writes -> RouteRequests]
      BY <1>6, RequestsWritten DEF EndWrite, RoutingTypeOK
    <3>2. lease' \in [Writes -> LeaseRows]
      <4>1. lease' = lease \/ lease' = [lease EXCEPT ![o].state = "settled"]
        BY <1>6 DEF EndWrite, Settled
      <4> QED BY <4>1, SettledLeases DEF RoutingTypeOK
    <3>3. bound' \in [Writes -> BoundRows]
      BY <1>6, BoundsWritten DEF EndWrite, Settled, RoutingTypeOK
    <3> QED BY <1>6, <3>1, <3>2, <3>3 DEF EndWrite, RoutingTypeOK
  <2>2. ASSUME NEW q \in Writes PROVE OneRoute(q)'
    BY <1>6 DEF EndWrite, Settled, HoldsRoute, RoutingTypeOK, OneRoute, LeasePins, RouteRequests, LeaseRows, BoundRows, Places
  <2>3. ASSUME NEW q \in Writes PROVE LeasePins(q)'
    BY <1>6 DEF EndWrite, Settled, HoldsRoute, RoutingTypeOK, OneRoute, LeasePins, RouteRequests, LeaseRows, BoundRows, Workspaces
  <2> QED BY <2>1, <2>2, <2>3
<1>7. ASSUME NEW o \in Writes, RouteExpires(o) PROVE RoutingInvariant'
  <2>1. RoutingTypeOK'
    BY <1>7, RequestsWritten, LeasesWritten, BoundsWritten
    DEF RouteExpires, RoutingTypeOK
  <2>2. ASSUME NEW q \in Writes PROVE OneRoute(q)'
    BY <1>7 DEF RouteExpires, RoutingTypeOK, OneRoute, LeasePins, RouteRequests, LeaseRows, BoundRows, Places
  <2>3. ASSUME NEW q \in Writes PROVE LeasePins(q)'
    BY <1>7 DEF RouteExpires, RoutingTypeOK, OneRoute, LeasePins, RouteRequests, LeaseRows, BoundRows, Workspaces
  <2> QED BY <2>1, <2>2, <2>3
<1>8. ASSUME NEW o \in Writes, RecoverLease(o) PROVE RoutingInvariant'
  <2>1. RoutingTypeOK'
    BY <1>8 DEF RecoverLease, RoutingTypeOK, RouteRequests, LeaseRows, BoundRows
  <2>2. ASSUME NEW q \in Writes PROVE OneRoute(q)'
    BY <1>8 DEF RecoverLease, RoutingTypeOK, OneRoute, LeasePins, RouteRequests, LeaseRows, BoundRows, Places
  <2>3. ASSUME NEW q \in Writes PROVE LeasePins(q)'
    BY <1>8 DEF RecoverLease, RoutingTypeOK, OneRoute, LeasePins, RouteRequests, LeaseRows, BoundRows, Workspaces
  <2> QED BY <2>1, <2>2, <2>3
<1>9. ASSUME NEW o \in Writes, ResolveHistorical(o) PROVE RoutingInvariant'
  <2>1. /\ recovery[o].at = "leased"
        /\ UNCHANGED <<deploy, workspace, write, lease, bound, places, calls, fence, forced>>
        /\ \/ recovery' = [recovery EXCEPT ![o].at = "acting", ![o].place = bound[o].version]
           \/ recovery' = [recovery EXCEPT ![o] = NotRouted]
    BY <1>9 DEF ResolveHistorical, HistoricalPlace
  <2>2. RoutingTypeOK'
    <3>1. bound[o].version \in Places \cup {Unset} /\ recovery[o] \in RouteRequests
      BY BoundsWritten DEF RoutingTypeOK
    <3>2. CASE recovery' = [recovery EXCEPT ![o].at = "acting", ![o].place = bound[o].version]
      BY <2>1, <3>1, <3>2 DEF RoutingTypeOK, RouteRequests
    <3>3. CASE recovery' = [recovery EXCEPT ![o] = NotRouted]
      BY <2>1, <3>3, RequestsWritten DEF RoutingTypeOK
    <3> QED BY <2>1, <3>2, <3>3
  <2>3. ASSUME NEW q \in Writes PROVE OneRoute(q)'
    <3>1. recovery' \in [Writes -> RouteRequests] /\ OneRoute(q)
      BY <2>2 DEF RoutingTypeOK
    <3>2. /\ recovery'[q].at # "idle" => recovery[q].at # "idle"
          /\ recovery'[q].at = "acting" => recovery'[q].place = bound[q].version
      <4>1. CASE recovery' = [recovery EXCEPT ![o].at = "acting", ![o].place = bound[o].version]
        BY <2>1, <3>1, <4>1 DEF RoutingTypeOK, RouteRequests, OneRoute
      <4>2. CASE recovery' = [recovery EXCEPT ![o] = NotRouted]
        BY <2>1, <3>1, <4>2 DEF RoutingTypeOK, NotRouted, OneRoute
      <4> QED BY <2>1, <4>1, <4>2
    <3> QED BY <2>1, <3>1, <3>2 DEF OneRoute
  <2>4. ASSUME NEW q \in Writes PROVE LeasePins(q)'
    BY <2>1 DEF LeasePins
  <2> QED BY <2>2, <2>3, <2>4
<1>10. ASSUME NEW o \in Writes, RecoveryCall(o) PROVE RoutingInvariant'
  <2>1. RoutingTypeOK'
    BY <1>10, RequestsWritten, LeasesWritten, BoundsWritten
    DEF RecoveryCall, Send, HoldsRoute, RoutingTypeOK
  <2>2. ASSUME NEW q \in Writes PROVE OneRoute(q)'
    BY <1>10 DEF RecoveryCall, Send, HoldsRoute, RoutingTypeOK, OneRoute, LeasePins, RouteRequests, LeaseRows, BoundRows, Places
  <2>3. ASSUME NEW q \in Writes PROVE LeasePins(q)'
    BY <1>10 DEF RecoveryCall, Send, HoldsRoute, RoutingTypeOK, OneRoute, LeasePins, RouteRequests, LeaseRows, BoundRows, Workspaces
  <2> QED BY <2>1, <2>2, <2>3
<1>11. ASSUME NEW o \in Writes, EndRecovery(o) PROVE RoutingInvariant'
  <2>1. RoutingTypeOK'
    <3>1. recovery' \in [Writes -> RouteRequests]
      BY <1>11, RequestsWritten DEF EndRecovery, RoutingTypeOK
    <3>2. lease' \in [Writes -> LeaseRows]
      <4>1. lease' = lease \/ lease' = [lease EXCEPT ![o].state = "settled"]
        BY <1>11 DEF EndRecovery, Settled
      <4> QED BY <4>1, SettledLeases DEF RoutingTypeOK
    <3>3. bound' \in [Writes -> BoundRows]
      BY <1>11, BoundsWritten DEF EndRecovery, Settled, RoutingTypeOK
    <3> QED BY <1>11, <3>1, <3>2, <3>3 DEF EndRecovery, RoutingTypeOK
  <2>2. ASSUME NEW q \in Writes PROVE OneRoute(q)'
    BY <1>11 DEF EndRecovery, Settled, NotRouted, HoldsRoute, RoutingTypeOK, OneRoute, LeasePins, RouteRequests, LeaseRows, BoundRows, Places
  <2>3. ASSUME NEW q \in Writes PROVE LeasePins(q)'
    BY <1>11 DEF EndRecovery, Settled, NotRouted, HoldsRoute, RoutingTypeOK, OneRoute, LeasePins, RouteRequests, LeaseRows, BoundRows, Workspaces
  <2> QED BY <2>1, <2>2, <2>3
<1>12. ASSUME NEW v \in Versions, PutConfig(v) PROVE RoutingInvariant'
  BY <1>12 DEF PutConfig, Activated, RoutingTypeOK, Workspaces, OneRoute, LeasePins
<1>13. ASSUME NEW v \in Versions, EndSwitch(v) PROVE RoutingInvariant'
  BY <1>13 DEF EndSwitch, NoOpenRoutes, Activated, RoutingTypeOK, Workspaces, OneRoute, LeasePins
<1>14. ASSUME NEW v \in Versions, ForceSwitch(v) PROVE RoutingInvariant'
  BY <1>14 DEF ForceSwitch, Activated, RoutingTypeOK, Workspaces, OneRoute, LeasePins
<1>15. CASE BeginSwitch
  BY <1>15 DEF BeginSwitch, NoOpenRoutes, RoutingTypeOK, Workspaces, OneRoute, LeasePins
<1>16. CASE UNCHANGED routingVars
  BY <1>16 DEF routingVars, RoutingTypeOK, OneRoute, LeasePins
<1> QED
  BY <1>1, <1>2, <1>3, <1>4, <1>5, <1>6, <1>7, <1>8, <1>9, <1>10, <1>11, <1>12, <1>13, <1>14,
     <1>15, <1>16, <1>17 DEF RoutingNext

\* What the invariant says of the places that were written.
LEMMA RoutingInvariantImplies == RoutingInvariant => WrittenWhereAdmitted
<1> SUFFICES ASSUME RoutingInvariant, NEW o \in Writes
             PROVE  /\ Cardinality(places[o] \cup calls[o]) <= 1
                    /\ bound[o].state # "none" => places[o] \cup calls[o] \subseteq {bound[o].version}
                    /\ \/ forced \/ lease[o].state = "settled"
                       \/ calls[o] \cap Versions \subseteq {workspace.version}
  BY DEF WrittenWhereAdmitted
<1>1. places[o] \cup calls[o] = {} \/ places[o] \cup calls[o] = {write[o].place}
  BY DEF RoutingInvariant, OneRoute
<1>2. Cardinality(places[o] \cup calls[o]) <= 1
  <2>1. CASE places[o] \cup calls[o] = {}
    BY <2>1, FS_EmptySet
  <2>2. CASE places[o] \cup calls[o] = {write[o].place}
    <3>1. Cardinality({write[o].place}) = 1
      BY FS_Singleton
    <3> QED BY <2>2, <3>1
  <2> QED BY <1>1, <2>1, <2>2
<1>3. bound[o].state # "none" => places[o] \cup calls[o] \subseteq {bound[o].version}
  BY DEF RoutingInvariant, OneRoute
<1>4. ASSUME ~ forced, lease[o].state # "settled", NEW p \in calls[o] \cap Versions
      PROVE  p = workspace.version
  <2>1. p = write[o].place /\ bound[o].state # "none"
    BY <1>4 DEF RoutingInvariant, OneRoute
  <2>2. lease[o].state = "held" /\ lease[o].version = p
    BY <1>4, <2>1 DEF RoutingInvariant, RoutingTypeOK, LeaseRows, OneRoute
  <2> QED BY <1>4, <2>2 DEF RoutingInvariant, LeasePins
<1> QED
  BY <1>2, <1>3, <1>4

(* A write and whoever finishes it change one store, the one it was admitted to,
   however late a call arrives; unless an operator forced a switch, a call on its
   way to another store than the active one is of a settled write (BackendResolver,
   fenced and the routing lease). *)
THEOREM WritesStayWhereAdmitted == RoutingSpec => []WrittenWhereAdmitted
<1>1. RoutingInit => RoutingInvariant
  BY RoutingInitially
<1>2. RoutingInvariant /\ [RoutingNext]_routingVars => RoutingInvariant'
  BY RoutingStepPreserves
<1>3. RoutingInvariant => WrittenWhereAdmitted
  BY RoutingInvariantImplies
<1> QED
  BY <1>1, <1>2, <1>3, PTL DEF RoutingSpec

-----------------------------------------------------------------------------
(* Credentials *)

KeyEntries == [held : BOOLEAN, envelope : {"none", "v1", "v2"}, pem : BOOLEAN]
AuthPhases ==
  {"idle", "sigv4", "pair", "token", "secret", "rewrap", "persist", "verify", "granted", "denied", "gone"}

Writers ==
  [by : Callers \cup {"none", "create", "public_key", "delete"}, on : Credentials \cup {"none"}, old : KeyEntries]
AuthRequests == [phase : AuthPhases, cred : Credentials \cup {"none"}, secret : BOOLEAN, late : BOOLEAN]

StoreTypeOK ==
  /\ store \in Stores
  /\ memory \in [Credentials -> KeyEntries]
  /\ file \in [Credentials -> KeyEntries]
  /\ writer \in Writers
  /\ revoked \subseteq Credentials

(* The snapshot is what lookups read, or differs from it by the entry that the
   mutation in flight has replaced: whichever way the mutation ends, or the
   process dies, the two are equal again. *)
SnapshotBehind ==
  /\ store # "file" => writer = Unlocked
  /\ store = "file" /\ writer = Unlocked => file = memory
  /\ writer # Unlocked =>
       /\ writer.on \in Credentials \ revoked
       /\ file = [memory EXCEPT ![writer.on] = writer.old]
       /\ writer.by = "delete" => ~ memory[writer.on].held

(* A revoked credential is in no map, and so in no snapshot. *)
RevokedGone == \A c \in revoked : ~ memory[c].held

(* A late request has got no further than its first lookup, and nobody is
   granted without the secret. *)
LateStopped ==
  \A r \in Callers :
    /\ caller[r].phase # "idle" => caller[r].cred \in Credentials
    /\ caller[r].late => /\ caller[r].cred \in revoked \cup expired
                         /\ caller[r].phase \notin {"secret", "rewrap", "persist", "verify", "granted"}
    /\ caller[r].phase = "granted" => caller[r].secret

KeyInvariant == StoreTypeOK /\ SnapshotBehind /\ RevokedGone
CallerInvariant == caller \in [Callers -> AuthRequests] /\ LateStopped
AuthInvariant == KeyInvariant /\ CallerInvariant

\* What the mutations write are entries; an entry is not the absent one when it is held.
LEMMA EntriesWritten ==
  /\ NoEntry \in KeyEntries /\ ~ NoEntry.held
  /\ \A e \in {"none", "v1", "v2"} : Entry(e) \in KeyEntries /\ Entry(e).held
  /\ \A m \in KeyEntries : /\ [m EXCEPT !.pem = TRUE] \in KeyEntries
                          /\ [m EXCEPT !.envelope = "v2"] \in KeyEntries
                          /\ m.held => [m EXCEPT !.pem = TRUE].held /\ [m EXCEPT !.envelope = "v2"].held
<1>1. NoEntry \in KeyEntries /\ ~ NoEntry.held
  BY Zenon DEF NoEntry, KeyEntries
<1>2. ASSUME NEW e \in {"none", "v1", "v2"} PROVE Entry(e) \in KeyEntries /\ Entry(e).held
  BY Zenon DEF Entry, KeyEntries
<1>3. ASSUME NEW m \in KeyEntries
      PROVE  /\ [m EXCEPT !.pem = TRUE] \in KeyEntries
             /\ [m EXCEPT !.envelope = "v2"] \in KeyEntries
             /\ m.held => [m EXCEPT !.pem = TRUE].held /\ [m EXCEPT !.envelope = "v2"].held
  BY DEF KeyEntries
<1> QED BY <1>1, <1>2, <1>3

(* A mutation of the file store takes the locks of a credential nobody has
   revoked and keeps the entry it replaces. *)
LEMMA LockedPreserves ==
  ASSUME KeyInvariant, NEW who \in Callers \cup {"create", "public_key", "delete"},
         NEW c \in Credentials \ revoked, NEW entry \in KeyEntries, who = "delete" => ~ entry.held,
         AuthAssumption, Locked(who, c, entry)
  PROVE  KeyInvariant' /\ revoked' = revoked /\ expired' = expired
<1>1. memory[c] \in KeyEntries
  BY DEF KeyInvariant, StoreTypeOK
<1>2. writer' \in Writers
  BY <1>1 DEF Locked, Writers
<1>3. StoreTypeOK'
  BY <1>2 DEF KeyInvariant, StoreTypeOK, Locked
<1>4. file' = [memory' EXCEPT ![c] = memory[c]]
  BY DEF KeyInvariant, StoreTypeOK, SnapshotBehind, Locked
<1>5. memory'[c] = entry /\ writer'.on = c /\ writer'.old = memory[c] /\ writer'.by = who
  BY DEF KeyInvariant, StoreTypeOK, Locked
<1>6. SnapshotBehind'
  <2>1. writer' # Unlocked
    BY <1>5 DEF AuthAssumption, Unlocked
  <2> QED BY <1>4, <1>5, <2>1 DEF Locked, SnapshotBehind
<1>7. RevokedGone'
  BY DEF Locked, RevokedGone, KeyInvariant, StoreTypeOK
<1> QED BY <1>3, <1>6, <1>7 DEF KeyInvariant, Locked

(* The other stores change at once. *)
LEMMA AtOncePreserves ==
  ASSUME KeyInvariant, NEW which \in {"memory", "database"}, NEW c \in Credentials,
         NEW entry \in KeyEntries, entry = NoEntry \/ c \notin revoked, AtOnce(which, c, entry)
  PROVE  KeyInvariant' /\ revoked \subseteq revoked' /\ expired' = expired
<1>1. StoreTypeOK'
  BY DEF KeyInvariant, StoreTypeOK, AtOnce
<1>2. SnapshotBehind'
  BY DEF KeyInvariant, SnapshotBehind, AtOnce
<1>3. RevokedGone'
  BY EntriesWritten DEF KeyInvariant, StoreTypeOK, RevokedGone, AtOnce
<1> QED BY <1>1, <1>2, <1>3 DEF KeyInvariant, AtOnce

(* The rename makes the snapshot what lookups read; a deletion is answered then. *)
LEMMA RenamedPreserves ==
  ASSUME KeyInvariant, Renamed
  PROVE  KeyInvariant' /\ revoked \subseteq revoked' /\ expired' = expired
<1>1. Unlocked \in Writers
  BY EntriesWritten, Zenon DEF Unlocked, Writers
<1>2. writer.on \in Credentials
  BY DEF Renamed, KeyInvariant, SnapshotBehind
<1>3. StoreTypeOK'
  BY <1>1, <1>2 DEF KeyInvariant, StoreTypeOK, Renamed
<1>4. SnapshotBehind'
  BY DEF SnapshotBehind, Renamed
<1>5. RevokedGone'
  BY DEF KeyInvariant, SnapshotBehind, RevokedGone, Renamed
<1> QED BY <1>3, <1>4, <1>5 DEF KeyInvariant, Renamed

(* A rollback makes what lookups read the snapshot again. *)
LEMMA RolledBackPreserves ==
  ASSUME KeyInvariant, RolledBack
  PROVE  KeyInvariant' /\ revoked' = revoked /\ expired' = expired
<1>1. Unlocked \in Writers
  BY EntriesWritten, Zenon DEF Unlocked, Writers
<1>2. /\ writer.on \in Credentials \ revoked /\ file = [memory EXCEPT ![writer.on] = writer.old]
      /\ store = "file"
  BY DEF RolledBack, KeyInvariant, SnapshotBehind
<1>3. StoreTypeOK'
  BY <1>1, <1>2 DEF KeyInvariant, StoreTypeOK, RolledBack
<1>4. SnapshotBehind'
  BY <1>2 DEF SnapshotBehind, RolledBack
<1>5. RevokedGone'
  BY <1>2 DEF KeyInvariant, StoreTypeOK, RevokedGone, RolledBack
<1> QED BY <1>3, <1>4, <1>5 DEF KeyInvariant, RolledBack

(* A restart loses the mutation in flight, and no more. *)
LEMMA RestartPreserves ==
  ASSUME KeyInvariant, Restart
  PROVE  KeyInvariant'
<1>1. Unlocked \in Writers
  BY EntriesWritten, Zenon DEF Unlocked, Writers
<1>2. memory' \in [Credentials -> KeyEntries]
  BY EntriesWritten DEF KeyInvariant, StoreTypeOK, Restart, Stores
<1>3. StoreTypeOK'
  BY <1>1, <1>2 DEF KeyInvariant, StoreTypeOK, Restart
<1>4. SnapshotBehind'
  BY DEF SnapshotBehind, Restart
<1>5. RevokedGone'
  <2> SUFFICES ASSUME NEW c \in revoked PROVE ~ memory'[c].held
    BY DEF RevokedGone, Restart
  <2>1. c \in Credentials /\ ~ memory[c].held
    BY DEF KeyInvariant, StoreTypeOK, RevokedGone
  <2>2. CASE store = "file"
    BY <2>1, <2>2 DEF KeyInvariant, StoreTypeOK, SnapshotBehind, Restart
  <2>3. CASE store = "memory"
    BY <2>1, <2>3, EntriesWritten DEF Restart
  <2>4. CASE store = "database"
    BY <2>1, <2>4 DEF Restart
  <2> QED BY <2>2, <2>3, <2>4 DEF KeyInvariant, StoreTypeOK, Stores
<1> QED BY <1>3, <1>4, <1>5 DEF KeyInvariant

(* What a request knows stays true while the stores change: nothing revoked or
   expired is taken back. *)
LEMMA CallersKept ==
  ASSUME CallerInvariant, UNCHANGED caller, revoked \subseteq revoked', expired \subseteq expired'
  PROVE  CallerInvariant'
  BY DEF CallerInvariant, LateStopped

(* A request that moves on to a phase that it may be in. *)
LEMMA CallerMoves ==
  ASSUME CallerInvariant, NEW r \in Callers, NEW phase \in AuthPhases \ {"idle"}, AuthGo(r, phase),
         ~ AuthAt(r, "idle"), revoked \subseteq revoked', expired \subseteq expired',
         caller[r].late => phase \notin {"secret", "rewrap", "persist", "verify", "granted"},
         phase = "granted" => caller[r].secret
  PROVE  CallerInvariant'
<1>1. caller[r] \in AuthRequests
  BY DEF CallerInvariant
<1>2. [caller[r] EXCEPT !.phase = phase] \in AuthRequests
  BY <1>1 DEF AuthRequests
<1>3. caller' = [caller EXCEPT ![r] = [caller[r] EXCEPT !.phase = phase]]
  BY DEF AuthGo
<1>4. caller' \in [Callers -> AuthRequests]
  BY <1>2, <1>3 DEF CallerInvariant
<1>5. ASSUME NEW q \in Callers, q # r PROVE caller'[q] = caller[q]
  BY <1>3, <1>5 DEF CallerInvariant
<1>6. caller'[r].phase = phase /\ caller'[r].cred = caller[r].cred
      /\ caller'[r].secret = caller[r].secret /\ caller'[r].late = caller[r].late
  BY <1>1, <1>3 DEF CallerInvariant, AuthRequests
<1>7. LateStopped'
  BY <1>5, <1>6 DEF CallerInvariant, LateStopped, AuthAt
<1> QED BY <1>4, <1>7 DEF CallerInvariant

(* A late request finds nothing: its credential is gone or over. *)
LEMMA LateFindsNothing ==
  ASSUME KeyInvariant, CallerInvariant, NEW r \in Callers, caller[r].late
  PROVE  ~ (memory[caller[r].cred].held /\ caller[r].cred \notin expired)
  BY DEF KeyInvariant, RevokedGone, CallerInvariant, LateStopped

(* The invariant holds when the process starts. *)
LEMMA AuthInitially == ASSUME AuthInit PROVE AuthInvariant
<1>1. Unlocked \in Writers
  BY EntriesWritten, Zenon DEF Unlocked, Writers
<1>2. NoCaller \in AuthRequests
  BY Zenon DEF NoCaller, AuthRequests, AuthPhases
<1>3. StoreTypeOK
  BY <1>1, EntriesWritten DEF AuthInit, KeyInit, StoreTypeOK
<1>4. SnapshotBehind /\ RevokedGone
  BY DEF AuthInit, KeyInit, SnapshotBehind, RevokedGone
<1>5. CallerInvariant
  BY <1>2 DEF AuthInit, NoCaller, CallerInvariant, LateStopped
<1> QED BY <1>3, <1>4, <1>5 DEF AuthInvariant, KeyInvariant

(* A mutation a user asks for. *)
LEMMA MutationPreserves ==
  ASSUME KeyInvariant, AuthAssumption, NEW c \in Credentials,
         \/ CreateKey(c) \/ SetPublicKey(c) \/ DeleteKey(c) \/ CreateMcpToken(c) \/ DeleteMcpToken(c)
  PROVE  KeyInvariant' /\ revoked \subseteq revoked' /\ expired' = expired
<1>1. memory[c] \in KeyEntries
  BY DEF KeyInvariant, StoreTypeOK
<1>2. PICK who \in {"create", "public_key", "delete"}, entry \in KeyEntries :
        /\ Unissued(c) \/ Owned(c)
        /\ who = "delete" <=> entry = NoEntry
        /\ \/ Locked(who, c, entry)
           \/ \E which \in {"memory", "database"} : AtOnce(which, c, entry)
  <2>1. /\ Entry("v2") \in KeyEntries /\ Entry("none") \in KeyEntries /\ NoEntry \in KeyEntries
        /\ Entry("v2") # NoEntry /\ Entry("none") # NoEntry
    BY EntriesWritten
  <2>2. CASE CreateKey(c)
    BY <2>1, <2>2, Zenon DEF CreateKey, FileCreateKey, MemoryCreateKey, DatabaseCreateKey
  <2>3. CASE SetPublicKey(c)
    <3>1. Owned(c)
      BY <2>3 DEF SetPublicKey, FileSetPublicKey, MemorySetPublicKey, DatabaseSetPublicKey
    <3>2. WithPem(c) \in KeyEntries /\ WithPem(c).held
      BY <1>1, <3>1 DEF Owned, WithPem, KeyEntries
    <3>3. WithPem(c) # NoEntry
      BY <3>2, EntriesWritten
    <3> QED BY <2>3, <3>1, <3>2, <3>3, Zenon DEF SetPublicKey, FileSetPublicKey, MemorySetPublicKey, DatabaseSetPublicKey
  <2>4. CASE DeleteKey(c)
    BY <2>1, <2>4, Zenon DEF DeleteKey, FileDeleteKey, MemoryDeleteKey, DatabaseDeleteKey
  <2>5. CASE CreateMcpToken(c)
    BY <2>1, <2>5, Zenon DEF CreateMcpToken, FileCreateMcpToken, MemoryCreateMcpToken, DatabaseCreateMcpToken
  <2>6. CASE DeleteMcpToken(c)
    BY <2>1, <2>6, Zenon DEF DeleteMcpToken, FileDeleteMcpToken, MemoryDeleteMcpToken, DatabaseDeleteMcpToken
  <2> QED BY <2>2, <2>3, <2>4, <2>5, <2>6
<1>3. c \notin revoked
  BY <1>2 DEF Unissued, Owned, KeyInvariant, RevokedGone
<1>4. CASE Locked(who, c, entry)
  BY <1>2, <1>3, <1>4, EntriesWritten, LockedPreserves
<1>5. ASSUME NEW which \in {"memory", "database"}, AtOnce(which, c, entry)
      PROVE  KeyInvariant' /\ revoked \subseteq revoked' /\ expired' = expired
  BY <1>3, <1>5, AtOncePreserves
<1> QED BY <1>2, <1>4, <1>5

(* Every step of the requests, of the users and of the process keeps it. *)
LEMMA AuthStepPreserves ==
  ASSUME AuthAssumption, AuthInvariant, [AuthNext]_authVars PROVE AuthInvariant'
<1> USE DEF AuthInvariant
<1> DEFINE Kept == KeyInvariant' /\ revoked \subseteq revoked' /\ expired \subseteq expired'
<1>1. ASSUME UNCHANGED keyVars PROVE Kept
  BY <1>1 DEF keyVars, KeyInvariant, StoreTypeOK, SnapshotBehind, RevokedGone
<1>2. ASSUME NEW r \in Callers, AuthenticateHeaders(r) PROVE AuthInvariant'
  <2>1. Kept /\ expired' = expired /\ revoked' = revoked
    BY <1>1, <1>2 DEF AuthenticateHeaders, keyVars
  <2>2. PICK c \in Credentials, secret \in BOOLEAN, form \in {"sigv4", "pair", "token"} :
          caller' = [caller EXCEPT ![r] = [phase |-> form, cred |-> c, secret |-> secret,
                                           late |-> c \in revoked \cup expired]]
    BY <1>2 DEF AuthenticateHeaders
  <2> DEFINE new == [phase |-> form, cred |-> c, secret |-> secret, late |-> c \in revoked \cup expired]
  <2>3. new \in AuthRequests
    <3>1. form \in AuthPhases /\ c \in Credentials \cup {"none"} /\ (c \in revoked \cup expired) \in BOOLEAN
      BY DEF AuthPhases
    <3> QED BY <3>1, Zenon DEF AuthRequests
  <2>4. caller' \in [Callers -> AuthRequests]
    BY <2>2, <2>3 DEF CallerInvariant
  <2>5. ASSUME NEW q \in Callers PROVE caller'[q] = IF q = r THEN new ELSE caller[q]
    BY <2>2 DEF CallerInvariant
  <2>6. LateStopped'
    <3> SUFFICES ASSUME NEW q \in Callers
                 PROVE  /\ caller'[q].phase # "idle" => caller'[q].cred \in Credentials
                        /\ caller'[q].late =>
                             /\ caller'[q].cred \in revoked \cup expired
                             /\ caller'[q].phase \notin {"secret", "rewrap", "persist", "verify", "granted"}
                        /\ caller'[q].phase = "granted" => caller'[q].secret
      BY <2>1 DEF LateStopped
    <3>1. CASE q # r
      BY <2>5, <3>1 DEF CallerInvariant, LateStopped
    <3>2. CASE q = r
      <4>1. caller'[q].phase = form /\ caller'[q].cred = c /\ caller'[q].late = (c \in revoked \cup expired)
        BY <2>5, <3>2
      <4> QED BY <4>1
    <3> QED BY <3>1, <3>2
  <2> QED BY <2>1, <2>4, <2>6 DEF CallerInvariant
<1>3. ASSUME NEW r \in Callers, LookupKey(r) PROVE AuthInvariant'
  BY <1>1, <1>3, CallerMoves, LateFindsNothing DEF LookupKey, KnownKey, AuthAt, AuthPhases
<1>4. ASSUME NEW r \in Callers, ResolveCredentials(r) PROVE AuthInvariant'
  BY <1>1, <1>4, CallerMoves, LateFindsNothing
  DEF ResolveCredentials, ResolvedCredentials, Verdict, AuthAt, AuthPhases
<1>5. ASSUME NEW r \in Callers, ResolveMcpToken(r) PROVE AuthInvariant'
  BY <1>1, <1>5, CallerMoves, LateFindsNothing
  DEF ResolveMcpToken, ResolvedMcpToken, Verdict, AuthAt, AuthPhases
<1>6. ASSUME NEW r \in Callers, DecryptSecret(r) PROVE AuthInvariant'
  BY <1>1, <1>6, CallerMoves DEF DecryptSecret, CallerInvariant, LateStopped, AuthAt, AuthPhases
<1>7. ASSUME NEW r \in Callers, ReplaceOrAccept(r) PROVE AuthInvariant'
  <2> DEFINE k == caller[r].cred
  <2>1. ~ caller[r].late /\ k \in Credentials
    BY <1>7 DEF ReplaceOrAccept, CallerInvariant, LateStopped, AuthAt
  <2>2. memory[k] \in KeyEntries
    BY <2>1 DEF KeyInvariant, StoreTypeOK
  <2>3. Rewrapped(k) \in KeyEntries
    BY <2>2 DEF Rewrapped, KeyEntries
  <2>4. r \in Callers \cup {"create", "public_key", "delete"} /\ r # "delete"
    BY DEF AuthAssumption
  <2>5. CASE FileSwapEnvelope(r, k) /\ AuthGo(r, "persist")
    <3>1. k \in Credentials \ revoked
      BY <2>1, <2>5 DEF FileSwapEnvelope, Unchanged, KeyInvariant, RevokedGone
    <3>2. Kept
      BY <2>3, <2>4, <2>5, <3>1, LockedPreserves DEF FileSwapEnvelope
    <3> QED BY <1>7, <2>1, <2>5, <3>2, CallerMoves DEF ReplaceOrAccept, AuthAt, AuthPhases
  <2>6. CASE (MemorySwapEnvelope(k) \/ DatabaseSwapEnvelope(k)) /\ AuthGo(r, "verify")
    <3>1. k \in Credentials \ revoked
      BY <2>1, <2>6 DEF MemorySwapEnvelope, DatabaseSwapEnvelope, Unchanged, KeyInvariant, RevokedGone
    <3>2. Kept
      BY <2>3, <2>6, <3>1, AtOncePreserves DEF MemorySwapEnvelope, DatabaseSwapEnvelope
    <3> QED BY <1>7, <2>1, <2>6, <3>2, CallerMoves DEF ReplaceOrAccept, AuthAt, AuthPhases
  <2>7. CASE (AuthGo(r, "verify") \/ AuthGo(r, "denied")) /\ UNCHANGED keyVars
    BY <1>1, <1>7, <2>1, <2>7, CallerMoves DEF ReplaceOrAccept, AuthAt, AuthPhases
  <2> QED BY <1>7, <2>5, <2>6, <2>7 DEF ReplaceOrAccept
<1>8. ASSUME NEW r \in Callers, RewrapPersisted(r) PROVE AuthInvariant'
  <2>1. ~ caller[r].late /\ AuthAt(r, "persist")
    BY <1>8 DEF RewrapPersisted, CallerInvariant, LateStopped, AuthAt
  <2>2. Kept
    BY <1>8, RenamedPreserves, RolledBackPreserves DEF RewrapPersisted, Persist, PersistFails
  <2> QED BY <1>8, <2>1, <2>2, CallerMoves DEF RewrapPersisted, AuthAt, AuthPhases
<1>9. ASSUME NEW r \in Callers, VerifySeedSignature(r) PROVE AuthInvariant'
  BY <1>1, <1>9, CallerMoves
  DEF VerifySeedSignature, Verdict, CallerInvariant, LateStopped, AuthAt, AuthPhases
<1>10. ASSUME NEW r \in Callers, AuthenticationUnavailable(r) PROVE AuthInvariant'
  BY <1>1, <1>10, CallerMoves DEF AuthenticationUnavailable, AuthAt, AuthPhases
<1>11. ASSUME NEW r \in Callers, GiveUp(r) PROVE AuthInvariant'
  BY <1>1, <1>11, CallerMoves DEF GiveUp, AuthAt, AuthPhases
<1>12. ASSUME NEW r \in Callers, NextRequest(r) PROVE AuthInvariant'
  <2>1. NoCaller \in AuthRequests
    BY Zenon DEF NoCaller, AuthRequests, AuthPhases
  <2>2. Kept /\ expired' = expired /\ revoked' = revoked
    BY <1>1, <1>12 DEF NextRequest, keyVars
  <2>3. caller' \in [Callers -> AuthRequests]
    BY <1>12, <2>1 DEF NextRequest, CallerInvariant
  <2>4. LateStopped'
    BY <1>12, <2>2 DEF NextRequest, NoCaller, CallerInvariant, LateStopped
  <2> QED BY <2>2, <2>3, <2>4 DEF CallerInvariant
<1>13. CASE KeyAdmin /\ UNCHANGED <<caller, authFaults>>
  <2>1. ASSUME NEW c \in Credentials, Expire(c) PROVE Kept
    BY <2>1 DEF Expire, KeyInvariant, StoreTypeOK, SnapshotBehind, RevokedGone
  <2>2. Kept
    BY <1>13, <2>1, MutationPreserves, RenamedPreserves DEF KeyAdmin, Persist, Credentials
  <2> QED BY <1>13, <2>2, CallersKept
<1>14. CASE AdminFails
  BY <1>14, RolledBackPreserves, CallersKept DEF AdminFails, PersistFails
<1>15. CASE ProcessRestart
  <2>1. NoCaller \in AuthRequests
    BY Zenon DEF NoCaller, AuthRequests, AuthPhases
  <2>2. CallerInvariant'
    BY <1>15, <2>1 DEF ProcessRestart, NoCaller, CallerInvariant, LateStopped
  <2> QED BY <1>15, <2>2, RestartPreserves DEF ProcessRestart
<1>16. CASE UNCHANGED authVars
  BY <1>1, <1>16, CallersKept DEF authVars
<1> QED
  BY <1>2, <1>3, <1>4, <1>5, <1>6, <1>7, <1>8, <1>9, <1>10, <1>11, <1>12, <1>13, <1>14, <1>15, <1>16
  DEF AuthNext, AuthStep

(* Revocation is final, whatever rewraps, failing snapshots and restarts
   interleave, and the snapshot agrees with what requests are served from
   (FileKeyStore, authenticate_headers). *)
THEOREM RevocationFinal == ASSUME AuthAssumption PROVE AuthSpec => []RevokedRefused
<1>1. AuthInit => AuthInvariant
  BY AuthInitially
<1>2. AuthInvariant /\ [AuthNext]_authVars => AuthInvariant'
  BY AuthStepPreserves
<1>3. AuthInvariant => RevokedRefused
  BY DEF AuthInvariant, KeyInvariant, SnapshotBehind, CallerInvariant, LateStopped, RevokedRefused
<1> QED
  BY <1>1, <1>2, <1>3, PTL DEF AuthSpec

-----------------------------------------------------------------------------
(* Requests at the front door: types *)

\* Where a request is: before it has a reservation, while it holds one, and at
\* the end of it.
Unreserved == {"idle", "staging", "resolve", "authorize"}
Reserved ==
  {"snapshot", "backend", "preflight", "open", "sink", "call", "source", "avro", "collect", "convert",
   "session", "first", "body", "spool", "creating", "spooling", "stream", "commit", "release", "record"}
Phases == Unreserved \cup Reserved \cup {"settling", "detached", "replay", "ended"}

Causes == {"control", "cancelled", "unknown", "oversize", "avro", "crash"}
Handlers ==
  [op : AllOperations \cup {"none"}, phase : Phases, safe : BOOLEAN, avro : BOOLEAN, seen : Nat, got : Nat,
   sent : BOOLEAN, tries : Nat, effect : BOOLEAN, cause : SUBSET Causes,
   answer : {"none", "ok", "error", "truncated"}]
Settlements == {"none", "held", "recorded", "released"}
Events == {"data", "done", "large", "failed"}
Streams == [events : Seq(Events), live : BOOLEAN, full : BOOLEAN]
Spools == [phase : {"none", "begun", "writing", "queued", "open"}, file : BOOLEAN]

DoorTypeOK ==
  /\ req \in [Requests -> Handlers]
  /\ reservation \in [Requests -> Settlements]
  /\ object \in [content : Nat, kind : Kinds, validator : Validators]
  /\ stream \in [Requests -> Streams]
  /\ spool \in [Requests -> Spools]
  /\ reserved \in Nat

-----------------------------------------------------------------------------
(* The invariant *)

(* The reservation of a request, by where the request is. *)
BooksOK(q, res) ==
  /\ q.phase \in Unreserved => res = "none" /\ q.answer = "none"
  /\ q.phase \in Reserved => res = "held" /\ q.answer = "none"
  /\ q.phase \in {"settling", "detached"} => res \in {"held", "recorded"} /\ q.answer # "ok"
  /\ q.phase = "replay" => res = "recorded"
  /\ Unmetered(q.op) => q.phase \in {"staging", "ended"}

(* What has happened by then: a mutation is on its way to be recorded, and only
   a direct body discloses before it is paid for. *)
ServedOK(q) ==
  /\ q.effect => q.phase \in {"record", "ended"}
  /\ q.sent => q.phase \in {"body", "settling", "ended"}
  /\ q.phase \in {"preflight", "source", "avro", "collect", "convert", "session", "first", "body", "settling",
                  "spool", "creating", "spooling", "replay"} => q.op = "transformed"
  /\ q.phase \in {"sink", "stream", "commit"} => q.op = "put"
  /\ q.phase \in Unreserved \cup {"snapshot", "backend", "preflight", "source", "session", "first", "body",
                  "settling"} => ~ q.avro
  /\ q.phase \in {"first", "body", "settling"} => q.safe
  /\ q.phase \in {"avro", "collect", "convert"} => q.avro
  /\ q.phase \in {"session", "first", "body", "settling", "spool", "creating", "spooling", "replay"}
       => q.avro \/ q.got = q.seen
  /\ q.phase = "record" /\ q.op = "transformed" => ~ q.effect /\ (q.avro \/ q.got = q.seen)

(* How a request has ended: the three properties, for one request. *)
EndedOK(q, res) ==
  /\ res = "released" => ~ q.effect /\ ~ q.sent
  /\ q.answer = "ok" /\ ~ Unmetered(q.op) => res = "recorded"
  /\ q.sent /\ ~ (q.op = "transformed" /\ q.safe /\ ~ q.avro) => res = "recorded"
  /\ q.phase = "ended" /\ res = "held" =>
       q.cause \cap {"control", "cancelled", "crash", "unknown", "avro"} # {} \/ q.sent
  /\ q.op = "transformed" /\ q.sent /\ ~ q.avro => q.got = q.seen

(* A body that has disclosed nothing still has a piece of data in front of it:
   the handler looked at it and left it there. *)
BodyOK(q, s) == q.phase = "body" /\ ~ q.sent => s.events # <<>> /\ Head(s.events) = "data"

(* A spool exists from its creation until the request is over; one only begun is
   being created, or its request was cancelled meanwhile. *)
SpoolOK(q, sp) ==
  /\ sp.phase = "begun" => q.phase = "creating" \/ (q.phase = "ended" /\ "cancelled" \in q.cause)
  /\ sp.phase \notin {"none", "begun"} => q.phase \in {"spooling", "record", "release", "replay", "ended"}

RequestOK(q, res, s, sp) ==
  BooksOK(q, res) /\ ServedOK(q) /\ EndedOK(q, res) /\ BodyOK(q, s) /\ SpoolOK(q, sp)

DoorInvariant ==
  /\ DoorTypeOK
  /\ \A r \in Requests : RequestOK(req[r], reservation[r], stream[r], spool[r])
  /\ QuotaCounts

-----------------------------------------------------------------------------
(* Steps of one request *)

\* A step of one request leaves what is known of the others.
LEMMA RequestAlone ==
  ASSUME DoorInvariant, NEW r \in Requests, NEW q \in Handlers, req' = [req EXCEPT ![r] = q],
         reservation' \in [Requests -> Settlements],
         stream' \in [Requests -> Streams], spool' \in [Requests -> Spools],
         \A p \in Requests \ {r} : /\ reservation'[p] = reservation[p]
                                  /\ stream'[p] = stream[p] /\ spool'[p] = spool[p],
         RequestOK(q, reservation'[r], stream'[r], spool'[r])
  PROVE  /\ req' \in [Requests -> Handlers]
         /\ \A p \in Requests : RequestOK(req[p], reservation[p], stream[p], spool[p])'
<1>1. req' \in [Requests -> Handlers] /\ req'[r] = q /\ \A p \in Requests \ {r} : req'[p] = req[p]
  BY DEF DoorInvariant, DoorTypeOK
<1>2. ASSUME NEW p \in Requests PROVE RequestOK(req'[p], reservation'[p], stream'[p], spool'[p])
  <2>1. CASE p = r
    BY <1>1, <2>1
  <2>2. CASE p # r
    BY <1>1, <2>2 DEF DoorInvariant
  <2> QED BY <2>1, <2>2
<1> QED BY <1>1, <1>2

\* A step that changes a request and its reservation, and nothing of the reads.
LEMMA GateMove ==
  ASSUME DoorInvariant, NEW r \in Requests, NEW q \in Handlers, NEW res \in Settlements,
         req' = [req EXCEPT ![r] = q], reservation' = [reservation EXCEPT ![r] = res],
         UNCHANGED readVars, RequestOK(q, res, stream[r], spool[r])
  PROVE  DoorInvariant'
<1>1. /\ reservation' \in [Requests -> Settlements] /\ reservation'[r] = res
      /\ \A p \in Requests \ {r} : reservation'[p] = reservation[p]
  BY DEF DoorInvariant, DoorTypeOK
<1>2. UNCHANGED <<object, stream, spool, reserved>>
  BY DEF readVars
<1>3. stream' \in [Requests -> Streams] /\ spool' \in [Requests -> Spools]
  BY <1>2 DEF DoorInvariant, DoorTypeOK
<1>4. /\ req' \in [Requests -> Handlers]
      /\ \A p \in Requests : RequestOK(req[p], reservation[p], stream[p], spool[p])'
  BY <1>1, <1>2, <1>3, RequestAlone
<1>5. DoorTypeOK'
  BY <1>1, <1>2, <1>4 DEF DoorInvariant, DoorTypeOK
<1>6. QuotaCounts'
  BY <1>2 DEF DoorInvariant, QuotaCounts
<1> QED BY <1>4, <1>5, <1>6 DEF DoorInvariant

\* The same, with the reservation as it was.
LEMMA GateMoveKeeping ==
  ASSUME DoorInvariant, NEW r \in Requests, NEW q \in Handlers,
         req' = [req EXCEPT ![r] = q], UNCHANGED reservation,
         UNCHANGED readVars, RequestOK(q, reservation[r], stream[r], spool[r])
  PROVE  DoorInvariant'
<1>1. reservation' = [reservation EXCEPT ![r] = reservation[r]] /\ reservation[r] \in Settlements
  BY DEF DoorInvariant, DoorTypeOK
<1> QED BY <1>1, GateMove

(* The same when the worker's channel changes with the request, *)
LEMMA StreamMove ==
  ASSUME DoorInvariant, NEW r \in Requests, NEW q \in Handlers, NEW s \in Streams,
         req' = [req EXCEPT ![r] = q], stream' = [stream EXCEPT ![r] = s],
         UNCHANGED <<reservation, object, spool, reserved>>,
         RequestOK(q, reservation[r], s, spool[r])
  PROVE  DoorInvariant'
<1>1. /\ stream' \in [Requests -> Streams] /\ stream'[r] = s
      /\ \A p \in Requests \ {r} : stream'[p] = stream[p]
      /\ spool' \in [Requests -> Spools] /\ reservation' \in [Requests -> Settlements]
  BY DEF DoorInvariant, DoorTypeOK
<1>2. /\ req' \in [Requests -> Handlers]
      /\ \A p \in Requests : RequestOK(req[p], reservation[p], stream[p], spool[p])'
  BY <1>1, RequestAlone
<1>3. DoorTypeOK'
  BY <1>1, <1>2 DEF DoorInvariant, DoorTypeOK
<1>4. QuotaCounts'
  BY DEF DoorInvariant, QuotaCounts
<1> QED BY <1>2, <1>3, <1>4 DEF DoorInvariant

(* and when its spool does: the quota counts one more, one less or the same. *)
LEMMA SpoolMove ==
  ASSUME DoorInvariant, IsFiniteSet(Requests), NEW r \in Requests, NEW q \in Handlers, NEW sp \in Spools,
         req' = [req EXCEPT ![r] = q], spool' = [spool EXCEPT ![r] = sp],
         UNCHANGED <<reservation, object, stream>>,
         \/ spool[r].phase = "none" /\ sp.phase # "none" /\ reserved' = reserved + 1
         \/ spool[r].phase # "none" /\ sp.phase = "none" /\ reserved' = reserved - 1
         \/ (spool[r].phase = "none" <=> sp.phase = "none") /\ reserved' = reserved,
         RequestOK(q, reservation[r], stream[r], sp)
  PROVE  DoorInvariant'
<1>1. /\ spool' \in [Requests -> Spools] /\ spool'[r] = sp
      /\ \A p \in Requests \ {r} : spool'[p] = spool[p]
      /\ stream' \in [Requests -> Streams] /\ reservation' \in [Requests -> Settlements]
  BY DEF DoorInvariant, DoorTypeOK
<1>2. /\ req' \in [Requests -> Handlers]
      /\ \A p \in Requests : RequestOK(req[p], reservation[p], stream[p], spool[p])'
  BY <1>1, RequestAlone
<1> DEFINE Open == {p \in Requests : spool[p].phase # "none"}
           After == {p \in Requests : spool'[p].phase # "none"}
<1>3. IsFiniteSet(Open) /\ IsFiniteSet(After) /\ Cardinality(Open) \in Nat /\ Cardinality(After) \in Nat
  BY FS_Subset, FS_CardinalityType
<1>4. reserved = Cardinality(Open)
  BY DEF DoorInvariant, QuotaCounts
<1>5. reserved' = Cardinality(After)
  <2>1. CASE spool[r].phase = "none" /\ sp.phase # "none" /\ reserved' = reserved + 1
    <3>1. After = Open \cup {r} /\ r \notin Open
      BY <1>1, <2>1
    <3>2. Cardinality(After) = Cardinality(Open) + 1
      BY <1>3, <3>1, FS_AddElement
    <3> QED BY <1>4, <2>1, <3>2
  <2>2. CASE spool[r].phase # "none" /\ sp.phase = "none" /\ reserved' = reserved - 1
    <3>1. After = Open \ {r} /\ r \in Open
      BY <1>1, <2>2
    <3>2. Cardinality(After) = Cardinality(Open) - 1
      BY <1>3, <3>1, FS_RemoveElement
    <3> QED BY <1>4, <2>2, <3>2
  <2>3. CASE (spool[r].phase = "none" <=> sp.phase = "none") /\ reserved' = reserved
    <3>1. After = Open
      BY <1>1, <2>3
    <3> QED BY <1>4, <2>3, <3>1
  <2> QED BY <2>1, <2>2, <2>3
<1>6. DoorTypeOK'
  BY <1>1, <1>2, <1>3, <1>5 DEF DoorInvariant, DoorTypeOK
<1> QED BY <1>2, <1>5, <1>6 DEF DoorInvariant, QuotaCounts

-----------------------------------------------------------------------------
(* Moves that several handlers make *)

\* What is known of a request before its step.
LEMMA Before ==
  ASSUME DoorInvariant, NEW r \in Requests
  PROVE  /\ req[r] \in Handlers /\ reservation[r] \in Settlements
         /\ stream[r] \in Streams /\ spool[r] \in Spools
         /\ RequestOK(req[r], reservation[r], stream[r], spool[r])
  BY DEF DoorInvariant, DoorTypeOK

\* A spool is only begun while its file is created, or its request is over.
LEMMA NotBegun ==
  ASSUME DoorInvariant, NEW r \in Requests, req[r].phase \notin {"creating", "ended"}
  PROVE  spool[r].phase # "begun"
  BY Before DEF RequestOK, SpoolOK

\* To the release, from any place before the body and the end.
LEMMA ReleaseMove ==
  ASSUME DoorInvariant, NEW r \in Requests, req[r].phase \in Reserved \ {"body", "record", "creating"},
         ToRelease(r), UNCHANGED reservation, UNCHANGED readVars
  PROVE  DoorInvariant'
<1> DEFINE q == [req[r] EXCEPT !.phase = "release"]
<1>1. req' = [req EXCEPT ![r] = q]
  BY DEF ToRelease, GoTo
<1>2. q \in Handlers
  BY Before DEF Handlers, Phases, Reserved
<1>3. RequestOK(q, reservation[r], stream[r], spool[r])
  BY Before, NotBegun
  DEF Handlers, RequestOK, BooksOK, ServedOK, EndedOK, BodyOK, SpoolOK, Unreserved, Reserved, Unmetered
<1> QED BY <1>1, <1>2, <1>3, GateMoveKeeping

\* To an answer without a settlement, for a reason that is written down.
LEMMA LeaveMove ==
  ASSUME DoorInvariant, NEW r \in Requests, NEW why \in {"control", "unknown", "avro"},
         NEW res \in {"held", "recorded", "released"}, 
         req[r].phase \in Reserved \ {"body", "creating"},
         res = "released" => req[r].phase = "release",
         Leave(r, why), UNCHANGED readVars, reservation' = [reservation EXCEPT ![r] = res]
  PROVE  DoorInvariant'
<1> DEFINE q == [req[r] EXCEPT !.phase = "ended", !.answer = "error", !.cause = @ \cup {why}]
<1>1. req' = [req EXCEPT ![r] = q]
  BY DEF Leave
<1>2. q \in Handlers
  <2> PICK c : c = req[r].cause \cup {why}
    OBVIOUS
  <2>1. c \in SUBSET Causes
    BY Before DEF Handlers, Causes
  <2>2. "ended" \in Phases
    BY DEF Phases
  <2>3. req[r] \in Handlers
    BY Before
  <2>4. q = [req[r] EXCEPT !.phase = "ended", !.answer = "error", !.cause = c]
    OBVIOUS
  <2>5. [req[r] EXCEPT !.phase = "ended", !.answer = "error", !.cause = c] \in Handlers
    BY <2>1, <2>2, <2>3, Zenon DEF Handlers
  <2> QED BY <2>4, <2>5, Zenon
<1>3. q.cause \cap {"control", "cancelled", "crash", "unknown", "avro"} # {}
  BY Before DEF Handlers
<1>4. /\ q.phase = "ended" /\ q.answer = "error"
      /\ q.effect = req[r].effect /\ q.sent = req[r].sent
  BY Before DEF Handlers
<1>5. ~ req[r].sent /\ (res = "released" => ~ req[r].effect)
  BY Before DEF RequestOK, ServedOK, Reserved
<1>7. spool[r].phase # "begun"
  BY NotBegun DEF Reserved
<1>6. RequestOK(q, res, stream[r], spool[r])
  BY <1>3, <1>4, <1>5, <1>7 DEF RequestOK, BooksOK, ServedOK, EndedOK, BodyOK, SpoolOK, Unreserved, Reserved
<1> QED BY <1>1, <1>2, <1>6, GateMove DEF Settlements

\* On to the next await, with the same reservation and nothing done yet.
LEMMA OnwardMove ==
  ASSUME DoorInvariant, NEW r \in Requests, NEW phase \in Reserved \ {"body"}, GoTo(r, phase),
         UNCHANGED reservation, UNCHANGED readVars,
         req[r].phase \in Reserved \ {"body", "record", "creating"}, spool[r].phase = "none" \/ phase = "record",
         ServedOK([req[r] EXCEPT !.phase = phase])
  PROVE  DoorInvariant'
<1> DEFINE q == [req[r] EXCEPT !.phase = phase]
<1>1. req' = [req EXCEPT ![r] = q]
  BY DEF GoTo
<1>2. q \in Handlers
  BY Before DEF Handlers, Phases
<1>3. RequestOK(q, reservation[r], stream[r], spool[r])
  BY Before, NotBegun
  DEF Handlers, RequestOK, BooksOK, EndedOK, BodyOK, SpoolOK, Unreserved, Reserved, Unmetered
<1> QED BY <1>1, <1>2, <1>3, GateMoveKeeping

-----------------------------------------------------------------------------
(* The gate *)

\* A request arrives: nothing is reserved, nothing is done.
LEMMA ArriveKeeps ==
  ASSUME GateAssumption, DoorInvariant, NEW r \in Requests, Arrive(r), UNCHANGED readVars
  PROVE  DoorInvariant'
<1> DEFINE next(op) == CASE Piped(op) -> "resolve" [] Unmetered(op) -> "staging" [] OTHER -> "authorize"
<1>1. PICK op \in OperationsOf[r] : req' = [req EXCEPT ![r].op = op, ![r].phase = next(op)]
  BY Zenon DEF Arrive
<1>2. op \in AllOperations
  BY DEF GateAssumption
<1>3. next(op) \in {"resolve", "staging", "authorize"} /\ (Unmetered(op) => next(op) = "staging")
  BY DEF Piped, Unmetered
<1> HIDE DEF next
<1> DEFINE q == [req[r] EXCEPT !.op = op, !.phase = next(op)]
<1>4. req' = [req EXCEPT ![r] = q]
  BY <1>1
<1>5. q \in Handlers
  BY <1>2, <1>3, Before DEF Handlers, Phases, Unreserved
<1>6. RequestOK(q, reservation[r], stream[r], spool[r])
  BY <1>3, Before DEF Arrive, At, Handlers, RequestOK, BooksOK, ServedOK, EndedOK, BodyOK, SpoolOK, Unreserved, Reserved, Unmetered
<1> QED BY <1>4, <1>5, <1>6, GateMoveKeeping DEF Arrive

\* The requests of multipart staging answer without a reservation.
LEMMA StagingKeeps ==
  ASSUME DoorInvariant, NEW r \in Requests, ListParts(r) \/ UploadPart(r) \/ InitiateUpload(r),
         UNCHANGED readVars
  PROVE  DoorInvariant'
<1>1. PICK answer \in {"ok", "error"} : Answer(r, answer)
  BY DEF ListParts, UploadPart, InitiateUpload, FailedAttempt
<1> DEFINE q == [req[r] EXCEPT !.phase = "ended", !.answer = answer]
<1>2. req' = [req EXCEPT ![r] = q]
  BY <1>1 DEF Answer
<1>3. q \in Handlers
  BY Before DEF Handlers, Phases
<1>4. Unmetered(req[r].op) /\ At(r, "staging") /\ UNCHANGED reservation
  BY DEF ListParts, UploadPart, InitiateUpload, Unmetered
<1>5. RequestOK(q, reservation[r], stream[r], spool[r])
  BY <1>4, Before DEF At, Handlers, RequestOK, BooksOK, ServedOK, EndedOK, BodyOK, SpoolOK, Unreserved, Reserved, Unmetered
<1> QED BY <1>2, <1>3, <1>4, <1>5, GateMoveKeeping

\* The pipeline is resolved before anything is reserved.
LEMMA ResolveKeeps ==
  ASSUME DoorInvariant, NEW r \in Requests, Resolve(r), UNCHANGED readVars, Piped(req[r].op)
  PROVE  DoorInvariant'
<1>1. ASSUME NEW safe \in BOOLEAN, req' = [req EXCEPT ![r].safe = safe, ![r].phase = "authorize"]
      PROVE  DoorInvariant'
  <2> DEFINE q == [req[r] EXCEPT !.safe = safe, !.phase = "authorize"]
  <2>1. req' = [req EXCEPT ![r] = q]
    BY <1>1
  <2>2. q \in Handlers
    BY Before DEF Handlers, Phases, Unreserved
  <2>3. RequestOK(q, reservation[r], stream[r], spool[r])
    BY Before DEF Resolve, At, Handlers, RequestOK, BooksOK, ServedOK, EndedOK, BodyOK, SpoolOK, Unreserved, Reserved, Unmetered, Piped
  <2> QED BY <2>1, <2>2, <2>3, GateMoveKeeping DEF Resolve
<1>2. CASE FailedAttempt(r)
  <2> DEFINE q == [req[r] EXCEPT !.phase = "ended", !.answer = "error"]
  <2>1. req' = [req EXCEPT ![r] = q]
    BY <1>2 DEF FailedAttempt, Answer
  <2>2. q \in Handlers
    BY Before DEF Handlers, Phases
  <2>3. RequestOK(q, reservation[r], stream[r], spool[r])
    BY Before DEF Resolve, At, Handlers, RequestOK, BooksOK, ServedOK, EndedOK, BodyOK, SpoolOK, Unreserved, Reserved, Unmetered
  <2> QED BY <2>1, <2>2, <2>3, GateMoveKeeping DEF Resolve
<1> QED BY <1>1, <1>2 DEF Resolve

\* The authorization: granted, blocked, or not answered.
LEMMA AuthorizeKeeps ==
  ASSUME DoorInvariant, NEW r \in Requests, Authorize(r), UNCHANGED readVars
  PROVE  DoorInvariant'
<1>0. reservation[r] = "none" /\ reservation = [reservation EXCEPT ![r] = "none"]
  BY Before DEF DoorInvariant, DoorTypeOK, Authorize, At, RequestOK, BooksOK, Unreserved
<1>1. CASE /\ reservation' = [reservation EXCEPT ![r] = "held"]
           /\ GoTo(r, IF Piped(req[r].op) THEN "snapshot" ELSE "backend")
  <2> DEFINE phase == IF Piped(req[r].op) THEN "snapshot" ELSE "backend"
             q == [req[r] EXCEPT !.phase = phase]
  <2>1. req' = [req EXCEPT ![r] = q]
    BY <1>1 DEF GoTo
  <2>2. q \in Handlers
    BY Before DEF Handlers, Phases, Reserved
  <2>3. RequestOK(q, "held", stream[r], spool[r])
    BY Before DEF Authorize, At, Handlers, RequestOK, BooksOK, ServedOK, EndedOK, BodyOK, SpoolOK, Unreserved, Reserved, Unmetered
  <2> QED BY <1>1, <2>1, <2>2, <2>3, GateMove DEF Settlements
<1>2. CASE Answer(r, "error") /\ UNCHANGED reservation
  <2> DEFINE q == [req[r] EXCEPT !.phase = "ended", !.answer = "error"]
  <2>1. req' = [req EXCEPT ![r] = q]
    BY <1>2 DEF Answer
  <2>2. q \in Handlers
    BY Before DEF Handlers, Phases
  <2>3. RequestOK(q, reservation[r], stream[r], spool[r])
    BY Before DEF Authorize, At, Handlers, RequestOK, BooksOK, ServedOK, EndedOK, BodyOK, SpoolOK, Unreserved, Reserved, Unmetered
  <2> QED BY <1>2, <2>1, <2>2, <2>3, GateMoveKeeping
<1>3. CASE Leave(r, "control") /\ reservation' \in {reservation, [reservation EXCEPT ![r] = "held"]}
  <2> DEFINE q == [req[r] EXCEPT !.phase = "ended", !.answer = "error", !.cause = @ \cup {"control"}]
  <2>1. req' = [req EXCEPT ![r] = q]
    BY <1>3 DEF Leave
  <2>2. q \in Handlers /\ q.cause \cap {"control", "cancelled", "crash", "unknown", "avro"} # {}
    BY Before DEF Handlers, Phases, Causes
  <2>3. PICK res \in {"none", "held"} : reservation' = [reservation EXCEPT ![r] = res]
    BY <1>0, <1>3
  <2>4. q.phase = "ended" /\ q.answer = "error" /\ ~ q.effect /\ ~ q.sent /\ q.op = req[r].op
    BY Before DEF Authorize, At, Handlers, RequestOK, ServedOK
  <2>6. spool[r].phase # "begun"
    BY NotBegun DEF Authorize, At
  <2>5. RequestOK(q, res, stream[r], spool[r])
    BY <2>2, <2>4, <2>6 DEF RequestOK, BooksOK, ServedOK, EndedOK, BodyOK, SpoolOK, Unreserved, Reserved
  <2> QED BY <2>1, <2>2, <2>3, <2>5, GateMove DEF Settlements
<1> QED BY <1>1, <1>2, <1>3 DEF Authorize

\* The snapshot and the backend: on to the first call, or a release.
LEMMA SnapshotKeeps ==
  ASSUME DoorInvariant, NEW r \in Requests, LoadSnapshot(r) \/ ResolveBackend(r), UNCHANGED readVars
  PROVE  DoorInvariant'
<1>1. req[r].phase \in {"snapshot", "backend"} /\ UNCHANGED reservation /\ spool[r].phase = "none"
  BY Before DEF LoadSnapshot, ResolveBackend, At, RequestOK, SpoolOK
<1>2. CASE ToRelease(r)
  BY <1>1, <1>2, ReleaseMove DEF Reserved
<1>3. ASSUME NEW phase \in {"backend", "preflight", "open", "sink", "call"}, GoTo(r, phase),
             phase = "preflight" => req[r].op = "transformed", phase = "sink" => req[r].op = "put"
      PROVE  DoorInvariant'
  <2>1. ServedOK([req[r] EXCEPT !.phase = phase])
    BY <1>1, <1>3, Before DEF Handlers, RequestOK, ServedOK, Unreserved
  <2> QED BY <1>1, <1>3, <2>1, OnwardMove DEF Reserved
<1>4. ToRelease(r) \/ GoTo(r, "backend") \/ GoTo(r, FirstCall(r))
  BY DEF LoadSnapshot, ResolveBackend
<1>5. /\ FirstCall(r) \in {"preflight", "open", "sink", "call"}
      /\ FirstCall(r) = "preflight" => req[r].op = "transformed"
      /\ FirstCall(r) = "sink" => req[r].op = "put"
  BY DEF FirstCall
<1> QED BY <1>2, <1>3, <1>4, <1>5

\* The release, whether its reply arrives or not.
LEMMA ReleaseFailureKeeps ==
  ASSUME DoorInvariant, NEW r \in Requests, ReleaseFailure(r), UNCHANGED readVars
  PROVE  DoorInvariant'
<1>1. /\ reservation[r] = "held" /\ reservation = [reservation EXCEPT ![r] = "held"]
      /\ req[r].phase = "release"
  BY Before DEF DoorInvariant, DoorTypeOK, ReleaseFailure, At, RequestOK, BooksOK, Reserved
<1>2. Released(r) => reservation' = [reservation EXCEPT ![r] = "released"]
  BY <1>1 DEF Released
<1>3. CASE Released(r) /\ Answer(r, "error")
  <2> DEFINE q == [req[r] EXCEPT !.phase = "ended", !.answer = "error"]
  <2>1. req' = [req EXCEPT ![r] = q]
    BY <1>3 DEF Answer
  <2>2. q \in Handlers
    BY Before DEF Handlers, Phases
  <2>3. RequestOK(q, "released", stream[r], spool[r])
    BY <1>1, Before DEF Handlers, RequestOK, BooksOK, ServedOK, EndedOK, BodyOK, SpoolOK, Unreserved, Reserved, Unmetered
  <2> QED BY <1>2, <1>3, <2>1, <2>2, <2>3, GateMove DEF Settlements
<1>4. CASE Leave(r, "control") /\ (Released(r) \/ UNCHANGED reservation)
  <2>1. PICK res \in {"held", "released"} : reservation' = [reservation EXCEPT ![r] = res]
    BY <1>1, <1>2, <1>4
  <2> QED BY <1>1, <1>4, <2>1, LeaveMove DEF Reserved
<1> QED BY <1>3, <1>4 DEF ReleaseFailure

\* The record, whether its reply arrives or not.
LEMMA RecordUsageKeeps ==
  ASSUME DoorInvariant, NEW r \in Requests, RecordUsage(r), UNCHANGED readVars
  PROVE  DoorInvariant'
<1>1. /\ reservation[r] = "held" /\ reservation = [reservation EXCEPT ![r] = "held"]
      /\ req[r].phase = "record"
  BY Before DEF DoorInvariant, DoorTypeOK, RecordUsage, At, RequestOK, BooksOK, Reserved
<1>2. Recorded(r) => reservation' = [reservation EXCEPT ![r] = "recorded"]
  BY <1>1 DEF Recorded
<1>3. CASE /\ Recorded(r)
           /\ req' = [req EXCEPT
                ![r].answer = "ok",
                ![r].sent = req[r].op \in {"get", "list", "head"} \/ @,
                ![r].phase = IF req[r].op = "transformed" THEN "replay" ELSE "ended"]
  <2> DEFINE sent == req[r].op \in {"get", "list", "head"} \/ req[r].sent
             phase == IF req[r].op = "transformed" THEN "replay" ELSE "ended"
             q == [req[r] EXCEPT !.answer = "ok", !.sent = sent, !.phase = phase]
  <2>1. req' = [req EXCEPT ![r] = q]
    BY <1>3
  <2>2. sent \in BOOLEAN /\ phase \in {"replay", "ended"}
    BY Before DEF Handlers
  <2>3. /\ req[r].op = "transformed" => ~ sent
        /\ ~ req[r].sent
    BY <1>1, Before DEF RequestOK, ServedOK
  <2>4. phase = "replay" <=> req[r].op = "transformed"
    OBVIOUS
  <2> HIDE DEF sent, phase
  <2>5. q \in Handlers
    BY <2>2, Before DEF Handlers, Phases
  <2>6. /\ q.phase = phase /\ q.sent = sent /\ q.answer = "ok" /\ q.op = req[r].op
        /\ q.avro = req[r].avro /\ q.got = req[r].got /\ q.seen = req[r].seen /\ q.effect = req[r].effect
    BY <2>2, Before DEF Handlers
  <2>7. ~ Unmetered(req[r].op) /\ (phase = "replay" => ~ req[r].effect /\ (req[r].avro \/ req[r].got = req[r].seen))
    BY <1>1, <2>4, Before DEF RequestOK, BooksOK, ServedOK
  <2>9. spool[r].phase # "begun"
    BY <1>1, NotBegun
  <2>8. RequestOK(q, "recorded", stream[r], spool[r])
    BY <2>2, <2>3, <2>4, <2>6, <2>7, <2>9
    DEF RequestOK, BooksOK, ServedOK, EndedOK, BodyOK, SpoolOK, Unreserved, Reserved
  <2> QED BY <1>2, <1>3, <2>1, <2>5, <2>8, GateMove DEF Settlements
<1>4. CASE Leave(r, "control") /\ (Recorded(r) \/ UNCHANGED reservation)
  <2>1. PICK res \in {"held", "recorded"} : reservation' = [reservation EXCEPT ![r] = res]
    BY <1>1, <1>2, <1>4
  <2> QED BY <1>1, <1>4, <2>1, LeaveMove DEF Reserved
<1> QED BY <1>3, <1>4 DEF RecordUsage

\* The release of a dropped body.
LEMMA DetachedReleaseKeeps ==
  ASSUME DoorInvariant, NEW r \in Requests, DetachedRelease(r), UNCHANGED readVars
  PROVE  DoorInvariant'
<1>1. /\ reservation[r] \in {"held", "recorded"} /\ reservation = [reservation EXCEPT ![r] = reservation[r]]
      /\ req[r].phase = "detached"
  BY Before DEF DoorInvariant, DoorTypeOK, DetachedRelease, At, RequestOK, BooksOK
<1>2. CASE Released(r) /\ GoTo(r, "ended")
  <2> DEFINE q == [req[r] EXCEPT !.phase = "ended"]
  <2>1. req' = [req EXCEPT ![r] = q]
    BY <1>2 DEF GoTo
  <2>2. q \in Handlers
    BY Before DEF Handlers, Phases
  <2>3. PICK res \in {"released", "recorded"} : reservation' = [reservation EXCEPT ![r] = res]
    BY <1>1, <1>2 DEF Released
  <2>4. RequestOK(q, res, stream[r], spool[r])
    BY <1>1, Before DEF Handlers, RequestOK, BooksOK, ServedOK, EndedOK, BodyOK, SpoolOK, Unreserved, Reserved, Unmetered
  <2> QED BY <2>1, <2>2, <2>3, <2>4, GateMove DEF Settlements
<1>3. CASE /\ UNCHANGED reservation
           /\ req' = [req EXCEPT ![r].phase = "ended", ![r].cause = @ \cup {"control"}]
  <2> DEFINE q == [req[r] EXCEPT !.phase = "ended", !.cause = @ \cup {"control"}]
  <2>1. req' = [req EXCEPT ![r] = q]
    BY <1>3
  <2>2. q \in Handlers /\ q.cause \cap {"control", "cancelled", "crash", "unknown", "avro"} # {}
    BY Before DEF Handlers, Phases, Causes
  <2>3. /\ q.phase = "ended" /\ q.answer = req[r].answer /\ q.answer # "ok" /\ ~ q.effect /\ ~ q.sent
        /\ q.op = req[r].op
    BY <1>1, Before DEF Handlers, RequestOK, BooksOK, ServedOK
  <2>5. spool[r].phase # "begun"
    BY <1>1, Before DEF RequestOK, SpoolOK
  <2>4. RequestOK(q, reservation[r], stream[r], spool[r])
    BY <1>1, <2>2, <2>3, <2>5 DEF RequestOK, BooksOK, ServedOK, EndedOK, BodyOK, SpoolOK, Unreserved, Reserved
  <2> QED BY <1>3, <2>1, <2>2, <2>4, GateMoveKeeping
<1> QED BY <1>2, <1>3 DEF DetachedRelease

\* The client goes away at any await of its handler.
LEMMA CancelKeeps ==
  ASSUME DoorInvariant, NEW r \in Requests, Cancel(r), UNCHANGED readVars
  PROVE  DoorInvariant'
<1>1. PICK happened \in BOOLEAN :
        /\ req' = [req EXCEPT ![r].phase = "ended", ![r].effect = happened,
                              ![r].cause = @ \cup {"cancelled"}]
        /\ req[r].phase \in {"call", "commit"} \/ happened = req[r].effect
  BY Before DEF Cancel, Handlers
<1> DEFINE q == [req[r] EXCEPT !.phase = "ended", !.effect = happened, !.cause = @ \cup {"cancelled"}]
<1>2. req' = [req EXCEPT ![r] = q]
  BY <1>1
<1>3. q \in Handlers /\ q.cause \cap {"control", "cancelled", "crash", "unknown", "avro"} # {}
  BY Before DEF Handlers, Phases, Causes
<1>4. /\ q.phase = "ended" /\ q.answer = req[r].answer /\ q.effect = happened /\ q.sent = req[r].sent
      /\ q.op = req[r].op
  BY Before DEF Handlers
<1>5. req[r].phase \in Unreserved \cup Reserved /\ req[r].phase # "body" /\ req[r].answer = "none" /\ ~ req[r].sent
  BY Before DEF Cancel, Handling, Handlers, Phases, RequestOK, BooksOK, ServedOK, Unreserved, Reserved
<1>6. PICK res \in Settlements :
        /\ reservation' = [reservation EXCEPT ![r] = res]
        /\ res = "released" => ~ happened
  <2>1. reservation = [reservation EXCEPT ![r] = reservation[r]] /\ reservation[r] \in {"none", "held"}
    BY <1>5, Before DEF DoorInvariant, DoorTypeOK, RequestOK, BooksOK
  <2>2. CASE UNCHANGED reservation
    BY <2>1, <2>2 DEF Settlements
  <2>3. CASE reservation' = [reservation EXCEPT ![r] = "held"]
    BY <2>3 DEF Settlements
  <2>4. CASE At(r, "release") /\ Released(r)
    <3>1. ~ happened /\ reservation[r] = "held"
      BY <1>1, <2>4, Before DEF At, RequestOK, BooksOK, ServedOK, Reserved
    <3> QED BY <2>4, <3>1 DEF Released, Settlements
  <2>5. CASE At(r, "record") /\ Recorded(r)
    <3>1. reservation[r] = "held"
      BY <2>5, Before DEF At, RequestOK, BooksOK, Reserved
    <3> QED BY <2>5, <3>1 DEF Recorded, Settlements
  <2> QED BY <2>2, <2>3, <2>4, <2>5 DEF Cancel
<1>7. RequestOK(q, res, stream[r], spool[r])
  BY <1>3, <1>4, <1>5, <1>6
  DEF RequestOK, BooksOK, ServedOK, EndedOK, BodyOK, SpoolOK, Unreserved, Reserved
<1> QED BY <1>2, <1>3, <1>6, <1>7, GateMove

-----------------------------------------------------------------------------
(* Mutations *)

\* The mutation happened: its usage is recorded next.
LEMMA EffectMove ==
  ASSUME DoorInvariant, NEW r \in Requests, req[r].phase \in {"call", "commit"}, req[r].op # "transformed",
         NEW effect \in BOOLEAN, WithEffect(r, effect, "record"), UNCHANGED reservation, UNCHANGED readVars
  PROVE  DoorInvariant'
<1> DEFINE q == [req[r] EXCEPT !.effect = effect, !.phase = "record"]
<1>1. req' = [req EXCEPT ![r] = q]
  BY DEF WithEffect
<1>2. q \in Handlers
  <2>1. "record" \in Phases
    BY DEF Phases, Reserved
  <2>2. req[r] \in Handlers
    BY Before
  <2> QED BY <2>1, <2>2, Zenon DEF Handlers
<1>3. RequestOK(q, reservation[r], stream[r], spool[r])
  BY Before
  DEF Handlers, RequestOK, BooksOK, ServedOK, EndedOK, BodyOK, SpoolOK, Unreserved, Reserved, Unmetered
<1> QED BY <1>1, <1>2, <1>3, GateMoveKeeping

\* Nobody knows whether it happened: the reservation stays, and the reason with it.
LEMMA UnknownMove ==
  ASSUME DoorInvariant, NEW r \in Requests, req[r].phase \in {"call", "commit"},
         LeaveUnknown(r), UNCHANGED reservation, UNCHANGED readVars
  PROVE  DoorInvariant'
<1>1. PICK happened \in BOOLEAN :
        req' = [req EXCEPT ![r].effect = happened, ![r].phase = "ended",
                           ![r].answer = "error", ![r].cause = @ \cup {"unknown"}]
  BY DEF LeaveUnknown
<1> DEFINE q == [req[r] EXCEPT !.effect = happened, !.phase = "ended",
                               !.answer = "error", !.cause = @ \cup {"unknown"}]
<1>2. req' = [req EXCEPT ![r] = q]
  BY <1>1
<1>3. q \in Handlers
  BY Before DEF Handlers, Phases, Causes
<1>4. q.cause \cap {"control", "cancelled", "crash", "unknown", "avro"} # {}
  BY Before DEF Handlers
<1>5. q.phase = "ended" /\ q.answer = "error" /\ q.sent = req[r].sent
  BY Before DEF Handlers
<1>6. ~ req[r].sent /\ reservation[r] = "held"
  BY Before DEF RequestOK, BooksOK, ServedOK, Reserved
<1>8. spool[r].phase # "begun"
  BY Before DEF RequestOK, SpoolOK
<1>7. RequestOK(q, reservation[r], stream[r], spool[r])
  BY <1>4, <1>5, <1>6, <1>8 DEF RequestOK, BooksOK, ServedOK, EndedOK, BodyOK, SpoolOK, Unreserved, Reserved
<1> QED BY <1>2, <1>3, <1>7, GateMoveKeeping

\* DELETE, abort and LIST.
LEMMA CallKeeps ==
  ASSUME DoorInvariant, NEW r \in Requests, DeleteObject(r) \/ AbortUpload(r) \/ ListObjects(r),
         UNCHANGED readVars
  PROVE  DoorInvariant'
<1>1. /\ req[r].phase = "call" /\ req[r].op # "transformed" /\ UNCHANGED reservation
      /\ \/ WithEffect(r, TRUE, "record") \/ GoTo(r, "record") \/ ToRelease(r) \/ LeaveUnknown(r)
  BY DEF DeleteObject, AbortUpload, ListObjects, At
<1>2. CASE GoTo(r, "record")
  <2>1. ServedOK([req[r] EXCEPT !.phase = "record"])
    BY <1>1, Before DEF Handlers, RequestOK, ServedOK, Unreserved
  <2> QED BY <1>1, <1>2, <2>1, OnwardMove DEF Reserved
<1>3. CASE ToRelease(r)
  BY <1>1, <1>3, ReleaseMove DEF Reserved
<1> QED BY <1>1, <1>2, <1>3, EffectMove, UnknownMove

\* Single PUT.
LEMMA PutKeeps ==
  ASSUME DoorInvariant, NEW r \in Requests, BeginSink(r) \/ StreamBody(r) \/ StreamAvro(r) \/ CommitSink(r),
         UNCHANGED readVars
  PROVE  DoorInvariant'
<1>1. /\ req[r].phase \in {"sink", "stream", "commit"} /\ UNCHANGED reservation
      /\ req[r].op = "put" /\ spool[r].phase = "none" /\ ~ req[r].sent /\ ~ req[r].effect
      /\ reservation[r] = "held"
  BY Before DEF BeginSink, StreamBody, StreamAvro, CommitSink, At, RequestOK, BooksOK, ServedOK, SpoolOK, Reserved
<1>2. ASSUME NEW phase \in {"stream", "commit"}, GoTo(r, phase) PROVE DoorInvariant'
  <2>1. ServedOK([req[r] EXCEPT !.phase = phase])
    BY <1>1, Before DEF Handlers, RequestOK, ServedOK, Unreserved
  <2> QED BY <1>1, <1>2, <2>1, OnwardMove DEF Reserved
<1>3. CASE ToRelease(r)
  BY <1>1, <1>3, ReleaseMove DEF Reserved
<1>4. CASE Leave(r, "unknown")
  <2>1. reservation' = [reservation EXCEPT ![r] = "held"]
    BY <1>1 DEF DoorInvariant, DoorTypeOK
  <2> QED BY <1>1, <1>4, <2>1, LeaveMove DEF Reserved
<1>5. CASE req' = [req EXCEPT ![r].phase = "commit", ![r].avro = TRUE]
  <2> DEFINE q == [req[r] EXCEPT !.phase = "commit", !.avro = TRUE]
  <2>1. req' = [req EXCEPT ![r] = q]
    BY <1>5
  <2>2. q \in Handlers
    BY Before DEF Handlers, Phases, Reserved
  <2>3. RequestOK(q, reservation[r], stream[r], spool[r])
    BY <1>1, Before
    DEF Handlers, RequestOK, BooksOK, ServedOK, EndedOK, BodyOK, SpoolOK, Unreserved, Reserved, Unmetered
  <2> QED BY <1>1, <2>1, <2>2, <2>3, GateMoveKeeping
<1>6. /\ BeginSink(r) => GoTo(r, "stream") \/ ToRelease(r) \/ Leave(r, "unknown")
      /\ StreamBody(r) => GoTo(r, "commit") \/ ToRelease(r)
      /\ StreamAvro(r) => ToRelease(r) \/ req' = [req EXCEPT ![r].phase = "commit", ![r].avro = TRUE]
      /\ CommitSink(r) => /\ req[r].phase = "commit"
                          /\ WithEffect(r, TRUE, "record") \/ ToRelease(r) \/ LeaveUnknown(r)
  BY DEF BeginSink, StreamBody, StreamAvro, CommitSink, At, PutFails, BackendUnsuitable, WriteRefused, PutCommitted
<1> QED BY <1>1, <1>2, <1>3, <1>4, <1>5, <1>6, EffectMove, UnknownMove

-----------------------------------------------------------------------------
(* Reads, until their output begins *)

\* GET and HEAD.
LEMMA GetKeeps ==
  ASSUME DoorInvariant, NEW r \in Requests, GetObject(r) \/ HeadObject(r)
  PROVE  DoorInvariant'
<1>1. /\ req[r].phase = "open" /\ req[r].op # "transformed" /\ UNCHANGED reservation /\ UNCHANGED readVars
      /\ GoTo(r, "record") \/ ToRelease(r)
  BY DEF GetObject, HeadObject, At, OpenBackendObject, MeteredRead, OpenError, ConditionFails
<1>2. CASE GoTo(r, "record")
  <2>1. ServedOK([req[r] EXCEPT !.phase = "record"])
    BY <1>1, Before DEF Handlers, RequestOK, ServedOK, Unreserved
  <2> QED BY <1>1, <1>2, <2>1, OnwardMove DEF Reserved
<1>3. CASE ToRelease(r)
  BY <1>1, <1>3, ReleaseMove DEF Reserved
<1> QED BY <1>1, <1>2, <1>3

\* The preflight fixes what the source must be.
LEMMA PreflightKeeps ==
  ASSUME DoorInvariant, NEW r \in Requests, Preflight(r)
  PROVE  DoorInvariant'
<1>1. /\ req[r].phase = "preflight" /\ UNCHANGED reservation /\ UNCHANGED readVars
      /\ req[r].op = "transformed" /\ spool[r].phase = "none" /\ ~ req[r].sent /\ ~ req[r].effect
      /\ reservation[r] = "held" /\ req[r].answer = "none" /\ ~ req[r].avro
  BY Before DEF Preflight, At, RequestOK, BooksOK, ServedOK, SpoolOK, Reserved
<1>2. object.content \in Nat
  BY DEF DoorInvariant, DoorTypeOK
<1>3. CASE req' = [req EXCEPT ![r].phase = "source", ![r].seen = HeadMetadata.content]
  <2> DEFINE q == [req[r] EXCEPT !.phase = "source", !.seen = object.content]
  <2>1. req' = [req EXCEPT ![r] = q]
    BY <1>3 DEF HeadMetadata
  <2>2. q \in Handlers
    BY <1>2, Before DEF Handlers, Phases, Reserved
  <2>3. RequestOK(q, reservation[r], stream[r], spool[r])
    BY <1>1, Before
    DEF Handlers, RequestOK, BooksOK, ServedOK, EndedOK, BodyOK, SpoolOK, Unreserved, Reserved, Unmetered
  <2> QED BY <1>1, <2>1, <2>2, <2>3, GateMoveKeeping
<1>4. CASE req' = [req EXCEPT ![r].phase = "avro", ![r].seen = HeadMetadata.content, ![r].avro = TRUE]
  <2> DEFINE q == [req[r] EXCEPT !.phase = "avro", !.seen = object.content, !.avro = TRUE]
  <2>1. req' = [req EXCEPT ![r] = q]
    BY <1>4 DEF HeadMetadata
  <2>2. q \in Handlers
    BY <1>2, Before DEF Handlers, Phases, Reserved
  <2>3. RequestOK(q, reservation[r], stream[r], spool[r])
    BY <1>1, Before
    DEF Handlers, RequestOK, BooksOK, ServedOK, EndedOK, BodyOK, SpoolOK, Unreserved, Reserved, Unmetered
  <2> QED BY <1>1, <2>1, <2>2, <2>3, GateMoveKeeping
<1>5. CASE ToRelease(r)
  BY <1>1, <1>5, ReleaseMove DEF Reserved
<1> QED BY <1>3, <1>4, <1>5 DEF Preflight

\* What is opened is what was inspected.
LEMMA OpenSourceKeeps ==
  ASSUME DoorInvariant, NEW r \in Requests, OpenSource(r)
  PROVE  DoorInvariant'
<1>1. /\ req[r].phase = "source" /\ UNCHANGED reservation /\ UNCHANGED readVars
      /\ req[r].op = "transformed" /\ spool[r].phase = "none" /\ ~ req[r].sent /\ ~ req[r].effect
      /\ reservation[r] = "held" /\ req[r].answer = "none" /\ ~ req[r].avro
  BY Before DEF OpenSource, At, RequestOK, BooksOK, ServedOK, SpoolOK, Reserved
<1>2. object.content \in Nat
  BY DEF DoorInvariant, DoorTypeOK
<1>3. CASE SourceMatches(r) /\ req' = [req EXCEPT ![r].phase = "session", ![r].got = object.content]
  <2> DEFINE q == [req[r] EXCEPT !.phase = "session", !.got = object.content]
  <2>1. req' = [req EXCEPT ![r] = q] /\ object.content = req[r].seen
    BY <1>3 DEF SourceMatches, GetMetadata
  <2>2. q \in Handlers
    BY <1>2, Before DEF Handlers, Phases, Reserved
  <2>3. RequestOK(q, reservation[r], stream[r], spool[r])
    BY <1>1, <2>1, Before
    DEF Handlers, RequestOK, BooksOK, ServedOK, EndedOK, BodyOK, SpoolOK, Unreserved, Reserved, Unmetered
  <2> QED BY <1>1, <2>1, <2>2, <2>3, GateMoveKeeping
<1>4. CASE ToRelease(r)
  BY <1>1, <1>4, ReleaseMove DEF Reserved
<1> QED BY <1>3, <1>4 DEF OpenSource, OpenBackendObject, OpenError, ConditionFails

\* The Avro form, up to its spool.
LEMMA AvroKeeps ==
  ASSUME DoorInvariant, NEW r \in Requests, OpenAvroSource(r) \/ CollectAvro(r) \/ ConvertAvro(r)
  PROVE  DoorInvariant'
<1>1. /\ req[r].phase \in {"avro", "collect", "convert"} /\ UNCHANGED reservation /\ UNCHANGED readVars
      /\ req[r].op = "transformed" /\ spool[r].phase = "none" /\ ~ req[r].sent /\ ~ req[r].effect
      /\ reservation[r] = "held" /\ req[r].answer = "none" /\ req[r].avro
  BY Before DEF OpenAvroSource, CollectAvro, ConvertAvro, At, RequestOK, BooksOK, ServedOK, SpoolOK, Reserved
<1>2. object.content \in Nat
  BY DEF DoorInvariant, DoorTypeOK
<1>3. CASE req' = [req EXCEPT ![r].phase = "collect", ![r].got = GetMetadata.content]
  <2> DEFINE q == [req[r] EXCEPT !.phase = "collect", !.got = object.content]
  <2>1. req' = [req EXCEPT ![r] = q]
    BY <1>3 DEF GetMetadata
  <2>2. q \in Handlers
    BY <1>2, Before DEF Handlers, Phases, Reserved
  <2>3. RequestOK(q, reservation[r], stream[r], spool[r])
    BY <1>1, Before
    DEF Handlers, RequestOK, BooksOK, ServedOK, EndedOK, BodyOK, SpoolOK, Unreserved, Reserved, Unmetered
  <2> QED BY <1>1, <2>1, <2>2, <2>3, GateMoveKeeping
<1>4. CASE Leave(r, "avro")
  <2>1. reservation' = [reservation EXCEPT ![r] = "held"]
    BY <1>1 DEF DoorInvariant, DoorTypeOK
  <2> QED BY <1>1, <1>4, <2>1, LeaveMove DEF Reserved
<1>5. ASSUME NEW phase \in {"convert", "spool"}, GoTo(r, phase) PROVE DoorInvariant'
  <2>1. ServedOK([req[r] EXCEPT !.phase = phase])
    BY <1>1, Before DEF Handlers, RequestOK, ServedOK, Unreserved
  <2> QED BY <1>1, <1>5, <2>1, OnwardMove DEF Reserved
<1>6. CASE ToRelease(r)
  BY <1>1, <1>6, ReleaseMove DEF Reserved
<1> QED BY <1>3, <1>4, <1>5, <1>6 DEF OpenAvroSource, AvroRefused, CollectAvro, ConvertAvro

\* An empty channel is a channel.
LEMMA NoStreamTyped == NoStream \in Streams
<1>1. <<>> \in Seq(Events)
  OBVIOUS
<1> QED BY <1>1, Zenon DEF Streams, NoStream

\* A session opens the worker's channel, or goes to the spool.
LEMMA StartSessionKeeps ==
  ASSUME DoorInvariant, NEW r \in Requests, StartSession(r)
  PROVE  DoorInvariant'
<1>1. /\ req[r].phase = "session" /\ UNCHANGED <<reservation, object, spool, reserved>>
      /\ req[r].op = "transformed" /\ spool[r].phase = "none" /\ ~ req[r].sent /\ ~ req[r].effect
      /\ reservation[r] = "held" /\ req[r].answer = "none" /\ ~ req[r].avro /\ req[r].got = req[r].seen
  BY Before DEF StartSession, At, RequestOK, BooksOK, ServedOK, SpoolOK, Reserved
<1>2. CASE /\ req[r].safe /\ GoTo(r, "first")
           /\ stream' = [stream EXCEPT ![r] = [NoStream EXCEPT !.live = TRUE]]
  <2> DEFINE q == [req[r] EXCEPT !.phase = "first"]
             s == [NoStream EXCEPT !.live = TRUE]
  <2>1. req' = [req EXCEPT ![r] = q] /\ stream' = [stream EXCEPT ![r] = s]
    BY <1>2 DEF GoTo
  <2>2. q \in Handlers
    BY Before DEF Handlers, Phases, Reserved
  <2>3. s \in Streams
    BY NoStreamTyped DEF Streams
  <2>4. RequestOK(q, reservation[r], s, spool[r])
    BY <1>1, <1>2, Before
    DEF Handlers, RequestOK, BooksOK, ServedOK, EndedOK, BodyOK, SpoolOK, Unreserved, Reserved, Unmetered
  <2> HIDE DEF s
  <2> QED BY <1>1, <2>1, <2>2, <2>3, <2>4, StreamMove
<1>3. CASE UNCHANGED stream /\ (GoTo(r, "spool") \/ ToRelease(r))
  <2>1. UNCHANGED reservation /\ UNCHANGED readVars
    BY <1>1, <1>3 DEF readVars
  <2>2. CASE GoTo(r, "spool")
    <3>1. ServedOK([req[r] EXCEPT !.phase = "spool"])
      BY <1>1, Before DEF Handlers, RequestOK, ServedOK, Unreserved
    <3> QED BY <1>1, <2>1, <2>2, <3>1, OnwardMove DEF Reserved
  <2>3. CASE ToRelease(r)
    BY <1>1, <2>1, <2>3, ReleaseMove DEF Reserved
  <2> QED BY <1>3, <2>2, <2>3
<1> QED BY <1>2, <1>3 DEF StartSession

-----------------------------------------------------------------------------
(* A direct body *)

\* The channel after its first event is taken.
LEMMA PopTyped ==
  ASSUME NEW s \in Streams, s.events # <<>>
  PROVE  [s EXCEPT !.events = Tail(@)] \in Streams
<1>1. Tail(s.events) \in Seq(Events)
  BY HeadTailProperties DEF Streams
<1> QED BY <1>1 DEF Streams

\* The handler looks at the first event and leaves data where it is.
LEMMA FirstEventKeeps ==
  ASSUME DoorInvariant, NEW r \in Requests, FirstEvent(r)
  PROVE  DoorInvariant'
<1>1. /\ req[r].phase = "first" /\ UNCHANGED <<reservation, object, spool, reserved>>
      /\ req[r].op = "transformed" /\ spool[r].phase = "none" /\ ~ req[r].sent /\ ~ req[r].effect
      /\ reservation[r] = "held" /\ req[r].answer = "none" /\ ~ req[r].avro /\ req[r].got = req[r].seen
      /\ req[r].safe
  BY Before DEF FirstEvent, At, RequestOK, BooksOK, ServedOK, SpoolOK, Reserved
<1> DEFINE s == [stream[r] EXCEPT !.events = Tail(@)]
<1>2. s \in Streams
  BY Before, PopTyped DEF FirstEvent
<1>3. ASSUME NEW phase \in {"release", "settling"}, GoTo(r, phase), stream' = Pop(r) PROVE DoorInvariant'
  <2> DEFINE q == [req[r] EXCEPT !.phase = phase]
  <2>1. req' = [req EXCEPT ![r] = q] /\ stream' = [stream EXCEPT ![r] = s]
    BY <1>3 DEF GoTo, Pop
  <2>2. q \in Handlers
    BY Before DEF Handlers, Phases, Reserved
  <2> HIDE DEF s
  <2>3. RequestOK(q, reservation[r], s, spool[r])
    BY <1>1, Before
    DEF Handlers, RequestOK, BooksOK, ServedOK, EndedOK, BodyOK, SpoolOK, Unreserved, Reserved, Unmetered
  <2> QED BY <1>1, <1>2, <2>1, <2>2, <2>3, StreamMove
<1>4. CASE Head(stream[r].events) = "data" /\ GoTo(r, "body") /\ UNCHANGED stream
  <2> DEFINE q == [req[r] EXCEPT !.phase = "body"]
  <2>1. req' = [req EXCEPT ![r] = q]
    BY <1>4 DEF GoTo
  <2>2. q \in Handlers
    BY Before DEF Handlers, Phases, Reserved
  <2>3. stream[r].events # <<>>
    BY DEF FirstEvent
  <2>4. BodyOK(q, stream[r])
    BY <1>4, <2>3 DEF BodyOK
  <2>5. RequestOK(q, reservation[r], stream[r], spool[r])
    BY <1>1, <2>4, Before
    DEF Handlers, RequestOK, BooksOK, ServedOK, EndedOK, SpoolOK, Unreserved, Reserved, Unmetered
  <2>6. UNCHANGED readVars
    BY <1>1, <1>4 DEF readVars
  <2> QED BY <1>1, <2>1, <2>2, <2>5, <2>6, GateMoveKeeping
<1>5. \/ ToRelease(r) /\ stream' = Pop(r)
      \/ Head(stream[r].events) = "data" /\ GoTo(r, "body") /\ UNCHANGED stream
      \/ GoTo(r, "settling") /\ stream' = Pop(r)
  BY DEF FirstEvent
<1> QED BY <1>3, <1>4, <1>5 DEF ToRelease

\* What is known of a body that is polled.
LEMMA BodyKnown ==
  ASSUME DoorInvariant, NEW r \in Requests, req[r].phase = "body"
  PROVE  /\ req[r].op = "transformed" /\ req[r].safe /\ ~ req[r].avro /\ req[r].got = req[r].seen
         /\ reservation[r] = "held" /\ req[r].answer = "none" /\ ~ req[r].effect /\ spool[r].phase = "none"
         /\ req[r].sent \/ (stream[r].events # <<>> /\ Head(stream[r].events) = "data")
  BY Before DEF RequestOK, BooksOK, ServedOK, BodyOK, SpoolOK, Reserved, Handlers

\* The body's own steps: data is disclosed, a failure or the end is met.
LEMMA PollKeeps ==
  ASSUME DoorInvariant, NEW r \in Requests, PollData(r) \/ PollFailed(r) \/ PollDone(r)
  PROVE  DoorInvariant'
<1>1. /\ req[r].phase = "body" /\ stream' = Pop(r) /\ UNCHANGED <<reservation, object, spool, reserved>>
      /\ stream[r].events # <<>>
  BY DEF PollData, PollFailed, PollDone, At
<1> DEFINE s == [stream[r] EXCEPT !.events = Tail(@)]
<1>2. s \in Streams /\ stream' = [stream EXCEPT ![r] = s]
  BY <1>1, Before, PopTyped DEF Pop
<1> HIDE DEF s
<1>3. CASE req' = [req EXCEPT ![r].sent = TRUE]
  <2>0. PICK yes \in BOOLEAN : yes = TRUE
    OBVIOUS
  <2> DEFINE q == [req[r] EXCEPT !.sent = yes]
  <2>1. req' = [req EXCEPT ![r] = q]
    BY <1>3, <2>0
  <2>2. q \in Handlers
    BY Before DEF Handlers
  <2>3. /\ q.phase = "body" /\ q.sent /\ q.op = req[r].op /\ q.safe = req[r].safe /\ q.avro = req[r].avro
        /\ q.got = req[r].got /\ q.seen = req[r].seen /\ q.effect = req[r].effect /\ q.answer = req[r].answer
    BY <1>1, <2>0, Before DEF Handlers
  <2>4. RequestOK(q, reservation[r], s, spool[r])
    BY <1>1, <2>3, BodyKnown
    DEF RequestOK, BooksOK, ServedOK, EndedOK, BodyOK, SpoolOK, Unreserved, Reserved, Unmetered
  <2> QED BY <1>1, <1>2, <2>1, <2>2, <2>4, StreamMove
<1>4. ASSUME NEW q \in Handlers, req' = [req EXCEPT ![r] = q],
             q.phase = IF req[r].sent THEN "ended" ELSE "detached", q.answer = "truncated", q.sent = req[r].sent,
             q.op = req[r].op /\ q.safe = req[r].safe /\ q.avro = req[r].avro,
             q.got = req[r].got /\ q.seen = req[r].seen /\ q.effect = req[r].effect
      PROVE  DoorInvariant'
  <2>1. RequestOK(q, reservation[r], s, spool[r])
    BY <1>1, <1>4, BodyKnown
    DEF RequestOK, BooksOK, ServedOK, EndedOK, BodyOK, SpoolOK, Unreserved, Reserved, Unmetered
  <2> QED BY <1>1, <1>2, <1>4, <2>1, StreamMove
<1>5. CASE GoTo(r, "settling")
  <2> DEFINE q == [req[r] EXCEPT !.phase = "settling"]
  <2>1. req' = [req EXCEPT ![r] = q]
    BY <1>5 DEF GoTo
  <2>2. q \in Handlers
    BY Before DEF Handlers, Phases
  <2>3. RequestOK(q, reservation[r], s, spool[r])
    BY <1>1, BodyKnown, Before
    DEF Handlers, RequestOK, BooksOK, ServedOK, EndedOK, BodyOK, SpoolOK, Unreserved, Reserved, Unmetered
  <2> QED BY <1>1, <1>2, <2>1, <2>2, <2>3, StreamMove
<1>6. PollData(r) => req' = [req EXCEPT ![r].sent = TRUE]
  BY DEF PollData
<1>7. PollFailed(r) => DoorInvariant'
  <2> SUFFICES ASSUME PollFailed(r) PROVE DoorInvariant'
    OBVIOUS
  <2> DEFINE phase == IF req[r].sent THEN "ended" ELSE "detached"
             q == [req[r] EXCEPT !.phase = phase, !.answer = "truncated"]
  <2>1. req' = [req EXCEPT ![r] = q]
    BY DEF PollFailed
  <2>2. phase \in {"ended", "detached"}
    OBVIOUS
  <2>3. q \in Handlers
    BY <2>2, Before DEF Handlers, Phases
  <2>4. /\ q.phase = phase /\ q.answer = "truncated" /\ q.sent = req[r].sent
        /\ q.op = req[r].op /\ q.safe = req[r].safe /\ q.avro = req[r].avro
        /\ q.got = req[r].got /\ q.seen = req[r].seen /\ q.effect = req[r].effect
    BY Before DEF Handlers
  <2> QED BY <1>4, <2>1, <2>3, <2>4
<1>8. PollDone(r) => DoorInvariant'
  <2> SUFFICES ASSUME PollDone(r) PROVE DoorInvariant'
    OBVIOUS
  <2>1. CASE req' = [req EXCEPT ![r].phase = "ended", ![r].answer = "truncated", ![r].cause = @ \cup {"oversize"}]
    <3> DEFINE q == [req[r] EXCEPT !.phase = "ended", !.answer = "truncated", !.cause = @ \cup {"oversize"}]
    <3>1. req[r].sent /\ req' = [req EXCEPT ![r] = q]
      BY <1>1, <2>1, BodyKnown DEF PollDone
    <3>2. q \in Handlers
      BY Before DEF Handlers, Phases, Causes
    <3>3. /\ q.phase = "ended" /\ q.answer = "truncated" /\ q.sent = req[r].sent
          /\ q.op = req[r].op /\ q.safe = req[r].safe /\ q.avro = req[r].avro
          /\ q.got = req[r].got /\ q.seen = req[r].seen /\ q.effect = req[r].effect
      BY Before DEF Handlers
    <3> QED BY <1>4, <3>1, <3>2, <3>3
  <2> QED BY <1>5, <2>1 DEF PollDone
<1> QED BY <1>3, <1>6, <1>7, <1>8

\* The worker: what it sends goes behind what is there, and it stops when nobody listens.
LEMMA WorkerKeeps ==
  ASSUME DoorInvariant, NEW r \in Requests, WorkerStep(r)
  PROVE  DoorInvariant'
<1>0. req' = [req EXCEPT ![r] = req[r]] /\ UNCHANGED <<reservation, object, spool, reserved>>
  BY DEF DoorInvariant, DoorTypeOK, WorkerStep, EmitData, EmitDone, EmitFailed, Push, WorkerStops, gateVars
<1>1. ASSUME NEW event \in Events, NEW live \in BOOLEAN, Push(r, event, live) PROVE DoorInvariant'
  <2> DEFINE s == [stream[r] EXCEPT !.events = Append(@, event), !.live = live, !.full = @ \/ event = "data"]
  <2>1. stream' = [stream EXCEPT ![r] = s]
    BY <1>1 DEF Push
  <2>2. Append(stream[r].events, event) \in Seq(Events) /\ (stream[r].full \/ event = "data") \in BOOLEAN
    BY Before DEF Streams
  <2>3. s \in Streams
    BY <2>2, Before DEF Streams
  <2>4. s.events = Append(stream[r].events, event) /\ stream[r].events \in Seq(Events)
    BY Before DEF Streams
  <2>5. s.events # <<>> /\ (stream[r].events # <<>> => Head(s.events) = Head(stream[r].events))
    BY <2>4, AppendProperties
  <2> HIDE DEF s
  <2>6. RequestOK(req[r], reservation[r], s, spool[r])
    BY <2>5, Before DEF RequestOK, BodyOK
  <2> QED BY <1>0, <2>1, <2>3, <2>6, Before, StreamMove
<1>2. CASE WorkerStops(r)
  <2>1. RequestOK(req[r], reservation[r], NoStream, spool[r])
    BY <1>2, Before DEF RequestOK, BodyOK, WorkerStops
  <2> QED BY <1>0, <1>2, <2>1, NoStreamTyped, Before, StreamMove DEF WorkerStops
<1> QED BY <1>1, <1>2 DEF WorkerStep, EmitData, EmitDone, EmitFailed, Events

\* The settlement of a body: recorded, tried again, or given up with the reason written down.
LEMMA SettleKeeps ==
  ASSUME DoorInvariant, NEW r \in Requests, Settle(r)
  PROVE  DoorInvariant'
<1>1. /\ req[r].phase = "settling" /\ UNCHANGED readVars /\ ~ req[r].effect /\ spool[r].phase = "none"
      /\ req[r].op = "transformed" /\ req[r].safe /\ ~ req[r].avro /\ req[r].got = req[r].seen
      /\ reservation[r] \in {"held", "recorded"} /\ req[r].answer # "ok"
  BY Before DEF Settle, At, RequestOK, BooksOK, ServedOK, SpoolOK
<1>2. reservation = [reservation EXCEPT ![r] = reservation[r]]
  BY DEF DoorInvariant, DoorTypeOK
<1>3. Recorded(r) => reservation' = [reservation EXCEPT ![r] = "recorded"]
  BY <1>1, <1>2 DEF Recorded
<1>4. CASE Recorded(r) /\ Answer(r, "ok")
  <2> DEFINE q == [req[r] EXCEPT !.phase = "ended", !.answer = "ok"]
  <2>1. req' = [req EXCEPT ![r] = q]
    BY <1>4 DEF Answer
  <2>2. q \in Handlers
    BY Before DEF Handlers, Phases
  <2>3. RequestOK(q, "recorded", stream[r], spool[r])
    BY <1>1, Before
    DEF Handlers, RequestOK, BooksOK, ServedOK, EndedOK, BodyOK, SpoolOK, Unreserved, Reserved, Unmetered
  <2> QED BY <1>1, <1>3, <1>4, <2>1, <2>2, <2>3, GateMove DEF Settlements
<1>5. ASSUME NEW q \in Handlers, req' = [req EXCEPT ![r] = q], q.cause = req[r].cause \cup {"control"},
             q.phase \in {"ended", "settling"}, q.answer # "ok",
             q.sent = req[r].sent /\ q.op = req[r].op /\ q.safe = req[r].safe
             /\ q.avro = req[r].avro /\ q.got = req[r].got /\ q.seen = req[r].seen /\ q.effect = req[r].effect,
             Recorded(r) \/ UNCHANGED reservation
      PROVE  DoorInvariant'
  <2>1. q.cause \cap {"control", "cancelled", "crash", "unknown", "avro"} # {}
    BY <1>5
  <2>2. PICK res \in {"held", "recorded"} : reservation' = [reservation EXCEPT ![r] = res]
    BY <1>1, <1>2, <1>3, <1>5
  <2>3. RequestOK(q, res, stream[r], spool[r])
    BY <1>1, <1>5, <2>1 DEF RequestOK, BooksOK, ServedOK, EndedOK, BodyOK, SpoolOK, Unreserved, Reserved, Unmetered
  <2> QED BY <1>1, <1>5, <2>2, <2>3, GateMove DEF Settlements
<1>6. ASSUME Recorded(r) \/ UNCHANGED reservation,
             req' = [req EXCEPT ![r].phase = "ended", ![r].answer = "truncated", ![r].cause = @ \cup {"control"}]
      PROVE  DoorInvariant'
  <2> DEFINE q == [req[r] EXCEPT !.phase = "ended", !.answer = "truncated", !.cause = @ \cup {"control"}]
  <2>1. req' = [req EXCEPT ![r] = q]
    BY <1>6
  <2>2. q \in Handlers
    BY Before DEF Handlers, Phases, Causes
  <2>3. /\ q.cause = req[r].cause \cup {"control"} /\ q.phase = "ended" /\ q.answer = "truncated"
        /\ q.sent = req[r].sent /\ q.op = req[r].op /\ q.safe = req[r].safe
        /\ q.avro = req[r].avro /\ q.got = req[r].got /\ q.seen = req[r].seen /\ q.effect = req[r].effect
    BY Before DEF Handlers
  <2> QED BY <1>5, <1>6, <2>1, <2>2, <2>3
<1>7. ASSUME Recorded(r) \/ UNCHANGED reservation,
             req' = [req EXCEPT ![r].tries = @ + 1, ![r].cause = @ \cup {"control"}]
      PROVE  DoorInvariant'
  <2>0. PICK tries \in Nat : tries = req[r].tries + 1
    BY Before DEF Handlers
  <2> DEFINE q == [req[r] EXCEPT !.tries = tries, !.cause = @ \cup {"control"}]
  <2>1. req' = [req EXCEPT ![r] = q]
    BY <1>7, <2>0
  <2>2. q \in Handlers
    BY Before DEF Handlers, Causes
  <2>3. /\ q.cause = req[r].cause \cup {"control"} /\ q.phase = "settling" /\ q.answer # "ok"
        /\ q.sent = req[r].sent /\ q.op = req[r].op /\ q.safe = req[r].safe
        /\ q.avro = req[r].avro /\ q.got = req[r].got /\ q.seen = req[r].seen /\ q.effect = req[r].effect
    BY <1>1, Before DEF Handlers
  <2> QED BY <1>5, <1>7, <2>1, <2>2, <2>3
<1> QED BY <1>4, <1>6, <1>7 DEF Settle

\* A body that is dropped: a task releases what was not disclosed.
LEMMA BodyDroppedKeeps ==
  ASSUME DoorInvariant, NEW r \in Requests, BodyDropped(r)
  PROVE  DoorInvariant'
<1>1. /\ req[r].phase \in {"body", "settling"} /\ UNCHANGED readVars /\ ~ req[r].effect /\ spool[r].phase = "none"
      /\ req[r].op = "transformed" /\ req[r].safe /\ ~ req[r].avro /\ req[r].got = req[r].seen
      /\ reservation[r] \in {"held", "recorded"} /\ req[r].answer # "ok"
  BY Before DEF BodyDropped, RequestOK, BooksOK, ServedOK, SpoolOK, Reserved
<1>2. PICK res \in {"held", "recorded"} : reservation' = [reservation EXCEPT ![r] = res]
  BY <1>1 DEF BodyDropped, Recorded, DoorInvariant, DoorTypeOK
<1> DEFINE phase == IF req[r].sent THEN "ended" ELSE "detached"
           q == [req[r] EXCEPT !.phase = phase, !.cause = @ \cup {"cancelled"}]
<1>3. req' = [req EXCEPT ![r] = q]
  BY DEF BodyDropped
<1>4. phase \in {"ended", "detached"} /\ (phase = "ended" <=> req[r].sent)
  OBVIOUS
<1> HIDE DEF phase
<1>5. q \in Handlers
  BY <1>4, Before DEF Handlers, Phases, Causes
<1>6. /\ q.phase = phase /\ q.answer = req[r].answer
      /\ q.sent = req[r].sent /\ q.op = req[r].op /\ q.safe = req[r].safe
      /\ q.avro = req[r].avro /\ q.got = req[r].got /\ q.seen = req[r].seen /\ q.effect = req[r].effect
  BY <1>4, Before DEF Handlers
<1>7. RequestOK(q, res, stream[r], spool[r])
  BY <1>1, <1>4, <1>6 DEF RequestOK, BooksOK, ServedOK, EndedOK, BodyOK, SpoolOK, Unreserved, Reserved, Unmetered
<1> QED BY <1>1, <1>2, <1>3, <1>5, <1>7, GateMove DEF Settlements

-----------------------------------------------------------------------------
(* A spooled body *)

\* The end of a replay without the whole of it.
LEMMA ReplayMissingKeeps ==
  ASSUME DoorInvariant, NEW r \in Requests, ReplayMissing(r)
  PROVE  DoorInvariant'
<1> DEFINE q == [req[r] EXCEPT !.phase = "ended", !.answer = "truncated"]
<1>1. req' = [req EXCEPT ![r] = q] /\ UNCHANGED reservation /\ UNCHANGED readVars /\ req[r].phase = "replay"
  BY DEF ReplayMissing, At
<1>2. q \in Handlers
  BY Before DEF Handlers, Phases
<1>3. RequestOK(q, reservation[r], stream[r], spool[r])
  BY <1>1, Before
  DEF Handlers, RequestOK, BooksOK, ServedOK, EndedOK, BodyOK, SpoolOK, Unreserved, Reserved, Unmetered
<1> QED BY <1>1, <1>2, <1>3, GateMoveKeeping

\* No spool, and a spool just begun, are spools.
LEMMA SpoolsTyped ==
  /\ NoSpool \in Spools /\ [phase |-> "begun", file |-> FALSE] \in Spools
  /\ [phase |-> "writing", file |-> TRUE] \in Spools
  BY Zenon DEF Spools, NoSpool

\* The quota's place is taken before the file is there.
LEMMA ReserveSpoolKeeps ==
  ASSUME GateAssumption, DoorInvariant, NEW r \in Requests, ReserveSpool(r)
  PROVE  DoorInvariant'
<1>1. req[r].phase = "spool" /\ UNCHANGED <<reservation, object, stream>> /\ spool[r].phase = "none"
  BY Before DEF ReserveSpool, At, RequestOK, SpoolOK
<1>2. CASE ToRelease(r) /\ UNCHANGED <<reserved, spool>>
  <2>1. UNCHANGED readVars
    BY <1>1, <1>2 DEF readVars
  <2> QED BY <1>1, <1>2, <2>1, ReleaseMove DEF Reserved
<1>3. CASE /\ reserved' = reserved + 1 /\ GoTo(r, "creating")
           /\ spool' = [spool EXCEPT ![r] = [phase |-> "begun", file |-> FALSE]]
  <2> DEFINE q == [req[r] EXCEPT !.phase = "creating"]
             sp == [phase |-> "begun", file |-> FALSE]
  <2>1. req' = [req EXCEPT ![r] = q] /\ spool' = [spool EXCEPT ![r] = sp]
    BY <1>3 DEF GoTo
  <2>2. q \in Handlers
    BY Before DEF Handlers, Phases, Reserved
  <2>3. sp \in Spools /\ sp.phase = "begun"
    BY SpoolsTyped
  <2>5. q.phase = "creating"
    BY Before DEF Handlers
  <2>6. SpoolOK(q, sp)
    <3> PICK p, s : p = q /\ s = sp
      OBVIOUS
    <3>1. p.phase = "creating" /\ s.phase = "begun"
      BY <2>3, <2>5
    <3>2. SpoolOK(p, s)
      BY <3>1 DEF SpoolOK
    <3> QED BY <3>2
  <2> HIDE DEF sp
  <2>4. RequestOK(q, reservation[r], stream[r], sp)
    BY <1>1, <2>6, Before
    DEF Handlers, RequestOK, BooksOK, ServedOK, EndedOK, BodyOK, Unreserved, Reserved, Unmetered
  <2> QED BY <1>1, <1>3, <2>1, <2>2, <2>3, <2>4, SpoolMove DEF GateAssumption
<1> QED BY <1>2, <1>3 DEF ReserveSpool

\* The file is there, or its error gives the place back.
LEMMA CreateSpoolKeeps ==
  ASSUME GateAssumption, DoorInvariant, NEW r \in Requests, CreateSpool(r)
  PROVE  DoorInvariant'
<1>1. req[r].phase = "creating" /\ UNCHANGED <<reservation, object, stream>> /\ spool[r].phase = "begun"
  BY DEF CreateSpool, At
<1>2. PICK phase \in {"spooling", "release"}, sp \in {NoSpool, [phase |-> "writing", file |-> TRUE]} :
        /\ req' = [req EXCEPT ![r] = [req[r] EXCEPT !.phase = phase]]
        /\ spool' = [spool EXCEPT ![r] = sp]
        /\ \/ phase = "spooling" /\ sp.phase # "none" /\ reserved' = reserved
           \/ phase = "release" /\ sp.phase = "none" /\ reserved' = reserved - 1
  BY DEF CreateSpool, FreeSpool, ToRelease, GoTo, NoSpool
<1> DEFINE q == [req[r] EXCEPT !.phase = phase]
<1>3. q \in Handlers
  BY Before DEF Handlers, Phases, Reserved
<1>4. sp \in Spools /\ sp.phase \in {"none", "writing"}
  <2>1. CASE sp = NoSpool
    BY <2>1, SpoolsTyped DEF NoSpool
  <2>2. CASE sp = [phase |-> "writing", file |-> TRUE]
    BY <2>2, SpoolsTyped
  <2> QED BY <2>1, <2>2
<1>5. RequestOK(q, reservation[r], stream[r], sp)
  BY <1>1, <1>2, <1>4, Before
  DEF Handlers, RequestOK, BooksOK, ServedOK, EndedOK, BodyOK, SpoolOK, Unreserved, Reserved, Unmetered
<1> QED BY <1>1, <1>2, <1>3, <1>4, <1>5, SpoolMove DEF GateAssumption

\* The whole output is in the file.
LEMMA SpoolWrittenKeeps ==
  ASSUME GateAssumption, DoorInvariant, NEW r \in Requests, SpoolWritten(r)
  PROVE  DoorInvariant'
<1>1. /\ req[r].phase = "spooling" /\ spool[r].phase = "writing" /\ UNCHANGED <<reservation, object, stream, reserved>>
      /\ spool' = [spool EXCEPT ![r].phase = "queued"]
  BY DEF SpoolWritten, At
<1>2. PICK phase \in {"record", "release"} : GoTo(r, phase)
  BY DEF SpoolWritten, MeteredRead, ToRelease
<1> DEFINE q == [req[r] EXCEPT !.phase = phase]
           sp == [spool[r] EXCEPT !.phase = "queued"]
<1>3. req' = [req EXCEPT ![r] = q] /\ spool' = [spool EXCEPT ![r] = sp]
  BY <1>1, <1>2 DEF GoTo
<1>4. q \in Handlers
  BY Before DEF Handlers, Phases, Reserved
<1>5. sp \in Spools /\ sp.phase = "queued"
  BY Before DEF Spools
<1>7. SpoolOK(q, sp)
  <2>1. q.phase = phase
    BY Before DEF Handlers
  <2> HIDE DEF sp, q
  <2> QED BY <1>5, <2>1 DEF SpoolOK
<1> HIDE DEF sp
<1>6. RequestOK(q, reservation[r], stream[r], sp)
  BY <1>1, <1>7, Before
  DEF Handlers, RequestOK, BooksOK, ServedOK, EndedOK, BodyOK, Unreserved, Reserved, Unmetered
<1> QED BY <1>1, <1>3, <1>4, <1>5, <1>6, SpoolMove DEF GateAssumption

\* The spool goes, and its place in the quota with it.
LEMMA FreeMove ==
  ASSUME GateAssumption, DoorInvariant, NEW r \in Requests, NEW q \in Handlers, FreeSpool(r),
         spool[r].phase # "none", req' = [req EXCEPT ![r] = q], UNCHANGED <<reservation, object, stream>>,
         RequestOK(q, reservation[r], stream[r], spool[r])
  PROVE  DoorInvariant'
<1>1. spool' = [spool EXCEPT ![r] = NoSpool] /\ reserved' = reserved - 1 /\ NoSpool.phase = "none"
  BY DEF FreeSpool, NoSpool
<1>2. RequestOK(q, reservation[r], stream[r], NoSpool)
  BY <1>1 DEF RequestOK, SpoolOK
<1> QED BY <1>1, <1>2, SpoolsTyped, SpoolMove DEF GateAssumption

\* The ways in which a spool ends.
LEMMA SpoolEndsKeeps ==
  ASSUME GateAssumption, DoorInvariant, NEW r \in Requests,
         SpoolFails(r) \/ ReplayEnds(r) \/ SpoolDropped(r) \/ OpenReplay(r)
  PROVE  DoorInvariant'
<1>1. CASE SpoolFails(r)
  <2> DEFINE q == [req[r] EXCEPT !.phase = "release"]
  <2>1. /\ req' = [req EXCEPT ![r] = q] /\ FreeSpool(r) /\ UNCHANGED <<reservation, object, stream>>
        /\ req[r].phase = "spooling" /\ spool[r].phase # "none"
    BY <1>1 DEF SpoolFails, ToRelease, GoTo, At
  <2>2. q \in Handlers
    BY Before DEF Handlers, Phases, Reserved
  <2>3. RequestOK(q, reservation[r], stream[r], spool[r])
    BY <2>1, Before
    DEF Handlers, RequestOK, BooksOK, ServedOK, EndedOK, BodyOK, SpoolOK, Unreserved, Reserved, Unmetered
  <2> QED BY <2>1, <2>2, <2>3, FreeMove
<1>2. CASE ReplayEnds(r)
  <2>0. PICK yes \in BOOLEAN : yes = TRUE
    OBVIOUS
  <2> DEFINE q == [req[r] EXCEPT !.phase = "ended", !.sent = yes]
  <2>1. /\ req' = [req EXCEPT ![r] = q] /\ FreeSpool(r) /\ UNCHANGED <<reservation, object, stream>>
        /\ req[r].phase = "replay" /\ spool[r].phase # "none"
    BY <1>2, <2>0 DEF ReplayEnds, At
  <2>2. q \in Handlers
    BY Before DEF Handlers, Phases
  <2>3. /\ q.phase = "ended" /\ q.answer = req[r].answer /\ q.op = req[r].op /\ q.safe = req[r].safe
        /\ q.avro = req[r].avro /\ q.got = req[r].got /\ q.seen = req[r].seen /\ q.effect = req[r].effect
    BY Before DEF Handlers
  <2>4. RequestOK(q, reservation[r], stream[r], spool[r])
    BY <2>1, <2>3, Before
    DEF RequestOK, BooksOK, ServedOK, EndedOK, BodyOK, SpoolOK, Unreserved, Reserved, Unmetered
  <2> QED BY <2>1, <2>2, <2>4, FreeMove
<1>3. CASE SpoolDropped(r)
  <2>1. /\ req' = [req EXCEPT ![r] = req[r]] /\ FreeSpool(r) /\ UNCHANGED <<reservation, object, stream>>
        /\ spool[r].phase # "none"
    BY <1>3 DEF SpoolDropped, gateVars, DoorInvariant, DoorTypeOK
  <2> QED BY <2>1, Before, FreeMove
<1>4. CASE OpenReplay(r)
  <2>1. UNCHANGED <<reservation, object, stream>> /\ spool[r].phase = "queued"
    BY <1>4 DEF OpenReplay
  <2>2. CASE spool' = [spool EXCEPT ![r].phase = "open"] /\ UNCHANGED <<req, reserved>>
    <3> DEFINE sp == [spool[r] EXCEPT !.phase = "open"]
    <3>1. req' = [req EXCEPT ![r] = req[r]] /\ spool' = [spool EXCEPT ![r] = sp]
      BY <2>2 DEF DoorInvariant, DoorTypeOK
    <3>2. sp \in Spools /\ sp.phase = "open"
      BY Before DEF Spools
    <3> HIDE DEF sp
    <3>3. RequestOK(req[r], reservation[r], stream[r], sp)
      BY <2>1, <3>2, Before DEF RequestOK, SpoolOK
    <3> QED BY <2>1, <2>2, <3>1, <3>2, <3>3, Before, SpoolMove DEF GateAssumption
  <2>3. CASE FreeSpool(r) /\ At(r, "replay") /\ req' = [req EXCEPT ![r].phase = "ended", ![r].answer = "truncated"]
    <3> DEFINE q == [req[r] EXCEPT !.phase = "ended", !.answer = "truncated"]
    <3>1. req' = [req EXCEPT ![r] = q] /\ req[r].phase = "replay"
      BY <2>3 DEF At
    <3>2. q \in Handlers
      BY Before DEF Handlers, Phases
    <3>3. RequestOK(q, reservation[r], stream[r], spool[r])
      BY <3>1, Before
      DEF Handlers, RequestOK, BooksOK, ServedOK, EndedOK, BodyOK, SpoolOK, Unreserved, Reserved, Unmetered
    <3> QED BY <2>1, <2>3, <3>1, <3>2, <3>3, FreeMove
  <2>4. CASE FreeSpool(r) /\ req' = req
    <3>1. req' = [req EXCEPT ![r] = req[r]]
      BY <2>4 DEF DoorInvariant, DoorTypeOK
    <3> QED BY <2>1, <2>4, <3>1, Before, FreeMove
  <2> QED BY <1>4, <2>2, <2>3, <2>4 DEF OpenReplay
<1> QED BY <1>1, <1>2, <1>3, <1>4

\* A file that is unlinked leaves its spool in place.
LEMMA CleanupStaleKeeps ==
  ASSUME GateAssumption, DoorInvariant, NEW r \in Requests, CleanupStale(r)
  PROVE  DoorInvariant'
<1>0. PICK no \in BOOLEAN : no = FALSE
  OBVIOUS
<1> DEFINE sp == [spool[r] EXCEPT !.file = no]
<1>1. /\ req' = [req EXCEPT ![r] = req[r]] /\ spool' = [spool EXCEPT ![r] = sp]
      /\ UNCHANGED <<reservation, object, stream, reserved>>
  BY <1>0 DEF CleanupStale, gateVars, DoorInvariant, DoorTypeOK
<1>2. sp \in Spools /\ sp.phase = spool[r].phase
  BY Before DEF Spools
<1> HIDE DEF sp
<1>3. RequestOK(req[r], reservation[r], stream[r], sp)
  BY <1>2, Before DEF RequestOK, SpoolOK
<1> QED BY <1>1, <1>2, <1>3, Before, SpoolMove DEF GateAssumption

-----------------------------------------------------------------------------
(* What no request does *)

\* Another client's write changes the object alone.
LEMMA OverwriteKeeps ==
  ASSUME DoorInvariant, Overwrite
  PROVE  DoorInvariant'
<1>1. UNCHANGED <<req, reservation, stream, spool, reserved>>
  BY DEF Overwrite, gateVars
<1>2. object' \in [content : Nat, kind : Kinds, validator : Validators]
  <2>1. object \in [content : Nat, kind : Kinds, validator : Validators]
    BY DEF DoorInvariant, DoorTypeOK
  <2>2. PICK kind \in Kinds : object' = [object EXCEPT !.content = @ + 1, !.kind = kind]
    BY DEF Overwrite
  <2>3. PICK next \in Nat : next = object.content + 1
    BY <2>1
  <2>4. object' = [object EXCEPT !.content = next, !.kind = kind]
    BY <2>2, <2>3
  <2> QED BY <2>1, <2>4
<1>3. DoorTypeOK'
  BY <1>1, <1>2 DEF DoorInvariant, DoorTypeOK
<1>4. QuotaCounts' /\ \A r \in Requests : RequestOK(req[r], reservation[r], stream[r], spool[r])'
  BY <1>1 DEF DoorInvariant, QuotaCounts
<1> QED BY <1>3, <1>4 DEF DoorInvariant

\* A crash ends every request, with the reason, and empties the quota.
LEMMA CrashKeeps ==
  ASSUME DoorInvariant, Crash
  PROVE  DoorInvariant'
<1> DEFINE lost(r) == [req[r] EXCEPT !.phase = "ended", !.cause = @ \cup {"crash"},
                                     !.effect = @ \/ req[r].phase \in {"call", "commit"}]
<1>1. /\ \A r \in Requests : req'[r] = IF req[r].phase \in {"idle", "ended"} THEN req[r] ELSE lost(r)
      /\ req' = [r \in Requests |-> req'[r]]
      /\ stream' = [r \in Requests |-> NoStream] /\ spool' = [r \in Requests |-> NoSpool]
      /\ reserved' = 0 /\ UNCHANGED <<reservation, object>>
  BY DEF Crash
<1> HIDE DEF lost
<1>2. ASSUME NEW r \in Requests
      PROVE  req'[r] \in Handlers /\ RequestOK(req'[r], reservation[r], NoStream, NoSpool)
  <2>1. NoSpool.phase = "none"
    BY DEF NoSpool
  <2>2. CASE req[r].phase \in {"idle", "ended"}
    <3>1. req'[r] = req[r]
      BY <1>1, <2>2
    <3>2. RequestOK(req[r], reservation[r], NoStream, NoSpool)
      BY <2>1, <2>2, Before DEF RequestOK, BodyOK, SpoolOK
    <3> QED BY <3>1, <3>2, Before
  <2>3. CASE req[r].phase \notin {"idle", "ended"}
    <3>1. PICK effect \in BOOLEAN : effect = (req[r].effect \/ req[r].phase \in {"call", "commit"})
      BY Before DEF Handlers
    <3> DEFINE q == [req[r] EXCEPT !.phase = "ended", !.cause = @ \cup {"crash"}, !.effect = effect]
    <3>2. req'[r] = q
      BY <1>1, <2>3, <3>1 DEF lost
    <3>3. q \in Handlers
      BY Before DEF Handlers, Phases, Causes
    <3>4. q.cause \cap {"control", "cancelled", "crash", "unknown", "avro"} # {}
      BY Before DEF Handlers
    <3>5. /\ q.phase = "ended" /\ q.answer = req[r].answer /\ q.op = req[r].op /\ q.safe = req[r].safe
          /\ q.avro = req[r].avro /\ q.got = req[r].got /\ q.seen = req[r].seen /\ q.sent = req[r].sent
      BY Before DEF Handlers
    <3>6. reservation[r] # "released"
      BY <2>3, Before DEF RequestOK, BooksOK, Handlers, Phases
    <3>7. EndedOK(q, reservation[r])
      BY <3>4, <3>5, <3>6, Before DEF RequestOK, EndedOK, Unmetered
    <3>8. RequestOK(q, reservation[r], NoStream, NoSpool)
      BY <2>1, <3>5, <3>7 DEF RequestOK, BooksOK, ServedOK, BodyOK, SpoolOK, Unreserved, Reserved, Unmetered
    <3> QED BY <3>2, <3>3, <3>8
  <2> QED BY <2>2, <2>3
<1>3. DoorTypeOK'
  <2>1. req' \in [Requests -> Handlers]
    BY <1>1, <1>2
  <2>2. stream' \in [Requests -> Streams] /\ spool' \in [Requests -> Spools]
    BY <1>1, NoStreamTyped, SpoolsTyped
  <2> QED BY <1>1, <2>1, <2>2 DEF DoorInvariant, DoorTypeOK
<1>4. \A r \in Requests : RequestOK(req[r], reservation[r], stream[r], spool[r])'
  BY <1>1, <1>2
<1>5. QuotaCounts'
  <2>1. {r \in Requests : spool'[r].phase # "none"} = {}
    BY <1>1 DEF NoSpool
  <2> QED BY <1>1, <2>1, FS_EmptySet DEF QuotaCounts
<1> QED BY <1>3, <1>4, <1>5 DEF DoorInvariant

-----------------------------------------------------------------------------
(* The specification *)

\* The invariant holds before the first request.
LEMMA DoorInitially == DoorInit => DoorInvariant
<1> SUFFICES ASSUME DoorInit PROVE DoorInvariant
  OBVIOUS
<1>1. Fresh \in Handlers
  <2>1. 0 \in Nat
    OBVIOUS
  <2> QED BY <2>1, Zenon DEF Fresh, Handlers, Phases, Unreserved
<1>2. /\ req = [r \in Requests |-> Fresh] /\ reservation = [r \in Requests |-> "none"]
      /\ stream = [r \in Requests |-> NoStream] /\ spool = [r \in Requests |-> NoSpool] /\ reserved = 0
      /\ object \in [content : {1}, kind : Kinds, validator : Validators]
  BY DEF DoorInit, GateInit, ReadInit
<1>3. DoorTypeOK
  BY <1>1, <1>2, NoStreamTyped, SpoolsTyped DEF DoorTypeOK, Settlements
<1>4. RequestOK(Fresh, "none", NoStream, NoSpool)
  BY DEF Fresh, NoSpool, RequestOK, BooksOK, ServedOK, EndedOK, BodyOK, SpoolOK, Unreserved, Reserved, Unmetered
<1>5. QuotaCounts
  <2>1. {r \in Requests : spool[r].phase # "none"} = {}
    BY <1>2 DEF NoSpool
  <2> QED BY <1>2, <2>1, FS_EmptySet DEF QuotaCounts
<1> QED BY <1>2, <1>3, <1>4, <1>5 DEF DoorInvariant

\* Every step of the front door keeps it.
LEMMA DoorStepPreserves ==
  ASSUME GateAssumption, DoorInvariant, [DoorNext]_doorVars
  PROVE  DoorInvariant'
<1>1. CASE UNCHANGED doorVars
  BY <1>1 DEF doorVars, gateVars, readVars, DoorInvariant, DoorTypeOK, QuotaCounts
<1>2. ASSUME NEW r \in Requests, GateStep(r), UNCHANGED readVars PROVE DoorInvariant'
  <2>1. CASE ResolvePipeline(r) \/ ResolveForWrite(r)
    BY <1>2, <2>1, ResolveKeeps DEF ResolvePipeline, ResolveForWrite, Piped
  <2>2. CASE BuildSnapshot(r) \/ SnapshotForWrite(r) \/ ResolveBackend(r)
    BY <1>2, <2>2, SnapshotKeeps DEF BuildSnapshot, SnapshotForWrite
  <2> QED BY <1>2, <2>1, <2>2, AuthorizeKeeps, ReleaseFailureKeeps, RecordUsageKeeps, DetachedReleaseKeeps,
             StagingKeeps DEF GateStep
<1>3. ASSUME NEW r \in Requests, MutationStep(r), UNCHANGED readVars PROVE DoorInvariant'
  BY <1>3, CallKeeps, PutKeeps DEF MutationStep
<1>4. ASSUME NEW r \in Requests, ReadStep(r) PROVE DoorInvariant'
  BY <1>4, GetKeeps, PreflightKeeps, OpenSourceKeeps, AvroKeeps, StartSessionKeeps, FirstEventKeeps, PollKeeps,
     SettleKeeps, ReserveSpoolKeeps, CreateSpoolKeeps, SpoolWrittenKeeps, SpoolEndsKeeps, ReplayMissingKeeps DEF ReadStep
<1>5. ASSUME NEW r \in Requests, SpoolStep(r) \/ WorkerStep(r) \/ BodyDropped(r) \/ CleanupStale(r)
      PROVE  DoorInvariant'
  BY <1>5, SpoolEndsKeeps, WorkerKeeps, BodyDroppedKeeps, CleanupStaleKeeps DEF SpoolStep
<1>6. ASSUME NEW r \in Requests, Arrive(r) \/ Cancel(r), UNCHANGED readVars PROVE DoorInvariant'
  BY <1>6, ArriveKeeps, CancelKeeps
<1> QED BY <1>1, <1>2, <1>3, <1>4, <1>5, <1>6, OverwriteKeeps, CrashKeeps DEF DoorNext, HandlerStep

(* However requests, faults, clients that go away, overwrites and crashes
   interleave, the front door's invariant holds. *)
THEOREM DoorInvariantHolds ==
  ASSUME GateAssumption
  PROVE  DoorSpec => []DoorInvariant
<1>1. DoorInit => DoorInvariant
  BY DoorInitially
<1>2. DoorInvariant /\ [DoorNext]_doorVars => DoorInvariant'
  BY DoorStepPreserves
<1> QED BY <1>1, <1>2, PTL DEF DoorSpec

\* What the invariant says of the books, the disclosures and the quota.
LEMMA DoorInvariantImplies ==
  DoorInvariant => SettledAsServed /\ LeftOnlyWithCause /\ ServedAsPreflighted /\ QuotaExact
<1> SUFFICES ASSUME DoorInvariant PROVE SettledAsServed /\ LeftOnlyWithCause /\ ServedAsPreflighted /\ QuotaExact
  OBVIOUS
<1>1. \A r \in Requests : EndedOK(req[r], reservation[r])
  BY DEF DoorInvariant, RequestOK
<1>2. SettledAsServed
  BY <1>1 DEF SettledAsServed, EndedOK
<1>3. LeftOnlyWithCause
  BY <1>1 DEF LeftOnlyWithCause, EndedOK, Ended
<1>4. ServedAsPreflighted
  BY <1>1 DEF ServedAsPreflighted, EndedOK
<1>5. QuotaExact
  <2>1. \A r \in Requests : SpoolOK(req[r], spool[r])
    BY DEF DoorInvariant, RequestOK
  <2> QED BY <2>1 DEF DoorInvariant, QuotaExact, Stranded, Ended, SpoolOK
<1> QED BY <1>2, <1>3, <1>4, <1>5

(* execute_data_request and the settlement of bodies: a reservation is given
   back only for a request that changed and disclosed nothing, a success has
   been paid for, none is left behind without a cause; a transformed read
   discloses the content its preflight saw; the spool quota counts the spools
   there are and those begun, of which none is stranded but by a request cancelled
   while its file was created. *)
THEOREM BooksAgreeWithService ==
  ASSUME GateAssumption
  PROVE  DoorSpec => [](SettledAsServed /\ LeftOnlyWithCause /\ ServedAsPreflighted /\ QuotaExact)
BY DoorInvariantHolds, DoorInvariantImplies, PTL
==============================================================================
