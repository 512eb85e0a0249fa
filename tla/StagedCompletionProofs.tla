----------------------- MODULE StagedCompletionProofs -----------------------
(***************************************************************************)
(* The inductive invariant of StagedCompletion, and what follows from it,  *)
(* for any numbers of uploads, tenants, parts, requests and workers.       *)
(*                                                                         *)
(* The steps of StagedParts keep rows typed, counters within their limits, *)
(* one current attempt per part and an upload's states in order.  They also*)
(* keep what the completion relies on: a committed attempt stays what it is*)
(* and an upload whose lease was acquired keeps its request.               *)
(*                                                                         *)
(* A worker past acquisition holds one committed attempt of each part its  *)
(* request names, and its request is the one stored in the row, because a  *)
(* lease is taken over only by an identical request; so whichever worker   *)
(* writes the destination, and whichever records it, the object is the one *)
(* the stored request names.                                               *)
(*                                                                         *)
(* Two further invariants follow: KeptInv, for the parts that clients were *)
(* told are stored, and BooksInv, for the counters.                        *)
(***************************************************************************)
EXTENDS StagedCompletionInvariant, Totals, TLAPS

\* The conjuncts of the invariant about rows, quotas and the store.
PartInv == TypeOK /\ WithinLimits /\ RequestsOwnRows /\ UploadsProgress

\* A committed attempt stays committed, and what it is.
RowsKept(rows, next) ==
    \A k \in Keys : rows[k].state \notin {"none", "PENDING"} =>
        /\ next[k].state \notin {"none", "PENDING"}
        /\ next[k].upload = rows[k].upload
        /\ next[k].part = rows[k].part
        /\ next[k].etag = rows[k].etag

\* An upload whose lease was acquired stays so, with its request.
UploadsKept ==
    \A u \in Uploads : Begun(u) => Begun(u)' /\ upload'[u].print = upload[u].print

\* What a step of StagedParts grants the completion.
Keeps ==
    /\ UNCHANGED <<worker, dest, answered>>
    /\ RowsKept(attempt, attempt')
    /\ UploadsKept
    /\ \A u \in Uploads : upload'[u].result = upload[u].result

\* A set of attempts that answers a request still does when the rows are kept.
LEMMA AnswersStable ==
    ASSUME NEW rows, NEW next, NEW u, NEW S \in SUBSET Keys, NEW sel,
           RowsKept(rows, next), AnswersIn(rows, u, S, sel)
    PROVE  AnswersIn(next, u, S, sel)
<1>1. \A k \in S : /\ next[k].state \notin {"none", "PENDING"}
                   /\ next[k].upload = u
                   /\ next[k].part = rows[k].part
                   /\ next[k].etag = rows[k].etag
  BY DEF AnswersIn, RowsKept
<1> QED
  BY <1>1 DEF AnswersIn

\* A step that keeps rows and uploads so preserves the conjuncts about workers,
\* destinations and results.
LEMMA KeepsCompletion ==
    ASSUME TypeOK, WorkersHoldParts, DestFollowsLease, ResultIsObject, Keeps
    PROVE  WorkersHoldParts' /\ DestFollowsLease' /\ ResultIsObject'
<1>1. ResultIsObject'
  BY DEF ResultIsObject, Keeps
<1>2. DestFollowsLease'
  <2> SUFFICES ASSUME NEW u \in Uploads
               PROVE  /\ dest'[u].state # "none" => Begun(u)'
                      /\ dest'[u].state \in {"unknown", "committed"} =>
                            AnswersIn(attempt', u, dest'[u].parts, upload'[u].print)
    BY DEF DestFollowsLease, Answers
  <2>1. dest[u].state # "none" => Begun(u)' /\ upload'[u].print = upload[u].print
    BY DEF DestFollowsLease, Keeps, UploadsKept
  <2>2. dest[u].parts \in SUBSET Keys
    BY DEF TypeOK, Dests
  <2>3. ASSUME dest[u].state \in {"unknown", "committed"}
        PROVE  AnswersIn(attempt', u, dest'[u].parts, upload'[u].print)
    <3>1. upload'[u].print = upload[u].print /\ dest'[u] = dest[u]
      BY <2>1, <2>3 DEF Keeps
    <3>2. AnswersIn(attempt, u, dest[u].parts, upload[u].print)
      BY <2>3 DEF DestFollowsLease, Answers
    <3>3. AnswersIn(attempt', u, dest[u].parts, upload[u].print)
      BY <3>2, <2>2, AnswersStable DEF Keeps
    <3> QED BY <3>1, <3>3
  <2> QED BY <2>1, <2>3 DEF Keeps
<1>3. WorkersHoldParts'
  <2> SUFFICES ASSUME NEW w \in Workers
               PROVE  /\ ~Past(w)' => worker'[w].fence = "no" /\ worker'[w].read = {}
                      /\ worker'[w].pc # "idle" =>
                            worker'[w].upload \in Uploads /\ worker'[w].sel \in Selections
                      /\ Past(w)' =>
                            /\ Begun(worker[w].upload)'
                            /\ worker'[w].sel = upload'[worker'[w].upload].print
                            /\ AnswersIn(attempt', worker'[w].upload, worker'[w].parts, worker'[w].sel)
                            /\ worker'[w].read \subseteq worker'[w].parts
                      /\ At(w, "commit")' => worker'[w].read = worker'[w].parts
                      /\ worker'[w].pc \in {"settle", "record"} =>
                            dest'[worker'[w].upload].state = "committed"
    BY DEF WorkersHoldParts, Answers, Row, Dest, Keeps
  <2>1. worker'[w] = worker[w] /\ dest' = dest
    BY DEF Keeps
  <2>2. Past(w) => worker[w].upload \in Uploads
    BY DEF WorkersHoldParts, Past
  <2>3. ASSUME Past(w)
        PROVE  AnswersIn(attempt', worker[w].upload, worker[w].parts, worker[w].sel)
    <3>1. AnswersIn(attempt, worker[w].upload, worker[w].parts, worker[w].sel)
      BY <2>3 DEF WorkersHoldParts, Answers
    <3>2. worker[w].parts \in SUBSET Keys
      BY DEF TypeOK, WorkerStates
    <3> QED BY <3>1, <3>2, AnswersStable DEF Keeps
  <2>4. ASSUME Past(w)
        PROVE  Begun(worker[w].upload)' /\ worker[w].sel = upload'[worker[w].upload].print
    <3> DEFINE v == worker[w].upload
    <3>1. v \in Uploads /\ Begun(v) /\ worker[w].sel = upload[v].print
      BY <2>2, <2>4 DEF WorkersHoldParts, Row
    <3>2. upload'[v].print = upload[v].print
      BY <3>1 DEF Keeps, UploadsKept
    <3>3. Begun(worker[w].upload)'
      BY <3>1, <2>1 DEF Keeps, UploadsKept, Begun
    <3> QED BY <3>1, <3>2, <3>3
  <2>5. Past(w)' <=> Past(w)
    BY <2>1 DEF Past
  <2> QED BY <2>1, <2>3, <2>4, <2>5 DEF WorkersHoldParts, Past, At, Dest
<1> QED BY <1>1, <1>2, <1>3

-----------------------------------------------------------------------------
(* Steps that touch neither rows nor the completion.                        *)

\* Rows, quotas and the completion are unchanged; requests and makers only
\* move on.
Quiet ==
    /\ UNCHANGED <<upload, attempt, quota, worker, dest, answered>>
    /\ \A k \in Keys : request'[k] = "unused" => request[k] = "unused"
    /\ \A u \in Uploads : maker'[u] \in {"none", "counted"} => maker[u] \in {"none", "counted"}
    /\ \A u \in retiring' : u \in retiring \/ upload[u].life \in Terminal

\* Such a step preserves the invariant of the parts.
LEMMA QuietStep ==
    ASSUME PartInv, Quiet, TypeOK'
    PROVE  PartInv' /\ Keeps
<1>1. WithinLimits'
  BY DEF PartInv, Quiet, WithinLimits, Used
<1>2. RequestsOwnRows'
  BY DEF PartInv, Quiet, RequestsOwnRows, Live
<1>3. UploadsProgress'
  BY DEF PartInv, Quiet, UploadsProgress
<1>4. Keeps
  BY DEF Quiet, Keeps, RowsKept, UploadsKept, Begun
<1> QED BY <1>1, <1>2, <1>3, <1>4 DEF PartInv

\* These are such steps.
LEMMA QuietSteps ==
    ASSUME PartInv, UNCHANGED <<worker, dest, answered>>,
           \/ ReadKnown \/ ListOrphans \/ ScanFails
           \/ \E u \in Uploads : CreateCount(u) \/ ReapSelect(u) \/ RetireSelect(u)
           \/ \E k \in Keys :
                 \/ PutArtifact(k) \/ AbandonBody(k) \/ AbandonCommit(k)
                 \/ Sweep(k) \/ DeleteArtifact(k) \/ CleanupFails(k) \/ DeleteOrphan(k)
                 \/ AgeArtifact(k) \/ LandArtifact(k)
    PROVE  PartInv' /\ Keeps
<1> USE DEF PartInv, cleaners
<1>1. CASE ReadKnown \/ ListOrphans \/ ScanFails
  <2>1. /\ UNCHANGED <<upload, attempt, quota, artifact, request, maker, doomed, deleted, reaping, retiring>>
        /\ orphans' \subseteq Keys
    BY <1>1 DEF ReadKnown, ListOrphans, ScanFails, TypeOK
  <2>2. scan' \in [on : BOOLEAN, unknown : SUBSET Keys, fresh : SUBSET Keys]
    <3>1. CASE ReadKnown
      <4> DEFINE unknown == {k \in Keys : ~Live(k)}
      <4>1. scan' = [on |-> TRUE, unknown |-> unknown, fresh |-> {k \in unknown : ~Stored(k)}]
        BY <3>1 DEF ReadKnown
      <4>2. unknown \subseteq Keys /\ {k \in unknown : ~Stored(k)} \subseteq Keys
        OBVIOUS
      <4> HIDE DEF unknown
      <4> QED BY <4>1, <4>2
    <3>2. CASE ListOrphans \/ ScanFails
      <4>1. NoScan \in [on : BOOLEAN, unknown : SUBSET Keys, fresh : SUBSET Keys]
        BY DEF NoScan
      <4>2. scan' = NoScan
        BY <3>2 DEF ListOrphans, ScanFails
      <4> QED BY <4>1, <4>2
    <3> QED BY <1>1, <3>1, <3>2
  <2>3. TypeOK'
    BY <2>1, <2>2 DEF TypeOK
  <2> QED BY <2>1, <2>3, QuietStep DEF Quiet
<1>2. ASSUME NEW u \in Uploads, CreateCount(u)
      PROVE  PartInv' /\ Keeps
  <2>1. TypeOK'
    BY <1>2 DEF CreateCount, TypeOK
  <2> QED BY <1>2, <2>1, QuietStep DEF CreateCount, Quiet, TypeOK
<1>3. ASSUME NEW u \in Uploads, ReapSelect(u)
      PROVE  PartInv' /\ Keeps
  <2>1. TypeOK'
    BY <1>3 DEF ReapSelect, TypeOK
  <2> QED BY <1>3, <2>1, QuietStep DEF ReapSelect, Quiet
<1>4. ASSUME NEW u \in Uploads, RetireSelect(u)
      PROVE  PartInv' /\ Keeps
  <2>1. TypeOK'
    BY <1>4 DEF RetireSelect, TypeOK
  <2> QED BY <1>4, <2>1, QuietStep DEF RetireSelect, Quiet
<1>5. ASSUME NEW k \in Keys, PutArtifact(k)
      PROVE  PartInv' /\ Keeps
  <2>1. TypeOK'
    BY <1>5 DEF PutArtifact, TypeOK
  <2> QED BY <1>5, <2>1, QuietStep DEF PutArtifact, Quiet, TypeOK
<1>6. ASSUME NEW k \in Keys, AbandonBody(k)
      PROVE  PartInv' /\ Keeps
  <2>1. TypeOK'
    BY <1>6 DEF AbandonBody, TypeOK
  <2> QED BY <1>6, <2>1, QuietStep DEF AbandonBody, Quiet, TypeOK
<1>7. ASSUME NEW k \in Keys, AbandonCommit(k)
      PROVE  PartInv' /\ Keeps
  <2>1. TypeOK'
    BY <1>7 DEF AbandonCommit, TypeOK
  <2> QED BY <1>7, <2>1, QuietStep DEF AbandonCommit, Quiet, TypeOK
<1>8. ASSUME NEW k \in Keys, Sweep(k)
      PROVE  PartInv' /\ Keeps
  <2>1. TypeOK'
    BY <1>8 DEF Sweep, TypeOK
  <2> QED BY <1>8, <2>1, QuietStep DEF Sweep, Quiet, TypeOK
<1>9. ASSUME NEW k \in Keys, DeleteArtifact(k)
      PROVE  PartInv' /\ Keeps
  <2>1. TypeOK'
    BY <1>9 DEF DeleteArtifact, TypeOK, Erased
  <2> QED BY <1>9, <2>1, QuietStep DEF DeleteArtifact, Quiet, TypeOK
<1>10. ASSUME NEW k \in Keys, CleanupFails(k)
      PROVE  PartInv' /\ Keeps
  <2>1. TypeOK'
    BY <1>10 DEF CleanupFails, TypeOK
  <2> QED BY <1>10, <2>1, QuietStep DEF CleanupFails, Quiet, TypeOK
<1>11. ASSUME NEW k \in Keys, DeleteOrphan(k)
      PROVE  PartInv' /\ Keeps
  <2>1. TypeOK'
    BY <1>11 DEF DeleteOrphan, TypeOK, Erased
  <2> QED BY <1>11, <2>1, QuietStep DEF DeleteOrphan, Quiet, TypeOK
<1>12. ASSUME NEW k \in Keys, AgeArtifact(k)
      PROVE  PartInv' /\ Keeps
  <2>1. TypeOK'
    BY <1>12 DEF AgeArtifact, TypeOK
  <2> QED BY <1>12, <2>1, QuietStep DEF AgeArtifact, Quiet, TypeOK
<1>13. ASSUME NEW k \in Keys, LandArtifact(k)
      PROVE  PartInv' /\ Keeps
  <2>1. TypeOK'
    BY <1>13 DEF LandArtifact, TypeOK
  <2> QED BY <1>13, <2>1, QuietStep DEF LandArtifact, Quiet, TypeOK
<1> QED BY <1>1, <1>2, <1>3, <1>4, <1>5, <1>6, <1>7, <1>8, <1>9, <1>10, <1>11, <1>12, <1>13

-----------------------------------------------------------------------------
(* Steps that write upload rows, attempt rows or the quota.                 *)

\* Adding to both scopes of an upload keeps the quota rows typed and within
\* their limits when it does so for each of the two rows.
LEMMA ChargedQuota ==
    ASSUME NEW u \in Uploads, NEW a \in Int, NEW b \in Int,
           quota \in [Scopes -> [staged : Nat, reserved : Nat]],
           \A s \in Scopes : Used(quota[s]) <= LimitOf(s),
           \A s \in ScopesOf(u) :
              /\ quota[s].staged + a >= 0 /\ quota[s].reserved + b >= 0
              /\ Used(quota[s]) + a + b <= LimitOf(s)
    PROVE  /\ Charged(u, a, b) \in [Scopes -> [staged : Nat, reserved : Nat]]
           /\ \A s \in Scopes : Used(Charged(u, a, b)[s]) <= LimitOf(s)
<1>1. \A s \in Scopes : LimitOf(s) \in Nat
  BY StagedPartsAssumption DEF Scopes, LimitOf
<1> SUFFICES ASSUME NEW s \in Scopes
             PROVE  /\ Charged(u, a, b)[s] \in [staged : Nat, reserved : Nat]
                    /\ Used(Charged(u, a, b)[s]) <= LimitOf(s)
  BY DEF Charged
<1>2. CASE s \in ScopesOf(u)
  BY <1>1, <1>2 DEF Charged, Used
<1>3. CASE s \notin ScopesOf(u)
  BY <1>3 DEF Charged
<1> QED BY <1>2, <1>3

\* What the upload row may become when a step of StagedParts other than an
\* UploadPart writes it.
RowSucceeds(old, new) ==
    /\ new \in UploadRows
    /\ new.staged = old.staged /\ new.reserved = old.reserved
    /\ new.result = old.result /\ new.print = old.print
    /\ old.life \in {"COMPLETING", "COMPLETED", "gone"} => new.life = old.life
    /\ old.life \in Terminal => new.life = old.life
    /\ new.life = "COMPLETED" => old.life = "COMPLETED"

\* A step that writes one upload row that way, and otherwise only the lists
\* of the cleaners and the maker of the upload, preserves the invariant.
LEMMA RowWritten ==
    ASSUME PartInv, NEW u \in Uploads, NEW row,
           RowSucceeds(upload[u], row), upload' = [upload EXCEPT ![u] = row],
           UNCHANGED <<attempt, quota, artifact, request, deleted, orphans, scan, retiring,
                       worker, dest, answered>>,
           doomed' \subseteq Keys, reaping' \subseteq reaping,
           UNCHANGED maker \/ maker' \in {[maker EXCEPT ![u] = x] : x \in {"ready", "rollback"}},
           maker'[u] \in {"none", "counted"} => row.life = "none"
    PROVE  PartInv' /\ Keeps
<1> USE DEF PartInv
<1>1. upload \in [Uploads -> UploadRows]
  BY DEF TypeOK
<1>2. TypeOK'
  <2>1. upload' \in [Uploads -> UploadRows]
    BY <1>1 DEF RowSucceeds
  <2>2. maker' \in [Uploads -> {"none", "counted", "ready", "rollback"}]
    BY DEF TypeOK
  <2> QED BY <2>1, <2>2 DEF TypeOK
<1>3. WithinLimits'
  BY <1>1 DEF WithinLimits, Used, RowSucceeds
<1>4. RequestsOwnRows'
  BY DEF RequestsOwnRows, Live
<1>5. UploadsProgress'
  <2>1. \A v \in Uploads : maker'[v] \in {"none", "counted"} => upload'[v].life = "none"
    BY <1>1 DEF UploadsProgress, TypeOK
  <2> QED BY <1>1, <2>1 DEF UploadsProgress, RowSucceeds
<1>6. Keeps
  BY <1>1 DEF Keeps, RowsKept, UploadsKept, Begun, RowSucceeds
<1> QED BY <1>2, <1>3, <1>4, <1>5, <1>6

\* An upload row is inserted, aborted, expired or reaped, or time passes over
\* it: CreateInsert, Abort, ReapUpdate, ExpireUpload, BuryUpload.
LEMMA UploadSteps ==
    ASSUME PartInv, UNCHANGED <<worker, dest, answered>>, NEW u \in Uploads,
           \/ CreateInsert(u) \/ Abort(u) \/ ReapUpdate(u)
           \/ ExpireUpload(u) \/ BuryUpload(u)
    PROVE  PartInv' /\ Keeps
<1> USE DEF cleaners
<1>1. upload[u] \in UploadRows /\ doomed \subseteq Keys
  BY DEF PartInv, TypeOK
<1>2. ASSUME NEW x \in {"OPEN", "ABORTED", "EXPIRED"},
             upload[u].life \in {"none", "OPEN"}
      PROVE  RowSucceeds(upload[u], [upload[u] EXCEPT !.life = x])
  BY <1>1, <1>2 DEF RowSucceeds, UploadRows, Lifecycles, Terminal
<1>3. CASE CreateInsert(u)
  <2> DEFINE row == [upload[u] EXCEPT !.life = "OPEN"]
  <2>1. RowSucceeds(upload[u], row)
    BY <1>2, <1>3 DEF CreateInsert, PartInv, UploadsProgress
  <2>2. upload' = [upload EXCEPT ![u] = row] /\ maker'[u] \notin {"none", "counted"}
    BY <1>3 DEF CreateInsert, PartInv, TypeOK
  <2> HIDE DEF row
  <2> QED BY <1>1, <1>3, <2>1, <2>2, RowWritten DEF CreateInsert
<1>4. CASE Abort(u)
  <2> DEFINE row == [upload[u] EXCEPT !.life = "ABORTED"]
  <2>1. RowSucceeds(upload[u], row)
    BY <1>2, <1>4 DEF Abort
  <2>2. upload' = [upload EXCEPT ![u] = row] /\ doomed' \subseteq Keys
    BY <1>1, <1>4 DEF Abort, CurrentOf
  <2> HIDE DEF row
  <2> QED BY <1>4, <2>1, <2>2, RowWritten DEF Abort
<1>5. CASE ReapUpdate(u)
  <2> DEFINE row == IF upload[u].life = "OPEN" THEN [upload[u] EXCEPT !.life = "EXPIRED"]
                    ELSE upload[u]
  <2>1. RowSucceeds(upload[u], row)
    BY <1>1, <1>2 DEF RowSucceeds
  <2>2. upload' = [upload EXCEPT ![u] = row]
    <3>1. CASE upload[u].life = "OPEN"
      BY <1>5, <3>1 DEF ReapUpdate
    <3>2. CASE upload[u].life # "OPEN"
      <4>1. [upload[u] EXCEPT !.life = upload[u].life] = upload[u]
        BY <1>1 DEF UploadRows
      <4> QED BY <1>5, <3>2, <4>1 DEF ReapUpdate
    <3> QED BY <3>1, <3>2
  <2>3. doomed' \subseteq Keys /\ (maker[u] \in {"none", "counted"} => row.life = "none")
    BY <1>1, <1>5 DEF ReapUpdate, CurrentOf, PartInv, UploadsProgress
  <2> HIDE DEF row
  <2> QED BY <1>5, <2>1, <2>2, <2>3, RowWritten DEF ReapUpdate
<1>6. ASSUME NEW row, upload' = [upload EXCEPT ![u] = row],
             row = [upload[u] EXCEPT !.expired = TRUE]
                \/ row = [upload[u] EXCEPT !.buried = TRUE],
             UNCHANGED <<attempt, quota, artifact, request, maker, cleaners>>
      PROVE  PartInv' /\ Keeps
  <2>1. RowSucceeds(upload[u], row) /\ row.life = upload[u].life
    BY <1>1, <1>6 DEF RowSucceeds, UploadRows
  <2>2. maker[u] \in {"none", "counted"} => row.life = "none"
    BY <2>1 DEF PartInv, UploadsProgress
  <2> QED BY <1>1, <1>6, <2>1, <2>2, RowWritten
<1>7. CASE ExpireUpload(u)
  BY <1>6, <1>7 DEF ExpireUpload
<1>8. CASE BuryUpload(u)
  BY <1>6, <1>8 DEF BuryUpload
<1> QED BY <1>3, <1>4, <1>5, <1>7, <1>8

\* A PENDING row outlives the grace: only its flag changes.
LEMMA AgeAttemptStep ==
    ASSUME PartInv, UNCHANGED <<worker, dest, answered>>,
           NEW k \in Keys, AgeAttempt(k)
    PROVE  PartInv' /\ Keeps
<1> USE DEF PartInv, AgeAttempt, cleaners
<1>1. TypeOK'
  <2>1. attempt[k] \in AttemptRows
    BY DEF TypeOK
  <2>2. [attempt[k] EXCEPT !.old = TRUE] \in AttemptRows
    BY <2>1 DEF AttemptRows
  <2> QED BY <2>2 DEF TypeOK
<1>2. WithinLimits'
  BY DEF WithinLimits
<1>3. RequestsOwnRows'
  BY DEF RequestsOwnRows, Live, TypeOK, AttemptRows
<1>4. UploadsProgress'
  BY DEF UploadsProgress
<1>5. Keeps
  BY DEF Keeps, RowsKept, UploadsKept, Begun, TypeOK, AttemptRows
<1> QED BY <1>1, <1>2, <1>3, <1>4, <1>5

\* Gone only marks a row: it stays a row and still tells what it was for.
LEMMA GoneRow ==
    ASSUME NEW k \in Keys, attempt[k] \in AttemptRows
    PROVE  /\ Gone(k) \in AttemptRows
           /\ Gone(k).upload = attempt[k].upload /\ Gone(k).part = attempt[k].part
           /\ Gone(k).etag = attempt[k].etag /\ Gone(k).state = "gone"
           /\ Gone(k).old = attempt[k].old
  BY DEF Gone, AttemptRows, AttemptStates, Amounts

\* retire_terminal_uploads and delete_terminal_upload: a deleted upload keeps
\* its result, so one that was completed does not look abandoned.
LEMMA DroppedStep ==
    ASSUME PartInv, UNCHANGED <<worker, dest, answered>>,
           NEW u \in Uploads, Retire(u) \/ DeleteTerminal(u)
    PROVE  PartInv' /\ Keeps
<1> USE DEF PartInv
<1>1. /\ Dropped(u)
      /\ upload[u].life \in Terminal \cup {"gone"}
      /\ UNCHANGED <<quota, artifact, request, maker, doomed, deleted, orphans, scan, reaping>>
      /\ retiring' \subseteq retiring
  BY DEF UploadsProgress, Terminal, Retire, DeleteTerminal, cleaners
<1>2. \A k \in Keys :
         /\ attempt'[k] = attempt[k] \/ attempt'[k] = Gone(k)
         /\ attempt'[k] \in AttemptRows
  <2>1. \A k \in Keys : attempt'[k] = attempt[k] \/ attempt'[k] = Gone(k)
    BY <1>1 DEF Dropped
  <2>2. \A k \in Keys : attempt[k] \in AttemptRows /\ Gone(k) \in AttemptRows
    BY GoneRow DEF TypeOK
  <2> QED BY <2>1, <2>2
<1>3. TypeOK'
  <2>1. attempt' \in [Keys -> AttemptRows]
    BY <1>1, <1>2 DEF Dropped
  <2>2. upload' \in [Uploads -> UploadRows]
    <3>1. upload[u] \in UploadRows
      BY DEF TypeOK
    <3>2. [upload[u] EXCEPT !.life = "gone"] \in UploadRows
      BY <3>1 DEF UploadRows, Lifecycles
    <3> QED BY <1>1, <3>2 DEF Dropped, TypeOK
  <2> QED BY <1>1, <2>1, <2>2 DEF TypeOK
<1>4. WithinLimits'
  BY <1>1 DEF WithinLimits, TypeOK, UploadRows, Used, Dropped
<1>5. \A k \in Keys :
         /\ attempt'[k].upload = attempt[k].upload /\ attempt'[k].part = attempt[k].part
         /\ attempt'[k].etag = attempt[k].etag
         /\ \/ attempt'[k].state = attempt[k].state
            \/ attempt'[k].state = "gone" /\ Live(k)
  <2>1. \A k \in Keys : attempt'[k] = attempt[k] \/ (attempt'[k] = Gone(k) /\ Live(k))
    BY <1>1 DEF Dropped, AttemptsOf
  <2>2. \A k \in Keys :
           /\ Gone(k).upload = attempt[k].upload /\ Gone(k).part = attempt[k].part
           /\ Gone(k).etag = attempt[k].etag /\ Gone(k).state = "gone"
    BY GoneRow DEF TypeOK
  <2> QED BY <2>1, <2>2
<1>6. RequestsOwnRows'
  BY <1>1, <1>5 DEF RequestsOwnRows, Live
<1>7. UploadsProgress'
  BY <1>1 DEF UploadsProgress, TypeOK, UploadRows, Terminal, Dropped
<1>8. Keeps
  <2>1. RowsKept(attempt, attempt')
    BY <1>5 DEF RowsKept
  <2>2. UploadsKept /\ \A v \in Uploads : upload'[v].result = upload[v].result
    BY <1>1 DEF UploadsKept, Begun, Dropped, UploadsProgress, TypeOK, UploadRows, Terminal
  <2> QED BY <2>1, <2>2 DEF Keeps
<1> QED BY <1>3, <1>4, <1>6, <1>7, <1>8 DEF PartInv

\* An upload row with other counters.
WithCounters(r, a, b) == [r EXCEPT !.staged = a, !.reserved = b]

\* Writing the counters of an upload row leaves the rest of it alone.
LEMMA CounterRow ==
    ASSUME NEW r \in UploadRows, NEW a \in Nat, NEW b \in Nat
    PROVE  /\ WithCounters(r, a, b) \in UploadRows
           /\ WithCounters(r, a, b).life = r.life
           /\ WithCounters(r, a, b).print = r.print
           /\ WithCounters(r, a, b).result = r.result
           /\ Used(WithCounters(r, a, b)) = a + b
  BY DEF WithCounters, UploadRows, Amounts, Used

\* release_artifact, alone or after the object was deleted.
LEMMA ReleaseStep ==
    ASSUME PartInv, UNCHANGED <<worker, dest, answered>>, NEW k \in Keys,
           DiscardPart(k) \/ ConfirmDeleted(k)
    PROVE  PartInv' /\ Keeps
<1> USE DEF PartInv
<1>1. /\ ReleaseArtifact(k)
      /\ UNCHANGED <<artifact, maker, doomed, orphans, scan, reaping, retiring>>
      /\ deleted' \subseteq deleted
      /\ request' \in [Keys -> {"unused", "body", "put", "stored", "done"}]
      /\ \A j \in Keys : request'[j] = "unused" => request[j] = "unused"
  <2>1. CASE DiscardPart(k)
    BY <2>1 DEF DiscardPart, cleaners, TypeOK
  <2>2. CASE ConfirmDeleted(k)
    BY <2>2 DEF ConfirmDeleted, TypeOK
  <2> QED BY <2>1, <2>2
<1>2. CASE ~Live(k)
  <2>1. UNCHANGED <<attempt, upload, quota>>
    BY <1>1, <1>2 DEF ReleaseArtifact
  <2>2. TypeOK'
    BY <1>1, <2>1 DEF TypeOK
  <2> QED BY <1>1, <2>1, <2>2, QuietStep DEF Quiet
<1>3. CASE Live(k)
  <2> DEFINE u == attempt[k].upload
             f == Freed(k)
             row == [upload[u] EXCEPT !.staged = @ - f.staged, !.reserved = @ - f.reserved]
  <2>1. u \in Uploads /\ upload[u] \in UploadRows /\ attempt[k] \in AttemptRows
    BY <1>3 DEF TypeOK, RequestsOwnRows
  <2>2. f.staged \in Nat /\ f.reserved \in Nat
    BY <2>1 DEF Freed, AttemptRows, Amounts
  <2>3. /\ ~Underflow(k)
        /\ attempt' = [attempt EXCEPT ![k] = Gone(k)]
        /\ upload' = [upload EXCEPT ![u] = row]
        /\ quota' = Charged(u, -f.staged, -f.reserved)
    BY <1>1, <1>3 DEF ReleaseArtifact
  <2>4. /\ f.staged <= upload[u].staged /\ f.reserved <= upload[u].reserved
        /\ \A s \in ScopesOf(u) :
              f.staged <= quota[s].staged /\ f.reserved <= quota[s].reserved
    <3>1. \A q \in {upload[u]} \cup {quota[s] : s \in ScopesOf(u)} :
             ~(q.staged < f.staged) /\ ~(q.reserved < f.reserved)
      BY <2>3 DEF Underflow
    <3>2. ScopesOf(u) \subseteq Scopes
      BY <2>1, StagedPartsAssumption DEF ScopesOf, Scopes
    <3>3. \A s \in ScopesOf(u) : quota[s].staged \in Nat /\ quota[s].reserved \in Nat
      BY <3>2 DEF TypeOK, Amounts
    <3>4. upload[u].staged \in Nat /\ upload[u].reserved \in Nat
      BY <2>1 DEF UploadRows, Amounts
    <3> HIDE DEF f, u
    <3> QED BY <2>2, <3>1, <3>3, <3>4
  <2>5. /\ row \in UploadRows /\ row.life = upload[u].life /\ row.print = upload[u].print
        /\ row.result = upload[u].result /\ Used(row) <= Used(upload[u])
    <3> HIDE DEF f, u
    <3> DEFINE a == upload[u].staged - f.staged
               b == upload[u].reserved - f.reserved
    <3>1. upload[u].staged \in Nat /\ upload[u].reserved \in Nat
      BY <2>1 DEF UploadRows, Amounts
    <3>2. a \in Nat /\ b \in Nat /\ a + b <= Used(upload[u])
      BY <2>2, <2>4, <3>1 DEF Used
    <3>3. row = WithCounters(upload[u], a, b)
      BY DEF WithCounters
    <3> HIDE DEF a, b, row
    <3>4. /\ row \in UploadRows /\ row.life = upload[u].life /\ row.print = upload[u].print
          /\ row.result = upload[u].result /\ Used(row) = a + b
      BY <2>1, <3>2, <3>3, CounterRow
    <3> QED BY <3>2, <3>4
  <2>6. /\ quota' \in [Scopes -> [staged : Nat, reserved : Nat]]
        /\ \A s \in Scopes : Used(quota'[s]) <= LimitOf(s)
    <3>1. ScopesOf(u) \subseteq Scopes
      BY <2>1, StagedPartsAssumption DEF ScopesOf, Scopes
    <3>2. /\ quota \in [Scopes -> [staged : Nat, reserved : Nat]]
          /\ \A s \in Scopes : Used(quota[s]) <= LimitOf(s) /\ LimitOf(s) \in Nat
      BY StagedPartsAssumption DEF TypeOK, Amounts, WithinLimits, LimitOf
    <3> HIDE DEF f, u
    <3>3. \A s \in ScopesOf(u) :
             /\ quota[s].staged + (-f.staged) >= 0 /\ quota[s].reserved + (-f.reserved) >= 0
             /\ Used(quota[s]) + (-f.staged) + (-f.reserved) <= LimitOf(s)
      BY <2>2, <2>4, <3>1, <3>2 DEF Used
    <3>4. -f.staged \in Int /\ -f.reserved \in Int
      BY <2>2
    <3> QED BY <2>1, <2>3, <3>2, <3>3, <3>4, ChargedQuota
  <2>7. Gone(k) \in AttemptRows
    BY <2>1, GoneRow
  <2> HIDE DEF u, f, row
  <2>8. TypeOK'
    <3>1. upload' \in [Uploads -> UploadRows] /\ attempt' \in [Keys -> AttemptRows]
      BY <2>1, <2>3, <2>5, <2>7 DEF TypeOK
    <3> QED BY <1>1, <2>6, <3>1 DEF TypeOK, Amounts
  <2>9. WithinLimits'
    <3>1. \A v \in Uploads : Used(upload'[v]) <= UploadLimit
      BY <2>1, <2>3, <2>5, StagedPartsAssumption DEF WithinLimits, TypeOK, Used, UploadRows, Amounts
    <3> QED BY <2>6, <3>1 DEF WithinLimits
  <2>10. RowsKept(attempt, attempt') /\ RequestsOwnRows'
    <3>1. \A j \in Keys :
             /\ attempt'[j].upload = attempt[j].upload /\ attempt'[j].part = attempt[j].part
             /\ attempt'[j].etag = attempt[j].etag
             /\ \/ attempt'[j].state = attempt[j].state
                \/ attempt'[j].state = "gone" /\ Live(j)
      BY <1>3, <2>1, <2>3, GoneRow DEF TypeOK
    <3> QED BY <1>1, <3>1 DEF RowsKept, RequestsOwnRows, Live
  <2>11. \A v \in Uploads : /\ upload'[v].life = upload[v].life
                            /\ upload'[v].print = upload[v].print
                            /\ upload'[v].result = upload[v].result
    BY <2>1, <2>3, <2>5 DEF TypeOK
  <2>12. UploadsProgress'
    BY <1>1, <2>11 DEF UploadsProgress, TypeOK
  <2>13. Keeps
    BY <2>10, <2>11 DEF Keeps, UploadsKept, Begun
  <2> QED BY <2>8, <2>9, <2>10, <2>12, <2>13
<1> QED BY <1>2, <1>3

\* begin_part reserves within every limit and writes a row that no other
\* request has written.
LEMMA BeginPartStep ==
    ASSUME PartInv, UNCHANGED <<worker, dest, answered>>, NEW k \in Keys,
           NEW u \in Uploads, NEW p \in Parts, NEW n \in Sizes \ {0}, BeginPart(k, u, p, n)
    PROVE  PartInv' /\ Keeps
<1> USE DEF PartInv
<1> DEFINE new == [NoAttempt EXCEPT !.state = "PENDING", !.upload = u, !.part = p, !.reserved = n]
           row == [upload[u] EXCEPT !.reserved = @ + n]
<1>1. n \in Nat /\ upload[u] \in UploadRows
  BY StagedPartsAssumption DEF TypeOK
<1>2. new \in AttemptRows /\ new.state = "PENDING" /\ new.upload = u /\ new.part = p
  BY <1>1 DEF NoAttempt, AttemptRows, AttemptStates, Amounts
<1>3. /\ upload' = [upload EXCEPT ![u] = row]
      /\ attempt' = [attempt EXCEPT ![k] = new]
      /\ quota' = Charged(u, 0, n) /\ Fits(u, n)
      /\ request[k] = "unused" /\ request' = [request EXCEPT ![k] = "body"]
      /\ UNCHANGED <<artifact, maker, doomed, deleted, orphans, scan, reaping, retiring>>
      /\ attempt[k].state = "none"
  BY DEF BeginPart, cleaners, RequestsOwnRows
<1> HIDE DEF new
<1>4. /\ row \in UploadRows /\ row.life = upload[u].life /\ row.print = upload[u].print
      /\ row.result = upload[u].result /\ Used(row) = Used(upload[u]) + n
  BY <1>1 DEF UploadRows, Amounts, Used
<1> HIDE DEF row
<1>5. /\ quota' \in [Scopes -> [staged : Nat, reserved : Nat]]
      /\ \A s \in Scopes : Used(quota'[s]) <= LimitOf(s)
  <2>1. ScopesOf(u) \subseteq Scopes
    BY StagedPartsAssumption DEF ScopesOf, Scopes
  <2>2. /\ quota \in [Scopes -> [staged : Nat, reserved : Nat]]
        /\ \A s \in Scopes : Used(quota[s]) <= LimitOf(s)
    BY DEF TypeOK, Amounts, WithinLimits
  <2>3. \A s \in ScopesOf(u) :
           /\ quota[s].staged + 0 >= 0 /\ quota[s].reserved + n >= 0
           /\ Used(quota[s]) + 0 + n <= LimitOf(s)
    BY <1>1, <1>3, <2>1, <2>2 DEF Fits, Used
  <2> QED BY <1>1, <1>3, <2>2, <2>3, ChargedQuota
<1>6. TypeOK'
  <2>1. upload' \in [Uploads -> UploadRows] /\ attempt' \in [Keys -> AttemptRows]
    BY <1>2, <1>3, <1>4 DEF TypeOK
  <2> QED BY <1>3, <1>5, <2>1 DEF TypeOK, Amounts
<1>7. WithinLimits'
  <2>1. \A v \in Uploads : Used(upload'[v]) <= UploadLimit
    BY <1>3, <1>4 DEF Fits, WithinLimits, TypeOK
  <2> QED BY <1>5, <2>1 DEF WithinLimits
<1>8. \A j \in Keys : attempt'[j] = IF j = k THEN new ELSE attempt[j]
  BY <1>3 DEF TypeOK
<1>9. RowsKept(attempt, attempt')
  BY <1>3, <1>8 DEF RowsKept
<1>10. RequestsOwnRows'
  BY <1>2, <1>3, <1>8 DEF RequestsOwnRows, Live, TypeOK
<1>11. \A v \in Uploads : /\ upload'[v].life = upload[v].life
                          /\ upload'[v].print = upload[v].print
                          /\ upload'[v].result = upload[v].result
  BY <1>3, <1>4 DEF TypeOK
<1>12. UploadsProgress'
  BY <1>3, <1>11 DEF UploadsProgress, TypeOK
<1>13. Keeps
  BY <1>9, <1>11 DEF Keeps, UploadsKept, Begun
<1> QED BY <1>6, <1>7, <1>10, <1>12, <1>13

\* commit_part turns at most the reserved bytes into staged ones, and retires
\* the current attempt of the part, so that a part has one current attempt.
LEMMA CommitPartStep ==
    ASSUME PartInv, UNCHANGED <<worker, dest, answered>>, NEW k \in Keys,
           NEW e \in Etags, NEW m \in Sizes, CommitPart(k, e, m)
    PROVE  PartInv' /\ Keeps
<1> USE DEF PartInv
<1> DEFINE u == attempt[k].upload
           n == attempt[k].reserved
           previous == {j \in CurrentOf(u) : attempt[j].part = attempt[k].part}
           new == [attempt[k] EXCEPT !.state = "CURRENT", !.etag = e,
                                     !.size = m, !.reserved = 0]
           row == [upload[u] EXCEPT !.staged = @ + m, !.reserved = @ - n]
<1>1. /\ request[k] = "put" /\ attempt[k].state = "PENDING" /\ m <= n
      /\ \A q \in {upload[u]} \cup {quota[s] : s \in ScopesOf(u)} : n <= q.reserved
      /\ attempt' = [j \in Keys |-> IF j = k THEN new
                                    ELSE IF j \in previous THEN [attempt[j] EXCEPT !.state = "RETIRED"]
                                    ELSE attempt[j]]
      /\ upload' = [upload EXCEPT ![u] = row] /\ quota' = Charged(u, m, -n)
      /\ doomed' = doomed \cup previous
      /\ request' = [request EXCEPT ![k] = "stored"]
      /\ UNCHANGED <<artifact, maker, deleted, orphans, scan, reaping, retiring>>
  BY DEF CommitPart
<1>2. attempt[k] \in AttemptRows /\ u \in Uploads /\ attempt[k].part \in Parts
  BY <1>1 DEF TypeOK, RequestsOwnRows, Live
<1>3. m \in Nat /\ n \in Nat /\ upload[u] \in UploadRows
  BY <1>2, StagedPartsAssumption DEF TypeOK, AttemptRows, Amounts
<1>4. new \in AttemptRows /\ new.state = "CURRENT" /\ new.upload = u /\ new.part = attempt[k].part
  <2> HIDE DEF n
  <2> QED BY <1>2, <1>3 DEF AttemptRows, AttemptStates, Amounts
<1>5. /\ row \in UploadRows /\ row.life = upload[u].life /\ row.print = upload[u].print
      /\ row.result = upload[u].result /\ Used(row) <= Used(upload[u])
  <2> HIDE DEF n, u, previous, new
  <2> DEFINE a == upload[u].staged + m
             b == upload[u].reserved - n
  <2>1. upload[u].staged \in Nat /\ upload[u].reserved \in Nat /\ n <= upload[u].reserved
    BY <1>1, <1>3 DEF UploadRows, Amounts
  <2>2. a \in Nat /\ b \in Nat /\ a + b <= Used(upload[u])
    BY <1>1, <1>3, <2>1 DEF Used
  <2>3. row = WithCounters(upload[u], a, b)
    BY DEF WithCounters
  <2> HIDE DEF a, b, row
  <2>4. /\ row \in UploadRows /\ row.life = upload[u].life /\ row.print = upload[u].print
        /\ row.result = upload[u].result /\ Used(row) = a + b
    BY <1>3, <2>2, <2>3, CounterRow
  <2> QED BY <2>2, <2>4
<1>6. /\ quota' \in [Scopes -> [staged : Nat, reserved : Nat]]
      /\ \A s \in Scopes : Used(quota'[s]) <= LimitOf(s)
  <2>1. ScopesOf(u) \subseteq Scopes
    BY <1>2, StagedPartsAssumption DEF ScopesOf, Scopes
  <2>2. /\ quota \in [Scopes -> [staged : Nat, reserved : Nat]]
        /\ \A s \in Scopes : Used(quota[s]) <= LimitOf(s) /\ LimitOf(s) \in Nat
    BY StagedPartsAssumption DEF TypeOK, Amounts, WithinLimits, LimitOf
  <2> HIDE DEF n, u, previous, new, row
  <2>3. \A s \in ScopesOf(u) : n <= quota[s].reserved
    BY <1>1
  <2>4. \A s \in ScopesOf(u) :
           /\ quota[s].staged + m >= 0 /\ quota[s].reserved + (-n) >= 0
           /\ Used(quota[s]) + m + (-n) <= LimitOf(s)
    BY <1>1, <1>3, <2>1, <2>2, <2>3 DEF Used
  <2>5. -n \in Int
    BY <1>3
  <2> QED BY <1>1, <1>2, <1>3, <2>2, <2>4, <2>5, ChargedQuota
<1>7. \A j \in previous :
         /\ j \in Keys /\ attempt[j].state = "CURRENT" /\ attempt[j].upload = u
         /\ attempt[j].part = attempt[k].part
  BY DEF CurrentOf
<1>8. \A j \in Keys : attempt[j].state = "CURRENT" /\ attempt[j].upload = u
                      /\ attempt[j].part = attempt[k].part => j \in previous
  BY DEF CurrentOf
<1>9. \A j \in Keys :
         /\ [attempt[j] EXCEPT !.state = "RETIRED"] \in AttemptRows
         /\ [attempt[j] EXCEPT !.state = "RETIRED"].state = "RETIRED"
         /\ [attempt[j] EXCEPT !.state = "RETIRED"].upload = attempt[j].upload
         /\ [attempt[j] EXCEPT !.state = "RETIRED"].part = attempt[j].part
         /\ [attempt[j] EXCEPT !.state = "RETIRED"].etag = attempt[j].etag
  <2> HIDE DEF n, u, previous, new, row
  <2>1. \A j \in Keys : attempt[j] \in AttemptRows
    BY DEF TypeOK
  <2> QED BY <2>1 DEF AttemptRows, AttemptStates
<1> HIDE DEF n, u, previous, new, row
<1>10. attempt' \in [Keys -> AttemptRows]
  <2>1. \A j \in Keys : attempt[j] \in AttemptRows
    BY DEF TypeOK
  <2> QED BY <1>1, <1>4, <1>9, <2>1
<1>11. \A j \in Keys :
          /\ j = k => attempt'[j] = new
          /\ j # k => /\ attempt'[j].upload = attempt[j].upload
                      /\ attempt'[j].part = attempt[j].part
                      /\ attempt'[j].etag = attempt[j].etag
          /\ j # k /\ j \notin previous => attempt'[j].state = attempt[j].state
          /\ j # k /\ j \in previous => attempt'[j].state = "RETIRED"
  BY <1>1, <1>9
<1>12. TypeOK'
  <2>1. upload' \in [Uploads -> UploadRows]
    BY <1>1, <1>2, <1>5 DEF TypeOK
  <2>2. doomed' \subseteq Keys
    BY <1>1, <1>7 DEF TypeOK
  <2> QED BY <1>1, <1>6, <1>10, <2>1, <2>2 DEF TypeOK, Amounts
<1>13. WithinLimits'
  <2>1. \A v \in Uploads : Used(upload'[v]) <= UploadLimit
    BY <1>1, <1>2, <1>5, StagedPartsAssumption DEF WithinLimits, TypeOK, Used, UploadRows, Amounts
  <2> QED BY <1>6, <2>1 DEF WithinLimits
<1>14. RowsKept(attempt, attempt')
  BY <1>1, <1>7, <1>11 DEF RowsKept
<1>15. RequestsOwnRows'
  <2>1. \A j \in Keys : request'[j] = "unused" => attempt'[j].state = "none"
    BY <1>1, <1>7, <1>11 DEF RequestsOwnRows, TypeOK
  <2>2. \A j \in Keys : Live(j)' => attempt'[j].upload \in Uploads /\ attempt'[j].part \in Parts
    BY <1>2, <1>4, <1>7, <1>11 DEF RequestsOwnRows, Live
  <2>3. \A i, j \in Keys :
           /\ attempt'[i].state = "CURRENT" /\ attempt'[j].state = "CURRENT"
           /\ attempt'[i].upload = attempt'[j].upload /\ attempt'[i].part = attempt'[j].part
           => i = j
    BY <1>4, <1>8, <1>11 DEF RequestsOwnRows
  <2> QED BY <2>1, <2>2, <2>3 DEF RequestsOwnRows
<1>16. \A v \in Uploads : /\ upload'[v].life = upload[v].life
                          /\ upload'[v].print = upload[v].print
                          /\ upload'[v].result = upload[v].result
  BY <1>1, <1>2, <1>5 DEF TypeOK
<1>17. UploadsProgress'
  <2>1. UNCHANGED <<maker, retiring>> /\ retiring \subseteq Uploads
    BY <1>1 DEF TypeOK
  <2> QED BY <1>16, <2>1 DEF UploadsProgress
<1>18. Keeps
  BY <1>14, <1>16 DEF Keeps, UploadsKept, Begun
<1> QED BY <1>12, <1>13, <1>15, <1>17, <1>18

\* Every step of StagedParts keeps its own invariant and grants the
\* completion what it needs.
LEMMA PartStep ==
    ASSUME PartInv, Alone(PartSteps)
    PROVE  PartInv' /\ Keeps
<1>1. UNCHANGED <<worker, dest, answered>> /\ PartSteps
  BY DEF Alone
<1>2. CASE \/ ReadKnown \/ ListOrphans \/ ScanFails
           \/ \E u \in Uploads : CreateCount(u) \/ ReapSelect(u) \/ RetireSelect(u)
           \/ \E k \in Keys :
                 \/ PutArtifact(k) \/ AbandonBody(k) \/ AbandonCommit(k)
                 \/ Sweep(k) \/ DeleteArtifact(k) \/ CleanupFails(k) \/ DeleteOrphan(k)
                 \/ AgeArtifact(k) \/ LandArtifact(k)
  BY <1>1, <1>2, QuietSteps
<1>3. CASE \E u \in Uploads : \/ CreateInsert(u) \/ Abort(u) \/ ReapUpdate(u)
                              \/ ExpireUpload(u) \/ BuryUpload(u)
  BY <1>1, <1>3, UploadSteps
<1>4. CASE \E u \in Uploads : Retire(u) \/ DeleteTerminal(u)
  BY <1>1, <1>4, DroppedStep
<1>5. CASE \E k \in Keys, u \in Uploads, p \in Parts, n \in Sizes \ {0} : BeginPart(k, u, p, n)
  BY <1>1, <1>5, BeginPartStep
<1>6. CASE \E k \in Keys, e \in Etags, m \in Sizes : CommitPart(k, e, m)
  BY <1>1, <1>6, CommitPartStep
<1>7. CASE \E k \in Keys : DiscardPart(k) \/ ConfirmDeleted(k)
  BY <1>1, <1>7, ReleaseStep
<1>8. CASE \E k \in Keys : AgeAttempt(k)
  BY <1>1, <1>8, AgeAttemptStep
<1> QED BY <1>1, <1>2, <1>3, <1>4, <1>5, <1>6, <1>7, <1>8 DEF PartSteps

-----------------------------------------------------------------------------
(* The completion.  The conjuncts of the invariant about workers and        *)
(* destinations, said of one worker and of one upload.                      *)

\* Begun, said of a row.
BegunRow(r) ==
    \/ r.life \in {"COMPLETING", "COMPLETED"}
    \/ r.life = "gone" /\ r.result # {}

\* Worker state x works on an upload with row r and destination d.
WorkerFits(rows, x, r, d) ==
    /\ x.pc \in {"idle", "acquire"} => x.fence = "no" /\ x.read = {}
    /\ x.pc # "idle" => x.upload \in Uploads /\ x.sel \in Selections
    /\ x.pc \notin {"idle", "acquire"} =>
          /\ BegunRow(r) /\ x.sel = r.print
          /\ AnswersIn(rows, x.upload, x.parts, x.sel)
          /\ x.read \subseteq x.parts
    /\ x.pc = "commit" => x.read = x.parts
    /\ x.pc \in {"settle", "record"} => d.state = "committed"

\* Upload u with row r, destination d and answers a.
UploadFits(rows, u, r, d, a) ==
    /\ d.state # "none" => BegunRow(r)
    /\ d.state \in {"unknown", "committed"} => AnswersIn(rows, u, d.parts, r.print)
    /\ \A s \in a \cup ({r.result} \ {{}}) : d.state = "committed" /\ d.parts = s

\* The invariant is what it says of each worker and each upload.
LEMMA InvariantFits ==
    /\ WorkersHoldParts <=>
         \A w \in Workers :
            WorkerFits(attempt, worker[w], upload[worker[w].upload], dest[worker[w].upload])
    /\ (DestFollowsLease /\ ResultIsObject) <=>
         \A u \in Uploads : UploadFits(attempt, u, upload[u], dest[u], answered[u])
  BY DEF WorkersHoldParts, DestFollowsLease, ResultIsObject, WorkerFits, UploadFits,
         Past, At, Begun, BegunRow, Answers, Row, Dest

\* The same in the next state.
LEMMA InvariantFitsNext ==
    /\ WorkersHoldParts' <=>
         \A w \in Workers :
            WorkerFits(attempt', worker'[w], upload'[worker'[w].upload], dest'[worker'[w].upload])
    /\ (DestFollowsLease' /\ ResultIsObject') <=>
         \A u \in Uploads : UploadFits(attempt', u, upload'[u], dest'[u], answered'[u])
  BY DEF WorkersHoldParts, DestFollowsLease, ResultIsObject, WorkerFits, UploadFits,
         Past, At, Begun, BegunRow, Answers, Row, Dest

\* What a step of the completion may do to a row: nothing that frees or takes
\* bytes, leaves a terminal state or forgets an acquired lease's request.
RowMoves(old, new) ==
    /\ new.staged = old.staged /\ new.reserved = old.reserved
    /\ old.life = "none" => new.life = "none"
    /\ old.life \in Terminal \cup {"gone"} => new.life \in Terminal \cup {"gone"}
    /\ new.life = "COMPLETED" => new.result # {}
    /\ BegunRow(old) => BegunRow(new) /\ new.print = old.print

\* Nothing that it may do to a destination undoes a commit.
DestMoves(old, new) == old.state = "committed" => new.state = "committed"

\* A step that leaves the attempts and the quota alone, moves rows and
\* destinations so, and leaves each worker and each upload as it was or
\* fitting, preserves the invariant.
LEMMA CompletionStep ==
    ASSUME IInv, UNCHANGED <<attempt, quota, request, maker, retiring>>,
           TypeOK',
           \A u \in Uploads : upload'[u] = upload[u] \/ RowMoves(upload[u], upload'[u]),
           \A u \in Uploads : DestMoves(dest[u], dest'[u]),
           \A u \in Uploads :
              \/ upload'[u] = upload[u] /\ dest'[u] = dest[u] /\ answered'[u] = answered[u]
              \/ UploadFits(attempt, u, upload'[u], dest'[u], answered'[u]),
           \A w \in Workers :
              \/ worker'[w] = worker[w]
              \/ WorkerFits(attempt, worker'[w], upload'[worker'[w].upload],
                            dest'[worker'[w].upload])
    PROVE  IInv'
<1>1. WithinLimits'
  BY DEF IInv, WithinLimits, RowMoves, Used
<1>2. RequestsOwnRows'
  BY DEF IInv, RequestsOwnRows, Live
<1>3. UploadsProgress'
  <2>1. retiring \subseteq Uploads
    BY DEF IInv, TypeOK
  <2> QED BY <2>1 DEF IInv, UploadsProgress, RowMoves
<1>4. DestFollowsLease' /\ ResultIsObject'
  <2>1. \A u \in Uploads : UploadFits(attempt, u, upload[u], dest[u], answered[u])
    BY InvariantFits DEF IInv
  <2>2. \A u \in Uploads : UploadFits(attempt', u, upload'[u], dest'[u], answered'[u])
    BY <2>1
  <2> QED BY <2>2, InvariantFitsNext
<1>5. WorkersHoldParts'
  <2>1. \A w \in Workers :
           WorkerFits(attempt, worker[w], upload[worker[w].upload], dest[worker[w].upload])
    BY InvariantFits DEF IInv
  <2>2. ASSUME NEW w \in Workers, worker'[w] = worker[w]
        PROVE  WorkerFits(attempt, worker[w], upload'[worker[w].upload], dest'[worker[w].upload])
    <3>1. WorkerFits(attempt, worker[w], upload[worker[w].upload], dest[worker[w].upload])
      BY <2>1
    <3> DEFINE v == worker[w].upload
    <3>2. CASE worker[w].pc = "idle"
      BY <3>1, <3>2 DEF WorkerFits
    <3>3. CASE worker[w].pc # "idle"
      <4>1. v \in Uploads
        BY <3>1, <3>3 DEF WorkerFits
      <4>2. dest[v].state = "committed" => dest'[v].state = "committed"
        BY <4>1 DEF DestMoves
      <4>3. BegunRow(upload[v]) => BegunRow(upload'[v]) /\ upload'[v].print = upload[v].print
        BY <4>1 DEF RowMoves
      <4> QED BY <3>1, <4>2, <4>3 DEF WorkerFits
    <3> QED BY <3>2, <3>3
  <2>3. \A w \in Workers :
           WorkerFits(attempt', worker'[w], upload'[worker'[w].upload], dest'[worker'[w].upload])
    BY <2>2
  <2> QED BY <2>3, InvariantFitsNext
<1> QED BY <1>1, <1>2, <1>3, <1>4, <1>5 DEF IInv

\* A step that changes one worker only, and leaves it fitting.
LEMMA WorkerStep ==
    ASSUME IInv, UNCHANGED <<partVars, dest, answered>>, NEW w \in Workers, NEW x,
           worker' = [worker EXCEPT ![w] = x], x \in WorkerStates,
           WorkerFits(attempt, x, upload[x.upload], dest[x.upload])
    PROVE  IInv'
<1>1. TypeOK /\ UNCHANGED <<upload, attempt, quota, artifact, request, maker, doomed, deleted,
                            orphans, scan, reaping, retiring>>
  BY DEF IInv, partVars
<1>2. worker' \in [Workers -> WorkerStates]
  BY <1>1 DEF TypeOK
<1>3. TypeOK'
  BY <1>1, <1>2 DEF TypeOK
<1>4. \A v \in Workers :
         \/ worker'[v] = worker[v]
         \/ WorkerFits(attempt, worker'[v], upload'[worker'[v].upload], dest'[worker'[v].upload])
  BY <1>1 DEF TypeOK
<1>5. \A u \in Uploads : DestMoves(dest[u], dest'[u])
  BY DEF DestMoves
<1> QED BY <1>1, <1>3, <1>4, <1>5, CompletionStep

\* A worker elsewhere in its program, with another fence.
Moved(x, pc, fence) == [x EXCEPT !.pc = pc, !.fence = fence]

\* Moving a worker leaves its request, parts and progress alone.
LEMMA MovedWorker ==
    ASSUME NEW x \in WorkerStates, NEW pc \in WorkerPcs, NEW fence \in {"no", "renewed", "yes"}
    PROVE  /\ Moved(x, pc, fence) \in WorkerStates
           /\ Moved(x, pc, fence).pc = pc /\ Moved(x, pc, fence).fence = fence
           /\ Moved(x, pc, fence).upload = x.upload /\ Moved(x, pc, fence).sel = x.sel
           /\ Moved(x, pc, fence).parts = x.parts /\ Moved(x, pc, fence).read = x.read
  BY DEF Moved, WorkerStates

\* An idle worker claims nothing, so it fits any row and destination.
LEMMA IdleWorker ==
    /\ Idle \in WorkerStates
    /\ \A rows, r, d : WorkerFits(rows, Idle, r, d)
<1>1. Idle \in WorkerStates
  BY StagedCompletionAssumption DEF Idle, WorkerStates, WorkerPcs
<1>2. Idle.pc = "idle" /\ Idle.fence = "no" /\ Idle.read = {}
  BY DEF Idle
<1> QED BY <1>1, <1>2 DEF WorkerFits

\* A worker may always leave.
LEMMA LeaveStep ==
    ASSUME IInv, UNCHANGED <<partVars, dest, answered>>, NEW w \in Workers, Leave(w)
    PROVE  IInv'
  BY WorkerStep, IdleWorker DEF Leave

\* A worker beyond acquisition may go back or stop anywhere that needs no
\* more than it has.
LEMMA MoveStep ==
    ASSUME IInv, UNCHANGED <<partVars, dest, answered>>, NEW w \in Workers,
           worker[w].pc \notin {"idle", "acquire"},
           NEW pc \in WorkerPcs \ {"idle", "acquire", "commit"}, NEW fence \in {"no", "renewed", "yes"},
           pc \in {"settle", "record"} => dest[worker[w].upload].state = "committed",
           worker' = [worker EXCEPT ![w] = Moved(worker[w], pc, fence)]
    PROVE  IInv'
<1> DEFINE x == Moved(worker[w], pc, fence)
<1>1. worker[w] \in WorkerStates
  BY DEF IInv, TypeOK
<1>2. /\ x \in WorkerStates /\ x.pc = pc /\ x.upload = worker[w].upload
      /\ x.sel = worker[w].sel /\ x.parts = worker[w].parts /\ x.read = worker[w].read
  BY <1>1, MovedWorker
<1>3. WorkerFits(attempt, worker[w], upload[worker[w].upload], dest[worker[w].upload])
  BY InvariantFits DEF IInv
<1> HIDE DEF x
<1>4. WorkerFits(attempt, x, upload[x.upload], dest[x.upload])
  BY <1>2, <1>3 DEF WorkerFits
<1> QED BY <1>2, <1>4, WorkerStep DEF x

\* Renewing or checking the fence of a worker moves nothing else.
LEMMA FenceStep ==
    ASSUME IInv, UNCHANGED <<partVars, dest, answered>>, NEW w \in Workers,
           worker[w].pc \notin {"idle", "acquire"},
           NEW fence \in {"no", "renewed", "yes"},
           worker' = [worker EXCEPT ![w] = Moved(worker[w], worker[w].pc, fence)]
    PROVE  IInv'
<1> DEFINE pc == worker[w].pc
           x == Moved(worker[w], pc, fence)
<1>1. worker[w] \in WorkerStates /\ pc \in WorkerPcs
  BY DEF IInv, TypeOK, WorkerStates
<1> HIDE DEF pc
<1>2. /\ x \in WorkerStates /\ x.pc = pc /\ x.upload = worker[w].upload
      /\ x.sel = worker[w].sel /\ x.parts = worker[w].parts /\ x.read = worker[w].read
  BY <1>1, MovedWorker
<1>3. WorkerFits(attempt, worker[w], upload[worker[w].upload], dest[worker[w].upload])
  BY InvariantFits DEF IInv
<1> HIDE DEF x
<1>4. WorkerFits(attempt, x, upload[x.upload], dest[x.upload])
  BY <1>2, <1>3 DEF WorkerFits, pc
<1> QED BY <1>2, <1>4, WorkerStep DEF x, pc

\* An error either sends the worker to the abort of its sink or ends it.
LEMMA FalterStep ==
    ASSUME IInv, UNCHANGED <<partVars, dest, answered>>, NEW w \in Workers,
           worker[w].pc \notin {"idle", "acquire"}, Falter(w)
    PROVE  IInv'
<1>1. CASE Leave(w)
  BY <1>1, LeaveStep
<1>2. CASE Goto(w, "abort")
  <2>1. worker' = [worker EXCEPT ![w] = Moved(worker[w], "abort", "no")]
    BY <1>2 DEF Goto, Moved, IInv, TypeOK
  <2> QED BY <2>1, MoveStep DEF WorkerPcs
<1> QED BY <1>1, <1>2 DEF Falter

\* A call takes a request and nothing else.
LEMMA CallStep ==
    ASSUME IInv, NEW w \in Workers, NEW u \in Uploads, NEW sel \in Selections, Call(w, u, sel)
    PROVE  IInv'
<1> DEFINE x == [Idle EXCEPT !.pc = "acquire", !.upload = u, !.sel = sel,
                             !.open = ~upload[u].expired]
<1>1. x \in WorkerStates /\ x.pc = "acquire" /\ x.upload = u /\ x.sel = sel
      /\ x.fence = "no" /\ x.read = {}
  <2>1. upload[u].expired \in BOOLEAN
    BY DEF IInv, TypeOK, UploadRows
  <2>2. ASSUME NEW b \in BOOLEAN
        PROVE  [Idle EXCEPT !.pc = "acquire", !.upload = u, !.sel = sel, !.open = b] \in WorkerStates
    BY IdleWorker DEF WorkerStates, WorkerPcs
  <2>3. x \in WorkerStates
    BY <2>1, <2>2
  <2> QED BY <2>3 DEF Idle
<1>2. worker' = [worker EXCEPT ![w] = x] /\ UNCHANGED <<partVars, dest, answered>>
  BY DEF Call
<1> HIDE DEF x
<1>3. WorkerFits(attempt, x, upload[x.upload], dest[x.upload])
  BY <1>1 DEF WorkerFits
<1> QED BY <1>1, <1>2, <1>3, WorkerStep

\* check_completion_lease moves the fence or fails the worker.
LEMMA CheckStep ==
    ASSUME IInv, NEW w \in Workers, Check(w)
    PROVE  IInv'
<1>1. UNCHANGED <<partVars, dest, answered>> /\ worker[w].pc \notin {"idle", "acquire"}
  BY DEF Check, IInv, WorkersHoldParts, Past
<1>2. CASE Falter(w)
  BY <1>1, <1>2, FalterStep
<1>3. CASE worker' = [worker EXCEPT ![w].fence = "yes"]
  <2>1. worker[w] \in WorkerStates
    BY DEF IInv, TypeOK
  <2>2. [worker[w] EXCEPT !.fence = "yes"] = Moved(worker[w], worker[w].pc, "yes")
    BY <2>1 DEF Moved, WorkerStates
  <2>3. worker' = [worker EXCEPT ![w] = Moved(worker[w], worker[w].pc, "yes")]
    BY <1>3, <2>2
  <2> QED BY <1>1, <2>3, FenceStep
<1> QED BY <1>2, <1>3 DEF Check

\* reconcile_existing_direct_completion goes on to record only what it found
\* committed.
LEMMA RecoverStep ==
    ASSUME IInv, NEW w \in Workers, Recover(w)
    PROVE  IInv'
<1>1. UNCHANGED <<partVars, dest, answered>> /\ worker[w].pc = "recover"
  BY DEF Recover, At
<1>2. CASE Goto(w, "begin")
  <2>1. worker' = [worker EXCEPT ![w] = Moved(worker[w], "begin", "no")]
    BY <1>2 DEF Goto, Moved, IInv, TypeOK
  <2> QED BY <1>1, <2>1, MoveStep DEF WorkerPcs
<1>3. CASE Dest(w).state = "committed"
           /\ worker' = [worker EXCEPT ![w].pc = "record", ![w].fence = "renewed"]
  <2>1. worker' = [worker EXCEPT ![w] = Moved(worker[w], "record", "renewed")]
    BY <1>3 DEF Moved, IInv, TypeOK
  <2> QED BY <1>1, <1>3, <2>1, MoveStep DEF WorkerPcs, Dest
<1>4. CASE Leave(w)
  BY <1>1, <1>4, LeaveStep
<1> QED BY <1>2, <1>3, <1>4 DEF Recover

\* Reading moves on to the commit only when every selected part was read.
LEMMA ReadPartStep ==
    ASSUME IInv, NEW w \in Workers, ReadPart(w)
    PROVE  IInv'
<1>1. UNCHANGED <<partVars, dest, answered>> /\ worker[w].pc = "read"
  BY DEF ReadPart, Fenced, At
<1>2. CASE Falter(w)
  BY <1>1, <1>2, FalterStep
<1>3. CASE ~Falter(w)
  <2>1. PICK k \in worker[w].parts \ worker[w].read :
           worker' = [worker EXCEPT ![w].fence = "no", ![w].read = @ \cup {k},
                    ![w].pc = IF worker[w].parts = worker[w].read \cup {k}
                              THEN "commit" ELSE "read"]
    BY <1>3 DEF ReadPart
  <2> DEFINE read == worker[w].read \cup {k}
             pc == IF worker[w].parts = read THEN "commit" ELSE "read"
             x == [worker[w] EXCEPT !.fence = "no", !.read = read, !.pc = pc]
  <2>2. worker[w] \in WorkerStates
    BY DEF IInv, TypeOK
  <2>3. worker' = [worker EXCEPT ![w] = x]
    BY <2>1 DEF IInv, TypeOK
  <2>4. read \in SUBSET Keys /\ read \subseteq worker[w].parts \cup worker[w].read
    BY <2>1, <2>2 DEF WorkerStates
  <2>5. pc \in {"read", "commit"} /\ (pc = "commit" => worker[w].parts = read)
    OBVIOUS
  <2> HIDE DEF read, pc
  <2>6. /\ x \in WorkerStates /\ x.pc = pc /\ x.fence = "no" /\ x.upload = worker[w].upload
        /\ x.sel = worker[w].sel /\ x.parts = worker[w].parts /\ x.read = read
    BY <2>2, <2>4, <2>5 DEF WorkerStates, WorkerPcs
  <2>7. WorkerFits(attempt, worker[w], upload[worker[w].upload], dest[worker[w].upload])
    BY InvariantFits DEF IInv
  <2> HIDE DEF x
  <2>8. WorkerFits(attempt, x, upload[x.upload], dest[x.upload])
    BY <1>1, <2>4, <2>5, <2>6, <2>7 DEF WorkerFits
  <2> QED BY <1>1, <2>3, <2>6, <2>8, WorkerStep
<1> QED BY <1>2, <1>3

\* A committed destination stays committed until its result is recorded.
LEMMA SettleStep ==
    ASSUME IInv, NEW w \in Workers, Settle(w)
    PROVE  IInv'
<1>1. UNCHANGED <<partVars, dest, answered>> /\ worker[w].pc = "settle"
  BY DEF Settle, Fenced, At
<1>2. worker' = [worker EXCEPT ![w] = Moved(worker[w], "record", "renewed")]
  BY DEF Settle, Moved, IInv, TypeOK
<1>3. dest[worker[w].upload].state = "committed"
  BY <1>1 DEF IInv, WorkersHoldParts, Dest
<1> QED BY <1>1, <1>2, <1>3, MoveStep DEF WorkerPcs

\* Refuse, Fail and Drop end a worker or send it to its abort.
LEMMA EndSteps ==
    ASSUME IInv, NEW w \in Workers, Refuse(w) \/ Fail(w) \/ Drop(w)
    PROVE  IInv'
<1>1. CASE Refuse(w) \/ Drop(w)
  BY <1>1, LeaveStep DEF Refuse, Drop
<1>2. CASE Fail(w)
  BY <1>2, FalterStep DEF Fail
<1> QED BY <1>1, <1>2

\* A step that writes the row, the destination or the answers of one upload.
LEMMA OneUploadStep ==
    ASSUME IInv, UNCHANGED <<attempt, quota, artifact, request, maker, deleted, orphans, scan,
                             reaping, retiring>>,
           doomed' \subseteq Keys,
           NEW u \in Uploads, NEW row, NEW d, NEW a,
           upload' = [upload EXCEPT ![u] = row], row \in UploadRows,
           dest' = [dest EXCEPT ![u] = d], d \in Dests,
           answered' = [answered EXCEPT ![u] = a], a \in SUBSET SUBSET Keys,
           row = upload[u] \/ RowMoves(upload[u], row),
           DestMoves(dest[u], d),
           UploadFits(attempt, u, row, d, a),
           worker' \in [Workers -> WorkerStates],
           \A w \in Workers :
              \/ worker'[w] = worker[w]
              \/ WorkerFits(attempt, worker'[w], upload'[worker'[w].upload],
                            dest'[worker'[w].upload])
    PROVE  IInv'
<1>1. TypeOK
  BY DEF IInv
<1>2. \A v \in Uploads :
         /\ upload'[v] = IF v = u THEN row ELSE upload[v]
         /\ dest'[v] = IF v = u THEN d ELSE dest[v]
         /\ answered'[v] = IF v = u THEN a ELSE answered[v]
  BY <1>1 DEF TypeOK
<1>3. TypeOK'
  <2>1. /\ upload' \in [Uploads -> UploadRows] /\ dest' \in [Uploads -> Dests]
        /\ answered' \in [Uploads -> SUBSET SUBSET Keys]
    BY <1>1 DEF TypeOK
  <2> QED BY <1>1, <2>1 DEF TypeOK
<1>4. \A v \in Uploads : upload'[v] = upload[v] \/ RowMoves(upload[v], upload'[v])
  BY <1>2
<1>5. \A v \in Uploads : DestMoves(dest[v], dest'[v])
  BY <1>2 DEF DestMoves
<1>6. \A v \in Uploads :
         \/ upload'[v] = upload[v] /\ dest'[v] = dest[v] /\ answered'[v] = answered[v]
         \/ UploadFits(attempt, v, upload'[v], dest'[v], answered'[v])
  BY <1>2
<1> QED BY <1>3, <1>4, <1>5, <1>6, CompletionStep

\* Facts every step below starts from.
LEMMA Facts ==
    ASSUME IInv
    PROVE  /\ \A u \in Uploads : /\ upload[u] \in UploadRows /\ dest[u] \in Dests
                                 /\ answered[u] \in SUBSET SUBSET Keys
                                 /\ UploadFits(attempt, u, upload[u], dest[u], answered[u])
                                 /\ upload[u].life = "COMPLETED" => upload[u].result # {}
                                 /\ upload = [upload EXCEPT ![u] = upload[u]]
                                 /\ dest = [dest EXCEPT ![u] = dest[u]]
                                 /\ answered = [answered EXCEPT ![u] = answered[u]]
           /\ \A w \in Workers :
                 /\ worker[w] \in WorkerStates
                 /\ WorkerFits(attempt, worker[w], upload[worker[w].upload],
                               dest[worker[w].upload])
           /\ worker \in [Workers -> WorkerStates] /\ Idle \in WorkerStates
           /\ doomed \subseteq Keys
<1>1. TypeOK /\ UploadsProgress /\ WorkersHoldParts /\ DestFollowsLease /\ ResultIsObject
  BY DEF IInv
<1>2. \A u \in Uploads : /\ upload[u] \in UploadRows /\ dest[u] \in Dests
                         /\ answered[u] \in SUBSET SUBSET Keys
                         /\ upload = [upload EXCEPT ![u] = upload[u]]
                         /\ dest = [dest EXCEPT ![u] = dest[u]]
                         /\ answered = [answered EXCEPT ![u] = answered[u]]
  BY <1>1 DEF TypeOK
<1>3. worker \in [Workers -> WorkerStates] /\ doomed \subseteq Keys
  BY <1>1 DEF TypeOK
<1>4. \A u \in Uploads : upload[u].life = "COMPLETED" => upload[u].result # {}
  BY <1>1 DEF UploadsProgress
<1> QED BY <1>1, <1>2, <1>3, <1>4, InvariantFits, IdleWorker

\* Only the lease of a row changes: LapseLease and the renewal.
LeaseRow(r, lease) == [r EXCEPT !.lease = lease]

\* Writing the lease leaves the rest of the row alone.
LEMMA LeaseRowMoves ==
    ASSUME NEW r \in UploadRows, NEW lease \in {"none", "live", "lapsed"},
           r.life = "COMPLETED" => r.result # {}
    PROVE  /\ LeaseRow(r, lease) \in UploadRows
           /\ RowMoves(r, LeaseRow(r, lease))
           /\ LeaseRow(r, lease).print = r.print /\ LeaseRow(r, lease).result = r.result
           /\ LeaseRow(r, lease).life = r.life
  BY DEF LeaseRow, UploadRows, RowMoves, BegunRow, Terminal

\* A row with the same lifecycle, request and result fits what it fitted.
LEMMA FitsLikeBefore ==
    ASSUME NEW rows, NEW u, NEW r, NEW q, NEW d, NEW a, NEW x,
           q.life = r.life, q.print = r.print, q.result = r.result
    PROVE  /\ UploadFits(rows, u, r, d, a) => UploadFits(rows, u, q, d, a)
           /\ WorkerFits(rows, x, r, d) => WorkerFits(rows, x, q, d)
  BY DEF UploadFits, WorkerFits, BegunRow

\* A lapsed lease takes nothing from its worker but the right to go on.
LEMMA LapseStep ==
    ASSUME IInv, NEW u \in Uploads, LapseLease(u)
    PROVE  IInv'
<1> DEFINE row == LeaseRow(upload[u], "lapsed")
<1>1. /\ upload' = [upload EXCEPT ![u] = row]
      /\ UNCHANGED <<attempt, quota, artifact, request, maker, doomed, deleted, orphans, scan,
                     reaping, retiring, worker, dest, answered>>
  BY DEF LapseLease, cleaners, LeaseRow
<1>2. /\ row \in UploadRows /\ RowMoves(upload[u], row)
      /\ row.print = upload[u].print /\ row.result = upload[u].result
      /\ row.life = upload[u].life
  BY Facts, LeaseRowMoves
<1> HIDE DEF row
<1>3. UploadFits(attempt, u, row, dest[u], answered[u])
  BY <1>2, Facts, FitsLikeBefore
<1>4. /\ dest' = [dest EXCEPT ![u] = dest[u]] /\ dest[u] \in Dests
      /\ answered' = [answered EXCEPT ![u] = answered[u]]
      /\ answered[u] \in SUBSET SUBSET Keys
      /\ worker' \in [Workers -> WorkerStates] /\ doomed' \subseteq Keys
      /\ DestMoves(dest[u], dest[u])
  BY <1>1, Facts DEF DestMoves
<1> QED BY <1>1, <1>2, <1>3, <1>4, OneUploadStep

\* A worker that is past acquisition has an upload.
LEMMA PastUpload ==
    ASSUME IInv, NEW w \in Workers, worker[w].pc # "idle"
    PROVE  worker[w].upload \in Uploads
  BY Facts DEF WorkerFits

\* renew_completion writes the lease and the fence of its worker, or ends it.
LEMMA RenewStep ==
    ASSUME IInv, NEW w \in Workers, Renew(w)
    PROVE  IInv'
<1>1. CASE UNCHANGED upload /\ Leave(w)
  BY <1>1, LeaveStep DEF Renew, cleaners, partVars
<1>2. CASE ~(UNCHANGED upload /\ Leave(w))
  <2> DEFINE u == worker[w].upload
             row == LeaseRow(upload[u], "live")
             pc == worker[w].pc
             x == Moved(worker[w], pc, "renewed")
  <2>1. u \in Uploads /\ pc \in WorkerPcs /\ pc \notin {"idle", "acquire"}
    BY PastUpload DEF Renew, WorkerPcs
  <2>2. /\ upload' = [upload EXCEPT ![u] = row]
        /\ worker' = [worker EXCEPT ![w].fence = "renewed"]
        /\ UNCHANGED <<attempt, quota, artifact, request, maker, doomed, deleted, orphans, scan,
                       reaping, retiring, dest, answered>>
    BY <1>2 DEF Renew, cleaners, LeaseRow
  <2>3. worker' = [worker EXCEPT ![w] = x]
    <3>1. worker[w] \in WorkerStates
      BY Facts
    <3>2. [worker[w] EXCEPT !.fence = "renewed"] = x
      BY <3>1 DEF Moved, WorkerStates
    <3> QED BY <2>2, <3>2
  <2>4. /\ row \in UploadRows /\ RowMoves(upload[u], row)
        /\ row.print = upload[u].print /\ row.result = upload[u].result
        /\ row.life = upload[u].life
    BY <2>1, Facts, LeaseRowMoves
  <2> HIDE DEF pc
  <2>5. /\ x \in WorkerStates /\ x.pc = pc /\ x.upload = u
        /\ x.sel = worker[w].sel /\ x.parts = worker[w].parts /\ x.read = worker[w].read
    BY <2>1, Facts, MovedWorker
  <2> HIDE DEF row, x
  <2>6. /\ WorkerFits(attempt, worker[w], row, dest[u])
        /\ UploadFits(attempt, u, row, dest[u], answered[u])
    <3>1. /\ WorkerFits(attempt, worker[w], upload[u], dest[u])
          /\ UploadFits(attempt, u, upload[u], dest[u], answered[u])
      BY <2>1, Facts
    <3> QED BY <2>4, <3>1, FitsLikeBefore
  <2>7. WorkerFits(attempt, x, row, dest[u])
    BY <2>1, <2>5, <2>6 DEF WorkerFits, pc
  <2>8. upload'[u] = row /\ dest' = dest
    BY <2>1, <2>2 DEF IInv, TypeOK
  <2>9. /\ worker' \in [Workers -> WorkerStates]
        /\ \A v \in Workers :
              \/ worker'[v] = worker[v]
              \/ WorkerFits(attempt, worker'[v], upload'[worker'[v].upload],
                            dest'[worker'[v].upload])
    <3>1. \A v \in Workers : worker'[v] = IF v = w THEN x ELSE worker[v]
      BY <2>3, Facts
    <3>2. worker' \in [Workers -> WorkerStates]
      BY <2>3, <2>5, Facts
    <3> QED BY <2>5, <2>7, <2>8, <3>1, <3>2
  <2>10. /\ dest' = [dest EXCEPT ![u] = dest[u]] /\ dest[u] \in Dests
         /\ answered' = [answered EXCEPT ![u] = answered[u]]
         /\ answered[u] \in SUBSET SUBSET Keys /\ doomed' \subseteq Keys
         /\ DestMoves(dest[u], dest[u])
    BY <2>1, <2>2, Facts DEF DestMoves
  <2> HIDE DEF u
  <2> QED BY <2>1, <2>2, <2>4, <2>6, <2>9, <2>10, OneUploadStep
<1> QED BY <1>1, <1>2

\* The attempts a valid request selects answer it: there is one, as the
\* request names a part, and a part has one current attempt.
LEMMA SelectedAnswers ==
    ASSUME RequestsOwnRows, NEW u, NEW sel \in Selections, Valid(u, sel)
    PROVE  AnswersIn(attempt, u, Selected(u, sel), sel)
<1>1. DOMAIN sel # {}
  BY DEF Selections
<1>2. Selected(u, sel) # {}
  BY <1>1 DEF Valid
<1>3. \A k \in Selected(u, sel) :
         /\ k \in Keys /\ attempt[k].state = "CURRENT" /\ attempt[k].upload = u
         /\ attempt[k].part \in DOMAIN sel /\ attempt[k].etag = sel[attempt[k].part]
  BY DEF Selected, CurrentOf
<1>4. \A k, j \in Selected(u, sel) : attempt[k].part = attempt[j].part => k = j
  BY <1>3 DEF RequestsOwnRows
<1> QED BY <1>2, <1>3, <1>4 DEF AnswersIn, Valid

\* The row of an acquired lease.
AcquiredRow(r, sel) ==
    [r EXCEPT !.life = "COMPLETING", !.print = sel, !.lease = "live", !.token = @ + 1]

\* acquire_completion writes the state, the request, the lease and the token.
LEMMA AcquiredRowTyped ==
    ASSUME NEW r \in UploadRows, NEW sel \in Selections, r.token < MaxToken
    PROVE  /\ AcquiredRow(r, sel) \in UploadRows
           /\ AcquiredRow(r, sel).life = "COMPLETING" /\ AcquiredRow(r, sel).print = sel
           /\ AcquiredRow(r, sel).result = r.result
           /\ AcquiredRow(r, sel).staged = r.staged /\ AcquiredRow(r, sel).reserved = r.reserved
<1>1. r.token + 1 \in 0..MaxToken
  BY StagedCompletionAssumption DEF UploadRows
<1>2. ASSUME NEW t \in 0..MaxToken
      PROVE  [r EXCEPT !.life = "COMPLETING", !.print = sel, !.lease = "live", !.token = t]
                \in UploadRows
  BY DEF UploadRows, Lifecycles
<1>3. AcquiredRow(r, sel) \in UploadRows
  BY <1>1, <1>2 DEF AcquiredRow
<1> QED BY <1>3 DEF AcquiredRow, UploadRows

\* The worker that acquired it.
AcquiredWorker(x, t, parts, all) ==
    [x EXCEPT !.pc = "recover", !.token = t, !.parts = parts, !.all = all]

\* The acquiring worker keeps its request and takes the parts it selects.
LEMMA AcquiredWorkerTyped ==
    ASSUME NEW x \in WorkerStates, NEW t \in 0..MaxToken,
           NEW parts \in SUBSET Keys, NEW all \in SUBSET Keys
    PROVE  /\ AcquiredWorker(x, t, parts, all) \in WorkerStates
           /\ AcquiredWorker(x, t, parts, all).pc = "recover"
           /\ AcquiredWorker(x, t, parts, all).upload = x.upload
           /\ AcquiredWorker(x, t, parts, all).sel = x.sel
           /\ AcquiredWorker(x, t, parts, all).parts = parts
           /\ AcquiredWorker(x, t, parts, all).read = x.read
  BY DEF AcquiredWorker, WorkerStates, WorkerPcs

\* An acquisition keeps the request of an earlier one, and gives its worker the
\* parts that request selects.
LEMMA AcquireStep ==
    ASSUME IInv, NEW w \in Workers, Acquire(w)
    PROVE  IInv'
<1> DEFINE u == worker[w].upload
           sel == worker[w].sel
           row == AcquiredRow(upload[u], sel)
           parts == Selected(u, sel)
           all == CurrentOf(u)
           t == upload[u].token + 1
           x == AcquiredWorker(worker[w], t, parts, all)
<1>1. /\ worker[w].pc = "acquire" /\ upload[u].token < MaxToken
      /\ \/ upload[u].life = "OPEN"
         \/ upload[u].life = "COMPLETING" /\ upload[u].print = sel
      /\ Valid(u, sel)
      /\ UNCHANGED <<attempt, quota, artifact, request, maker, doomed, deleted, orphans, scan,
                     reaping, retiring, dest, answered>>
  BY DEF Acquire, Acquirable, At, Row, cleaners
<1>2. u \in Uploads /\ sel \in Selections /\ worker[w].read = {}
  BY <1>1, Facts DEF WorkerFits
<1>3. upload' = [upload EXCEPT ![u] = row]
  BY DEF Acquire, AcquiredRow
<1>4. worker' = [worker EXCEPT ![w] = x]
  BY DEF Acquire, AcquiredWorker, Row
<1>5. t \in 0..MaxToken /\ parts \in SUBSET Keys /\ all \in SUBSET Keys
  <2>1. upload[u].token \in 0..MaxToken
    BY <1>2, Facts DEF UploadRows
  <2>2. parts \in SUBSET Keys /\ all \in SUBSET Keys
    BY DEF Selected, CurrentOf
  <2> QED BY <1>1, <2>1, <2>2, StagedCompletionAssumption
<1> HIDE DEF t, all
<1>6. AnswersIn(attempt, u, parts, sel)
  BY <1>1, <1>2, SelectedAnswers DEF IInv
<1> HIDE DEF parts
<1>7. /\ row \in UploadRows /\ row.life = "COMPLETING" /\ row.print = sel
      /\ row.result = upload[u].result
      /\ row.staged = upload[u].staged /\ row.reserved = upload[u].reserved
  BY <1>1, <1>2, Facts, AcquiredRowTyped
<1>8. /\ x \in WorkerStates /\ x.pc = "recover" /\ x.upload = u /\ x.sel = sel
      /\ x.parts = parts /\ x.read = {}
  BY <1>2, <1>5, Facts, AcquiredWorkerTyped
<1> HIDE DEF row, x
<1>9. RowMoves(upload[u], row)
  BY <1>1, <1>7 DEF RowMoves, BegunRow, Terminal
<1>10. UploadFits(attempt, u, row, dest[u], answered[u])
  <2>1. UploadFits(attempt, u, upload[u], dest[u], answered[u])
    BY <1>2, Facts
  <2>2. BegunRow(row) /\ (BegunRow(upload[u]) => row.print = upload[u].print)
    BY <1>1, <1>7 DEF BegunRow
  <2> QED BY <1>7, <2>1, <2>2 DEF UploadFits
<1>11. WorkerFits(attempt, x, row, dest[u])
  BY <1>2, <1>6, <1>7, <1>8 DEF WorkerFits, BegunRow
<1>12. upload'[u] = row /\ dest' = dest
  BY <1>1, <1>2, <1>3 DEF IInv, TypeOK
<1>13. /\ worker' \in [Workers -> WorkerStates]
       /\ \A v \in Workers :
             \/ worker'[v] = worker[v]
             \/ WorkerFits(attempt, worker'[v], upload'[worker'[v].upload],
                           dest'[worker'[v].upload])
  <2>1. \A v \in Workers : worker'[v] = IF v = w THEN x ELSE worker[v]
    BY <1>4, Facts
  <2>2. worker' \in [Workers -> WorkerStates]
    BY <1>4, <1>8, Facts
  <2> QED BY <1>8, <1>11, <1>12, <2>1, <2>2
<1>14. /\ dest' = [dest EXCEPT ![u] = dest[u]] /\ dest[u] \in Dests
       /\ answered' = [answered EXCEPT ![u] = answered[u]]
       /\ answered[u] \in SUBSET SUBSET Keys /\ doomed' \subseteq Keys
       /\ DestMoves(dest[u], dest[u])
  BY <1>1, <1>2, Facts DEF DestMoves
<1> HIDE DEF u, sel
<1> QED BY <1>1, <1>2, <1>3, <1>7, <1>9, <1>10, <1>13, <1>14, OneUploadStep

\* When a worker leaves, the workers are typed and fit.
LEMMA LeaveFits ==
    ASSUME IInv, NEW w \in Workers, Leave(w)
    PROVE  /\ worker' \in [Workers -> WorkerStates]
           /\ \A v \in Workers :
                 \/ worker'[v] = worker[v]
                 \/ WorkerFits(attempt, worker'[v], upload'[worker'[v].upload],
                               dest'[worker'[v].upload])
<1>1. \A v \in Workers : worker'[v] = IF v = w THEN Idle ELSE worker[v]
  BY Facts DEF Leave
<1>2. worker' \in [Workers -> WorkerStates]
  BY Facts DEF Leave
<1> QED BY <1>1, <1>2, IdleWorker

\* The stored result of a completed upload is its object's.
LEMMA ReplayStep ==
    ASSUME IInv, NEW w \in Workers, Replay(w)
    PROVE  IInv'
<1> DEFINE u == worker[w].upload
           a == answered[u] \cup {upload[u].result}
<1>1. /\ worker[w].pc = "acquire" /\ upload[u].life = "COMPLETED" /\ Leave(w)
      /\ answered' = [answered EXCEPT ![u] = a]
      /\ UNCHANGED <<upload, attempt, quota, artifact, request, maker, doomed, deleted, orphans, scan,
                     reaping, retiring, dest>>
  BY DEF Replay, At, Row, partVars
<1>2. u \in Uploads
  BY <1>1, PastUpload
<1>3. a \in SUBSET SUBSET Keys
  BY <1>2, Facts DEF UploadRows
<1>4. UploadFits(attempt, u, upload[u], dest[u], a)
  <2>1. /\ UploadFits(attempt, u, upload[u], dest[u], answered[u])
        /\ upload[u].result # {}
    BY <1>1, <1>2, Facts
  <2> QED BY <2>1 DEF UploadFits
<1> HIDE DEF a
<1>5. /\ upload' = [upload EXCEPT ![u] = upload[u]] /\ upload[u] \in UploadRows
      /\ dest' = [dest EXCEPT ![u] = dest[u]] /\ dest[u] \in Dests
      /\ doomed' \subseteq Keys /\ DestMoves(dest[u], dest[u])
  BY <1>1, <1>2, Facts DEF DestMoves
<1> HIDE DEF u
<1> QED BY <1>1, <1>2, <1>3, <1>4, <1>5, LeaveFits, OneUploadStep

\* The row of a completed upload.
CompletedRow(r, result) ==
    [r EXCEPT !.life = "COMPLETED", !.lease = "none", !.result = result]

\* complete_completion writes the state, the lease and the result.
LEMMA CompletedRowTyped ==
    ASSUME NEW r \in UploadRows, NEW result \in SUBSET Keys
    PROVE  /\ CompletedRow(r, result) \in UploadRows
           /\ CompletedRow(r, result).life = "COMPLETED"
           /\ CompletedRow(r, result).print = r.print
           /\ CompletedRow(r, result).result = result
           /\ CompletedRow(r, result).staged = r.staged
           /\ CompletedRow(r, result).reserved = r.reserved
  BY DEF CompletedRow, UploadRows, Lifecycles, Terminal

\* The worker that records a result finds the operation committed, whoever
\* wrote it, so what it records is the object.
LEMMA RecordStep ==
    ASSUME IInv, NEW w \in Workers, Record(w)
    PROVE  IInv'
<1> DEFINE u == worker[w].upload
           result == dest[u].parts
           row == CompletedRow(upload[u], result)
           a == answered[u] \cup {result}
<1>1. CASE ~Holds(w)
  BY <1>1, LeaveStep DEF Record, partVars
<1>2. CASE Holds(w)
  <2>1. /\ worker[w].pc = "record" /\ upload[u].life = "COMPLETING" /\ Leave(w)
        /\ answered' = [answered EXCEPT ![u] = a]
        /\ upload' = [upload EXCEPT ![u] = row]
        /\ doomed' = doomed \cup worker[w].all
        /\ UNCHANGED <<attempt, quota, artifact, request, maker, deleted, orphans, scan,
                       reaping, retiring, dest>>
    BY <1>2 DEF Record, Fenced, At, Holds, Row, Dest, CompletedRow
  <2>2. u \in Uploads
    BY <2>1, PastUpload
  <2>3. dest[u].state = "committed" /\ result \in SUBSET Keys /\ result # {}
    <3>1. dest[u].state = "committed"
      BY <2>1, Facts DEF WorkerFits
    <3>2. dest[u] \in Dests /\ UploadFits(attempt, u, upload[u], dest[u], answered[u])
      BY <2>2, Facts
    <3> QED BY <3>1, <3>2 DEF UploadFits, AnswersIn, Dests
  <2>4. a \in SUBSET SUBSET Keys
    BY <2>2, <2>3, Facts
  <2>5. /\ row \in UploadRows /\ row.life = "COMPLETED" /\ row.print = upload[u].print
        /\ row.result = result
        /\ row.staged = upload[u].staged /\ row.reserved = upload[u].reserved
    BY <2>2, <2>3, Facts, CompletedRowTyped
  <2> HIDE DEF row
  <2>6. RowMoves(upload[u], row)
    BY <2>1, <2>3, <2>5 DEF RowMoves, BegunRow, Terminal
  <2>7. UploadFits(attempt, u, row, dest[u], a)
    <3>1. UploadFits(attempt, u, upload[u], dest[u], answered[u])
      BY <2>2, Facts
    <3> QED BY <2>3, <2>5, <3>1 DEF UploadFits, BegunRow
  <2>8. /\ dest' = [dest EXCEPT ![u] = dest[u]] /\ dest[u] \in Dests
        /\ doomed' \subseteq Keys /\ DestMoves(dest[u], dest[u])
    BY <2>1, <2>2, Facts DEF DestMoves, WorkerStates
  <2> HIDE DEF u, a, result
  <2> QED BY <2>1, <2>2, <2>4, <2>5, <2>6, <2>7, <2>8, LeaveFits, OneUploadStep
<1> QED BY <1>1, <1>2

\* A step that writes one destination and at most one worker.
LEMMA DestStep ==
    ASSUME IInv, UNCHANGED <<partVars, answered>>, NEW u \in Uploads, NEW d,
           dest' = [dest EXCEPT ![u] = d], d \in Dests, dest[u].state # "committed",
           d.state # "none" => BegunRow(upload[u]),
           d.state \in {"unknown", "committed"} =>
               AnswersIn(attempt, u, d.parts, upload[u].print),
           worker' \in [Workers -> WorkerStates],
           \A w \in Workers :
              \/ worker'[w] = worker[w]
              \/ WorkerFits(attempt, worker'[w], upload'[worker'[w].upload],
                            dest'[worker'[w].upload])
    PROVE  IInv'
<1>1. UNCHANGED <<upload, attempt, quota, artifact, request, maker, doomed, deleted, orphans, scan,
                  reaping, retiring>>
  BY DEF partVars
<1>2. UploadFits(attempt, u, upload[u], d, answered[u])
  <2>1. UploadFits(attempt, u, upload[u], dest[u], answered[u])
    BY Facts
  <2> QED BY <2>1 DEF UploadFits
<1>3. DestMoves(dest[u], d)
  BY DEF DestMoves
<1>4. /\ upload' = [upload EXCEPT ![u] = upload[u]] /\ upload[u] \in UploadRows
      /\ answered' = [answered EXCEPT ![u] = answered[u]]
      /\ answered[u] \in SUBSET SUBSET Keys /\ doomed' \subseteq Keys
  BY <1>1, Facts
<1> QED BY <1>1, <1>2, <1>3, <1>4, OneUploadStep

\* A destination settled as s.
SettledDest(d, s) == [d EXCEPT !.state = s]

\* Settling a destination keeps what was written.
LEMMA SettledDestTyped ==
    ASSUME NEW d \in Dests, NEW s \in {"committed", "aborted"}
    PROVE  SettledDest(d, s) \in Dests /\ SettledDest(d, s).state = s
           /\ SettledDest(d, s).parts = d.parts
  BY DEF SettledDest, Dests

\* Reconciliation commits only what a worker with all its parts left unknown.
LEMMA ResolveStep ==
    ASSUME IInv, NEW u \in Uploads, ResolveDest(u)
    PROVE  IInv'
<1>1. PICK s \in {"committed", "aborted"} :
         /\ dest' = [dest EXCEPT ![u] = SettledDest(dest[u], s)]
         /\ dest[u].state = "unknown" \/ (dest[u].state = "open" /\ s = "aborted")
         /\ UNCHANGED <<partVars, worker, answered>>
  BY DEF ResolveDest, SettledDest
<1> DEFINE d == SettledDest(dest[u], s)
<1>2. d \in Dests /\ d.state = s /\ d.parts = dest[u].parts
  BY Facts, SettledDestTyped
<1>3. UploadFits(attempt, u, upload[u], dest[u], answered[u])
  BY Facts
<1> HIDE DEF d
<1>4. BegunRow(upload[u]) /\ (s = "committed" => AnswersIn(attempt, u, d.parts, upload[u].print))
  BY <1>1, <1>2, <1>3 DEF UploadFits
<1>5. worker' \in [Workers -> WorkerStates]
  BY <1>1, Facts
<1> QED BY <1>1, <1>2, <1>4, <1>5, DestStep DEF d

\* Aborting touches only a destination that is still open.
LEMMA AbortSinkStep ==
    ASSUME IInv, NEW w \in Workers, AbortSink(w)
    PROVE  IInv'
<1> DEFINE u == worker[w].upload
           d == SettledDest(dest[u], "aborted")
<1>1. worker[w].pc = "abort" /\ Leave(w) /\ UNCHANGED <<partVars, answered>>
  BY DEF AbortSink, Fenced, At
<1>2. CASE UNCHANGED dest
  BY <1>1, <1>2, LeaveStep
<1>3. CASE dest[u].state = "open" /\ dest' = [dest EXCEPT ![u] = d]
  <2>1. u \in Uploads
    BY <1>1, PastUpload
  <2>2. d \in Dests /\ d.state = "aborted"
    BY <2>1, Facts, SettledDestTyped
  <2>3. BegunRow(upload[u])
    BY <1>1, Facts DEF WorkerFits
  <2> HIDE DEF u, d
  <2> QED BY <1>1, <1>3, <2>1, <2>2, <2>3, LeaveFits, DestStep
<1> QED BY <1>2, <1>3 DEF AbortSink, Dest, SettledDest

\* A sink is opened only for an upload whose lease was acquired.
LEMMA BeginSinkStep ==
    ASSUME IInv, NEW w \in Workers, BeginSink(w)
    PROVE  IInv'
<1> DEFINE u == worker[w].upload
           d == [state |-> "open", by |-> w, parts |-> {}]
           x == Moved(worker[w], "read", "no")
<1>1. worker[w].pc = "begin" /\ UNCHANGED <<partVars, answered>>
  BY DEF BeginSink, Fenced, At
<1>2. CASE UNCHANGED dest /\ Leave(w)
  BY <1>1, <1>2, LeaveStep
<1>3. CASE dest[u].state = "none" /\ dest' = [dest EXCEPT ![u] = d] /\ Goto(w, "read")
  <2>1. u \in Uploads
    BY <1>1, PastUpload
  <2>2. d \in Dests /\ d.state = "open"
    BY DEF Dests
  <2>3. WorkerFits(attempt, worker[w], upload[u], dest[u])
    BY Facts
  <2>4. worker' = [worker EXCEPT ![w] = x]
    BY <1>3 DEF Goto, Moved, IInv, TypeOK
  <2>5. /\ x \in WorkerStates /\ x.pc = "read" /\ x.upload = u
        /\ x.sel = worker[w].sel /\ x.parts = worker[w].parts /\ x.read = worker[w].read
    BY Facts, MovedWorker DEF WorkerPcs
  <2> HIDE DEF x, d
  <2>6. BegunRow(upload[u]) /\ \A e : WorkerFits(attempt, x, upload[u], e)
    BY <1>1, <2>3, <2>5 DEF WorkerFits
  <2>7. upload' = upload
    BY <1>1 DEF partVars
  <2>8. /\ worker' \in [Workers -> WorkerStates]
        /\ \A v \in Workers :
              \/ worker'[v] = worker[v]
              \/ WorkerFits(attempt, worker'[v], upload'[worker'[v].upload],
                            dest'[worker'[v].upload])
    <3>1. \A v \in Workers : worker'[v] = IF v = w THEN x ELSE worker[v]
      BY <2>4, Facts
    <3>2. worker' \in [Workers -> WorkerStates]
      BY <2>4, <2>5, Facts
    <3> QED BY <2>5, <2>6, <2>7, <3>1, <3>2
  <2> HIDE DEF u
  <2> QED BY <1>1, <1>3, <2>1, <2>2, <2>6, <2>8, DestStep
<1> QED BY <1>2, <1>3 DEF BeginSink, Dest

\* A destination written from parts, with outcome s.
WrittenDest(d, s, parts) == [d EXCEPT !.state = s, !.parts = parts]

\* Writing a destination sets its outcome and its parts.
LEMMA WrittenDestTyped ==
    ASSUME NEW d \in Dests, NEW s \in {"committed", "unknown"}, NEW parts \in SUBSET Keys
    PROVE  /\ WrittenDest(d, s, parts) \in Dests /\ WrittenDest(d, s, parts).state = s
           /\ WrittenDest(d, s, parts).parts = parts
  BY DEF WrittenDest, Dests

\* A worker commits what it read, which is what its request selects.
LEMMA CommitSinkStep ==
    ASSUME IInv, NEW w \in Workers, CommitSink(w)
    PROVE  IInv'
<1> DEFINE u == worker[w].upload
           x == Moved(worker[w], "settle", "no")
<1>1. worker[w].pc = "commit" /\ UNCHANGED <<partVars, answered>>
  BY DEF CommitSink, Fenced, At
<1>2. CASE UNCHANGED dest /\ Leave(w)
  BY <1>1, <1>2, LeaveStep
<1>3. CASE ~(UNCHANGED dest /\ Leave(w))
  <2>1. PICK s \in {"committed", "unknown"} :
           /\ dest[u].state = "open"
           /\ dest' = [dest EXCEPT ![u] = WrittenDest(dest[u], s, worker[w].read)]
           /\ IF s = "committed" THEN Goto(w, "settle") ELSE Leave(w)
    BY <1>3 DEF CommitSink, Dest, WrittenDest
  <2> DEFINE d == WrittenDest(dest[u], s, worker[w].read)
  <2>2. u \in Uploads
    BY <1>1, PastUpload
  <2>3. d \in Dests /\ d.state = s /\ d.parts = worker[w].read
    BY <2>2, Facts, WrittenDestTyped DEF WorkerStates
  <2>4. WorkerFits(attempt, worker[w], upload[u], dest[u])
    BY Facts
  <2> HIDE DEF d
  <2>5. BegunRow(upload[u]) /\ AnswersIn(attempt, u, d.parts, upload[u].print)
    BY <1>1, <2>3, <2>4 DEF WorkerFits
  <2>6. /\ worker' \in [Workers -> WorkerStates]
        /\ \A v \in Workers :
              \/ worker'[v] = worker[v]
              \/ WorkerFits(attempt, worker'[v], upload'[worker'[v].upload],
                            dest'[worker'[v].upload])
    <3>1. CASE Leave(w)
      BY <3>1, LeaveFits
    <3>2. CASE s = "committed" /\ Goto(w, "settle")
      <4>1. worker' = [worker EXCEPT ![w] = x]
        BY <3>2 DEF Goto, Moved, IInv, TypeOK
      <4>2. /\ x \in WorkerStates /\ x.pc = "settle" /\ x.upload = u
            /\ x.sel = worker[w].sel /\ x.parts = worker[w].parts /\ x.read = worker[w].read
        BY Facts, MovedWorker DEF WorkerPcs
      <4> HIDE DEF x
      <4>3. WorkerFits(attempt, x, upload[u], d)
        BY <1>1, <2>3, <2>4, <3>2, <4>2 DEF WorkerFits
      <4>4. upload' = upload /\ dest'[u] = d
        BY <1>1, <2>1, <2>2 DEF partVars, d, IInv, TypeOK
      <4>5. \A v \in Workers : worker'[v] = IF v = w THEN x ELSE worker[v]
        BY <4>1, Facts
      <4>6. worker' \in [Workers -> WorkerStates]
        BY <4>1, <4>2, Facts
      <4> QED BY <4>2, <4>3, <4>4, <4>5, <4>6
    <3> QED BY <2>1, <3>1, <3>2
  <2>7. dest' = [dest EXCEPT ![u] = d]
    BY <2>1 DEF d
  <2> HIDE DEF u
  <2> QED BY <1>1, <2>1, <2>2, <2>3, <2>5, <2>6, <2>7, DestStep
<1> QED BY <1>2, <1>3

-----------------------------------------------------------------------------
(* The invariant and what follows from it.                                  *)

\* The invariant holds initially.
LEMMA InitEstablishes ==
    Init => IInv
<1> SUFFICES ASSUME Init PROVE IInv
  OBVIOUS
<1> USE DEF Init, PartsInit
<1>1. NewUpload \in UploadRows /\ NewUpload.life = "none" /\ NewUpload.result = {}
      /\ NewUpload.staged = 0 /\ NewUpload.reserved = 0
  BY StagedCompletionAssumption DEF NewUpload, UploadRows, Lifecycles, Amounts
<1>2. NoAttempt \in AttemptRows /\ NoAttempt.state = "none"
  BY DEF NoAttempt, AttemptRows, AttemptStates, Amounts
<1>3. NoDest \in Dests /\ NoDest.state = "none"
  BY DEF NoDest, Dests
<1>4. Idle.pc = "idle" /\ Idle.fence = "no" /\ Idle.read = {}
  BY DEF Idle
<1> HIDE DEF Init, PartsInit
<1>5. TypeOK
  <2>1. scan \in [on : BOOLEAN, unknown : SUBSET Keys, fresh : SUBSET Keys]
    BY DEF Init, PartsInit, NoScan
  <2> QED BY <1>1, <1>2, <1>3, <2>1, IdleWorker DEF TypeOK, Amounts, Init, PartsInit
<1>6. WithinLimits
  <2>1. \A u \in Uploads : Used(upload[u]) <= UploadLimit
    BY <1>1, StagedPartsAssumption DEF Used, Init, PartsInit
  <2>2. \A s \in Scopes : Used(quota[s]) <= LimitOf(s)
    BY StagedPartsAssumption DEF Used, LimitOf, Init, PartsInit
  <2> QED BY <2>1, <2>2 DEF WithinLimits
<1>7. RequestsOwnRows
  BY <1>2 DEF RequestsOwnRows, Live, Init, PartsInit
<1>8. UploadsProgress
  BY <1>1 DEF UploadsProgress, Init, PartsInit
<1>9. WorkersHoldParts
  <2>1. \A w \in Workers : worker[w] = Idle
    BY DEF Init
  <2> QED BY <1>4, <2>1 DEF WorkersHoldParts, Past, At
<1>10. DestFollowsLease /\ ResultIsObject
  BY <1>1, <1>3 DEF DestFollowsLease, ResultIsObject, Init, PartsInit
<1> QED BY <1>5, <1>6, <1>7, <1>8, <1>9, <1>10 DEF IInv

\* Every step of the system preserves the invariant.
LEMMA NextPreserves ==
    IInv /\ [Next]_vars => IInv'
<1> SUFFICES ASSUME IInv, [Next]_vars PROVE IInv'
  OBVIOUS
<1>1. CASE Alone(PartSteps)
  <2>1. PartInv' /\ Keeps
    BY <1>1, PartStep DEF IInv, PartInv
  <2>2. WorkersHoldParts' /\ DestFollowsLease' /\ ResultIsObject'
    BY <2>1, KeepsCompletion DEF IInv
  <2> QED BY <2>1, <2>2 DEF IInv, PartInv
<1>2. CASE \E u \in Uploads : LapseLease(u) \/ ResolveDest(u)
  BY <1>2, LapseStep, ResolveStep
<1>3. ASSUME NEW w \in Workers,
             \/ \E u \in Uploads, sel \in Selections : Call(w, u, sel)
             \/ Acquire(w) \/ Refuse(w) \/ Replay(w) \/ Renew(w) \/ Check(w)
             \/ Recover(w) \/ BeginSink(w) \/ ReadPart(w) \/ CommitSink(w)
             \/ Settle(w) \/ Record(w) \/ AbortSink(w) \/ Fail(w) \/ Drop(w)
      PROVE  IInv'
  BY <1>3, CallStep, AcquireStep, EndSteps, ReplayStep, RenewStep, CheckStep, RecoverStep,
     BeginSinkStep, ReadPartStep, CommitSinkStep, SettleStep, RecordStep, AbortSinkStep
<1>4. CASE UNCHANGED vars
  <2>1. UNCHANGED <<upload, attempt, quota, artifact, request, maker, doomed, deleted, orphans, scan,
                    reaping, retiring, worker, dest, answered>>
    BY <1>4 DEF vars
  <2>2. TypeOK'
    BY <2>1 DEF TypeOK, IInv
  <2>3. \A u \in Uploads : DestMoves(dest[u], dest'[u])
    BY <2>1 DEF DestMoves
  <2> QED BY <2>1, <2>2, <2>3, CompletionStep
<1> QED BY <1>1, <1>2, <1>3, <1>4 DEF Next

\* IInv is inductive: it holds in every reachable state, for any numbers of
\* uploads, tenants, parts, requests and completing workers.
THEOREM Invariance ==
    Spec => []IInv
  BY InitEstablishes, NextPreserves, PTL DEF Spec

\* Every reachable state is typed; in particular no counter of an upload, a
\* tenant or the account goes below zero.
THEOREM TypeCorrect ==
    Spec => []TypeOK
<1>1. IInv => TypeOK
  BY DEF IInv
<1> QED BY <1>1, Invariance, PTL

\* No upload, tenant or account ever holds more staged and reserved bytes than
\* its limit, whatever begin_part, commit_part, release_artifact, the cleaners
\* and the completions do in between.
THEOREM QuotasRespected ==
    Spec => []WithinLimits
<1>1. IInv => WithinLimits
  BY DEF IInv
<1> QED BY <1>1, Invariance, PTL

\* A result is stored, replayed or answered only for a committed object and is
\* that object's, however many workers held the completion lease in turn.
THEOREM ResultsAreObjects ==
    Spec => []ResultIsObject
<1>1. IInv => ResultIsObject
  BY DEF IInv
<1> QED BY <1>1, Invariance, PTL

\* A committed object was read from exactly one attempt of each part the stored
\* request names, with the digest it names (validate_selected_parts and the
\* lease that keeps the parts from being replaced).
THEOREM ObjectsMatchRequests ==
    Spec => []ObjectMatchesRequest
<1>1. IInv => ObjectMatchesRequest
  <2> SUFFICES ASSUME IInv, NEW u \in Uploads, dest[u].state = "committed"
               PROVE  /\ {attempt[k].part : k \in dest[u].parts} = DOMAIN upload[u].print
                      /\ \A k, j \in dest[u].parts : attempt[k].part = attempt[j].part => k = j
                      /\ \A k \in dest[u].parts :
                            /\ attempt[k].upload = u
                            /\ attempt[k].etag = upload[u].print[attempt[k].part]
    BY DEF ObjectMatchesRequest
  <2>1. AnswersIn(attempt, u, dest[u].parts, upload[u].print)
    BY DEF IInv, DestFollowsLease, Answers
  <2> QED BY <2>1 DEF AnswersIn
<1> QED BY <1>1, Invariance, PTL

\* An upload that ended as aborted or expired never has a destination
\* operation: abort, expiry and acquire_completion exclude each other.
THEOREM AbandonedUploadsUnwritten ==
    Spec => []AbandonedNotWritten
<1>1. IInv => AbandonedNotWritten
  BY DEF IInv, AbandonedNotWritten, DestFollowsLease, Begun
<1> QED BY <1>1, Invariance, PTL

-----------------------------------------------------------------------------
(* Acknowledged parts *)

\* The keys that some cleaner may still delete or release.
Listed == doomed \cup deleted \cup orphans

\* The upload of a key's row is open.
OpenRow(k) == upload[attempt[k].upload].life = "OPEN"

\* A row is of an upload that was created, and its key is then in use.
RowsMade ==
    \A k \in Keys :
        /\ attempt[k].state # "none" => attempt[k].upload \in Uploads /\ maker[attempt[k].upload] = "ready"
        /\ request[k] = "unused" => k \notin Listed /\ artifact[k] = "absent"
        /\ attempt[k].state \in {"CURRENT", "RETIRED"} => request[k] = "stored"

\* What the orphan scan has found has no row, and gets none.
OrphansDead == \A k \in orphans : ~Live(k)

\* Neither does what it may still find: a key without a row at the read is
\* that of an object which is too young, or its row is gone for good.
ScanSafe ==
    \A k \in scan.unknown :
        \/ k \in scan.fresh /\ artifact[k] # "aged"
        \/ ~Live(k) /\ request[k] # "unused"

\* The current part of an open upload, unless it was committed late, is
\* stored and on no cleaner's list.
CurrentSafe ==
    \A k \in Keys : attempt[k].state = "CURRENT" /\ OpenRow(k) /\ ~attempt[k].old =>
        Stored(k) /\ k \notin Listed

\* Neither is a part whose request is under way: it will be current when it commits.
PendingSafe ==
    \A k \in Keys :
        attempt[k].state = "PENDING" /\ request[k] \in {"body", "put"} /\ OpenRow(k) /\ ~attempt[k].old =>
            k \notin Listed /\ (request[k] = "put" => Stored(k))

\* An acknowledged part of the same upload and number that is current or late.
Stands(j, k) ==
    /\ request[j] = "stored"
    /\ attempt[j].upload = attempt[k].upload /\ attempt[j].part = attempt[k].part
    /\ attempt[j].old \/ attempt[j].state = "CURRENT"

\* A part that was acknowledged is current, or another one of its number is.
StoredReplaced ==
    \A k \in Keys : request[k] = "stored" =>
        /\ attempt[k].state \notin {"none", "PENDING"}
        /\ OpenRow(k) => \E j \in Keys : Stands(j, k)

\* What a completion lists for cleanup when it is done are committed parts of its upload.
AllOwn ==
    \A w \in Workers : Past(w) => \A k \in worker[w].all :
        attempt[k].state \notin {"none", "PENDING"} /\ attempt[k].upload = worker[w].upload

\* AcknowledgedPartKept is inductive together with these.
KeptInv == IInv /\ RowsMade /\ OrphansDead /\ ScanSafe /\ CurrentSafe /\ PendingSafe /\ StoredReplaced /\ AllOwn

\* The conjuncts about rows, keys and lists.
SafeParts == RowsMade /\ OrphansDead /\ ScanSafe /\ CurrentSafe /\ PendingSafe /\ StoredReplaced

\* The parts of the invariant that the argument needs from the other sections.
LEMMA KeptFacts ==
    ASSUME KeptInv
    PROVE  /\ SafeParts /\ AllOwn
           /\ DOMAIN upload = Uploads /\ DOMAIN attempt = Keys /\ DOMAIN request = Keys /\ DOMAIN artifact = Keys
           /\ DOMAIN maker = Uploads
           /\ upload \in [Uploads -> UploadRows] /\ attempt \in [Keys -> AttemptRows]
           /\ doomed \subseteq Keys /\ deleted \subseteq Keys /\ orphans \subseteq Keys
           /\ \A k \in Keys : request[k] = "unused" => attempt[k].state = "none"
           /\ \A u \in Uploads : maker[u] \in {"none", "counted"} => upload[u].life = "none"
           /\ \A u \in retiring : upload[u].life \in Terminal \cup {"gone"}
  BY DEF KeptInv, SafeParts, IInv, TypeOK, RequestsOwnRows, UploadsProgress

\* Steps that change no row, no request and no object and add nothing to a list.
LEMMA KeptQuiet ==
    ASSUME SafeParts, UNCHANGED <<attempt, request, artifact>>,
           Listed' \subseteq Listed, orphans' \subseteq orphans, scan' = scan \/ scan' = NoScan,
           \A k \in Keys : attempt[k].state # "none" =>
               maker'[attempt[k].upload] = "ready" /\ (OpenRow(k)' => OpenRow(k))
    PROVE  SafeParts'
<1>1. RowsMade' /\ OrphansDead' /\ ScanSafe'
  BY DEF SafeParts, RowsMade, OrphansDead, ScanSafe, NoScan, Live
<1>2. CurrentSafe'
  BY DEF SafeParts, CurrentSafe, Stored
<1>3. PendingSafe'
  BY DEF SafeParts, PendingSafe, Stored
<1>4. StoredReplaced'
  BY DEF SafeParts, StoredReplaced, Stands
<1> QED BY <1>1, <1>2, <1>3, <1>4 DEF SafeParts

\* Steps that list more keys: none that is current or under way in an open upload.
LEMMA KeptListing ==
    ASSUME SafeParts, UNCHANGED <<attempt, request, artifact, maker, deleted, orphans, scan>>,
           NEW S, S \subseteq Keys, doomed' \subseteq doomed \cup S,
           \A k \in S : /\ attempt[k].state # "none" /\ request[k] # "unused"
                        /\ OpenRow(k)' => attempt[k].old \/ attempt[k].state \notin {"CURRENT", "PENDING"},
           \A k \in Keys : attempt[k].state # "none" => (OpenRow(k)' => OpenRow(k))
    PROVE  SafeParts'
<1>1. RowsMade' /\ OrphansDead' /\ ScanSafe'
  BY DEF SafeParts, RowsMade, OrphansDead, ScanSafe, Live, Listed
<1>2. CurrentSafe'
  BY DEF SafeParts, CurrentSafe, Stored, Listed
<1>3. PendingSafe'
  BY DEF SafeParts, PendingSafe, Stored, Listed
<1>4. StoredReplaced'
  BY DEF SafeParts, StoredReplaced, Stands
<1> QED BY <1>1, <1>2, <1>3, <1>4 DEF SafeParts

\* Steps that change the request and the object of one key.
LEMMA KeptKey ==
    ASSUME SafeParts, UNCHANGED <<upload, attempt, maker, scan>>, NEW k \in Keys,
           DOMAIN request = Keys, DOMAIN artifact = Keys,
           NEW r, NEW a, request' = [request EXCEPT ![k] = r], artifact' = [artifact EXCEPT ![k] = a],
           Listed' \subseteq Listed, orphans' \subseteq orphans,
           r # "unused", r = "stored" <=> request[k] = "stored",
           a = "aged" => artifact[k] = "aged" \/ k \notin scan.fresh,
           attempt[k].state \in {"CURRENT", "RETIRED"} => r = "stored",
           attempt[k].state = "CURRENT" /\ OpenRow(k) /\ ~attempt[k].old => a \in {"young", "aged"},
           attempt[k].state = "PENDING" /\ r \in {"body", "put"} /\ ~attempt[k].old =>
               request[k] \in {"body", "put"} /\ (OpenRow(k) /\ r = "put" => a \in {"young", "aged"})
    PROVE  SafeParts'
<1>1. /\ request'[k] = r /\ artifact'[k] = a
      /\ \A j \in Keys \ {k} : request'[j] = request[j] /\ artifact'[j] = artifact[j]
  OBVIOUS
<1>2. RowsMade' /\ OrphansDead'
  BY <1>1 DEF SafeParts, RowsMade, OrphansDead, Live
<1>6. ScanSafe'
  <2> SUFFICES ASSUME NEW j \in scan.unknown
               PROVE  (j \in scan.fresh /\ artifact'[j] # "aged") \/ (~Live(j)' /\ request'[j] # "unused")
    BY DEF ScanSafe
  <2>1. CASE j = k
    BY <1>1, <2>1 DEF SafeParts, ScanSafe, Live
  <2>2. CASE j \in Keys \ {k}
    BY <1>1, <2>2 DEF SafeParts, ScanSafe, Live
  <2>3. CASE j \notin Keys
    <3>1. artifact'[j] = artifact[j] /\ request'[j] = request[j]
      BY <2>3
    <3> QED BY <3>1 DEF SafeParts, ScanSafe, Live
  <2> QED BY <2>1, <2>2, <2>3
<1>3. CurrentSafe'
  BY <1>1 DEF SafeParts, CurrentSafe, Stored, OpenRow
<1>4. PendingSafe'
  BY <1>1 DEF SafeParts, PendingSafe, Stored, OpenRow
<1>5. StoredReplaced'
  <2>1. \A i, j \in Keys : Stands(i, j)' <=> Stands(i, j)
    BY <1>1 DEF Stands
  <2> QED BY <1>1, <2>1 DEF SafeParts, StoredReplaced, OpenRow
<1> QED BY <1>2, <1>3, <1>4, <1>5, <1>6 DEF SafeParts

\* The uploads' own steps: their rows hold no part yet, or they are not open any more.
LEMMA KeptUploads ==
    ASSUME KeptInv, NEW u \in Uploads,
           \/ CreateCount(u) \/ CreateInsert(u) \/ Abort(u) \/ ReapSelect(u) \/ ReapUpdate(u)
           \/ RetireSelect(u) \/ ExpireUpload(u) \/ BuryUpload(u)
    PROVE  SafeParts'
<1>1. /\ SafeParts /\ DOMAIN upload = Uploads /\ DOMAIN maker = Uploads
      /\ upload \in [Uploads -> UploadRows]
      /\ \A v \in Uploads : maker[v] \in {"none", "counted"} => upload[v].life = "none"
      /\ \A k \in Keys : attempt[k].state # "none" => attempt[k].upload \in Uploads /\ maker[attempt[k].upload] = "ready"
  BY KeptFacts DEF SafeParts, RowsMade
<1>2. CASE CreateCount(u) \/ CreateInsert(u)
  <2>1. \A v \in Uploads \ {u} : maker'[v] = maker[v] /\ upload'[v] = upload[v]
    BY <1>1, <1>2 DEF CreateCount, CreateInsert
  <2>2. maker[u] # "ready" /\ UNCHANGED <<attempt, request, artifact, doomed, deleted, orphans, scan>>
    BY <1>2 DEF CreateCount, CreateInsert, cleaners
  <2> QED BY <1>1, <2>1, <2>2, KeptQuiet DEF OpenRow, Listed
<1>3. CASE ReapSelect(u) \/ RetireSelect(u)
  <2>1. UNCHANGED <<attempt, request, artifact, doomed, deleted, orphans, scan, maker, upload>>
    BY <1>3 DEF ReapSelect, RetireSelect
  <2> QED BY <1>1, <2>1, KeptQuiet DEF OpenRow, Listed
<1>4. CASE ExpireUpload(u) \/ BuryUpload(u)
  <2>1. UNCHANGED <<attempt, request, artifact, doomed, deleted, orphans, scan, maker>>
    BY <1>4 DEF ExpireUpload, BuryUpload, cleaners
  <2>2. \A v \in Uploads : upload'[v].life = upload[v].life
    BY <1>1, <1>4 DEF ExpireUpload, BuryUpload, UploadRows
  <2> QED BY <1>1, <2>1, <2>2, KeptQuiet DEF OpenRow, Listed
<1>5. CASE Abort(u) \/ ReapUpdate(u)
  <2>1. UNCHANGED <<attempt, request, artifact, maker, deleted, orphans, scan>> /\ doomed' \subseteq doomed \cup CurrentOf(u)
    BY <1>5 DEF Abort, ReapUpdate
  <2>2. upload'[u].life # "OPEN" /\ \A v \in Uploads \ {u} : upload'[v] = upload[v]
    BY <1>1, <1>5 DEF Abort, ReapUpdate, UploadRows
  <2>3. \A k \in CurrentOf(u) : /\ k \in Keys /\ attempt[k].state = "CURRENT" /\ request[k] = "stored"
                                /\ attempt[k].upload = u
    BY <1>1 DEF CurrentOf, SafeParts, RowsMade
  <2> QED BY <1>1, <2>1, <2>2, <2>3, KeptListing DEF OpenRow
<1> QED BY <1>2, <1>3, <1>4, <1>5

\* A request, or an object, that is written as it was.
LEMMA KeptRequests ==
    ASSUME KeptInv, NEW k \in Keys
    PROVE  /\ request = [request EXCEPT ![k] = request[k]]
           /\ artifact = [artifact EXCEPT ![k] = artifact[k]]
  BY DEF KeptInv, IInv, TypeOK

\* The steps of a request before its commit, of the store and of time.
LEMMA KeptKeys ==
    ASSUME KeptInv, NEW k \in Keys,
           \/ PutArtifact(k) \/ AbandonBody(k) \/ AbandonCommit(k) \/ Sweep(k) \/ DeleteArtifact(k)
           \/ CleanupFails(k) \/ DeleteOrphan(k) \/ AgeArtifact(k) \/ LandArtifact(k)
    PROVE  SafeParts'
<1>1. /\ SafeParts /\ DOMAIN request = Keys /\ DOMAIN artifact = Keys
      /\ RowsMade /\ OrphansDead /\ ScanSafe /\ CurrentSafe /\ PendingSafe /\ StoredReplaced
  BY KeptFacts DEF SafeParts
<1>2. CASE PutArtifact(k)
  <2>1. /\ request' = [request EXCEPT ![k] = "put"] /\ artifact' = [artifact EXCEPT ![k] = "young"]
        /\ request[k] = "body" /\ UNCHANGED <<upload, attempt, maker, doomed, deleted, orphans, scan>>
    BY <1>2 DEF PutArtifact, cleaners
  <2> QED BY <1>1, <2>1, KeptKey DEF RowsMade, Listed
<1>3. CASE AbandonBody(k)
  <2>1. PICK a \in {"absent", "flying"} :
           /\ request' = [request EXCEPT ![k] = "done"] /\ artifact' = [artifact EXCEPT ![k] = a]
           /\ request[k] = "body" /\ UNCHANGED <<upload, attempt, maker, doomed, deleted, orphans, scan>>
    BY <1>3 DEF AbandonBody, cleaners
  <2> QED BY <1>1, <2>1, KeptKey DEF RowsMade, Listed
<1>4. CASE AbandonCommit(k)
  <2>1. /\ request' = [request EXCEPT ![k] = "done"] /\ artifact' = [artifact EXCEPT ![k] = artifact[k]]
        /\ request[k] = "put" /\ UNCHANGED <<upload, attempt, maker, doomed, deleted, orphans, scan>>
    BY <1>4, KeptRequests DEF AbandonCommit, cleaners
  <2> QED BY <1>1, <2>1, KeptKey DEF RowsMade, Listed
<1>5. CASE Sweep(k)
  <2>1. /\ Live(k) /\ UNCHANGED <<upload, attempt, request, artifact, maker, deleted, orphans, scan>>
        /\ doomed' \subseteq doomed \cup {k}
        /\ OpenRow(k) => attempt[k].state = "RETIRED" \/ (attempt[k].state = "PENDING" /\ attempt[k].old)
    BY <1>5 DEF Sweep, Candidate, OpenRow
  <2>2. request[k] # "unused"
    BY <2>1, KeptFacts DEF Live
  <2>3. OpenRow(k)' = OpenRow(k) /\ \A j \in Keys : OpenRow(j)' = OpenRow(j)
    BY <2>1 DEF OpenRow
  <2>4. OpenRow(k) => attempt[k].old \/ attempt[k].state \notin {"CURRENT", "PENDING"}
    BY <2>1
  <2>5. attempt[k].state # "none"
    BY <2>1 DEF Live
  <2>6. \A j \in {k} :
           /\ attempt[j].state # "none" /\ request[j] # "unused"
           /\ OpenRow(j)' => attempt[j].old \/ attempt[j].state \notin {"CURRENT", "PENDING"}
    BY <2>2, <2>3, <2>4, <2>5
  <2>7. {k} \subseteq Keys /\ \A j \in Keys : attempt[j].state # "none" => (OpenRow(j)' => OpenRow(j))
    BY <2>3
  <2>8. SafeParts /\ UNCHANGED <<attempt, request, artifact, maker, deleted, orphans, scan>> /\ doomed' \subseteq doomed \cup {k}
    BY <1>1, <2>1
  <2> HIDE <1>1, <2>1, <2>2, <2>3, <2>4, <2>5
  <2> QED BY <2>6, <2>7, <2>8, KeptListing
<1>6. CASE CleanupFails(k)
  <2>1. /\ UNCHANGED <<upload, attempt, request, artifact, maker, orphans, scan>>
        /\ doomed' \subseteq doomed /\ deleted' \subseteq deleted
    BY <1>6 DEF CleanupFails
  <2> QED BY <1>1, <2>1, KeptQuiet DEF Listed, OpenRow, RowsMade
<1>7. CASE DeleteArtifact(k) \/ DeleteOrphan(k)
  <2>1. PICK a : a = IF artifact[k] = "flying" THEN artifact[k] ELSE "absent"
    OBVIOUS
  <2>2. /\ artifact' = [artifact EXCEPT ![k] = a] /\ request' = [request EXCEPT ![k] = request[k]]
        /\ UNCHANGED <<upload, attempt, maker, scan>> /\ k \in Listed /\ Listed' \subseteq Listed /\ orphans' \subseteq orphans
    BY <1>7, <2>1, KeptRequests DEF DeleteArtifact, DeleteOrphan, Erased, Listed
  <2>3. /\ request[k] # "unused" /\ a # "aged"
        /\ attempt[k].state \in {"CURRENT", "RETIRED"} => request[k] = "stored"
    BY <1>1, <2>1, <2>2 DEF RowsMade
  <2>4. /\ ~(attempt[k].state = "CURRENT" /\ OpenRow(k) /\ ~attempt[k].old)
        /\ attempt[k].state = "PENDING" /\ request[k] \in {"body", "put"} /\ ~attempt[k].old => ~OpenRow(k)
    BY <1>1, <2>2 DEF CurrentSafe, PendingSafe
  <2>5. SafeParts /\ DOMAIN request = Keys /\ DOMAIN artifact = Keys
    BY <1>1
  <2> HIDE <1>1, <2>1
  <2> QED BY <2>2, <2>3, <2>4, <2>5, KeptKey
<1>8. CASE AgeArtifact(k)
  <2>1. /\ artifact[k] = "young" /\ k \notin scan.fresh /\ artifact' = [artifact EXCEPT ![k] = "aged"]
        /\ request' = [request EXCEPT ![k] = request[k]]
        /\ UNCHANGED <<upload, attempt, maker, doomed, deleted, orphans, scan>>
    BY <1>8, KeptRequests DEF AgeArtifact, cleaners
  <2> QED BY <1>1, <2>1, KeptKey DEF RowsMade, StoredReplaced, Listed
<1>9. CASE LandArtifact(k)
  <2>1. PICK a \in {"young", "absent"} :
                 /\ artifact[k] = "flying" /\ artifact' = [artifact EXCEPT ![k] = a]
                 /\ request' = [request EXCEPT ![k] = request[k]]
                 /\ UNCHANGED <<upload, attempt, maker, doomed, deleted, orphans, scan>>
    BY <1>9, KeptRequests DEF LandArtifact, cleaners
  <2>2. ~Stored(k)
    BY <2>1 DEF Stored
  <2> QED BY <1>1, <2>1, <2>2, KeptKey DEF RowsMade, CurrentSafe, PendingSafe, StoredReplaced, Listed
<1> QED BY <1>2, <1>3, <1>4, <1>5, <1>6, <1>7, <1>8, <1>9

\* The orphan scan reads the keys with a row, and lists objects without one.
LEMMA KeptScan ==
    ASSUME KeptInv, ReadKnown \/ ListOrphans \/ ScanFails PROVE SafeParts'
<1>1. SafeParts
  BY KeptFacts
<1>2. UNCHANGED <<upload, attempt, request, artifact, maker, doomed, deleted>>
  BY DEF ReadKnown, ListOrphans, ScanFails
<1>3. /\ \A k \in orphans' : ~Live(k) /\ k \in Keys /\ request[k] # "unused"
      /\ ScanSafe'
  <2>1. CASE ReadKnown
    <3>1. /\ orphans = {} /\ orphans' = {}
          /\ scan'.unknown = {k \in Keys : ~Live(k)}
          /\ scan'.fresh = {k \in scan'.unknown : ~Stored(k)}
      BY <2>1 DEF ReadKnown
    <3>2. \A k \in Keys : Stored(k) => request[k] # "unused"
      BY <1>1 DEF SafeParts, RowsMade, Stored
    <3>3. \A k \in scan'.unknown :
             (k \in scan'.fresh /\ artifact[k] # "aged") \/ (~Live(k) /\ request[k] # "unused")
      BY <3>1, <3>2 DEF Stored
    <3> QED BY <1>2, <3>1, <3>3 DEF ScanSafe, Live
  <2>2. CASE ListOrphans
    <3>1. /\ \A k \in orphans' : k \in Keys /\ k \in scan.unknown /\ artifact[k] = "aged"
          /\ scan'.unknown = {}
      BY <2>2 DEF ListOrphans, Orphaned, NoScan
    <3> QED BY <1>1, <3>1 DEF SafeParts, ScanSafe
  <2>3. CASE ScanFails
    BY <2>3 DEF ScanFails, NoScan, ScanSafe
  <2> QED BY <2>1, <2>2, <2>3
<1>4. RowsMade' /\ OrphansDead'
  BY <1>1, <1>2, <1>3 DEF SafeParts, RowsMade, OrphansDead, Live, Listed
<1>5. CurrentSafe'
  BY <1>1, <1>2, <1>3 DEF SafeParts, CurrentSafe, Stored, Listed, Live, OpenRow
<1>6. PendingSafe'
  BY <1>1, <1>2, <1>3 DEF SafeParts, PendingSafe, Stored, Listed, Live, OpenRow
<1>7. StoredReplaced'
  BY <1>1, <1>2 DEF SafeParts, StoredReplaced, Stands, OpenRow
<1> QED BY <1>3, <1>4, <1>5, <1>6, <1>7 DEF SafeParts

\* Steps that change the row of one key, which is not current, or is late.
LEMMA KeptRow ==
    ASSUME KeptInv, NEW k \in Keys, NEW row, attempt' = [attempt EXCEPT ![k] = row],
           NEW r, request' = [request EXCEPT ![k] = r], UNCHANGED <<artifact, maker, doomed, orphans, scan>>, deleted' \subseteq deleted,
           DOMAIN upload' = Uploads, \A u \in Uploads : upload'[u].life = upload[u].life,
           ~(attempt[k].state = "CURRENT" /\ OpenRow(k) /\ ~attempt[k].old),
           row.state # "none" => row.upload \in Uploads /\ maker[row.upload] = "ready",
           row.state \in {"PENDING", "gone"}, row.state = "PENDING" => k \notin orphans,
           row.state = "PENDING" /\ k \in scan.unknown => k \in scan.fresh /\ artifact[k] # "aged",
           r # "unused", r = "stored" => row.state = "gone", r = "stored" <=> request[k] = "stored",
           attempt[k].state # "none" => /\ row.upload = attempt[k].upload /\ row.part = attempt[k].part
                                        /\ attempt[k].old => row.old,
           row.state = "PENDING" /\ r \in {"body", "put"} /\ ~row.old => k \notin Listed /\ r = "body"
    PROVE  SafeParts'
<1>1. SafeParts /\ DOMAIN attempt = Keys /\ DOMAIN request = Keys
  BY KeptFacts
<1>2. /\ attempt'[k] = row /\ request'[k] = r
      /\ \A j \in Keys \ {k} : attempt'[j] = attempt[j] /\ request'[j] = request[j]
  BY <1>1
<1>3. Listed' \subseteq Listed
  BY DEF Listed
<1>4. \A j \in Keys \ {k} : attempt[j].state # "none" => OpenRow(j)' = OpenRow(j)
  BY <1>1, <1>2 DEF OpenRow, SafeParts, RowsMade
<1>5. RowsMade'
  BY <1>1, <1>2, <1>3 DEF SafeParts, RowsMade
<1>6. OrphansDead' /\ ScanSafe'
  <2>1. orphans \subseteq Keys /\ scan.unknown \subseteq Keys
    BY DEF KeptInv, IInv, TypeOK
  <2>2. OrphansDead'
    BY <1>1, <1>2, <2>1 DEF SafeParts, OrphansDead, Live
  <2>3. ScanSafe'
    BY <1>1, <1>2, <2>1 DEF SafeParts, ScanSafe, Live
  <2> QED BY <2>2, <2>3
<1>7. CurrentSafe'
  BY <1>1, <1>2, <1>3, <1>4 DEF SafeParts, CurrentSafe, Stored
<1>8. PendingSafe'
  BY <1>1, <1>2, <1>3, <1>4 DEF SafeParts, PendingSafe, Stored
<1>9. ASSUME NEW j \in Keys, request'[j] = "stored", OpenRow(j)'
      PROVE  \E i \in Keys : Stands(i, j)'
  <2>1. /\ request[j] = "stored" /\ attempt[j].state \notin {"none", "PENDING"}
        /\ attempt'[j].upload = attempt[j].upload /\ attempt'[j].part = attempt[j].part
    BY <1>1, <1>2, <1>9 DEF SafeParts, StoredReplaced
  <2>2. attempt[j].upload \in Uploads
    BY <1>1, <2>1 DEF SafeParts, RowsMade
  <2>3. OpenRow(j)
    BY <1>9, <2>1, <2>2 DEF OpenRow
  <2>4. PICK i \in Keys : Stands(i, j)
    BY <1>1, <2>1, <2>3 DEF SafeParts, StoredReplaced
  <2>5. CASE i # k
    BY <1>2, <2>1, <2>4, <2>5 DEF Stands
  <2>6. CASE i = k
    <3>1. request[k] = "stored" /\ attempt[k].state # "none"
      BY <1>1, <2>4, <2>6 DEF Stands, SafeParts, StoredReplaced
    <3>2. attempt[k].old
      BY <2>3, <2>4, <2>6 DEF Stands, OpenRow
    <3> QED BY <1>2, <2>1, <2>4, <2>6, <3>1, <3>2 DEF Stands
  <2> QED BY <2>5, <2>6
<1>10. \A j \in Keys : request'[j] = "stored" => attempt'[j].state \notin {"none", "PENDING"}
  BY <1>1, <1>2 DEF SafeParts, StoredReplaced
<1>11. StoredReplaced'
  BY <1>9, <1>10 DEF StoredReplaced
<1> QED BY <1>5, <1>6, <1>7, <1>8, <1>11 DEF SafeParts

\* A part begins under a key that no cleaner has seen.
LEMMA KeptBegin ==
    ASSUME KeptInv, NEW k \in Keys, NEW u \in Uploads, NEW p \in Parts, NEW n \in Sizes \ {0}, BeginPart(k, u, p, n)
    PROVE  SafeParts'
<1>1. PICK row : row = [NoAttempt EXCEPT !.state = "PENDING", !.upload = u, !.part = p, !.reserved = n]
  OBVIOUS
<1>2. row.state = "PENDING" /\ row.upload = u /\ row.part = p /\ ~row.old
  BY <1>1 DEF NoAttempt
<1>3. /\ attempt' = [attempt EXCEPT ![k] = row] /\ request' = [request EXCEPT ![k] = "body"]
      /\ UNCHANGED <<artifact, maker, doomed, deleted, orphans, scan>>
      /\ request[k] = "unused" /\ maker[u] = "ready" /\ upload' = [upload EXCEPT ![u].reserved = @ + n]
  BY <1>1 DEF BeginPart, cleaners
<1>4. /\ SafeParts /\ upload \in [Uploads -> UploadRows] /\ attempt[k].state = "none"
  BY <1>3, KeptFacts
<1>5. DOMAIN upload' = Uploads /\ \A v \in Uploads : upload'[v].life = upload[v].life
  BY <1>3, <1>4 DEF UploadRows
<1>6. k \notin Listed
  BY <1>3, <1>4 DEF SafeParts, RowsMade
<1>7. k \notin orphans
  BY <1>6 DEF Listed
<1>8. k \in scan.unknown => k \in scan.fresh /\ artifact[k] # "aged"
  BY <1>3, <1>4 DEF SafeParts, ScanSafe
<1> QED BY <1>2, <1>3, <1>4, <1>5, <1>6, <1>7, <1>8, KeptRow

\* A row that outlives the grace: its part, if it still commits, is late.
LEMMA KeptAge ==
    ASSUME KeptInv, NEW k \in Keys, AgeAttempt(k) PROVE SafeParts'
<1>1. PICK row : row = [attempt[k] EXCEPT !.old = TRUE]
  OBVIOUS
<1>2. /\ attempt' = [attempt EXCEPT ![k] = row] /\ attempt[k].state = "PENDING"
      /\ UNCHANGED <<upload, request, artifact, maker, doomed, deleted, orphans, scan>>
  BY <1>1 DEF AgeAttempt, cleaners
<1>3. /\ SafeParts /\ upload \in [Uploads -> UploadRows] /\ attempt[k] \in AttemptRows /\ request[k] # "unused"
  BY <1>2, KeptFacts
<1>4. row.state = "PENDING" /\ row.upload = attempt[k].upload /\ row.part = attempt[k].part /\ row.old
  BY <1>1, <1>2, <1>3 DEF AttemptRows
<1>5. request' = [request EXCEPT ![k] = request[k]]
  BY <1>2, KeptRequests
<1>6. /\ attempt[k].upload \in Uploads /\ maker[attempt[k].upload] = "ready" /\ request[k] # "stored" /\ k \notin orphans
  BY <1>2, <1>3 DEF SafeParts, RowsMade, StoredReplaced, OrphansDead, Live
<1>7. DOMAIN upload' = Uploads /\ \A v \in Uploads : upload'[v].life = upload[v].life
  BY <1>2, <1>3
<1>8. /\ attempt[k].state # "CURRENT" /\ UNCHANGED <<artifact, maker, doomed, orphans, scan>> /\ deleted' \subseteq deleted
      /\ k \in scan.unknown => k \in scan.fresh /\ artifact[k] # "aged"
  BY <1>2, <1>3 DEF SafeParts, ScanSafe, Live
<1>9. row.upload \in Uploads /\ maker[row.upload] = "ready" /\ row.state \in {"PENDING", "gone"}
  BY <1>2, <1>4, <1>6
<1>10. attempt' = [attempt EXCEPT ![k] = row]
  BY <1>2
<1> HIDE <1>1, <1>2
<1> QED BY <1>3, <1>4, <1>5, <1>6, <1>7, <1>8, <1>9, <1>10, KeptRow

\* A row is released by its own request, or by a cleaner that had listed it.
LEMMA KeptRelease ==
    ASSUME KeptInv, NEW k \in Keys, DiscardPart(k) \/ ConfirmDeleted(k) PROVE SafeParts'
<1>1. /\ SafeParts /\ upload \in [Uploads -> UploadRows] /\ attempt[k] \in AttemptRows
      /\ DOMAIN request = Keys /\ DOMAIN artifact = Keys
  BY KeptFacts
<1>2. PICK r : /\ request' = [request EXCEPT ![k] = r] /\ r # "unused" /\ (r = "stored" <=> request[k] = "stored")
               /\ UNCHANGED <<artifact, maker, doomed, orphans, scan>> /\ deleted' \subseteq deleted /\ ReleaseArtifact(k)
               /\ ~(attempt[k].state = "CURRENT" /\ OpenRow(k) /\ ~attempt[k].old)
               /\ r \in {"body", "put"} => request[k] = r
               /\ attempt[k].state \in {"CURRENT", "RETIRED"} => r = "stored"
  <2>1. CASE DiscardPart(k)
    <3>1. /\ request' = [request EXCEPT ![k] = "done"] /\ request[k] = "body" /\ ReleaseArtifact(k)
          /\ UNCHANGED <<artifact, maker, doomed, deleted, orphans, scan>>
      BY <2>1 DEF DiscardPart, cleaners
    <3>2. attempt[k].state \notin {"CURRENT", "RETIRED"}
      BY <1>1, <3>1 DEF SafeParts, RowsMade
    <3> QED BY <3>1, <3>2
  <2>2. CASE ConfirmDeleted(k)
    <3>1. /\ k \in deleted /\ deleted' \subseteq deleted /\ ReleaseArtifact(k)
          /\ UNCHANGED <<request, artifact, maker, doomed, orphans, scan>>
      BY <2>2 DEF ConfirmDeleted
    <3>2. request' = [request EXCEPT ![k] = request[k]]
      BY <3>1, KeptRequests
    <3>3. k \in Listed
      BY <3>1 DEF Listed
    <3>4. request[k] # "unused" /\ ~(attempt[k].state = "CURRENT" /\ OpenRow(k) /\ ~attempt[k].old)
      BY <1>1, <3>3 DEF SafeParts, RowsMade, CurrentSafe
    <3>5. attempt[k].state \in {"CURRENT", "RETIRED"} => request[k] = "stored"
      BY <1>1 DEF SafeParts, RowsMade
    <3> QED BY <3>1, <3>2, <3>4, <3>5
  <2> QED BY <2>1, <2>2
<1>3. CASE Live(k)
  <2>1. PICK row : row = Gone(k)
    OBVIOUS
  <2>2. /\ row.state = "gone" /\ row.upload = attempt[k].upload /\ row.part = attempt[k].part
        /\ row.old = attempt[k].old
    BY <1>1, <2>1, GoneRow
  <2>3. /\ attempt' = [attempt EXCEPT ![k] = row]
        /\ upload' = [upload EXCEPT ![attempt[k].upload].staged = @ - Freed(k).staged,
                                    ![attempt[k].upload].reserved = @ - Freed(k).reserved]
    BY <1>2, <1>3, <2>1 DEF ReleaseArtifact
  <2>4. attempt[k].upload \in Uploads /\ maker[attempt[k].upload] = "ready"
    BY <1>1, <1>3 DEF SafeParts, RowsMade, Live
  <2>5. DOMAIN upload' = Uploads /\ \A v \in Uploads : upload'[v].life = upload[v].life
    BY <1>1, <2>3, <2>4 DEF UploadRows
  <2>6. /\ request' = [request EXCEPT ![k] = r] /\ attempt' = [attempt EXCEPT ![k] = row]
        /\ UNCHANGED <<artifact, maker, doomed, orphans, scan>> /\ deleted' \subseteq deleted
        /\ ~(attempt[k].state = "CURRENT" /\ OpenRow(k) /\ ~attempt[k].old)
    BY <1>2, <2>3
  <2>7. row.state # "none" => row.upload \in Uploads /\ maker[row.upload] = "ready"
    BY <2>2, <2>4
  <2>8. /\ row.state \in {"PENDING", "gone"} /\ (row.state = "PENDING" => k \notin orphans)
        /\ attempt[k].state # "none" => /\ row.upload = attempt[k].upload /\ row.part = attempt[k].part
                                        /\ attempt[k].old => row.old
        /\ row.state # "PENDING"
    BY <2>2
  <2>9. r # "unused" /\ (r = "stored" <=> request[k] = "stored") /\ row.state = "gone"
    BY <1>2, <2>2
  <2> HIDE <1>2
  <2> QED BY <2>5, <2>6, <2>7, <2>8, <2>9, KeptRow
<1>4. CASE ~Live(k)
  <2>1. UNCHANGED <<attempt, upload>>
    BY <1>2, <1>4 DEF ReleaseArtifact
  <2>2. artifact' = [artifact EXCEPT ![k] = artifact[k]]
    BY <1>2, KeptRequests
  <2>3. Listed' \subseteq Listed /\ orphans' \subseteq orphans
    BY <1>2 DEF Listed
  <2>4. attempt[k].state \notin {"CURRENT", "RETIRED", "PENDING"}
    BY <1>4 DEF Live
  <2> QED BY <1>1, <1>2, <2>1, <2>2, <2>3, <2>4, KeptKey
<1> QED BY <1>3, <1>4

\* An upload row that is deleted was not open.
LEMMA KeptDropped ==
    ASSUME KeptInv, NEW u \in Uploads, Retire(u) \/ DeleteTerminal(u) PROVE SafeParts'
<1>1. /\ SafeParts /\ upload \in [Uploads -> UploadRows] /\ attempt \in [Keys -> AttemptRows]
      /\ \A v \in retiring : upload[v].life \in Terminal \cup {"gone"}
  BY KeptFacts
<1>2. /\ Dropped(u) /\ UNCHANGED <<artifact, request, maker, doomed, deleted, orphans, scan>>
      /\ upload[u].life # "OPEN"
  BY <1>1 DEF Retire, DeleteTerminal, cleaners, Terminal
<1>3. \A v \in Uploads : upload'[v].life = "OPEN" => upload[v].life = "OPEN" /\ v # u
  BY <1>1, <1>2 DEF Dropped, UploadRows
<1>4. \A j \in Keys : /\ attempt'[j].upload = attempt[j].upload /\ attempt'[j].part = attempt[j].part
                      /\ attempt'[j].state = attempt[j].state \/ (Live(j) /\ attempt'[j].state = "gone")
                      /\ attempt[j].upload # u => attempt'[j] = attempt[j]
                      /\ Live(j)' => attempt'[j] = attempt[j]
  <2> SUFFICES ASSUME NEW j \in Keys
               PROVE  /\ attempt'[j].upload = attempt[j].upload /\ attempt'[j].part = attempt[j].part
                      /\ attempt'[j].state = attempt[j].state \/ (Live(j) /\ attempt'[j].state = "gone")
                      /\ attempt[j].upload # u => attempt'[j] = attempt[j]
                      /\ Live(j)' => attempt'[j] = attempt[j]
    OBVIOUS
  <2>1. attempt'[j] = IF j \in AttemptsOf(u) THEN Gone(j) ELSE attempt[j]
    BY <1>2 DEF Dropped
  <2>2. /\ Gone(j).upload = attempt[j].upload /\ Gone(j).part = attempt[j].part /\ Gone(j).state = "gone"
    BY <1>1, GoneRow
  <2> QED BY <2>1, <2>2 DEF AttemptsOf, Live
<1>5. \A j \in Keys : attempt[j].state # "none" /\ OpenRow(j)' => OpenRow(j) /\ attempt'[j] = attempt[j]
  BY <1>1, <1>3, <1>4 DEF OpenRow, SafeParts, RowsMade
<1>6. RowsMade' /\ OrphansDead' /\ ScanSafe'
  <2>1. \A j \in Keys : attempt'[j].state # "none" => attempt[j].state # "none"
    BY <1>4 DEF Live
  <2>2. \A j \in Keys : attempt'[j].state \in {"CURRENT", "RETIRED"} => attempt[j].state \in {"CURRENT", "RETIRED"}
    BY <1>4
  <2>3. Listed' = Listed
    BY <1>2 DEF Listed
  <2>4. RowsMade'
    BY <1>1, <1>2, <1>4, <2>1, <2>2, <2>3 DEF SafeParts, RowsMade
  <2>5. \A j \in Keys : Live(j)' => Live(j)
    BY <1>4 DEF Live
  <2>6. orphans \subseteq Keys
    BY KeptFacts
  <2>7. scan.unknown \subseteq Keys
    BY DEF KeptInv, IInv, TypeOK
  <2> QED BY <1>1, <1>2, <2>4, <2>5, <2>6, <2>7 DEF SafeParts, OrphansDead, ScanSafe
<1>7. CurrentSafe'
  BY <1>1, <1>2, <1>4, <1>5 DEF SafeParts, CurrentSafe, Stored, Listed, Live
<1>8. PendingSafe'
  BY <1>1, <1>2, <1>4, <1>5 DEF SafeParts, PendingSafe, Stored, Listed, Live
<1>9. ASSUME NEW j \in Keys, request'[j] = "stored", OpenRow(j)'
      PROVE  \E i \in Keys : Stands(i, j)'
  <2>1. /\ attempt[j].state \notin {"none", "PENDING"} /\ OpenRow(j) /\ attempt'[j] = attempt[j]
    BY <1>1, <1>2, <1>5, <1>9 DEF SafeParts, StoredReplaced
  <2>2. PICK i \in Keys : Stands(i, j)
    BY <1>1, <1>2, <1>9, <2>1 DEF SafeParts, StoredReplaced
  <2>3. attempt'[i] = attempt[i]
    BY <1>4, <2>1, <2>2, <1>2 DEF OpenRow, Stands
  <2> QED BY <1>2, <2>1, <2>2, <2>3 DEF Stands
<1>10. \A j \in Keys : request'[j] = "stored" => attempt'[j].state \notin {"none", "PENDING"}
  BY <1>1, <1>2, <1>4 DEF SafeParts, StoredReplaced
<1>11. StoredReplaced'
  BY <1>9, <1>10 DEF StoredReplaced
<1> QED BY <1>6, <1>7, <1>8, <1>11 DEF SafeParts

\* A part becomes current: it is stored and on no list, and the one it replaces
\* goes on a cleaner's.
LEMMA KeptCommit ==
    ASSUME KeptInv, NEW k \in Keys, NEW e \in Etags, NEW m \in Sizes, CommitPart(k, e, m) PROVE SafeParts'
<1> DEFINE u == attempt[k].upload
           previous == {j \in CurrentOf(u) : attempt[j].part = attempt[k].part}
<1>1. PICK row : row = [attempt[k] EXCEPT !.state = "CURRENT", !.etag = e, !.size = m, !.reserved = 0]
  OBVIOUS
<1>2. /\ SafeParts /\ upload \in [Uploads -> UploadRows] /\ attempt \in [Keys -> AttemptRows] /\ DOMAIN request = Keys
  BY KeptFacts
<1>3. row.state = "CURRENT" /\ row.upload = u /\ row.part = attempt[k].part /\ row.old = attempt[k].old
  BY <1>1, <1>2 DEF AttemptRows
<1>4. /\ request[k] = "put" /\ attempt[k].state = "PENDING" /\ OpenRow(k)
      /\ attempt' = [j \in Keys |-> IF j = k THEN row
                                    ELSE IF j \in previous THEN [attempt[j] EXCEPT !.state = "RETIRED"] ELSE attempt[j]]
      /\ doomed' = doomed \cup previous /\ request' = [request EXCEPT ![k] = "stored"]
      /\ UNCHANGED <<artifact, maker, deleted, orphans, scan>>
  BY <1>1 DEF CommitPart, OpenRow
<1>5. \E n, d \in Int : upload' = [upload EXCEPT ![u].staged = @ + n, ![u].reserved = @ - d]
  <2>1. m \in Int /\ attempt[k].reserved \in Int
    BY <1>2, StagedPartsAssumption DEF AttemptRows, Amounts
  <2> QED BY <2>1 DEF CommitPart
<1>6. u \in Uploads /\ maker[u] = "ready" /\ (~attempt[k].old => Stored(k) /\ k \notin Listed) /\ k \notin orphans
  BY <1>2, <1>4 DEF SafeParts, RowsMade, PendingSafe, OrphansDead, Live
<1>7. \A v \in Uploads : upload'[v].life = upload[v].life
  BY <1>2, <1>5, <1>6 DEF UploadRows
<1>8. \A j \in previous : j \in Keys /\ attempt[j].state = "CURRENT" /\ attempt[j].upload = u /\ attempt[j].part = attempt[k].part
  BY DEF CurrentOf
<1>9. \A j \in Keys \ {k} : /\ attempt'[j].upload = attempt[j].upload /\ attempt'[j].part = attempt[j].part
                            /\ attempt'[j].old = attempt[j].old
                            /\ attempt'[j].state = IF j \in previous THEN "RETIRED" ELSE attempt[j].state
  <2> SUFFICES ASSUME NEW j \in Keys \ {k}
               PROVE  /\ attempt'[j].upload = attempt[j].upload /\ attempt'[j].part = attempt[j].part
                      /\ attempt'[j].old = attempt[j].old
                      /\ attempt'[j].state = IF j \in previous THEN "RETIRED" ELSE attempt[j].state
    OBVIOUS
  <2>1. attempt'[j] = IF j \in previous THEN [attempt[j] EXCEPT !.state = "RETIRED"] ELSE attempt[j]
    BY <1>4
  <2>2. attempt[j] \in AttemptRows
    BY <1>2
  <2> HIDE DEF previous
  <2> QED BY <2>1, <2>2 DEF AttemptRows
<1>10. attempt'[k] = row /\ request'[k] = "stored" /\ \A j \in Keys \ {k} : request'[j] = request[j]
  BY <1>2, <1>4
<1>11. \A j \in Keys : attempt[j].state # "none" => attempt[j].upload \in Uploads
  BY <1>2 DEF SafeParts, RowsMade
<1>12. k \notin previous
  BY <1>4, <1>8
<1> HIDE DEF u, previous
<1>13. \A j \in Keys \ {k} : attempt[j].state # "none" => OpenRow(j)' = OpenRow(j)
  BY <1>7, <1>9, <1>11 DEF OpenRow
<1>14. Listed' = Listed \cup previous
  BY <1>4 DEF Listed
<1>15. \A j \in previous : request[j] = "stored"
  BY <1>2, <1>8 DEF SafeParts, RowsMade
<1>16. RowsMade'
  <2>1. ASSUME NEW j \in Keys \ {k}
        PROVE  /\ attempt'[j].state # "none" => attempt'[j].upload \in Uploads /\ maker'[attempt'[j].upload] = "ready"
               /\ request'[j] = "unused" => j \notin Listed' /\ artifact'[j] = "absent"
               /\ attempt'[j].state \in {"CURRENT", "RETIRED"} => request'[j] = "stored"
    BY <1>2, <1>4, <1>8, <1>9, <1>10, <1>14, <1>15 DEF SafeParts, RowsMade
  <2>2. /\ attempt'[k].upload \in Uploads /\ maker'[attempt'[k].upload] = "ready" /\ request'[k] = "stored"
    BY <1>3, <1>4, <1>6, <1>10
  <2> QED BY <2>1, <2>2 DEF RowsMade
<1>17. OrphansDead' /\ ScanSafe'
  <2>1. \A j \in orphans : j \in Keys /\ j # k /\ ~Live(j)
    BY <1>2, <1>4, <1>6, KeptFacts DEF Listed, SafeParts, OrphansDead
  <2>2. \A j \in orphans : j \notin previous
    BY <1>8, <2>1 DEF Live
  <2>3. scan.unknown \subseteq Keys
    BY DEF KeptInv, IInv, TypeOK
  <2>4. \A j \in scan.unknown : Live(j)' \/ request'[j] = "unused" => Live(j) \/ request[j] = "unused"
    BY <1>4, <1>8, <1>9, <1>10, <2>3 DEF Live
  <2>5. ScanSafe'
    BY <1>2, <1>4, <2>4 DEF SafeParts, ScanSafe
  <2> QED BY <1>4, <1>9, <2>1, <2>2, <2>5 DEF OrphansDead, Live
<1>18. CurrentSafe'
  <2>1. ~attempt'[k].old => Stored(k)' /\ k \notin Listed'
    BY <1>3, <1>4, <1>6, <1>10, <1>12, <1>14 DEF Stored
  <2>2. ASSUME NEW j \in Keys \ {k}, attempt'[j].state = "CURRENT", OpenRow(j)', ~attempt'[j].old PROVE Stored(j)' /\ j \notin Listed'
    <3>1. j \notin previous /\ attempt[j].state = "CURRENT"
      BY <1>9, <2>2
    <3>2. OpenRow(j)
      BY <1>13, <2>2, <3>1
    <3> QED BY <1>2, <1>4, <1>9, <1>14, <2>2, <3>1, <3>2 DEF SafeParts, CurrentSafe, Stored
  <2> QED BY <2>1, <2>2 DEF CurrentSafe
<1>19. PendingSafe'
  <2>1. ASSUME NEW j \in Keys \ {k}, attempt'[j].state = "PENDING", request'[j] \in {"body", "put"}, ~attempt'[j].old
        PROVE  OpenRow(j)' => j \notin Listed' /\ (request'[j] = "put" => Stored(j)')
    <3>1. j \notin previous /\ attempt[j].state = "PENDING" /\ attempt'[j].old = attempt[j].old
      BY <1>9, <2>1
    <3>2. OpenRow(j)' = OpenRow(j)
      BY <1>13, <3>1
    <3> QED BY <1>2, <1>4, <1>10, <1>14, <2>1, <3>1, <3>2 DEF SafeParts, PendingSafe, Stored
  <2>2. attempt'[k].state # "PENDING"
    BY <1>3, <1>10
  <2> QED BY <2>1, <2>2 DEF PendingSafe
<1>20. ASSUME NEW j \in Keys, request'[j] = "stored", OpenRow(j)'
       PROVE  \E i \in Keys : Stands(i, j)'
  <2>1. CASE attempt'[j].upload = u /\ attempt'[j].part = attempt[k].part
    BY <1>3, <1>10, <2>1 DEF Stands
  <2>2. CASE ~(attempt'[j].upload = u /\ attempt'[j].part = attempt[k].part)
    <3>1. j # k
      BY <1>3, <1>10, <2>2
    <3>2. /\ request[j] = "stored" /\ attempt[j].state \notin {"none", "PENDING"}
          /\ attempt'[j].upload = attempt[j].upload /\ attempt'[j].part = attempt[j].part
      BY <1>2, <1>9, <1>10, <1>20, <3>1 DEF SafeParts, StoredReplaced
    <3>3. OpenRow(j)
      BY <1>13, <1>20, <3>1, <3>2
    <3>4. PICK i \in Keys : Stands(i, j)
      BY <1>2, <3>2, <3>3 DEF SafeParts, StoredReplaced
    <3>5. i # k /\ i \notin previous
      BY <1>4, <1>8, <2>2, <3>2, <3>4 DEF Stands
    <3> QED BY <1>9, <1>10, <3>2, <3>4, <3>5 DEF Stands
  <2> QED BY <2>1, <2>2
<1>21. \A j \in Keys : request'[j] = "stored" => attempt'[j].state \notin {"none", "PENDING"}
  BY <1>2, <1>3, <1>8, <1>9, <1>10 DEF SafeParts, StoredReplaced
<1>22. StoredReplaced'
  BY <1>20, <1>21 DEF StoredReplaced
<1> QED BY <1>16, <1>17, <1>18, <1>19, <1>22 DEF SafeParts

\* What a step of a completion does to its worker's list for cleanup: the list is
\* made at the acquisition.
AllKept(w) ==
    Past(w)' => \/ Past(w) /\ worker'[w].all = worker[w].all /\ worker'[w].upload = worker[w].upload
                \/ worker'[w].all = CurrentOf(worker[w].upload) /\ worker'[w].upload = worker[w].upload

\* AllOwn after a step that leaves the rows, or keeps them.
LEMMA AllOwnKept ==
    ASSUME KeptInv, RowsKept(attempt, attempt'), \A w \in Workers : AllKept(w) PROVE AllOwn'
<1> SUFFICES ASSUME NEW w \in Workers, Past(w)', NEW k \in worker'[w].all
             PROVE  attempt'[k].state \notin {"none", "PENDING"} /\ attempt'[k].upload = worker'[w].upload
  BY DEF AllOwn
<1>1. worker \in [Workers -> WorkerStates]
  BY DEF KeptInv, IInv, TypeOK
<1>2. k \in Keys /\ attempt[k].state \notin {"none", "PENDING"} /\ attempt[k].upload = worker'[w].upload
  <2>1. CASE Past(w) /\ worker'[w].all = worker[w].all /\ worker'[w].upload = worker[w].upload
    BY <1>1, <2>1 DEF KeptInv, AllOwn, WorkerStates
  <2>2. CASE worker'[w].all = CurrentOf(worker[w].upload) /\ worker'[w].upload = worker[w].upload
    BY <2>2 DEF CurrentOf
  <2> QED BY <2>1, <2>2 DEF AllKept
<1> QED BY <1>2 DEF RowsKept

\* A worker that leaves, or goes on with what it has.
LEMMA WorkerKeepsAll ==
    ASSUME KeptInv, NEW w \in Workers, NEW r, worker' = [worker EXCEPT ![w] = r],
           \/ r.pc \in {"idle", "acquire"}
           \/ Past(w) /\ r.all = worker[w].all /\ r.upload = worker[w].upload
           \/ r.all = CurrentOf(worker[w].upload) /\ r.upload = worker[w].upload
    PROVE  \A x \in Workers : AllKept(x)
<1>1. DOMAIN worker = Workers
  BY DEF KeptInv, IInv, TypeOK
<1>2. worker'[w] = r /\ \A x \in Workers \ {w} : worker'[x] = worker[x]
  BY <1>1
<1> QED BY <1>2 DEF AllKept, Past

\* The steps of a completion keep its list, and list nothing of an open upload.
LEMMA WorkerSteps ==
    ASSUME KeptInv, NEW w \in Workers,
           \/ \E u \in Uploads, sel \in Selections : Call(w, u, sel)
           \/ Acquire(w) \/ Refuse(w) \/ Replay(w) \/ Renew(w) \/ Check(w)
           \/ Recover(w) \/ BeginSink(w) \/ ReadPart(w) \/ CommitSink(w)
           \/ Settle(w) \/ Record(w) \/ AbortSink(w) \/ Fail(w) \/ Drop(w)
    PROVE  \A x \in Workers : AllKept(x)
<1>1. /\ worker \in [Workers -> WorkerStates]
      /\ worker[w].fence # "no" => Past(w)
  BY DEF KeptInv, IInv, TypeOK, WorkersHoldParts
<1>2. \A pc, f : [worker[w] EXCEPT !.pc = pc, !.fence = f].pc = pc
                 /\ [worker[w] EXCEPT !.pc = pc, !.fence = f].all = worker[w].all
                 /\ [worker[w] EXCEPT !.pc = pc, !.fence = f].upload = worker[w].upload
  BY <1>1 DEF WorkerStates
<1>3. ASSUME Leave(w) PROVE \A x \in Workers : AllKept(x)
  <2>1. Idle.pc = "idle"
    BY DEF Idle
  <2> QED BY <1>3, <2>1, WorkerKeepsAll DEF Leave
<1>4. ASSUME NEW pc, Goto(w, pc), Past(w) PROVE \A x \in Workers : AllKept(x)
  <2>1. PICK r : r = [worker[w] EXCEPT !.pc = pc, !.fence = "no"]
    OBVIOUS
  <2>2. worker' = [worker EXCEPT ![w] = r]
    BY <1>4, <2>1 DEF Goto
  <2> QED BY <1>2, <1>4, <2>1, <2>2, WorkerKeepsAll
<1>5. ASSUME Falter(w), Past(w) PROVE \A x \in Workers : AllKept(x)
  BY <1>3, <1>4, <1>5 DEF Falter
<1>6. CASE \E u \in Uploads, sel \in Selections : Call(w, u, sel)
  <2>1. PICK u \in Uploads, sel \in Selections : Call(w, u, sel)
    BY <1>6
  <2>2. PICK r : r = [Idle EXCEPT !.pc = "acquire", !.upload = u, !.sel = sel, !.open = ~upload[u].expired]
    OBVIOUS
  <2>3. r.pc = "acquire" /\ worker' = [worker EXCEPT ![w] = r]
    BY <2>1, <2>2 DEF Call, Idle
  <2> QED BY <2>3, WorkerKeepsAll
<1>7. CASE Acquire(w)
  <2>1. PICK r : r = [worker[w] EXCEPT !.pc = "recover", !.token = Row(w).token + 1,
                                       !.parts = Selected(worker[w].upload, worker[w].sel),
                                       !.all = CurrentOf(worker[w].upload)]
    OBVIOUS
  <2>2. r.all = CurrentOf(worker[w].upload) /\ r.upload = worker[w].upload
    BY <1>1, <2>1 DEF WorkerStates
  <2>3. worker' = [worker EXCEPT ![w] = r]
    BY <1>7, <2>1 DEF Acquire
  <2> QED BY <2>2, <2>3, WorkerKeepsAll
<1>8. CASE Refuse(w) \/ Replay(w) \/ Drop(w) \/ Record(w) \/ AbortSink(w)
  BY <1>3, <1>8 DEF Refuse, Replay, Drop, Record, AbortSink
<1>9. CASE Renew(w) \/ Check(w)
  <2>1. Past(w)
    BY <1>1, <1>9 DEF Renew, Check, Past
  <2>2. CASE Leave(w) \/ Falter(w)
    BY <1>3, <1>5, <2>1, <2>2
  <2>3. ASSUME NEW f, worker' = [worker EXCEPT ![w].fence = f] PROVE \A x \in Workers : AllKept(x)
    <3>1. PICK r : r = [worker[w] EXCEPT !.fence = f]
      OBVIOUS
    <3>2. r.all = worker[w].all /\ r.upload = worker[w].upload
      BY <1>1, <3>1 DEF WorkerStates
    <3>3. worker' = [worker EXCEPT ![w] = r]
      BY <2>3, <3>1
    <3> QED BY <2>1, <3>2, <3>3, WorkerKeepsAll
  <2> QED BY <1>9, <2>2, <2>3 DEF Renew, Check
<1>10. ASSUME NEW pc, NEW f, worker' = [worker EXCEPT ![w].pc = pc, ![w].fence = f], Past(w)
       PROVE  \A x \in Workers : AllKept(x)
  <2>1. PICK r : r = [worker[w] EXCEPT !.pc = pc, !.fence = f]
    OBVIOUS
  <2>2. worker' = [worker EXCEPT ![w] = r]
    BY <1>10, <2>1
  <2>3. Past(w) /\ r.all = worker[w].all /\ r.upload = worker[w].upload
    BY <1>2, <1>10, <2>1
  <2> QED BY <2>2, <2>3, WorkerKeepsAll
<1>11. CASE Recover(w) \/ Settle(w)
  <2>1. Past(w)
    BY <1>11 DEF Recover, Settle, Fenced, At, Past
  <2>2. Goto(w, "begin") \/ Leave(w) \/ worker' = [worker EXCEPT ![w].pc = "record", ![w].fence = "renewed"]
    BY <1>11 DEF Recover, Settle
  <2> QED BY <1>3, <1>4, <1>10, <2>1, <2>2
<1>12. CASE BeginSink(w) \/ CommitSink(w)
  <2>1. Past(w)
    BY <1>12 DEF BeginSink, CommitSink, Fenced, At, Past
  <2>2. Goto(w, "read") \/ Goto(w, "settle") \/ Leave(w)
    BY <1>12 DEF BeginSink, CommitSink
  <2> QED BY <1>3, <1>4, <2>1, <2>2
<1>13. CASE ReadPart(w)
  <2>1. Past(w)
    BY <1>13 DEF ReadPart, Fenced, At, Past
  <2>2. PICK k \in worker[w].parts \ worker[w].read :
          IF Stored(k)
          THEN worker' = [worker EXCEPT ![w].fence = "no", ![w].read = @ \cup {k},
                    ![w].pc = IF worker[w].parts = worker[w].read \cup {k} THEN "commit" ELSE "read"]
          ELSE Falter(w)
    BY <1>13 DEF ReadPart
  <2>3. CASE Falter(w)
    BY <1>5, <2>1, <2>3
  <2>4. CASE Stored(k)
    <3>1. PICK r : r = [worker[w] EXCEPT !.fence = "no", !.read = @ \cup {k},
                    !.pc = IF worker[w].parts = worker[w].read \cup {k} THEN "commit" ELSE "read"]
      OBVIOUS
    <3>2. r.all = worker[w].all /\ r.upload = worker[w].upload
      BY <1>1, <3>1 DEF WorkerStates
    <3>3. worker' = [worker EXCEPT ![w] = r]
      BY <2>2, <2>4, <3>1
    <3> QED BY <2>1, <3>2, <3>3, WorkerKeepsAll
  <2> QED BY <2>2, <2>3, <2>4
<1>14. CASE Fail(w)
  <2>1. Past(w) /\ Falter(w)
    BY <1>14 DEF Fail, Past
  <2> QED BY <1>5, <2>1
<1> QED BY <1>6, <1>7, <1>8, <1>9, <1>11, <1>12, <1>13, <1>14

\* The rows of parts are as they were; an upload does not open again.
LEMMA CompletionKeepsParts ==
    ASSUME KeptInv,
           \/ \E u \in Uploads : LapseLease(u) \/ ResolveDest(u)
           \/ \E w \in Workers :
                 \/ \E u \in Uploads, sel \in Selections : Call(w, u, sel)
                 \/ Acquire(w) \/ Refuse(w) \/ Replay(w) \/ Renew(w) \/ Check(w)
                 \/ Recover(w) \/ BeginSink(w) \/ ReadPart(w) \/ CommitSink(w)
                 \/ Settle(w) \/ Record(w) \/ AbortSink(w) \/ Fail(w) \/ Drop(w)
    PROVE  SafeParts' /\ UNCHANGED attempt
<1>1. /\ SafeParts /\ AllOwn /\ upload \in [Uploads -> UploadRows]
      /\ \A k \in Keys : request[k] = "unused" => attempt[k].state = "none"
      /\ \A k \in Keys : attempt[k].state # "none" => attempt[k].upload \in Uploads
  BY KeptFacts DEF SafeParts, RowsMade
<1>2. ASSUME UNCHANGED <<attempt, request, artifact, maker, deleted, orphans, scan, doomed>>,
             \A v \in Uploads : upload'[v].life = "OPEN" => upload[v].life = "OPEN"
      PROVE  SafeParts' /\ UNCHANGED attempt
  <2>1. \A k \in Keys : attempt[k].state # "none" =>
           maker'[attempt[k].upload] = "ready" /\ (OpenRow(k)' => OpenRow(k))
    BY <1>1, <1>2 DEF OpenRow, SafeParts, RowsMade
  <2> QED BY <1>1, <1>2, <2>1, KeptQuiet DEF Listed
<1>3. ASSUME NEW u \in Uploads, LapseLease(u) \/ ResolveDest(u) PROVE SafeParts' /\ UNCHANGED attempt
  <2>1. UNCHANGED <<attempt, request, artifact, maker, deleted, orphans, scan, doomed>>
    BY <1>3 DEF LapseLease, ResolveDest, partVars, cleaners
  <2>2. \A v \in Uploads : upload'[v].life = upload[v].life
    BY <1>1, <1>3 DEF LapseLease, ResolveDest, partVars, UploadRows
  <2> QED BY <1>2, <2>1, <2>2
<1>4. ASSUME NEW w \in Workers, Acquire(w) \/ Renew(w) PROVE SafeParts' /\ UNCHANGED attempt
  <2>1. UNCHANGED <<attempt, request, artifact, maker, deleted, orphans, scan, doomed>>
    BY <1>4 DEF Acquire, Renew, cleaners
  <2>2. worker[w].upload \in Uploads
    BY <1>4 DEF KeptInv, IInv, WorkersHoldParts, Acquire, Renew, At
  <2>3. \A v \in Uploads : upload'[v].life = "OPEN" => upload[v].life = "OPEN"
    <3>1. \/ upload' = upload
          \/ upload' = [upload EXCEPT ![worker[w].upload].lease = "live"]
          \/ upload' = [upload EXCEPT ![worker[w].upload].life = "COMPLETING", ![worker[w].upload].print = worker[w].sel,
                                      ![worker[w].upload].lease = "live", ![worker[w].upload].token = @ + 1]
      BY <1>4 DEF Acquire, Renew
    <3> QED BY <1>1, <2>2, <3>1 DEF UploadRows
  <2> QED BY <1>2, <2>1, <2>3
<1>5. ASSUME NEW w \in Workers,
             \/ \E u \in Uploads, sel \in Selections : Call(w, u, sel)
             \/ Refuse(w) \/ Replay(w) \/ Check(w) \/ Recover(w) \/ BeginSink(w) \/ ReadPart(w)
             \/ CommitSink(w) \/ Settle(w) \/ AbortSink(w) \/ Fail(w) \/ Drop(w)
      PROVE  SafeParts' /\ UNCHANGED attempt
  <2>1. UNCHANGED partVars
    BY <1>5 DEF Call, Refuse, Replay, Check, Recover, BeginSink, ReadPart, CommitSink, Settle, AbortSink, Fail, Drop
  <2> QED BY <1>2, <2>1 DEF partVars
<1>6. ASSUME NEW w \in Workers, Record(w) PROVE SafeParts' /\ UNCHANGED attempt
  <2>1. /\ UNCHANGED <<attempt, request, artifact, maker, deleted, orphans, scan>>
        /\ doomed' \subseteq doomed \cup worker[w].all
        /\ \/ upload' = upload /\ doomed' = doomed
           \/ /\ Holds(w)
              /\ upload' = [upload EXCEPT ![worker[w].upload].life = "COMPLETED", ![worker[w].upload].lease = "none",
                                          ![worker[w].upload].result = Dest(w).parts]
    BY <1>6 DEF Record
  <2>2. Past(w) /\ worker[w].upload \in Uploads /\ worker[w].all \subseteq Keys
    BY <1>6 DEF Record, Fenced, At, Past, KeptInv, IInv, WorkersHoldParts, TypeOK, WorkerStates
  <2>3. \A k \in worker[w].all : attempt[k].state \notin {"none", "PENDING"} /\ attempt[k].upload = worker[w].upload
    BY <1>1, <2>2 DEF AllOwn
  <2>4. CASE upload' = upload /\ doomed' = doomed
    BY <1>2, <2>1, <2>4
  <2>5. CASE upload' = [upload EXCEPT ![worker[w].upload].life = "COMPLETED", ![worker[w].upload].lease = "none",
                                      ![worker[w].upload].result = Dest(w).parts]
    <3>1. upload'[worker[w].upload].life = "COMPLETED" /\ \A v \in Uploads \ {worker[w].upload} : upload'[v] = upload[v]
      BY <1>1, <2>2, <2>5 DEF UploadRows
    <3>2. \A k \in Keys : attempt[k].state # "none" => (OpenRow(k)' => OpenRow(k))
      BY <1>1, <2>1, <3>1 DEF OpenRow
    <3>3. \A k \in worker[w].all : ~OpenRow(k)' /\ attempt[k].state # "none" /\ request[k] # "unused"
      BY <1>1, <2>1, <2>2, <2>3, <3>1 DEF OpenRow
    <3>4. UNCHANGED <<attempt, request, artifact, maker, deleted, orphans, scan>> /\ doomed' \subseteq doomed \cup worker[w].all
      BY <2>1
    <3>5. \A k \in worker[w].all :
             /\ attempt[k].state # "none" /\ request[k] # "unused"
             /\ OpenRow(k)' => attempt[k].old \/ attempt[k].state \notin {"CURRENT", "PENDING"}
      BY <3>3
    <3>6. SafeParts /\ worker[w].all \subseteq Keys
      BY <1>1, <2>2
    <3> HIDE <1>1, <2>1, <2>2, <2>3, <2>5, <3>1, <3>3
    <3>7. SafeParts'
      BY <3>2, <3>4, <3>5, <3>6, KeptListing
    <3> QED BY <3>4, <3>7
  <2> QED BY <2>1, <2>4, <2>5
<1> QED BY <1>3, <1>4, <1>5, <1>6

\* No upload, no part and no worker at the start.
LEMMA KeptInitially == ASSUME Init PROVE KeptInv
<1>1. IInv
  BY InitEstablishes
<1>2. /\ attempt = [k \in Keys |-> NoAttempt] /\ request = [k \in Keys |-> "unused"]
      /\ artifact = [k \in Keys |-> "absent"] /\ doomed = {} /\ deleted = {} /\ orphans = {} /\ scan = NoScan
      /\ worker = [w \in Workers |-> Idle]
  BY DEF Init, PartsInit
<1>3. NoAttempt.state = "none" /\ Idle.pc = "idle"
  BY DEF NoAttempt, Idle
<1>4. \A k \in Keys : attempt[k].state = "none" /\ request[k] = "unused" /\ artifact[k] = "absent"
  BY <1>2, <1>3
<1>5. RowsMade /\ OrphansDead /\ ScanSafe /\ CurrentSafe /\ PendingSafe /\ StoredReplaced
  BY <1>2, <1>4 DEF RowsMade, OrphansDead, ScanSafe, NoScan, CurrentSafe, PendingSafe, StoredReplaced, Listed
<1>6. AllOwn
  BY <1>2, <1>3 DEF AllOwn, Past
<1> QED BY <1>1, <1>5, <1>6 DEF KeptInv

\* Every step keeps the invariant.
LEMMA KeptStep == ASSUME KeptInv, [Next]_vars PROVE KeptInv'
<1>1. IInv'
  BY NextPreserves DEF KeptInv
<1>2. CASE Alone(PartSteps)
  <2>1. UNCHANGED <<worker, dest, answered>> /\ PartSteps
    BY <1>2 DEF Alone
  <2>2. SafeParts'
    BY <2>1, KeptUploads, KeptKeys, KeptScan, KeptBegin, KeptAge, KeptRelease, KeptDropped, KeptCommit DEF PartSteps
  <2>3. Keeps
    BY <1>2, PartStep DEF KeptInv, IInv, PartInv
  <2>4. \A w \in Workers : AllKept(w)
    BY <2>1 DEF AllKept, Past
  <2>5. AllOwn'
    BY <2>3, <2>4, AllOwnKept DEF Keeps
  <2> QED BY <1>1, <2>2, <2>5 DEF KeptInv, SafeParts
<1>3. CASE \E u \in Uploads : LapseLease(u) \/ ResolveDest(u)
  <2>1. UNCHANGED worker
    BY <1>3 DEF LapseLease, ResolveDest
  <2>2. SafeParts' /\ UNCHANGED attempt
    BY <1>3, CompletionKeepsParts
  <2>3. (\A w \in Workers : AllKept(w)) /\ RowsKept(attempt, attempt')
    BY <2>1, <2>2 DEF AllKept, Past, RowsKept
  <2> QED BY <1>1, <2>2, <2>3, AllOwnKept DEF KeptInv, SafeParts
<1>4. ASSUME NEW w \in Workers,
             \/ \E u \in Uploads, sel \in Selections : Call(w, u, sel)
             \/ Acquire(w) \/ Refuse(w) \/ Replay(w) \/ Renew(w) \/ Check(w)
             \/ Recover(w) \/ BeginSink(w) \/ ReadPart(w) \/ CommitSink(w)
             \/ Settle(w) \/ Record(w) \/ AbortSink(w) \/ Fail(w) \/ Drop(w)
      PROVE  KeptInv'
  <2>1. SafeParts' /\ UNCHANGED attempt
    BY <1>4, CompletionKeepsParts
  <2>2. \A x \in Workers : AllKept(x)
    BY <1>4, WorkerSteps
  <2>3. RowsKept(attempt, attempt')
    BY <2>1 DEF RowsKept
  <2> QED BY <1>1, <2>1, <2>2, <2>3, AllOwnKept DEF KeptInv, SafeParts
<1>5. CASE UNCHANGED vars
  <2>1. UNCHANGED <<upload, attempt, artifact, request, maker, doomed, deleted, orphans, scan, worker>>
    BY <1>5 DEF vars
  <2>2. SafeParts'
    <3>1. \A k \in Keys : attempt[k].state # "none" =>
             maker'[attempt[k].upload] = "ready" /\ (OpenRow(k)' => OpenRow(k))
      BY <2>1 DEF KeptInv, RowsMade, OpenRow
    <3> QED BY <2>1, <3>1, KeptFacts, KeptQuiet DEF Listed
  <2>3. (\A w \in Workers : AllKept(w)) /\ RowsKept(attempt, attempt')
    BY <2>1 DEF AllKept, Past, RowsKept
  <2> QED BY <1>1, <2>2, <2>3, AllOwnKept DEF KeptInv, SafeParts
<1> QED BY <1>2, <1>3, <1>4, <1>5 DEF Next

\* AcknowledgedPartKept for every number of uploads, parts, requests and workers:
\* neither the sweep, nor a replacement or a reaped upload, nor the orphan scan
\* with its reads apart takes away a part that was committed within the grace
\* (commit_part, cleanup_candidates, reap_expired, reconcile_staged_artifacts).
THEOREM AcknowledgedPartsKept == Spec => []AcknowledgedPartKept
<1>1. Init => KeptInv
  BY KeptInitially
<1>2. KeptInv /\ [Next]_vars => KeptInv'
  BY KeptStep
<1>3. KeptInv => AcknowledgedPartKept
  <2> SUFFICES ASSUME KeptInv, NEW k \in Keys, request[k] = "stored", upload[attempt[k].upload].life = "OPEN"
               PROVE  /\ attempt[k].state = "CURRENT" /\ ~attempt[k].old => Stored(k)
                      /\ \E j \in Keys :
                            /\ request[j] = "stored"
                            /\ attempt[j].upload = attempt[k].upload /\ attempt[j].part = attempt[k].part
                            /\ attempt[j].old \/ (attempt[j].state = "CURRENT" /\ Stored(j))
    BY DEF AcknowledgedPartKept
  <2>1. PICK j \in Keys : Stands(j, k)
    BY DEF KeptInv, StoredReplaced, OpenRow
  <2>2. attempt[j].old \/ (attempt[j].state = "CURRENT" /\ Stored(j))
    BY <2>1 DEF Stands, KeptInv, CurrentSafe, OpenRow
  <2>3. attempt[k].state = "CURRENT" /\ ~attempt[k].old => Stored(k)
    BY DEF KeptInv, CurrentSafe, OpenRow
  <2> QED BY <2>1, <2>2, <2>3 DEF Stands
<1> QED BY <1>1, <1>2, <1>3, PTL DEF Spec

-----------------------------------------------------------------------------
(* The counters add up: every step changes at most one row that counts, and *)
(* moves the counters of its upload and scopes by the difference.           *)

\* An upload that the retirement pass found empty, or that is deleted, has no rows.
EndedAreEmpty ==
    /\ \A u \in retiring : AttemptsOf(u) = {}
    /\ \A u \in Uploads : upload[u].life = "gone" => AttemptsOf(u) = {}

\* AccountingExact is inductive together with this.
BooksInv == IInv /\ EndedAreEmpty /\ AccountingExact

\* What the row of a key accounts for.
StagedOf(k) == IF Live(k) THEN Freed(k).staged ELSE 0
ReservedOf(k) == IF Live(k) THEN Freed(k).reserved ELSE 0

\* Row j is live before and after, or neither, for the same upload and bytes.
SameRow(j) ==
    /\ Live(j)' <=> Live(j)
    /\ Live(j) => attempt'[j].upload = attempt[j].upload
    /\ Freed(j)' = Freed(j)

\* At most the row of key k changed, and it is a row of upload u.
OnlyRow(k, u) ==
    /\ \A j \in Keys \ {k} : SameRow(j)
    /\ Live(k) => attempt[k].upload = u
    /\ Live(k)' => attempt'[k].upload = u

\* A row holds natural numbers of bytes.
LEMMA FreedNat ==
  ASSUME TypeOK, NEW k \in Keys
  PROVE  /\ Freed(k).staged \in Nat /\ Freed(k).reserved \in Nat
         /\ StagedOf(k) \in Nat /\ ReservedOf(k) \in Nat
  BY DEF TypeOK, AttemptRows, Amounts, Freed, StagedOf, ReservedOf

\* The same of the next state.
LEMMA FreedNatNext ==
  ASSUME TypeOK', NEW k \in Keys
  PROVE  /\ Freed(k)'.staged \in Nat /\ Freed(k)'.reserved \in Nat
         /\ StagedOf(k)' \in Nat /\ ReservedOf(k)' \in Nat
  BY DEF TypeOK, AttemptRows, Amounts, Freed, StagedOf, ReservedOf

\* SumMove for sets of keys.
LEMMA KeySums ==
  ASSUME NEW A, NEW B, NEW S \in SUBSET Keys, NEW T \in SUBSET Keys, NEW k,
         \A j : j # k => (j \in S <=> j \in T),
         \A j \in Keys : A[j] \in Int /\ B[j] \in Int,
         \A j \in Keys : j # k => A[j] = B[j]
  PROVE  /\ SumFunctionOnSet(A, S) \in Int
         /\ k \in S /\ k \in T => SumFunctionOnSet(B, T) = SumFunctionOnSet(A, S) - A[k] + B[k]
         /\ k \in S /\ k \notin T => SumFunctionOnSet(B, T) = SumFunctionOnSet(A, S) - A[k]
         /\ k \notin S /\ k \in T => SumFunctionOnSet(B, T) = SumFunctionOnSet(A, S) + B[k]
         /\ k \notin S /\ k \notin T => SumFunctionOnSet(B, T) = SumFunctionOnSet(A, S)
<1>1. IsFiniteSet(S) /\ IsFiniteSet(T)
  BY StagedPartsAssumption, FS_Subset
<1>2. /\ \A j \in S : A[j] \in Int
      /\ \A j \in T : B[j] \in Int
      /\ \A j \in S : j # k => A[j] = B[j]
  OBVIOUS
<1>3. SumFunctionOnSet(A, S) \in Int
  BY <1>1, <1>2, SumInt
<1> QED BY <1>1, <1>2, <1>3, SumMove

\* The sums over a set of live rows, before and after at most one row changed.
LEMMA RowsMove ==
  ASSUME TypeOK, TypeOK', NEW k \in Keys, NEW u, OnlyRow(k, u),
         NEW S \in SUBSET Keys, NEW T \in SUBSET Keys, \A j : j # k => (j \in S <=> j \in T),
         NEW x, x = SumFunctionOnSet([j \in Keys |-> Freed(j)'.staged], T),
         NEW y, y = SumFunctionOnSet([j \in Keys |-> Freed(j)'.reserved], T)
  PROVE  /\ (k \in S <=> Live(k)) /\ (k \in T <=> Live(k)') =>
               /\ x = StagedIn(S) + StagedOf(k)' - StagedOf(k)
               /\ y = ReservedIn(S) + ReservedOf(k)' - ReservedOf(k)
         /\ k \notin S /\ k \notin T => x = StagedIn(S) /\ y = ReservedIn(S)
         /\ StagedIn(S) \in Int /\ ReservedIn(S) \in Int
<1> DEFINE A == [j \in Keys |-> Freed(j).staged]
           B == [j \in Keys |-> Freed(j)'.staged]
           C == [j \in Keys |-> Freed(j).reserved]
           D == [j \in Keys |-> Freed(j)'.reserved]
<1>2. \A j \in Keys : A[j] \in Int /\ B[j] \in Int /\ C[j] \in Int /\ D[j] \in Int
  BY FreedNat, FreedNatNext
<1>3. /\ \A j \in Keys : j # k => A[j] = B[j]
      /\ \A j \in Keys : j # k => C[j] = D[j]
  BY DEF OnlyRow, SameRow
<1>4. /\ A[k] = Freed(k).staged /\ B[k] = Freed(k)'.staged
      /\ C[k] = Freed(k).reserved /\ D[k] = Freed(k)'.reserved
  OBVIOUS
<1>5. x = SumFunctionOnSet(B, T) /\ y = SumFunctionOnSet(D, T)
  OBVIOUS
<1>6. StagedIn(S) = SumFunctionOnSet(A, S) /\ ReservedIn(S) = SumFunctionOnSet(C, S)
  BY DEF StagedIn, ReservedIn
<1> HIDE DEF A, B, C, D
<1>7. SumFunctionOnSet(A, S) \in Int /\ SumFunctionOnSet(C, S) \in Int
  BY <1>2, <1>3, KeySums
<1>8. /\ k \in S /\ k \in T => x = SumFunctionOnSet(A, S) - A[k] + B[k]
      /\ k \in S /\ k \notin T => x = SumFunctionOnSet(A, S) - A[k]
      /\ k \notin S /\ k \in T => x = SumFunctionOnSet(A, S) + B[k]
      /\ k \notin S /\ k \notin T => x = SumFunctionOnSet(A, S)
  BY <1>2, <1>3, <1>5, KeySums
<1>9. /\ k \in S /\ k \in T => y = SumFunctionOnSet(C, S) - C[k] + D[k]
      /\ k \in S /\ k \notin T => y = SumFunctionOnSet(C, S) - C[k]
      /\ k \notin S /\ k \in T => y = SumFunctionOnSet(C, S) + D[k]
      /\ k \notin S /\ k \notin T => y = SumFunctionOnSet(C, S)
  BY <1>2, <1>3, <1>5, KeySums
<1>10. /\ StagedOf(k) = IF Live(k) THEN A[k] ELSE 0
       /\ ReservedOf(k) = IF Live(k) THEN C[k] ELSE 0
       /\ StagedOf(k)' = IF Live(k)' THEN B[k] ELSE 0
       /\ ReservedOf(k)' = IF Live(k)' THEN D[k] ELSE 0
  BY <1>4 DEF StagedOf, ReservedOf
<1>11. A[k] \in Int /\ B[k] \in Int /\ C[k] \in Int /\ D[k] \in Int
  BY <1>2
<1> QED BY <1>6, <1>7, <1>8, <1>9, <1>10, <1>11

\* The books agree after a step that changes the row of key k and moves the
\* counters of its upload and scopes by the difference.
LEMMA BooksMove ==
  ASSUME TypeOK, TypeOK', AccountingExact, NEW k \in Keys, NEW u \in Uploads, OnlyRow(k, u),
         \A v \in Uploads :
            /\ upload'[v].life # "gone" => upload[v].life # "gone"
            /\ upload'[v].staged =
                  upload[v].staged + (IF v = u THEN StagedOf(k)' - StagedOf(k) ELSE 0)
            /\ upload'[v].reserved =
                  upload[v].reserved + (IF v = u THEN ReservedOf(k)' - ReservedOf(k) ELSE 0),
         \A s \in Scopes :
            /\ quota'[s].staged =
                  quota[s].staged + (IF s \in ScopesOf(u) THEN StagedOf(k)' - StagedOf(k) ELSE 0)
            /\ quota'[s].reserved =
                  quota[s].reserved + (IF s \in ScopesOf(u) THEN ReservedOf(k)' - ReservedOf(k) ELSE 0)
  PROVE  AccountingExact'
<1>1. ASSUME NEW v \in Uploads, upload'[v].life # "gone"
      PROVE  /\ upload'[v].staged = StagedIn(AttemptsOf(v))'
             /\ upload'[v].reserved = ReservedIn(AttemptsOf(v))'
  <2> DEFINE S == AttemptsOf(v)
             T == {j \in Keys : Live(j)' /\ attempt'[j].upload = v}
             x == SumFunctionOnSet([j \in Keys |-> Freed(j)'.staged], T)
             y == SumFunctionOnSet([j \in Keys |-> Freed(j)'.reserved], T)
  <2>1. StagedIn(AttemptsOf(v))' = x /\ ReservedIn(AttemptsOf(v))' = y
    BY DEF StagedIn, ReservedIn, AttemptsOf
  <2>2. S \in SUBSET Keys /\ T \in SUBSET Keys /\ \A j : j # k => (j \in S <=> j \in T)
    BY DEF AttemptsOf, OnlyRow, SameRow
  <2>3. (v = u) \in BOOLEAN /\ (k \in S <=> (Live(k) /\ v = u)) /\ (k \in T <=> (Live(k)' /\ v = u))
    BY DEF AttemptsOf, OnlyRow
  <2>4. upload[v].staged = StagedIn(S) /\ upload[v].reserved = ReservedIn(S)
    BY <1>1 DEF AccountingExact
  <2> HIDE DEF S, T
  <2>5. /\ x = StagedIn(S) + (IF v = u THEN StagedOf(k)' - StagedOf(k) ELSE 0)
        /\ y = ReservedIn(S) + (IF v = u THEN ReservedOf(k)' - ReservedOf(k) ELSE 0)
    <3>1. StagedIn(S) \in Int /\ ReservedIn(S) \in Int
      BY <2>2, RowsMove
    <3>2. CASE v = u
      BY <2>2, <2>3, <3>1, <3>2, RowsMove
    <3>3. CASE ~(v = u)
      BY <2>2, <2>3, <3>1, <3>3, RowsMove
    <3> QED BY <3>2, <3>3
  <2> HIDE DEF x, y
  <2> QED BY <2>1, <2>4, <2>5
<1>2. ASSUME NEW s \in Scopes
      PROVE  /\ quota'[s].staged = StagedIn(AttemptsIn(s))'
             /\ quota'[s].reserved = ReservedIn(AttemptsIn(s))'
  <2> DEFINE S == AttemptsIn(s)
             T == {j \in Keys : Live(j)' /\ s \in ScopesOf(attempt'[j].upload)}
             x == SumFunctionOnSet([j \in Keys |-> Freed(j)'.staged], T)
             y == SumFunctionOnSet([j \in Keys |-> Freed(j)'.reserved], T)
  <2>1. StagedIn(AttemptsIn(s))' = x /\ ReservedIn(AttemptsIn(s))' = y
    BY DEF StagedIn, ReservedIn, AttemptsIn, ScopesOf
  <2>2. S \in SUBSET Keys /\ T \in SUBSET Keys /\ \A j : j # k => (j \in S <=> j \in T)
    BY DEF AttemptsIn, OnlyRow, SameRow
  <2>3. /\ (s \in ScopesOf(u)) \in BOOLEAN
        /\ k \in S <=> (Live(k) /\ s \in ScopesOf(u))
        /\ k \in T <=> (Live(k)' /\ s \in ScopesOf(u))
    BY DEF AttemptsIn, OnlyRow
  <2>4. quota[s].staged = StagedIn(S) /\ quota[s].reserved = ReservedIn(S)
    BY <1>2 DEF AccountingExact
  <2> HIDE DEF S, T
  <2>5. /\ x = StagedIn(S) + (IF s \in ScopesOf(u) THEN StagedOf(k)' - StagedOf(k) ELSE 0)
        /\ y = ReservedIn(S) + (IF s \in ScopesOf(u) THEN ReservedOf(k)' - ReservedOf(k) ELSE 0)
    <3>1. StagedIn(S) \in Int /\ ReservedIn(S) \in Int
      BY <2>2, RowsMove
    <3>2. CASE s \in ScopesOf(u)
      BY <2>2, <2>3, <3>1, <3>2, RowsMove
    <3>3. CASE ~(s \in ScopesOf(u))
      BY <2>2, <2>3, <3>1, <3>3, RowsMove
    <3> QED BY <3>2, <3>3
  <2> HIDE DEF x, y
  <2> QED BY <2>1, <2>4, <2>5
<1> QED BY <1>1, <1>2 DEF AccountingExact

\* The rows keep their counters, and one that is deleted has no attempts.
CountersKept ==
    \A v \in Uploads :
        /\ upload'[v].staged = upload[v].staged /\ upload'[v].reserved = upload[v].reserved
        /\ upload[v].life = "gone" => upload'[v].life = "gone"
        /\ upload'[v].life = "gone" => upload[v].life = "gone" \/ AttemptsOf(v) = {}

\* A step that leaves the attempts and the counters alone.
LEMMA BooksKept ==
  ASSUME BooksInv, IInv', UNCHANGED <<attempt, quota>>, CountersKept,
         \A v \in retiring' : v \in retiring \/ AttemptsOf(v) = {}
  PROVE  BooksInv'
<1>1. \A v \in Uploads : AttemptsOf(v)' = AttemptsOf(v)
  BY DEF AttemptsOf, Live
<1>2. \A v \in retiring' : AttemptsOf(v)' = {}
  BY DEF AttemptsOf, Live, BooksInv, EndedAreEmpty
<1>3. EndedAreEmpty'
  BY <1>1, <1>2 DEF EndedAreEmpty, BooksInv, CountersKept
<1>4. \A v \in Uploads : /\ StagedIn(AttemptsOf(v))' = StagedIn(AttemptsOf(v))
                         /\ ReservedIn(AttemptsOf(v))' = ReservedIn(AttemptsOf(v))
  BY DEF StagedIn, ReservedIn, AttemptsOf, Live, Freed
<1>5. \A s \in Scopes : /\ StagedIn(AttemptsIn(s))' = StagedIn(AttemptsIn(s))
                        /\ ReservedIn(AttemptsIn(s))' = ReservedIn(AttemptsIn(s))
  BY DEF StagedIn, ReservedIn, AttemptsIn, Live, Freed, ScopesOf
<1>6. AccountingExact'
  BY <1>4, <1>5 DEF AccountingExact, BooksInv, CountersKept
<1> QED BY <1>3, <1>6 DEF BooksInv

\* Deleting an upload row that has no attempts changes no attempt.
LEMMA DroppedKeeps ==
  ASSUME TypeOK, NEW u \in Uploads, Dropped(u), AttemptsOf(u) = {}
  PROVE  UNCHANGED attempt /\ CountersKept
<1>1. attempt' = attempt
  BY DEF Dropped, TypeOK
<1>2. CountersKept
  BY DEF Dropped, TypeOK, CountersKept, UploadRows
<1> QED BY <1>1, <1>2

\* The steps that create, end and delete uploads.
LEMMA BooksUploads ==
  ASSUME BooksInv, IInv', NEW u \in Uploads,
         \/ CreateCount(u) \/ CreateInsert(u)
         \/ Abort(u) \/ ReapSelect(u) \/ ReapUpdate(u)
         \/ RetireSelect(u) \/ Retire(u) \/ DeleteTerminal(u)
         \/ ExpireUpload(u) \/ BuryUpload(u)
  PROVE  BooksInv'
<1>1. TypeOK /\ UploadsProgress
  BY DEF BooksInv, IInv
<1>2. CASE \/ CreateCount(u) \/ CreateInsert(u) \/ Abort(u) \/ ReapSelect(u) \/ ReapUpdate(u)
           \/ RetireSelect(u) \/ ExpireUpload(u) \/ BuryUpload(u)
  <2>1. UNCHANGED <<attempt, quota>> /\ \A v \in retiring' : v \in retiring \/ AttemptsOf(v) = {}
    BY <1>2 DEF CreateCount, CreateInsert, Abort, ReapSelect, ReapUpdate, RetireSelect, ExpireUpload,
                BuryUpload, cleaners
  <2>2. CountersKept
    <3>1. CASE CreateCount(u) \/ ReapSelect(u) \/ RetireSelect(u)
      BY <3>1 DEF CreateCount, ReapSelect, RetireSelect, CountersKept
    <3>2. CASE CreateInsert(u)
      BY <1>1, <3>2 DEF CreateInsert, CountersKept, TypeOK, UploadRows, UploadsProgress
    <3>3. CASE Abort(u)
      BY <1>1, <3>3 DEF Abort, CountersKept, TypeOK, UploadRows
    <3>4. CASE ReapUpdate(u)
      <4> DEFINE next == IF upload[u].life = "OPEN" THEN "EXPIRED" ELSE upload[u].life
      <4>1. upload' = [upload EXCEPT ![u] = [upload[u] EXCEPT !.life = next]]
        BY <3>4 DEF ReapUpdate
      <4>2. next = "gone" <=> upload[u].life = "gone"
        OBVIOUS
      <4> HIDE DEF next
      <4> QED BY <1>1, <4>1, <4>2 DEF CountersKept, TypeOK, UploadRows
    <3>5. CASE ExpireUpload(u)
      BY <1>1, <3>5 DEF ExpireUpload, CountersKept, TypeOK, UploadRows
    <3>6. CASE BuryUpload(u)
      BY <1>1, <3>6 DEF BuryUpload, CountersKept, TypeOK, UploadRows
    <3> QED BY <1>2, <3>1, <3>2, <3>3, <3>4, <3>5, <3>6
  <2> QED BY <2>1, <2>2, BooksKept
<1>3. CASE Retire(u) \/ DeleteTerminal(u)
  <2>1. AttemptsOf(u) = {} /\ Dropped(u) /\ UNCHANGED quota /\ retiring' \subseteq retiring
    BY <1>3 DEF Retire, DeleteTerminal, BooksInv, EndedAreEmpty, cleaners
  <2> QED BY <1>1, <2>1, DroppedKeeps, BooksKept
<1> QED BY <1>2, <1>3

\* The steps of a request and of the cleaners that write no row.
LEMMA BooksKeys ==
  ASSUME BooksInv, IInv', NEW k \in Keys,
         \/ PutArtifact(k) \/ AbandonBody(k) \/ AbandonCommit(k)
         \/ Sweep(k) \/ DeleteArtifact(k) \/ CleanupFails(k)
         \/ DeleteOrphan(k) \/ AgeArtifact(k) \/ LandArtifact(k)
  PROVE  BooksInv'
<1>1. UNCHANGED <<upload, attempt, quota, retiring>>
  BY DEF PutArtifact, AbandonBody, AbandonCommit, Sweep, DeleteArtifact, CleanupFails,
         DeleteOrphan, AgeArtifact, LandArtifact, cleaners
<1>2. CountersKept
  BY <1>1 DEF CountersKept
<1> QED BY <1>1, <1>2, BooksKept

\* What Charged adds to the counters.
LEMMA ChargedCounters ==
  ASSUME NEW u \in Uploads, NEW a, NEW b, quota' = Charged(u, a, b), NEW s \in Scopes
  PROVE  /\ s \in ScopesOf(u) => /\ quota'[s].staged = quota[s].staged + a
                                 /\ quota'[s].reserved = quota[s].reserved + b
         /\ s \notin ScopesOf(u) => quota'[s] = quota[s]
  BY DEF Charged

\* The counters of a quota row are integers.
LEMMA QuotaInt ==
  ASSUME TypeOK
  PROVE  /\ \A s \in Scopes : quota[s].staged \in Int /\ quota[s].reserved \in Int
         /\ \A v \in Uploads : upload[v].staged \in Int /\ upload[v].reserved \in Int
  BY DEF TypeOK, Amounts, UploadRows

\* A step that changes one row, of an upload that is not deleted.
LEMMA BooksRow ==
  ASSUME BooksInv, IInv', NEW k \in Keys, NEW u \in Uploads, OnlyRow(k, u),
         UNCHANGED retiring,
         \/ Live(k)' => Live(k)
         \/ u \notin retiring /\ upload[u].life # "gone",
         NEW a \in Int, NEW b \in Int,
         StagedOf(k)' = StagedOf(k) + a, ReservedOf(k)' = ReservedOf(k) + b,
         \A v \in Uploads :
            /\ upload'[v].life = upload[v].life
            /\ upload'[v].staged = upload[v].staged + (IF v = u THEN a ELSE 0)
            /\ upload'[v].reserved = upload[v].reserved + (IF v = u THEN b ELSE 0),
         quota' = Charged(u, a, b)
  PROVE  BooksInv'
<1>1. TypeOK /\ TypeOK' /\ AccountingExact
  BY DEF BooksInv, IInv
<1>2. AccountingExact'
  <2>1. StagedOf(k)' - StagedOf(k) = a /\ ReservedOf(k)' - ReservedOf(k) = b
    BY <1>1, FreedNat
  <2>2. \A s \in Scopes :
           /\ quota'[s].staged = quota[s].staged + (IF s \in ScopesOf(u) THEN a ELSE 0)
           /\ quota'[s].reserved = quota[s].reserved + (IF s \in ScopesOf(u) THEN b ELSE 0)
    BY <1>1, ChargedCounters, QuotaInt
  <2> QED BY <1>1, <2>1, <2>2, BooksMove
<1>3. ASSUME NEW v, v \in retiring \/ upload[v].life = "gone", AttemptsOf(v) = {}
      PROVE  AttemptsOf(v)' = {}
  <2> SUFFICES ASSUME NEW j \in Keys, Live(j)', attempt'[j].upload = v PROVE FALSE
    BY DEF AttemptsOf
  <2>1. ~(Live(j) /\ attempt[j].upload = v)
    BY <1>3 DEF AttemptsOf
  <2>2. j = k
    BY <2>1 DEF OnlyRow, SameRow
  <2>3. v = u /\ ~Live(k)
    BY <2>1, <2>2 DEF OnlyRow
  <2> QED BY <1>3, <2>2, <2>3
<1>4. EndedAreEmpty'
  BY <1>3 DEF BooksInv, EndedAreEmpty
<1> QED BY <1>2, <1>4 DEF BooksInv

\* begin_part reserves what its row holds.
LEMMA BooksBegin ==
  ASSUME BooksInv, IInv', NEW k \in Keys, NEW u \in Uploads, NEW p \in Parts,
         NEW n \in Sizes \ {0}, BeginPart(k, u, p, n)
  PROVE  BooksInv'
<1> DEFINE row == [NoAttempt EXCEPT !.state = "PENDING", !.upload = u, !.part = p, !.reserved = n]
<1>1. TypeOK /\ RequestsOwnRows /\ UploadsProgress /\ n \in Nat
  BY StagedPartsAssumption DEF BooksInv, IInv
<1>2. /\ attempt' = [attempt EXCEPT ![k] = row]
      /\ upload' = [upload EXCEPT ![u] = [upload[u] EXCEPT !.reserved = upload[u].reserved + n]]
      /\ quota' = Charged(u, 0, n) /\ UNCHANGED retiring
      /\ request[k] = "unused" /\ upload[u].life = "OPEN"
  BY DEF BeginPart, cleaners
<1>3. row.state = "PENDING" /\ row.upload = u /\ row.reserved = n
  BY DEF NoAttempt
<1> HIDE DEF row
<1>4. ~Live(k) /\ StagedOf(k) = 0 /\ ReservedOf(k) = 0
  BY <1>1, <1>2 DEF RequestsOwnRows, Live, StagedOf, ReservedOf
<1>5. attempt'[k] = row /\ \A j \in Keys \ {k} : attempt'[j] = attempt[j]
  BY <1>1, <1>2 DEF TypeOK
<1>6. Live(k)' /\ StagedOf(k)' = 0 /\ ReservedOf(k)' = n
  BY <1>3, <1>5 DEF Live, StagedOf, ReservedOf, Freed
<1>7. OnlyRow(k, u)
  BY <1>3, <1>4, <1>5 DEF OnlyRow, SameRow, Live, Freed
<1>8. \A v \in Uploads : /\ upload'[v].life = upload[v].life
                         /\ upload'[v].staged = upload[v].staged
                         /\ upload'[v].reserved = upload[v].reserved + (IF v = u THEN n ELSE 0)
  BY <1>1, <1>2, QuotaInt DEF TypeOK, UploadRows
<1>9. u \notin retiring /\ upload[u].life # "gone"
  BY <1>1, <1>2 DEF UploadsProgress, Terminal
<1>10. /\ StagedOf(k)' = StagedOf(k) + 0 /\ ReservedOf(k)' = ReservedOf(k) + n
       /\ \A v \in Uploads : upload'[v].staged = upload[v].staged + (IF v = u THEN 0 ELSE 0)
  BY <1>1, <1>4, <1>6, <1>8, QuotaInt
<1> QED BY <1>1, <1>2, <1>7, <1>8, <1>9, <1>10, BooksRow

\* release_artifact returns what the deleted row held, once.
LEMMA BooksRelease ==
  ASSUME BooksInv, IInv', NEW k \in Keys, DiscardPart(k) \/ ConfirmDeleted(k)
  PROVE  BooksInv'
<1>1. TypeOK /\ RequestsOwnRows
  BY DEF BooksInv, IInv
<1>2. ReleaseArtifact(k) /\ UNCHANGED retiring
  BY DEF DiscardPart, ConfirmDeleted, cleaners
<1>3. CASE ~Live(k)
  <2>1. UNCHANGED <<attempt, upload, quota>>
    BY <1>2, <1>3 DEF ReleaseArtifact
  <2> QED BY <1>2, <2>1, BooksKept DEF CountersKept
<1>4. CASE Live(k)
  <2> DEFINE u == attempt[k].upload
             f == Freed(k)
             a == -f.staged
             b == -f.reserved
  <2>1. u \in Uploads
    BY <1>1, <1>4 DEF RequestsOwnRows
  <2>2. f.staged \in Nat /\ f.reserved \in Nat /\ a \in Int /\ b \in Int
    BY <1>1, FreedNat
  <2>3. /\ attempt' = [attempt EXCEPT ![k] = Gone(k)]
        /\ upload' = [upload EXCEPT ![u].staged = @ - f.staged, ![u].reserved = @ - f.reserved]
        /\ quota' = Charged(u, a, b)
    BY <1>2, <1>4 DEF ReleaseArtifact
  <2>4. Gone(k).state = "gone"
    BY <1>1 DEF Gone, TypeOK, AttemptRows
  <2>5. attempt'[k].state = "gone" /\ \A j \in Keys \ {k} : attempt'[j] = attempt[j]
    BY <1>1, <2>3, <2>4 DEF TypeOK
  <2>6. ~Live(k)' /\ OnlyRow(k, u)
    BY <2>5 DEF Live, OnlyRow, SameRow, Freed
  <2>7. StagedOf(k) = f.staged /\ ReservedOf(k) = f.reserved /\ StagedOf(k)' = 0 /\ ReservedOf(k)' = 0
    BY <1>4, <2>6 DEF StagedOf, ReservedOf
  <2> HIDE DEF u, f
  <2>8. \A v \in Uploads :
           /\ upload'[v].life = upload[v].life
           /\ upload'[v].staged = upload[v].staged + (IF v = u THEN a ELSE 0)
           /\ upload'[v].reserved = upload[v].reserved + (IF v = u THEN b ELSE 0)
    <3>1. upload[u] \in UploadRows /\ upload \in [Uploads -> UploadRows]
      BY <1>1, <2>1 DEF TypeOK
    <3>2. upload'[u] = [upload[u] EXCEPT !.staged = @ - f.staged, !.reserved = @ - f.reserved]
      BY <2>1, <2>3, <3>1
    <3>3. /\ upload'[u].life = upload[u].life
          /\ upload'[u].staged = upload[u].staged - f.staged
          /\ upload'[u].reserved = upload[u].reserved - f.reserved
      BY <3>1, <3>2 DEF UploadRows
    <3>4. \A v \in Uploads : v # u => upload'[v] = upload[v]
      BY <2>1, <2>3, <3>1
    <3> QED BY <1>1, <2>2, <3>3, <3>4, QuotaInt
  <2>9. StagedOf(k)' = StagedOf(k) + a /\ ReservedOf(k)' = ReservedOf(k) + b
    BY <2>2, <2>7
  <2> HIDE DEF a, b
  <2> QED BY <1>2, <2>1, <2>2, <2>3, <2>6, <2>8, <2>9, BooksRow
<1> QED BY <1>3, <1>4

\* A PENDING row that outlives the grace keeps its bytes.
LEMMA BooksAge ==
  ASSUME BooksInv, IInv', NEW k \in Keys, AgeAttempt(k)
  PROVE  BooksInv'
<1>1. TypeOK /\ RequestsOwnRows
  BY DEF BooksInv, IInv
<1> DEFINE u == attempt[k].upload
<1>2. /\ attempt' = [attempt EXCEPT ![k] = [attempt[k] EXCEPT !.old = TRUE]]
      /\ UNCHANGED <<upload, quota, retiring>> /\ Live(k)
  BY DEF AgeAttempt, cleaners, Live
<1>3. u \in Uploads
  BY <1>1, <1>2 DEF RequestsOwnRows
<1>4. \A j \in Keys : /\ attempt'[j].state = attempt[j].state
                      /\ attempt'[j].upload = attempt[j].upload
                      /\ attempt'[j].size = attempt[j].size
                      /\ attempt'[j].reserved = attempt[j].reserved
  BY <1>1, <1>2 DEF TypeOK, AttemptRows
<1>5. OnlyRow(k, u)
  BY <1>4 DEF OnlyRow, SameRow, Live, Freed
<1>6. /\ StagedOf(k)' = StagedOf(k) /\ ReservedOf(k)' = ReservedOf(k)
      /\ Live(k)' => Live(k)
  BY <1>4 DEF StagedOf, ReservedOf, Live, Freed
<1>7. StagedOf(k) = StagedOf(k) + 0 /\ ReservedOf(k) = ReservedOf(k) + 0
  BY <1>1, FreedNat
<1>8. \A v \in Uploads :
         /\ upload'[v].life = upload[v].life
         /\ upload'[v].staged = upload[v].staged + (IF v = u THEN 0 ELSE 0)
         /\ upload'[v].reserved = upload[v].reserved + (IF v = u THEN 0 ELSE 0)
  BY <1>1, <1>2, QuotaInt
<1>9. quota' = Charged(u, 0, 0)
  <2>1. quota \in [Scopes -> [staged : Nat, reserved : Nat]]
    BY <1>1 DEF TypeOK, Amounts
  <2>2. \A s \in Scopes : quota[s] = [staged |-> quota[s].staged + 0, reserved |-> quota[s].reserved + 0]
    BY <2>1
  <2> QED BY <1>2, <2>1, <2>2 DEF Charged
<1> HIDE DEF u
<1> QED BY <1>2, <1>3, <1>5, <1>6, <1>7, <1>8, <1>9, BooksRow

\* commit_part turns the reservation of its row into staged bytes; the row it
\* replaces keeps its own until it is cleaned up.
LEMMA BooksCommit ==
  ASSUME BooksInv, IInv', NEW k \in Keys, NEW e \in Etags, NEW m \in Sizes, CommitPart(k, e, m)
  PROVE  BooksInv'
<1> DEFINE u == attempt[k].upload
           n == attempt[k].reserved
           row == [attempt[k] EXCEPT !.state = "CURRENT", !.etag = e, !.size = m, !.reserved = 0]
           previous == {j \in CurrentOf(u) : attempt[j].part = attempt[k].part}
           a == m
           b == -n
<1>1. TypeOK /\ RequestsOwnRows /\ m \in Nat
  BY StagedPartsAssumption DEF BooksInv, IInv
<1>2. /\ attempt[k].state = "PENDING"
      /\ attempt' = [j \in Keys |-> IF j = k THEN row
                                   ELSE IF j \in previous THEN [attempt[j] EXCEPT !.state = "RETIRED"]
                                   ELSE attempt[j]]
      /\ upload' = [upload EXCEPT ![u].staged = @ + m, ![u].reserved = @ - n]
      /\ quota' = Charged(u, a, b)
      /\ UNCHANGED retiring
  BY DEF CommitPart
<1>3. u \in Uploads /\ n \in Nat /\ Live(k)
  BY <1>1, <1>2 DEF RequestsOwnRows, Live, TypeOK, AttemptRows, Amounts
<1>4. row.state = "CURRENT" /\ row.upload = u /\ row.size = m
  BY <1>1 DEF TypeOK, AttemptRows
<1>5. attempt'[k] = row
  BY <1>2
<1>6. ASSUME NEW j \in Keys \ {k} PROVE SameRow(j)
  <2>1. CASE j \in previous
    <3>1. attempt'[j] = [attempt[j] EXCEPT !.state = "RETIRED"]
      BY <1>2, <2>1
    <3>2. attempt[j].state = "CURRENT" /\ attempt[j] \in AttemptRows
      BY <1>1, <2>1 DEF CurrentOf, TypeOK
    <3>3. /\ attempt'[j].state = "RETIRED" /\ attempt'[j].upload = attempt[j].upload
          /\ attempt'[j].size = attempt[j].size
      BY <3>1, <3>2 DEF AttemptRows
    <3> QED BY <3>2, <3>3 DEF SameRow, Live, Freed
  <2>2. CASE j \notin previous
    <3>1. attempt'[j] = attempt[j]
      BY <1>2, <2>2
    <3> QED BY <3>1 DEF SameRow, Live, Freed
  <2> QED BY <2>1, <2>2
<1> HIDE DEF row, previous
<1>7. OnlyRow(k, u)
  BY <1>4, <1>5, <1>6 DEF OnlyRow
<1>8. /\ StagedOf(k) = 0 /\ ReservedOf(k) = n
      /\ StagedOf(k)' = m /\ ReservedOf(k)' = 0
  BY <1>2, <1>4, <1>5 DEF StagedOf, ReservedOf, Live, Freed
<1> HIDE DEF u, n
<1>9. \A v \in Uploads :
         /\ upload'[v].life = upload[v].life
         /\ upload'[v].staged = upload[v].staged + (IF v = u THEN a ELSE 0)
         /\ upload'[v].reserved = upload[v].reserved + (IF v = u THEN b ELSE 0)
  <2>1. upload[u] \in UploadRows /\ upload \in [Uploads -> UploadRows]
    BY <1>1, <1>3 DEF TypeOK
  <2>2. upload'[u] = [upload[u] EXCEPT !.staged = @ + m, !.reserved = @ - n]
    BY <1>2, <1>3, <2>1
  <2>3. /\ upload'[u].life = upload[u].life
        /\ upload'[u].staged = upload[u].staged + m
        /\ upload'[u].reserved = upload[u].reserved - n
    BY <2>1, <2>2 DEF UploadRows
  <2>4. \A v \in Uploads : v # u => upload'[v] = upload[v]
    BY <1>2, <1>3, <2>1
  <2> QED BY <1>1, <1>3, <2>3, <2>4, QuotaInt
<1>10. /\ StagedOf(k)' = StagedOf(k) + a /\ ReservedOf(k)' = ReservedOf(k) + b
       /\ a \in Int /\ b \in Int
  BY <1>1, <1>3, <1>8
<1> HIDE DEF a, b
<1> QED BY <1>2, <1>3, <1>7, <1>9, <1>10, BooksRow

\* The steps of the completions write no counter.
LEMMA BooksCompletion ==
  ASSUME BooksInv, IInv',
         \/ \E u \in Uploads : LapseLease(u) \/ ResolveDest(u)
         \/ \E w \in Workers :
               \/ \E u \in Uploads, sel \in Selections : Call(w, u, sel)
               \/ Acquire(w) \/ Refuse(w) \/ Replay(w) \/ Renew(w) \/ Check(w)
               \/ Recover(w) \/ BeginSink(w) \/ ReadPart(w) \/ CommitSink(w)
               \/ Settle(w) \/ Record(w) \/ AbortSink(w) \/ Fail(w) \/ Drop(w)
  PROVE  BooksInv'
<1>1. TypeOK /\ upload \in [Uploads -> UploadRows]
  BY DEF BooksInv, IInv, TypeOK
<1>2. CASE UNCHANGED partVars
  BY <1>2, BooksKept DEF partVars, CountersKept
<1>3. CASE \E u \in Uploads : LapseLease(u)
  <2>1. PICK u \in Uploads : LapseLease(u)
    BY <1>3
  <2>2. UNCHANGED <<attempt, quota, retiring>> /\ upload' = [upload EXCEPT ![u].lease = "lapsed"]
    BY <2>1 DEF LapseLease, cleaners
  <2>3. CountersKept
    BY <1>1, <2>2 DEF CountersKept, UploadRows
  <2> QED BY <2>2, <2>3, BooksKept
<1>4. ASSUME NEW w \in Workers, Acquire(w) \/ Renew(w) \/ Record(w)
      PROVE  BooksInv'
  <2>1. UNCHANGED <<attempt, quota, retiring>>
    BY <1>4 DEF Acquire, Renew, Record, cleaners
  <2> DEFINE u == worker[w].upload
  <2>2. CASE UNCHANGED upload
    BY <2>1, <2>2, BooksKept DEF CountersKept
  <2>3. CASE Acquire(w)
    <3>1. /\ upload' = [upload EXCEPT ![u].life = "COMPLETING", ![u].print = worker[w].sel,
                                ![u].lease = "live", ![u].token = @ + 1]
          /\ upload[u].life # "gone"
      BY <2>3 DEF Acquire, Acquirable, Row
    <3> HIDE DEF u
    <3>2. CountersKept
      BY <1>1, <3>1 DEF CountersKept, UploadRows
    <3> QED BY <2>1, <3>2, BooksKept
  <2>4. CASE Renew(w) /\ upload' # upload
    <3>1. upload' = [upload EXCEPT ![u].lease = "live"]
      BY <2>4 DEF Renew
    <3> HIDE DEF u
    <3>2. CountersKept
      BY <1>1, <3>1 DEF CountersKept, UploadRows
    <3> QED BY <2>1, <3>2, BooksKept
  <2>5. CASE Record(w) /\ upload' # upload
    <3>1. /\ upload' = [upload EXCEPT ![u].life = "COMPLETED", ![u].lease = "none",
                                      ![u].result = Dest(w).parts]
          /\ upload[u].life # "gone"
      BY <2>5 DEF Record, Holds, Row
    <3> HIDE DEF u
    <3>2. CountersKept
      BY <1>1, <3>1 DEF CountersKept, UploadRows
    <3> QED BY <2>1, <3>2, BooksKept
  <2> QED BY <1>4, <2>2, <2>3, <2>4, <2>5
<1>5. ASSUME NEW u \in Uploads, ResolveDest(u) PROVE UNCHANGED partVars
  BY <1>5 DEF ResolveDest
<1>6. ASSUME NEW w \in Workers,
             \/ \E u \in Uploads, sel \in Selections : Call(w, u, sel)
             \/ Refuse(w) \/ Replay(w) \/ Check(w)
             \/ Recover(w) \/ BeginSink(w) \/ ReadPart(w) \/ CommitSink(w)
             \/ Settle(w) \/ AbortSink(w) \/ Fail(w) \/ Drop(w)
      PROVE  UNCHANGED partVars
  BY <1>6 DEF Call, Refuse, Replay, Check, Recover, BeginSink, ReadPart, CommitSink, Settle, AbortSink,
              Fail, Drop
<1> QED BY <1>2, <1>3, <1>4, <1>5, <1>6

\* In the initial state there is nothing to count.
LEMMA BooksInitially == ASSUME Init PROVE BooksInv
<1>1. IInv
  BY InitEstablishes
<1>2. PartsInit
  BY DEF Init
<1>3. \A k \in Keys : ~Live(k)
  BY <1>2 DEF PartsInit, NoAttempt, Live
<1>4. (\A u \in Uploads : AttemptsOf(u) = {}) /\ (\A s \in Scopes : AttemptsIn(s) = {})
  BY <1>3 DEF AttemptsOf, AttemptsIn
<1>5. EndedAreEmpty
  BY <1>2, <1>4 DEF EndedAreEmpty, PartsInit
<1>6. StagedIn({}) = 0 /\ ReservedIn({}) = 0
  BY SumEmpty DEF StagedIn, ReservedIn
<1>7. /\ \A u \in Uploads : upload[u].staged = 0 /\ upload[u].reserved = 0
      /\ \A s \in Scopes : quota[s].staged = 0 /\ quota[s].reserved = 0
  BY <1>2 DEF PartsInit, NewUpload
<1>8. AccountingExact
  BY <1>4, <1>6, <1>7 DEF AccountingExact
<1> QED BY <1>1, <1>5, <1>8 DEF BooksInv

\* Every step keeps the books.
LEMMA BooksStep == ASSUME BooksInv, [Next]_vars PROVE BooksInv'
<1>1. IInv'
  BY NextPreserves DEF BooksInv
<1>2. CASE Alone(PartSteps)
  <2>1. PartSteps
    BY <1>2 DEF Alone
  <2>2. ASSUME ReadKnown \/ ListOrphans \/ ScanFails PROVE BooksInv'
    <3>1. UNCHANGED <<upload, attempt, quota, retiring>>
      BY <2>2 DEF ReadKnown, ListOrphans, ScanFails
    <3> QED BY <1>1, <3>1, BooksKept DEF CountersKept
  <2> QED BY <1>1, <2>1, <2>2, BooksUploads, BooksKeys, BooksBegin, BooksRelease, BooksAge, BooksCommit DEF PartSteps
<1>3. CASE UNCHANGED vars
  BY <1>1, <1>3, BooksKept DEF vars, CountersKept
<1> QED BY <1>1, <1>2, <1>3, BooksCompletion DEF Next

\* AccountingExact for every number of uploads, tenants, parts and requests:
\* begin_part, commit_part, release_artifact, abort, expiry, the sweeps and the
\* retirement pass, in any order and repeated or given up half-way, neither lose
\* a byte of a counter nor return one twice.
THEOREM CountersAddUp == Spec => []AccountingExact
<1>1. Init => BooksInv
  BY BooksInitially
<1>2. BooksInv /\ [Next]_vars => BooksInv'
  BY BooksStep
<1>3. BooksInv => AccountingExact
  BY DEF BooksInv
<1> QED BY <1>1, <1>2, <1>3, PTL DEF Spec

\* A total is no less than any of its terms.
LEMMA TermFits ==
  ASSUME TypeOK, NEW S \in SUBSET Keys, NEW k \in S
  PROVE  Freed(k).staged <= StagedIn(S) /\ Freed(k).reserved <= ReservedIn(S)
<1> DEFINE A == [j \in Keys |-> Freed(j).staged]
           C == [j \in Keys |-> Freed(j).reserved]
<1>1. IsFiniteSet(S)
  BY StagedPartsAssumption, FS_Subset
<1>2. \A j \in S : A[j] \in Nat /\ C[j] \in Nat
  BY FreedNat
<1>3. A[k] = Freed(k).staged /\ C[k] = Freed(k).reserved
  OBVIOUS
<1>4. StagedIn(S) = SumFunctionOnSet(A, S) /\ ReservedIn(S) = SumFunctionOnSet(C, S)
  BY DEF StagedIn, ReservedIn
<1> HIDE DEF A, C
<1>5. A[k] <= SumFunctionOnSet(A, S) /\ C[k] <= SumFunctionOnSet(C, S)
  BY <1>1, <1>2, SumNat
<1> QED BY <1>3, <1>4, <1>5

\* The check that release_artifact and commit_part make before they subtract
\* from the counters never fails: no reachable state has a row whose bytes some
\* counter does not cover, so no row is stuck behind that check.
THEOREM NeverUnderflows == Spec => [](\A k \in Keys : Live(k) => ~Underflow(k))
<1>1. ASSUME BooksInv, NEW k \in Keys, Live(k) PROVE ~Underflow(k)
  <2> DEFINE u == attempt[k].upload
  <2>1. TypeOK /\ RequestsOwnRows /\ AccountingExact /\ EndedAreEmpty
    BY <1>1 DEF BooksInv, IInv
  <2>2. u \in Uploads /\ k \in AttemptsOf(u)
    BY <1>1, <2>1 DEF RequestsOwnRows, AttemptsOf
  <2>3. upload[u].life # "gone"
    BY <2>1, <2>2 DEF EndedAreEmpty
  <2>4. Freed(k).staged <= upload[u].staged /\ Freed(k).reserved <= upload[u].reserved
    <3>1. AttemptsOf(u) \in SUBSET Keys
      BY DEF AttemptsOf
    <3> QED BY <2>1, <2>2, <2>3, <3>1, TermFits DEF AccountingExact
  <2>5. ASSUME NEW s \in ScopesOf(u)
        PROVE  Freed(k).staged <= quota[s].staged /\ Freed(k).reserved <= quota[s].reserved
    <3>1. s \in Scopes /\ AttemptsIn(s) \in SUBSET Keys /\ k \in AttemptsIn(s)
      BY <1>1, <2>2, <2>5, StagedPartsAssumption DEF AttemptsIn, ScopesOf, Scopes
    <3> QED BY <2>1, <3>1, TermFits DEF AccountingExact
  <2>6. /\ Freed(k).staged \in Int /\ Freed(k).reserved \in Int
        /\ upload[u].staged \in Int /\ upload[u].reserved \in Int
        /\ \A s \in ScopesOf(u) : quota[s].staged \in Int /\ quota[s].reserved \in Int
    <3>1. ScopesOf(u) \subseteq Scopes
      BY <2>2, StagedPartsAssumption DEF ScopesOf, Scopes
    <3> QED BY <2>1, <2>2, <3>1, FreedNat, QuotaInt
  <2> QED BY <2>4, <2>5, <2>6 DEF Underflow
<1>2. BooksInv => \A k \in Keys : Live(k) => ~Underflow(k)
  BY <1>1
<1>3. Init => BooksInv
  BY BooksInitially
<1>4. BooksInv /\ [Next]_vars => BooksInv'
  BY BooksStep
<1> QED BY <1>2, <1>3, <1>4, PTL DEF Spec
=============================================================================
