----------------------------- MODULE StagedParts -----------------------------
(***************************************************************************)
(* Staged multipart uploads: the upload rows, the part attempts (the       *)
(* PENDING outbox and its CURRENT and RETIRED successors), the byte quotas *)
(* and the ciphertext objects in the staging store, with everything that   *)
(* removes them again: part replacement, abort, expiry, the reconciliation *)
(* sweep, the orphan scan and the retirement of terminal uploads.          *)
(*                                                                         *)
(* A key is the artifact key of one UploadPart request: fresh for every    *)
(* request, it names the request, its attempt row and its object.  Clean-  *)
(* ups are lists made at one moment and worked through later, so the keys  *)
(* on some cleaner's list are state of their own (doomed, deleted).        *)
(* Instants are flags that time raises: expires_at, tombstone_until, the   *)
(* five minutes of RECONCILIATION_GRACE and the 30 s completion lease.     *)
(***************************************************************************)
EXTENDS Integers, FiniteSets, Functions

CONSTANTS Uploads,      \* upload ids
          Tenants,      \* tenants that stage uploads
          TenantOf,     \* the tenant of each upload
          Parts,        \* part numbers
          Keys,         \* artifact keys
          Etags,        \* digests a part's content may have
          None,         \* no upload, part or digest
          Global,       \* the account-wide quota scope
          GlobalLimit,  \* quota of the account, bytes
          TenantLimit,  \* quota of a tenant, bytes
          UploadLimit,  \* snapshot.max_staged_bytes
          Sizes,        \* sizes a part may declare or have, bytes
          MaxActive     \* MAX_ACTIVE_UPLOADS (16)

ASSUME StagedPartsAssumption ==
    /\ TenantOf \in [Uploads -> Tenants]
    /\ Global \notin Tenants
    /\ None \notin Uploads \cup Parts \cup Etags
    /\ TenantLimit \in Nat \ {0} /\ GlobalLimit \in Nat /\ UploadLimit \in Nat
    /\ TenantLimit <= GlobalLimit
    /\ MaxActive \in Nat /\ Sizes \subseteq Nat /\ IsFiniteSet(Keys)

VARIABLES upload,    \* the multipart_uploads rows
          attempt,   \* the multipart_part_attempts rows
          quota,     \* the multipart_staging_quotas rows
          artifact,  \* the staging object store
          request,   \* progress of the UploadPart request of each key
          maker,     \* progress of the CreateMultipartUpload of each upload
          doomed,    \* keys on the list of a cleanup in progress
          deleted,   \* keys whose object a cleanup deleted, row not yet
          scan,      \* what the running orphan scan has read so far
          orphans,   \* keys the running orphan scan will delete
          reaping,   \* uploads the running expiry pass selected
          retiring   \* uploads the running retirement pass found empty

cleaners == <<doomed, deleted, orphans, scan, reaping, retiring>>
partVars == <<upload, attempt, quota, artifact, request, maker,
              doomed, deleted, orphans, scan, reaping, retiring>>

-----------------------------------------------------------------------------
(* Rows.                                                                    *)

Terminal == {"COMPLETED", "ABORTED", "EXPIRED"}
Lifecycles == {"none", "OPEN", "COMPLETING", "gone"} \cup Terminal
AttemptStates == {"none", "PENDING", "CURRENT", "RETIRED", "gone"}

\* A row that exists has a lifecycle of the code; "none" and "gone" are the
\* time before its insertion and after its deletion.
Live(k) == attempt[k].state \in {"PENDING", "CURRENT", "RETIRED"}
AttemptsOf(u) == {k \in Keys : Live(k) /\ attempt[k].upload = u}
CurrentOf(u) == {k \in Keys : attempt[k].state = "CURRENT" /\ attempt[k].upload = u}
Stored(k) == artifact[k] \in {"young", "aged"}

Scopes == Tenants \cup {Global}
ScopesOf(u) == {Global, TenantOf[u]}
LimitOf(s) == IF s = Global THEN GlobalLimit ELSE TenantLimit
Used(q) == q.staged + q.reserved

\* The quota rows after adding to both scopes of an upload.
Charged(u, staged, reserved) ==
    [s \in Scopes |->
        IF s \in ScopesOf(u)
        THEN [staged |-> quota[s].staged + staged,
              reserved |-> quota[s].reserved + reserved]
        ELSE quota[s]]

NewUpload ==
    [life |-> "none", staged |-> 0, reserved |-> 0, expired |-> FALSE,
     buried |-> FALSE, print |-> <<>>, lease |-> "none", token |-> 0,
     result |-> {}]

NoAttempt ==
    [state |-> "none", upload |-> None, part |-> None, etag |-> None,
     size |-> 0, reserved |-> 0, old |-> FALSE]

\* No scan is between its read of the rows and its listing of the store.
NoScan == [on |-> FALSE, unknown |-> {}, fresh |-> {}]

PartsInit ==
    /\ upload = [u \in Uploads |-> NewUpload]
    /\ attempt = [k \in Keys |-> NoAttempt]
    /\ quota = [s \in Scopes |-> [staged |-> 0, reserved |-> 0]]
    /\ artifact = [k \in Keys |-> "absent"]
    /\ request = [k \in Keys |-> "unused"]
    /\ maker = [u \in Uploads |-> "none"]
    /\ doomed = {} /\ deleted = {} /\ orphans = {} /\ scan = NoScan
    /\ reaping = {} /\ retiring = {}

-----------------------------------------------------------------------------
(* CreateMultipartUpload.  The open uploads of the tenant are counted and   *)
(* the row is inserted by separate statements.  When the managed namespace  *)
(* refuses the registration the handler rolls the row back: it aborts the   *)
(* upload and deletes it at once.  The client knows the upload id only      *)
(* after neither happened.                                                  *)

OpenOf(t) == {u \in Uploads : upload[u].life = "OPEN" /\ TenantOf[u] = t}

CreateCount(u) ==
    /\ maker[u] = "none"
    /\ Cardinality(OpenOf(TenantOf[u])) < MaxActive
    /\ maker' = [maker EXCEPT ![u] = "counted"]
    /\ UNCHANGED <<upload, attempt, quota, artifact, request, cleaners>>

CreateInsert(u) ==
    /\ maker[u] = "counted"
    /\ \E outcome \in {"ready", "rollback"} : maker' = [maker EXCEPT ![u] = outcome]
    /\ upload' = [upload EXCEPT ![u].life = "OPEN"]
    /\ UNCHANGED <<attempt, quota, artifact, request, cleaners>>

-----------------------------------------------------------------------------
(* UploadPart.                                                              *)

\* Mutant: the limits only count reservations.
FitsReserved(u, n) ==
    /\ upload[u].reserved + n <= UploadLimit
    /\ \A s \in ScopesOf(u) : quota[s].reserved + n <= LimitOf(s)

\* The reservation fits the upload, the account and the tenant.
Fits(u, n) ==
    /\ Used(upload[u]) + n <= UploadLimit
    /\ \A s \in ScopesOf(u) : Used(quota[s]) + n <= LimitOf(s)

\* begin_part: one transaction reserves the bytes and writes the PENDING row
\* before any byte of the body is consumed.
BeginPart(k, u, p, n) ==
    /\ request[k] = "unused"
    /\ maker[u] = "ready"
    /\ upload[u].life = "OPEN" /\ ~upload[u].expired
    /\ Fits(u, n)
    /\ attempt' = [attempt EXCEPT ![k] = [NoAttempt EXCEPT !.state = "PENDING",
                        !.upload = u, !.part = p, !.reserved = n]]
    /\ upload' = [upload EXCEPT ![u].reserved = @ + n]
    /\ quota' = Charged(u, 0, n)
    /\ request' = [request EXCEPT ![k] = "body"]
    /\ UNCHANGED <<artifact, maker, cleaners>>

\* What deleting an attempt row gives back.
Freed(k) ==
    IF attempt[k].state = "PENDING"
    THEN [staged |-> 0, reserved |-> attempt[k].reserved]
    ELSE [staged |-> attempt[k].size, reserved |-> 0]

Underflow(k) ==
    \E q \in {upload[attempt[k].upload]} \cup {quota[s] : s \in ScopesOf(attempt[k].upload)} :
        q.staged < Freed(k).staged \/ q.reserved < Freed(k).reserved

\* A deleted row; the key still tells what it was for.
Gone(k) == [attempt[k] EXCEPT !.state = "gone", !.size = 0, !.reserved = 0]

\* release_artifact: one transaction deletes the row and returns its bytes;
\* it does nothing when the row is gone, and fails on a counter too small.
ReleaseArtifact(k) ==
    IF Live(k)
    THEN LET u == attempt[k].upload  f == Freed(k) IN
         /\ ~Underflow(k)
         /\ attempt' = [attempt EXCEPT ![k] = Gone(k)]
         /\ upload' = [upload EXCEPT ![u].staged = @ - f.staged,
                                     ![u].reserved = @ - f.reserved]
         /\ quota' = Charged(u, -f.staged, -f.reserved)
    ELSE UNCHANGED <<attempt, upload, quota>>

\* The body fails to arrive, to verify or to be written: discard_pending.
DiscardPart(k) ==
    /\ request[k] = "body"
    /\ ReleaseArtifact(k)
    /\ request' = [request EXCEPT ![k] = "done"]
    /\ UNCHANGED <<artifact, maker, cleaners>>

\* The encrypted part is copied to the staging store.
PutArtifact(k) ==
    /\ request[k] = "body"
    /\ artifact' = [artifact EXCEPT ![k] = "young"]
    /\ request' = [request EXCEPT ![k] = "put"]
    /\ UNCHANGED <<upload, attempt, quota, maker, cleaners>>

\* The request ends without a discard: the client leaves, the process dies
\* or the copy fails, and a copy already sent may still arrive.
AbandonBody(k) ==
    /\ request[k] = "body"
    /\ request' = [request EXCEPT ![k] = "done"]
    /\ \E a \in {"absent", "flying"} : artifact' = [artifact EXCEPT ![k] = a]
    /\ UNCHANGED <<upload, attempt, quota, maker, cleaners>>

\* The request ends between the copy and commit_part, or commit_part fails.
AbandonCommit(k) ==
    /\ request[k] = "put"
    /\ request' = [request EXCEPT ![k] = "done"]
    /\ UNCHANGED <<upload, attempt, quota, artifact, maker, cleaners>>

\* Mutant: the bytes of the replaced part are returned when it is replaced.
CommitPartNet(k, e, m) ==
    LET u == attempt[k].upload
        n == attempt[k].reserved
        previous == {j \in CurrentOf(u) : attempt[j].part = attempt[k].part}
        back == IF previous = {} THEN 0 ELSE attempt[CHOOSE j \in previous : TRUE].size
    IN  /\ request[k] = "put"
        /\ attempt[k].state = "PENDING" /\ upload[u].life = "OPEN"
        /\ m <= n
        /\ attempt' = [j \in Keys |->
                IF j = k THEN [attempt[k] EXCEPT !.state = "CURRENT", !.etag = e,
                                        !.size = m, !.reserved = 0]
                ELSE IF j \in previous THEN [attempt[j] EXCEPT !.state = "RETIRED"]
                ELSE attempt[j]]
        /\ upload' = [upload EXCEPT ![u].staged = @ + m - back, ![u].reserved = @ - n]
        /\ quota' = Charged(u, m - back, -n)
        /\ doomed' = doomed \cup previous
        /\ request' = [request EXCEPT ![k] = "stored"]
        /\ UNCHANGED <<artifact, maker, deleted, orphans, scan, reaping, retiring>>

\* commit_part: one transaction makes the attempt current, retires the one it
\* replaces and turns the reservation into staged bytes; the response lists
\* the replaced part for deletion.  An attempt that is no longer PENDING, or
\* an upload that is no longer OPEN, is refused (AbandonCommit).
CommitPart(k, e, m) ==
    LET u == attempt[k].upload
        n == attempt[k].reserved
        previous == {j \in CurrentOf(u) : attempt[j].part = attempt[k].part}
    IN  /\ request[k] = "put"
        /\ attempt[k].state = "PENDING" /\ upload[u].life = "OPEN"
        /\ m <= n
        /\ \A q \in {upload[u]} \cup {quota[s] : s \in ScopesOf(u)} : n <= q.reserved
        /\ attempt' = [j \in Keys |->
                IF j = k THEN [attempt[k] EXCEPT !.state = "CURRENT", !.etag = e,
                                                 !.size = m, !.reserved = 0]
                ELSE IF j \in previous THEN [attempt[j] EXCEPT !.state = "RETIRED"]
                ELSE attempt[j]]
        /\ upload' = [upload EXCEPT ![u].staged = @ + m, ![u].reserved = @ - n]
        /\ quota' = Charged(u, m, -n)
        /\ doomed' = doomed \cup previous
        /\ request' = [request EXCEPT ![k] = "stored"]
        /\ UNCHANGED <<artifact, maker, deleted, orphans, scan, reaping, retiring>>

-----------------------------------------------------------------------------
(* Cleanup.  Every cleaner works through a list made earlier: it deletes    *)
(* the object, then the row.                                                *)

\* Mutant: the sweep overlooks the parts of uploads that ended.
CandidateReplaced(k) ==
    \/ attempt[k].state = "RETIRED"
    \/ attempt[k].state = "PENDING" /\ attempt[k].old

\* cleanup_candidates of the reconciliation sweep.
Candidate(k) ==
    /\ Live(k)
    /\ \/ upload[attempt[k].upload].life # "OPEN"
       \/ attempt[k].state = "RETIRED"
       \/ attempt[k].state = "PENDING" /\ attempt[k].old

Sweep(k) ==
    /\ Candidate(k) /\ k \notin doomed
    /\ doomed' = doomed \cup {k}
    /\ UNCHANGED <<upload, attempt, quota, artifact, request, maker,
                   deleted, orphans, scan, reaping, retiring>>

\* Deleting an object the store does not hold succeeds; a copy still under
\* way is not affected.
Erased(k) == [artifact EXCEPT ![k] = IF @ = "flying" THEN @ ELSE "absent"]

DeleteArtifact(k) ==
    /\ k \in doomed
    /\ artifact' = Erased(k)
    /\ doomed' = doomed \ {k} /\ deleted' = deleted \cup {k}
    /\ UNCHANGED <<upload, attempt, quota, request, maker, orphans, scan, reaping, retiring>>

\* confirm_artifact_deleted
ConfirmDeleted(k) ==
    /\ k \in deleted
    /\ ReleaseArtifact(k)
    /\ deleted' = deleted \ {k}
    /\ UNCHANGED <<artifact, request, maker, doomed, orphans, scan, reaping, retiring>>

\* The store or the database refuses, or the cleaner dies.
CleanupFails(k) ==
    /\ k \in doomed \cup deleted
    /\ \/ k \in doomed /\ doomed' = doomed \ {k} /\ UNCHANGED deleted
       \/ k \in deleted /\ deleted' = deleted \ {k} /\ UNCHANGED doomed
    /\ UNCHANGED <<upload, attempt, quota, artifact, request, maker,
                   orphans, scan, reaping, retiring>>

\* Mutants: the scan ignores the age of an object, or compares it the wrong
\* way round.
OrphanedAtOnce(k) == k \in scan.unknown /\ Stored(k)
OrphanedRecent(k) == k \in scan.unknown /\ artifact[k] = "young"

\* The second half of the sweep reads the keys of all rows, and takes from
\* the answer's arrival the instant by which an object must have been written.
\* The objects the store did not hold at the read are fresh: less than the
\* grace passes before that instant, so they are too young for this scan.
ReadKnown ==
    /\ ~scan.on /\ orphans = {}
    /\ LET unknown == {k \in Keys : ~Live(k)} IN
       scan' = [on |-> TRUE, unknown |-> unknown,
                fresh |-> {k \in unknown : ~Stored(k)}]
    /\ UNCHANGED <<upload, attempt, quota, artifact, request, maker,
                   doomed, deleted, orphans, reaping, retiring>>

\* An object of the listing that had no row when the rows were read, whatever
\* it has now, and is older than the grace.
Orphaned(k) == k \in scan.unknown /\ artifact[k] = "aged"

\* Then the store is listed.
ListOrphans ==
    /\ scan.on
    /\ orphans' = {k \in Keys : Orphaned(k)}
    /\ scan' = NoScan
    /\ UNCHANGED <<upload, attempt, quota, artifact, request, maker,
                   doomed, deleted, reaping, retiring>>

\* A read, the listing or a deletion fails, or the process ends.
ScanFails ==
    /\ scan.on \/ orphans # {}
    /\ scan' = NoScan /\ orphans' = {}
    /\ UNCHANGED <<upload, attempt, quota, artifact, request, maker,
                   doomed, deleted, reaping, retiring>>

DeleteOrphan(k) ==
    /\ k \in orphans
    /\ artifact' = Erased(k)
    /\ orphans' = orphans \ {k}
    /\ UNCHANGED <<upload, attempt, quota, request, maker, doomed, deleted,
                   scan, reaping, retiring>>

-----------------------------------------------------------------------------
(* The end of an upload.                                                    *)

\* abort: compare-and-set on OPEN, then a separate read lists the current
\* parts for cleanup; the handler may end between the two.
Abort(u) ==
    /\ maker[u] \in {"ready", "rollback"}
    /\ upload[u].life = "OPEN"
    /\ upload' = [upload EXCEPT ![u].life = "ABORTED"]
    /\ \/ doomed' = doomed \cup CurrentOf(u)
       \/ UNCHANGED doomed
    /\ UNCHANGED <<attempt, quota, artifact, request, maker,
                   deleted, orphans, scan, reaping, retiring>>

\* reap_expired selects the open expired uploads, then updates them one by
\* one; the parts are listed for cleanup whether or not the update matched.
ReapSelect(u) ==
    /\ upload[u].life = "OPEN" /\ upload[u].expired /\ u \notin reaping
    /\ reaping' = reaping \cup {u}
    /\ UNCHANGED <<upload, attempt, quota, artifact, request, maker,
                   doomed, deleted, orphans, scan, retiring>>

\* Mutant: the update does not ask whether the upload is still open.
ReapRegardless(u) ==
    /\ u \in reaping
    /\ upload' = [upload EXCEPT ![u].life = "EXPIRED"]
    /\ reaping' = reaping \ {u}
    /\ doomed' = doomed \cup CurrentOf(u)
    /\ UNCHANGED <<attempt, quota, artifact, request, maker, deleted, orphans, scan, retiring>>

ReapUpdate(u) ==
    /\ u \in reaping
    /\ upload' = [upload EXCEPT ![u].life = IF @ = "OPEN" THEN "EXPIRED" ELSE @]
    /\ reaping' = reaping \ {u}
    /\ doomed' = doomed \cup CurrentOf(u)
    /\ UNCHANGED <<attempt, quota, artifact, request, maker, deleted, orphans, scan, retiring>>

\* Deleting an upload row cascades to its attempt rows; the quota rows keep
\* what they counted.
Dropped(u) ==
    /\ upload' = [upload EXCEPT ![u].life = "gone"]
    /\ attempt' = [k \in Keys |->
            IF k \in AttemptsOf(u) THEN Gone(k)
            ELSE attempt[k]]

\* retire_terminal_uploads counts the attempts, then deletes the row.
RetireSelect(u) ==
    /\ upload[u].life \in Terminal /\ upload[u].buried /\ u \notin retiring
    /\ AttemptsOf(u) = {}
    /\ retiring' = retiring \cup {u}
    /\ UNCHANGED <<upload, attempt, quota, artifact, request, maker,
                   doomed, deleted, orphans, scan, reaping>>

Retire(u) ==
    /\ u \in retiring
    /\ Dropped(u)
    /\ retiring' = retiring \ {u}
    /\ UNCHANGED <<quota, artifact, request, maker, doomed, deleted, orphans, scan, reaping>>

\* delete_terminal_upload, the rollback of a creation.
DeleteTerminal(u) ==
    /\ maker[u] = "rollback"
    /\ upload[u].life \in {"ABORTED", "EXPIRED"}
    /\ AttemptsOf(u) = {}
    /\ Dropped(u)
    /\ UNCHANGED <<quota, artifact, request, maker, cleaners>>

-----------------------------------------------------------------------------
(* Time and the store.                                                      *)

ExpireUpload(u) ==
    /\ upload[u].life \in {"OPEN", "COMPLETING"} /\ ~upload[u].expired
    /\ upload' = [upload EXCEPT ![u].expired = TRUE]
    /\ UNCHANGED <<attempt, quota, artifact, request, maker, cleaners>>

BuryUpload(u) ==
    /\ upload[u].life \in Terminal /\ ~upload[u].buried
    /\ upload' = [upload EXCEPT ![u].buried = TRUE]
    /\ UNCHANGED <<attempt, quota, artifact, request, maker, cleaners>>

\* A PENDING row outlives the grace, whether or not its request has ended.
\* The flag then stays with the key: the part was committed late.
AgeAttempt(k) ==
    /\ attempt[k].state = "PENDING" /\ ~attempt[k].old
    /\ attempt' = [attempt EXCEPT ![k].old = TRUE]
    /\ UNCHANGED <<upload, quota, artifact, request, maker, cleaners>>

\* An object is written after its row, so the row passes the grace first.
AgeArtifact(k) ==
    /\ artifact[k] = "young" /\ k \notin scan.fresh
    /\ attempt[k].state = "PENDING" => attempt[k].old
    /\ artifact' = [artifact EXCEPT ![k] = "aged"]
    /\ UNCHANGED <<upload, attempt, quota, request, maker, cleaners>>

\* A copy whose request ended arrives, or is lost.
LandArtifact(k) ==
    /\ artifact[k] = "flying"
    /\ \E a \in {"young", "absent"} : artifact' = [artifact EXCEPT ![k] = a]
    /\ UNCHANGED <<upload, attempt, quota, request, maker, cleaners>>

PartSteps ==
    \/ \E u \in Uploads :
          \/ CreateCount(u) \/ CreateInsert(u)
          \/ Abort(u) \/ ReapSelect(u) \/ ReapUpdate(u)
          \/ RetireSelect(u) \/ Retire(u) \/ DeleteTerminal(u)
          \/ ExpireUpload(u) \/ BuryUpload(u)
    \/ \E k \in Keys :
          \/ \E u \in Uploads, p \in Parts, n \in Sizes \ {0} : BeginPart(k, u, p, n)
          \/ \E e \in Etags, m \in Sizes : CommitPart(k, e, m)
          \/ DiscardPart(k) \/ PutArtifact(k) \/ AbandonBody(k) \/ AbandonCommit(k)
          \/ Sweep(k) \/ DeleteArtifact(k) \/ ConfirmDeleted(k) \/ CleanupFails(k)
          \/ DeleteOrphan(k)
          \/ AgeAttempt(k) \/ AgeArtifact(k) \/ LandArtifact(k)
    \/ ReadKnown \/ ListOrphans \/ ScanFails
=============================================================================
