-------------------------- MODULE StagedCompletion --------------------------
(***************************************************************************)
(* CompleteMultipartUpload over StagedParts: workers that compete for the  *)
(* completion lease of an upload, read the selected parts back from the    *)
(* staging store, write the destination object through a journaled sink    *)
(* and record the result.  Before every effect a worker renews its lease   *)
(* and checks it (renew_and_fence_completion); between the check and the   *)
(* effect it may be paused for as long as the lease lasts.                 *)
(*                                                                         *)
(* The destination write is the journaled operation of DirectWrite, whose  *)
(* id is derived from the upload and the request.  Only what AtomicWrite   *)
(* promises of it is kept: it is settled once, as committed or aborted,    *)
(* and an ambiguous commit is settled later by reconciliation.             *)
(***************************************************************************)
EXTENDS StagedParts

CONSTANTS Workers,  \* CompleteMultipartUpload requests being served
          MaxToken  \* bound on completion_fencing_token

ASSUME StagedCompletionAssumption == MaxToken \in Nat

VARIABLES worker,   \* per worker: pc and the locals of its request
          dest,     \* per upload: the destination operation
          answered  \* per upload: the results reported to clients

vars == <<upload, attempt, quota, artifact, request, maker, doomed, deleted,
          orphans, scan, reaping, retiring, worker, dest, answered>>

-----------------------------------------------------------------------------
\* What a client asks for: part numbers with the digests it expects.  The
\* request's fingerprint covers nothing else that can differ.
Selections == UNION {[S -> Etags] : S \in (SUBSET Parts) \ {{}}}

\* Mutant: a part is selected by its number alone.
SelectedByNumber(u, sel) == {k \in CurrentOf(u) : attempt[k].part \in DOMAIN sel}

\* validate_selected_parts: the current attempts a request names.
Selected(u, sel) ==
    {k \in CurrentOf(u) : attempt[k].part \in DOMAIN sel
                          /\ attempt[k].etag = sel[attempt[k].part]}

Valid(u, sel) ==
    \A p \in DOMAIN sel : \E k \in Selected(u, sel) : attempt[k].part = p

Idle == [pc |-> "idle", upload |-> None, sel |-> <<>>, open |-> FALSE,
         token |-> 0, fence |-> "no", parts |-> {}, all |-> {}, read |-> {}]

NoDest == [state |-> "none", by |-> None, parts |-> {}]

Init ==
    /\ PartsInit
    /\ worker = [w \in Workers |-> Idle]
    /\ dest = [u \in Uploads |-> NoDest]
    /\ answered = [u \in Uploads |-> {}]

At(w, pc) == worker[w].pc = pc
Row(w) == upload[worker[w].upload]
Dest(w) == dest[worker[w].upload]

Goto(w, pc) == worker' = [worker EXCEPT ![w].pc = pc, ![w].fence = "no"]
Leave(w) == worker' = [worker EXCEPT ![w] = Idle]

\* An error: a worker whose sink is open aborts it, any other just answers.
Falter(w) ==
    IF Dest(w).state = "open" /\ Dest(w).by = w /\ ~At(w, "abort")
    THEN Goto(w, "abort")
    ELSE Leave(w)

-----------------------------------------------------------------------------
(* The lease.                                                               *)

\* The handler reads the clock, then calls acquire_completion.
Call(w, u, sel) ==
    /\ At(w, "idle") /\ maker[u] = "ready"
    /\ worker' = [worker EXCEPT ![w] = [Idle EXCEPT !.pc = "acquire", !.upload = u,
                        !.sel = sel, !.open = ~upload[u].expired]]
    /\ UNCHANGED <<partVars, dest, answered>>

\* A lapsed lease of the same request is taken over; a live one is Busy.
Acquirable(w) ==
    /\ \/ Row(w).life = "OPEN" /\ worker[w].open
       \/ /\ Row(w).life = "COMPLETING"
          /\ Row(w).print = worker[w].sel
          /\ Row(w).lease # "live"
    /\ Valid(worker[w].upload, worker[w].sel)

Acquire(w) ==
    LET u == worker[w].upload IN
    /\ At(w, "acquire") /\ Acquirable(w)
    /\ Row(w).token < MaxToken
    /\ upload' = [upload EXCEPT ![u].life = "COMPLETING", ![u].print = worker[w].sel,
                                ![u].lease = "live", ![u].token = @ + 1]
    /\ worker' = [worker EXCEPT ![w].pc = "recover", ![w].token = Row(w).token + 1,
                                ![w].parts = Selected(u, worker[w].sel),
                                ![w].all = CurrentOf(u)]
    /\ UNCHANGED <<attempt, quota, artifact, request, maker, cleaners, dest, answered>>

\* Busy, NotOpen, NotFound, CompletionConflict or InvalidPart.
Refuse(w) ==
    /\ At(w, "acquire") /\ ~Acquirable(w)
    /\ ~(Row(w).life = "COMPLETED" /\ Row(w).print = worker[w].sel)
    /\ Leave(w)
    /\ UNCHANGED <<partVars, dest, answered>>

\* The stored result answers an identical request.
Replay(w) ==
    /\ At(w, "acquire")
    /\ Row(w).life = "COMPLETED" /\ Row(w).print = worker[w].sel
    /\ answered' = [answered EXCEPT ![worker[w].upload] = @ \cup {Row(w).result}]
    /\ Leave(w)
    /\ UNCHANGED <<partVars, dest>>

Holds(w) == Row(w).life = "COMPLETING" /\ Row(w).token = worker[w].token

\* renew_completion does not ask whether the lease had lapsed.
Renew(w) ==
    /\ worker[w].pc \in {"begin", "read", "commit", "settle", "abort"}
    /\ worker[w].fence = "no"
    /\ IF Holds(w)
       THEN /\ upload' = [upload EXCEPT ![worker[w].upload].lease = "live"]
            /\ worker' = [worker EXCEPT ![w].fence = "renewed"]
       ELSE UNCHANGED upload /\ Leave(w)
    /\ UNCHANGED <<attempt, quota, artifact, request, maker, cleaners, dest, answered>>

\* check_completion_lease
Check(w) ==
    /\ worker[w].fence = "renewed"
    /\ IF Holds(w) /\ Row(w).lease = "live"
       THEN worker' = [worker EXCEPT ![w].fence = "yes"]
       ELSE Falter(w)
    /\ UNCHANGED <<partVars, dest, answered>>

LapseLease(u) ==
    /\ upload[u].lease = "live"
    /\ upload' = [upload EXCEPT ![u].lease = "lapsed"]
    /\ UNCHANGED <<attempt, quota, artifact, request, maker, cleaners,
                   worker, dest, answered>>

-----------------------------------------------------------------------------
(* The completion.                                                          *)

\* Mutant: an ambiguous commit is taken for a commit.
RecoverOptimistic(w) ==
    /\ At(w, "recover")
    /\ \/ Dest(w).state = "none" /\ Goto(w, "begin")
       \/ /\ Dest(w).state \in {"committed", "unknown"}
          /\ worker' = [worker EXCEPT ![w].pc = "record", ![w].fence = "renewed"]
       \/ Dest(w).state \in {"open", "aborted"} /\ Leave(w)
    /\ UNCHANGED <<partVars, dest, answered>>

\* reconcile_existing_direct_completion: an earlier worker's operation that
\* committed is only recorded; one still unsettled, or proven aborted, ends
\* the request.
Recover(w) ==
    /\ At(w, "recover")
    /\ \/ Dest(w).state = "none" /\ Goto(w, "begin")
       \/ /\ Dest(w).state = "committed"
          /\ worker' = [worker EXCEPT ![w].pc = "record", ![w].fence = "renewed"]
       \/ Dest(w).state \in {"open", "unknown", "aborted"} /\ Leave(w)
    /\ UNCHANGED <<partVars, dest, answered>>

Fenced(w, pc) == At(w, pc) /\ worker[w].fence = "yes"

\* begin_streaming_sink inserts the operation's journal row, once.
BeginSink(w) ==
    /\ Fenced(w, "begin")
    /\ IF Dest(w).state = "none"
       THEN /\ dest' = [dest EXCEPT ![worker[w].upload] =
                            [state |-> "open", by |-> w, parts |-> {}]]
            /\ Goto(w, "read")
       ELSE UNCHANGED dest /\ Leave(w)
    /\ UNCHANGED <<partVars, answered>>

\* The next selected part is read and verified; a missing object fails.
ReadPart(w) ==
    /\ Fenced(w, "read")
    /\ \E k \in worker[w].parts \ worker[w].read :
          IF Stored(k)
          THEN worker' = [worker EXCEPT ![w].fence = "no", ![w].read = @ \cup {k},
                    ![w].pc = IF worker[w].parts = worker[w].read \cup {k}
                              THEN "commit" ELSE "read"]
          ELSE Falter(w)
    /\ UNCHANGED <<partVars, dest, answered>>

\* sink.complete: committed, or ambiguous and left to reconciliation, or
\* refused because reconciliation settled the operation first.
CommitSink(w) ==
    /\ Fenced(w, "commit")
    /\ IF Dest(w).state = "open" /\ Dest(w).by = w
       THEN \E s \in {"committed", "unknown"} :
              /\ dest' = [dest EXCEPT ![worker[w].upload].state = s,
                                      ![worker[w].upload].parts = worker[w].read]
              /\ IF s = "committed" THEN Goto(w, "settle") ELSE Leave(w)
       ELSE UNCHANGED dest /\ Leave(w)
    /\ UNCHANGED <<partVars, answered>>

Settle(w) ==
    /\ Fenced(w, "settle")
    /\ worker' = [worker EXCEPT ![w].pc = "record", ![w].fence = "renewed"]
    /\ UNCHANGED <<partVars, dest, answered>>

\* complete_completion after its check, the cleanup list and the answer.
Record(w) ==
    LET u == worker[w].upload IN
    /\ Fenced(w, "record")
    /\ IF Holds(w)
       THEN /\ upload' = [upload EXCEPT ![u].life = "COMPLETED", ![u].lease = "none",
                                        ![u].result = Dest(w).parts]
            /\ doomed' = doomed \cup worker[w].all
            /\ answered' = [answered EXCEPT ![u] = @ \cup {Dest(w).parts}]
       ELSE UNCHANGED <<upload, doomed, answered>>
    /\ Leave(w)
    /\ UNCHANGED <<attempt, quota, artifact, request, maker, deleted, orphans, scan,
                   reaping, retiring, dest>>

\* A failed completion aborts its destination, if the lease is still its own.
AbortSink(w) ==
    /\ Fenced(w, "abort")
    /\ \/ /\ Dest(w).state = "open" /\ Dest(w).by = w
          /\ dest' = [dest EXCEPT ![worker[w].upload].state = "aborted"]
       \/ UNCHANGED dest
    /\ Leave(w)
    /\ UNCHANGED <<partVars, answered>>

\* The pipeline, a decoder or the database fails.
Fail(w) ==
    /\ worker[w].pc \in {"begin", "read", "commit", "abort"}
    /\ Falter(w)
    /\ UNCHANGED <<partVars, dest, answered>>

\* The 240 s limit, a disconnected client or a crash drops the worker.
Drop(w) ==
    /\ ~At(w, "idle")
    /\ Leave(w)
    /\ UNCHANGED <<partVars, dest, answered>>

\* The journal's reconcilers settle an operation its sink left behind.
ResolveDest(u) ==
    /\ \/ /\ dest[u].state = "open"
          /\ dest' = [dest EXCEPT ![u].state = "aborted"]
       \/ /\ dest[u].state = "unknown"
          /\ \E s \in {"committed", "aborted"} : dest' = [dest EXCEPT ![u].state = s]
    /\ UNCHANGED <<partVars, worker, answered>>

-----------------------------------------------------------------------------
\* A step of StagedParts leaves the completion alone.
Alone(A) == A /\ UNCHANGED <<worker, dest, answered>>

Next ==
    \/ Alone(PartSteps)
    \/ \E u \in Uploads : LapseLease(u) \/ ResolveDest(u)
    \/ \E w \in Workers :
          \/ \E u \in Uploads, sel \in Selections : Call(w, u, sel)
          \/ Acquire(w) \/ Refuse(w) \/ Replay(w) \/ Renew(w) \/ Check(w)
          \/ Recover(w) \/ BeginSink(w) \/ ReadPart(w) \/ CommitSink(w)
          \/ Settle(w) \/ Record(w) \/ AbortSink(w) \/ Fail(w) \/ Drop(w)

Spec == Init /\ [][Next]_vars

\* What time, the store and the background worker do happens eventually; a
\* deletion that is tried again and again succeeds; a request ends.
EndRequest(k) ==
    \/ DiscardPart(k) \/ PutArtifact(k) \/ AbandonBody(k) \/ AbandonCommit(k)
    \/ \E e \in Etags, m \in Sizes : CommitPart(k, e, m)

FairSpec ==
    /\ Spec
    /\ \A k \in Keys :
          /\ WF_vars(Alone(EndRequest(k))) /\ WF_vars(Alone(LandArtifact(k)))
          /\ WF_vars(Alone(AgeAttempt(k))) /\ WF_vars(Alone(AgeArtifact(k)))
          /\ WF_vars(Alone(Sweep(k))) /\ SF_vars(Alone(DeleteOrphan(k)))
          /\ SF_vars(Alone(DeleteArtifact(k))) /\ SF_vars(Alone(ConfirmDeleted(k)))
    /\ WF_vars(Alone(ReadKnown)) /\ SF_vars(Alone(ListOrphans))
    /\ \A u \in Uploads :
          /\ WF_vars(Alone(ExpireUpload(u))) /\ WF_vars(Alone(BuryUpload(u)))
          /\ WF_vars(Alone(ReapSelect(u))) /\ WF_vars(Alone(ReapUpdate(u)))
          /\ WF_vars(Alone(RetireSelect(u))) /\ WF_vars(Alone(Retire(u)))
          /\ WF_vars(LapseLease(u)) /\ WF_vars(ResolveDest(u))

-----------------------------------------------------------------------------
(* Properties.                                                              *)

Amounts == Nat

UploadRows ==
    [life : Lifecycles, staged : Amounts, reserved : Amounts, expired : BOOLEAN,
     buried : BOOLEAN, print : Selections \cup {<<>>},
     lease : {"none", "live", "lapsed"}, token : 0..MaxToken, result : SUBSET Keys]

AttemptRows ==
    [state : AttemptStates, upload : Uploads \cup {None}, part : Parts \cup {None},
     etag : Etags \cup {None}, size : Amounts, reserved : Amounts, old : BOOLEAN]

WorkerPcs == {"idle", "acquire", "recover", "begin", "read", "commit", "settle",
              "record", "abort"}

WorkerStates ==
    [pc : WorkerPcs, upload : Uploads \cup {None}, sel : Selections \cup {<<>>},
     open : BOOLEAN, token : 0..MaxToken, fence : {"no", "renewed", "yes"},
     parts : SUBSET Keys, all : SUBSET Keys, read : SUBSET Keys]

Dests ==
    [state : {"none", "open", "unknown", "committed", "aborted"},
     by : Workers \cup {None}, parts : SUBSET Keys]

\* Type invariant of the rows, the store and the workers: counters never go
\* below zero (the checks of release_artifact and commit_part) and the fencing
\* token only counts acquisitions.
TypeOK ==
    /\ upload \in [Uploads -> UploadRows]
    /\ attempt \in [Keys -> AttemptRows]
    /\ quota \in [Scopes -> [staged : Amounts, reserved : Amounts]]
    /\ artifact \in [Keys -> {"absent", "flying", "young", "aged"}]
    /\ request \in [Keys -> {"unused", "body", "put", "stored", "done"}]
    /\ maker \in [Uploads -> {"none", "counted", "ready", "rollback"}]
    /\ doomed \subseteq Keys /\ deleted \subseteq Keys /\ orphans \subseteq Keys
    /\ scan \in [on : BOOLEAN, unknown : SUBSET Keys, fresh : SUBSET Keys]
    /\ reaping \subseteq Uploads /\ retiring \subseteq Uploads
    /\ worker \in [Workers -> WorkerStates]
    /\ dest \in [Uploads -> Dests]
    /\ answered \in [Uploads -> SUBSET SUBSET Keys]

\* Whatever begin_part, commit_part, replacement and the cleaners do in
\* between, no upload, tenant or account ever holds more staged and reserved
\* bytes than its limit.
WithinLimits ==
    /\ \A u \in Uploads : Used(upload[u]) <= UploadLimit
    /\ \A s \in Scopes : Used(quota[s]) <= LimitOf(s)

\* The bytes the rows of a set of keys account for, and the live rows of a
\* quota scope.
StagedIn(S) == SumFunctionOnSet([k \in Keys |-> Freed(k).staged], S)
ReservedIn(S) == SumFunctionOnSet([k \in Keys |-> Freed(k).reserved], S)
AttemptsIn(s) == {k \in Keys : Live(k) /\ s \in ScopesOf(attempt[k].upload)}

\* The counters of every upload and scope are the sums over the attempt rows:
\* no order of commits, replacements and cleanups, some of them repeated or
\* given up half-way, loses or returns a byte twice.
AccountingExact ==
    /\ \A u \in Uploads : upload[u].life # "gone" =>
          /\ upload[u].staged = StagedIn(AttemptsOf(u))
          /\ upload[u].reserved = ReservedIn(AttemptsOf(u))
    /\ \A s \in Scopes :
          /\ quota[s].staged = StagedIn(AttemptsIn(s))
          /\ quota[s].reserved = ReservedIn(AttemptsIn(s))

\* A result is stored, replayed or answered only for an object that was
\* committed, and it is that object's, whichever of the workers that held the
\* lease in turn wrote the object and whichever recorded it.
ResultIsObject ==
    \A u \in Uploads :
        \A r \in answered[u] \cup ({upload[u].result} \ {{}}) :
            dest[u].state = "committed" /\ dest[u].parts = r

\* The committed object was read from exactly one attempt of each part the
\* stored request names, with the digest it names, although parts may be
\* replaced until the lease is acquired and the lease may change hands.
ObjectMatchesRequest ==
    \A u \in Uploads : dest[u].state = "committed" =>
        /\ {attempt[k].part : k \in dest[u].parts} = DOMAIN upload[u].print
        /\ \A k, j \in dest[u].parts : attempt[k].part = attempt[j].part => k = j
        /\ \A k \in dest[u].parts :
              attempt[k].upload = u /\ attempt[k].etag = upload[u].print[attempt[k].part]

\* An upload that ended as aborted or expired never has, and never had, a
\* destination operation: abort and expiry lose to a completion that acquired
\* the lease first, and a completion loses to them.
AbandonedNotWritten ==
    \A u \in Uploads :
        \/ upload[u].life \in {"ABORTED", "EXPIRED"}
        \/ upload[u].life = "gone" /\ upload[u].result = {}
        => dest[u].state = "none"

\* A part the client was told is stored stays stored, itself or the part that
\* replaced it, as long as its upload is open: none of the cleaners, working
\* from lists made earlier, takes it away.  Only a part whose request outlasted
\* the grace of the sweep is exempt (attempt.old): cleanup_candidates may have
\* listed its row before commit_part made it current.
AcknowledgedPartKept ==
    \A k \in Keys :
        request[k] = "stored" /\ upload[attempt[k].upload].life = "OPEN" =>
            LET same == {j \in Keys : /\ request[j] = "stored"
                                      /\ attempt[j].upload = attempt[k].upload
                                      /\ attempt[j].part = attempt[k].part}
            IN  /\ attempt[k].state = "CURRENT" /\ ~attempt[k].old => Stored(k)
                /\ \/ \E j \in same : attempt[j].old
                   \/ \E j \in same : attempt[j].state = "CURRENT" /\ Stored(j)

\* The same without the exception: an open upload's current part is stored.
CurrentPartStored ==
    \A k \in Keys :
        attempt[k].state = "CURRENT" /\ upload[attempt[k].upload].life = "OPEN" =>
            Stored(k)

\* The parts that the holder of the completion lease has still to read are in
\* the staging store (docs/security.md: completion replays each artifact).
CompletingPartsStored ==
    \A w \in Workers :
        worker[w].pc \in {"begin", "read"} /\ Holds(w) =>
            \A k \in worker[w].parts \ worker[w].read : Stored(k)

\* A worker that lost its lease does not abort the destination (server.rs:
\* "Never allow a stale worker to issue an abort").
StaleWorkerNeverAborts ==
    [][\A w \in Workers : AbortSink(w) /\ dest' # dest => Holds(w)]_vars

\* A terminal upload is deleted in the end, which needs every object and row
\* of its parts to be cleaned up and their bytes returned, whatever fails.
TerminalUploadsRetired ==
    \A u \in Uploads : upload[u].life \in Terminal ~> upload[u].life = "gone"

\* An object without a row, such as a copy that arrived after its row had
\* been discarded, is deleted in the end.
OrphansRemoved ==
    \A k \in Keys : (Stored(k) /\ ~Live(k)) ~> ~Stored(k)

\* An upload past its expiry ends (docs/security.md: expired uploads are
\* reaped by a background worker).
ExpiredUploadsReaped ==
    \A u \in Uploads : upload[u].expired ~> upload[u].life \in Terminal \cup {"gone"}
=============================================================================
