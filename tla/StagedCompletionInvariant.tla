---------------------- MODULE StagedCompletionInvariant ----------------------
(***************************************************************************)
(* The inductive invariant of StagedCompletion.                            *)
(***************************************************************************)
EXTENDS StagedCompletion

\* The lease of the upload was acquired at some time, and the upload was not
\* abandoned: it is being completed, completed, or deleted with its result.
Begun(u) ==
    \/ upload[u].life \in {"COMPLETING", "COMPLETED"}
    \/ upload[u].life = "gone" /\ upload[u].result # {}

Past(w) == worker[w].pc \notin {"idle", "acquire"}

\* The set of keys is one committed attempt of each part the request names.
AnswersIn(rows, u, S, sel) ==
    /\ S # {}
    /\ \A k \in S :
          /\ rows[k].state \notin {"none", "PENDING"}
          /\ rows[k].upload = u
          /\ rows[k].part \in DOMAIN sel
          /\ rows[k].etag = sel[rows[k].part]
    /\ \A p \in DOMAIN sel : \E k \in S : rows[k].part = p
    /\ \A k, j \in S : rows[k].part = rows[j].part => k = j

Answers(u, S, sel) == AnswersIn(attempt, u, S, sel)

\* A row is written by the request of its key, once.
RequestsOwnRows ==
    /\ \A k \in Keys : request[k] = "unused" => attempt[k].state = "none"
    /\ \A k \in Keys : Live(k) => attempt[k].upload \in Uploads /\ attempt[k].part \in Parts
    /\ \A k, j \in Keys :
          /\ attempt[k].state = "CURRENT" /\ attempt[j].state = "CURRENT"
          /\ attempt[k].upload = attempt[j].upload /\ attempt[k].part = attempt[j].part
          => k = j

\* Before its insertion a row is untouched; only terminal uploads retire.
UploadsProgress ==
    /\ \A u \in Uploads : maker[u] \in {"none", "counted"} => upload[u].life = "none"
    /\ \A u \in retiring : upload[u].life \in Terminal \cup {"gone"}
    /\ \A u \in Uploads : upload[u].life = "COMPLETED" => upload[u].result # {}

\* A worker beyond acquisition works for an upload whose lease was acquired,
\* with the request that is stored in the row and the parts it selects; any
\* other worker holds nothing yet.
WorkersHoldParts ==
    \A w \in Workers :
        /\ ~Past(w) => worker[w].fence = "no" /\ worker[w].read = {}
        /\ worker[w].pc # "idle" =>
              worker[w].upload \in Uploads /\ worker[w].sel \in Selections
        /\ Past(w) =>
              /\ Begun(worker[w].upload)
              /\ worker[w].sel = Row(w).print
              /\ Answers(worker[w].upload, worker[w].parts, worker[w].sel)
              /\ worker[w].read \subseteq worker[w].parts
        /\ At(w, "commit") => worker[w].read = worker[w].parts
        /\ worker[w].pc \in {"settle", "record"} => Dest(w).state = "committed"

\* A destination exists only for an upload whose lease was acquired; once it
\* may have been committed its parts are the stored request's.
DestFollowsLease ==
    \A u \in Uploads :
        /\ dest[u].state # "none" => Begun(u)
        /\ dest[u].state \in {"unknown", "committed"} =>
              Answers(u, dest[u].parts, upload[u].print)

IInv ==
    /\ TypeOK
    /\ WithinLimits
    /\ RequestsOwnRows
    /\ UploadsProgress
    /\ WorkersHoldParts
    /\ DestFollowsLease
    /\ ResultIsObject
=============================================================================
