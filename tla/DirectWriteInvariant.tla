------------------------ MODULE DirectWriteInvariant ------------------------
(***************************************************************************)
(* The inductive invariant behind AbortedMeansAbsent.                      *)
(*                                                                         *)
(* Its centre is Dead: no version of the operation exists and nothing that *)
(* is under way or may still be sent can create one.  Dead is stable, and  *)
(* whoever is about to record PROVEN_ABORTED has established it.  On the   *)
(* COMMIT_UNKNOWN path that takes two observations: the first, made after  *)
(* the ambiguity window, shows that the provider is Quiet; the second, of  *)
(* an actor that held the route after the first, that nothing is there.    *)
(***************************************************************************)
EXTENDS DirectWrite

Early == {"Intent", "Open", "Aborting"}

\* The sink is inside an attempt, or may come back to one.
Sending ==
    \/ At(Sink, "attempt")
    \/ work[Sink].pc \in {"launch", "call", "wait"} /\ sink.next # "create"
    \/ work[Sink].pc \in {"rewrite", "rewriteWait", "resolve"} /\ work[Sink].from = "Completing"

\* No first version can be created any more.
Quiet ==
    /\ row.state \notin {"Intent", "Open"}
    /\ \A f \in flights : f.kind # "put"
    /\ upload = "closed" \/ \A f \in flights : f.kind # "complete"
    /\ Sink \in route.holders => ~Sending

Dead == Quiet /\ versions = {}

\* At most one of the request's two holders is active; a takeover excludes both.
HoldersInv ==
    /\ route.holders = {Sink, Request} \/ \E r \in Periodic : route.holders = {r}
    /\ sink.signalled => At(Sink, "gone")
    /\ work[Request].pc \notin {"idle", "over"} => sink.signalled
    /\ ~At(Request, "recover")

\* An awaited call belongs to an actor that waits for just this call.
AwaitPc(f) ==
    IF f.kind = "rewrite" THEN "rewriteWait"
    ELSE IF f.kind = "delete" THEN "purgeWait" ELSE "wait"

AwaitsInv ==
    /\ \A f \in flights : f.kind \in {"create", "put", "complete"} => f.by = Sink
    /\ \A f \in flights : f.awaited =>
          /\ At(f.by, AwaitPc(f)) /\ work[f.by].got = 0
          /\ f.kind \in {"create", "put", "complete"} => f.kind = sink.next
    /\ \A f, g \in flights : f.awaited /\ g.awaited /\ f.by = g.by => f = g

\* Only an existing upload is completed.
UploadInv ==
    /\ (\E f \in flights : f.kind = "complete") => upload # "none"
    /\ sink.upload \/ At(Sink, "setOpen") => upload # "none"
    /\ At(Sink, "wait") /\ sink.next = "create" /\ work[Sink].got # 0 => upload # "none"
    /\ sink.next = "complete" => sink.upload

\* Until the row has left the early states, nothing but the creation of the
\* upload has been sent and nobody works on a completion.
LatePc(a) ==
    \/ work[a].pc \in {"probe", "uploads", "confirm", "confirmWrite", "rewrite", "rewriteWait",
                       "resolve", "purge", "purgeWait", "attempt", "reprobe"}
    \/ a = Sink /\ work[a].pc \in {"launch", "call", "wait"} /\ sink.next # "create"

EarlyInv ==
    /\ NoCommitBeforeCompleting
    /\ \A a \in Actors : LatePc(a) => row.state \notin Early
    /\ \A r \in Reconcilers : work[r].pc \in {"claim", "recover", "begin"} =>
          /\ work[r].snap = "Aborting" => row.state \in {"Aborting", "ProvenAborted"}
          /\ work[r].snap \in {"Completing", "CommitUnknown"} => row.state \notin Early
    /\ At(Sink, "probe") => work[Sink].from = "CommitUnknown"

\* The window covers every PUT that is under way or about to be sent.
WindowInv ==
    /\ \A f \in flights : f.kind = "put" => f.left <= row.window
    /\ At(Sink, "call") /\ sink.next = "put" => FlightTime + sink.stall <= row.window

\* Before its first ambiguous answer the sink knows of everything it sent.
CommitFlights == {f \in flights : f.kind \in {"put", "complete"}}

FirstAttemptInv ==
    ~sink.ambiguous =>
        /\ At(Sink, "attempt") \/ (work[Sink].pc \in {"launch", "call"} /\ sink.next # "create")
              => versions = {} /\ CommitFlights = {}
        /\ At(Sink, "wait") /\ sink.next # "create" =>
              \/ CommitFlights = {}
              \/ versions = {} /\ \E f \in flights : CommitFlights = {f} /\ f.awaited

\* The fence of the upload listing still holds when the row is read.
ConfirmInv ==
    \A a \in Actors : At(a, "confirm") =>
        /\ a \in route.holders /\ route.left > 0
        /\ upload = "closed" \/ \A f \in flights : f.kind # "complete"

\* A stored observation, or one about to be stored, was made of a quiet
\* provider; a later holder's listing is then conclusive.
Observed == row.absence # NoAbsence
AbsenceInv ==
    /\ Observed \/ (\E b \in Actors : At(b, "confirmWrite")) => Quiet
    /\ \A a \in route.holders :
          /\ work[a].pc \in {"uploads", "confirm"}
          /\ Observed \/ \E b \in Actors \ {a} : At(b, "confirmWrite")
          => versions = {}

\* Whoever goes on to abort has a proof, and the proof lasts.
Abandoned ==
    \/ row.state \in {"Aborting", "ProvenAborted"}
    \/ sink.state = "Aborting"
    \/ \E a \in Actors : work[a].pc \in {"cleanup", "finishAbort"}

DeadInv == Abandoned => Dead

IInv ==
    /\ TypeOK /\ HoldersInv /\ AwaitsInv /\ UploadInv /\ EarlyInv /\ WindowInv
    /\ FirstAttemptInv /\ ConfirmInv /\ AbsenceInv /\ DeadInv
=============================================================================
