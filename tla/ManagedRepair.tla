---------------------------- MODULE ManagedRepair ----------------------------
(***************************************************************************)
(* The repair workers of managed storage (repair_due, execute_repair and    *)
(* delete_generation in service_storage.rs over claim_repairs,              *)
(* complete_repair and fail_repair in managed.rs), the placement reconciler *)
(* and the repairs a read enqueues.                                        *)
(*                                                                         *)
(* A worker works on the copy of the row that it selected before it leased  *)
(* it.  Its calls at the providers and its calls of the repository are      *)
(* separate steps; its lease may run out, and another worker may take over, *)
(* between any two of them.                                                *)
(***************************************************************************)
EXTENDS ManagedWrites, Sequences

CONSTANTS
    Workers,           \* repair workers
    MaxRepairAttempts  \* MAX_REPAIR_ATTEMPTS

ASSUME RepairAssumption ==
    /\ MaxRepairAttempts \in Nat \ {0}
    /\ Placements \in Seq([primary : Backends, replica : Backends \cup {Nil}])
    /\ Placements # <<>>

VARIABLES
    worker,   \* each worker's step, row, lease token and versions to delete
    survey    \* the authority row the placement reconciler or a reader has read

repairVars == <<worker, survey>>

IdleWorker == [pc |-> "idle", key |-> Nil, row |-> NoRepair, todo |-> {},
               victim |-> Nil]

NoSurvey == [key |-> Nil, row |-> Nil, source |-> Nil, version |-> 0, legs |-> {}]

RepairInit == worker = [w \in Workers |-> IdleWorker] /\ survey = NoSurvey

Step(w, pc) == worker' = [worker EXCEPT ![w].pc = pc]

\* Mutant: an expired lease is not taken over.
ClaimablePending(r) == r.state = "PENDING"

Claimable(r) == r.state = "PENDING" \/ (r.state = "LEASED" /\ ~r.live)

\* claim_repairs first selects candidates without a lock.
SelectCandidate(w, key) ==
    /\ worker[w].pc = "idle"
    /\ Claimable(repairs[key])
    /\ worker' = [worker EXCEPT ![w] = [@ EXCEPT !.pc = "selected", !.key = key,
                                                 !.row = repairs[key]]]
    /\ UNCHANGED <<writeVars, survey>>

\* Then it leases each one, if the namespace is still in the row's epoch; the
\* record it hands out is the selected copy with the new lease token.
ClaimRepair(w) ==
    LET key == worker[w].key
    IN  /\ worker[w].pc = "selected"
        /\ IF Active /\ worker[w].row.epoch = ns.epoch /\ Claimable(repairs[key])
           THEN /\ repairs' = [repairs EXCEPT ![key] =
                      [@ EXCEPT !.state = "LEASED", !.live = TRUE, !.token = repairs[key].token + 1]]
                /\ worker' = [worker EXCEPT ![w] =
                      [@ EXCEPT !.pc = "claimed", !.row.token = repairs[key].token + 1]]
           ELSE worker' = [worker EXCEPT ![w] = IdleWorker] /\ UNCHANGED repairs
        /\ UNCHANGED <<ns, ops, usage, auth, intents, ledger, child, prov, put, config, deletes, faults, survey>>

\* The lease a worker holds is the one its row shows.
HoldsLease(w) ==
    LET r == repairs[worker[w].key]
    IN  r.state = "LEASED" /\ r.live /\ r.token = worker[w].row.token

Gen(w) == worker[w].key[2]

Target(w) == worker[w].key[3]

Copying(w) == worker[w].key[1] # "DELETE_GENERATION"

\* What a backend holds of a generation.
Held(b, g) == {v \in prov : v.write.backend = b /\ v.write.gen = g}

-----------------------------------------------------------------------------
(* execute_repair, for a copy.                                              *)

RepairChild(w) == [gen |-> Gen(w), backend |-> Target(w), by |-> worker[w].key[1],
                   token |-> worker[w].row.token]

\* The source is opened: whatever version is current there.
OpenSource(w) ==
    /\ worker[w].pc = "claimed" /\ Copying(w)
    /\ Step(w, IF worker[w].row.source # Nil /\ Held(worker[w].row.source, Gen(w)) # {}
               THEN "opened" ELSE "failing")
    /\ UNCHANGED <<writeVars, survey>>

\* direct_sink_for: the child of a repair has no logical operation, so
\* begin_physical_write asks for an active namespace and not for the epoch of
\* the repair.
BeginCopy(w) ==
    /\ worker[w].pc = "opened"
    /\ IF Active
       THEN /\ intents' = WithRow(intents, RepairChild(w), NewIntent)
            /\ Step(w, "intended")
       ELSE Step(w, "failing") /\ UNCHANGED intents
    /\ UNCHANGED <<ns, ops, usage, auth, repairs, ledger, child, prov, put, config, deletes, faults, survey>>

\* The journal row follows, in the epoch of the intent's lease.
BeginCopyJournal(w) ==
    LET c == RepairChild(w)
    IN  /\ worker[w].pc = "intended"
        /\ child' = WithRow(child, c, NewChild(intents[c].epoch))
        /\ Step(w, "copying")
        /\ UNCHANGED <<ns, ops, usage, auth, repairs, intents, ledger, prov, put, config, deletes, faults,
                       survey>>

\* It can fail instead, and the intent is given back.
BeginCopyFails(w) ==
    LET c == RepairChild(w)
    IN  /\ worker[w].pc = "intended"
        /\ Fault
        /\ intents' = IF WriterLease(c) THEN Restrict(intents, DOMAIN intents \ {c}) ELSE intents
        /\ Step(w, "failing")
        /\ UNCHANGED <<ns, ops, usage, auth, repairs, ledger, child, prov, put, config, deletes, survey>>

\* The body is copied and verified, and the child completes at the provider.
StoreCopy(w) ==
    /\ worker[w].pc = "copying"
    /\ WriterLease(RepairChild(w))
    /\ CompletedChild(RepairChild(w))
    /\ Step(w, "stored")
    /\ UNCHANGED <<ns, ops, usage, auth, repairs, intents, ledger, put, config, deletes, survey>>

\* The source body ends early, a digest differs or the intent was taken over.
CopyFails(w) ==
    /\ worker[w].pc = "copying"
    /\ IF WriterLease(RepairChild(w)) THEN Fault ELSE UNCHANGED faults
    /\ Step(w, "failing")
    /\ UNCHANGED <<ns, ops, usage, auth, repairs, intents, ledger, child, prov, put, config, deletes, survey>>

\* The end of ManagedDirectSink::complete.
SettleCopy(w) ==
    LET c == RepairChild(w)
    IN  /\ worker[w].pc = "stored"
        /\ IF c \notin DOMAIN intents
           THEN Step(w, "finished") /\ UNCHANGED <<intents, ledger>>
           ELSE IF ~WriterLease(c)
           THEN Step(w, "failing") /\ UNCHANGED <<intents, ledger>>
           ELSE /\ SettleCompleted(c)
                /\ Step(w, IF child[c].state = "COMMITTED" /\ child[c].exact
                           THEN "finished" ELSE "failing")
        /\ UNCHANGED <<ns, ops, usage, auth, repairs, child, prov, put, config, deletes, faults, survey>>

-----------------------------------------------------------------------------
(* delete_generation.                                                       *)

\* The authority row as its holder sees it points at the target.
Authoritative(gen, backend) ==
    \E k \in Keys : /\ auth[k] # Nil /\ ~auth[k].tombstone /\ auth[k].gen = gen
                    /\ backend \in {auth[k].primary, auth[k].replica}

\* An unlocked read of the authority decides whether to go on.
CheckCleanup(w) ==
    /\ worker[w].pc = "claimed" /\ ~Copying(w)
    /\ Step(w, IF Authoritative(Gen(w), Target(w)) THEN "failing" ELSE "cleared")
    /\ UNCHANGED <<writeVars, survey>>

\* The exact versions come from the ledger; none is an error.
ListCleanup(w) ==
    LET found == Ledgered(Target(w), Gen(w))
    IN  /\ worker[w].pc = "cleared"
        /\ worker' = [worker EXCEPT ![w] =
              IF found = {} THEN [@ EXCEPT !.pc = "failing"]
              ELSE [@ EXCEPT !.pc = "deleting",
                             !.todo = {[write |-> l.write, n |-> l.n] : l \in found}]]
        /\ UNCHANGED <<writeVars, survey>>

\* delete_and_verify_purge_target: the provider confirms that it is gone, or
\* the cleanup fails.
DeleteVersion(w, v) ==
    /\ worker[w].pc = "deleting" /\ v \in worker[w].todo
    /\ \/ /\ prov' = prov \ {v}
          /\ worker' = [worker EXCEPT ![w] = [@ EXCEPT !.pc = "forgetting", !.victim = v]]
          /\ UNCHANGED faults
       \/ Fault /\ Step(w, "failing") /\ UNCHANGED prov
    /\ UNCHANGED <<ns, ops, usage, auth, repairs, intents, ledger, child, put, config, deletes, survey>>

\* forget_physical_version: with the last row of a child its parent's bytes are
\* released and its journal row goes.
ForgetEffects(v) ==
    LET gone == {l \in ledger : l.write = v.write /\ l.n = v.n}
        last == gone # {} /\ ChildVersions(v.write) = gone
        o    == v.write.gen
        free == ops[o].committed - ops[o].released
    IN  /\ ledger' = ledger \ gone
        /\ child' = IF last /\ v.write \in DOMAIN child /\ Terminal(child[v.write].state)
                    THEN Restrict(child, DOMAIN child \ {v.write}) ELSE child
        /\ IF last /\ v.write.by = "PUT" /\ free > 0
           THEN /\ usage' = [usage EXCEPT !.allocated = @ - free]
                /\ ops' = [ops EXCEPT ![o].released = ops[o].committed]
           ELSE UNCHANGED <<usage, ops>>

ForgetVersion(w) ==
    LET v == worker[w].victim
    IN  /\ worker[w].pc = "forgetting"
        /\ ForgetEffects(v)
        /\ worker' = [worker EXCEPT ![w] =
              [@ EXCEPT !.todo = worker[w].todo \ {v}, !.victim = Nil,
                        !.pc = IF worker[w].todo = {v} THEN "finished" ELSE "deleting"]]
        /\ UNCHANGED <<ns, auth, repairs, intents, prov, put, config, deletes, faults, survey>>

-----------------------------------------------------------------------------
(* complete_repair and fail_repair.                                         *)

\* Mutant: a finished copy keeps the row's CAS version.
AppliedInPlace(a, key, r) ==
    IF key[1] = "PLACEMENT" THEN ApplyPlacement(a, key[3], r) ELSE ApplyCopy(a, key[3], r)

\* The authority row a finished copy leaves.
Applied(a, key, r) ==
    [(IF key[1] = "PLACEMENT" THEN ApplyPlacement(a, key[3], r) ELSE ApplyCopy(a, key[3], r))
        EXCEPT !.cas = a.cas + 1]

\* A placement leg leaves a cleanup for each location it gave up, waiting for
\* the cutover, which the leg that reaches the placement version performs.
WithPlacementCleanups(rs, old, new, version, epoch) ==
    LET waiting == [key \in RepairKeys |->
            IF /\ key[1] = "DELETE_GENERATION" /\ key[2] = old.gen
               /\ key[3] \in AbandonedLocations(old, new)
            THEN InsertWaiting(rs, key, CopyRepair(old, Nil, "CLEANUP", version, epoch))[key]
            ELSE rs[key]]
    IN  IF new.version = version THEN ReleaseWaiting(waiting, old.gen, version) ELSE waiting

\* The key whose authority row the repair changes, if there is one.
AppliesTo(w, k) == RepairApplies(auth[k], worker[w].key, worker[w].row)

\* Mutant: whoever has finished the copy completes the repair.
CanCompleteUnleased(w) ==
    /\ Active /\ ns.epoch = worker[w].row.epoch
    /\ Copying(w) => Ledgered(Target(w), Gen(w)) # {}

\* What complete_repair checks of the namespace, the lease and the ledger.
CanComplete(w) ==
    /\ Active /\ ns.epoch = worker[w].row.epoch
    /\ HoldsLease(w)
    /\ Copying(w) => Ledgered(Target(w), Gen(w)) # {}

\* complete_repair; a conflict leaves the row to its next claim.
CompleteRepair(w) ==
    LET key  == worker[w].key
        row  == worker[w].row
        done == [repairs EXCEPT ![key] = [@ EXCEPT !.state = "DONE", !.live = FALSE]]
    IN  /\ worker[w].pc = "finished"
        /\ IF ~CanComplete(w) THEN UNCHANGED <<auth, repairs>>
           ELSE IF Copying(w) /\ \E k \in Keys : AppliesTo(w, k)
           THEN \E k \in Keys :
                  LET new == Applied(auth[k], key, row)
                  IN  /\ AppliesTo(w, k)
                      /\ auth' = [auth EXCEPT ![k] = new]
                      /\ repairs' = IF key[1] = "PLACEMENT"
                                    THEN WithPlacementCleanups(done, auth[k], new, row.version, row.epoch)
                                    ELSE done
           ELSE repairs' = done /\ UNCHANGED auth
        /\ worker' = [worker EXCEPT ![w] = IdleWorker]
        /\ UNCHANGED <<ns, ops, usage, intents, ledger, child, prov, put, config, deletes, faults, survey>>

\* fail_repair: another attempt later, or none.
FailRepair(w) ==
    LET key == worker[w].key
    IN  /\ worker[w].pc = "failing"
        /\ repairs' = IF HoldsLease(w)
                      THEN [repairs EXCEPT ![key] =
                              [@ EXCEPT !.attempts = repairs[key].attempts + 1, !.live = FALSE,
                                        !.state = IF repairs[key].attempts + 1 >= MaxRepairAttempts
                                                  THEN "DEAD" ELSE "PENDING"]]
                      ELSE repairs
        /\ worker' = [worker EXCEPT ![w] = IdleWorker]
        /\ UNCHANGED <<ns, ops, usage, auth, intents, ledger, child, prov, put, config, deletes, faults, survey>>

\* A lease whose worker is gone runs out; while a worker is at it, it does so
\* only if the heartbeat of repair_due does not reach the database.
Abandoned(key) == ~\E w \in Workers : worker[w].key = key /\ HoldsLease(w)

ExpireRepairLease(key) ==
    /\ repairs[key].state = "LEASED" /\ repairs[key].live
    /\ IF Abandoned(key) THEN UNCHANGED faults ELSE Fault
    /\ repairs' = [repairs EXCEPT ![key].live = FALSE]
    /\ UNCHANGED <<ns, ops, usage, auth, intents, ledger, child, prov, put, config, deletes, repairVars>>

\* The same for the write intent of a copy.
ExpireCopyIntent(c) ==
    /\ c \in DOMAIN intents /\ intents[c].live
    /\ c.by # "PUT"
    /\ IF \E w \in Workers : worker[w].pc \in {"intended", "copying", "stored"} /\ RepairChild(w) = c
       THEN Fault ELSE UNCHANGED faults
    /\ intents' = [intents EXCEPT ![c].live = FALSE]
    /\ UNCHANGED <<ns, ops, usage, auth, repairs, ledger, child, prov, put, config, deletes, repairVars>>

\* The gateway of a worker stops.
WorkerCrash(w) ==
    /\ worker[w].pc # "idle"
    /\ Fault
    /\ worker' = [worker EXCEPT ![w] = IdleWorker]
    /\ UNCHANGED <<ns, ops, usage, auth, repairs, intents, ledger, child, prov, put, config, deletes, survey>>

-----------------------------------------------------------------------------
(* Placement.                                                               *)

\* A gateway starts with the next placement policy (record_placement_policy
\* refuses a version that is recorded with other backends).
RaisePlacement ==
    /\ config < Len(Placements)
    /\ config' = config + 1
    /\ UNCHANGED <<ns, ops, usage, auth, repairs, intents, ledger, child, prov, put, deletes, faults, repairVars>>

\* reconcile_authority_placement reads a row that is behind and decides on the
\* legs of its move.
ReadySource(a) ==
    CASE a.primaryStatus = "READY" -> a.primary
      [] a.primaryStatus # "READY" /\ a.replicaStatus = "READY" -> a.replica
      [] OTHER -> Nil

Legs(a, p) ==
    {leg \in {"PRIMARY", "REPLICA"} :
        IF leg = "PRIMARY"
        THEN \/ a.primary # p.primary \/ a.primaryStatus # "READY"
             \/ p.replica = Nil /\ a.replica # Nil
        ELSE p.replica # Nil /\ (a.replica # p.replica \/ a.replicaStatus # "READY")}

SurveyPlacement(k) ==
    LET a == auth[k]
        p == Placed(config)
    IN  /\ survey = NoSurvey
        /\ a # Nil /\ ~a.tombstone /\ a.version < p.version
        /\ ReadySource(a) # Nil
        /\ survey' = [key |-> k, row |-> a, source |-> ReadySource(a), version |-> config,
                      legs |-> IF LocationsMatch(a, p.primary, p.replica)
                               THEN {"ADVANCE"} ELSE Legs(a, p)]
        /\ UNCHANGED <<writeVars, worker>>

\* enqueue: the authority must still be the one the repair was computed from.
Unmoved(k, a) == auth[k] # Nil /\ auth[k].gen = a.gen /\ auth[k].cas = a.cas

\* The row a leg inserts: a placement repair, or for RESTORE the copy that puts
\* an unreadable primary back.
LegRepair(leg, a, p) ==
    IF leg = "RESTORE"
    THEN [key |-> <<"REPLICA", a.gen, a.primary>>,
          row |-> CopyRepair(a, survey.source, "PRIMARY", a.version, ns.epoch)]
    ELSE [key |-> <<"PLACEMENT", a.gen, IF leg = "PRIMARY" THEN p.primary ELSE p.replica>>,
          row |-> PlacementRepair(a, survey.source, leg, p, ns.epoch)]

\* The legs are enqueued one by one, in this order; a conflict ends the rest.
LegsBefore(leg) ==
    CASE leg = "RESTORE" -> {}
      [] leg = "PRIMARY" -> {"RESTORE"}
      [] OTHER -> {"RESTORE", "PRIMARY"}

Enqueue(leg) ==
    LET a == survey.row
        r == LegRepair(leg, a, Placed(survey.version))
    IN  /\ leg \in survey.legs \ {"ADVANCE"}
        /\ survey.legs \cap LegsBefore(leg) = {}
        /\ IF Active /\ Unmoved(survey.key, a)
           THEN /\ repairs' = InsertRepair(repairs, r.key, r.row)
                /\ survey' = IF survey.legs = {leg} THEN NoSurvey
                             ELSE [survey EXCEPT !.legs = @ \ {leg}]
           ELSE UNCHANGED repairs /\ survey' = NoSurvey
        /\ UNCHANGED <<ns, ops, usage, auth, intents, ledger, child, prov, put, config, deletes, faults, worker>>

\* advance_placement_version: the copies are where they belong already.
AdvancePlacementVersion ==
    LET k == survey.key
        a == survey.row
        p == Placed(survey.version)
    IN  /\ survey.legs = {"ADVANCE"}
        /\ auth' = IF /\ Active /\ Unmoved(k, a) /\ ~auth[k].tombstone
                      /\ p.version > auth[k].version
                      /\ LocationsMatch(auth[k], p.primary, p.replica)
                   THEN [auth EXCEPT ![k] = [@ EXCEPT !.version = p.version, !.cas = auth[k].cas + 1]]
                   ELSE auth
        /\ survey' = NoSurvey
        /\ UNCHANGED <<ns, ops, usage, repairs, intents, ledger, child, prov, put, config, deletes, faults, worker>>
-----------------------------------------------------------------------------
(* Reads: open_authoritative and head_authoritative.                        *)

\* metadata_matches: the copies that carry the generation the row names; its
\* digest and its size go with it.
Verified(b, a) == Held(b, a.gen)

\* authoritative_get_from: the primary is asked for the exact version the
\* authority row names, any other backend for its current one.
Readable(a, b) ==
    IF b = a.primary
    THEN \E v \in Verified(b, a) : a.pin = Nil \/ v = a.pin
    ELSE Verified(b, a) # {}

\* The backends a read tries, in order.
ReadOrder(a) ==
    LET p == Placed(config)
        moved == IF p.version = a.version THEN <<>> ELSE <<p.primary, p.replica>>
        ready == IF a.replicaStatus = "READY" THEN <<a.replica>> ELSE <<>>
    IN  SelectSeq(<<a.primary>> \o ready \o moved, LAMBDA b : b # Nil)

\* The repairs a read calls for once it has found a copy (enqueue_read_repairs).
ReadLegs(a, source) ==
    LET p == Placed(config)
    IN  {leg \in {"RESTORE", "PRIMARY", "REPLICA"} :
           CASE leg = "RESTORE" -> source # a.primary
             [] leg = "PRIMARY" -> p.version # a.version /\ p.primary # a.primary
             [] OTHER -> p.version # a.version /\ p.replica \notin {Nil, a.replica}}

OpenAuthoritative(k, i) ==
    LET a == auth[k]
        order == ReadOrder(a)
    IN  /\ survey = NoSurvey
        /\ a # Nil /\ ~a.tombstone
        /\ i \in DOMAIN order
        /\ Readable(a, order[i]) /\ \A j \in 1..(i - 1) : ~Readable(a, order[j])
        /\ ReadLegs(a, order[i]) # {}
        /\ survey' = [key |-> k, row |-> a, source |-> order[i], version |-> config,
                      legs |-> ReadLegs(a, order[i])]
        /\ UNCHANGED <<writeVars, worker>>

\* A HEAD tries the same backends in the same order and calls for the same repairs.
HeadAuthoritative(k, i) == OpenAuthoritative(k, i)

WorkerProgress(w) ==
    \/ \E key \in RepairKeys : SelectCandidate(w, key)
    \/ ClaimRepair(w) \/ OpenSource(w) \/ BeginCopy(w) \/ BeginCopyJournal(w) \/ BeginCopyFails(w)
    \/ StoreCopy(w) \/ CopyFails(w) \/ SettleCopy(w)
    \/ CheckCleanup(w) \/ ListCleanup(w) \/ ForgetVersion(w)
    \/ \E v \in worker[w].todo : DeleteVersion(w, v)
    \/ CompleteRepair(w) \/ FailRepair(w)

PlacementStep ==
    \/ RaisePlacement \/ AdvancePlacementVersion
    \/ \E k \in Keys : SurveyPlacement(k)
    \/ \E leg \in survey.legs : Enqueue(leg)

RepairStep ==
    \/ \E w \in Workers : WorkerProgress(w) \/ WorkerCrash(w)
    \/ \E key \in RepairKeys : ExpireRepairLease(key)
    \/ \E c \in DOMAIN intents : ExpireCopyIntent(c)
    \/ PlacementStep
    \/ \E k \in Keys, i \in 1..4 : OpenAuthoritative(k, i) \/ HeadAuthoritative(k, i)

-----------------------------------------------------------------------------
(* Properties.                                                              *)

\* The locations of a placement version.
LocationsAt(v) == {Placements[v].primary, Placements[v].replica}

\* The placements do not come back to a backend they gave up, and do not turn a
\* primary of theirs into a replica.
OneWay(b) ==
    /\ \A u, v, w \in 1..Len(Placements) :
          u < v /\ v < w /\ b \in LocationsAt(u) /\ b \in LocationsAt(w) => b \in LocationsAt(v)
    /\ \A u, v \in 1..Len(Placements) :
          u <= v => ~(Placements[u].primary = b /\ Placements[v].replica = b)

\* Every location an authority row calls ready holds the generation and has it in
\* the ledger, as long as no purge is under way: no cleanup of a location that was
\* given up, however late it runs, takes a copy that is read.  A backend that the
\* placements come back to is left out: a cleanup that was released for it may
\* have passed its check of the authority (delete_generation) before the new copy
\* arrives, and then deletes it with the old one.
ReadyCopiesPresent ==
    \A k \in Keys, b \in Backends :
        /\ Active /\ auth[k] # Nil /\ ~auth[k].tombstone /\ OneWay(b)
        /\ \/ auth[k].primary = b /\ auth[k].primaryStatus = "READY"
           \/ auth[k].replica = b /\ auth[k].replicaStatus = "READY"
        => Held(b, auth[k].gen) # {} /\ Ledgered(b, auth[k].gen) # {}

\* A replica that is still missing has a repair that will write it, or one that
\* used up its attempts.
ReplicaScheduled ==
    \A k \in Keys :
        auth[k] # Nil /\ auth[k].replicaStatus = "REPAIR_PENDING" =>
            repairs[<<"REPLICA", auth[k].gen, auth[k].replica>>].state \in {"PENDING", "LEASED", "DEAD"}

\* The CAS version identifies a state of the row, which is what every repair and
\* every commit relies on when it compares it: no change leaves it as it was, and
\* none takes a generation back to an older placement.
PlacementForward ==
    [][\A k \in Keys :
         auth[k] # Nil /\ auth'[k] \notin {Nil, auth[k]} =>
            /\ auth'[k].cas > auth[k].cas
            /\ auth'[k].gen = auth[k].gen => auth'[k].version >= auth[k].version]_<<auth>>

\* A read of an object whose row names a ready primary finds it there.
ReadableAtPrimary ==
    \A k \in Keys :
        Active /\ auth[k] # Nil /\ ~auth[k].tombstone => Readable(auth[k], auth[k].primary)
=============================================================================
