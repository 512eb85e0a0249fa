---------------------------- MODULE ManagedProofs ----------------------------
(***************************************************************************)
(* The managed authority, for any number of operations, backends, keys,     *)
(* repair workers, purges and uploads.                                     *)
(*                                                                         *)
(* The invariants say of a row which fields it has and then what the rows   *)
(* say of each other; a field that no argument needs is left untyped.       *)
(***************************************************************************)
EXTENDS ManagedPurge, Totals, TLAPS

-----------------------------------------------------------------------------
(* Purges and epochs *)

\* A row, or a table, that has the given fields.
Has(r, fields) == r = [x \in fields |-> r[x]]

\* The fields of the rows of this section.
NsFields == {"state", "epoch", "routing", "purge"}
PurgeFields == {"state", "epoch", "deleted"}
DriverFields == {"pc", "purge", "round", "intents", "counted", "todo", "victim"}

NsShape == Has(ns, NsFields)
PurgeShape(r) == Has(r, PurgeFields)
DriverShape(r) == Has(r, DriverFields)

\* The tables of namespaces, purges and drivers hold rows of those fields.
PurgeShapes ==
    /\ NsShape /\ ns.epoch \in Nat
    /\ Has(purges, Purges)
    /\ \A p \in Purges : PurgeShape(purges[p]) /\ purges[p].epoch \in Nat
    /\ Has(driver, Drivers)
    /\ \A d \in Drivers : DriverShape(driver[d])

(* A purge that was started is the one under way, in the epoch of the namespace,
   or of an earlier epoch, whatever its row says by now. *)
PurgeEpochs ==
    /\ Active => ns.purge = Nil
    /\ ns.purge # Nil => ns.purge \in Purges /\ purges[ns.purge].epoch = ns.epoch /\ purges[ns.purge].state # "NONE"
    /\ \A p \in Purges : purges[p].state # "NONE" => p = ns.purge \/ purges[p].epoch < ns.epoch

\* A request about a purge that is under way found the purge started.
DriversStarted ==
    \A d \in Drivers : driver[d].pc # "idle" => driver[d].purge \in Purges /\ purges[driver[d].purge].state # "NONE"

\* The inductive invariant of this section.
EpochInvariant == PurgeShapes /\ PurgeEpochs /\ DriversStarted

\* The initial state: epoch 1, no purge, no request about one.
LEMMA EpochInitially == ASSUME ManagedInit PROVE EpochInvariant
<1>1. /\ ns = [state |-> "ACTIVE", epoch |-> 1, routing |-> 1, purge |-> Nil]
      /\ purges = [p \in Purges |-> [state |-> "NONE", epoch |-> 0, deleted |-> 0]]
      /\ driver = [d \in Drivers |-> IdleDriver]
  BY DEF ManagedInit, Init, PurgeInit
<1> QED BY <1>1 DEF EpochInvariant, PurgeShapes, NsShape, PurgeShape, DriverShape, Has, NsFields, PurgeFields,
    DriverFields, IdleDriver, PurgeEpochs, DriversStarted, Active

(* What requests and workers do to the namespace: the routing epoch moves. *)
LEMMA WritesKeepNamespace ==
  ASSUME NsShape, WriteStep \/ RepairStep
  PROVE  NsShape' /\ ns'.state = ns.state /\ ns'.epoch = ns.epoch /\ ns'.purge = ns.purge
<1>1. CASE AdvanceRoutingEpoch
  BY <1>1 DEF AdvanceRoutingEpoch, NsShape, NsFields, Has
<1>2. CASE UNCHANGED ns
  BY <1>2 DEF NsShape
<1>3. ASSUME NEW o \in Ops, RequestStep(o) PROVE UNCHANGED ns
  BY <1>3 DEF RequestStep, ReadAuthority, RouteFence, InsertLogicalOperation, ReadUsage, ReserveLogicalOperation,
     BeginPhysicalWrite, BeginJournal, BeginJournalFails, VerifyOutput, WriteFails, RecordLogicalUsage,
     TransitionLogicalOperation, CompleteChild, CompleteRefused, CommitPhysicalWrite, AbortChild, AbortAtProvider, WithdrawIntent, ProveLogicalAbort,
     ProvePhysicalAbort, CommitLogicalPut, CommitLogicalDelete, Crash
<1>4. CASE WriteStep
  BY <1>1, <1>2, <1>3, <1>4 DEF WriteStep, TombstoneAuthoritative, IntentStep, ChildStep, ExpireIntent, ReconcileIntent, ReconcileChild
<1>5. ASSUME NEW w \in Workers, WorkerProgress(w) \/ WorkerCrash(w) PROVE UNCHANGED ns
  BY <1>5 DEF WorkerProgress, WorkerCrash, SelectCandidate, ClaimRepair, OpenSource, BeginCopy, BeginCopyJournal, BeginCopyFails, StoreCopy, CopyFails,
     SettleCopy, CheckCleanup, ListCleanup, ForgetVersion, DeleteVersion, CompleteRepair, FailRepair, writeVars
<1>6. CASE RepairStep
  BY <1>2, <1>5, <1>6 DEF RepairStep, ExpireRepairLease, ExpireCopyIntent, PlacementStep, RaisePlacement,
     AdvancePlacementVersion, SurveyPlacement, Enqueue, OpenAuthoritative, HeadAuthoritative, writeVars
<1> QED BY <1>4, <1>6

(* A request about a purge takes a step on it and leaves its row started. *)
DriverKeeps(d) ==
    /\ Has(driver', Drivers) /\ DriverShape(driver'[d])
    /\ \A e \in Drivers \ {d} : driver'[e] = driver[e]
    /\ driver'[d].pc # "idle" => driver'[d].purge = driver[d].purge
\* ... and what it leaves of the purges.
PurgeKeeps ==
    /\ Has(purges', Purges)
    /\ \A p \in Purges : /\ PurgeShape(purges'[p]) /\ purges'[p].epoch = purges[p].epoch
                         /\ purges'[p].state = "NONE" <=> purges[p].state = "NONE"

(* Only StartPurge starts a purge; every other step of a driver keeps which purges
   are started and of what epoch. *)
LEMMA DriverStepKeeps ==
  ASSUME EpochInvariant, NEW d \in Drivers,
         \/ ReadIntents(d) \/ ReadTargets(d) \/ FinalizeBlocked(d) \/ FinalizeCounts(d) \/ FinalizeComplete(d) \/ PurgeTargets(d)
         \/ MarkPurgeTargetDeleted(d) \/ MarkPurgeTargetBlocked(d) \/ DriverCrash(d) \/ \E v : DeleteTarget(d, v)
  PROVE  DriverKeeps(d) /\ PurgeKeeps /\ driver[d].pc # "idle"
<1>0. /\ Has(driver, Drivers) /\ DriverShape(driver[d])
      /\ Has(purges, Purges) /\ \A p \in Purges : PurgeShape(purges[p])
      /\ driver[d].pc # "idle" => driver[d].purge \in Purges /\ purges[driver[d].purge].state # "NONE"
  BY DEF EpochInvariant, PurgeShapes, DriversStarted
<1>a. ASSUME UNCHANGED purges PROVE PurgeKeeps
  BY <1>0, <1>a DEF PurgeKeeps, Has
<1>b. ASSUME NEW p \in Purges, NEW r, purges' = [purges EXCEPT ![p] = r], PurgeShape(r), r.epoch = purges[p].epoch,
             r.state # "NONE", purges[p].state # "NONE"
      PROVE  PurgeKeeps
  BY <1>0, <1>b DEF PurgeKeeps, Has
<1>c. ASSUME NEW r, driver' = [driver EXCEPT ![d] = r], DriverShape(r), r.pc # "idle" => r.purge = driver[d].purge
      PROVE  DriverKeeps(d)
  BY <1>0, <1>c DEF DriverKeeps, Has
<1>d. DriverShape(IdleDriver) /\ IdleDriver.pc = "idle"
  BY DEF DriverShape, IdleDriver, DriverFields, Has
<1>e. ASSUME NextTarget(d) PROVE DriverKeeps(d)
  <2> DEFINE rest == driver[d].todo \ {driver[d].victim}
             r == [driver[d] EXCEPT !.pc = IF rest = {} THEN "locking" ELSE "driving", !.todo = rest, !.victim = Nil]
  <2>1. driver' = [driver EXCEPT ![d] = r]
    BY <1>e DEF NextTarget
  <2>2. DriverShape(r) /\ r.purge = driver[d].purge
    BY <1>0 DEF DriverShape, DriverFields, Has
  <2> QED BY <1>c, <2>1, <2>2
<1>f. ASSUME Finalized(d) PROVE DriverKeeps(d)
  <2> DEFINE r == [driver[d] EXCEPT !.pc = "listing", !.round = 1, !.intents = {}, !.counted = 0]
  <2>1. driver' = [driver EXCEPT ![d] = r] \/ driver' = [driver EXCEPT ![d] = IdleDriver]
    BY <1>f DEF Finalized
  <2>2. DriverShape(r) /\ r.purge = driver[d].purge
    BY <1>0 DEF DriverShape, DriverFields, Has
  <2> QED BY <1>c, <1>d, <2>1, <2>2
<1>g. ASSUME NEW state, state # "NONE", purges' = [purges EXCEPT ![driver[d].purge].state = state], driver[d].pc # "idle"
      PROVE  PurgeKeeps
  <2> DEFINE p == driver[d].purge
             r == [purges[p] EXCEPT !.state = state]
  <2>1. p \in Purges /\ purges' = [purges EXCEPT ![p] = r] /\ purges[p].state # "NONE"
    BY <1>0, <1>g
  <2>2. PurgeShape(r) /\ r.epoch = purges[p].epoch /\ r.state = state
    BY <1>0, <2>1 DEF PurgeShape, PurgeFields, Has
  <2> QED BY <1>b, <1>g, <2>1, <2>2
<1>1. CASE ReadIntents(d)
  <2> DEFINE old == {w \in DOMAIN intents : intents[w].epoch <= purges[driver[d].purge].epoch}
             r == [driver[d] EXCEPT !.pc = "scanned", !.intents = {intents[w].state : w \in old}]
  <2>1. /\ driver' = [driver EXCEPT ![d] = r] \/ driver' = [driver EXCEPT ![d] = IdleDriver]
        /\ UNCHANGED purges /\ driver[d].pc = "locking"
    BY <1>1 DEF ReadIntents
  <2>2. DriverShape(r) /\ r.purge = driver[d].purge
    BY <1>0 DEF DriverShape, DriverFields, Has
  <2> HIDE DEF r
  <2> QED BY <1>a, <1>c, <1>d, <2>1, <2>2
<1>2. CASE ReadTargets(d)
  <2> DEFINE r == [driver[d] EXCEPT !.pc = "settling"]
  <2>1. /\ driver[d].pc = "scanned"
        /\ UNCHANGED purges \/ purges' = [purges EXCEPT ![driver[d].purge].state = "BLOCKED"]
        /\ driver' = [driver EXCEPT ![d] = r] \/ Finalized(d)
    BY <1>0, <1>2 DEF ReadTargets, Drive
  <2>2. DriverShape(r) /\ r.purge = driver[d].purge
    BY <1>0 DEF DriverShape, DriverFields, Has
  <2> HIDE DEF r
  <2> QED BY <1>a, <1>c, <1>f, <1>g, <2>1, <2>2
<1>3. CASE FinalizeBlocked(d)
  BY <1>3, <1>f, <1>g DEF FinalizeBlocked
<1>h. CASE FinalizeCounts(d)
  <2> DEFINE r == [driver[d] EXCEPT !.counted = @ + 1]
  <2>1. driver' = [driver EXCEPT ![d] = r] /\ UNCHANGED purges /\ driver[d].pc = "settling"
    BY <1>h DEF FinalizeCounts
  <2>2. DriverShape(r) /\ r.purge = driver[d].purge
    BY <1>0 DEF DriverShape, DriverFields, Has
  <2> HIDE DEF r
  <2> QED BY <1>a, <1>c, <2>1, <2>2
<1>4. CASE FinalizeComplete(d)
  BY <1>4, <1>c, <1>d, <1>g DEF FinalizeComplete
<1>5. CASE PurgeTargets(d)
  <2> DEFINE found == {l \in ledger : l.purge = driver[d].purge}
             r == [driver[d] EXCEPT !.pc = IF found = {} THEN "locking" ELSE "driving",
                                    !.todo = {[write |-> l.write, n |-> l.n] : l \in found}]
  <2>1. driver' = [driver EXCEPT ![d] = r] /\ UNCHANGED purges /\ driver[d].pc = "listing"
    BY <1>5 DEF PurgeTargets
  <2>2. DriverShape(r) /\ r.purge = driver[d].purge
    BY <1>0 DEF DriverShape, DriverFields, Has
  <2> HIDE DEF r
  <2> QED BY <1>a, <1>c, <2>1, <2>2
<1>6. CASE MarkPurgeTargetDeleted(d)
  <2> DEFINE p == driver[d].purge
  <2>0. PICK n : purges' = purges \/ purges' = [purges EXCEPT ![p] = [@ EXCEPT !.state = "RUNNING", !.deleted = n]]
    BY <1>6 DEF MarkPurgeTargetDeleted
  <2> DEFINE r == [purges[p] EXCEPT !.state = "RUNNING", !.deleted = n]
  <2>1. /\ driver[d].pc = "deleted" /\ NextTarget(d)
        /\ purges' = purges \/ purges' = [purges EXCEPT ![p] = r]
    BY <1>6, <2>0 DEF MarkPurgeTargetDeleted
  <2>2. p \in Purges /\ purges[p].state # "NONE"
    BY <1>0, <2>1
  <2>3. PurgeShape(r) /\ r.epoch = purges[p].epoch /\ r.state = "RUNNING"
    BY <1>0, <2>2 DEF PurgeShape, PurgeFields, Has
  <2> HIDE DEF r
  <2> QED BY <1>a, <1>b, <1>e, <2>1, <2>2, <2>3
<1>7. CASE MarkPurgeTargetBlocked(d)
  BY <1>7, <1>e, <1>g DEF MarkPurgeTargetBlocked
<1>8. CASE DriverCrash(d)
  BY <1>8, <1>a, <1>c, <1>d DEF DriverCrash
<1>9. ASSUME NEW v, DeleteTarget(d, v) PROVE DriverKeeps(d) /\ PurgeKeeps /\ driver[d].pc # "idle"
  <2>1. PICK ok \in BOOLEAN :
          driver' = [driver EXCEPT ![d] = [driver[d] EXCEPT !.pc = IF ok THEN "deleted" ELSE "refused", !.victim = v]]
    BY <1>9 DEF DeleteTarget
  <2> DEFINE r == [driver[d] EXCEPT !.pc = IF ok THEN "deleted" ELSE "refused", !.victim = v]
  <2>2. UNCHANGED purges /\ driver[d].pc = "driving"
    BY <1>9 DEF DeleteTarget
  <2>3. DriverShape(r) /\ r.purge = driver[d].purge
    BY <1>0 DEF DriverShape, DriverFields, Has
  <2> HIDE DEF r
  <2> QED BY <1>a, <1>c, <2>1, <2>2, <2>3 DEF r
<1> QED BY <1>1, <1>2, <1>3, <1>4, <1>5, <1>6, <1>7, <1>8, <1>9, <1>h

\* Every step of the authority keeps the epochs in order.
LEMMA EpochStepPreserves == ASSUME EpochInvariant, [ManagedNext]_managedVars PROVE EpochInvariant'
<1> USE DEF EpochInvariant
<1>1. CASE UNCHANGED managedVars
  BY <1>1 DEF managedVars, writeVars, purgeVars, PurgeShapes, NsShape, PurgeShape, DriverShape, Has, NsFields,
     PurgeFields, DriverFields, PurgeEpochs, DriversStarted, Active
<1>2. CASE (WriteStep \/ RepairStep) /\ UNCHANGED purgeVars
  <2>1. NsShape' /\ ns'.state = ns.state /\ ns'.epoch = ns.epoch /\ ns'.purge = ns.purge
    BY <1>2, WritesKeepNamespace DEF PurgeShapes
  <2> QED BY <1>2, <2>1 DEF purgeVars, PurgeShapes, PurgeShape, DriverShape, PurgeEpochs, DriversStarted, Active
<1>3. ASSUME NEW u \in Uploads, MultipartStep(u) PROVE UNCHANGED <<ns, purges, driver>>
  BY <1>3 DEF MultipartStep, BeginMultipartActivity, CreateUpload, ConfirmMultipartActivity, WithdrawUpload,
     FinishMultipartActivity, RetireUpload, CreatorCrash, ExpireRegistration, ReconcileMultipartActivity, writeVars
<1>4. CASE UNCHANGED <<ns, purges, driver>>
  BY <1>4 DEF PurgeShapes, NsShape, PurgeShape, DriverShape, Has, NsFields, PurgeFields, DriverFields, PurgeEpochs, DriversStarted, Active
<1>5. ASSUME NEW d \in Drivers, DriverStep(d) PROVE EpochInvariant'
  <2>0. DriverShape(IdleDriver) /\ Has(driver, Drivers) /\ Has(purges, Purges)
    BY DEF DriverShape, IdleDriver, DriverFields, Has, PurgeShapes
  <2>1. ASSUME NEW p \in Purges, StartPurge(d, p) \/ QueryPurge(d, p)
        PROVE  /\ Has(driver', Drivers) /\ DriverShape(driver'[d]) /\ driver'[d].purge = p
               /\ \A e \in Drivers \ {d} : driver'[e] = driver[e]
    <3> DEFINE r == [IdleDriver EXCEPT !.pc = "locking", !.purge = p]
    <3>1. DriverShape(r) /\ r.purge = p
      BY DEF DriverShape, IdleDriver, DriverFields, Has
    <3>2. driver' = [driver EXCEPT ![d] = r]
      BY <2>1 DEF StartPurge, QueryPurge
    <3> HIDE DEF r
    <3> QED BY <2>0, <3>1, <3>2 DEF Has
  <2>2. ASSUME NEW p \in Purges, QueryPurge(d, p) PROVE EpochInvariant'
    <3>1. UNCHANGED <<ns, purges>> /\ purges[p].state # "NONE"
      BY <2>2 DEF QueryPurge, writeVars
    <3> QED BY <2>1, <2>2, <3>1 DEF PurgeShapes, NsShape, PurgeShape, PurgeEpochs, DriversStarted, Active
  <2>3. ASSUME NEW p \in Purges, StartPurge(d, p) PROVE EpochInvariant'
    <3> DEFINE r == [purges[p] EXCEPT !.state = "RUNNING", !.epoch = ns.epoch]
    <3>1. PurgeShape(r) /\ r.epoch = ns.epoch /\ r.state = "RUNNING"
      BY DEF PurgeShapes, PurgeShape, PurgeFields, Has
    <3>2. purges' = [purges EXCEPT ![p] = r] /\ ns' = [ns EXCEPT !.state = "PURGING", !.purge = p] /\ Active
      BY <2>3 DEF StartPurge
    <3> HIDE DEF r
    <3>3. /\ Has(purges', Purges) /\ purges'[p] = r
          /\ \A q \in Purges \ {p} : purges'[q] = purges[q]
      BY <2>0, <3>2 DEF Has
    <3>4. NsShape' /\ ns'.state = "PURGING" /\ ns'.epoch = ns.epoch /\ ns'.purge = p
      BY <3>2 DEF PurgeShapes, NsShape, NsFields, Has
    <3>5. PurgeShapes'
      BY <2>1, <2>3, <3>1, <3>3, <3>4 DEF PurgeShapes
    <3>6. PurgeEpochs'
      BY <3>1, <3>2, <3>3, <3>4, PurgeAssumption DEF PurgeEpochs, Active
    <3>7. DriversStarted'
      BY <2>0, <2>1, <2>3, <3>1, <3>3 DEF DriversStarted
    <3> QED BY <3>5, <3>6, <3>7
  <2>4. ASSUME DriverKeeps(d), PurgeKeeps, driver[d].pc # "idle" PROVE DriversStarted'
    BY <2>0, <2>4 DEF DriverKeeps, PurgeKeeps, DriversStarted
  <2>5. ASSUME DriverKeeps(d), PurgeKeeps, UNCHANGED ns PROVE PurgeShapes' /\ PurgeEpochs'
    BY <2>0, <2>5 DEF DriverKeeps, PurgeKeeps, PurgeShapes, NsShape, PurgeEpochs, Active, Has
  <2>6. CASE FinalizeComplete(d)
    <3>1. DriverKeeps(d) /\ PurgeKeeps /\ driver[d].pc # "idle"
      BY <2>6, DriverStepKeeps
    <3>2. CASE UNCHANGED ns
      BY <2>4, <2>5, <3>1, <3>2
    <3>3. CASE ns.purge = driver[d].purge
      <4>1. /\ driver[d].purge \in Purges /\ purges[driver[d].purge].epoch = ns.epoch
            /\ ns' = [state |-> "ACTIVE", epoch |-> ns.epoch + 1, routing |-> ns.routing + 1, purge |-> Nil]
        BY <2>6, <3>1, <3>3, PurgeAssumption DEF FinalizeComplete, DriversStarted, PurgeEpochs
      <4>2. NsShape' /\ ns'.epoch = ns.epoch + 1 /\ ns'.purge = Nil
        BY <4>1 DEF NsShape, NsFields, Has
      <4>3. ns.epoch + 1 \in Nat
        BY DEF PurgeShapes
      <4>4. PurgeShapes'
        BY <2>0, <3>1, <4>2, <4>3 DEF DriverKeeps, PurgeKeeps, PurgeShapes, Has
      <4>5. PurgeEpochs'
        BY <3>1, <3>3, <4>1, <4>2 DEF PurgeKeeps, PurgeShapes, PurgeEpochs
      <4> QED BY <2>4, <3>1, <4>4, <4>5
    <3> QED BY <2>6, <3>2, <3>3 DEF FinalizeComplete
  <2>7. CASE \/ ReadIntents(d) \/ ReadTargets(d) \/ FinalizeBlocked(d) \/ FinalizeCounts(d) \/ PurgeTargets(d)
             \/ MarkPurgeTargetDeleted(d) \/ MarkPurgeTargetBlocked(d) \/ DriverCrash(d) \/ \E v : DeleteTarget(d, v)
    <3>1. UNCHANGED ns
      BY <2>7 DEF ReadIntents, ReadTargets, FinalizeBlocked, FinalizeCounts, PurgeTargets, MarkPurgeTargetDeleted, MarkPurgeTargetBlocked,
         DriverCrash, DeleteTarget, writeVars
    <3>2. DriverKeeps(d) /\ PurgeKeeps /\ driver[d].pc # "idle"
      BY <2>7, DriverStepKeeps
    <3> QED BY <2>4, <2>5, <3>1, <3>2
  <2> QED BY <1>5, <2>2, <2>3, <2>6, <2>7 DEF DriverStep
<1> QED BY <1>1, <1>2, <1>3, <1>4, <1>5 DEF ManagedNext

-----------------------------------------------------------------------------
(* Multipart registrations *)

ActivityFields == {"state", "epoch", "expired"}
CreatorFields == {"pc", "epoch"}

\* The registrations and their creators are rows of those fields.
UploadShapes ==
    /\ Has(activity, Uploads) /\ Has(upload, Uploads) /\ Has(creator, Uploads)
    /\ \A u \in Uploads : Has(activity[u], ActivityFields) /\ Has(creator[u], CreatorFields)

(* A registration is of the epoch its creator knows until the creation is over,
   and an upload that a client knows of is of the epoch of the namespace. *)
Registered ==
    \A u \in Uploads :
        /\ creator[u].pc \in {"registered", "created"} /\ activity[u].state # "NONE" => activity[u].epoch = creator[u].epoch
        /\ creator[u].pc = "created" => upload[u] = creator[u].epoch

\* OpenUploadKept is inductive together with the epochs and the registrations.
UploadInvariant == EpochInvariant /\ UploadShapes /\ Registered /\ OpenUploadKept

\* No upload is registered at the start.
LEMMA UploadInitially == ASSUME ManagedInit PROVE UploadInvariant
<1>1. /\ activity = [u \in Uploads |-> NoActivity] /\ upload = [u \in Uploads |-> Nil]
      /\ creator = [u \in Uploads |-> [pc |-> "idle", epoch |-> 0]]
  BY DEF ManagedInit, PurgeInit
<1>2. EpochInvariant
  BY EpochInitially
<1> QED BY <1>1, <1>2 DEF UploadInvariant, UploadShapes, Has, ActivityFields, CreatorFields, NoActivity, Registered,
           OpenUploadKept

(* Each step of an upload, of a purge and of the reconciler keeps an open upload
   registered. *)
LEMMA UploadStepPreserves == ASSUME UploadInvariant, [ManagedNext]_managedVars PROVE UploadInvariant'
<1>0. EpochInvariant /\ UploadShapes /\ Registered /\ OpenUploadKept
  BY DEF UploadInvariant
<1>a. EpochInvariant'
  BY <1>0, EpochStepPreserves
<1>1. ASSUME ns'.epoch = ns.epoch, UNCHANGED <<activity, upload, creator>> PROVE UploadInvariant'
  BY <1>0, <1>1, <1>a DEF UploadInvariant, UploadShapes, Registered, OpenUploadKept, UploadUsable, Has
<1>2. CASE UNCHANGED managedVars
  BY <1>1, <1>2 DEF managedVars, writeVars, purgeVars
<1>3. CASE (WriteStep \/ RepairStep) /\ UNCHANGED purgeVars
  BY <1>0, <1>1, <1>3, WritesKeepNamespace DEF purgeVars, EpochInvariant, PurgeShapes
<1>4. ASSUME NEW d \in Drivers, DriverStep(d) PROVE UploadInvariant'
  <2>1. UNCHANGED <<activity, upload, creator>>
    BY <1>4 DEF DriverStep, StartPurge, QueryPurge, ReadIntents, ReadTargets, FinalizeBlocked, FinalizeCounts, FinalizeComplete, PurgeTargets,
       MarkPurgeTargetDeleted, MarkPurgeTargetBlocked, DeleteTarget, DriverCrash
  <2>2. CASE ns'.epoch = ns.epoch
    BY <1>1, <2>1, <2>2
  <2>3. CASE FinalizeComplete(d) /\ ns.purge = driver[d].purge
    <3>1. /\ driver[d].purge \in Purges /\ purges[driver[d].purge].epoch = ns.epoch /\ ns.epoch \in Nat
      BY <1>0, <2>3, PurgeAssumption DEF FinalizeComplete, EpochInvariant, DriversStarted, PurgeEpochs, PurgeShapes
    <3>2. ~ \E u \in Uploads : activity[u].state # "NONE" /\ activity[u].epoch <= ns.epoch
      BY <2>3, <3>1 DEF FinalizeComplete, Unresolved
    <3>3. \A u \in Uploads : creator[u].pc # "open"
      BY <1>0, <3>1, <3>2 DEF OpenUploadKept, UploadUsable
    <3> QED BY <1>0, <1>a, <2>1, <3>3 DEF UploadInvariant, UploadShapes, Registered, OpenUploadKept, Has
  <2>4. ASSUME ~ (FinalizeComplete(d) /\ ns.purge = driver[d].purge) PROVE ns'.epoch = ns.epoch
    <3>1. UNCHANGED ns \/ \E p \in Purges : ns' = [ns EXCEPT !.state = "PURGING", !.purge = p]
      BY <1>4, <2>4 DEF DriverStep, StartPurge, QueryPurge, ReadIntents, ReadTargets, FinalizeBlocked, FinalizeCounts, FinalizeComplete,
         PurgeTargets, MarkPurgeTargetDeleted, MarkPurgeTargetBlocked, DeleteTarget, DriverCrash, writeVars
    <3> QED BY <1>0, <3>1 DEF EpochInvariant, PurgeShapes, NsShape, NsFields, Has
  <2> QED BY <2>2, <2>3, <2>4
<1>5. ASSUME NEW u \in Uploads, MultipartStep(u) PROVE UploadInvariant'
  <2>0. UNCHANGED ns
    BY <1>5 DEF MultipartStep, BeginMultipartActivity, CreateUpload, ConfirmMultipartActivity, WithdrawUpload,
     FinishMultipartActivity, RetireUpload, CreatorCrash, ExpireRegistration, ReconcileMultipartActivity, writeVars
  <2>a. ASSUME NEW a, NEW p, NEW c,
               activity' = [activity EXCEPT ![u] = a], upload' = [upload EXCEPT ![u] = p], creator' = [creator EXCEPT ![u] = c],
               Has(a, ActivityFields), Has(c, CreatorFields),
               c.pc \in {"registered", "created"} /\ a.state # "NONE" => a.epoch = c.epoch,
               c.pc = "created" => p = c.epoch,
               c.pc = "open" => ns.epoch = p /\ a.state = "ACTIVE" /\ a.epoch = ns.epoch
        PROVE  UploadInvariant'
    <3>1. /\ Has(activity', Uploads) /\ Has(upload', Uploads) /\ Has(creator', Uploads)
          /\ activity'[u] = a /\ upload'[u] = p /\ creator'[u] = c
          /\ \A v \in Uploads \ {u} : activity'[v] = activity[v] /\ upload'[v] = upload[v] /\ creator'[v] = creator[v]
      BY <1>0, <2>a DEF UploadShapes, Has
    <3>2. UploadShapes' /\ Registered'
      BY <1>0, <2>a, <3>1 DEF UploadShapes, Registered
    <3>3. OpenUploadKept'
      BY <1>0, <2>0, <2>a, <3>1 DEF OpenUploadKept, UploadUsable
    <3> QED BY <1>a, <3>2, <3>3 DEF UploadInvariant
  <2>b. /\ Has(activity[u], ActivityFields) /\ Has(creator[u], CreatorFields)
        /\ activity = [activity EXCEPT ![u] = activity[u]] /\ upload = [upload EXCEPT ![u] = upload[u]]
        /\ creator = [creator EXCEPT ![u] = creator[u]]
    BY <1>0 DEF UploadShapes, Has
  <2>c. ASSUME NEW pc, Creating(u, pc)
        PROVE  \E c : /\ creator' = [creator EXCEPT ![u] = c] /\ Has(c, CreatorFields)
                      /\ c.pc = pc /\ c.epoch = creator[u].epoch
    <3> DEFINE c == [creator[u] EXCEPT !.pc = pc]
    <3>1. Has(c, CreatorFields) /\ c.pc = pc /\ c.epoch = creator[u].epoch
      BY <2>b DEF Has, CreatorFields
    <3>2. creator' = [creator EXCEPT ![u] = c]
      BY <2>c DEF Creating
    <3> QED BY <3>1, <3>2
  <2>d. /\ creator[u].pc \in {"registered", "created"} /\ activity[u].state # "NONE" => activity[u].epoch = creator[u].epoch
        /\ creator[u].pc = "created" => upload[u] = creator[u].epoch
        /\ creator[u].pc = "open" => ns.epoch = upload[u] /\ activity[u].state = "ACTIVE" /\ activity[u].epoch = ns.epoch
    BY <1>0 DEF Registered, OpenUploadKept, UploadUsable
  <2>e. Has(NoActivity, ActivityFields) /\ NoActivity.state = "NONE"
    BY DEF Has, NoActivity, ActivityFields
  <2>1. CASE BeginMultipartActivity(u)
    <3> DEFINE a == [state |-> "REGISTERING", epoch |-> ns.epoch, expired |-> FALSE]
               c == [pc |-> "registered", epoch |-> ns.epoch]
    <3>1. Has(a, ActivityFields) /\ Has(c, CreatorFields) /\ a.epoch = ns.epoch /\ c.epoch = ns.epoch /\ c.pc = "registered"
      BY DEF Has, ActivityFields, CreatorFields
    <3>2. activity' = [activity EXCEPT ![u] = a] /\ creator' = [creator EXCEPT ![u] = c] /\ UNCHANGED upload
      BY <2>1 DEF BeginMultipartActivity
    <3> HIDE DEF a, c
    <3> QED BY <2>a, <2>b, <3>1, <3>2
  <2>2. CASE CreateUpload(u)
    <3>0. UNCHANGED activity /\ creator[u].pc = "registered"
      BY <2>2 DEF CreateUpload
    <3>1. CASE upload' = [upload EXCEPT ![u] = creator[u].epoch] /\ Creating(u, "created")
      <4>1. PICK c : creator' = [creator EXCEPT ![u] = c] /\ Has(c, CreatorFields) /\ c.pc = "created" /\ c.epoch = creator[u].epoch
        BY <2>c, <3>1
      <4> QED BY <2>a, <2>b, <2>d, <3>0, <3>1, <4>1
    <3>2. CASE UNCHANGED upload /\ Creating(u, "withdrawn")
      <4>1. PICK c : creator' = [creator EXCEPT ![u] = c] /\ Has(c, CreatorFields) /\ c.pc = "withdrawn"
        BY <2>c, <3>2
      <4> QED BY <2>a, <2>b, <3>0, <3>2, <4>1
    <3> QED BY <2>2, <3>1, <3>2 DEF CreateUpload
  <2>3. CASE ConfirmMultipartActivity(u)
    <3> DEFINE a == [activity[u] EXCEPT !.state = "ACTIVE"]
    <3>1. Has(a, ActivityFields) /\ a.state = "ACTIVE" /\ a.epoch = activity[u].epoch
      BY <2>b DEF Has, ActivityFields
    <3>2. CASE activity' = [activity EXCEPT ![u] = a] /\ Creating(u, "open") /\ ns.epoch = creator[u].epoch /\ activity[u].state # "NONE"
      <4>1. PICK c : creator' = [creator EXCEPT ![u] = c] /\ Has(c, CreatorFields) /\ c.pc = "open"
        BY <2>c, <3>2
      <4>2. UNCHANGED upload /\ creator[u].pc = "created"
        BY <2>3 DEF ConfirmMultipartActivity
      <4> HIDE DEF a
      <4> QED BY <2>a, <2>b, <2>d, <3>1, <3>2, <4>1, <4>2
    <3>3. CASE UNCHANGED activity /\ Creating(u, "withdrawing")
      <4>1. PICK c : creator' = [creator EXCEPT ![u] = c] /\ Has(c, CreatorFields) /\ c.pc = "withdrawing"
        BY <2>c, <3>3
      <4> QED BY <2>3, <2>a, <2>b, <3>3, <4>1 DEF ConfirmMultipartActivity
    <3> QED BY <2>3, <3>2, <3>3 DEF ConfirmMultipartActivity
  <2>4. CASE WithdrawUpload(u)
    <3>1. PICK c : creator' = [creator EXCEPT ![u] = c] /\ Has(c, CreatorFields) /\ c.pc = "withdrawn"
      BY <2>c, <2>4 DEF WithdrawUpload
    <3> QED BY <2>4, <2>a, <2>b, <2>e, <3>1 DEF WithdrawUpload
  <2>5. CASE FinishMultipartActivity(u)
    <3>1. PICK c : creator' = [creator EXCEPT ![u] = c] /\ Has(c, CreatorFields) /\ c.pc = "done"
      BY <2>c, <2>5 DEF FinishMultipartActivity
    <3> QED BY <2>5, <2>a, <2>b, <2>e, <3>1 DEF FinishMultipartActivity
  <2>6. CASE RetireUpload(u)
    <3>1. PICK c : creator' = [creator EXCEPT ![u] = c] /\ Has(c, CreatorFields) /\ c.pc = "retired"
      BY <2>c, <2>6 DEF RetireUpload
    <3> QED BY <2>6, <2>a, <2>b, <2>e, <3>1 DEF RetireUpload
  <2>7. CASE CreatorCrash(u)
    <3>1. PICK c : creator' = [creator EXCEPT ![u] = c] /\ Has(c, CreatorFields) /\ c.pc = "crashed"
      BY <2>c, <2>7 DEF CreatorCrash
    <3> QED BY <2>7, <2>a, <2>b, <2>e, <3>1 DEF CreatorCrash
  <2>8. CASE ExpireRegistration(u)
    <3> DEFINE a == [activity[u] EXCEPT !.expired = TRUE]
    <3>1. Has(a, ActivityFields) /\ a.state = activity[u].state /\ a.epoch = activity[u].epoch
      BY <2>b DEF Has, ActivityFields
    <3>2. activity' = [activity EXCEPT ![u] = a] /\ UNCHANGED <<upload, creator>> /\ activity[u].state = "REGISTERING"
      BY <2>8 DEF ExpireRegistration
    <3> HIDE DEF a
    <3> QED BY <2>a, <2>b, <2>d, <3>1, <3>2
  <2>9. CASE ReconcileMultipartActivity(u)
    <3> DEFINE a == [activity[u] EXCEPT !.state = "ACTIVE"]
    <3>1. Has(a, ActivityFields) /\ a.state = "ACTIVE" /\ a.epoch = activity[u].epoch
      BY <2>b DEF Has, ActivityFields
    <3>2. /\ activity' = [activity EXCEPT ![u] = a] \/ activity' = [activity EXCEPT ![u] = NoActivity]
          /\ UNCHANGED <<upload, creator>> /\ activity[u].state = "REGISTERING"
      BY <2>9 DEF ReconcileMultipartActivity
    <3> HIDE DEF a
    <3> QED BY <2>a, <2>b, <2>d, <2>e, <3>1, <3>2
  <2> QED BY <1>5, <2>1, <2>2, <2>3, <2>4, <2>5, <2>6, <2>7, <2>8, <2>9 DEF MultipartStep
<1> QED BY <1>2, <1>3, <1>4, <1>5 DEF ManagedNext

(* An upload a client knows of stays usable, whatever purges are driven and by
   how many requests (finalize_purge_if_ready, confirm_multipart_activity). *)
THEOREM UploadsStayOpen == ManagedSpec => []OpenUploadKept
<1>1. ManagedInit => UploadInvariant
  BY UploadInitially
<1>2. UploadInvariant /\ [ManagedNext]_managedVars => UploadInvariant'
  BY UploadStepPreserves
<1>3. UploadInvariant => OpenUploadKept
  BY DEF UploadInvariant
<1> QED BY <1>1, <1>2, <1>3, PTL DEF ManagedSpec

-----------------------------------------------------------------------------
(* Generations, repair rows and the workers at them *)

OpFields == {"state", "kind", "key", "backend", "version", "epoch", "routing", "cas", "prior", "size", "reserved",
             "committed", "released"}
PutFields == {"pc", "key", "cas", "prior", "epoch", "routing", "resv", "size"}
AuthFields == {"gen", "size", "version", "primary", "pin", "replica", "primaryStatus", "replicaStatus", "tombstone", "cas"}
RepairFields == {"state", "cas", "source", "role", "version", "primary", "replica", "attempts", "token", "live", "epoch"}
WorkerFields == {"pc", "key", "row", "todo", "victim"}

\* The tables of operations, authority, repairs and workers hold rows of those fields.
GenShapes ==
    /\ Has(ops, Ops) /\ Has(put, Ops) /\ \A o \in Ops : Has(ops[o], OpFields) /\ Has(put[o], PutFields)
    /\ Has(auth, Keys) /\ \A k \in Keys : auth[k] # Nil => Has(auth[k], AuthFields)
    /\ Has(repairs, RepairKeys) /\ \A key \in RepairKeys : Has(repairs[key], RepairFields) /\ repairs[key].token \in Nat
    /\ Has(worker, Workers) /\ \A i \in Workers : Has(worker[i], WorkerFields) /\ Has(worker[i].row, RepairFields)

(* An operation that is not inserted yet has no row, and a generation is shown by
   the authority, and copied by repairs, only once its operation has committed. *)
Uninserted == {"idle", "read", "fenced"}
NotInserted == \A o \in Ops : put[o].pc \in Uninserted => ops[o].state = "NONE"
ShownCommitted == \A k \in Keys : auth[k] # Nil /\ auth[k].gen \in Ops => ops[auth[k].gen].state = "COMMITTED"
Early == Uninserted \cup {"inserted", "sized", "reserved"}
Unjournaled == Early \cup {"intended"}
CopyKinds == {"REPLICA", "PLACEMENT"}
CopiedCommitted ==
    \A key \in RepairKeys :
        /\ repairs[key].state = "NONE" => repairs[key].token = 0
        /\ repairs[key].state # "NONE" /\ key[1] \in CopyKinds => ops[key[2]].state = "COMMITTED"

(* A lease token of a repair row has been handed out: the row counts on from it,
   or a purge removed the row and the generation never comes back. *)
Spent(key, token) ==
    /\ token \in Nat \ {0} /\ ops[key[2]].state = "COMMITTED"
    /\ \/ token <= repairs[key].token
       \/ repairs[key].state = "NONE" /\ \A k \in Keys : auth[k] # Nil => auth[k].gen # key[2]

\* A worker with the lease of a copy, and one that has not begun its copy yet.
Claimed(i) == worker[i].pc \notin {"idle", "selected"} /\ worker[i].key[1] \in CopyKinds
Opening(i) == worker[i].pc \in {"claimed", "opened"} /\ worker[i].key[1] \in CopyKinds

AtCopy == {"opened", "intended", "copying", "stored"}
(* The token of every worker at a copy is spent, and two workers at the same row hold
   different tokens. *)
TokensSpent ==
    /\ \A i \in Workers : worker[i].pc # "idle" => worker[i].key \in RepairKeys
    /\ \A i \in Workers : worker[i].pc \in AtCopy => worker[i].key[1] \in CopyKinds
    /\ \A i \in Workers : Claimed(i) => Spent(worker[i].key, worker[i].row.token)
    /\ \A i, j \in Workers : Claimed(i) /\ Claimed(j) /\ i # j /\ worker[i].key = worker[j].key
                               => worker[i].row.token # worker[j].row.token

\* The key a placement survey or a read was about.
SurveyFields == {"key", "row", "source", "version", "legs"}
Surveyed == Has(survey, SurveyFields) /\ (survey.legs # {} => survey.key \in Keys)

\* The inductive invariant of this section: generations and tokens.
GenInvariant == GenShapes /\ NotInserted /\ ShownCommitted /\ CopiedCommitted /\ TokensSpent /\ Surveyed

\* The initial state: no operation, no authority, no repair.
LEMMA GenInitially == ASSUME ManagedInit PROVE GenInvariant
<1>1. /\ ops = [o \in Ops |-> NoOp] /\ auth = [k \in Keys |-> Nil] /\ repairs = [key \in RepairKeys |-> NoRepair]
      /\ put = [o \in Ops |-> [pc |-> "idle", key |-> Nil, cas |-> Nil, prior |-> 0, epoch |-> 0, routing |-> 0, resv |-> 0,
                               size |-> Nil]]
      /\ worker = [i \in Workers |-> IdleWorker] /\ survey = NoSurvey
  BY DEF ManagedInit, Init, RepairInit
<1>2. Has(NoOp, OpFields) /\ NoOp.state = "NONE"
  BY DEF Has, NoOp, OpFields
<1>3. Has(NoRepair, RepairFields) /\ NoRepair.state = "NONE" /\ NoRepair.token = 0
  BY DEF Has, NoRepair, RepairFields
<1>4. Has(IdleWorker, WorkerFields) /\ IdleWorker.row = NoRepair /\ IdleWorker.pc = "idle"
  BY DEF Has, IdleWorker, WorkerFields
<1>5. \A o \in Ops : Has(put[o], PutFields)
  BY <1>1 DEF Has, PutFields
<1>6. Has(ops, Ops) /\ Has(put, Ops) /\ Has(auth, Keys) /\ Has(repairs, RepairKeys) /\ Has(worker, Workers)
  BY <1>1 DEF Has
<1>7. GenShapes
  BY <1>1, <1>2, <1>3, <1>4, <1>5, <1>6 DEF GenShapes
<1>8. Surveyed
  BY <1>1 DEF Surveyed, Has, NoSurvey, SurveyFields
<1> QED BY <1>1, <1>2, <1>3, <1>4, <1>7, <1>8 DEF GenInvariant, NotInserted, ShownCommitted, CopiedCommitted, TokensSpent, Claimed, Opening, AtCopy

(* Repair rows from one table to the next: a row stays, counts on and may be
   inserted, for a copy only of the generation g. *)
RowsOK(rs) == Has(rs, RepairKeys) /\ \A key \in RepairKeys : Has(rs[key], RepairFields) /\ rs[key].token \in Nat
(* A repair table in which rows appear, and stay, and count their tokens on: rows for
   copies only of generation g. *)
Grows(rs, to, g) ==
    /\ RowsOK(to)
    /\ \A key \in RepairKeys :
         /\ rs[key].state # "NONE" => to[key].state # "NONE" /\ to[key].token >= rs[key].token
         /\ rs[key].state = "NONE" /\ to[key].state = "NONE" => to[key].token = rs[key].token
         /\ rs[key].state = "NONE" /\ to[key].state # "NONE" /\ key[1] \in CopyKinds => key[2] = g

\* Growing is transitive.
LEMMA GrowsTwice ==
  ASSUME NEW rs, NEW mid, NEW to, NEW g, RowsOK(rs), Grows(rs, mid, g), Grows(mid, to, g) PROVE Grows(rs, to, g)
  BY DEF Grows, RowsOK

\* A new copy repair is a pending row with no token spent.
LEMMA CopyRepairRow ==
  ASSUME NEW a, NEW source, NEW role, NEW version, NEW epoch
  PROVE  /\ Has(CopyRepair(a, source, role, version, epoch), RepairFields)
         /\ CopyRepair(a, source, role, version, epoch).state = "PENDING"
         /\ CopyRepair(a, source, role, version, epoch).token = 0
  BY DEF CopyRepair, NoRepair, Has, RepairFields

\* So is a new placement repair.
LEMMA PlacementRepairRow ==
  ASSUME NEW a, NEW source, NEW role, NEW p, NEW epoch
  PROVE  /\ Has(PlacementRepair(a, source, role, p, epoch), RepairFields)
         /\ PlacementRepair(a, source, role, p, epoch).state = "PENDING"
         /\ PlacementRepair(a, source, role, p, epoch).token = 0
<1> DEFINE r == CopyRepair(a, source, role, p.version, epoch)
<1>1. Has(r, RepairFields) /\ r.state = "PENDING" /\ r.token = 0
  BY CopyRepairRow
<1> HIDE DEF r
<1> QED BY <1>1 DEF PlacementRepair, Has, RepairFields, r

\* insert_repair adds a row or revives the one that is there, with its tokens.
LEMMA InsertGrows ==
  ASSUME NEW rs, RowsOK(rs), NEW key, NEW row, Has(row, RepairFields), row.state = "PENDING", row.token = 0
  PROVE  /\ Grows(rs, InsertRepair(rs, key, row), key[2])
         /\ \A k \in RepairKeys \ {key} : InsertRepair(rs, key, row)[k] = rs[k]
<1> DEFINE old == [row EXCEPT !.attempts = rs[key].attempts, !.token = rs[key].token]
           to == InsertRepair(rs, key, row)
<1>1. Has(old, RepairFields) /\ old.state = "PENDING" /\ old.token = rs[key].token
  BY DEF Has, RepairFields
<1>2. to \in {[rs EXCEPT ![key] = row], [rs EXCEPT ![key] = old], rs}
  BY DEF InsertRepair
<1>3. /\ rs[key].state = "NONE" => to = [rs EXCEPT ![key] = row]
      /\ rs[key].state # "NONE" => to \in {[rs EXCEPT ![key] = old], rs}
  BY DEF InsertRepair
<1> HIDE DEF old, to
<1>4. Has(to, RepairKeys) /\ \A k \in RepairKeys \ {key} : to[k] = rs[k]
  BY <1>2 DEF RowsOK, Has
<1>5. key \in RepairKeys => to[key] = rs[key] \/ (rs[key].state = "NONE" /\ to[key] = row) \/ (rs[key].state # "NONE" /\ to[key] = old)
  BY <1>3 DEF RowsOK, Has
<1>6. RowsOK(to)
  BY <1>1, <1>4, <1>5 DEF RowsOK
<1>7. Grows(rs, to, key[2])
  BY <1>1, <1>4, <1>5, <1>6 DEF Grows, RowsOK
<1> QED BY <1>4, <1>7 DEF to

\* The cleanups of a superseded generation are no copies.
LEMMA CleanupsGrow ==
  ASSUME NEW rs, RowsOK(rs), NEW a, NEW ledgered, NEW epoch, NEW g PROVE Grows(rs, WithCleanups(rs, a, ledgered, epoch), g)
<1> DEFINE to == WithCleanups(rs, a, ledgered, epoch)
           row == CopyRepair(a, Nil, "CLEANUP", a.version, epoch)
<1>1. Has(row, RepairFields) /\ row.state = "PENDING" /\ row.token = 0
  BY CopyRepairRow
<1> HIDE DEF row
<1>2. \A key \in RepairKeys : to[key] = rs[key] \/ (key[1] = "DELETE_GENERATION" /\ to[key] = InsertRepair(rs, key, row)[key])
  BY DEF WithCleanups, row
<1>3. Has(to, RepairKeys)
  BY DEF WithCleanups, Has
<1> HIDE DEF to
<1>4. \A key \in RepairKeys : Grows(rs, InsertRepair(rs, key, row), key[2])
  BY <1>1, InsertGrows
<1>5. RowsOK(to)
  BY <1>2, <1>3, <1>4 DEF Grows, RowsOK
<1> QED BY <1>2, <1>4, <1>5 DEF Grows, CopyKinds, RowsOK, to

\* A publication adds the copy of the generation it publishes.
LEMMA PublicationGrows ==
  ASSUME NEW rs, RowsOK(rs), NEW a, NEW epoch PROVE Grows(rs, WithPublication(rs, a, epoch), a.gen)
<1> DEFINE row == CopyRepair(a, a.primary, "REPLICA", a.version, epoch)
           key == <<"REPLICA", a.gen, a.replica>>
<1>1. Has(row, RepairFields) /\ row.state = "PENDING" /\ row.token = 0 /\ key[2] = a.gen
  BY CopyRepairRow
<1> HIDE DEF row, key
<1>2. Grows(rs, InsertRepair(rs, key, row), a.gen)
  BY <1>1, InsertGrows
<1>3. Grows(rs, rs, a.gen)
  BY DEF Grows, RowsOK
<1> QED BY <1>2, <1>3 DEF WithPublication, row, key

\* The cleanups of a changed placement are no copies.
LEMMA PlacementCleanupsGrow ==
  ASSUME NEW rs, RowsOK(rs), NEW old, NEW a, NEW version, NEW epoch, NEW g
  PROVE  Grows(rs, WithPlacementCleanups(rs, old, a, version, epoch), g)
<1> DEFINE row == CopyRepair(old, Nil, "CLEANUP", version, epoch)
           late == [row EXCEPT !.state = "WAITING_CUTOVER"]
           waiting == [key \in RepairKeys |->
              IF /\ key[1] = "DELETE_GENERATION" /\ key[2] = old.gen
                 /\ key[3] \in AbandonedLocations(old, a)
              THEN InsertWaiting(rs, key, row)[key] ELSE rs[key]]
           freed == ReleaseWaiting(waiting, old.gen, version)
<1>1. Has(row, RepairFields) /\ row.token = 0
  BY CopyRepairRow
<1>2. Has(late, RepairFields) /\ late.token = 0 /\ late.state = "WAITING_CUTOVER"
  BY <1>1 DEF Has, RepairFields
<1>3. Has(waiting, RepairKeys) /\ \A key \in RepairKeys :
          waiting[key] = rs[key] \/ (key[1] = "DELETE_GENERATION" /\ waiting[key] = InsertWaiting(rs, key, row)[key])
  BY DEF Has
<1>4. \A key \in RepairKeys : InsertWaiting(rs, key, row)[key] = rs[key]
                              \/ (rs[key].state = "NONE" /\ InsertWaiting(rs, key, row)[key] = late)
  BY DEF InsertWaiting, RowsOK, Has
<1> HIDE DEF row, late, waiting
<1>5. \A key \in RepairKeys :
          waiting[key] = rs[key] \/ (key[1] = "DELETE_GENERATION" /\ rs[key].state = "NONE" /\ waiting[key] = late)
  BY <1>3, <1>4
<1>6. RowsOK(waiting)
  BY <1>2, <1>3, <1>5 DEF RowsOK
<1>7. Grows(rs, waiting, g)
  BY <1>2, <1>5, <1>6 DEF Grows, CopyKinds, RowsOK
<1>8. Has(freed, RepairKeys) /\ \A key \in RepairKeys :
          freed[key] = waiting[key] \/ (waiting[key].state = "WAITING_CUTOVER" /\ freed[key] = [waiting[key] EXCEPT !.state = "PENDING"])
  BY DEF ReleaseWaiting, Has
<1> HIDE DEF freed
<1>9. \A key \in RepairKeys : /\ Has(freed[key], RepairFields) /\ freed[key].token = waiting[key].token
                              /\ freed[key].state = "NONE" <=> waiting[key].state = "NONE"
  BY <1>6, <1>8 DEF RowsOK, Has, RepairFields
<1>10. RowsOK(freed)
  BY <1>6, <1>8, <1>9 DEF RowsOK
<1>11. Grows(waiting, freed, g)
  BY <1>6, <1>9, <1>10 DEF Grows, RowsOK
<1>12. Grows(rs, freed, g)
  BY <1>7, <1>11, GrowsTwice
<1> QED BY <1>7, <1>12 DEF WithPlacementCleanups, waiting, freed, row

(* What a step may do to each of the tables.  The row of an operation is inserted
   with the key its request has read, and stays what it is about. *)
SameWork(s, r) == s.key = r.key /\ s.backend = r.backend /\ s.epoch = r.epoch /\ s.version = r.version
Inserts(o, s) ==
    s.state # "NONE" => \/ ops[o].state # "NONE" /\ s.key = ops[o].key
                        \/ put[o].pc = "fenced" /\ s.key = put[o].key
Reads(o, r) == r.pc \in {"read", "fenced"} => r.key \in Keys \/ (put[o].pc = "read" /\ r.key = put[o].key)
OpsKept ==
    /\ Has(ops', Ops) /\ Has(put', Ops) /\ \A o \in Ops : Has(ops'[o], OpFields) /\ Has(put'[o], PutFields)
    /\ \A o \in Ops : ops[o].state = "COMMITTED" => ops'[o].state = "COMMITTED"
    /\ \A o \in Ops : put[o].pc \notin Early => put'[o].pc \notin Early
    /\ \A o \in Ops : put[o].pc \notin Unjournaled => put'[o].pc \notin Unjournaled
    /\ \A o \in Ops : put[o].pc \notin Uninserted => SameWork(ops'[o], ops[o])
    /\ \A o \in Ops : ops'[o].version \in {ops[o].version, config}
    /\ \A o \in Ops : Inserts(o, ops'[o]) /\ (Reads(o, put'[o]) \/ put'[o] = put[o])
    /\ NotInserted'
Shown(g) == \E k \in Keys : auth[k] # Nil /\ auth[k].gen = g
AuthKept ==
    /\ Has(auth', Keys) /\ \A k \in Keys : auth'[k] # Nil => Has(auth'[k], AuthFields)
    /\ \A g \in Ops : Shown(g)' => ops'[g].state = "COMMITTED" /\ (Shown(g) \/ ops[g].state # "COMMITTED")
RowsKept ==
    /\ RowsOK(repairs')
    /\ \A key \in RepairKeys :
         \/ /\ repairs[key].state # "NONE" /\ repairs'[key].state # "NONE" /\ repairs'[key].token >= repairs[key].token
         \/ /\ repairs[key].state = "NONE" /\ repairs'[key].state # "NONE"
            /\ key[1] \in CopyKinds => ops'[key[2]].state = "COMMITTED" /\ (Shown(key[2]) \/ ops[key[2]].state # "COMMITTED")
         \/ /\ repairs'[key].state = "NONE" /\ repairs'[key].token = 0
            /\ repairs[key].state = "NONE" \/ \A k \in Keys : auth'[k] = Nil
WorkersKept ==
    /\ Has(worker', Workers) /\ \A i \in Workers : Has(worker'[i], WorkerFields) /\ Has(worker'[i].row, RepairFields)
    /\ \A i \in Workers : worker'[i].pc # "idle" => worker'[i].key \in RepairKeys
    /\ \A i \in Workers : worker'[i].pc \in AtCopy => worker'[i].key[1] \in CopyKinds
    /\ \A i \in Workers :
         Claimed(i)' => Claimed(i) /\ worker'[i].key = worker[i].key /\ worker'[i].row.token = worker[i].row.token
    /\ \A i \in Workers : Opening(i)' => Opening(i)

(* So tokens stay spent, requests do not go back, and a worker that opens its
   source has a token that is new or the one it had. *)
GenKept ==
    /\ \A o \in Ops : put[o].pc \notin Early => put'[o].pc \notin Early
    /\ \A o \in Ops : put[o].pc \notin Unjournaled => put'[o].pc \notin Unjournaled
    /\ \A o \in Ops : put[o].pc \notin Uninserted => SameWork(ops'[o], ops[o])
    /\ \A o \in Ops : ops'[o].version \in {ops[o].version, config}
    /\ \A o \in Ops : Inserts(o, ops'[o]) /\ (Reads(o, put'[o]) \/ put'[o] = put[o])
    /\ \A key \in RepairKeys : \A token : key[1] \in CopyKinds /\ Spent(key, token) => Spent(key, token)'
    /\ \A i \in Workers :
         Opening(i)' => \/ Opening(i) /\ worker'[i].key = worker[i].key /\ worker'[i].row.token = worker[i].row.token
                        \/ ~ Spent(worker'[i].key, worker'[i].row.token)

\* A token that is spent stays spent, whatever a step does to the tables.
LEMMA SpentKept ==
  ASSUME GenInvariant, OpsKept, AuthKept, RowsKept, NEW key \in RepairKeys, NEW token, key[1] \in CopyKinds, Spent(key, token)
  PROVE  Spent(key, token)'
<1>1. key[2] \in Ops
  BY DEF RepairKeys
<1>2. /\ token \in Nat \ {0} /\ ops[key[2]].state = "COMMITTED"
      /\ token <= repairs[key].token \/ (repairs[key].state = "NONE" /\ ~ Shown(key[2]))
  BY DEF Spent, Shown
<1>3. ops'[key[2]].state = "COMMITTED"
  BY <1>1, <1>2 DEF OpsKept
<1>4. /\ repairs[key].token \in Nat /\ repairs'[key].token \in Nat
      /\ repairs[key].state = "NONE" => repairs[key].token = 0
  BY DEF GenInvariant, GenShapes, RowsKept, RowsOK, CopiedCommitted
<1>5. Shown(key[2])' => Shown(key[2])
  BY <1>1, <1>2 DEF AuthKept
<1>6. token <= repairs'[key].token \/ (repairs'[key].state = "NONE" /\ ~ Shown(key[2])')
  <2>1. CASE repairs[key].state # "NONE" /\ repairs'[key].state # "NONE" /\ repairs'[key].token >= repairs[key].token
    BY <1>2, <1>4, <2>1
  <2>2. CASE /\ repairs[key].state = "NONE" /\ repairs'[key].state # "NONE"
             /\ Shown(key[2]) \/ ops[key[2]].state # "COMMITTED"
    BY <1>2, <1>4, <2>2
  <2>3. CASE repairs'[key].state = "NONE" /\ repairs[key].state = "NONE"
    BY <1>2, <1>4, <1>5, <2>3
  <2>4. CASE repairs'[key].state = "NONE" /\ \A k \in Keys : auth'[k] = Nil
    BY <2>4 DEF Shown
  <2> QED BY <2>1, <2>2, <2>3, <2>4 DEF RowsKept
<1> QED BY <1>2, <1>3, <1>6 DEF Spent, Shown

\* Shown and copied generations stay committed.
LEMMA GenTables ==
  ASSUME GenInvariant, OpsKept, AuthKept, RowsKept PROVE ShownCommitted' /\ CopiedCommitted'
<1>1. ShownCommitted'
  BY DEF ShownCommitted, AuthKept, Shown
<1>2. ASSUME NEW key \in RepairKeys
      PROVE  /\ repairs'[key].state = "NONE" => repairs'[key].token = 0
             /\ repairs'[key].state # "NONE" /\ key[1] \in CopyKinds => ops'[key[2]].state = "COMMITTED"
  <2>1. key[2] \in Ops
    BY DEF RepairKeys
  <2> QED BY <2>1 DEF RowsKept, OpsKept, GenInvariant, CopiedCommitted
<1> QED BY <1>1, <1>2 DEF CopiedCommitted

\* A step that does to each table no more than that keeps the invariant.
LEMMA GenMoves ==
  ASSUME GenInvariant, OpsKept, AuthKept, RowsKept, WorkersKept, Surveyed' PROVE GenInvariant' /\ GenKept
<1>1. \A key \in RepairKeys : \A token : key[1] \in CopyKinds /\ Spent(key, token) => Spent(key, token)'
  BY SpentKept
<1>2. GenShapes'
  BY DEF OpsKept, AuthKept, RowsKept, RowsOK, WorkersKept, GenShapes
<1>3. \A i \in Workers : Claimed(i)' => Spent(worker[i].key, worker[i].row.token)'
  <2> SUFFICES ASSUME NEW i \in Workers, Claimed(i)' PROVE Spent(worker[i].key, worker[i].row.token)'
    OBVIOUS
  <2>1. Claimed(i) /\ worker'[i].key = worker[i].key /\ worker'[i].row.token = worker[i].row.token
    BY DEF WorkersKept
  <2>2. PICK key, token :
            key \in RepairKeys /\ key = worker[i].key /\ token = worker[i].row.token /\ Spent(key, token) /\ key[1] \in CopyKinds
    BY <2>1 DEF GenInvariant, TokensSpent, Claimed
  <2>3. Spent(key, token)'
    BY <2>2, SpentKept
  <2>4. worker'[i].key = key /\ worker'[i].row.token = token
    BY <2>1, <2>2
  <2> QED BY <2>3, <2>4 DEF Spent
<1>4. \A i \in Workers :
         Opening(i)' => Opening(i) /\ worker'[i].key = worker[i].key /\ worker'[i].row.token = worker[i].row.token
  BY DEF WorkersKept, Opening, Claimed
<1>5. TokensSpent'
  BY <1>3 DEF TokensSpent, WorkersKept, GenInvariant
<1>6. GenKept
  BY <1>1, <1>4 DEF GenKept, OpsKept
<1> QED BY <1>2, <1>5, <1>6, GenTables DEF GenInvariant, OpsKept

\* A step that leaves a table alone, or moves one row of it.
LEMMA OpsSame == ASSUME GenInvariant, UNCHANGED <<ops, put>> PROVE OpsKept
  BY DEF GenInvariant, GenShapes, OpsKept, NotInserted, SameWork, Inserts

\* One request moves, and its operation with it.
LEMMA OneRequest ==
  ASSUME GenInvariant, NEW o \in Ops, NEW r, NEW s, put' = [put EXCEPT ![o] = r], ops' = [ops EXCEPT ![o] = s],
         Has(r, PutFields), Has(s, OpFields), ops[o].state = "COMMITTED" => s.state = "COMMITTED",
         put[o].pc \notin Early => r.pc \notin Early, put[o].pc \notin Unjournaled => r.pc \notin Unjournaled,
         r.pc \in Uninserted => s.state = "NONE",
         put[o].pc \notin Uninserted => SameWork(s, ops[o]),
         s.version \in {ops[o].version, config}, Inserts(o, s), Reads(o, r)
  PROVE  OpsKept
<1>1. Has(ops, Ops) /\ Has(put, Ops) /\ (\A a \in Ops : Has(ops[a], OpFields) /\ Has(put[a], PutFields)) /\ NotInserted
  BY DEF GenInvariant, GenShapes
<1>2. Has(ops', Ops) /\ Has(put', Ops) /\ ops'[o] = s /\ put'[o] = r
      /\ (\A a \in Ops \ {o} : ops'[a] = ops[a] /\ put'[a] = put[a])
  BY <1>1 DEF Has
<1> QED BY <1>1, <1>2 DEF OpsKept, NotInserted, SameWork, Inserts, Reads

\* The authority stays.
LEMMA AuthSame == ASSUME GenInvariant, OpsKept, UNCHANGED auth PROVE AuthKept
  BY DEF GenInvariant, GenShapes, OpsKept, AuthKept, Shown, ShownCommitted

(* The authority of one key is replaced by a row that shows a generation committed
   before or in this step. *)
LEMMA OneAuthority ==
  ASSUME GenInvariant, OpsKept, NEW k, NEW a, auth' = [auth EXCEPT ![k] = a], Has(a, AuthFields),
         a.gen \in Ops => ops'[a.gen].state = "COMMITTED" /\ (Shown(a.gen) \/ ops[a.gen].state # "COMMITTED")
  PROVE  AuthKept
<1>1. Has(auth, Keys) /\ \A j \in Keys : auth[j] # Nil => Has(auth[j], AuthFields)
  BY DEF GenInvariant, GenShapes
<1>2. Has(auth', Keys) /\ \A j \in Keys : auth'[j] = auth[j] \/ auth'[j] = a
  BY <1>1 DEF Has
<1>3. \A g \in Ops : Shown(g)' => Shown(g) \/ g = a.gen
  BY <1>2 DEF Shown
<1>4. \A g \in Ops : Shown(g) => ops'[g].state = "COMMITTED"
  BY DEF Shown, GenInvariant, ShownCommitted, OpsKept
<1> QED BY <1>1, <1>2, <1>3, <1>4 DEF AuthKept

\* The repairs stay.
LEMMA RowsSame == ASSUME GenInvariant, UNCHANGED repairs PROVE RowsKept
  BY DEF GenInvariant, GenShapes, RowsKept, RowsOK, CopiedCommitted

\* The repairs grow by copies of a generation that is shown or commits.
LEMMA RowsGrow ==
  ASSUME GenInvariant, NEW g, Grows(repairs, repairs', g),
         g \in Ops => ops'[g].state = "COMMITTED" /\ (Shown(g) \/ ops[g].state # "COMMITTED")
  PROVE  RowsKept
<1>1. RowsOK(repairs)
  BY DEF GenInvariant, GenShapes, RowsOK
<1>2. \A key \in RepairKeys : key[2] \in Ops
  BY DEF RepairKeys
<1> QED BY <1>1, <1>2 DEF Grows, RowsKept, RowsOK, GenInvariant, CopiedCommitted

\* One repair row changes and counts on.
LEMMA OneRow ==
  ASSUME NEW rs, RowsOK(rs), NEW key \in RepairKeys, NEW r, NEW g, Has(r, RepairFields), r.token \in Nat, r.token >= rs[key].token,
         rs[key].state # "NONE", r.state # "NONE"
  PROVE  Grows(rs, [rs EXCEPT ![key] = r], g)
  BY DEF Grows, RowsOK, Has

\* The workers stay.
LEMMA WorkersSame == ASSUME GenInvariant, UNCHANGED worker PROVE WorkersKept
  BY DEF GenInvariant, GenShapes, WorkersKept, TokensSpent, Claimed, Opening

\* One worker moves on with the token it has, or gives its row up.
LEMMA OneWorker ==
  ASSUME GenInvariant, NEW w \in Workers, NEW r, worker' = [worker EXCEPT ![w] = r], Has(r, WorkerFields), Has(r.row, RepairFields),
         r.pc # "idle" => r.key \in RepairKeys, r.pc \in AtCopy => r.key[1] \in CopyKinds,
         r.pc \notin {"idle", "selected"} => worker[w].pc \notin {"idle", "selected"} /\ r.key = worker[w].key /\ r.row.token = worker[w].row.token,
         r.pc \in {"claimed", "opened"} => worker[w].pc \in {"claimed", "opened"}
  PROVE  WorkersKept
<1>1. /\ Has(worker, Workers) /\ \A i \in Workers : Has(worker[i], WorkerFields) /\ Has(worker[i].row, RepairFields)
      /\ \A i \in Workers : worker[i].pc # "idle" => worker[i].key \in RepairKeys
      /\ \A i \in Workers : worker[i].pc \in AtCopy => worker[i].key[1] \in CopyKinds
  BY DEF GenInvariant, GenShapes, TokensSpent
<1>2. Has(worker', Workers) /\ worker'[w] = r /\ \A i \in Workers \ {w} : worker'[i] = worker[i]
  BY <1>1 DEF Has
<1> QED BY <1>1, <1>2 DEF WorkersKept, Claimed, Opening

\* The survey stays.
LEMMA SurveySame == ASSUME GenInvariant, UNCHANGED survey PROVE Surveyed'
  BY DEF GenInvariant, Surveyed

\* A request goes on to a later step and changes its operation row.
LEMMA GotoMoves ==
  ASSUME GenInvariant, NEW o \in Ops, NEW pc, NEW s, Goto(o, pc), ops' = [ops EXCEPT ![o] = s], Has(s, OpFields),
         ops[o].state = "COMMITTED" => s.state = "COMMITTED",
         put[o].pc \notin Early => pc \notin Early, put[o].pc \notin Unjournaled => pc \notin Unjournaled,
         pc \notin Uninserted, put[o].pc \notin Uninserted => SameWork(s, ops[o]),
         s.version \in {ops[o].version, config}, Inserts(o, s)
  PROVE  OpsKept
<1> DEFINE r == [put[o] EXCEPT !.pc = pc]
<1>1. Has(r, PutFields) /\ r.pc = pc
  BY DEF GenInvariant, GenShapes, Has, PutFields
<1>2. put' = [put EXCEPT ![o] = r]
  BY DEF Goto
<1> HIDE DEF r
<1>3. Reads(o, r)
  BY <1>1 DEF Reads, Uninserted
<1> QED BY <1>1, <1>2, <1>3, OneRequest DEF Uninserted

\* A request goes on and leaves its operation row alone.
LEMMA GotoOnly ==
  ASSUME GenInvariant, NEW o \in Ops, NEW pc, Goto(o, pc), UNCHANGED ops,
         put[o].pc \notin Early => pc \notin Early, put[o].pc \notin Unjournaled => pc \notin Unjournaled,
         pc \notin Uninserted
  PROVE  OpsKept
<1>1. ops' = [ops EXCEPT ![o] = ops[o]] /\ Has(ops[o], OpFields)
  BY DEF GenInvariant, GenShapes, Has
<1> QED BY <1>1, GotoMoves DEF SameWork, Inserts

\* Every step of a request keeps what is inserted and what is committed.
LEMMA RequestMoves == ASSUME GenInvariant, NEW o \in Ops, RequestStep(o) PROVE OpsKept
<1>0. /\ Has(put[o], PutFields) /\ Has(ops[o], OpFields) /\ ops = [ops EXCEPT ![o] = ops[o]]
      /\ put[o].pc \in Uninserted => ops[o].state = "NONE"
  BY DEF GenInvariant, GenShapes, NotInserted, Has
<1> USE DEF Uninserted, Early, Unjournaled, SameWork, Inserts, Reads
<1>1. ASSUME NEW k \in Keys, ReadAuthority(o, k) PROVE OpsKept
  <2> DEFINE r == [put[o] EXCEPT !.pc = "read", !.key = k, !.cas = CasAt(auth[k]), !.prior = SizeAt(auth[k])]
  <2>1. Has(r, PutFields) /\ r.pc = "read" /\ r.key = k
    BY <1>0 DEF Has, PutFields
  <2>2. put' = [put EXCEPT ![o] = r] /\ ops' = ops /\ put[o].pc = "idle"
    BY <1>1 DEF ReadAuthority
  <2> HIDE DEF r
  <2> QED BY <1>0, <2>1, <2>2, OneRequest
<1>2. CASE RouteFence(o)
  <2> DEFINE r == [put[o] EXCEPT !.pc = "fenced", !.epoch = ns.epoch, !.routing = ns.routing]
  <2>1. Has(r, PutFields) /\ r.pc = "fenced" /\ r.key = put[o].key
    BY <1>0 DEF Has, PutFields
  <2>2. put' = [put EXCEPT ![o] = r] /\ ops' = ops /\ put[o].pc = "read"
    BY <1>2 DEF RouteFence
  <2> HIDE DEF r
  <2> QED BY <1>0, <2>1, <2>2, OneRequest
<1>3. ASSUME NEW kind, InsertLogicalOperation(o, kind) PROVE OpsKept
  <2> DEFINE s == [NoOp EXCEPT !.state = "INTENT", !.kind = kind, !.key = put[o].key,
                              !.backend = Placed(config).primary, !.version = config,
                              !.epoch = put[o].epoch, !.routing = put[o].routing,
                              !.cas = put[o].cas, !.prior = put[o].prior]
  <2>1. Has(s, OpFields) /\ s.version = config /\ s.key = put[o].key
    BY DEF Has, OpFields, NoOp
  <2>2. /\ put[o].pc = "fenced"
        /\ (ops' = [ops EXCEPT ![o] = s] /\ Goto(o, "inserted")) \/ (Goto(o, "failed") /\ UNCHANGED ops)
    BY <1>3 DEF InsertLogicalOperation
  <2> HIDE DEF s
  <2> QED BY <1>0, <2>1, <2>2, GotoMoves, GotoOnly
<1>4. CASE ReadUsage(o)
  <2>1. PICK want : put' = [put EXCEPT ![o] = [@ EXCEPT !.pc = "sized", !.resv = want]]
    BY <1>4 DEF ReadUsage
  <2> DEFINE r == [put[o] EXCEPT !.pc = "sized", !.resv = want]
  <2>2. Has(r, PutFields) /\ r.pc = "sized"
    BY <1>0 DEF Has, PutFields
  <2>3. put' = [put EXCEPT ![o] = r] /\ ops' = ops /\ put[o].pc = "inserted"
    BY <1>4, <2>1 DEF ReadUsage
  <2> HIDE DEF r
  <2> QED BY <1>0, <2>2, <2>3, OneRequest
<1>5. CASE ReserveLogicalOperation(o)
  <2> DEFINE s == [ops[o] EXCEPT !.state = "OPEN", !.reserved = put[o].resv]
  <2>1. Has(s, OpFields) /\ SameWork(s, ops[o])
    BY <1>0 DEF Has, OpFields, SameWork
  <2>2. /\ put[o].pc = "sized"
        /\ \/ /\ ops[o].state = "INTENT" /\ ops' = [ops EXCEPT ![o] = s]
              /\ Goto(o, "reserved") \/ Goto(o, "verified")
           \/ Goto(o, "refused") /\ UNCHANGED ops
    BY <1>0, <1>5 DEF ReserveLogicalOperation, Has
  <2> HIDE DEF s
  <2> QED BY <1>0, <2>1, <2>2, GotoMoves, GotoOnly
<1>6. CASE BeginPhysicalWrite(o) \/ BeginJournal(o) \/ BeginJournalFails(o) \/ WriteFails(o)
  BY <1>6, GotoOnly DEF BeginPhysicalWrite, BeginJournal, BeginJournalFails, WriteFails
<1>7. ASSUME NEW size, VerifyOutput(o, size) PROVE OpsKept
  <2> DEFINE r == [put[o] EXCEPT !.pc = "verified", !.size = size]
  <2>2. Has(r, PutFields) /\ r.pc = "verified"
    BY <1>0 DEF Has, PutFields
  <2>3. put' = [put EXCEPT ![o] = r] /\ ops' = ops /\ put[o].pc = "writing"
    BY <1>7 DEF VerifyOutput
  <2> HIDE DEF r
  <2> QED BY <1>0, <2>2, <2>3, OneRequest
<1>8. CASE RecordLogicalUsage(o)
  <2> DEFINE s == [ops[o] EXCEPT !.size = OutputSize(o)]
  <2>1. Has(s, OpFields) /\ s.state = ops[o].state /\ SameWork(s, ops[o])
    BY <1>0 DEF Has, OpFields, SameWork
  <2>2. /\ put[o].pc = "verified"
        /\ (ops' = [ops EXCEPT ![o] = s] /\ Goto(o, "recorded")) \/ (Goto(o, "aborting") /\ UNCHANGED ops)
    BY <1>8 DEF RecordLogicalUsage
  <2> HIDE DEF s
  <2> QED BY <1>0, <2>1, <2>2, GotoMoves, GotoOnly
<1>9. CASE TransitionLogicalOperation(o)
  <2> DEFINE s == [ops[o] EXCEPT !.state = "COMPLETING"]
  <2>1. Has(s, OpFields) /\ SameWork(s, ops[o])
    BY <1>0 DEF Has, OpFields, SameWork
  <2>2. /\ put[o].pc = "recorded"
        /\ \/ /\ ops[o].state = "OPEN" /\ ops' = [ops EXCEPT ![o] = s]
              /\ Goto(o, "completing") \/ Goto(o, "ledgered")
           \/ Goto(o, "aborting") /\ UNCHANGED ops
    BY <1>9 DEF TransitionLogicalOperation
  <2> HIDE DEF s
  <2> QED BY <1>0, <2>1, <2>2, GotoMoves, GotoOnly
<1>10. CASE CompleteChild(o) \/ CompleteRefused(o) \/ AbortChild(o) \/ AbortAtProvider(o) \/ WithdrawIntent(o) \/ Crash(o)
  <2>1. CASE CompleteChild(o) \/ CompleteRefused(o)
    BY <2>1, GotoOnly DEF CompleteChild, CompleteRefused
  <2>2. CASE AbortChild(o)
    BY <2>2, GotoOnly DEF AbortChild
  <2>3. CASE Crash(o)
    BY <2>3, GotoOnly DEF Crash
  <2>4. CASE AbortAtProvider(o)
    BY <2>4, GotoOnly DEF AbortAtProvider
  <2>5. CASE WithdrawIntent(o)
    BY <2>5, GotoOnly DEF WithdrawIntent
  <2> QED BY <1>10, <2>1, <2>2, <2>3, <2>4, <2>5
<1>11. CASE CommitPhysicalWrite(o)
  <2>1. put[o].pc = "stored" /\ UNCHANGED ops /\ (Goto(o, "ledgered") \/ Goto(o, "failed"))
    BY <1>11 DEF CommitPhysicalWrite
  <2> QED BY <2>1, GotoOnly
<1>12. CASE ProveLogicalAbort(o)
  <2> DEFINE s == [ops[o] EXCEPT !.state = "PROVEN_ABORTED"]
  <2>1. Has(s, OpFields) /\ SameWork(s, ops[o])
    BY <1>0 DEF Has, OpFields, SameWork
  <2>2. /\ put[o].pc \in {"refused", "withdrawn"} /\ Goto(o, "failed")
        /\ (ops[o].state \notin {"NONE", "COMMITTED"} /\ ops' = [ops EXCEPT ![o] = s]) \/ UNCHANGED ops
    BY <1>12 DEF ProveLogicalAbort, CanProveAbort, Terminal
  <2> HIDE DEF s
  <2> QED BY <1>0, <2>1, <2>2, GotoMoves, GotoOnly
<1>13. CASE ProvePhysicalAbort(o)
  <2>1. PICK bytes : /\ put[o].pc \in {"failed", "crashed"} /\ UNCHANGED put /\ ops[o].state \notin {"NONE", "COMMITTED"}
                     /\ ops' = [ops EXCEPT ![o].state = "PROVEN_ABORTED", ![o].committed = bytes]
    BY <1>13 DEF ProvePhysicalAbort, CanProveAbort, Terminal
  <2> DEFINE s == [ops[o] EXCEPT !.state = "PROVEN_ABORTED", !.committed = bytes]
  <2>2. Has(s, OpFields) /\ SameWork(s, ops[o]) /\ ops' = [ops EXCEPT ![o] = s]
    BY <1>0, <2>1 DEF Has, OpFields, SameWork
  <2>3. put' = [put EXCEPT ![o] = put[o]]
    BY <2>1 DEF GenInvariant, GenShapes, Has
  <2> HIDE DEF s
  <2> QED BY <1>0, <2>1, <2>2, <2>3, OneRequest
<1>14. CASE CommitLogicalPut(o)
  <2> DEFINE s == [ops[o] EXCEPT !.state = "COMMITTED", !.committed = Allocation(o)]
  <2>1. Has(s, OpFields) /\ s.state = "COMMITTED" /\ SameWork(s, ops[o])
    BY <1>0 DEF Has, OpFields, SameWork
  <2>2. /\ put[o].pc = "ledgered"
        /\ \/ ops[o].state # "NONE" /\ ops' = [ops EXCEPT ![o] = s] /\ Goto(o, "done")
           \/ Goto(o, "failed") /\ UNCHANGED ops
    BY <1>0, <1>14 DEF CommitLogicalPut, CanCommit
  <2> HIDE DEF s
  <2> QED BY <1>0, <2>1, <2>2, GotoMoves, GotoOnly
<1>15. CASE CommitLogicalDelete(o)
  <2> DEFINE s == [ops[o] EXCEPT !.state = "COMMITTED"]
  <2>1. Has(s, OpFields) /\ s.state = "COMMITTED" /\ SameWork(s, ops[o])
    BY <1>0 DEF Has, OpFields, SameWork
  <2>2. /\ put[o].pc = "ledgered"
        /\ \/ ops[o].state # "NONE" /\ ops' = [ops EXCEPT ![o] = s] /\ Goto(o, "done")
           \/ Goto(o, "failed") /\ UNCHANGED ops
    BY <1>15 DEF CommitLogicalDelete, CanCommitDelete, CanCommit
  <2> HIDE DEF s
  <2> QED BY <1>0, <2>1, <2>2, GotoMoves, GotoOnly
<1> QED BY <1>1, <1>2, <1>3, <1>4, <1>5, <1>6, <1>7, <1>8, <1>9, <1>10, <1>11, <1>12, <1>13, <1>14, <1>15 DEF RequestStep

\* A commit that supersedes a generation adds its cleanups.
LEMMA SupersedingGrows ==
  ASSUME NEW rs, RowsOK(rs), NEW k, NEW epoch, NEW g PROVE Grows(rs, Superseding(rs, k, epoch), g)
<1>1. Grows(rs, rs, g)
  BY DEF Grows, RowsOK
<1>2. Grows(rs, WithCleanups(rs, auth[k], LedgeredBackends(auth[k].gen), epoch), g)
  BY CleanupsGrow
<1> QED BY <1>1, <1>2 DEF Superseding

\* The steps of requests and reconcilers keep the invariant.
LEMMA WriteMoves ==
  ASSUME GenInvariant, WriteStep, UNCHANGED <<repairVars, purgeVars>> PROVE GenInvariant' /\ GenKept
<1>0. RowsOK(repairs)
  BY DEF GenInvariant, GenShapes, RowsOK
<1>1. WorkersKept /\ Surveyed'
  BY WorkersSame, SurveySame DEF repairVars
<1>2. OpsKept
  <2>1. CASE \E o \in Ops : RequestStep(o)
    BY <2>1, RequestMoves
  <2>2. CASE UNCHANGED <<ops, put>>
    BY <2>2, OpsSame
  <2> QED BY <2>1, <2>2 DEF WriteStep, TombstoneAuthoritative, IntentStep, ChildStep, ExpireIntent, ReconcileIntent,
             ReconcileChild, AdvanceRoutingEpoch
<1>3. CASE UNCHANGED <<auth, repairs>>
  BY <1>1, <1>2, <1>3, AuthSame, RowsSame, GenMoves
<1>4. ASSUME NEW o \in Ops, RequestStep(o) PROVE AuthKept /\ RowsKept
  <2>1. CASE UNCHANGED <<auth, repairs>>
    BY <1>2, <2>1, AuthSame, RowsSame
  <2>2. CASE ProvePhysicalAbort(o)
    <3>1. PICK gone, ledgered, epoch : repairs' = WithCleanups(repairs, gone, ledgered, epoch) /\ UNCHANGED auth
      BY <2>2 DEF ProvePhysicalAbort
    <3>2. Grows(repairs, repairs', Nil)
      BY <1>0, <3>1, CleanupsGrow
    <3> QED BY <1>2, <3>1, <3>2, AuthSame, RowsGrow, ManagedAssumption
  <2>3. CASE CommitLogicalPut(o)
    <3> DEFINE k == ops[o].key
               a == Published(o)
               rs == WithPublication(repairs, a, ops[o].epoch)
    <3>1. CASE /\ auth' = [auth EXCEPT ![k] = a] /\ repairs' = Superseding(rs, k, ops[o].epoch)
               /\ ops' = [ops EXCEPT ![o].state = "COMMITTED", ![o].committed = Allocation(o)] /\ CanCommit(o)
      <4>1. Has(a, AuthFields) /\ a.gen = o
        BY DEF Has, AuthFields, Published
      <4>2. ops[o].state # "COMMITTED" /\ ops'[o].state = "COMMITTED"
        BY <3>1 DEF CanCommit, GenInvariant, GenShapes, Has, OpFields
      <4> HIDE DEF a
      <4>3. Grows(repairs, rs, o)
        BY <1>0, <4>1, PublicationGrows
      <4>a. RowsOK(rs)
        BY <4>3 DEF Grows
      <4>4. Grows(rs, repairs', o)
        BY <3>1, <4>a, SupersedingGrows
      <4>5. Grows(repairs, repairs', o)
        BY <1>0, <4>3, <4>4, GrowsTwice
      <4> QED BY <1>2, <3>1, <4>1, <4>2, <4>5, OneAuthority, RowsGrow
    <3> QED BY <2>1, <2>3, <3>1 DEF CommitLogicalPut
  <2>4. CASE CommitLogicalDelete(o)
    <3> DEFINE k == ops[o].key
               a == Tombstone(o, ops[o].cas)
    <3>1. CASE /\ auth' = [auth EXCEPT ![k] = a] /\ repairs' = Superseding(repairs, k, ops[o].epoch)
               /\ ops' = [ops EXCEPT ![o].state = "COMMITTED"] /\ CanCommit(o)
      <4>1. Has(a, AuthFields) /\ a.gen = o
        BY DEF Has, AuthFields, Tombstone
      <4>2. ops[o].state # "COMMITTED" /\ ops'[o].state = "COMMITTED"
        BY <3>1 DEF CanCommit, GenInvariant, GenShapes, Has, OpFields
      <4> HIDE DEF a
      <4>3. Grows(repairs, repairs', o)
        BY <1>0, <3>1, SupersedingGrows
      <4> QED BY <1>2, <3>1, <4>1, <4>2, <4>3, OneAuthority, RowsGrow
    <3> QED BY <2>1, <2>4, <3>1 DEF CommitLogicalDelete, CanCommitDelete
  <2> QED BY <1>4, <2>1, <2>2, <2>3, <2>4 DEF RequestStep, ReadAuthority, RouteFence, InsertLogicalOperation, ReadUsage,
     ReserveLogicalOperation, BeginPhysicalWrite, BeginJournal, BeginJournalFails, VerifyOutput, WriteFails, RecordLogicalUsage,
     TransitionLogicalOperation, CompleteChild, CompleteRefused, CommitPhysicalWrite, AbortChild, AbortAtProvider, WithdrawIntent, ProveLogicalAbort, Crash
<1>5. ASSUME NEW k \in Keys, TombstoneAuthoritative(k) PROVE AuthKept /\ RowsKept
  <2> DEFINE a == Tombstone(Nil, CasAt(auth[k]))
  <2>1. Has(a, AuthFields) /\ a.gen = Nil
    BY DEF Has, AuthFields, Tombstone
  <2>2. auth' = [auth EXCEPT ![k] = a] /\ repairs' = Superseding(repairs, k, ns.epoch)
    BY <1>5 DEF TombstoneAuthoritative, GenInvariant, GenShapes, Has
  <2> HIDE DEF a
  <2>3. Grows(repairs, repairs', Nil)
    BY <1>0, <2>2, SupersedingGrows
  <2> QED BY <1>2, <2>1, <2>2, <2>3, OneAuthority, RowsGrow, ManagedAssumption
<1>6. CASE (\E o \in Ops : RequestStep(o)) \/ (\E k \in Keys : TombstoneAuthoritative(k))
  BY <1>1, <1>2, <1>4, <1>5, <1>6, GenMoves
<1> QED BY <1>3, <1>6 DEF WriteStep, IntentStep, ChildStep, ExpireIntent, ReconcileIntent, ReconcileChild, AdvanceRoutingEpoch

\* The steps of a worker, the claim of a repair aside.
LEMMA StepMoves ==
  ASSUME GenInvariant, NEW w \in Workers, NEW pc, Step(w, pc), worker[w].pc \notin {"idle", "selected"},
         pc \in {"claimed", "opened"} => worker[w].pc \in {"claimed", "opened"},
         pc \in AtCopy => worker[w].key[1] \in CopyKinds
  PROVE  WorkersKept
<1> DEFINE r == [worker[w] EXCEPT !.pc = pc]
<1>1. Has(r, WorkerFields) /\ r.pc = pc /\ r.key = worker[w].key /\ r.row = worker[w].row
  BY DEF GenInvariant, GenShapes, Has, WorkerFields
<1>2. worker' = [worker EXCEPT ![w] = r]
  BY DEF Step
<1>3. Has(worker[w].row, RepairFields) /\ worker[w].key \in RepairKeys
  BY DEF GenInvariant, GenShapes, TokensSpent
<1> HIDE DEF r
<1> QED BY <1>1, <1>2, <1>3, OneWorker

\* A worker gives up its row.
LEMMA IdleMoves == ASSUME GenInvariant, NEW w \in Workers, worker' = [worker EXCEPT ![w] = IdleWorker] PROVE WorkersKept
<1>1. Has(IdleWorker, WorkerFields) /\ Has(IdleWorker.row, RepairFields) /\ IdleWorker.pc = "idle"
  BY DEF Has, IdleWorker, WorkerFields, NoRepair, RepairFields
<1> QED BY <1>1, OneWorker DEF AtCopy

\* A cleanup releases an operation's allocation.
LEMMA Releases ==
  ASSUME GenInvariant, NEW o, NEW x, UNCHANGED put, UNCHANGED ops \/ ops' = [ops EXCEPT ![o].released = x] PROVE OpsKept
<1>1. Has(ops, Ops) /\ (\A a \in Ops : Has(ops[a], OpFields) /\ Has(put[a], PutFields)) /\ NotInserted /\ Has(put, Ops)
  BY DEF GenInvariant, GenShapes
<1>2. CASE UNCHANGED ops
  BY <1>2, OpsSame
<1>3. CASE ops' = [ops EXCEPT ![o].released = x]
  <2> DEFINE s == [ops[o] EXCEPT !.released = x]
  <2>1. o \in Ops => Has(s, OpFields) /\ s.state = ops[o].state /\ SameWork(s, ops[o])
    BY <1>1 DEF Has, OpFields, SameWork
  <2>2. ops' = [ops EXCEPT ![o] = s]
    BY <1>3
  <2> HIDE DEF s
  <2>3. Has(ops', Ops) /\ \A a \in Ops : ops'[a] = ops[a] \/ (a = o /\ ops'[a] = s)
    BY <1>1, <2>2 DEF Has
  <2> QED BY <1>1, <2>1, <2>3 DEF OpsKept, NotInserted, SameWork, Inserts
<1> QED BY <1>2, <1>3

\* A completed repair changes where a generation is, never which it is.
LEMMA Applies ==
  ASSUME NEW a, Has(a, AuthFields), NEW target, NEW r
  PROVE  /\ Has(ApplyPlacement(a, target, r), AuthFields) /\ ApplyPlacement(a, target, r).gen = a.gen
         /\ Has(ApplyCopy(a, target, r), AuthFields) /\ ApplyCopy(a, target, r).gen = a.gen
<1>1. Has(ApplyCopy(a, target, r), AuthFields) /\ ApplyCopy(a, target, r).gen = a.gen
  BY DEF ApplyCopy, Has, AuthFields
<1> DEFINE moved == IF r.role = "PRIMARY"
                    THEN [a EXCEPT !.primary = target, !.primaryStatus = "READY",
                                   !.replica = IF r.replica = Nil THEN Nil ELSE @,
                                   !.replicaStatus = IF r.replica = Nil THEN "ABSENT" ELSE @]
                    ELSE [a EXCEPT !.replica = target, !.replicaStatus = "READY"]
<1>2. Has(moved, AuthFields) /\ moved.gen = a.gen
  BY DEF Has, AuthFields
<1>3. PICK version : ApplyPlacement(a, target, r) = [moved EXCEPT !.version = version]
  BY DEF ApplyPlacement
<1> HIDE DEF moved
<1>4. Has(ApplyPlacement(a, target, r), AuthFields) /\ ApplyPlacement(a, target, r).gen = a.gen
  BY <1>2, <1>3 DEF Has, AuthFields
<1> QED BY <1>1, <1>4

\* A claim that leases nothing leaves the worker idle.
LEMMA ClaimIsNew ==
  ASSUME GenInvariant, NEW w \in Workers, ClaimRepair(w), UNCHANGED repairs PROVE worker' = [worker EXCEPT ![w] = IdleWorker]
<1>1. worker[w].key \in RepairKeys
  BY DEF ClaimRepair, GenInvariant, TokensSpent
<1>2. SUFFICES ASSUME worker' # [worker EXCEPT ![w] = IdleWorker] PROVE FALSE
  OBVIOUS
<1>3. PICK key, n : /\ key \in RepairKeys /\ n = repairs[key].token + 1
                    /\ repairs' = [repairs EXCEPT ![key] = [@ EXCEPT !.state = "LEASED", !.live = TRUE, !.token = n]]
  BY <1>1, <1>2 DEF ClaimRepair
<1>4. Has(repairs, RepairKeys) /\ Has(repairs[key], RepairFields) /\ repairs[key].token \in Nat
  BY <1>3 DEF GenInvariant, GenShapes
<1>5. repairs'[key].token = n
  BY <1>3, <1>4 DEF Has, RepairFields
<1> QED BY <1>3, <1>4, <1>5

\* The steps of a worker other than a claim that leases keep the invariant.
LEMMA WorkerMoves ==
  ASSUME GenInvariant, NEW w \in Workers, WorkerProgress(w) \/ WorkerCrash(w), ~ (ClaimRepair(w) /\ repairs' # repairs),
         UNCHANGED purgeVars
  PROVE  GenInvariant' /\ GenKept
<1>0. /\ RowsOK(repairs) /\ Has(worker[w], WorkerFields) /\ Has(worker[w].row, RepairFields)
      /\ worker[w].pc # "idle" => worker[w].key \in RepairKeys
  BY DEF GenInvariant, GenShapes, RowsOK, TokensSpent
<1>1. UNCHANGED survey
  BY DEF WorkerProgress, WorkerCrash, SelectCandidate, ClaimRepair, OpenSource, BeginCopy, BeginCopyJournal, BeginCopyFails, StoreCopy, CopyFails,
     SettleCopy, CheckCleanup, ListCleanup, ForgetVersion, DeleteVersion, CompleteRepair, FailRepair
<1>2. OpsKept
  <2>1. CASE ForgetVersion(w)
    <3>1. PICK v : ForgetEffects(v) /\ UNCHANGED put
      BY <2>1 DEF ForgetVersion
    <3> QED BY <3>1, Releases DEF ForgetEffects
  <2>2. CASE UNCHANGED <<ops, put>>
    BY <2>2, OpsSame
  <2> QED BY <2>1, <2>2 DEF WorkerProgress, WorkerCrash, SelectCandidate, ClaimRepair, OpenSource, BeginCopy, BeginCopyJournal, BeginCopyFails, StoreCopy, CopyFails,
     SettleCopy, CheckCleanup, ListCleanup, DeleteVersion, CompleteRepair, FailRepair, writeVars
<1>3. CASE CompleteRepair(w)
  <2> DEFINE key == worker[w].key
             row == worker[w].row
             end == [repairs[key] EXCEPT !.state = "DONE", !.live = FALSE]
             done == [repairs EXCEPT ![key] = end]
  <2>1. worker[w].pc = "finished" /\ worker' = [worker EXCEPT ![w] = IdleWorker] /\ key \in RepairKeys
    BY <1>0, <1>3 DEF CompleteRepair
  <2>2. CASE UNCHANGED <<auth, repairs>>
    BY <1>1, <1>2, <2>1, <2>2, AuthSame, RowsSame, IdleMoves, SurveySame, GenMoves
  <2>3. CASE CanComplete(w)
    <3>1. repairs[key].state = "LEASED"
      BY <2>3 DEF CanComplete, HoldsLease
    <3>2. Has(end, RepairFields) /\ end.state = "DONE" /\ end.token = repairs[key].token
      BY <1>0, <2>1 DEF RowsOK, Has, RepairFields
    <3> HIDE DEF end
    <3>3. \A g : Grows(repairs, done, g)
      BY <1>0, <2>1, <3>1, <3>2, OneRow DEF RowsOK
    <3>4. RowsOK(done)
      BY <3>3 DEF Grows
    <3> HIDE DEF done
    <3>5. CASE repairs' = done /\ UNCHANGED auth
      BY <1>1, <1>2, <2>1, <3>3, <3>5, AuthSame, RowsGrow, IdleMoves, SurveySame, GenMoves, ManagedAssumption
    <3>6. ASSUME NEW k \in Keys, AppliesTo(w, k), auth' = [auth EXCEPT ![k] = Applied(auth[k], key, row)],
                 repairs' = IF key[1] = "PLACEMENT"
                            THEN WithPlacementCleanups(done, auth[k], Applied(auth[k], key, row), row.version, row.epoch)
                            ELSE done
          PROVE  AuthKept /\ RowsKept
      <4> DEFINE new == Applied(auth[k], key, row)
      <4>1. auth[k] # Nil /\ Has(auth[k], AuthFields)
        BY <3>6 DEF AppliesTo, RepairApplies, GenInvariant, GenShapes
      <4>2. Has(new, AuthFields) /\ new.gen = auth[k].gen
        <5> DEFINE old == IF key[1] = "PLACEMENT" THEN ApplyPlacement(auth[k], key[3], row) ELSE ApplyCopy(auth[k], key[3], row)
        <5>1. Has(old, AuthFields) /\ old.gen = auth[k].gen
          BY <4>1, Applies
        <5>2. new = [old EXCEPT !.cas = auth[k].cas + 1]
          BY DEF Applied
        <5> HIDE DEF old, new
        <5>3. PICK n : new = [old EXCEPT !.cas = n]
          BY <5>2
        <5> QED BY <5>1, <5>3 DEF Has, AuthFields
      <4>3. new.gen \in Ops => Shown(new.gen) /\ ops'[new.gen].state = "COMMITTED"
        BY <1>2, <4>1, <4>2 DEF Shown, OpsKept, GenInvariant, ShownCommitted
      <4> HIDE DEF new
      <4>4. AuthKept
        BY <1>2, <3>6, <4>2, <4>3, OneAuthority DEF new
      <4>5. Grows(done, repairs', Nil)
        <5>1. Grows(done, WithPlacementCleanups(done, auth[k], new, row.version, row.epoch), Nil)
          BY <3>4, PlacementCleanupsGrow
        <5>2. Grows(done, done, Nil)
          BY <3>4 DEF Grows, RowsOK
        <5> QED BY <3>6, <5>1, <5>2 DEF new
      <4>6. Grows(repairs, repairs', Nil)
        BY <1>0, <3>3, <4>5, GrowsTwice
      <4> QED BY <4>4, <4>6, RowsGrow, ManagedAssumption
    <3>7. CASE \E k \in Keys : /\ AppliesTo(w, k) /\ auth' = [auth EXCEPT ![k] = Applied(auth[k], key, row)]
                               /\ repairs' = IF key[1] = "PLACEMENT"
                                             THEN WithPlacementCleanups(done, auth[k], Applied(auth[k], key, row), row.version, row.epoch)
                                             ELSE done
      BY <1>1, <1>2, <2>1, <3>6, <3>7, IdleMoves, SurveySame, GenMoves
    <3> QED BY <1>3, <2>3, <3>5, <3>7 DEF CompleteRepair, done, end
  <2> QED BY <1>3, <2>2, <2>3 DEF CompleteRepair
<1>4. CASE ~ CompleteRepair(w)
  <2>1. UNCHANGED auth
    BY <1>4 DEF WorkerProgress, WorkerCrash, SelectCandidate, ClaimRepair, OpenSource, BeginCopy, BeginCopyJournal, BeginCopyFails, StoreCopy, CopyFails,
       SettleCopy, CheckCleanup, ListCleanup, ForgetVersion, DeleteVersion, FailRepair, writeVars
  <2>2. RowsKept
    <3>1. CASE FailRepair(w) /\ HoldsLease(w)
      <4> DEFINE key == worker[w].key
      <4>1. key \in RepairKeys /\ repairs[key].state = "LEASED"
        BY <1>0, <3>1 DEF FailRepair, HoldsLease
      <4>2. PICK n, state : /\ repairs' = [repairs EXCEPT ![key] = [@ EXCEPT !.attempts = n, !.live = FALSE, !.state = state]]
                            /\ state \in {"DEAD", "PENDING"}
        BY <3>1 DEF FailRepair
      <4> DEFINE r == [repairs[key] EXCEPT !.attempts = n, !.live = FALSE, !.state = state]
      <4>3. Has(r, RepairFields) /\ r.state # "NONE" /\ r.token = repairs[key].token /\ repairs' = [repairs EXCEPT ![key] = r]
        BY <1>0, <4>1, <4>2 DEF RowsOK, Has, RepairFields
      <4> HIDE DEF r
      <4>4. repairs[key].token \in Nat
        BY <1>0, <4>1 DEF RowsOK
      <4>6. r.token \in Nat /\ r.token >= repairs[key].token /\ repairs[key].state # "NONE"
        BY <4>1, <4>3, <4>4
      <4> HIDE DEF key
      <4>5. Grows(repairs, [repairs EXCEPT ![key] = r], Nil)
        BY <1>0, <4>1, <4>3, <4>6, OneRow
      <4> QED BY <4>3, <4>5, RowsGrow, ManagedAssumption
    <3>2. CASE UNCHANGED repairs
      BY <3>2, RowsSame
    <3> QED BY <1>4, <3>1, <3>2 DEF WorkerProgress, WorkerCrash, SelectCandidate, OpenSource, BeginCopy, BeginCopyJournal, BeginCopyFails, StoreCopy, CopyFails,
       SettleCopy, CheckCleanup, ListCleanup, ForgetVersion, DeleteVersion, FailRepair, writeVars
  <2>3. WorkersKept
    <3>1. CASE WorkerCrash(w) \/ FailRepair(w)
      BY <3>1, IdleMoves DEF WorkerCrash, FailRepair
    <3>2. CASE ClaimRepair(w)
      <4>1. worker' = [worker EXCEPT ![w] = IdleWorker]
        BY <3>2, ClaimIsNew
      <4> QED BY <4>1, IdleMoves
    <3>3. ASSUME NEW key \in RepairKeys, SelectCandidate(w, key) PROVE WorkersKept
      <4> DEFINE r == [worker[w] EXCEPT !.pc = "selected", !.key = key, !.row = repairs[key]]
      <4>1. worker' = [worker EXCEPT ![w] = r]
        BY <3>3 DEF SelectCandidate
      <4>2. Has(r, WorkerFields) /\ r.pc = "selected" /\ r.key = key /\ r.row = repairs[key] /\ Has(repairs[key], RepairFields)
        BY <1>0 DEF Has, WorkerFields, RowsOK
      <4> HIDE DEF r
      <4> QED BY <4>1, <4>2, OneWorker DEF AtCopy
    <3>4. CASE OpenSource(w)
      <4>1. worker[w].pc = "claimed" /\ (Step(w, "opened") \/ Step(w, "failing")) /\ worker[w].key \in RepairKeys /\ Copying(w)
        BY <1>0, <3>4 DEF OpenSource
      <4>2. worker[w].key[1] \in CopyKinds
        BY <4>1 DEF RepairKeys, RepairKinds, Copying, CopyKinds
      <4> QED BY <4>1, <4>2, StepMoves
    <3>5. CASE BeginCopy(w) \/ BeginCopyJournal(w) \/ BeginCopyFails(w) \/ StoreCopy(w) \/ CopyFails(w) \/ CheckCleanup(w)
      <4>1. worker[w].pc \in AtCopy => worker[w].key[1] \in CopyKinds
        BY DEF GenInvariant, TokensSpent
      <4>2. CASE BeginCopy(w) \/ BeginCopyJournal(w) \/ BeginCopyFails(w) \/ StoreCopy(w)
        BY <4>1, <4>2, StepMoves DEF BeginCopy, BeginCopyJournal, BeginCopyFails, StoreCopy, AtCopy
      <4>3. CASE CopyFails(w) \/ CheckCleanup(w)
        BY <4>3, StepMoves DEF CopyFails, CheckCleanup, AtCopy
      <4> QED BY <3>5, <4>2, <4>3
    <3>6. CASE SettleCopy(w)
      <4>1. worker[w].pc = "stored" /\ (Step(w, "finished") \/ Step(w, "failing"))
        BY <3>6 DEF SettleCopy
      <4> QED BY <4>1, StepMoves DEF AtCopy
    <3>7. CASE ListCleanup(w)
      <4>1. PICK todo : \/ worker' = [worker EXCEPT ![w] = [@ EXCEPT !.pc = "failing"]]
                        \/ worker' = [worker EXCEPT ![w] = [@ EXCEPT !.pc = "deleting", !.todo = todo]]
        BY <3>7 DEF ListCleanup
      <4> DEFINE r == [worker[w] EXCEPT !.pc = "deleting", !.todo = todo]
                 f == [worker[w] EXCEPT !.pc = "failing"]
      <4>2. Has(r, WorkerFields) /\ r.pc = "deleting" /\ r.key = worker[w].key /\ r.row = worker[w].row
        BY <1>0 DEF Has, WorkerFields
      <4>3. Has(f, WorkerFields) /\ f.pc = "failing" /\ f.key = worker[w].key /\ f.row = worker[w].row
        BY <1>0 DEF Has, WorkerFields
      <4>4. worker' = [worker EXCEPT ![w] = r] \/ worker' = [worker EXCEPT ![w] = f]
        BY <4>1
      <4>5. worker[w].pc = "cleared"
        BY <3>7 DEF ListCleanup
      <4> HIDE DEF r, f
      <4> QED BY <1>0, <4>2, <4>3, <4>4, <4>5, OneWorker DEF AtCopy
    <3>8. ASSUME NEW v, DeleteVersion(w, v) PROVE WorkersKept
      <4> DEFINE r == [worker[w] EXCEPT !.pc = "forgetting", !.victim = v]
      <4>1. Has(r, WorkerFields) /\ r.pc = "forgetting" /\ r.key = worker[w].key /\ r.row = worker[w].row
        BY <1>0 DEF Has, WorkerFields
      <4>2. worker[w].pc = "deleting" /\ (worker' = [worker EXCEPT ![w] = r] \/ Step(w, "failing"))
        BY <3>8 DEF DeleteVersion
      <4> HIDE DEF r
      <4> QED BY <1>0, <4>1, <4>2, OneWorker, StepMoves DEF AtCopy
    <3>9. CASE ForgetVersion(w)
      <4>1. PICK todo, pc : /\ worker' = [worker EXCEPT ![w] = [@ EXCEPT !.todo = todo, !.victim = Nil, !.pc = pc]]
                            /\ pc \in {"finished", "deleting"} /\ worker[w].pc = "forgetting"
        BY <3>9 DEF ForgetVersion
      <4> DEFINE r == [worker[w] EXCEPT !.todo = todo, !.victim = Nil, !.pc = pc]
      <4>2. Has(r, WorkerFields) /\ r.pc = pc /\ r.key = worker[w].key /\ r.row = worker[w].row
        BY <1>0 DEF Has, WorkerFields
      <4>3. worker' = [worker EXCEPT ![w] = r]
        BY <4>1
      <4> HIDE DEF r
      <4> QED BY <1>0, <4>1, <4>2, <4>3, OneWorker DEF AtCopy
    <3> QED BY <1>4, <3>1, <3>2, <3>3, <3>4, <3>5, <3>6, <3>7, <3>8, <3>9 DEF WorkerProgress
  <2> QED BY <1>1, <1>2, <2>1, <2>2, <2>3, AuthSame, SurveySame, GenMoves
<1> QED BY <1>3, <1>4

\* A claim hands out a token that nobody has had.
LEMMA ClaimMoves ==
  ASSUME GenInvariant, NEW w \in Workers, ClaimRepair(w), repairs' # repairs PROVE GenInvariant' /\ GenKept
<1>1. PICK key, n :
         /\ key \in RepairKeys /\ key = worker[w].key /\ n = repairs[key].token + 1 /\ Claimable(repairs[key])
         /\ repairs' = [repairs EXCEPT ![key] = [@ EXCEPT !.state = "LEASED", !.live = TRUE, !.token = n]]
         /\ worker' = [worker EXCEPT ![w] = [@ EXCEPT !.pc = "claimed", !.row.token = n]]
  <2>1. worker[w].key \in RepairKeys
    BY DEF ClaimRepair, GenInvariant, TokensSpent
  <2> QED BY <2>1 DEF ClaimRepair
<1>2. UNCHANGED <<ops, put, auth, survey>>
  BY DEF ClaimRepair
<1>3. /\ RowsOK(repairs) /\ Has(worker, Workers) /\ Has(worker[w], WorkerFields) /\ Has(worker[w].row, RepairFields)
      /\ repairs[key].token \in Nat
  BY <1>1 DEF GenInvariant, GenShapes, RowsOK
<1> DEFINE r == [repairs[key] EXCEPT !.state = "LEASED", !.live = TRUE, !.token = n]
           c == [worker[w] EXCEPT !.pc = "claimed", !.row.token = n]
<1>4. Has(r, RepairFields) /\ r.state = "LEASED" /\ r.token = n
  BY <1>1, <1>3 DEF Has, RepairFields, RowsOK
<1>5. Has(c, WorkerFields) /\ c.pc = "claimed" /\ c.key = key
  BY <1>1, <1>3 DEF Has, WorkerFields
<1>6. c.row = [worker[w].row EXCEPT !.token = n]
  BY <1>3 DEF Has, WorkerFields
<1>7. Has(c.row, RepairFields) /\ c.row.token = n
  BY <1>3, <1>6 DEF Has, RepairFields
<1> HIDE DEF r, c
<1>8. repairs' = [repairs EXCEPT ![key] = r] /\ worker' = [worker EXCEPT ![w] = c]
  BY <1>1 DEF r, c
<1>9. repairs[key].state # "NONE" /\ n \in Nat \ {0} /\ n > repairs[key].token
  BY <1>1, <1>3 DEF Claimable
<1>10. repairs'[key] = r /\ worker'[w] = c /\ Has(worker', Workers) /\ \A i \in Workers \ {w} : worker'[i] = worker[i]
  BY <1>3, <1>8 DEF Has, RowsOK
<1>a. r.token \in Nat /\ r.token >= repairs[key].token
  BY <1>3, <1>4, <1>9
<1>b. key \in RepairKeys
  BY <1>1
<1>11. Grows(repairs, repairs', Nil)
  BY <1>b, <1>3, <1>4, <1>8, <1>9, <1>a, OneRow
<1>12. RowsKept
  BY <1>11, RowsGrow, ManagedAssumption
<1>13. OpsKept /\ AuthKept /\ Surveyed'
  BY <1>2, OpsSame, AuthSame, SurveySame
<1>14. GenShapes'
  BY <1>5, <1>7, <1>10, <1>12, <1>13 DEF GenInvariant, GenShapes, OpsKept, AuthKept, RowsKept, RowsOK
<1>15. \A j \in RepairKeys : \A token : j[1] \in CopyKinds /\ Spent(j, token) => Spent(j, token)'
  BY <1>12, <1>13, SpentKept
<1>16. \A token : Spent(key, token) => token # n
  BY <1>3, <1>9 DEF Spent
<1>17. key[1] \in CopyKinds => Spent(key, n)'
  <2>1. key[1] \in CopyKinds => ops[key[2]].state = "COMMITTED"
    BY <1>1, <1>9 DEF GenInvariant, CopiedCommitted
  <2> QED BY <1>2, <1>4, <1>9, <1>10, <2>1 DEF Spent
<1>18. \A i \in Workers : Claimed(i)' => Spent(worker[i].key, worker[i].row.token)'
  <2> SUFFICES ASSUME NEW i \in Workers, Claimed(i)' PROVE Spent(worker[i].key, worker[i].row.token)'
    OBVIOUS
  <2>1. CASE i = w
    <3>1. worker'[i].key = key /\ worker'[i].row.token = n
      BY <1>5, <1>7, <1>10, <2>1
    <3> QED BY <1>17, <3>1 DEF Spent, Claimed
  <2>2. CASE i # w
    <3>1. PICK j, token :
              j \in RepairKeys /\ j = worker[i].key /\ token = worker[i].row.token /\ Spent(j, token) /\ j[1] \in CopyKinds
      BY <1>10, <2>2 DEF GenInvariant, TokensSpent, Claimed
    <3>2. Spent(j, token)'
      BY <1>15, <3>1
    <3>3. worker'[i].key = j /\ worker'[i].row.token = token
      BY <1>10, <2>2, <3>1
    <3> QED BY <3>2, <3>3 DEF Spent
  <2> QED BY <2>1, <2>2
<1>19. \A i \in Workers \ {w} :
          Claimed(i)' => Claimed(i) /\ worker'[i] = worker[i] /\ (worker[i].key = key => worker[i].row.token # n)
  <2> SUFFICES ASSUME NEW i \in Workers \ {w}, Claimed(i)' PROVE Claimed(i) /\ (worker[i].key = key => worker[i].row.token # n)
    BY <1>10
  <2>1. Claimed(i)
    BY <1>10 DEF Claimed
  <2>2. Spent(worker[i].key, worker[i].row.token)
    BY <2>1 DEF GenInvariant, TokensSpent
  <2> QED BY <1>16, <2>1, <2>2
<1>20. TokensSpent'
  <2>1. \A i \in Workers : worker'[i].pc # "idle" => worker'[i].key \in RepairKeys
    BY <1>1, <1>5, <1>10 DEF GenInvariant, TokensSpent
  <2>a. \A i \in Workers : worker'[i].pc \in AtCopy => worker'[i].key[1] \in CopyKinds
    BY <1>5, <1>10 DEF GenInvariant, TokensSpent, AtCopy
  <2>2. ASSUME NEW i \in Workers, NEW j \in Workers, Claimed(i)', Claimed(j)', i # j, worker'[i].key = worker'[j].key
        PROVE  worker'[i].row.token # worker'[j].row.token
    <3>1. CASE i = w \/ j = w
      BY <1>5, <1>7, <1>10, <1>19, <2>2, <3>1
    <3>2. CASE i # w /\ j # w
      <4>1. Claimed(i) /\ Claimed(j) /\ worker'[i] = worker[i] /\ worker'[j] = worker[j]
        BY <1>19, <2>2, <3>2
      <4> QED BY <2>2, <4>1 DEF GenInvariant, TokensSpent
    <3> QED BY <3>1, <3>2
  <2> QED BY <1>18, <2>1, <2>a, <2>2 DEF TokensSpent
<1>21. GenKept
  <2>1. ~ Spent(worker'[w].key, worker'[w].row.token)
    BY <1>5, <1>7, <1>10, <1>16
  <2>2. ASSUME NEW i \in Workers, Opening(i)'
        PROVE  \/ Opening(i) /\ worker'[i].key = worker[i].key /\ worker'[i].row.token = worker[i].row.token
               \/ ~ Spent(worker'[i].key, worker'[i].row.token)
    BY <1>10, <2>1, <2>2 DEF Opening
  <2>3. /\ \A o \in Ops : put[o].pc \notin Early => put'[o].pc \notin Early
        /\ \A o \in Ops : put[o].pc \notin Unjournaled => put'[o].pc \notin Unjournaled
        /\ \A o \in Ops : put[o].pc \notin Uninserted => SameWork(ops'[o], ops[o])
        /\ \A o \in Ops : ops'[o].version \in {ops[o].version, config}
        /\ \A o \in Ops : Inserts(o, ops'[o]) /\ (Reads(o, put'[o]) \/ put'[o] = put[o])
    BY <1>2 DEF SameWork, Inserts
  <2> QED BY <1>15, <2>2, <2>3 DEF GenKept
<1> QED BY <1>12, <1>13, <1>14, <1>20, <1>21, GenTables DEF GenInvariant, OpsKept

\* Placement and reads: what is inserted copies a generation the authority shows.
LEMMA PlacementMoves ==
  ASSUME GenInvariant, UNCHANGED purgeVars,
         PlacementStep \/ \E k \in Keys, i \in 1..4 : OpenAuthoritative(k, i) \/ HeadAuthoritative(k, i)
  PROVE  GenInvariant' /\ GenKept
<1>0. RowsOK(repairs)
  BY DEF GenInvariant, GenShapes, RowsOK
<1>1. UNCHANGED <<ops, put, worker>>
  BY DEF PlacementStep, OpenAuthoritative, HeadAuthoritative, RaisePlacement, AdvancePlacementVersion, SurveyPlacement, Enqueue,
     writeVars, repairVars
<1>2. OpsKept /\ WorkersKept
  BY <1>1, OpsSame, WorkersSame
<1>3. Has(NoSurvey, SurveyFields) /\ NoSurvey.legs = {}
  BY DEF Has, SurveyFields, NoSurvey
<1>4. ASSUME NEW k \in Keys, NEW i, SurveyPlacement(k) \/ OpenAuthoritative(k, i) PROVE GenInvariant' /\ GenKept
  <2>1. PICK a, source, legs : survey' = [key |-> k, row |-> a, source |-> source, version |-> config, legs |-> legs]
    BY <1>4 DEF SurveyPlacement, OpenAuthoritative
  <2>2. Surveyed'
    BY <2>1 DEF Surveyed, Has, SurveyFields
  <2>3. UNCHANGED <<auth, repairs>>
    BY <1>4 DEF SurveyPlacement, OpenAuthoritative, writeVars
  <2> QED BY <1>2, <2>2, <2>3, AuthSame, RowsSame, GenMoves
<1>5. CASE RaisePlacement
  <2>1. UNCHANGED <<auth, repairs, survey>>
    BY <1>5 DEF RaisePlacement, repairVars
  <2> QED BY <1>2, <2>1, AuthSame, RowsSame, SurveySame, GenMoves
<1>6. CASE AdvancePlacementVersion
  <2>1. Surveyed' /\ UNCHANGED repairs
    BY <1>3, <1>6 DEF AdvancePlacementVersion, Surveyed
  <2>2. AuthKept
    <3>1. CASE UNCHANGED auth
      BY <1>2, <3>1, AuthSame
    <3>2. CASE auth' # auth
      <4>1. PICK k, v, n : auth' = [auth EXCEPT ![k] = [@ EXCEPT !.version = v, !.cas = n]] /\ auth[k] # Nil
        BY <1>6, <3>2 DEF AdvancePlacementVersion, Unmoved
      <4> DEFINE a == [auth[k] EXCEPT !.version = v, !.cas = n]
      <4>2. k \in Keys
        BY <3>2, <4>1 DEF GenInvariant, GenShapes, Has
      <4>3. Has(a, AuthFields) /\ a.gen = auth[k].gen
        BY <4>1, <4>2 DEF GenInvariant, GenShapes, Has, AuthFields
      <4>4. a.gen \in Ops => Shown(a.gen) /\ ops'[a.gen].state = "COMMITTED"
        BY <1>1, <4>1, <4>2, <4>3 DEF Shown, GenInvariant, ShownCommitted
      <4> HIDE DEF a
      <4> QED BY <1>2, <4>1, <4>3, <4>4, OneAuthority DEF a
    <3> QED BY <3>1, <3>2
  <2> QED BY <1>2, <2>1, <2>2, RowsSame, GenMoves
<1>7. ASSUME NEW leg, Enqueue(leg) PROVE GenInvariant' /\ GenKept
  <2>1. leg \in survey.legs /\ survey.key \in Keys /\ UNCHANGED auth
    BY <1>7 DEF Enqueue, GenInvariant, Surveyed
  <2>2. Surveyed'
    <3>1. CASE survey' = NoSurvey
      BY <1>3, <3>1 DEF Surveyed
    <3>2. CASE survey' = [survey EXCEPT !.legs = @ \ {leg}]
      BY <2>1, <3>2 DEF GenInvariant, Surveyed, Has, SurveyFields
    <3> QED BY <1>7, <3>1, <3>2 DEF Enqueue
  <2>3. RowsKept
    <3>1. CASE UNCHANGED repairs
      BY <3>1, RowsSame
    <3>2. CASE repairs' # repairs
      <4>1. PICK key, row, g : /\ repairs' = InsertRepair(repairs, key, row) /\ Unmoved(survey.key, survey.row)
                               /\ key[2] = g /\ g = survey.row.gen
                               /\ Has(row, RepairFields) /\ row.state = "PENDING" /\ row.token = 0
        <5> DEFINE a == survey.row
                   r == LegRepair(leg, a, Placed(survey.version))
        <5>1. repairs' = InsertRepair(repairs, r.key, r.row) /\ Unmoved(survey.key, survey.row)
          BY <1>7, <3>2 DEF Enqueue
        <5>2. r.key[2] = a.gen
          BY DEF LegRepair
        <5>3. Has(r.row, RepairFields) /\ r.row.state = "PENDING" /\ r.row.token = 0
          BY CopyRepairRow, PlacementRepairRow DEF LegRepair
        <5> QED BY <5>1, <5>2, <5>3
      <4>2. Grows(repairs, repairs', g)
        BY <1>0, <4>1, InsertGrows
      <4>3. g \in Ops => Shown(g) /\ ops'[g].state = "COMMITTED"
        BY <1>1, <2>1, <4>1 DEF Unmoved, Shown, GenInvariant, ShownCommitted
      <4> QED BY <4>2, <4>3, RowsGrow
    <3> QED BY <3>1, <3>2
  <2> QED BY <1>2, <2>1, <2>2, <2>3, AuthSame, GenMoves
<1> QED BY <1>4, <1>5, <1>6, <1>7 DEF PlacementStep, HeadAuthoritative

\* The steps of workers and of the placement survey keep the invariant.
LEMMA RepairMoves == ASSUME GenInvariant, RepairStep, UNCHANGED purgeVars PROVE GenInvariant' /\ GenKept
<1>1. ASSUME NEW w \in Workers, WorkerProgress(w) \/ WorkerCrash(w) PROVE GenInvariant' /\ GenKept
  BY <1>1, WorkerMoves, ClaimMoves
<1>2. ASSUME NEW key \in RepairKeys, ExpireRepairLease(key) PROVE GenInvariant' /\ GenKept
  <2>1. RowsOK(repairs) /\ repairs[key].token \in Nat
    BY DEF GenInvariant, GenShapes, RowsOK
  <2>2. UNCHANGED <<ops, put, auth, worker, survey>> /\ repairs[key].state = "LEASED"
    BY <1>2 DEF ExpireRepairLease, repairVars
  <2> DEFINE r == [repairs[key] EXCEPT !.live = FALSE]
  <2>3. Has(r, RepairFields) /\ r.state = "LEASED" /\ r.token = repairs[key].token
    BY <2>1, <2>2 DEF RowsOK, Has, RepairFields
  <2>4. repairs' = [repairs EXCEPT ![key] = r]
    BY <1>2 DEF ExpireRepairLease
  <2> HIDE DEF r
  <2>5. r.token \in Nat /\ r.token >= repairs[key].token
    BY <2>1, <2>3
  <2>6. Grows(repairs, repairs', Nil)
    BY <2>1, <2>2, <2>3, <2>4, <2>5, OneRow
  <2>7. OpsKept /\ RowsKept
    BY <2>2, <2>6, OpsSame, RowsGrow, ManagedAssumption
  <2> QED BY <2>2, <2>7, AuthSame, WorkersSame, SurveySame, GenMoves
<1>3. ASSUME NEW c, ExpireCopyIntent(c) PROVE GenInvariant' /\ GenKept
  <2>1. UNCHANGED <<ops, put, auth, repairs, worker, survey>>
    BY <1>3 DEF ExpireCopyIntent, repairVars
  <2> QED BY <2>1, OpsSame, AuthSame, RowsSame, WorkersSame, SurveySame, GenMoves
<1> QED BY <1>1, <1>2, <1>3, PlacementMoves DEF RepairStep

\* Every step of the authority keeps generations and tokens.
LEMMA GenStep ==
  ASSUME GenInvariant, [ManagedNext]_managedVars PROVE GenInvariant' /\ GenKept
<1>1. CASE UNCHANGED <<ops, put, auth, repairs, worker, survey>>
  BY <1>1, OpsSame, AuthSame, RowsSame, WorkersSame, SurveySame, GenMoves
<1>2. ASSUME NEW d \in Drivers, FinalizeComplete(d) PROVE GenInvariant' /\ GenKept
  <2>1. UNCHANGED <<put, worker, survey>> /\ auth' = NoAuthority
    BY <1>2 DEF FinalizeComplete, repairVars
  <2>2. OpsKept
    <3>1. ops' = [o \in Ops |-> [ops[o] EXCEPT !.released = ops[o].committed]]
      BY <1>2 DEF FinalizeComplete
    <3>2. ASSUME NEW o \in Ops
          PROVE  LET s == [ops[o] EXCEPT !.released = ops[o].committed]
                 IN  Has(s, OpFields) /\ s.state = ops[o].state /\ SameWork(s, ops[o])
      <4>1. Has(ops[o], OpFields)
        BY DEF GenInvariant, GenShapes
      <4>2. PICK x : x = ops[o].committed
        OBVIOUS
      <4>3. Has([ops[o] EXCEPT !.released = x], OpFields) /\ [ops[o] EXCEPT !.released = x].state = ops[o].state
        BY <4>1 DEF Has, OpFields
      <4>4. SameWork([ops[o] EXCEPT !.released = x], ops[o])
        BY <4>1 DEF Has, OpFields, SameWork
      <4> QED BY <4>2, <4>3, <4>4
    <3>3. Has(ops', Ops) /\ \A o \in Ops : /\ Has(ops'[o], OpFields) /\ ops'[o].state = ops[o].state
                                             /\ SameWork(ops'[o], ops[o])
      BY <3>1, <3>2 DEF Has
    <3> QED BY <2>1, <3>3 DEF OpsKept, GenInvariant, GenShapes, NotInserted, SameWork, Inserts
  <2>3. AuthKept
    BY <2>1 DEF AuthKept, NoAuthority, Has, Shown
  <2>4. RowsKept
    <3>1. PICK epoch : repairs' = [key \in RepairKeys |-> IF repairs[key].epoch <= epoch THEN NoRepair ELSE repairs[key]]
      BY <1>2 DEF FinalizeComplete
    <3>2. Has(NoRepair, RepairFields) /\ NoRepair.state = "NONE" /\ NoRepair.token = 0
      BY DEF Has, NoRepair, RepairFields
    <3>3. Has(repairs', RepairKeys) /\ \A key \in RepairKeys : repairs'[key] \in {NoRepair, repairs[key]}
      BY <3>1 DEF Has
    <3>4. \A k \in Keys : auth'[k] = Nil
      BY <2>1 DEF NoAuthority
    <3>5. /\ \A key \in RepairKeys : Has(repairs[key], RepairFields) /\ repairs[key].token \in Nat
          /\ \A key \in RepairKeys : repairs[key].state = "NONE" => repairs[key].token = 0
      BY DEF GenInvariant, GenShapes, CopiedCommitted
    <3> QED BY <3>2, <3>3, <3>4, <3>5 DEF RowsKept, RowsOK
  <2> QED BY <2>1, <2>2, <2>3, <2>4, WorkersSame, SurveySame, GenMoves
<1>3. ASSUME NEW d \in Drivers, DriverStep(d) PROVE GenInvariant' /\ GenKept
  BY <1>1, <1>2, <1>3 DEF DriverStep, StartPurge, QueryPurge, ReadIntents, ReadTargets, FinalizeBlocked, FinalizeCounts, PurgeTargets,
     MarkPurgeTargetDeleted, MarkPurgeTargetBlocked, DeleteTarget, DriverCrash, writeVars, repairVars
<1>4. ASSUME NEW u \in Uploads, MultipartStep(u) PROVE GenInvariant' /\ GenKept
  BY <1>1, <1>4 DEF MultipartStep, BeginMultipartActivity, CreateUpload, ConfirmMultipartActivity, WithdrawUpload,
     FinishMultipartActivity, RetireUpload, CreatorCrash, ExpireRegistration, ReconcileMultipartActivity, writeVars, repairVars
<1> QED BY <1>1, <1>3, <1>4, WriteMoves, RepairMoves DEF ManagedNext, managedVars, writeVars, repairVars

-----------------------------------------------------------------------------
(* Physical writes and the versions they leave *)

IntentFields == {"state", "epoch", "live"}
ChildFields == {"state", "n", "exact", "epoch"}
LedgerFields == {"write", "n", "epoch", "state", "purge"}
VersionFields == {"write", "n"}

\* The names of physical writes: of a request, or of a repair row's lease.
IsWrite(w) ==
    \/ w.by = "PUT" /\ w.gen \in Ops
    \/ w.by \in CopyKinds /\ <<w.by, w.gen, w.backend>> \in RepairKeys

\* A write that was begun and is not begun again.
Begun(w) ==
    /\ w.by = "PUT" => put[w.gen].pc \notin Early
    /\ w.by # "PUT" =>
         /\ Spent(<<w.by, w.gen, w.backend>>, w.token)
         /\ \A i \in Workers : Opening(i) => <<w.by, w.gen, w.backend>> # worker[i].key \/ w.token # worker[i].row.token

\* A write that is over: a version of it that is deleted stays deleted.
Over(w) == IsWrite(w) /\ Begun(w) /\ w \notin DOMAIN intents

(* The tables of intents, journal rows, ledger rows and versions hold rows of those
   fields. *)
WriteShapes ==
    /\ Has(intents, DOMAIN intents) /\ \A w \in DOMAIN intents : Has(intents[w], IntentFields) /\ intents[w].epoch \in Nat
    /\ Has(child, DOMAIN child) /\ \A w \in DOMAIN child : Has(child[w], ChildFields) /\ child[w].n \in Nat
    /\ \A l \in ledger : Has(l, LedgerFields) /\ l.n \in Nat
    /\ \A v \in prov : Has(v, VersionFields) /\ v.n \in Nat

(* Whatever a table names was begun, what the ledger names is over, and a request
   that has no journal row yet is named by none. *)
KnownBegun ==
    /\ \A w \in DOMAIN intents \cup DOMAIN child : IsWrite(w) /\ Begun(w)
    /\ \A l \in ledger : Over(l.write)
    /\ \A v \in prov : IsWrite(v.write) /\ Begun(v.write)
    /\ \A o \in Ops : put[o].pc \in Unjournaled => \A w \in DOMAIN child : w.by = "PUT" => w.gen # o

(* A writer at work that has its intent has its journal row, the copy of a worker
   that has taken an intent was begun, and a child that was aborted stays aborted. *)
AtWork == {"writing", "verified", "recorded", "completing", "stored", "aborting"}
Writing == {"copying", "stored"}
Copies == Writing \cup {"intended"}
JournalsKept ==
    /\ \A i \in Workers : worker[i].pc \in Copies => IsWrite(RepairChild(i)) /\ Begun(RepairChild(i))
    /\ \A i \in Workers : worker[i].pc = "intended" => RepairChild(i) \notin DOMAIN child
    /\ \A i \in Workers : worker[i].pc \in Writing /\ RepairChild(i) \in DOMAIN intents => RepairChild(i) \in DOMAIN child
    /\ \A o \in Ops : put[o].pc \in AtWork /\ Child(o) \in DOMAIN intents => Child(o) \in DOMAIN child
    /\ \A o \in Ops : put[o].pc = "aborted" /\ Child(o) \in DOMAIN child => child[Child(o)].state = "PROVEN_ABORTED"

(* What a cleanup or a purge is about to delete is over, and what it has deleted
   is not at the provider. *)
Listed(todo) == \A v \in todo : Has(v, VersionFields) /\ Over(v.write)
Marked(r, pc) == Listed(r.todo) /\ (r.pc = pc => r.victim \in r.todo /\ r.victim \notin prov)
VictimsGone ==
    /\ \A i \in Workers : Marked(worker[i], "forgetting")
    /\ \A d \in Drivers : Marked(driver[d], "deleted")

\* A version is in the ledger, or its intent is there and its journal row knows of it.
InLedger(v) == \E l \in ledger : l.write = v.write /\ l.n = v.n
Pending(v) ==
    /\ v.write \in DOMAIN intents /\ v.write \in DOMAIN child
    /\ child[v.write].state \in {"COMMITTED", "COMMIT_UNKNOWN"} /\ v.n \in 1..child[v.write].n
Accounted == \A v \in prov : InLedger(v) \/ Pending(v)

(* A journal row is of its intent's epoch, and a finalizer that has found no
   intent of the purged epochs is right to the end. *)
IntentEpochs == \A w \in DOMAIN intents \cap DOMAIN child : child[w].epoch = intents[w].epoch
Finalizing(d) == driver[d].pc = "settling" \/ (driver[d].pc = "scanned" /\ driver[d].intents = {})
NoOldIntents ==
    \A d \in Drivers : Finalizing(d) => \A w \in DOMAIN intents : intents[w].epoch > purges[driver[d].purge].epoch

\* LedgerCovers is inductive together with these.
CoverInvariant ==
    /\ EpochInvariant /\ GenInvariant
    /\ WriteShapes /\ KnownBegun /\ JournalsKept /\ Accounted /\ IntentEpochs /\ VictimsGone /\ NoOldIntents

\* What a step may do to the tables of physical writes.
Found(v) == InLedger(v) \/ Pending(v)
WritesKept ==
    /\ WriteShapes'
    /\ \A w \in DOMAIN intents' \ DOMAIN intents :
         /\ IsWrite(w) /\ ~ Begun(w) /\ Begun(w)' /\ intents'[w].epoch = ns.epoch /\ Active
         /\ w.by = "PUT" => ops'[w.gen].epoch = ns.epoch
    /\ \A w \in DOMAIN intents' \cap DOMAIN intents :
         intents'[w].epoch = intents[w].epoch /\ (w \in DOMAIN child => w \in DOMAIN child')
    /\ \A w \in DOMAIN child' \ DOMAIN child :
         /\ IsWrite(w) /\ Begun(w)'
         /\ w \in DOMAIN intents' => child'[w].epoch = intents'[w].epoch
         /\ w.by = "PUT" => put'[w.gen].pc \notin Unjournaled /\ put[w.gen].pc \in Unjournaled
    /\ \A w \in DOMAIN child' \cap DOMAIN child :
         child'[w].epoch = child[w].epoch /\ (child[w].state = "PROVEN_ABORTED" => child'[w].state = "PROVEN_ABORTED")
    /\ \A l \in ledger' : (\E m \in ledger : m.write = l.write) \/ l.write \in DOMAIN intents \ DOMAIN intents'
    /\ \A v \in prov' : \/ v \in prov /\ (Found(v) => Found(v)')
                        \/ v.write \in DOMAIN intents /\ Found(v)'

(* A request comes to its work with a journal row and withdraws an aborted child; a
   worker begins its copy and then comes to write with a journal row. *)
RequestsJournaled ==
    /\ \A o \in Ops : put'[o].pc \in AtWork =>
         put[o].pc \in AtWork \/ (Child(o)' \in DOMAIN intents' => Child(o)' \in DOMAIN child')
    /\ \A o \in Ops : put'[o].pc = "aborted" =>
         put[o].pc = "aborted" \/ (Child(o)' \in DOMAIN child' => child'[Child(o)'].state = "PROVEN_ABORTED")
CopiesJournaled ==
    \A i \in Workers : worker'[i].pc \in Copies =>
        /\ \/ worker[i].pc \in Copies /\ RepairChild(i)' = RepairChild(i)
           \/ worker'[i].pc = "intended" /\ IsWrite(RepairChild(i)') /\ Begun(RepairChild(i))'
        /\ worker'[i].pc = "intended" => RepairChild(i)' \notin DOMAIN child'
        /\ worker'[i].pc \in Writing => worker[i].pc \in Writing \/ RepairChild(i)' \in DOMAIN child'
WorkJournaled == RequestsJournaled /\ CopiesJournaled

\* A write that was begun stays begun: tokens stay spent and requests do not go back.
LEMMA BegunKept == ASSUME GenInvariant, GenKept, NEW w, IsWrite(w), Begun(w) PROVE Begun(w)'
<1>1. CASE w.by = "PUT"
  BY <1>1 DEF IsWrite, Begun, GenKept, CopyKinds
<1>2. CASE w.by # "PUT"
  <2>1. PICK key, token : /\ key \in RepairKeys /\ key = <<w.by, w.gen, w.backend>> /\ token = w.token
                          /\ key[1] \in CopyKinds /\ Spent(key, token)
    BY <1>2 DEF IsWrite, Begun
  <2>2. Spent(key, token)'
    BY <2>1 DEF GenKept
  <2>3. ASSUME NEW i \in Workers, Opening(i)' PROVE key # worker'[i].key \/ token # worker'[i].row.token
    BY <1>2, <2>1, <2>3 DEF GenKept, Begun
  <2> QED BY <1>2, <2>1, <2>2, <2>3 DEF Begun
<1> QED BY <1>1, <1>2

(* A step that does to the tables no more than that keeps the invariant, and what is
   over stays over. *)
LEMMA WritesGo ==
  ASSUME CoverInvariant, GenKept, WritesKept, WorkJournaled
  PROVE  /\ WriteShapes' /\ KnownBegun' /\ JournalsKept' /\ Accounted' /\ IntentEpochs'
         /\ \A w : Over(w) => Over(w)'
         /\ \A v : Over(v.write) /\ v \notin prov => v \notin prov'
<1>1. \A w : IsWrite(w) /\ Begun(w) => Begun(w)'
  BY BegunKept DEF CoverInvariant
<1>2. KnownBegun
  BY DEF CoverInvariant
<1>3. \A w : Over(w) => Over(w)'
  BY <1>1 DEF WritesKept, Over
<1>4. KnownBegun'
  <2>1. \A w \in DOMAIN intents' \cup DOMAIN child' : IsWrite(w) /\ Begun(w)'
    BY <1>1, <1>2 DEF WritesKept, KnownBegun
  <2>2. \A l \in ledger' : Over(l.write)'
    BY <1>1, <1>2, <1>3 DEF WritesKept, KnownBegun, Over
  <2>3. \A v \in prov' : IsWrite(v.write) /\ Begun(v.write)'
    BY <1>1, <1>2 DEF WritesKept, KnownBegun
  <2>4. ASSUME NEW o \in Ops, put'[o].pc \in Unjournaled, NEW w \in DOMAIN child', w.by = "PUT" PROVE w.gen # o
    BY <1>2, <2>4 DEF WritesKept, KnownBegun, GenKept
  <2> QED BY <2>1, <2>2, <2>3, <2>4 DEF KnownBegun
<1>5. JournalsKept'
  <2>0. JournalsKept
    BY DEF CoverInvariant
  <2>1. ASSUME NEW i \in Workers, worker'[i].pc \in Copies
        PROVE  /\ IsWrite(RepairChild(i)') /\ Begun(RepairChild(i))'
               /\ worker'[i].pc \in Writing /\ RepairChild(i)' \in DOMAIN intents' => RepairChild(i)' \in DOMAIN child'
    <3>1. CASE worker[i].pc \in Copies /\ RepairChild(i)' = RepairChild(i)
      <4>1. PICK w : w = RepairChild(i)
        OBVIOUS
      <4>2. IsWrite(w) /\ Begun(w)
        BY <2>0, <3>1, <4>1 DEF JournalsKept
      <4>3. Begun(w)'
        BY <1>1, <4>2
      <4>4. RepairChild(i)' = w
        BY <3>1, <4>1
      <4>5. w \in DOMAIN intents' => w \in DOMAIN intents
        BY <4>2 DEF WritesKept
      <4>6. worker[i].pc \in Writing /\ w \in DOMAIN intents => w \in DOMAIN child
        BY <2>0, <4>1 DEF JournalsKept
      <4>7. worker'[i].pc \in Writing /\ w \in DOMAIN intents' => w \in DOMAIN child'
        BY <2>1, <4>4, <4>5, <4>6 DEF WritesKept, WorkJournaled, CopiesJournaled
      <4>8. Begun(RepairChild(i))'
        BY <4>3, <4>4 DEF Begun
      <4> QED BY <4>2, <4>4, <4>7, <4>8
    <3>2. CASE worker'[i].pc = "intended" /\ IsWrite(RepairChild(i)') /\ Begun(RepairChild(i))'
      BY <3>2 DEF Writing
    <3> QED BY <2>1, <3>1, <3>2 DEF WorkJournaled, CopiesJournaled
  <2>3. ASSUME NEW o \in Ops, put'[o].pc = "aborted", Child(o)' \in DOMAIN child' PROVE child'[Child(o)'].state = "PROVEN_ABORTED"
    <3>1. CASE put[o].pc = "aborted"
      <4>1. put[o].pc \notin Uninserted /\ put[o].pc \notin Unjournaled
        BY <3>1 DEF Uninserted, Unjournaled, Early
      <4>2. Child(o)' = Child(o)
        BY <4>1 DEF GenKept, Child, SameWork
      <4>a. PICK w : w = Child(o)
        OBVIOUS
      <4>3. w = Child(o) /\ w.by = "PUT" /\ w.gen = o
        BY <4>a DEF Child
      <4>4. w \in DOMAIN child' /\ w \in DOMAIN child
        BY <2>3, <4>1, <4>2, <4>3 DEF WritesKept
      <4>5. child[w].state = "PROVEN_ABORTED"
        BY <2>0, <3>1, <4>3, <4>4 DEF JournalsKept
      <4> QED BY <4>2, <4>3, <4>4, <4>5 DEF WritesKept
    <3> QED BY <2>3, <3>1 DEF WorkJournaled, RequestsJournaled
  <2>2. ASSUME NEW o \in Ops, put'[o].pc \in AtWork, Child(o)' \in DOMAIN intents' PROVE Child(o)' \in DOMAIN child'
    <3>1. CASE put[o].pc \in AtWork
      <4>1. put[o].pc \notin Uninserted /\ put[o].pc \notin Early
        BY <3>1 DEF AtWork, Uninserted, Early
      <4>2. SameWork(ops'[o], ops[o])
        BY <4>1 DEF GenKept
      <4>3. Child(o)' = Child(o)
        BY <4>2 DEF Child, SameWork
      <4>4. PICK w : w = Child(o)
        OBVIOUS
      <4>a. w.by = "PUT" /\ w.gen = o
        BY <4>4 DEF Child
      <4>5. Begun(w)
        BY <4>1, <4>a DEF Begun
      <4>6. w \in DOMAIN intents
        BY <2>2, <4>3, <4>4, <4>5 DEF WritesKept
      <4>7. w \in DOMAIN child
        BY <3>1, <4>4, <4>6 DEF CoverInvariant, JournalsKept
      <4> QED BY <2>2, <4>3, <4>4, <4>6, <4>7 DEF WritesKept
    <3> QED BY <2>2, <3>1 DEF WorkJournaled, RequestsJournaled
  <2>4. JournalsKept'
    BY <2>1, <2>2, <2>3 DEF JournalsKept, Copies, WorkJournaled, CopiesJournaled
  <2> QED BY <2>4
<1>6. Accounted'
  BY DEF WritesKept, CoverInvariant, Accounted, Found
<1>7. IntentEpochs'
  BY <1>2 DEF WritesKept, CoverInvariant, KnownBegun, IntentEpochs
<1>8. \A v : Over(v.write) /\ v \notin prov => v \notin prov'
  BY DEF WritesKept, Over
<1> QED BY <1>3, <1>4, <1>5, <1>6, <1>7, <1>8 DEF WritesKept

\* Tables with a row more, without some rows, or with a row that changed.
LEMMA RowAdded ==
  ASSUME NEW f, NEW w, NEW r, Has(f, DOMAIN f)
  PROVE  LET g == WithRow(f, w, r)
         IN  /\ Has(g, DOMAIN g) /\ DOMAIN g = DOMAIN f \cup {w}
             /\ \A x \in DOMAIN f : g[x] = f[x]
             /\ w \notin DOMAIN f => g[w] = r
  BY DEF Has, WithRow

\* A table without some of its rows.
LEMMA RowsLeft ==
  ASSUME NEW f, NEW S
  PROVE  LET g == Restrict(f, S)
         IN  Has(g, DOMAIN g) /\ DOMAIN g = S /\ \A x \in S : g[x] = f[x]
  BY DEF Has, Restrict

\* A table with a row that changed.
LEMMA RowChanged ==
  ASSUME NEW f, NEW w, NEW r, Has(f, DOMAIN f), w \in DOMAIN f
  PROVE  LET g == [f EXCEPT ![w] = r]
         IN  Has(g, DOMAIN g) /\ DOMAIN g = DOMAIN f /\ g[w] = r /\ \A x \in DOMAIN f \ {w} : g[x] = f[x]
  BY DEF Has

\* The tables stay.
LEMMA TablesSame == ASSUME WriteShapes, UNCHANGED <<intents, child, ledger, prov>> PROVE WritesKept
  BY DEF WriteShapes, WritesKept, Found, InLedger, Pending

\* An intent row changes, in its state or its lease.
LEMMA IntentMoves ==
  ASSUME WriteShapes, NEW w \in DOMAIN intents, NEW r, intents' = [intents EXCEPT ![w] = r], Has(r, IntentFields),
         r.epoch = intents[w].epoch, UNCHANGED <<child, ledger, prov>>
  PROVE  WritesKept
<1>1. /\ Has(intents', DOMAIN intents') /\ DOMAIN intents' = DOMAIN intents /\ intents'[w] = r
      /\ \A x \in DOMAIN intents \ {w} : intents'[x] = intents[x]
  BY RowChanged DEF WriteShapes
<1>2. WriteShapes'
  BY <1>1 DEF WriteShapes
<1> QED BY <1>1, <1>2 DEF WritesKept, Found, InLedger, Pending

\* An intent is blocked.
LEMMA IntentBlocked ==
  ASSUME WriteShapes, NEW w \in DOMAIN intents, BlockIntent(w), UNCHANGED <<child, prov>> PROVE WritesKept
<1> DEFINE r == [intents[w] EXCEPT !.state = "BLOCKED"]
<1>1. Has(r, IntentFields) /\ r.epoch = intents[w].epoch
  BY DEF WriteShapes, Has, IntentFields
<1>2. intents' = [intents EXCEPT ![w] = r] /\ UNCHANGED <<child, ledger, prov>>
  BY DEF BlockIntent
<1> HIDE DEF r
<1> QED BY <1>1, <1>2, IntentMoves

\* An intent goes whose journal row shows that nothing is at the provider.
LEMMA IntentDropped ==
  ASSUME WriteShapes, NEW w, intents' = Restrict(intents, DOMAIN intents \ {w}),
         w \in DOMAIN child => child[w].state \notin {"COMMITTED", "COMMIT_UNKNOWN"},
         UNCHANGED <<ledger, prov>>, UNCHANGED child
  PROVE  WritesKept
<1>1. /\ Has(intents', DOMAIN intents') /\ DOMAIN intents' = DOMAIN intents \ {w}
      /\ \A x \in DOMAIN intents \ {w} : intents'[x] = intents[x]
  BY RowsLeft
<1>2. WriteShapes'
  BY <1>1 DEF WriteShapes
<1>3. \A v : Found(v) => Found(v)'
  BY <1>1 DEF Found, InLedger, Pending
<1> QED BY <1>1, <1>2, <1>3 DEF WritesKept

\* An intent goes and the versions of its journal row enter the ledger.
LEMMA IntentCommitted ==
  ASSUME WriteShapes, NEW w, w \in DOMAIN intents, w \in DOMAIN child, CommitIntent(w), UNCHANGED <<child, prov>>
  PROVE  WritesKept
<1>1. /\ Has(intents', DOMAIN intents') /\ DOMAIN intents' = DOMAIN intents \ {w}
      /\ \A x \in DOMAIN intents \ {w} : intents'[x] = intents[x]
  BY RowsLeft DEF CommitIntent
<1>2. ledger' = ledger \cup LedgerRows(w)
  BY DEF CommitIntent
<1>3. child[w].n \in Nat
  BY DEF WriteShapes
<1>4. \A l \in LedgerRows(w) : l.write = w /\ l.n \in 1..child[w].n /\ Has(l, LedgerFields)
  BY DEF LedgerRows, Has, LedgerFields
<1>5. ASSUME NEW i \in 1..child[w].n PROVE \E l \in LedgerRows(w) : l.write = w /\ l.n = i
  <2> DEFINE l == [write |-> w, n |-> i, epoch |-> intents[w].epoch,
                   state |-> IF ns.state = "PURGING" THEN "PURGE_PENDING" ELSE "LIVE",
                   purge |-> IF ns.state = "PURGING" THEN ns.purge ELSE Nil]
  <2>1. l \in LedgerRows(w)
    BY DEF LedgerRows
  <2>2. l.write = w /\ l.n = i
    OBVIOUS
  <2> HIDE DEF l
  <2> QED BY <2>1, <2>2
<1>6. WriteShapes'
  BY <1>1, <1>2, <1>3, <1>4 DEF WriteShapes
<1>7. \A v : Found(v) => Found(v)'
  BY <1>1, <1>2, <1>5 DEF Found, InLedger, Pending
<1> QED BY <1>1, <1>2, <1>4, <1>6, <1>7 DEF WritesKept

\* What the end of a write does to its intent, for its writer and for a reconciler.
Settling(w) ==
    \/ child[w].state = "COMMITTED" /\ child[w].exact /\ CommitIntent(w)
    \/ child[w].state = "PROVEN_ABORTED" /\ DropIntent(w)
    \/ BlockIntent(w)

\* Both settle an intent.
LEMMA BothSettle == ASSUME NEW w, SettleFromJournal(w) \/ SettleCompleted(w) PROVE Settling(w)
  BY DEF SettleFromJournal, SettleCompleted, Settling

\* The tables after the settlement.
LEMMA Settles ==
  ASSUME WriteShapes, NEW w, w \in DOMAIN intents, w \in DOMAIN child, Settling(w), UNCHANGED <<child, prov>>
  PROVE  WritesKept
<1>1. CASE CommitIntent(w)
  BY <1>1, IntentCommitted
<1>2. CASE child[w].state = "PROVEN_ABORTED" /\ DropIntent(w)
  BY <1>2, IntentDropped DEF DropIntent
<1>3. CASE BlockIntent(w)
  BY <1>3, IntentBlocked
<1> QED BY <1>1, <1>2, <1>3 DEF Settling

\* A journal row changes, and nothing that it accounts for is lost.
LEMMA ChildMoves ==
  ASSUME WriteShapes, NEW w \in DOMAIN child, NEW c, child' = [child EXCEPT ![w] = c], Has(c, ChildFields),
         c.n = child[w].n, c.epoch = child[w].epoch, child[w].state # "PROVEN_ABORTED",
         \/ child[w].state \notin {"COMMITTED", "COMMIT_UNKNOWN"} \/ c.state \in {"COMMITTED", "COMMIT_UNKNOWN"} \/ child[w].n = 0,
         UNCHANGED <<intents, ledger, prov>>
  PROVE  WritesKept
<1>1. /\ Has(child', DOMAIN child') /\ DOMAIN child' = DOMAIN child /\ child'[w] = c
      /\ \A x \in DOMAIN child \ {w} : child'[x] = child[x]
  BY RowChanged DEF WriteShapes
<1>2. WriteShapes'
  BY <1>1 DEF WriteShapes
<1>3. 1..0 = {}
  OBVIOUS
<1>4. \A v : Found(v) => Found(v)'
  BY <1>1, <1>3 DEF Found, InLedger, Pending
<1> QED BY <1>1, <1>2, <1>4 DEF WritesKept

\* A child completes at the provider.
Stored(w, n, c) ==
    /\ n \in Nat /\ child' = [child EXCEPT ![w] = c] /\ prov' = prov \cup Versions(w, n)
    /\ Has(c, ChildFields) /\ c.n = n /\ c.epoch = child[w].epoch /\ c.state \in {"COMMITTED", "COMMIT_UNKNOWN"}

\* Its journal row comes to count what it stores.
LEMMA StoresCount ==
  ASSUME WriteShapes, NEW w, w \in DOMAIN child, StoreChild(w) PROVE \E n, c : Stored(w, n, c)
<1>0. Has(child[w], ChildFields)
  BY DEF WriteShapes
<1>1. ASSUME NEW n \in 1..MaxVersions, child' = [child EXCEPT ![w] = [@ EXCEPT !.state = "COMMITTED", !.n = n]],
             prov' = prov \cup Versions(w, n)
      PROVE  \E c : Stored(w, n, c)
  <2> DEFINE c == [child[w] EXCEPT !.state = "COMMITTED", !.n = n]
  <2>1. Has(c, ChildFields) /\ c.n = n /\ c.epoch = child[w].epoch /\ c.state \in {"COMMITTED", "COMMIT_UNKNOWN"}
    BY <1>0 DEF Has, ChildFields
  <2>2. n \in Nat /\ child' = [child EXCEPT ![w] = c]
    BY <1>1, ManagedAssumption
  <2> HIDE DEF c
  <2> QED BY <1>1, <2>1, <2>2 DEF Stored
<1>2. ASSUME NEW n \in 1..MaxVersions, prov' = prov \cup Versions(w, n),
             child' = [child EXCEPT ![w] = [@ EXCEPT !.state = "COMMITTED", !.n = n, !.exact = FALSE]]
      PROVE  \E c : Stored(w, n, c)
  <2> DEFINE c == [child[w] EXCEPT !.state = "COMMITTED", !.n = n, !.exact = FALSE]
  <2>1. Has(c, ChildFields) /\ c.n = n /\ c.epoch = child[w].epoch /\ c.state \in {"COMMITTED", "COMMIT_UNKNOWN"}
    BY <1>0 DEF Has, ChildFields
  <2>2. n \in Nat /\ child' = [child EXCEPT ![w] = c]
    BY <1>2, ManagedAssumption
  <2> HIDE DEF c
  <2> QED BY <1>2, <2>1, <2>2 DEF Stored
<1>3. ASSUME NEW n \in {0, 1}, child' = [child EXCEPT ![w] = [@ EXCEPT !.state = "COMMIT_UNKNOWN", !.n = n]],
             prov' = prov \cup Versions(w, n)
      PROVE  \E c : Stored(w, n, c)
  <2> DEFINE c == [child[w] EXCEPT !.state = "COMMIT_UNKNOWN", !.n = n]
  <2>1. Has(c, ChildFields) /\ c.n = n /\ c.epoch = child[w].epoch /\ c.state \in {"COMMITTED", "COMMIT_UNKNOWN"}
    BY <1>0 DEF Has, ChildFields
  <2>2. n \in Nat /\ child' = [child EXCEPT ![w] = c]
    BY <1>3
  <2> HIDE DEF c
  <2> QED BY <1>3, <2>1, <2>2 DEF Stored
<1> QED BY <1>1, <1>2, <1>3 DEF StoreChild

(* A child's completion stores versions that its journal row counts, while its intent
   stands. *)
LEMMA ChildStored ==
  ASSUME CoverInvariant, NEW w, w \in DOMAIN intents, w \in DOMAIN child, child[w].state = "OPEN", StoreChild(w),
         UNCHANGED <<intents, ledger>>
  PROVE  WritesKept
<1>0. WriteShapes
  BY DEF CoverInvariant
<1>a. PICK n, c : Stored(w, n, c)
  BY <1>0, StoresCount
<1>1. /\ n \in Nat /\ child' = [child EXCEPT ![w] = c] /\ prov' = prov \cup Versions(w, n)
      /\ Has(c, ChildFields) /\ c.n = n /\ c.epoch = child[w].epoch /\ c.state \in {"COMMITTED", "COMMIT_UNKNOWN"}
  BY <1>a DEF Stored
<1>2. /\ Has(child', DOMAIN child') /\ DOMAIN child' = DOMAIN child /\ child'[w] = c
      /\ \A x \in DOMAIN child \ {w} : child'[x] = child[x]
  BY <1>0, <1>1, RowChanged DEF WriteShapes
<1>3. \A v \in Versions(w, n) : Has(v, VersionFields) /\ v.write = w /\ v.n \in 1..n
  BY DEF Versions, Has, VersionFields
<1>4. WriteShapes'
  BY <1>0, <1>1, <1>2, <1>3 DEF WriteShapes
<1>5. \A v : Found(v) => Found(v)'
  BY <1>2 DEF Found, InLedger, Pending
<1>6. \A v \in Versions(w, n) : v.write \in DOMAIN intents /\ Found(v)'
  BY <1>1, <1>2, <1>3 DEF Found, Pending
<1> QED BY <1>1, <1>2, <1>4, <1>5, <1>6 DEF WritesKept

\* The same, unless a reconciler has decided the child.
LEMMA ChildCompleted ==
  ASSUME CoverInvariant, NEW w, w \in DOMAIN intents, w \in DOMAIN child, CompletedChild(w), UNCHANGED <<intents, ledger>>
  PROVE  WritesKept
<1>1. CASE child[w].state = "OPEN"
  BY <1>1, ChildStored DEF CompletedChild
<1>2. CASE child[w].state # "OPEN"
  BY <1>2, TablesSame DEF CompletedChild, CoverInvariant
<1> QED BY <1>1, <1>2

\* A version is deleted at the provider.
LEMMA VersionDeleted ==
  ASSUME WriteShapes, NEW v, prov' = prov \ {v} \/ prov' = prov, UNCHANGED <<intents, child, ledger>> PROVE WritesKept
  BY DEF WriteShapes, WritesKept, Found, InLedger, Pending

\* Ledger rows change in their state, and journal rows of writes that are over go.
LEMMA LedgerMarked ==
  ASSUME WriteShapes, UNCHANGED <<intents, child, prov>>,
         \A l \in ledger' : Has(l, LedgerFields) /\ \E m \in ledger : m.write = l.write /\ m.n = l.n,
         \A m \in ledger : \E l \in ledger' : m.write = l.write /\ m.n = l.n
  PROVE  WritesKept
<1>1. WriteShapes'
  BY DEF WriteShapes
<1>2. \A v : Found(v) => Found(v)'
  BY DEF Found, InLedger, Pending
<1> QED BY <1>1, <1>2 DEF WritesKept

\* A version that is gone from the provider leaves the ledger.
LEMMA VersionForgotten ==
  ASSUME CoverInvariant, NEW v, Over(v.write), v \notin prov, Has(v, VersionFields),
         ledger' \subseteq ledger, \A l \in ledger \ ledger' : l.write = v.write /\ l.n = v.n,
         child' = child \/ child' = Restrict(child, DOMAIN child \ {v.write}),
         UNCHANGED <<intents, prov>>
  PROVE  WritesKept
<1>0. WriteShapes
  BY DEF CoverInvariant
<1>1. /\ Has(child', DOMAIN child') /\ DOMAIN child' \subseteq DOMAIN child /\ \A x \in DOMAIN child' : child'[x] = child[x]
      /\ \A x \in DOMAIN child : x # v.write => x \in DOMAIN child'
  BY <1>0, RowsLeft DEF WriteShapes
<1>2. WriteShapes'
  BY <1>0, <1>1 DEF WriteShapes
<1>3. v.write \notin DOMAIN intents
  BY DEF Over
<1>4. ASSUME NEW u \in prov, Found(u) PROVE Found(u)'
  <2>1. u # v /\ Has(u, VersionFields)
    BY <1>0 DEF WriteShapes
  <2>2. u.write # v.write \/ u.n # v.n
    BY <2>1 DEF Has, VersionFields
  <2> QED BY <1>1, <1>3, <1>4, <2>2 DEF Found, InLedger, Pending
<1> QED BY <1>1, <1>2, <1>3, <1>4 DEF WritesKept

\* The copies that workers are at, when only requests begin writes.
LEMMA JournaledStay ==
  ASSUME GenInvariant, JournalsKept, UNCHANGED worker, \A w \in DOMAIN child' : w \in DOMAIN child \/ w.by = "PUT"
  PROVE  CopiesJournaled
<1> SUFFICES ASSUME NEW i \in Workers, worker'[i].pc \in Copies
             PROVE  /\ worker[i].pc \in Copies /\ RepairChild(i)' = RepairChild(i)
                    /\ worker'[i].pc = "intended" => RepairChild(i)' \notin DOMAIN child'
                    /\ worker'[i].pc \in Writing => worker[i].pc \in Writing
  BY DEF CopiesJournaled
<1>1. RepairChild(i)' = RepairChild(i)
  BY DEF RepairChild, Gen, Target
<1>2. PICK w : w = RepairChild(i)
  OBVIOUS
<1>3. worker[i].key[1] \in CopyKinds
  BY DEF GenInvariant, TokensSpent, AtCopy, Copies, Writing
<1>4. w.by # "PUT"
  BY <1>2, <1>3 DEF RepairChild, CopyKinds
<1>5. worker[i].pc = "intended" => w \notin DOMAIN child
  BY <1>2 DEF JournalsKept
<1> QED BY <1>1, <1>2, <1>4, <1>5

\* A request comes to its work from a reservation or from its intent.
LEMMA RequestWorks ==
  ASSUME GenInvariant, NEW o \in Ops, RequestStep(o)
  PROVE  /\ \A a \in Ops \ {o} : put'[a] = put[a]
         /\ put'[o].pc \in AtWork => put[o].pc \in AtWork \/ BeginJournal(o) \/ ReserveLogicalOperation(o)
         /\ put'[o].pc = "aborted" => AbortAtProvider(o) \/ UNCHANGED put
<1>0. Has(put, Ops) /\ Has(put[o], PutFields)
  BY DEF GenInvariant, GenShapes
<1>1. ASSUME NEW pc, Goto(o, pc) PROVE put'[o].pc = pc /\ \A a \in Ops \ {o} : put'[a] = put[a]
  BY <1>0, <1>1 DEF Goto, Has, PutFields
<1>3. ASSUME NEW r, put' = [put EXCEPT ![o] = r] PROVE put'[o] = r /\ \A a \in Ops \ {o} : put'[a] = put[a]
  BY <1>0, <1>3 DEF Has
<1>4. ASSUME NEW k \in Keys, ReadAuthority(o, k)
      PROVE  put'[o].pc = "read" /\ \A a \in Ops \ {o} : put'[a] = put[a]
  <2> DEFINE r == [put[o] EXCEPT !.pc = "read", !.key = k, !.cas = CasAt(auth[k]), !.prior = SizeAt(auth[k])]
  <2>1. put' = [put EXCEPT ![o] = r] /\ r.pc = "read"
    BY <1>0, <1>4 DEF ReadAuthority, Has, PutFields
  <2> HIDE DEF r
  <2> QED BY <1>3, <2>1
<1>5. CASE RouteFence(o)
  <2> DEFINE r == [put[o] EXCEPT !.pc = "fenced", !.epoch = ns.epoch, !.routing = ns.routing]
  <2>1. put' = [put EXCEPT ![o] = r] /\ r.pc = "fenced"
    BY <1>0, <1>5 DEF RouteFence, Has, PutFields
  <2> HIDE DEF r
  <2> QED BY <1>3, <2>1 DEF AtWork
<1>6. CASE ReadUsage(o)
  <2>1. PICK want : put' = [put EXCEPT ![o] = [@ EXCEPT !.pc = "sized", !.resv = want]]
    BY <1>6 DEF ReadUsage
  <2> DEFINE r == [put[o] EXCEPT !.pc = "sized", !.resv = want]
  <2>2. put' = [put EXCEPT ![o] = r] /\ r.pc = "sized"
    BY <1>0, <2>1 DEF Has, PutFields
  <2> HIDE DEF r
  <2> QED BY <1>3, <2>2 DEF AtWork
<1>7. ASSUME NEW size, VerifyOutput(o, size)
      PROVE  put[o].pc \in AtWork /\ put'[o].pc # "aborted" /\ \A a \in Ops \ {o} : put'[a] = put[a]
  <2> DEFINE r == [put[o] EXCEPT !.pc = "verified", !.size = size]
  <2>1. put' = [put EXCEPT ![o] = r] /\ r.pc = "verified" /\ put[o].pc = "writing"
    BY <1>0, <1>7 DEF VerifyOutput, Has, PutFields
  <2> HIDE DEF r
  <2> QED BY <1>3, <2>1 DEF AtWork
<1>8. CASE ProvePhysicalAbort(o)
  BY <1>8 DEF ProvePhysicalAbort
<1>9. CASE BeginJournal(o)
  BY <1>1, <1>9 DEF BeginJournal
<1>10. CASE ReserveLogicalOperation(o)
  <2>1. PICK pc \in {"reserved", "verified", "refused"} : Goto(o, pc)
    BY <1>10 DEF ReserveLogicalOperation
  <2> QED BY <1>1, <1>10, <2>1
<1>11. ASSUME NEW kind, InsertLogicalOperation(o, kind)
       PROVE  put'[o].pc \notin AtWork /\ put'[o].pc # "aborted" /\ \A a \in Ops \ {o} : put'[a] = put[a]
  BY <1>1, <1>11 DEF InsertLogicalOperation, AtWork
<1>12. CASE BeginPhysicalWrite(o) \/ BeginJournalFails(o) \/ ProveLogicalAbort(o) \/ CompleteRefused(o) \/ Crash(o)
  BY <1>1, <1>12 DEF BeginPhysicalWrite, BeginJournalFails, ProveLogicalAbort, CompleteRefused, Crash, AtWork
<1>13. CASE WriteFails(o)
  BY <1>1, <1>13 DEF WriteFails, AtWork
<1>14. CASE RecordLogicalUsage(o)
  BY <1>1, <1>14 DEF RecordLogicalUsage, AtWork
<1>15. CASE TransitionLogicalOperation(o)
  <2>1. put[o].pc \in AtWork /\ \E pc \in {"completing", "ledgered", "aborting"} : Goto(o, pc)
    BY <1>15 DEF TransitionLogicalOperation, AtWork
  <2> QED BY <1>1, <2>1
<1>16. CASE CompleteChild(o)
  BY <1>1, <1>16 DEF CompleteChild, AtWork
<1>17. CASE CommitPhysicalWrite(o)
  <2>1. put[o].pc \in AtWork /\ \E pc \in {"ledgered", "failed"} : Goto(o, pc)
    BY <1>17 DEF CommitPhysicalWrite, AtWork
  <2> QED BY <1>1, <2>1
<1>18. CASE AbortChild(o)
  <2>1. put[o].pc \in AtWork /\ \E pc \in {"failed", "withdrawing"} : Goto(o, pc)
    BY <1>18 DEF AbortChild, AtWork
  <2> QED BY <1>1, <2>1
<1>20. CASE AbortAtProvider(o)
  <2>1. Goto(o, "aborted") \/ Goto(o, "failed")
    BY <1>20 DEF AbortAtProvider
  <2> QED BY <1>1, <1>20, <2>1 DEF AtWork
<1>21. CASE WithdrawIntent(o)
  <2>1. Goto(o, "withdrawn") \/ Goto(o, "failed")
    BY <1>21 DEF WithdrawIntent
  <2> QED BY <1>1, <2>1 DEF AtWork
<1>19. CASE CommitLogicalPut(o) \/ CommitLogicalDelete(o)
  <2>1. Goto(o, "done") \/ Goto(o, "failed")
    BY <1>19 DEF CommitLogicalPut, CommitLogicalDelete
  <2> QED BY <1>1, <2>1 DEF AtWork
<1> QED BY <1>4, <1>5, <1>6, <1>7, <1>8, <1>9, <1>10, <1>11, <1>12, <1>13, <1>14, <1>15, <1>16, <1>17, <1>18, <1>19, <1>20, <1>21
        DEF RequestStep, AtWork

\* A request, from its intent to the settlement of its child.
LEMMA RequestWrites ==
  ASSUME CoverInvariant, NEW o \in Ops, RequestStep(o), UNCHANGED worker
  PROVE  WritesKept /\ WorkJournaled
<1>0. GenInvariant /\ WriteShapes /\ KnownBegun /\ JournalsKept
  BY DEF CoverInvariant
<1>1. PICK w : w = Child(o)
  OBVIOUS
<1>2. w.by = "PUT" /\ w.gen = o /\ IsWrite(w)
  BY <1>1 DEF Child, IsWrite
<1>3. /\ \A a \in Ops \ {o} : put'[a] = put[a]
      /\ put'[o].pc \in AtWork => put[o].pc \in AtWork \/ BeginJournal(o) \/ ReserveLogicalOperation(o)
      /\ put'[o].pc = "aborted" => AbortAtProvider(o) \/ UNCHANGED put
  BY <1>0, RequestWorks
<1>a. \A a \in Ops : put'[a].pc = "aborted" =>
         put[a].pc = "aborted" \/ (Child(a)' \in DOMAIN child' => child'[Child(a)'].state = "PROVEN_ABORTED")
  <2>1. CASE AbortAtProvider(o) /\ put'[o].pc = "aborted"
    <3>1. Child(o)' = w
      BY <1>1, <2>1 DEF AbortAtProvider, Child
    <3>2. \/ /\ w \in DOMAIN child /\ child' = [child EXCEPT ![w].state = "PROVEN_ABORTED"]
          \/ Goto(o, "failed")
      BY <1>1, <2>1 DEF AbortAtProvider
    <3>3. w \in DOMAIN child /\ child' = [child EXCEPT ![w].state = "PROVEN_ABORTED"]
      BY <1>0, <2>1, <3>2 DEF Goto, GenInvariant, GenShapes, Has, PutFields
    <3>4. child'[w].state = "PROVEN_ABORTED"
      BY <1>0, <3>3 DEF WriteShapes, Has, ChildFields
    <3> QED BY <1>3, <3>1, <3>4
  <2> QED BY <1>3, <2>1
<1>b. CopiesJournaled
  <2>1. CASE BeginJournal(o)
    <3>1. DOMAIN child' = DOMAIN child \cup {w}
      BY <1>0, <1>1, <2>1, RowAdded DEF BeginJournal, WriteShapes
    <3> QED BY <1>0, <1>2, <3>1, JournaledStay
  <2>2. CASE UNCHANGED child
    BY <1>0, <2>2, JournaledStay
  <2>3. ASSUME NEW x, NEW c, child' = [child EXCEPT ![x] = c] PROVE CopiesJournaled
    BY <1>0, <2>3, JournaledStay
  <2>4. CASE CompleteChild(o)
    BY <2>2, <2>3, <2>4 DEF CompleteChild, CompletedChild, StoreChild
  <2>5. CASE AbortChild(o) \/ AbortAtProvider(o)
    BY <2>2, <2>3, <2>5 DEF AbortChild, AbortAtProvider
  <2> QED BY <2>1, <2>2, <2>4, <2>5 DEF RequestStep, ReadAuthority, RouteFence, InsertLogicalOperation, ReadUsage,
     ReserveLogicalOperation, BeginPhysicalWrite, BeginJournalFails, VerifyOutput, WriteFails, RecordLogicalUsage,
     TransitionLogicalOperation, CompleteRefused, CommitPhysicalWrite, WithdrawIntent, ProveLogicalAbort, ProvePhysicalAbort,
     CommitLogicalPut, CommitLogicalDelete, Crash
<1>4. WorkJournaled
  <2>1. CASE BeginJournal(o)
    <3>1. Child(o)' = w /\ DOMAIN child' = DOMAIN child \cup {w}
      BY <1>0, <1>1, <2>1, RowAdded DEF BeginJournal, Child, WriteShapes
    <3> QED BY <1>3, <1>a, <1>b, <3>1 DEF WorkJournaled, RequestsJournaled
  <2>2. CASE ReserveLogicalOperation(o)
    <3>1. put[o].pc = "sized" /\ UNCHANGED intents
      BY <2>2 DEF ReserveLogicalOperation
    <3>2. SameWork(ops'[o], ops[o])
      BY <1>0, <2>2, <3>1, RequestMoves DEF OpsKept, Uninserted
    <3>3. Child(o)' = w
      BY <1>1, <3>2 DEF Child, SameWork
    <3>4. ~ Begun(w)
      BY <1>2, <3>1 DEF Begun, Early
    <3>5. w \notin DOMAIN intents'
      BY <1>0, <3>1, <3>4 DEF KnownBegun
    <3> QED BY <1>3, <1>a, <1>b, <3>3, <3>5 DEF WorkJournaled, RequestsJournaled
  <2>3. CASE put'[o].pc \in AtWork => put[o].pc \in AtWork
    BY <1>3, <1>a, <1>b, <2>3 DEF WorkJournaled, RequestsJournaled
  <2> QED BY <1>3, <2>1, <2>2, <2>3
<1>5. CASE UNCHANGED <<intents, child, ledger, prov>>
  BY <1>0, <1>4, <1>5, TablesSame
<1>6. CASE BeginPhysicalWrite(o) /\ intents' # intents
  <2>1. /\ put[o].pc = "reserved" /\ intents' = WithRow(intents, w, NewIntent) /\ Goto(o, "intended") /\ Active
        /\ ops[o].epoch = ns.epoch /\ UNCHANGED <<ns, ops, child, ledger, prov>>
    BY <1>1, <1>6 DEF BeginPhysicalWrite, Fenced
  <2>2. ~ Begun(w)
    BY <1>2, <2>1 DEF Begun, Early
  <2>3. w \notin DOMAIN intents
    BY <1>0, <2>2 DEF KnownBegun
  <2>a. Has(intents, DOMAIN intents) /\ intents' = WithRow(intents, w, NewIntent)
    BY <1>0, <2>1 DEF WriteShapes
  <2>4. /\ Has(intents', DOMAIN intents') /\ DOMAIN intents' = DOMAIN intents \cup {w} /\ intents'[w] = NewIntent
        /\ \A x \in DOMAIN intents : intents'[x] = intents[x]
    BY <2>3, <2>a DEF Has, WithRow
  <2>5. Has(NewIntent, IntentFields) /\ NewIntent.epoch = ns.epoch /\ ns.epoch \in Nat
    BY DEF NewIntent, Has, IntentFields, CoverInvariant, EpochInvariant, PurgeShapes
  <2>6. put'[o].pc = "intended"
    BY <1>0, <2>1 DEF Goto, GenInvariant, GenShapes, Has, PutFields
  <2>7. Begun(w)'
    BY <1>2, <2>6 DEF Begun, Early, Uninserted
  <2>8. WriteShapes'
    BY <1>0, <2>1, <2>4, <2>5 DEF WriteShapes
  <2>9. \A v : Found(v) => Found(v)'
    BY <2>1, <2>4 DEF Found, InLedger, Pending
  <2>10. WritesKept
    BY <1>2, <2>1, <2>2, <2>3, <2>4, <2>5, <2>7, <2>8, <2>9 DEF WritesKept
  <2> QED BY <1>4, <2>10
<1>7. CASE BeginJournal(o)
  <2>1. /\ put[o].pc = "intended" /\ child' = WithRow(child, w, NewChild(intents[w].epoch)) /\ Goto(o, "writing")
        /\ UNCHANGED <<intents, ledger, prov>>
    BY <1>1, <1>7 DEF BeginJournal
  <2>2. w \notin DOMAIN child
    BY <1>0, <1>2, <2>1 DEF KnownBegun, Unjournaled
  <2> DEFINE c == NewChild(intents[w].epoch)
  <2>3. Has(c, ChildFields) /\ c.n = 0 /\ c.epoch = intents[w].epoch
    BY DEF NewChild, Has, ChildFields
  <2> HIDE DEF c
  <2>a. Has(child, DOMAIN child) /\ child' = WithRow(child, w, c)
    BY <1>0, <2>1 DEF WriteShapes, c
  <2>4. /\ Has(child', DOMAIN child') /\ DOMAIN child' = DOMAIN child \cup {w} /\ child'[w] = c
        /\ \A x \in DOMAIN child : child'[x] = child[x]
    BY <2>2, <2>a DEF Has, WithRow
  <2>5. put'[o].pc = "writing"
    BY <1>0, <2>1 DEF Goto, GenInvariant, GenShapes, Has, PutFields
  <2>6. Begun(w)' /\ put'[w.gen].pc \notin Unjournaled
    BY <1>2, <2>5 DEF Begun, Early, Uninserted, Unjournaled
  <2>7. WriteShapes'
    BY <1>0, <2>1, <2>3, <2>4 DEF WriteShapes
  <2>8. \A v : Found(v) => Found(v)'
    BY <2>1, <2>4 DEF Found, InLedger, Pending
  <2>9. WritesKept
    BY <1>2, <2>1, <2>2, <2>3, <2>4, <2>6, <2>7, <2>8 DEF WritesKept, Unjournaled
  <2> QED BY <1>4, <2>9
<1>8. CASE BeginJournalFails(o)
  <2>1. w \notin DOMAIN child
    BY <1>0, <1>2, <1>8 DEF KnownBegun, Unjournaled, BeginJournalFails
  <2>2. UNCHANGED <<child, ledger, prov>> /\ (UNCHANGED intents \/ intents' = Restrict(intents, DOMAIN intents \ {w}))
    BY <1>1, <1>8 DEF BeginJournalFails
  <2>3. WritesKept
    BY <1>0, <2>1, <2>2, IntentDropped, TablesSame
  <2> QED BY <1>4, <2>3
<1>9. CASE CompleteChild(o)
  <2>1. /\ put[o].pc = "completing" /\ w \in DOMAIN intents /\ CompletedChild(w) /\ UNCHANGED <<intents, ledger>>
    BY <1>1, <1>9 DEF CompleteChild, WriterLease
  <2>2. w \in DOMAIN child
    BY <1>0, <1>1, <2>1 DEF JournalsKept, AtWork
  <2> QED BY <1>4, <2>1, <2>2, ChildCompleted
<1>10. CASE CommitPhysicalWrite(o)
  <2>1. /\ put[o].pc = "stored" /\ UNCHANGED <<child, prov>>
        /\ UNCHANGED <<intents, ledger>> \/ (w \in DOMAIN intents /\ Settling(w))
    BY <1>1, <1>10, BothSettle DEF CommitPhysicalWrite
  <2>2. w \in DOMAIN intents => w \in DOMAIN child
    BY <1>0, <1>1, <2>1 DEF JournalsKept, AtWork
  <2> QED BY <1>0, <1>4, <2>1, <2>2, Settles, TablesSame
<1>11. CASE AbortChild(o)
  <2>1. put[o].pc = "aborting" /\ UNCHANGED prov
    BY <1>11 DEF AbortChild
  <2>2. w \in DOMAIN intents => w \in DOMAIN child
    BY <1>0, <1>1, <2>1 DEF JournalsKept, AtWork
  <2>3. CASE WriterLease(w) /\ child[w].state = "OPEN" /\ child' = [child EXCEPT ![w].state = "ABORTING"] /\ UNCHANGED <<intents, ledger>>
    <3> DEFINE c == [child[w] EXCEPT !.state = "ABORTING"]
    <3>1. w \in DOMAIN child
      BY <2>2, <2>3 DEF WriterLease
    <3>2. Has(c, ChildFields) /\ c.n = child[w].n /\ c.epoch = child[w].epoch
      BY <1>0, <3>1 DEF WriteShapes, Has, ChildFields
    <3>3. child' = [child EXCEPT ![w] = c]
      BY <2>3
    <3> HIDE DEF c
    <3> QED BY <1>0, <1>4, <2>1, <2>3, <3>1, <3>2, <3>3, ChildMoves
  <2>4. CASE UNCHANGED <<intents, ledger, child>> \/ (w \in DOMAIN intents /\ Settling(w) /\ UNCHANGED child)
    BY <1>0, <1>4, <2>1, <2>2, <2>4, Settles, TablesSame
  <2> QED BY <1>1, <1>11, <2>3, <2>4, BothSettle DEF AbortChild, WriterLease
<1>12. CASE AbortAtProvider(o)
  <2>1. /\ UNCHANGED <<intents, ledger, prov>>
        /\ \/ w \in DOMAIN child /\ child[w].state = "ABORTING" /\ child' = [child EXCEPT ![w].state = "PROVEN_ABORTED"]
           \/ UNCHANGED child
    BY <1>1, <1>12 DEF AbortAtProvider
  <2>2. CASE w \in DOMAIN child /\ child[w].state = "ABORTING" /\ child' = [child EXCEPT ![w].state = "PROVEN_ABORTED"]
    <3> DEFINE c == [child[w] EXCEPT !.state = "PROVEN_ABORTED"]
    <3>1. Has(c, ChildFields) /\ c.n = child[w].n /\ c.epoch = child[w].epoch
      BY <1>0, <2>2 DEF WriteShapes, Has, ChildFields
    <3>2. child' = [child EXCEPT ![w] = c]
      BY <2>2
    <3> HIDE DEF c
    <3> QED BY <1>0, <1>4, <2>1, <2>2, <3>1, <3>2, ChildMoves
  <2> QED BY <1>0, <1>4, <2>1, <2>2, TablesSame
<1>13. CASE WithdrawIntent(o)
  <2>1. /\ put[o].pc = "aborted" /\ UNCHANGED <<child, prov>>
        /\ DropIntent(w) \/ UNCHANGED <<intents, ledger>>
    BY <1>1, <1>13 DEF WithdrawIntent
  <2>2. w \in DOMAIN child => child[w].state = "PROVEN_ABORTED"
    BY <1>0, <1>1, <2>1 DEF JournalsKept
  <2> QED BY <1>0, <1>4, <2>1, <2>2, IntentDropped, TablesSame DEF DropIntent
<1> QED BY <1>5, <1>6, <1>7, <1>8, <1>9, <1>10, <1>11, <1>12, <1>13 DEF RequestStep, ReadAuthority, RouteFence, InsertLogicalOperation, ReadUsage,
     ReserveLogicalOperation, BeginPhysicalWrite, VerifyOutput, WriteFails, RecordLogicalUsage, TransitionLogicalOperation,
     CompleteRefused, ProveLogicalAbort, ProvePhysicalAbort, CommitLogicalPut, CommitLogicalDelete, Crash

\* A worker comes to its copy from its open source, and the other workers stay.
LEMMA WorkerComes ==
  ASSUME GenInvariant, NEW i \in Workers, WorkerProgress(i) \/ WorkerCrash(i)
  PROVE  /\ \A j \in Workers \ {i} : worker'[j] = worker[j]
         /\ worker'[i].pc \in Copies => (BeginCopy(i) /\ Active) \/ BeginCopyJournal(i) \/ StoreCopy(i)
<1>0. Has(worker, Workers) /\ Has(worker[i], WorkerFields)
  BY DEF GenInvariant, GenShapes
<1> DEFINE Stays == \A j \in Workers \ {i} : worker'[j] = worker[j]
<1>1. ASSUME NEW r, worker' = [worker EXCEPT ![i] = r] PROVE worker'[i] = r /\ Stays
  BY <1>0, <1>1 DEF Has
<1>2. ASSUME NEW pc, Step(i, pc) PROVE worker'[i].pc = pc /\ Stays
  BY <1>0, <1>2 DEF Step, Has, WorkerFields
<1> HIDE DEF Stays
<1>3. ASSUME NEW pc, NEW r, worker' = [worker EXCEPT ![i] = r], r.pc = pc, pc \notin Copies PROVE Stays /\ worker'[i].pc \notin Copies
  BY <1>1, <1>3
<1>4. IdleWorker.pc \notin Copies
  BY DEF IdleWorker, Copies, Writing
<1>5. ASSUME NEW key, SelectCandidate(i, key) PROVE Stays /\ worker'[i].pc \notin Copies
  <2> DEFINE r == [worker[i] EXCEPT !.pc = "selected", !.key = key, !.row = repairs[key]]
  <2>1. worker' = [worker EXCEPT ![i] = r] /\ r.pc = "selected"
    BY <1>0, <1>5 DEF SelectCandidate, Has, WorkerFields
  <2> HIDE DEF r
  <2> QED BY <1>3, <2>1 DEF Copies, Writing
<1>6. CASE ClaimRepair(i)
  <2>1. PICK n : \/ worker' = [worker EXCEPT ![i] = [@ EXCEPT !.pc = "claimed", !.row.token = n]]
                 \/ worker' = [worker EXCEPT ![i] = IdleWorker]
    BY <1>6 DEF ClaimRepair
  <2> DEFINE r == [worker[i] EXCEPT !.pc = "claimed", !.row.token = n]
  <2>2. r.pc = "claimed" /\ (worker' = [worker EXCEPT ![i] = r] \/ worker' = [worker EXCEPT ![i] = IdleWorker])
    BY <1>0, <2>1 DEF Has, WorkerFields
  <2> HIDE DEF r
  <2> QED BY <1>3, <1>4, <2>2 DEF Copies, Writing, Stays
<1>7. CASE OpenSource(i) \/ (BeginCopy(i) /\ ~ Active) \/ BeginCopyFails(i) \/ CopyFails(i) \/ SettleCopy(i) \/ CheckCleanup(i)
  <2>1. \E pc \in {"opened", "failing", "finished", "cleared"} : Step(i, pc)
    BY <1>7 DEF OpenSource, BeginCopy, BeginCopyFails, CopyFails, SettleCopy, CheckCleanup
  <2> QED BY <1>2, <2>1 DEF Copies, Writing, Stays
<1>8. CASE (BeginCopy(i) /\ Active) \/ BeginCopyJournal(i) \/ StoreCopy(i)
  BY <1>2, <1>8 DEF BeginCopy, BeginCopyJournal, StoreCopy, Stays
<1>9. CASE ListCleanup(i)
  <2>1. PICK todo : \/ worker' = [worker EXCEPT ![i] = [@ EXCEPT !.pc = "failing"]]
                    \/ worker' = [worker EXCEPT ![i] = [@ EXCEPT !.pc = "deleting", !.todo = todo]]
    BY <1>9 DEF ListCleanup
  <2> DEFINE r == [worker[i] EXCEPT !.pc = "deleting", !.todo = todo]
             f == [worker[i] EXCEPT !.pc = "failing"]
  <2>2. /\ r.pc = "deleting" /\ f.pc = "failing"
        /\ worker' = [worker EXCEPT ![i] = r] \/ worker' = [worker EXCEPT ![i] = f]
    BY <1>0, <2>1 DEF Has, WorkerFields
  <2> HIDE DEF r, f
  <2> QED BY <1>3, <2>2 DEF Copies, Writing, Stays
<1>10. ASSUME NEW v, DeleteVersion(i, v) PROVE Stays /\ worker'[i].pc \notin Copies
  <2> DEFINE r == [worker[i] EXCEPT !.pc = "forgetting", !.victim = v]
  <2>1. r.pc = "forgetting" /\ (worker' = [worker EXCEPT ![i] = r] \/ Step(i, "failing"))
    BY <1>0, <1>10 DEF DeleteVersion, Has, WorkerFields
  <2> HIDE DEF r
  <2> QED BY <1>2, <1>3, <2>1 DEF Copies, Writing
<1>11. CASE ForgetVersion(i)
  <2>1. PICK todo, pc : /\ worker' = [worker EXCEPT ![i] = [@ EXCEPT !.todo = todo, !.victim = Nil, !.pc = pc]]
                        /\ pc \in {"finished", "deleting"}
    BY <1>11 DEF ForgetVersion
  <2> DEFINE r == [worker[i] EXCEPT !.todo = todo, !.victim = Nil, !.pc = pc]
  <2>2. r.pc = pc /\ worker' = [worker EXCEPT ![i] = r]
    BY <1>0, <2>1 DEF Has, WorkerFields
  <2> HIDE DEF r
  <2> QED BY <1>3, <2>1, <2>2 DEF Copies, Writing, Stays
<1>12. CASE CompleteRepair(i) \/ FailRepair(i) \/ WorkerCrash(i)
  BY <1>1, <1>4, <1>12 DEF CompleteRepair, FailRepair, WorkerCrash, Stays
<1> QED BY <1>5, <1>6, <1>7, <1>8, <1>9, <1>10, <1>11, <1>12 DEF WorkerProgress, Stays

(* The copies that workers are at, when one of them moves: a journal row that is new is
   of its copy, and no other worker is at the same one. *)
LEMMA CopyMoves ==
  ASSUME GenInvariant, JournalsKept, NEW i \in Workers, \A j \in Workers \ {i} : worker'[j] = worker[j],
         \A w \in DOMAIN child' : w \in DOMAIN child \/ (worker[i].pc = "intended" /\ w = RepairChild(i)),
         worker'[i].pc \in Copies =>
            /\ \/ worker[i].pc \in Copies /\ RepairChild(i)' = RepairChild(i)
               \/ worker'[i].pc = "intended" /\ IsWrite(RepairChild(i)') /\ Begun(RepairChild(i))'
            /\ worker'[i].pc = "intended" => RepairChild(i)' \notin DOMAIN child'
            /\ worker'[i].pc \in Writing => worker[i].pc \in Writing \/ RepairChild(i)' \in DOMAIN child'
  PROVE  CopiesJournaled
<1> SUFFICES ASSUME NEW j \in Workers \ {i}, worker'[j].pc \in Copies
             PROVE  /\ worker[j].pc \in Copies /\ RepairChild(j)' = RepairChild(j)
                    /\ worker'[j].pc = "intended" => RepairChild(j)' \notin DOMAIN child'
                    /\ worker'[j].pc \in Writing => worker[j].pc \in Writing
  BY DEF CopiesJournaled
<1>1. worker'[j] = worker[j]
  OBVIOUS
<1>2. RepairChild(j)' = RepairChild(j)
  BY <1>1 DEF RepairChild, Gen, Target
<1>3. ASSUME worker[i].pc = "intended", worker[j].pc = "intended" PROVE RepairChild(j) # RepairChild(i)
  <2>1. /\ worker[i].key \in RepairKeys /\ worker[i].key[1] \in CopyKinds
        /\ worker[j].key \in RepairKeys /\ worker[j].key[1] \in CopyKinds
    BY <1>3 DEF GenInvariant, TokensSpent, AtCopy
  <2>2. Claimed(i) /\ Claimed(j)
    BY <1>3, <2>1 DEF Claimed
  <2>3. worker[i].key # worker[j].key \/ worker[i].row.token # worker[j].row.token
    BY <2>2 DEF GenInvariant, TokensSpent
  <2>4. \A key \in RepairKeys : key = <<key[1], key[2], key[3]>>
    BY DEF RepairKeys
  <2>5. SUFFICES ASSUME RepairChild(j) = RepairChild(i) PROVE FALSE
    OBVIOUS
  <2>6. /\ worker[i].key[1] = worker[j].key[1] /\ worker[i].key[2] = worker[j].key[2] /\ worker[i].key[3] = worker[j].key[3]
        /\ worker[i].row.token = worker[j].row.token
    BY <2>5 DEF RepairChild, Gen, Target
  <2> QED BY <2>1, <2>3, <2>4, <2>6
<1>4. worker[j].pc = "intended" => RepairChild(j) \notin DOMAIN child
  BY DEF JournalsKept
<1> QED BY <1>1, <1>2, <1>3, <1>4

\* A repair worker, from the intent of its copy to the last version it forgets.
LEMMA WorkerWrites ==
  ASSUME CoverInvariant, NEW i \in Workers, WorkerProgress(i) \/ WorkerCrash(i), GenInvariant', GenKept
  PROVE  WritesKept /\ WorkJournaled
<1>0. GenInvariant /\ WriteShapes /\ KnownBegun /\ JournalsKept
  BY DEF CoverInvariant
<1>a. RequestsJournaled
  <2>1. UNCHANGED put
    BY DEF WorkerProgress, WorkerCrash, SelectCandidate, ClaimRepair, OpenSource, BeginCopy, BeginCopyJournal, BeginCopyFails, StoreCopy, CopyFails,
       SettleCopy, CheckCleanup, ListCleanup, ForgetVersion, DeleteVersion, CompleteRepair, FailRepair, writeVars
  <2> QED BY <2>1 DEF RequestsJournaled
<1>d. /\ \A j \in Workers \ {i} : worker'[j] = worker[j]
      /\ worker'[i].pc \in Copies => (BeginCopy(i) /\ Active) \/ BeginCopyJournal(i) \/ StoreCopy(i)
  BY <1>0, WorkerComes
<1>e. ASSUME DOMAIN child' \subseteq DOMAIN child, ~ (BeginCopy(i) /\ Active), ~ BeginCopyJournal(i), ~ StoreCopy(i) PROVE WorkJournaled
  BY <1>0, <1>a, <1>d, <1>e, CopyMoves DEF WorkJournaled
<1>2. CASE /\ UNCHANGED <<intents, child, ledger, prov>>
           /\ ~ (BeginCopy(i) /\ Active) /\ ~ BeginCopyJournal(i) /\ ~ StoreCopy(i)
  BY <1>0, <1>2, <1>e, TablesSame
<1>3. PICK w, key, token : /\ key = worker[i].key /\ token = worker[i].row.token /\ w = RepairChild(i)
  OBVIOUS
<1>4. w.by = key[1] /\ w.gen = key[2] /\ w.backend = key[3] /\ w.token = token
  BY <1>3 DEF RepairChild, Gen, Target
<1>5. worker[i].pc \in AtCopy => key \in RepairKeys /\ key[1] \in CopyKinds /\ IsWrite(w) /\ w.by # "PUT" /\ <<w.by, w.gen, w.backend>> = key
  <2>1. worker[i].pc \in AtCopy => key \in RepairKeys /\ key[1] \in CopyKinds
    BY <1>0, <1>3 DEF GenInvariant, TokensSpent, AtCopy
  <2>2. key \in RepairKeys => <<key[1], key[2], key[3]>> = key
    BY DEF RepairKeys
  <2>3. key \in RepairKeys => <<w.by, w.gen, w.backend>> = key
    BY <1>4, <2>2
  <2> QED BY <1>4, <2>1, <2>3 DEF IsWrite, CopyKinds
<1>6. CASE BeginCopy(i) /\ Active
  <2>1. /\ worker[i].pc = "opened" /\ intents' = WithRow(intents, w, NewIntent)
        /\ Active /\ Step(i, "intended") /\ UNCHANGED <<ns, child, ledger, prov, ops, repairs, auth>>
    BY <1>3, <1>6 DEF BeginCopy
  <2>2. key \in RepairKeys /\ key[1] \in CopyKinds /\ IsWrite(w) /\ w.by # "PUT" /\ <<w.by, w.gen, w.backend>> = key
    BY <1>5, <2>1 DEF AtCopy
  <2>3. Opening(i) /\ Spent(key, token)
    BY <1>0, <1>3, <2>1, <2>2 DEF Opening, Claimed, GenInvariant, TokensSpent
  <2>4. ~ Begun(w)
    BY <1>3, <1>4, <2>2, <2>3 DEF Begun
  <2>5. w \notin DOMAIN intents /\ w \notin DOMAIN child
    BY <1>0, <2>4 DEF KnownBegun
  <2>6. Begun(w)'
    <3>1. Spent(key, token)'
      BY <2>1, <2>3 DEF Spent
    <3>a. Has(worker, Workers) /\ Has(worker[i], WorkerFields)
      BY <1>0 DEF GenInvariant, GenShapes
    <3>2. worker'[i].pc = "intended" /\ \A j \in Workers \ {i} : worker'[j] = worker[j]
      BY <2>1, <3>a DEF Step, Has, WorkerFields
    <3>3. ~ Opening(i)'
      BY <3>2 DEF Opening
    <3>4. ASSUME NEW j \in Workers, Opening(j)' PROVE key # worker'[j].key \/ token # worker'[j].row.token
      <4>1. j # i /\ worker'[j] = worker[j]
        BY <3>2, <3>3, <3>4
      <4>2. Opening(j)
        BY <3>4, <4>1 DEF Opening
      <4> QED BY <1>0, <1>3, <2>3, <4>1, <4>2 DEF GenInvariant, TokensSpent, Claimed, Opening
    <3> QED BY <1>4, <2>2, <3>1, <3>4 DEF Begun
  <2>7. Has(NewIntent, IntentFields) /\ NewIntent.epoch = ns.epoch /\ ns.epoch \in Nat
    BY DEF NewIntent, Has, IntentFields, CoverInvariant, EpochInvariant, PurgeShapes
  <2>9. Has(intents, DOMAIN intents) /\ intents' = WithRow(intents, w, NewIntent)
    BY <1>0, <2>1 DEF WriteShapes
  <2>10. /\ Has(intents', DOMAIN intents') /\ DOMAIN intents' = DOMAIN intents \cup {w} /\ intents'[w] = NewIntent
         /\ \A x \in DOMAIN intents : intents'[x] = intents[x]
    BY <2>5, <2>9 DEF Has, WithRow
  <2>12. WriteShapes'
    BY <1>0, <2>1, <2>7, <2>10 DEF WriteShapes
  <2>13. \A v : Found(v) => Found(v)'
    BY <2>1, <2>10 DEF Found, InLedger, Pending
  <2>14. WritesKept
    BY <2>1, <2>2, <2>4, <2>5, <2>6, <2>7, <2>10, <2>12, <2>13 DEF WritesKept
  <2>15. worker'[i].pc = "intended" /\ RepairChild(i)' = w
    <3>1. Has(worker, Workers) /\ Has(worker[i], WorkerFields)
      BY <1>0 DEF GenInvariant, GenShapes
    <3> QED BY <1>3, <2>1, <3>1 DEF Step, Has, WorkerFields, RepairChild, Gen, Target
  <2>16. Begun(RepairChild(i))'
    BY <2>6, <2>15 DEF Begun
  <2>17. CopiesJournaled
    BY <1>0, <1>d, <2>1, <2>2, <2>5, <2>15, <2>16, CopyMoves DEF Writing
  <2> QED BY <1>a, <2>14, <2>17 DEF WorkJournaled
<1>b. CASE BeginCopyJournal(i)
  <2>1. /\ worker[i].pc = "intended" /\ child' = WithRow(child, w, NewChild(intents[w].epoch))
        /\ Step(i, "copying") /\ UNCHANGED <<intents, ledger, prov, put, ops, auth, repairs>>
    BY <1>3, <1>b DEF BeginCopyJournal
  <2>2. IsWrite(w) /\ Begun(w) /\ w.by # "PUT"
    BY <1>0, <1>3, <1>5, <2>1 DEF JournalsKept, Copies, AtCopy
  <2>4. w \notin DOMAIN child
    BY <1>0, <1>3, <2>1 DEF JournalsKept
  <2>5. WritesKept /\ DOMAIN child' = DOMAIN child \cup {w}
    <3> DEFINE c == NewChild(intents[w].epoch)
    <3>1. Has(c, ChildFields) /\ c.n = 0 /\ c.epoch = intents[w].epoch
      BY DEF NewChild, Has, ChildFields
    <3> HIDE DEF c
    <3>2. Has(child, DOMAIN child) /\ child' = WithRow(child, w, c)
      BY <1>0, <2>1 DEF WriteShapes, c
    <3>3. /\ Has(child', DOMAIN child') /\ DOMAIN child' = DOMAIN child \cup {w} /\ child'[w] = c
          /\ \A x \in DOMAIN child : child'[x] = child[x]
      BY <2>4, <3>2 DEF Has, WithRow
    <3>4. WriteShapes'
      BY <1>0, <2>1, <3>1, <3>3 DEF WriteShapes
    <3>5. \A v : Found(v) => Found(v)'
      BY <2>1, <3>3 DEF Found, InLedger, Pending
    <3>6. Begun(w)'
      BY <1>0, <2>2, BegunKept
    <3>7. WritesKept
      BY <2>1, <2>2, <2>4, <3>1, <3>3, <3>4, <3>5, <3>6 DEF WritesKept
    <3> QED BY <3>3, <3>7
  <2>6. worker'[i].pc = "copying" /\ RepairChild(i)' = w
    <3>1. Has(worker, Workers) /\ Has(worker[i], WorkerFields)
      BY <1>0 DEF GenInvariant, GenShapes
    <3> QED BY <1>3, <2>1, <3>1 DEF Step, Has, WorkerFields, RepairChild, Gen, Target
  <2>7. CopiesJournaled
    BY <1>0, <1>3, <1>d, <2>1, <2>5, <2>6, CopyMoves DEF Copies
  <2> QED BY <1>a, <2>5, <2>7 DEF WorkJournaled
<1>c. CASE BeginCopyFails(i)
  <2>1. /\ worker[i].pc = "intended" /\ UNCHANGED <<child, ledger, prov>>
        /\ UNCHANGED intents \/ intents' = Restrict(intents, DOMAIN intents \ {w})
    BY <1>3, <1>c DEF BeginCopyFails
  <2>2. w \notin DOMAIN child
    BY <1>0, <1>3, <2>1 DEF JournalsKept
  <2>3. WritesKept
    BY <1>0, <2>1, <2>2, IntentDropped, TablesSame
  <2>4. worker'[i].pc = "failing" /\ (BeginCopyJournal(i) => worker'[i].pc = "copying")
    <3>1. Has(worker, Workers) /\ Has(worker[i], WorkerFields)
      BY <1>0 DEF GenInvariant, GenShapes
    <3> QED BY <1>c, <3>1 DEF BeginCopyFails, BeginCopyJournal, Step, Has, WorkerFields
  <2>5. ~ BeginCopy(i) /\ ~ BeginCopyJournal(i) /\ ~ StoreCopy(i)
    BY <2>1, <2>4 DEF BeginCopy, StoreCopy
  <2> QED BY <1>e, <2>1, <2>3, <2>5
<1>7. CASE StoreCopy(i)
  <2>1. /\ worker[i].pc = "copying" /\ w \in DOMAIN intents /\ CompletedChild(w) /\ Step(i, "stored")
        /\ UNCHANGED <<intents, ledger>>
    BY <1>3, <1>7 DEF StoreCopy, WriterLease
  <2>2. w \in DOMAIN child
    BY <1>0, <1>3, <2>1 DEF JournalsKept, Writing
  <2>3. DOMAIN child' = DOMAIN child
    BY <2>1 DEF CompletedChild, StoreChild
  <2>4. worker'[i].pc = "stored" /\ RepairChild(i)' = w
    <3>1. Has(worker, Workers) /\ Has(worker[i], WorkerFields)
      BY <1>0 DEF GenInvariant, GenShapes
    <3> QED BY <1>3, <2>1, <3>1 DEF Step, Has, WorkerFields, RepairChild, Gen, Target
  <2>5. CopiesJournaled
    BY <1>0, <1>3, <1>d, <2>1, <2>3, <2>4, CopyMoves DEF Copies, Writing
  <2> QED BY <1>a, <2>1, <2>2, <2>5, ChildCompleted DEF WorkJournaled
<1>8. CASE SettleCopy(i)
  <2>1. /\ worker[i].pc = "stored" /\ UNCHANGED <<child, prov>>
        /\ UNCHANGED <<intents, ledger>> \/ (w \in DOMAIN intents /\ Settling(w))
    BY <1>3, <1>8, BothSettle DEF SettleCopy
  <2>2. w \in DOMAIN intents => w \in DOMAIN child
    BY <1>0, <1>3, <2>1 DEF JournalsKept, Writing
  <2>3. WritesKept
    BY <1>0, <2>1, <2>2, Settles, TablesSame
  <2> QED BY <1>e, <2>1, <2>3 DEF BeginCopy, BeginCopyJournal, StoreCopy
<1>9. ASSUME NEW v, DeleteVersion(i, v) PROVE WritesKept /\ WorkJournaled
  <2>1. worker[i].pc = "deleting" /\ UNCHANGED child
    BY <1>9 DEF DeleteVersion
  <2>2. WorkJournaled
    BY <1>e, <2>1 DEF BeginCopy, BeginCopyJournal, StoreCopy
  <2> QED BY <1>0, <1>9, <2>2, VersionDeleted DEF DeleteVersion
<1>10. CASE ForgetVersion(i)
  <2>1. PICK v : v = worker[i].victim
    OBVIOUS
  <2>2. ForgetEffects(v) /\ UNCHANGED <<intents, prov>> /\ worker[i].pc = "forgetting"
    BY <1>10, <2>1 DEF ForgetVersion
  <2>3. Over(v.write) /\ v \notin prov /\ Has(v, VersionFields)
    BY <2>1, <2>2 DEF CoverInvariant, VictimsGone, Marked, Listed
  <2>4. /\ ledger' = ledger \ {l \in ledger : l.write = v.write /\ l.n = v.n}
        /\ child' = child \/ child' = Restrict(child, DOMAIN child \ {v.write})
    BY <2>2 DEF ForgetEffects
  <2>5. ledger' \subseteq ledger /\ \A l \in ledger \ ledger' : l.write = v.write /\ l.n = v.n
    BY <2>4
  <2>6. WritesKept
    BY <2>2, <2>3, <2>4, <2>5, VersionForgotten
  <2>7. DOMAIN child' \subseteq DOMAIN child
    BY <2>4, RowsLeft
  <2> QED BY <1>e, <2>2, <2>6, <2>7 DEF BeginCopy, BeginCopyJournal, StoreCopy
<1>11. ASSUME \/ \E k \in RepairKeys : SelectCandidate(i, k)
              \/ ClaimRepair(i) \/ OpenSource(i) \/ CopyFails(i) \/ CheckCleanup(i) \/ ListCleanup(i)
              \/ CompleteRepair(i) \/ FailRepair(i) \/ WorkerCrash(i)
       PROVE  UNCHANGED <<intents, child, ledger, prov>>
  BY <1>11 DEF SelectCandidate, ClaimRepair, OpenSource, CopyFails, CheckCleanup, ListCleanup, CompleteRepair, FailRepair,
     WorkerCrash, writeVars
<1>12. CASE BeginCopy(i) /\ ~ Active
  <2>1. UNCHANGED <<intents, child, ledger, prov>> /\ worker[i].pc = "opened"
    BY <1>12 DEF BeginCopy
  <2> QED BY <1>2, <1>12, <2>1 DEF BeginCopyJournal, StoreCopy
<1> QED BY <1>2, <1>6, <1>7, <1>8, <1>9, <1>10, <1>11, <1>12, <1>b, <1>c DEF WorkerProgress

\* The finalizer of a purge, whose journal rows are of writes that are over.
LEMMA FinalizerWrites ==
  ASSUME CoverInvariant, NEW d \in Drivers, FinalizeComplete(d) PROVE WritesKept
<1>0. WriteShapes
  BY DEF CoverInvariant
<1>1. PICK e : e = purges[driver[d].purge].epoch
  OBVIOUS
<1>2. /\ child' = Restrict(child, {w \in DOMAIN child : child[w].epoch > e \/ ~ Terminal(child[w].state)})
      /\ driver[d].pc = "settling" /\ UNCHANGED <<intents, ledger, prov>>
  BY <1>1 DEF FinalizeComplete
<1>3. /\ Has(child', DOMAIN child') /\ DOMAIN child' = {w \in DOMAIN child : child[w].epoch > e \/ ~ Terminal(child[w].state)}
      /\ \A x \in DOMAIN child' : child'[x] = child[x]
  BY <1>2, RowsLeft
<1>4. WriteShapes'
  BY <1>0, <1>2, <1>3 DEF WriteShapes
<1>5. \A w \in DOMAIN intents \cap DOMAIN child : w \in DOMAIN child'
  BY <1>1, <1>2, <1>3 DEF CoverInvariant, NoOldIntents, Finalizing, IntentEpochs
<1>6. \A v : Found(v) => Found(v)'
  BY <1>2, <1>3, <1>5 DEF Found, InLedger, Pending
<1> QED BY <1>2, <1>3, <1>4, <1>5, <1>6 DEF WritesKept

\* The rows of a purge are marked, and nothing else about them.
LEMMA CondemnedMarked ==
  ASSUME WriteShapes, NEW p, NEW epoch, NEW states, ledger' = Condemned(p, epoch, states), UNCHANGED <<intents, child, prov>>
  PROVE  WritesKept
<1>1. \A m \in ledger : LET l == [m EXCEPT !.state = "PURGE_PENDING", !.purge = p]
                        IN  Has(l, LedgerFields) /\ l.write = m.write /\ l.n = m.n
  BY DEF WriteShapes, Has, LedgerFields
<1>2. \A l \in ledger' : Has(l, LedgerFields) /\ \E m \in ledger : m.write = l.write /\ m.n = l.n
  BY <1>1 DEF Condemned, WriteShapes
<1>3. ASSUME NEW m \in ledger PROVE \E l \in ledger' : m.write = l.write /\ m.n = l.n
  <2> DEFINE l == IF m.epoch <= epoch /\ m.state \in states
                  THEN [m EXCEPT !.state = "PURGE_PENDING", !.purge = p] ELSE m
  <2>1. l \in ledger'
    BY DEF Condemned
  <2>2. l.write = m.write /\ l.n = m.n
    BY <1>1
  <2> HIDE DEF l
  <2> QED BY <2>1, <2>2
<1> QED BY <1>2, <1>3, LedgerMarked

\* A request about a purge.
LEMMA DriverWrites ==
  ASSUME CoverInvariant, NEW d \in Drivers, DriverStep(d) PROVE WritesKept /\ WorkJournaled
<1>0. WriteShapes /\ GenInvariant /\ JournalsKept
  BY DEF CoverInvariant
<1>1. UNCHANGED put /\ UNCHANGED worker
  BY DEF DriverStep, StartPurge, QueryPurge, ReadIntents, ReadTargets, FinalizeBlocked, FinalizeCounts, FinalizeComplete, PurgeTargets,
     MarkPurgeTargetDeleted, MarkPurgeTargetBlocked, DeleteTarget, DriverCrash, writeVars, repairVars
<1>a. DOMAIN child' \subseteq DOMAIN child
  <2>1. ASSUME NEW S, S \subseteq DOMAIN child, child' = Restrict(child, S) PROVE DOMAIN child' \subseteq DOMAIN child
    BY <2>1, RowsLeft
  <2>2. CASE FinalizeComplete(d)
    BY <2>1, <2>2 DEF FinalizeComplete
  <2>3. CASE MarkPurgeTargetDeleted(d)
    BY <2>1, <2>3 DEF MarkPurgeTargetDeleted
  <2>4. CASE UNCHANGED child
    BY <2>4
  <2> QED BY <2>2, <2>3, <2>4 DEF DriverStep, StartPurge, QueryPurge, ReadIntents, ReadTargets, FinalizeBlocked, FinalizeCounts,
     PurgeTargets, MarkPurgeTargetBlocked, DeleteTarget, DriverCrash, writeVars
<1>2. WorkJournaled
  BY <1>0, <1>1, <1>a, JournaledStay DEF WorkJournaled, RequestsJournaled
<1>3. ASSUME NEW p, StartPurge(d, p) PROVE WritesKept
  BY <1>0, <1>3, CondemnedMarked DEF StartPurge
<1>4. CASE ReadTargets(d)
  BY <1>0, <1>2, <1>4, CondemnedMarked DEF ReadTargets
<1>5. CASE MarkPurgeTargetBlocked(d)
  <2>1. PICK p, v : /\ p = driver[d].purge /\ v = driver[d].victim
    OBVIOUS
  <2>2. /\ ledger' = {IF l.write = v.write /\ l.n = v.n /\ l.purge = p
                      THEN [l EXCEPT !.state = "PURGE_BLOCKED"] ELSE l : l \in ledger}
        /\ UNCHANGED <<intents, child, prov>>
    BY <1>5, <2>1 DEF MarkPurgeTargetBlocked
  <2>3. \A m \in ledger : LET l == [m EXCEPT !.state = "PURGE_BLOCKED"]
                          IN  Has(l, LedgerFields) /\ l.write = m.write /\ l.n = m.n
    BY <1>0 DEF WriteShapes, Has, LedgerFields
  <2>4. \A l \in ledger' : Has(l, LedgerFields) /\ \E m \in ledger : m.write = l.write /\ m.n = l.n
    BY <1>0, <2>2, <2>3 DEF WriteShapes
  <2>5. ASSUME NEW m \in ledger PROVE \E l \in ledger' : m.write = l.write /\ m.n = l.n
    <3> DEFINE l == IF m.write = v.write /\ m.n = v.n /\ m.purge = p THEN [m EXCEPT !.state = "PURGE_BLOCKED"] ELSE m
    <3>1. l \in ledger'
      BY <2>2
    <3>2. l.write = m.write /\ l.n = m.n
      BY <2>3
    <3> HIDE DEF l
    <3> QED BY <3>1, <3>2
  <2> QED BY <1>0, <1>2, <2>2, <2>4, <2>5, LedgerMarked
<1>6. ASSUME NEW v, DeleteTarget(d, v) PROVE WritesKept
  <2>1. (prov' = prov \ {v} \/ prov' = prov) /\ UNCHANGED <<intents, child, ledger>>
    BY <1>6 DEF DeleteTarget
  <2> QED BY <1>0, <2>1, VersionDeleted
<1>7. CASE MarkPurgeTargetDeleted(d)
  <2>1. PICK p, v : p = driver[d].purge /\ v = driver[d].victim
    OBVIOUS
  <2>2. /\ ledger' = ledger \ {l \in ledger : l.write = v.write /\ l.n = v.n /\ l.purge = p}
        /\ child' = child \/ child' = Restrict(child, DOMAIN child \ {v.write})
        /\ UNCHANGED <<intents, prov>> /\ driver[d].pc = "deleted"
    BY <1>7, <2>1 DEF MarkPurgeTargetDeleted
  <2>3. Over(v.write) /\ v \notin prov /\ Has(v, VersionFields)
    BY <2>1, <2>2 DEF CoverInvariant, VictimsGone, Marked, Listed
  <2>4. ledger' \subseteq ledger /\ \A l \in ledger \ ledger' : l.write = v.write /\ l.n = v.n
    BY <2>2
  <2> QED BY <1>2, <2>2, <2>3, <2>4, VersionForgotten
<1>8. ASSUME \/ \E p \in Purges : QueryPurge(d, p)
             \/ ReadIntents(d) \/ FinalizeBlocked(d) \/ FinalizeCounts(d) \/ PurgeTargets(d) \/ DriverCrash(d)
      PROVE  UNCHANGED <<intents, child, ledger, prov>>
  BY <1>8 DEF QueryPurge, ReadIntents, FinalizeBlocked, FinalizeCounts, PurgeTargets, DriverCrash, writeVars
<1> QED BY <1>0, <1>2, <1>3, <1>4, <1>5, <1>6, <1>7, <1>8, FinalizerWrites, TablesSame DEF DriverStep

\* The reconcilers of intents and of journal rows, and a lease that runs out.
LEMMA ReconcilerWrites ==
  ASSUME CoverInvariant, NEW w, ExpireIntent(w) \/ ExpireCopyIntent(w) \/ ReconcileIntent(w) \/ (w \in DOMAIN child /\ ReconcileChild(w)),
         UNCHANGED worker
  PROVE  WritesKept /\ WorkJournaled
<1>0. WriteShapes /\ GenInvariant /\ JournalsKept
  BY DEF CoverInvariant
<1>1. UNCHANGED put /\ DOMAIN child' = DOMAIN child
  BY DEF ExpireIntent, ExpireCopyIntent, ReconcileIntent, ReconcileChild
<1>2. WorkJournaled
  BY <1>0, <1>1, JournaledStay DEF WorkJournaled, RequestsJournaled
<1>3. CASE ExpireIntent(w) \/ ExpireCopyIntent(w)
  <2> DEFINE r == [intents[w] EXCEPT !.live = FALSE]
  <2>1. w \in DOMAIN intents /\ intents' = [intents EXCEPT ![w] = r] /\ UNCHANGED <<child, ledger, prov>>
    BY <1>3 DEF ExpireIntent, ExpireCopyIntent
  <2>a. Has(intents[w], IntentFields)
    BY <1>0, <2>1 DEF WriteShapes
  <2>2. Has(r, IntentFields) /\ r.epoch = intents[w].epoch
    BY <2>a DEF Has, IntentFields
  <2> HIDE DEF r
  <2> QED BY <1>0, <1>2, <2>1, <2>2, IntentMoves
<1>4. CASE ReconcileIntent(w)
  BY <1>0, <1>2, <1>4, Settles, BothSettle, IntentBlocked DEF ReconcileIntent
<1>5. CASE w \in DOMAIN child /\ ReconcileChild(w)
  <2> DEFINE c == [child[w] EXCEPT !.state = IF child[w].n > 0 THEN "COMMITTED" ELSE "PROVEN_ABORTED"]
  <2>1. child' = [child EXCEPT ![w] = c] /\ UNCHANGED <<intents, ledger, prov>> /\ Has(child[w], ChildFields) /\ child[w].n \in Nat
    BY <1>0, <1>5 DEF ReconcileChild, WriteShapes
  <2>2. Has(c, ChildFields) /\ c.n = child[w].n /\ c.epoch = child[w].epoch
    BY <2>1 DEF Has, ChildFields
  <2>3. c.state \in {"COMMITTED", "COMMIT_UNKNOWN"} \/ child[w].n = 0
    BY <2>1 DEF Has, ChildFields
  <2> HIDE DEF c
  <2>4. child[w].state # "PROVEN_ABORTED"
    BY <1>5 DEF ReconcileChild
  <2> QED BY <1>0, <1>2, <1>5, <2>1, <2>2, <2>3, <2>4, ChildMoves
<1> QED BY <1>3, <1>4, <1>5

\* Every step.
LEMMA StepWrites ==
  ASSUME CoverInvariant, GenInvariant', GenKept, [ManagedNext]_managedVars PROVE WritesKept /\ WorkJournaled
<1>1. CASE UNCHANGED <<intents, child, ledger, prov, put, worker>>
  <2>1. CopiesJournaled
    BY <1>1, JournaledStay DEF CoverInvariant
  <2> QED BY <1>1, <2>1, TablesSame DEF CoverInvariant, WorkJournaled, RequestsJournaled
<1>2. CASE WriteStep /\ UNCHANGED worker
  BY <1>1, <1>2, RequestWrites, ReconcilerWrites DEF WriteStep, TombstoneAuthoritative, AdvanceRoutingEpoch, IntentStep, ChildStep
<1>3. CASE RepairStep
  <2>1. ASSUME NEW c \in DOMAIN intents, ExpireCopyIntent(c) PROVE UNCHANGED worker
    BY <2>1 DEF ExpireCopyIntent, repairVars
  <2> QED BY <1>1, <1>3, <2>1, WorkerWrites, ReconcilerWrites DEF RepairStep, ExpireRepairLease, PlacementStep, RaisePlacement,
     AdvancePlacementVersion, SurveyPlacement, Enqueue, OpenAuthoritative, HeadAuthoritative, writeVars, repairVars
<1>4. ASSUME NEW u \in Uploads, MultipartStep(u) PROVE UNCHANGED <<intents, child, ledger, prov, put, worker>>
  BY <1>4 DEF MultipartStep, BeginMultipartActivity, CreateUpload, ConfirmMultipartActivity, WithdrawUpload,
     FinishMultipartActivity, RetireUpload, CreatorCrash, ExpireRegistration, ReconcileMultipartActivity, writeVars, repairVars
<1>5. CASE UNCHANGED managedVars
  BY <1>1, <1>5 DEF managedVars, writeVars, repairVars
<1> QED BY <1>1, <1>2, <1>3, <1>4, <1>5, DriverWrites DEF ManagedNext, repairVars

\* What a cleanup or a purge lists stays over, and what it deleted stays gone.
LEMMA ListKept ==
  ASSUME CoverInvariant, GenKept, WritesKept, WorkJournaled, NEW todo, Listed(todo) PROVE Listed(todo)'
  BY WritesGo DEF Listed

\* What a cleanup or a purge has deleted stays gone.
LEMMA MarkKept ==
  ASSUME CoverInvariant, GenKept, WritesKept, WorkJournaled, NEW r, NEW pc, Marked(r, pc) PROVE Marked(r, pc)'
<1>1. Listed(r.todo)'
  BY ListKept DEF Marked
<1>2. r.pc = pc => r.victim \in r.todo /\ r.victim \notin prov'
  BY WritesGo DEF Marked, Listed
<1> QED BY <1>1, <1>2 DEF Marked

\* A list that is read from the ledger.
LEMMA LedgerListed ==
  ASSUME CoverInvariant, NEW found, found \subseteq ledger
  PROVE  Listed({[write |-> l.write, n |-> l.n] : l \in found})
<1>1. \A l \in found : LET v == [write |-> l.write, n |-> l.n]
                       IN  Has(v, VersionFields) /\ v.write = l.write
  BY DEF Has, VersionFields
<1>2. \A l \in found : Over(l.write)
  BY DEF CoverInvariant, KnownBegun
<1> QED BY <1>1, <1>2 DEF Listed

\* A worker lists what the ledger holds and marks what it deleted.
LEMMA WorkerMarks ==
  ASSUME CoverInvariant, GenKept, WritesKept, WorkJournaled, NEW i \in Workers, WorkerProgress(i) \/ WorkerCrash(i)
  PROVE  \A j \in Workers : Marked(worker[j], "forgetting")'
<1>0. Has(worker, Workers) /\ Has(worker[i], WorkerFields) /\ Marked(worker[i], "forgetting")
  BY DEF CoverInvariant, GenInvariant, GenShapes, VictimsGone
<1>1. PICK todo : todo = worker[i].todo
  OBVIOUS
<1>2. Listed(todo)'
  BY <1>0, <1>1, ListKept DEF Marked
<1>a. Marked(IdleWorker, "forgetting")'
  BY DEF Marked, IdleWorker, Listed
<1>b. ASSUME NEW pc, pc # "forgetting", Step(i, pc)
      PROVE  \E r : worker' = [worker EXCEPT ![i] = r] /\ Marked(r, "forgetting")'
  <2> DEFINE r == [worker[i] EXCEPT !.pc = pc]
  <2>1. r.pc = pc /\ r.todo = todo
    BY <1>0, <1>1 DEF Has, WorkerFields
  <2>2. worker' = [worker EXCEPT ![i] = r]
    BY <1>b DEF Step
  <2>3. PICK q : q = r
    OBVIOUS
  <2>4. Marked(q, "forgetting")'
    BY <1>2, <1>b, <2>1, <2>3 DEF Marked
  <2> QED BY <2>2, <2>3, <2>4
<1>c. ASSUME NEW q, q.todo = todo, q.pc # "forgetting" PROVE Marked(q, "forgetting")'
  BY <1>2, <1>c DEF Marked
<1>3. PICK r : worker' = [worker EXCEPT ![i] = r] /\ Marked(r, "forgetting")'
  <2>1. ASSUME NEW key \in RepairKeys, SelectCandidate(i, key)
        PROVE  \E r : worker' = [worker EXCEPT ![i] = r] /\ Marked(r, "forgetting")'
    <3>1. PICK q : q = [worker[i] EXCEPT !.pc = "selected", !.key = key, !.row = repairs[key]]
      OBVIOUS
    <3>2. q.pc = "selected" /\ q.todo = todo
      BY <1>0, <1>1, <3>1 DEF Has, WorkerFields
    <3>3. worker' = [worker EXCEPT ![i] = q]
      BY <2>1, <3>1 DEF SelectCandidate
    <3> QED BY <1>c, <3>2, <3>3
  <2>2. CASE ClaimRepair(i)
    <3>1. PICK n : \/ worker' = [worker EXCEPT ![i] = [@ EXCEPT !.pc = "claimed", !.row.token = n]]
                   \/ worker' = [worker EXCEPT ![i] = IdleWorker]
      BY <2>2 DEF ClaimRepair
    <3>2. PICK q : q = [worker[i] EXCEPT !.pc = "claimed", !.row.token = n]
      OBVIOUS
    <3>3. q.pc = "claimed" /\ q.todo = todo
      BY <1>0, <1>1, <3>2 DEF Has, WorkerFields
    <3>4. worker' = [worker EXCEPT ![i] = q] \/ worker' = [worker EXCEPT ![i] = IdleWorker]
      BY <3>1, <3>2
    <3> QED BY <1>a, <1>c, <3>3, <3>4
  <2>3. CASE OpenSource(i) \/ BeginCopy(i) \/ BeginCopyJournal(i) \/ BeginCopyFails(i) \/ StoreCopy(i) \/ CopyFails(i) \/ SettleCopy(i) \/ CheckCleanup(i)
    <3>1. \E pc \in {"opened", "failing", "intended", "copying", "stored", "finished", "cleared"} : Step(i, pc)
      BY <2>3 DEF OpenSource, BeginCopy, BeginCopyJournal, BeginCopyFails, StoreCopy, CopyFails, SettleCopy, CheckCleanup
    <3> QED BY <1>b, <3>1
  <2>4. CASE ListCleanup(i)
    <3>1. PICK found : found = Ledgered(Target(i), Gen(i))
      OBVIOUS
    <3>2. PICK todo2 : todo2 = {[write |-> l.write, n |-> l.n] : l \in found}
      OBVIOUS
    <3>3. Listed(todo2)
      BY <3>1, <3>2, LedgerListed DEF Ledgered
    <3>4. Listed(todo2)'
      BY <3>3, ListKept
    <3>5. PICK q, p : /\ q = [worker[i] EXCEPT !.pc = "deleting", !.todo = todo2]
                      /\ p = [worker[i] EXCEPT !.pc = "failing"]
      OBVIOUS
    <3>6. q.pc = "deleting" /\ q.todo = todo2 /\ p.pc = "failing" /\ p.todo = todo
      BY <1>0, <1>1, <3>5 DEF Has, WorkerFields
    <3>7. worker' = [worker EXCEPT ![i] = q] \/ worker' = [worker EXCEPT ![i] = p]
      BY <2>4, <3>1, <3>2, <3>5 DEF ListCleanup
    <3>8. Marked(q, "forgetting")'
      BY <3>4, <3>6 DEF Marked
    <3> QED BY <1>c, <3>6, <3>7, <3>8
  <2>5. ASSUME NEW v \in worker[i].todo, DeleteVersion(i, v)
        PROVE  \E r : worker' = [worker EXCEPT ![i] = r] /\ Marked(r, "forgetting")'
    <3>1. PICK q : q = [worker[i] EXCEPT !.pc = "forgetting", !.victim = v]
      OBVIOUS
    <3>2. q.pc = "forgetting" /\ q.todo = todo /\ q.victim = v
      BY <1>0, <1>1, <3>1 DEF Has, WorkerFields
    <3>3. CASE worker' = [worker EXCEPT ![i] = [@ EXCEPT !.pc = "forgetting", !.victim = v]] /\ prov' = prov \ {v}
      <4>1. Marked(q, "forgetting")'
        BY <1>1, <1>2, <2>5, <3>2, <3>3 DEF Marked
      <4> QED BY <3>1, <3>3, <4>1
    <3> QED BY <1>b, <2>5, <3>3 DEF DeleteVersion
  <2>6. CASE ForgetVersion(i)
    <3>1. PICK q : q = [worker[i] EXCEPT !.todo = worker[i].todo \ {worker[i].victim}, !.victim = Nil,
                                         !.pc = IF worker[i].todo = {worker[i].victim} THEN "finished" ELSE "deleting"]
      OBVIOUS
    <3>2. q.todo \subseteq todo /\ q.pc # "forgetting"
      BY <1>0, <1>1, <3>1 DEF Has, WorkerFields
    <3>3. worker' = [worker EXCEPT ![i] = q]
      BY <2>6, <3>1 DEF ForgetVersion
    <3>4. Marked(q, "forgetting")'
      BY <1>2, <3>2 DEF Marked, Listed
    <3> QED BY <3>3, <3>4
  <2>7. CASE CompleteRepair(i) \/ FailRepair(i) \/ WorkerCrash(i)
    <3>1. worker' = [worker EXCEPT ![i] = IdleWorker]
      BY <2>7 DEF CompleteRepair, FailRepair, WorkerCrash
    <3> QED BY <1>a, <3>1
  <2> QED BY <2>1, <2>2, <2>3, <2>4, <2>5, <2>6, <2>7 DEF WorkerProgress
<1>4. ASSUME NEW j \in Workers PROVE Marked(worker[j], "forgetting")'
  <2>1. CASE j = i
    <3>1. worker'[j] = r
      BY <1>0, <1>3, <2>1 DEF Has
    <3> QED BY <1>3, <3>1 DEF Marked
  <2>2. CASE j # i
    <3>1. PICK q : q = worker[j]
      OBVIOUS
    <3>2. worker'[j] = q
      BY <1>0, <1>3, <2>2, <3>1 DEF Has
    <3>3. Marked(q, "forgetting")'
      BY <3>1, MarkKept DEF CoverInvariant, VictimsGone
    <3> QED BY <3>2, <3>3 DEF Marked
  <2> QED BY <2>1, <2>2
<1> QED BY <1>4

\* The rows of a table that no step moves stay marked.
LEMMA WorkersMarked ==
  ASSUME CoverInvariant, GenKept, WritesKept, WorkJournaled, UNCHANGED worker
  PROVE  \A j \in Workers : Marked(worker[j], "forgetting")'
<1>1. ASSUME NEW j \in Workers PROVE Marked(worker[j], "forgetting")'
  <2>1. PICK q : q = worker[j]
    OBVIOUS
  <2>2. Marked(q, "forgetting")'
    BY <2>1, MarkKept DEF CoverInvariant, VictimsGone
  <2> QED BY <2>1, <2>2 DEF Marked
<1> QED BY <1>1

\* The drivers that do not move stay marked.
LEMMA DriversMarked ==
  ASSUME CoverInvariant, GenKept, WritesKept, WorkJournaled, NEW S, \A e \in Drivers \ S : driver'[e] = driver[e]
  PROVE  \A e \in Drivers \ S : Marked(driver[e], "deleted")'
<1>1. ASSUME NEW j \in Drivers \ S PROVE Marked(driver[j], "deleted")'
  <2>1. PICK q : q = driver[j]
    OBVIOUS
  <2>2. Marked(q, "deleted")'
    BY <2>1, MarkKept DEF CoverInvariant, VictimsGone
  <2> QED BY <2>1, <2>2 DEF Marked
<1> QED BY <1>1

\* A finalizer that saw no intent of the purged epochs sees none appear: a new
\* intent is of the epoch that is active, and that is a later one.
OldIntentsGone(p) == \A w \in DOMAIN intents : intents[w].epoch > purges[p].epoch

\* OldIntentsGone is stable while a finalizer relies on it.
LEMMA OldIntentsStayGone ==
  ASSUME CoverInvariant, WritesKept, NEW d \in Drivers, Finalizing(d), NEW p, p = driver[d].purge,
         purges'[p].epoch = purges[p].epoch
  PROVE  OldIntentsGone(p)'
<1>1. p \in Purges /\ purges[p].state # "NONE"
  BY DEF CoverInvariant, EpochInvariant, DriversStarted, Finalizing
<1>2. Active => purges[p].epoch < ns.epoch
  BY <1>1, PurgeAssumption DEF CoverInvariant, EpochInvariant, PurgeEpochs
<1>3. /\ ns.epoch \in Nat /\ purges[p].epoch \in Nat
      /\ \A w \in DOMAIN intents : intents[w].epoch > purges[p].epoch
  BY <1>1 DEF CoverInvariant, EpochInvariant, PurgeShapes, NoOldIntents
<1> QED BY <1>2, <1>3 DEF OldIntentsGone, WritesKept

\* A purge that was started keeps its epoch.
LEMMA StartedKept ==
  ASSUME CoverInvariant, NEW d \in Drivers, DriverStep(d)
  PROVE  \A p \in Purges : purges[p].state # "NONE" => purges'[p].epoch = purges[p].epoch
<1>1. ASSUME NEW q \in Purges, StartPurge(d, q) PROVE \A p \in Purges : purges[p].state # "NONE" => purges'[p].epoch = purges[p].epoch
  <2>1. Has(purges, Purges)
    BY DEF CoverInvariant, EpochInvariant, PurgeShapes
  <2>2. purges' = [purges EXCEPT ![q] = [purges[q] EXCEPT !.state = "RUNNING", !.epoch = ns.epoch]] /\ purges[q].state = "NONE"
    BY <1>1 DEF StartPurge
  <2>3. \A p \in Purges \ {q} : purges'[p] = purges[p]
    BY <2>1, <2>2 DEF Has
  <2> QED BY <2>2, <2>3
<1>2. ASSUME NEW q \in Purges, QueryPurge(d, q) PROVE UNCHANGED purges
  BY <1>2 DEF QueryPurge
<1> QED BY <1>1, <1>2, DriverStepKeeps DEF DriverStep, PurgeKeeps, CoverInvariant

\* The row a request about a purge moves to.
DriverTo(d, r) ==
    /\ driver' = [driver EXCEPT ![d] = r]
    /\ Marked(r, "deleted")'
    /\ r.pc = "settling" \/ (r.pc = "scanned" /\ r.intents = {}) =>
         r.purge = driver[d].purge /\ (Finalizing(d) \/ (UNCHANGED <<intents, purges>> /\ OldIntentsGone(r.purge)))

\* Every step of a driver moves its row so.
LEMMA DriverMoves ==
  ASSUME CoverInvariant, GenKept, WritesKept, WorkJournaled, NEW d \in Drivers, DriverStep(d)
  PROVE  \E r : DriverTo(d, r)
<1>0. Has(driver, Drivers) /\ Has(driver[d], DriverFields) /\ Marked(driver[d], "deleted")
  BY DEF CoverInvariant, EpochInvariant, PurgeShapes, DriverShape, VictimsGone
<1>1. PICK todo : todo = driver[d].todo
  OBVIOUS
<1>2. Listed(todo)'
  BY <1>0, <1>1, ListKept DEF Marked
<1>3. Listed({})'
  BY DEF Listed
<1>a. DriverTo(d, IdleDriver) <=> driver' = [driver EXCEPT ![d] = IdleDriver]
  BY <1>3 DEF DriverTo, Marked, IdleDriver
<1>b. ASSUME NEW q, driver' = [driver EXCEPT ![d] = q], q.todo \subseteq todo, q.pc \notin {"deleted", "settling", "scanned"}
      PROVE  DriverTo(d, q)
  BY <1>2, <1>b DEF DriverTo, Marked, Listed
<1>c. ASSUME NextTarget(d) PROVE \E r : DriverTo(d, r)
  <2>1. PICK q : q = [driver[d] EXCEPT !.pc = IF driver[d].todo \ {driver[d].victim} = {} THEN "locking" ELSE "driving",
                                       !.todo = driver[d].todo \ {driver[d].victim}, !.victim = Nil]
    OBVIOUS
  <2>2. q.todo \subseteq todo /\ q.pc \in {"locking", "driving"}
    BY <1>0, <1>1, <2>1 DEF Has, DriverFields
  <2>3. driver' = [driver EXCEPT ![d] = q]
    BY <1>c, <2>1 DEF NextTarget
  <2> QED BY <1>b, <2>2, <2>3
<1>d. ASSUME Finalized(d) PROVE \E r : DriverTo(d, r)
  <2>1. PICK q : q = [driver[d] EXCEPT !.pc = "listing", !.round = 1, !.intents = {}, !.counted = 0]
    OBVIOUS
  <2>2. q.todo = todo /\ q.pc = "listing"
    BY <1>0, <1>1, <2>1 DEF Has, DriverFields
  <2>3. driver' = [driver EXCEPT ![d] = q] \/ driver' = [driver EXCEPT ![d] = IdleDriver]
    BY <1>d, <2>1 DEF Finalized
  <2> QED BY <1>a, <1>b, <2>2, <2>3
<1>4. ASSUME NEW p \in Purges, StartPurge(d, p) \/ QueryPurge(d, p) PROVE \E r : DriverTo(d, r)
  <2>1. PICK q : q = [IdleDriver EXCEPT !.pc = "locking", !.purge = p]
    OBVIOUS
  <2>2. q.todo = {} /\ q.pc = "locking"
    BY <2>1 DEF IdleDriver
  <2>3. driver' = [driver EXCEPT ![d] = q]
    BY <1>4, <2>1 DEF StartPurge, QueryPurge
  <2> QED BY <1>b, <2>2, <2>3
<1>5. CASE ReadIntents(d)
  <2>1. PICK p, old : /\ p = driver[d].purge
                      /\ old = {w \in DOMAIN intents : intents[w].epoch <= purges[p].epoch}
    OBVIOUS
  <2>2. PICK q : q = [driver[d] EXCEPT !.pc = "scanned", !.intents = {intents[w].state : w \in old}]
    OBVIOUS
  <2>3. q.todo = todo /\ q.pc = "scanned" /\ q.purge = p /\ q.intents = {intents[w].state : w \in old}
    BY <1>0, <1>1, <2>1, <2>2 DEF Has, DriverFields
  <2>4. /\ driver' = [driver EXCEPT ![d] = q] \/ driver' = [driver EXCEPT ![d] = IdleDriver]
        /\ UNCHANGED <<intents, purges>> /\ driver[d].pc = "locking"
    BY <1>5, <2>1, <2>2 DEF ReadIntents, writeVars
  <2>5. p \in Purges /\ purges[p].epoch \in Nat /\ \A w \in DOMAIN intents : intents[w].epoch \in Nat
    BY <2>1, <2>4 DEF CoverInvariant, EpochInvariant, DriversStarted, PurgeShapes, WriteShapes
  <2>6. q.intents = {} => OldIntentsGone(p)
    <3>1. q.intents = {} => old = {}
      BY <2>3
    <3> QED BY <2>1, <2>5, <3>1 DEF OldIntentsGone
  <2>7. Marked(q, "deleted")'
    BY <1>2, <2>3 DEF Marked
  <2>8. driver' = [driver EXCEPT ![d] = q] => DriverTo(d, q)
    BY <2>1, <2>3, <2>4, <2>6, <2>7 DEF DriverTo
  <2> QED BY <1>a, <2>4, <2>8
<1>6. CASE ReadTargets(d)
  <2>1. PICK q : q = [driver[d] EXCEPT !.pc = "settling"]
    OBVIOUS
  <2>2. q.todo = todo /\ q.pc = "settling" /\ q.purge = driver[d].purge
    BY <1>0, <1>1, <2>1 DEF Has, DriverFields
  <2>3. CASE driver[d].pc = "scanned" /\ driver[d].intents = {} /\ Drive(d, "settling")
    <3>1. driver' = [driver EXCEPT ![d] = q]
      BY <2>1, <2>3 DEF Drive
    <3>2. Finalizing(d)
      BY <2>3 DEF Finalizing
    <3>3. Marked(q, "deleted")'
      BY <1>2, <2>2 DEF Marked
    <3> QED BY <2>2, <3>1, <3>2, <3>3 DEF DriverTo
  <2>4. CASE Finalized(d)
    BY <1>d, <2>4
  <2> QED BY <1>6, <2>3, <2>4 DEF ReadTargets
<1>7. CASE FinalizeBlocked(d)
  BY <1>7, <1>d DEF FinalizeBlocked
<1>12. CASE FinalizeCounts(d)
  <2>1. PICK q : q = [driver[d] EXCEPT !.counted = driver[d].counted + 1]
    OBVIOUS
  <2>2. q.todo = todo /\ q.pc = "settling" /\ q.purge = driver[d].purge
    BY <1>0, <1>1, <1>12, <2>1 DEF Has, DriverFields, FinalizeCounts
  <2>3. driver' = [driver EXCEPT ![d] = q]
    BY <1>12, <2>1 DEF FinalizeCounts
  <2>4. Finalizing(d)
    BY <1>12 DEF Finalizing, FinalizeCounts
  <2>5. Marked(q, "deleted")'
    BY <1>2, <2>2 DEF Marked
  <2> QED BY <2>2, <2>3, <2>4, <2>5 DEF DriverTo
<1>8. CASE FinalizeComplete(d) \/ DriverCrash(d)
  BY <1>8, <1>a DEF FinalizeComplete, DriverCrash
<1>9. CASE PurgeTargets(d)
  <2>1. PICK found : found = {l \in ledger : l.purge = driver[d].purge}
    OBVIOUS
  <2>2. PICK todo2 : todo2 = {[write |-> l.write, n |-> l.n] : l \in found}
    OBVIOUS
  <2>3. Listed(todo2)'
    BY <2>1, <2>2, LedgerListed, ListKept
  <2>4. PICK q : q = [driver[d] EXCEPT !.pc = IF found = {} THEN "locking" ELSE "driving", !.todo = todo2]
    OBVIOUS
  <2>5. q.todo = todo2 /\ q.pc \in {"locking", "driving"}
    BY <1>0, <2>4 DEF Has, DriverFields
  <2>6. driver' = [driver EXCEPT ![d] = q]
    BY <1>9, <2>1, <2>2, <2>4 DEF PurgeTargets
  <2> QED BY <2>3, <2>5, <2>6 DEF DriverTo, Marked
<1>10. CASE MarkPurgeTargetDeleted(d) \/ MarkPurgeTargetBlocked(d)
  BY <1>10, <1>c DEF MarkPurgeTargetDeleted, MarkPurgeTargetBlocked
<1>11. ASSUME NEW v \in driver[d].todo, DeleteTarget(d, v) PROVE \E r : DriverTo(d, r)
  <2>1. PICK ok \in BOOLEAN : /\ prov' = IF ok THEN prov \ {v} ELSE prov
                              /\ driver' = [driver EXCEPT ![d] = [driver[d] EXCEPT !.pc = IF ok THEN "deleted" ELSE "refused", !.victim = v]]
    BY <1>11 DEF DeleteTarget
  <2>2. PICK q : q = [driver[d] EXCEPT !.pc = IF ok THEN "deleted" ELSE "refused", !.victim = v]
    OBVIOUS
  <2>3. q.todo = todo /\ q.pc \in {"deleted", "refused"} /\ q.victim = v /\ (q.pc = "deleted" => prov' = prov \ {v})
    BY <1>0, <1>1, <2>1, <2>2 DEF Has, DriverFields
  <2>4. driver' = [driver EXCEPT ![d] = q]
    BY <2>1, <2>2
  <2> QED BY <1>1, <1>2, <1>11, <2>3, <2>4 DEF DriverTo, Marked
<1> QED BY <1>4, <1>5, <1>6, <1>7, <1>8, <1>9, <1>10, <1>11, <1>12 DEF DriverStep

\* A step of a driver keeps the victims and the finalizers right.
LEMMA DriverKeepsCover ==
  ASSUME CoverInvariant, GenKept, WritesKept, WorkJournaled, NEW d \in Drivers, DriverStep(d)
  PROVE  (\A e \in Drivers : Marked(driver[e], "deleted")') /\ NoOldIntents'
<1>0. Has(driver, Drivers)
  BY DEF CoverInvariant, EpochInvariant, PurgeShapes
<1>1. PICK r : DriverTo(d, r)
  BY DriverMoves
<1>2. driver'[d] = r /\ \A e \in Drivers \ {d} : driver'[e] = driver[e]
  BY <1>0, <1>1 DEF DriverTo, Has
<1>3. \A e \in Drivers \ {d} : Marked(driver[e], "deleted")'
  BY <1>2, DriversMarked
<1>4. Marked(driver[d], "deleted")'
  BY <1>1, <1>2 DEF DriverTo, Marked
<1>5. ASSUME NEW e \in Drivers, Finalizing(e)' PROVE OldIntentsGone(driver[e].purge)'
  <2>1. CASE Finalizing(e) /\ driver'[e].purge = driver[e].purge
    <3>1. PICK p : p = driver[e].purge
      OBVIOUS
    <3>2. p \in Purges /\ purges[p].state # "NONE"
      BY <2>1, <3>1 DEF CoverInvariant, EpochInvariant, DriversStarted, Finalizing
    <3>3. purges'[p].epoch = purges[p].epoch
      BY <3>2, StartedKept
    <3>4. OldIntentsGone(p)'
      BY <2>1, <3>1, <3>3, OldIntentsStayGone
    <3> QED BY <2>1, <3>1, <3>4 DEF OldIntentsGone
  <2>2. CASE e # d
    <3>1. driver'[e] = driver[e]
      BY <1>2, <2>2
    <3>2. Finalizing(e)
      BY <1>5, <3>1 DEF Finalizing
    <3> QED BY <2>1, <3>1, <3>2
  <2>3. CASE e = d /\ UNCHANGED <<intents, purges>> /\ OldIntentsGone(r.purge)
    BY <1>2, <2>3 DEF OldIntentsGone
  <2> QED BY <1>1, <1>2, <1>5, <2>1, <2>2, <2>3 DEF DriverTo, Finalizing
<1> QED BY <1>3, <1>4, <1>5 DEF NoOldIntents, OldIntentsGone

\* No write was begun at the start.
LEMMA CoverInitially == ASSUME ManagedInit PROVE CoverInvariant
<1>1. EpochInvariant /\ GenInvariant
  BY EpochInitially, GenInitially
<1>2. /\ intents = <<>> /\ child = <<>> /\ ledger = {} /\ prov = {}
      /\ put = [o \in Ops |-> [pc |-> "idle", key |-> Nil, cas |-> Nil, prior |-> 0,
                               epoch |-> 0, routing |-> 0, resv |-> 0, size |-> Nil]]
      /\ worker = [w \in Workers |-> IdleWorker] /\ driver = [d \in Drivers |-> IdleDriver]
  BY DEF ManagedInit, Init, RepairInit, PurgeInit
<1>3. DOMAIN intents = {} /\ DOMAIN child = {} /\ Has(intents, DOMAIN intents) /\ Has(child, DOMAIN child)
  BY <1>2 DEF Has
<1>4. WriteShapes
  BY <1>2, <1>3 DEF WriteShapes
<1>5. KnownBegun /\ JournalsKept /\ Accounted /\ IntentEpochs /\ NoOldIntents
  BY <1>2, <1>3 DEF KnownBegun, JournalsKept, Accounted, IntentEpochs, NoOldIntents, Copies, Writing, IdleWorker
<1>6. VictimsGone
  BY <1>2 DEF VictimsGone, Marked, Listed, IdleWorker, IdleDriver
<1> QED BY <1>1, <1>4, <1>5, <1>6 DEF CoverInvariant

\* Every step of the authority keeps every version found.
LEMMA CoverStep == ASSUME CoverInvariant, [ManagedNext]_managedVars PROVE CoverInvariant'
<1>1. EpochInvariant' /\ GenInvariant' /\ GenKept
  BY EpochStepPreserves, GenStep DEF CoverInvariant
<1>2. WritesKept /\ WorkJournaled
  BY <1>1, StepWrites
<1>3. WriteShapes' /\ KnownBegun' /\ JournalsKept' /\ Accounted' /\ IntentEpochs'
  BY <1>1, <1>2, WritesGo
<1>4. CASE UNCHANGED <<purges, driver>>
  <2>1. \A e \in Drivers \ {} : Marked(driver[e], "deleted")'
    BY <1>1, <1>2, <1>4, DriversMarked
  <2>2. \A e \in Drivers : Marked(driver[e], "deleted")'
    BY <2>1
  <2>3. ASSUME NEW e \in Drivers, Finalizing(e)' PROVE OldIntentsGone(driver[e].purge)'
    <3>1. PICK p : p = driver[e].purge
      OBVIOUS
    <3>2. Finalizing(e)
      BY <1>4, <2>3 DEF Finalizing
    <3>3. OldIntentsGone(p)'
      BY <1>2, <1>4, <3>1, <3>2, OldIntentsStayGone
    <3> QED BY <1>4, <3>1, <3>3 DEF OldIntentsGone
  <2>4. NoOldIntents'
    BY <2>3 DEF NoOldIntents, OldIntentsGone
  <2>5. \A j \in Workers : Marked(worker[j], "forgetting")'
    <3>1. ASSUME NEW i \in Workers, WorkerProgress(i) \/ WorkerCrash(i) PROVE \A j \in Workers : Marked(worker[j], "forgetting")'
      BY <1>1, <1>2, <3>1, WorkerMarks
    <3>2. CASE UNCHANGED worker
      BY <1>1, <1>2, <3>2, WorkersMarked
    <3>3. ASSUME NEW u \in Uploads, MultipartStep(u) PROVE UNCHANGED worker
      BY <3>3 DEF MultipartStep, BeginMultipartActivity, CreateUpload, ConfirmMultipartActivity, WithdrawUpload,
         FinishMultipartActivity, RetireUpload, CreatorCrash, ExpireRegistration, ReconcileMultipartActivity, repairVars
    <3>4. ASSUME NEW d \in Drivers, DriverStep(d) PROVE UNCHANGED worker
      BY <3>4 DEF DriverStep, StartPurge, QueryPurge, ReadIntents, ReadTargets, FinalizeBlocked, FinalizeCounts, FinalizeComplete, PurgeTargets,
         MarkPurgeTargetDeleted, MarkPurgeTargetBlocked, DeleteTarget, DriverCrash, repairVars
    <3>5. CASE RepairStep
      BY <3>1, <3>2, <3>5 DEF RepairStep, ExpireRepairLease, ExpireCopyIntent, PlacementStep, RaisePlacement,
         AdvancePlacementVersion, SurveyPlacement, Enqueue, OpenAuthoritative, HeadAuthoritative, repairVars
    <3> QED BY <3>2, <3>3, <3>4, <3>5 DEF ManagedNext, managedVars, repairVars
  <2> QED BY <1>1, <1>3, <2>2, <2>4, <2>5 DEF CoverInvariant, VictimsGone
<1>5. ASSUME NEW d \in Drivers, DriverStep(d) PROVE CoverInvariant'
  <2>1. UNCHANGED worker
    BY <1>5 DEF DriverStep, StartPurge, QueryPurge, ReadIntents, ReadTargets, FinalizeBlocked, FinalizeCounts, FinalizeComplete, PurgeTargets,
       MarkPurgeTargetDeleted, MarkPurgeTargetBlocked, DeleteTarget, DriverCrash, repairVars
  <2>2. \A j \in Workers : Marked(worker[j], "forgetting")'
    BY <1>1, <1>2, <2>1, WorkersMarked
  <2>3. (\A e \in Drivers : Marked(driver[e], "deleted")') /\ NoOldIntents'
    BY <1>1, <1>2, <1>5, DriverKeepsCover
  <2> QED BY <1>1, <1>3, <2>2, <2>3 DEF CoverInvariant, VictimsGone
<1>6. ASSUME NEW u \in Uploads, MultipartStep(u) PROVE UNCHANGED <<purges, driver>>
  BY <1>6 DEF MultipartStep, BeginMultipartActivity, CreateUpload, ConfirmMultipartActivity, WithdrawUpload,
     FinishMultipartActivity, RetireUpload, CreatorCrash, ExpireRegistration, ReconcileMultipartActivity
<1> QED BY <1>4, <1>5, <1>6 DEF ManagedNext, managedVars, purgeVars

(* LedgerCovers for every number of requests, workers, purges and versions:
   whatever a provider holds is in the ledger, where a cleanup or a purge finds
   it, or has a write intent that a reconciler will settle. *)
THEOREM VersionsCovered == ManagedSpec => []LedgerCovers
<1>1. CoverInvariant => LedgerCovers
  BY DEF CoverInvariant, Accounted, InLedger, Pending, LedgerCovers
<1>2. ManagedInit => CoverInvariant
  BY CoverInitially
<1>3. CoverInvariant /\ [ManagedNext]_managedVars => CoverInvariant'
  BY CoverStep
<1> QED BY <1>1, <1>2, <1>3, PTL DEF ManagedSpec

-----------------------------------------------------------------------------
(* What a purge leaves *)

\* The states of a ledger row.
LedgerStates == {"LIVE", "PURGE_PENDING", "PURGE_BLOCKED"}

(* Every intent and every ledger row is of the namespace's epoch, and while a
   purge is under way every ledger row is one of its targets. *)
RowsInEpoch ==
    /\ ns.state \in {"ACTIVE", "PURGING"} /\ (ns.state = "PURGING" => ns.purge # Nil)
    /\ \A w \in DOMAIN intents : intents[w].epoch = ns.epoch
    /\ \A l \in ledger : l.epoch = ns.epoch /\ l.state \in LedgerStates /\ (~ Active => l.purge = ns.purge)

\* What a request writes is of the epoch its operation was admitted in.
WritesInEpoch ==
    /\ \A w \in DOMAIN intents : w.by = "PUT" => ops[w.gen].epoch = ns.epoch
    /\ \A l \in ledger : l.write.by = "PUT" => ops[l.write.gen].epoch = ns.epoch

\* A finalizer that found no target is right to the end, and a completed purge
\* is not the one under way.
SettledEmpty == \A d \in Drivers : driver[d].pc = "settling" /\ driver[d].purge = ns.purge => ledger = {}
CompleteOver == \A p \in Purges : purges[p].state = "COMPLETE" => p # ns.purge

\* PurgeErases is inductive together with these, as far as requests go.
PurgeInvariant == CoverInvariant /\ RowsInEpoch /\ WritesInEpoch /\ SettledEmpty /\ CompleteOver

\* What a step may do to the ledger while the namespace stays as it is.
LedgerMoves ==
    \A l \in ledger' :
        /\ l.state \in LedgerStates
        /\ \/ /\ l.write \in DOMAIN intents /\ l.epoch = intents[l.write].epoch
              /\ ns.state = "PURGING" => l.purge = ns.purge
           \/ \E m \in ledger : /\ m.write = l.write /\ m.epoch = l.epoch
                                /\ l.purge = m.purge \/ (ns.state = "PURGING" /\ l.purge = ns.purge)

\* A row enters the ledger from its intent.
LEMMA SettledRows ==
  ASSUME PurgeInvariant, NEW w, w \in DOMAIN intents, Settling(w) PROVE LedgerMoves
<1>1. \A l \in LedgerRows(w) : /\ l.write = w /\ l.epoch = intents[w].epoch /\ l.state \in LedgerStates
                               /\ ns.state = "PURGING" => l.purge = ns.purge
  BY DEF LedgerRows, LedgerStates
<1>2. ledger' = ledger \/ ledger' = ledger \cup LedgerRows(w)
  BY DEF Settling, CommitIntent, DropIntent, BlockIntent
<1> QED BY <1>1, <1>2 DEF LedgerMoves, PurgeInvariant, RowsInEpoch

\* Ledger rows go.
LEMMA LedgerShrinks == ASSUME PurgeInvariant, ledger' \subseteq ledger PROVE LedgerMoves
  BY DEF LedgerMoves, PurgeInvariant, RowsInEpoch

\* Requests, reconcilers, workers and uploads move the ledger so.
LEMMA StepLedger ==
  ASSUME PurgeInvariant, WriteStep \/ RepairStep \/ (\E u \in Uploads : MultipartStep(u)) \/ UNCHANGED managedVars
  PROVE  LedgerMoves
<1>1. CASE ledger' \subseteq ledger
  BY <1>1, LedgerShrinks
<1>2. CASE \E w : w \in DOMAIN intents /\ (SettleFromJournal(w) \/ SettleCompleted(w))
  BY <1>2, SettledRows, BothSettle
<1>3. ASSUME NEW o \in Ops, RequestStep(o)
      PROVE  UNCHANGED ledger \/ \E w : w \in DOMAIN intents /\ (SettleFromJournal(w) \/ SettleCompleted(w))
  BY <1>3 DEF RequestStep, ReadAuthority, RouteFence, InsertLogicalOperation, ReadUsage, ReserveLogicalOperation,
     BeginPhysicalWrite, BeginJournal, BeginJournalFails, VerifyOutput, WriteFails, RecordLogicalUsage,
     TransitionLogicalOperation, CompleteChild, CompleteRefused, CommitPhysicalWrite, AbortChild, AbortAtProvider, WithdrawIntent, ProveLogicalAbort,
     ProvePhysicalAbort, CommitLogicalPut, CommitLogicalDelete, Crash, WriterLease, DropIntent
<1>4. CASE WriteStep
  <2>1. ASSUME NEW w \in DOMAIN intents, ExpireIntent(w) \/ ReconcileIntent(w)
        PROVE  UNCHANGED ledger \/ SettleFromJournal(w)
    BY <2>1 DEF ExpireIntent, ReconcileIntent, BlockIntent
  <2> QED BY <1>1, <1>2, <1>3, <1>4, <2>1 DEF WriteStep, TombstoneAuthoritative, IntentStep, ChildStep, ReconcileChild, AdvanceRoutingEpoch
<1>5. ASSUME NEW i \in Workers, WorkerProgress(i) \/ WorkerCrash(i)
      PROVE  ledger' \subseteq ledger \/ \E w : w \in DOMAIN intents /\ SettleCompleted(w)
  BY <1>5 DEF WriterLease, WorkerProgress, WorkerCrash, SelectCandidate, ClaimRepair, OpenSource, BeginCopy, BeginCopyJournal, BeginCopyFails, StoreCopy, CopyFails,
     SettleCopy, CheckCleanup, ListCleanup, ForgetVersion, ForgetEffects, DeleteVersion, CompleteRepair, FailRepair, writeVars
<1>6. CASE RepairStep
  BY <1>1, <1>2, <1>5, <1>6 DEF RepairStep, ExpireRepairLease, ExpireCopyIntent, PlacementStep, RaisePlacement,
     AdvancePlacementVersion, SurveyPlacement, Enqueue, OpenAuthoritative, HeadAuthoritative, writeVars
<1>7. ASSUME NEW u \in Uploads, MultipartStep(u) PROVE UNCHANGED ledger
  BY <1>7 DEF MultipartStep, BeginMultipartActivity, CreateUpload, ConfirmMultipartActivity, WithdrawUpload,
     FinishMultipartActivity, RetireUpload, CreatorCrash, ExpireRegistration, ReconcileMultipartActivity, writeVars
<1> QED BY <1>1, <1>4, <1>6, <1>7 DEF managedVars, writeVars

\* A step that leaves the namespace in its epoch and its purge.
SameEpoch == ns'.state = ns.state /\ ns'.epoch = ns.epoch /\ ns'.purge = ns.purge

\* A step in one epoch that moves the ledger so keeps the invariant.
LEMMA EpochStays ==
  ASSUME PurgeInvariant, CoverInvariant', GenKept, WritesKept, SameEpoch, LedgerMoves,
         \A d \in Drivers : driver'[d].pc = "settling" =>
             (driver[d].pc = "settling" /\ driver'[d].purge = driver[d].purge) \/ ledger' = {},
         \A p \in Purges : purges'[p].state = "COMPLETE" => purges[p].state = "COMPLETE" \/ p # ns.purge
  PROVE  PurgeInvariant'
<1>0. CoverInvariant /\ RowsInEpoch /\ WritesInEpoch /\ SettledEmpty /\ CompleteOver
  BY DEF PurgeInvariant
<1>1. RowsInEpoch'
  <2>1. \A w \in DOMAIN intents' : intents'[w].epoch = ns.epoch
    BY <1>0 DEF WritesKept, RowsInEpoch
  <2>2. \A l \in ledger' : l.epoch = ns.epoch /\ l.state \in LedgerStates /\ (~ Active => l.purge = ns.purge)
    BY <1>0 DEF LedgerMoves, RowsInEpoch, Active
  <2> QED BY <1>0, <2>1, <2>2 DEF RowsInEpoch, SameEpoch, Active
<1>2. ASSUME NEW w, w.by = "PUT", IsWrite(w), Begun(w) PROVE w.gen \in Ops /\ ops'[w.gen].epoch = ops[w.gen].epoch
  <2>1. w.gen \in Ops /\ put[w.gen].pc \notin Uninserted
    BY <1>2 DEF IsWrite, Begun, CopyKinds, Early
  <2> QED BY <2>1 DEF GenKept, SameWork
<1>3. \A w \in DOMAIN intents : w.by = "PUT" => ops'[w.gen].epoch = ns.epoch
  BY <1>0, <1>2 DEF CoverInvariant, KnownBegun, WritesInEpoch
<1>4. \A l \in ledger : l.write.by = "PUT" => ops'[l.write.gen].epoch = ns.epoch
  BY <1>0, <1>2 DEF CoverInvariant, KnownBegun, Over, WritesInEpoch
<1>5. \A w \in DOMAIN intents' \ DOMAIN intents : w.by = "PUT" => ops'[w.gen].epoch = ns.epoch
  BY DEF WritesKept
<1>6. WritesInEpoch'
  BY <1>3, <1>4, <1>5 DEF WritesInEpoch, LedgerMoves, SameEpoch
<1>7. ASSUME NEW d \in Drivers, driver[d].pc = "settling", driver[d].purge = ns.purge PROVE ledger' = {}
  <2>1. ledger = {}
    BY <1>0, <1>7 DEF SettledEmpty
  <2>2. ns.purge \in Purges
    BY <1>0, <1>7 DEF CoverInvariant, EpochInvariant, DriversStarted
  <2>3. purges[ns.purge].epoch = ns.epoch /\ ns.epoch \in Nat
    BY <1>0, <2>2, PurgeAssumption DEF CoverInvariant, EpochInvariant, PurgeEpochs, PurgeShapes
  <2>a. \A w \in DOMAIN intents : intents[w].epoch > purges[ns.purge].epoch /\ intents[w].epoch = ns.epoch
    BY <1>0, <1>7 DEF CoverInvariant, NoOldIntents, Finalizing, RowsInEpoch
  <2>b. ASSUME NEW w \in DOMAIN intents PROVE FALSE
    <3>1. ns.epoch > ns.epoch
      BY <2>3, <2>a
    <3> QED BY <2>3, <3>1
  <2>4. DOMAIN intents = {}
    BY <2>b
  <2> QED BY <2>1, <2>4 DEF LedgerMoves
<1>8. SettledEmpty'
  BY <1>7 DEF SettledEmpty, SameEpoch
<1>9. CompleteOver'
  BY <1>0 DEF CompleteOver, SameEpoch
<1> QED BY <1>1, <1>6, <1>8, <1>9 DEF PurgeInvariant

\* A request about a purge that leaves the namespace alone.
LEMMA DriverStays ==
  ASSUME PurgeInvariant, CoverInvariant', GenKept, WritesKept, NEW d \in Drivers, SameEpoch, LedgerMoves,
         NEW r, driver' = [driver EXCEPT ![d] = r], r.pc # "settling" \/ ledger' = {},
         \A p \in Purges : purges'[p].state = "COMPLETE" => purges[p].state = "COMPLETE" \/ p # ns.purge
  PROVE  PurgeInvariant'
<1>1. Has(driver, Drivers)
  BY DEF PurgeInvariant, CoverInvariant, EpochInvariant, PurgeShapes
<1>2. driver'[d] = r /\ \A e \in Drivers \ {d} : driver'[e] = driver[e]
  BY <1>1 DEF Has
<1>3. \A e \in Drivers : driver'[e].pc = "settling" =>
          (driver[e].pc = "settling" /\ driver'[e].purge = driver[e].purge) \/ ledger' = {}
  BY <1>2
<1> QED BY <1>3, EpochStays

\* The purge row that a request about it changes.
LEMMA OnePurge ==
  ASSUME PurgeInvariant, NEW p, NEW state, state # "COMPLETE", purges' = [purges EXCEPT ![p].state = state]
  PROVE  \A q \in Purges : purges'[q].state = "COMPLETE" => purges[q].state = "COMPLETE" \/ q # ns.purge
<1>1. Has(purges, Purges) /\ \A q \in Purges : Has(purges[q], PurgeFields)
  BY DEF PurgeInvariant, CoverInvariant, EpochInvariant, PurgeShapes, PurgeShape
<1>2. \A q \in Purges : q # p => purges'[q] = purges[q]
  BY <1>1 DEF Has
<1>3. p \in Purges => purges'[p].state = state
  BY <1>1 DEF Has, PurgeFields
<1> QED BY <1>2, <1>3

\* The first transaction of a purge.
LEMMA StartKeeps ==
  ASSUME PurgeInvariant, CoverInvariant', NEW d \in Drivers, NEW p \in Purges, StartPurge(d, p) PROVE PurgeInvariant'
<1>0. /\ CoverInvariant /\ RowsInEpoch /\ WritesInEpoch /\ CompleteOver
      /\ Has(ns, NsFields) /\ Has(driver, Drivers) /\ Has(purges, Purges) /\ Has(purges[p], PurgeFields)
  BY DEF PurgeInvariant, CoverInvariant, EpochInvariant, PurgeShapes, NsShape, PurgeShape
<1>1. /\ ns' = [ns EXCEPT !.state = "PURGING", !.purge = p] /\ purges[p].state = "NONE"
      /\ ledger' = Condemned(p, ns.epoch, {"LIVE", "PURGE_PENDING", "PURGE_BLOCKED"})
      /\ driver' = [driver EXCEPT ![d] = [IdleDriver EXCEPT !.pc = "locking", !.purge = p]]
      /\ purges' = [purges EXCEPT ![p] = [purges[p] EXCEPT !.state = "RUNNING", !.epoch = ns.epoch]]
      /\ UNCHANGED <<ops, intents>>
  BY DEF StartPurge
<1>2. ns'.state = "PURGING" /\ ns'.purge = p /\ ns'.epoch = ns.epoch /\ p # Nil
  BY <1>0, <1>1, PurgeAssumption DEF Has, NsFields
<1>3. ns.epoch \in Nat
  BY <1>0 DEF CoverInvariant, EpochInvariant, PurgeShapes
<1>4. \A l \in ledger' : \E m \in ledger : l = [m EXCEPT !.state = "PURGE_PENDING", !.purge = p]
  <2> DEFINE To(m) == [m EXCEPT !.state = "PURGE_PENDING", !.purge = p]
  <2>1. \A m \in ledger : m.epoch <= ns.epoch /\ m.state \in {"LIVE", "PURGE_PENDING", "PURGE_BLOCKED"}
    BY <1>0, <1>3 DEF RowsInEpoch, LedgerStates
  <2>2. ledger' = {IF m.epoch <= ns.epoch /\ m.state \in {"LIVE", "PURGE_PENDING", "PURGE_BLOCKED"} THEN To(m) ELSE m : m \in ledger}
    BY <1>1 DEF Condemned
  <2> HIDE DEF To
  <2>3. \A l \in ledger' : \E m \in ledger : l = To(m)
    BY <2>1, <2>2
  <2> QED BY <2>3 DEF To
<1>5. \A m \in ledger : Has(m, LedgerFields)
  BY <1>0 DEF CoverInvariant, WriteShapes
<1>6. \A l \in ledger' : /\ l.state = "PURGE_PENDING" /\ l.purge = p
                         /\ \E m \in ledger : l.write = m.write /\ l.epoch = m.epoch
  BY <1>4, <1>5 DEF Has, LedgerFields
<1>7. RowsInEpoch'
  BY <1>0, <1>1, <1>2, <1>6 DEF RowsInEpoch, LedgerStates, Active
<1>8. WritesInEpoch'
  BY <1>0, <1>1, <1>2, <1>6 DEF WritesInEpoch
<1>9. SettledEmpty'
  <2>1. [IdleDriver EXCEPT !.pc = "locking", !.purge = p].pc = "locking"
    BY DEF IdleDriver
  <2>2. driver'[d].pc = "locking" /\ \A e \in Drivers \ {d} : driver'[e] = driver[e]
    BY <1>0, <1>1, <2>1 DEF Has
  <2>3. \A e \in Drivers : driver[e].pc = "settling" => driver[e].purge # p
    BY <1>0, <1>1 DEF CoverInvariant, EpochInvariant, DriversStarted
  <2> QED BY <1>2, <2>2, <2>3 DEF SettledEmpty
<1>10. CompleteOver'
  <2>1. purges'[p].state = "RUNNING"
    BY <1>0, <1>1 DEF Has, PurgeFields
  <2> QED BY <1>2, <2>1 DEF CompleteOver
<1> QED BY <1>7, <1>8, <1>9, <1>10 DEF PurgeInvariant

\* The transaction that completes the purge under way finds both tables empty.
LEMMA FinishKeeps ==
  ASSUME PurgeInvariant, CoverInvariant', NEW d \in Drivers, FinalizeComplete(d), driver[d].purge = ns.purge
  PROVE  PurgeInvariant'
<1>0. CoverInvariant /\ RowsInEpoch /\ SettledEmpty
  BY DEF PurgeInvariant
<1>1. driver[d].pc = "settling" /\ UNCHANGED <<intents, ledger>> /\ ns'.state = "ACTIVE" /\ ns'.purge = Nil
  BY DEF FinalizeComplete
<1>2. ledger = {} /\ ns.purge \in Purges
  BY <1>0, <1>1 DEF SettledEmpty, CoverInvariant, EpochInvariant, DriversStarted
<1>3. purges[ns.purge].epoch = ns.epoch /\ ns.epoch \in Nat
  BY <1>0, <1>2, PurgeAssumption DEF CoverInvariant, EpochInvariant, PurgeEpochs, PurgeShapes
<1>4. \A w \in DOMAIN intents : intents[w].epoch > purges[ns.purge].epoch /\ intents[w].epoch = ns.epoch
  BY <1>0, <1>1 DEF CoverInvariant, NoOldIntents, Finalizing, RowsInEpoch
<1>5. ASSUME NEW w \in DOMAIN intents PROVE FALSE
  <2>1. ns.epoch > ns.epoch
    BY <1>3, <1>4
  <2> QED BY <1>3, <2>1
<1> QED BY <1>1, <1>2, <1>5, PurgeAssumption DEF PurgeInvariant, RowsInEpoch, WritesInEpoch, SettledEmpty, CompleteOver

\* A finalizer reads its targets.
LEMMA TargetsKeep ==
  ASSUME PurgeInvariant, CoverInvariant', GenKept, WritesKept, NEW d \in Drivers, ReadTargets(d) PROVE PurgeInvariant'
<1>0. CoverInvariant /\ RowsInEpoch /\ Has(driver[d], DriverFields)
  BY DEF PurgeInvariant, CoverInvariant, EpochInvariant, PurgeShapes, DriverShape
<1>1. PICK p, e : p = driver[d].purge /\ e = purges[p].epoch
  OBVIOUS
<1>2. /\ driver[d].pc = "scanned" /\ ledger' = Condemned(p, e, {"LIVE"}) /\ UNCHANGED ns
      /\ \/ {l.state : l \in {m \in ledger' : m.purge = p}} = {} /\ Drive(d, "settling") /\ UNCHANGED purges
         \/ /\ purges' = [purges EXCEPT ![p].state = "BLOCKED"] \/ UNCHANGED purges
            /\ Finalized(d)
  BY <1>1 DEF ReadTargets
<1>3. p \in Purges /\ purges[p].state # "NONE" /\ e \in Nat /\ ns.epoch \in Nat
  BY <1>0, <1>1, <1>2 DEF CoverInvariant, EpochInvariant, DriversStarted, PurgeShapes
<1>4. p # ns.purge => ledger' = ledger
  <2>1. p # ns.purge => e < ns.epoch
    BY <1>0, <1>1, <1>3 DEF CoverInvariant, EpochInvariant, PurgeEpochs
  <2>2. p # ns.purge => \A l \in ledger : ~ (l.epoch <= e)
    BY <1>0, <1>3, <2>1 DEF RowsInEpoch
  <2> QED BY <1>2, <2>2 DEF Condemned
<1>5. p = ns.purge => ~ Active /\ ns.state = "PURGING"
  BY <1>0, <1>3, PurgeAssumption DEF CoverInvariant, EpochInvariant, PurgeEpochs, RowsInEpoch, Active
<1>6. \A m \in ledger : LET l == [m EXCEPT !.state = "PURGE_PENDING", !.purge = p]
                        IN  l.state = "PURGE_PENDING" /\ l.purge = p /\ l.write = m.write /\ l.epoch = m.epoch
  BY <1>0 DEF CoverInvariant, WriteShapes, Has, LedgerFields
<1>7. p = ns.purge => \A l \in ledger' : /\ l.state \in LedgerStates /\ l.purge = p
                                         /\ \E m \in ledger : m.write = l.write /\ m.epoch = l.epoch
  <2> DEFINE To(m) == [m EXCEPT !.state = "PURGE_PENDING", !.purge = p]
  <2>1. ledger' = {IF m.epoch <= e /\ m.state \in {"LIVE"} THEN To(m) ELSE m : m \in ledger}
    BY <1>2 DEF Condemned
  <2>2. \A m \in ledger : To(m).state = "PURGE_PENDING" /\ To(m).purge = p /\ To(m).write = m.write /\ To(m).epoch = m.epoch
    BY <1>6
  <2> HIDE DEF To
  <2>3. \A l \in ledger' : \E m \in ledger : l = To(m) \/ l = m
    BY <2>1
  <2>4. p = ns.purge => \A m \in ledger : m.purge = p /\ m.state \in LedgerStates
    BY <1>0, <1>5 DEF RowsInEpoch
  <2> QED BY <2>2, <2>3, <2>4 DEF LedgerStates
<1>8. LedgerMoves
  <2>1. CASE p = ns.purge
    BY <1>5, <1>7, <2>1 DEF LedgerMoves
  <2>2. CASE p # ns.purge
    BY <1>4, <2>2, LedgerShrinks
  <2> QED BY <2>1, <2>2
<1>9. SameEpoch
  BY <1>2 DEF SameEpoch
<1>a. \A q \in Purges : purges'[q].state = "COMPLETE" => purges[q].state = "COMPLETE" \/ q # ns.purge
  <2>1. CASE purges' = [purges EXCEPT ![p].state = "BLOCKED"]
    BY <2>1, OnePurge
  <2> QED BY <1>2, <2>1
<1>10. CASE Finalized(d)
  <2> DEFINE q == [driver[d] EXCEPT !.pc = "listing", !.round = 1, !.intents = {}, !.counted = 0]
  <2>1. driver' = [driver EXCEPT ![d] = q] \/ driver' = [driver EXCEPT ![d] = IdleDriver]
    BY <1>10 DEF Finalized
  <2>2. q.pc = "listing" /\ IdleDriver.pc = "idle"
    BY <1>0 DEF Has, DriverFields, IdleDriver
  <2> HIDE DEF q
  <2> QED BY <1>8, <1>9, <1>a, <2>1, <2>2, DriverStays
<1>11. CASE {l.state : l \in {m \in ledger' : m.purge = p}} = {} /\ Drive(d, "settling") /\ UNCHANGED purges
  <2>1. \A l \in ledger' : l.purge # p
    BY <1>11
  <2>2. CASE p = ns.purge
    <3>1. ledger' = {}
      BY <1>7, <2>1, <2>2
    <3> DEFINE q == [driver[d] EXCEPT !.pc = "settling"]
    <3>2. driver' = [driver EXCEPT ![d] = q]
      BY <1>11 DEF Drive
    <3> HIDE DEF q
    <3> QED BY <1>8, <1>9, <1>a, <3>1, <3>2, DriverStays
  <2>3. CASE p # ns.purge
    <3>1. Has(driver, Drivers)
      BY <1>0 DEF CoverInvariant, EpochInvariant, PurgeShapes
    <3>2. driver'[d].purge = p /\ \A x \in Drivers \ {d} : driver'[x] = driver[x]
      BY <1>0, <1>1, <1>11, <3>1 DEF Drive, Has, DriverFields
    <3>3. driver'[d].purge # ns'.purge
      BY <1>2, <2>3, <3>2
    <3>4. SettledEmpty'
      BY <1>2, <1>4, <2>3, <3>2, <3>3 DEF SettledEmpty, PurgeInvariant
    <3>5. UNCHANGED ops
      BY DEF ReadTargets
    <3>6. UNCHANGED intents
      BY DEF ReadTargets
    <3>7. RowsInEpoch' /\ WritesInEpoch' /\ CompleteOver'
      BY <1>2, <1>4, <1>11, <2>3, <3>5, <3>6 DEF RowsInEpoch, WritesInEpoch, CompleteOver, PurgeInvariant, Active
    <3> QED BY <3>4, <3>7 DEF PurgeInvariant
  <2> QED BY <2>2, <2>3
<1> QED BY <1>2, <1>10, <1>11

(* Every step of a driver keeps the invariant: StartPurge and FinalizeComplete move
   the epoch. *)
LEMMA DriverKeepsPurge ==
  ASSUME PurgeInvariant, CoverInvariant', GenKept, WritesKept, NEW d \in Drivers, DriverStep(d) PROVE PurgeInvariant'
<1>0. CoverInvariant /\ RowsInEpoch /\ Has(driver[d], DriverFields)
  BY DEF PurgeInvariant, CoverInvariant, EpochInvariant, PurgeShapes, DriverShape
<1>a. ASSUME NextTarget(d) PROVE \E r : driver' = [driver EXCEPT ![d] = r] /\ r.pc # "settling"
  <2>1. PICK q : q = [driver[d] EXCEPT !.pc = IF driver[d].todo \ {driver[d].victim} = {} THEN "locking" ELSE "driving",
                                       !.todo = driver[d].todo \ {driver[d].victim}, !.victim = Nil]
    OBVIOUS
  <2>2. q.pc \in {"locking", "driving"}
    BY <1>0, <2>1 DEF Has, DriverFields
  <2>3. driver' = [driver EXCEPT ![d] = q]
    BY <1>a, <2>1 DEF NextTarget
  <2> QED BY <2>2, <2>3
<1>b. ASSUME Finalized(d) PROVE \E r : driver' = [driver EXCEPT ![d] = r] /\ r.pc # "settling"
  <2>1. PICK q : q = [driver[d] EXCEPT !.pc = "listing", !.round = 1, !.intents = {}, !.counted = 0]
    OBVIOUS
  <2>2. q.pc = "listing" /\ IdleDriver.pc = "idle"
    BY <1>0, <2>1 DEF Has, DriverFields, IdleDriver
  <2>3. driver' = [driver EXCEPT ![d] = q] \/ driver' = [driver EXCEPT ![d] = IdleDriver]
    BY <1>b, <2>1 DEF Finalized
  <2> QED BY <2>2, <2>3
<1>1. ASSUME NEW p \in Purges, StartPurge(d, p) PROVE PurgeInvariant'
  BY <1>1, StartKeeps
<1>2. CASE FinalizeComplete(d) /\ driver[d].purge = ns.purge
  BY <1>2, FinishKeeps
<1>3. CASE FinalizeComplete(d) /\ driver[d].purge # ns.purge
  <2>1. PICK p : p = driver[d].purge
    OBVIOUS
  <2>2. /\ UNCHANGED <<ns, ledger>> /\ driver' = [driver EXCEPT ![d] = IdleDriver]
        /\ purges' = [purges EXCEPT ![p].state = "COMPLETE"]
    BY <1>3, <2>1 DEF FinalizeComplete
  <2>3. \A q \in Purges : q # p => purges'[q] = purges[q]
    BY <2>2 DEF PurgeInvariant, CoverInvariant, EpochInvariant, PurgeShapes, Has
  <2>4. \A q \in Purges : purges'[q].state = "COMPLETE" => purges[q].state = "COMPLETE" \/ q # ns.purge
    BY <1>3, <2>1, <2>3
  <2>5. SameEpoch /\ LedgerMoves /\ IdleDriver.pc = "idle"
    BY <2>2, LedgerShrinks DEF SameEpoch, IdleDriver
  <2> QED BY <2>2, <2>4, <2>5, DriverStays
<1>4. CASE ReadTargets(d)
  BY <1>4, TargetsKeep
<1>5. CASE FinalizeBlocked(d)
  <2>1. PICK p : p = driver[d].purge
    OBVIOUS
  <2>2. UNCHANGED <<ns, ledger>> /\ purges' = [purges EXCEPT ![p].state = "BLOCKED"]
    BY <1>5, <2>1 DEF FinalizeBlocked, writeVars
  <2>3. PICK r : driver' = [driver EXCEPT ![d] = r] /\ r.pc # "settling"
    BY <1>5, <1>b DEF FinalizeBlocked
  <2>4. SameEpoch /\ LedgerMoves
    BY <2>2, LedgerShrinks DEF SameEpoch
  <2>5. \A q \in Purges : purges'[q].state = "COMPLETE" => purges[q].state = "COMPLETE" \/ q # ns.purge
    BY <2>2, OnePurge
  <2> QED BY <2>3, <2>4, <2>5, DriverStays
<1>6. CASE MarkPurgeTargetBlocked(d)
  <2>1. PICK p, v : p = driver[d].purge /\ v = driver[d].victim
    OBVIOUS
  <2>2. /\ UNCHANGED ns /\ purges' = [purges EXCEPT ![p].state = "BLOCKED"] /\ NextTarget(d)
        /\ ledger' = {IF l.write = v.write /\ l.n = v.n /\ l.purge = p
                      THEN [l EXCEPT !.state = "PURGE_BLOCKED"] ELSE l : l \in ledger}
    BY <1>6, <2>1 DEF MarkPurgeTargetBlocked
  <2> DEFINE To(m) == [m EXCEPT !.state = "PURGE_BLOCKED"]
  <2>3. \A m \in ledger : To(m).state = "PURGE_BLOCKED" /\ To(m).purge = m.purge /\ To(m).write = m.write /\ To(m).epoch = m.epoch
    BY <1>0 DEF CoverInvariant, WriteShapes, Has, LedgerFields
  <2>4. \A l \in ledger' : \E m \in ledger : l = To(m) \/ l = m
    BY <2>2
  <2> HIDE DEF To
  <2>5. LedgerMoves
    BY <1>0, <2>3, <2>4 DEF LedgerMoves, RowsInEpoch, LedgerStates
  <2>6. PICK r : driver' = [driver EXCEPT ![d] = r] /\ r.pc # "settling"
    BY <1>a, <2>2
  <2>7. SameEpoch
    BY <2>2 DEF SameEpoch
  <2>8. \A q \in Purges : purges'[q].state = "COMPLETE" => purges[q].state = "COMPLETE" \/ q # ns.purge
    BY <2>2, OnePurge
  <2> QED BY <2>5, <2>6, <2>7, <2>8, DriverStays
<1>7. CASE MarkPurgeTargetDeleted(d)
  <2>1. PICK p, n : /\ p = driver[d].purge
                    /\ purges' = purges \/ purges' = [purges EXCEPT ![p] = [@ EXCEPT !.state = "RUNNING", !.deleted = n]]
    BY <1>7 DEF MarkPurgeTargetDeleted
  <2>2. UNCHANGED ns /\ ledger' \subseteq ledger /\ NextTarget(d) /\ driver[d].pc = "deleted"
    BY <1>7 DEF MarkPurgeTargetDeleted
  <2>3. PICK r : driver' = [driver EXCEPT ![d] = r] /\ r.pc # "settling"
    BY <1>a, <2>2
  <2>4. SameEpoch /\ LedgerMoves
    BY <2>2, LedgerShrinks DEF SameEpoch
  <2>5. Has(purges, Purges) /\ p \in Purges /\ Has(purges[p], PurgeFields)
    BY <1>0, <2>1, <2>2 DEF CoverInvariant, EpochInvariant, PurgeShapes, PurgeShape, DriversStarted
  <2>6. \A q \in Purges : purges'[q].state = "COMPLETE" => purges[q].state = "COMPLETE"
    <3>1. CASE purges' = [purges EXCEPT ![p] = [@ EXCEPT !.state = "RUNNING", !.deleted = n]]
      <4>1. \A q \in Purges : q # p => purges'[q] = purges[q]
        BY <2>5, <3>1 DEF Has
      <4>2. purges'[p].state = "RUNNING"
        BY <2>5, <3>1 DEF Has, PurgeFields
      <4> QED BY <4>1, <4>2
    <3> QED BY <2>1, <3>1
  <2> QED BY <2>3, <2>4, <2>6, DriverStays
<1>8. ASSUME \/ \E p \in Purges : QueryPurge(d, p)
             \/ ReadIntents(d) \/ PurgeTargets(d) \/ DriverCrash(d) \/ \E v \in driver[d].todo : DeleteTarget(d, v)
      PROVE  PurgeInvariant'
  <2>1. UNCHANGED <<ns, ledger, purges>>
    BY <1>8 DEF QueryPurge, ReadIntents, PurgeTargets, DriverCrash, DeleteTarget, writeVars
  <2>2. SameEpoch /\ LedgerMoves
    BY <2>1, LedgerShrinks DEF SameEpoch
  <2>3. PICK r : DriverTo(d, r)
    <3>1. WorkJournaled
      BY DriverWrites DEF PurgeInvariant
    <3> QED BY <1>0, <3>1, DriverMoves
  <2>4. driver' = [driver EXCEPT ![d] = r]
    BY <2>3 DEF DriverTo
  <2>5. r.pc # "settling"
    <3>0. Has(driver, Drivers) /\ driver'[d] = r
      BY <1>0, <2>4 DEF CoverInvariant, EpochInvariant, PurgeShapes, Has
    <3>1. ASSUME NEW p \in Purges, QueryPurge(d, p) PROVE driver'[d].pc = "locking"
      BY <3>0, <3>1 DEF QueryPurge, Has, IdleDriver
    <3>2. CASE ReadIntents(d)
      <4>1. PICK S : \/ driver' = [driver EXCEPT ![d] = IdleDriver]
                     \/ driver' = [driver EXCEPT ![d] = [@ EXCEPT !.pc = "scanned", !.intents = S]]
        BY <3>2 DEF ReadIntents
      <4>a. driver'[d] = IdleDriver \/ driver'[d] = [driver[d] EXCEPT !.pc = "scanned", !.intents = S]
        BY <3>0, <4>1 DEF Has
      <4>2. [driver[d] EXCEPT !.pc = "scanned", !.intents = S].pc = "scanned"
        BY <1>0 DEF Has, DriverFields
      <4>3. IdleDriver.pc = "idle"
        BY DEF IdleDriver
      <4> QED BY <3>0, <4>a, <4>2, <4>3
    <3>3. CASE PurgeTargets(d)
      <4>1. PICK S, pc : pc \in {"locking", "driving"} /\ driver' = [driver EXCEPT ![d] = [@ EXCEPT !.pc = pc, !.todo = S]]
        BY <3>3 DEF PurgeTargets
      <4>a. driver'[d] = [driver[d] EXCEPT !.pc = pc, !.todo = S]
        BY <3>0, <4>1 DEF Has
      <4>2. driver'[d].pc \in {"locking", "driving"}
        BY <1>0, <4>1, <4>a DEF Has, DriverFields
      <4> QED BY <3>0, <4>2
    <3>4. CASE DriverCrash(d)
      BY <3>0, <3>4 DEF DriverCrash, IdleDriver
    <3>5. ASSUME NEW v, DeleteTarget(d, v) PROVE driver'[d].pc # "settling"
      <4>1. PICK pc \in {"deleted", "refused"} : driver' = [driver EXCEPT ![d] = [@ EXCEPT !.pc = pc, !.victim = v]]
        BY <3>5 DEF DeleteTarget
      <4>2. driver'[d].pc = pc
        BY <1>0, <3>0, <4>1 DEF Has, DriverFields
      <4> QED BY <4>2
    <3> QED BY <1>8, <3>0, <3>1, <3>2, <3>3, <3>4, <3>5
  <2> QED BY <2>1, <2>2, <2>4, <2>5, DriverStays
<1>9. CASE FinalizeCounts(d)
  <2>1. UNCHANGED <<ns, ledger, purges>> /\ driver' = [driver EXCEPT ![d].counted = driver[d].counted + 1]
    BY <1>9 DEF FinalizeCounts, writeVars
  <2>2. SameEpoch /\ LedgerMoves
    BY <2>1, LedgerShrinks DEF SameEpoch
  <2>3. Has(driver, Drivers)
    BY <1>0 DEF CoverInvariant, EpochInvariant, PurgeShapes
  <2>4. \A e \in Drivers : driver'[e].pc = driver[e].pc /\ driver'[e].purge = driver[e].purge
    BY <1>0, <2>1, <2>3 DEF Has, DriverFields
  <2> QED BY <2>1, <2>2, <2>4, EpochStays
<1> QED BY <1>1, <1>2, <1>3, <1>4, <1>5, <1>6, <1>7, <1>8, <1>9 DEF DriverStep

\* The ledger is empty at the start.
LEMMA PurgeInitially == ASSUME ManagedInit PROVE PurgeInvariant
<1>1. CoverInvariant
  BY CoverInitially
<1>2. /\ ns.state = "ACTIVE" /\ intents = <<>> /\ ledger = {}
      /\ driver = [d \in Drivers |-> IdleDriver]
      /\ purges = [p \in Purges |-> [state |-> "NONE", epoch |-> 0, deleted |-> 0]]
  BY DEF ManagedInit, Init, PurgeInit
<1>3. DOMAIN intents = {}
  BY <1>2
<1>4. RowsInEpoch /\ WritesInEpoch /\ SettledEmpty
  BY <1>2, <1>3 DEF RowsInEpoch, WritesInEpoch, SettledEmpty, Active
<1>5. CompleteOver
  BY <1>2 DEF CompleteOver
<1> QED BY <1>1, <1>4, <1>5 DEF PurgeInvariant

\* Every step of the authority keeps what a purge relies on.
LEMMA PurgeStep == ASSUME PurgeInvariant, [ManagedNext]_managedVars PROVE PurgeInvariant'
<1>0. CoverInvariant /\ NsShape
  BY DEF PurgeInvariant, CoverInvariant, EpochInvariant, PurgeShapes
<1>1. CoverInvariant' /\ GenKept
  BY <1>0, CoverStep, GenStep DEF CoverInvariant
<1>2. WritesKept
  BY <1>0, <1>1, StepWrites DEF CoverInvariant
<1>3. CASE SameEpoch /\ LedgerMoves /\ UNCHANGED <<purges, driver>>
  BY <1>1, <1>2, <1>3, EpochStays
<1>4. CASE (WriteStep \/ RepairStep) /\ UNCHANGED purgeVars
  BY <1>0, <1>3, <1>4, StepLedger, WritesKeepNamespace DEF SameEpoch, purgeVars
<1>5. ASSUME NEW u \in Uploads, MultipartStep(u) PROVE UNCHANGED <<ns, purges, driver>>
  BY <1>5 DEF MultipartStep, BeginMultipartActivity, CreateUpload, ConfirmMultipartActivity, WithdrawUpload,
     FinishMultipartActivity, RetireUpload, CreatorCrash, ExpireRegistration, ReconcileMultipartActivity, writeVars
<1>6. CASE \E u \in Uploads : MultipartStep(u)
  BY <1>3, <1>5, <1>6, StepLedger DEF SameEpoch
<1>7. CASE UNCHANGED managedVars
  BY <1>3, <1>7, StepLedger DEF SameEpoch, managedVars, writeVars, purgeVars
<1>8. ASSUME NEW d \in Drivers, DriverStep(d) PROVE PurgeInvariant'
  BY <1>1, <1>2, <1>8, DriverKeepsPurge
<1> QED BY <1>4, <1>6, <1>7, <1>8 DEF ManagedNext, purgeVars

(* What a request writes is of the epoch of the namespace as long as a provider
   holds it, so no version that a request wrote before a purge outlives its
   completion (finalize_purge_if_ready). *)
VersionsInEpoch == \A v \in prov : v.write.by = "PUT" => ops[v.write.gen].epoch = ns.epoch

\* VersionsInEpoch for every number of requests, workers, purges and versions.
THEOREM VersionsOfEpoch == ManagedSpec => []VersionsInEpoch
<1>1. PurgeInvariant => VersionsInEpoch
  BY DEF PurgeInvariant, CoverInvariant, Accounted, InLedger, Pending, WritesInEpoch, VersionsInEpoch
<1>2. ManagedInit => PurgeInvariant
  BY PurgeInitially
<1>3. PurgeInvariant /\ [ManagedNext]_managedVars => PurgeInvariant'
  BY PurgeStep
<1> QED BY <1>1, <1>2, <1>3, PTL DEF ManagedSpec

(* PurgeErases wherever requests wrote all the versions there are, for any
   number of requests about any number of purges.  A repair worker that copies a
   generation of the purged epoch after its completion is what the condition
   leaves out: the code lets it. *)
THEOREM PurgesErase == ManagedSpec => []((\A v \in prov : v.write.by = "PUT") => PurgeErases)
<1>1. ASSUME PurgeInvariant, \A v \in prov : v.write.by = "PUT" PROVE PurgeErases
  <2>1. VersionsInEpoch
    BY <1>1 DEF PurgeInvariant, CoverInvariant, Accounted, InLedger, Pending, WritesInEpoch, VersionsInEpoch
  <2>2. ASSUME NEW p \in Purges, purges[p].state = "COMPLETE" PROVE purges[p].epoch < ns.epoch
    BY <1>1, <2>2 DEF PurgeInvariant, CompleteOver, CoverInvariant, EpochInvariant, PurgeEpochs
  <2>3. ns.epoch \in Nat /\ \A p \in Purges : purges[p].epoch \in Nat
    BY <1>1 DEF PurgeInvariant, CoverInvariant, EpochInvariant, PurgeShapes
  <2> QED BY <1>1, <2>1, <2>2, <2>3 DEF VersionsInEpoch, PurgeErases
<1>2. ManagedInit => PurgeInvariant
  BY PurgeInitially
<1>3. PurgeInvariant /\ [ManagedNext]_managedVars => PurgeInvariant'
  BY PurgeStep
<1> QED BY <1>1, <1>2, <1>3, PTL DEF ManagedSpec

-----------------------------------------------------------------------------
(* CAS versions and placement versions *)

\* A placement version that a gateway was started with.
Recorded(v) == v \in Nat /\ v <= config

\* Every repair row names a recorded version.
VersionsOK(rs) == \A key \in RepairKeys : Recorded(rs[key].version)

(* Whatever names a placement version names one that was recorded, and the
   authority rows count their CAS versions. *)
PlacementKnown ==
    /\ config \in Nat
    /\ \A o \in Ops : /\ Recorded(ops[o].version)
                      /\ put[o].pc \in {"read", "fenced"} => put[o].key \in Keys
                      /\ ops[o].state # "NONE" => ops[o].key \in Keys
    /\ \A k \in Keys : auth[k] # Nil => auth[k].cas \in Nat /\ Recorded(auth[k].version)
    /\ VersionsOK(repairs)
    /\ \A i \in Workers : Recorded(worker[i].row.version)
    /\ Recorded(survey.version) /\ (survey.legs # {} => Recorded(survey.row.version))

\* The inductive invariant of this section.
ForwardInvariant == GenInvariant /\ PlacementKnown

\* What a step may do to the authority row of a key: PlacementForward, and the
\* versions stay recorded.
Forward(a, b) ==
    /\ b # Nil => b.cas \in Nat /\ Recorded(b.version)
    /\ a # Nil /\ b \notin {Nil, a} => b.cas > a.cas /\ (b.gen = a.gen => b.version >= a.version)
AuthForward == \A k \in Keys : Forward(auth[k], auth'[k])

\* The rows that the helpers of the repository insert name the version they are given.
LEMMA CopyVersion ==
  ASSUME NEW a, NEW source, NEW role, NEW version, NEW epoch
  PROVE  CopyRepair(a, source, role, version, epoch).version = version
  BY DEF CopyRepair, NoRepair

\* Inserting a repair row of a recorded version keeps VersionsOK.
LEMMA InsertVersions ==
  ASSUME NEW rs, RowsOK(rs), VersionsOK(rs), NEW key, NEW row, Has(row, RepairFields), Recorded(row.version)
  PROVE  VersionsOK(InsertRepair(rs, key, row))
<1> DEFINE old == [row EXCEPT !.attempts = rs[key].attempts, !.token = rs[key].token]
           to == InsertRepair(rs, key, row)
<1>1. old.version = row.version
  BY DEF Has, RepairFields
<1> HIDE DEF old
<1>2. to = [rs EXCEPT ![key] = row] \/ to = [rs EXCEPT ![key] = old] \/ to = rs
  BY DEF InsertRepair, old
<1>3. \A k \in RepairKeys : to[k] \in {rs[k], row, old}
  <2> HIDE DEF to
  <2> QED BY <1>2 DEF RowsOK, Has
<1> HIDE DEF to
<1>4. VersionsOK(to)
  BY <1>1, <1>3 DEF VersionsOK
<1> QED BY <1>4 DEF to

\* So does inserting the cleanup rows of a set of copies.
LEMMA CleanupVersions ==
  ASSUME NEW rs, RowsOK(rs), VersionsOK(rs), NEW a, NEW ledgered, NEW epoch, Recorded(a.version)
  PROVE  VersionsOK(WithCleanups(rs, a, ledgered, epoch))
<1> DEFINE to == WithCleanups(rs, a, ledgered, epoch)
           row == CopyRepair(a, Nil, "CLEANUP", a.version, epoch)
<1>1. Has(row, RepairFields) /\ row.version = a.version
  BY CopyRepairRow, CopyVersion
<1> HIDE DEF row
<1>2. \A key \in RepairKeys : to[key] = rs[key] \/ to[key] = InsertRepair(rs, key, row)[key]
  BY DEF WithCleanups, row
<1> HIDE DEF to
<1>3. \A key \in RepairKeys : VersionsOK(InsertRepair(rs, key, row))
  BY <1>1, InsertVersions
<1>4. VersionsOK(to)
  BY <1>2, <1>3 DEF VersionsOK
<1> QED BY <1>4 DEF to

\* And inserting the rows of a publication.
LEMMA PublicationVersions ==
  ASSUME NEW rs, RowsOK(rs), VersionsOK(rs), NEW a, NEW epoch, Recorded(a.version)
  PROVE  VersionsOK(WithPublication(rs, a, epoch))
<1> DEFINE row == CopyRepair(a, a.primary, "REPLICA", a.version, epoch)
           key == <<"REPLICA", a.gen, a.replica>>
<1>1. Has(row, RepairFields) /\ row.version = a.version
  BY CopyRepairRow, CopyVersion
<1> HIDE DEF row, key
<1>2. VersionsOK(InsertRepair(rs, key, row))
  BY <1>1, InsertVersions
<1> QED BY <1>2 DEF WithPublication, row, key

\* And inserting the cleanup rows of the authority row that a write supersedes.
LEMMA SupersedingVersions ==
  ASSUME NEW rs, RowsOK(rs), VersionsOK(rs), NEW k, NEW epoch, auth[k] # Nil => Recorded(auth[k].version)
  PROVE  VersionsOK(Superseding(rs, k, epoch))
  BY CleanupVersions DEF Superseding

\* And the cleanup of the copies that a placement no longer names.
LEMMA PlacementCleanupVersions ==
  ASSUME NEW rs, RowsOK(rs), VersionsOK(rs), NEW old, NEW a, NEW version, NEW epoch, Recorded(version)
  PROVE  VersionsOK(WithPlacementCleanups(rs, old, a, version, epoch))
<1> DEFINE row == CopyRepair(old, Nil, "CLEANUP", version, epoch)
           late == [row EXCEPT !.state = "WAITING_CUTOVER"]
           waiting == [key \in RepairKeys |->
               IF /\ key[1] = "DELETE_GENERATION" /\ key[2] = old.gen
                  /\ key[3] \in AbandonedLocations(old, a)
               THEN InsertWaiting(rs, key, row)[key]
               ELSE rs[key]]
<1>1. Has(row, RepairFields) /\ row.version = version
  BY CopyRepairRow, CopyVersion
<1> HIDE DEF row
<1>2. Has(late, RepairFields) /\ late.version = version
  BY <1>1 DEF Has, RepairFields
<1>3. \A key \in RepairKeys : InsertWaiting(rs, key, row) = rs \/ InsertWaiting(rs, key, row) = [rs EXCEPT ![key] = late]
  BY DEF InsertWaiting
<1>4. \A key \in RepairKeys : waiting[key] \in {rs[key], late}
  BY <1>3 DEF RowsOK, Has
<1> HIDE DEF waiting, late
<1>5. \A key \in RepairKeys : Recorded(waiting[key].version) /\ Has(waiting[key], RepairFields)
  BY <1>2, <1>4 DEF VersionsOK, RowsOK
<1>6. \A key \in RepairKeys : [waiting[key] EXCEPT !.state = "PENDING"].version = waiting[key].version
  BY <1>5 DEF Has, RepairFields
<1>7. \A key \in RepairKeys : ReleaseWaiting(waiting, old.gen, version)[key] \in {waiting[key], [waiting[key] EXCEPT !.state = "PENDING"]}
  BY DEF ReleaseWaiting
<1>8. VersionsOK(waiting) /\ VersionsOK(ReleaseWaiting(waiting, old.gen, version))
  BY <1>5, <1>6, <1>7 DEF VersionsOK
<1> QED BY <1>8 DEF WithPlacementCleanups, waiting, row

\* The initial state names placement version 0 only.
LEMMA ForwardInitially == ASSUME ManagedInit PROVE ForwardInvariant
<1>1. /\ ops = [o \in Ops |-> NoOp] /\ auth = [k \in Keys |-> Nil] /\ repairs = [key \in RepairKeys |-> NoRepair]
      /\ config = 1 /\ worker = [i \in Workers |-> IdleWorker] /\ survey = NoSurvey
      /\ \A o \in Ops : put[o].pc = "idle"
  BY DEF ManagedInit, Init, RepairInit
<1>2. NoOp.version = 0 /\ NoOp.state = "NONE" /\ NoRepair.version = 0 /\ NoSurvey.version = 0 /\ NoSurvey.legs = {}
  BY DEF NoOp, NoRepair, NoSurvey
<1>3. IdleWorker.row = NoRepair
  BY DEF IdleWorker
<1>4. Recorded(0) /\ config \in Nat
  BY <1>1 DEF Recorded
<1>5. VersionsOK(repairs)
  BY <1>1, <1>2, <1>4 DEF VersionsOK
<1>6. \A i \in Workers : Recorded(worker[i].row.version)
  BY <1>1, <1>2, <1>3, <1>4
<1>7. PlacementKnown
  BY <1>1, <1>2, <1>4, <1>5, <1>6 DEF PlacementKnown
<1> QED BY <1>7, GenInitially DEF ForwardInvariant

\* What a step may do to everything that names a placement version.
RowsForward ==
    /\ VersionsOK(repairs')
    /\ \A i \in Workers : Recorded(worker'[i].row.version)
    /\ Recorded(survey'.version) /\ (survey'.legs # {} => Recorded(survey'.row.version))

\* A step that does no more than that keeps the invariant.
LEMMA ForwardMoves ==
  ASSUME ForwardInvariant, GenInvariant', GenKept, AuthForward, RowsForward, config' \in Nat, config' >= config
  PROVE  ForwardInvariant'
<1>1. \A v : Recorded(v) => Recorded(v)'
  BY DEF Recorded, ForwardInvariant, PlacementKnown
<1>a. \A o \in Ops : /\ ops'[o].version \in {ops[o].version, config}
                     /\ Inserts(o, ops'[o]) /\ (Reads(o, put'[o]) \/ put'[o] = put[o])
  BY DEF GenKept
<1>2. \A o \in Ops : Recorded(ops'[o].version)
  BY <1>a DEF ForwardInvariant, PlacementKnown, Recorded
<1>3. \A o \in Ops : /\ put'[o].pc \in {"read", "fenced"} => put'[o].key \in Keys
                     /\ ops'[o].state # "NONE" => ops'[o].key \in Keys
  BY <1>a DEF Inserts, Reads, ForwardInvariant, PlacementKnown
<1>4. \A k \in Keys : auth'[k] # Nil => auth'[k].cas \in Nat /\ Recorded(auth'[k].version)
  BY DEF AuthForward, Forward
<1>5. PlacementKnown'
  BY <1>1, <1>2, <1>3, <1>4 DEF PlacementKnown, RowsForward, VersionsOK, Recorded
<1> QED BY <1>5 DEF ForwardInvariant

\* The tables stay.
LEMMA SameForward ==
  ASSUME ForwardInvariant
  PROVE  /\ UNCHANGED auth => AuthForward
         /\ UNCHANGED repairs => VersionsOK(repairs')
         /\ UNCHANGED worker => \A i \in Workers : Recorded(worker'[i].row.version)
         /\ UNCHANGED survey => Recorded(survey'.version) /\ (survey'.legs # {} => Recorded(survey'.row.version))
  BY DEF ForwardInvariant, PlacementKnown, AuthForward, Forward

\* The authority of one key moves on.
LEMMA OneForward ==
  ASSUME ForwardInvariant, NEW k \in Keys, NEW b, auth' = [auth EXCEPT ![k] = b], Forward(auth[k], b) PROVE AuthForward
<1>1. Has(auth, Keys)
  BY DEF ForwardInvariant, GenInvariant, GenShapes
<1>2. \A j \in Keys : auth'[j] = IF j = k THEN b ELSE auth[j]
  BY <1>1 DEF Has
<1>3. \A j \in Keys : Forward(auth[j], auth[j])
  BY DEF ForwardInvariant, PlacementKnown, Forward
<1> QED BY <1>2, <1>3 DEF AuthForward

\* The CAS version a commit publishes follows the one it has compared.
LEMMA NextCasGrows ==
  ASSUME ForwardInvariant, NEW k \in Keys
  PROVE  LET c == NextCas(CasAt(auth[k])) IN c \in Nat /\ (auth[k] # Nil => c > auth[k].cas)
  BY ManagedAssumption DEF ForwardInvariant, PlacementKnown, NextCas, CasAt

\* commit_logical_put and commit_logical_delete publish a new generation.
LEMMA CommitForward ==
  ASSUME ForwardInvariant, NEW o \in Ops, CommitLogicalPut(o) \/ CommitLogicalDelete(o)
  PROVE  AuthForward /\ VersionsOK(repairs')
<1>0. RowsOK(repairs) /\ VersionsOK(repairs)
  BY DEF ForwardInvariant, PlacementKnown, GenInvariant, GenShapes, RowsOK
<1>1. CASE UNCHANGED <<auth, repairs>>
  BY <1>1, SameForward
<1>2. ASSUME CanCommit(o)
      PROVE  /\ ops[o].key \in Keys /\ ops[o].cas = CasAt(auth[ops[o].key]) /\ Recorded(ops[o].version) /\ Recorded(config)
             /\ auth[ops[o].key] # Nil => auth[ops[o].key].gen # o /\ Recorded(auth[ops[o].key].version)
  <2>1. ops[o].state \notin {"NONE", "COMMITTED"} /\ ops[o].cas = CasAt(auth[ops[o].key])
    BY <1>2 DEF CanCommit
  <2>2. ops[o].key \in Keys /\ Recorded(ops[o].version) /\ Recorded(config)
    BY <2>1 DEF ForwardInvariant, PlacementKnown, Recorded
  <2> QED BY <2>1, <2>2 DEF ForwardInvariant, PlacementKnown, GenInvariant, ShownCommitted
<1>3. ASSUME CanCommit(o), NEW b, b.gen = o, Recorded(b.version), b.cas = NextCas(ops[o].cas)
      PROVE  Forward(auth[ops[o].key], b)
  BY <1>2, <1>3, NextCasGrows DEF Forward
<1>4. CASE CommitLogicalPut(o) /\ ~ UNCHANGED <<auth, repairs>>
  <2>1. PICK b, k : b = Published(o) /\ k = ops[o].key
    OBVIOUS
  <2>2. /\ CanCommit(o) /\ auth' = [auth EXCEPT ![k] = b]
        /\ repairs' = Superseding(WithPublication(repairs, b, ops[o].epoch), k, ops[o].epoch)
    BY <1>4, <2>1 DEF CommitLogicalPut
  <2>3. b.gen = o /\ b.version = ops[o].version /\ b.cas = NextCas(ops[o].cas)
    BY <2>1 DEF Published
  <2>4. AuthForward
    BY <1>2, <1>3, <2>1, <2>2, <2>3, OneForward
  <2>5. /\ RowsOK(WithPublication(repairs, b, ops[o].epoch))
        /\ VersionsOK(WithPublication(repairs, b, ops[o].epoch))
    BY <1>0, <1>2, <2>2, <2>3, PublicationGrows, PublicationVersions DEF Grows
  <2>6. VersionsOK(Superseding(WithPublication(repairs, b, ops[o].epoch), k, ops[o].epoch))
    BY <1>2, <2>1, <2>2, <2>5, SupersedingVersions
  <2> QED BY <2>2, <2>4, <2>6
<1>5. CASE CommitLogicalDelete(o) /\ ~ UNCHANGED <<auth, repairs>>
  <2>1. PICK b, k : b = Tombstone(o, ops[o].cas) /\ k = ops[o].key
    OBVIOUS
  <2>2. CanCommit(o) /\ auth' = [auth EXCEPT ![k] = b] /\ repairs' = Superseding(repairs, k, ops[o].epoch)
    BY <1>5, <2>1 DEF CommitLogicalDelete, CanCommitDelete
  <2>3. b.gen = o /\ b.version = config /\ b.cas = NextCas(ops[o].cas)
    BY <2>1 DEF Tombstone
  <2>4. AuthForward
    BY <1>2, <1>3, <2>1, <2>2, <2>3, OneForward
  <2>6. VersionsOK(Superseding(repairs, k, ops[o].epoch))
    BY <1>0, <1>2, <2>1, <2>2, SupersedingVersions
  <2> QED BY <2>2, <2>4, <2>6
<1> QED BY <1>1, <1>4, <1>5

\* A tombstone outside an operation is of the newest placement version.
LEMMA TombstoneForward ==
  ASSUME ForwardInvariant, NEW k \in Keys, TombstoneAuthoritative(k) PROVE AuthForward /\ VersionsOK(repairs')
<1>0. /\ RowsOK(repairs) /\ VersionsOK(repairs) /\ config \in Nat
      /\ auth[k] # Nil => auth[k].cas \in Nat /\ Recorded(auth[k].version)
  BY DEF ForwardInvariant, PlacementKnown, GenInvariant, GenShapes, RowsOK
<1>1. PICK b : b = Tombstone(Nil, CasAt(auth[k]))
  OBVIOUS
<1>2. auth' = [auth EXCEPT ![k] = b] /\ repairs' = Superseding(repairs, k, ns.epoch)
  BY <1>1 DEF TombstoneAuthoritative
<1>3. b.version = config /\ b.cas = NextCas(CasAt(auth[k]))
  BY <1>1 DEF Tombstone
<1>4. Forward(auth[k], b)
  BY <1>0, <1>3, NextCasGrows DEF Forward, Recorded
<1> QED BY <1>0, <1>2, <1>4, OneForward, SupersedingVersions

\* ProvePhysicalAbort inserts cleanups of the operation's own version.
LEMMA AbortForward ==
  ASSUME ForwardInvariant, NEW o \in Ops, ProvePhysicalAbort(o) PROVE UNCHANGED auth /\ VersionsOK(repairs')
<1>0. RowsOK(repairs) /\ VersionsOK(repairs) /\ Recorded(ops[o].version)
  BY DEF ForwardInvariant, PlacementKnown, GenInvariant, GenShapes, RowsOK
<1>1. PICK gone : /\ gone = [gen |-> o, size |-> ops[o].size, version |-> ops[o].version,
                              primary |-> ops[o].backend, replica |-> Nil, cas |-> 0]
                  /\ repairs' = WithCleanups(repairs, gone, LedgeredBackends(o), ops[o].epoch)
  BY DEF ProvePhysicalAbort
<1>2. gone.version = ops[o].version
  BY <1>1
<1>3. VersionsOK(WithCleanups(repairs, gone, LedgeredBackends(o), ops[o].epoch))
  BY <1>0, <1>2, CleanupVersions
<1>4. UNCHANGED auth
  BY DEF ProvePhysicalAbort
<1> QED BY <1>1, <1>3, <1>4

\* The steps of requests, reconcilers and deletes.
LEMMA WriteForward ==
  ASSUME ForwardInvariant, WriteStep PROVE AuthForward /\ VersionsOK(repairs') /\ UNCHANGED config
<1>1. ASSUME NEW o \in Ops, RequestStep(o), ~ (CommitLogicalPut(o) \/ CommitLogicalDelete(o) \/ ProvePhysicalAbort(o))
      PROVE  UNCHANGED <<auth, repairs>>
  BY <1>1 DEF RequestStep, ReadAuthority, RouteFence, InsertLogicalOperation, ReadUsage, ReserveLogicalOperation,
     BeginPhysicalWrite, BeginJournal, BeginJournalFails, VerifyOutput, WriteFails, RecordLogicalUsage,
     TransitionLogicalOperation, CompleteChild, CompleteRefused, CommitPhysicalWrite, AbortChild, AbortAtProvider, WithdrawIntent, ProveLogicalAbort, Crash
<1>2. ASSUME NEW o \in Ops, RequestStep(o) PROVE UNCHANGED config
  BY <1>2 DEF RequestStep, ReadAuthority, RouteFence, InsertLogicalOperation, ReadUsage, ReserveLogicalOperation,
     BeginPhysicalWrite, BeginJournal, BeginJournalFails, VerifyOutput, WriteFails, RecordLogicalUsage,
     TransitionLogicalOperation, CompleteChild, CompleteRefused, CommitPhysicalWrite, AbortChild, AbortAtProvider, WithdrawIntent, ProveLogicalAbort,
     ProvePhysicalAbort, CommitLogicalPut, CommitLogicalDelete, Crash
<1>3. ASSUME NEW k \in Keys, TombstoneAuthoritative(k) PROVE UNCHANGED config
  BY <1>3 DEF TombstoneAuthoritative
<1>4. CASE IntentStep \/ ChildStep \/ AdvanceRoutingEpoch
  BY <1>4, SameForward DEF IntentStep, ChildStep, ExpireIntent, ReconcileIntent, ReconcileChild, AdvanceRoutingEpoch
<1>5. ASSUME NEW o \in Ops, RequestStep(o) PROVE AuthForward /\ VersionsOK(repairs')
  BY <1>1, <1>5, CommitForward, AbortForward, SameForward
<1> QED BY <1>2, <1>3, <1>4, <1>5, TombstoneForward DEF WriteStep

\* One worker's row, or one repair row, changes.
LEMMA WorkerVersion ==
  ASSUME ForwardInvariant, NEW w \in Workers, NEW r, worker' = [worker EXCEPT ![w] = r], Recorded(r.row.version)
  PROVE  \A i \in Workers : Recorded(worker'[i].row.version)
<1>1. Has(worker, Workers) /\ \A i \in Workers : Recorded(worker[i].row.version)
  BY DEF ForwardInvariant, PlacementKnown, GenInvariant, GenShapes
<1>2. \A i \in Workers : worker'[i] \in {worker[i], r}
  BY <1>1 DEF Has
<1> QED BY <1>1, <1>2

\* So does writing one row of the table.
LEMMA RowVersion ==
  ASSUME NEW rs, RowsOK(rs), VersionsOK(rs), NEW key \in RepairKeys, NEW r, Has(r, RepairFields), r.token \in Nat, Recorded(r.version)
  PROVE  RowsOK([rs EXCEPT ![key] = r]) /\ VersionsOK([rs EXCEPT ![key] = r])
  BY DEF RowsOK, VersionsOK, Has

\* A step of a worker that moves its row in a field other than its repair.
LEMMA WorkerStays ==
  ASSUME ForwardInvariant, NEW w \in Workers, NEW pc, NEW todo, NEW victim,
         \/ Step(w, pc) \/ worker' = [worker EXCEPT ![w] = IdleWorker]
         \/ worker' = [worker EXCEPT ![w] = [@ EXCEPT !.pc = pc, !.todo = todo]]
         \/ worker' = [worker EXCEPT ![w] = [@ EXCEPT !.pc = pc, !.victim = victim]]
         \/ worker' = [worker EXCEPT ![w] = [@ EXCEPT !.todo = todo, !.victim = victim, !.pc = pc]]
  PROVE  \A i \in Workers : Recorded(worker'[i].row.version)
<1>1. Has(worker[w], WorkerFields) /\ Recorded(worker[w].row.version) /\ Recorded(0)
  BY DEF ForwardInvariant, PlacementKnown, GenInvariant, GenShapes, Recorded
<1>2. IdleWorker.row.version = 0
  BY DEF IdleWorker, NoRepair
<1>3. [worker[w] EXCEPT !.pc = pc].row = worker[w].row
  BY <1>1 DEF Has, WorkerFields
<1>4. [worker[w] EXCEPT !.pc = pc, !.todo = todo].row = worker[w].row
  BY <1>1 DEF Has, WorkerFields
<1>5. [worker[w] EXCEPT !.pc = pc, !.victim = victim].row = worker[w].row
  BY <1>1 DEF Has, WorkerFields
<1>6. [worker[w] EXCEPT !.todo = todo, !.victim = victim, !.pc = pc].row = worker[w].row
  BY <1>1 DEF Has, WorkerFields
<1>7. \E r : worker' = [worker EXCEPT ![w] = r] /\ Recorded(r.row.version)
  BY <1>1, <1>2, <1>3, <1>4, <1>5, <1>6 DEF Step
<1> QED BY <1>7, WorkerVersion

(* complete_repair: the authority row it changes is the one the repair was
   computed from, and a placement leg is not older than the row. *)
LEMMA CompleteForward ==
  ASSUME ForwardInvariant, NEW w \in Workers, CompleteRepair(w) PROVE AuthForward /\ VersionsOK(repairs')
<1>0. /\ RowsOK(repairs) /\ VersionsOK(repairs) /\ Has(worker[w].row, RepairFields) /\ Recorded(worker[w].row.version)
      /\ worker[w].key \in RepairKeys
  BY DEF ForwardInvariant, PlacementKnown, GenInvariant, GenShapes, RowsOK, TokensSpent, CompleteRepair
<1>1. PICK key, row, done :
         /\ key = worker[w].key /\ row = worker[w].row
         /\ done = [repairs EXCEPT ![key] = [repairs[key] EXCEPT !.state = "DONE", !.live = FALSE]]
  OBVIOUS
<1>2. RowsOK(done) /\ VersionsOK(done)
  <2> DEFINE r == [repairs[key] EXCEPT !.state = "DONE", !.live = FALSE]
  <2>1. Has(repairs[key], RepairFields) /\ repairs[key].token \in Nat /\ Recorded(repairs[key].version)
    BY <1>0, <1>1 DEF RowsOK, VersionsOK
  <2>2. Has(r, RepairFields) /\ r.token = repairs[key].token /\ r.version = repairs[key].version
    BY <2>1 DEF Has, RepairFields
  <2>3. done = [repairs EXCEPT ![key] = r]
    BY <1>1
  <2> HIDE DEF r
  <2>4. key \in RepairKeys
    BY <1>0, <1>1
  <2>5. RowsOK([repairs EXCEPT ![key] = r]) /\ VersionsOK([repairs EXCEPT ![key] = r])
    BY <1>0, <2>1, <2>2, <2>4, RowVersion
  <2> QED BY <2>3, <2>5
<1>3. \/ UNCHANGED <<auth, repairs>>
      \/ UNCHANGED auth /\ repairs' = done
      \/ \E k \in Keys :
           /\ RepairApplies(auth[k], key, row) /\ auth' = [auth EXCEPT ![k] = Applied(auth[k], key, row)]
           /\ repairs' = IF key[1] = "PLACEMENT"
                         THEN WithPlacementCleanups(done, auth[k], Applied(auth[k], key, row), row.version, row.epoch)
                         ELSE done
  BY <1>1 DEF CompleteRepair, AppliesTo
<1>4. ASSUME NEW k \in Keys, RepairApplies(auth[k], key, row)
      PROVE  Forward(auth[k], Applied(auth[k], key, row))
  <2>1. /\ Has(auth[k], AuthFields) /\ auth[k].cas \in Nat /\ Recorded(auth[k].version)
        /\ key[1] = "PLACEMENT" => row.version >= auth[k].version
    BY <1>4 DEF RepairApplies, ForwardInvariant, PlacementKnown, GenInvariant, GenShapes
  <2> DEFINE a == auth[k]
             b == IF key[1] = "PLACEMENT" THEN ApplyPlacement(a, key[3], row) ELSE ApplyCopy(a, key[3], row)
  <2>2. ApplyCopy(a, key[3], row).version = a.version
    BY <2>1 DEF ApplyCopy, Has, AuthFields
  <2>3. ApplyPlacement(a, key[3], row).version \in {a.version, row.version}
    <3> DEFINE moved == IF row.role = "PRIMARY"
                        THEN [a EXCEPT !.primary = key[3], !.primaryStatus = "READY",
                                       !.replica = IF row.replica = Nil THEN Nil ELSE @,
                                       !.replicaStatus = IF row.replica = Nil THEN "ABSENT" ELSE @]
                        ELSE [a EXCEPT !.replica = key[3], !.replicaStatus = "READY"]
    <3>1. Has(moved, AuthFields) /\ moved.version = a.version
      BY <2>1 DEF Has, AuthFields
    <3>2. PICK v : v \in {row.version, moved.version} /\ ApplyPlacement(a, key[3], row) = [moved EXCEPT !.version = v]
      BY DEF ApplyPlacement
    <3> HIDE DEF moved
    <3>3. [moved EXCEPT !.version = v].version = v
      BY <3>1 DEF Has, AuthFields
    <3> QED BY <3>1, <3>2, <3>3
  <2>4. Has(b, AuthFields) /\ Recorded(b.version) /\ b.version >= a.version
    <3>1. Recorded(row.version)
      BY <1>0, <1>1
    <3>2. CASE key[1] = "PLACEMENT"
      BY <2>1, <2>3, <3>1, <3>2, Applies DEF Recorded
    <3>3. CASE key[1] # "PLACEMENT"
      BY <2>1, <2>2, <3>3, Applies DEF Recorded
    <3> QED BY <3>2, <3>3
  <2>5. PICK n : n = a.cas + 1
    OBVIOUS
  <2>6. Applied(a, key, row) = [b EXCEPT !.cas = n]
    BY <2>5 DEF Applied
  <2> HIDE DEF b
  <2>7. [b EXCEPT !.cas = n].cas = n /\ [b EXCEPT !.cas = n].version = b.version
    BY <2>4 DEF Has, AuthFields
  <2> QED BY <2>1, <2>4, <2>5, <2>6, <2>7 DEF Forward
<1>5. ASSUME NEW k \in Keys, NEW b PROVE VersionsOK(WithPlacementCleanups(done, auth[k], b, row.version, row.epoch))
  BY <1>0, <1>1, <1>2, PlacementCleanupVersions
<1>6. ASSUME NEW k \in Keys, RepairApplies(auth[k], key, row), auth' = [auth EXCEPT ![k] = Applied(auth[k], key, row)]
      PROVE  AuthForward
  BY <1>4, <1>6, OneForward
<1> QED BY <1>2, <1>3, <1>5, <1>6, SameForward

\* The steps of a worker.
LEMMA WorkerForward ==
  ASSUME ForwardInvariant, NEW w \in Workers, WorkerProgress(w) \/ WorkerCrash(w)
  PROVE  AuthForward /\ VersionsOK(repairs') /\ \A i \in Workers : Recorded(worker'[i].row.version)
<1>0. /\ RowsOK(repairs) /\ VersionsOK(repairs) /\ Has(worker[w], WorkerFields) /\ Has(worker[w].row, RepairFields)
      /\ Recorded(worker[w].row.version) /\ (worker[w].pc # "idle" => worker[w].key \in RepairKeys)
  BY DEF ForwardInvariant, PlacementKnown, GenInvariant, GenShapes, RowsOK, TokensSpent
<1>1. ASSUME NEW key \in RepairKeys, SelectCandidate(w, key)
      PROVE  UNCHANGED <<auth, repairs>> /\ \A i \in Workers : Recorded(worker'[i].row.version)
  <2>1. PICK r : r = [worker[w] EXCEPT !.pc = "selected", !.key = key, !.row = repairs[key]]
    OBVIOUS
  <2>2. r.row = repairs[key]
    BY <1>0, <2>1 DEF Has, WorkerFields
  <2>3. worker' = [worker EXCEPT ![w] = r] /\ UNCHANGED <<auth, repairs>>
    BY <1>1, <2>1 DEF SelectCandidate, writeVars
  <2>4. Recorded(r.row.version)
    BY <1>0, <2>2 DEF VersionsOK
  <2> QED BY <2>3, <2>4, WorkerVersion
<1>2. ASSUME ClaimRepair(w)
      PROVE  UNCHANGED auth /\ VersionsOK(repairs') /\ \A i \in Workers : Recorded(worker'[i].row.version)
  <2>0. UNCHANGED auth /\ worker[w].key \in RepairKeys
    BY <1>0, <1>2 DEF ClaimRepair
  <2>1. CASE worker' = [worker EXCEPT ![w] = IdleWorker] /\ UNCHANGED repairs
    BY <2>0, <2>1, WorkerStays, SameForward
  <2>2. CASE ~ (worker' = [worker EXCEPT ![w] = IdleWorker] /\ UNCHANGED repairs)
    <3>1. PICK key, n : key = worker[w].key /\ n = repairs[key].token + 1
      OBVIOUS
    <3> DEFINE q == [repairs[key] EXCEPT !.state = "LEASED", !.live = TRUE, !.token = n]
               row == [worker[w].row EXCEPT !.token = n]
               r == [worker[w] EXCEPT !.pc = "claimed", !.row = row]
    <3>2. repairs' = [repairs EXCEPT ![key] = q]
      BY <1>2, <2>2, <3>1 DEF ClaimRepair
    <3>3. worker' = [worker EXCEPT ![w] = [worker[w] EXCEPT !.pc = "claimed", !.row.token = n]]
      BY <1>2, <2>2, <3>1 DEF ClaimRepair
    <3>4. [worker[w] EXCEPT !.pc = "claimed", !.row.token = n] = r
      BY <1>0 DEF Has, WorkerFields
    <3>5. key \in RepairKeys /\ Has(repairs[key], RepairFields) /\ repairs[key].token \in Nat /\ Recorded(repairs[key].version)
      BY <1>0, <2>0, <3>1 DEF RowsOK, VersionsOK
    <3>6. Has(q, RepairFields) /\ q.token = n /\ q.version = repairs[key].version
      BY <3>5 DEF Has, RepairFields
    <3>7. n \in Nat
      BY <3>1, <3>5
    <3>8. row.version = worker[w].row.version
      BY <1>0 DEF Has, RepairFields
    <3> HIDE DEF q, row
    <3>9. r.row = row
      BY <1>0 DEF Has, WorkerFields
    <3> HIDE DEF r
    <3>10. VersionsOK([repairs EXCEPT ![key] = q])
      BY <1>0, <3>5, <3>6, <3>7, RowVersion
    <3>11. worker' = [worker EXCEPT ![w] = r] /\ Recorded(r.row.version)
      BY <1>0, <3>3, <3>4, <3>8, <3>9
    <3>12. \A i \in Workers : Recorded(worker'[i].row.version)
      BY <3>11, WorkerVersion
    <3> QED BY <2>0, <3>2, <3>10, <3>12
  <2> QED BY <2>1, <2>2
<1>3. ASSUME OpenSource(w) \/ BeginCopy(w) \/ BeginCopyJournal(w) \/ BeginCopyFails(w) \/ StoreCopy(w) \/ CopyFails(w) \/ SettleCopy(w) \/ CheckCleanup(w)
      PROVE  UNCHANGED <<auth, repairs>> /\ \E pc : Step(w, pc)
  BY <1>3 DEF OpenSource, BeginCopy, BeginCopyJournal, BeginCopyFails, StoreCopy, CopyFails, SettleCopy, CheckCleanup, writeVars
<1>4. ASSUME ListCleanup(w) PROVE UNCHANGED <<auth, repairs>> /\ \A i \in Workers : Recorded(worker'[i].row.version)
  <2>1. \/ worker' = [worker EXCEPT ![w] = [@ EXCEPT !.pc = "failing"]]
        \/ \E todo : worker' = [worker EXCEPT ![w] = [@ EXCEPT !.pc = "deleting", !.todo = todo]]
    BY <1>4 DEF ListCleanup
  <2>2. UNCHANGED <<auth, repairs>>
    BY <1>4 DEF ListCleanup, writeVars
  <2> QED BY <2>1, <2>2, WorkerStays DEF Step
<1>5. ASSUME NEW v, DeleteVersion(w, v) PROVE UNCHANGED <<auth, repairs>> /\ \A i \in Workers : Recorded(worker'[i].row.version)
  <2>1. Step(w, "failing") \/ worker' = [worker EXCEPT ![w] = [@ EXCEPT !.pc = "forgetting", !.victim = v]]
    BY <1>5 DEF DeleteVersion
  <2>2. UNCHANGED <<auth, repairs>>
    BY <1>5 DEF DeleteVersion
  <2>3. CASE Step(w, "failing")
    BY <2>2, <2>3, WorkerStays
  <2>4. CASE worker' = [worker EXCEPT ![w] = [@ EXCEPT !.pc = "forgetting", !.victim = v]]
    BY <2>2, <2>4, WorkerStays
  <2> QED BY <2>1, <2>3, <2>4
<1>6. ASSUME ForgetVersion(w) PROVE UNCHANGED <<auth, repairs>> /\ \A i \in Workers : Recorded(worker'[i].row.version)
  <2>1. PICK pc, todo : worker' = [worker EXCEPT ![w] = [@ EXCEPT !.todo = todo, !.victim = Nil, !.pc = pc]]
    BY <1>6 DEF ForgetVersion
  <2>2. UNCHANGED <<auth, repairs>>
    BY <1>6 DEF ForgetVersion
  <2> QED BY <2>1, <2>2, WorkerStays
<1>7. ASSUME CompleteRepair(w) \/ FailRepair(w) \/ WorkerCrash(w) PROVE worker' = [worker EXCEPT ![w] = IdleWorker]
  BY <1>7 DEF CompleteRepair, FailRepair, WorkerCrash
<1>8. ASSUME FailRepair(w) PROVE UNCHANGED auth /\ VersionsOK(repairs')
  <2>1. PICK key, attempts, state :
          /\ key = worker[w].key
          /\ UNCHANGED repairs \/ repairs' = [repairs EXCEPT ![key] = [@ EXCEPT !.attempts = attempts, !.live = FALSE, !.state = state]]
    BY <1>8 DEF FailRepair
  <2> DEFINE q == [repairs[key] EXCEPT !.attempts = attempts, !.live = FALSE, !.state = state]
  <2>2. key \in RepairKeys /\ Has(repairs[key], RepairFields) /\ repairs[key].token \in Nat /\ Recorded(repairs[key].version)
    BY <1>0, <1>8, <2>1 DEF RowsOK, VersionsOK, FailRepair
  <2>3. Has(q, RepairFields) /\ q.token = repairs[key].token /\ q.version = repairs[key].version
    BY <2>2 DEF Has, RepairFields
  <2>4. UNCHANGED repairs \/ repairs' = [repairs EXCEPT ![key] = q]
    BY <2>1
  <2> HIDE DEF q
  <2>5. VersionsOK([repairs EXCEPT ![key] = q])
    BY <1>0, <2>2, <2>3, RowVersion
  <2>6. UNCHANGED auth
    BY <1>8 DEF FailRepair
  <2> QED BY <1>0, <2>4, <2>5, <2>6
<1>9. ASSUME WorkerCrash(w) PROVE UNCHANGED <<auth, repairs>>
  BY <1>9 DEF WorkerCrash
<1> QED BY <1>1, <1>2, <1>3, <1>4, <1>5, <1>6, <1>7, <1>8, <1>9, CompleteForward, SameForward, WorkerStays DEF WorkerProgress

\* The survey of a placement or of a read copies a row and the version of the day.
LEMMA SurveyForward ==
  ASSUME ForwardInvariant, NEW k \in Keys,
         SurveyPlacement(k) \/ \E i \in 1..4 : OpenAuthoritative(k, i) \/ HeadAuthoritative(k, i)
  PROVE  Recorded(survey'.version) /\ Recorded(survey'.row.version)
<1>1. PICK source, legs : survey' = [key |-> k, row |-> auth[k], source |-> source, version |-> config, legs |-> legs]
  BY DEF SurveyPlacement, OpenAuthoritative, HeadAuthoritative
<1>2. auth[k] # Nil
  BY DEF SurveyPlacement, OpenAuthoritative, HeadAuthoritative
<1> QED BY <1>1, <1>2 DEF ForwardInvariant, PlacementKnown, Recorded

\* The legs of a survey are enqueued.
LEMMA EnqueueForward ==
  ASSUME ForwardInvariant, NEW leg, Enqueue(leg)
  PROVE  /\ UNCHANGED auth /\ VersionsOK(repairs')
         /\ Recorded(survey'.version) /\ (survey'.legs # {} => Recorded(survey'.row.version))
<1>0. /\ RowsOK(repairs) /\ VersionsOK(repairs) /\ Has(survey, SurveyFields)
      /\ survey.legs # {} /\ Recorded(survey.version) /\ Recorded(survey.row.version) /\ Recorded(0)
  BY DEF ForwardInvariant, PlacementKnown, GenInvariant, GenShapes, Surveyed, RowsOK, Enqueue, Recorded
<1>1. PICK p : p = Placed(survey.version)
  OBVIOUS
<1> DEFINE copy == CopyRepair(survey.row, survey.source, "PRIMARY", survey.row.version, ns.epoch)
           move == PlacementRepair(survey.row, survey.source, leg, p, ns.epoch)
<1>2. Has(copy, RepairFields) /\ copy.version = survey.row.version
  BY CopyRepairRow, CopyVersion
<1>3. Has(move, RepairFields) /\ move.version = survey.version
  <2> DEFINE r == CopyRepair(survey.row, survey.source, leg, p.version, ns.epoch)
  <2>1. Has(r, RepairFields) /\ r.version = p.version
    BY CopyRepairRow, CopyVersion
  <2> HIDE DEF r
  <2>2. [r EXCEPT !.primary = p.primary, !.replica = p.replica].version = r.version
    BY <2>1 DEF Has, RepairFields
  <2>3. p.version = survey.version
    BY <1>1 DEF Placed
  <2> QED BY <2>1, <2>2, <2>3, PlacementRepairRow DEF PlacementRepair, r
<1> HIDE DEF copy, move
<1>4. \/ UNCHANGED repairs
      \/ \E key : repairs' = InsertRepair(repairs, key, copy) \/ repairs' = InsertRepair(repairs, key, move)
  BY <1>1 DEF Enqueue, LegRepair, copy, move
<1>5. VersionsOK(repairs')
  BY <1>0, <1>2, <1>3, <1>4, InsertVersions
<1>6. PICK legs : survey' = NoSurvey \/ survey' = [survey EXCEPT !.legs = legs]
  BY DEF Enqueue
<1>7. NoSurvey.version = 0 /\ NoSurvey.legs = {}
  BY DEF NoSurvey
<1>8. [survey EXCEPT !.legs = legs].version = survey.version /\ [survey EXCEPT !.legs = legs].row = survey.row
  BY <1>0 DEF Has, SurveyFields
<1>9. Recorded(survey'.version) /\ (survey'.legs # {} => Recorded(survey'.row.version))
  BY <1>0, <1>6, <1>7, <1>8
<1> QED BY <1>5, <1>9 DEF Enqueue

\* advance_placement_version: the row is behind.
LEMMA AdvanceForward ==
  ASSUME ForwardInvariant, AdvancePlacementVersion PROVE AuthForward
<1>1. PICK k, p : k = survey.key /\ p = Placed(survey.version)
  OBVIOUS
<1>2. /\ k \in Keys /\ Recorded(survey.version) /\ p.version = survey.version
  BY <1>1 DEF ForwardInvariant, PlacementKnown, GenInvariant, Surveyed, AdvancePlacementVersion, Placed
<1>3. CASE UNCHANGED auth
  BY <1>3, SameForward
<1>4. CASE ~ UNCHANGED auth
  <2>1. PICK n : n = auth[k].cas + 1
    OBVIOUS
  <2> DEFINE b == [auth[k] EXCEPT !.version = p.version, !.cas = n]
  <2>2. auth' = [auth EXCEPT ![k] = b] /\ auth[k] # Nil /\ p.version > auth[k].version
    BY <1>1, <1>4, <2>1 DEF AdvancePlacementVersion, Unmoved
  <2>3. Has(auth[k], AuthFields) /\ auth[k].cas \in Nat /\ Recorded(auth[k].version)
    BY <1>2, <2>2 DEF ForwardInvariant, PlacementKnown, GenInvariant, GenShapes
  <2>4. b.version = p.version /\ b.cas = n
    BY <2>3 DEF Has, AuthFields
  <2> HIDE DEF b
  <2>5. Forward(auth[k], b)
    BY <1>2, <2>1, <2>2, <2>3, <2>4 DEF Forward, Recorded
  <2> QED BY <1>2, <2>2, <2>5, OneForward
<1> QED BY <1>3, <1>4

\* The steps of workers, of the placement survey and of reads.
LEMMA RepairForward ==
  ASSUME ForwardInvariant, RepairStep PROVE AuthForward /\ RowsForward /\ config' \in Nat /\ config' >= config
<1>0. config \in Nat /\ RowsOK(repairs) /\ VersionsOK(repairs) /\ Recorded(0)
  BY DEF ForwardInvariant, PlacementKnown, GenInvariant, GenShapes, RowsOK, Recorded
<1>a. NoSurvey.version = 0 /\ NoSurvey.legs = {}
  BY DEF NoSurvey
<1>1. ASSUME NEW w \in Workers, WorkerProgress(w) \/ WorkerCrash(w) PROVE UNCHANGED <<config, survey>>
  BY <1>1 DEF WorkerProgress, WorkerCrash, SelectCandidate, ClaimRepair, OpenSource, BeginCopy, BeginCopyJournal, BeginCopyFails, StoreCopy, CopyFails,
     SettleCopy, CheckCleanup, ListCleanup, ForgetVersion, DeleteVersion, CompleteRepair, FailRepair, writeVars
<1>2. ASSUME NEW key \in RepairKeys, ExpireRepairLease(key)
      PROVE  VersionsOK(repairs') /\ UNCHANGED <<auth, config, worker, survey>>
  <2> DEFINE q == [repairs[key] EXCEPT !.live = FALSE]
  <2>1. Has(repairs[key], RepairFields) /\ repairs[key].token \in Nat /\ Recorded(repairs[key].version)
    BY <1>0 DEF RowsOK, VersionsOK
  <2>2. Has(q, RepairFields) /\ q.token = repairs[key].token /\ q.version = repairs[key].version
    BY <2>1 DEF Has, RepairFields
  <2>3. repairs' = [repairs EXCEPT ![key] = q] /\ UNCHANGED <<auth, config, worker, survey>>
    BY <1>2 DEF ExpireRepairLease, repairVars
  <2> HIDE DEF q
  <2> QED BY <1>0, <2>1, <2>2, <2>3, RowVersion
<1>3. ASSUME NEW c, ExpireCopyIntent(c) PROVE UNCHANGED <<auth, config, repairs, worker, survey>>
  BY <1>3 DEF ExpireCopyIntent, repairVars
<1>4. ASSUME RaisePlacement PROVE UNCHANGED <<auth, repairs, worker, survey>> /\ config' = config + 1
  BY <1>4 DEF RaisePlacement, repairVars
<1>5. ASSUME AdvancePlacementVersion PROVE UNCHANGED <<config, repairs, worker>> /\ survey' = NoSurvey
  BY <1>5 DEF AdvancePlacementVersion
<1>6. ASSUME NEW k \in Keys, SurveyPlacement(k) \/ \E i \in 1..4 : OpenAuthoritative(k, i) \/ HeadAuthoritative(k, i)
      PROVE  UNCHANGED <<auth, config, repairs, worker>>
  BY <1>6 DEF SurveyPlacement, OpenAuthoritative, HeadAuthoritative, writeVars
<1>7. ASSUME NEW leg, Enqueue(leg) PROVE UNCHANGED <<config, worker>>
  BY <1>7 DEF Enqueue
<1>8. CASE PlacementStep
  BY <1>0, <1>a, <1>4, <1>5, <1>6, <1>7, <1>8, SameForward, SurveyForward, EnqueueForward, AdvanceForward DEF PlacementStep, RowsForward
<1>9. ASSUME NEW w \in Workers, WorkerProgress(w) \/ WorkerCrash(w) PROVE AuthForward /\ RowsForward
  BY <1>1, <1>9, WorkerForward, SameForward DEF RowsForward
<1> QED BY <1>0, <1>1, <1>2, <1>3, <1>6, <1>8, <1>9, SameForward, SurveyForward DEF RepairStep, RowsForward

\* The steps about purges and uploads: a purge that completes removes the rows.
LEMMA PurgeForward ==
  ASSUME ForwardInvariant, (\E d \in Drivers : DriverStep(d)) \/ (\E u \in Uploads : MultipartStep(u))
  PROVE  AuthForward /\ RowsForward /\ UNCHANGED config
<1>0. VersionsOK(repairs) /\ Recorded(0)
  BY DEF ForwardInvariant, PlacementKnown, Recorded
<1>1. ASSUME NEW u \in Uploads, MultipartStep(u) PROVE UNCHANGED <<auth, repairs, config, worker, survey>>
  BY <1>1 DEF MultipartStep, BeginMultipartActivity, CreateUpload, ConfirmMultipartActivity, WithdrawUpload,
     FinishMultipartActivity, RetireUpload, CreatorCrash, ExpireRegistration, ReconcileMultipartActivity, writeVars, repairVars
<1>2. ASSUME NEW d \in Drivers, DriverStep(d), ~ FinalizeComplete(d) PROVE UNCHANGED <<auth, repairs, config, worker, survey>>
  BY <1>2 DEF DriverStep, StartPurge, QueryPurge, ReadIntents, ReadTargets, FinalizeBlocked, FinalizeCounts, PurgeTargets, DeleteTarget,
     MarkPurgeTargetDeleted, MarkPurgeTargetBlocked, DriverCrash, writeVars, repairVars
<1>3. ASSUME NEW d \in Drivers, FinalizeComplete(d)
      PROVE  auth' = NoAuthority /\ VersionsOK(repairs') /\ UNCHANGED <<config, worker, survey>>
  <2>1. PICK epoch : repairs' = [key \in RepairKeys |-> IF repairs[key].epoch <= epoch THEN NoRepair ELSE repairs[key]]
    BY <1>3 DEF FinalizeComplete
  <2>2. NoRepair.version = 0
    BY DEF NoRepair
  <2>3. \A key \in RepairKeys : repairs'[key] \in {NoRepair, repairs[key]}
    BY <2>1
  <2>4. VersionsOK(repairs')
    BY <1>0, <2>2, <2>3 DEF VersionsOK
  <2> QED BY <1>3, <2>4 DEF FinalizeComplete, repairVars
<1>4. auth' = NoAuthority => AuthForward
  BY DEF NoAuthority, AuthForward, Forward
<1> QED BY <1>1, <1>2, <1>3, <1>4, SameForward DEF RowsForward

\* Every step of the authority moves its rows forward.
LEMMA ForwardStep ==
  ASSUME ForwardInvariant, [ManagedNext]_managedVars PROVE ForwardInvariant' /\ AuthForward
<1>0. GenInvariant' /\ GenKept /\ config \in Nat
  BY GenStep DEF ForwardInvariant, PlacementKnown
<1>1. CASE WriteStep /\ UNCHANGED <<repairVars, purgeVars>>
  BY <1>0, <1>1, WriteForward, SameForward, ForwardMoves DEF RowsForward, repairVars
<1>2. CASE RepairStep
  BY <1>0, <1>2, RepairForward, ForwardMoves
<1>3. CASE (\E d \in Drivers : DriverStep(d)) \/ (\E u \in Uploads : MultipartStep(u))
  BY <1>0, <1>3, PurgeForward, ForwardMoves
<1>4. CASE UNCHANGED managedVars
  BY <1>0, <1>4, SameForward, ForwardMoves DEF RowsForward, managedVars, writeVars, repairVars
<1> QED BY <1>1, <1>2, <1>3, <1>4 DEF ManagedNext

(* PlacementForward for every number of keys, operations, workers, purges and
   placement policies: an authority row never changes without a larger CAS
   version (commit_logical_put, complete_repair, advance_placement_version and the
   tombstones), and never goes back to an earlier placement while it shows the
   same generation. *)
THEOREM RowsGoForward == ManagedSpec => PlacementForward
<1>1. ASSUME ForwardInvariant, [ManagedNext]_managedVars
      PROVE  [\A k \in Keys :
                auth[k] # Nil /\ auth'[k] \notin {Nil, auth[k]} =>
                   /\ auth'[k].cas > auth[k].cas
                   /\ auth'[k].gen = auth[k].gen => auth'[k].version >= auth[k].version]_<<auth>>
  BY <1>1, ForwardStep DEF AuthForward, Forward
<1>2. ManagedInit => ForwardInvariant
  BY ForwardInitially
<1>3. ForwardInvariant /\ [ManagedNext]_managedVars => ForwardInvariant'
  BY ForwardStep
<1> QED BY <1>1, <1>2, <1>3, PTL DEF ManagedSpec, PlacementForward

-----------------------------------------------------------------------------
(* Usage and quota: the workspace's byte counters are totals over the operation
   rows and the authority rows. *)

UsageFields == {"exists", "visible", "allocated", "reserved", "active"}

(* The byte counts of the rows: an operation reserves nothing before it holds the
   slot, has committed nothing before it is over, and gives back no more than it
   has committed. *)
OpBytes(s) ==
    /\ s.reserved \in Nat /\ s.committed \in Nat /\ s.released \in Nat /\ s.released <= s.committed
    /\ s.size \in Nat \cup {Nil}
    /\ s.state \in {"NONE", "INTENT"} => s.reserved = 0
    /\ ~ Terminal(s.state) => s.committed = 0
    /\ s.state # "NONE" => s.key \in Keys
PutBytes(r) == r.resv \in Nat /\ r.size \in Nat \cup {Nil} /\ (r.pc \in {"read", "fenced"} => r.key \in Keys)
RowBytes ==
    /\ \A o \in Ops : OpBytes(ops[o]) /\ PutBytes(put[o])
    /\ \A k \in Keys : auth[k] # Nil => auth[k].size \in Nat /\ auth[k].tombstone \in BOOLEAN

\* The usage row names the one operation that holds the slot.
UsageRow ==
    /\ Has(usage, UsageFields) /\ usage.visible \in Nat /\ usage.allocated \in Nat /\ usage.reserved \in Nat
    /\ usage.active # Nil => usage.active \in Ops /\ ops[usage.active].state \in HoldsSlot

\* UsageExact and QuotaCovers are inductive together with these.
UsageInvariant ==
    /\ CoverInvariant /\ IsFiniteSet(ledger)
    /\ RowBytes /\ UsageRow /\ UsageExact /\ QuotaCovers

\* What the steps are shown to keep of it.
Accounts == UsageRow /\ UsageExact /\ QuotaCovers

\* The byte count of an authority row.
AuthBytes(a) == a # Nil => a.size \in Nat /\ a.tombstone \in BOOLEAN

\* What an authority row counts for.
LEMMA SizeIsNat == ASSUME NEW a, AuthBytes(a) PROVE SizeAt(a) \in Nat
  BY DEF AuthBytes, SizeAt

\* The operations' total, when one row changes and when none does.
LEMMA ChargedIsNat == ASSUME RowBytes PROVE ChargedBytes \in Nat /\ \A o \in Ops : ops[o].committed - ops[o].released <= ChargedBytes
<1> DEFINE F == [o \in Ops |-> ops[o].committed - ops[o].released]
<1>1. \A o \in Ops : F[o] \in Nat
  BY DEF RowBytes, OpBytes
<1>2. ChargedBytes = SumFunctionOnSet(F, Ops)
  BY DEF ChargedBytes, SumFunction
<1>3. IsFiniteSet(Ops)
  BY ManagedAssumption
<1>4. \A o \in Ops : F[o] = ops[o].committed - ops[o].released
  OBVIOUS
<1> HIDE DEF F
<1> QED BY <1>1, <1>2, <1>3, <1>4, SumNat

\* It moves with the row an operation's step writes.
LEMMA ChargedChange ==
  ASSUME RowBytes, RowBytes', Has(ops, Ops), NEW o \in Ops, NEW s, ops' = [ops EXCEPT ![o] = s]
  PROVE  ChargedBytes' = ChargedBytes - (ops[o].committed - ops[o].released) + (s.committed - s.released)
<1> DEFINE F == [a \in Ops |-> ops[a].committed - ops[a].released]
           G == [a \in Ops |-> ops'[a].committed - ops'[a].released]
<1>1. \A a \in Ops : F[a] \in Int /\ G[a] \in Int
  BY DEF RowBytes, OpBytes
<1>2. ops'[o] = s /\ \A a \in Ops \ {o} : ops'[a] = ops[a]
  BY DEF Has
<1>3. /\ F[o] = ops[o].committed - ops[o].released /\ G[o] = s.committed - s.released
      /\ \A a \in Ops \ {o} : G[a] = F[a]
  BY <1>2
<1>4. ChargedBytes = SumFunctionOnSet(F, Ops) /\ ChargedBytes' = SumFunctionOnSet(G, Ops)
  BY DEF ChargedBytes, SumFunction
<1>5. IsFiniteSet(Ops)
  BY ManagedAssumption
<1> HIDE DEF F, G
<1> QED BY <1>1, <1>3, <1>4, <1>5, SumChange

\* It stays when no operation commits or releases bytes.
LEMMA ChargedSame ==
  ASSUME \A o \in Ops : ops'[o].committed = ops[o].committed /\ ops'[o].released = ops[o].released
  PROVE  ChargedBytes' = ChargedBytes
<1>1. [a \in Ops |-> ops[a].committed - ops[a].released] = [a \in Ops |-> ops'[a].committed - ops'[a].released]
  OBVIOUS
<1> QED BY <1>1 DEF ChargedBytes

\* The current objects' total.
LEMMA CurrentIsNat == ASSUME RowBytes PROVE CurrentBytes \in Nat /\ \A k \in Keys : SizeAt(auth[k]) \in Nat /\ SizeAt(auth[k]) <= CurrentBytes
<1> DEFINE F == [k \in Keys |-> SizeAt(auth[k])]
<1>1. \A k \in Keys : F[k] \in Nat
  BY SizeIsNat DEF RowBytes, AuthBytes
<1>2. CurrentBytes = SumFunctionOnSet(F, Keys)
  BY DEF CurrentBytes, SumFunction
<1>3. IsFiniteSet(Keys)
  BY ManagedAssumption
<1>4. \A k \in Keys : F[k] = SizeAt(auth[k])
  OBVIOUS
<1> HIDE DEF F
<1> QED BY <1>1, <1>2, <1>3, <1>4, SumNat

\* It moves with the authority row of one key.
LEMMA CurrentChange ==
  ASSUME RowBytes, RowBytes', Has(auth, Keys), NEW k \in Keys, NEW a, auth' = [auth EXCEPT ![k] = a]
  PROVE  CurrentBytes' = CurrentBytes - SizeAt(auth[k]) + SizeAt(a) /\ CurrentBytes' \in Int
<1> DEFINE F == [j \in Keys |-> SizeAt(auth[j])]
           G == [j \in Keys |-> SizeAt(auth'[j])]
<1>1. \A j \in Keys : F[j] \in Int /\ G[j] \in Int
  BY SizeIsNat DEF RowBytes, AuthBytes
<1>2. auth'[k] = a /\ \A j \in Keys \ {k} : auth'[j] = auth[j]
  BY DEF Has
<1>3. /\ F[k] = SizeAt(auth[k]) /\ G[k] = SizeAt(a)
      /\ \A j \in Keys \ {k} : G[j] = F[j]
  BY <1>2
<1>4. CurrentBytes = SumFunctionOnSet(F, Keys) /\ CurrentBytes' = SumFunctionOnSet(G, Keys)
  BY DEF CurrentBytes, SumFunction
<1>5. IsFiniteSet(Keys)
  BY ManagedAssumption
<1> HIDE DEF F, G
<1> QED BY <1>1, <1>3, <1>4, <1>5, SumChange, SumInt

\* It shrinks when no object grows, as in a purge.
LEMMA CurrentShrinks ==
  ASSUME RowBytes, RowBytes', \A k \in Keys : SizeAt(auth'[k]) <= SizeAt(auth[k])
  PROVE  CurrentBytes' <= CurrentBytes /\ CurrentBytes' \in Int
<1> DEFINE F == [j \in Keys |-> SizeAt(auth[j])]
           G == [j \in Keys |-> SizeAt(auth'[j])]
<1>1. \A j \in Keys : F[j] \in Int /\ G[j] \in Int
  BY SizeIsNat DEF RowBytes, AuthBytes
<1>2. \A j \in Keys : G[j] <= F[j]
  OBVIOUS
<1>4. CurrentBytes = SumFunctionOnSet(F, Keys) /\ CurrentBytes' = SumFunctionOnSet(G, Keys)
  BY DEF CurrentBytes, SumFunction
<1>5. IsFiniteSet(Keys)
  BY ManagedAssumption
<1> HIDE DEF F, G
<1> QED BY <1>1, <1>2, <1>4, <1>5, SumLeq, SumInt

\* A step that leaves the byte counts of the operations and the slot alone, and
\* lets no object grow.
LEMMA AccountsStay ==
  ASSUME RowBytes, RowBytes', Accounts, UNCHANGED usage,
         \A o \in Ops : /\ ops'[o].state \in HoldsSlot <=> ops[o].state \in HoldsSlot
                        /\ ops'[o].reserved = ops[o].reserved
                        /\ ops'[o].committed = ops[o].committed /\ ops'[o].released = ops[o].released,
         \A k \in Keys : SizeAt(auth'[k]) <= SizeAt(auth[k])
  PROVE  Accounts'
<1>1. ChargedBytes' = ChargedBytes /\ CurrentBytes' <= CurrentBytes /\ CurrentBytes' \in Int
  BY ChargedSame, CurrentShrinks
<1>2. CurrentBytes \in Nat
  BY CurrentIsNat
<1>3. UsageRow'
  BY DEF Accounts, UsageRow
<1>4. UsageExact'
  BY <1>1 DEF Accounts, UsageExact, UsageRow
<1>5. QuotaCovers'
  BY <1>1, <1>2 DEF Accounts, QuotaCovers, UsageRow
<1> QED BY <1>3, <1>4, <1>5 DEF Accounts

\* The rows of one request move, and of no other.
LEMMA OneBytes ==
  ASSUME GenInvariant, RowBytes, NEW o \in Ops, NEW r, NEW s, put' = [put EXCEPT ![o] = r], ops' = [ops EXCEPT ![o] = s],
         PutBytes(r), OpBytes(s), \A k \in Keys : AuthBytes(auth'[k])
  PROVE  RowBytes'
<1>1. Has(ops, Ops) /\ Has(put, Ops)
  BY DEF GenInvariant, GenShapes
<1>2. \A a \in Ops : ops'[a] \in {s, ops[a]} /\ put'[a] \in {r, put[a]}
  BY <1>1 DEF Has
<1>3. \A a \in Ops : OpBytes(ops'[a]) /\ PutBytes(put'[a])
  BY <1>2 DEF RowBytes
<1> QED BY <1>3 DEF RowBytes, AuthBytes, OpBytes, PutBytes

\* A request goes on, and its operation row with it.
LEMMA GotoBytes ==
  ASSUME GenInvariant, RowBytes, NEW o \in Ops, NEW pc, NEW s, Goto(o, pc), pc \notin {"read", "fenced"},
         ops' = [ops EXCEPT ![o] = s], OpBytes(s), \A k \in Keys : AuthBytes(auth'[k])
  PROVE  RowBytes'
<1> DEFINE r == [put[o] EXCEPT !.pc = pc]
<1>1. Has(put[o], PutFields) /\ PutBytes(put[o])
  BY DEF GenInvariant, GenShapes, RowBytes
<1>2. PutBytes(r)
  BY <1>1 DEF PutBytes, Has, PutFields
<1>3. put' = [put EXCEPT ![o] = r]
  BY DEF Goto
<1> HIDE DEF r
<1> QED BY <1>2, <1>3, OneBytes

\* A request reads, or its row changes without its counts and its slot.
LEMMA RequestStays ==
  ASSUME GenInvariant, RowBytes, Accounts, NEW o \in Ops, NEW r, NEW s, put' = [put EXCEPT ![o] = r], ops' = [ops EXCEPT ![o] = s],
         PutBytes(r), OpBytes(s), UNCHANGED <<usage, auth>>, s.state \in HoldsSlot <=> ops[o].state \in HoldsSlot,
         s.reserved = ops[o].reserved, s.committed = ops[o].committed, s.released = ops[o].released
  PROVE  RowBytes' /\ Accounts'
<1>1. RowBytes'
  BY OneBytes DEF RowBytes, AuthBytes
<1>2. Has(ops, Ops)
  BY DEF GenInvariant, GenShapes
<1>3. \A a \in Ops : ops'[a] = ops[a] \/ (a = o /\ ops'[a] = s)
  BY <1>2 DEF Has
<1>4. \A k \in Keys : SizeAt(auth[k]) \in Nat
  BY CurrentIsNat
<1>5. \A k \in Keys : SizeAt(auth'[k]) <= SizeAt(auth[k])
  BY <1>4
<1> QED BY <1>1, <1>3, <1>5, AccountsStay

\* The same for a request that goes on to another step.
LEMMA GotoStays ==
  ASSUME GenInvariant, RowBytes, Accounts, NEW o \in Ops, NEW pc, NEW s, Goto(o, pc), pc \notin {"read", "fenced"},
         ops' = [ops EXCEPT ![o] = s], OpBytes(s), UNCHANGED <<usage, auth>>, s.state \in HoldsSlot <=> ops[o].state \in HoldsSlot,
         s.reserved = ops[o].reserved, s.committed = ops[o].committed, s.released = ops[o].released
  PROVE  RowBytes' /\ Accounts'
<1> DEFINE r == [put[o] EXCEPT !.pc = pc]
<1>1. Has(put[o], PutFields) /\ PutBytes(put[o])
  BY DEF GenInvariant, GenShapes, RowBytes
<1>2. PutBytes(r)
  BY <1>1 DEF PutBytes, Has, PutFields
<1>3. put' = [put EXCEPT ![o] = r]
  BY DEF Goto
<1> HIDE DEF r
<1> QED BY <1>2, <1>3, RequestStays

\* The slot is taken: the reservation fits what the workspace has left.
LEMMA Reserves ==
  ASSUME GenInvariant, RowBytes, Accounts, NEW o \in Ops, ReserveLogicalOperation(o)
  PROVE  RowBytes' /\ Accounts'
<1>0. /\ Has(ops, Ops) /\ Has(ops[o], OpFields) /\ ops = [ops EXCEPT ![o] = ops[o]] /\ OpBytes(ops[o]) /\ PutBytes(put[o])
  BY DEF GenInvariant, GenShapes, Has, RowBytes
<1>1. CASE Goto(o, "refused") /\ UNCHANGED <<usage, ops, auth>>
  BY <1>0, <1>1, GotoStays
<1>2. CASE /\ ops[o].state = "INTENT" /\ usage.active = Nil
           /\ usage.allocated + usage.reserved + put[o].resv <= VisibleLimit + Headroom
           /\ usage' = [usage EXCEPT !.exists = TRUE, !.active = o, !.reserved = @ + put[o].resv]
           /\ ops' = [ops EXCEPT ![o].state = "OPEN", ![o].reserved = put[o].resv]
           /\ Goto(o, "reserved") \/ Goto(o, "verified")
           /\ UNCHANGED auth
  <2> DEFINE s == [ops[o] EXCEPT !.state = "OPEN", !.reserved = put[o].resv]
  <2>1. /\ OpBytes(s) /\ s.state = "OPEN" /\ s.reserved = put[o].resv
        /\ s.committed = ops[o].committed /\ s.released = ops[o].released
    BY <1>0, <1>2 DEF OpBytes, PutBytes, Has, OpFields, Terminal
  <2>2. ops' = [ops EXCEPT ![o] = s]
    BY <1>2
  <2> HIDE DEF s
  <2>3. RowBytes'
    BY <1>2, <2>1, <2>2, GotoBytes DEF RowBytes, AuthBytes
  <2>4. ops'[o] = s /\ \A a \in Ops \ {o} : ops'[a] = ops[a]
    BY <1>0, <2>2 DEF Has
  <2>5. ChargedBytes' = ChargedBytes
    BY <2>1, <2>4, ChargedSame
  <2>6. /\ Has(usage', UsageFields) /\ usage'.visible = usage.visible /\ usage'.allocated = usage.allocated
        /\ usage'.reserved = usage.reserved + put[o].resv /\ usage'.active = o
    BY <1>2 DEF Accounts, UsageRow, Has, UsageFields
  <2>7. put[o].resv \in Nat /\ usage.reserved = 0 /\ o # Nil
    BY <1>0, <1>2, ManagedAssumption DEF PutBytes, Accounts, UsageExact
  <2>8. UsageRow'
    BY <2>1, <2>4, <2>6, <2>7 DEF Accounts, UsageRow, HoldsSlot
  <2>9. UsageExact'
    <3>1. ops'[o].state \in HoldsSlot
      BY <2>1, <2>4 DEF HoldsSlot
    <3>2. usage'.allocated = ChargedBytes'
      BY <2>5, <2>6 DEF Accounts, UsageExact
    <3>3. usage'.reserved = ops'[o].reserved
      BY <2>1, <2>4, <2>6, <2>7
    <3> QED BY <2>6, <2>7, <3>1, <3>2, <3>3 DEF UsageExact
  <2>10. CurrentBytes' = CurrentBytes
    BY <1>2 DEF CurrentBytes
  <2>11. QuotaCovers'
    BY <1>2, <2>6, <2>7, <2>10, ManagedAssumption DEF Accounts, QuotaCovers, UsageRow
  <2> QED BY <2>3, <2>8, <2>9, <2>11 DEF Accounts
<1> QED BY <1>1, <1>2 DEF ReserveLogicalOperation

\* The reservation goes back and `bytes` of it stay allocated: an abort.
LEMMA Aborts ==
  ASSUME GenInvariant, RowBytes, Accounts, NEW o \in Ops, NEW bytes \in Nat, NEW s, RowBytes',
         CanProveAbort(o), bytes <= ops[o].reserved, usage' = Released(o, bytes), ops' = [ops EXCEPT ![o] = s],
         s.state = "PROVEN_ABORTED", s.committed = bytes, s.released = ops[o].released, UNCHANGED auth
  PROVE  Accounts'
<1>0. Has(ops, Ops) /\ OpBytes(ops[o]) /\ o # Nil
  BY ManagedAssumption DEF GenInvariant, GenShapes, RowBytes
<1>1. ops'[o] = s /\ \A a \in Ops \ {o} : ops'[a] = ops[a]
  BY <1>0 DEF Has
<1>2. ops[o].committed = 0 /\ ops[o].released = 0 /\ ops[o].reserved \in Nat
  BY <1>0 DEF OpBytes, CanProveAbort
<1>3. ChargedBytes' = ChargedBytes + bytes
  <2>1. ChargedBytes' = ChargedBytes - (ops[o].committed - ops[o].released) + (s.committed - s.released) /\ ChargedBytes \in Nat
    BY <1>0, ChargedChange, ChargedIsNat
  <2> QED BY <1>2, <2>1
<1>4. /\ usage.visible \in Nat /\ usage.allocated \in Nat /\ usage.reserved \in Nat /\ Has(usage, UsageFields)
      /\ usage.allocated = ChargedBytes
  BY DEF Accounts, UsageRow, UsageExact
<1>5. /\ Has(usage', UsageFields) /\ usage'.visible = usage.visible /\ usage'.allocated = usage.allocated + bytes
      /\ usage'.reserved = usage.reserved - ops[o].reserved
      /\ usage'.active = IF usage.active = o THEN Nil ELSE usage.active
  BY <1>4 DEF Released, Has, UsageFields
<1>6. \/ usage.active = o /\ usage.reserved = ops[o].reserved
      \/ usage.active # o /\ ops[o].state = "INTENT" /\ ops[o].reserved = 0
  BY <1>0 DEF CanProveAbort, Accounts, UsageExact, OpBytes
<1>7. s.state \notin HoldsSlot /\ "INTENT" \notin HoldsSlot
  BY DEF HoldsSlot
<1>8. UsageRow'
  BY <1>0, <1>1, <1>2, <1>4, <1>5, <1>6 DEF Accounts, UsageRow
<1>9. UsageExact'
  <2>2. usage'.active # Nil => ops'[usage'.active].state \in HoldsSlot
    BY <1>8 DEF UsageRow
  <2>3. usage.reserved = IF usage.active = Nil THEN 0 ELSE ops[usage.active].reserved
    BY DEF Accounts, UsageExact
  <2>4. usage.active # Nil => usage.active \in Ops
    BY DEF Accounts, UsageRow
  <2>5. usage'.reserved = IF usage'.active = Nil THEN 0 ELSE ops'[usage'.active].reserved
    BY <1>0, <1>1, <1>2, <1>4, <1>5, <1>6, <2>3, <2>4
  <2> QED BY <1>3, <1>4, <1>5, <2>2, <2>5 DEF UsageExact
<1>10. CurrentBytes' = CurrentBytes
  BY DEF CurrentBytes
<1>11. QuotaCovers'
  BY <1>2, <1>4, <1>5, <1>6, <1>10, ManagedAssumption DEF Accounts, QuotaCovers
<1> QED BY <1>8, <1>9, <1>11 DEF Accounts

(* An object of `size` bytes takes the place of the one the operation was admitted
   against, the reservation goes back and `bytes` of it stay allocated: a commit. *)
LEMMA Commits ==
  ASSUME GenInvariant, RowBytes, Accounts, NEW o \in Ops, NEW bytes \in Nat, NEW size \in Nat, NEW s, NEW a, RowBytes',
         CanCommit(o), bytes <= ops[o].reserved, Has(usage', UsageFields),
         usage'.visible = usage.visible + size - ops[o].prior, usage'.visible <= VisibleLimit,
         usage'.allocated = usage.allocated + bytes, usage'.reserved = usage.reserved - ops[o].reserved, usage'.active = Nil,
         ops' = [ops EXCEPT ![o] = s], s.state = "COMMITTED", s.committed = bytes, s.released = ops[o].released,
         auth' = [auth EXCEPT ![ops[o].key] = a], SizeAt(a) \in Nat, SizeAt(a) <= size
  PROVE  Accounts'
<1>0. Has(ops, Ops) /\ Has(auth, Keys) /\ OpBytes(ops[o]) /\ o # Nil
  BY ManagedAssumption DEF GenInvariant, GenShapes, RowBytes
<1>1. ops'[o] = s /\ \A b \in Ops \ {o} : ops'[b] = ops[b]
  BY <1>0 DEF Has
<1>2. /\ ops[o].committed = 0 /\ ops[o].released = 0 /\ ops[o].reserved \in Nat /\ ops[o].key \in Keys
      /\ usage.active = o /\ ops[o].prior = SizeAt(auth[ops[o].key])
  BY <1>0 DEF OpBytes, CanCommit, Terminal
<1>3. ChargedBytes' = ChargedBytes + bytes
  <2>1. ChargedBytes' = ChargedBytes - (ops[o].committed - ops[o].released) + (s.committed - s.released) /\ ChargedBytes \in Nat
    BY <1>0, ChargedChange, ChargedIsNat
  <2> QED BY <1>2, <2>1
<1>4. CurrentBytes' = CurrentBytes - ops[o].prior + SizeAt(a) /\ ops[o].prior \in Nat /\ ops[o].prior <= CurrentBytes /\ CurrentBytes \in Nat
  BY <1>0, <1>2, CurrentChange, CurrentIsNat
<1>5. /\ usage.visible \in Nat /\ usage.allocated \in Nat /\ usage.reserved \in Nat
      /\ usage.allocated = ChargedBytes /\ usage.reserved = ops[o].reserved
  BY <1>0, <1>2 DEF Accounts, UsageRow, UsageExact
<1>6. CurrentBytes <= usage.visible /\ usage.allocated + usage.reserved <= VisibleLimit + Headroom
  BY DEF Accounts, QuotaCovers
<1>7. UsageRow'
  BY <1>2, <1>4, <1>5, <1>6 DEF UsageRow
<1>8. UsageExact'
  BY <1>3, <1>5 DEF UsageExact
<1>9. QuotaCovers'
  BY <1>2, <1>4, <1>5, <1>6, ManagedAssumption DEF QuotaCovers
<1> QED BY <1>7, <1>8, <1>9 DEF Accounts

\* The ledger counts the versions of a write.
LEMMA VersionsCounted == ASSUME IsFiniteSet(ledger), NEW w PROVE Cardinality(ChildVersions(w)) \in Nat
<1>1. ChildVersions(w) \subseteq ledger
  BY DEF ChildVersions
<1> QED BY <1>1, FS_Subset, FS_CardinalityType

\* The commit of a PUT and of a DELETE.
LEMMA PutCommits ==
  ASSUME GenInvariant, RowBytes, Accounts, IsFiniteSet(ledger), NEW o \in Ops, CommitLogicalPut(o)
  PROVE  RowBytes' /\ Accounts'
<1>0. /\ Has(ops, Ops) /\ Has(ops[o], OpFields) /\ ops = [ops EXCEPT ![o] = ops[o]] /\ OpBytes(ops[o]) /\ Has(auth, Keys)
      /\ Has(usage, UsageFields) /\ usage.visible \in Nat /\ \A k \in Keys : AuthBytes(auth[k])
  BY DEF GenInvariant, GenShapes, Has, RowBytes, Accounts, UsageRow, AuthBytes
<1>1. CASE Goto(o, "failed") /\ UNCHANGED <<usage, ops, auth>>
  BY <1>0, <1>1, GotoStays
<1>2. CASE /\ CanCommit(o) /\ PutFits(o) /\ Goto(o, "done")
           /\ auth' = [auth EXCEPT ![ops[o].key] = Published(o)]
           /\ usage' = [usage EXCEPT !.visible = @ + ops[o].size - ops[o].prior, !.allocated = @ + Allocation(o),
                                     !.reserved = @ - ops[o].reserved, !.active = Nil]
           /\ ops' = [ops EXCEPT ![o].state = "COMMITTED", ![o].committed = Allocation(o)]
  <2> DEFINE a == Published(o)
             bytes == Allocation(o)
             s == [ops[o] EXCEPT !.state = "COMMITTED", !.committed = bytes]
  <2>1. ops[o].size \in Nat /\ bytes \in Nat /\ bytes <= ops[o].reserved
    <3>1. ops[o].size \in Nat /\ Cardinality(ChildVersions(Child(o))) \in Nat
      BY <1>0, <1>2, VersionsCounted DEF CanCommit, OpBytes
    <3> QED BY <1>2, <3>1 DEF Allocation, PutFits
  <2>2. a.size = ops[o].size /\ a.tombstone = FALSE
    BY DEF Published
  <2>3. AuthBytes(a) /\ SizeAt(a) \in Nat /\ SizeAt(a) <= ops[o].size
    <3> HIDE DEF a, bytes
    <3>1. SizeAt(a) = a.size \/ SizeAt(a) = 0
      BY DEF SizeAt
    <3>2. SizeAt(a) \in Nat /\ SizeAt(a) <= ops[o].size
      BY <2>1, <2>2, <3>1
    <3>3. AuthBytes(a)
      BY <2>1, <2>2 DEF AuthBytes
    <3> QED BY <3>2, <3>3
  <2>4. /\ OpBytes(s) /\ s.state = "COMMITTED" /\ s.committed = bytes /\ s.released = ops[o].released
    <3> HIDE DEF bytes
    <3> QED BY <1>0, <1>2, <2>1 DEF OpBytes, CanCommit, Has, OpFields, Terminal
  <2>5. ops' = [ops EXCEPT ![o] = s] /\ auth' = [auth EXCEPT ![ops[o].key] = a]
    BY <1>2
  <2>6. ops[o].prior = SizeAt(auth[ops[o].key]) /\ ops[o].key \in Keys
    BY <1>0, <1>2 DEF CanCommit, OpBytes
  <2>7. ops[o].prior \in Nat
    BY <2>6, CurrentIsNat
  <2>8. /\ Has(usage', UsageFields) /\ usage'.visible = usage.visible + ops[o].size - ops[o].prior
        /\ usage'.allocated = usage.allocated + bytes /\ usage'.reserved = usage.reserved - ops[o].reserved /\ usage'.active = Nil
    <3> HIDE DEF bytes
    <3>1. usage' = [usage EXCEPT !.visible = @ + ops[o].size - ops[o].prior, !.allocated = @ + bytes,
                                 !.reserved = @ - ops[o].reserved, !.active = Nil]
      BY <1>2 DEF bytes
    <3> QED BY <1>0, <3>1 DEF Has, UsageFields
  <2>9. usage'.visible <= VisibleLimit
    BY <1>0, <1>2, <2>1, <2>7, <2>8, ManagedAssumption DEF PutFits
  <2>10. \A k \in Keys : AuthBytes(auth'[k])
    <3> HIDE DEF a
    <3> QED BY <1>0, <2>3, <2>5 DEF Has
  <2> HIDE DEF a, s, bytes
  <2>11. RowBytes'
    BY <1>2, <2>4, <2>5, <2>10, GotoBytes
  <2> QED BY <1>2, <2>1, <2>3, <2>4, <2>5, <2>8, <2>9, <2>11, Commits
<1> QED BY <1>0, <1>1, <1>2 DEF CommitLogicalPut

\* The commit of a DELETE.
LEMMA DeleteCommits ==
  ASSUME GenInvariant, RowBytes, Accounts, NEW o \in Ops, CommitLogicalDelete(o)
  PROVE  RowBytes' /\ Accounts'
<1>0. /\ Has(ops, Ops) /\ Has(ops[o], OpFields) /\ ops = [ops EXCEPT ![o] = ops[o]] /\ OpBytes(ops[o]) /\ Has(auth, Keys)
      /\ Has(usage, UsageFields) /\ usage.visible \in Nat /\ usage.allocated \in Nat /\ usage.reserved \in Nat
      /\ \A k \in Keys : AuthBytes(auth[k])
  BY DEF GenInvariant, GenShapes, Has, RowBytes, Accounts, UsageRow, AuthBytes
<1>1. CASE Goto(o, "failed") /\ UNCHANGED <<usage, ops, auth>>
  BY <1>0, <1>1, GotoStays
<1>2. CASE /\ CanCommitDelete(o) /\ Goto(o, "done")
           /\ auth' = [auth EXCEPT ![ops[o].key] = Tombstone(o, ops[o].cas)]
           /\ usage' = [usage EXCEPT !.visible = @ - ops[o].prior, !.active = Nil]
           /\ ops' = [ops EXCEPT ![o].state = "COMMITTED"]
  <2> DEFINE a == Tombstone(o, ops[o].cas)
             s == [ops[o] EXCEPT !.state = "COMMITTED"]
  <2>1. AuthBytes(a) /\ SizeAt(a) = 0
    BY DEF AuthBytes, SizeAt, Tombstone
  <2>2. CanCommit(o) /\ ops[o].reserved = 0 /\ ops[o].prior <= usage.visible
    BY <1>2 DEF CanCommitDelete
  <2>3. /\ OpBytes(s) /\ s.state = "COMMITTED" /\ s.committed = ops[o].committed /\ s.released = ops[o].released
        /\ ops[o].committed = 0
    BY <1>0, <2>2 DEF OpBytes, CanCommit, Has, OpFields, Terminal
  <2>4. ops' = [ops EXCEPT ![o] = s] /\ auth' = [auth EXCEPT ![ops[o].key] = a]
    BY <1>2
  <2>5. ops[o].prior = SizeAt(auth[ops[o].key]) /\ ops[o].key \in Keys
    BY <1>0, <2>2 DEF CanCommit, OpBytes
  <2>6. ops[o].prior \in Nat
    BY <2>5, CurrentIsNat
  <2>7. /\ Has(usage', UsageFields) /\ usage'.visible = usage.visible - ops[o].prior
        /\ usage'.allocated = usage.allocated /\ usage'.reserved = usage.reserved /\ usage'.active = Nil
    BY <1>0, <1>2 DEF Has, UsageFields
  <2>8. usage.visible <= VisibleLimit
    BY DEF Accounts, QuotaCovers
  <2>9. /\ usage'.visible = usage.visible + 0 - ops[o].prior /\ usage'.visible <= VisibleLimit
        /\ usage'.allocated = usage.allocated + 0 /\ usage'.reserved = usage.reserved - ops[o].reserved
    BY <1>0, <2>2, <2>6, <2>7, <2>8, ManagedAssumption
  <2>10. \A k \in Keys : AuthBytes(auth'[k])
    <3> HIDE DEF a
    <3> QED BY <1>0, <2>1, <2>4 DEF Has
  <2> HIDE DEF a, s
  <2>11. RowBytes'
    BY <1>2, <2>3, <2>4, <2>10, GotoBytes
  <2>12. 0 <= ops[o].reserved /\ 0 \in Nat /\ SizeAt(a) \in Nat /\ SizeAt(a) <= 0
    BY <2>1, <2>2
  <2> QED BY <2>2, <2>3, <2>4, <2>7, <2>9, <2>11, <2>12, Commits
<1> QED BY <1>0, <1>1, <1>2 DEF CommitLogicalDelete

\* The proofs that an operation is aborted.
LEMMA AbortsProved ==
  ASSUME GenInvariant, RowBytes, Accounts, IsFiniteSet(ledger), NEW o \in Ops, ProveLogicalAbort(o) \/ ProvePhysicalAbort(o)
  PROVE  RowBytes' /\ Accounts'
<1>0. /\ Has(ops, Ops) /\ Has(ops[o], OpFields) /\ ops = [ops EXCEPT ![o] = ops[o]] /\ OpBytes(ops[o]) /\ Has(put, Ops)
      /\ put = [put EXCEPT ![o] = put[o]] /\ PutBytes(put[o]) /\ \A k \in Keys : AuthBytes(auth[k])
  BY DEF GenInvariant, GenShapes, Has, RowBytes, AuthBytes
<1>1. CASE ProveLogicalAbort(o)
  <2> DEFINE s == [ops[o] EXCEPT !.state = "PROVEN_ABORTED"]
  <2>1. UNCHANGED auth /\ Goto(o, "failed") /\ (\/ UNCHANGED <<usage, ops>>
                                                \/ CanProveAbort(o) /\ usage' = Released(o, 0) /\ ops' = [ops EXCEPT ![o] = s])
    BY <1>1 DEF ProveLogicalAbort
  <2>2. CASE UNCHANGED <<usage, ops>>
    BY <1>0, <2>1, <2>2, GotoStays
  <2>3. CASE CanProveAbort(o) /\ usage' = Released(o, 0) /\ ops' = [ops EXCEPT ![o] = s]
    <3>1. /\ OpBytes(s) /\ s.state = "PROVEN_ABORTED" /\ s.committed = 0 /\ s.released = ops[o].released /\ 0 <= ops[o].reserved
      BY <1>0, <2>3 DEF OpBytes, CanProveAbort, Has, OpFields, Terminal
    <3> HIDE DEF s
    <3>2. RowBytes'
      BY <1>0, <2>1, <2>3, <3>1, GotoBytes
    <3>3. 0 \in Nat /\ UNCHANGED auth
      BY <2>1
    <3> QED BY <2>3, <3>1, <3>2, <3>3, Aborts
  <2> QED BY <2>1, <2>2, <2>3
<1>2. CASE ProvePhysicalAbort(o)
  <2>1. PICK left, bytes : /\ left = Cardinality(ChildVersions(Child(o))) /\ bytes = left * ops[o].size
    OBVIOUS
  <2> DEFINE s == [ops[o] EXCEPT !.state = "PROVEN_ABORTED", !.committed = bytes]
  <2>2. /\ CanProveAbort(o) /\ ops[o].size # Nil /\ bytes <= ops[o].reserved /\ usage' = Released(o, bytes)
        /\ ops' = [ops EXCEPT ![o] = s] /\ UNCHANGED <<auth, put>>
    BY <1>2, <2>1 DEF ProvePhysicalAbort
  <2>3. bytes \in Nat
    <3>1. left \in Nat
      BY <2>1, VersionsCounted
    <3>2. ops[o].size \in Nat
      BY <1>0, <2>2 DEF OpBytes
    <3> QED BY <2>1, <3>1, <3>2
  <2>4. OpBytes(s) /\ s.state = "PROVEN_ABORTED" /\ s.committed = bytes /\ s.released = ops[o].released
    BY <1>0, <2>2, <2>3 DEF OpBytes, CanProveAbort, Has, OpFields, Terminal
  <2> HIDE DEF s
  <2>5. RowBytes'
    BY <1>0, <2>2, <2>4, OneBytes
  <2> QED BY <2>2, <2>3, <2>4, <2>5, Aborts
<1> QED BY <1>1, <1>2

\* The bytes a request may ask for.
LEMMA WantIsNat == ASSUME NEW m \in Nat, NEW free \in Nat PROVE Min({4 * m, Max({free, 1})}) \in Nat
<1>1. Max({free, 1}) \in {free, 1}
  <2>1. \E x \in {free, 1} : \A y \in {free, 1} : x >= y
    OBVIOUS
  <2> QED BY <2>1 DEF Max
<1>2. PICK most \in Nat : most = Max({free, 1})
  BY <1>1
<1>3. Min({4 * m, most}) \in {4 * m, most}
  <2>1. \E x \in {4 * m, most} : \A y \in {4 * m, most} : x <= y
    OBVIOUS
  <2> QED BY <2>1 DEF Min
<1> QED BY <1>2, <1>3

\* Every step of a request keeps the accounts.
LEMMA RequestAccounts ==
  ASSUME GenInvariant, RowBytes, Accounts, IsFiniteSet(ledger), NEW o \in Ops, RequestStep(o) PROVE RowBytes' /\ Accounts'
<1>0. /\ Has(ops, Ops) /\ Has(ops[o], OpFields) /\ ops = [ops EXCEPT ![o] = ops[o]] /\ OpBytes(ops[o]) /\ Has(put, Ops)
      /\ Has(put[o], PutFields) /\ PutBytes(put[o]) /\ (put[o].pc \in Uninserted => ops[o].state = "NONE")
  BY DEF GenInvariant, GenShapes, NotInserted, Has, RowBytes
<1>1. ASSUME NEW k \in Keys, ReadAuthority(o, k) PROVE RowBytes' /\ Accounts'
  <2> DEFINE r == [put[o] EXCEPT !.pc = "read", !.key = k, !.cas = CasAt(auth[k]), !.prior = SizeAt(auth[k])]
  <2>1. PutBytes(r)
    BY <1>0 DEF Has, PutFields, PutBytes
  <2>2. put' = [put EXCEPT ![o] = r] /\ ops' = ops /\ UNCHANGED <<usage, auth>>
    BY <1>1 DEF ReadAuthority
  <2> HIDE DEF r
  <2> QED BY <1>0, <2>1, <2>2, RequestStays
<1>2. CASE RouteFence(o)
  <2> DEFINE r == [put[o] EXCEPT !.pc = "fenced", !.epoch = ns.epoch, !.routing = ns.routing]
  <2>1. PutBytes(r)
    BY <1>0, <1>2 DEF Has, PutFields, PutBytes, RouteFence
  <2>2. put' = [put EXCEPT ![o] = r] /\ ops' = ops /\ UNCHANGED <<usage, auth>>
    BY <1>2 DEF RouteFence
  <2> HIDE DEF r
  <2> QED BY <1>0, <2>1, <2>2, RequestStays
<1>3. ASSUME NEW kind, InsertLogicalOperation(o, kind) PROVE RowBytes' /\ Accounts'
  <2> DEFINE s == [NoOp EXCEPT !.state = "INTENT", !.kind = kind, !.key = put[o].key,
                              !.backend = Placed(config).primary, !.version = config,
                              !.epoch = put[o].epoch, !.routing = put[o].routing,
                              !.cas = put[o].cas, !.prior = put[o].prior]
  <2>1. /\ put[o].pc = "fenced" /\ UNCHANGED <<usage, auth>>
        /\ (ops' = [ops EXCEPT ![o] = s] /\ Goto(o, "inserted")) \/ (Goto(o, "failed") /\ UNCHANGED ops)
    BY <1>3 DEF InsertLogicalOperation
  <2>2. put[o].key \in Keys /\ ops[o].state = "NONE"
    BY <1>0, <2>1 DEF PutBytes, Uninserted
  <2>3. s.state = "INTENT" /\ s.key = put[o].key /\ s.reserved = 0 /\ s.committed = 0 /\ s.released = 0 /\ s.size = Nil
    BY DEF NoOp
  <2> HIDE DEF s
  <2>4. OpBytes(s) /\ s.state \notin HoldsSlot /\ ops[o].state \notin HoldsSlot
    BY <2>2, <2>3 DEF OpBytes, HoldsSlot, Terminal
  <2>5. ops[o].reserved = 0 /\ ops[o].committed = 0 /\ ops[o].released = 0
    BY <1>0, <2>2 DEF OpBytes, Terminal
  <2> QED BY <1>0, <2>1, <2>3, <2>4, <2>5, GotoStays
<1>4. CASE ReadUsage(o)
  <2>1. PICK free, want : /\ free = IF usage.exists
                                    THEN IF usage.allocated + usage.reserved < VisibleLimit + Headroom
                                         THEN (VisibleLimit + Headroom) - (usage.allocated + usage.reserved) ELSE 0
                                    ELSE VisibleLimit
                          /\ want = IF ops[o].kind = "DELETE" THEN 0 ELSE Min({4 * MaxProcessed, Max({free, 1})})
    OBVIOUS
  <2>2. free \in Nat
    BY <2>1, ManagedAssumption DEF Accounts, UsageRow
  <2>3. want \in Nat
    <3>1. Min({4 * MaxProcessed, Max({free, 1})}) \in Nat
      BY <2>2, WantIsNat, ManagedAssumption
    <3> QED BY <2>1, <3>1
  <2> DEFINE r == [put[o] EXCEPT !.pc = "sized", !.resv = want]
  <2>4. PutBytes(r)
    BY <1>0, <2>3 DEF Has, PutFields, PutBytes
  <2>5. put' = [put EXCEPT ![o] = r] /\ ops' = ops /\ UNCHANGED <<usage, auth>>
    BY <1>4, <2>1 DEF ReadUsage
  <2> HIDE DEF r
  <2> QED BY <1>0, <2>4, <2>5, RequestStays
<1>5. ASSUME NEW size \in Sizes, VerifyOutput(o, size) PROVE RowBytes' /\ Accounts'
  <2> DEFINE r == [put[o] EXCEPT !.pc = "verified", !.size = size]
  <2>1. PutBytes(r)
    BY <1>0, ManagedAssumption DEF Has, PutFields, PutBytes
  <2>2. put' = [put EXCEPT ![o] = r] /\ ops' = ops /\ UNCHANGED <<usage, auth>>
    BY <1>5 DEF VerifyOutput
  <2> HIDE DEF r
  <2> QED BY <1>0, <2>1, <2>2, RequestStays
<1>6. CASE RecordLogicalUsage(o)
  <2> DEFINE s == [ops[o] EXCEPT !.size = OutputSize(o)]
  <2>1. OutputSize(o) \in Nat \cup {Nil}
    BY <1>0 DEF OutputSize, PutBytes
  <2>2. /\ OpBytes(s) /\ s.state = ops[o].state /\ s.reserved = ops[o].reserved
        /\ s.committed = ops[o].committed /\ s.released = ops[o].released
    BY <1>0, <2>1 DEF Has, OpFields, OpBytes
  <2>3. /\ UNCHANGED <<usage, auth>>
        /\ (ops' = [ops EXCEPT ![o] = s] /\ Goto(o, "recorded")) \/ (Goto(o, "aborting") /\ UNCHANGED ops)
    BY <1>6 DEF RecordLogicalUsage
  <2> HIDE DEF s
  <2> QED BY <1>0, <2>2, <2>3, GotoStays
<1>7. CASE TransitionLogicalOperation(o)
  <2> DEFINE s == [ops[o] EXCEPT !.state = "COMPLETING"]
  <2>1. /\ UNCHANGED <<usage, auth>>
        /\ \/ /\ ops[o].state = "OPEN" /\ ops' = [ops EXCEPT ![o] = s] /\ (Goto(o, "completing") \/ Goto(o, "ledgered"))
           \/ Goto(o, "aborting") /\ UNCHANGED ops
    BY <1>7 DEF TransitionLogicalOperation
  <2>2. /\ ops[o].state = "OPEN" => OpBytes(s)
        /\ s.state = "COMPLETING" /\ s.reserved = ops[o].reserved
        /\ s.committed = ops[o].committed /\ s.released = ops[o].released
    BY <1>0 DEF Has, OpFields, OpBytes, Terminal
  <2>3. "OPEN" \in HoldsSlot /\ "COMPLETING" \in HoldsSlot
    BY DEF HoldsSlot
  <2> HIDE DEF s
  <2>4. CASE Goto(o, "aborting") /\ UNCHANGED ops
    BY <1>0, <2>1, <2>4, GotoStays
  <2>5. ASSUME NEW pc \in {"completing", "ledgered"}, ops[o].state = "OPEN", ops' = [ops EXCEPT ![o] = s], Goto(o, pc)
        PROVE  RowBytes' /\ Accounts'
    BY <2>1, <2>2, <2>3, <2>5, GotoStays
  <2> QED BY <2>1, <2>4, <2>5
<1>8. CASE /\ \/ BeginPhysicalWrite(o) \/ BeginJournal(o) \/ BeginJournalFails(o) \/ WriteFails(o) \/ CompleteChild(o)
              \/ CompleteRefused(o) \/ CommitPhysicalWrite(o) \/ AbortChild(o) \/ AbortAtProvider(o)
              \/ WithdrawIntent(o) \/ Crash(o)
  <2>1. PICK pc : pc \notin {"read", "fenced"} /\ Goto(o, pc) /\ UNCHANGED <<usage, auth, ops>>
    BY <1>8 DEF BeginPhysicalWrite, BeginJournal, BeginJournalFails, WriteFails, CompleteChild,
              CompleteRefused, CommitPhysicalWrite, AbortChild, AbortAtProvider, WithdrawIntent, Crash
  <2> QED BY <1>0, <2>1, GotoStays
<1> QED BY <1>1, <1>2, <1>3, <1>4, <1>5, <1>6, <1>7, <1>8, Reserves, AbortsProved, PutCommits, DeleteCommits DEF RequestStep

\* A row of the authority changes and keeps its size, or loses it.
LEMMA AuthorityStays ==
  ASSUME GenInvariant, RowBytes, Accounts, NEW k, NEW a, auth' = [auth EXCEPT ![k] = a], UNCHANGED <<usage, ops, put>>,
         k \in Keys => AuthBytes(a) /\ SizeAt(a) <= SizeAt(auth[k])
  PROVE  RowBytes' /\ Accounts'
<1>1. Has(auth, Keys)
  BY DEF GenInvariant, GenShapes
<1>2. \A j \in Keys : auth'[j] = auth[j] \/ (j = k /\ auth'[j] = a)
  BY <1>1 DEF Has
<1>3. \A j \in Keys : AuthBytes(auth[j]) /\ SizeAt(auth[j]) \in Nat
  BY CurrentIsNat DEF RowBytes, AuthBytes
<1>4. \A j \in Keys : AuthBytes(auth'[j]) /\ SizeAt(auth'[j]) <= SizeAt(auth[j])
  BY <1>2, <1>3
<1>5. RowBytes'
  BY <1>4 DEF RowBytes, AuthBytes, OpBytes, PutBytes
<1> QED BY <1>4, <1>5, AccountsStay

\* Nothing the accounts speak of changes.
LEMMA AccountsSame ==
  ASSUME RowBytes, Accounts, UNCHANGED <<usage, ops, put, auth>> PROVE RowBytes' /\ Accounts'
<1>1. RowBytes'
  BY DEF RowBytes, OpBytes, PutBytes
<1>2. \A j \in Keys : SizeAt(auth[j]) \in Nat /\ SizeAt(auth'[j]) <= SizeAt(auth[j])
  BY CurrentIsNat
<1> QED BY <1>1, <1>2, AccountsStay

\* A completed copy changes where an object is, never its size.
LEMMA AppliedSize ==
  ASSUME NEW a, a # Nil, Has(a, AuthFields), NEW key, NEW r, AuthBytes(a)
  PROVE  AuthBytes(Applied(a, key, r)) /\ SizeAt(Applied(a, key, r)) <= SizeAt(a)
<1> DEFINE b == IF key[1] = "PLACEMENT" THEN ApplyPlacement(a, key[3], r) ELSE ApplyCopy(a, key[3], r)
           moved == IF r.role = "PRIMARY"
                    THEN [a EXCEPT !.primary = key[3], !.primaryStatus = "READY",
                                   !.replica = IF r.replica = Nil THEN Nil ELSE @,
                                   !.replicaStatus = IF r.replica = Nil THEN "ABSENT" ELSE @]
                    ELSE [a EXCEPT !.replica = key[3], !.replicaStatus = "READY"]
<1>1. Has(ApplyCopy(a, key[3], r), AuthFields) /\ ApplyCopy(a, key[3], r).size = a.size /\ ApplyCopy(a, key[3], r).tombstone = a.tombstone
  BY DEF ApplyCopy, Has, AuthFields
<1>2. Has(moved, AuthFields) /\ moved.size = a.size /\ moved.tombstone = a.tombstone
  BY DEF Has, AuthFields
<1>3. PICK version : ApplyPlacement(a, key[3], r) = [moved EXCEPT !.version = version]
  BY DEF ApplyPlacement
<1>4. Has(b, AuthFields) /\ b.size = a.size /\ b.tombstone = a.tombstone
  <2> HIDE DEF moved
  <2>1. Has(ApplyPlacement(a, key[3], r), AuthFields) /\ ApplyPlacement(a, key[3], r).size = a.size
        /\ ApplyPlacement(a, key[3], r).tombstone = a.tombstone
    BY <1>2, <1>3 DEF Has, AuthFields
  <2> QED BY <1>1, <2>1
<1>5. Applied(a, key, r) = [b EXCEPT !.cas = a.cas + 1]
  BY DEF Applied
<1> HIDE DEF b
<1> DEFINE c == Applied(a, key, r)
<1>6. c.size = a.size /\ c.tombstone = a.tombstone
  BY <1>4, <1>5 DEF Has, AuthFields
<1> HIDE DEF c
<1>7. a.size \in Nat /\ a.tombstone \in BOOLEAN
  BY DEF AuthBytes
<1>8. SizeAt(c) \in {0, SizeAt(a)} /\ SizeAt(a) \in Nat
  BY <1>6, <1>7 DEF SizeAt
<1>9. AuthBytes(c) /\ SizeAt(c) <= SizeAt(a)
  BY <1>6, <1>7, <1>8 DEF AuthBytes
<1> QED BY <1>9 DEF c

\* A cleanup that forgets the last version of a write releases its bytes.
LEMMA ForgetReleases ==
  ASSUME CoverInvariant, RowBytes, Accounts, NEW v, ForgetEffects(v), UNCHANGED <<auth, put>> PROVE RowBytes' /\ Accounts'
<1>1. CASE UNCHANGED <<usage, ops>>
  BY <1>1, AccountsSame
<1>2. PICK o, free : o = v.write.gen /\ free = ops[o].committed - ops[o].released
  OBVIOUS
<1>3. CASE /\ \E l \in ledger : l.write = v.write
           /\ v.write.by = "PUT" /\ free > 0
           /\ usage' = [usage EXCEPT !.allocated = @ - free]
           /\ ops' = [ops EXCEPT ![o].released = ops[o].committed]
  <2>1. o \in Ops
    <3>1. IsWrite(v.write)
      BY <1>3 DEF CoverInvariant, KnownBegun, Over
    <3> QED BY <1>2, <1>3, <3>1 DEF IsWrite, CopyKinds
  <2>2. /\ Has(ops, Ops) /\ Has(ops[o], OpFields) /\ OpBytes(ops[o]) /\ Has(put, Ops) /\ PutBytes(put[o])
        /\ put = [put EXCEPT ![o] = put[o]] /\ GenInvariant
    BY <2>1 DEF CoverInvariant, GenInvariant, GenShapes, RowBytes, Has
  <2> DEFINE s == [ops[o] EXCEPT !.released = ops[o].committed]
  <2>3. ops' = [ops EXCEPT ![o] = s]
    BY <1>3
  <2>4. /\ OpBytes(s) /\ s.state = ops[o].state /\ s.reserved = ops[o].reserved
        /\ s.committed = ops[o].committed /\ s.released = ops[o].committed
    <3>1. /\ s.state = ops[o].state /\ s.reserved = ops[o].reserved /\ s.key = ops[o].key /\ s.size = ops[o].size
          /\ s.committed = ops[o].committed /\ s.released = ops[o].committed
      BY <2>2 DEF Has, OpFields
    <3> HIDE DEF s
    <3> QED BY <2>2, <3>1 DEF OpBytes
  <2> HIDE DEF s
  <2>5. RowBytes'
    BY <2>1, <2>2, <2>3, <2>4, OneBytes DEF RowBytes, AuthBytes
  <2>6. ops'[o] = s /\ \A a \in Ops \ {o} : ops'[a] = ops[a]
    BY <2>1, <2>2, <2>3 DEF Has
  <2>7. /\ free \in Nat /\ ops[o].committed \in Nat /\ ops[o].released \in Nat
    BY <1>2, <2>2 DEF OpBytes
  <2>8. ChargedBytes' = ChargedBytes - free /\ ChargedBytes \in Nat /\ free <= ChargedBytes
    <3>1. ChargedBytes' = ChargedBytes - (ops[o].committed - ops[o].released) + (s.committed - s.released) /\ ChargedBytes \in Nat
          /\ ops[o].committed - ops[o].released <= ChargedBytes
      BY <2>1, <2>2, <2>3, <2>5, ChargedChange, ChargedIsNat
    <3> QED BY <1>2, <2>4, <2>7, <3>1
  <2>9. /\ usage.visible \in Nat /\ usage.allocated \in Nat /\ usage.reserved \in Nat /\ Has(usage, UsageFields)
        /\ usage.allocated = ChargedBytes
    BY DEF Accounts, UsageRow, UsageExact
  <2>10. /\ Has(usage', UsageFields) /\ usage'.visible = usage.visible /\ usage'.allocated = usage.allocated - free
         /\ usage'.reserved = usage.reserved /\ usage'.active = usage.active
    BY <1>3, <2>9 DEF Has, UsageFields
  <2>11. UsageRow'
    BY <2>4, <2>6, <2>7, <2>8, <2>9, <2>10 DEF Accounts, UsageRow
  <2>12. UsageExact'
    <3>1. \A a \in Ops : ops'[a].state = ops[a].state /\ ops'[a].reserved = ops[a].reserved
      BY <2>4, <2>6
    <3> QED BY <2>8, <2>9, <2>10, <3>1 DEF Accounts, UsageExact, UsageRow
  <2>13. CurrentBytes' = CurrentBytes
    BY DEF CurrentBytes
  <2>14. QuotaCovers'
    BY <2>7, <2>9, <2>10, <2>13, ManagedAssumption DEF Accounts, QuotaCovers
  <2> QED BY <2>5, <2>11, <2>12, <2>14 DEF Accounts
<1> QED BY <1>1, <1>2, <1>3 DEF ForgetEffects

\* The steps of a worker.
LEMMA WorkerAccounts ==
  ASSUME CoverInvariant, RowBytes, Accounts, NEW i \in Workers, WorkerProgress(i) \/ WorkerCrash(i) PROVE RowBytes' /\ Accounts'
<1>0. GenInvariant
  BY DEF CoverInvariant
<1>1. CASE UNCHANGED <<usage, ops, put, auth>>
  BY <1>1, AccountsSame
<1>2. CASE ForgetVersion(i)
  BY <1>2, ForgetReleases DEF ForgetVersion
<1>3. CASE CompleteRepair(i)
  <2>1. UNCHANGED <<usage, ops, put>> /\ (\/ UNCHANGED auth
          \/ \E k \in Keys : AppliesTo(i, k) /\ auth' = [auth EXCEPT ![k] = Applied(auth[k], worker[i].key, worker[i].row)])
    BY <1>3 DEF CompleteRepair
  <2>2. ASSUME NEW k \in Keys, AppliesTo(i, k), auth' = [auth EXCEPT ![k] = Applied(auth[k], worker[i].key, worker[i].row)]
        PROVE  RowBytes' /\ Accounts'
    <3>1. auth[k] # Nil /\ Has(auth[k], AuthFields) /\ AuthBytes(auth[k])
      BY <1>0, <2>2 DEF AppliesTo, RepairApplies, GenInvariant, GenShapes, RowBytes, AuthBytes
    <3>2. PICK a : a = Applied(auth[k], worker[i].key, worker[i].row)
      OBVIOUS
    <3>3. AuthBytes(a) /\ SizeAt(a) <= SizeAt(auth[k])
      BY <3>1, <3>2, AppliedSize
    <3> QED BY <1>0, <2>1, <2>2, <3>2, <3>3, AuthorityStays
  <2> QED BY <1>1, <2>1, <2>2
<1> QED BY <1>1, <1>2, <1>3 DEF WorkerProgress, WorkerCrash, SelectCandidate, ClaimRepair, OpenSource, BeginCopy, BeginCopyJournal, BeginCopyFails, StoreCopy,
       CopyFails, SettleCopy, CheckCleanup, ListCleanup, DeleteVersion, FailRepair, writeVars

\* The placement reconciler advances the version of a row.
LEMMA AdvanceAccounts ==
  ASSUME GenInvariant, RowBytes, Accounts, AdvancePlacementVersion PROVE RowBytes' /\ Accounts'
<1>1. UNCHANGED <<usage, ops, put>>
  BY DEF AdvancePlacementVersion
<1>2. PICK k, version, cas : auth' = auth \/ (auth[k] # Nil /\ auth' = [auth EXCEPT ![k] = [@ EXCEPT !.version = version, !.cas = cas]])
  BY DEF AdvancePlacementVersion, Unmoved
<1>3. CASE auth' = auth
  BY <1>1, <1>3, AccountsSame
<1>4. CASE auth[k] # Nil /\ auth' = [auth EXCEPT ![k] = [@ EXCEPT !.version = version, !.cas = cas]]
  <2> DEFINE a == [auth[k] EXCEPT !.version = version, !.cas = cas]
  <2>1. ASSUME k \in Keys PROVE AuthBytes(a) /\ SizeAt(a) <= SizeAt(auth[k])
    <3>1. Has(auth[k], AuthFields) /\ auth[k].size \in Nat /\ auth[k].tombstone \in BOOLEAN
      BY <1>4, <2>1 DEF GenInvariant, GenShapes, RowBytes
    <3>2. a.size = auth[k].size /\ a.tombstone = auth[k].tombstone
      BY <3>1 DEF Has, AuthFields
    <3> HIDE DEF a
    <3>3. SizeAt(a) \in {0, SizeAt(auth[k])} /\ SizeAt(auth[k]) \in Nat
      BY <1>4, <3>1, <3>2 DEF SizeAt
    <3> QED BY <3>1, <3>2, <3>3 DEF AuthBytes
  <2>2. auth' = [auth EXCEPT ![k] = a]
    BY <1>4 DEF GenInvariant, GenShapes, Has
  <2> HIDE DEF a
  <2> QED BY <1>1, <2>1, <2>2, AuthorityStays
<1> QED BY <1>2, <1>3, <1>4

\* A DELETE request that journals nothing leaves its object charged.
LEMMA TombstoneAccounts ==
  ASSUME GenInvariant, RowBytes, Accounts, NEW k \in Keys, TombstoneAuthoritative(k) PROVE RowBytes' /\ Accounts'
<1> DEFINE a == Tombstone(Nil, CasAt(auth[k]))
<1>1. UNCHANGED <<usage, ops, put>> /\ auth' = [auth EXCEPT ![k] = a]
  BY DEF TombstoneAuthoritative, GenInvariant, GenShapes, Has
<1>2. AuthBytes(a) /\ SizeAt(a) = 0
  BY DEF AuthBytes, SizeAt, Tombstone
<1>3. SizeAt(auth[k]) \in Nat
  BY CurrentIsNat
<1> HIDE DEF a
<1>4. SizeAt(a) <= SizeAt(auth[k])
  BY <1>2, <1>3
<1> QED BY <1>1, <1>2, <1>4, AuthorityStays

\* A purge that completes starts the workspace from nothing.
LEMMA FinalizerAccounts ==
  ASSUME GenInvariant, RowBytes, Accounts, NEW d \in Drivers, FinalizeComplete(d) PROVE RowBytes' /\ Accounts'
<1>1. /\ ops' = [o \in Ops |-> [ops[o] EXCEPT !.released = ops[o].committed]]
      /\ usage' = [usage EXCEPT !.visible = 0, !.allocated = 0, !.reserved = 0, !.active = Nil]
      /\ auth' = [k \in Keys |-> Nil] /\ UNCHANGED put
  BY DEF FinalizeComplete, NoAuthority
<1>2. ASSUME NEW o \in Ops
      PROVE  /\ OpBytes(ops'[o]) /\ ops'[o].state = ops[o].state /\ ops'[o].released = ops'[o].committed
             /\ ops'[o].committed \in Nat
  <2>1. Has(ops[o], OpFields) /\ OpBytes(ops[o])
    BY DEF GenInvariant, GenShapes, RowBytes
  <2> DEFINE s == [ops[o] EXCEPT !.released = ops[o].committed]
  <2>2. /\ s.state = ops[o].state /\ s.reserved = ops[o].reserved /\ s.key = ops[o].key /\ s.size = ops[o].size
        /\ s.committed = ops[o].committed /\ s.released = ops[o].committed
    BY <2>1 DEF Has, OpFields
  <2>3. ops'[o] = s
    BY <1>1
  <2> HIDE DEF s
  <2> QED BY <2>1, <2>2, <2>3 DEF OpBytes
<1>3. RowBytes'
  BY <1>1, <1>2 DEF RowBytes, PutBytes, OpBytes
<1>4. /\ Has(usage', UsageFields) /\ usage'.visible = 0 /\ usage'.allocated = 0 /\ usage'.reserved = 0 /\ usage'.active = Nil
  BY <1>1 DEF Accounts, UsageRow, Has, UsageFields
<1>5. ChargedBytes' = 0
  <2> DEFINE F == [o \in Ops |-> ops'[o].committed - ops'[o].released]
  <2>1. \A o \in Ops : F[o] = 0
    BY <1>2
  <2>2. ChargedBytes' = SumFunctionOnSet(F, Ops) /\ IsFiniteSet(Ops)
    BY ManagedAssumption DEF ChargedBytes, SumFunction
  <2> HIDE DEF F
  <2> QED BY <2>1, <2>2, SumZero
<1>6. CurrentBytes' = 0
  <2> DEFINE F == [k \in Keys |-> SizeAt(auth'[k])]
  <2>1. \A k \in Keys : F[k] = 0
    BY <1>1 DEF SizeAt
  <2>2. CurrentBytes' = SumFunctionOnSet(F, Keys) /\ IsFiniteSet(Keys)
    BY ManagedAssumption DEF CurrentBytes, SumFunction
  <2> HIDE DEF F
  <2> QED BY <2>1, <2>2, SumZero
<1>7. UsageRow' /\ UsageExact' /\ QuotaCovers'
  BY <1>4, <1>5, <1>6, ManagedAssumption DEF UsageRow, UsageExact, QuotaCovers
<1> QED BY <1>3, <1>7 DEF Accounts

\* Every step keeps the accounts.
LEMMA AccountsStep ==
  ASSUME CoverInvariant, RowBytes, Accounts, IsFiniteSet(ledger), [ManagedNext]_managedVars PROVE RowBytes' /\ Accounts'
<1>0. GenInvariant
  BY DEF CoverInvariant
<1>1. CASE UNCHANGED <<usage, ops, put, auth>>
  BY <1>1, AccountsSame
<1>2. CASE WriteStep
  BY <1>0, <1>1, <1>2, RequestAccounts, TombstoneAccounts DEF WriteStep, IntentStep, ChildStep, ExpireIntent, ReconcileIntent,
     ReconcileChild, AdvanceRoutingEpoch
<1>3. CASE RepairStep
  BY <1>0, <1>1, <1>3, WorkerAccounts, AdvanceAccounts DEF RepairStep, ExpireRepairLease, ExpireCopyIntent, PlacementStep,
     RaisePlacement, SurveyPlacement, Enqueue, OpenAuthoritative, HeadAuthoritative, writeVars
<1>4. ASSUME NEW d \in Drivers, DriverStep(d) PROVE RowBytes' /\ Accounts'
  BY <1>0, <1>1, <1>4, FinalizerAccounts DEF DriverStep, StartPurge, QueryPurge, ReadIntents, ReadTargets, FinalizeBlocked, FinalizeCounts,
     PurgeTargets, MarkPurgeTargetDeleted, MarkPurgeTargetBlocked, DeleteTarget, DriverCrash, writeVars
<1>5. ASSUME NEW u \in Uploads, MultipartStep(u) PROVE UNCHANGED <<usage, ops, put, auth>>
  BY <1>5 DEF MultipartStep, BeginMultipartActivity, CreateUpload, ConfirmMultipartActivity, WithdrawUpload,
     FinishMultipartActivity, RetireUpload, CreatorCrash, ExpireRegistration, ReconcileMultipartActivity, writeVars
<1> QED BY <1>1, <1>2, <1>3, <1>4, <1>5 DEF ManagedNext, managedVars, writeVars

\* The ledger stays finite: a commit adds the counted versions of one write.
LEMMA LedgerFinite ==
  ASSUME CoverInvariant, IsFiniteSet(ledger), [ManagedNext]_managedVars PROVE IsFiniteSet(ledger')
<1>1. CASE ledger' \subseteq ledger
  BY <1>1, FS_Subset
<1>2. ASSUME NEW w, w \in DOMAIN child, SettleFromJournal(w) \/ SettleCompleted(w) PROVE IsFiniteSet(ledger')
  <2>1. CASE UNCHANGED ledger
    BY <2>1
  <2>2. CASE ledger' = ledger \cup LedgerRows(w)
    <3>1. child[w].n \in Nat
      BY <1>2 DEF CoverInvariant, WriteShapes
    <3> DEFINE S == 1..child[w].n
               f == [j \in S |->
                       [write |-> w, n |-> j, epoch |-> intents[w].epoch,
                        state |-> IF ns.state = "PURGING" THEN "PURGE_PENDING" ELSE "LIVE",
                        purge |-> IF ns.state = "PURGING" THEN ns.purge ELSE Nil]]
    <3>2. IsFiniteSet(S)
      BY <3>1, FS_Interval
    <3>3. LedgerRows(w) = {f[j] : j \in S}
      BY DEF LedgerRows
    <3> HIDE DEF f, S
    <3>4. IsFiniteSet(LedgerRows(w))
      BY <3>2, <3>3, ImageFinite
    <3> QED BY <2>2, <3>4, FS_Union
  <2> QED BY <1>2, <2>1, <2>2, BothSettle DEF Settling, CommitIntent, DropIntent, BlockIntent
<1>3. ASSUME NEW f, ledger' = {f[l] : l \in ledger} PROVE IsFiniteSet(ledger')
  BY <1>3, ImageFinite
<1>4. ASSUME NEW o \in Ops, RequestStep(o) PROVE IsFiniteSet(ledger')
  <2>1. \/ UNCHANGED ledger
        \/ /\ put[o].pc \in AtWork /\ Child(o) \in DOMAIN intents
           /\ SettleFromJournal(Child(o)) \/ SettleCompleted(Child(o))
    BY <1>4 DEF RequestStep, ReadAuthority, RouteFence, InsertLogicalOperation, ReadUsage, ReserveLogicalOperation,
       BeginPhysicalWrite, BeginJournal, BeginJournalFails, VerifyOutput, WriteFails, RecordLogicalUsage,
       TransitionLogicalOperation, CompleteChild, CompleteRefused, CommitPhysicalWrite, AbortChild, AbortAtProvider, WithdrawIntent, ProveLogicalAbort,
       ProvePhysicalAbort, CommitLogicalPut, CommitLogicalDelete, Crash, WriterLease, DropIntent, AtWork
  <2>2. put[o].pc \in AtWork /\ Child(o) \in DOMAIN intents => Child(o) \in DOMAIN child
    BY DEF CoverInvariant, JournalsKept
  <2> QED BY <1>1, <1>2, <2>1, <2>2
<1>5. CASE WriteStep
  <2>1. ASSUME NEW w \in DOMAIN intents, ExpireIntent(w) \/ ReconcileIntent(w)
        PROVE  UNCHANGED ledger \/ (w \in DOMAIN child /\ SettleFromJournal(w))
    BY <2>1 DEF ExpireIntent, ReconcileIntent, BlockIntent
  <2> QED BY <1>1, <1>2, <1>4, <1>5, <2>1 DEF WriteStep, TombstoneAuthoritative, IntentStep, ChildStep, ReconcileChild, AdvanceRoutingEpoch
<1>6. ASSUME NEW i \in Workers, WorkerProgress(i) \/ WorkerCrash(i) PROVE IsFiniteSet(ledger')
  <2>1. CASE SettleCopy(i)
    <3>1. PICK c : c = RepairChild(i)
      OBVIOUS
    <3>2. UNCHANGED ledger \/ (c \in DOMAIN intents /\ SettleCompleted(c))
      BY <2>1, <3>1 DEF SettleCopy
    <3>4. c \in DOMAIN intents => c \in DOMAIN child
      BY <2>1, <3>1 DEF SettleCopy, CoverInvariant, JournalsKept, Writing
    <3> QED BY <1>1, <1>2, <3>2, <3>4
  <2>2. CASE ~ SettleCopy(i)
    <3>1. ledger' \subseteq ledger
      BY <1>6, <2>2 DEF WorkerProgress, WorkerCrash, SelectCandidate, ClaimRepair, OpenSource, BeginCopy, BeginCopyJournal, BeginCopyFails, StoreCopy, CopyFails,
         CheckCleanup, ListCleanup, ForgetVersion, ForgetEffects, DeleteVersion, CompleteRepair, FailRepair, writeVars
    <3> QED BY <1>1, <3>1
  <2> QED BY <2>1, <2>2
<1>7. CASE RepairStep
  BY <1>1, <1>6, <1>7 DEF RepairStep, ExpireRepairLease, ExpireCopyIntent, PlacementStep, RaisePlacement,
     AdvancePlacementVersion, SurveyPlacement, Enqueue, OpenAuthoritative, HeadAuthoritative, writeVars
<1>8. ASSUME NEW p, NEW epoch, NEW states, ledger' = Condemned(p, epoch, states) PROVE IsFiniteSet(ledger')
  <2> DEFINE f == [l \in ledger |-> IF l.epoch <= epoch /\ l.state \in states
                                    THEN [l EXCEPT !.state = "PURGE_PENDING", !.purge = p] ELSE l]
  <2>1. ledger' = {f[l] : l \in ledger}
    BY <1>8 DEF Condemned
  <2> HIDE DEF f
  <2> QED BY <1>3, <2>1
<1>9. ASSUME NEW d \in Drivers, MarkPurgeTargetBlocked(d) PROVE IsFiniteSet(ledger')
  <2>1. PICK p, v : p = driver[d].purge /\ v = driver[d].victim
    OBVIOUS
  <2> DEFINE f == [l \in ledger |-> IF l.write = v.write /\ l.n = v.n /\ l.purge = p THEN [l EXCEPT !.state = "PURGE_BLOCKED"] ELSE l]
  <2>2. ledger' = {f[l] : l \in ledger}
    BY <1>9, <2>1 DEF MarkPurgeTargetBlocked
  <2> HIDE DEF f
  <2> QED BY <1>3, <2>2
<1>10. ASSUME NEW d \in Drivers, DriverStep(d) PROVE IsFiniteSet(ledger')
  <2>1. ASSUME NEW p, StartPurge(d, p) PROVE IsFiniteSet(ledger')
    BY <1>8, <2>1 DEF StartPurge
  <2>2. CASE ReadTargets(d)
    BY <1>8, <2>2 DEF ReadTargets
  <2> QED BY <1>1, <1>9, <1>10, <2>1, <2>2 DEF DriverStep, QueryPurge, ReadIntents, FinalizeBlocked, FinalizeCounts, FinalizeComplete,
     PurgeTargets, MarkPurgeTargetDeleted, DeleteTarget, DriverCrash, writeVars
<1>11. ASSUME NEW u \in Uploads, MultipartStep(u) PROVE UNCHANGED ledger
  BY <1>11 DEF MultipartStep, BeginMultipartActivity, CreateUpload, ConfirmMultipartActivity, WithdrawUpload,
     FinishMultipartActivity, RetireUpload, CreatorCrash, ExpireRegistration, ReconcileMultipartActivity, writeVars
<1> QED BY <1>1, <1>5, <1>7, <1>10, <1>11 DEF ManagedNext, managedVars, writeVars

\* No bytes at the start.
LEMMA UsageInitially == ASSUME ManagedInit PROVE UsageInvariant
<1>1. /\ usage = [exists |-> FALSE, visible |-> 0, allocated |-> 0, reserved |-> 0, active |-> Nil]
      /\ ops = [o \in Ops |-> NoOp] /\ auth = [k \in Keys |-> Nil] /\ ledger = {}
      /\ put = [o \in Ops |-> [pc |-> "idle", key |-> Nil, cas |-> Nil, prior |-> 0, epoch |-> 0, routing |-> 0, resv |-> 0,
                               size |-> Nil]]
  BY DEF ManagedInit, Init
<1>2. CoverInvariant
  BY CoverInitially
<1>3. OpBytes(NoOp) /\ NoOp.state = "NONE" /\ NoOp.committed = 0 /\ NoOp.released = 0
  BY DEF OpBytes, NoOp, Terminal
<1>4. RowBytes
  BY <1>1, <1>3 DEF RowBytes, PutBytes
<1>5. UsageRow
  BY <1>1 DEF UsageRow, Has, UsageFields
<1>6. ChargedBytes = 0
  <2> DEFINE F == [o \in Ops |-> ops[o].committed - ops[o].released]
  <2>1. \A o \in Ops : F[o] = 0
    BY <1>1, <1>3
  <2>2. ChargedBytes = SumFunctionOnSet(F, Ops) /\ IsFiniteSet(Ops)
    BY ManagedAssumption DEF ChargedBytes, SumFunction
  <2> HIDE DEF F
  <2> QED BY <2>1, <2>2, SumZero
<1>7. CurrentBytes = 0
  <2> DEFINE F == [k \in Keys |-> SizeAt(auth[k])]
  <2>1. \A k \in Keys : F[k] = 0
    BY <1>1 DEF SizeAt
  <2>2. CurrentBytes = SumFunctionOnSet(F, Keys) /\ IsFiniteSet(Keys)
    BY ManagedAssumption DEF CurrentBytes, SumFunction
  <2> HIDE DEF F
  <2> QED BY <2>1, <2>2, SumZero
<1>9. UsageExact /\ QuotaCovers
  BY <1>1, <1>6, <1>7, ManagedAssumption DEF UsageExact, QuotaCovers
<1>10. IsFiniteSet(ledger)
  BY <1>1, FS_EmptySet
<1> QED BY <1>2, <1>4, <1>5, <1>9, <1>10 DEF UsageInvariant

\* Every step keeps the invariant.
LEMMA UsageStep == ASSUME UsageInvariant, [ManagedNext]_managedVars PROVE UsageInvariant'
<1>1. CoverInvariant /\ RowBytes /\ Accounts /\ IsFiniteSet(ledger)
  BY DEF UsageInvariant, Accounts
<1>2. CoverInvariant' /\ IsFiniteSet(ledger')
  BY <1>1, CoverStep, LedgerFinite
<1>3. RowBytes' /\ Accounts'
  BY <1>1, AccountsStep
<1> QED BY <1>2, <1>3 DEF UsageInvariant, Accounts

(* UsageExact for every number of operations and keys: the mutation slot is free or
   an open operation's, the reserved bytes of the usage row are those of that
   operation, and the allocated bytes are what operations committed and no cleanup has released,
   whatever order aborts, commits, cleanups and purges come in. *)
THEOREM UsageAddsUp == ManagedSpec => []UsageExact
<1>1. UsageInvariant => UsageExact
  BY DEF UsageInvariant
<1>2. ManagedInit => UsageInvariant
  BY UsageInitially
<1>3. UsageInvariant /\ [ManagedNext]_managedVars => UsageInvariant'
  BY UsageStep
<1> QED BY <1>1, <1>2, <1>3, PTL DEF ManagedSpec

(* QuotaCovers for every number of operations and keys: the objects of a workspace
   are covered by its visible bytes, those stay within the limit, and allocated and
   reserved bytes stay within limit and headroom. *)
THEOREM QuotaHolds == ManagedSpec => []QuotaCovers
<1>1. UsageInvariant => QuotaCovers
  BY DEF UsageInvariant
<1>2. ManagedInit => UsageInvariant
  BY UsageInitially
<1>3. UsageInvariant /\ [ManagedNext]_managedVars => UsageInvariant'
  BY UsageStep
<1> QED BY <1>1, <1>2, <1>3, PTL DEF ManagedSpec
=============================================================================
