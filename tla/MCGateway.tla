------------------------------- MODULE MCGateway -------------------------------
(* The parts of the gateway that share no state in memory, checked side by side:
   an initial state picks a part, and only that part moves.  Each part is an
   instance of its module, or of the module with its proofs, which extends it, so
   that theorems about the instance can cite them; the instances take turns at
   the variables v1 to v12, of which a part that has fewer leaves the last ones
   unused. *)
EXTENDS Naturals, Sequences, TLC, TLAPS

CONSTANTS
  ApiKeys, McpTokens, MaxRestarts, MaxAdmin, Callers, MaxAuthFaults,
  Requests, OperationsOf, MaxFaults, MaxCancels, SpoolQuota, SettlementAttempts, MaxWrites, MaxCrashes,
  Plugins, Components, WeightOf, CacheMax, Builders, MaxCatalog,
  Stages, DeploymentLimits, RequestedLimits, GuestFuel, CallFuel, RecordSizes,
  Schemas, Values, TargetLists, ClaimSets, MaxDepth, MaxClaims, MaxNodes, MaxRecords,
  Chunkings, FrameSizes, MaxChunks,
  SourceTexts, MaxRecordBytes, MaxCsvFields, MaxFrameBytes,
  ObjectKeys, ListPrefixes, Delimiters, PageSizes, MaxListWrites,
  Retries, MaxCompletions, MaxBillingFaults,
  Writes, Versions, MaxSwitches, MaxTokens,
  Sessions, Workers, QueueCapacity, Budget, NeedsOf,
  Pair          \* two requests that read one object

VARIABLES part, v1, v2, v3, v4, v5, v6, v7, v8, v9, v10, v11, v12

\* what each of the pair asks for
ReadsOf == [r \in Pair |-> {"transformed"}]

vars == <<part, v1, v2, v3, v4, v5, v6, v7, v8, v9, v10, v11, v12>>

Door == INSTANCE RequestProofs WITH
  store <- v1, memory <- v2, file <- v3, writer <- v4, revoked <- v5,
  expired <- v6, admin <- v7, caller <- v8, authFaults <- v9,
  avroUpload <- v1, retry <- v2, uploadLease <- v3, written <- v4, evidence <- v5,
  books <- v6, billingFaults <- v7,
  deploy <- v1, config <- v2, workspace <- v3, epochOf <- v4, write <- v5,
  lease <- v6, bound <- v7, recovery <- v8, places <- v9, calls <- v10,
  fence <- v11, forced <- v12,
  req <- v1, reservation <- v2, budget <- v3, object <- v4, stream <- v5,
  spool <- v6, reserved <- v7, crashes <- v8

\* The front door again, for the pair.
Readers == INSTANCE RequestProofs WITH
  store <- v1, memory <- v2, file <- v3, writer <- v4, revoked <- v5,
  expired <- v6, admin <- v7, caller <- v8, authFaults <- v9,
  avroUpload <- v1, retry <- v2, uploadLease <- v3, written <- v4, evidence <- v5,
  books <- v6, billingFaults <- v7,
  deploy <- v1, config <- v2, workspace <- v3, epochOf <- v4, write <- v5,
  lease <- v6, bound <- v7, recovery <- v8, places <- v9, calls <- v10,
  fence <- v11, forced <- v12,
  req <- v1, reservation <- v2, budget <- v3, object <- v4, stream <- v5,
  spool <- v6, reserved <- v7, crashes <- v8,
  Requests <- Pair, OperationsOf <- ReadsOf, MaxFaults <- 0, MaxCrashes <- 0

Execution == INSTANCE ExecutionProofs WITH
  plugin <- v1, order <- v2, cached <- v3, lru <- v4, weight <- v5,
  importing <- v6, builder <- v7, changes <- v8,
  limits <- v1, guests <- v2, session <- v3, inputBytes <- v4, stageBytes <- v5,
  outputBytes <- v6, fuelConsumed <- v7,
  used <- v1, queue <- v2, runs <- v3, call <- v4, guest <- v5, client <- v6

Pump == INSTANCE BinaryPump WITH
  job <- v1, plans <- v2, input <- v3, output <- v4

Body == INSTANCE BodyVerifier WITH
  body <- v1, arriving <- v2, verifier <- v3, verdict <- v4

Records == INSTANCE RecordDecoder WITH
  text <- v1, unread <- v2, decoder <- v3, decoded <- v4, decoding <- v5

Pages == INSTANCE Listing WITH
  source <- v1, present <- v2, fenced <- v3, lister <- v4, listWrites <- v5

-----------------------------------------------------------------------------
ASSUME PartsAssumption ==
  /\ Door!GateAssumption /\ Readers!GateAssumption /\ Door!ReadAssumption /\ Execution!CacheAssumption
  /\ Execution!PipelineAssumption /\ Execution!ExecutorAssumption /\ Records!DecoderLimits
  /\ Door!BillingAssumption /\ Door!RoutingAssumption /\ Door!AuthAssumption

Free12 == v12 = "unused"
Free11 == v11 = "unused" /\ Free12
Free10 == v10 = "unused" /\ Free11
Free9  == v9 = "unused" /\ Free10
Free8  == v8 = "unused" /\ Free9
Free7  == v7 = "unused" /\ Free8
Free6  == v6 = "unused" /\ Free7
Free5  == v5 = "unused" /\ Free6

Init ==
  \/ part = "authentication" /\ Door!AuthInit /\ Free10
  \/ part = "readers" /\ Readers!DoorInit /\ Free9
  \/ part = "requests" /\ Door!DoorInit /\ Free9
  \/ part = "plugins" /\ Execution!RegistryInit /\ Free9
  \/ part = "pipeline" /\ Execution!PipelineInit /\ Free8
  \/ part = "executor" /\ Execution!ExecutorInit /\ Free7
  \/ part = "conversion" /\ Pump!PumpInit /\ Free5
  \/ part = "body" /\ Body!BodyInit /\ Free5
  \/ part = "records" /\ Records!RecordInit /\ Free6
  \/ part = "listing" /\ Pages!ListInit /\ Free6
  \/ part = "billing" /\ Door!BillingInit /\ Free8
  \/ part = "routing" /\ Door!RoutingInit

Next ==
  \/ part = "authentication" /\ Door!AuthNext /\ UNCHANGED <<part, v10, v11, v12>>
  \/ part = "readers" /\ Readers!DoorNext /\ UNCHANGED <<part, v9, v10, v11, v12>>
  \/ part = "requests" /\ Door!DoorNext /\ UNCHANGED <<part, v9, v10, v11, v12>>
  \/ part = "plugins" /\ Execution!RegistryNext /\ UNCHANGED <<part, v9, v10, v11, v12>>
  \/ part = "pipeline" /\ Execution!PipelineNext /\ UNCHANGED <<part, v8, v9, v10, v11, v12>>
  \/ part = "executor" /\ Execution!ExecutorNext /\ UNCHANGED <<part, v7, v8, v9, v10, v11, v12>>
  \/ part = "conversion" /\ Pump!PumpNext /\ UNCHANGED <<part, v5, v6, v7, v8, v9, v10, v11, v12>>
  \/ part = "body" /\ Body!BodyNext /\ UNCHANGED <<part, v5, v6, v7, v8, v9, v10, v11, v12>>
  \/ part = "records" /\ Records!RecordNext /\ UNCHANGED <<part, v6, v7, v8, v9, v10, v11, v12>>
  \/ part = "listing" /\ Pages!ListNext /\ UNCHANGED <<part, v6, v7, v8, v9, v10, v11, v12>>
  \/ part = "billing" /\ Door!BillingNext /\ UNCHANGED <<part, v8, v9, v10, v11, v12>>
  \/ part = "routing" /\ Door!RoutingNext /\ UNCHANGED <<part>>

Spec == Init /\ [][Next]_vars

-----------------------------------------------------------------------------
(* A request that arrives after its credential's deletion was answered, or after
   its expiry, is never authenticated, and the snapshot on disk is what requests
   are served from (FileKeyStore, authenticate_headers). *)
RevokedRefused == part = "authentication" => Door!RevokedRefused

(* A reservation is given back only for a request that changed and disclosed
   nothing, and a success has been paid for (execute_data_request and the
   settlement of bodies). *)
SettledAsServed ==
  /\ part = "requests" => Door!SettledAsServed
  /\ part = "readers" => Readers!SettledAsServed

(* No path of a handler forgets its reservation but those with a reason: a
   failing control plane, a client or process gone, an unknown outcome, a body
   cut short, the early errors of the Avro form. *)
LeftOnlyWithCause ==
  /\ part = "requests" => Door!LeftOnlyWithCause
  /\ part = "readers" => Readers!LeftOnlyWithCause

(* What a client gets of a transformed object is of the content its preflight
   saw, whatever is written in between (direct and spooled reads); the quota the
   spools of two readers share counts those that exist, those whose file is being
   created and the reservations of readers that went away before it was, which
   nobody gives back (EncryptedReadSpool::begin). *)
ServedAsPreflighted ==
  /\ part = "requests" => Door!ServedAsPreflighted
  /\ part = "readers" => Readers!ServedAsPreflighted /\ Readers!QuotaExact

(* An eviction never costs the catalog a component it still names, and the
   cache's weight is that of its entries (EngineCache). *)
CacheKeepsCatalog == part = "plugins" => Execution!CacheKeepsCatalog

(* All plugins of an object together stay within the deployment's fuel, and a
   session reports what its guests burnt (PipelineSession). *)
FuelExact == part = "pipeline" => Execution!FuelExact

(* Two parties race for a task's permit and a third reserves against the total:
   the admitted memory is that of the tasks in their slots and of the guests that
   run, and a session that returned leaves neither (executor.rs, TaskPermit and
   abort_and_wait). *)
MemoryAccounted ==
  part = "executor" => Execution!MemoryAccounted /\ Execution!NoGuestOutlivesSession

(* A converted object has the source's schema and values everywhere but at the
   targets and below claimed paths, and no target's text (BinaryPump). *)
ConvertedAsPlanned ==
  part = "conversion" => Pump!SchemaOutsideClaims /\ Pump!TargetsHidden /\ Pump!NoOverlap

(* A body is accepted only as the payload its client signed, however it is cut
   into frames and whatever is lost, repeated or cut off (BodyVerifier). *)
AcceptedAsSent == part = "body" => Body!AcceptedAsSent

(* The records of a source that decodes are those of the whole text, whatever
   frames it arrives in (RecordDecoder). *)
RecordsAsWhole == part = "records" => Records!RecordsAsWhole

(* A listing read page by page has every steady key once and nothing twice
   (list_objects_v2 over all its sources). *)
ListedOnce == part = "listing" => Pages!ListedOnce

(* A completion that answers success has been charged, once, for the object that
   was committed, whichever retry does it (complete_staged_multipart). *)
ChargedForCommitted == part = "billing" => Door!ChargedForCommitted

(* A write and its recovery change only the store it was admitted to, however
   late a call arrives, and no switch overtakes an unsettled write unless an
   operator forces it (BackendResolver, fenced and the routing lease). *)
WrittenWhereAdmitted == part = "routing" => Door!WrittenWhereAdmitted

-----------------------------------------------------------------------------
(* What documents and comments of the repository say and TLC refutes: each holds
   of its module only in part (README, further counterexamples). *)

\* docs/security.md: a source that changed after the preflight is never served.
NeverServedChanged == part = "requests" => Door!NeverServedChanged

\* docs/security.md: a read cancelled before it disclosed anything is released.
CancelledDirectReleased == part = "requests" => Door!CancelledDirectReleased

\* pipeline.rs: the static resolver's fetches always hit the cache.
StaticFetchHits == part = "plugins" => Execution!StaticFetchHits

\* docs/adr/0005: every chunk split of an input gives the same result.
SplitIndependent == part = "records" => Records!SplitIndependent

\* control.rs: a released operation did not become billable.
CommittedNotReleased == part = "billing" => Door!CommittedNotReleased

\* backend.rs: hosted managed commits require a stable persisted fence.
ManagedCommitFenced == [][part = "routing" => Door!PublishFenced]_vars

-----------------------------------------------------------------------------
(* Instances *)

Symmetry == Permutations(Pair)

\* as BinaryPump numbers the segments
Items == 100
Logical == 102

MCOperationsOf ==
  [r \in Requests |->
     {"get", "transformed", "head", "delete", "abort", "list", "put", "parts", "initiate", "part"}]

MCWeightOf == [c \in Components |-> 1]

\* one session's pipeline needs one unit of memory, another's one or two
MCNeedsOf ==
  LET small == CHOOSE s \in Sessions : TRUE
  IN [s \in Sessions |-> IF s = small THEN {1} ELSE {1, 2}]

MCLimits ==
  [record |-> 2, finish |-> 1, input |-> 3, output |-> 4, factor |-> 1, slack |-> 1,
   plugins |-> 2, fuel |-> 5]
MCRequestedLimits ==
  {MCLimits, [MCLimits EXCEPT !.fuel = 9, !.output = 3],
   [MCLimits EXCEPT !.fuel = 2], [MCLimits EXCEPT !.plugins = 1]}

MCChunkings == {<<>>, << <<1>> >>, << <<1>>, <<2>> >>, << <<1, 2>>, <<1>> >>}

Texts(alphabet, n) == UNION {[1 .. k -> alphabet] : k \in 0 .. n}
MCSourceTexts ==
  [csv |-> Texts({"a", "q", "c", "r", "n"}, 5), text |-> Texts({"a", "r", "n", "u", "v"}, 4),
   json |-> Texts({"{", "}"}, 4)]

MCObjectKeys == {<<1>>, <<1, 2>>, <<1, 2, 1>>, <<1, 2, 3>>, <<1, 3>>, <<2>>}
MCPrefixes == {<<>>, <<1>>}
MCDelimiters == {<<>>, <<2>>, <<2, 1>>}

\* {1: string, 2: [{1: string?}]?}; {1: money, 2: string}; what the latter is
\* reduced to, and the same with a change nobody claimed
Node(kind, nullable, fields, type) ==
  [kind |-> kind, nullable |-> nullable, fields |-> fields, type |-> type]
Row == <<>> :> Node("record", FALSE, <<1, 2>>, "none")
StringAt(path, nullable) == path :> Node("string", nullable, <<>>, "none")
Reducible == Row @@ StringAt(<<1>>, FALSE) @@ StringAt(<<2>>, FALSE)
Nested ==
  Row @@ StringAt(<<1>>, FALSE) @@ <<2>> :> Node("array", TRUE, <<>>, "none")
      @@ <<2, Items>> :> Node("record", FALSE, <<1>>, "none")
      @@ StringAt(<<2, Items, 1>>, TRUE)
Money ==
  Row @@ <<1>> :> Node("custom", FALSE, <<>>, "money")
      @@ StringAt(<<1, Logical>>, FALSE) @@ StringAt(<<2>>, FALSE)
MCSchemas == {Nested, Money, Reducible, Row @@ StringAt(<<1>>, FALSE) @@ StringAt(<<2>>, TRUE)}

Stored(kind, type) == [kind |-> kind, type |-> type, text |-> "none"]
Plain == [kind |-> "string", type |-> "none", text |-> "plain"]
Null == Stored("null", "none")
Item(k) == <<Items, k>>
Root == <<>> :> Stored("record", "none")
First == << <<1, 0>> >> :> Plain
MCValues ==
  {Root @@ First @@ << <<2, 0>> >> :> Stored("array", "none")
     @@ <<<<2, 0>>, Item(1)>> :> Stored("record", "none") @@ <<<<2, 0>>, Item(1), <<1, 0>> >> :> Null
     @@ <<<<2, 0>>, Item(2)>> :> Stored("record", "none") @@ <<<<2, 0>>, Item(2), <<1, 0>> >> :> Plain,
   Root @@ First @@ << <<2, 0>> >> :> Null,
   Root @@ << <<1, 0>> >> :> Stored("custom", "money")
     @@ << <<1, 0>>, <<Logical, 0>> >> :> Plain @@ << <<2, 0>> >> :> Plain,
   Root @@ First @@ << <<2, 0>> >> :> Plain}

MCTargetLists ==
  {<<>>, << <<1>> >>, << <<2, Items, 1>>, <<1>> >>, << <<1>>, <<2>>, <<1>> >>,
   << <<2, Items, 1>>, <<1>>, <<2>> >>}

Claim(path, type) == [path |-> path, type |-> type]
MCClaimSets ==
  {{}, {Claim(<<1>>, "money")}, {Claim(<<>>, "row")}, {Claim(<<1>>, "other")},
   {Claim(<<1>>, "money"), Claim(<<>>, "row")}, {Claim(<<2, Items>>, "row")}}

-----------------------------------------------------------------------------
(* What the parts are proved to keep, as the composition runs them: an execution
   of the gateway moves one part, by that part's own steps, so a part's inductive
   invariant is an invariant of the gateway as long as that part runs.          *)

\* A part's invariant, while that part runs.
PartsKept ==
  /\ part = "authentication" => Door!AuthInvariant
  /\ part = "readers" => Readers!DoorInvariant
  /\ part = "requests" => Door!DoorInvariant
  /\ part = "plugins" => Execution!CacheInvariant
  /\ part = "pipeline" => Execution!FuelInvariant
  /\ part = "executor" => Execution!ExecutorInvariant
  /\ part = "billing" => Door!BillingInvariant
  /\ part = "routing" => Door!RoutingInvariant

\* Each part starts where its module says.
LEMMA PartsStart == ASSUME Init PROVE PartsKept
<1>1. part = "authentication" => Door!AuthInvariant
  BY Door!AuthInitially DEF Init
<1>2. part = "readers" => Readers!DoorInvariant
  BY Readers!DoorInitially DEF Init
<1>3. part = "requests" => Door!DoorInvariant
  BY Door!DoorInitially DEF Init
<1>4. part = "billing" => Door!BillingInvariant
  BY Door!BillingInitially DEF Init
<1>5. part = "routing" => Door!RoutingInvariant
  BY Door!RoutingInitially DEF Init
<1>6. part = "plugins" => Execution!CacheInvariant
  BY PartsAssumption, Execution!RegistryInitially DEF Init
<1>7. part = "pipeline" => Execution!FuelInvariant
  BY PartsAssumption, Execution!FuelInitially DEF Init
<1>8. part = "executor" => Execution!ExecutorInvariant
  BY PartsAssumption, Execution!ExecutorInitially DEF Init
<1> QED BY <1>1, <1>2, <1>3, <1>4, <1>5, <1>6, <1>7, <1>8 DEF PartsKept

\* Each part moves as its module says.
LEMMA PartsStep == ASSUME PartsKept, [Next]_vars PROVE PartsKept'
<1>0. part' = part
  BY DEF Next, vars
<1>1. ASSUME part = "authentication" PROVE Door!AuthInvariant'
  <2>1. [Door!AuthNext]_(Door!authVars)
    BY <1>1 DEF Next, vars, Door!authVars, Door!keyVars
  <2> QED BY <1>1, <2>1, PartsAssumption, Door!AuthStepPreserves DEF PartsKept
<1>2. ASSUME part = "readers" PROVE Readers!DoorInvariant'
  <2>1. [Readers!DoorNext]_(Readers!doorVars)
    BY <1>2 DEF Next, vars, Readers!doorVars, Readers!gateVars, Readers!readVars
  <2> QED BY <1>2, <2>1, PartsAssumption, Readers!DoorStepPreserves DEF PartsKept
<1>3. ASSUME part = "requests" PROVE Door!DoorInvariant'
  <2>1. [Door!DoorNext]_(Door!doorVars)
    BY <1>3 DEF Next, vars, Door!doorVars, Door!gateVars, Door!readVars
  <2> QED BY <1>3, <2>1, PartsAssumption, Door!DoorStepPreserves DEF PartsKept
<1>4. ASSUME part = "billing" PROVE Door!BillingInvariant'
  <2>1. [Door!BillingNext]_(Door!billingVars)
    BY <1>4 DEF Next, vars, Door!billingVars
  <2> QED BY <1>4, <2>1, Door!BillingStepPreserves DEF PartsKept
<1>5. ASSUME part = "routing" PROVE Door!RoutingInvariant'
  <2>1. [Door!RoutingNext]_(Door!routingVars)
    BY <1>5 DEF Next, vars, Door!routingVars
  <2> QED BY <1>5, <2>1, Door!RoutingStepPreserves DEF PartsKept
<1>6. ASSUME part = "plugins" PROVE Execution!CacheInvariant'
  <2>1. [Execution!RegistryNext]_(Execution!catalogVars)
    BY <1>6 DEF Next, vars, Execution!catalogVars
  <2> QED BY <1>6, <2>1, PartsAssumption, Execution!RegistryStep DEF PartsKept
<1>7. ASSUME part = "pipeline" PROVE Execution!FuelInvariant'
  <2>1. [Execution!PipelineNext]_(Execution!pipelineVars)
    BY <1>7 DEF Next, vars, Execution!pipelineVars
  <2> QED BY <1>7, <2>1, PartsAssumption, Execution!FuelStep DEF PartsKept
<1>8. ASSUME part = "executor" PROVE Execution!ExecutorInvariant'
  <2>1. [Execution!ExecutorNext]_(Execution!executorVars)
    BY <1>8 DEF Next, vars, Execution!executorVars
  <2> QED BY <1>8, <2>1, PartsAssumption, Execution!ExecutorStep DEF PartsKept
<1> QED BY <1>0, <1>1, <1>2, <1>3, <1>4, <1>5, <1>6, <1>7, <1>8 DEF PartsKept

(* The parts' inductive invariants hold of the gateway. *)
THEOREM PartsKeptAlways == Spec => []PartsKept
<1>1. Init => PartsKept
  BY PartsStart
<1>2. PartsKept /\ [Next]_vars => PartsKept'
  BY PartsStep
<1> QED BY <1>1, <1>2, PTL DEF Spec

-----------------------------------------------------------------------------
(* A request that arrives after its credential's deletion was answered, or after
   its expiry, is never authenticated (FileKeyStore, authenticate_headers). *)
THEOREM RevokedRefusedAlways == Spec => []RevokedRefused
<1>1. PartsKept => RevokedRefused
  BY DEF PartsKept, RevokedRefused, Door!AuthInvariant, Door!KeyInvariant, Door!SnapshotBehind,
         Door!CallerInvariant, Door!LateStopped, Door!RevokedRefused
<1> QED BY <1>1, PartsKeptAlways, PTL

(* A reservation is given back only for a request that changed and disclosed
   nothing, and a success has been paid for (execute_data_request and the
   settlement of bodies). *)
THEOREM SettledAsServedAlways == Spec => []SettledAsServed
<1>1. PartsKept => SettledAsServed
  BY Door!DoorInvariantImplies, Readers!DoorInvariantImplies DEF PartsKept, SettledAsServed
<1> QED BY <1>1, PartsKeptAlways, PTL

(* No path of a handler leaves its reservation behind without a cause
   (release_failure, metered_read_response and the drops of bodies). *)
THEOREM LeftOnlyWithCauseAlways == Spec => []LeftOnlyWithCause
<1>1. PartsKept => LeftOnlyWithCause
  BY Door!DoorInvariantImplies, Readers!DoorInvariantImplies DEF PartsKept, LeftOnlyWithCause
<1> QED BY <1>1, PartsKeptAlways, PTL

(* A transformed read discloses the content its preflight saw, whatever others
   write meanwhile, and the spool quota counts the spools there are or are being
   created, and what readers that went away during the creation left reserved
   (transformed GET, EncryptedReadSpool). *)
THEOREM ServedAsPreflightedAlways == Spec => []ServedAsPreflighted
<1>1. PartsKept => ServedAsPreflighted
  BY Door!DoorInvariantImplies, Readers!DoorInvariantImplies DEF PartsKept, ServedAsPreflighted
<1> QED BY <1>1, PartsKeptAlways, PTL

(* An eviction never costs the catalog a component it still names, and the
   cache's weight is that of its entries (evict_unreferenced_engines). *)
THEOREM CacheKeepsCatalogAlways == Spec => []CacheKeepsCatalog
<1>1. PartsKept => CacheKeepsCatalog
  BY Execution!CacheInvariantImplies DEF PartsKept, CacheKeepsCatalog
<1> QED BY <1>1, PartsKeptAlways, PTL

(* All plugins of an object together stay within the deployment's fuel, and a
   session reports what its guests burnt (PipelineSession). *)
THEOREM FuelExactAlways == Spec => []FuelExact
<1>1. PartsKept => FuelExact
  BY PartsAssumption, Execution!FuelInvariantImplies DEF PartsKept, FuelExact
<1> QED BY <1>1, PartsKeptAlways, PTL

(* The admitted guest memory is that of the tasks in their slots and of the guests
   that run, whoever wins the race for a permit, and a closed session leaves
   nothing behind (executor.rs, TaskPermit and abort_and_wait). *)
THEOREM MemoryAccountedAlways == Spec => []MemoryAccounted
<1>1. PartsKept => MemoryAccounted
  BY PartsAssumption, Execution!ExecutorInvariantImplies DEF PartsKept, MemoryAccounted
<1> QED BY <1>1, PartsKeptAlways, PTL

(* A completion is charged, once, over a committed write whose evidence was
   persisted first, whichever retry does it (complete_staged_multipart). *)
THEOREM ChargedForCommittedAlways == Spec => []ChargedForCommitted
<1>1. PartsKept => ChargedForCommitted
  BY DEF PartsKept, ChargedForCommitted, Door!BillingInvariant
<1> QED BY <1>1, PartsKeptAlways, PTL

(* A write and its recovery change only the store it was admitted to, however
   late a call arrives, and no switch overtakes an unsettled write unless an
   operator forces it (BackendResolver, fenced and the routing lease). *)
THEOREM WrittenWhereAdmittedAlways == Spec => []WrittenWhereAdmitted
<1>1. PartsKept => WrittenWhereAdmitted
  BY Door!RoutingInvariantImplies DEF PartsKept, WrittenWhereAdmitted
<1> QED BY <1>1, PartsKeptAlways, PTL
================================================================================
