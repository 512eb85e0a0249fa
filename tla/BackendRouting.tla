--------------------------- MODULE BackendRouting ---------------------------
(* Where a write goes.  A request resolves the workspace's backend once, from
   its headers, the deployment and the persisted configuration with its routing
   epoch.  A write to a workspace's own S3 store is admitted under that exact
   configuration and epoch: the repository creates a route lease and the
   journal's row, bound to the configuration's version, in one transaction.
   Whoever finishes the operation after a crash builds its client from the
   bound version, never from the current one.

   Meanwhile the workspace may be switched to another configuration; a switch
   conflicts with route leases that are not settled, unless the operator forces
   it.  The repository is an adapter of the hosted service: its contract is that
   of the trait and of the repository the tests use. *)
EXTENDS Naturals, FiniteSets

CONSTANTS
  Writes,      \* the operations
  Versions,    \* the configuration versions of the workspace
  MaxSwitches, \* bound on switches of the configuration
  MaxTokens    \* bound on the fencing tokens the repository hands out

RoutingAssumption == MaxSwitches \in Nat /\ MaxTokens \in Nat /\ Writes \cap Versions = {}

VARIABLES
  deploy,    \* single tenant or hosted, what the process has, whether routing is persisted
  config,    \* what each version says
  workspace, \* the active version, its routing epoch and whether it is being switched
  epochOf,   \* the epoch each version was activated at
  write,     \* the requests
  lease,     \* the route leases
  bound,     \* the journal's rows: the binding and the state
  recovery,  \* the reconciler's work on each operation
  places,    \* the stores each operation has changed
  calls,     \* the stores each operation has calls on their way to
  fence,     \* the tokens handed out so far
  forced     \* the operator has forced a switch

routingVars == <<deploy, config, workspace, epochOf, write, lease, bound, recovery, places,
                 calls, fence, forced>>

BackendKinds == {"managed", "s3", "unattested"}
Unset == "none"
NoLease == [state |-> "none", version |-> Unset, epoch |-> 0, token |-> 0, live |-> FALSE]
NoRow == [state |-> "none", version |-> Unset, epoch |-> 0, token |-> 0]
NotRouted == [at |-> "idle", place |-> Unset, epoch |-> 0, token |-> 0]

RoutingInit ==
  /\ deploy \in [single : BOOLEAN, managed : BOOLEAN, global : BOOLEAN, persisted : BOOLEAN]
  /\ config \in [Versions -> BackendKinds]
  /\ \E v \in Versions \cup {Unset} : workspace = [version |-> v, epoch |-> 1, moving |-> FALSE]
  /\ epochOf = [v \in Versions |-> IF v = workspace.version THEN 1 ELSE 0]
  /\ write = [o \in Writes |-> NotRouted]
  /\ lease = [o \in Writes |-> NoLease]
  /\ bound = [o \in Writes |-> NoRow]
  /\ recovery = [o \in Writes |-> NotRouted]
  /\ places = [o \in Writes |-> {}]
  /\ calls = [o \in Writes |-> {}]
  /\ fence = 0 /\ forced = FALSE

-----------------------------------------------------------------------------
(* Resolution *)

\* WorkspaceStorageRouting: Unfenced has no epoch and is never in transition.
StableEpoch(w) == IF deploy.persisted /\ ~ w.moving THEN {w.epoch} ELSE {}
IsTransitioning(w) == deploy.persisted /\ w.moving

\* S3CapabilityAttestation::validate, against the provider the host classifies to.
Attested(v) == config[v] = "s3"

\* workspace_streaming_binding
StreamingBinding(v, epoch) == Attested(v) /\ epoch # 0

\* Without a configuration: managed storage, or what a single tenant has.
DefaultPlace ==
  CASE deploy.managed -> "managed"
    [] ~ deploy.managed /\ ~ deploy.single -> Unset
    [] deploy.single /\ deploy.global -> "global"
    [] OTHER -> "memory"

\* resolve_with_routing: the header first, only of a single tenant; then a
\* presigned URL; then what is persisted.  Unset: an error.
ResolveWithRouting(header) ==
  CASE header = "managed" /\ deploy.single -> IF deploy.managed THEN "managed" ELSE Unset
    [] header = "url" -> "presigned"
    [] IsTransitioning(workspace) -> Unset
    [] workspace.version = Unset -> DefaultPlace
    [] config[workspace.version] = "managed" -> IF deploy.managed THEN "managed" ELSE Unset
    [] OTHER -> workspace.version

\* WorkspaceEndpointPolicy::validate resolves the host each time it is asked.
EndpointRefused(place) == place \in Versions

\* BackendResolver::resolve hands on the backend alone: of the routing only the
\* epoch inside an S3 backend's streaming binding is left.
ResolveWorkspace(o) ==
  /\ write[o].at = "idle"
  /\ \E header \in {"none", "managed", "url"} :
       LET place == ResolveWithRouting(header)
           epoch == IF place \in Versions /\ StableEpoch(workspace) # {} THEN workspace.epoch ELSE 0
       IN write' \in {[write EXCEPT ![o] = [at |-> "resolved", place |-> place, epoch |-> epoch, token |-> 0]]}
            \cup {w \in {[write EXCEPT ![o].at = "ended"]} : place = Unset \/ EndpointRefused(place)}
  /\ write'[o].at = "resolved" => write'[o].place # Unset
  /\ UNCHANGED <<deploy, config, workspace, epochOf, lease, bound, recovery, places, calls, fence, forced>>

\* validate_streaming_backend: which of them may be written to.
StreamingBackend(o) ==
  \/ write[o].place \in {"managed", "global", "memory"}
  \/ write[o].place \in Versions /\ StreamingBinding(write[o].place, write[o].epoch)

RefuseBackend(o) ==
  /\ write[o].at = "resolved" /\ ~ StreamingBackend(o)
  /\ write' = [write EXCEPT ![o].at = "ended"]
  /\ UNCHANGED <<deploy, config, workspace, epochOf, lease, bound, recovery, places, calls, fence, forced>>

-----------------------------------------------------------------------------
(* Admission, and the write *)

\* The repository compares version and epoch with the active ones.
AdmissionMatches(o) ==
  workspace.version = write[o].place /\ workspace.epoch = write[o].epoch /\ ~ workspace.moving

Admitted(o) ==
  /\ fence < MaxTokens /\ fence' = fence + 1
  /\ lease' = [lease EXCEPT ![o] = [state |-> "held", version |-> write[o].place, epoch |-> write[o].epoch,
                                    token |-> fence + 1, live |-> TRUE]]
  /\ bound' = [bound EXCEPT ![o] = [state |-> "open", version |-> write[o].place, epoch |-> write[o].epoch,
                                    token |-> fence + 1]]

\* admit_streaming_operation: admitted, admitted without an answer, or refused.
Admit(o) ==
  /\ write[o].at = "resolved" /\ StreamingBackend(o) /\ write[o].place \in Versions
  /\ \/ /\ AdmissionMatches(o) /\ Admitted(o)
        /\ \/ write' = [write EXCEPT ![o].at = "writing", ![o].token = fence + 1]
           \/ write' = [write EXCEPT ![o].at = "ended"]
     \/ /\ ~ AdmissionMatches(o)
        /\ write' = [write EXCEPT ![o].at = "ended"]
        /\ UNCHANGED <<lease, bound, fence>>
  /\ UNCHANGED <<deploy, config, workspace, epochOf, recovery, places, calls, forced>>

\* The other backends have no route: they are written to as they were resolved.
BeginUnrouted(o) ==
  /\ write[o].at = "resolved" /\ StreamingBackend(o) /\ write[o].place \notin Versions
  /\ write' = [write EXCEPT ![o].at = "writing"]
  /\ UNCHANGED <<deploy, config, workspace, epochOf, lease, bound, recovery, places, calls, fence, forced>>

\* assert_current, which precedes every call that changes the provider.
HoldsRoute(o, token) == lease[o].state = "held" /\ lease[o].live /\ lease[o].token = token

\* fenced: the fence is asserted, then the call is sent.  Giving the call up (a
\* timeout, a lost fence, a dropped request) does not take it back.
Send(o, place) == calls' = [calls EXCEPT ![o] = @ \cup {place}]

ProviderCall(o) ==
  /\ write[o].at = "writing"
  /\ write[o].place \in Versions => HoldsRoute(o, write[o].token)
  /\ Send(o, write[o].place)
  /\ UNCHANGED <<deploy, config, workspace, epochOf, write, lease, bound, recovery, places, fence, forced>>

\* A call takes effect, whatever has become of its sender.
CallLands(o) ==
  /\ \E place \in calls[o] :
       /\ places' = [places EXCEPT ![o] = @ \cup {place}]
       /\ calls' = [calls EXCEPT ![o] = @ \ {place}]
  /\ UNCHANGED <<deploy, config, workspace, epochOf, write, lease, bound, recovery, fence, forced>>

Settled(o) ==
  /\ bound' = [bound EXCEPT ![o].state = "terminal"]
  /\ lease' = [lease EXCEPT ![o].state = "settled"]

\* The sink has completed or aborted: the row is terminal, then the lease is settled.
EndWrite(o) ==
  /\ write[o].at = "writing"
  /\ write' = [write EXCEPT ![o].at = "ended"]
  /\ IF write[o].place \in Versions /\ HoldsRoute(o, write[o].token)
     THEN Settled(o) ELSE UNCHANGED <<bound, lease>>
  /\ UNCHANGED <<deploy, config, workspace, epochOf, recovery, places, calls, fence, forced>>

\* WORKSPACE_OPERATION_LEASE_TTL without a heartbeat: the process died, or its
\* renewal was refused because the active configuration is another one.
RouteExpires(o) ==
  /\ lease[o].state = "held" /\ lease[o].live
  /\ lease' = [lease EXCEPT ![o].live = FALSE]
  /\ UNCHANGED <<deploy, config, workspace, epochOf, write, bound, recovery, places, calls, fence, forced>>

-----------------------------------------------------------------------------
(* Recovery *)

\* recover_workspace_operation: the exact lease the journal names, once it has
\* expired; the token advances, in the journal as well.
RecoverLease(o) ==
  /\ bound[o].state = "open" /\ fence < MaxTokens
  /\ lease[o].state = "held" /\ ~ lease[o].live
  /\ lease[o].version = bound[o].version /\ lease[o].epoch = bound[o].epoch /\ lease[o].token = bound[o].token
  /\ fence' = fence + 1
  /\ lease' = [lease EXCEPT ![o].token = fence + 1, ![o].live = TRUE]
  /\ bound' = [bound EXCEPT ![o].token = fence + 1]
  /\ recovery' = [recovery EXCEPT ![o] = [at |-> "leased", place |-> Unset, epoch |-> bound[o].epoch,
                                          token |-> fence + 1]]
  /\ UNCHANGED <<deploy, config, workspace, epochOf, write, places, calls, forced>>

\* Mutant: a recovery resolves the workspace's current configuration.
HistoricalPlaceCurrent(o) ==
  IF workspace.version # Unset /\ Attested(workspace.version) THEN workspace.version ELSE Unset

\* resolve_historical_workspace_s3: the version the row is bound to, as it was.
HistoricalPlace(o) ==
  IF Attested(bound[o].version) /\ epochOf[bound[o].version] = bound[o].epoch
  THEN bound[o].version ELSE Unset

ResolveHistorical(o) ==
  /\ recovery[o].at = "leased"
  /\ \/ /\ HistoricalPlace(o) # Unset
        /\ recovery' = [recovery EXCEPT ![o].at = "acting", ![o].place = HistoricalPlace(o)]
     \/ recovery' = [recovery EXCEPT ![o] = NotRouted]
  /\ UNCHANGED <<deploy, config, workspace, epochOf, write, lease, bound, places, calls, fence, forced>>

\* The reconciler aborts or adopts at the provider, behind the same fence.
RecoveryCall(o) ==
  /\ recovery[o].at = "acting" /\ HoldsRoute(o, recovery[o].token)
  /\ Send(o, recovery[o].place)
  /\ UNCHANGED <<deploy, config, workspace, epochOf, write, lease, bound, recovery, places, fence, forced>>

\* settle_terminal_workspace_lease, or a lost fence.
EndRecovery(o) ==
  /\ recovery[o].at = "acting"
  /\ recovery' = [recovery EXCEPT ![o] = NotRouted]
  /\ IF HoldsRoute(o, recovery[o].token) THEN Settled(o) ELSE UNCHANGED <<bound, lease>>
  /\ UNCHANGED <<deploy, config, workspace, epochOf, write, places, calls, fence, forced>>

-----------------------------------------------------------------------------
(* The configuration *)

Activated(v) ==
  /\ workspace' = [version |-> v, epoch |-> workspace.epoch + 1, moving |-> FALSE]
  /\ epochOf' = [epochOf EXCEPT ![v] = workspace.epoch + 1]

\* put_config of the repository in memory: at any time, without an epoch.
PutConfig(v) ==
  /\ ~ deploy.persisted /\ workspace.epoch <= MaxSwitches
  /\ Activated(v)
  /\ UNCHANGED <<deploy, config, write, lease, bound, recovery, places, calls, fence, forced>>

\* A persisted switch starts and ends while no route lease is open.
NoOpenRoutes == \A o \in Writes : lease[o].state # "held"

BeginSwitch ==
  /\ deploy.persisted /\ ~ workspace.moving /\ NoOpenRoutes /\ workspace.epoch <= MaxSwitches
  /\ workspace' = [workspace EXCEPT !.moving = TRUE]
  /\ UNCHANGED <<deploy, config, epochOf, write, lease, bound, recovery, places, calls, fence, forced>>

EndSwitch(v) ==
  /\ workspace.moving /\ NoOpenRoutes
  /\ Activated(v)
  /\ UNCHANGED <<deploy, config, write, lease, bound, recovery, places, calls, fence, forced>>

\* force_active_for_test: what the recovery must withstand.
ForceSwitch(v) ==
  /\ deploy.persisted /\ v # workspace.version /\ workspace.epoch <= MaxSwitches
  /\ Activated(v)
  /\ forced' = TRUE
  /\ UNCHANGED <<deploy, config, write, lease, bound, recovery, places, calls, fence>>

RoutingNext ==
  \/ \E o \in Writes :
       \/ ResolveWorkspace(o) \/ RefuseBackend(o) \/ Admit(o) \/ BeginUnrouted(o) \/ ProviderCall(o) \/ CallLands(o) \/ EndWrite(o)
       \/ RouteExpires(o) \/ RecoverLease(o) \/ ResolveHistorical(o) \/ RecoveryCall(o) \/ EndRecovery(o)
  \/ \E v \in Versions : PutConfig(v) \/ EndSwitch(v) \/ ForceSwitch(v)
  \/ BeginSwitch

RoutingSpec == RoutingInit /\ [][RoutingNext]_routingVars

-----------------------------------------------------------------------------
(* A write changes one store, the one it was admitted to, whoever finishes it,
   whatever the workspace is configured to by then and however late its calls
   arrive; and unless an operator forced a switch, a call on its way is on its
   way to the workspace's active store, or was left behind by a lease that has
   been settled: no switch overtakes an unsettled write (BackendResolver,
   fenced, the route lease). *)
WrittenWhereAdmitted ==
  \A o \in Writes :
    /\ Cardinality(places[o] \cup calls[o]) <= 1
    /\ bound[o].state # "none" => places[o] \cup calls[o] \subseteq {bound[o].version}
    /\ \/ forced \/ lease[o].state = "settled"
       \/ calls[o] \cap Versions \subseteq {workspace.version}

(* backend.rs: "Hosted managed commit paths must use this selection and require a
   stable persisted fence before publishing authority": a hosted managed write
   publishes only while the routing it was resolved under is the current one. *)
PublishFenced ==
  \A o \in Writes :
    places'[o] # places[o] /\ write[o].place = "managed" /\ deploy.persisted /\ ~ deploy.single
      => /\ ~ workspace.moving
         /\ workspace.version # Unset => config[workspace.version] = "managed"

ManagedCommitFenced == [][PublishFenced]_routingVars
=============================================================================
