----------------------------- MODULE PipelineRun -----------------------------
(* One object through its pipeline: the session of a worker.  The plugins are
   started in order, each record goes through all of them before the next one
   is taken, and at the end each plugin is finished in turn, its trailing output
   going through those behind it before they are finished themselves.

   All plugins of an object share one budget of fuel, and each guest has its
   own; a call gets the least of what is left of both and of the limit per call.
   Sizes are byte counts, fuel is counted in units. *)
EXTENDS Naturals, FiniteSets, Functions

CONSTANTS
  Stages,            \* the number of enabled plugins
  DeploymentLimits,  \* PipelineLimits of the process
  RequestedLimits,   \* the limits resolutions ask for
  GuestFuel,         \* RuntimeLimits: cumulative_fuel of one guest
  CallFuel,          \* RuntimeLimits: per_call_fuel
  RecordSizes        \* the sizes of records, in and out of a plugin

LimitNames == {"record", "finish", "input", "output", "factor", "slack", "plugins", "fuel"}

\* PipelineLimits::validate
ValidLimits(l) == l \in [LimitNames -> Nat] /\ \A n \in LimitNames \ {"slack"} : l[n] > 0

PipelineAssumption ==
  /\ Stages \in Nat /\ GuestFuel \in Nat /\ CallFuel \in Nat /\ RecordSizes \subseteq Nat \ {0}
  /\ ValidLimits(DeploymentLimits) /\ \A l \in RequestedLimits : ValidLimits(l)

VARIABLES
  limits,   \* of this session
  guests,   \* per plugin: the store's fuel, fuel_consumed and accounted_fuel
  session,  \* what the worker is doing
  inputBytes, stageBytes, outputBytes,
  fuelConsumed

pipelineVars == <<limits, guests, session, inputBytes, stageBytes, outputBytes, fuelConsumed>>

Least(a, b) == IF a < b THEN a ELSE b

\* PipelineSnapshot::constrained: field by field, never above the deployment's.
Constrained(l) == [n \in LimitNames |-> Least(DeploymentLimits[n], l[n])]

PipelineInit ==
  /\ \E l \in RequestedLimits : limits = Constrained(l)
  /\ guests = [i \in 1 .. Stages |-> [store |-> 0, used |-> 0, accounted |-> 0, state |-> "none"]]
  /\ session = [at |-> "starting", index |-> 1, size |-> 0, finishing |-> 0]
  /\ inputBytes = 0 /\ outputBytes = 0
  /\ stageBytes = [i \in 1 .. Stages |-> 0]
  /\ fuelConsumed = 0

Fail == session' = [session EXCEPT !.at = "failed"]

\* Any error ends the session; so does the deadline, wherever it is looked at.
Failed ==
  /\ session.at \notin {"ok", "failed"}
  /\ Fail
  /\ UNCHANGED <<limits, guests, inputBytes, stageBytes, outputBytes, fuelConsumed>>

RemainingFuel == limits.fuel - fuelConsumed

\* prepare_call: what a call of guest i may burn.
CallBudget(i) == Least(Least(guests[i].store, CallFuel), RemainingFuel)

\* complete_call: what it burnt is taken from the guest's store and counted.
Burnt(i, fuel, state) ==
  [guests EXCEPT ![i].store = @ - fuel, ![i].used = @ + fuel, ![i].state = state]

-----------------------------------------------------------------------------
(* start_session_with_deadline *)

TooManyPlugins == Stages > limits.plugins

\* instantiate runs the start function on the guest's whole store, then begin is
\* a call; both burn what the plugins before left over.
StartPlugin(i, start, begin) ==
  LET initial == Least(GuestFuel, RemainingFuel) IN
  /\ initial > 0 /\ start <= initial
  /\ initial - start > 0
  /\ begin <= Least(initial - start, CallFuel)
  /\ guests' = [guests EXCEPT ![i] = [store |-> initial - start - begin, used |-> start + begin,
                                    accounted |-> start + begin, state |-> "running"]]
  /\ fuelConsumed' = fuelConsumed + start + begin

\* A begin that fails has burnt fuel nobody accounts for.
BeginTraps(i, start, begin) ==
  /\ start + begin <= Least(GuestFuel, RemainingFuel)
  /\ guests' = [guests EXCEPT ![i].used = start + begin]
  /\ Fail /\ UNCHANGED fuelConsumed

Start ==
  /\ session.at = "starting" /\ ~ TooManyPlugins
  /\ IF session.index > Stages
     THEN session' = [session EXCEPT !.at = "ready"] /\ UNCHANGED <<guests, fuelConsumed>>
     ELSE \E start \in 0 .. GuestFuel, begin \in 0 .. CallFuel :
            \/ /\ StartPlugin(session.index, start, begin)
               /\ session' = [session EXCEPT !.index = @ + 1]
            \/ BeginTraps(session.index, start, begin)
  /\ UNCHANGED <<limits, inputBytes, stageBytes, outputBytes>>

-----------------------------------------------------------------------------
(* process, and route_from *)

\* checked_total
Process ==
  /\ session.at = "ready"
  /\ \E size \in RecordSizes :
       /\ inputBytes + size <= limits.input
       /\ inputBytes' = inputBytes + size
       /\ session' = [session EXCEPT !.at = "routing", !.index = 1, !.size = size]
  /\ UNCHANGED <<limits, guests, stageBytes, outputBytes, fuelConsumed>>

CheckIntermediate(size) == size <= limits.record

\* check_cumulative_output: the output's limit, and the expansion of the input.
CheckCumulativeOutput(total) ==
  total <= Least(limits.output, inputBytes * limits.factor + limits.slack)

\* Mutant: a guest's whole consumption is added at every call.
AccountFuelWhole(i, burnt) ==
  /\ fuelConsumed' = fuelConsumed + burnt[i].used
  /\ guests' = [burnt EXCEPT ![i].accounted = burnt[i].used]

\* account_fuel, by the difference to what was accounted for the guest before.
AccountFuel(i, burnt) ==
  /\ fuelConsumed' = fuelConsumed + burnt[i].used - burnt[i].accounted
  /\ guests' = [burnt EXCEPT ![i].accounted = burnt[i].used]

\* account_stage
AccountStage(i, size) ==
  /\ CheckCumulativeOutput(stageBytes[i] + size)
  /\ stageBytes' = [stageBytes EXCEPT ![i] = @ + size]

\* Where the session goes on when a record has left the pipeline.
RecordDone ==
  session' = [session EXCEPT !.at = IF session.finishing = 0 THEN "ready" ELSE "finishing", !.size = 0]

\* One guest's transform: it emits, drops, rejects or traps.
Transform ==
  LET i == session.index IN
  /\ session.at = "routing" /\ i <= Stages
  /\ RemainingFuel > 0 /\ CallBudget(i) > 0
  /\ \E fuel \in 0 .. CallBudget(i) :
       /\ AccountFuel(i, Burnt(i, fuel, guests[i].state))
       /\ \/ \E size \in RecordSizes :
               /\ CheckIntermediate(size) /\ AccountStage(i, size)
               /\ session' = [session EXCEPT !.index = i + 1, !.size = size]
          \/ RecordDone /\ UNCHANGED stageBytes
          \/ Fail /\ UNCHANGED stageBytes
  /\ UNCHANGED <<limits, inputBytes, outputBytes>>

\* Behind the last plugin: the output's format is validated, then it is counted.
Deliver ==
  /\ session.at = "routing" /\ session.index > Stages
  /\ CheckCumulativeOutput(outputBytes + session.size)
  /\ outputBytes' = outputBytes + session.size
  /\ RecordDone
  /\ UNCHANGED <<limits, guests, inputBytes, stageBytes, fuelConsumed>>

-----------------------------------------------------------------------------
(* finish_with_fuel *)

BeginFinish ==
  /\ session.at = "ready"
  /\ session' = [session EXCEPT !.at = "finishing", !.finishing = 1]
  /\ UNCHANGED <<limits, guests, inputBytes, stageBytes, outputBytes, fuelConsumed>>

\* The trailing output of plugin i becomes a record for those behind it.
RouteTrailing(i, size) ==
  /\ size <= limits.finish /\ CheckIntermediate(size) /\ AccountStage(i, size)
  /\ session' = [session EXCEPT !.at = "routing", !.index = i + 1, !.size = size, !.finishing = i + 1]

FinishPlugin ==
  LET i == session.finishing IN
  /\ session.at = "finishing" /\ i <= Stages
  /\ RemainingFuel > 0 /\ CallBudget(i) > 0
  /\ \E fuel \in 0 .. CallBudget(i) :
       \/ /\ AccountFuel(i, Burnt(i, fuel, "finished"))
          /\ \/ session' = [session EXCEPT !.finishing = i + 1] /\ UNCHANGED stageBytes
             \/ \E size \in RecordSizes : RouteTrailing(i, size)
       \/ /\ guests' = Burnt(i, fuel, "finished")   \* a trap
          /\ Fail /\ UNCHANGED <<fuelConsumed, stageBytes>>
  /\ UNCHANGED <<limits, inputBytes, outputBytes>>

Complete ==
  /\ session.at = "finishing" /\ session.finishing > Stages
  /\ session' = [session EXCEPT !.at = "ok"]
  /\ UNCHANGED <<limits, guests, inputBytes, stageBytes, outputBytes, fuelConsumed>>

PipelineNext == Start \/ Process \/ Transform \/ Deliver \/ BeginFinish \/ FinishPlugin \/ Complete \/ Failed

PipelineSpec == PipelineInit /\ [][PipelineNext]_pipelineVars

-----------------------------------------------------------------------------
TotalBurnt == SumFunction([i \in 1 .. Stages |-> guests[i].used])

(* The guests together never burn more than the object may, whichever plugin
   burns it, at start, per record or at the end, and no resolution raises that
   above the deployment's limit; the fuel a session reports is what was burnt. *)
FuelExact ==
  /\ TotalBurnt <= DeploymentLimits.fuel
  /\ session.at # "failed" => TotalBurnt = fuelConsumed

(* A plugin that has been finished is not called again, for the trailing output
   of those before it either. *)
FinishedOnce ==
  session.at = "routing" =>
    \A i \in session.index .. Stages : guests[i].state = "running"
=============================================================================
