---------------------------- MODULE LocalExporter ---------------------------
(***************************************************************************)
(* The exporter in local mode: the scheduler's cycle                       *)
(* (internal/scheduler/scheduler.go), the NPU collector it drives          *)
(* (internal/collector/npu_collector.go) and the metric registry they      *)
(* write, composed with the pod-resource mapper that runs beside them.     *)
(*                                                                         *)
(* The scheduler's goroutine is one thread of control.  Each of its steps  *)
(* touches the registry, the up gauge or the mapper at most once, so that  *)
(* a scrape or a sync may fall between any two of them.  rbln-smd is       *)
(* external: GetDeviceInfo returns an inventory, or an error when the      *)
(* daemon does not answer within the 5 s of the cycle.                     *)
(***************************************************************************)
EXTENDS PodResourceMapper, MetricFamilies

CONSTANTS
  Metrics,      \* NPUCollector.metrics: the names of the Metrics, in order
  Inventories,  \* the inventories GetDeviceInfo may return
  MaxFailures,  \* bound: longer failure streaks are counted as this long
  WarnAfter     \* bound: daemonWaitWarnAfter, in units of waiting time

ASSUME MetricsAssumption == Metrics \in Seq(STRING) /\ Metrics # <<>>
ASSUME BoundsAssumption == MaxFailures \in Nat \ {0} /\ WarnAfter \in Nat \ {0}
ASSUME PodLabelsAssumption == includePodLabels = isKubernetes

VARIABLES
  daemonUp,             \* rbln-smd answers within the cycle (external)
  phase,                \* where the scheduler's goroutine is
  pos,                  \* index of the Metric being reset or updated
  devices,              \* the inventory of the cycle that is publishing
  series,               \* what UpdateMetrics is to write to Metrics[pos]
  todo,                 \* the series of it not yet written
  opened,               \* the series created by With and not yet Set
  registry,             \* what each Metric exposes
  up,                   \* the rbln_up gauge
  collectedOnce, consecutiveFailures,
  waiting,              \* waitStart is set
  waited,               \* time since waitStart, saturating at WarnAfter
  lastLog,              \* the last line runCycle logged
  published,            \* history: the inventory the last completed cycle left exposed
  lastResult            \* history: how the last GetDeviceInfo ended

MetricIndex == 1..Len(Metrics)
NoInventory == [n \in {} |-> 0]

registryVars == <<registry, up>>
updateVars == <<series, todo, opened>>
streakVars == <<collectedOnce, consecutiveFailures, waiting, waited, lastLog>>
cycleVars == <<daemonUp, phase, pos, devices, series, todo, opened, registry, up,
               collectedOnce, consecutiveFailures, waiting, waited, lastLog,
               published, lastResult>>
vars == <<mapperVars, cycleVars>>

Init ==
  /\ MapperInit
  /\ daemonUp \in BOOLEAN
  /\ phase = "idle"
  /\ pos = 1
  /\ devices = NoInventory
  /\ series = NoSeries /\ todo = {} /\ opened = {}
  /\ registry = [i \in MetricIndex |-> NoSeries]
  /\ up = 0
  /\ collectedOnce = FALSE
  /\ consecutiveFailures = 0
  /\ waiting = FALSE
  /\ waited = 0
  /\ lastLog = "none"
  /\ published = NoInventory
  /\ lastResult = "none"

-----------------------------------------------------------------------------
\* Mutation of Tick: only the first cycle asks for a sync.
TickTriggeringOnce ==
  /\ phase = "idle"
  /\ MapperStarted
  /\ IF lastResult = "none" THEN TriggerSync ELSE UNCHANGED <<syncRequests, owed>>
  /\ phase' = IF cancelled THEN "doomed" ELSE "query"
  /\ UNCHANGED <<allocation, kubeletUp, cancelled, syncPhase, fetched, lastResponse,
                 sharedDevices, reportedShared>>
  /\ UNCHANGED <<daemonUp, pos, devices, updateVars, registryVars, streakVars,
                 published, lastResult>>

\* Run's ticker fires: runCycle opens the 5 s context and RunOnce asks the mapper
\* for a sync.  The collection of a cycle begun after the shutdown cannot succeed.
Tick ==
  /\ phase = "idle"
  /\ MapperStarted
  /\ TriggerSync
  /\ phase' = IF cancelled THEN "doomed" ELSE "query"
  /\ UNCHANGED <<allocation, kubeletUp, cancelled, syncPhase, fetched, lastResponse,
                 sharedDevices, reportedShared>>
  /\ UNCHANGED <<daemonUp, pos, devices, updateVars, registryVars, streakVars,
                 published, lastResult>>

\* Run's select takes the done context.
SchedulerStops ==
  /\ phase = "idle"
  /\ MapperStarted
  /\ cancelled
  /\ phase' = "stopped"
  /\ UNCHANGED mapperVars
  /\ UNCHANGED <<daemonUp, pos, devices, updateVars, registryVars, streakVars,
                 published, lastResult>>

\* Mutation of CollectFails: GetMetrics returns the error without clearing.
CollectFailsKeeping ==
  /\ \/ phase = "query" /\ (~daemonUp \/ cancelled)
     \/ phase = "doomed"
  /\ phase' = "failed"
  /\ lastResult' = "failed"
  /\ UNCHANGED mapperVars
  /\ UNCHANGED <<daemonUp, pos, devices, updateVars, registryVars, streakVars, published>>

\* Mutation of CollectFails: a call that hangs is not ended by the context.
CollectFailsIgnoringContext ==
  /\ phase = "query" /\ ~daemonUp /\ ~cancelled
  /\ phase' = "clear"
  /\ pos' = 1
  /\ lastResult' = "failed"
  /\ UNCHANGED mapperVars
  /\ UNCHANGED <<daemonUp, devices, updateVars, registryVars, streakVars, published>>

\* GetDeviceInfo returns an error: daemon down, too slow, or the context cancelled.
CollectFails ==
  /\ \/ phase = "query" /\ (~daemonUp \/ cancelled)
     \/ phase = "doomed"
  /\ phase' = "clear"
  /\ pos' = 1
  /\ lastResult' = "failed"
  /\ UNCHANGED mapperVars
  /\ UNCHANGED <<daemonUp, devices, updateVars, registryVars, streakVars, published>>

\* Mutation of ClearMetric: the loop stops before the last Metric.
ClearMetricShort ==
  /\ phase = "clear"
  /\ registry' = [registry EXCEPT ![pos] = NoSeries]
  /\ IF pos < Len(Metrics) - 1 THEN pos' = pos + 1 /\ phase' = phase
                               ELSE pos' = 1 /\ phase' = "failed"
  /\ UNCHANGED mapperVars
  /\ UNCHANGED <<daemonUp, devices, updateVars, up, streakVars, published, lastResult>>

\* GetMetrics, error path: Reset the next Metric.
ClearMetric ==
  /\ phase = "clear"
  /\ registry' = [registry EXCEPT ![pos] = NoSeries]
  /\ IF pos < Len(Metrics) THEN pos' = pos + 1 /\ phase' = phase
                           ELSE pos' = 1 /\ phase' = "failed"
  /\ UNCHANGED mapperVars
  /\ UNCHANGED <<daemonUp, devices, updateVars, up, streakVars, published, lastResult>>

\* Mutation of logWaiting: a wall clock that may be stepped back.
logWaitingWallClock ==
  /\ waiting' = TRUE
  /\ waited' \in IF waiting THEN 0..WarnAfter ELSE {0}
  /\ lastLog' = IF waited' >= WarnAfter THEN "stillWaiting" ELSE "waiting"
  /\ UNCHANGED consecutiveFailures

\* logWaiting: time never runs backwards, and the wait is counted from the first
\* failed cycle.
logWaiting ==
  /\ waiting' = TRUE
  /\ waited' \in IF waiting THEN waited..WarnAfter ELSE {0}
  /\ lastLog' = IF waited' >= WarnAfter THEN "stillWaiting" ELSE "waiting"
  /\ UNCHANGED consecutiveFailures

\* The failed branch of runCycle after the first success.
logFailed ==
  /\ consecutiveFailures' = IF consecutiveFailures < MaxFailures
                            THEN consecutiveFailures + 1 ELSE MaxFailures
  /\ lastLog' = "failed"
  /\ UNCHANGED <<waiting, waited>>

\* Mutation of CycleFails: the first failed cycle ends Run.
CycleFailsFatal ==
  /\ phase = "failed"
  /\ up' = 0
  /\ IF collectedOnce THEN logFailed ELSE logWaiting
  /\ published' = NoInventory
  /\ phase' = "stopped"
  /\ UNCHANGED mapperVars
  /\ UNCHANGED <<daemonUp, pos, devices, updateVars, registry, collectedOnce, lastResult>>

\* Mutation of CycleFails: up keeps the value of the last success.
CycleFailsKeepingUp ==
  /\ phase = "failed"
  /\ IF collectedOnce THEN logFailed ELSE logWaiting
  /\ published' = NoInventory
  /\ phase' = "idle"
  /\ UNCHANGED mapperVars
  /\ UNCHANGED <<daemonUp, pos, devices, updateVars, registryVars, collectedOnce, lastResult>>

\* RunOnce returns the error with up at 0; runCycle records the failure.
CycleFails ==
  /\ phase = "failed"
  /\ up' = 0
  /\ IF collectedOnce THEN logFailed ELSE logWaiting
  /\ published' = NoInventory
  /\ phase' = "idle"
  /\ UNCHANGED mapperVars
  /\ UNCHANGED <<daemonUp, pos, devices, updateVars, registry, collectedOnce, lastResult>>

\* GetDeviceInfo returns the node's devices.
CollectSucceeds ==
  /\ phase = "query"
  /\ daemonUp
  /\ devices' \in Inventories
  /\ pos' = 1
  /\ phase' = "reset"
  /\ lastResult' = "ok"
  /\ UNCHANGED mapperVars
  /\ UNCHANGED <<daemonUp, updateVars, registryVars, streakVars, published>>

\* Mutation of ResetMetric: the series of the last cycle are updated in place.
ResetMetricSkipped ==
  /\ phase = "reset"
  /\ phase' = "snapshot"
  /\ UNCHANGED mapperVars
  /\ UNCHANGED <<daemonUp, pos, devices, updateVars, registry, up, streakVars,
                 published, lastResult>>

\* GetMetrics, success path: Reset the next Metric before updating it.
ResetMetric ==
  /\ phase = "reset"
  /\ registry' = [registry EXCEPT ![pos] = NoSeries]
  /\ phase' = "snapshot"
  /\ UNCHANGED mapperVars
  /\ UNCHANGED <<daemonUp, pos, devices, updateVars, up, streakVars, published, lastResult>>

\* UpdateMetrics reads the mapper's response; the labels and values of all the
\* series of this Metric follow from it and from the inventory.
TakeSnapshot ==
  /\ phase = "snapshot"
  /\ series' = Exposition(Metrics[pos], devices, SnapshotFor(lastResponse, devices))
  /\ todo' = DOMAIN series'
  /\ opened' = {}
  /\ phase' = "update"
  /\ UNCHANGED mapperVars
  /\ UNCHANGED <<daemonUp, pos, devices, registryVars, streakVars, published, lastResult>>

\* vec.With(labels): a series that does not exist yet is exposed with value 0.
With(k) ==
  /\ phase = "update"
  /\ opened = {}
  /\ k \in todo
  /\ opened' = {k}
  /\ registry' = [registry EXCEPT ![pos] =
                    [s \in DOMAIN registry[pos] \cup {k} |->
                       IF s \in DOMAIN registry[pos] THEN registry[pos][s] ELSE 0]]
  /\ UNCHANGED mapperVars
  /\ UNCHANGED <<daemonUp, phase, pos, devices, series, todo, up, streakVars,
                 published, lastResult>>

\* Set(value) on the series With returned.
SetValue(k) ==
  /\ phase = "update"
  /\ k \in opened
  /\ opened' = {}
  /\ todo' = todo \ {k}
  /\ registry' = [registry EXCEPT ![pos] =
                    [s \in DOMAIN registry[pos] |->
                       IF s = k THEN series[k] ELSE registry[pos][s]]]
  /\ UNCHANGED mapperVars
  /\ UNCHANGED <<daemonUp, phase, pos, devices, series, up, streakVars,
                 published, lastResult>>

WriteSeries == \E k \in todo : With(k) \/ SetValue(k)

\* Mutation of NextMetric: the loop runs one past the last Metric.
NextMetricOverrun ==
  /\ phase = "update"
  /\ todo = {}
  /\ series' = NoSeries
  /\ IF pos <= Len(Metrics) THEN pos' = pos + 1 /\ phase' = "reset"
                            ELSE pos' = 1 /\ phase' = "finish"
  /\ UNCHANGED mapperVars
  /\ UNCHANGED <<daemonUp, devices, todo, opened, registryVars, streakVars,
                 published, lastResult>>

\* UpdateMetrics returns; GetMetrics goes on to the next Metric.
NextMetric ==
  /\ phase = "update"
  /\ todo = {}
  /\ series' = NoSeries
  /\ IF pos < Len(Metrics) THEN pos' = pos + 1 /\ phase' = "reset"
                           ELSE pos' = 1 /\ phase' = "finish"
  /\ UNCHANGED mapperVars
  /\ UNCHANGED <<daemonUp, devices, todo, opened, registryVars, streakVars,
                 published, lastResult>>

\* Mutation of CycleSucceeds: the streak survives the recovery.
CycleSucceedsKeepingStreak ==
  /\ phase = "finish"
  /\ up' = 1
  /\ collectedOnce' = TRUE
  /\ lastLog' = IF consecutiveFailures > 0 THEN "recovered" ELSE lastLog
  /\ published' = devices
  /\ devices' = NoInventory
  /\ phase' = "idle"
  /\ UNCHANGED mapperVars
  /\ UNCHANGED <<daemonUp, pos, updateVars, registry, consecutiveFailures, waiting,
                 waited, lastResult>>

\* RunOnce sets up to 1; runCycle records the success and closes an outage.
CycleSucceeds ==
  /\ phase = "finish"
  /\ up' = 1
  /\ collectedOnce' = TRUE
  /\ lastLog' = IF consecutiveFailures > 0 THEN "recovered" ELSE lastLog
  /\ consecutiveFailures' = 0
  /\ published' = devices
  /\ devices' = NoInventory
  /\ phase' = "idle"
  /\ UNCHANGED mapperVars
  /\ UNCHANGED <<daemonUp, pos, updateVars, registry, waiting, waited, lastResult>>

DaemonFlips ==
  /\ daemonUp' = ~daemonUp
  /\ UNCHANGED mapperVars
  /\ UNCHANGED <<phase, pos, devices, updateVars, registryVars, streakVars,
                 published, lastResult>>

-----------------------------------------------------------------------------
CollectStep == CollectFails \/ CollectSucceeds
PublishStep == ClearMetric \/ CycleFails \/ ResetMetric \/ TakeSnapshot
               \/ WriteSeries \/ NextMetric \/ CycleSucceeds

SchedulerStep == Tick \/ SchedulerStops \/ CollectStep \/ PublishStep

MapperStep == (SyncStep \/ KubeletStep \/ Shutdown) /\ UNCHANGED cycleVars

Next == SchedulerStep \/ MapperStep \/ DaemonFlips

\* The ticker keeps firing; GetDeviceInfo returns within the context's 5 s; the
\* goroutines are scheduled; select chooses among ready cases at random.
Fairness ==
  /\ WF_vars(Tick)
  /\ WF_vars(CollectStep)
  /\ WF_vars(PublishStep)
  /\ SF_vars(SchedulerStops)
  /\ WF_vars(SyncBegin /\ UNCHANGED cycleVars)
  /\ WF_vars((ListReturns \/ ListFails) /\ UNCHANGED cycleVars)
  /\ WF_vars(SyncApplies /\ UNCHANGED cycleVars)
  /\ SF_vars(SyncStops /\ UNCHANGED cycleVars)

Spec == Init /\ [][Next]_vars
FairSpec == Spec /\ Fairness

-----------------------------------------------------------------------------
Quiet == {"idle", "query", "doomed", "stopped"}
Publishing == {"reset", "snapshot", "update", "finish"}
Phases == Quiet \cup Publishing \cup {"clear", "failed"}
LogLines == {"none", "waiting", "stillWaiting", "failed", "recovered"}

\* The types of the cycle's variables; the loops over the Metrics stay within the
\* list and the series being written are those of the current Metric.
CycleTypeOK ==
  /\ daemonUp \in BOOLEAN
  /\ phase \in Phases
  /\ pos \in MetricIndex
  /\ devices \in Inventories \cup {NoInventory}
  /\ opened \subseteq todo /\ todo \subseteq DOMAIN series
  /\ registry = [i \in MetricIndex |-> registry[i]]
  /\ up \in {0, 1}
  /\ collectedOnce \in BOOLEAN
  /\ consecutiveFailures \in 0..MaxFailures
  /\ waiting \in BOOLEAN
  /\ waited \in 0..WarnAfter
  /\ lastLog \in LogLines
  /\ published \in Inventories \cup {NoInventory}
  /\ lastResult \in {"none", "ok", "failed"}

\* The types of scheduler, collector, registry and mapper together.
TypeOK == MapperTypeOK /\ CycleTypeOK

\* Metrics[i] exposes exactly the series of an inventory, every value set and every
\* label taken from one single response of kubelet.
Exposes(i, inventory) ==
  \E r \in Responses \cup {NoResponse} :
    registry[i] = Exposition(Metrics[i], inventory, SnapshotFor(r, inventory))

\* Between cycles, and while a cycle waits for the daemon, /metrics shows exactly
\* what the last completed cycle collected: after a success every family is complete
\* for that inventory, with no series of an older one and no placeholder value; after
\* a failure every family is empty (npu_collector.go 52-69).
Settled == phase \in Quiet => \A i \in MetricIndex : Exposes(i, published)

\* While no cycle is writing, rbln_up is 1 exactly when the last collection succeeded,
\* and a 0 comes with no device series at all (scheduler.go 42-52; README.md 290, 337).
UpTruthful ==
  phase \in Quiet =>
    /\ up = 1 <=> lastResult = "ok"
    /\ up = 0 => \A i \in MetricIndex : registry[i] = NoSeries

\* The inventory the series of Metrics[i] must come from: the cycle's own once its
\* Reset has run, until then the one the last completed cycle left.
Source(i) ==
  IF \/ phase = "finish"
     \/ phase \in Publishing /\ i < pos
     \/ phase \in {"snapshot", "update"} /\ i = pos
  THEN devices ELSE published

\* At every moment, whatever step of a cycle a scrape falls on, an exposed series
\* belongs to the inventory of the running cycle or, in a family the cycle has not
\* reached, to the one before it, and has the value collected there; only the series
\* being created at that moment may show 0 instead (npu_collector.go 63-66).
NeverStale ==
  \A i \in MetricIndex : \A k \in DOMAIN registry[i] :
    \E r \in Responses \cup {NoResponse} :
      LET e == Exposition(Metrics[i], Source(i), SnapshotFor(r, Source(i)))
      IN /\ k \in DOMAIN e
         /\ (registry[i][k] = e[k]) \/ (i = pos /\ k \in opened /\ registry[i][k] = 0)

\* The log marks both edges of an outage and agrees with rbln_up: a streak is open,
\* its last line being a failure, exactly when something was collected once and up is
\* 0; before the first success there is no streak and up is 0 (scheduler.go 68-91).
OutageEdges ==
  /\ (collectedOnce /\ up = 0) <=> consecutiveFailures > 0
  /\ consecutiveFailures > 0 <=> lastLog = "failed"
  /\ up = 1 => collectedOnce

\* The order of log lines: the start-up wait only ever escalates, it is never reported
\* again once a collection has succeeded, and a recovery directly follows a failure
\* of its own streak (scheduler.go 76-90, 97-114).
LogOrder ==
  [][lastLog' # lastLog =>
       \/ lastLog = "none" /\ lastLog' = "waiting"
       \/ lastLog = "waiting" /\ lastLog' = "stillWaiting"
       \/ lastLog' = "failed"
       \/ lastLog = "failed" /\ lastLog' = "recovered"]_vars

\* A daemon that comes back and stays is noticed: from some point on rbln_up stays 1.
RecoversWithDaemon == <>[](daemonUp /\ ~cancelled) => <>[](up = 1)

\* When kubelet's allocations stop changing, the labels of every family end up naming
\* the claimants of that allocation, although each cycle reads the mapper while the
\* sync it asked for may still be running.
AttributionConverges ==
  \A r \in Responses :
    <>[](daemonUp /\ kubeletUp /\ ~cancelled /\ allocation = r)
    => <>[](phase = "idle" =>
              \A i \in MetricIndex :
                registry[i] = Exposition(Metrics[i], published, SnapshotFor(r, published)))

\* Shutdown ends both goroutines, even with the daemon and kubelet hanging.
StopsOnShutdown ==
  cancelled ~> phase = "stopped" /\ syncPhase \in {"stopped", "none"}

\* README.md 193: one claimant per device.  Between cycles all the series of a device
\* name the same pod.
OneClaimantPerDevice ==
  phase \in Quiet =>
    \A i, j \in MetricIndex : \A k \in DOMAIN registry[i], l \in DOMAIN registry[j] :
      k.device = l.device => k.pod = l.pod
-----------------------------------------------------------------------------
\* What Metrics[i] may show of an inventory: labels taken from one response.
Showing == [i \in MetricIndex |->
              [inventory \in Inventories |->
                 {Exposition(Metrics[i], inventory, SnapshotFor(r, inventory)) :
                    r \in Responses \cup {NoResponse}}]]

Exposed == INSTANCE Exposure WITH
  Families <- MetricIndex, Results <- Inventories, Legal <- Showing, Blank <- NoSeries,
  settled <- phase \in Quiet,
  view <- IF phase \in Quiet THEN registry ELSE [i \in MetricIndex |-> NoSeries],
  up <- up, everUp <- collectedOnce, line <- lastLog

\* The exporter implements Exposure: seen between cycles, the many steps of a cycle
\* (resetting, labelling and writing family after family, with scrapes, syncs, daemon
\* failures and the shutdown in between) are one atomic success or failure of the whole
\* page, and the lines runCycle derives from its counter and its clock are those that
\* rbln_up and its history call for (npu_collector.go 52-69, scheduler.go 42-114).
ImplementsExposure == Exposed!Spec
=============================================================================
