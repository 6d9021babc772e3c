------------------------- MODULE LocalExporterProofs ------------------------
(***************************************************************************)
(* What the local exporter exposes, proved for every list of Metrics, every *)
(* set of inventories and of kubelet responses, and every bound.           *)
(*                                                                         *)
(* Settled, UpTruthful and NeverStale speak of the registry at particular  *)
(* moments and are not inductive: what a cycle leaves behind depends on    *)
(* how far it got.  FamilyOK says, for each Metric and each point of the   *)
(* cycle, whose series the Metric shows, and UpdateOK how much of the      *)
(* Metric at pos is already written.  Together with the outcome of the     *)
(* last collection (OutcomeOK) and the mapper's own invariant they are     *)
(* inductive.                                                              *)
(***************************************************************************)
EXTENDS Scrape, TLAPS

-----------------------------------------------------------------------------
\* The mapper by itself, for every set of responses kubelet may give.  The conjunction
\* of its type invariant with its two safety invariants is inductive; each action is
\* treated once, so that the composed exporter can reuse the lemmas.
MapperInv == MapperTypeOK /\ TriggerNotLost /\ SharedLogCurrent

\* A response without claims shares nothing: the fold over it is its base.
LEMMA EmptyResponse == deviceMapFromPodResources(NoResponse).shared = {}
<1> DEFINE base == [devices |-> [n \in {} |-> NoPod], shared |-> {}]
           resolved == [i \in DOMAIN <<>> |-> <<>>[i].id]
           Skipped(claim) == ~claim.ours \/ claim.id = NoDevice
           Body(f) == [i \in 0..Len(<<>>) |->
                         IF i = 0 THEN base
                         ELSE IF Skipped(<<>>[i]) THEN f[i - 1]
                         ELSE assign(f[i - 1], resolved[i], <<>>[i].pod)]
           After == CHOOSE f : f = Body(f)
<1>1. 0..Len(<<>>) = {0}
  OBVIOUS
<1>2. \A f : Body(f) = [i \in {0} |-> base]
  BY <1>1
<1>3. After = Body(After)
  <2>1. \E f : f = Body(f)
    BY <1>2
  <2> QED
    BY <2>1
<1>4. After[0] = base
  BY <1>2, <1>3
<1>5. deviceMapFromPodResources(NoResponse) = After[Len(<<>>)]
  BY DEF deviceMapFromPodResources, mapPodResources, NoResponse
<1>6. After[Len(<<>>)] = base
  BY <1>4
<1>7. base.shared = {}
  OBVIOUS
<1> HIDE DEF After, base
<1> QED
  BY <1>5, <1>6, <1>7

LEMMA MapperInitially == MapperInit => MapperInv
<1> SUFFICES ASSUME MapperInit PROVE MapperInv
  OBVIOUS
<1>1. MapperTypeOK
  <2>1. CASE isKubernetes = TRUE
    BY <2>1 DEF MapperInit, MapperTypeOK
  <2>2. CASE isKubernetes = FALSE
    BY <2>2 DEF MapperInit, MapperTypeOK
  <2> QED
    BY <2>1, <2>2, KubernetesAssumption
<1>2. TriggerNotLost
  BY DEF MapperInit, TriggerNotLost
<1>3. SharedLogCurrent
  BY EmptyResponse DEF MapperInit, SharedLogCurrent
<1> QED
  BY <1>1, <1>2, <1>3 DEF MapperInv

\* A cycle's request leaves a request in the channel.
LEMMA TriggerStep ==
  ASSUME MapperInv, TriggerSync,
         UNCHANGED <<allocation, kubeletUp, cancelled, syncPhase, fetched, lastResponse,
                     sharedDevices, reportedShared>>
  PROVE  MapperInv'
BY KubernetesAssumption
   DEF MapperInv, MapperTypeOK, TriggerNotLost, SharedLogCurrent, TriggerSync

\* The goroutine's own steps: only taking the request out of the channel, which
\* begins a List, ends the obligation.
LEMMA SyncStepInv ==
  ASSUME MapperInv, SyncStep
  PROVE  MapperInv'
<1> USE DEF MapperInv, MapperTypeOK, TriggerNotLost, SharedLogCurrent, kubeletVars
<1>1. CASE SyncBegin
  BY <1>1 DEF SyncBegin
<1>2. CASE ListReturns
  BY <1>2 DEF ListReturns
<1>3. CASE ListFails
  BY <1>3 DEF ListFails
<1>4. CASE SyncApplies
  BY <1>4 DEF SyncApplies, ReportSharing
<1>5. CASE SyncStops
  BY <1>5 DEF SyncStops
<1> QED
  BY <1>1, <1>2, <1>3, <1>4, <1>5 DEF SyncStep

\* kubelet and the shutdown touch nothing the mapper keeps.
LEMMA EnvironmentStepInv ==
  ASSUME MapperInv, KubeletStep \/ Shutdown
  PROVE  MapperInv'
<1> USE DEF MapperInv, MapperTypeOK, TriggerNotLost, SharedLogCurrent, syncVars, kubeletVars
<1>1. CASE AllocationChanges
  BY <1>1 DEF AllocationChanges
<1>2. CASE KubeletFlips
  BY <1>2 DEF KubeletFlips
<1>3. CASE Shutdown
  BY <1>3 DEF Shutdown
<1> QED
  BY <1>1, <1>2, <1>3 DEF KubeletStep

\* TriggerNotLost and SharedLogCurrent hold of the mapper in every behaviour.
LEMMA MapperInvariance == MapperSpec => []MapperInv
<1>1. MapperInit => MapperInv
  BY MapperInitially
<1>2. MapperInv /\ [MapperNext]_mapperVars => MapperInv'
  <2> SUFFICES ASSUME MapperInv, [MapperNext]_mapperVars
               PROVE  MapperInv'
    OBVIOUS
  <2>1. CASE CycleTriggers
    BY <2>1, TriggerStep DEF CycleTriggers, kubeletVars
  <2>2. CASE SyncStep
    BY <2>2, SyncStepInv
  <2>3. CASE KubeletStep \/ Shutdown
    BY <2>3, EnvironmentStepInv
  <2>4. CASE UNCHANGED mapperVars
    BY <2>4 DEF mapperVars, MapperInv, MapperTypeOK, TriggerNotLost, SharedLogCurrent
  <2> QED
    BY <2>1, <2>2, <2>3, <2>4 DEF MapperNext
<1> QED
  BY <1>1, <1>2, PTL DEF MapperSpec

\* Type correctness of the mapper for every set of kubelet responses.
THEOREM MapperTypeCorrect == MapperSpec => []MapperTypeOK
<1>1. MapperInv => MapperTypeOK
  BY DEF MapperInv
<1> QED
  BY <1>1, MapperInvariance, PTL

\* No sync request is lost, whatever sync is running when it is made.
THEOREM MapperKeepsTriggers == MapperSpec => []TriggerNotLost
<1>1. MapperInv => TriggerNotLost
  BY DEF MapperInv
<1> QED
  BY <1>1, MapperInvariance, PTL

\* The sharing lines of the log agree with the last sync.
THEOREM MapperReportsSharing == MapperSpec => []SharedLogCurrent
<1>1. MapperInv => SharedLogCurrent
  BY DEF MapperInv
<1> QED
  BY <1>1, MapperInvariance, PTL

\* A response in force gives way only to that of a later successful sync.
THEOREM MapperKeepsAttribution == MapperSpec => AttributionKept
<1>1. [MapperNext]_mapperVars =>
        [lastResponse' # lastResponse => syncPhase \in {"initialApply", "apply"}
                                         /\ lastResponse' = fetched]_mapperVars
  BY DEF MapperNext, SyncStep, KubeletStep, CycleTriggers, SyncBegin, ListReturns,
         ListFails, SyncApplies, SyncStops, AllocationChanges, KubeletFlips, Shutdown,
         syncVars, mapperVars
<1> QED
  BY <1>1, PTL DEF MapperSpec, AttributionKept

-----------------------------------------------------------------------------

\* Whose series Metrics[i] shows at each point of a cycle.
FamilyOK(i) ==
  /\ phase \in Quiet => Exposes(i, published)
  /\ phase = "clear" => IF i < pos THEN registry[i] = NoSeries ELSE Exposes(i, published)
  /\ phase = "failed" => registry[i] = NoSeries
  /\ phase \in {"reset", "snapshot", "update"} =>
       /\ i < pos => Exposes(i, devices)
       /\ i > pos => Exposes(i, published)
  /\ phase = "reset" /\ i = pos => Exposes(i, published)
  /\ phase = "snapshot" /\ i = pos => registry[i] = NoSeries
  /\ phase = "finish" => Exposes(i, devices)

FamiliesOK == \A i \in MetricIndex : FamilyOK(i)

\* While UpdateMetrics runs, Metrics[pos] shows what has been written of series, and
\* the one series that With has created shows 0.
UpdateOK ==
  /\ \A k, l \in opened : k = l
  /\ phase # "update" => todo = {}
  /\ phase = "update" =>
       /\ \E r \in Responses \cup {NoResponse} :
            series = Exposition(Metrics[pos], devices, SnapshotFor(r, devices))
       /\ registry[pos] = [k \in (DOMAIN series \ todo) \cup opened |->
                             IF k \in opened THEN 0 ELSE series[k]]

OutcomeOK ==
  /\ up = 0 => published = NoInventory
  /\ phase \in Quiet => (up = 1 <=> lastResult = "ok")
  /\ phase \in {"clear", "failed"} => lastResult = "failed"
  /\ phase \in Publishing => lastResult = "ok" /\ devices \in Inventories

\* Before the first success the last line is the start-up wait's, as old as waited.
WaitOK ==
  ~collectedOnce =>
    IF waiting THEN lastLog = IF waited >= WarnAfter THEN "stillWaiting" ELSE "waiting"
    ELSE lastLog = "none"

LogsOK == OutageEdges /\ WaitOK

CycleInv == CycleTypeOK /\ FamiliesOK /\ UpdateOK /\ OutcomeOK /\ LogsOK

Inv == MapperInv /\ CycleInv

-----------------------------------------------------------------------------
\* Without devices there is nothing to expose.
LEMMA NothingExposed ==
  ASSUME NEW m, NEW snapshot
  PROVE  Exposition(m, NoInventory, snapshot) = NoSeries
BY DEF Exposition, NoInventory, NoSeries

LEMMA ExpositionIsFunction ==
  ASSUME NEW m, NEW inventory, NEW snapshot
  PROVE  LET e == Exposition(m, inventory, snapshot) IN e = [k \in DOMAIN e |-> e[k]]
BY DEF Exposition

\* The list of Metrics is not empty, so the first index exists.
LEMMA FirstMetric == Len(Metrics) \in Nat /\ Len(Metrics) >= 1 /\ 1 \in MetricIndex
BY MetricsAssumption DEF MetricIndex

LEMMA Initially == Init => Inv
<1> SUFFICES ASSUME Init PROVE Inv
  OBVIOUS
<1>1. MapperInv
  BY MapperInitially DEF Init
<1>2. CycleTypeOK
  <2>1. /\ pos \in MetricIndex
        /\ consecutiveFailures \in 0..MaxFailures
        /\ waited \in 0..WarnAfter
    BY FirstMetric, BoundsAssumption DEF Init
  <2>2. registry = [i \in MetricIndex |-> registry[i]]
    BY DEF Init
  <2>3. /\ opened \subseteq todo /\ todo \subseteq DOMAIN series
        /\ phase \in Phases
        /\ lastLog \in LogLines
        /\ devices \in Inventories \cup {NoInventory}
        /\ published \in Inventories \cup {NoInventory}
    BY DEF Init, Phases, Quiet, LogLines
  <2> QED
    BY <2>1, <2>2, <2>3 DEF Init, CycleTypeOK
<1>3. FamiliesOK
  BY NothingExposed DEF Init, FamiliesOK, FamilyOK, Exposes, Quiet, Publishing
<1>4. UpdateOK /\ OutcomeOK /\ LogsOK
  BY DEF Init, UpdateOK, OutcomeOK, LogsOK, OutageEdges, WaitOK, Quiet, Publishing
<1> QED
  BY <1>1, <1>2, <1>3, <1>4 DEF Inv, CycleInv

LEMMA TickInv == ASSUME Inv, Tick PROVE CycleInv'
<1> USE FirstMetric, BoundsAssumption
    DEF Inv, CycleInv, updateVars, registryVars, streakVars, TriggerSync
<1>1. CycleTypeOK'
  BY DEF Tick, CycleTypeOK, Phases, Quiet, Publishing, LogLines, MetricIndex, NoSeries
<1>2. FamiliesOK'
  BY NothingExposed DEF Tick, FamiliesOK, FamilyOK, Exposes, CycleTypeOK, Phases,
                        Quiet, Publishing, MetricIndex
<1>3. UpdateOK'
  BY DEF Tick, UpdateOK, CycleTypeOK
<1>4. OutcomeOK'
  BY DEF Tick, OutcomeOK, CycleTypeOK, Quiet, Publishing
<1>5. LogsOK'
  BY DEF Tick, LogsOK, OutageEdges, WaitOK, CycleTypeOK
<1> QED
  BY <1>1, <1>2, <1>3, <1>4, <1>5

LEMMA SchedulerStopsInv == ASSUME Inv, SchedulerStops PROVE CycleInv'
<1> USE FirstMetric, BoundsAssumption
    DEF Inv, CycleInv, updateVars, registryVars, streakVars
<1>1. CycleTypeOK'
  BY DEF SchedulerStops, CycleTypeOK, Phases, Quiet, Publishing, LogLines, MetricIndex, NoSeries
<1>2. FamiliesOK'
  BY NothingExposed DEF SchedulerStops, FamiliesOK, FamilyOK, Exposes, CycleTypeOK, Phases,
                        Quiet, Publishing, MetricIndex
<1>3. UpdateOK'
  BY DEF SchedulerStops, UpdateOK, CycleTypeOK
<1>4. OutcomeOK'
  BY DEF SchedulerStops, OutcomeOK, CycleTypeOK, Quiet, Publishing
<1>5. LogsOK'
  BY DEF SchedulerStops, LogsOK, OutageEdges, WaitOK, CycleTypeOK
<1> QED
  BY <1>1, <1>2, <1>3, <1>4, <1>5

LEMMA CollectFailsInv == ASSUME Inv, CollectFails PROVE CycleInv'
<1> USE FirstMetric, BoundsAssumption
    DEF Inv, CycleInv, updateVars, registryVars, streakVars
<1>1. CycleTypeOK'
  BY DEF CollectFails, CycleTypeOK, Phases, Quiet, Publishing, LogLines, MetricIndex, NoSeries
<1>2. FamiliesOK'
  BY NothingExposed DEF CollectFails, FamiliesOK, FamilyOK, Exposes, CycleTypeOK, Phases,
                        Quiet, Publishing, MetricIndex
<1>3. UpdateOK'
  BY DEF CollectFails, UpdateOK, CycleTypeOK
<1>4. OutcomeOK'
  BY DEF CollectFails, OutcomeOK, CycleTypeOK, Quiet, Publishing
<1>5. LogsOK'
  BY DEF CollectFails, LogsOK, OutageEdges, WaitOK, CycleTypeOK
<1> QED
  BY <1>1, <1>2, <1>3, <1>4, <1>5

LEMMA ClearMetricInv == ASSUME Inv, ClearMetric PROVE CycleInv'
<1> USE FirstMetric, BoundsAssumption
    DEF Inv, CycleInv, updateVars, registryVars, streakVars
<1>1. CycleTypeOK'
  <2>1. pos' \in MetricIndex /\ phase' \in Phases
    BY DEF ClearMetric, CycleTypeOK, Phases, MetricIndex
  <2>2. registry' = [i \in MetricIndex |-> registry'[i]]
    BY DEF ClearMetric, CycleTypeOK
  <2> QED
    BY <2>1, <2>2 DEF ClearMetric, CycleTypeOK
<1>2. FamiliesOK'
  BY NothingExposed DEF ClearMetric, FamiliesOK, FamilyOK, Exposes, CycleTypeOK, Phases,
                        Quiet, Publishing, MetricIndex
<1>3. UpdateOK'
  BY DEF ClearMetric, UpdateOK, CycleTypeOK
<1>4. OutcomeOK'
  BY DEF ClearMetric, OutcomeOK, CycleTypeOK, Quiet, Publishing
<1>5. LogsOK'
  BY DEF ClearMetric, LogsOK, OutageEdges, WaitOK, CycleTypeOK
<1> QED
  BY <1>1, <1>2, <1>3, <1>4, <1>5

LEMMA CycleFailsInv == ASSUME Inv, CycleFails PROVE CycleInv'
<1> USE FirstMetric, BoundsAssumption
    DEF Inv, CycleInv, updateVars, registryVars, streakVars, logFailed, logWaiting
<1>1. CycleTypeOK'
  <2>1. consecutiveFailures' \in 0..MaxFailures /\ waited' \in 0..WarnAfter
    BY DEF CycleFails, CycleTypeOK
  <2>2. /\ lastLog' \in LogLines /\ waiting' \in BOOLEAN
        /\ phase' \in Phases
    BY DEF CycleFails, CycleTypeOK, LogLines, Phases, Quiet
  <2> QED
    BY <2>1, <2>2 DEF CycleFails, CycleTypeOK
<1>2. FamiliesOK'
  BY NothingExposed DEF CycleFails, FamiliesOK, FamilyOK, Exposes, CycleTypeOK, Phases,
                        Quiet, Publishing, MetricIndex
<1>3. UpdateOK'
  BY DEF CycleFails, UpdateOK, CycleTypeOK
<1>4. OutcomeOK'
  BY DEF CycleFails, OutcomeOK, CycleTypeOK, Quiet, Publishing
<1>5. LogsOK'
  BY DEF CycleFails, LogsOK, OutageEdges, WaitOK, CycleTypeOK
<1> QED
  BY <1>1, <1>2, <1>3, <1>4, <1>5

LEMMA CollectSucceedsInv == ASSUME Inv, CollectSucceeds PROVE CycleInv'
<1> USE FirstMetric, BoundsAssumption
    DEF Inv, CycleInv, updateVars, registryVars, streakVars
<1>1. CycleTypeOK'
  BY DEF CollectSucceeds, CycleTypeOK, Phases, Quiet, Publishing, LogLines, MetricIndex, NoSeries
<1>2. FamiliesOK'
  BY NothingExposed DEF CollectSucceeds, FamiliesOK, FamilyOK, Exposes, CycleTypeOK, Phases,
                        Quiet, Publishing, MetricIndex
<1>3. UpdateOK'
  BY DEF CollectSucceeds, UpdateOK, CycleTypeOK
<1>4. OutcomeOK'
  BY DEF CollectSucceeds, OutcomeOK, CycleTypeOK, Quiet, Publishing
<1>5. LogsOK'
  BY DEF CollectSucceeds, LogsOK, OutageEdges, WaitOK, CycleTypeOK
<1> QED
  BY <1>1, <1>2, <1>3, <1>4, <1>5

LEMMA ResetMetricInv == ASSUME Inv, ResetMetric PROVE CycleInv'
<1> USE FirstMetric, BoundsAssumption
    DEF Inv, CycleInv, updateVars, registryVars, streakVars
<1>1. CycleTypeOK'
  BY DEF ResetMetric, CycleTypeOK, Phases, Quiet, Publishing, LogLines, MetricIndex, NoSeries
<1>2. FamiliesOK'
  BY NothingExposed DEF ResetMetric, FamiliesOK, FamilyOK, Exposes, CycleTypeOK, Phases,
                        Quiet, Publishing, MetricIndex
<1>3. UpdateOK'
  BY DEF ResetMetric, UpdateOK, CycleTypeOK
<1>4. OutcomeOK'
  BY DEF ResetMetric, OutcomeOK, CycleTypeOK, Quiet, Publishing
<1>5. LogsOK'
  BY DEF ResetMetric, LogsOK, OutageEdges, WaitOK, CycleTypeOK
<1> QED
  BY <1>1, <1>2, <1>3, <1>4, <1>5

LEMMA TakeSnapshotInv == ASSUME Inv, TakeSnapshot PROVE CycleInv'
<1> USE FirstMetric, BoundsAssumption
    DEF Inv, CycleInv, updateVars, registryVars, streakVars
<1>1. CycleTypeOK'
  BY DEF TakeSnapshot, CycleTypeOK, Phases, Quiet, Publishing, LogLines, MetricIndex, NoSeries
<1>2. FamiliesOK'
  BY NothingExposed DEF TakeSnapshot, FamiliesOK, FamilyOK, Exposes, CycleTypeOK, Phases,
                        Quiet, Publishing, MetricIndex
<1>3. UpdateOK'
  <2>1. registry'[pos'] = NoSeries
    BY DEF TakeSnapshot, FamiliesOK, FamilyOK, CycleTypeOK
  <2>2. \E r \in Responses \cup {NoResponse} :
          series' = Exposition(Metrics[pos], devices, SnapshotFor(r, devices))
    BY DEF TakeSnapshot, MapperInv, MapperTypeOK
  <2>3. [k \in (DOMAIN series' \ todo') \cup opened' |->
           IF k \in opened' THEN 0 ELSE series'[k]] = NoSeries
    BY DEF TakeSnapshot, NoSeries
  <2> QED
    BY <2>1, <2>2, <2>3 DEF TakeSnapshot, UpdateOK
<1>4. OutcomeOK'
  BY DEF TakeSnapshot, OutcomeOK, CycleTypeOK, Quiet, Publishing
<1>5. LogsOK'
  BY DEF TakeSnapshot, LogsOK, OutageEdges, WaitOK, CycleTypeOK
<1> QED
  BY <1>1, <1>2, <1>3, <1>4, <1>5

LEMMA NextMetricInv == ASSUME Inv, NextMetric PROVE CycleInv'
<1> USE FirstMetric, BoundsAssumption
    DEF Inv, CycleInv, updateVars, registryVars, streakVars
<1>1. CycleTypeOK'
  BY DEF NextMetric, CycleTypeOK, Phases, Quiet, Publishing, LogLines, MetricIndex, NoSeries
<1>2. FamiliesOK'
  <2>1. registry[pos] = series
    <3>1. registry[pos] = [k \in DOMAIN series |-> series[k]]
      BY DEF NextMetric, UpdateOK, CycleTypeOK
    <3>2. series = [k \in DOMAIN series |-> series[k]]
      BY ExpositionIsFunction DEF NextMetric, UpdateOK
    <3> QED
      BY <3>1, <3>2
  <2>2. Exposes(pos, devices)
    BY <2>1 DEF NextMetric, UpdateOK, Exposes
  <2>3. \A i \in MetricIndex : registry'[i] = registry[i]
    BY DEF NextMetric
  <2> QED
    BY <2>2, <2>3
       DEF NextMetric, FamiliesOK, FamilyOK, Exposes, CycleTypeOK, Quiet, MetricIndex
<1>3. UpdateOK'
  BY DEF NextMetric, UpdateOK, CycleTypeOK
<1>4. OutcomeOK'
  BY DEF NextMetric, OutcomeOK, CycleTypeOK, Quiet, Publishing
<1>5. LogsOK'
  BY DEF NextMetric, LogsOK, OutageEdges, WaitOK, CycleTypeOK
<1> QED
  BY <1>1, <1>2, <1>3, <1>4, <1>5

LEMMA CycleSucceedsInv == ASSUME Inv, CycleSucceeds PROVE CycleInv'
<1> USE FirstMetric, BoundsAssumption
    DEF Inv, CycleInv, updateVars, registryVars, streakVars
<1>1. CycleTypeOK'
  BY DEF CycleSucceeds, CycleTypeOK, Phases, Quiet, Publishing, LogLines, MetricIndex, NoSeries
<1>2. FamiliesOK'
  BY NothingExposed DEF CycleSucceeds, FamiliesOK, FamilyOK, Exposes, CycleTypeOK, Phases,
                        Quiet, Publishing, MetricIndex
<1>3. UpdateOK'
  BY DEF CycleSucceeds, UpdateOK, CycleTypeOK
<1>4. OutcomeOK'
  BY DEF CycleSucceeds, OutcomeOK, CycleTypeOK, Quiet, Publishing
<1>5. LogsOK'
  BY DEF CycleSucceeds, LogsOK, OutageEdges, WaitOK, CycleTypeOK
<1> QED
  BY <1>1, <1>2, <1>3, <1>4, <1>5

LEMMA DaemonFlipsInv == ASSUME Inv, DaemonFlips PROVE CycleInv'
<1> USE FirstMetric, BoundsAssumption
    DEF Inv, CycleInv, updateVars, registryVars, streakVars
<1>1. CycleTypeOK'
  BY DEF DaemonFlips, CycleTypeOK, Phases, Quiet, Publishing, LogLines, MetricIndex, NoSeries
<1>2. FamiliesOK'
  BY NothingExposed DEF DaemonFlips, FamiliesOK, FamilyOK, Exposes, CycleTypeOK, Phases,
                        Quiet, Publishing, MetricIndex
<1>3. UpdateOK'
  BY DEF DaemonFlips, UpdateOK, CycleTypeOK
<1>4. OutcomeOK'
  BY DEF DaemonFlips, OutcomeOK, CycleTypeOK, Quiet, Publishing
<1>5. LogsOK'
  BY DEF DaemonFlips, LogsOK, OutageEdges, WaitOK, CycleTypeOK
<1> QED
  BY <1>1, <1>2, <1>3, <1>4, <1>5

\* Creating a series: the one written so far gains an entry at 0.
LEMMA WithInv == ASSUME Inv, NEW k \in todo, With(k) PROVE CycleInv'
<1> USE DEF Inv, CycleInv, streakVars
<1>1. CycleTypeOK'
  BY DEF With, CycleTypeOK
<1>2. FamiliesOK'
  BY DEF With, FamiliesOK, FamilyOK, Exposes, CycleTypeOK, Quiet, MetricIndex
<1>3. UpdateOK'
  <2>1. registry[pos] = [s \in DOMAIN series \ todo |-> series[s]]
    BY DEF With, UpdateOK
  <2>2. registry'[pos] = [s \in (DOMAIN series \ todo) \cup {k} |->
                            IF s \in {k} THEN 0 ELSE series[s]]
    BY <2>1 DEF With, CycleTypeOK
  <2> QED
    BY <2>2 DEF With, UpdateOK, CycleTypeOK
<1>4. OutcomeOK' /\ LogsOK'
  BY DEF With, OutcomeOK, LogsOK, OutageEdges, WaitOK, Quiet, Publishing
<1> QED
  BY <1>1, <1>2, <1>3, <1>4

\* Setting it: the entry takes the value the Metric is to show.
LEMMA SetValueInv == ASSUME Inv, NEW k \in todo, SetValue(k) PROVE CycleInv'
<1> USE DEF Inv, CycleInv, streakVars
<1>1. CycleTypeOK'
  BY DEF SetValue, CycleTypeOK
<1>2. FamiliesOK'
  BY DEF SetValue, FamiliesOK, FamilyOK, Exposes, CycleTypeOK, Quiet, MetricIndex
<1>3. UpdateOK'
  <2>1. opened = {k} /\ k \in DOMAIN series
    BY DEF SetValue, UpdateOK, CycleTypeOK
  <2>2. registry[pos] = [s \in (DOMAIN series \ todo) \cup {k} |->
                           IF s \in {k} THEN 0 ELSE series[s]]
    BY <2>1 DEF SetValue, UpdateOK
  <2>3. registry'[pos] = [s \in DOMAIN series \ (todo \ {k}) |-> series[s]]
    BY <2>1, <2>2 DEF SetValue, CycleTypeOK
  <2> QED
    BY <2>3 DEF SetValue, UpdateOK, CycleTypeOK
<1>4. OutcomeOK' /\ LogsOK'
  BY DEF SetValue, OutcomeOK, LogsOK, OutageEdges, WaitOK, Quiet, Publishing
<1> QED
  BY <1>1, <1>2, <1>3, <1>4

\* A step of the mapper, of kubelet or of the shutdown leaves the cycle alone.
LEMMA CycleUntouched == ASSUME CycleInv, UNCHANGED cycleVars PROVE CycleInv'
BY DEF cycleVars, CycleInv, CycleTypeOK, FamiliesOK, FamilyOK, UpdateOK, OutcomeOK,
       LogsOK, OutageEdges, WaitOK, Exposes

\* Inv is inductive.
LEMMA StepInv == Inv /\ [Next]_vars => Inv'
<1> SUFFICES ASSUME Inv, [Next]_vars
             PROVE  Inv'
  OBVIOUS
<1>1. CASE Tick
  <2>1. MapperInv'
    BY <1>1, TriggerStep DEF Tick, Inv
  <2> QED
    BY <1>1, <2>1, TickInv DEF Inv
<1>2. ASSUME UNCHANGED mapperVars PROVE MapperInv'
  BY <1>2 DEF Inv, mapperVars, MapperInv, MapperTypeOK, TriggerNotLost, SharedLogCurrent
<1>3. CASE SchedulerStops
  BY <1>2, <1>3, SchedulerStopsInv DEF Inv, SchedulerStops
<1>4. CASE CollectFails
  BY <1>2, <1>4, CollectFailsInv DEF Inv, CollectFails
<1>5. CASE CollectSucceeds
  BY <1>2, <1>5, CollectSucceedsInv DEF Inv, CollectSucceeds
<1>6. CASE ClearMetric
  BY <1>2, <1>6, ClearMetricInv DEF Inv, ClearMetric
<1>7. CASE CycleFails
  BY <1>2, <1>7, CycleFailsInv DEF Inv, CycleFails
<1>8. CASE ResetMetric
  BY <1>2, <1>8, ResetMetricInv DEF Inv, ResetMetric
<1>9. CASE TakeSnapshot
  BY <1>2, <1>9, TakeSnapshotInv DEF Inv, TakeSnapshot
<1>10. CASE WriteSeries
  <2>1. PICK k \in todo : With(k) \/ SetValue(k)
    BY <1>10 DEF WriteSeries
  <2>2. CycleInv'
    BY <2>1, WithInv, SetValueInv
  <2>3. UNCHANGED mapperVars
    BY <2>1 DEF With, SetValue
  <2> QED
    BY <1>2, <2>2, <2>3 DEF Inv
<1>11. CASE NextMetric
  BY <1>2, <1>11, NextMetricInv DEF Inv, NextMetric
<1>12. CASE CycleSucceeds
  BY <1>2, <1>12, CycleSucceedsInv DEF Inv, CycleSucceeds
<1>13. CASE DaemonFlips
  BY <1>2, <1>13, DaemonFlipsInv DEF Inv, DaemonFlips
<1>14. CASE MapperStep
  <2>1. MapperInv'
    BY <1>14, SyncStepInv, EnvironmentStepInv DEF MapperStep, Inv
  <2> QED
    BY <1>14, <2>1, CycleUntouched DEF MapperStep, Inv
<1>15. CASE UNCHANGED vars
  BY <1>2, <1>15, CycleUntouched DEF vars, Inv
<1> QED
  BY <1>1, <1>3, <1>4, <1>5, <1>6, <1>7, <1>8, <1>9, <1>10, <1>11, <1>12, <1>13, <1>14,
     <1>15 DEF Next, SchedulerStep, CollectStep, PublishStep

LEMMA Invariance == Spec => []Inv
BY Initially, StepInv, PTL DEF Spec

-----------------------------------------------------------------------------
\* Type correctness of the composed exporter.
THEOREM TypeCorrect == Spec => []TypeOK
<1>1. Inv => TypeOK
  BY DEF Inv, CycleInv, MapperInv, TypeOK
<1> QED
  BY <1>1, Invariance, PTL

\* Between cycles /metrics shows exactly what the last completed cycle collected,
\* each family labelled from one response of kubelet; after a failure, nothing.
THEOREM ShowsLastCycle == Spec => []Settled
<1>1. Inv => Settled
  BY DEF Inv, CycleInv, FamiliesOK, FamilyOK, Settled
<1> QED
  BY <1>1, Invariance, PTL

\* rbln_up agrees with the last collection, and 0 means no device series.
THEOREM UpIsTruthful == Spec => []UpTruthful
<1>1. Inv => UpTruthful
  BY NothingExposed
     DEF Inv, CycleInv, FamiliesOK, FamilyOK, OutcomeOK, Exposes, UpTruthful
<1> QED
  BY <1>1, Invariance, PTL

\* At every point of a cycle, what a Metric shows is what Source names.
LEMMA InvNotStale == Inv => NeverStale
<1> SUFFICES ASSUME Inv, NEW i \in MetricIndex, NEW k \in DOMAIN registry[i]
             PROVE  \E r \in Responses \cup {NoResponse} :
                      LET e == Exposition(Metrics[i], Source(i), SnapshotFor(r, Source(i)))
                      IN /\ k \in DOMAIN e
                         /\ \/ registry[i][k] = e[k]
                            \/ i = pos /\ k \in opened /\ registry[i][k] = 0
  BY DEF NeverStale
<1>1. registry[i] # NoSeries
  BY DEF NoSeries
<1>2. CASE phase = "update" /\ i = pos
  BY <1>2 DEF Inv, CycleInv, UpdateOK, CycleTypeOK, Source
<1>3. CASE ~(phase = "update" /\ i = pos)
  <2>1. Exposes(i, Source(i))
    BY <1>1, <1>3 DEF Inv, CycleInv, FamiliesOK, FamilyOK, CycleTypeOK, Source, Phases,
                      Publishing, Quiet, MetricIndex
  <2> QED
    BY <2>1 DEF Exposes
<1> QED
  BY <1>2, <1>3

\* Wherever in a cycle a scrape falls, no exposed series is older than the previous
\* cycle and none but the one being created has a value that was not collected.
THEOREM NothingStale == Spec => []NeverStale
BY InvNotStale, Invariance, PTL

\* The failure streak, the last log line and rbln_up always agree.
THEOREM OutageHasBothEdges == Spec => []OutageEdges
<1>1. Inv => OutageEdges
  BY DEF Inv, CycleInv, LogsOK
<1> QED
  BY <1>1, Invariance, PTL

\* The start-up wait only escalates, is never reported again after a success, and a
\* recovery directly follows a failure.
THEOREM LogsInOrder == Spec => LogOrder
<1> DEFINE Legal == \/ lastLog = "none" /\ lastLog' = "waiting"
                    \/ lastLog = "waiting" /\ lastLog' = "stillWaiting"
                    \/ lastLog' = "failed"
                    \/ lastLog = "failed" /\ lastLog' = "recovered"
<1>1. ASSUME Inv, [Next]_vars
      PROVE  [lastLog' # lastLog => Legal]_vars
  <2> SUFFICES ASSUME lastLog' # lastLog
               PROVE  Legal
    OBVIOUS
  <2>1. CASE CycleFails
    <3>1. CASE collectedOnce
      BY <2>1, <3>1 DEF CycleFails, logFailed
    <3>2. CASE ~collectedOnce
      <4>1. logWaiting /\ WaitOK
        BY <1>1, <2>1, <3>2 DEF CycleFails, Inv, CycleInv, LogsOK
      <4>2. CASE waiting
        <5>1. lastLog = IF waited >= WarnAfter THEN "stillWaiting" ELSE "waiting"
          BY <3>2, <4>1, <4>2 DEF WaitOK
        <5>2. waited' \in waited..WarnAfter
          BY <4>1, <4>2 DEF logWaiting
        <5>3. lastLog' = IF waited' >= WarnAfter THEN "stillWaiting" ELSE "waiting"
          BY <4>1 DEF logWaiting
        <5>4. waited \in Nat /\ WarnAfter \in Nat
          BY <1>1, BoundsAssumption DEF Inv, CycleInv, CycleTypeOK
        <5> QED
          BY <5>1, <5>2, <5>3, <5>4
      <4>3. CASE ~waiting
        <5>1. lastLog = "none"
          BY <3>2, <4>1, <4>3 DEF WaitOK
        <5>2. waited' = 0
          BY <4>1, <4>3 DEF logWaiting
        <5>3. lastLog' = "waiting"
          BY <4>1, <5>2, BoundsAssumption DEF logWaiting
        <5> QED
          BY <5>1, <5>3
      <4> QED
        BY <4>2, <4>3
    <3> QED
      BY <3>1, <3>2
  <2>2. CASE CycleSucceeds
    <3>1. consecutiveFailures > 0 /\ lastLog' = "recovered"
      BY <2>2 DEF CycleSucceeds
    <3>2. lastLog = "failed"
      BY <1>1, <3>1 DEF Inv, CycleInv, LogsOK, OutageEdges
    <3> QED
      BY <3>1, <3>2
  <2>3. CASE ~CycleFails /\ ~CycleSucceeds
    <3>1. UNCHANGED lastLog
      BY <1>1, <2>3 DEF Next, SchedulerStep, CollectStep, PublishStep, Tick,
         SchedulerStops, CollectFails, CollectSucceeds, ClearMetric, ResetMetric,
         TakeSnapshot, WriteSeries, With, SetValue, NextMetric, DaemonFlips, MapperStep,
         vars, cycleVars, streakVars
    <3> QED
      BY <3>1
  <2> QED
    BY <2>1, <2>2, <2>3
<1>2. Inv /\ [Next]_vars => [lastLog' # lastLog => Legal]_vars
  BY <1>1
<1> QED
  BY <1>2, Invariance, PTL DEF Spec, LogOrder
-----------------------------------------------------------------------------
\* A cycle that begins to write maps to Begin.
LEMMA BeginMaps == ASSUME Inv, CollectFails \/ CollectSucceeds PROVE Exposed!Next
<1>1. phase \in Quiet /\ phase' \notin Quiet
  BY DEF CollectFails, CollectSucceeds, Quiet
<1>2. UNCHANGED <<up, collectedOnce, lastLog>>
  BY DEF CollectFails, CollectSucceeds, registryVars, streakVars
<1> QED
  BY <1>1, <1>2 DEF Exposed!Next, Exposed!Begin, Exposed!Nothing

\* The end of a successful cycle maps to Succeed: the inventory is the one of the cycle,
\* and the streak is open exactly when something was collected once and up is 0.
LEMMA SucceedMaps == ASSUME Inv, CycleSucceeds PROVE Exposed!Next
<1>1. /\ phase = "finish" /\ phase' = "idle"
      /\ phase \notin Quiet /\ phase' \in Quiet
  BY DEF CycleSucceeds, Quiet
<1>2. devices \in Inventories
  BY <1>1 DEF Inv, CycleInv, OutcomeOK, Publishing
<1>3. registry' = registry /\ registry = [i \in MetricIndex |-> registry[i]]
  BY DEF CycleSucceeds, Inv, CycleInv, CycleTypeOK
<1>4. ASSUME NEW i \in MetricIndex PROVE registry'[i] \in Showing[i][devices]
  <2>1. Exposes(i, devices)
    BY <1>1 DEF Inv, CycleInv, FamiliesOK, FamilyOK
  <2> QED
    BY <1>2, <1>3, <2>1 DEF Exposes, Showing
<1>5. lastLog' = IF collectedOnce /\ up = 0 THEN "recovered" ELSE lastLog
  BY DEF CycleSucceeds, Inv, CycleInv, LogsOK, OutageEdges
<1>6. up' = 1 /\ collectedOnce' = TRUE
  BY DEF CycleSucceeds
<1> QED
  BY <1>1, <1>2, <1>3, <1>4, <1>5, <1>6 DEF Exposed!Next, Exposed!Succeed

\* The end of a failed cycle maps to Fail.
LEMMA FailMaps == ASSUME Inv, CycleFails PROVE Exposed!Next
<1>1. phase \notin Quiet /\ phase' \in Quiet
  BY DEF CycleFails, Quiet
<1>2. registry' = [i \in MetricIndex |-> NoSeries]
  <2>1. \A i \in MetricIndex : registry[i] = NoSeries
    BY DEF CycleFails, Inv, CycleInv, FamiliesOK, FamilyOK
  <2> QED
    BY <2>1 DEF CycleFails, Inv, CycleInv, CycleTypeOK
<1>3. lastLog' \in IF collectedOnce THEN {"failed"}
                    ELSE IF lastLog = "none" THEN {"waiting"} ELSE {lastLog, "stillWaiting"}
  <2>1. CASE collectedOnce
    BY <2>1 DEF CycleFails, logFailed
  <2>2. CASE ~collectedOnce
    <3>1. logWaiting /\ WaitOK
      BY <2>2 DEF CycleFails, Inv, CycleInv, LogsOK
    <3>2. waited \in Nat /\ WarnAfter \in Nat \ {0}
      BY BoundsAssumption DEF Inv, CycleInv, CycleTypeOK
    <3>3. CASE ~waiting
      <4>1. lastLog = "none" /\ waited' = 0
        BY <2>2, <3>1, <3>3 DEF WaitOK, logWaiting
      <4> QED
        BY <2>2, <3>1, <3>2, <4>1 DEF logWaiting
    <3>4. CASE waiting
      <4>1. lastLog = IF waited >= WarnAfter THEN "stillWaiting" ELSE "waiting"
        BY <2>2, <3>1, <3>4 DEF WaitOK
      <4>2. /\ waited' \in waited..WarnAfter
            /\ lastLog' = IF waited' >= WarnAfter THEN "stillWaiting" ELSE "waiting"
        BY <3>1, <3>4 DEF logWaiting
      <4>3. lastLog' = lastLog \/ lastLog' = "stillWaiting"
        BY <3>2, <4>1, <4>2
      <4> QED
        BY <2>2, <4>1, <4>3
    <3> QED
      BY <3>3, <3>4
  <2> QED
    BY <2>1, <2>2
<1>4. up' = 0 /\ collectedOnce' = collectedOnce
  BY DEF CycleFails
<1> QED
  BY <1>1, <1>2, <1>3, <1>4 DEF Exposed!Next, Exposed!Fail, Exposed!Nothing

\* Every other step stutters: it leaves the registry alone, or writes it within a cycle.
LEMMA OtherStepsStutter ==
  ASSUME Inv, [Next]_vars, ~CollectStep, ~CycleFails, ~CycleSucceeds
  PROVE  UNCHANGED Exposed!vars
<1>1. UNCHANGED <<up, collectedOnce, lastLog>>
  BY DEF Next, SchedulerStep, PublishStep, Tick, SchedulerStops, ClearMetric,
     ResetMetric, TakeSnapshot, WriteSeries, With, SetValue, NextMetric, DaemonFlips,
     MapperStep, vars, cycleVars, registryVars, streakVars
<1>2. \/ phase \in Quiet /\ phase' \in Quiet /\ registry' = registry
      \/ phase \notin Quiet /\ phase' \notin Quiet
  BY DEF Next, SchedulerStep, PublishStep, Tick, SchedulerStops, ClearMetric,
     ResetMetric, TakeSnapshot, WriteSeries, With, SetValue, NextMetric, DaemonFlips,
     MapperStep, vars, cycleVars, registryVars, Quiet
<1>3. (phase' \in Quiet) = (phase \in Quiet)
  BY <1>2
<1> QED
  BY <1>1, <1>2, <1>3 DEF Exposed!vars

\* The exporter's many small steps implement atomic cycles: every reader between two
\* cycles sees the whole of one result, and the log follows from rbln_up alone.
THEOREM RefinesExposure == Spec => ImplementsExposure
<1>1. Init => Exposed!Init
  BY DEF Init, Exposed!Init, Exposed!Nothing, Quiet
<1>2. Inv /\ [Next]_vars => [Exposed!Next]_Exposed!vars
  <2> SUFFICES ASSUME Inv, [Next]_vars
               PROVE  [Exposed!Next]_Exposed!vars
    OBVIOUS
  <2>1. CASE CollectStep
    BY <2>1, BeginMaps DEF CollectStep
  <2>2. CASE CycleSucceeds
    BY <2>2, SucceedMaps
  <2>3. CASE CycleFails
    BY <2>3, FailMaps
  <2> QED
    BY <2>1, <2>2, <2>3, OtherStepsStutter
<1> QED
  BY <1>1, <1>2, Invariance, PTL DEF Spec, ImplementsExposure, Exposed!Spec
-----------------------------------------------------------------------------
\* A scrape under way can still see the inventories in force: what it reads next is
\* covered by its window.
WindowOK == scraping => published \in window /\ devices \in window

ScrapeInv == Inv /\ WindowOK /\ ScrapeNotStale

\* A step of the exporter leaves what was seen alone and only widens the window.
LEMMA ExporterStepInv == ASSUME ScrapeInv, ExporterStep PROVE ScrapeInv'
<1>1. Inv'
  BY StepInv DEF ScrapeInv, ExporterStep
<1>2. WindowOK'
  BY DEF ExporterStep, WindowOK
<1>3. ScrapeNotStale'
  <2>1. window \subseteq window' /\ seen' = seen
    BY DEF ExporterStep
  <2> QED
    BY <2>1 DEF ScrapeInv, ScrapeNotStale
<1> QED
  BY <1>1, <1>2, <1>3 DEF ScrapeInv

\* Reading a Metric: NeverStale at that moment names the inventory it comes from, which
\* is in the window.
LEMMA ReadMetricInv == ASSUME ScrapeInv, NEW i \in MetricIndex, ReadMetric(i) PROVE ScrapeNotStale'
<1> SUFFICES ASSUME NEW j \in DOMAIN seen', NEW k \in DOMAIN seen'[j]
             PROVE  \E v \in window', r \in Responses \cup {NoResponse} :
                      LET e == Exposition(Metrics[j], v, SnapshotFor(r, v))
                      IN k \in DOMAIN e /\ seen'[j][k] \in {0, e[k]}
  BY DEF ScrapeNotStale
<1>1. window' = window
  BY DEF ReadMetric
<1>2. CASE j \in DOMAIN seen
  <2>1. seen'[j] = seen[j]
    BY <1>2 DEF ReadMetric
  <2> QED
    BY <1>1, <1>2, <2>1 DEF ScrapeInv, ScrapeNotStale
<1>3. CASE j \notin DOMAIN seen
  <2>1. j = i /\ seen'[j] = registry[i]
    BY <1>3 DEF ReadMetric
  <2>2. Source(i) \in window
    BY DEF ReadMetric, ScrapeInv, WindowOK, Source
  <2>3. PICK r \in Responses \cup {NoResponse} :
          LET e == Exposition(Metrics[i], Source(i), SnapshotFor(r, Source(i)))
          IN k \in DOMAIN e /\ (registry[i][k] = e[k] \/ registry[i][k] = 0)
    BY <2>1, InvNotStale DEF ScrapeInv, NeverStale
  <2> QED
    BY <1>1, <2>1, <2>2, <2>3
<1> QED
  BY <1>2, <1>3

\* A scrape reads its families one by one while cycles run: still each series it
\* returns was collected by a cycle in force since the scrape began.
THEOREM ScrapesAreNotStale == ScrapeSpec => []ScrapeNotStale
<1>1. ScrapeInit => ScrapeInv
  BY Initially DEF ScrapeInit, ScrapeInv, WindowOK, ScrapeNotStale, NothingSeen
<1>2. ScrapeInv /\ [ScrapeNext]_allVars => ScrapeInv'
  <2> SUFFICES ASSUME ScrapeInv, [ScrapeNext]_allVars PROVE ScrapeInv'
    OBVIOUS
  <2>1. ASSUME UNCHANGED vars PROVE Inv'
    BY <2>1, StepInv DEF ScrapeInv
  <2>2. CASE ExporterStep
    BY <2>2, ExporterStepInv
  <2>3. CASE ScrapeBegins \/ ScrapeEnds
    <3>1. ScrapeNotStale'
      BY <2>3 DEF ScrapeBegins, ScrapeEnds, NothingSeen, ScrapeNotStale
    <3>2. WindowOK'
      BY <2>3 DEF ScrapeBegins, ScrapeEnds, WindowOK, vars, cycleVars, registryVars, updateVars
    <3> QED
      BY <2>1, <2>3, <3>1, <3>2 DEF ScrapeBegins, ScrapeEnds, ScrapeInv
  <2>4. CASE \E i \in MetricIndex : ReadMetric(i)
    <3>1. PICK i \in MetricIndex : ReadMetric(i)
      BY <2>4
    <3>2. WindowOK'
      BY <3>1 DEF ScrapeInv, ReadMetric, WindowOK, vars, cycleVars, registryVars, updateVars
    <3> QED
      BY <2>1, <3>1, <3>2, ReadMetricInv DEF ReadMetric, ScrapeInv
  <2>5. CASE ReadUp \/ UNCHANGED allVars
    <3>1. UNCHANGED <<vars, scraping, seen, window>>
      BY <2>5 DEF ReadUp, allVars, scrapeVars
    <3>2. WindowOK'
      BY <3>1 DEF ScrapeInv, WindowOK, vars, cycleVars, registryVars, updateVars
    <3>3. ScrapeNotStale'
      BY <3>1 DEF ScrapeInv, ScrapeNotStale
    <3> QED
      BY <2>1, <3>1, <3>2, <3>3 DEF ScrapeInv
  <2> QED
    BY <2>2, <2>3, <2>4, <2>5 DEF ScrapeNext, ScrapeStep
<1>3. ScrapeInv => ScrapeNotStale
  BY DEF ScrapeInv
<1> QED
  BY <1>1, <1>2, <1>3, PTL DEF ScrapeSpec
=============================================================================
