# A TLA+ model of rbln-metrics-exporter

The exporter reads the state of Rebellions NPUs from `rbln-smd` over gRPC and
serves it to Prometheus. The modules in this directory model it from end to end: the
daemon's two APIs and the client that reads them, the metric group several exporters
share, the reads of sysfs beside a repartitioning, the collection cycle and the
registry it writes, the mapper that credits devices to Kubernetes pods, scrapes of
`/metrics`, gateway mode, configuration, start-up and shutdown. TLC checks them on
small instances; TLAPS proves the main safety properties for every value of the
constants. Line numbers in comments and in `PROJECT.json` refer to `src/`.

## The system and its parts

**Local mode** (`internal/cmd/app.go`, `Start`) runs three threads of control that
share a Prometheus registry and a mapper:

| Part | State it keeps | Operations | Talks to |
| --- | --- | --- | --- |
| Scheduler (`scheduler.go`) | failure streak, `collectedOnce`, `waitStart`, the `rbln_up` gauge | `Run`, `runCycle`, `RunOnce`, `logWaiting` | triggers the mapper, calls the collector |
| NPU collector (`npu_collector.go`) | an ordered list of Metrics, each with its gauge vectors | `GetMetrics`: `GetDeviceInfo`, then `Reset` and `UpdateMetrics` Metric by Metric; on error only `Reset` | daemon client, mapper, registry |
| Metric families (`*_metrics.go`, `labels.go`, `device.go`) | none beyond their vectors | which series a device gets, with which value and pod labels | mapper (`SnapshotFor`) |
| Pod-resource mapper (`kubernetes.go`) | last kubelet response, shared devices, a request channel of capacity 1 | `TriggerSync`, `runSyncLoop`, `syncPodResources`, `SnapshotFor`, `mapPodResources` | kubelet |
| Server (`server.go`) | the HTTP server | serve, drain on shutdown | registry |

**Gateway mode** (`gateway.go`, `startGateway`) has no cycle: each scrape names a
target, gets the cached client of this target and collects within the request. The
client (`daemon/client.go`) serialises its collections with a mutex.

**Daemon client** (`internal/daemon`): shared by both modes.

| Part | State it keeps | Operations | Talks to |
| --- | --- | --- | --- |
| v1 collection (`client.go`) | `activeAPI`, `collectedOnce`, `prevState`, `prevMissing`, `stateLookupFailed` | `GetDeviceInfo`: paged listings, the group, samples, static specs per device; `applySample`, `recordDeviceTransitions` | daemon, sysfs |
| v0 fallback (`legacy.go`) | none | streams of devices and infos, topology, classification of older schemas, states that v1 does not specify | daemon, sysfs |
| Metric group (`metric_group.go`) | none; the group is the daemon's | find, create, accept AlreadyExists, validate | daemon, and through it other exporters |
| Partitions (`partition.go`) | none | driver link, physfn link, `sriov_numvfs`, each read on its own | sysfs |
| Options and TLS (`options.go`) | none | `transportCredentials` | files |

**Process** (`main.go`, `internal/cmd`, `internal/logging`, `server.go`):
environment, flags and their validation, the logger, the start of a mode, the
listener's goroutine with its error channel, signals, draining, the exit status.

**Test daemon** (`internal/smdtest`): the daemon of the integration tests, with
paging, injected errors and contents that tests exchange while clients run.

What is hard about it:

* A cycle is a long series of small writes to a registry that scrapes read at any
  moment; `Reset`, `With` and `Set` are separate steps.
* The sync a cycle asks for runs beside that same cycle, and each Metric asks the
  mapper anew, so the mapper's response may change in the middle of a cycle.
* The request channel drops sends when it is full, and List may fail or hang.
* A response obtained under one SR-IOV profile is applied to an inventory
  collected under another one.
* Failures come in streaks, before and after the first success, and four variables
  and the log must agree about them.
* In gateway mode scrapes wait for a mutex that knows nothing of their timeouts.
* A collection is up to a dozen kinds of RPC and three kinds of reads of sysfs. The
  daemon may stop, come back, be upgraded or downgraded between any two of them; a
  failure may concern one device, one method or the daemon, and one error code
  means different things to different methods.
* Exporters race for one metric group on a daemon that forgets it with a restart. A
  creation whose caller has given up may still be carried out later.
* Listings are paged while the inventory changes; sysfs changes between two reads.
* Log lines about a device are edges over what the previous collections remembered.
* Shutdown may find every one of these in the middle of something.

`PROJECT.json` lists these hazards at their lines, with the properties aimed at them.

Properties that make each part correct: *scheduler* - `rbln_up` and the log tell the
outcome of the last collection, outages have both edges, recovery needs no restart;
*collector* - between cycles the registry is exactly the last inventory, during a
cycle nothing older than the previous one; *mapper* - no request lost, no attribution
lost by a failure, labels follow kubelet in the end; *attribution* - the same one
claimant in any order of the response, sharing found exactly; *scrape* - nothing
revived; *gateway* - collections of a target serialised, timeouts honoured, every
scrape answered; *daemon client* - a device fails exactly if something was reported
about it, the daemon's failures and only they end a collection, v0 is read only when
v1 is not whole, transition logs mark every edge, listings neither lose nor invent;
*readings* - the last usable sample counts, both APIs say the same; *metric group* -
nothing but the wanted group is sampled, no group is modified, losing a race is no
failure; *partitions* - no profile older than the inventory, no VF and its PF both
counted; *process* - what serves is usable, the exit status is the truth, being told
to end suffices.

## Modules

| Module | Models | Extends |
| --- | --- | --- |
| `PodAttribution` | `before`, `resolve`, `assign`, `mapPodResources`, `SnapshotFor` as operators | |
| `PodAttributionCheck` | builds responses claim by claim, re-partitions the node under them | `PodAttribution` |
| `MetricFamilies` | what every Metric writes for a device, `buildLabels` | `PodAttribution` |
| `PodResourceMapper` | mapper goroutine, channel, kubelet | `PodAttribution` |
| `LocalExporter` | scheduler, collector and registry, composed with the mapper | `PodResourceMapper`, `MetricFamilies` |
| `Scrape` | a scrape of `/metrics` beside the running exporter | `LocalExporter` |
| `Gateway` | gateway mode: requests, client cache, mutexes, timeouts, drain and close | |
| `Exposure` | abstract specification of local mode: a cycle replaces everything or empties it | |
| `SmdApi` | the messages and services of both gRPC APIs the exporter uses, as sets | |
| `DeviceReadings` | `applySample`, `legacyState`, `legacyReading`, `legacyBytes`, units | `SmdApi` |
| `PartitionRules` | `foreignDriver`, `partitionMetadata`, classification of v0 devices, as operators | `SmdApi` |
| `Repartition` | the reads of sysfs of one collection beside changing sysfs | `PartitionRules` |
| `DaemonClient` | `GetDeviceInfo` of one client, every RPC a step | `DeviceReadings`, `PartitionRules` |
| `MetricGroup` | several exporters, an administrator and one daemon's groups | `SmdApi` |
| `SmdServer` | `internal/smdtest`: registration, dispatch, handlers, paging | `SmdApi` |
| `SmdSession` | clients and `SmdServer` composed at the level of gRPC messages | `SmdServer` |
| `Configuration` | environment, flags, `finalize`, TLS, logger, Kubernetes mode, as operators | |
| `Lifecycle` | a process from `main` to its exit | `Configuration` |
| `LocalExporterProofs` | the theorems about mapper, exporter and scrape | `Scrape` |
| `PodAttributionProofs`, `GatewayProofs`, `RepartitionProofs`, `MetricGroupProofs`, `DaemonClientProofs`, `LifecycleProofs` | the theorems about their subject | their subject |
| `RecursionTheorems` | induction over the prefixes of a list, existence of folds | |
| `MC...` | values of the constants for TLC | their subject |

How they fit together: `LocalExporter` composes scheduler, collector and registry with
the mapper and treats a collection as its outcome; `DaemonClient` opens that outcome
up and treats the metric group and sysfs as what they return; `MetricGroup` and
`Repartition` open those up. `SmdSession` runs the same client protocol against a
real server's handlers instead of arbitrary replies. `Gateway` and `Lifecycle` are
the frames around both.

Definitions whose comment begins with "Mutation of" are faulty variants of the
definition after them. They are used by no specification; each shows, substituted
for the definition it varies, that some property would notice that fault.

### How state and actions correspond to the code

*Mapper.* `syncRequests` is the content of the channel; `syncPhase` is the program
counter of `runSyncLoop` and, before it, of the first sync that
`NewPodResourceMapper` performs itself (the scheduler does not exist until that
returns: `MapperStarted`). `SyncBegin`, `ListReturns` or `ListFails`, and
`SyncApplies` are the receive, the call and the update under the lock. Log lines
about sharing are kept as what a reader of the log believes (`reportedShared`).
`podResourcesByDevice` is a function of `lastResponse` and is not kept. `owed` is a
history variable: a sync was asked for and no List has begun since.

*Cycle.* `phase` and `pos` are the program counter of the scheduler's goroutine:
`Tick` (ticker, `TriggerSync`), `CollectFails`/`CollectSucceeds` (`GetDeviceInfo`),
`ClearMetric` per Metric on the error path, `ResetMetric`, `TakeSnapshot`
(`SnapshotFor`), `With` and `SetValue` per series, `NextMetric`, and
`CycleSucceeds`/`CycleFails` with the bookkeeping of `runCycle`. Each step touches
shared state at most once. A device's name stands for all labels that only describe
it; pod labels are kept in full, because they decide the identity of a series. A
Metric with two vectors is one entry of `registry` whose series carry their vector
in `slot`; both are reset in one step, which a scrape could tell apart only by
series that `NeverStale` and `ScrapeNotStale` judge one by one anyway.
`published` and `lastResult` are history variables.

*Kubelet and daemon* are external: they flip between answering and not, and kubelet
changes its allocation at any time. A hanging call is a call that fails when its
timeout ends.

*Scrape.* Prometheus' `Gather` takes no lock common to the vectors, so every Metric
and `rbln_up` are read in steps of their own. A scrape writes nothing, hence one at
a time suffices. `window` is the history of inventories in force during it.

*Gateway.* `requests` lists the requests with their timeout (`expires`), client,
stage and moment of answer. `Arrive` is everything up to the mutex, `Acquire` the
lock, `Serve` the return from `GetDeviceInfo`, the unlock and the answer. Clients are
named by the request that created them. Time advances in half seconds and only when
nothing is due, so a step that needs no outside answer takes no time. That Go's
mutex lets a newcomer overtake a waiting goroutine is kept; its starvation mode,
which limits this to once, is not needed by any property. A handler that is still
under way when the process ends is cut off by `Close`.

*Daemon client.* `phase` is the program counter of `GetDeviceInfo`, `call` its local
variables, `client` the fields of `Client`. One action per RPC: `ListDevices` and
`ListTopology` (a page each), `EnsureMetricGroup`, `SampleMetrics`, `MergeVersion`,
`MergeMemory` (the per-device calls, or the inline data instead of them),
`SupplementLegacyStates`; for v0 `LegacyDevices`, `LegacyTotalInfo`, `LegacyTopology`,
`MergeLegacy`. `Return` is the bookkeeping under the lock, transition lines included.
What a reader of the log believes is the history variable `belief`. Replies are drawn
from constant sets that mix good, failed, unreachable and unknown devices. Every RPC may
end with any status of `Codes`: Unavailable from a daemon that is down, Unimplemented
for a method it does not serve, and otherwise OK or one of the constant `Errors`; to that
come the errors of the method itself (NotFound for a group that is gone when it is sampled,
a group that is refused, a repeated token). The history variable `errors` has the RPCs of
the collection under way that failed, and how.

*Readings* are fractions `<<n, d>>`, so that units convert exactly. Byte counts wrap at
`Modulus` (2^64 in the code).

*Metric group.* One action per RPC of `ensureMetricGroup`, per exporter, and one for its
failure: `ListFails`, `CreateFails` (a missing permission included; the daemon may have
carried the creation out all the same) and `SampleFails`. `Restart`, `AdminPuts`,
`AdminDeletes` and `ReachChanges` are external. Three histories: `disturbed` has the
exporters whose collection met one of those, `erred` those that were answered with an
error, `found` those that had the wanted group before them when they decided to sample.
Of a group's metric ids only the set is kept: a group that lists a metric twice, which
`validateMetricGroup` refuses too, stands with the others it refuses.

*Repartition.* One action per `Readlink` or `ReadFile`; `SetNumVfs` and `Bind` are the
kernel's. Histories record what was in force since the listing.

*Session.* `Send`, `Handle`, `Receive` are the three moments of a call; `rpc` is the
call under way, `late` the creations whose caller has left. `Expire`, `Restart`,
`Set` and `SetErrors` are the faults. The daemon's panic on a page token beyond a list
that has shrunk (`smdtest/server.go` 84) takes it down.

*Lifecycle.* `main` is the program counter from `main` to its exit. `inputs` are
classes of values of the environment and the flags (absent, valid, `Typo`, out of
range); the interval keeps the int64 arithmetic, scaled down to `Width`. `node` is
what `IsKubernetes` and `newKubeletClient` look at, one after the other.

## Runs

Sizes are distinct states.

| Run | States | Question |
| --- | --- | --- |
| `exporter` | 217 k | Cycles and syncs on a Kubernetes node whose card two pods share, with a failing daemon, a failing kubelet and a shutdown anywhere: `TypeOK`, `Settled` (between cycles the registry is the last inventory), `TriggerNotLost`, `SharedLogCurrent`; liveness `RecoversWithDaemon`, `AttributionConverges`, `StopsOnShutdown` |
| `scrape` | 1.5 M | A scrape beside any number of cycles, outside Kubernetes: `ScrapeNotStale`, `UpTruthful`, `OutageEdges`, `LogOrder`; `ImplementsExposure`: `LocalExporter` refines `Exposure` |
| `attribution` | 34 k | For all responses of up to three claims, four partitionings of a card, and containers of two pods in two namespaces: is the fold the least claimant (`LeastClaimant`), is sharing exact (`SharedMeansTwoPods`)? |
| `gateway` | 1.2 M | Three scrapes, two daemons that need never reply, a shutdown: `OneCollectionPerTarget`, `WaitsDoNotAdd`, `LateOnlyBehindLonger`, `ShutdownSpares`; liveness `EveryScrapeAnswered` |
| `repartition` | 864 k | Collections that read sysfs step by step while cards are cut, merged and rebound: `ProfileNotOld`, `ForeignNeverPublished`, `NoDoubleCount` |
| `client` | 428 k | Successive collections from a daemon that fails any RPC, stops, is replaced and loses its group between any two of them: `OutcomePerDevice`, `StateSource`, `GivesUpForDaemonOnly` (a collection returns exactly if it survives every RPC that failed), `LogTellsTransitions`, `NoNeedlessDowngrade`, `LastGoodSampleWins`, `ApisAgree`; liveness `ReturnsToV1`, `CallReturns` |
| `metric_group` | 992 k | Three exporters, any RPC failing, a restart or an administrator anywhere: `SamplesWantedGroup`, `GroupsNotModified`, `FailsOnlyForCause`; liveness `GroupIsRestored` |
| `session` | 454 k | A client and the test daemon exchanging messages while contents shift and calls are cut off, lost or late: `ListingsFaithful`; liveness `ConvergesToContents` |
| `lifecycle` | 153 k | Environments, flags, nodes, listeners and signals: `ServingIsUsable`, `ExitCodeTruthful`; liveness `EndsWhenTold` |

All of these hold. Three runs exhibit a disagreement between the code and what the
repository says about it:

* `health_gap`: `With` publishes a new series at 0 and `Set` follows later, so a
  scrape in between reports `rbln_npu_health 0`, that is READY, for a device that has
  been faulty all along (`HealthZeroMeansReady`). The gap reopens every cycle,
  because every cycle resets the vector.
* `split_claimant`: a sync that completes while a cycle is publishing leaves the
  families of one device with different pods until the next cycle
  (`OneClaimantPerDevice`), where the README promises one claimant per device.
  `AttributionConverges` shows that the split does not last.
* `late_answer`: a scrape queued behind one with a longer timeout on a hung target
  is answered only after Prometheus has given up (`ServedInTime`).
  `LateOnlyBehindLonger` shows that this is the only way to be late, for timeouts
  above `minScrapeTimeout`.

Three more were met while modelling. The modules follow the code in each:

* The option "Collect once and exit" (`oneshot`) is parsed and logged, and nothing
  reads it: `Lifecycle` serves all the same.
* An interval from the environment is multiplied by a second before its range is
  checked (`config.go` 57); one that wraps around int64 into 1-60 s, such as
  18446744075, is accepted (`Nanoseconds` and `Seconds` in `Configuration`).
* In a pod, mode `auto` decides for Kubernetes without looking at the pod-resources
  socket, and without it the process exits; the troubleshooting section of the
  repository's README lists a missing socket as a cause of missing labels only.

Two limits the properties had to state, where the code promises nothing: a transition
line is lost when telemetry was missing before its device was listed, or when a fault
ends while the state is unknown (`LogTellsTransitions`); a paged listing is no snapshot,
a device that moves to an earlier page while it is listed is missed once
(`ListingsFaithful` speaks of those that keep their place).

### Bounds

* Two Metrics already give every relation between an earlier, a current and a later
  Metric that occurs in a pair; the proofs cover any list. One card with and without
  a VF gives series that appear, disappear and change owner.
* Two kubelet responses suffice for a response that changes during a cycle. In one two
  pods share the card, in the other its VF, so that the set of shared devices changes
  to another non-empty one.
* `MaxClaims` = 3: two claimants and a third to be overtaken or to overtake; the fold
  keeps only the best claimant so far, so longer responses repeat these cases.
* `MaxFailures` and `WarnAfter` saturate counters the properties compare with zero
  and with the threshold only.
* `gateway` scales the timeouts down (default 4, grace 2, Prometheus timeout 3 half
  seconds), keeping their order: the grace is shorter than the default timeout and
  the header's timeout is above the minimum. Three requests allow a queue of two
  behind a hung collection. `late_answer` uses the real values.
* `MaxTime` lies beyond every timeout that may begin, and `WaitsDoNotAdd` says that no
  scrape is under way longer; it only stops the clock of a faulty gateway.
* `client`: two devices, one to fail and one to be spared; two page tokens, since a
  listing may run in a circle of two; two versions of the daemon, with all of v1 and
  with the least of v0; samples and v0 scalars at, below and above the ends of their
  ranges, NaN, infinities, wrong types and unknown metrics. A GiB has 4 bytes and a
  uint64 ends at 400, since TLC's integers have 32 bits. `Errors` has one code
  a device is forgiven and one it is not; `GivesUpForCause` is proved for every set.
* `metric_group`: two creators race and a third exporter may not create;
  `MaxChanges` = 1 lets one intervention fall between any two steps, and the daemon
  starts with any group, so that it meets a fit, an unfit or no group.
* `session`: `MaxFaults` = 2 allows a cut-off creation and a restart, or a change of
  contents beside either; three items with pages of one give a first, a middle and
  a last page.
* `repartition`: two cards, one VF that exists whenever its card is cut, in two profiles;
  listings that are current, out of date, or with the cards renumbered.
* `lifecycle`: `Width` = 65536 and `Second` = 100 keep the proportions that matter: the
  range of seconds fits by far, and its multiples wrap.
* `CHECK_DEADLOCK FALSE` appears where the system ends: the gateway with `Close` and
  the process with its exit.

### Fairness

Weak fairness for: the ticker; `GetDeviceInfo`, whose context ends after 5 s; List,
whose context ends after 10 s; the runnable steps of each goroutine. Strong fairness
for the two `select` cases that see the done context: Go picks among ready cases at
random, so a case that is ready again and again is eventually taken. In the gateway:
weak fairness for the clock, each request's handler and `Close`. In the daemon client,
the metric group and the session: weak fairness for the steps of each collection,
since every RPC ends at the latest with its context and the scheduler begins the next
collection; a call that reaches the daemon is handled. In a process: weak fairness
for the main goroutine, the listener's and the scheduler's. Nothing is assumed of the
daemon, of kubelet, of an administrator, or that shutdown ever comes; where a liveness
property needs the daemon to be well in the end, it says so as its premise: for
`ReturnsToV1` and `GroupIsRestored` this includes that from some point on no RPC fails
in a way that ends a collection.

## Theorems

Every safety invariant and every action property that a run checks is also proved, for
all values of the constants, with one exception (`ListingsFaithful`, below). The
assumptions are those the modules state with `ASSUME`; TLC evaluates each of them in
the runs.

| Module | Theorem | States |
| --- | --- | --- |
| `LocalExporterProofs` | `MapperTypeCorrect`, `MapperKeepsTriggers`, `MapperReportsSharing`, `MapperKeepsAttribution` | `MapperTypeOK`, `TriggerNotLost`, `SharedLogCurrent`, `AttributionKept` of the mapper alone |
| | `TypeCorrect`, `ShowsLastCycle`, `UpIsTruthful`, `NothingStale`, `OutageHasBothEdges`, `LogsInOrder` | `TypeOK`, `Settled`, `UpTruthful`, `NeverStale`, `OutageEdges`, `LogOrder` |
| | `RefinesExposure` | `ImplementsExposure` |
| | `ScrapesAreNotStale` | `ScrapeNotStale` |
| `PodAttributionProofs` | `CreditsLeastClaimant`, `SharedByTwoPods` | `LeastClaimant`, `SharedMeansTwoPods` |
| `GatewayProofs` | `CollectionsDoNotOverlap`, `WaitsAreBounded`, `LateBehindLonger`, `ShutdownCutsOffLongOnly` | `OneCollectionPerTarget`, `WaitsDoNotAdd`, `LateOnlyBehindLonger`, `ShutdownSpares` |
| `RepartitionProofs` | `ProfilesAreNotOld`, `ForeignIsLeftOut`, `NothingCountedTwice` | `ProfileNotOld`, `ForeignNeverPublished` (where sysfs may be read), `NoDoubleCount` |
| `MetricGroupProofs` | `SamplesWanted`, `NotModified`, `FailsForCause` | `SamplesWantedGroup`, `GroupsNotModified`, `FailsOnlyForCause` |
| `DaemonClientProofs` | `FallsBackForVersionOnly`, `GivesUpForCause`, `FailuresAreOwn`, `StatesHaveSources` | `NoNeedlessDowngrade`, `GivesUpForDaemonOnly`, `OutcomePerDevice`, `StateSource` |
| | `LogIsTrue` | `LogTellsTransitions`, if no collection lists a name twice |
| | `ReadingsAreLastGood`, `FallbackKeepsReadings` | `LastGoodSampleWins`, `ApisAgree` |
| `LifecycleProofs` | `ServesUsably`, `ExitsTruthfully` | `ServingIsUsable`, `ExitCodeTruthful` |

### Loops and folds

Several operations of the code are loops over a list of any length: `mapPodResources`,
`applySample` for each sample, the filters of a listing, `legacyInventory`. They are
modelled as recursive functions on `0..Len(list)`. TLAPS takes nothing about such a
definition for granted, and the library's induction theorems cannot be instantiated
here. `RecursionTheorems` therefore states induction with a set of indices and a
fold with a step that is a function: `LeastNatural` (from well-foundedness),
`PrefixInduction`, `GreatestIndex`, and `FoldExists`, by which a function given by such a
recursion exists and satisfies it. What a loop computes then follows from a loop
invariant: `Reflects` for the attribution (the accumulator says of the pairs assigned so
far what the properties say of all), and for the samples that a reading is the last
usable sample among those applied so far.

### Mapper and local exporter

Assumptions: `KubernetesAssumption` (a Boolean flag), `MetricsAssumption` (a non-empty
sequence of names), `BoundsAssumption`, `PodLabelsAssumption`. The mapper's invariant is
the conjunction of its properties; nothing has to be known of `mapPodResources` except
that the empty response shares nothing.

The properties of the exporter speak of the registry when no cycle writes, or of single
series, and are not inductive: what a cycle leaves depends on how far it got. `Inv` adds
`FamiliesOK` (for each Metric and point of the cycle, whose series it shows), `UpdateOK`
(how much of the current Metric is written: the finished series with their values and
the opened one at 0), `OutcomeOK` (phase, last result and `up`) and `WaitOK` (last log
line against the waiting time). There is one lemma per action. The mapper's steps leave
the cycle's variables alone and vice versa, except for `TriggerSync`, so the mapper's
lemmas are reused unchanged.

`RefinesExposure` proves that `Spec` implements `Exposure!Spec` under the mapping in
`LocalExporter` (instance `Exposed`): the abstract view is the registry when no cycle
writes and empty otherwise, and the abstract line is the last log line. From `Inv`,
the step that ends a cycle is a `Succeed` or a `Fail`, the first write is a `Begin`, and
every other step of the cycle or the mapper stutters. That a concrete failure counter
and a clock implement an abstract log without either rests on `OutcomeOK` and `WaitOK`.

`ScrapesAreNotStale` is about a scrape that overlaps any number of cycles. `ScrapeInv`
adds to `Inv` that `window` has every inventory from which the registry may show a series
while the scrape runs, so that what `NeverStale` says of the moment a Metric is read
is still true, of `window`, when the scrape ends.

`NeverStale` (during a cycle no series is older than the previous inventory) and
`AttributionKept` (a failed List takes nothing away) are invariants of these proofs and
have no run of their own: `ScrapeNotStale` and `Settled` observe their effects.

### Attribution

For responses of any length. Assumptions: `ClaimsAssumption` (the names of a claim can be
ordered) and `InventoriesAssumption` (no device's name is another's followed by a
profile; kernel names are of the form `rbln0` and `rbln0-0`). `before` is a strict order
(`BeforeIsStrict`), and `AssignReflects` is the only place where the order of the claims
could matter.

### Gateway

For any targets, number of scrapes and timeouts. The lock is the client's while the
promises are about targets: `ClientsOK` says that the requests of a target, and only they,
use its client, and `LockOK` ties the lock to the request that collects. Waiting times
are bounded since time passes only while the holder of the lock has not expired:
`Covered`, for requests under way, and `AnswersOK`, which keeps it for those answered.

### Partitions

For any cards, VFs, partitionings and listings. `HistoryOK` bounds what a read can have
returned by the histories, `CurrentOK` says what each read has established about the device
being built, `RelationOK` how far `legacyInventory` has come, and `PublishedOK` carries this
over to what is published. Assumptions: `HardwareAssumption`, `ListingsAssumption`,
`NamedAssumption` (nameless devices have been dropped) and `NpuAssumption`: the v1 daemon
numbers no VF together with its PF. Without the last, `NoDoubleCount` fails for v1, whose
numbering the client trusts; for v0 it is not needed, since `legacyInventory` removes it.
`ForeignIsLeftOut` needs `PCIDevicesPath`, as the code reads no driver without sysfs.

### Metric group

For every set of exporters and creators and every set of groups an administrator puts
in place. Assumptions: `GroupAssumption` and `WantedAssumption`. `SamplesWantedGroup` is not
inductive: that the group found and validated is the only one of its id needs
`OneGroupPerId`, and that the loser of a race finds a group needs `CreationStays` (after
a creation answered AlreadyExists there is a group, unless someone intervened).
The key fact of the daemon is `CreationAdds`: a creation adds the wanted group or
changes nothing, whatever its caller is told. `FailsForCause` lists the causes of a failure
for collections whose RPCs were answered; a failed RPC is a cause of its own.

### Daemon client

For inventories, pages and sample lists of any length, all replies, and a daemon that
stops, returns, changes its version and fails RPCs with any codes. Five invariants build
on one another:

* `ControlOK` ties the API to the phase and to the versions met since the call. It gives
  `NoNeedlessDowngrade`.
* `ErrorsOK`: as long as a collection is under way, it survives every failure met so far.
  An RPC then proceeds, falls back or gives up (`PageOutcome`, `CollectOutcome`), and it
  gives up exactly with a failure that is not forgiven (`AbortV1`, `ForgivenProceeds`), which is
  `GivesUpForDaemonOnly`. That no failure is forgotten on the way from v1 to v0, and that the one
  that led there is forgiven from then on, is what the invariant is for.
* `DataOK` describes the data of each phase. Its core, `MergeOK`, is the loop invariant of
  `collectV1` and `collectV0`: by `Progress`, the devices before `pos` are returned or
  bound to a foreign driver, and a device listed once has failed exactly if it was
  blamed. `MemoryOK` is the same in the middle of an iteration, `StatesOK` says where
  states come from until v0 is asked, `RecordOK` what is returned.
* `LogOK` relates a reader's belief to what the client remembers. It needs
  `NamesIdentify`: the transition lines are about names, and a daemon that listed two
  devices with one name would make the log contradict itself. Hence the premise of
  `LogIsTrue`; the other theorems do without it.
* `ReadOK` says that every device merged so far has the right readings: for v1 the last
  usable sample of each quantity (`SampledRight`), for v0 what v1 would have said
  (`AgreesRight`). The latter compares fractions and byte counts modulo `Modulus`
  (`ConversionsAgree`).

Assumptions: `RepliesAssumption` (replies are messages of the API), `ErrorsAssumption` (OK
and Unimplemented are no errors of a method that is served, and AlreadyExists is left to
`MetricGroup`), `GibAssumption`, and three that keep distinct what the program's types
keep distinct: `NilAssumption` (no record is `Nil`), `NumbersAssumption` (NaN and the
infinities are no integers) and `NilIsNoReading`.

### Process

For every environment, command line and node and every width of an integer with
`WidthAssumption`. `ExitCodeTruthful` looks at a process that has ended. Before that, the
error channel has to tell what became of the listener (`ChannelOK`), a listener that was
closed must have been told so by a signal (`SignalOK`), and nothing listens before the
process serves (`OrderOK`). `ServingIsUsable` needs `ConfiguredOK`: what `finalize`
accepted is still in force. That the interval is in range although it may have wrapped
around rests on `finalize` checking it after the conversion.

### Only model-checked

* All liveness: `RecoversWithDaemon`, `AttributionConverges`, `StopsOnShutdown`,
  `EveryScrapeAnswered`, `ReturnsToV1`, `CallReturns`, `GroupIsRestored`,
  `ConvergesToContents`, `EndsWhenTold`. The prover has no rules for fairness.
* `ListingsFaithful`, the paging of the session: see the plan.
* The three runs that exhibit a disagreement, by their nature.

## Not modelled

* Generated protocol code beyond the messages, services and handlers the exporter and
  its test daemon use: descriptors, reflection, and the services for control,
  journal, groups and configuration. Vendored code.
* The attribute rewriting of the logger and its bridge from grpclog: they format text.
  Which lines are logged is modelled where a property is about them.
* Certificates and handshakes: a file loads or does not. The certificates the test
  daemon generates.
* Text that only ends up in labels (uuids, version strings, PCI addresses): it is
  there or it is not. Legacy metric names (`PROMETHEUS_METRIC_NAMES`): names only.
* A signal before `Start` has installed its handler ends the process by default.
* The counters of calls that the tests read from the test daemon.

## Plan

Done: everything planned at first - attribution, mapper, local exporter, scrape and
gateway, then the daemon client, metric group, partitions, process, the abstract
specification and its refinement, and the session with the test daemon; and the proofs
of all safety invariants. Left:

1. `SmdSession`: `ListingsFaithful` for lists and pages of any length. The invariant has to
   say, for the listing under way, that what is collected so far are the items before
   the token's offset, each from one of the lists in `during`; an answer under way is a
   page of one of those. It needs the items of one list to be distinct and page tokens
   to be told apart, both to be stated as assumptions.
