-------------------------- MODULE PodResourceMapper -------------------------
(***************************************************************************)
(* PodResourceMapper of internal/collector/kubernetes.go: the goroutine    *)
(* that re-reads kubelet's device allocations whenever a collection cycle  *)
(* asks for it, the one-slot channel the requests travel through, and the  *)
(* response the metric families label their series from.                   *)
(*                                                                         *)
(* kubelet is external: it answers List with its allocation of the moment, *)
(* or, when it is down or slower than the 10 s timeout, with an error.     *)
(* podResourcesByDevice, read only by Snapshot and SharedSnapshot, is      *)
(* deviceMapFromPodResources(lastResponse) and is not kept.                *)
(***************************************************************************)
EXTENDS PodAttribution

CONSTANTS isKubernetes,  \* FALSE: NewNoopPodResourceMapper, which never syncs
          Responses      \* the responses kubelet may give

ASSUME KubernetesAssumption == isKubernetes \in BOOLEAN

VARIABLES
  allocation,     \* kubelet's current allocations (external)
  kubeletUp,      \* kubelet answers List in time (external)
  cancelled,      \* the context NewPodResourceMapper was given is done
  syncRequests,   \* number of requests in the channel of capacity 1
  syncPhase,      \* where the syncing goroutine is
  fetched,        \* podResources: the response List returned
  lastResponse,   \* the response of the last successful sync
  sharedDevices,  \* the devices that sync found shared
  reportedShared, \* what the log lines of the mapper say is shared
  owed            \* history: a sync was requested and no List has begun since

kubeletVars == <<allocation, kubeletUp>>
syncVars == <<syncRequests, syncPhase, fetched, lastResponse, sharedDevices,
              reportedShared, owed>>
mapperVars == <<allocation, kubeletUp, cancelled, syncRequests, syncPhase, fetched,
                lastResponse, sharedDevices, reportedShared, owed>>

MapperInit ==
  /\ allocation \in Responses
  /\ kubeletUp \in BOOLEAN
  /\ cancelled = FALSE
  /\ syncRequests = 0
  /\ syncPhase = IF isKubernetes THEN "initialList" ELSE "none"
  /\ fetched = NoResponse
  /\ lastResponse = NoResponse
  /\ sharedDevices = {}
  /\ reportedShared = {}
  /\ owed = FALSE

\* NewPodResourceMapper has returned: its first sync is over.
MapperStarted == syncPhase \notin {"initialList", "initialApply"}

-----------------------------------------------------------------------------
\* Mutation of TriggerSync: an unbuffered channel drops a request while a sync runs.
TriggerSyncUnbuffered ==
  /\ syncRequests' = IF isKubernetes /\ syncPhase = "idle" THEN 1 ELSE syncRequests
  /\ owed' = isKubernetes

\* TriggerSync: a non-blocking send; a full channel already holds a request that
\* no List has served.
TriggerSync ==
  /\ syncRequests' = IF isKubernetes THEN 1 ELSE syncRequests
  /\ owed' = isKubernetes

\* runSyncLoop receives a request and calls List.
SyncBegin ==
  /\ syncPhase = "idle"
  /\ syncRequests = 1
  /\ syncRequests' = 0
  /\ syncPhase' = "list"
  /\ owed' = FALSE
  /\ UNCHANGED <<cancelled, fetched, lastResponse, sharedDevices, reportedShared>>
  /\ UNCHANGED kubeletVars

\* List returns what kubelet has allocated at that moment.
ListReturns ==
  /\ syncPhase \in {"initialList", "list"}
  /\ kubeletUp
  /\ fetched' = allocation
  /\ syncPhase' = IF syncPhase = "list" THEN "apply" ELSE "initialApply"
  /\ UNCHANGED <<cancelled, syncRequests, lastResponse, sharedDevices, reportedShared, owed>>
  /\ UNCHANGED kubeletVars

\* List fails, times out, or finds the connection closed by the cleanup goroutine:
\* the error is logged and the last response stays in force.
ListFails ==
  /\ syncPhase \in {"initialList", "list"}
  /\ ~kubeletUp \/ cancelled
  /\ syncPhase' = "idle"
  /\ UNCHANGED <<cancelled, syncRequests, fetched, lastResponse, sharedDevices,
                 reportedShared, owed>>
  /\ UNCHANGED kubeletVars

\* The two log lines of syncPodResources, as a reader of the log sees them.
ReportSharing(previously, shared) ==
  reportedShared' = IF previously = shared THEN reportedShared ELSE shared

\* Mutation of SyncApplies: only the first sharing is reported, later changes of
\* the set of shared devices are taken for the same state.
SyncAppliesOnce ==
  /\ syncPhase \in {"initialApply", "apply"}
  /\ lastResponse' = fetched
  /\ sharedDevices' = deviceMapFromPodResources(fetched).shared
  /\ reportedShared' = IF (sharedDevices = {}) = (sharedDevices' = {})
                       THEN reportedShared ELSE sharedDevices'
  /\ fetched' = NoResponse
  /\ syncPhase' = "idle"
  /\ UNCHANGED <<cancelled, syncRequests, owed>>
  /\ UNCHANGED kubeletVars

\* syncPodResources stores the response under the lock and reports a change of the
\* shared devices.
SyncApplies ==
  /\ syncPhase \in {"initialApply", "apply"}
  /\ lastResponse' = fetched
  /\ sharedDevices' = deviceMapFromPodResources(fetched).shared
  /\ ReportSharing(sharedDevices, sharedDevices')
  /\ fetched' = NoResponse
  /\ syncPhase' = "idle"
  /\ UNCHANGED <<cancelled, syncRequests, owed>>
  /\ UNCHANGED kubeletVars

\* runSyncLoop's select takes the done context, even when a request is waiting too.
SyncStops ==
  /\ syncPhase = "idle"
  /\ cancelled
  /\ syncPhase' = "stopped"
  /\ UNCHANGED <<cancelled, syncRequests, fetched, lastResponse, sharedDevices,
                 reportedShared, owed>>
  /\ UNCHANGED kubeletVars

SyncStep == SyncBegin \/ ListReturns \/ ListFails \/ SyncApplies \/ SyncStops

\* kubelet admits or removes pods, goes down or comes back.
AllocationChanges ==
  /\ isKubernetes
  /\ \E r \in Responses \ {allocation} : allocation' = r
  /\ UNCHANGED <<kubeletUp, cancelled>>
  /\ UNCHANGED syncVars

KubeletFlips ==
  /\ isKubernetes
  /\ kubeletUp' = ~kubeletUp
  /\ UNCHANGED <<allocation, cancelled>>
  /\ UNCHANGED syncVars

KubeletStep == AllocationChanges \/ KubeletFlips

-----------------------------------------------------------------------------
\* The mapper on its own: a cycle may ask for a sync at any time.
CycleTriggers ==
  /\ MapperStarted
  /\ TriggerSync
  /\ UNCHANGED <<cancelled, syncPhase, fetched, lastResponse, sharedDevices, reportedShared>>
  /\ UNCHANGED kubeletVars

Shutdown ==
  /\ ~cancelled
  /\ cancelled' = TRUE
  /\ UNCHANGED kubeletVars
  /\ UNCHANGED syncVars

MapperNext == CycleTriggers \/ SyncStep \/ KubeletStep \/ Shutdown

\* The goroutine is scheduled; List returns within its 10 s timeout; Go's select
\* picks among ready cases at random, so the done context is not passed over for ever.
MapperFairness ==
  /\ WF_mapperVars(SyncBegin)
  /\ WF_mapperVars(ListReturns \/ ListFails)
  /\ WF_mapperVars(SyncApplies)
  /\ SF_mapperVars(SyncStops)

MapperSpec == MapperInit /\ [][MapperNext]_mapperVars /\ MapperFairness

-----------------------------------------------------------------------------
\* The types; the channel of capacity 1 never holds a second request
\* (kubernetes.go 72-106).
MapperTypeOK ==
  /\ allocation \in Responses
  /\ kubeletUp \in BOOLEAN
  /\ cancelled \in BOOLEAN
  /\ syncRequests \in {0, 1}
  /\ syncPhase \in {"none", "initialList", "initialApply", "idle", "list", "apply", "stopped"}
  /\ syncPhase = "none" <=> ~isKubernetes
  /\ fetched \in Responses \cup {NoResponse}
  /\ lastResponse \in Responses \cup {NoResponse}
  /\ owed \in BOOLEAN

\* A request for a sync is never lost: as long as no List has begun since the last
\* TriggerSync, a request waits in the channel, even if the send was dropped because
\* a sync was running or another request was already there (kubernetes.go 98-106,
\* 126-133).
TriggerNotLost == owed => syncRequests = 1

\* A failed sync never loses an attribution: once some sync has succeeded, the
\* response in force only ever gives way to the response of a later successful sync
\* (kubernetes.go 130-133, 140-156).
AttributionKept ==
  [][lastResponse' # lastResponse => syncPhase \in {"initialApply", "apply"}
                                     /\ lastResponse' = fetched]_mapperVars

\* A reader of the log knows which devices are shared: the last sharing line
\* (claimed by more than one pod, or resolved) agrees with the last sync, although
\* a steady state is reported only once (kubernetes.go 63-65, 158-166).
SharedLogCurrent ==
  /\ reportedShared = sharedDevices
  /\ sharedDevices = deviceMapFromPodResources(lastResponse).shared
=============================================================================
