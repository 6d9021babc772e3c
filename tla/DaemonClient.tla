---------------------------- MODULE DaemonClient ----------------------------
(***************************************************************************)
(* One client of rbln-smd and its successive collections: GetDeviceInfo of *)
(* internal/daemon/client.go and the v0 side in internal/daemon/legacy.go. *)
(* Every RPC is a step of its own; between two of them the daemon may      *)
(* stop, come back, or be replaced by a version that serves other methods. *)
(* A hanging RPC ends with the context and is an unavailable daemon.  What *)
(* the daemon answers is any reply of the constant sets, or an error.  The *)
(* metric group is here the outcome of ensureMetricGroup (see              *)
(* MetricGroup), and sysfs what its reads return (see Repartition).        *)
(***************************************************************************)
EXTENDS DeviceReadings, PartitionRules

CONSTANTS
  DevicePages, TopologyPages, SampleReplies,   \* the replies of v1
  LegacyLists, LegacyInfos, LegacyTopologies,  \* and of v0
  MemoryReplies, \* the sizes GetMemorySpec may return
  Errors,        \* the codes with which a daemon may fail a call of a method it serves
  Versions,      \* the methods the versions of the daemon serve, per API
  SysfsDrivers,  \* what reading the driver link of a function may return
  SysfsParents,  \* and its physfn link
  SysfsCounts    \* and sriov_numvfs; Nil too when the parent does not match

ASSUME RepliesAssumption ==
  /\ DevicePages \subseteq ListDevicesResponse
  /\ TopologyPages \subseteq ListTopologyResponse
  /\ SampleReplies \subseteq SampleMetricsResponse
  /\ LegacyLists \subseteq Seq(LegacyDevice)
  /\ LegacyInfos \subseteq Seq(LegacyDeviceInfo)
  /\ LegacyTopologies \subseteq Seq(LegacyTopologyEntry)
  /\ MemoryReplies \subseteq GetMemorySpecResponse
  /\ Versions \subseteq [v1: SUBSET V1Methods, v0: SUBSET V0Methods]
\* AlreadyExists is an answer of CreateMetricGroup only, and handled there: see MetricGroup.
ASSUME ErrorsAssumption == Errors \cap {"OK", "Unimplemented", "AlreadyExists"} = {}
ASSUME NilAssumption == Nil \notin LegacyDeviceInfo

VARIABLES
  up, served,   \* the daemon answers, and what it serves (external)
  group,        \* its metric group is fit for sampling, not there but to be created, or
                \* one ensureMetricGroup refuses or cannot find (external)
  phase,        \* the next step of GetDeviceInfo
  call,         \* its local variables
  client,       \* the fields of Client
  belief,       \* history: what a reader of the log believes
  errors        \* history: the RPCs of this collection that failed, and how

daemon == <<up, served, group>>
vars == <<daemon, phase, call, client, belief, errors>>

NoLinks == [n \in {} |-> Nil]

\* api       the API being collected from;
\* seen      the page tokens of the current listing;
\* inventory the devices listed, for v0 as legacyInventory classified them;
\* counts    the v0 num_vfs of each of them, Nil for v1;
\* links, linkFailures, missing, samples, infos   what the other RPCs returned;
\* pos, current, merged   the device being merged, and those finished;
\* foreign   history: the devices skipped for their driver;
\* faults    history: the devices some reply of this collection reported as failed;
\* wholeV1   history: all of v1 was served ever since the call.
NewCall ==
  [api |-> "v1", seen |-> {}, inventory |-> <<>>, counts |-> <<>>, links |-> NoLinks,
   linkFailures |-> {}, missing |-> {}, samples |-> <<>>, infos |-> NoLinks,
   pos |-> 1, current |-> Nil, merged |-> <<>>, foreign |-> {}, faults |-> {},
   wholeV1 |-> FALSE]

GroupStates == {"fit", "absent", "refused"}
NoStates == [n \in {} |-> "unspecified"]

Init ==
  /\ up \in BOOLEAN /\ served \in Versions /\ group \in GroupStates
  /\ phase = "idle"
  /\ call = NewCall
  /\ client = [activeAPI |-> "", collectedOnce |-> FALSE, prevMissing |-> {},
               prevState |-> NoStates, stateLookupFailed |-> FALSE]
  /\ belief = [unavailable |-> {}, fault |-> {}, hidden |-> {}, blurred |-> {}]
  /\ errors = {}

-----------------------------------------------------------------------------
\* The daemon (external).
Complete(v) == V1Methods \subseteq v.v1

\* It stops, comes back as this or another version, or has its groups changed.
DaemonChanges ==
  /\ \/ up /\ up' = FALSE /\ UNCHANGED <<served, group>>
     \/ ~up /\ up' = TRUE /\ served' \in Versions /\ UNCHANGED group
     \/ group' \in GroupStates \ {group} /\ UNCHANGED <<up, served>>
  /\ call' = IF phase = "idle" THEN call
             ELSE [call EXCEPT !.wholeV1 = @ /\ Complete(served')]
  /\ UNCHANGED <<phase, client, belief, errors>>

\* The status codes a call may end with, apart from what the method itself finds wrong.
Codes(api, method) ==
  IF ~up THEN {"Unavailable"}
  ELSE IF method \notin served[api] THEN {"Unimplemented"}
  ELSE {"OK"} \cup Errors

\* The history of a call that ended with this code.  Which method of v1 the daemon does
\* not have is the same to GetDeviceInfo, and not kept.
Answered(api, method, code) ==
  LET missing == api = "v1" /\ code = "Unimplemented"
      f == [api |-> api, method |-> IF missing THEN "" ELSE method, code |-> code]
  IN errors' = IF code = "OK" THEN errors ELSE errors \cup {f}

\* Mutation of deviceUnavailable: a device that is gone fails the collection.
deviceUnavailableUnlessGone(code) == code = "FailedPrecondition"

deviceUnavailable(code) == code \in {"NotFound", "FailedPrecondition"}

-----------------------------------------------------------------------------
\* The scheduler or a scrape calls GetDeviceInfo.
GetDeviceInfo ==
  /\ phase = "idle"
  /\ phase' = "devices"
  /\ call' = [NewCall EXCEPT !.wholeV1 = Complete(served)]
  /\ errors' = {}
  /\ UNCHANGED <<daemon, client, belief>>

\* Mutation of Abort: any failure of v1 is answered by a collection from v0.
AbortDowngrading(code) ==
  IF call.api = "v1"
  THEN /\ phase' = "legacyDevices"
       /\ call' = [NewCall EXCEPT !.api = "v0", !.wholeV1 = call.wholeV1]
  ELSE phase' = "idle" /\ call' = NewCall

\* The error of an RPC: Unimplemented of a v1 method starts over with v0, any other
\* error is GetDeviceInfo's and leaves the client as it was.
Abort(code) ==
  IF call.api = "v1" /\ code = "Unimplemented"
  THEN /\ phase' = "legacyDevices"
       /\ call' = [NewCall EXCEPT !.api = "v0", !.wholeV1 = call.wholeV1]
  ELSE phase' = "idle" /\ call' = NewCall

\* Mutation of Page: a token is compared with the one before it only.
PageLastToken(c, next, method, after) ==
  \/ /\ next = NoToken /\ phase' = after /\ call' = [c EXCEPT !.seen = {}]
     /\ Answered("v1", method, "OK")
  \/ /\ next \in Tokens \ c.seen /\ phase' = phase /\ call' = [c EXCEPT !.seen = {next}]
     /\ Answered("v1", method, "OK")
  \/ /\ next \in c.seen /\ Abort("repeated page token")
     /\ Answered("v1", method, "repeated page token")

\* The token of a page: the listing is complete, goes on, or repeats itself.
Page(c, next, method, after) ==
  \/ /\ next = NoToken /\ phase' = after /\ call' = [c EXCEPT !.seen = {}]
     /\ Answered("v1", method, "OK")
  \/ /\ next \in Tokens \ c.seen /\ phase' = phase /\ call' = [c EXCEPT !.seen = @ \cup {next}]
     /\ Answered("v1", method, "OK")
  \/ /\ next \in c.seen /\ Abort("repeated page token")
     /\ Answered("v1", method, "repeated page token")

\* The elements of seq that are in kept, in their order.
Keep(seq, kept) ==
  LET after[n \in 0..Len(seq)] ==
        IF n = 0 THEN <<>>
        ELSE IF seq[n] \in kept THEN Append(after[n - 1], seq[n]) ELSE after[n - 1]
  IN after[Len(seq)]

Elements(seq) == {seq[i] : i \in DOMAIN seq}

\* listDevices: a nameless device, or one the page itself calls unreachable, is dropped.
ListDevices ==
  /\ phase = "devices"
  /\ \E code \in Codes("v1", "ListDevices") :
       IF code # "OK" THEN Abort(code) /\ Answered("v1", "ListDevices", code)
       ELSE \E page \in DevicePages :
              LET usable == {d \in Elements(page.items) :
                               d.name # NoName /\ d.name \notin Refs(page.unreachable)}
                  c == [call EXCEPT !.inventory = @ \o Keep(page.items, usable)]
              IN Page(c, page.next, "ListDevices", "topology")
  /\ UNCHANGED <<daemon, client, belief>>

\* The link of each device the entries of a topology name; a later entry wins.
Linked(links, entries) ==
  [n \in DOMAIN links \cup {entries[i].device : i \in DOMAIN entries} |->
     LET own == {i \in DOMAIN entries : entries[i].device = n}
     IN IF own = {} THEN links[n] ELSE entries[CHOOSE i \in own : \A j \in own : j <= i]]

\* Mutation of ListTopology: only the last page's failures are kept.
ListTopologyLastPage ==
  /\ phase = "topology"
  /\ \E code \in Codes("v1", "ListTopology") :
       IF code # "OK" THEN Abort(code) /\ Answered("v1", "ListTopology", code)
       ELSE \E page \in TopologyPages :
              LET failed == Refs(page.unreachable)
                  usable == {e \in Elements(page.entries) : e.device \notin failed}
                  c == [call EXCEPT !.links = Linked(@, Keep(page.entries, usable)),
                                    !.linkFailures = failed, !.faults = @ \cup failed]
              IN Page(c, page.next, "ListTopology", IF c.inventory = <<>> THEN "merge" ELSE "group")
  /\ UNCHANGED <<daemon, client, belief>>

\* listTopology; a node without devices has nothing to sample.
ListTopology ==
  /\ phase = "topology"
  /\ \E code \in Codes("v1", "ListTopology") :
       IF code # "OK" THEN Abort(code) /\ Answered("v1", "ListTopology", code)
       ELSE \E page \in TopologyPages :
              LET failed == Refs(page.unreachable)
                  usable == {e \in Elements(page.entries) : e.device \notin failed}
                  c == [call EXCEPT !.links = Linked(@, Keep(page.entries, usable)),
                                    !.linkFailures = @ \cup failed, !.faults = @ \cup failed]
              IN Page(c, page.next, "ListTopology", IF c.inventory = <<>> THEN "merge" ELSE "group")
  /\ UNCHANGED <<daemon, client, belief>>

\* ensureMetricGroup finds the group, creates it, or refuses to go on; a group that is
\* listed in circles or created first by another exporter is in MetricGroup.
EnsureMetricGroup ==
  /\ phase = "group"
  /\ \E find \in Codes("v1", "ListMetricGroups"), create \in Codes("v1", "CreateMetricGroup") :
       LET code == CASE find # "OK" -> find
                     [] find = "OK" /\ group = "absent" -> create
                     [] find = "OK" /\ group = "refused" -> "refused"
                     [] OTHER -> "OK"
           method == IF find = "OK" /\ group = "absent" THEN "CreateMetricGroup"
                     ELSE "ListMetricGroups"
       IN /\ Answered("v1", method, code)
          /\ IF code # "OK" THEN Abort(code) /\ UNCHANGED group
             ELSE phase' = "sample" /\ group' = "fit" /\ UNCHANGED call
  /\ UNCHANGED <<up, served, client, belief>>

\* A group that is gone by now is NotFound.
SampleMetrics ==
  /\ phase = "sample"
  /\ \E status \in Codes("v1", "SampleMetrics") :
       LET code == IF status = "OK" /\ group = "absent" THEN "NotFound" ELSE status
       IN /\ Answered("v1", "SampleMetrics", code)
          /\ IF code # "OK" THEN Abort(code)
             ELSE \E r \in SampleReplies :
                    LET missing == Refs(r.unreachable)
                        usable == {s \in Elements(r.samples) :
                                     s.device # NoName /\ s.device \notin missing}
                    IN /\ call' = [call EXCEPT !.missing = missing, !.faults = @ \cup missing,
                                               !.samples = Keep(r.samples, usable)]
                       /\ phase' = "merge"
  /\ UNCHANGED <<daemon, client, belief>>

-----------------------------------------------------------------------------
\* The device the loop of collectV1 or collectV0 has reached.
Item == call.inventory[call.pos]
LinkOf(n) == IF n \in DOMAIN call.links THEN call.links[n] ELSE Nil

\* The device as far as inventory, topology and sampling determine it.
Merged ==
  [name |-> Item.name, bus |-> Item.bus, isVF |-> Item.isVf, parent |-> Item.parent,
   compute |-> Item.npu, numVFs |-> Nil, mode |-> "", state |-> Item.state,
   succeeded |-> Item.name \notin call.missing \cup call.linkFailures,
   readings |-> NoReadings]

\* The next device is bound to a foreign driver.
Skip ==
  /\ \E driver \in SysfsDrivers : foreignDriver(driver)
  /\ call' = [call EXCEPT !.pos = @ + 1, !.foreign = @ \cup {Item.name}]
  /\ phase' = phase
  /\ UNCHANGED errors

NotForeign == \E driver \in SysfsDrivers : ~foreignDriver(driver)

\* Device d loses its success to an RPC of its own.
Failing(c, d) == [c EXCEPT !.current = [d EXCEPT !.succeeded = FALSE], !.faults = @ \cup {d.name}]

\* collectV1, first half of an iteration: foreignDriver and the versions, which the
\* daemon is asked for unless the inventory has them.
MergeVersion ==
  /\ phase = "merge" /\ call.api = "v1" /\ call.pos <= Len(call.inventory)
  /\ \/ Skip
     \/ /\ NotForeign
        /\ IF Item.versions # Nil
           THEN call' = [call EXCEPT !.current = Merged] /\ phase' = "memory" /\ UNCHANGED errors
           ELSE \E code \in Codes("v1", "GetVersion") :
                  /\ Answered("v1", "GetVersion", code)
                  /\ CASE code = "OK" -> call' = [call EXCEPT !.current = Merged] /\ phase' = "memory"
                       [] deviceUnavailable(code) -> call' = Failing(call, Merged) /\ phase' = "memory"
                       [] OTHER -> Abort(code)
  /\ UNCHANGED <<daemon, client, belief>>

\* partitionMetadata, with the count it read or Nil.
partitionMetadata(d, n) ==
  IF PCIDevicesPath /\ n # Nil THEN applyCount(PartitionRole(d), n) ELSE PartitionRole(d)

\* The rest of the iteration: partition, link and samples of the current device.
FinishV1(c, memory, n) ==
  LET d == c.current
      sized == IF memory # Nil /\ d.compute
               THEN [d EXCEPT !.readings = Put(@, "memory_total", Scaled(memory.totalBytes, 1))]
               ELSE d
      cut == partitionMetadata(sized, n)
      linked == [cut EXCEPT !.readings = linkReadings(cut, @, LinkOf(d.name))]
      done == [linked EXCEPT !.readings = ApplySamples(linked, @, c.samples)]
  IN [c EXCEPT !.merged = Append(@, done), !.pos = @ + 1, !.current = Nil]

\* collectV1, second half: the memory size, asked for unless the inventory has it.
MergeMemory ==
  /\ phase = "memory"
  /\ \E n \in SysfsCounts :
       IF Item.memory # Nil \/ ~call.current.compute
       THEN call' = FinishV1(call, Item.memory, n) /\ phase' = "merge" /\ UNCHANGED errors
       ELSE \E code \in Codes("v1", "GetMemorySpec") :
              /\ Answered("v1", "GetMemorySpec", code)
              /\ CASE code = "OK" ->
                        /\ \E r \in MemoryReplies : call' = FinishV1(call, r.memory, n)
                        /\ phase' = "merge"
                   [] deviceUnavailable(code) ->
                        call' = FinishV1(Failing(call, call.current), Nil, n) /\ phase' = "merge"
                   [] OTHER -> Abort(code)
  /\ UNCHANGED <<daemon, client, belief>>

\* All devices are merged.
MergeEnds ==
  /\ phase = "merge" /\ call.pos > Len(call.inventory)
  /\ phase' = IF call.api = "v1" THEN "supplement" ELSE "record"
  /\ UNCHANGED <<daemon, call, client, belief, errors>>

-----------------------------------------------------------------------------
\* legacyTotalInfo: the records of a complete stream by name; a later one wins.
InfosOf(stream) ==
  LET named == {i \in DOMAIN stream : stream[i].name # NoName}
  IN [n \in {stream[i].name : i \in named} |->
        LET own == {i \in named : stream[i].name = n}
        IN stream[CHOOSE i \in own : \A j \in own : j <= i]]

\* Mutation of Supplemented: whatever is not a known state is looked up.
SupplementedUnknown(infos) ==
  [i \in DOMAIN call.merged |->
     LET d == call.merged[i]
     IN IF d.state \notin {"unspecified", "future"} THEN d
        ELSE IF d.name \in DOMAIN infos THEN [d EXCEPT !.state = legacyState(infos[d.name].devStatus)]
        ELSE [d EXCEPT !.succeeded = FALSE]]

\* supplementLegacyStates: a state v1 does not specify is v0's; without one the
\* device's collection has failed.
Supplemented(infos) ==
  [i \in DOMAIN call.merged |->
     LET d == call.merged[i]
     IN IF d.state # "unspecified" THEN d
        ELSE IF d.name \in DOMAIN infos THEN [d EXCEPT !.state = legacyState(infos[d.name].devStatus)]
        ELSE [d EXCEPT !.succeeded = FALSE]]

Unspecified == {call.merged[i].name : i \in {j \in DOMAIN call.merged :
                                               call.merged[j].state = "unspecified"}}

\* The lookup is made only when it is needed.  A broken stream is discarded whole.
SupplementLegacyStates ==
  /\ phase = "supplement"
  /\ LET With(infos, failed) ==
           /\ call' = [call EXCEPT !.merged = Supplemented(infos), !.infos = infos,
                                   !.faults = @ \cup (Unspecified \ DOMAIN infos)]
           /\ client' = [client EXCEPT !.stateLookupFailed = failed]
         Without == call' = call /\ client' = [client EXCEPT !.stateLookupFailed = FALSE]
     IN \/ Unspecified = {} /\ Without /\ UNCHANGED errors
        \/ /\ Unspecified # {}
           /\ \E code \in Codes("v0", "GetTotalInfo") :
                /\ Answered("v0", "GetTotalInfo", code)
                /\ CASE code = "Unimplemented" -> Without
                     [] code = "OK" -> \E stream \in LegacyInfos : With(InfosOf(stream), FALSE)
                     [] OTHER -> With(NoLinks, TRUE)
  /\ phase' = "record"
  /\ UNCHANGED <<daemon, belief>>

-----------------------------------------------------------------------------
\* legacyInventory, given the physfn link of each device.
legacyInventory(list, physfn) ==
  LET after[n \in 0..Len(list)] ==
        IF n = 0 THEN [i \in DOMAIN list |-> LegacyItem(list[i])]
        ELSE ClassifyLegacy(after[n - 1], n, physfn[n])
  IN after[Len(list)]

\* legacyDevices, and the classification of what it returned: legacyInventory runs after
\* the other two RPCs, but what its reads return is any of SysfsParents at any time.
LegacyDevices ==
  /\ phase = "legacyDevices"
  /\ \E code \in Codes("v0", "GetDeviceList") :
       /\ Answered("v0", "GetDeviceList", code)
       /\ IF code # "OK" THEN Abort(code)
          ELSE \E stream \in LegacyLists :
              LET list == Keep(stream, {d \in Elements(stream) : d.name # NoName})
              IN \E physfn \in [DOMAIN list -> IF PCIDevicesPath THEN SysfsParents ELSE {Nil}] :
                   /\ call' = [call EXCEPT !.inventory = legacyInventory(list, physfn),
                                           !.counts = [i \in DOMAIN list |-> list[i].numVfs]]
                   /\ phase' = "legacyTotal"
  /\ UNCHANGED <<daemon, client, belief>>

LegacyTotalInfo ==
  /\ phase = "legacyTotal"
  /\ \E code \in Codes("v0", "GetTotalInfo") :
       /\ Answered("v0", "GetTotalInfo", code)
       /\ IF code # "OK" THEN Abort(code)
          ELSE \E stream \in LegacyInfos :
              /\ call' = [call EXCEPT !.infos = InfosOf(stream)]
              /\ phase' = "legacyTopology"
  /\ UNCHANGED <<daemon, client, belief>>

\* legacyTopology: older daemons do not have it.
LegacyTopology ==
  /\ phase = "legacyTopology"
  /\ \E code \in Codes("v0", "RblnListTopology") :
       /\ Answered("v0", "RblnListTopology", code)
       /\ CASE code = "Unimplemented" -> call' = call /\ phase' = "merge"
            [] code = "OK" ->
                 \E entries \in LegacyTopologies :
                   LET failed == {entries[i].device : i \in {j \in DOMAIN entries : entries[j].error}}
                       sound == {e \in Elements(entries) : ~e.error}
                   IN /\ call' = [call EXCEPT !.links = Linked(@, Keep(entries, sound)),
                                              !.linkFailures = failed, !.faults = @ \cup failed]
                      /\ phase' = "merge"
            [] OTHER -> Abort(code)
  /\ UNCHANGED <<daemon, client, belief>>

\* A v0 device: identity, partition and link, then its record, if it has one.  A record
\* of a failed query gives the state only.
LegacyDeviceInfoOf(n) ==
  LET counted == [name |-> Item.name, bus |-> Item.bus, isVF |-> Item.isVf,
                  parent |-> Item.parent, compute |-> Item.npu,
                  numVFs |-> LegacyCount(Item, call.counts[call.pos]), mode |-> "",
                  state |-> "unspecified", succeeded |-> Item.name \notin call.linkFailures,
                  readings |-> NoReadings]
      cut == partitionMetadata(counted, n)
      linked == [cut EXCEPT !.readings = linkReadings(cut, @, LinkOf(Item.name))]
      info == IF Item.name \in DOMAIN call.infos THEN call.infos[Item.name] ELSE Nil
      own == IF info = Nil THEN NoReadings
             ELSE IF info.errStatus = "SUCCEED" THEN legacyReadings(linked, info.scalars)
             ELSE NoReadings
  IN [linked EXCEPT
        !.state = IF info = Nil THEN @ ELSE legacyState(info.devStatus),
        !.succeeded = @ /\ (IF info = Nil THEN FALSE ELSE info.errStatus = "SUCCEED"),
        !.readings = [r \in DOMAIN @ \cup DOMAIN own |-> IF r \in DOMAIN own THEN own[r] ELSE @[r]]]

\* One iteration of collectV0.
MergeLegacy ==
  /\ phase = "merge" /\ call.api = "v0" /\ call.pos <= Len(call.inventory)
  /\ \/ Skip
     \/ /\ NotForeign
        /\ \E n \in SysfsCounts, code \in Codes("v0", "GetVersion"),
              reply \in LegacyVersionInfo :
             LET d == LegacyDeviceInfoOf(n)
                 lost == {d.name} \ DOMAIN call.infos
                 failed == \/ deviceUnavailable(code)
                           \/ code = "OK" /\ reply.errStatus # "SUCCEED"
                 Done(succeeded, blamed) ==
                   /\ call' = [call EXCEPT !.merged = Append(@, [d EXCEPT !.succeeded = succeeded]),
                                           !.missing = @ \cup lost, !.pos = @ + 1,
                                           !.faults = @ \cup blamed]
                   /\ phase' = "merge"
                 reported == IF lost # {} THEN TRUE
                             ELSE call.infos[d.name].errStatus # "SUCCEED"
             IN /\ Answered("v0", "GetVersion", code)
                /\ IF code \notin {"OK", "Unimplemented"} /\ ~deviceUnavailable(code)
                   THEN Abort(code)
                   ELSE Done(d.succeeded /\ ~failed, IF failed \/ reported THEN {d.name} ELSE {})
  /\ UNCHANGED <<daemon, client, belief>>

-----------------------------------------------------------------------------
Known == {"fault", "init", "ready", "busy", "finish"}
NamesOf(devices) == {devices[i].name : i \in DOMAIN devices}

\* recordDeviceTransitions: the names each line is logged for.
Lines(devices, missing) ==
  LET WasFault(n) == n \in DOMAIN client.prevState /\ client.prevState[n] = "fault"
      Some(P(_)) == {devices[i].name : i \in {j \in DOMAIN devices : P(devices[j])}}
      Degraded(d) == d.state = "fault" /\ ~WasFault(d.name)
      Recovered(d) == WasFault(d.name) /\ d.state # "fault" /\ d.state \in Known
      present == NamesOf(devices)
  IN [unavailable |-> (present \cap missing) \ client.prevMissing,
      telemetry |-> (present \cap client.prevMissing) \ missing,
      degraded |-> Some(Degraded),
      recovered |-> Some(Recovered),
      gone |-> DOMAIN client.prevState \ present]

\* A reader of the log.  hidden: telemetry was missing while the device was not in
\* the inventory; blurred: a device in fault was listed without a known state.
Read(lines, devices, missing) ==
  [unavailable |-> (belief.unavailable \cup lines.unavailable) \ (lines.telemetry \cup lines.gone),
   fault |-> (belief.fault \cup lines.degraded) \ (lines.recovered \cup lines.gone),
   hidden |-> (belief.hidden \cap missing) \cup (missing \ NamesOf(devices)),
   blurred |-> (belief.blurred \cup
                  {n \in belief.fault : \E i \in DOMAIN devices :
                     devices[i].name = n /\ devices[i].state \notin Known})
               \ (lines.degraded \cup lines.recovered \cup lines.gone)]

\* The name of every device with the state of its last entry.
StatesOf(devices) ==
  [n \in NamesOf(devices) |->
     LET own == {i \in DOMAIN devices : devices[i].name = n}
     IN devices[CHOOSE i \in own : \A j \in own : j <= i].state]

\* Mutation of Return: what was missing is remembered only for a complete collection.
ReturnForgetting ==
  /\ phase = "record"
  /\ client' = [client EXCEPT !.activeAPI = call.api, !.collectedOnce = TRUE,
                              !.prevState = StatesOf(call.merged),
                              !.prevMissing = IF call.faults = {} THEN call.missing ELSE @]
  /\ belief' = Read(Lines(call.merged, call.missing), call.merged, call.missing)
  /\ phase' = "idle"
  /\ call' = NewCall
  /\ errors' = {}
  /\ UNCHANGED daemon

\* Mutation of Return: the API once chosen is kept.
ReturnSticky ==
  /\ phase = "record"
  /\ client' = [client EXCEPT !.activeAPI = IF @ = "" THEN call.api ELSE @,
                              !.collectedOnce = TRUE,
                              !.prevState = StatesOf(call.merged), !.prevMissing = call.missing]
  /\ belief' = Read(Lines(call.merged, call.missing), call.merged, call.missing)
  /\ phase' = "idle"
  /\ call' = NewCall
  /\ errors' = {}
  /\ UNCHANGED daemon

\* GetDeviceInfo returns the devices, having recorded API and transitions.
Return ==
  /\ phase = "record"
  /\ client' = [client EXCEPT !.activeAPI = call.api, !.collectedOnce = TRUE,
                              !.prevState = StatesOf(call.merged), !.prevMissing = call.missing]
  /\ belief' = Read(Lines(call.merged, call.missing), call.merged, call.missing)
  /\ phase' = "idle"
  /\ call' = NewCall
  /\ errors' = {}
  /\ UNCHANGED daemon

-----------------------------------------------------------------------------
CollectV1 == ListDevices \/ ListTopology \/ EnsureMetricGroup \/ SampleMetrics
             \/ MergeVersion \/ MergeMemory \/ SupplementLegacyStates
CollectV0 == LegacyDevices \/ LegacyTotalInfo \/ LegacyTopology \/ MergeLegacy
Step == CollectV1 \/ CollectV0 \/ MergeEnds \/ Return

Next == GetDeviceInfo \/ Step \/ DaemonChanges

Spec == Init /\ [][Next]_vars

\* Every RPC ends, at the latest with the context, and the collections go on.
FairSpec == Spec /\ WF_vars(Step) /\ WF_vars(GetDeviceInfo)

-----------------------------------------------------------------------------
ListedOnce(n) == \E i \in DOMAIN call.inventory :
                   \A j \in DOMAIN call.inventory : call.inventory[j].name = n <=> i = j

\* README.md 283: rbln_npu_collection_success is 0 on a reported per-device query failure
\* and 1 otherwise.  What is returned has every listed device that is not bound to a
\* foreign driver, and each one failed exactly if some reply of this collection, of
\* whichever RPC and page, reported a failure of that very device (client.go 100-164,
\* legacy.go 83-98, 195-246).
OutcomePerDevice ==
  phase = "record" =>
    \A i \in DOMAIN call.inventory :
      LET n == call.inventory[i].name
          own == {k \in DOMAIN call.merged : call.merged[k].name = n}
      IN ListedOnce(n) =>
           IF n \in call.foreign THEN own = {}
           ELSE \E k \in own : call.merged[k].succeeded <=> n \notin call.faults

\* The failures that a collection from this API survives: a device that is gone or unable
\* to answer, a method a v0 daemon need not have, the state lookup of a collection from
\* v1, and the missing method that made it a collection from v0.
Forgiven(api, f) ==
  \/ f.method \in {"GetVersion", "GetMemorySpec"} /\ f.code \in {"NotFound", "FailedPrecondition"}
  \/ f.api = "v0" /\ f.method \in {"GetVersion", "RblnListTopology"} /\ f.code = "Unimplemented"
  \/ f.api = "v0" /\ f.method = "GetTotalInfo" /\ api = "v1"
  \/ f.api = "v1" /\ f.code = "Unimplemented" /\ api = "v0"

Survived == \A f \in errors : Forgiven(call.api, f)

\* TestV1FailuresAreNotDowngradedToLegacy and client.go 132, 144, legacy.go 239: whichever
\* RPCs of a collection failed, over all devices and pages and both APIs, it returns its
\* devices exactly when all of those failures are ones it survives.  One device never
\* costs the others their readings, and no other error is swallowed.
GivesUpForDaemonOnly ==
  [][phase # "idle" /\ phase' = "idle" =>
       (phase = "record" <=> \A f \in errors \cup errors' : Forgiven(call.api, f))]_vars

\* legacy.go 77, 85-97: a state v1 specifies, even one this client does not know, is
\* returned as it is; any other is what v0 said in the same collection, or stays
\* unknown, and then a failed lookup shows in the device's success.
StateSource ==
  phase = "record" /\ call.api = "v1" =>
    \A k \in DOMAIN call.merged :
      LET d == call.merged[k]
          FromV0 == d.name \in DOMAIN call.infos /\ d.state = legacyState(call.infos[d.name].devStatus)
      IN /\ \E i \in DOMAIN call.inventory :
              /\ call.inventory[i].name = d.name
              /\ IF call.inventory[i].state = "unspecified" THEN d.state = "unspecified" \/ FromV0
                 ELSE d.state = call.inventory[i].state
         /\ client.stateLookupFailed /\ d.state = "unspecified" => ~d.succeeded

\* What a sample has to be to count, stated per quantity: its type, the functions
\* that have it and its range.
Meaningful(d, s) ==
  CASE s.metric = "temperature" -> s.type = "float" /\ s.value \in Int /\ ~d.isVF
    [] s.metric = "power" -> s.type = "float" /\ s.value \in Nat /\ ~d.isVF
    [] s.metric = "utilization" -> s.type = "float" /\ s.value \in 0..FullLoad /\ d.compute
    [] s.metric = "memory_used" -> s.type = "int" /\ s.value \in Nat /\ d.compute
    [] s.metric = "power_state" -> s.type = "int" /\ s.value \in Nat
    [] OTHER -> FALSE

\* A device from v1 has a reading of a sampled quantity exactly when some sample of it
\* counts, with the value of the last one that does: what is malformed, out of range, of
\* another device or not a quantity of this function neither sets nor takes away a
\* reading (client.go 105-117, 158-163, 237-276).
LastGoodSampleWins ==
  phase = "record" /\ call.api = "v1" =>
    \A k \in DOMAIN call.merged :
      LET d == call.merged[k]
          good == {i \in DOMAIN call.samples :
                     call.samples[i].device = d.name /\ Meaningful(d, call.samples[i])}
          last == {i \in good : \A j \in good :
                     call.samples[j].metric = call.samples[i].metric => j <= i}
      IN /\ DOMAIN d.readings \ {"memory_total", "link_speed", "link_width"}
              = {call.samples[i].metric : i \in last}
         /\ \A i \in last : LET s == call.samples[i]
                            IN d.readings[s.metric] = Scaled(s.value, Unit(s.metric))

\* A v0 scalar as the v1 sample of the same measurement: v1 counts thousandths of a
\* percent and bytes where v0 counts percents and GiB; an int that is no number does
\* not exist, and a negative one stands for it.
AsSample(n, r, v) ==
  LET int == r \in {"memory_used", "power_state"}
  IN [device |-> n, metric |-> r, type |-> IF int THEN "int" ELSE "float",
      value |-> CASE v \in NonNumbers -> IF int THEN -1 ELSE v
                  [] r = "utilization" /\ v \notin NonNumbers -> v * Milli
                  [] r = "memory_used" /\ v \notin NonNumbers -> v * Gib
                  [] OTHER -> v]

SameAmount(a, b) == a[1] * b[2] = b[1] * a[2]

\* Falling back from v1 to v0 does not change what a reading says: a device has the
\* readings it would have from v1 samples of the same measurements, except for a
\* utilization above 100 %, which only v0 lets through, and for memory beyond a uint64,
\* which v0 leaves out instead of wrapping.  A failed query leaves no reading (client.go
\* 237-276, legacy.go 211-232, 251-265).
ApisAgree ==
  phase = "record" /\ call.api = "v0" =>
    \A k \in DOMAIN call.merged, r \in LegacyScalars \ {"memory_total"} :
      LET d == call.merged[k]
          info == call.infos[d.name]
          v == info.scalars[r]
          v1 == applySample(d, NoReadings, AsSample(d.name, r, v))
          over == r = "utilization" /\ v \notin NonNumbers /\ v > 100
          huge == r = "memory_used" /\ v \notin NonNumbers /\ v * Gib >= Modulus
          queried == d.name \in DOMAIN call.infos /\ info.errStatus = "SUCCEED"
      IN IF ~queried THEN r \notin DOMAIN d.readings
         ELSE IF r \in DOMAIN d.readings
         THEN ~huge /\ (over \/ (r \in DOMAIN v1 /\ SameAmount(v1[r], d.readings[r])))
         ELSE huge \/ r \notin DOMAIN v1

\* README.md 164-165, TestV1FailuresAreNotDowngradedToLegacy: v0 is read only when a
\* version of the daemon without all of v1 was met during this very collection.
NoNeedlessDowngrade == phase = "record" /\ call.api = "v0" => ~call.wholeV1

\* TestTransitionLogsAreEdgeTriggered: between collections the log tells the truth about
\* every device of the last inventory: whether its telemetry is missing and whether it
\* is in fault.  Two edges are lost: telemetry that was missing before the device was in
\* the inventory, and a fault that ends while the state is unknown (client.go 286-299).
LogTellsTransitions ==
  phase = "idle" =>
    \A n \in DOMAIN client.prevState :
      /\ n \in belief.unavailable => n \in client.prevMissing
      /\ n \in client.prevMissing => n \in belief.unavailable \cup belief.hidden
      /\ client.prevState[n] = "fault" => n \in belief.fault
      /\ n \in belief.fault \ belief.blurred => client.prevState[n] = "fault"

\* client.go 199, 230: whatever pages the daemon sends, GetDeviceInfo returns.
CallReturns == phase # "idle" ~> phase = "idle"

\* TestAPIAvailabilityIsRecheckedAfterDaemonUpgrade: once the daemon stays up with all
\* of v1 and a usable group, and fails no call a collection does not survive, collections
\* come from v1 for good.
ReturnsToV1 ==
  <>[](up /\ Complete(served) /\ group = "fit" /\ Survived) => <>[](client.activeAPI = "v1")
=============================================================================
