------------------------------- MODULE SmdApi -------------------------------
(***************************************************************************)
(* The two gRPC APIs of rbln-smd as far as the exporter uses them: the     *)
(* messages of pkg/rblnservicesv1pb (v1) and pkg/rblnservicespb (v0) as    *)
(* record sets of the fields the exporter reads or writes, and the methods *)
(* it calls.  Identifiers and text that only end up in labels are left     *)
(* out, and so are page sizes; repeated EntityStatus messages are sets,    *)
(* since only the names in them are read.                                  *)
(***************************************************************************)
EXTENDS Integers, Sequences

CONSTANTS
  Names,     \* device names
  Buses,     \* PCI addresses
  GroupIds,  \* metric group ids
  Tokens,    \* page tokens other than the empty one
  NonNumbers,\* the floats that are no numbers: NaN and the infinities
  Nil        \* an optional field that is not set

NoName == ""
NoToken == ""

-----------------------------------------------------------------------------
\* A proto3 enum is open: "future" stands for a number this client does not know.
DeviceState == {"unspecified", "init", "ready", "busy", "fault", "finish", "future"}

ClockIds == {"clock_cp_0", "clock_cp_1", "clock_dc_0", "clock_dc_1", "clock_bus", "clock_shm",
             "clock_dram"}
LinkIds == {"link_gen", "link_width", "max_link_gen", "max_link_width"}
MetricId == {"unspecified", "temperature", "power", "utilization", "memory_used", "power_state",
             "future"} \cup ClockIds \cup LinkIds

EntityStatus == [ref: Names \cup GroupIds]
Refs(statuses) == {e.ref : e \in statuses}

MemorySpec == [totalBytes: Nat]
\* A version is a text; all that is told apart is whether it is there.
Text == {"", "text"}
VersionInfo == [drv: Text, fw: Text, smc: Text]

\* npu: the optional npu_id is set.
DeviceInfo ==
  [name: Names \cup {NoName}, bus: Buses, isVf: BOOLEAN, parent: Names \cup {NoName},
   npu: BOOLEAN, state: DeviceState, versions: VersionInfo \cup {Nil},
   memory: MemorySpec \cup {Nil}]

DeviceListFilter == {"unspecified", "all", "serviceable"}
DeviceListDetail == {"unspecified", "summary", "full"}
ListDevicesRequest ==
  [filter: DeviceListFilter, detail: DeviceListDetail, token: Tokens \cup {NoToken}]
ListDevicesResponse ==
  [items: Seq(DeviceInfo), unreachable: SUBSET EntityStatus, next: Tokens \cup {NoToken}]

DeviceRef == [name: Names]
GetVersionRequest == [device: DeviceRef]
GetVersionResponse == VersionInfo
GetMemorySpecRequest == [device: DeviceRef]
GetMemorySpecResponse == [memory: MemorySpec \cup {Nil}]

\* speed and width are the parsed link, Nil when they do not parse.
TopologyEntry == [device: Names, speed: Nat \cup {Nil}, width: Nat \cup {Nil}]
ListTopologyRequest == [token: Tokens \cup {NoToken}]
ListTopologyResponse ==
  [entries: Seq(TopologyEntry), unreachable: SUBSET EntityStatus, next: Tokens \cup {NoToken}]

DeviceScope == {"all", "refs", "group"}
SamplingPolicy == {"on_demand", "scheduled"}
\* metric_ids is a set: validateMetricGroup sorts it before it compares.
MetricGroup ==
  [id: GroupIds, metrics: SUBSET MetricId, scope: DeviceScope, policy: SamplingPolicy]
\* The idempotency key of the request becomes the id of the group.
CreateMetricGroupRequest == MetricGroup
CreateMetricGroupResponse == [group: MetricGroup]
ListMetricGroupsRequest == [token: Tokens \cup {NoToken}]
ListMetricGroupsResponse ==
  [items: SUBSET MetricGroup, unreachable: SUBSET EntityStatus, next: Tokens \cup {NoToken}]

\* A sample carries a float or an int, whatever its metric.
MetricSample ==
  [device: Names \cup {NoName}, metric: MetricId, type: {"float"}, value: Int \cup NonNumbers]
  \cup
  [device: Names \cup {NoName}, metric: MetricId, type: {"int"}, value: Int]
MetricGroupRef == [id: GroupIds]
SampleMetricsRequest == [group: MetricGroupRef]
SampleMetricsResponse == [samples: Seq(MetricSample), unreachable: SUBSET EntityStatus]

\* The services, each a record of the messages of its methods.
Rpc(request, response) == [request |-> request, response |-> response]
InventoryService ==
  [ListDevices |-> Rpc(ListDevicesRequest, ListDevicesResponse),
   GetVersion |-> Rpc(GetVersionRequest, GetVersionResponse),
   GetMemorySpec |-> Rpc(GetMemorySpecRequest, GetMemorySpecResponse)]
MetricService ==
  [ListMetricGroups |-> Rpc(ListMetricGroupsRequest, ListMetricGroupsResponse),
   CreateMetricGroup |-> Rpc(CreateMetricGroupRequest, CreateMetricGroupResponse),
   SampleMetrics |-> Rpc(SampleMetricsRequest, SampleMetricsResponse)]
TopologyService == [ListTopology |-> Rpc(ListTopologyRequest, ListTopologyResponse)]

V1Methods == DOMAIN InventoryService \cup DOMAIN MetricService \cup DOMAIN TopologyService

-----------------------------------------------------------------------------
\* The v0 API.
DeviceStatus == {"READY", "BUSY", "INIT", "FAULT", "FINISH", "NOT_FOUND", "future"}
Status == {"SUCCEED", "FAILED"}

LegacyDevice ==
  [name: Names \cup {NoName}, bus: Buses, isVf: BOOLEAN, parent: Names \cup {NoName},
   numVfs: Nat]

\* memory is in GiB, utilization in percent; a v0 scalar is always present.
LegacyScalars == {"temperature", "power", "memory_total", "memory_used", "utilization",
                  "power_state"}
LegacyDeviceInfo ==
  [name: Names \cup {NoName}, devStatus: DeviceStatus, errStatus: Status,
   scalars: [LegacyScalars -> Int \cup NonNumbers]]

\* An entry is in error if its ErrorDetail has a code or a message.
ErrorDetail == BOOLEAN
LegacyTopologyEntry ==
  [device: Names, error: ErrorDetail, speed: Nat \cup {Nil}, width: Nat \cup {Nil}]
RblnListTopologyResponse == [entries: Seq(LegacyTopologyEntry)]
LegacyVersionInfo == [errStatus: Status]

\* The empty requests, and the filter that selects nothing and so all devices.
Empty == {"empty"}
DeviceFilter == [deviceIds: SUBSET Nat, groupIds: SUBSET Nat]

\* The response of a streaming method is the sequence of its messages.
RBLNServices ==
  [GetDeviceList |-> Rpc(Empty, Seq(LegacyDevice)),
   GetTotalInfo |-> Rpc(Empty, Seq(LegacyDeviceInfo)),
   RblnListTopology |-> Rpc(DeviceFilter, RblnListTopologyResponse),
   GetVersion |-> Rpc(DeviceRef, LegacyVersionInfo)]
V0Methods == DOMAIN RBLNServices

-----------------------------------------------------------------------------
\* The daemon's side of two methods, as the test daemon (internal/smdtest) has them:
\* creating an id that exists answers AlreadyExists and changes nothing.
CreateMetricGroup(groups, request) ==
  IF \E g \in groups : g.id = request.id
  THEN [code |-> "AlreadyExists", groups |-> groups]
  ELSE [code |-> "OK", groups |-> groups \cup {request}]

\* SampleMetrics of a group that does not exist.
SampleCode(groups, id) == IF \E g \in groups : g.id = id THEN "OK" ELSE "NotFound"
=============================================================================
