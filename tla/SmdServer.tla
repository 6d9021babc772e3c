----------------------------- MODULE SmdServer ------------------------------
(***************************************************************************)
(* The daemon of the integration tests, internal/smdtest: which services   *)
(* it registers, and its handlers as operators on its state.  A handler    *)
(* runs under the server's lock, so it is one step.                        *)
(***************************************************************************)
EXTENDS SmdApi, FiniteSets, TLC

\* contents  Devices, Entries, Samples and what is unreachable, and the lists of its
\*           LegacyServer;
\* groups    Groups;
\* pageSize  PageSize, which only tests of paging set;
\* errors    Errors of both servers: the code a method is to fail with;
\* v1, v0    the APIs Serve registered;
\* afterSend TotalErrorAfterSend.
Calls == ({"v1"} \X V1Methods) \cup ({"v0"} \X V0Methods)
Codes == {"NotFound", "FailedPrecondition", "Unimplemented", "Unavailable", "Internal"}
Contents ==
  [devices: Seq(DeviceInfo), entries: Seq(TopologyEntry), samples: Seq(MetricSample),
   oldDevices: Seq(LegacyDevice), oldInfos: Seq(LegacyDeviceInfo),
   oldEntries: Seq(LegacyTopologyEntry), unreachable: SUBSET EntityStatus,
   topologyUnreachable: SUBSET EntityStatus, groupUnreachable: SUBSET EntityStatus]
Server ==
  [contents: Contents, groups: SUBSET MetricGroup, pageSize: Nat,
   errors: [Calls -> Codes \cup {"OK"}], v1: BOOLEAN, v0: BOOLEAN, afterSend: BOOLEAN]

Reply(body) == [code |-> "OK", body |-> body]
Failure(code) == [code |-> code, body |-> Nil]

-----------------------------------------------------------------------------
\* strconv.Itoa and Atoi: a page token is the decimal offset of the next item.
Itoa(n) == ToString(n)
Atoi(token) ==
  IF token = NoToken THEN 0
  ELSE CHOOSE n \in 0..Cardinality(Tokens) : Itoa(n) = token

Limit(s) == IF s.pageSize = 0 THEN 1000 ELSE s.pageSize
Least(m, n) == IF m < n THEN m ELSE n

page(items, token, limit) ==
  LET end == Least(Atoi(token) + limit, Len(items))
  IN [items |-> SubSeq(items, Atoi(token) + 1, end),
      next |-> IF end < Len(items) THEN Itoa(end) ELSE NoToken]

\* page slices out of range, and takes the daemon down, when the list has shrunk.
Panics(items, token) == Atoi(token) > Len(items)

ListDevices(s, r) ==
  LET p == page(s.contents.devices, r.token, Limit(s))
  IN [items |-> p.items, unreachable |-> {}, next |-> p.next]

ListTopology(s, r) ==
  LET p == page(s.contents.entries, r.token, Limit(s))
  IN [entries |-> p.items, unreachable |-> s.contents.topologyUnreachable, next |-> p.next]

TestVersion == [drv |-> "text", fw |-> "text", smc |-> "text"]

GetMemorySpec == [memory |-> [totalBytes |-> 35]]

CreateMetricGroupReply(s, r) ==
  LET code == CreateMetricGroup(s.groups, r).code
  IN IF code = "OK" THEN Reply([group |-> r]) ELSE Failure(code)

SampleMetrics(s, r) ==
  LET code == SampleCode(s.groups, r.group.id)
  IN IF code # "OK" THEN Failure(code)
     ELSE Reply([samples |-> s.contents.samples, unreachable |-> s.contents.unreachable])

\* The generated handlers dispatch a call to the method of the server; a method the test
\* daemon does not define is that of the Unimplemented server it embeds.
Unimplemented == Failure("Unimplemented")

InventoryHandler(s, method, r) ==
  CASE method = "ListDevices" -> Reply(ListDevices(s, r))
    [] method = "GetVersion" -> Reply(TestVersion)
    [] method = "GetMemorySpec" -> Reply(GetMemorySpec)
    [] OTHER -> Unimplemented

MetricHandler(s, method, r) ==
  CASE method = "ListMetricGroups" ->
         Reply([items |-> s.groups, unreachable |-> s.contents.groupUnreachable,
                next |-> NoToken])
    [] method = "CreateMetricGroup" -> CreateMetricGroupReply(s, r)
    [] method = "SampleMetrics" -> SampleMetrics(s, r)
    [] OTHER -> Unimplemented

TopologyHandler(s, method, r) ==
  IF method = "ListTopology" THEN Reply(ListTopology(s, r)) ELSE Unimplemented

V1Reply(s, method, r) ==
  CASE method \in DOMAIN InventoryService -> InventoryHandler(s, method, r)
    [] method \in DOMAIN MetricService -> MetricHandler(s, method, r)
    [] method \in DOMAIN TopologyService -> TopologyHandler(s, method, r)

V0Reply(s, method) ==
  CASE method = "GetDeviceList" -> Reply(s.contents.oldDevices)
    [] method = "GetTotalInfo" -> Reply(s.contents.oldInfos)
    [] method = "RblnListTopology" -> Reply([entries |-> s.contents.oldEntries])
    [] method = "GetVersion" -> Reply([errStatus |-> "SUCCEED"])
    [] OTHER -> Unimplemented

\* The services Serve has registered.
Registered(s, api) == IF api = "v1" THEN s.v1 ELSE s.v0

\* The answer to a call.  A missing group comes before the injected error; with
\* TotalErrorAfterSend a stream breaks off after its last message.
Answer(s, api, method, r) ==
  LET own == IF api = "v1" THEN V1Reply(s, method, r) ELSE V0Reply(s, method)
      error == s.errors[<<api, method>>]
  IN IF ~Registered(s, api) THEN Unimplemented
     ELSE IF error = "OK" \/ own.code = "NotFound" THEN own
     ELSE IF method = "GetTotalInfo" /\ s.afterSend THEN [own EXCEPT !.code = error]
     ELSE Failure(error)

\* The server after the call: only a creation that is answered OK changes anything.
Handled(s, api, method, r) ==
  IF method = "CreateMetricGroup" /\ Answer(s, api, method, r).code = "OK"
  THEN [s EXCEPT !.groups = CreateMetricGroup(@, r).groups] ELSE s
=============================================================================
