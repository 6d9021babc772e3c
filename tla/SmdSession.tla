----------------------------- MODULE SmdSession -----------------------------
(***************************************************************************)
(* Clients of internal/daemon and the daemon of internal/smdtest, joined   *)
(* by gRPC: a call is sent, handled and answered in three steps, and may   *)
(* instead be cut off by its context, in which case the daemon may handle  *)
(* it all the same, at any later time.  Meanwhile the daemon's contents    *)
(* change, its methods begin and cease to fail, and it restarts.           *)
(*                                                                         *)
(* A client here has no sysfs, and all states are specified, so neither    *)
(* partition metadata nor v0 states are looked for (see DaemonClient).     *)
(***************************************************************************)
EXTENDS SmdServer

CONSTANTS
  Clients,        \* the exporters
  MetricGroupID,  \* the group they are configured with, and may create
  AllContents,    \* the contents the daemon may have
  Failing,        \* the calls that may be made to fail
  PageSizes,      \* and its page size
  MaxFaults       \* bound on changes of the daemon and on cut-off calls

ASSUME SessionAssumption ==
  /\ MetricGroupID \in GroupIds
  /\ AllContents \subseteq Contents
  /\ \A k \in AllContents, i \in 1..Cardinality(Names) :
       i \in DOMAIN k.devices => k.devices[i].state # "unspecified"
  /\ Failing \subseteq Calls \X Codes
  /\ PageSizes \subseteq Nat
  /\ MaxFaults \in Nat

VARIABLES
  server,   \* the daemon
  rpc,      \* per client, its call and the answer to it, or Nil
  late,     \* creations whose callers have given up
  session,  \* per client, the local variables of its collection
  result,   \* per client, what its last collection returned, Nil for an error
  during,   \* history: the contents the daemon had since the current listing began
  faults    \* bounded count

vars == <<server, rpc, late, session, result, during, faults>>

\* phase    the RPC the collection has come to;
\* token, seen   the paging of the current listing;
\* devices, links, infos   what was listed; failed, the devices reported unreachable;
\* pos, current, merged    the loop over the devices.
Fresh(phase) ==
  [phase |-> phase, token |-> NoToken, seen |-> {}, devices |-> <<>>, links |-> <<>>,
   infos |-> <<>>, failed |-> {}, pos |-> 1, current |-> Nil, merged |-> <<>>]

Wanted == [id |-> MetricGroupID, scope |-> "all", policy |-> "on_demand",
           metrics |-> {"temperature", "power", "utilization", "memory_used", "power_state"}]

NoErrors == [c \in Calls |-> "OK"]

Init ==
  /\ server \in [contents: AllContents, groups: {{}, {Wanted}}, pageSize: PageSizes,
                 errors: {NoErrors}, v1: BOOLEAN, v0: {TRUE}, afterSend: {TRUE}]
  /\ rpc = [c \in Clients |-> Nil]
  /\ late = {}
  /\ session = [c \in Clients |-> Fresh("idle")]
  /\ result = [c \in Clients |-> Nil]
  /\ during = [c \in Clients |-> {}]
  /\ faults = 0

-----------------------------------------------------------------------------
V0Phases == {"oldDevices", "oldInfos", "oldTopology", "oldVersion"}
Device(s) == s.devices[s.pos]

\* The call a phase makes.
Call(s) ==
  LET It(api, method, request) == [api |-> api, method |-> method, request |-> request]
  IN CASE s.phase = "devices" ->
            It("v1", "ListDevices", [filter |-> "all", detail |-> "full", token |-> s.token])
       [] s.phase = "topology" -> It("v1", "ListTopology", [token |-> s.token])
       [] s.phase \in {"find", "again"} -> It("v1", "ListMetricGroups", [token |-> s.token])
       [] s.phase = "create" -> It("v1", "CreateMetricGroup", Wanted)
       [] s.phase = "sample" -> It("v1", "SampleMetrics", [group |-> [id |-> MetricGroupID]])
       [] s.phase = "version" -> It("v1", "GetVersion", [device |-> [name |-> Device(s).name]])
       [] s.phase = "memory" -> It("v1", "GetMemorySpec", [device |-> [name |-> Device(s).name]])
       [] s.phase = "oldDevices" -> It("v0", "GetDeviceList", "empty")
       [] s.phase = "oldInfos" -> It("v0", "GetTotalInfo", "empty")
       [] s.phase = "oldTopology" ->
            It("v0", "RblnListTopology", [deviceIds |-> {}, groupIds |-> {}])
       [] s.phase = "oldVersion" -> It("v0", "GetVersion", [name |-> Device(s).name])

\* An error ends the collection, unless v1 turns out not to be served.
Abort(s, code) ==
  IF s.phase \notin V0Phases /\ code = "Unimplemented" THEN Fresh("oldDevices")
  ELSE Fresh("failed")

\* Mutation of NextPage: the tokens of one listing still count in the next.
NextPageSeen(s, next, after) ==
  IF next = NoToken THEN [s EXCEPT !.phase = after, !.token = NoToken]
  ELSE IF next \in s.seen THEN Fresh("failed")
  ELSE [s EXCEPT !.token = next, !.seen = @ \cup {next}]

\* The end of a page in any of the three listings.
NextPage(s, next, after) ==
  IF next = NoToken THEN [s EXCEPT !.phase = after, !.token = NoToken, !.seen = {}]
  ELSE IF next \in s.seen THEN Fresh("failed")
  ELSE [s EXCEPT !.token = next, !.seen = @ \cup {next}]

\* Mutation of AfterDevices: only the last page is kept.
AfterDevicesLastPage(s, r) ==
  LET Usable(d) == d.name # NoName /\ d.name \notin Refs(r.unreachable)
  IN NextPage([s EXCEPT !.devices = SelectSeq(r.items, Usable)], r.next, "topology")

AfterDevices(s, r) ==
  LET Usable(d) == d.name # NoName /\ d.name \notin Refs(r.unreachable)
  IN NextPage([s EXCEPT !.devices = @ \o SelectSeq(r.items, Usable)], r.next, "topology")

AfterTopology(s, r) ==
  LET Usable(e) == e.device \notin Refs(r.unreachable)
      t == [s EXCEPT !.links = @ \o SelectSeq(r.entries, Usable),
                     !.failed = @ \cup Refs(r.unreachable)]
  IN NextPage(t, r.next, IF s.devices = <<>> THEN "loop" ELSE "find")

\* findMetricGroup, before ("find") and after ("again") an attempt to create the group.
AfterFind(s, r) ==
  LET ours == {g \in r.items : g.id = MetricGroupID}
  IN IF MetricGroupID \in Refs(r.unreachable) THEN Fresh("failed")
     ELSE IF ours # {} THEN IF ours = {Wanted} THEN NextPage(s, NoToken, "sample")
                            ELSE Fresh("failed")
     ELSE NextPage(s, r.next, IF s.phase = "find" THEN "create" ELSE "failed")

AfterSample(s, r) == [s EXCEPT !.phase = "loop", !.failed = @ \cup Refs(r.unreachable)]

-----------------------------------------------------------------------------
deviceUnavailable(code) == code \in {"NotFound", "FailedPrecondition"}

\* The versions of the device, whether they came with the inventory or from GetVersion.
AfterVersion(s, code, version) ==
  IF code = "OK" \/ deviceUnavailable(code)
  THEN [s EXCEPT !.phase = "memory", !.current.versions = version,
                 !.current.succeeded = @ /\ code = "OK"]
  ELSE Abort(s, code)

AfterMemory(s, code, memory) ==
  IF code = "OK" \/ deviceUnavailable(code)
  THEN [s EXCEPT !.phase = "loop", !.pos = @ + 1, !.current = Nil,
                 !.merged = Append(@, [s.current EXCEPT !.memory = memory,
                                                        !.succeeded = @ /\ code = "OK"])]
  ELSE Abort(s, code)

\* The head of the loop of collectV1 or collectV0.
AfterLoop(s, old) ==
  IF s.pos > Len(s.devices) THEN [s EXCEPT !.phase = "done"]
  ELSE [s EXCEPT !.phase = IF old THEN "oldVersion" ELSE "version",
                 !.current = [name |-> Device(s).name, versions |-> Nil, memory |-> Nil,
                              succeeded |-> Device(s).name \notin s.failed]]

\* The error of an entry's query costs the device its success.
AfterOldTopology(s, code, r) ==
  CASE code = "OK" ->
         LET bad == {e \in {r.entries[i] : i \in DOMAIN r.entries} : e.error}
             Sound(e) == ~e.error
         IN [s EXCEPT !.phase = "oldLoop", !.failed = {e.device : e \in bad},
                      !.links = SelectSeq(r.entries, Sound)]
    [] code = "Unimplemented" -> [s EXCEPT !.phase = "oldLoop"]
    [] OTHER -> Abort(s, code)

\* legacyTotalInfo's record of a device; a later one wins.
InfoOf(s, n) ==
  LET own == {i \in DOMAIN s.infos : s.infos[i].name = n}
  IN IF own = {} THEN Nil ELSE s.infos[CHOOSE i \in own : \A j \in own : j <= i]

AfterOldVersion(s, code, r) ==
  LET info == InfoOf(s, Device(s).name)
      known == IF info = Nil THEN FALSE ELSE info.errStatus = "SUCCEED"
      asked == IF code = "OK" THEN r.errStatus = "SUCCEED" ELSE code = "Unimplemented"
  IN IF code \in {"OK", "Unimplemented"} \/ deviceUnavailable(code)
     THEN [s EXCEPT !.phase = "oldLoop", !.pos = @ + 1, !.current = Nil,
                    !.merged = Append(@, [s.current EXCEPT !.succeeded = @ /\ known /\ asked])]
     ELSE Abort(s, code)

\* What a client does with the answer to a call that is no stream.
After(s, reply) ==
  LET r == reply.body
  IN CASE s.phase = "version" -> AfterVersion(s, reply.code, r)
       [] s.phase = "memory" ->
            AfterMemory(s, reply.code, IF reply.code = "OK" THEN r.memory ELSE Nil)
       [] s.phase = "oldTopology" -> AfterOldTopology(s, reply.code, r)
       [] s.phase = "oldVersion" -> AfterOldVersion(s, reply.code, r)
       [] s.phase = "create" /\ reply.code = "AlreadyExists" -> [s EXCEPT !.phase = "again"]
       [] OTHER ->
            CASE reply.code # "OK" -> Abort(s, reply.code)
              [] s.phase = "devices" -> AfterDevices(s, r)
              [] s.phase = "topology" -> AfterTopology(s, r)
              [] s.phase \in {"find", "again"} -> AfterFind(s, r)
              [] s.phase = "create" ->
                   IF r.group = Wanted THEN [s EXCEPT !.phase = "sample"] ELSE Fresh("failed")
              [] s.phase = "sample" -> AfterSample(s, r)

-----------------------------------------------------------------------------
Listings == {"devices", "topology", "oldDevices", "oldInfos"}

\* Client c goes on with s.
Goes(c, s) ==
  /\ session' = [session EXCEPT ![c] = s]
  /\ during' = [during EXCEPT ![c] = IF s.phase \notin Listings THEN {}
                                     ELSE IF s.phase = session[c].phase THEN @
                                     ELSE {server.contents}]

Begin(c) ==
  /\ session[c].phase = "idle"
  /\ Goes(c, Fresh("devices"))
  /\ UNCHANGED <<server, rpc, late, result, faults>>

\* What came inline with the inventory is not asked for.
Inline(s) ==
  \/ s.phase = "version" /\ Device(s).versions # Nil
  \/ s.phase = "memory" /\ (Device(s).memory # Nil \/ ~Device(s).npu)

Local(c) ==
  /\ LET s == session[c]
     IN \/ s.phase = "loop" /\ Goes(c, AfterLoop(s, FALSE))
        \/ s.phase = "oldLoop" /\ Goes(c, AfterLoop(s, TRUE))
        \/ /\ Inline(s)
           /\ Goes(c, IF s.phase = "version" THEN AfterVersion(s, "OK", Device(s).versions)
                      ELSE AfterMemory(s, "OK", Device(s).memory))
  /\ UNCHANGED <<server, rpc, late, result, faults>>

Send(c) ==
  /\ rpc[c] = Nil
  /\ session[c].phase \notin {"idle", "loop", "oldLoop", "done", "failed"}
  /\ ~Inline(session[c])
  /\ rpc' = [rpc EXCEPT ![c] = [call |-> Call(session[c]), reply |-> Nil]]
  /\ UNCHANGED <<server, late, session, result, during, faults>>

\* The answer, or the next message of a stream, reaches the client.  A nameless record is
\* dropped.  A stream that breaks off is an error, whatever it has brought.
Receive(c) ==
  /\ rpc[c] # Nil /\ rpc[c].reply # Nil
  /\ LET s == session[c]
         reply == rpc[c].reply
         More(field) == IF Head(reply.body).name = NoName THEN s[field]
                        ELSE Append(s[field], Head(reply.body))
     IN IF s.phase \notin {"oldDevices", "oldInfos"}
        THEN rpc' = [rpc EXCEPT ![c] = Nil] /\ Goes(c, After(s, reply))
        ELSE IF reply.body \in {Nil, <<>>}
        THEN /\ rpc' = [rpc EXCEPT ![c] = Nil]
             /\ Goes(c, IF reply.code # "OK" THEN Abort(s, reply.code)
                        ELSE [s EXCEPT !.phase = IF @ = "oldDevices" THEN "oldInfos" ELSE "oldTopology"])
        ELSE /\ rpc' = [rpc EXCEPT ![c].reply.body = Tail(@)]
             /\ Goes(c, IF s.phase = "oldDevices" THEN [s EXCEPT !.devices = More("devices")]
                        ELSE [s EXCEPT !.infos = More("infos")])
  /\ UNCHANGED <<server, late, result, faults>>

\* GetDeviceInfo returns.
Finish(c) ==
  /\ session[c].phase \in {"done", "failed"}
  /\ result' = [result EXCEPT ![c] = IF session[c].phase = "done" THEN session[c].merged ELSE Nil]
  /\ Goes(c, Fresh("idle"))
  /\ UNCHANGED <<server, rpc, late, faults>>

-----------------------------------------------------------------------------
\* The daemon goes down: what it was asked fails, streams break off, its groups are lost.
Streams == {"GetDeviceList", "GetTotalInfo"}
Cut(call) == IF call = Nil THEN FALSE ELSE call.reply = Nil \/ call.call.method \in Streams

Down(upgraded) ==
  /\ server' = [server EXCEPT !.groups = {}, !.v1 = upgraded]
  /\ rpc' = [c \in Clients |-> IF Cut(rpc[c]) THEN [rpc[c] EXCEPT !.reply = Failure("Unavailable")]
                               ELSE rpc[c]]
  /\ late' = {}

Panicking(call) ==
  /\ server.v1
  /\ \/ call.method = "ListDevices" /\ Panics(server.contents.devices, call.request.token)
     \/ call.method = "ListTopology" /\ Panics(server.contents.entries, call.request.token)

Handle(c) ==
  /\ rpc[c] # Nil /\ rpc[c].reply = Nil
  /\ LET k == rpc[c].call
     IN IF Panicking(k) THEN Down(server.v1)
        ELSE /\ rpc' = [rpc EXCEPT ![c].reply = Answer(server, k.api, k.method, k.request)]
             /\ server' = Handled(server, k.api, k.method, k.request)
             /\ UNCHANGED late
  /\ UNCHANGED <<session, result, during, faults>>

\* A call outlives its caller: only a creation matters.
HandleLate(r) ==
  /\ r \in late
  /\ server' = Handled(server, "v1", "CreateMetricGroup", r)
  /\ late' = late \ {r}
  /\ UNCHANGED <<rpc, session, result, during, faults>>

Fault == faults < MaxFaults /\ faults' = faults + 1

\* The context of a call ends before its answer arrives.
Expire(c) ==
  /\ rpc[c] # Nil
  /\ rpc' = [rpc EXCEPT ![c] = Nil]
  /\ late' = IF rpc[c].reply = Nil /\ rpc[c].call.method = "CreateMetricGroup"
             THEN late \cup {rpc[c].call.request} ELSE late
  /\ Goes(c, Fresh("failed"))
  /\ Fault
  /\ UNCHANGED <<server, result>>

Restart == (\E upgraded \in BOOLEAN : Down(upgraded)) /\ Fault /\ UNCHANGED <<session, result, during>>

\* Set, and the fields the tests assign.
Set ==
  /\ \E k \in AllContents :
       /\ server' = [server EXCEPT !.contents = k]
       /\ during' = [c \in Clients |-> IF during[c] = {} THEN {} ELSE during[c] \cup {k}]
  /\ Fault
  /\ UNCHANGED <<rpc, late, session, result>>

SetErrors ==
  /\ \E errors \in {NoErrors} \cup {[NoErrors EXCEPT ![f[1]] = f[2]] : f \in Failing} :
       server' = [server EXCEPT !.errors = errors]
  /\ Fault
  /\ UNCHANGED <<rpc, late, session, result, during>>

-----------------------------------------------------------------------------
ClientStep(c) == Begin(c) \/ Local(c) \/ Send(c) \/ Handle(c) \/ Receive(c) \/ Finish(c)
Next ==
  \/ \E c \in Clients : ClientStep(c) \/ Expire(c)
  \/ \E r \in late : HandleLate(r)
  \/ Restart \/ Set \/ SetErrors

Spec == Init /\ [][Next]_vars
\* Collections go on, and every call is handled and answered in the end.
FairSpec == Spec /\ \A c \in Clients : WF_vars(ClientStep(c))

-----------------------------------------------------------------------------
\* out has the items that kept their place in all lists exactly once, and no item that
\* was in none of them.
Faithful(out, lists) ==
  /\ \A j \in DOMAIN out : \E l \in lists : \E i \in DOMAIN l : l[i] = out[j]
  /\ \A l \in lists : \A i \in DOMAIN l :
       (\A m \in lists : i \in DOMAIN m /\ m[i] = l[i]) =>
         Cardinality({j \in DOMAIN out : out[j] = l[i]}) = 1

\* TestV1CollectionWithPFAndVF (PageSize 1): paging loses and repeats nothing, even while
\* the inventory changes between two pages: a device or link that keeps its place in the
\* daemon's list all through a listing is listed exactly once, and nothing is listed
\* that was never there.  The same goes for the v0 streams (client.go 177-235,
\* legacy.go 38-56, 101-119).
ListingsFaithful ==
  [][\A c \in Clients :
       LET p == session[c].phase
           q == session'[c].phase
           Lists(field) == {k[field] : k \in during[c]}
       IN /\ p = "devices" /\ q = "topology" =>
               Faithful(session'[c].devices, Lists("devices"))
          /\ p = "topology" /\ q \in {"find", "loop"} =>
               Faithful(session'[c].links, Lists("entries"))
          /\ p = "oldDevices" /\ q = "oldInfos" =>
               Faithful(session'[c].devices, Lists("oldDevices"))
          /\ p = "oldInfos" /\ q = "oldTopology" =>
               Faithful(session'[c].infos, Lists("oldInfos"))]_vars

NamesIn(devices) == {devices[i].name : i \in DOMAIN devices}

\* Whatever calls were cut off, lost with a restart or handled too late: once the
\* daemon's methods stay healthy, every client ends up collecting exactly the devices
\* the daemon has, from the API it serves (client.go 67-88, metric_group.go 23-48).
ConvergesToContents ==
  <>[](server.errors = NoErrors /\ server.contents.groupUnreachable = {}) =>
    \A c \in Clients :
      <>[](/\ result[c] # Nil
           /\ NamesIn(result[c]) = NamesIn(IF server.v1 THEN server.contents.devices
                                           ELSE server.contents.oldDevices))
=============================================================================
