------------------------- MODULE DaemonClientProofs -------------------------
(***************************************************************************)
(* What a collection returns, and which API it comes from, proved for      *)
(* every daemon: every set of pages, replies and versions, with the daemon *)
(* stopping, returning and changing between any two RPCs.                  *)
(*                                                                         *)
(* Five invariants build on one another.  ControlOK ties the API to the    *)
(* phase and to what the daemon has served since the call.  ErrorsOK says  *)
(* that the RPCs that failed so far are ones the collection survives.      *)
(* DataOK has the loop invariant of collectV1 and collectV0 (MergeOK): the *)
(* devices before pos are finished, skipped or merged, and a device that   *)
(* is listed once has failed exactly if it was blamed.  LogOK relates the  *)
(* log to what the client remembers.  ReadOK says that each merged device  *)
(* has the readings its samples, or its v0 record, entitle it to.          *)
(***************************************************************************)
EXTENDS DaemonClient, RecursionTheorems, SequenceTheorems, TLAPS

CallFields == {"api", "seen", "inventory", "counts", "links", "linkFailures", "missing",
               "samples", "infos", "pos", "current", "merged", "foreign", "faults", "wholeV1"}
DeviceFields == {"name", "bus", "isVF", "parent", "compute", "numVFs", "mode", "state",
                 "succeeded", "readings"}

V1Phases == {"devices", "topology", "group", "sample", "memory", "supplement"}
V0Phases == {"legacyDevices", "legacyTotal", "legacyTopology"}
Phases == V1Phases \cup V0Phases \cup {"idle", "merge", "record"}

\* The API in use, and why: v0 only after a version without all of v1 was met.
ControlOK ==
  /\ phase \in Phases
  /\ DOMAIN call = CallFields
  /\ call.api \in {"v1", "v0"}
  /\ phase \in V1Phases => call.api = "v1"
  /\ phase \in V0Phases => call.api = "v0"
  /\ phase # "idle" /\ call.wholeV1 => Complete(served)
  /\ call.api = "v0" => ~call.wholeV1

-----------------------------------------------------------------------------
LEMMA TheV1Methods ==
  V1Methods = {"ListDevices", "GetVersion", "GetMemorySpec", "ListMetricGroups",
               "CreateMetricGroup", "SampleMetrics", "ListTopology"}
BY DEF V1Methods, InventoryService, MetricService, TopologyService

LEMMA CallShape == DOMAIN NewCall = CallFields
BY DEF NewCall, CallFields

\* A v1 method that is not implemented shows that not all of v1 is served.
LEMMA UnimplementedIsIncomplete ==
  ASSUME NEW method \in V1Methods, "Unimplemented" \in Codes("v1", method)
  PROVE  ~Complete(served)
BY ErrorsAssumption DEF Codes, Complete

\* A failure keeps the API consistent.
LEMMA AbortControl ==
  ASSUME ControlOK, phase # "idle", NEW code, Abort(code), served' = served,
         call.api = "v1" /\ code = "Unimplemented" => ~Complete(served)
  PROVE  ControlOK'
<1>1. CASE call.api = "v1" /\ code = "Unimplemented"
  <2>1. phase' = "legacyDevices" /\ call' = [NewCall EXCEPT !.api = "v0", !.wholeV1 = call.wholeV1]
    BY <1>1 DEF Abort
  <2>2. ~call.wholeV1 /\ call.wholeV1 = call'.wholeV1 /\ call'.api = "v0" /\ DOMAIN call' = CallFields
    BY <1>1, <2>1, CallShape DEF ControlOK, CallFields
  <2> QED
    BY <2>1, <2>2 DEF ControlOK, Phases, V0Phases, V1Phases
<1>2. CASE ~(call.api = "v1" /\ code = "Unimplemented")
  <2>1. phase' = "idle" /\ call' = NewCall
    BY <1>2 DEF Abort
  <2> QED
    BY <2>1, CallShape DEF ControlOK, Phases, V0Phases, V1Phases, NewCall
<1> QED
  BY <1>1, <1>2

\* A step that goes on within the call.
LEMMA GoesOn ==
  ASSUME ControlOK, phase # "idle", served' = served, DOMAIN call' = CallFields,
         call'.api = call.api, call'.wholeV1 = call.wholeV1, phase' \in Phases,
         phase' \in V1Phases => call.api = "v1", phase' \in V0Phases => call.api = "v0"
  PROVE  ControlOK'
BY DEF ControlOK

LEMMA PageControl ==
  ASSUME ControlOK, phase \in {"devices", "topology"}, served' = served,
         NEW c, NEW next, NEW method, NEW after \in {"topology", "merge", "group"},
         Page(c, next, method, after),
         DOMAIN c = CallFields, c.api = call.api, c.wholeV1 = call.wholeV1
  PROVE  ControlOK'
<1>1. phase # "idle" /\ call.api = "v1"
  BY DEF ControlOK, V1Phases
<1>2. CASE Abort("repeated page token")
  BY <1>1, <1>2, AbortControl
<1>3. CASE phase' \in {phase, after} /\ \E s : call' = [c EXCEPT !.seen = s]
  <2>1. DOMAIN call' = CallFields /\ call'.api = call.api /\ call'.wholeV1 = call.wholeV1
    BY <1>3 DEF CallFields
  <2> QED
    BY <1>1, <1>3, <2>1, GoesOn DEF Phases, V0Phases, V1Phases
<1> QED
  BY <1>2, <1>3 DEF Page

LEMMA ControlStep == ASSUME ControlOK, [Next]_vars PROVE ControlOK'
<1>1. CASE GetDeviceInfo
  BY <1>1, CallShape
     DEF GetDeviceInfo, daemon, ControlOK, NewCall, CallFields, Phases, V0Phases, V1Phases
<1>2. CASE DaemonChanges
  <2>1. phase' = phase
    BY <1>2 DEF DaemonChanges
  <2>2. CASE phase = "idle"
    BY <1>2, <2>1, <2>2 DEF DaemonChanges, ControlOK
  <2>3. CASE phase # "idle"
    <3>1. call' = [call EXCEPT !.wholeV1 = @ /\ Complete(served')]
      BY <1>2, <2>3 DEF DaemonChanges
    <3>2. DOMAIN call' = CallFields /\ call'.api = call.api
          /\ call'.wholeV1 = (call.wholeV1 /\ Complete(served'))
      BY <3>1 DEF ControlOK, CallFields
    <3> QED
      BY <2>1, <2>3, <3>2 DEF ControlOK, Complete
  <2> QED
    BY <2>2, <2>3
<1>3. CASE ListDevices
  <2>1. phase = "devices" /\ served' = served
    BY <1>3 DEF ListDevices, daemon
  <2>2. CASE \E code \in Codes("v1", "ListDevices") : Abort(code)
    BY <1>3, <2>1, <2>2, AbortControl, UnimplementedIsIncomplete, TheV1Methods DEF ListDevices
  <2>3. CASE ~\E code \in Codes("v1", "ListDevices") : Abort(code)
    <3>1. PICK page, items :
            Page([call EXCEPT !.inventory = @ \o items], page.next, "ListDevices", "topology")
      BY <1>3, <2>3 DEF ListDevices
    <3>2. LET c == [call EXCEPT !.inventory = @ \o items]
          IN DOMAIN c = CallFields /\ c.api = call.api /\ c.wholeV1 = call.wholeV1
      BY DEF ControlOK, CallFields
    <3> QED
      BY <2>1, <3>1, <3>2, PageControl
  <2> QED
    BY <2>2, <2>3
<1>4. CASE ListTopology
  <2>1. phase = "topology" /\ served' = served
    BY <1>4 DEF ListTopology, daemon
  <2>2. CASE \E code \in Codes("v1", "ListTopology") : Abort(code)
    BY <1>4, <2>1, <2>2, AbortControl, UnimplementedIsIncomplete, TheV1Methods DEF ListTopology
  <2>3. CASE ~\E code \in Codes("v1", "ListTopology") : Abort(code)
    <3>1. PICK page \in TopologyPages :
            LET failed == Refs(page.unreachable)
                usable == {e \in Elements(page.entries) : e.device \notin failed}
                c == [call EXCEPT !.links = Linked(@, Keep(page.entries, usable)),
                                  !.linkFailures = @ \cup failed, !.faults = @ \cup failed]
            IN Page(c, page.next, "ListTopology", IF c.inventory = <<>> THEN "merge" ELSE "group")
      BY <1>4, <2>3 DEF ListTopology
    <3> DEFINE failed == Refs(page.unreachable)
               usable == {e \in Elements(page.entries) : e.device \notin failed}
               c == [call EXCEPT !.links = Linked(@, Keep(page.entries, usable)),
                                 !.linkFailures = @ \cup failed, !.faults = @ \cup failed]
               after == IF c.inventory = <<>> THEN "merge" ELSE "group"
    <3>2. DOMAIN c = CallFields /\ c.api = call.api /\ c.wholeV1 = call.wholeV1
      BY DEF ControlOK, CallFields
    <3>3. Page(c, page.next, "ListTopology", after) /\ after \in {"topology", "merge", "group"}
      BY <3>1
    <3> HIDE DEF failed, usable, c, after
    <3> QED
      BY <2>1, <3>2, <3>3, PageControl
  <2> QED
    BY <2>2, <2>3
<1>5. CASE EnsureMetricGroup
  <2>1. phase = "group" /\ served' = served /\ call.api = "v1"
    BY <1>5 DEF EnsureMetricGroup, ControlOK, V1Phases
  <2>2. \/ phase' = "sample" /\ call' = call
        \/ Abort("refused")
        \/ \E m \in {"ListMetricGroups", "CreateMetricGroup"} : \E code \in Codes("v1", m) : Abort(code)
    BY <1>5 DEF EnsureMetricGroup
  <2>3. CASE phase' = "sample" /\ call' = call
    BY <2>1, <2>3, GoesOn DEF ControlOK, Phases, V0Phases, V1Phases
  <2>4. CASE Abort("refused")
    BY <2>1, <2>4, AbortControl
  <2>5. CASE \E m \in {"ListMetricGroups", "CreateMetricGroup"} :
               \E code \in Codes("v1", m) : Abort(code)
    BY <2>1, <2>5, AbortControl, UnimplementedIsIncomplete, TheV1Methods
  <2> QED
    BY <2>2, <2>3, <2>4, <2>5
<1>6. CASE SampleMetrics
  <2>1. phase = "sample" /\ served' = served /\ call.api = "v1"
    BY <1>6 DEF SampleMetrics, daemon, ControlOK, V1Phases
  <2>2. CASE \E code \in Codes("v1", "SampleMetrics") \cup {"NotFound"} : Abort(code)
    BY <1>6, <2>1, <2>2, AbortControl, UnimplementedIsIncomplete, TheV1Methods DEF SampleMetrics
  <2>3. CASE ~\E code \in Codes("v1", "SampleMetrics") \cup {"NotFound"} : Abort(code)
    <3>1. phase' = "merge" /\ DOMAIN call' = CallFields /\ call'.api = call.api
          /\ call'.wholeV1 = call.wholeV1
      BY <1>6, <2>3 DEF SampleMetrics, ControlOK, CallFields
    <3> QED
      BY <2>1, <3>1, GoesOn DEF Phases, V0Phases, V1Phases
  <2> QED
    BY <2>2, <2>3
<1>7. CASE MergeVersion
  <2>1. phase = "merge" /\ served' = served /\ call.api = "v1"
    BY <1>7 DEF MergeVersion, daemon
  <2>2. \/ Skip
        \/ /\ phase' = "memory"
           /\ call' = [call EXCEPT !.current = Merged] \/ call' = Failing(call, Merged)
        \/ \E code \in Codes("v1", "GetVersion") : Abort(code)
    BY <1>7 DEF MergeVersion
  <2>3. CASE Skip
    <3>1. phase' = "merge" /\ DOMAIN call' = CallFields /\ call'.api = call.api
          /\ call'.wholeV1 = call.wholeV1
      BY <2>1, <2>3 DEF Skip, ControlOK, CallFields
    <3> QED
      BY <2>1, <3>1, GoesOn DEF Phases, V0Phases, V1Phases
  <2>4. CASE phase' = "memory"
             /\ (call' = [call EXCEPT !.current = Merged] \/ call' = Failing(call, Merged))
    <3>1. DOMAIN call' = CallFields /\ call'.api = call.api /\ call'.wholeV1 = call.wholeV1
      BY <2>4 DEF Failing, ControlOK, CallFields
    <3> QED
      BY <2>1, <2>4, <3>1, GoesOn DEF Phases, V0Phases, V1Phases
  <2>5. CASE \E code \in Codes("v1", "GetVersion") : Abort(code)
    BY <2>1, <2>5, AbortControl, UnimplementedIsIncomplete, TheV1Methods
  <2> QED
    BY <2>2, <2>3, <2>4, <2>5
<1>8. CASE MergeMemory
  <2>1. phase = "memory" /\ served' = served /\ call.api = "v1"
    BY <1>8 DEF MergeMemory, daemon, ControlOK, V1Phases
  <2>2. \/ phase' = "merge" /\ \E c \in {call, Failing(call, call.current)} : \E memory, n :
                                  call' = FinishV1(c, memory, n)
        \/ \E code \in Codes("v1", "GetMemorySpec") : Abort(code)
    BY <1>8 DEF MergeMemory
  <2>3. CASE phase' = "merge" /\ \E c \in {call, Failing(call, call.current)} : \E memory, n :
                                   call' = FinishV1(c, memory, n)
    <3>1. PICK c \in {call, Failing(call, call.current)} :
            \E memory, n : call' = FinishV1(c, memory, n)
      BY <2>3
    <3>2. DOMAIN c = CallFields /\ c.api = call.api /\ c.wholeV1 = call.wholeV1
      BY <3>1 DEF Failing, ControlOK, CallFields
    <3>3. DOMAIN call' = CallFields /\ call'.api = call.api /\ call'.wholeV1 = call.wholeV1
      BY <3>1, <3>2 DEF FinishV1, CallFields
    <3> QED
      BY <2>1, <2>3, <3>3, GoesOn DEF Phases, V0Phases, V1Phases
  <2>4. CASE \E code \in Codes("v1", "GetMemorySpec") : Abort(code)
    BY <2>1, <2>4, AbortControl, UnimplementedIsIncomplete, TheV1Methods
  <2> QED
    BY <2>2, <2>3, <2>4
<1>9. CASE SupplementLegacyStates
  <2>1. phase = "supplement" /\ phase' = "record" /\ served' = served /\ call.api = "v1"
    BY <1>9 DEF SupplementLegacyStates, daemon, ControlOK, V1Phases
  <2>2. DOMAIN call' = CallFields /\ call'.api = call.api /\ call'.wholeV1 = call.wholeV1
    BY <1>9 DEF SupplementLegacyStates, ControlOK, CallFields
  <2> QED
    BY <2>1, <2>2, GoesOn DEF Phases, V0Phases, V1Phases
<1>10. CASE LegacyDevices \/ LegacyTotalInfo \/ LegacyTopology
  <2>1. phase \in V0Phases /\ served' = served /\ call.api = "v0" /\ phase # "idle"
    BY <1>10 DEF LegacyDevices, LegacyTotalInfo, LegacyTopology, daemon, ControlOK, V0Phases
  <2>2. \/ \E code : Abort(code)
        \/ /\ phase' \in {"legacyTotal", "legacyTopology", "merge"}
           /\ DOMAIN call' = CallFields /\ call'.api = call.api /\ call'.wholeV1 = call.wholeV1
    <3>1. CASE LegacyDevices
      BY <3>1 DEF LegacyDevices, ControlOK, CallFields
    <3>2. CASE LegacyTotalInfo
      BY <3>2 DEF LegacyTotalInfo, ControlOK, CallFields
    <3>3. CASE LegacyTopology
      BY <3>3 DEF LegacyTopology, ControlOK, CallFields
    <3> QED
      BY <1>10, <3>1, <3>2, <3>3
  <2> QED
    BY <2>1, <2>2, AbortControl, GoesOn DEF Phases, V0Phases, V1Phases
<1>11. CASE MergeLegacy
  <2>1. phase = "merge" /\ served' = served /\ call.api = "v0"
    BY <1>11 DEF MergeLegacy, daemon
  <2>2. \/ \E code : Abort(code)
        \/ phase' = "merge"
           /\ DOMAIN call' = CallFields /\ call'.api = call.api /\ call'.wholeV1 = call.wholeV1
    <3>1. CASE Skip
      BY <2>1, <3>1 DEF Skip, ControlOK, CallFields
    <3>2. CASE ~Skip
      BY <1>11, <3>2 DEF MergeLegacy, ControlOK, CallFields
    <3> QED
      BY <3>1, <3>2
  <2> QED
    BY <2>1, <2>2, AbortControl, GoesOn DEF Phases, V0Phases, V1Phases
<1>12. CASE MergeEnds
  BY <1>12, GoesOn DEF MergeEnds, daemon, ControlOK, Phases, V0Phases, V1Phases
<1>13. CASE Return
  BY <1>13, CallShape
     DEF Return, daemon, ControlOK, NewCall, Phases, V0Phases, V1Phases
<1>14. CASE UNCHANGED vars
  BY <1>14 DEF vars, daemon, ControlOK
<1> QED
  BY <1>1, <1>2, <1>3, <1>4, <1>5, <1>6, <1>7, <1>8, <1>9, <1>10, <1>11, <1>12, <1>13, <1>14
     DEF Next, Step, CollectV1, CollectV0

\* At any time of a collection the API fits the phase, and v0 has been turned to only
\* after a version without all of v1 was met (client.go 80-96).
THEOREM ControlInvariance == Spec => []ControlOK
<1>1. Init => ControlOK
  <2>1. NewCall.api = "v1"
    BY DEF NewCall
  <2> QED
    BY <2>1, CallShape DEF Init, ControlOK, Phases, V0Phases, V1Phases
<1>2. ControlOK /\ [Next]_vars => ControlOK'
  BY ControlStep
<1> QED
  BY <1>1, <1>2, PTL DEF Spec

\* A collection from v0 is returned only if a version of the daemon without all of v1
\* was met during it: an unavailable daemon, a refused group or a failing device never
\* makes the client fall back (client.go 80-96).
THEOREM FallsBackForVersionOnly == Spec => []NoNeedlessDowngrade
<1>1. ControlOK => NoNeedlessDowngrade
  BY DEF ControlOK, NoNeedlessDowngrade
<1> QED
  BY <1>1, ControlInvariance, PTL

\* The errors a collection has met so far are ones it survives; those of v0 come with the
\* state lookup, its last RPC.
ErrorsOK ==
  phase # "idle" =>
    /\ Survived
    /\ call.api = "v1" /\ phase # "record" => \A f \in errors : f.api = "v1"

\* What an RPC that may have failed leads to: it goes on, with the other API, or gives up.
Proceeds ==
  /\ phase' # "idle" /\ call'.api = call.api
  /\ \/ errors' = errors
     \/ \E f : /\ errors' = errors \cup {f} /\ Forgiven(call.api, f)
               /\ f.api = call.api \/ phase' = "record"
FallsBack ==
  /\ call.api = "v1" /\ phase' # "idle" /\ call'.api = "v0"
  /\ errors' = errors \cup {[api |-> "v1", method |-> "", code |-> "Unimplemented"]}
GivesUp ==
  /\ phase' = "idle"
  /\ \E f : errors' = errors \cup {f} /\ ~Forgiven(call.api, f)

\* An error that is not forgiven gives the collection up, unless v1 is not there.
LEMMA AbortOutcome ==
  ASSUME call.api \in {"v1", "v0"}, NEW method, NEW code, code # "OK", Abort(code),
         Answered(call.api, method, code),
         ~Forgiven(call.api, [api |-> call.api, method |-> method, code |-> code])
  PROVE  FallsBack \/ GivesUp
<1>1. CASE call.api = "v1" /\ code = "Unimplemented"
  <2>1. phase' = "legacyDevices" /\ call' = [NewCall EXCEPT !.api = "v0", !.wholeV1 = call.wholeV1]
    BY <1>1 DEF Abort
  <2>2. call'.api = "v0"
    BY <2>1 DEF NewCall
  <2> QED
    BY <1>1, <2>1, <2>2 DEF Answered, FallsBack
<1>2. CASE ~(call.api = "v1" /\ code = "Unimplemented")
  <2> DEFINE f == [api |-> call.api, method |-> method, code |-> code]
  <2>1. phase' = "idle"
    BY <1>2 DEF Abort
  <2>2. errors' = errors \cup {f}
    BY <1>2 DEF Answered
  <2> QED
    BY <2>1, <2>2 DEF GivesUp
<1> QED
  BY <1>1, <1>2

\* v1 forgives only the two RPCs about a device.
LEMMA V1Forgives ==
  ASSUME NEW method, NEW code,
         Forgiven("v1", [api |-> "v1", method |-> method, code |-> code])
  PROVE  method \in {"GetVersion", "GetMemorySpec"} /\ deviceUnavailable(code)
BY DEF Forgiven, deviceUnavailable

LEMMA AbortV1 ==
  ASSUME call.api = "v1", NEW method, NEW code, code # "OK", Abort(code),
         Answered("v1", method, code),
         ~(method \in {"GetVersion", "GetMemorySpec"} /\ deviceUnavailable(code))
  PROVE  FallsBack \/ GivesUp
<1>1. ~Forgiven("v1", [api |-> "v1", method |-> method, code |-> code])
  BY V1Forgives
<1> QED
  BY <1>1, AbortOutcome

\* A forgiven error, or none.
LEMMA ForgivenProceeds ==
  ASSUME NEW api, NEW method, NEW code, Answered(api, method, code),
         phase' # "idle", call'.api = call.api, api = call.api \/ phase' = "record",
         \/ code = "OK"
         \/ /\ Forgiven(call.api, [api |-> api, method |-> method, code |-> code])
            /\ ~(api = "v1" /\ code = "Unimplemented")
  PROVE  Proceeds
<1>1. CASE code = "OK"
  BY <1>1 DEF Answered, Proceeds
<1>2. CASE code # "OK"
  <2> DEFINE f == [api |-> api, method |-> method, code |-> code]
  <2>1. errors' = errors \cup {f}
    BY <1>2 DEF Answered
  <2>2. Forgiven(call.api, f) /\ f.api = api
    BY <1>2
  <2> QED
    BY <2>1, <2>2 DEF Proceeds
<1> QED
  BY <1>1, <1>2

LEMMA PageOutcome ==
  ASSUME call.api = "v1", phase # "idle", NEW c, NEW next, NEW method, NEW after, after # "idle",
         Page(c, next, method, after), method \in {"ListDevices", "ListTopology"},
         DOMAIN c = CallFields, c.api = call.api
  PROVE  Proceeds \/ FallsBack \/ GivesUp
<1>1. CASE Abort("repeated page token") /\ Answered("v1", method, "repeated page token")
  BY <1>1, AbortV1
<1>2. CASE /\ phase' \in {phase, after} /\ Answered("v1", method, "OK")
           /\ \E s : call' = [c EXCEPT !.seen = s]
  <2>1. call'.api = call.api
    BY <1>2 DEF CallFields
  <2> QED
    BY <1>2, <2>1, ForgivenProceeds
<1> QED
  BY <1>1, <1>2 DEF Page

\* Every step of a collection but the last.
LEMMA CollectOutcome ==
  ASSUME ControlOK, CollectV1 \/ CollectV0 \/ MergeEnds
  PROVE  Proceeds \/ FallsBack \/ GivesUp
<1>0. call.api \in {"v1", "v0"}
  BY DEF ControlOK
<1>1. CASE ListDevices
  <2>1. phase = "devices" /\ call.api = "v1"
    BY <1>1 DEF ListDevices, ControlOK, V1Phases
  <2>2. CASE \E code : code # "OK" /\ Abort(code) /\ Answered("v1", "ListDevices", code)
    BY <2>1, <2>2, AbortV1
  <2>3. CASE ~\E code : code # "OK" /\ Abort(code) /\ Answered("v1", "ListDevices", code)
    <3>1. PICK page, items :
            Page([call EXCEPT !.inventory = @ \o items], page.next, "ListDevices", "topology")
      BY <1>1, <2>3 DEF ListDevices
    <3> DEFINE c == [call EXCEPT !.inventory = @ \o items]
    <3>2. DOMAIN c = CallFields /\ c.api = call.api
      BY DEF ControlOK, CallFields
    <3>3. Page(c, page.next, "ListDevices", "topology")
      BY <3>1
    <3> HIDE DEF c
    <3> QED
      BY <2>1, <3>2, <3>3, PageOutcome
  <2> QED
    BY <2>2, <2>3
<1>2. CASE ListTopology
  <2>1. phase = "topology" /\ call.api = "v1"
    BY <1>2 DEF ListTopology, ControlOK, V1Phases
  <2>2. CASE \E code : code # "OK" /\ Abort(code) /\ Answered("v1", "ListTopology", code)
    BY <2>1, <2>2, AbortV1
  <2>3. CASE ~\E code : code # "OK" /\ Abort(code) /\ Answered("v1", "ListTopology", code)
    <3>1. PICK page \in TopologyPages :
            LET failed == Refs(page.unreachable)
                usable == {e \in Elements(page.entries) : e.device \notin failed}
                c == [call EXCEPT !.links = Linked(@, Keep(page.entries, usable)),
                                  !.linkFailures = @ \cup failed, !.faults = @ \cup failed]
            IN Page(c, page.next, "ListTopology", IF c.inventory = <<>> THEN "merge" ELSE "group")
      BY <1>2, <2>3 DEF ListTopology
    <3> DEFINE failed == Refs(page.unreachable)
               usable == {e \in Elements(page.entries) : e.device \notin failed}
               c == [call EXCEPT !.links = Linked(@, Keep(page.entries, usable)),
                                 !.linkFailures = @ \cup failed, !.faults = @ \cup failed]
               after == IF c.inventory = <<>> THEN "merge" ELSE "group"
    <3>2. DOMAIN c = CallFields /\ c.api = call.api
      BY DEF ControlOK, CallFields
    <3>3. Page(c, page.next, "ListTopology", after) /\ after # "idle"
      BY <3>1
    <3> HIDE DEF failed, usable, c, after
    <3> QED
      BY <2>1, <3>2, <3>3, PageOutcome
  <2> QED
    BY <2>2, <2>3
<1>3. CASE EnsureMetricGroup
  <2>1. phase = "group" /\ call.api = "v1"
    BY <1>3 DEF EnsureMetricGroup, ControlOK, V1Phases
  <2>2. PICK code, method :
          /\ Answered("v1", method, code) /\ method \in {"CreateMetricGroup", "ListMetricGroups"}
          /\ IF code # "OK" THEN Abort(code) ELSE phase' = "sample" /\ call' = call
    BY <1>3 DEF EnsureMetricGroup
  <2> QED
    BY <2>1, <2>2, AbortV1, ForgivenProceeds
<1>4. CASE SampleMetrics
  <2>1. phase = "sample" /\ call.api = "v1"
    BY <1>4 DEF SampleMetrics, ControlOK, V1Phases
  <2>2. PICK code :
          /\ Answered("v1", "SampleMetrics", code)
          /\ IF code # "OK" THEN Abort(code)
             ELSE phase' = "merge" /\ \E missing, faults, samples :
                    call' = [call EXCEPT !.missing = missing, !.faults = faults, !.samples = samples]
    BY <1>4 DEF SampleMetrics
  <2>3. code = "OK" => call'.api = call.api
    BY <2>2 DEF ControlOK, CallFields
  <2> QED
    BY <2>1, <2>2, <2>3, AbortV1, ForgivenProceeds
<1>5. CASE Skip /\ phase = "merge"
  <2>1. phase' # "idle" /\ call'.api = call.api /\ errors' = errors
    BY <1>5 DEF Skip, ControlOK, CallFields
  <2> QED
    BY <2>1 DEF Proceeds
<1>6. CASE MergeVersion /\ ~Skip
  <2>1. phase = "merge" /\ call.api = "v1"
    BY <1>6 DEF MergeVersion
  <2> DEFINE Goes == /\ phase' = "memory"
                     /\ call' = [call EXCEPT !.current = Merged] \/ call' = Failing(call, Merged)
  <2>2. \/ Goes /\ errors' = errors
        \/ \E code : /\ Answered("v1", "GetVersion", code)
                     /\ IF code = "OK" \/ deviceUnavailable(code) THEN Goes ELSE Abort(code)
    BY <1>6 DEF MergeVersion
  <2>3. Goes => phase' # "idle" /\ call'.api = call.api
    BY DEF Failing, ControlOK, CallFields
  <2> HIDE DEF Goes
  <2>4. CASE Goes /\ errors' = errors
    BY <2>3, <2>4 DEF Proceeds
  <2>5. ASSUME NEW code, Answered("v1", "GetVersion", code),
               IF code = "OK" \/ deviceUnavailable(code) THEN Goes ELSE Abort(code)
        PROVE  Proceeds \/ FallsBack \/ GivesUp
    <3>1. CASE code = "OK"
      BY <2>1, <2>3, <2>5, <3>1, ForgivenProceeds
    <3>2. CASE code # "OK" /\ deviceUnavailable(code)
      <4>1. /\ Forgiven("v1", [api |-> "v1", method |-> "GetVersion", code |-> code])
            /\ code # "Unimplemented"
        BY <3>2 DEF deviceUnavailable, Forgiven
      <4> QED
        BY <2>1, <2>3, <2>5, <3>2, <4>1, ForgivenProceeds
    <3>3. CASE code # "OK" /\ ~deviceUnavailable(code)
      BY <2>1, <2>5, <3>3, AbortV1
    <3> QED
      BY <3>1, <3>2, <3>3
  <2> QED
    BY <2>2, <2>4, <2>5
<1>7. CASE MergeMemory
  <2>1. phase = "memory" /\ call.api = "v1"
    BY <1>7 DEF MergeMemory, ControlOK, V1Phases
  <2> DEFINE Goes == phase' = "merge" /\ \E c \in {call, Failing(call, call.current)} :
                                           \E memory, n : call' = FinishV1(c, memory, n)
  <2>2. \/ Goes /\ errors' = errors
        \/ \E code : /\ Answered("v1", "GetMemorySpec", code)
                     /\ IF code = "OK" \/ deviceUnavailable(code) THEN Goes ELSE Abort(code)
    BY <1>7 DEF MergeMemory
  <2>3. Goes => phase' # "idle" /\ call'.api = call.api
    <3>1. ASSUME NEW c \in {call, Failing(call, call.current)}, NEW memory, NEW n,
                 call' = FinishV1(c, memory, n)
          PROVE  call'.api = call.api
      <4>1. DOMAIN c = CallFields /\ c.api = call.api
        BY DEF Failing, ControlOK, CallFields
      <4> QED
        BY <3>1, <4>1 DEF FinishV1, CallFields
    <3> QED
      BY <3>1
  <2> HIDE DEF Goes
  <2>4. CASE Goes /\ errors' = errors
    BY <2>3, <2>4 DEF Proceeds
  <2>5. ASSUME NEW code, Answered("v1", "GetMemorySpec", code),
               IF code = "OK" \/ deviceUnavailable(code) THEN Goes ELSE Abort(code)
        PROVE  Proceeds \/ FallsBack \/ GivesUp
    <3>1. CASE code = "OK"
      BY <2>1, <2>3, <2>5, <3>1, ForgivenProceeds
    <3>2. CASE code # "OK" /\ deviceUnavailable(code)
      <4>1. /\ Forgiven("v1", [api |-> "v1", method |-> "GetMemorySpec", code |-> code])
            /\ code # "Unimplemented"
        BY <3>2 DEF deviceUnavailable, Forgiven
      <4> QED
        BY <2>1, <2>3, <2>5, <3>2, <4>1, ForgivenProceeds
    <3>3. CASE code # "OK" /\ ~deviceUnavailable(code)
      BY <2>1, <2>5, <3>3, AbortV1
    <3> QED
      BY <3>1, <3>2, <3>3
  <2> QED
    BY <2>2, <2>4, <2>5
<1>8. CASE SupplementLegacyStates
  <2>1. phase' = "record" /\ call.api = "v1"
    BY <1>8 DEF SupplementLegacyStates, ControlOK, V1Phases
  <2>2. call'.api = call.api
    BY <1>8 DEF SupplementLegacyStates, ControlOK, CallFields
  <2>3. errors' = errors \/ \E code : Answered("v0", "GetTotalInfo", code)
    BY <1>8 DEF SupplementLegacyStates
  <2>4. ASSUME NEW code
        PROVE  Forgiven("v1", [api |-> "v0", method |-> "GetTotalInfo", code |-> code])
    BY DEF Forgiven
  <2>5. CASE errors' = errors
    BY <2>1, <2>2, <2>5 DEF Proceeds
  <2> QED
    BY <2>1, <2>2, <2>3, <2>4, <2>5, ForgivenProceeds
<1>9. CASE LegacyDevices \/ LegacyTotalInfo
  <2>1. call.api = "v0"
    BY <1>9 DEF LegacyDevices, LegacyTotalInfo, ControlOK, V0Phases
  <2>2. PICK method \in {"GetDeviceList", "GetTotalInfo"} : \E code :
          /\ Answered("v0", method, code)
          /\ IF code # "OK" THEN Abort(code) ELSE phase' # "idle" /\ call'.api = call.api
    <3>1. CASE LegacyDevices
      <4>1. PICK code :
              /\ Answered("v0", "GetDeviceList", code)
              /\ IF code # "OK" THEN Abort(code)
                 ELSE phase' = "legacyTotal" /\ \E inventory, counts :
                        call' = [call EXCEPT !.inventory = inventory, !.counts = counts]
        BY <3>1 DEF LegacyDevices
      <4>2. code = "OK" => call'.api = call.api
        BY <4>1 DEF ControlOK, CallFields
      <4> QED
        BY <4>1, <4>2
    <3>2. CASE LegacyTotalInfo
      <4>1. PICK code :
              /\ Answered("v0", "GetTotalInfo", code)
              /\ IF code # "OK" THEN Abort(code)
                 ELSE phase' = "legacyTopology" /\ \E infos : call' = [call EXCEPT !.infos = infos]
        BY <3>2 DEF LegacyTotalInfo
      <4>2. code = "OK" => call'.api = call.api
        BY <4>1 DEF ControlOK, CallFields
      <4> QED
        BY <4>1, <4>2
    <3> QED
      BY <1>9, <3>1, <3>2
  <2>3. PICK code :
          /\ Answered("v0", method, code)
          /\ IF code # "OK" THEN Abort(code) ELSE phase' # "idle" /\ call'.api = call.api
    BY <2>2
  <2>4. ~Forgiven("v0", [api |-> "v0", method |-> method, code |-> code])
    BY DEF Forgiven
  <2> QED
    BY <2>1, <2>3, <2>4, AbortOutcome, ForgivenProceeds
<1>10. CASE LegacyTopology
  <2>1. call.api = "v0"
    BY <1>10 DEF LegacyTopology, ControlOK, V0Phases
  <2>2. PICK code :
          /\ Answered("v0", "RblnListTopology", code)
          /\ IF code \in {"OK", "Unimplemented"} THEN phase' # "idle" /\ call'.api = call.api
             ELSE Abort(code)
    BY <1>10 DEF LegacyTopology, ControlOK, CallFields
  <2>3. Forgiven("v0", [api |-> "v0", method |-> "RblnListTopology", code |-> code])
          <=> code = "Unimplemented"
    BY DEF Forgiven
  <2> QED
    BY <2>1, <2>2, <2>3, AbortOutcome, ForgivenProceeds
<1>11. CASE MergeLegacy /\ ~Skip
  <2>1. phase = "merge" /\ call.api = "v0"
    BY <1>11 DEF MergeLegacy
  <2>2. PICK code :
          /\ Answered("v0", "GetVersion", code)
          /\ IF code \in {"OK", "Unimplemented"} \/ deviceUnavailable(code)
             THEN phase' # "idle" /\ call'.api = call.api
             ELSE Abort(code)
    BY <1>11 DEF MergeLegacy, ControlOK, CallFields
  <2>3. Forgiven("v0", [api |-> "v0", method |-> "GetVersion", code |-> code])
          <=> code = "Unimplemented" \/ deviceUnavailable(code)
    BY DEF Forgiven, deviceUnavailable
  <2> QED
    BY <2>1, <2>2, <2>3, AbortOutcome, ForgivenProceeds
<1>12. CASE MergeEnds
  BY <1>12 DEF MergeEnds, Proceeds
<1>13. (MergeVersion \/ MergeLegacy) /\ Skip => phase = "merge"
  BY DEF MergeVersion, MergeLegacy
<1> QED
  BY <1>1, <1>2, <1>3, <1>4, <1>5, <1>6, <1>7, <1>8, <1>9, <1>10, <1>11, <1>12, <1>13
     DEF CollectV1, CollectV0

LEMMA CollectPhase ==
  ASSUME CollectV1 \/ CollectV0 \/ MergeEnds PROVE phase \notin {"idle", "record"}
BY DEF CollectV1, CollectV0, MergeEnds, ListDevices, ListTopology, EnsureMetricGroup,
       SampleMetrics, MergeVersion, MergeMemory, SupplementLegacyStates, LegacyDevices,
       LegacyTotalInfo, LegacyTopology, MergeLegacy

LEMMA ErrorsStep == ASSUME ErrorsOK, ControlOK, [Next]_vars PROVE ErrorsOK'
<1>1. CASE GetDeviceInfo
  BY <1>1 DEF GetDeviceInfo, ErrorsOK, Survived
<1>2. CASE DaemonChanges \/ UNCHANGED vars
  <2>1. phase' = phase /\ errors' = errors
    BY <1>2 DEF DaemonChanges, vars
  <2>2. phase # "idle" => call'.api = call.api
    BY <1>2 DEF DaemonChanges, vars, ControlOK, CallFields
  <2> QED
    BY <2>1, <2>2 DEF ErrorsOK, Survived
<1>3. CASE Return
  BY <1>3 DEF Return, ErrorsOK
<1>4. CASE CollectV1 \/ CollectV0 \/ MergeEnds
  <2>1. phase \notin {"idle", "record"}
    BY <1>4, CollectPhase
  <2>2. /\ \A f \in errors : Forgiven(call.api, f)
        /\ call.api = "v1" => \A f \in errors : f.api = "v1"
    BY <2>1 DEF ErrorsOK, Survived
  <2>3. CASE Proceeds
    BY <2>2, <2>3 DEF Proceeds, ErrorsOK, Survived
  <2>4. CASE FallsBack
    <3> DEFINE f0 == [api |-> "v1", method |-> "", code |-> "Unimplemented"]
    <3>1. Forgiven("v0", f0)
      BY DEF Forgiven
    <3>2. \A f \in errors : Forgiven("v0", f)
      BY <2>2, <2>4 DEF FallsBack, Forgiven
    <3>3. errors' = errors \cup {f0} /\ call'.api = "v0"
      BY <2>4 DEF FallsBack
    <3> HIDE DEF f0
    <3> QED
      BY <3>1, <3>2, <3>3 DEF ErrorsOK, Survived
  <2>5. CASE GivesUp
    BY <2>5 DEF GivesUp, ErrorsOK
  <2> QED
    BY <1>4, <2>3, <2>4, <2>5, CollectOutcome
<1> QED
  BY <1>1, <1>2, <1>3, <1>4 DEF Next, Step

\* A collection has met only errors it survives, until one gives it up.
THEOREM ErrorsInvariance == Spec => []ErrorsOK
<1>1. Init => ErrorsOK
  BY DEF Init, ErrorsOK
<1>2. ErrorsOK /\ ControlOK /\ [Next]_vars => ErrorsOK'
  BY ErrorsStep
<1> QED
  BY <1>1, <1>2, ControlInvariance, PTL DEF Spec

\* Whatever codes the RPCs of a collection end with, for every daemon, every device and
\* every page: it returns its devices exactly when all failures are of a device that is
\* gone or unable, of a v0 method that may be missing, of the state lookup, or of the v1
\* method whose absence made it turn to v0 (client.go 70-164, legacy.go 160-246).
THEOREM GivesUpForCause == Spec => GivesUpForDaemonOnly
<1>1. ASSUME ErrorsOK, ControlOK, [Next]_vars, phase # "idle", phase' = "idle"
      PROVE  phase = "record" <=> \A f \in errors \cup errors' : Forgiven(call.api, f)
  <2>1. CASE Return
    BY <1>1, <2>1 DEF Return, ErrorsOK, Survived
  <2>2. CASE CollectV1 \/ CollectV0 \/ MergeEnds
    <3>1. GivesUp
      BY <1>1, <2>2, CollectOutcome DEF Proceeds, FallsBack
    <3> QED
      BY <2>2, <3>1, CollectPhase DEF GivesUp
  <2>3. CASE GetDeviceInfo \/ DaemonChanges \/ UNCHANGED vars
    BY <1>1, <2>3 DEF GetDeviceInfo, DaemonChanges, vars
  <2> QED
    BY <1>1, <2>1, <2>2, <2>3 DEF Next, Step
<1>2. ErrorsOK /\ ControlOK /\ [Next]_vars
      => [phase # "idle" /\ phase' = "idle" =>
            (phase = "record" <=> \A f \in errors \cup errors' : Forgiven(call.api, f))]_vars
  BY <1>1
<1> QED
  BY <1>2, ErrorsInvariance, ControlInvariance, PTL DEF Spec, GivesUpForDaemonOnly

-----------------------------------------------------------------------------
\* Keep selects from a list.
LEMMA KeepType ==
  ASSUME NEW S, NEW seq \in Seq(S), NEW kept
  PROVE  Keep(seq, kept) \in Seq(S)
<1> DEFINE N == Len(seq)
           do == [x \in Seq(S) \X (1..N) |-> IF seq[x[2]] \in kept THEN Append(x[1], seq[x[2]]) ELSE x[1]]
           Go(f, n) == IF n = 0 THEN <<>>
                         ELSE IF seq[n] \in kept THEN Append(f[n - 1], seq[n]) ELSE f[n - 1]
           Fold == CHOOSE f : f = [n \in 0..N |-> Go(f, n)]
<1>1. N \in Nat /\ \A n \in 1..N : seq[n] \in S
  OBVIOUS
<1>2. Keep(seq, kept) = Fold[N]
  BY DEF Keep
<1>3. do \in [Seq(S) \X (1..N) -> Seq(S)]
  <2>1. ASSUME NEW x \in Seq(S) \X (1..N)
        PROVE  (IF seq[x[2]] \in kept THEN Append(x[1], seq[x[2]]) ELSE x[1]) \in Seq(S)
    <3>1. x[1] \in Seq(S) /\ x[2] \in 1..N /\ seq[x[2]] \in S
      BY <1>1
    <3> QED
      BY <3>1
  <2> QED
    BY <2>1
<1>4. \A y \in Seq(S), n \in 1..N :
        do[<<y, n>>] = IF seq[n] \in kept THEN Append(y, seq[n]) ELSE y
  OBVIOUS
<1> HIDE DEF N, do
<1>5. PICK f \in [0..N -> Seq(S)] : f[0] = <<>> /\ \A i \in 1..N : f[i] = do[<<f[i - 1], i>>]
  <2> DEFINE A == Seq(S)
             e == <<>>
  <2>1. e \in A
    BY EmptySeq
  <2> HIDE DEF A, e
  <2>2. do \in [A \X (1..N) -> A]
    BY <1>3 DEF A
  <2>3. HasFold(N, A, do, e)
    BY <1>1, <2>1, <2>2, FoldExists
  <2> QED
    BY <2>3 DEF HasFold, A, e
<1>6. ASSUME NEW n \in 0..N PROVE f[n] = Go(f, n)
  <2>1. CASE n = 0
    BY <1>5, <2>1
  <2>2. CASE n # 0
    <3>1. n \in 1..N /\ n - 1 \in 0..N
      BY <1>1, <2>2
    <3>2. f[n - 1] \in Seq(S)
      BY <3>1
    <3> QED
      BY <1>4, <1>5, <2>2, <3>1, <3>2
  <2> QED
    BY <2>1, <2>2
<1>7. f = [n \in 0..N |-> Go(f, n)]
  <2>1. f = [n \in 0..N |-> f[n]]
    OBVIOUS
  <2> HIDE DEF Go
  <2> QED
    BY <1>6, <2>1
<1>8. Fold = [n \in 0..N |-> Go(Fold, n)]
  <2> HIDE DEF Go
  <2> QED
    BY <1>7, Zenon
<1> HIDE DEF Fold
<1> DEFINE T == {n \in 0..N : Fold[n] \in Seq(S)}
<1>9. 0 \in T
  BY <1>1, <1>8, EmptySeq
<1>10. ASSUME NEW n \in 1..N, n - 1 \in T PROVE n \in T
  <2>1. Fold[n - 1] \in Seq(S) /\ n \in 0..N
    <3>1. Fold[n - 1] \in Seq(S)
      BY <1>10, Zenon
    <3> QED
      BY <1>1, <3>1
  <2>2. Fold[n] = Go(Fold, n) /\ n # 0
    <3>1. n # 0
      BY <1>1
    <3> HIDE DEF Go
    <3>2. Fold[n] = Go(Fold, n)
      BY <1>8, <2>1
    <3> QED
      BY <3>1, <3>2
  <2>3. Fold[n] = IF seq[n] \in kept THEN Append(Fold[n - 1], seq[n]) ELSE Fold[n - 1]
    BY <2>2
  <2>4. Fold[n] \in Seq(S)
    BY <1>1, <2>1, <2>3
  <2> QED
    BY <2>1, <2>4
<1>11. N \in T
  <2> HIDE DEF T
  <2>1. \A i \in 0..N : i \in T
    BY <1>1, <1>9, <1>10, PrefixInduction
  <2> QED
    BY <1>1, <2>1
<1> QED
  BY <1>2, <1>11

ItemFields == {"name", "bus", "isVf", "parent", "npu"}
ItemValues == BOOLEAN \cup Names \cup {NoName} \cup Buses
LegacyItems == [ItemFields -> ItemValues]

LEMMA ClassifyType ==
  ASSUME NEW N \in Nat, NEW inventory \in [1..N -> LegacyItems], NEW i \in 1..N, NEW physfn
  PROVE  ClassifyLegacy(inventory, i, physfn) \in [1..N -> LegacyItems]
<1> DEFINE found == {p \in DOMAIN inventory : inventory[p].bus = physfn}
           parent == IF found = {} THEN inventory[i].parent
                     ELSE inventory[CHOOSE p \in found : TRUE].name
           child == IF physfn = Nil THEN inventory[i]
                    ELSE [inventory[i] EXCEPT !.isVf = TRUE, !.parent = parent]
           hosts == {p \in DOMAIN inventory :
                       \/ physfn # Nil /\ p \in found
                       \/ child.isVf /\ child.parent # NoName /\ inventory[p].name = child.parent}
           item(p) == IF p = i THEN child ELSE inventory[p]
           after(p) == IF p \in hosts THEN [item(p) EXCEPT !.npu = FALSE] ELSE item(p)
<1>1. ClassifyLegacy(inventory, i, physfn) = [p \in 1..N |-> after(p)]
  BY DEF ClassifyLegacy
<1>2. parent \in ItemValues
  <2>1. CASE found = {}
    BY <2>1 DEF LegacyItems, ItemFields
  <2>2. CASE found # {}
    <3>1. (CHOOSE p \in found : TRUE) \in 1..N
      BY <2>2
    <3> QED
      BY <2>2, <3>1 DEF LegacyItems, ItemFields
  <2> QED
    BY <2>1, <2>2
<1> HIDE DEF parent, found
<1>3. child \in LegacyItems
  BY <1>2 DEF LegacyItems, ItemValues
<1> HIDE DEF child, hosts
<1>4. ASSUME NEW p \in 1..N PROVE after(p) \in LegacyItems
  <2>1. item(p) \in LegacyItems
    BY <1>3
  <2> QED
    BY <2>1 DEF LegacyItems, ItemValues
<1> HIDE DEF after
<1> QED
  BY <1>1, <1>4

\* The classification keeps the list of devices a list.
LEMMA LegacyInventoryType ==
  ASSUME NEW list \in Seq(LegacyDevice), NEW physfn
  PROVE  legacyInventory(list, physfn) \in Seq(LegacyItems)
<1> DEFINE N == Len(list)
           A == [1..N -> LegacyItems]
           e == [i \in DOMAIN list |-> LegacyItem(list[i])]
           do == [x \in A \X (1..N) |-> ClassifyLegacy(x[1], x[2], physfn[x[2]])]
           Go(f, n) == IF n = 0 THEN e ELSE ClassifyLegacy(f[n - 1], n, physfn[n])
           Fold == CHOOSE f : f = [n \in 0..N |-> Go(f, n)]
<1>1. N \in Nat /\ DOMAIN list = 1..N
  OBVIOUS
<1>2. legacyInventory(list, physfn) = Fold[N]
  BY DEF legacyInventory
<1>3. e \in A
  <2>1. ASSUME NEW i \in 1..N PROVE LegacyItem(list[i]) \in LegacyItems
    <3>1. list[i] \in LegacyDevice
      OBVIOUS
    <3>2. /\ list[i].name \in ItemValues /\ list[i].bus \in ItemValues
          /\ list[i].isVf \in ItemValues /\ list[i].parent \in ItemValues
          /\ (list[i].isVf \/ list[i].numVfs = 0) \in ItemValues
      BY <3>1 DEF LegacyDevice, ItemValues
    <3> QED
      BY <3>2 DEF LegacyItem, LegacyItems, ItemFields
  <2> QED
    BY <1>1, <2>1
<1>4. do \in [A \X (1..N) -> A]
  <2>1. ASSUME NEW x \in A \X (1..N)
        PROVE  ClassifyLegacy(x[1], x[2], physfn[x[2]]) \in A
    <3>1. x[1] \in A /\ x[2] \in 1..N
      OBVIOUS
    <3> HIDE DEF N
    <3> QED
      BY <1>1, <3>1, ClassifyType
  <2> HIDE DEF A
  <2> QED
    BY <2>1
<1> HIDE DEF A
<1>5. \A y \in A, n \in 1..N : do[<<y, n>>] = ClassifyLegacy(y, n, physfn[n])
  OBVIOUS
<1> HIDE DEF N, e, do
<1>6. PICK f \in [0..N -> A] : f[0] = e /\ \A i \in 1..N : f[i] = do[<<f[i - 1], i>>]
  <2>1. HasFold(N, A, do, e)
    BY <1>1, <1>3, <1>4, FoldExists
  <2> QED
    BY <2>1 DEF HasFold
<1>7. ASSUME NEW n \in 0..N PROVE f[n] = Go(f, n)
  <2>1. CASE n = 0
    BY <1>6, <2>1
  <2>2. CASE n # 0
    <3>1. n \in 1..N /\ n - 1 \in 0..N
      BY <1>1, <2>2
    <3>2. f[n - 1] \in A
      BY <3>1
    <3> QED
      BY <1>5, <1>6, <2>2, <3>1, <3>2
  <2> QED
    BY <2>1, <2>2
<1>8. f = [n \in 0..N |-> Go(f, n)]
  <2>1. f = [n \in 0..N |-> f[n]]
    OBVIOUS
  <2> HIDE DEF Go
  <2> QED
    BY <1>7, <2>1
<1>9. Fold = [n \in 0..N |-> Go(Fold, n)]
  <2> HIDE DEF Go
  <2> QED
    BY <1>8, Zenon
<1> HIDE DEF Fold
<1> DEFINE T == {n \in 0..N : Fold[n] \in A}
<1>10. 0 \in T
  BY <1>1, <1>3, <1>9
<1>11. ASSUME NEW n \in 1..N, n - 1 \in T PROVE n \in T
  <2>1. Fold[n - 1] \in A
    BY <1>11, Zenon
  <2>2. n \in 0..N /\ n # 0
    BY <1>1
  <2>3. Fold[n] = Go(Fold, n)
    <3> HIDE DEF Go
    <3> QED
      BY <1>9, <2>2
  <2>4. Fold[n] = ClassifyLegacy(Fold[n - 1], n, physfn[n])
    BY <2>2, <2>3
  <2>5. Fold[n] \in A
    BY <1>1, <2>1, <2>4, ClassifyType DEF A
  <2> QED
    BY <2>2, <2>5
<1>12. Fold[N] \in A
  <2>1. \A i \in 0..N : i \in T
    <3> HIDE DEF T
    <3> QED
      BY <1>1, <1>10, <1>11, PrefixInduction
  <2> QED
    BY <1>1, <2>1
<1> QED
  BY <1>1, <1>2, <1>12 DEF A

-----------------------------------------------------------------------------
\* The names of the first p - 1 devices of an inventory.
Before(inv, p) == {inv[i].name : i \in 1..(p - 1)}

\* No other device of the inventory has the name of device i.
Once(inv, i) == \A j \in DOMAIN inv : inv[j].name = inv[i].name => j = i

Own(merged, n) == {k \in DOMAIN merged : merged[k].name = n}

Outcome(merged, foreign, faults, n) ==
  IF n \in foreign THEN Own(merged, n) = {}
  ELSE \E k : Own(merged, n) = {k} /\ (merged[k].succeeded <=> n \notin faults)

IsList(s) == Len(s) \in Nat /\ DOMAIN s = 1..Len(s)

\* The loop of collectV1 and of collectV0 has finished the devices before p; base are the
\* devices that some reply had reported as failed when the loop began.
Progress(inv, p, merged, foreign, faults, base) ==
  /\ \E S : merged \in Seq(S)
  /\ \A k \in DOMAIN merged : DOMAIN merged[k] = DeviceFields
  /\ \A k \in DOMAIN merged : merged[k].name \in Before(inv, p)
  /\ foreign \subseteq Before(inv, p)
  /\ base \subseteq faults /\ faults \subseteq base \cup Before(inv, p)
  /\ \A i \in 1..(p - 1) : Once(inv, i) => Outcome(merged, foreign, faults, inv[i].name)

LEMMA ProgressStarts ==
  ASSUME NEW inv, NEW base
  PROVE  Progress(inv, 1, <<>>, {}, base, base)
<1>1. <<>> \in Seq({})
  BY EmptySeq
<1> QED
  BY <1>1 DEF Progress, Before

LEMMA BeforeGrows ==
  ASSUME NEW inv, IsList(inv), NEW p \in DOMAIN inv
  PROVE  /\ Before(inv, p + 1) = Before(inv, p) \cup {inv[p].name}
         /\ Once(inv, p) => inv[p].name \notin Before(inv, p)
         /\ \A i \in 1..(p - 1) : i \in DOMAIN inv /\ (Once(inv, i) => inv[i].name # inv[p].name)
<1>1. p \in Int /\ 1..((p + 1) - 1) = (1..(p - 1)) \cup {p}
  BY DEF IsList
<1>2. \A i \in 1..(p - 1) : i \in DOMAIN inv /\ i # p
  BY DEF IsList
<1>3. Before(inv, p + 1) = Before(inv, p) \cup {inv[p].name}
  BY <1>1 DEF Before
<1> QED
  BY <1>2, <1>3 DEF Before, Once

\* A device bound to a foreign driver is left out.
LEMMA ProgressSkips ==
  ASSUME NEW inv, IsList(inv), NEW p \in DOMAIN inv, NEW merged, NEW foreign, NEW faults, NEW base,
         Progress(inv, p, merged, foreign, faults, base)
  PROVE  Progress(inv, p + 1, merged, foreign \cup {inv[p].name}, faults, base)
<1>1. p \in Int /\ 1..((p + 1) - 1) = (1..(p - 1)) \cup {p}
  BY DEF IsList
<1> DEFINE f == foreign \cup {inv[p].name}
<1>2. ASSUME NEW i \in 1..((p + 1) - 1), Once(inv, i) PROVE Outcome(merged, f, faults, inv[i].name)
  <2>1. CASE i = p
    <3>1. inv[p].name \notin Before(inv, p)
      BY <1>2, <2>1, BeforeGrows
    <3>2. Own(merged, inv[p].name) = {}
      BY <3>1 DEF Progress, Own
    <3> QED
      BY <2>1, <3>2 DEF Outcome
  <2>2. CASE i # p
    <3>1. i \in 1..(p - 1)
      BY <1>1, <2>2
    <3>2. inv[i].name # inv[p].name
      BY <1>2, <3>1, BeforeGrows
    <3>3. Outcome(merged, foreign, faults, inv[i].name)
      BY <1>2, <3>1 DEF Progress
    <3> QED
      BY <3>2, <3>3 DEF Outcome
  <2> QED
    BY <2>1, <2>2
<1>3. Before(inv, p + 1) = Before(inv, p) \cup {inv[p].name}
  BY BeforeGrows
<1> QED
  BY <1>2, <1>3 DEF Progress

\* A merged device has failed exactly if it was blamed, at the start or by its own RPCs.
LEMMA ProgressAppends ==
  ASSUME NEW inv, IsList(inv), NEW p \in DOMAIN inv, NEW merged, NEW foreign, NEW faults, NEW base,
         Progress(inv, p, merged, foreign, faults, base),
         NEW d, DOMAIN d = DeviceFields, d.name = inv[p].name,
         NEW blamed, blamed \subseteq {d.name},
         d.succeeded <=> d.name \notin base \cup blamed
  PROVE  Progress(inv, p + 1, Append(merged, d), foreign, faults \cup blamed, base)
<1> DEFINE n == inv[p].name
           m == Append(merged, d)
           x == faults \cup blamed
<1>1. p \in Int /\ 1..((p + 1) - 1) = (1..(p - 1)) \cup {p}
  BY DEF IsList
<1>2. PICK S : merged \in Seq(S)
  BY DEF Progress
<1>3. PICK U : S \subseteq U /\ d \in U
  <2>1. S \subseteq S \cup {d} /\ d \in S \cup {d}
    OBVIOUS
  <2> QED
    BY <2>1
<1>4. merged \in Seq(U)
  BY <1>2, <1>3, SeqMonotonic
<1>5. /\ m \in Seq(U)
      /\ Len(merged) \in Nat /\ DOMAIN merged = 1..Len(merged)
      /\ DOMAIN m = DOMAIN merged \cup {Len(merged) + 1}
      /\ m[Len(merged) + 1] = d
      /\ \A k \in DOMAIN merged : m[k] = merged[k]
  <2>1. m \in Seq(U) /\ Len(m) = Len(merged) + 1
    BY <1>3, <1>4
  <2>2. Len(merged) \in Nat /\ DOMAIN merged = 1..Len(merged)
    BY <1>4
  <2>3. DOMAIN m = 1..(Len(merged) + 1)
    BY <2>1
  <2>4. 1..(Len(merged) + 1) = (1..Len(merged)) \cup {Len(merged) + 1}
    BY <2>2
  <2>5. m[Len(merged) + 1] = d /\ \A k \in 1..Len(merged) : m[k] = merged[k]
    BY <1>3, <1>4, <2>2
  <2> QED
    BY <2>1, <2>2, <2>3, <2>4, <2>5
<1>6. Before(inv, p + 1) = Before(inv, p) \cup {n}
  BY BeforeGrows
<1> HIDE DEF m
<1>7. \A y : y # n => Own(m, y) = Own(merged, y)
  BY <1>5 DEF Own
<1>8. ASSUME NEW i \in 1..((p + 1) - 1), Once(inv, i) PROVE Outcome(m, foreign, x, inv[i].name)
  <2>1. CASE i = p
    <3>1. n \notin Before(inv, p)
      BY <1>8, <2>1, BeforeGrows
    <3>2. Own(m, n) = {Len(merged) + 1}
      <4>1. \A k \in DOMAIN merged : merged[k].name # n
        BY <3>1 DEF Progress
      <4> QED
        BY <1>5, <4>1 DEF Own
    <3>3. n \notin foreign /\ (n \in x <=> n \in base \cup blamed)
      BY <3>1 DEF Progress
    <3>4. m[Len(merged) + 1].succeeded <=> n \notin x
      BY <1>5, <3>3
    <3> QED
      BY <2>1, <3>2, <3>3, <3>4 DEF Outcome
  <2>2. CASE i # p
    <3>1. i \in 1..(p - 1)
      BY <1>1, <2>2
    <3>2. inv[i].name # n
      BY <1>8, <3>1, BeforeGrows
    <3>3. Outcome(merged, foreign, faults, inv[i].name)
      BY <1>8, <3>1 DEF Progress
    <3>4. Own(m, inv[i].name) = Own(merged, inv[i].name)
      BY <1>7, <3>2
    <3>5. inv[i].name \in x <=> inv[i].name \in faults
      BY <3>2
    <3>6. \A k : Own(merged, inv[i].name) = {k} => m[k] = merged[k]
      BY <1>5 DEF Own
    <3> QED
      BY <3>3, <3>4, <3>5, <3>6 DEF Outcome
  <2> QED
    BY <2>1, <2>2
<1>9. /\ \A k \in DOMAIN m : DOMAIN m[k] = DeviceFields
      /\ \A k \in DOMAIN m : m[k].name \in Before(inv, p + 1)
  BY <1>5, <1>6 DEF Progress
<1>10. /\ foreign \subseteq Before(inv, p + 1)
       /\ base \subseteq x /\ x \subseteq base \cup Before(inv, p + 1)
  BY <1>6 DEF Progress
<1> QED
  BY <1>5, <1>8, <1>9, <1>10 DEF Progress, m

-----------------------------------------------------------------------------
\* The devices some reply had reported as failed when the loop began.
Base == IF call.api = "v1" THEN call.missing \cup call.linkFailures ELSE call.linkFailures

\* Nothing is merged yet, and only the topology has reported failures.
Fresh(c) ==
  /\ IsList(c.inventory) /\ (c.api = "v1" => c.inventory \in Seq(DeviceInfo))
  /\ c.pos = 1 /\ c.merged = <<>> /\ c.foreign = {} /\ c.missing = {}
  /\ c.faults = c.linkFailures

Early == {"devices", "topology", "group", "sample"} \cup V0Phases

StartOK == phase \in Early => Fresh(call) /\ (phase \in V0Phases => call.linkFailures = {})

InfosOK == phase \in {"legacyTopology", "merge"} /\ call.api = "v0" =>
             \A n \in DOMAIN call.infos : call.infos[n] \in LegacyDeviceInfo

MergeOK ==
  phase \in {"merge", "supplement"} =>
    /\ IsList(call.inventory) /\ call.pos \in 1..(Len(call.inventory) + 1)
    /\ phase = "supplement" => call.pos = Len(call.inventory) + 1
    /\ Progress(call.inventory, call.pos, call.merged, call.foreign, call.faults, Base)

MemoryOK ==
  phase = "memory" =>
    /\ IsList(call.inventory) /\ call.pos \in DOMAIN call.inventory
    /\ DOMAIN call.current = DeviceFields
    /\ call.current.name = Item.name /\ call.current.state = Item.state
    /\ \E faults, blamed :
         /\ call.faults = faults \cup blamed /\ blamed \subseteq {Item.name}
         /\ Progress(call.inventory, call.pos, call.merged, call.foreign, faults, Base)
         /\ call.current.succeeded <=> Item.name \notin Base \cup blamed

\* Until v0 is asked for them, the states are those of the inventory.
Listed(inv, d) == \E i \in DOMAIN inv : inv[i].name = d.name /\ inv[i].state = d.state
StatesOK ==
  phase \in {"merge", "memory", "supplement"} /\ call.api = "v1" =>
    \A k \in DOMAIN call.merged : Listed(call.inventory, call.merged[k])

\* What is returned: the outcome of each device listed once, and nothing that is not listed.
RecordOK ==
  phase = "record" =>
    /\ \A i \in DOMAIN call.inventory :
         Once(call.inventory, i) =>
           Outcome(call.merged, call.foreign, call.faults, call.inventory[i].name)
    /\ \A k \in DOMAIN call.merged :
         \E i \in DOMAIN call.inventory : call.inventory[i].name = call.merged[k].name
    /\ DOMAIN call.merged \subseteq Nat

DataOK ==
  /\ "stateLookupFailed" \in DOMAIN client
  /\ StartOK /\ InfosOK /\ MergeOK /\ MemoryOK /\ StatesOK
  /\ RecordOK /\ StateSource

LEMMA NewCallIsFresh ==
  ASSUME NEW api, NEW whole
  PROVE  /\ Fresh(NewCall) /\ NewCall.linkFailures = {}
         /\ LET c == [NewCall EXCEPT !.api = api, !.wholeV1 = whole]
            IN Fresh(c) /\ c.linkFailures = {}
         /\ LET c == [NewCall EXCEPT !.wholeV1 = whole] IN Fresh(c) /\ c.linkFailures = {}
<1>1. <<>> \in Seq(DeviceInfo) /\ IsList(<<>>)
  BY DEF IsList
<1> QED
  BY <1>1 DEF Fresh, NewCall

\* The first steps of a collection, up to the loop.
LEMMA FreshData ==
  ASSUME Fresh(call'), phase' \in Early \cup {"merge", "idle"},
         phase' \in V0Phases => call'.linkFailures = {},
         phase' \in {"legacyTopology", "merge"} /\ call'.api = "v0" =>
           \A n \in DOMAIN call'.infos : call'.infos[n] \in LegacyDeviceInfo,
         "stateLookupFailed" \in DOMAIN client'
  PROVE  DataOK'
<1>1. phase' \notin {"supplement", "memory", "record"}
  BY DEF Early, V0Phases
<1>2. StartOK' /\ InfosOK'
  BY DEF StartOK, InfosOK
<1>3. MergeOK'
  <2>1. Base' = call'.faults /\ call'.pos \in 1..(Len(call'.inventory) + 1)
    BY DEF Base, Fresh, IsList
  <2>2. Progress(call'.inventory, call'.pos, call'.merged, call'.foreign, call'.faults, Base')
    BY <2>1, ProgressStarts DEF Fresh
  <2> QED
    BY <1>1, <2>1, <2>2 DEF MergeOK, Fresh
<1>4. MemoryOK' /\ RecordOK' /\ StateSource'
  BY <1>1 DEF MemoryOK, RecordOK, StateSource
<1>5. StatesOK'
  BY DEF StatesOK, Fresh
<1> QED
  BY <1>2, <1>3, <1>4, <1>5 DEF DataOK

LEMMA AbortData ==
  ASSUME DataOK, NEW code, Abort(code), client' = client
  PROVE  DataOK'
<1>1. CASE call.api = "v1" /\ code = "Unimplemented"
  <2>1. phase' = "legacyDevices" /\ call' = [NewCall EXCEPT !.api = "v0", !.wholeV1 = call.wholeV1]
    BY <1>1 DEF Abort
  <2>2. Fresh(call') /\ call'.linkFailures = {}
    BY <2>1, NewCallIsFresh
  <2> QED
    BY <2>1, <2>2, FreshData DEF DataOK, Early, V0Phases
<1>2. CASE ~(call.api = "v1" /\ code = "Unimplemented")
  <2>1. phase' = "idle" /\ call' = NewCall
    BY <1>2 DEF Abort
  <2> QED
    BY <2>1, NewCallIsFresh, FreshData DEF DataOK, Early, V0Phases
<1> QED
  BY <1>1, <1>2

\* A page of a listing.
LEMMA PageData ==
  ASSUME DataOK, ControlOK, phase \in {"devices", "topology"}, client' = client,
         NEW c, NEW next, NEW method, NEW after \in {"topology", "merge", "group"},
         Page(c, next, method, after),
         DOMAIN c = CallFields, c.api = "v1", Fresh(c)
  PROVE  DataOK'
<1>1. CASE Abort("repeated page token")
  BY <1>1, AbortData
<1>2. CASE phase' \in {phase, after} /\ \E s : call' = [c EXCEPT !.seen = s]
  <2>1. PICK s : call' = [c EXCEPT !.seen = s]
    BY <1>2
  <2>2. call'.api = "v1" /\ Fresh(call')
    BY <2>1 DEF Fresh, CallFields
  <2>3. phase' \in Early \cup {"merge", "idle"} /\ phase' \notin V0Phases
        /\ "stateLookupFailed" \in DOMAIN client'
    BY <1>2 DEF Early, V0Phases, DataOK
  <2> QED
    BY <2>2, <2>3, FreshData
<1> QED
  BY <1>1, <1>2 DEF Page

\* Nothing but the history of the daemon changes.
LEMMA SameData ==
  ASSUME DataOK, ControlOK, phase' = phase, client' = client,
         call' = call \/ \E w : call' = [call EXCEPT !.wholeV1 = w]
  PROVE  DataOK'
<1>1. /\ call'.api = call.api /\ call'.inventory = call.inventory /\ call'.pos = call.pos
      /\ call'.merged = call.merged /\ call'.foreign = call.foreign
      /\ call'.missing = call.missing /\ call'.faults = call.faults
      /\ call'.linkFailures = call.linkFailures /\ call'.infos = call.infos
      /\ call'.current = call.current
  BY DEF ControlOK, CallFields
<1>2. StartOK' /\ InfosOK'
  BY <1>1 DEF DataOK, StartOK, InfosOK, Fresh
<1>3. MergeOK' /\ StatesOK'
  BY <1>1 DEF DataOK, MergeOK, StatesOK, Base
<1>4. MemoryOK'
  BY <1>1 DEF DataOK, MemoryOK, Base, Item
<1>5. RecordOK'
  BY <1>1 DEF DataOK, RecordOK
<1>6. StateSource'
  BY <1>1 DEF DataOK, StateSource
<1> QED
  BY <1>2, <1>3, <1>4, <1>5, <1>6 DEF DataOK

\* partitionMetadata leaves name, state, success and readings alone.
LEMMA PartitionKeeps ==
  ASSUME NEW d, DOMAIN d = DeviceFields, NEW n
  PROVE  LET p == partitionMetadata(d, n)
         IN /\ DOMAIN p = DeviceFields /\ p.name = d.name
            /\ p.state = d.state /\ p.succeeded = d.succeeded /\ p.readings = d.readings
<1> DEFINE r == PartitionRole(d)
<1>1. /\ DOMAIN r = DeviceFields /\ r.name = d.name
      /\ r.state = d.state /\ r.succeeded = d.succeeded /\ r.readings = d.readings
  BY DEF PartitionRole, DeviceFields
<1> HIDE DEF r
<1>2. LET p == applyCount(r, n)
      IN /\ DOMAIN p = DeviceFields /\ p.name = d.name
         /\ p.state = d.state /\ p.succeeded = d.succeeded /\ p.readings = d.readings
  BY <1>1 DEF applyCount, DeviceFields
<1>3. partitionMetadata(d, n) = IF PCIDevicesPath /\ n # Nil THEN applyCount(r, n) ELSE r
  BY DEF partitionMetadata, r
<1> QED
  BY <1>1, <1>2, <1>3

\* The current device joins the finished ones, with its name, state and success.
Joins(c, after) ==
  \E d : /\ after = [c EXCEPT !.merged = Append(@, d), !.pos = @ + 1, !.current = Nil]
         /\ DOMAIN d = DeviceFields /\ d.name = c.current.name
         /\ d.state = c.current.state /\ d.succeeded = c.current.succeeded

LEMMA FinishKeeps ==
  ASSUME NEW c, DOMAIN c = CallFields, DOMAIN c.current = DeviceFields, NEW memory, NEW n
  PROVE  Joins(c, FinishV1(c, memory, n))
<1> DEFINE d == c.current
           sized == IF memory # Nil /\ d.compute
                    THEN [d EXCEPT !.readings = Put(@, "memory_total", Scaled(memory.totalBytes, 1))]
                    ELSE d
           cut == partitionMetadata(sized, n)
           linked == [cut EXCEPT !.readings = linkReadings(cut, @, LinkOf(d.name))]
           done == [linked EXCEPT !.readings = ApplySamples(linked, @, c.samples)]
<1>1. FinishV1(c, memory, n) =
        [c EXCEPT !.merged = Append(@, done), !.pos = @ + 1, !.current = Nil]
  BY DEF FinishV1
<1>2. /\ DOMAIN sized = DeviceFields /\ sized.name = d.name
      /\ sized.state = d.state /\ sized.succeeded = d.succeeded
  BY DEF DeviceFields
<1> HIDE DEF sized
<1>3. /\ DOMAIN cut = DeviceFields /\ cut.name = d.name
      /\ cut.state = d.state /\ cut.succeeded = d.succeeded
  BY <1>2, PartitionKeeps
<1> HIDE DEF cut
<1>4. /\ DOMAIN linked = DeviceFields /\ linked.name = d.name
      /\ linked.state = d.state /\ linked.succeeded = d.succeeded
  BY <1>3 DEF DeviceFields
<1> HIDE DEF linked
<1>5. /\ DOMAIN done = DeviceFields /\ done.name = d.name
      /\ done.state = d.state /\ done.succeeded = d.succeeded
  BY <1>4 DEF DeviceFields
<1> HIDE DEF done
<1> QED
  BY <1>1, <1>5 DEF Joins

\* A device appended to the finished ones, from the inventory with its state.
LEMMA ListedAppends ==
  ASSUME NEW inv, NEW S, NEW merged \in Seq(S), \A k \in DOMAIN merged : Listed(inv, merged[k]),
         NEW d, Listed(inv, d)
  PROVE  \A k \in DOMAIN Append(merged, d) : Listed(inv, Append(merged, d)[k])
<1> DEFINE m == Append(merged, d)
           U == S \cup {d}
<1>1. merged \in Seq(U) /\ d \in U
  BY SeqMonotonic
<1> HIDE DEF U
<1>2. Len(merged) \in Nat /\ DOMAIN merged = 1..Len(merged) /\ DOMAIN m = 1..(Len(merged) + 1)
  BY <1>1
<1>3. ASSUME NEW k \in DOMAIN m PROVE Listed(inv, m[k])
  <2>1. CASE k = Len(merged) + 1
    BY <1>1, <1>2, <2>1
  <2>2. CASE k # Len(merged) + 1
    <3>1. k \in DOMAIN merged /\ m[k] = merged[k]
      BY <1>1, <1>2, <2>2
    <3> QED
      BY <3>1
  <2> QED
    BY <2>1, <2>2
<1> QED
  BY <1>3

\* A foreign device is left out, whichever the API.
LEMMA SkipData ==
  ASSUME DataOK, ControlOK, phase = "merge", call.pos <= Len(call.inventory), Skip, client' = client
  PROVE  DataOK'
<1>1. /\ IsList(call.inventory) /\ call.pos \in 1..(Len(call.inventory) + 1)
      /\ Progress(call.inventory, call.pos, call.merged, call.foreign, call.faults, Base)
  BY DEF DataOK, MergeOK
<1>2. call.pos \in DOMAIN call.inventory /\ call.pos + 1 \in 1..(Len(call.inventory) + 1)
  BY <1>1 DEF IsList
<1>3. call' = [call EXCEPT !.pos = @ + 1, !.foreign = @ \cup {Item.name}] /\ phase' = "merge"
  BY DEF Skip
<1>4. /\ call'.api = call.api /\ call'.inventory = call.inventory /\ call'.pos = call.pos + 1
      /\ call'.merged = call.merged
      /\ call'.foreign = call.foreign \cup {call.inventory[call.pos].name}
      /\ call'.missing = call.missing /\ call'.faults = call.faults
      /\ call'.linkFailures = call.linkFailures /\ call'.infos = call.infos
  BY <1>3 DEF ControlOK, CallFields, Item
<1>5. Base' = Base
  BY <1>4 DEF Base
<1>6. MergeOK'
  <2>1. Progress(call.inventory, call.pos + 1, call.merged,
                 call.foreign \cup {call.inventory[call.pos].name}, call.faults, Base)
    BY <1>1, <1>2, ProgressSkips
  <2> QED
    BY <1>1, <1>2, <1>3, <1>4, <1>5, <2>1 DEF MergeOK
<1>7. StatesOK' /\ InfosOK'
  BY <1>3, <1>4 DEF DataOK, StatesOK, InfosOK
<1>8. StartOK' /\ MemoryOK' /\ RecordOK' /\ StateSource'
  BY <1>3 DEF StartOK, MemoryOK, RecordOK, StateSource, Early, V0Phases
<1> QED
  BY <1>6, <1>7, <1>8 DEF DataOK

\* The version of a device is known, or its RPC blamed it.
LEMMA VersionData ==
  ASSUME DataOK, ControlOK, phase = "merge", call.pos <= Len(call.inventory), call.api = "v1",
         phase' = "memory", client' = client,
         call' = [call EXCEPT !.current = Merged] \/ call' = Failing(call, Merged)
  PROVE  DataOK'
<1>1. /\ IsList(call.inventory) /\ call.pos \in 1..(Len(call.inventory) + 1)
      /\ Progress(call.inventory, call.pos, call.merged, call.foreign, call.faults, Base)
  BY DEF DataOK, MergeOK
<1>2. call.pos \in DOMAIN call.inventory
  BY <1>1 DEF IsList
<1>3. /\ DOMAIN Merged = DeviceFields /\ Merged.name = Item.name /\ Merged.state = Item.state
      /\ Merged.succeeded = (Item.name \notin call.missing \cup call.linkFailures)
  BY DEF Merged, DeviceFields
<1>4. PICK d, blamed :
        /\ call' = [call EXCEPT !.current = d, !.faults = @ \cup blamed]
        /\ DOMAIN d = DeviceFields /\ d.name = Item.name /\ d.state = Item.state
        /\ blamed \subseteq {Item.name}
        /\ d.succeeded <=> Item.name \notin Base \cup blamed
  <2>1. CASE call' = [call EXCEPT !.current = Merged]
    <3>1. call' = [call EXCEPT !.current = Merged, !.faults = @ \cup {}]
      BY <2>1 DEF ControlOK, CallFields
    <3>2. Merged.succeeded <=> Item.name \notin Base \cup {}
      BY <1>3 DEF Base
    <3> QED
      BY <1>3, <3>1, <3>2
  <2>2. CASE call' = Failing(call, Merged)
    <3> DEFINE d == [Merged EXCEPT !.succeeded = FALSE]
    <3>1. call' = [call EXCEPT !.current = d, !.faults = @ \cup {Item.name}]
      BY <1>3, <2>2 DEF Failing
    <3>2. DOMAIN d = DeviceFields /\ d.name = Item.name /\ d.state = Item.state /\ ~d.succeeded
      BY <1>3 DEF DeviceFields
    <3> HIDE DEF d
    <3> QED
      BY <3>1, <3>2
  <2> QED
    BY <2>1, <2>2
<1>5. /\ call'.api = call.api /\ call'.inventory = call.inventory /\ call'.pos = call.pos
      /\ call'.merged = call.merged /\ call'.foreign = call.foreign /\ call'.current = d
      /\ call'.missing = call.missing /\ call'.faults = call.faults \cup blamed
      /\ call'.linkFailures = call.linkFailures
  BY <1>4 DEF ControlOK, CallFields
<1>6. Base' = Base /\ Item' = Item
  BY <1>5 DEF Base, Item
<1>7. MemoryOK'
  <2>1. \E faults, b :
          /\ call'.faults = faults \cup b /\ b \subseteq {Item'.name}
          /\ Progress(call'.inventory, call'.pos, call'.merged, call'.foreign, faults, Base')
          /\ call'.current.succeeded <=> Item'.name \notin Base' \cup b
    BY <1>1, <1>4, <1>5, <1>6
  <2>2. /\ IsList(call'.inventory) /\ call'.pos \in DOMAIN call'.inventory
        /\ DOMAIN call'.current = DeviceFields
        /\ call'.current.name = Item'.name /\ call'.current.state = Item'.state
    BY <1>1, <1>2, <1>4, <1>5, <1>6
  <2> QED
    BY <2>1, <2>2 DEF MemoryOK
<1>8. StatesOK'
  BY <1>5 DEF DataOK, StatesOK
<1>9. StartOK' /\ MergeOK' /\ InfosOK' /\ RecordOK' /\ StateSource'
  BY DEF StartOK, MergeOK, InfosOK, RecordOK, StateSource, Early, V0Phases
<1> QED
  BY <1>7, <1>8, <1>9 DEF DataOK

\* A finished device joins the others.
LEMMA FinishData ==
  ASSUME DataOK, ControlOK, phase = "memory", phase' = "merge", client' = client, call.api = "v1",
         NEW c \in {call, Failing(call, call.current)}, NEW memory, NEW n,
         call' = FinishV1(c, memory, n)
  PROVE  DataOK'
<1>1. /\ IsList(call.inventory) /\ call.pos \in DOMAIN call.inventory
      /\ DOMAIN call.current = DeviceFields
      /\ call.current.name = Item.name /\ call.current.state = Item.state
  BY DEF DataOK, MemoryOK
<1>2. PICK faults, blamed :
        /\ call.faults = faults \cup blamed /\ blamed \subseteq {Item.name}
        /\ Progress(call.inventory, call.pos, call.merged, call.foreign, faults, Base)
        /\ call.current.succeeded <=> Item.name \notin Base \cup blamed
  BY DEF DataOK, MemoryOK
<1>3. PICK more :
        /\ DOMAIN c = CallFields /\ c.api = call.api /\ c.inventory = call.inventory
        /\ c.pos = call.pos /\ c.merged = call.merged /\ c.foreign = call.foreign
        /\ c.missing = call.missing /\ c.linkFailures = call.linkFailures
        /\ DOMAIN c.current = DeviceFields /\ c.current.name = Item.name
        /\ c.current.state = Item.state
        /\ c.faults = faults \cup more /\ more \subseteq {Item.name}
        /\ c.current.succeeded <=> Item.name \notin Base \cup more
  <2>1. CASE c = call
    BY <1>1, <1>2, <2>1 DEF ControlOK
  <2>2. CASE c = Failing(call, call.current)
    <3> DEFINE d == [call.current EXCEPT !.succeeded = FALSE]
    <3>1. DOMAIN d = DeviceFields /\ d.name = Item.name /\ d.state = Item.state /\ ~d.succeeded
      BY <1>1 DEF DeviceFields
    <3>2. c = [call EXCEPT !.current = d, !.faults = @ \cup {Item.name}]
      BY <1>1, <2>2 DEF Failing
    <3> HIDE DEF d
    <3>3. /\ DOMAIN c = CallFields /\ c.api = call.api /\ c.inventory = call.inventory
          /\ c.pos = call.pos /\ c.merged = call.merged /\ c.foreign = call.foreign
          /\ c.missing = call.missing /\ c.linkFailures = call.linkFailures
          /\ c.current = d /\ c.faults = call.faults \cup {Item.name}
      BY <3>2 DEF ControlOK, CallFields
    <3>4. c.faults = faults \cup {Item.name}
      BY <1>2, <3>3
    <3> QED
      BY <3>1, <3>3, <3>4
  <2> QED
    BY <2>1, <2>2
<1>4. PICK d : /\ call' = [c EXCEPT !.merged = Append(@, d), !.pos = @ + 1, !.current = Nil]
               /\ DOMAIN d = DeviceFields /\ d.name = Item.name /\ d.state = Item.state
               /\ d.succeeded = c.current.succeeded
  <2>1. DOMAIN c = CallFields /\ DOMAIN c.current = DeviceFields
    BY <1>3
  <2>2. Joins(c, call')
    BY <2>1, FinishKeeps
  <2> QED
    BY <1>3, <2>2 DEF Joins
<1>5. /\ call'.api = call.api /\ call'.inventory = call.inventory /\ call'.pos = call.pos + 1
      /\ call'.merged = Append(call.merged, d) /\ call'.foreign = call.foreign
      /\ call'.missing = call.missing /\ call'.faults = faults \cup more
      /\ call'.linkFailures = call.linkFailures
  BY <1>3, <1>4 DEF CallFields
<1>6. Base' = Base
  BY <1>5 DEF Base
<1>7. MergeOK'
  <2>1. d.succeeded <=> d.name \notin Base \cup more
    BY <1>3, <1>4
  <2>2. Progress(call.inventory, call.pos + 1, Append(call.merged, d), call.foreign,
                 faults \cup more, Base)
    BY <1>1, <1>2, <1>3, <1>4, <2>1, ProgressAppends DEF Item
  <2>3. call.pos + 1 \in 1..(Len(call.inventory) + 1)
    BY <1>1 DEF IsList
  <2> QED
    BY <1>1, <1>5, <1>6, <2>2, <2>3 DEF MergeOK
<1>8. StatesOK'
  <2>1. PICK S : call.merged \in Seq(S)
    BY <1>2 DEF Progress
  <2>2. Listed(call.inventory, d)
    BY <1>1, <1>4 DEF Listed, Item
  <2>3. \A k \in DOMAIN call.merged : Listed(call.inventory, call.merged[k])
    BY DEF DataOK, StatesOK
  <2>4. \A k \in DOMAIN Append(call.merged, d) : Listed(call.inventory, Append(call.merged, d)[k])
    BY <2>1, <2>2, <2>3, ListedAppends
  <2> QED
    BY <1>5, <2>4 DEF StatesOK
<1>9. StartOK' /\ MemoryOK' /\ InfosOK' /\ RecordOK' /\ StateSource'
  BY <1>5 DEF StartOK, MemoryOK, InfosOK, RecordOK, StateSource, Early, V0Phases
<1> QED
  BY <1>7, <1>8, <1>9 DEF DataOK

LEMMA AllFinished ==
  ASSUME NEW inv, IsList(inv), NEW m, NEW f, NEW x, NEW b,
         Progress(inv, Len(inv) + 1, m, f, x, b)
  PROVE  /\ \A i \in DOMAIN inv : Once(inv, i) => Outcome(m, f, x, inv[i].name)
         /\ \A k \in DOMAIN m : \E i \in DOMAIN inv : inv[i].name = m[k].name
         /\ DOMAIN m \subseteq Nat
<1>1. 1..((Len(inv) + 1) - 1) = DOMAIN inv
  BY DEF IsList
<1>2. DOMAIN m \subseteq Nat
  BY LenProperties DEF Progress
<1> QED
  BY <1>1, <1>2 DEF Progress, Before

LEMMA MergeEndsData ==
  ASSUME DataOK, ControlOK, MergeEnds PROVE DataOK'
<1>1. phase = "merge" /\ call' = call /\ client' = client
  BY DEF MergeEnds
<1>2. /\ IsList(call.inventory)
      /\ Progress(call.inventory, call.pos, call.merged, call.foreign, call.faults, Base)
      /\ call.pos = Len(call.inventory) + 1
  BY <1>1 DEF DataOK, MergeOK, IsList, MergeEnds
<1>3. CASE call.api = "v1"
  <2>1. phase' = "supplement"
    BY <1>3 DEF MergeEnds
  <2>2. MergeOK'
    BY <1>1, <1>2, <2>1 DEF MergeOK, Base, DataOK
  <2>3. StatesOK'
    BY <1>1, <2>1 DEF StatesOK, DataOK
  <2>4. StartOK' /\ MemoryOK' /\ InfosOK' /\ RecordOK' /\ StateSource'
    BY <2>1 DEF StartOK, MemoryOK, InfosOK, RecordOK, StateSource, Early, V0Phases
  <2> QED
    BY <1>1, <2>2, <2>3, <2>4 DEF DataOK
<1>4. CASE call.api # "v1"
  <2>1. phase' = "record"
    BY <1>4 DEF MergeEnds
  <2>2. RecordOK'
    BY <1>1, <1>2, AllFinished DEF RecordOK
  <2>3. StartOK' /\ MemoryOK' /\ InfosOK' /\ MergeOK' /\ StatesOK' /\ StateSource'
    BY <1>1, <1>4, <2>1
       DEF StartOK, MemoryOK, InfosOK, MergeOK, StatesOK, StateSource, Early, V0Phases
  <2> QED
    BY <1>1, <2>2, <2>3 DEF DataOK
<1> QED
  BY <1>3, <1>4

\* supplementLegacyStates keeps the outcomes: a device without a state fails and is blamed.
LEMMA SupplementedOutcome ==
  ASSUME NEW infos, NEW n,
         \A k \in DOMAIN call.merged : DOMAIN call.merged[k] = DeviceFields,
         Outcome(call.merged, call.foreign, call.faults, n)
  PROVE  Outcome(Supplemented(infos), call.foreign,
                 call.faults \cup (Unspecified \ DOMAIN infos), n)
<1> DEFINE m == call.merged
           s == Supplemented(infos)
           x == call.faults \cup (Unspecified \ DOMAIN infos)
<1>1. DOMAIN s = DOMAIN m
  BY DEF Supplemented
<1>2. ASSUME NEW k \in DOMAIN m
      PROVE  /\ s[k].name = m[k].name
             /\ m[k].state # "unspecified" \/ m[k].name \in DOMAIN infos
                  => s[k].succeeded = m[k].succeeded
             /\ m[k].state = "unspecified" /\ m[k].name \notin DOMAIN infos => ~s[k].succeeded
  BY DEF Supplemented, DeviceFields
<1>3. Unspecified = {m[k].name : k \in {j \in DOMAIN m : m[j].state = "unspecified"}}
  BY DEF Unspecified
<1> HIDE DEF s, m
<1>4. Own(s, n) = Own(m, n)
  BY <1>1, <1>2 DEF Own
<1>5. CASE n \in call.foreign
  BY <1>4, <1>5 DEF Outcome, s, m
<1>6. CASE n \notin call.foreign
  <2>1. PICK k : Own(m, n) = {k} /\ (m[k].succeeded <=> n \notin call.faults)
    BY <1>6 DEF Outcome, m
  <2>2. k \in DOMAIN m /\ m[k].name = n /\ \A j \in DOMAIN m : m[j].name = n => j = k
    BY <2>1 DEF Own
  <2>3. n \in Unspecified <=> m[k].state = "unspecified"
    BY <1>3, <2>2
  <2>4. s[k].succeeded <=> n \notin x
    BY <1>2, <2>1, <2>2, <2>3
  <2> QED
    BY <1>4, <1>6, <2>1, <2>4 DEF Outcome, s
<1> QED
  BY <1>5, <1>6

LEMMA SupplementData ==
  ASSUME DataOK, ControlOK, SupplementLegacyStates PROVE DataOK'
<1>1. phase = "supplement" /\ phase' = "record" /\ call.api = "v1"
  BY DEF SupplementLegacyStates, ControlOK, V1Phases
<1>2. /\ IsList(call.inventory)
      /\ Progress(call.inventory, Len(call.inventory) + 1, call.merged, call.foreign, call.faults, Base)
  BY <1>1 DEF DataOK, MergeOK
<1>3. /\ \A i \in DOMAIN call.inventory :
           Once(call.inventory, i) =>
             Outcome(call.merged, call.foreign, call.faults, call.inventory[i].name)
      /\ \A k \in DOMAIN call.merged :
           \E i \in DOMAIN call.inventory : call.inventory[i].name = call.merged[k].name
      /\ DOMAIN call.merged \subseteq Nat
  BY <1>2, AllFinished
<1>4. \A k \in DOMAIN call.merged : /\ DOMAIN call.merged[k] = DeviceFields
                                    /\ Listed(call.inventory, call.merged[k])
  BY <1>1, <1>2 DEF Progress, DataOK, StatesOK
<1>5. StartOK' /\ MemoryOK' /\ InfosOK' /\ MergeOK' /\ StatesOK'
  BY <1>1 DEF StartOK, MemoryOK, InfosOK, MergeOK, StatesOK, Early, V0Phases
<1>6. CASE call' = call /\ client' = [client EXCEPT !.stateLookupFailed = FALSE]
  <2>1. RecordOK'
    BY <1>3, <1>6 DEF RecordOK
  <2>2. "stateLookupFailed" \in DOMAIN client' /\ ~client'.stateLookupFailed
    BY <1>6 DEF DataOK
  <2>3. StateSource'
    BY <1>4, <1>6, <2>2 DEF StateSource, Listed
  <2> QED
    BY <1>5, <2>1, <2>2, <2>3 DEF DataOK
<1>7. ASSUME NEW infos, NEW failed \in BOOLEAN, failed => DOMAIN infos = {},
             call' = [call EXCEPT !.merged = Supplemented(infos), !.infos = infos,
                                  !.faults = @ \cup (Unspecified \ DOMAIN infos)],
             client' = [client EXCEPT !.stateLookupFailed = failed]
      PROVE  DataOK'
  <2>1. /\ call'.api = call.api /\ call'.inventory = call.inventory /\ call'.foreign = call.foreign
        /\ call'.merged = Supplemented(infos) /\ call'.infos = infos
        /\ call'.faults = call.faults \cup (Unspecified \ DOMAIN infos)
    BY <1>7 DEF ControlOK, CallFields
  <2>2. RecordOK'
    <3>1. ASSUME NEW i \in DOMAIN call.inventory, Once(call.inventory, i)
          PROVE  Outcome(Supplemented(infos), call.foreign,
                         call.faults \cup (Unspecified \ DOMAIN infos), call.inventory[i].name)
      BY <1>3, <1>4, <3>1, SupplementedOutcome
    <3>2. /\ DOMAIN Supplemented(infos) = DOMAIN call.merged
          /\ \A k \in DOMAIN call.merged : Supplemented(infos)[k].name = call.merged[k].name
      BY <1>4 DEF Supplemented, DeviceFields
    <3> QED
      BY <1>3, <2>1, <3>1, <3>2 DEF RecordOK
  <2>3. "stateLookupFailed" \in DOMAIN client' /\ client'.stateLookupFailed = failed
    BY <1>7 DEF DataOK
  <2>4. ASSUME NEW k \in DOMAIN call.merged
        PROVE  LET old == call.merged[k]
                   d == Supplemented(infos)[k]
               IN /\ d.name = old.name
                  /\ old.state # "unspecified" => d.state = old.state
                  /\ old.state = "unspecified" /\ old.name \in DOMAIN infos =>
                       d.state = legacyState(infos[old.name].devStatus)
                  /\ old.state = "unspecified" /\ old.name \notin DOMAIN infos =>
                       d.state = "unspecified" /\ ~d.succeeded
    BY <1>4 DEF Supplemented, DeviceFields
  <2>5. DOMAIN Supplemented(infos) = DOMAIN call.merged
    BY DEF Supplemented
  <2>6. StateSource'
    <3> DEFINE m == Supplemented(infos)
    <3> HIDE DEF m
    <3>1. ASSUME NEW k \in DOMAIN m
          PROVE  /\ \E i \in DOMAIN call.inventory :
                      /\ call.inventory[i].name = m[k].name
                      /\ IF call.inventory[i].state = "unspecified"
                         THEN \/ m[k].state = "unspecified"
                              \/ /\ m[k].name \in DOMAIN infos
                                 /\ m[k].state = legacyState(infos[m[k].name].devStatus)
                         ELSE m[k].state = call.inventory[i].state
                 /\ failed /\ m[k].state = "unspecified" => ~m[k].succeeded
      <4>1. k \in DOMAIN call.merged
        BY <2>5 DEF m
      <4>2. PICK i \in DOMAIN call.inventory : /\ call.inventory[i].name = call.merged[k].name
                                               /\ call.inventory[i].state = call.merged[k].state
        BY <1>4, <4>1 DEF Listed
      <4>3. /\ m[k].name = call.merged[k].name
            /\ call.merged[k].state # "unspecified" => m[k].state = call.merged[k].state
            /\ call.merged[k].state = "unspecified" /\ call.merged[k].name \in DOMAIN infos =>
                 m[k].state = legacyState(infos[call.merged[k].name].devStatus)
            /\ call.merged[k].state = "unspecified" /\ call.merged[k].name \notin DOMAIN infos =>
                 m[k].state = "unspecified" /\ ~m[k].succeeded
        BY <2>4, <4>1 DEF m
      <4> QED
        BY <1>7, <4>2, <4>3
    <3> QED
      BY <2>1, <2>3, <3>1 DEF StateSource, m
  <2> QED
    BY <1>5, <2>2, <2>3, <2>6 DEF DataOK
<1> DEFINE With(infos, failed) ==
             /\ call' = [call EXCEPT !.merged = Supplemented(infos), !.infos = infos,
                                     !.faults = @ \cup (Unspecified \ DOMAIN infos)]
             /\ client' = [client EXCEPT !.stateLookupFailed = failed]
<1>8. \/ call' = call /\ client' = [client EXCEPT !.stateLookupFailed = FALSE]
      \/ With(NoLinks, TRUE)
      \/ \E stream \in LegacyInfos : With(InfosOf(stream), FALSE)
  BY DEF SupplementLegacyStates
<1>9. DOMAIN NoLinks = {}
  BY DEF NoLinks
<1>10. CASE With(NoLinks, TRUE)
  BY <1>7, <1>9, <1>10
<1>11. CASE \E stream \in LegacyInfos : With(InfosOf(stream), FALSE)
  BY <1>7, <1>11
<1> QED
  BY <1>6, <1>8, <1>10, <1>11

\* A record of a complete stream is a record.
LEMMA InfosAreRecords ==
  ASSUME NEW stream \in LegacyInfos
  PROVE  \A n \in DOMAIN InfosOf(stream) : InfosOf(stream)[n] \in LegacyDeviceInfo
<1>1. stream \in Seq(LegacyDeviceInfo)
  BY RepliesAssumption
<1>2. Len(stream) \in Nat /\ DOMAIN stream = 1..Len(stream)
      /\ \A i \in DOMAIN stream : stream[i] \in LegacyDeviceInfo
  BY <1>1
<1> SUFFICES ASSUME NEW n \in DOMAIN InfosOf(stream) PROVE InfosOf(stream)[n] \in LegacyDeviceInfo
  OBVIOUS
<1> DEFINE named == {i \in DOMAIN stream : stream[i].name # NoName}
           own == {i \in named : stream[i].name = n}
           last == CHOOSE i \in own : \A j \in own : j <= i
<1>3. InfosOf(stream)[n] = stream[last] /\ n \in {stream[i].name : i \in named}
  BY DEF InfosOf
<1>4. own \subseteq 1..Len(stream) /\ own # {}
  BY <1>2, <1>3
<1> HIDE DEF own
<1>5. \E i \in own : \A j \in own : j <= i
  BY <1>2, <1>4, GreatestIndex
<1>6. last \in own
  BY <1>5
<1> HIDE DEF last
<1>7. stream[last] \in LegacyDeviceInfo
  BY <1>2, <1>4, <1>6
<1> QED
  BY <1>3, <1>7

\* A v0 device succeeds if its link is known and its record reports no failure.
LEMMA LegacyDeviceOutcome ==
  ASSUME NEW n, \A y \in DOMAIN call.infos : call.infos[y] # Nil
  PROVE  LET d == LegacyDeviceInfoOf(n)
             reported == \/ Item.name \notin DOMAIN call.infos
                         \/ call.infos[Item.name].errStatus # "SUCCEED"
         IN /\ DOMAIN d = DeviceFields /\ d.name = Item.name
            /\ d.succeeded <=> Item.name \notin call.linkFailures /\ ~reported
<1> DEFINE counted == [name |-> Item.name, bus |-> Item.bus, isVF |-> Item.isVf,
                       parent |-> Item.parent, compute |-> Item.npu,
                       numVFs |-> LegacyCount(Item, call.counts[call.pos]), mode |-> "",
                       state |-> "unspecified", succeeded |-> Item.name \notin call.linkFailures,
                       readings |-> NoReadings]
           cut == partitionMetadata(counted, n)
           linked == [cut EXCEPT !.readings = linkReadings(cut, @, LinkOf(Item.name))]
           info == IF Item.name \in DOMAIN call.infos THEN call.infos[Item.name] ELSE Nil
           own == IF info = Nil THEN NoReadings
                  ELSE IF info.errStatus = "SUCCEED" THEN legacyReadings(linked, info.scalars)
                  ELSE NoReadings
           good == IF info = Nil THEN FALSE ELSE info.errStatus = "SUCCEED"
           state(old) == IF info = Nil THEN old ELSE legacyState(info.devStatus)
           readings(old) == [r \in DOMAIN old \cup DOMAIN own |->
                               IF r \in DOMAIN own THEN own[r] ELSE old[r]]
<1>1. LegacyDeviceInfoOf(n) =
        [linked EXCEPT !.state = state(@), !.succeeded = @ /\ good, !.readings = readings(@)]
  BY DEF LegacyDeviceInfoOf
<1>2. /\ DOMAIN counted = DeviceFields /\ counted.name = Item.name
      /\ counted.succeeded = (Item.name \notin call.linkFailures)
  BY DEF DeviceFields
<1> HIDE DEF counted
<1>3. /\ DOMAIN cut = DeviceFields /\ cut.name = Item.name
      /\ cut.succeeded = (Item.name \notin call.linkFailures)
  BY <1>2, PartitionKeeps
<1> HIDE DEF cut
<1>4. /\ DOMAIN linked = DeviceFields /\ linked.name = Item.name
      /\ linked.succeeded = (Item.name \notin call.linkFailures)
  BY <1>3 DEF DeviceFields
<1>5. good <=> /\ Item.name \in DOMAIN call.infos
               /\ call.infos[Item.name].errStatus = "SUCCEED"
  OBVIOUS
<1> HIDE DEF linked, info, own, good, state, readings
<1>6. /\ DOMAIN LegacyDeviceInfoOf(n) = DeviceFields
      /\ LegacyDeviceInfoOf(n).name = Item.name
      /\ LegacyDeviceInfoOf(n).succeeded = (linked.succeeded /\ good)
  BY <1>1, <1>4 DEF DeviceFields
<1> QED
  BY <1>4, <1>5, <1>6

LEMMA MergeLegacyData ==
  ASSUME DataOK, ControlOK, MergeLegacy PROVE DataOK'
<1>1. /\ phase = "merge" /\ call.api = "v0" /\ call.pos <= Len(call.inventory) /\ client' = client
  BY DEF MergeLegacy
<1>2. /\ IsList(call.inventory) /\ call.pos \in 1..(Len(call.inventory) + 1)
      /\ Progress(call.inventory, call.pos, call.merged, call.foreign, call.faults, Base)
      /\ \A y \in DOMAIN call.infos : call.infos[y] # Nil
  BY <1>1, NilAssumption DEF DataOK, MergeOK, InfosOK
<1>3. call.pos \in DOMAIN call.inventory /\ call.pos + 1 \in 1..(Len(call.inventory) + 1)
  BY <1>1, <1>2 DEF IsList
<1>4. CASE Skip
  BY <1>1, <1>4, SkipData
<1>5. CASE \E code : Abort(code)
  BY <1>1, <1>5, AbortData
<1>6. ASSUME NEW n \in SysfsCounts, NEW failed \in BOOLEAN, NEW reported \in BOOLEAN, NEW lost,
             reported <=> \/ Item.name \notin DOMAIN call.infos
                          \/ call.infos[Item.name].errStatus # "SUCCEED",
             LET d == LegacyDeviceInfoOf(n)
             IN call' = [call EXCEPT !.merged = Append(@, [d EXCEPT !.succeeded = @ /\ ~failed]),
                                     !.missing = @ \cup lost, !.pos = @ + 1,
                                     !.faults = @ \cup IF failed \/ reported THEN {d.name} ELSE {}],
             phase' = "merge"
      PROVE  DataOK'
  <2> DEFINE e == LegacyDeviceInfoOf(n)
             d == [e EXCEPT !.succeeded = @ /\ ~failed]
             blamed == IF failed \/ reported THEN {e.name} ELSE {}
  <2>1. /\ DOMAIN e = DeviceFields /\ e.name = Item.name
        /\ e.succeeded <=> Item.name \notin call.linkFailures /\ ~reported
    BY <1>2, <1>6, LegacyDeviceOutcome
  <2>2. call' = [call EXCEPT !.merged = Append(@, d), !.missing = @ \cup lost, !.pos = @ + 1,
                             !.faults = @ \cup blamed]
    BY <1>6
  <2> HIDE DEF e
  <2>3. DOMAIN d = DeviceFields /\ d.name = Item.name /\ d.succeeded = (e.succeeded /\ ~failed)
    BY <2>1 DEF DeviceFields
  <2> HIDE DEF d
  <2>4. blamed \subseteq {d.name} /\ (d.succeeded <=> d.name \notin Base \cup blamed)
    BY <1>1, <2>1, <2>3 DEF Base
  <2> HIDE DEF blamed
  <2>5. /\ call'.api = call.api /\ call'.inventory = call.inventory /\ call'.pos = call.pos + 1
        /\ call'.merged = Append(call.merged, d) /\ call'.foreign = call.foreign
        /\ call'.faults = call.faults \cup blamed
        /\ call'.linkFailures = call.linkFailures /\ call'.infos = call.infos
    BY <2>2 DEF ControlOK, CallFields
  <2>6. Base' = Base
    BY <1>1, <2>5 DEF Base
  <2>7. Progress(call.inventory, call.pos + 1, Append(call.merged, d), call.foreign,
                 call.faults \cup blamed, Base)
    BY <1>2, <1>3, <2>3, <2>4, ProgressAppends DEF Item
  <2>8. MergeOK' /\ InfosOK'
    <3>1. InfosOK'
      BY <1>1, <2>5 DEF DataOK, InfosOK
    <3> QED
      BY <1>2, <1>3, <1>6, <2>5, <2>6, <2>7, <3>1 DEF MergeOK
  <2>9. StartOK' /\ MemoryOK' /\ StatesOK' /\ RecordOK' /\ StateSource'
    BY <1>1, <1>6, <2>5
       DEF StartOK, MemoryOK, StatesOK, RecordOK, StateSource, Early, V0Phases
  <2> QED
    BY <1>1, <2>8, <2>9 DEF DataOK
<1>7. CASE ~Skip /\ ~\E code : Abort(code)
  <2>1. PICK n \in SysfsCounts, code \in Codes("v0", "GetVersion"),
             reply \in LegacyVersionInfo :
          LET d == LegacyDeviceInfoOf(n)
              lost == {d.name} \ DOMAIN call.infos
              failed == \/ deviceUnavailable(code)
                        \/ code = "OK" /\ reply.errStatus # "SUCCEED"
              reported == IF lost # {} THEN TRUE
                          ELSE call.infos[d.name].errStatus # "SUCCEED"
          IN /\ call' = [call EXCEPT !.merged = Append(@, [d EXCEPT !.succeeded = d.succeeded /\ ~failed]),
                                     !.missing = @ \cup lost, !.pos = @ + 1,
                                     !.faults = @ \cup IF failed \/ reported THEN {d.name} ELSE {}]
             /\ phase' = "merge"
    BY <1>7 DEF MergeLegacy
  <2> DEFINE d == LegacyDeviceInfoOf(n)
             lost == {d.name} \ DOMAIN call.infos
             failed == \/ deviceUnavailable(code)
                       \/ code = "OK" /\ reply.errStatus # "SUCCEED"
             reported == IF lost # {} THEN TRUE
                         ELSE call.infos[d.name].errStatus # "SUCCEED"
  <2>2. DOMAIN d = DeviceFields /\ d.name = Item.name
    BY <1>2, LegacyDeviceOutcome
  <2>3. failed \in BOOLEAN /\ reported \in BOOLEAN
    OBVIOUS
  <2>4. reported <=> \/ Item.name \notin DOMAIN call.infos
                     \/ call.infos[Item.name].errStatus # "SUCCEED"
    BY <2>2
  <2>5. /\ call' = [call EXCEPT !.merged = Append(@, [d EXCEPT !.succeeded = @ /\ ~failed]),
                                !.missing = @ \cup lost, !.pos = @ + 1,
                                !.faults = @ \cup IF failed \/ reported THEN {d.name} ELSE {}]
        /\ phase' = "merge"
    BY <2>1, <2>2 DEF DeviceFields
  <2> HIDE DEF lost, failed, reported
  <2> QED
    BY <1>6, <2>3, <2>4, <2>5
<1> QED
  BY <1>4, <1>5, <1>7

LEMMA ConcatList ==
  ASSUME NEW S, NEW s \in Seq(S), NEW t \in Seq(S)
  PROVE  s \o t \in Seq(S) /\ IsList(s \o t)
<1>1. s \o t \in Seq(S)
  OBVIOUS
<1> QED
  BY <1>1, LenProperties DEF IsList

LEMMA ListDevicesData ==
  ASSUME DataOK, ControlOK, ListDevices PROVE DataOK'
<1>1. phase = "devices" /\ client' = client /\ call.api = "v1"
  BY DEF ListDevices, ControlOK, V1Phases
<1>2. CASE \E code \in Codes("v1", "ListDevices") : Abort(code)
  BY <1>1, <1>2, AbortData DEF ListDevices
<1>3. CASE ~\E code \in Codes("v1", "ListDevices") : Abort(code)
  <2>1. PICK page \in DevicePages :
          LET usable == {d \in Elements(page.items) :
                           d.name # NoName /\ d.name \notin Refs(page.unreachable)}
              c == [call EXCEPT !.inventory = @ \o Keep(page.items, usable)]
          IN Page(c, page.next, "ListDevices", "topology")
    BY <1>3 DEF ListDevices
  <2> DEFINE usable == {d \in Elements(page.items) :
                          d.name # NoName /\ d.name \notin Refs(page.unreachable)}
             items == Keep(page.items, usable)
             c == [call EXCEPT !.inventory = @ \o items]
  <2>2. page.items \in Seq(DeviceInfo)
    BY RepliesAssumption DEF ListDevicesResponse
  <2>3. items \in Seq(DeviceInfo)
    <3> HIDE DEF usable
    <3> QED
      BY <2>2, KeepType
  <2>4. Page(c, page.next, "ListDevices", "topology")
    BY <2>1
  <2> HIDE DEF items
  <2>5. Fresh(call)
    BY <1>1 DEF DataOK, StartOK, Early
  <2>6. call.inventory \o items \in Seq(DeviceInfo) /\ IsList(call.inventory \o items)
    BY <1>1, <2>3, <2>5, ConcatList DEF Fresh
  <2>7. /\ DOMAIN c = CallFields /\ c.api = "v1" /\ c.inventory = call.inventory \o items
        /\ c.pos = call.pos /\ c.merged = call.merged /\ c.foreign = call.foreign
        /\ c.missing = call.missing /\ c.faults = call.faults
        /\ c.linkFailures = call.linkFailures
    BY <1>1 DEF ControlOK, CallFields
  <2> HIDE DEF c
  <2>8. Fresh(c)
    BY <2>5, <2>6, <2>7 DEF Fresh
  <2> QED
    BY <1>1, <2>4, <2>7, <2>8, PageData
<1> QED
  BY <1>2, <1>3

LEMMA ListTopologyData ==
  ASSUME DataOK, ControlOK, ListTopology PROVE DataOK'
<1>1. phase = "topology" /\ client' = client /\ call.api = "v1"
  BY DEF ListTopology, ControlOK, V1Phases
<1>2. CASE \E code \in Codes("v1", "ListTopology") : Abort(code)
  BY <1>1, <1>2, AbortData DEF ListTopology
<1>3. CASE ~\E code \in Codes("v1", "ListTopology") : Abort(code)
  <2>1. PICK page \in TopologyPages :
          LET failed == Refs(page.unreachable)
              usable == {e \in Elements(page.entries) : e.device \notin failed}
              c == [call EXCEPT !.links = Linked(@, Keep(page.entries, usable)),
                                !.linkFailures = @ \cup failed, !.faults = @ \cup failed]
          IN Page(c, page.next, "ListTopology", IF c.inventory = <<>> THEN "merge" ELSE "group")
    BY <1>3 DEF ListTopology
  <2> DEFINE failed == Refs(page.unreachable)
             usable == {e \in Elements(page.entries) : e.device \notin failed}
             c == [call EXCEPT !.links = Linked(@, Keep(page.entries, usable)),
                               !.linkFailures = @ \cup failed, !.faults = @ \cup failed]
             after == IF c.inventory = <<>> THEN "merge" ELSE "group"
  <2>2. Page(c, page.next, "ListTopology", after) /\ after \in {"topology", "merge", "group"}
    BY <2>1
  <2>3. Fresh(call)
    BY <1>1 DEF DataOK, StartOK, Early
  <2>4. /\ DOMAIN c = CallFields /\ c.api = "v1" /\ c.inventory = call.inventory
        /\ c.pos = call.pos /\ c.merged = call.merged /\ c.foreign = call.foreign
        /\ c.missing = call.missing /\ c.faults = call.faults \cup failed
        /\ c.linkFailures = call.linkFailures \cup failed
    BY <1>1 DEF ControlOK, CallFields
  <2> HIDE DEF failed, c, after
  <2>5. Fresh(c)
    BY <1>1, <2>3, <2>4 DEF Fresh
  <2> QED
    BY <1>1, <2>2, <2>4, <2>5, PageData
<1> QED
  BY <1>2, <1>3

LEMMA SampleData ==
  ASSUME DataOK, ControlOK, SampleMetrics PROVE DataOK'
<1>1. phase = "sample" /\ client' = client /\ call.api = "v1"
  BY DEF SampleMetrics, ControlOK, V1Phases
<1>2. CASE \E code \in Codes("v1", "SampleMetrics") \cup {"NotFound"} : Abort(code)
  BY <1>1, <1>2, AbortData DEF SampleMetrics
<1>3. CASE ~\E code \in Codes("v1", "SampleMetrics") \cup {"NotFound"} : Abort(code)
  <2>1. PICK missing, samples :
          /\ call' = [call EXCEPT !.missing = missing, !.faults = @ \cup missing, !.samples = samples]
          /\ phase' = "merge"
    BY <1>3 DEF SampleMetrics
  <2>2. /\ call'.api = "v1" /\ call'.inventory = call.inventory /\ call'.pos = call.pos
        /\ call'.merged = call.merged /\ call'.foreign = call.foreign
        /\ call'.missing = missing /\ call'.faults = call.faults \cup missing
        /\ call'.linkFailures = call.linkFailures
    BY <1>1, <2>1 DEF ControlOK, CallFields
  <2>3. Fresh(call)
    BY <1>1 DEF DataOK, StartOK, Early
  <2>4. Base' = call'.faults
    BY <2>2, <2>3 DEF Base, Fresh
  <2>5. Progress(call'.inventory, call'.pos, call'.merged, call'.foreign, call'.faults, Base')
    BY <2>2, <2>3, <2>4, ProgressStarts DEF Fresh
  <2>6. MergeOK'
    BY <2>1, <2>2, <2>3, <2>5 DEF MergeOK, Fresh, IsList
  <2>7. StatesOK'
    BY <2>2, <2>3 DEF StatesOK, Fresh
  <2>8. StartOK' /\ MemoryOK' /\ InfosOK' /\ RecordOK' /\ StateSource'
    BY <2>1, <2>2 DEF StartOK, MemoryOK, InfosOK, RecordOK, StateSource, Early, V0Phases
  <2> QED
    BY <1>1, <2>6, <2>7, <2>8 DEF DataOK
<1> QED
  BY <1>2, <1>3

LEMMA LegacyData ==
  ASSUME DataOK, ControlOK, LegacyDevices \/ LegacyTotalInfo \/ LegacyTopology
  PROVE  DataOK'
<1>1. phase \in V0Phases /\ client' = client /\ call.api = "v0"
  BY DEF LegacyDevices, LegacyTotalInfo, LegacyTopology, ControlOK, V0Phases
<1>2. Fresh(call) /\ call.linkFailures = {} /\ "stateLookupFailed" \in DOMAIN client'
  BY <1>1 DEF DataOK, StartOK, Early
<1>3. CASE \E code : Abort(code)
  BY <1>1, <1>3, AbortData
<1>4. CASE LegacyDevices /\ ~\E code : Abort(code)
  <2>1. PICK stream \in LegacyLists :
          LET list == Keep(stream, {d \in Elements(stream) : d.name # NoName})
          IN \E physfn : /\ call' = [call EXCEPT !.inventory = legacyInventory(list, physfn),
                                                 !.counts = [i \in DOMAIN list |-> list[i].numVfs]]
                         /\ phase' = "legacyTotal"
    BY <1>4 DEF LegacyDevices
  <2> DEFINE kept == {d \in Elements(stream) : d.name # NoName}
             list == Keep(stream, kept)
  <2>2. list \in Seq(LegacyDevice)
    <3>1. stream \in Seq(LegacyDevice)
      BY RepliesAssumption
    <3> HIDE DEF kept
    <3> QED
      BY <3>1, KeepType
  <2>3. PICK physfn : /\ call' = [call EXCEPT !.inventory = legacyInventory(list, physfn),
                                              !.counts = [i \in DOMAIN list |-> list[i].numVfs]]
                      /\ phase' = "legacyTotal"
    BY <2>1
  <2> HIDE DEF list
  <2>4. IsList(legacyInventory(list, physfn))
    BY <2>2, LegacyInventoryType, LenProperties DEF IsList
  <2>5. /\ call'.api = "v0" /\ call'.inventory = legacyInventory(list, physfn)
        /\ call'.pos = call.pos /\ call'.merged = call.merged /\ call'.foreign = call.foreign
        /\ call'.missing = call.missing /\ call'.faults = call.faults
        /\ call'.linkFailures = call.linkFailures
    BY <1>1, <2>3 DEF ControlOK, CallFields
  <2>6. Fresh(call')
    BY <1>2, <2>4, <2>5 DEF Fresh
  <2> QED
    BY <1>2, <2>3, <2>5, <2>6, FreshData DEF Early, V0Phases
<1>5. CASE LegacyTotalInfo /\ ~\E code : Abort(code)
  <2>1. PICK stream \in LegacyInfos :
          call' = [call EXCEPT !.infos = InfosOf(stream)] /\ phase' = "legacyTopology"
    BY <1>5 DEF LegacyTotalInfo
  <2>2. /\ call'.api = "v0" /\ call'.inventory = call.inventory /\ call'.infos = InfosOf(stream)
        /\ call'.pos = call.pos /\ call'.merged = call.merged /\ call'.foreign = call.foreign
        /\ call'.missing = call.missing /\ call'.faults = call.faults
        /\ call'.linkFailures = call.linkFailures
    BY <1>1, <2>1 DEF ControlOK, CallFields
  <2>3. Fresh(call')
    BY <1>1, <1>2, <2>2 DEF Fresh
  <2>4. \A n \in DOMAIN call'.infos : call'.infos[n] \in LegacyDeviceInfo
    BY <2>2, InfosAreRecords
  <2> QED
    BY <1>2, <2>1, <2>2, <2>3, <2>4, FreshData DEF Early, V0Phases
<1>6. CASE LegacyTopology /\ ~\E code : Abort(code)
  <2>1. phase = "legacyTopology" /\ phase' = "merge" /\ \A n \in DOMAIN call.infos : call.infos[n] \in LegacyDeviceInfo
    BY <1>1, <1>6 DEF LegacyTopology, DataOK, InfosOK
  <2>2. /\ call'.api = "v0" /\ call'.inventory = call.inventory /\ call'.infos = call.infos
        /\ call'.pos = call.pos /\ call'.merged = call.merged /\ call'.foreign = call.foreign
        /\ call'.missing = call.missing /\ call'.faults = call'.linkFailures
    <3>1. CASE call' = call
      BY <1>1, <1>2, <3>1 DEF Fresh
    <3>2. CASE call' # call
      <4>1. PICK links, failed :
              call' = [call EXCEPT !.links = links, !.linkFailures = failed, !.faults = @ \cup failed]
        BY <1>6, <3>2 DEF LegacyTopology
      <4>2. call.faults = {}
        BY <1>2 DEF Fresh
      <4> QED
        BY <1>1, <4>1, <4>2 DEF ControlOK, CallFields
    <3> QED
      BY <3>1, <3>2
  <2>3. Fresh(call')
    BY <1>1, <1>2, <2>2 DEF Fresh
  <2> QED
    BY <1>2, <2>1, <2>2, <2>3, FreshData DEF V0Phases
<1> QED
  BY <1>3, <1>4, <1>5, <1>6

LEMMA DataStep == ASSUME DataOK, ControlOK, [Next]_vars PROVE DataOK'
<1>1. CASE GetDeviceInfo
  <2>1. phase' = "devices" /\ client' = client
        /\ call' = [NewCall EXCEPT !.wholeV1 = Complete(served)]
    BY <1>1 DEF GetDeviceInfo
  <2>2. Fresh(call') /\ call'.linkFailures = {}
    BY <2>1, NewCallIsFresh
  <2> QED
    BY <2>1, <2>2, FreshData DEF DataOK, Early, V0Phases
<1>2. CASE DaemonChanges
  BY <1>2, SameData DEF DaemonChanges
<1>3. CASE EnsureMetricGroup
  <2>1. phase = "group" /\ client' = client /\ call.api = "v1"
    BY <1>3 DEF EnsureMetricGroup, ControlOK, V1Phases
  <2>2. (\E code : Abort(code)) \/ (phase' = "sample" /\ call' = call)
    BY <1>3 DEF EnsureMetricGroup
  <2>3. Fresh(call)
    BY <2>1 DEF DataOK, StartOK, Early
  <2> QED
    BY <2>1, <2>2, <2>3, AbortData, FreshData DEF DataOK, Early, V0Phases
<1>4. CASE MergeVersion
  <2>1. /\ phase = "merge" /\ call.api = "v1" /\ call.pos <= Len(call.inventory) /\ client' = client
    BY <1>4 DEF MergeVersion
  <2>2. \/ Skip
        \/ /\ phase' = "memory"
           /\ call' = [call EXCEPT !.current = Merged] \/ call' = Failing(call, Merged)
        \/ \E code : Abort(code)
    BY <1>4 DEF MergeVersion
  <2> QED
    BY <2>1, <2>2, SkipData, VersionData, AbortData
<1>5. CASE MergeMemory
  <2>1. phase = "memory" /\ call.api = "v1" /\ client' = client
    BY <1>5 DEF MergeMemory, ControlOK, V1Phases
  <2>2. \/ phase' = "merge" /\ \E c \in {call, Failing(call, call.current)} : \E memory, n :
                                  call' = FinishV1(c, memory, n)
        \/ \E code : Abort(code)
    BY <1>5 DEF MergeMemory
  <2> QED
    BY <2>1, <2>2, FinishData, AbortData
<1>6. CASE Return
  <2>1. phase' = "idle" /\ call' = NewCall
    BY <1>6 DEF Return
  <2>2. "stateLookupFailed" \in DOMAIN client'
    BY <1>6 DEF Return, DataOK
  <2> QED
    BY <2>1, <2>2, NewCallIsFresh, FreshData DEF V0Phases
<1>7. CASE UNCHANGED vars
  BY <1>7, SameData DEF vars
<1> QED
  BY <1>1, <1>2, <1>3, <1>4, <1>5, <1>6, <1>7, ListDevicesData, ListTopologyData, SampleData,
     SupplementData, LegacyData, MergeLegacyData, MergeEndsData
     DEF Next, Step, CollectV1, CollectV0

\* The loop invariant of both collections holds throughout.
THEOREM DataInvariance == Spec => []DataOK
<1>1. Init => DataOK
  <2> SUFFICES ASSUME Init PROVE DataOK
    OBVIOUS
  <2>1. phase = "idle" /\ "stateLookupFailed" \in DOMAIN client
    BY DEF Init
  <2> QED
    BY <2>1 DEF DataOK, StartOK, InfosOK, MergeOK, MemoryOK, StatesOK, RecordOK,
       StateSource, Early, V0Phases
<1>2. ControlOK /\ DataOK /\ [Next]_vars => DataOK'
  BY DataStep
<1> QED
  BY <1>1, <1>2, ControlInvariance, PTL DEF Spec

\* Whatever the daemon lists, answers and breaks off: each listed device that is not bound
\* to a foreign driver is returned, as failed exactly if some reply of this collection
\* reported a failure of it (client.go 100-164, legacy.go 83-98, 195-246).
THEOREM FailuresAreOwn == Spec => []OutcomePerDevice
<1>1. ASSUME DataOK, phase = "record", NEW i \in DOMAIN call.inventory,
             ListedOnce(call.inventory[i].name)
      PROVE  LET n == call.inventory[i].name
                 own == {k \in DOMAIN call.merged : call.merged[k].name = n}
             IN IF n \in call.foreign THEN own = {}
                ELSE \E k \in own : call.merged[k].succeeded <=> n \notin call.faults
  <2>1. Once(call.inventory, i)
    BY <1>1 DEF ListedOnce, Once
  <2>2. Outcome(call.merged, call.foreign, call.faults, call.inventory[i].name)
    BY <1>1, <2>1 DEF DataOK, RecordOK
  <2> QED
    BY <2>2 DEF Outcome, Own
<1>2. DataOK => OutcomePerDevice
  BY <1>1 DEF OutcomePerDevice
<1> QED
  BY <1>2, DataInvariance, PTL

\* The state of a v1 device is the inventory's, or v0's where the inventory has none, and
\* a failed lookup shows in the device's success (legacy.go 77-97).
THEOREM StatesHaveSources == Spec => []StateSource
<1>1. DataOK => StateSource
  BY DEF DataOK
<1> QED
  BY <1>1, DataInvariance, PTL

-----------------------------------------------------------------------------
\* What the log has told so far agrees with what the client remembers.
LogOK ==
  /\ DOMAIN client = {"activeAPI", "collectedOnce", "prevMissing", "prevState", "stateLookupFailed"}
  /\ belief.unavailable \subseteq DOMAIN client.prevState \cap client.prevMissing
  /\ client.prevMissing \subseteq belief.unavailable \cup belief.hidden
  /\ belief.fault \subseteq DOMAIN client.prevState
  /\ \A n \in DOMAIN client.prevState :
       /\ client.prevState[n] = "fault" => n \in belief.fault
       /\ n \in belief.fault \ belief.blurred => client.prevState[n] = "fault"

\* The daemon lists no name twice in one collection.
NamesIdentify ==
  \A i, j \in DOMAIN call.inventory : call.inventory[i].name = call.inventory[j].name => i = j

LEMMA MergedDistinct ==
  ASSUME DataOK, NamesIdentify, phase = "record"
  PROVE  \A j, k \in DOMAIN call.merged : call.merged[j].name = call.merged[k].name => j = k
<1> SUFFICES ASSUME NEW j \in DOMAIN call.merged, NEW k \in DOMAIN call.merged,
                    call.merged[j].name = call.merged[k].name
             PROVE  j = k
  OBVIOUS
<1>1. PICK i \in DOMAIN call.inventory : call.inventory[i].name = call.merged[k].name
  BY DEF DataOK, RecordOK
<1>2. Once(call.inventory, i)
  BY DEF NamesIdentify, Once
<1>3. Outcome(call.merged, call.foreign, call.faults, call.merged[k].name)
  BY <1>1, <1>2 DEF DataOK, RecordOK
<1>4. j \in Own(call.merged, call.merged[k].name) /\ k \in Own(call.merged, call.merged[k].name)
  BY DEF Own
<1> QED
  BY <1>3, <1>4 DEF Outcome

\* What is remembered of devices without a name in common: the state of each.
LEMMA StatesOfDistinct ==
  ASSUME NEW devices, DOMAIN devices \subseteq Nat,
         \A j, k \in DOMAIN devices : devices[j].name = devices[k].name => j = k
  PROVE  /\ DOMAIN StatesOf(devices) = NamesOf(devices)
         /\ \A k \in DOMAIN devices : StatesOf(devices)[devices[k].name] = devices[k].state
<1>1. DOMAIN StatesOf(devices) = NamesOf(devices)
  BY DEF StatesOf
<1>2. ASSUME NEW k \in DOMAIN devices
      PROVE  StatesOf(devices)[devices[k].name] = devices[k].state
  <2> DEFINE n == devices[k].name
             own == {i \in DOMAIN devices : devices[i].name = n}
             last == CHOOSE i \in own : \A j \in own : j <= i
  <2>1. own = {k}
    OBVIOUS
  <2>2. StatesOf(devices)[n] = devices[last].state
    BY DEF StatesOf, NamesOf
  <2>3. last = k
    BY <2>1
  <2> QED
    BY <2>2, <2>3
<1> QED
  BY <1>1, <1>2

LEMMA LogStep ==
  ASSUME LogOK, DataOK, NamesIdentify, [Next]_vars PROVE LogOK'
<1>1. CASE Return
  <2> DEFINE devices == call.merged
             missing == call.missing
             present == NamesOf(devices)
             lines == Lines(devices, missing)
             WasFault(n) == n \in DOMAIN client.prevState /\ client.prevState[n] = "fault"
             state(n) == client'.prevState[n]
  <2>1. /\ DOMAIN client' = DOMAIN client
        /\ client'.prevState = StatesOf(devices) /\ client'.prevMissing = missing
    BY <1>1 DEF Return, LogOK
  <2>2. belief' = Read(lines, devices, missing) /\ phase = "record"
    BY <1>1 DEF Return
  <2>3. \A j, k \in DOMAIN devices : devices[j].name = devices[k].name => j = k
    BY <2>2, MergedDistinct
  <2>4. /\ DOMAIN client'.prevState = present
        /\ \A k \in DOMAIN devices : state(devices[k].name) = devices[k].state
    BY <2>1, <2>2, <2>3, StatesOfDistinct DEF DataOK, RecordOK
  <2>5. \A n \in present : \E k \in DOMAIN devices : devices[k].name = n
    BY DEF NamesOf
  <2>6. /\ lines.unavailable = (present \cap missing) \ client.prevMissing
        /\ lines.telemetry = (present \cap client.prevMissing) \ missing
        /\ lines.gone = DOMAIN client.prevState \ present
    BY DEF Lines
  <2>7. /\ lines.degraded = {n \in present : state(n) = "fault" /\ ~WasFault(n)}
        /\ lines.recovered = {n \in present : WasFault(n) /\ state(n) # "fault" /\ state(n) \in Known}
    <3>1. /\ lines.degraded = {devices[k].name : k \in {j \in DOMAIN devices :
                                  devices[j].state = "fault" /\ ~WasFault(devices[j].name)}}
          /\ lines.recovered = {devices[k].name : k \in {j \in DOMAIN devices :
                                   /\ WasFault(devices[j].name) /\ devices[j].state # "fault"
                                   /\ devices[j].state \in Known}}
      BY DEF Lines
    <3>2. present = {devices[k].name : k \in DOMAIN devices}
      BY DEF NamesOf
    <3> HIDE DEF lines, present, devices, WasFault, state
    <3> QED
      BY <2>4, <2>5, <3>1, <3>2
  <2>8. /\ belief'.unavailable = (belief.unavailable \cup lines.unavailable)
                                  \ (lines.telemetry \cup lines.gone)
        /\ belief'.fault = (belief.fault \cup lines.degraded) \ (lines.recovered \cup lines.gone)
        /\ belief'.hidden = (belief.hidden \cap missing) \cup (missing \ present)
    BY <2>2 DEF Read
  <2>9. belief'.blurred = (belief.blurred \cup {n \in belief.fault \cap present : state(n) \notin Known})
                          \ (lines.degraded \cup lines.recovered \cup lines.gone)
    <3>1. belief'.blurred = (belief.blurred \cup
                               {n \in belief.fault : \E i \in DOMAIN devices :
                                  devices[i].name = n /\ devices[i].state \notin Known})
                            \ (lines.degraded \cup lines.recovered \cup lines.gone)
      BY <2>2 DEF Read
    <3>2. \A n : (\E i \in DOMAIN devices : devices[i].name = n /\ devices[i].state \notin Known)
                  <=> n \in present /\ state(n) \notin Known
      <4>1. \A i \in DOMAIN devices : devices[i].name \in present
        BY DEF NamesOf
      <4> HIDE DEF devices, present, state
      <4> QED
        BY <2>4, <2>5, <4>1
    <3> HIDE DEF lines, present, devices, state
    <3> QED
      BY <3>1, <3>2
  <2> HIDE DEF devices, missing, present, lines, state
  <2>10. /\ belief'.unavailable \subseteq present \cap missing
         /\ missing \subseteq belief'.unavailable \cup belief'.hidden
    BY <2>6, <2>8 DEF LogOK
  <2>11. belief'.fault \subseteq present
    BY <2>6, <2>7, <2>8 DEF LogOK
  <2>12. ASSUME NEW n \in present
         PROVE  /\ state(n) = "fault" => n \in belief'.fault
                /\ n \in belief'.fault \ belief'.blurred => state(n) = "fault"
    <3>1. n \notin lines.gone
      BY <2>6
    <3>2. WasFault(n) => n \in belief.fault
      BY DEF LogOK
    <3>3. state(n) = "fault" => n \in belief'.fault
      BY <2>7, <2>8, <3>1, <3>2
    <3>4. ASSUME n \in belief'.fault \ belief'.blurred, state(n) # "fault" PROVE FALSE
      <4>1. n \in belief.fault /\ n \notin lines.degraded /\ n \notin lines.recovered
        BY <2>7, <2>8, <3>4
      <4>2. n \notin belief.blurred /\ state(n) \in Known
        BY <2>9, <3>1, <3>4, <4>1
      <4>3. WasFault(n)
        BY <4>1, <4>2 DEF LogOK
      <4> QED
        BY <2>7, <3>4, <4>1, <4>2, <4>3
    <3> QED
      BY <3>3, <3>4
  <2> QED
    BY <2>1, <2>4, <2>10, <2>11, <2>12 DEF LogOK, state, missing
<1>2. CASE SupplementLegacyStates
  <2>1. /\ DOMAIN client' = DOMAIN client /\ client'.prevState = client.prevState
        /\ client'.prevMissing = client.prevMissing /\ belief' = belief
    BY <1>2 DEF SupplementLegacyStates, LogOK
  <2> QED
    BY <2>1 DEF LogOK
<1>3. CASE client' = client /\ belief' = belief
  BY <1>3 DEF LogOK
<1>4. CASE GetDeviceInfo \/ DaemonChanges \/ MergeEnds \/ UNCHANGED vars
  BY <1>3, <1>4 DEF GetDeviceInfo, DaemonChanges, MergeEnds, vars
<1>5. CASE ListDevices \/ ListTopology \/ EnsureMetricGroup \/ SampleMetrics
  BY <1>3, <1>5 DEF ListDevices, ListTopology, EnsureMetricGroup, SampleMetrics
<1>6. CASE MergeVersion \/ MergeMemory
  BY <1>3, <1>6 DEF MergeVersion, MergeMemory
<1>7. CASE LegacyDevices \/ LegacyTotalInfo \/ LegacyTopology \/ MergeLegacy
  BY <1>3, <1>7 DEF LegacyDevices, LegacyTotalInfo, LegacyTopology, MergeLegacy
<1> QED
  BY <1>1, <1>2, <1>4, <1>5, <1>6, <1>7 DEF Next, Step, CollectV1, CollectV0

\* As long as the daemon lists no name twice in one collection, the log tells between
\* collections which devices have no telemetry and which are in fault, but for the two
\* edges the property names: recordDeviceTransitions compares with what it kept of the
\* collection before and logs the difference (client.go 278-330).
THEOREM LogIsTrue == Spec /\ []NamesIdentify => []LogTellsTransitions
<1>1. ASSUME Init PROVE LogOK
  <2>1. DOMAIN NoStates = {}
    BY DEF NoStates
  <2>2. client = [activeAPI |-> "", collectedOnce |-> FALSE, prevMissing |-> {},
                  prevState |-> NoStates, stateLookupFailed |-> FALSE]
    BY <1>1 DEF Init
  <2>3. /\ DOMAIN client = {"activeAPI", "collectedOnce", "prevMissing", "prevState",
                            "stateLookupFailed"}
        /\ DOMAIN client.prevState = {} /\ client.prevMissing = {}
    BY <2>1, <2>2
  <2>4. belief.unavailable = {} /\ belief.fault = {} /\ belief.hidden = {}
    BY <1>1 DEF Init
  <2> QED
    BY <2>3, <2>4 DEF LogOK
<1>2. LogOK /\ DataOK /\ NamesIdentify /\ [Next]_vars => LogOK'
  BY LogStep
<1>3. LogOK => LogTellsTransitions
  BY DEF LogOK, LogTellsTransitions
<1> QED
  BY <1>1, <1>2, <1>3, DataInvariance, PTL DEF Spec

-----------------------------------------------------------------------------
Static == {"memory_total", "link_speed", "link_width"}
Sampled == {"temperature", "power", "utilization", "memory_used", "power_state"}

\* applySample takes the samples that mean something, and no others.
LEMMA TakesMeaningful ==
  ASSUME NEW d, NEW s \in MetricSample, NEW readings
  PROVE  /\ applySample(d, readings, s) =
              IF Meaningful(d, s) THEN Put(readings, s.metric, Scaled(s.value, Unit(s.metric)))
              ELSE readings
         /\ Meaningful(d, s) => s.metric \in Sampled
<1>1. \/ s.type = "float" /\ s.value \in Int \cup NonNumbers
      \/ s.type = "int" /\ s.value \in Int
  BY DEF MetricSample
<1>2. s.value \in Int => s.value \notin NonNumbers
  BY NumbersAssumption
<1>3. Meaningful(d, s) => s.metric \in Sampled
  BY DEF Meaningful, Sampled
<1>4. CASE s.type = "float"
  <2>1. Meaningful(d, s) <=> UsableFloat(d, s)
    <3>1. CASE s.value \in NonNumbers
      <4>1. s.value \notin Int /\ s.value \notin Nat /\ s.value \notin 0..FullLoad
        <5>1. \A x \in 0..FullLoad : x \in Int
          BY DEF FullLoad
        <5>2. \A x \in Nat : x \in Int
          OBVIOUS
        <5> QED
          BY <1>2, <3>1, <5>1, <5>2
      <4> QED
        BY <1>4, <3>1, <4>1 DEF Meaningful, UsableFloat
    <3>2. CASE s.value \notin NonNumbers
      <4>1. /\ s.value \in Int /\ (s.value \in Nat <=> s.value >= 0)
            /\ s.value \in 0..FullLoad <=> s.value >= 0 /\ s.value <= FullLoad
        <5>1. \A x \in Int : /\ x \in Nat <=> x >= 0
                             /\ x \in 0..FullLoad <=> x >= 0 /\ x <= FullLoad
          BY DEF FullLoad
        <5>2. s.value \in Int
          BY <1>1, <3>2
        <5> QED
          BY <5>1, <5>2
      <4>2. CASE s.metric \in {"temperature", "power", "utilization"}
        BY <1>4, <3>2, <4>1, <4>2 DEF Meaningful, UsableFloat
      <4>3. CASE s.metric \notin {"temperature", "power", "utilization"}
        BY <1>4, <4>3 DEF Meaningful, UsableFloat
      <4> QED
        BY <4>2, <4>3
    <3> QED
      BY <3>1, <3>2
  <2> QED
    BY <1>3, <1>4, <2>1 DEF applySample
<1>5. CASE s.type = "int"
  <2>1. Meaningful(d, s) <=> UsableInt(d, s)
    BY <1>1, <1>2, <1>5 DEF Meaningful, UsableInt
  <2> QED
    BY <1>3, <1>5, <2>1 DEF applySample
<1> QED
  BY <1>1, <1>4, <1>5

\* The samples of device d that count, up to the n-th.
Good(d, samples, n) ==
  {i \in 1..n : samples[i].device = d.name /\ Meaningful(d, samples[i])}

\* readings after them, given the ones before.
Taken(d, samples, n, before, after) ==
  /\ DOMAIN after = DOMAIN before \cup {samples[i].metric : i \in Good(d, samples, n)}
  /\ \A i \in Good(d, samples, n) :
       (\A j \in Good(d, samples, n) : samples[j].metric = samples[i].metric => j <= i)
       => after[samples[i].metric] = Scaled(samples[i].value, Unit(samples[i].metric))

LEMMA TakesOne ==
  ASSUME NEW d, NEW samples \in Seq(MetricSample), NEW n \in 1..Len(samples), NEW r, NEW before,
         Taken(d, samples, n - 1, before, r)
  PROVE  Taken(d, samples, n, before,
               IF samples[n].device = d.name THEN applySample(d, r, samples[n]) ELSE r)
<1> DEFINE s == samples[n]
           g == Good(d, samples, n - 1)
           h == Good(d, samples, n)
           v == Scaled(s.value, Unit(s.metric))
<1>1. s \in MetricSample /\ 1..n = (1..(n - 1)) \cup {n} /\ n \notin 1..(n - 1)
  OBVIOUS
<1>2. CASE s.device = d.name /\ Meaningful(d, s)
  <2>1. applySample(d, r, s) = Put(r, s.metric, v)
    BY <1>1, <1>2, TakesMeaningful
  <2>2. h = g \cup {n}
    BY <1>1, <1>2 DEF Good
  <2>3. \A i \in g : i \in 1..(n - 1)
    BY DEF Good
  <2> DEFINE p == Put(r, s.metric, v)
  <2>4. /\ DOMAIN p = DOMAIN r \cup {s.metric} /\ p[s.metric] = v
        /\ \A m \in DOMAIN r : m # s.metric => p[m] = r[m]
    BY DEF Put
  <2> HIDE DEF p, v, g, h
  <2>5. DOMAIN p = DOMAIN before \cup {samples[i].metric : i \in h}
    BY <2>2, <2>4 DEF Taken, g
  <2>6. ASSUME NEW i \in h, \A j \in h : samples[j].metric = samples[i].metric => j <= i
        PROVE  p[samples[i].metric] = Scaled(samples[i].value, Unit(samples[i].metric))
    <3>1. CASE i = n
      BY <2>4, <3>1 DEF v
    <3>2. CASE i # n
      <4>1. i \in g /\ i \in 1..(n - 1)
        BY <2>2, <2>3, <3>2
      <4>2. n \in h /\ ~(n <= i)
        BY <2>2, <4>1
      <4>3. s.metric # samples[i].metric
        BY <2>6, <4>2
      <4>4. \A j \in g : samples[j].metric = samples[i].metric => j <= i
        BY <2>2, <2>6
      <4>5. samples[i].metric \in DOMAIN r
            /\ r[samples[i].metric] = Scaled(samples[i].value, Unit(samples[i].metric))
        BY <4>1, <4>4 DEF Taken, g
      <4> QED
        BY <2>4, <4>3, <4>5
    <3> QED
      BY <3>1, <3>2
  <2> QED
    BY <1>2, <2>1, <2>5, <2>6 DEF Taken, p, h
<1>3. CASE ~(s.device = d.name /\ Meaningful(d, s))
  <2>1. (IF s.device = d.name THEN applySample(d, r, s) ELSE r) = r
    BY <1>1, <1>3, TakesMeaningful
  <2>2. h = g
    BY <1>1, <1>3 DEF Good
  <2> QED
    BY <2>1, <2>2 DEF Taken
<1> QED
  BY <1>2, <1>3

\* The loop over the samples of a device.
LEMMA TakesAll ==
  ASSUME NEW d, NEW samples \in Seq(MetricSample), NEW before
  PROVE  Taken(d, samples, Len(samples), before, ApplySamples(d, before, samples))
<1> DEFINE N == Len(samples)
           Do(r, i) == IF samples[i].device = d.name THEN applySample(d, r, samples[i]) ELSE r
           Go(f, i) == IF i = 0 THEN before ELSE Do(f[i - 1], i)
           Fold == CHOOSE f : f = [i \in 0..N |-> Go(f, i)]
<1>1. N \in Nat
  OBVIOUS
<1>2. ApplySamples(d, before, samples) = Fold[N]
  BY DEF ApplySamples
<1> HIDE DEF N, Do
<1>3. \E f : f = [i \in 0..N |-> Go(f, i)]
  <2> DEFINE Has(n) == \E f : f = [i \in 0..n |-> Go(f, i)]
             T == {n \in 0..N : Has(n)}
  <2>1. 0 \in T
    <3> DEFINE f == [i \in 0..0 |-> before]
    <3>1. f = [i \in 0..0 |-> Go(f, i)]
      <4>1. \A i \in 0..0 : Go(f, i) = before
        OBVIOUS
      <4> HIDE DEF Go
      <4> QED
        BY <4>1
    <3> HIDE DEF f, Go
    <3>2. Has(0)
      BY <3>1
    <3> HIDE DEF Has
    <3> QED
      BY <1>1, <3>2
  <2>2. ASSUME NEW n \in 1..N, n - 1 \in T PROVE n \in T
    <3>1. PICK g : g = [i \in 0..(n - 1) |-> Go(g, i)]
      BY <2>2
    <3> DEFINE f == [i \in 0..n |-> IF i < n THEN g[i] ELSE Go(g, n)]
    <3>2. ASSUME NEW i \in 0..n PROVE f[i] = Go(f, i)
      <4>1. i # 0 => f[i - 1] = g[i - 1]
        BY <1>1
      <4>2. Go(f, i) = Go(g, i)
        BY <4>1
      <4>3. i < n => g[i] = Go(g, i)
        <5>1. i < n => i \in 0..(n - 1)
          BY <1>1
        <5> HIDE DEF Go
        <5> QED
          BY <3>1, <5>1
      <4>4. ~(i < n) => i = n
        BY <1>1
      <4> QED
        BY <4>2, <4>3, <4>4
    <3>3. f = [i \in 0..n |-> Go(f, i)]
      <4>1. f = [i \in 0..n |-> f[i]]
        OBVIOUS
      <4> HIDE DEF f, Go
      <4> QED
        BY <3>2, <4>1
    <3> HIDE DEF f, Go
    <3>4. Has(n)
      BY <3>3
    <3> HIDE DEF Has
    <3> QED
      BY <1>1, <3>4
  <2>3. N \in T
    <3> HIDE DEF T
    <3>1. \A i \in 0..N : i \in T
      BY <1>1, <2>1, <2>2, PrefixInduction
    <3> QED
      BY <1>1, <3>1
  <2> QED
    BY <2>3
<1>4. Fold = [i \in 0..N |-> Go(Fold, i)]
  BY <1>3, Zenon
<1> HIDE DEF Fold
<1>5. Fold[0] = before /\ \A i \in 1..N : Fold[i] = Do(Fold[i - 1], i)
  <2>1. \A i \in 0..N : Fold[i] = Go(Fold, i)
    <3> HIDE DEF Go
    <3> QED
      BY <1>4
  <2> QED
    BY <1>1, <2>1
<1> DEFINE T == {n \in 0..N : Taken(d, samples, n, before, Fold[n])}
<1>6. 0 \in T
  <2>1. Good(d, samples, 0) = {}
    BY DEF Good
  <2> QED
    BY <1>1, <1>5, <2>1 DEF Taken
<1>7. ASSUME NEW n \in 1..N, n - 1 \in T PROVE n \in T
  <2>1. Taken(d, samples, n - 1, before, Fold[n - 1])
    BY <1>7, Zenon
  <2>2. Taken(d, samples, n, before, Do(Fold[n - 1], n))
    BY <2>1, TakesOne DEF N, Do
  <2>3. n \in 0..N
    BY <1>1
  <2> QED
    BY <1>5, <2>2, <2>3
<1>8. N \in T
  <2> HIDE DEF T
  <2>1. \A i \in 0..N : i \in T
    BY <1>1, <1>6, <1>7, PrefixInduction
  <2> QED
    BY <1>1, <2>1
<1> QED
  BY <1>2, <1>8 DEF N

-----------------------------------------------------------------------------
\* A list stays within G when an element of G is appended.
LEMMA AppendKeeps ==
  ASSUME NEW S, NEW list \in Seq(S), NEW G, \A k \in DOMAIN list : list[k] \in G, NEW d \in G
  PROVE  \A k \in DOMAIN Append(list, d) : Append(list, d)[k] \in G
<1>1. list \in Seq(G)
  <2>1. Len(list) \in Nat /\ DOMAIN list = 1..Len(list) /\ list \in [1..Len(list) -> S]
    BY LenProperties
  <2>2. list \in [1..Len(list) -> G]
    BY <2>1
  <2> QED
    BY <2>1, <2>2
<1>2. Append(list, d) \in Seq(G)
  BY <1>1
<1> QED
  BY <1>2

\* LastGoodSampleWins, for one device.
SampledRight(d, samples) ==
  LET good == {i \in DOMAIN samples : samples[i].device = d.name /\ Meaningful(d, samples[i])}
      last == {i \in good : \A j \in good : samples[j].metric = samples[i].metric => j <= i}
  IN /\ DOMAIN d.readings \ Static = {samples[i].metric : i \in last}
     /\ \A i \in last : LET s == samples[i]
                        IN d.readings[s.metric] = Scaled(s.value, Unit(s.metric))

LEMMA TakenIsRight ==
  ASSUME NEW d, NEW samples \in Seq(MetricSample), NEW before, DOMAIN before \subseteq Static,
         Taken(d, samples, Len(samples), before, d.readings)
  PROVE  SampledRight(d, samples)
<1> DEFINE N == Len(samples)
           good == {i \in DOMAIN samples : samples[i].device = d.name /\ Meaningful(d, samples[i])}
           last == {i \in good : \A j \in good : samples[j].metric = samples[i].metric => j <= i}
<1>1. N \in Nat /\ DOMAIN samples = 1..N /\ \A i \in 1..N : samples[i] \in MetricSample
  OBVIOUS
<1>2. good = Good(d, samples, N) /\ good \subseteq 1..N
  BY <1>1 DEF Good
<1>3. \A i \in good : samples[i].metric \in Sampled
  BY <1>1, TakesMeaningful
<1>4. \A m \in Sampled : m \notin Static
  BY DEF Sampled, Static
<1> HIDE DEF N, good
<1>5. {samples[i].metric : i \in last} = {samples[i].metric : i \in good}
  <2>1. ASSUME NEW i \in good PROVE \E j \in last : samples[j].metric = samples[i].metric
    <3> DEFINE same == {j \in good : samples[j].metric = samples[i].metric}
    <3>1. same \subseteq 1..N /\ same # {}
      BY <1>2
    <3>2. PICK j \in same : \A k \in same : k <= j
      <4> HIDE DEF same
      <4> QED
        BY <1>1, <3>1, GreatestIndex
    <3> QED
      BY <3>2
  <2>2. last \subseteq good
    OBVIOUS
  <2> HIDE DEF last
  <2> QED
    BY <2>1, <2>2
<1>6. DOMAIN d.readings = DOMAIN before \cup {samples[i].metric : i \in good}
  BY <1>2 DEF Taken, N
<1>7. DOMAIN d.readings \ Static = {samples[i].metric : i \in last}
  <2> HIDE DEF last
  <2> QED
    BY <1>3, <1>4, <1>5, <1>6
<1>8. \A i \in last : d.readings[samples[i].metric] = Scaled(samples[i].value, Unit(samples[i].metric))
  BY <1>2 DEF Taken, N
<1> QED
  BY <1>7, <1>8 DEF SampledRight, good

\* A finished device has the readings of its samples.
ReadsJoin(c, after) ==
  \E d : /\ after = [c EXCEPT !.merged = Append(@, d), !.pos = @ + 1, !.current = Nil]
         /\ SampledRight(d, c.samples)

LEMMA LinkStatic ==
  ASSUME NEW d, NEW readings, DOMAIN readings \subseteq Static, NEW entry
  PROVE  DOMAIN linkReadings(d, readings, entry) \subseteq Static
<1>1. ASSUME NEW r, NEW name \in Static, NEW v, DOMAIN r \subseteq Static
      PROVE  DOMAIN Put(r, name, v) \subseteq Static
  BY <1>1 DEF Put
<1> DEFINE speed == IF entry.speed = Nil THEN readings
                    ELSE Put(readings, "link_speed", Scaled(entry.speed, 1))
<1>2. DOMAIN speed \subseteq Static
  BY <1>1 DEF Static
<1>3. linkReadings(d, readings, entry) =
        IF d.isVF \/ entry = Nil THEN readings
        ELSE IF entry.width = Nil THEN speed ELSE Put(speed, "link_width", Scaled(entry.width, 1))
  BY DEF linkReadings
<1> HIDE DEF speed
<1>4. DOMAIN Put(speed, "link_width", Scaled(entry.width, 1)) \subseteq Static
  BY <1>1, <1>2 DEF Static
<1> QED
  BY <1>2, <1>3, <1>4

LEMMA FinishReads ==
  ASSUME NEW c, DOMAIN c = CallFields, DOMAIN c.current = DeviceFields,
         c.current.readings = NoReadings, c.samples \in Seq(MetricSample), NEW memory, NEW n
  PROVE  ReadsJoin(c, FinishV1(c, memory, n))
<1> DEFINE d == c.current
           sized == IF memory # Nil /\ d.compute
                    THEN [d EXCEPT !.readings = Put(@, "memory_total", Scaled(memory.totalBytes, 1))]
                    ELSE d
           cut == partitionMetadata(sized, n)
           linked == [cut EXCEPT !.readings = linkReadings(cut, @, LinkOf(d.name))]
           done == [linked EXCEPT !.readings = ApplySamples(linked, @, c.samples)]
<1>1. FinishV1(c, memory, n) =
        [c EXCEPT !.merged = Append(@, done), !.pos = @ + 1, !.current = Nil]
  BY DEF FinishV1
<1>2. DOMAIN sized = DeviceFields /\ DOMAIN sized.readings \subseteq Static
  BY DEF DeviceFields, Put, NoReadings, Static
<1> HIDE DEF sized
<1>3. DOMAIN cut = DeviceFields /\ DOMAIN cut.readings \subseteq Static
  BY <1>2, PartitionKeeps
<1> HIDE DEF cut
<1>4. DOMAIN linked = DeviceFields /\ DOMAIN linked.readings \subseteq Static
  BY <1>3, LinkStatic DEF DeviceFields
<1> HIDE DEF linked
<1>5. /\ done.name = linked.name /\ done.isVF = linked.isVF /\ done.compute = linked.compute
      /\ done.readings = ApplySamples(linked, linked.readings, c.samples)
  BY <1>4 DEF DeviceFields
<1> HIDE DEF done
<1>6. Taken(linked, c.samples, Len(c.samples), linked.readings, done.readings)
  BY <1>5, TakesAll
<1>7. Good(done, c.samples, Len(c.samples)) = Good(linked, c.samples, Len(c.samples))
  BY <1>5 DEF Good, Meaningful
<1>8. Taken(done, c.samples, Len(c.samples), linked.readings, done.readings)
  BY <1>6, <1>7 DEF Taken
<1>9. SampledRight(done, c.samples)
  BY <1>4, <1>8, TakenIsRight
<1> QED
  BY <1>1, <1>9 DEF ReadsJoin

-----------------------------------------------------------------------------
\* ApisAgree, for one device and one scalar.
ScalarRight(d, infos, r) ==
  LET info == infos[d.name]
      v == info.scalars[r]
      v1 == applySample(d, NoReadings, AsSample(d.name, r, v))
      over == r = "utilization" /\ v \notin NonNumbers /\ v > 100
      huge == r = "memory_used" /\ v \notin NonNumbers /\ v * Gib >= Modulus
      queried == d.name \in DOMAIN infos /\ info.errStatus = "SUCCEED"
  IN IF ~queried THEN r \notin DOMAIN d.readings
     ELSE IF r \in DOMAIN d.readings
     THEN ~huge /\ (over \/ (r \in DOMAIN v1 /\ SameAmount(v1[r], d.readings[r])))
     ELSE huge \/ r \notin DOMAIN v1

LEMMA NotNil == ASSUME NEW v \in Int, NEW u \in Nat PROVE Scaled(v, u) # Nil
BY NilIsNoReading DEF Scaled

LEMMA Product ==
  ASSUME NEW v \in Int
  PROVE  v * Gib \in Int /\ (v * Gib >= 0 <=> v >= 0)
<1>1. Gib \in Int /\ Gib > 0
  BY GibAssumption
<1>2. v * Gib \in Int
  BY <1>1
<1>3. CASE v >= 0
  BY <1>1, <1>3, SMT
<1>4. CASE ~(v >= 0)
  BY <1>1, <1>4, SMT
<1> QED
  BY <1>2, <1>3, <1>4

\* What v1 would read from the sample, given the sample's fields.
LEMMA Applied ==
  ASSUME NEW d, NEW s
  PROVE  LET after == applySample(d, NoReadings, s)
             usable == (s.type = "float" /\ UsableFloat(d, s)) \/ (s.type = "int" /\ UsableInt(d, s))
         IN /\ s.metric \in DOMAIN after <=> usable
            /\ usable => after[s.metric] = <<s.value, Unit(s.metric)>>
BY DEF applySample, NoReadings, Put, Scaled

\* The conversion of a v0 scalar agrees with the one of a v1 sample.
LEMMA ConversionsAgree ==
  ASSUME NEW d, NEW r \in LegacyScalars \ {"memory_total"}, NEW v \in Int \cup NonNumbers
  PROVE  LET x == legacyScalar(d, r, v)
             v1 == applySample(d, NoReadings, AsSample(d.name, r, v))
             over == r = "utilization" /\ v \notin NonNumbers /\ v > 100
             huge == r = "memory_used" /\ v \notin NonNumbers /\ v * Gib >= Modulus
         IN IF x # Nil
            THEN ~huge /\ (over \/ (r \in DOMAIN v1 /\ SameAmount(v1[r], x)))
            ELSE huge \/ r \notin DOMAIN v1
<1> DEFINE s == AsSample(d.name, r, v)
           v1 == applySample(d, NoReadings, s)
           usable == (s.type = "float" /\ UsableFloat(d, s)) \/ (s.type = "int" /\ UsableInt(d, s))
<1>1. r \in {"temperature", "power", "memory_used", "utilization", "power_state"}
  BY DEF LegacyScalars
<1>2. /\ s.metric = r
      /\ s.type = IF r \in {"memory_used", "power_state"} THEN "int" ELSE "float"
      /\ s.value = CASE v \in NonNumbers -> IF r \in {"memory_used", "power_state"} THEN -1 ELSE v
                     [] r = "utilization" /\ v \notin NonNumbers -> v * Milli
                     [] r = "memory_used" /\ v \notin NonNumbers -> v * Gib
                     [] OTHER -> v
  BY DEF AsSample
<1> HIDE DEF s
<1>3. (r \in DOMAIN v1 <=> usable) /\ (usable => v1[r] = <<s.value, Unit(r)>>)
  BY <1>2, Applied
<1> HIDE DEF v1
<1>4. v \in Int <=> v \notin NonNumbers
  BY NumbersAssumption
<1>5. CASE v \in NonNumbers
  <2>1. legacyScalar(d, r, v) = Nil
    BY <1>1, <1>5 DEF legacyScalar, legacyReading, legacyBytes
  <2>2. ~usable
    <3>1. CASE r \in {"memory_used", "power_state"}
      <4>1. s.type = "int" /\ s.value = -1
        BY <1>2, <1>5, <3>1
      <4> QED
        BY <4>1 DEF UsableInt
    <3>2. CASE r \notin {"memory_used", "power_state"}
      <4>1. s.type = "float" /\ s.value = v
        BY <1>2, <1>5, <3>2
      <4> QED
        BY <1>5, <4>1 DEF UsableFloat
    <3> QED
      BY <3>1, <3>2
  <2> QED
    BY <1>3, <2>1, <2>2 DEF v1, s
<1>6. CASE v \notin NonNumbers
  <2>1. v \in Int
    BY <1>4, <1>6
  <2>2. CASE r = "temperature"
    <3>1. s.type = "float" /\ s.value = v /\ s.metric = "temperature"
      BY <1>2, <1>6, <2>2
    <3>2. usable <=> ~d.isVF
      BY <1>6, <3>1 DEF UsableFloat
    <3>3. legacyScalar(d, r, v) = IF d.isVF THEN Nil ELSE <<v, Milli>>
      BY <1>6, <2>2 DEF legacyScalar, legacyReading, Scaled
    <3>4. <<v, Milli>> # Nil
      BY <2>1, NotNil DEF Scaled, Milli
    <3>5. ~d.isVF => SameAmount(v1[r], <<v, Milli>>)
      BY <1>3, <2>1, <2>2, <3>1, <3>2 DEF SameAmount, Unit, Milli
    <3> QED
      BY <1>3, <2>2, <3>2, <3>3, <3>4, <3>5 DEF v1, s
  <2>3. CASE r = "power"
    <3>1. s.type = "float" /\ s.value = v /\ s.metric = "power"
      BY <1>2, <1>6, <2>3
    <3>2. usable <=> ~d.isVF /\ v >= 0
      BY <1>6, <3>1 DEF UsableFloat
    <3>3. legacyScalar(d, r, v) = IF d.isVF THEN Nil ELSE IF v < 0 THEN Nil ELSE <<v, Micro>>
      BY <1>6, <2>3 DEF legacyScalar, legacyReading, Scaled
    <3>4. <<v, Micro>> # Nil /\ (v < 0 <=> ~(v >= 0))
      BY <2>1, NotNil DEF Scaled, Micro
    <3>5. usable => SameAmount(v1[r], <<v, Micro>>)
      BY <1>3, <2>1, <2>3, <3>1 DEF SameAmount, Unit, Micro
    <3> QED
      BY <1>3, <2>3, <3>2, <3>3, <3>4, <3>5 DEF v1, s
  <2>4. CASE r = "utilization"
    <3>1. s.type = "float" /\ s.value = v * Milli /\ s.metric = "utilization"
      BY <1>2, <1>6, <2>4
    <3>2. v * Milli \in Int /\ (v * Milli >= 0 <=> v >= 0) /\ (v * Milli <= FullLoad <=> ~(v > 100))
      BY <2>1 DEF Milli, FullLoad
    <3>3. usable <=> d.compute /\ v >= 0 /\ ~(v > 100)
      <4>1. v * Milli \notin NonNumbers
        BY <3>2, NumbersAssumption
      <4> QED
        BY <3>1, <3>2, <4>1 DEF UsableFloat
    <3>4. legacyScalar(d, r, v) = IF d.compute THEN IF v < 0 THEN Nil ELSE <<v, 1>> ELSE Nil
      BY <1>6, <2>4 DEF legacyScalar, legacyReading, Scaled
    <3>5. <<v, 1>> # Nil /\ (v < 0 <=> ~(v >= 0))
      BY <2>1, NotNil DEF Scaled
    <3>6. usable => SameAmount(v1[r], <<v, 1>>)
      BY <1>3, <2>1, <2>4, <3>1, <3>2 DEF SameAmount, Unit, Milli
    <3> QED
      BY <1>3, <1>6, <2>4, <3>3, <3>4, <3>5, <3>6 DEF v1, s
  <2>5. CASE r = "memory_used"
    <3> DEFINE b == v * Gib
    <3>1. s.type = "int" /\ s.value = b /\ s.metric = "memory_used"
      BY <1>2, <1>6, <2>5
    <3>2. b \in Int /\ (b >= 0 <=> v >= 0)
      BY <2>1, Product
    <3>3. legacyScalar(d, r, v) =
            IF d.compute THEN IF v < 0 \/ b >= Modulus THEN Nil ELSE <<b, 1>> ELSE Nil
      BY <1>6, <2>5 DEF legacyScalar, legacyBytes, Scaled
    <3>4. r = "memory_used" /\ v \notin NonNumbers /\ v * Gib >= Modulus <=> b >= Modulus
      BY <1>6, <2>5
    <3> HIDE DEF b
    <3>5. usable <=> d.compute /\ v >= 0
      BY <3>1, <3>2 DEF UsableInt
    <3>6. <<b, 1>> # Nil /\ (v < 0 <=> ~(v >= 0))
      BY <2>1, <3>2, NotNil DEF Scaled
    <3>7. usable => SameAmount(v1[r], <<b, 1>>)
      BY <1>3, <2>5, <3>1, <3>2 DEF SameAmount, Unit
    <3> QED
      BY <1>3, <2>5, <3>3, <3>4, <3>5, <3>6, <3>7 DEF v1, s
  <2>6. CASE r = "power_state"
    <3>1. s.type = "int" /\ s.value = v /\ s.metric = "power_state"
      BY <1>2, <1>6, <2>6
    <3>2. usable <=> v >= 0
      BY <3>1 DEF UsableInt
    <3>3. legacyScalar(d, r, v) = IF v < 0 THEN Nil ELSE <<v, 1>>
      BY <1>6, <2>6 DEF legacyScalar, legacyReading, Scaled
    <3>4. <<v, 1>> # Nil /\ (v < 0 <=> ~(v >= 0))
      BY <2>1, NotNil DEF Scaled
    <3>5. usable => SameAmount(v1[r], <<v, 1>>)
      BY <1>3, <2>1, <2>6, <3>1 DEF SameAmount, Unit
    <3> QED
      BY <1>3, <2>6, <3>2, <3>3, <3>4, <3>5 DEF v1, s
  <2> QED
    BY <1>1, <2>2, <2>3, <2>4, <2>5, <2>6
<1> QED
  BY <1>5, <1>6

-----------------------------------------------------------------------------
AgreesRight(d, infos) == \A r \in LegacyScalars \ {"memory_total"} : ScalarRight(d, infos, r)

\* Whatever its success, a v0 device has the readings v1 would have given it.
LEMMA LegacyDeviceAgrees ==
  ASSUME NEW n, NEW succeeded, \A y \in DOMAIN call.infos : call.infos[y] \in LegacyDeviceInfo
  PROVE  AgreesRight([LegacyDeviceInfoOf(n) EXCEPT !.succeeded = succeeded], call.infos)
<1> DEFINE counted == [name |-> Item.name, bus |-> Item.bus, isVF |-> Item.isVf,
                       parent |-> Item.parent, compute |-> Item.npu,
                       numVFs |-> LegacyCount(Item, call.counts[call.pos]), mode |-> "",
                       state |-> "unspecified", succeeded |-> Item.name \notin call.linkFailures,
                       readings |-> NoReadings]
           cut == partitionMetadata(counted, n)
           linked == [cut EXCEPT !.readings = linkReadings(cut, @, LinkOf(Item.name))]
           info == IF Item.name \in DOMAIN call.infos THEN call.infos[Item.name] ELSE Nil
           own == IF info = Nil THEN NoReadings
                  ELSE IF info.errStatus = "SUCCEED" THEN legacyReadings(linked, info.scalars)
                  ELSE NoReadings
           good == IF info = Nil THEN FALSE ELSE info.errStatus = "SUCCEED"
           state(old) == IF info = Nil THEN old ELSE legacyState(info.devStatus)
           readings(old) == [r \in DOMAIN old \cup DOMAIN own |->
                               IF r \in DOMAIN own THEN own[r] ELSE old[r]]
           e == LegacyDeviceInfoOf(n)
           d == [e EXCEPT !.succeeded = succeeded]
<1>1. e = [linked EXCEPT !.state = state(@), !.succeeded = @ /\ good, !.readings = readings(@)]
  BY DEF LegacyDeviceInfoOf
<1>2. DOMAIN counted = DeviceFields /\ counted.name = Item.name /\ counted.readings = NoReadings
  BY DEF DeviceFields
<1> HIDE DEF counted
<1>3. DOMAIN cut = DeviceFields /\ cut.name = Item.name /\ cut.readings = NoReadings
  BY <1>2, PartitionKeeps
<1> HIDE DEF cut
<1>4. DOMAIN linked = DeviceFields /\ linked.name = Item.name /\ DOMAIN linked.readings \subseteq Static
  <2>1. DOMAIN NoReadings \subseteq Static
    BY DEF NoReadings
  <2>2. DOMAIN linkReadings(cut, cut.readings, LinkOf(Item.name)) \subseteq Static
    BY <1>3, <2>1, LinkStatic
  <2> QED
    BY <1>3, <2>2 DEF DeviceFields
<1>5. info = Nil \/ info \in LegacyDeviceInfo
  OBVIOUS
<1>6. own = IF good THEN legacyReadings(linked, info.scalars) ELSE NoReadings
  OBVIOUS
<1>7. /\ good <=> Item.name \in DOMAIN call.infos /\ call.infos[Item.name].errStatus = "SUCCEED"
      /\ good => info = call.infos[Item.name] /\ info \in LegacyDeviceInfo
  BY NilAssumption
<1> HIDE DEF linked, info, own, good, state
<1>8. /\ d.name = linked.name /\ d.isVF = linked.isVF /\ d.compute = linked.compute
      /\ d.readings = readings(linked.readings)
  <2> HIDE DEF readings
  <2>1. /\ DOMAIN e = DeviceFields /\ e.name = linked.name /\ e.isVF = linked.isVF
        /\ e.compute = linked.compute /\ e.readings = readings(linked.readings)
    BY <1>1, <1>4 DEF DeviceFields
  <2> HIDE DEF e
  <2> QED
    BY <2>1 DEF DeviceFields
<1> HIDE DEF d
<1> SUFFICES ASSUME NEW r \in LegacyScalars \ {"memory_total"} PROVE ScalarRight(d, call.infos, r)
  BY DEF AgreesRight, d
<1>9. r \notin Static
  BY DEF Static, LegacyScalars
<1>10. (r \in DOMAIN d.readings <=> r \in DOMAIN own) /\ (r \in DOMAIN own => d.readings[r] = own[r])
  BY <1>4, <1>8, <1>9
<1> HIDE DEF readings
<1>11. CASE ~good
  <2>1. r \notin DOMAIN own
    BY <1>6, <1>11 DEF NoReadings
  <2> QED
    BY <1>4, <1>7, <1>8, <1>10, <1>11, <2>1 DEF ScalarRight
<1>12. CASE good
  <2> DEFINE v == info.scalars[r]
             x == legacyScalar(linked, r, v)
  <2>1. v \in Int \cup NonNumbers
    BY <1>7, <1>12 DEF LegacyDeviceInfo
  <2>2. (r \in DOMAIN own <=> x # Nil) /\ (r \in DOMAIN own => own[r] = x)
    BY <1>6, <1>12 DEF legacyReadings
  <2> HIDE DEF v
  <2>3. applySample(linked, NoReadings, AsSample(linked.name, r, v))
          = applySample(d, NoReadings, AsSample(d.name, r, v))
    BY <1>8 DEF applySample, UsableFloat, UsableInt
  <2> DEFINE over == r = "utilization" /\ v \notin NonNumbers /\ v > 100
             huge == r = "memory_used" /\ v \notin NonNumbers /\ v * Gib >= Modulus
             v1 == applySample(d, NoReadings, AsSample(d.name, r, v))
  <2>4. IF x # Nil
        THEN ~huge /\ (over \/ (r \in DOMAIN v1 /\ SameAmount(v1[r], x)))
        ELSE huge \/ r \notin DOMAIN v1
    BY <2>1, <2>3, ConversionsAgree
  <2>5. d.name \in DOMAIN call.infos /\ call.infos[d.name].errStatus = "SUCCEED"
        /\ call.infos[d.name].scalars[r] = v
    BY <1>4, <1>7, <1>8, <1>12 DEF v
  <2>6. ScalarRight(d, call.infos, r) <=>
          IF r \in DOMAIN d.readings
          THEN ~huge /\ (over \/ (r \in DOMAIN v1 /\ SameAmount(v1[r], d.readings[r])))
          ELSE huge \/ r \notin DOMAIN v1
    BY <2>5 DEF ScalarRight
  <2> HIDE DEF over, huge, v1, x
  <2> QED
    BY <1>10, <2>2, <2>4, <2>6
<1> QED
  BY <1>11, <1>12

\* The readings of the devices merged so far.
ReadOK ==
  phase # "idle" =>
    /\ call.api = "v1" => /\ call.samples \in Seq(MetricSample)
                          /\ \A k \in DOMAIN call.merged : SampledRight(call.merged[k], call.samples)
                          /\ phase = "memory" => call.current.readings = NoReadings
    /\ call.api = "v0" => \A k \in DOMAIN call.merged : AgreesRight(call.merged[k], call.infos)

-----------------------------------------------------------------------------
LEMMA AbortReads ==
  ASSUME ControlOK, NEW code, Abort(code) PROVE ReadOK'
<1>1. NewCall.merged = <<>> /\ DOMAIN NewCall = CallFields
  BY CallShape DEF NewCall
<1>2. CASE call.api = "v1" /\ code = "Unimplemented"
  <2>1. call' = [NewCall EXCEPT !.api = "v0", !.wholeV1 = call.wholeV1]
    BY <1>2 DEF Abort
  <2>2. call'.merged = <<>> /\ call'.api = "v0"
    BY <1>1, <2>1 DEF CallFields
  <2> QED
    BY <2>2 DEF ReadOK
<1>3. CASE ~(call.api = "v1" /\ code = "Unimplemented")
  BY <1>3 DEF Abort, ReadOK
<1> QED
  BY <1>2, <1>3

\* A step that touches neither samples nor merged devices.
LEMMA SameReads ==
  ASSUME ReadOK, phase # "idle", phase' # "memory" \/ phase = "memory",
         call'.api = call.api, call'.samples = call.samples,
         call'.merged = call.merged, call'.infos = call.infos, call'.current = call.current
  PROVE  ReadOK'
BY DEF ReadOK

\* Before the loop there is nothing to read.
LEMMA FreshReads ==
  ASSUME phase' # "memory", call'.merged = <<>>,
         call'.api = "v1" => call'.samples \in Seq(MetricSample)
  PROVE  ReadOK'
BY DEF ReadOK

LEMMA PageReads ==
  ASSUME ReadOK, ControlOK, phase \in {"devices", "topology"},
         NEW c, NEW next, NEW method, NEW after \in {"topology", "merge", "group"},
         Page(c, next, method, after),
         DOMAIN c = CallFields, c.api = call.api, c.samples = call.samples,
         c.merged = call.merged, c.infos = call.infos, c.current = call.current
  PROVE  ReadOK'
<1>1. CASE Abort("repeated page token")
  BY <1>1, AbortReads
<1>2. CASE phase' \in {phase, after} /\ \E s : call' = [c EXCEPT !.seen = s]
  <2>1. /\ call'.api = call.api /\ call'.samples = call.samples /\ call'.merged = call.merged
        /\ call'.infos = call.infos /\ call'.current = call.current
    BY <1>2 DEF CallFields
  <2> QED
    BY <1>2, <2>1, SameReads
<1> QED
  BY <1>1, <1>2 DEF Page

LEMMA ReadStep == ASSUME ReadOK, DataOK, ControlOK, [Next]_vars PROVE ReadOK'
<1> DEFINE Same == /\ call'.api = call.api /\ call'.samples = call.samples
                   /\ call'.merged = call.merged /\ call'.infos = call.infos
                   /\ call'.current = call.current
<1>1. CASE GetDeviceInfo
  <2>1. phase' = "devices" /\ call' = [NewCall EXCEPT !.wholeV1 = Complete(served)]
    BY <1>1 DEF GetDeviceInfo
  <2>2. call'.merged = <<>> /\ call'.samples = <<>>
    BY <2>1 DEF NewCall
  <2>3. <<>> \in Seq(MetricSample)
    OBVIOUS
  <2> QED
    BY <2>1, <2>2, <2>3, FreshReads
<1>2. CASE DaemonChanges \/ MergeEnds \/ UNCHANGED vars
  <2>1. CASE phase = "idle"
    BY <1>2, <2>1 DEF DaemonChanges, MergeEnds, vars, ReadOK
  <2>2. CASE phase # "idle"
    <3>1. Same
      BY <1>2, <2>2 DEF DaemonChanges, MergeEnds, vars, ControlOK, CallFields
    <3>2. phase' # "memory" \/ phase = "memory"
      BY <1>2 DEF DaemonChanges, MergeEnds, vars
    <3> QED
      BY <2>2, <3>1, <3>2, SameReads
  <2> QED
    BY <2>1, <2>2
<1>3. CASE ListDevices
  <2>1. phase = "devices"
    BY <1>3 DEF ListDevices
  <2>2. CASE \E code \in Codes("v1", "ListDevices") : Abort(code)
    BY <1>3, <2>2, AbortReads DEF ListDevices
  <2>3. CASE ~\E code \in Codes("v1", "ListDevices") : Abort(code)
    <3>1. PICK page, items :
            Page([call EXCEPT !.inventory = @ \o items], page.next, "ListDevices", "topology")
      BY <1>3, <2>3 DEF ListDevices
    <3> DEFINE c == [call EXCEPT !.inventory = @ \o items]
    <3>2. /\ DOMAIN c = CallFields /\ c.api = call.api /\ c.samples = call.samples
          /\ c.merged = call.merged /\ c.infos = call.infos /\ c.current = call.current
      BY DEF ControlOK, CallFields
    <3> HIDE DEF c
    <3> QED
      BY <2>1, <3>1, <3>2, PageReads DEF c
  <2> QED
    BY <2>2, <2>3
<1>4. CASE ListTopology
  <2>1. phase = "topology"
    BY <1>4 DEF ListTopology
  <2>2. CASE \E code \in Codes("v1", "ListTopology") : Abort(code)
    BY <1>4, <2>2, AbortReads DEF ListTopology
  <2>3. CASE ~\E code \in Codes("v1", "ListTopology") : Abort(code)
    <3>1. PICK page \in TopologyPages :
            LET failed == Refs(page.unreachable)
                usable == {e \in Elements(page.entries) : e.device \notin failed}
                c == [call EXCEPT !.links = Linked(@, Keep(page.entries, usable)),
                                  !.linkFailures = @ \cup failed, !.faults = @ \cup failed]
            IN Page(c, page.next, "ListTopology", IF c.inventory = <<>> THEN "merge" ELSE "group")
      BY <1>4, <2>3 DEF ListTopology
    <3> DEFINE failed == Refs(page.unreachable)
               usable == {e \in Elements(page.entries) : e.device \notin failed}
               c == [call EXCEPT !.links = Linked(@, Keep(page.entries, usable)),
                                 !.linkFailures = @ \cup failed, !.faults = @ \cup failed]
               after == IF c.inventory = <<>> THEN "merge" ELSE "group"
    <3>2. /\ DOMAIN c = CallFields /\ c.api = call.api /\ c.samples = call.samples
          /\ c.merged = call.merged /\ c.infos = call.infos /\ c.current = call.current
      BY DEF ControlOK, CallFields
    <3>3. Page(c, page.next, "ListTopology", after) /\ after \in {"topology", "merge", "group"}
      BY <3>1
    <3> HIDE DEF failed, usable, c, after
    <3> QED
      BY <2>1, <3>2, <3>3, PageReads
  <2> QED
    BY <2>2, <2>3
<1>5. CASE EnsureMetricGroup
  <2>1. phase = "group" /\ ((\E code : Abort(code)) \/ (phase' = "sample" /\ call' = call))
    BY <1>5 DEF EnsureMetricGroup
  <2> QED
    BY <2>1, AbortReads, SameReads
<1>6. CASE SampleMetrics
  <2>1. phase = "sample"
    BY <1>6 DEF SampleMetrics
  <2>2. CASE \E code \in Codes("v1", "SampleMetrics") \cup {"NotFound"} : Abort(code)
    BY <1>6, <2>2, AbortReads DEF SampleMetrics
  <2>3. CASE ~\E code \in Codes("v1", "SampleMetrics") \cup {"NotFound"} : Abort(code)
    <3>0. PICK r \in SampleReplies : \E missing, kept :
            /\ call' = [call EXCEPT !.missing = missing, !.faults = @ \cup missing,
                                    !.samples = Keep(r.samples, kept)]
            /\ phase' = "merge"
      BY <1>6, <2>3 DEF SampleMetrics
    <3>1. PICK missing, kept :
            /\ call' = [call EXCEPT !.missing = missing, !.faults = @ \cup missing,
                                    !.samples = Keep(r.samples, kept)]
            /\ phase' = "merge"
      BY <3>0
    <3>2. r.samples \in Seq(MetricSample)
      BY RepliesAssumption DEF SampleMetricsResponse
    <3>3. Keep(r.samples, kept) \in Seq(MetricSample)
      BY <3>2, KeepType
    <3>4. call.merged = <<>>
      BY <2>1 DEF DataOK, StartOK, Early, Fresh
    <3>5. call'.merged = <<>> /\ call'.samples = Keep(r.samples, kept)
      BY <3>1, <3>4 DEF ControlOK, CallFields
    <3> QED
      BY <3>1, <3>3, <3>5, FreshReads
  <2> QED
    BY <2>2, <2>3
<1>7. CASE Skip /\ phase = "merge"
  <2>1. call' = [call EXCEPT !.pos = @ + 1, !.foreign = @ \cup {Item.name}] /\ phase' = "merge"
    BY <1>7 DEF Skip
  <2>2. Same
    BY <2>1 DEF ControlOK, CallFields
  <2> QED
    BY <1>7, <2>1, <2>2, SameReads
<1>8. CASE MergeVersion /\ ~Skip
  <2>1. phase = "merge" /\ call.api = "v1"
    BY <1>8 DEF MergeVersion
  <2>2. \/ /\ phase' = "memory"
           /\ call' = [call EXCEPT !.current = Merged] \/ call' = Failing(call, Merged)
        \/ \E code : Abort(code)
    BY <1>8 DEF MergeVersion
  <2>3. DOMAIN Merged = DeviceFields /\ Merged.readings = NoReadings
    BY DEF Merged, DeviceFields
  <2>4. CASE phase' = "memory"
             /\ (call' = [call EXCEPT !.current = Merged] \/ call' = Failing(call, Merged))
    <3>1. /\ call'.api = call.api /\ call'.samples = call.samples /\ call'.merged = call.merged
          /\ call'.current = Merged \/ call'.current = [Merged EXCEPT !.succeeded = FALSE]
      BY <2>4 DEF Failing, ControlOK, CallFields
    <3>2. call'.current.readings = NoReadings
      BY <2>3, <3>1 DEF DeviceFields
    <3> QED
      BY <2>1, <3>1, <3>2 DEF ReadOK
  <2> QED
    BY <2>2, <2>4, AbortReads
<1>9. CASE MergeMemory
  <2>1. phase = "memory" /\ call.api = "v1"
    BY <1>9 DEF MergeMemory, ControlOK, V1Phases
  <2>2. \/ phase' = "merge" /\ \E c \in {call, Failing(call, call.current)} : \E memory, n :
                                  call' = FinishV1(c, memory, n)
        \/ \E code : Abort(code)
    BY <1>9 DEF MergeMemory
  <2>3. /\ DOMAIN call.current = DeviceFields /\ call.current.readings = NoReadings
        /\ call.samples \in Seq(MetricSample)
        /\ \A k \in DOMAIN call.merged : SampledRight(call.merged[k], call.samples)
        /\ \E S : call.merged \in Seq(S)
    BY <2>1 DEF DataOK, MemoryOK, Progress, ReadOK
  <2>4. ASSUME NEW c \in {call, Failing(call, call.current)}, NEW memory, NEW n,
               call' = FinishV1(c, memory, n), phase' = "merge"
        PROVE  ReadOK'
    <3>1. /\ DOMAIN c = CallFields /\ c.api = call.api /\ c.samples = call.samples
          /\ c.merged = call.merged
          /\ c.current = call.current \/ c.current = [call.current EXCEPT !.succeeded = FALSE]
      BY DEF Failing, ControlOK, CallFields
    <3>2. DOMAIN c.current = DeviceFields /\ c.current.readings = NoReadings
      BY <2>3, <3>1 DEF DeviceFields
    <3>3. ReadsJoin(c, call')
      BY <2>3, <2>4, <3>1, <3>2, FinishReads
    <3>4. PICK d : /\ call' = [c EXCEPT !.merged = Append(@, d), !.pos = @ + 1, !.current = Nil]
                   /\ SampledRight(d, c.samples)
      BY <3>3 DEF ReadsJoin
    <3>5. /\ call'.api = call.api /\ call'.samples = call.samples
          /\ call'.merged = Append(call.merged, d)
      BY <3>1, <3>4 DEF CallFields
    <3>6. PICK S : call.merged \in Seq(S)
      BY <2>3
    <3> DEFINE G == {x \in S \cup {d} : SampledRight(x, call.samples)}
    <3>7. (\A k \in DOMAIN call.merged : call.merged[k] \in G) /\ d \in G
      BY <2>3, <3>1, <3>4, <3>6
    <3>8. \A x \in G : SampledRight(x, call.samples)
      OBVIOUS
    <3> HIDE DEF G
    <3>9. \A k \in DOMAIN Append(call.merged, d) : Append(call.merged, d)[k] \in G
      BY <3>6, <3>7, AppendKeeps
    <3> QED
      BY <2>1, <2>3, <2>4, <3>5, <3>8, <3>9 DEF ReadOK
  <2> QED
    BY <2>2, <2>4, AbortReads
<1>10. CASE SupplementLegacyStates
  <2>1. phase = "supplement" /\ phase' = "record" /\ call.api = "v1"
    BY <1>10 DEF SupplementLegacyStates, ControlOK, V1Phases
  <2>2. \A k \in DOMAIN call.merged : DOMAIN call.merged[k] = DeviceFields
    BY <2>1 DEF DataOK, MergeOK, Progress
  <2>3. call' = call \/ \E infos, faults :
          call' = [call EXCEPT !.merged = Supplemented(infos), !.infos = infos, !.faults = faults]
    BY <1>10 DEF SupplementLegacyStates
  <2>4. CASE call' = call
    BY <2>1, <2>4, SameReads
  <2>5. ASSUME NEW infos, NEW faults,
               call' = [call EXCEPT !.merged = Supplemented(infos), !.infos = infos,
                                    !.faults = faults]
        PROVE  ReadOK'
    <3>1. /\ call'.api = call.api /\ call'.samples = call.samples
          /\ call'.merged = Supplemented(infos)
      BY <2>5 DEF ControlOK, CallFields
    <3>2. DOMAIN Supplemented(infos) = DOMAIN call.merged
      BY DEF Supplemented
    <3>3. ASSUME NEW k \in DOMAIN call.merged
          PROVE  /\ Supplemented(infos)[k].name = call.merged[k].name
                 /\ Supplemented(infos)[k].isVF = call.merged[k].isVF
                 /\ Supplemented(infos)[k].compute = call.merged[k].compute
                 /\ Supplemented(infos)[k].readings = call.merged[k].readings
      BY <2>2 DEF Supplemented, DeviceFields
    <3> DEFINE m == Supplemented(infos)
    <3> HIDE DEF m
    <3>4. ASSUME NEW k \in DOMAIN m PROVE SampledRight(m[k], call.samples)
      <4>1. /\ k \in DOMAIN call.merged /\ m[k].name = call.merged[k].name
            /\ m[k].isVF = call.merged[k].isVF /\ m[k].compute = call.merged[k].compute
            /\ m[k].readings = call.merged[k].readings
        BY <3>2, <3>3 DEF m
      <4>2. SampledRight(call.merged[k], call.samples)
        BY <2>1, <4>1 DEF ReadOK
      <4> QED
        BY <4>1, <4>2 DEF SampledRight, Meaningful
    <3> QED
      BY <2>1, <3>1, <3>4 DEF ReadOK, m
  <2> QED
    BY <2>3, <2>4, <2>5
<1>11. CASE LegacyDevices \/ LegacyTotalInfo \/ LegacyTopology
  <2>1. phase \in V0Phases /\ call.api = "v0" /\ phase # "memory"
    BY <1>11 DEF LegacyDevices, LegacyTotalInfo, LegacyTopology, ControlOK, V0Phases
  <2>2. call.merged = <<>>
    BY <2>1 DEF DataOK, StartOK, Early, Fresh
  <2>3. \/ \E code : Abort(code)
        \/ call'.merged = call.merged /\ call'.api = "v0" /\ phase' # "memory"
    <3>1. CASE LegacyDevices
      BY <2>1, <3>1 DEF LegacyDevices, ControlOK, CallFields
    <3>2. CASE LegacyTotalInfo
      BY <2>1, <3>2 DEF LegacyTotalInfo, ControlOK, CallFields
    <3>3. CASE LegacyTopology
      BY <2>1, <3>3 DEF LegacyTopology, ControlOK, CallFields
    <3> QED
      BY <1>11, <3>1, <3>2, <3>3
  <2> QED
    BY <2>2, <2>3, AbortReads, FreshReads
<1>12. CASE MergeLegacy /\ ~Skip
  <2>1. phase = "merge" /\ call.api = "v0"
    BY <1>12 DEF MergeLegacy
  <2>2. /\ \A y \in DOMAIN call.infos : call.infos[y] \in LegacyDeviceInfo
        /\ \A k \in DOMAIN call.merged : AgreesRight(call.merged[k], call.infos)
        /\ \E S : call.merged \in Seq(S)
    BY <2>1 DEF DataOK, InfosOK, MergeOK, Progress, ReadOK
  <2>4. ASSUME NEW n, NEW s, NEW missing, NEW faults,
               call' = [call EXCEPT !.merged = Append(@, [LegacyDeviceInfoOf(n) EXCEPT !.succeeded = s]),
                                    !.missing = missing, !.pos = @ + 1, !.faults = faults]
        PROVE  ReadOK'
    <3> DEFINE d == [LegacyDeviceInfoOf(n) EXCEPT !.succeeded = s]
    <3>1. AgreesRight(d, call.infos)
      BY <2>2, LegacyDeviceAgrees
    <3> HIDE DEF d
    <3>2. /\ call'.api = "v0" /\ call'.infos = call.infos
          /\ call'.merged = Append(call.merged, d)
      BY <2>1, <2>4 DEF ControlOK, CallFields, d
    <3>3. PICK S : call.merged \in Seq(S)
      BY <2>2
    <3> DEFINE G == {x \in S \cup {d} : AgreesRight(x, call.infos)}
    <3>4. (\A k \in DOMAIN call.merged : call.merged[k] \in G) /\ d \in G
      BY <2>2, <3>1, <3>3
    <3>5. \A x \in G : AgreesRight(x, call.infos)
      OBVIOUS
    <3> HIDE DEF G
    <3>6. \A k \in DOMAIN Append(call.merged, d) : Append(call.merged, d)[k] \in G
      BY <3>3, <3>4, AppendKeeps
    <3> QED
      BY <3>2, <3>5, <3>6 DEF ReadOK
  <2>5. CASE \E code : Abort(code)
    BY <2>5, AbortReads
  <2>6. CASE ~\E code : Abort(code)
    <3>1. PICK n \in SysfsCounts, code \in Codes("v0", "GetVersion"),
               reply \in LegacyVersionInfo :
            LET d == LegacyDeviceInfoOf(n)
                lost == {d.name} \ DOMAIN call.infos
                failed == \/ deviceUnavailable(code)
                          \/ code = "OK" /\ reply.errStatus # "SUCCEED"
                reported == IF lost # {} THEN TRUE
                            ELSE call.infos[d.name].errStatus # "SUCCEED"
            IN call' = [call EXCEPT !.merged = Append(@, [d EXCEPT !.succeeded = d.succeeded /\ ~failed]),
                                    !.missing = @ \cup lost, !.pos = @ + 1,
                                    !.faults = @ \cup IF failed \/ reported THEN {d.name} ELSE {}]
      BY <1>12, <2>6 DEF MergeLegacy
    <3> DEFINE e == LegacyDeviceInfoOf(n)
               gone == {e.name} \ DOMAIN call.infos
               bad == \/ deviceUnavailable(code)
                      \/ code = "OK" /\ reply.errStatus # "SUCCEED"
               told == IF gone # {} THEN TRUE ELSE call.infos[e.name].errStatus # "SUCCEED"
               ok == e.succeeded /\ ~bad
               m == call.missing \cup gone
               f == call.faults \cup IF bad \/ told THEN {e.name} ELSE {}
    <3>2. call' = [call EXCEPT !.merged = Append(@, [LegacyDeviceInfoOf(n) EXCEPT !.succeeded = ok]),
                               !.missing = m, !.pos = @ + 1, !.faults = f]
      BY <3>1
    <3> HIDE DEF ok, m, f
    <3> QED
      BY <2>4, <3>2
  <2> QED
    BY <2>5, <2>6
<1>13. CASE Return
  BY <1>13 DEF Return, ReadOK
<1>14. (MergeVersion \/ MergeLegacy) /\ Skip => phase = "merge"
  BY DEF MergeVersion, MergeLegacy
<1> QED
  BY <1>1, <1>2, <1>3, <1>4, <1>5, <1>6, <1>7, <1>8, <1>9, <1>10, <1>11, <1>12, <1>13, <1>14
     DEF Next, Step, CollectV1, CollectV0

\* The readings agree with their sources throughout.
THEOREM ReadInvariance == Spec => []ReadOK
<1>1. Init => ReadOK
  BY DEF Init, ReadOK
<1>2. ReadOK /\ DataOK /\ ControlOK /\ [Next]_vars => ReadOK'
  BY ReadStep
<1> QED
  BY <1>1, <1>2, ControlInvariance, DataInvariance, PTL DEF Spec

\* Whatever samples the daemon returns, in whatever order: a v1 device has the last
\* meaningful one of each quantity it has, and nothing else (client.go 104-116, 152-163,
\* 237-276).
THEOREM ReadingsAreLastGood == Spec => []LastGoodSampleWins
<1>1. ReadOK => LastGoodSampleWins
  BY DEF ReadOK, LastGoodSampleWins, SampledRight, Static
<1> QED
  BY <1>1, ReadInvariance, PTL

\* For every GiB and every width of an integer: a v0 device has the readings it would have
\* from v1 samples of the same measurements, but for the two exceptions the property names
\* (client.go 237-276, legacy.go 211-232, 251-265).
THEOREM FallbackKeepsReadings == Spec => []ApisAgree
<1>1. ReadOK => ApisAgree
  BY DEF ReadOK, ApisAgree, AgreesRight, ScalarRight
<1> QED
  BY <1>1, ReadInvariance, PTL
=============================================================================
