--------------------------- MODULE MCDaemonClient ---------------------------
(***************************************************************************)
(* Two cards whose inventory, states, topology and telemetry come and go,  *)
(* of a daemon that is replaced by other versions.  Once the second is a   *)
(* VF of the first.  Samples and scalars lie at and beyond the boundaries  *)
(* of their quantities; a GiB has 4 bytes and a uint64 ends at 400 here,   *)
(* since TLC's integers have 32 bits.                                      *)
(***************************************************************************)
EXTENDS DaemonClient

CONSTANTS NaN, Inf

NotNumbers == {NaN, Inf}

A == "rbln0"
B == "rbln1"
TwoNames == {A, B}
TwoBuses == {"p0", "p1"}
TwoTokens == {"t", "u"}
NoSet == {}

Full == [v1 |-> V1Methods, v0 |-> V0Methods]
Oldest == [v1 |-> {}, v0 |-> {"GetDeviceList", "GetTotalInfo"}]
AllVersions == {Full, Oldest}

Size == [totalBytes |-> 1]
V == [drv |-> "text", fw |-> "text", smc |-> "text"]
Sizes == {[memory |-> Size]}

Device(n, state, versions, memory) ==
  [name |-> n, bus |-> IF n = A THEN "p0" ELSE "p1", isVf |-> FALSE, parent |-> "",
   npu |-> TRUE, state |-> state, versions |-> versions, memory |-> memory]
Hosting(n, state) == [Device(n, state, V, Size) EXCEPT !.npu = FALSE]
VF(n, parent, state) == [Device(n, state, V, Size) EXCEPT !.isVf = TRUE, !.parent = parent]
Lost(ns) == [ref: ns]
DevicesPage(items, lost, next) == [items |-> items, unreachable |-> Lost(lost), next |-> next]
LinksPage(n, lost, next) ==
  [entries |-> <<[device |-> n, speed |-> 16, width |-> Nil]>>, unreachable |-> Lost(lost),
   next |-> next]
Sample(n, m, t, v) == [device |-> n, metric |-> m, type |-> t, value |-> v]
SomeSampled ==
  {[samples |->
      <<Sample(A, "temperature", "float", 5), Sample(A, "temperature", "float", Inf),
        Sample(A, "utilization", "float", FullLoad), Sample(A, "utilization", "float", FullLoad + 1),
        Sample(NoName, "power", "float", 1), Sample(B, "power", "float", 5),
        Sample(B, "power", "float", -1), Sample(B, "memory_used", "int", -1)>>,
    unreachable |-> Lost({})],
   [samples |->
      <<Sample(A, "utilization", "float", 0), Sample(A, "utilization", "float", NaN),
        Sample(A, "temperature", "float", -5), Sample(A, "memory_used", "int", 7),
        Sample(A, "power_state", "int", 0), Sample(A, "power_state", "float", 1),
        Sample(A, "clock_dc_0", "float", 1), Sample(B, "power", "float", 5)>>,
    unreachable |-> Lost({B})]}

OldDevice(n) == [name |-> n, bus |-> IF n = A THEN "p0" ELSE "p1", isVf |-> FALSE,
                 parent |-> "", numVfs |-> 0]
Info(n, dev, err, scalars) ==
  [name |-> n, devStatus |-> dev, errStatus |-> err, scalars |-> scalars]
Scalars(temperature, power, total, used, utilization, state) ==
  [temperature |-> temperature, power |-> power, memory_total |-> total, memory_used |-> used,
   utilization |-> utilization, power_state |-> state]
OldLink(n, error) == [device |-> n, error |-> error, speed |-> 16, width |-> 4]

DevicesReplies ==
  {DevicesPage(<<Device(A, "ready", V, Size), Device(B, "ready", Nil, Size)>>, {}, ""),
   DevicesPage(<<Device(A, "fault", V, Nil), Device(B, "ready", V, Size)>>, {B}, ""),
   DevicesPage(<<Hosting(A, "unspecified"), VF(B, A, "future")>>, {}, ""),
   DevicesPage(<<>>, {}, "t"), DevicesPage(<<>>, {}, "u")}
TopologyReplies == {LinksPage(A, {}, ""), LinksPage(A, {B}, "t")}
OldLists == {<<OldDevice(A), OldDevice(B)>>}
OldInfos ==
  {<<Info(A, "FAULT", "SUCCEED", Scalars(-5, NaN, 99, 101, 100, -1))>>,
   <<Info(A, "READY", "FAILED", Scalars(0, 0, 0, 0, 0, 0)),
     Info(B, "NOT_FOUND", "SUCCEED", Scalars(Inf, 5, -1, 99, 101, 14))>>}
OldTopologies == {<<OldLink(A, TRUE), OldLink(B, FALSE)>>}
Drivers == {Nil, "vfio-pci"}
Unset == {Nil}
Uncut == {0}
=============================================================================
