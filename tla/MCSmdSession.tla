---------------------------- MODULE MCSmdSession ----------------------------
(***************************************************************************)
(* Inventories that grow, shrink and shift while they are paged through    *)
(* one by one.                                                             *)
(***************************************************************************)
EXTENDS SmdSession

A == "rbln0"
B == "rbln1"
ThreeNames == {A, B, "rbln2"}
OneBus == {"p0"}
OneGroup == {"g"}
OneClient == {"c1"}
Offsets == {"1", "2"}
NoSet == {}
AnySize == {0, 1}

Card(n, versions, memory) ==
  [name |-> n, bus |-> "p0", isVf |-> FALSE, parent |-> "", npu |-> TRUE, state |-> "ready",
   versions |-> versions, memory |-> memory]
Full(n) == Card(n, TestVersion, [totalBytes |-> 35])
Bare(n) == Card(n, Nil, Nil)
Link(n) == [device |-> n, speed |-> 16, width |-> 4]
OldCard(n) == [name |-> n, bus |-> "p0", isVf |-> FALSE, parent |-> "", numVfs |-> 0]
OldInfo(n) == [name |-> n, devStatus |-> "READY", errStatus |-> "SUCCEED",
               scalars |-> [r \in LegacyScalars |-> 0]]
OldLink(n) == [device |-> n, error |-> n = B, speed |-> 16, width |-> 4]

Each(Op(_), names) == [i \in DOMAIN names |-> Op(names[i])]
Of(names, Op(_)) ==
  [devices |-> Each(Op, names), entries |-> Each(Link, names), samples |-> <<>>,
   oldDevices |-> Each(OldCard, names), oldInfos |-> Each(OldInfo, names),
   oldEntries |-> Each(OldLink, names), unreachable |-> {}, topologyUnreachable |-> {},
   groupUnreachable |-> {}]

\* Inventories that shift under the listing, and cards that have to be asked.
Changing ==
  {Of(<<A, B>>, Full), Of(<<A, B, "rbln2">>, Full), Of(<<B>>, Full), Of(<<>>, Full),
   Of(<<A, B>>, Bare),
   [Of(<<A>>, Bare) EXCEPT !.unreachable = [ref: {A}], !.topologyUnreachable = [ref: {B}],
                           !.groupUnreachable = [ref: OneGroup]]}

Flaky == {<<<<"v1", "GetVersion">>, "NotFound">>, <<<<"v1", "GetMemorySpec">>, "Internal">>,
          <<<<"v1", "SampleMetrics">>, "Unimplemented">>,
          <<<<"v0", "GetTotalInfo">>, "Internal">>,
          <<<<"v0", "RblnListTopology">>, "Unimplemented">>,
          <<<<"v0", "GetVersion">>, "NotFound">>}
=============================================================================
