--------------------------- MODULE MCLocalExporter --------------------------
(***************************************************************************)
(* A node whose card is ready and claimed: by one pod or the other, by     *)
(* both, or in part through a VF it does not have.                         *)
(***************************************************************************)
EXTENDS LocalExporter

PF == <<"rbln0">>
VF == <<"rbln0", "0">>

Device(isVF, mode, compute, state, succeeded, readings) ==
  [isVF |-> isVF, mode |-> mode, compute |-> compute, state |-> state,
   succeeded |-> succeeded, readings |-> readings]

AllReadings == [r \in {"temperature", "power", "memory_used", "memory_total",
                       "utilization", "power_state", "link_speed", "link_width"} |-> 2]

OneCard == {[n \in {PF} |-> Device(FALSE, "none", TRUE, "ready", TRUE, AllReadings)]}

Pod(p) == [namespace |-> 1, name |-> p, container |-> 1]
DRA(id, p) == [id |-> id, dra |-> TRUE, ours |-> TRUE, mode |-> "", pod |-> Pod(p)]

TwoResponses == {<<DRA(PF, 1)>>, <<DRA(PF, 2)>>}
MixedResponses == {<<DRA(PF, 2), DRA(PF, 1)>>,
                   <<DRA(PF, 2), DRA(Append(VF, "vf4"), 2), DRA(Append(VF, "vf4"), 1)>>}
TwoMetrics == <<"DeviceHealth", "SharedDevice">>
=============================================================================
