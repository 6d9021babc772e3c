------------------------------ MODULE MCScrape ------------------------------
(***************************************************************************)
(* A scrape against a node whose only card is ready, missing, or faulty    *)
(* and cut into a VF.                                                      *)
(***************************************************************************)
EXTENDS Scrape

PF == <<"rbln0">>
VF == <<"rbln0", "0">>

Device(isVF, mode, compute, state) ==
  [isVF |-> isVF, mode |-> mode, compute |-> compute, state |-> state,
   succeeded |-> state # "fault", readings |-> [r \in {} |-> 0]]

Card(state) == [n \in {PF} |-> Device(FALSE, "none", TRUE, state)]
Cut == [n \in {PF, VF} |-> IF n = PF THEN Device(FALSE, "hosting", FALSE, "fault")
                            ELSE Device(TRUE, "vf4", TRUE, "unspecified")]

MCInventories == {Card("ready"), Cut, NoInventory}
ReadyOrFaulty == {Card("ready"), Card("fault")}
MCResponses == {NoResponse}
MCMetrics == <<"DeviceHealth", "DeviceCollection">>
OnlyHealth == <<"DeviceHealth">>
=============================================================================
