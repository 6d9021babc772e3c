---------------------------- MODULE MCRepartition ---------------------------
(***************************************************************************)
(* Two cards, the first with a VF whenever it is cut.  The daemon lists it *)
(* whole, cut, cut but with the cards renumbered, or (v0) with no VF data. *)
(***************************************************************************)
EXTENDS Repartition

DeviceNames == {"rbln0", "rbln1", "rbln0-0"}
Cards == {"p0", "p1"}
Functions == {"p0", "p1", "v0"}
NoSet == {}
Owner == [v \in {"v0"} |-> "p0"]
Ordinal == [v \in {"v0"} |-> 0]
Cuts == {1, 4}
AllDrivers == {"rebellions", "vfio-pci"}

Item(name, bus, isVf, parent, npu) ==
  [name |-> name, bus |-> bus, isVf |-> isVf, parent |-> parent, npu |-> npu,
   state |-> "ready", versions |-> [drv |-> "text", fw |-> "text", smc |-> "text"], memory |-> Nil]

V1Listings ==
  {<<Item("rbln0", "p0", FALSE, "", TRUE)>>,
   <<Item("rbln0", "p0", FALSE, "", FALSE), Item("rbln0-0", "v0", TRUE, "rbln0", TRUE)>>,
   <<Item("rbln0", "p1", FALSE, "", FALSE), Item("rbln1", "p0", FALSE, "", TRUE),
     Item("rbln0-0", "v0", TRUE, "rbln0", TRUE)>>}

Old(name, bus, isVf, parent, numVfs) ==
  [name |-> name, bus |-> bus, isVf |-> isVf, parent |-> parent, numVfs |-> numVfs]

V0Listings ==
  {<<Old("rbln0", "p0", FALSE, "", 0), Old("rbln0-0", "v0", FALSE, "", 0)>>,
   <<Old("rbln0", "p0", FALSE, "", 4), Old("rbln0-0", "v0", TRUE, "rbln0", 0)>>}
=============================================================================
