--------------------------- MODULE PartitionRules ---------------------------
(***************************************************************************)
(* The decisions of internal/daemon/partition.go and of legacyInventory    *)
(* (internal/daemon/legacy.go), as functions of what was listed by the     *)
(* daemon and what each read of sysfs returned.  A device is a record with *)
(*   name, bus, isVF, parent   its identity as inventoried;                *)
(*   compute                   it is a usable NPU;                         *)
(*   numVFs                    enabled children, Nil when unknown;         *)
(*   mode                      partition_mode, "" when unknown.            *)
(* A read that fails returns Nil.                                          *)
(***************************************************************************)
EXTENDS SmdApi

CONSTANT PCIDevicesPath   \* sysfs may be read: FALSE in gateway mode

ASSUME PCIDevicesPathAssumption == PCIDevicesPath \in BOOLEAN

NativeDriver == "rebellions"
Profile(n) == CASE n = 1 -> "vf1" [] n = 4 -> "vf4" [] OTHER -> ""

\* foreignDriver, from the target of the driver link.
foreignDriver(driver) == PCIDevicesPath /\ driver # Nil /\ driver # NativeDriver

\* The part of partitionMetadata that needs no sysfs.
PartitionRole(d) ==
  [d EXCEPT !.numVFs = IF d.isVF \/ d.compute THEN 0 ELSE @,
            !.mode = IF d.isVF THEN @ ELSE IF d.compute THEN "none" ELSE "hosting"]

\* The parent sysfs names is the one the daemon inventoried.
parentMatches(d, inventory, physfn) ==
  \E i \in DOMAIN inventory :
    /\ inventory[i].name = d.parent
    /\ ~inventory[i].isVf
    /\ inventory[i].bus = physfn

\* The effect of the count read from sriov_numvfs, the VF's from its parent's.
applyCount(d, n) ==
  IF d.isVF
  THEN [d EXCEPT !.numVFs = 0, !.mode = IF n \in {1, 4} THEN Profile(n) ELSE @]
  ELSE [d EXCEPT !.numVFs = n, !.compute = IF n > 0 THEN FALSE ELSE @,
                 !.mode = IF n > 0 THEN "hosting" ELSE @]

-----------------------------------------------------------------------------
\* legacyInventory, before sysfs is read: a v0 device is a usable NPU unless the
\* daemon counts VFs on it.
LegacyItem(raw) ==
  [name |-> raw.name, bus |-> raw.bus, isVf |-> raw.isVf, parent |-> raw.parent,
   npu |-> raw.isVf \/ raw.numVfs = 0]

\* Mutation of ClassifyLegacy: the parent a VF names keeps its npu_id.
ClassifyLegacyKeepingParent(inventory, i, physfn) ==
  LET found == {p \in DOMAIN inventory : inventory[p].bus = physfn}
      child == IF physfn = Nil THEN inventory[i]
               ELSE [inventory[i] EXCEPT !.isVf = TRUE,
                       !.parent = IF found = {} THEN @
                                  ELSE inventory[CHOOSE p \in found : TRUE].name]
  IN [p \in DOMAIN inventory |-> IF p = i THEN child ELSE inventory[p]]

\* One iteration of legacyInventory's second loop, with the physfn link of device i:
\* a child found in sysfs becomes a VF, and the parent of a VF is no usable NPU.
ClassifyLegacy(inventory, i, physfn) ==
  LET found == {p \in DOMAIN inventory : inventory[p].bus = physfn}
      child == IF physfn = Nil THEN inventory[i]
               ELSE [inventory[i] EXCEPT !.isVf = TRUE,
                       !.parent = IF found = {} THEN @
                                  ELSE inventory[CHOOSE p \in found : TRUE].name]
      hosts == {p \in DOMAIN inventory :
                  \/ physfn # Nil /\ p \in found
                  \/ child.isVf /\ child.parent # NoName /\ inventory[p].name = child.parent}
  IN [p \in DOMAIN inventory |->
        LET item == IF p = i THEN child ELSE inventory[p]
        IN IF p \in hosts THEN [item EXCEPT !.npu = FALSE] ELSE item]

\* collectV0: a hosting PF whose daemon reports no count has no count.
LegacyCount(item, numVfs) ==
  IF ~item.isVf /\ ~item.npu /\ numVfs = 0 THEN Nil ELSE numVfs
=============================================================================
