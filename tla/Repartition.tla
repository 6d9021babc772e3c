----------------------------- MODULE Repartition ----------------------------
(***************************************************************************)
(* A collection's reads of sysfs (internal/daemon/partition.go and the     *)
(* physfn links of legacyInventory) while the node is being repartitioned  *)
(* and functions are bound to other drivers.  Each Readlink and ReadFile   *)
(* is a step of its own; the inventory it is matched with was listed       *)
(* before, and may itself lag behind the hardware.                         *)
(***************************************************************************)
EXTENDS PartitionRules

CONSTANTS
  PFs,             \* the PCI addresses of physical functions
  ParentOf,        \* of each VF address, the PF it is created on
  IndexOf,         \* of each VF address, how many VFs of its PF come before it
  Counts,          \* the numbers of VFs a PF can be cut into
  Drivers,         \* drivers a function can be bound to
  Listings,        \* the v1 inventories the daemon may list
  LegacyListings   \* the v0 device lists it may send

VFs == DOMAIN ParentOf

ASSUME HardwareAssumption ==
  /\ PFs \cup VFs \subseteq Buses
  /\ ParentOf \in [VFs -> PFs] /\ IndexOf \in [VFs -> Nat]
  /\ Counts \subseteq Nat \ {0}
ASSUME ListingsAssumption ==
  Listings \subseteq Seq(DeviceInfo) /\ LegacyListings \subseteq Seq(LegacyDevice)
\* listDevices and legacyDevices drop a device without a name.
ASSUME NamedAssumption ==
  \A l \in Listings \cup LegacyListings : \A i \in DOMAIN l : l[i].name # NoName
\* The v1 daemon (external) gives no npu_id to both a VF and the PF it names.  The v0
\* daemon may: legacyInventory sorts that out.
ASSUME NpuAssumption ==
  \A l \in Listings : \A v, p \in DOMAIN l :
    l[v].isVf /\ l[v].npu /\ ~l[p].isVf /\ l[p].name = l[v].parent => ~l[p].npu

VARIABLES
  numvfs,      \* sriov_numvfs of each PF
  driver,      \* the driver each function is bound to, or Nil
  phase,       \* the next read of the collection
  inventory,   \* what was listed, for v0 as legacyInventory has classified it
  counts,      \* the v0 num_vfs of each listed device, Nil for v1
  pos,         \* index of the device being handled
  current,     \* the device being built
  source,      \* the address whose sriov_numvfs is read for it
  published,   \* the devices finished
  inForce,     \* history: <<PF, count>> pairs in force since the listing
  existed,     \* history: the VFs that existed since the listing
  native       \* history: the functions without a foreign driver at some moment since it

sysfs == <<numvfs, driver>>
collection == <<phase, inventory, counts, pos, current, source, published>>
history == <<inForce, existed, native>>
vars == <<sysfs, collection, history>>

Exists(v) == IndexOf[v] < numvfs[ParentOf[v]]
Foreign(d) == d # Nil /\ d # NativeDriver

InForceNow == {<<p, numvfs[p]>> : p \in PFs}
ExistingNow == {v \in VFs : Exists(v)}
NativeNow == {b \in Buses : ~Foreign(driver[b])}

NoDevice == [name |-> NoName, bus |-> Nil, isVF |-> FALSE, parent |-> NoName,
             compute |-> FALSE, numVFs |-> Nil, mode |-> ""]

Init ==
  /\ numvfs \in [PFs -> Counts \cup {0}]
  /\ driver = [b \in Buses |-> IF b \in PFs THEN NativeDriver
                               ELSE IF Exists(b) THEN NativeDriver ELSE Nil]
  /\ phase = "idle"
  /\ inventory = <<>> /\ counts = <<>> /\ pos = 1
  /\ current = NoDevice /\ source = Nil /\ published = {}
  /\ inForce = {} /\ existed = {} /\ native = {}

-----------------------------------------------------------------------------
\* The administrator's side (external).  A count is changed through 0 only; new
\* functions are probed by the native driver.
Remember ==
  /\ inForce' = inForce \cup {<<p, numvfs'[p]>> : p \in PFs}
  /\ existed' = existed \cup {v \in VFs : IndexOf[v] < numvfs'[ParentOf[v]]}
  /\ native' = native \cup {b \in Buses : ~Foreign(driver'[b])}

SetNumVfs(p, n) ==
  /\ (numvfs[p] = 0) # (n = 0)
  /\ numvfs' = [numvfs EXCEPT ![p] = n]
  /\ driver' = [b \in Buses |-> IF b \in VFs /\ ParentOf[b] = p
                                THEN IF IndexOf[b] < n THEN NativeDriver ELSE Nil
                                ELSE driver[b]]
  /\ Remember
  /\ UNCHANGED collection

Bind(b, d) ==
  /\ b \in PFs \cup ExistingNow
  /\ driver' = [driver EXCEPT ![b] = d]
  /\ UNCHANGED numvfs
  /\ Remember
  /\ UNCHANGED collection

SysfsChanges ==
  \/ \E p \in PFs, n \in Counts \cup {0} : SetNumVfs(p, n)
  \/ \E b \in Buses, d \in Drivers \cup {Nil} : Bind(b, d)

-----------------------------------------------------------------------------
Begin(items, nums, first) ==
  /\ phase = "idle"
  /\ inventory' = items
  /\ counts' = nums
  /\ pos' = 1
  /\ published' = {}
  /\ phase' = first
  /\ inForce' = InForceNow /\ existed' = ExistingNow /\ native' = NativeNow
  /\ UNCHANGED <<sysfs, current, source>>

\* The daemon's answer is in; collectV1 goes through its devices.
ListV1 == \E l \in Listings : Begin(l, [i \in DOMAIN l |-> Nil], "driver")

\* collectV0 hands the v0 list to legacyInventory.
ListV0 == \E l \in LegacyListings :
            Begin([i \in DOMAIN l |-> LegacyItem(l[i])], [i \in DOMAIN l |-> l[i].numVfs],
                  "classify")

\* legacyInventory reads the physfn link of the next device.
ReadLegacyPhysfn ==
  /\ phase = "classify"
  /\ pos <= Len(inventory)
  /\ LET bus == inventory[pos].bus
         physfn == IF PCIDevicesPath /\ bus \in VFs
                   THEN IF Exists(bus) THEN ParentOf[bus] ELSE Nil ELSE Nil
     IN inventory' = ClassifyLegacy(inventory, pos, physfn)
  /\ pos' = pos + 1
  /\ UNCHANGED <<sysfs, phase, counts, current, source, published, history>>

LegacyClassified ==
  /\ phase = "classify"
  /\ pos > Len(inventory)
  /\ pos' = 1
  /\ phase' = "driver"
  /\ UNCHANGED <<sysfs, inventory, counts, current, source, published, history>>

\* The device as listed, before its partition is looked at.
Listed(i) ==
  [name |-> inventory[i].name, bus |-> inventory[i].bus, isVF |-> inventory[i].isVf,
   parent |-> inventory[i].parent, compute |-> inventory[i].npu,
   numVFs |-> IF counts[i] = Nil THEN Nil ELSE LegacyCount(inventory[i], counts[i]),
   mode |-> ""]

\* Mutation of ReadDriver: the driver is not looked at.
ReadDriverIgnored ==
  /\ phase = "driver"
  /\ pos <= Len(inventory)
  /\ LET d == PartitionRole(Listed(pos))
     IN /\ current' = d
        /\ source' = d.bus
        /\ phase' = IF ~PCIDevicesPath THEN "finish" ELSE IF d.isVF THEN "physfn" ELSE "count"
        /\ pos' = pos
  /\ UNCHANGED <<sysfs, inventory, counts, published, history>>

\* foreignDriver reads the driver link: a function bound elsewhere is left out.
ReadDriver ==
  /\ phase = "driver"
  /\ pos <= Len(inventory)
  /\ LET d == PartitionRole(Listed(pos))
     IN IF foreignDriver(driver[d.bus])
        THEN pos' = pos + 1 /\ UNCHANGED <<phase, current, source>>
        ELSE /\ current' = d
             /\ source' = d.bus
             /\ phase' = IF ~PCIDevicesPath THEN "finish" ELSE IF d.isVF THEN "physfn" ELSE "count"
             /\ pos' = pos
  /\ UNCHANGED <<sysfs, inventory, counts, published, history>>

\* Mutation of ReadPhysfn: the parent is not compared with the inventory.
ReadPhysfnTrusting ==
  /\ phase = "physfn"
  /\ LET physfn == IF current.bus \in VFs /\ Exists(current.bus) THEN ParentOf[current.bus] ELSE Nil
     IN IF physfn # Nil
        THEN source' = physfn /\ phase' = "count"
        ELSE source' = source /\ phase' = "finish"
  /\ UNCHANGED <<sysfs, inventory, counts, pos, current, published, history>>

\* partitionMetadata of a VF reads its physfn link and checks the parent.
ReadPhysfn ==
  /\ phase = "physfn"
  /\ LET physfn == IF current.bus \in VFs
                   THEN IF Exists(current.bus) THEN ParentOf[current.bus] ELSE Nil ELSE Nil
     IN IF physfn # Nil /\ parentMatches(current, inventory, physfn)
        THEN source' = physfn /\ phase' = "count"
        ELSE source' = source /\ phase' = "finish"
  /\ UNCHANGED <<sysfs, inventory, counts, pos, current, published, history>>

\* partitionMetadata reads sriov_numvfs, which a VF does not have.  A read or a parse
\* that fails leaves the device as it is.
ReadCount ==
  /\ phase = "count"
  /\ \/ current' = current
     \/ source \in PFs /\ current' = applyCount(current, numvfs[source])
  /\ phase' = "finish"
  /\ UNCHANGED <<sysfs, inventory, counts, pos, source, published, history>>

Finish ==
  /\ phase = "finish"
  /\ published' = published \cup {current}
  /\ pos' = pos + 1
  /\ phase' = "driver"
  /\ current' = NoDevice /\ source' = Nil
  /\ UNCHANGED <<sysfs, inventory, counts, history>>

\* The collection returns its devices.
Return ==
  /\ phase = "driver"
  /\ pos > Len(inventory)
  /\ phase' = "idle"
  /\ UNCHANGED <<sysfs, inventory, counts, pos, current, source, published, history>>

Collect == ListV1 \/ ListV0 \/ ReadLegacyPhysfn \/ LegacyClassified \/ ReadDriver
           \/ ReadPhysfn \/ ReadCount \/ Finish \/ Return

Next == SysfsChanges \/ Collect

Spec == Init /\ [][Next]_vars

-----------------------------------------------------------------------------
\* partition.go 39-40: a repartition racing the collection must not resolve an old
\* alias.  A profile published for a VF is one that was in force after the listing, on
\* the very PF the listing names as its parent, and the VF existed since then.
ProfileNotOld ==
  \A d \in published : d.isVF /\ d.mode # "" =>
    /\ d.bus \in existed
    /\ \E i \in DOMAIN inventory, n \in Counts :
         /\ inventory[i].name = d.parent /\ ~inventory[i].isVf
         /\ Profile(n) = d.mode
         /\ <<inventory[i].bus, n>> \in inForce

\* partition.go 78-79: no telemetry or workload label for a function with a foreign
\* driver.  Whatever is published was free of one at some moment after the listing.
ForeignNeverPublished == \A d \in published : d.bus \in native

\* device.go 13-14: a PF that hosts VFs is not counted as compute.  A published VF and
\* the PF it names are never both compute, even when the listing is out of date.
NoDoubleCount ==
  \A v, p \in published :
    v.isVF /\ v.compute /\ ~p.isVF /\ p.name = v.parent => ~p.compute
=============================================================================
