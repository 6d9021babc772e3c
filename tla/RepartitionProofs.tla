------------------------- MODULE RepartitionProofs --------------------------
(***************************************************************************)
(* What a collection publishes of a node that is being repartitioned under *)
(* it, proved for every set of cards, every partitioning, every listing    *)
(* and every interleaving of the reads with changes of sysfs.              *)
(*                                                                         *)
(* The history variables bound what the reads may have returned            *)
(* (HistoryOK).  CurrentOK says what each read has established of the      *)
(* device being built, RelationOK how much of the inventory legacyInventory *)
(* has sorted out, and PublishedOK that a published device is one of the   *)
(* listing, with no more compute than the listing gave it.                 *)
(***************************************************************************)
EXTENDS Repartition, TLAPS

LegacyItems == [name: Names, bus: Buses, isVf: BOOLEAN, parent: Names \cup {NoName}, npu: BOOLEAN]

Devices == [name: Names \cup {NoName}, bus: Buses \cup {Nil}, isVF: BOOLEAN,
            parent: Names \cup {NoName}, compute: BOOLEAN, numVFs: Nat \cup {Nil},
            mode: {"", "none", "hosting", "vf1", "vf4"}]

Phases == {"idle", "classify", "driver", "physfn", "count", "finish"}

RepartitionTypeOK ==
  /\ numvfs \in [PFs -> Counts \cup {0}]
  /\ driver = [b \in Buses |-> driver[b]]
  /\ phase \in Phases
  /\ inventory \in Seq(DeviceInfo) \cup Seq(LegacyItems)
  /\ phase = "classify" => inventory \in Seq(LegacyItems)
  /\ \A i \in DOMAIN inventory : inventory[i].name # NoName
  /\ counts \in [DOMAIN inventory -> Nat \cup {Nil}]
  /\ pos \in Nat \ {0}
  /\ current \in Devices
  /\ published \subseteq Devices

\* What can be read now is in the history of the collection under way.
HistoryOK ==
  phase # "idle" =>
    /\ InForceNow \subseteq inForce
    /\ ExistingNow \subseteq existed
    /\ NativeNow \subseteq native

\* Device i is a VF that names device p as its parent.
ChildOf(i, p) ==
  inventory[i].isVf /\ inventory[i].parent # NoName /\ inventory[p].name = inventory[i].parent

\* The v0 devices before pos have taken the npu_id from whatever they name; the whole
\* inventory has no VF and parent that are both usable.
RelationOK ==
  /\ phase = "classify" =>
       \A i, p \in DOMAIN inventory : i < pos /\ ChildOf(i, p) => ~inventory[p].npu
  /\ phase # "classify" =>
       \A v, p \in DOMAIN inventory :
         ChildOf(v, p) /\ inventory[v].npu /\ ~inventory[p].isVf => ~inventory[p].npu

\* d is a device of the inventory, and compute only if the inventory says so.
FromListing(d) ==
  \E i \in DOMAIN inventory :
    /\ d.name = inventory[i].name /\ d.parent = inventory[i].parent
    /\ d.isVF = inventory[i].isVf
    /\ d.compute => inventory[i].npu

ProfileOK(d) ==
  d.isVF /\ d.mode # "" =>
    /\ d.bus \in existed
    /\ \E i \in DOMAIN inventory, n \in Counts :
         /\ inventory[i].name = d.parent /\ ~inventory[i].isVf
         /\ Profile(n) = d.mode
         /\ <<inventory[i].bus, n>> \in inForce

\* What the reads so far have established of the device being built.
CurrentOK ==
  /\ phase \in {"physfn", "count", "finish"} =>
       /\ FromListing(current)
       /\ PCIDevicesPath => current.bus \in native
  /\ phase = "physfn" => current.isVF /\ current.mode = ""
  /\ phase = "count" /\ current.isVF =>
       /\ current.mode = ""
       /\ current.bus \in existed
       /\ parentMatches(current, inventory, source)
  /\ phase = "finish" => ProfileOK(current)

PublishedOK ==
  /\ phase = "classify" => published = {}
  /\ \A d \in published :
       FromListing(d) /\ ProfileOK(d) /\ (PCIDevicesPath => d.bus \in native)

Inv == RepartitionTypeOK /\ HistoryOK /\ RelationOK /\ CurrentOK /\ PublishedOK

-----------------------------------------------------------------------------
\* What one iteration of legacyInventory does: names stay, an npu_id is only taken away,
\* the other devices keep their relation, and whatever device i now names has no npu_id.
LEMMA Classifies ==
  ASSUME NEW items \in Seq(LegacyItems), NEW i \in DOMAIN items, NEW physfn
  PROVE  LET new == ClassifyLegacy(items, i, physfn)
         IN /\ new \in Seq(LegacyItems)
            /\ DOMAIN new = DOMAIN items
            /\ \A p \in DOMAIN items :
                 /\ new[p].name = items[p].name
                 /\ new[p].npu => items[p].npu
                 /\ p # i => new[p].isVf = items[p].isVf /\ new[p].parent = items[p].parent
                 /\ new[i].isVf /\ new[i].parent # NoName /\ new[p].name = new[i].parent
                    => ~new[p].npu
<1> DEFINE found == {p \in DOMAIN items : items[p].bus = physfn}
           child == IF physfn = Nil THEN items[i]
                    ELSE [items[i] EXCEPT !.isVf = TRUE,
                            !.parent = IF found = {} THEN @
                                       ELSE items[CHOOSE p \in found : TRUE].name]
           hosts == {p \in DOMAIN items :
                       \/ physfn # Nil /\ p \in found
                       \/ child.isVf /\ child.parent # NoName /\ items[p].name = child.parent}
           item(p) == IF p = i THEN child ELSE items[p]
           new == ClassifyLegacy(items, i, physfn)
<1>1. new = [p \in DOMAIN items |-> IF p \in hosts THEN [item(p) EXCEPT !.npu = FALSE] ELSE item(p)]
  BY DEF ClassifyLegacy
<1>2. DOMAIN items = 1..Len(items) /\ Len(items) \in Nat
      /\ \A p \in DOMAIN items : items[p] \in LegacyItems
  OBVIOUS
<1>3. child \in LegacyItems /\ child.name = items[i].name /\ child.npu = items[i].npu
  <2>1. CASE physfn = Nil
    BY <1>2, <2>1
  <2>2. CASE physfn # Nil
    <3>1. found # {} => (CHOOSE p \in found : TRUE) \in DOMAIN items
      OBVIOUS
    <3> HIDE DEF found
    <3>2. (IF found = {} THEN items[i].parent ELSE items[CHOOSE p \in found : TRUE].name)
            \in Names \cup {NoName}
      BY <1>2, <3>1 DEF LegacyItems
    <3> QED
      BY <1>2, <2>2, <3>2 DEF LegacyItems
  <2> QED
    BY <2>1, <2>2
<1> HIDE DEF child
<1>4. ASSUME NEW p \in DOMAIN items
      PROVE  item(p) \in LegacyItems /\ item(p).name = items[p].name /\ item(p).npu = items[p].npu
  BY <1>2, <1>3
<1>5. ASSUME NEW p \in DOMAIN items
      PROVE  /\ new[p] \in LegacyItems
             /\ new[p].name = items[p].name /\ new[p].isVf = item(p).isVf
             /\ new[p].parent = item(p).parent
             /\ new[p].npu = IF p \in hosts THEN FALSE ELSE items[p].npu
  <2> HIDE DEF hosts, new
  <2>1. new[p] = IF p \in hosts THEN [item(p) EXCEPT !.npu = FALSE] ELSE item(p)
    BY <1>1
  <2> HIDE DEF item
  <2> QED
    BY <1>4, <2>1 DEF LegacyItems
<1>6. DOMAIN new = DOMAIN items
  BY <1>1
<1>7. new \in Seq(LegacyItems)
  <2> HIDE DEF new
  <2>1. new = [p \in 1..Len(items) |-> new[p]]
    BY <1>1, <1>2
  <2>2. \A p \in 1..Len(items) : new[p] \in LegacyItems
    BY <1>2, <1>5
  <2> QED
    BY <1>2, <2>1, <2>2
<1>8. new[i].isVf = child.isVf /\ new[i].parent = child.parent
  BY <1>5
<1>9. ASSUME NEW p \in DOMAIN items, child.isVf, child.parent # NoName, items[p].name = child.parent
      PROVE  ~new[p].npu
  <2>1. p \in hosts
    BY <1>9
  <2> QED
    BY <1>5, <2>1
<1>10. ASSUME NEW p \in DOMAIN items
       PROVE  /\ new[p].name = items[p].name
              /\ new[p].npu => items[p].npu
              /\ p # i => new[p].isVf = items[p].isVf /\ new[p].parent = items[p].parent
  <2> HIDE DEF new, hosts
  <2>1. new[p].npu => items[p].npu
    BY <1>5
  <2> QED
    BY <1>5, <2>1
<1>11. ASSUME NEW p \in DOMAIN items, new[i].isVf, new[i].parent # NoName,
              new[p].name = new[i].parent
       PROVE  ~new[p].npu
  <2> HIDE DEF new, hosts
  <2> QED
    BY <1>8, <1>9, <1>10, <1>11
<1> HIDE DEF new
<1>12. /\ new \in Seq(LegacyItems)
       /\ DOMAIN new = DOMAIN items
       /\ \A p \in DOMAIN items :
            /\ new[p].name = items[p].name
            /\ new[p].npu => items[p].npu
            /\ p # i => new[p].isVf = items[p].isVf /\ new[p].parent = items[p].parent
            /\ new[i].isVf /\ new[i].parent # NoName /\ new[p].name = new[i].parent
               => ~new[p].npu
  BY <1>6, <1>7, <1>10, <1>11
<1> QED
  BY <1>12 DEF new

\* The inventory of a v0 list, before sysfs is read.
LEMMA LegacyItemType ==
  ASSUME NEW raw \in LegacyDevice, raw.name # NoName
  PROVE  LegacyItem(raw) \in LegacyItems
BY DEF LegacyItem, LegacyItems, LegacyDevice

LEMMA Initially == Init => Inv
<1> SUFFICES ASSUME Init PROVE Inv
  OBVIOUS
<1>1. current \in Devices
  BY DEF Init, NoDevice, Devices
<1>2. driver = [b \in Buses |-> driver[b]]
  BY DEF Init
<1> QED
  BY <1>1, <1>2
     DEF Init, Inv, RepartitionTypeOK, Phases, HistoryOK, RelationOK, CurrentOK, PublishedOK

\* A change of sysfs only adds to the history.
LEMMA SysfsInv == ASSUME Inv, SysfsChanges PROVE Inv'
<1>1. /\ Remember /\ UNCHANGED collection
      /\ numvfs' \in [PFs -> Counts \cup {0}]
      /\ driver' = [b \in Buses |-> driver'[b]]
  <2>1. CASE \E p \in PFs, n \in Counts \cup {0} : SetNumVfs(p, n)
    BY <2>1 DEF SetNumVfs, Inv, RepartitionTypeOK
  <2>2. CASE \E b \in Buses, d \in Drivers \cup {Nil} : Bind(b, d)
    BY <2>2 DEF Bind, Inv, RepartitionTypeOK
  <2> QED
    BY <2>1, <2>2 DEF SysfsChanges
<1>2. /\ inForce \subseteq inForce' /\ existed \subseteq existed' /\ native \subseteq native'
      /\ HistoryOK'
  BY <1>1 DEF Remember, HistoryOK, InForceNow, ExistingNow, Exists, NativeNow
<1>3. RepartitionTypeOK'
  BY <1>1 DEF collection, Inv, RepartitionTypeOK
<1>4. RelationOK'
  BY <1>1 DEF collection, Inv, RelationOK, ChildOf
<1>5. ASSUME NEW d, ProfileOK(d) PROVE ProfileOK(d)'
  BY <1>1, <1>2, <1>5 DEF ProfileOK, collection
<1>6. CurrentOK'
  <2>1. ProfileOK(current) => ProfileOK(current)'
    BY <1>1, <1>2 DEF ProfileOK, collection
  <2> QED
    BY <1>1, <1>2, <2>1 DEF collection, Inv, CurrentOK, FromListing, parentMatches
<1>7. PublishedOK'
  BY <1>1, <1>2, <1>5 DEF collection, Inv, PublishedOK, FromListing
<1> QED
  BY <1>2, <1>3, <1>4, <1>6, <1>7 DEF Inv

LEMMA ListV1Inv == ASSUME Inv, ListV1 PROVE Inv'
<1>1. PICK l \in Listings : Begin(l, [i \in DOMAIN l |-> Nil], "driver")
  BY DEF ListV1
<1>2. l \in Seq(DeviceInfo) /\ \A i \in DOMAIN l : l[i].name # NoName
  BY ListingsAssumption, NamedAssumption
<1>3. RepartitionTypeOK'
  BY <1>1, <1>2 DEF Begin, sysfs, Inv, RepartitionTypeOK, Phases
<1>4. HistoryOK'
  BY <1>1 DEF Begin, sysfs, HistoryOK, InForceNow, ExistingNow, Exists, NativeNow
<1>5. RelationOK'
  BY <1>1, NpuAssumption DEF Begin, RelationOK, ChildOf
<1>6. CurrentOK' /\ PublishedOK'
  BY <1>1 DEF Begin, CurrentOK, PublishedOK
<1> QED
  BY <1>3, <1>4, <1>5, <1>6 DEF Inv

LEMMA ListV0Inv == ASSUME Inv, ListV0 PROVE Inv'
<1>1. PICK l \in LegacyListings :
        Begin([i \in DOMAIN l |-> LegacyItem(l[i])], [i \in DOMAIN l |-> l[i].numVfs], "classify")
  BY DEF ListV0
<1>2. l \in Seq(LegacyDevice) /\ \A i \in DOMAIN l : l[i].name # NoName
  BY ListingsAssumption, NamedAssumption
<1>3. \A i \in DOMAIN l : l[i] \in LegacyDevice /\ LegacyItem(l[i]) \in LegacyItems
                           /\ LegacyItem(l[i]).name # NoName /\ l[i].numVfs \in Nat
  <2>1. \A i \in DOMAIN l : l[i] \in LegacyDevice
    BY <1>2
  <2> QED
    BY <1>2, <2>1, LegacyItemType DEF LegacyItem, LegacyDevice
<1>4. inventory' \in Seq(LegacyItems)
  <2>1. DOMAIN l = 1..Len(l) /\ Len(l) \in Nat
    BY <1>2
  <2>2. inventory' = [i \in 1..Len(l) |-> LegacyItem(l[i])]
    BY <1>1, <2>1 DEF Begin
  <2> QED
    BY <1>3, <2>1, <2>2
<1>5. RepartitionTypeOK'
  <2>1. counts' \in [DOMAIN inventory' -> Nat \cup {Nil}]
    BY <1>1, <1>3 DEF Begin
  <2>2. \A i \in DOMAIN inventory' : inventory'[i].name # NoName
    BY <1>1, <1>3 DEF Begin
  <2> QED
    BY <1>1, <1>4, <2>1, <2>2 DEF Begin, sysfs, Inv, RepartitionTypeOK, Phases
<1>6. HistoryOK'
  BY <1>1 DEF Begin, sysfs, HistoryOK, InForceNow, ExistingNow, Exists, NativeNow
<1>7. RelationOK'
  <2>1. phase' = "classify" /\ pos' = 1 /\ DOMAIN inventory' \subseteq Nat \ {0}
    BY <1>1, <1>4 DEF Begin
  <2> QED
    BY <2>1 DEF RelationOK
<1>8. CurrentOK' /\ PublishedOK'
  BY <1>1 DEF Begin, CurrentOK, PublishedOK
<1> QED
  BY <1>5, <1>6, <1>7, <1>8 DEF Inv

LEMMA ReadLegacyPhysfnInv == ASSUME Inv, ReadLegacyPhysfn PROVE Inv'
<1>1. /\ phase = "classify" /\ phase' = "classify"
      /\ inventory \in Seq(LegacyItems)
      /\ pos \in DOMAIN inventory /\ pos' = pos + 1
      /\ UNCHANGED <<sysfs, counts, current, published, history>>
  BY DEF ReadLegacyPhysfn, Inv, RepartitionTypeOK
<1>2. PICK physfn : inventory' = ClassifyLegacy(inventory, pos, physfn)
  BY DEF ReadLegacyPhysfn
<1>3. /\ inventory' \in Seq(LegacyItems)
      /\ DOMAIN inventory' = DOMAIN inventory
      /\ \A p \in DOMAIN inventory :
           /\ inventory'[p].name = inventory[p].name
           /\ inventory'[p].npu => inventory[p].npu
           /\ p # pos => inventory'[p].isVf = inventory[p].isVf
                         /\ inventory'[p].parent = inventory[p].parent
           /\ inventory'[pos].isVf /\ inventory'[pos].parent # NoName
                /\ inventory'[p].name = inventory'[pos].parent
              => ~inventory'[p].npu
  BY <1>1, <1>2, Classifies
<1>4. RepartitionTypeOK'
  BY <1>1, <1>3 DEF sysfs, Inv, RepartitionTypeOK
<1>5. HistoryOK'
  BY <1>1 DEF sysfs, history, Inv, HistoryOK, InForceNow, ExistingNow, Exists, NativeNow
<1>6. RelationOK'
  <2> SUFFICES ASSUME NEW i \in DOMAIN inventory, NEW p \in DOMAIN inventory,
                      i < pos + 1, ChildOf(i, p)'
               PROVE  ~inventory'[p].npu
    BY <1>1, <1>3 DEF RelationOK
  <2>1. CASE i = pos
    BY <1>3, <2>1 DEF ChildOf
  <2>2. CASE i # pos
    <3>1. i < pos
      BY <1>1, <2>2
    <3>2. ChildOf(i, p)
      BY <1>3, <2>2 DEF ChildOf
    <3> QED
      BY <1>1, <1>3, <3>1, <3>2 DEF Inv, RelationOK
  <2> QED
    BY <2>1, <2>2
<1>7. CurrentOK' /\ PublishedOK'
  BY <1>1 DEF Inv, CurrentOK, PublishedOK
<1> QED
  BY <1>4, <1>5, <1>6, <1>7 DEF Inv

LEMMA LegacyClassifiedInv == ASSUME Inv, LegacyClassified PROVE Inv'
<1> USE DEF LegacyClassified, Inv
<1>1. RepartitionTypeOK'
  BY DEF sysfs, RepartitionTypeOK, Phases
<1>2. HistoryOK'
  BY DEF sysfs, history, HistoryOK, InForceNow, ExistingNow, Exists, NativeNow
<1>3. RelationOK'
  <2>1. \A i \in DOMAIN inventory : i < pos
    BY DEF RepartitionTypeOK
  <2> QED
    BY <2>1 DEF RelationOK, ChildOf
<1>4. CurrentOK' /\ PublishedOK'
  BY DEF CurrentOK, PublishedOK
<1> QED
  BY <1>1, <1>2, <1>3, <1>4

LEMMA ReadDriverInv == ASSUME Inv, ReadDriver PROVE Inv'
<1> USE DEF Inv
<1> DEFINE d == PartitionRole(Listed(pos))
<1>1. /\ pos \in DOMAIN inventory /\ phase = "driver"
      /\ inventory[pos].bus \in Buses /\ inventory[pos].isVf \in BOOLEAN
      /\ inventory[pos].npu \in BOOLEAN
      /\ inventory[pos].name \in Names \cup {NoName}
      /\ inventory[pos].parent \in Names \cup {NoName}
  <2>1. pos \in DOMAIN inventory /\ phase = "driver"
    BY DEF ReadDriver, RepartitionTypeOK
  <2>2. inventory[pos] \in DeviceInfo \/ inventory[pos] \in LegacyItems
    BY <2>1 DEF RepartitionTypeOK
  <2> QED
    BY <2>1, <2>2 DEF DeviceInfo, LegacyItems
<1>2. /\ d.name = inventory[pos].name /\ d.parent = inventory[pos].parent
      /\ d.isVF = inventory[pos].isVf /\ d.compute = inventory[pos].npu
      /\ d.bus = inventory[pos].bus
      /\ d.isVF => d.mode = ""
      /\ d \in Devices
  <2>1. LegacyCount(inventory[pos], counts[pos]) \in Nat \cup {Nil}
    BY <1>1 DEF RepartitionTypeOK, LegacyCount
  <2>2. counts[pos] \in Nat \cup {Nil}
    BY <1>1 DEF RepartitionTypeOK
  <2> QED
    BY <1>1, <2>1, <2>2 DEF PartitionRole, Listed, Devices
<1> HIDE DEF d
<1>3. CASE foreignDriver(driver[d.bus])
  <2>1. pos' = pos + 1
        /\ UNCHANGED <<phase, current, source, sysfs, inventory, counts, published, history>>
    BY <1>3 DEF ReadDriver, d
  <2>2. RepartitionTypeOK'
    BY <1>1, <2>1 DEF RepartitionTypeOK, sysfs
  <2>3. HistoryOK'
    BY <1>1, <2>1 DEF sysfs, history, HistoryOK, InForceNow, ExistingNow, Exists, NativeNow
  <2>4. RelationOK' /\ CurrentOK'
    BY <1>1, <2>1 DEF RelationOK, ChildOf, CurrentOK
  <2>5. PublishedOK'
    BY <1>1, <2>1 DEF PublishedOK, FromListing, ProfileOK, history
  <2> QED
    BY <2>2, <2>3, <2>4, <2>5
<1>4. CASE ~foreignDriver(driver[d.bus])
  <2>1. /\ current' = d /\ source' = d.bus /\ pos' = pos
        /\ phase' = IF ~PCIDevicesPath THEN "finish" ELSE IF d.isVF THEN "physfn" ELSE "count"
        /\ UNCHANGED <<sysfs, inventory, counts, published, history>>
    BY <1>4 DEF ReadDriver, d
  <2>2. RepartitionTypeOK'
    BY <1>1, <1>2, <2>1 DEF RepartitionTypeOK, Phases, sysfs
  <2>3. HistoryOK'
    BY <1>1, <2>1 DEF sysfs, history, HistoryOK, InForceNow, ExistingNow, Exists, NativeNow
  <2>4. RelationOK'
    BY <1>1, <2>1 DEF RelationOK, ChildOf
  <2>5. CurrentOK'
    <3>1. FromListing(current)'
      BY <1>1, <1>2, <2>1 DEF FromListing
    <3>2. PCIDevicesPath => d.bus \in native
      BY <1>1, <1>2, <1>4 DEF foreignDriver, HistoryOK, NativeNow, Foreign
    <3>3. ProfileOK(current)'
      BY <1>2, <2>1 DEF ProfileOK
    <3> QED
      BY <1>2, <2>1, <3>1, <3>2, <3>3 DEF CurrentOK, history
  <2>6. PublishedOK'
    BY <1>1, <2>1 DEF PublishedOK, FromListing, ProfileOK, history
  <2> QED
    BY <2>2, <2>3, <2>4, <2>5, <2>6
<1> QED
  BY <1>3, <1>4

LEMMA ReadPhysfnInv == ASSUME Inv, ReadPhysfn PROVE Inv'
<1> USE DEF Inv
<1>1. phase = "physfn" /\ phase' \in {"count", "finish"}
      /\ UNCHANGED <<sysfs, inventory, counts, pos, current, published, history>>
  BY DEF ReadPhysfn
<1>2. RepartitionTypeOK'
  BY <1>1 DEF RepartitionTypeOK, Phases, sysfs
<1>3. HistoryOK'
  BY <1>1 DEF sysfs, history, HistoryOK, InForceNow, ExistingNow, Exists, NativeNow
<1>4. RelationOK'
  BY <1>1 DEF RelationOK, ChildOf
<1>5. CurrentOK'
  <2>1. phase' = "count" =>
          current.bus \in existed /\ parentMatches(current, inventory, source')
    BY <1>1 DEF ReadPhysfn, HistoryOK, ExistingNow
  <2>2. ProfileOK(current)'
    BY <1>1 DEF CurrentOK, ProfileOK
  <2> QED
    BY <1>1, <2>1, <2>2 DEF CurrentOK, FromListing, parentMatches, history
<1>6. PublishedOK'
  BY <1>1 DEF PublishedOK, FromListing, ProfileOK, history
<1> QED
  BY <1>2, <1>3, <1>4, <1>5, <1>6

LEMMA ReadCountInv == ASSUME Inv, ReadCount PROVE Inv'
<1> USE DEF Inv
<1>1. phase = "count" /\ phase' = "finish"
      /\ UNCHANGED <<sysfs, inventory, counts, pos, source, published, history>>
  BY DEF ReadCount
<1>2. HistoryOK'
  BY <1>1 DEF sysfs, history, HistoryOK, InForceNow, ExistingNow, Exists, NativeNow
<1>3. RelationOK'
  BY <1>1 DEF RelationOK, ChildOf
<1>4. PublishedOK'
  BY <1>1 DEF PublishedOK, FromListing, ProfileOK, history
<1>5. current \in Devices
  BY DEF RepartitionTypeOK
<1>6. /\ current' \in Devices
      /\ current'.name = current.name /\ current'.parent = current.parent
      /\ current'.isVF = current.isVF /\ (current'.compute => current.compute)
      /\ current'.bus = current.bus
      /\ \/ current'.mode = current.mode
         \/ /\ source \in PFs /\ <<source, numvfs[source]>> \in inForce
            /\ numvfs[source] \in Counts /\ (current.isVF => current'.mode = Profile(numvfs[source]))
  <2>1. CASE current' = current
    BY <1>5, <2>1
  <2>2. CASE source \in PFs /\ current' = applyCount(current, numvfs[source])
    <3>1. numvfs[source] \in Counts \cup {0} /\ Counts \subseteq Nat \ {0}
          /\ <<source, numvfs[source]>> \in inForce
      BY <1>1, <2>2, HardwareAssumption DEF RepartitionTypeOK, HistoryOK, InForceNow
    <3>2. \A n \in Counts \cup {0} : n \in Nat /\ (n # 0 => n > 0)
      <4>1. \A n \in Counts : n \in Nat \ {0}
        BY <3>1, Zenon
      <4> QED
        BY <4>1
    <3>3. numvfs[source] \in Nat /\ (numvfs[source] # 0 => numvfs[source] > 0)
      BY <3>1, <3>2, Zenon
    <3>4. CASE current.isVF
      <4>1. CASE numvfs[source] \in {1, 4}
        <5>1. Profile(numvfs[source]) \in {"vf1", "vf4"}
          BY <4>1 DEF Profile
        <5>2. current' = [current EXCEPT !.numVFs = 0, !.mode = Profile(numvfs[source])]
          BY <2>2, <3>4, <4>1 DEF applyCount
        <5>3. /\ current' \in Devices
              /\ current'.name = current.name /\ current'.parent = current.parent
              /\ current'.isVF = current.isVF /\ current'.compute = current.compute
              /\ current'.bus = current.bus /\ current'.mode = Profile(numvfs[source])
          BY <1>5, <5>1, <5>2 DEF Devices
        <5> QED
          BY <2>2, <3>1, <4>1, <5>3
      <4>2. CASE numvfs[source] \notin {1, 4}
        BY <1>5, <2>2, <3>1, <3>4, <4>2 DEF applyCount, Devices
      <4> QED
        BY <4>1, <4>2
    <3>5. CASE ~current.isVF
      <4>1. CASE numvfs[source] = 0
        <5>1. current' = [current EXCEPT !.numVFs = 0, !.compute = @, !.mode = @]
          BY <2>2, <3>1, <3>5, <4>1 DEF applyCount
        <5> QED
          BY <1>5, <5>1 DEF Devices
      <4>2. CASE numvfs[source] # 0
        <5>1. current' = [current EXCEPT !.numVFs = numvfs[source], !.compute = FALSE,
                                         !.mode = "hosting"]
          BY <2>2, <3>3, <3>5, <4>2 DEF applyCount
        <5>2. /\ current' \in Devices
              /\ current'.name = current.name /\ current'.parent = current.parent
              /\ current'.isVF = current.isVF /\ ~current'.compute
              /\ current'.bus = current.bus
          BY <1>5, <3>3, <5>1 DEF Devices
        <5> QED
          BY <2>2, <3>1, <3>5, <4>2, <5>2
      <4> QED
        BY <4>1, <4>2
    <3> QED
      BY <3>4, <3>5
  <2> QED
    BY <2>1, <2>2 DEF ReadCount
<1>7. RepartitionTypeOK'
  BY <1>1, <1>6 DEF RepartitionTypeOK, Phases, sysfs
<1>8. CurrentOK'
  <2>1. FromListing(current)'
    BY <1>1, <1>6 DEF CurrentOK, FromListing
  <2>2. ProfileOK(current)'
    BY <1>1, <1>6 DEF CurrentOK, ProfileOK, parentMatches, history
  <2> QED
    BY <1>1, <1>6, <2>1, <2>2 DEF CurrentOK, history
<1> QED
  BY <1>2, <1>3, <1>4, <1>7, <1>8

LEMMA FinishInv == ASSUME Inv, Finish PROVE Inv'
<1> USE DEF Inv
<1>1. /\ phase = "finish" /\ phase' = "driver" /\ pos' = pos + 1
      /\ published' = published \cup {current}
      /\ current' = NoDevice
      /\ UNCHANGED <<sysfs, inventory, counts, history>>
  BY DEF Finish
<1>2. RepartitionTypeOK'
  <2>1. NoDevice \in Devices
    BY DEF NoDevice, Devices
  <2> QED
    BY <1>1, <2>1 DEF RepartitionTypeOK, Phases, sysfs
<1>3. HistoryOK'
  BY <1>1 DEF sysfs, history, HistoryOK, InForceNow, ExistingNow, Exists, NativeNow
<1>4. RelationOK' /\ CurrentOK'
  BY <1>1 DEF RelationOK, ChildOf, CurrentOK
<1>5. PublishedOK'
  BY <1>1 DEF CurrentOK, PublishedOK, FromListing, ProfileOK, history
<1> QED
  BY <1>2, <1>3, <1>4, <1>5

LEMMA ReturnInv == ASSUME Inv, Return \/ UNCHANGED vars PROVE Inv'
<1>1. UNCHANGED <<sysfs, inventory, counts, pos, current, source, published, history>>
      /\ ((phase = "driver" /\ phase' = "idle") \/ phase' = phase)
  BY DEF Return, vars, collection
<1> USE DEF Inv
<1>2. RepartitionTypeOK'
  BY <1>1 DEF RepartitionTypeOK, Phases, sysfs
<1>3. HistoryOK'
  BY <1>1 DEF sysfs, history, HistoryOK, InForceNow, ExistingNow, Exists, NativeNow
<1>4. RelationOK'
  BY <1>1 DEF RelationOK, ChildOf
<1>5. CurrentOK'
  BY <1>1 DEF CurrentOK, FromListing, ProfileOK, parentMatches, history
<1>6. PublishedOK'
  BY <1>1 DEF PublishedOK, FromListing, ProfileOK, history
<1> QED
  BY <1>2, <1>3, <1>4, <1>5, <1>6

LEMMA Invariance == Spec => []Inv
<1>1. Inv /\ [Next]_vars => Inv'
  BY SysfsInv, ListV1Inv, ListV0Inv, ReadLegacyPhysfnInv, LegacyClassifiedInv, ReadDriverInv,
     ReadPhysfnInv, ReadCountInv, FinishInv, ReturnInv DEF Next, Collect
<1> QED
  BY Initially, <1>1, PTL DEF Spec

-----------------------------------------------------------------------------
\* A profile published for a VF was in force after the listing on the PF the listing
\* names, however the node is repartitioned between the reads (partition.go 39-76).
THEOREM ProfilesAreNotOld == Spec => []ProfileNotOld
<1>1. Inv => ProfileNotOld
  BY DEF Inv, PublishedOK, ProfileOK, ProfileNotOld
<1> QED
  BY <1>1, Invariance, PTL

\* In local mode nothing is published that had a foreign driver ever since the listing
\* (partition.go 78-90); a gateway reads no driver links and promises nothing.
THEOREM ForeignIsLeftOut == Spec => [](PCIDevicesPath => ForeignNeverPublished)
<1>1. Inv => (PCIDevicesPath => ForeignNeverPublished)
  BY DEF Inv, PublishedOK, ForeignNeverPublished
<1> QED
  BY <1>1, Invariance, PTL

\* A VF and the PF it names are never both published as compute (legacy.go 135-157).
THEOREM NothingCountedTwice == Spec => []NoDoubleCount
<1>1. Inv => NoDoubleCount
  <2> SUFFICES ASSUME Inv, NEW v \in published, NEW p \in published,
                      v.isVF, v.compute, ~p.isVF, p.name = v.parent, p.compute
               PROVE  FALSE
    BY DEF NoDoubleCount
  <2>1. PICK i \in DOMAIN inventory :
          v.parent = inventory[i].parent /\ v.isVF = inventory[i].isVf /\ inventory[i].npu
    BY DEF Inv, PublishedOK, FromListing
  <2>2. PICK j \in DOMAIN inventory :
          p.name = inventory[j].name /\ p.isVF = inventory[j].isVf /\ inventory[j].npu
    BY DEF Inv, PublishedOK, FromListing
  <2>3. phase # "classify" /\ ChildOf(i, j)
    BY <2>1, <2>2 DEF Inv, PublishedOK, RepartitionTypeOK, ChildOf
  <2> QED
    BY <2>1, <2>2, <2>3 DEF Inv, RelationOK
<1> QED
  BY <1>1, Invariance, PTL
=============================================================================
