--------------------------- MODULE MetricFamilies ---------------------------
(***************************************************************************)
(* What each Metric of internal/collector writes for one collected device: *)
(* the pure part of the UpdateMetrics methods.  A device is a record of    *)
(* the DeviceInfo fields the families branch on                            *)
(*   compute, isVF, mode   partition role and profile;                     *)
(*   state                 the lifecycle state reported by rbln-smd;       *)
(*   succeeded             CollectionSucceeded;                            *)
(*   readings              the readings that are present (non-nil), a      *)
(*                         function from their names to their values.      *)
(* A Metric owns one or two gauge vectors.  The series it writes for a     *)
(* device are a function from slots (the vector, and for the device status *)
(* the state label) to values.                                             *)
(***************************************************************************)
EXTENDS PodAttribution

CONSTANT includePodLabels   \* pod labels exist only in Kubernetes mode

\* What is exposed when nothing is: no series at all.
NoSeries == [s \in {} |-> 0]

Single(vec, value) == [s \in {<<vec>>} |-> value]

\* The vectors of nil-able readings: a nil reading writes nothing.
Readings(d, names) ==
  [s \in {<<r>> : r \in names \cap DOMAIN d.readings} |-> d.readings[s[1]]]

Flag(b) == IF b THEN 1 ELSE 0

HasKnownState(d) == d.state \in {"fault", "init", "ready", "busy", "finish"}

\* DeviceInfo.Health for a known state: READY is 0, any other 1.
Health(d) == IF d.state = "ready" THEN 0 ELSE 1

HardwareInfoMetric(d) == Readings(d, {"temperature", "power"})

DeviceHealthMetric(d) ==
  IF HasKnownState(d) THEN Single("health", Health(d)) ELSE NoSeries

DeviceCollectionMetric(d) == Single("collection_success", Flag(d.succeeded))

MemoryMetric(d) ==
  IF d.compute THEN Readings(d, {"memory_used", "memory_total"}) ELSE NoSeries

UtilizationMetric(d) ==
  IF d.compute THEN Readings(d, {"utilization"}) ELSE NoSeries

deviceStates == {"ready", "busy", "init", "fault", "finish", "not_found"}

\* One series per state; no recognized state counts as not_found.
DeviceStateMetric(d) ==
  LET current == IF HasKnownState(d) THEN d.state ELSE "not_found"
  IN [s \in {<<"device_status", st>> : st \in deviceStates} |-> Flag(s[2] = current)]

PowerStateMetric(d) == Readings(d, {"power_state"})

PCIeLinkMetric(d) ==
  IF d.isVF THEN NoSeries ELSE Readings(d, {"link_speed", "link_width"})

DeviceInfoMetric(d) == Single("device_info", 1)

SharedDeviceMetric(d, shared) ==
  IF d.compute THEN Single("device_shared", Flag(shared)) ELSE NoSeries

DeviceSeries(metric, d, shared) ==
  CASE metric = "HardwareInfo"     -> HardwareInfoMetric(d)
    [] metric = "DeviceHealth"     -> DeviceHealthMetric(d)
    [] metric = "DeviceCollection" -> DeviceCollectionMetric(d)
    [] metric = "Memory"           -> MemoryMetric(d)
    [] metric = "Utilization"      -> UtilizationMetric(d)
    [] metric = "DeviceState"      -> DeviceStateMetric(d)
    [] metric = "PowerState"       -> PowerStateMetric(d)
    [] metric = "PCIeLink"         -> PCIeLinkMetric(d)
    [] metric = "DeviceInfo"       -> DeviceInfoMetric(d)
    [] metric = "SharedDevice"     -> SharedDeviceMetric(d, shared)

\* buildLabels: the pod labels of a device's series; a device that is not compute
\* is credited to nobody.  The labels that only describe the device are its name.
buildLabels(name, d, pods) ==
  IF includePodLabels /\ d.compute /\ name \in DOMAIN pods THEN pods[name] ELSE NoPod

\* The exposition of one Metric after Reset and UpdateMetrics: a function from
\* series (device, pod labels, slot) to values, for the devices of an inventory
\* labelled from one snapshot of the mapper.
Exposition(metric, inventory, snapshot) ==
  LET Of(n) == DeviceSeries(metric, inventory[n], n \in snapshot.shared)
      Keys == UNION {{[device |-> n, slot |-> s,
                       pod |-> buildLabels(n, inventory[n], snapshot.devices)]
                       : s \in DOMAIN Of(n)} : n \in DOMAIN inventory}
  IN [k \in Keys |-> Of(k.device)[k.slot]]
=============================================================================
