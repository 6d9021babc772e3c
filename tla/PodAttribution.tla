--------------------------- MODULE PodAttribution ---------------------------
(***************************************************************************)
(* Which pod a device's series are credited to: the pure part of           *)
(* internal/collector/kubernetes.go.  A kubelet List response is the       *)
(* sequence of the device claims it carries, in the order the nested loops *)
(* of mapPodResources visit them.  A claim is a record                     *)
(*   id    the device id, as the tuple of its dash-separated segments:     *)
(*         <<"rbln0">> is a PF, <<"rbln0", "0">> a VF, and DRA names the    *)
(*         VF with its profile appended, <<"rbln0", "0", "vf4">>;           *)
(*   dra   TRUE for a DRA claim result, FALSE for a device-plugin id;      *)
(*   ours  the resource name or the DRA driver name is Rebellions';        *)
(*   mode  the profile that ends the plugin's resource name                *)
(*         ("vf4" for rebellions.ai/npu-vf4), or "";                       *)
(*   pod   the claiming container, a PodResourceInfo.                      *)
(* Namespaces, pods and containers are numbers standing for strings in     *)
(* lexical order; 0 is the empty string.  An inventory maps the name of    *)
(* each collected device to its DeviceInfo.                                *)
(***************************************************************************)
EXTENDS Naturals, Sequences

\* The zero PodResourceInfo: every pod label empty.
NoPod == [namespace |-> 0, name |-> 0, container |-> 0]

\* The empty device name: a claim that resolves to no collected device.
NoDevice == <<>>

\* A mapper that has never synced holds a nil response, which lists no pods.
NoResponse == <<>>

\* PodResourceInfo.before: namespace, then pod, then container.
before(p, q) ==
  IF p.namespace # q.namespace THEN p.namespace < q.namespace
  ELSE IF p.name # q.name THEN p.name < q.name
  ELSE p.container < q.container

SamePod(p, q) == p.namespace = q.namespace /\ p.name = q.name

Partitioned(d) == d.isVF /\ d.mode \in {"vf1", "vf4"}

\* Mutation of resolve: the profile of the allocation is not compared.
resolveIgnoringProfile(claim, inventory) ==
  IF claim.id \in DOMAIN inventory /\ inventory[claim.id].compute
  THEN claim.id ELSE NoDevice

\* resolve: the collected compute device a claim names, if any.  A VF is named
\* by its plain id only through the plugin resource of its current profile, and
\* by DRA only as name-profile.
resolve(claim, inventory) ==
  LET current == {n \in DOMAIN inventory : inventory[n].compute}
      aliased == {n \in current : /\ Partitioned(inventory[n])
                                  /\ claim.id = Append(n, inventory[n].mode)}
  IN IF claim.id \in current
     THEN IF \/ ~inventory[claim.id].isVF
             \/ /\ ~claim.dra
                /\ Partitioned(inventory[claim.id])
                /\ claim.mode = inventory[claim.id].mode
          THEN claim.id ELSE NoDevice
     ELSE IF claim.dra /\ aliased # {} THEN CHOOSE n \in aliased : TRUE
     ELSE NoDevice

\* Mutation of assign: a claimant that does not win the labels marks nothing.
assignUncounted(acc, device, info) ==
  IF \/ device = NoDevice
     \/ device \in DOMAIN acc.devices /\ ~before(info, acc.devices[device])
  THEN acc
  ELSE [devices |-> [n \in DOMAIN acc.devices \cup {device} |->
                       IF n = device THEN info ELSE acc.devices[n]],
        shared  |-> IF /\ device \in DOMAIN acc.devices
                       /\ ~SamePod(acc.devices[device], info)
                    THEN acc.shared \cup {device} ELSE acc.shared]

\* assign: record one claim.  A second pod marks the device shared; the labels
\* go to the claimant that comes first in the order before.
assign(acc, device, info) ==
  LET claimed == device \in DOMAIN acc.devices
      loses   == claimed /\ ~before(info, acc.devices[device])
  IN IF device = NoDevice THEN acc
     ELSE [devices |-> IF loses THEN acc.devices
                       ELSE [n \in DOMAIN acc.devices \cup {device} |->
                               IF n = device THEN info ELSE acc.devices[n]],
           shared  |-> IF claimed /\ ~SamePod(acc.devices[device], info)
                       THEN acc.shared \cup {device} ELSE acc.shared]

\* mapPodResources: fold assign over the claims of the response, the i-th of which
\* names the device resolved[i].  A foreign resource or driver, and a claim result
\* without a device name, is skipped.
mapPodResources(response, resolved) ==
  LET Skipped(claim) == ~claim.ours \/ claim.id = NoDevice
      After[i \in 0..Len(response)] ==
        IF i = 0 THEN [devices |-> [n \in {} |-> NoPod], shared |-> {}]
        ELSE IF Skipped(response[i]) THEN After[i - 1]
        ELSE assign(After[i - 1], resolved[i], response[i].pod)
  IN After[Len(response)]

\* deviceMapFromPodResources: without an inventory an id stands for itself.
deviceMapFromPodResources(response) ==
  mapPodResources(response, [i \in DOMAIN response |-> response[i].id])

\* SnapshotFor: the response resolved against the devices just collected.
SnapshotFor(response, inventory) ==
  mapPodResources(response, [i \in DOMAIN response |-> resolve(response[i], inventory)])
=============================================================================
