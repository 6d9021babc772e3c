------------------------ MODULE PodAttributionCheck -------------------------
(***************************************************************************)
(* Every kubelet response of at most MaxClaims claims, against every       *)
(* inventory of the node: a response grows claim by claim and the node is  *)
(* re-partitioned under it, and in each state the fold of PodAttribution   *)
(* is compared with what the attribution means.                            *)
(***************************************************************************)
EXTENDS PodAttribution, FiniteSets

CONSTANTS Claims,       \* the claims a response may carry
          Inventories,  \* the inventories the node may show
          MaxClaims     \* bound on the length of a response

ASSUME MaxClaimsAssumption == MaxClaims \in Nat
ASSUME ClaimsAssumption ==
  \A c \in Claims : c.pod \in [namespace: Nat, name: Nat, container: Nat]
\* A device has a kernel name (rbln0, rbln0-0), which no profile ends.
ASSUME InventoriesAssumption ==
  \A v \in Inventories : \A n \in DOMAIN v :
    /\ n \in Seq(STRING) /\ n # NoDevice
    /\ \A mode \in {"vf1", "vf4"} : Append(n, mode) \notin DOMAIN v

VARIABLES response, inventory

vars == <<response, inventory>>

Init == response = NoResponse /\ inventory \in Inventories

\* kubelet lists one more claim.
ListMore == /\ Len(response) < MaxClaims
            /\ \E c \in Claims : response' = Append(response, c)
            /\ UNCHANGED inventory

\* The next collection finds another inventory under the cached response.
Repartition == inventory' \in Inventories /\ UNCHANGED response

Next == ListMore \/ Repartition

Spec == Init /\ [][Next]_vars

-----------------------------------------------------------------------------
\* The claimants of a device: the containers whose claim means that device.  A
\* PF is meant by its kernel name; a VF by its kernel name under the plugin
\* resource of its current profile, or by name-profile under DRA.
Means(claim, n) ==
  /\ claim.ours
  /\ inventory[n].compute
  /\ IF ~inventory[n].isVF THEN claim.id = n
     ELSE /\ inventory[n].mode \in {"vf1", "vf4"}
          /\ \/ ~claim.dra /\ claim.id = n /\ claim.mode = inventory[n].mode
             \/ claim.dra /\ claim.id = Append(n, inventory[n].mode)

Claimants(n) == {response[i].pod : i \in {j \in DOMAIN response : Means(response[j], n)}}

Snapshot == SnapshotFor(response, inventory)

\* A device is attributed exactly when some container holds it under its current
\* profile, and then to the claimant that precedes every other one: a collection
\* after a profile change never revives an allocation made under the old profile
\* (kubernetes.go 187-194, 206-227, 232-250).
LeastClaimant ==
  /\ DOMAIN Snapshot.devices = {n \in DOMAIN inventory : Claimants(n) # {}}
  /\ \A n \in DOMAIN Snapshot.devices :
       /\ Snapshot.devices[n] \in Claimants(n)
       /\ \A p \in Claimants(n) : ~before(p, Snapshot.devices[n])

\* A device is reported shared exactly when two different pods claim it, however
\* the response orders them; several containers of one pod do not share it
\* (kubernetes.go 178-182, 236-243).
SharedMeansTwoPods ==
  Snapshot.shared = {n \in DOMAIN inventory :
                       \E p, q \in Claimants(n) : ~SamePod(p, q)}
=============================================================================
