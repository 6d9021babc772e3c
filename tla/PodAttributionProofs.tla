------------------------ MODULE PodAttributionProofs ------------------------
(***************************************************************************)
(* mapPodResources attributes each device to its least claimant and marks  *)
(* it shared exactly when two pods claim it, proved for every response of  *)
(* any length and every inventory.                                         *)
(*                                                                         *)
(* The fold is a recursive function on 0..Len(response).  That it exists,  *)
(* and what it returns, is proved by PrefixInduction.  Reflects is what    *)
(* the loop keeps: the accumulator says of the pairs <<device, pod>>       *)
(* assigned so far what the properties say of all of them.                 *)
(***************************************************************************)
EXTENDS PodAttributionCheck, RecursionTheorems, SequenceTheorems, TLAPS

Pods == [namespace: Nat, name: Nat, container: Nat]

\* before is a strict order, and a pod before another is not after it.
LEMMA BeforeIsStrict ==
  /\ \A p \in Pods : ~before(p, p)
  /\ \A p, q, r \in Pods : before(p, q) /\ before(q, r) => before(p, r)
BY DEF Pods, before

\* acc says of the pairs in K which device is whose, and which are shared.
Reflects(acc, K) ==
  /\ \A n, p : <<n, p>> \in K => n \in DOMAIN acc.devices /\ ~before(p, acc.devices[n])
  /\ \A n \in DOMAIN acc.devices : <<n, acc.devices[n]>> \in K
  /\ \A n : n \in acc.shared <=>
              \E p, q : <<n, p>> \in K /\ <<n, q>> \in K /\ ~SamePod(p, q)

\* One assign adds its pair: the only place where the order of the claims could matter.
LEMMA AssignReflects ==
  ASSUME NEW D, NEW K \in SUBSET (D \X Pods), NEW acc, Reflects(acc, K),
         NEW device \in D, device # NoDevice, NEW info \in Pods
  PROVE  Reflects(assign(acc, device, info), K \cup {<<device, info>>})
<1> DEFINE K2 == K \cup {<<device, info>>}
           a == assign(acc, device, info)
           claimed == device \in DOMAIN acc.devices
           old == acc.devices[device]
           loses == claimed /\ ~before(info, old)
<1>1. /\ a.devices = IF loses THEN acc.devices
                     ELSE [n \in DOMAIN acc.devices \cup {device} |->
                             IF n = device THEN info ELSE acc.devices[n]]
      /\ a.shared = IF claimed /\ ~SamePod(old, info)
                    THEN acc.shared \cup {device} ELSE acc.shared
  BY DEF assign
<1> HIDE DEF a
<1>2. /\ \A n, p : <<n, p>> \in K2 <=> <<n, p>> \in K \/ (n = device /\ p = info)
      /\ \A n, p : <<n, p>> \in K => p \in Pods
  OBVIOUS
<1> HIDE DEF K2
<1>3. claimed => old \in Pods /\ <<device, old>> \in K
  BY <1>2 DEF Reflects
<1>4. ASSUME NEW n, NEW p, <<n, p>> \in K2
      PROVE  n \in DOMAIN a.devices /\ ~before(p, a.devices[n])
  <2>1. CASE loses
    <3>1. a.devices = acc.devices
      BY <1>1, <2>1
    <3> QED
      BY <1>2, <1>4, <2>1, <3>1 DEF Reflects
  <2>2. CASE ~loses /\ n # device
    <3>1. <<n, p>> \in K
      BY <1>2, <1>4, <2>2
    <3>2. n \in DOMAIN acc.devices /\ ~before(p, acc.devices[n])
      BY <3>1 DEF Reflects
    <3> QED
      BY <1>1, <2>2, <3>2
  <2>3. CASE ~loses /\ n = device
    <3>1. n \in DOMAIN a.devices /\ a.devices[n] = info
      BY <1>1, <2>3
    <3>2. CASE p = info
      BY <3>1, <3>2, BeforeIsStrict
    <3>3. CASE p # info
      <4>1. <<n, p>> \in K /\ p \in Pods
        BY <1>2, <1>4, <3>3
      <4>2. claimed /\ ~before(p, old) /\ before(info, old)
        BY <2>3, <4>1 DEF Reflects
      <4> QED
        BY <1>3, <3>1, <4>1, <4>2, BeforeIsStrict
    <3> QED
      BY <3>2, <3>3
  <2> QED
    BY <2>1, <2>2, <2>3
<1>5. ASSUME NEW n \in DOMAIN a.devices
      PROVE  <<n, a.devices[n]>> \in K2
  <2>1. CASE loses
    BY <1>1, <1>2, <2>1 DEF Reflects
  <2>2. CASE ~loses /\ n = device
    BY <1>1, <1>2, <2>2
  <2>3. CASE ~loses /\ n # device
    BY <1>1, <1>2, <2>3 DEF Reflects
  <2> QED
    BY <2>1, <2>2, <2>3
<1>6. ASSUME NEW n
      PROVE  n \in a.shared <=>
               \E p, q : <<n, p>> \in K2 /\ <<n, q>> \in K2 /\ ~SamePod(p, q)
  <2>1. CASE n # device
    <3>1. n \in a.shared <=> n \in acc.shared
      BY <1>1, <2>1
    <3>2. \A p : <<n, p>> \in K2 <=> <<n, p>> \in K
      BY <1>2, <2>1
    <3> QED
      BY <3>1, <3>2 DEF Reflects
  <2>2. CASE n = device /\ n \in acc.shared
    <3>1. n \in a.shared
      BY <1>1, <2>2
    <3>2. \E p, q : <<n, p>> \in K /\ <<n, q>> \in K /\ ~SamePod(p, q)
      BY <2>2 DEF Reflects
    <3> QED
      BY <1>2, <3>1, <3>2
  <2>3. CASE n = device /\ n \notin acc.shared /\ claimed /\ ~SamePod(old, info)
    <3>1. n \in a.shared
      BY <1>1, <2>3
    <3>2. <<n, old>> \in K2 /\ <<n, info>> \in K2
      BY <1>2, <1>3, <2>3
    <3> QED
      BY <2>3, <3>1, <3>2
  <2>4. CASE n = device /\ n \notin acc.shared /\ claimed /\ SamePod(old, info)
    <3>1. n \notin a.shared
      BY <1>1, <2>4
    <3>2. \A p : <<n, p>> \in K => SamePod(p, old)
      BY <1>3, <2>4 DEF Reflects
    <3>3. \A p : <<n, p>> \in K2 => SamePod(p, old)
      BY <1>2, <2>4, <3>2 DEF SamePod
    <3> QED
      BY <3>1, <3>3 DEF SamePod
  <2>5. CASE n = device /\ n \notin acc.shared /\ ~claimed
    <3>1. n \notin a.shared
      BY <1>1, <2>5
    <3>2. \A p : <<n, p>> \in K2 => p = info
      BY <1>2, <2>5 DEF Reflects
    <3> QED
      BY <3>1, <3>2 DEF SamePod
  <2> QED
    BY <2>1, <2>2, <2>3, <2>4, <2>5
<1> QED
  BY <1>4, <1>5, <1>6 DEF Reflects, K2, a

\* The pairs assigned by the first i claims of a response.
Assigned(claims, resolved, i) ==
  {<<resolved[j], claims[j].pod>> : j \in {m \in 1..i :
     claims[m].ours /\ claims[m].id # NoDevice /\ resolved[m] # NoDevice}}

\* The loop of mapPodResources, for every number of claims.
LEMMA LoopReflects ==
  ASSUME NEW C, NEW claims \in Seq(C), \A j \in DOMAIN claims : claims[j].pod \in Pods,
         NEW resolved
  PROVE  Reflects(mapPodResources(claims, resolved), Assigned(claims, resolved, Len(claims)))
<1> DEFINE N == Len(claims)
           Skipped(claim) == ~claim.ours \/ claim.id = NoDevice
           Empty == [devices |-> [n \in {} |-> NoPod], shared |-> {}]
           Do(prev, i) == IF Skipped(claims[i]) THEN prev
                          ELSE assign(prev, resolved[i], claims[i].pod)
           Step(f, i) == IF i = 0 THEN Empty ELSE Do(f[i - 1], i)
           Fold == CHOOSE f : f = [i \in 0..N |-> Step(f, i)]
<1>1. N \in Nat /\ DOMAIN claims = 1..N
  OBVIOUS
<1>2. mapPodResources(claims, resolved) = Fold[N]
  BY DEF mapPodResources
<1> HIDE DEF N, Empty, Do
<1>3. \E f : f = [i \in 0..N |-> Step(f, i)]
  <2> DEFINE Has(n) == \E f : f = [i \in 0..n |-> Step(f, i)]
             T == {n \in 0..N : Has(n)}
  <2>1. 0 \in T
    <3> DEFINE f == [i \in 0..0 |-> Empty]
    <3>1. f = [i \in 0..0 |-> Step(f, i)]
      <4>1. \A i \in 0..0 : Step(f, i) = Empty
        OBVIOUS
      <4> HIDE DEF Step
      <4> QED
        BY <4>1
    <3> HIDE DEF f, Step
    <3>2. Has(0)
      BY <3>1
    <3> HIDE DEF Has
    <3> QED
      BY <1>1, <3>2
  <2>2. ASSUME NEW n \in 1..N, n - 1 \in T PROVE n \in T
    <3>1. PICK g : g = [i \in 0..(n - 1) |-> Step(g, i)]
      BY <2>2
    <3> DEFINE f == [i \in 0..n |-> IF i < n THEN g[i] ELSE Step(g, n)]
    <3>2. ASSUME NEW i \in 0..n PROVE f[i] = Step(f, i)
      <4>1. i # 0 => f[i - 1] = g[i - 1]
        BY <1>1
      <4>2. Step(f, i) = Step(g, i)
        BY <4>1
      <4>3. i < n => g[i] = Step(g, i)
        <5>1. i < n => i \in 0..(n - 1)
          BY <1>1
        <5> HIDE DEF Step
        <5> QED
          BY <3>1, <5>1
      <4>4. ~(i < n) => i = n
        BY <1>1
      <4> QED
        BY <4>2, <4>3, <4>4
    <3>3. f = [i \in 0..n |-> Step(f, i)]
      <4>1. f = [i \in 0..n |-> f[i]]
        OBVIOUS
      <4> HIDE DEF f, Step
      <4> QED
        BY <3>2, <4>1
    <3> HIDE DEF f, Step
    <3>4. Has(n)
      BY <3>3
    <3> HIDE DEF Has
    <3> QED
      BY <1>1, <3>4
  <2>3. N \in T
    <3> HIDE DEF T
    <3>1. \A i \in 0..N : i \in T
      BY <1>1, <2>1, <2>2, PrefixInduction
    <3> QED
      BY <1>1, <3>1
  <2> QED
    BY <2>3
<1>4. Fold = [i \in 0..N |-> Step(Fold, i)]
  BY <1>3, Zenon
<1> HIDE DEF Fold
<1>5. Fold[0] = Empty /\ \A i \in 1..N : Fold[i] = Do(Fold[i - 1], i)
  BY <1>1, <1>4
<1> DEFINE K(i) == Assigned(claims, resolved, i)
           D == {resolved[j] : j \in 1..N}
<1>6. Reflects(Empty, K(0))
  <2>1. K(0) = {}
    BY DEF Assigned
  <2> QED
    BY <2>1 DEF Reflects, Empty
<1>7. ASSUME NEW i \in 1..N, Reflects(Fold[i - 1], K(i - 1)) PROVE Reflects(Fold[i], K(i))
  <2>1. K(i) = K(i - 1) \cup (IF Skipped(claims[i]) \/ resolved[i] = NoDevice THEN {}
                               ELSE {<<resolved[i], claims[i].pod>>})
    <3>1. 1..i = 1..(i - 1) \cup {i} /\ i \notin 1..(i - 1)
      BY <1>1
    <3> QED
      BY <3>1 DEF Assigned
  <2>2. K(i - 1) \in SUBSET (D \X Pods)
    BY <1>1 DEF Assigned
  <2>3. Fold[i] = IF Skipped(claims[i]) THEN Fold[i - 1]
                  ELSE assign(Fold[i - 1], resolved[i], claims[i].pod)
    BY <1>5 DEF Do
  <2>4. CASE Skipped(claims[i]) \/ resolved[i] = NoDevice
    <3>1. Fold[i] = Fold[i - 1]
      BY <2>3, <2>4 DEF assign
    <3> QED
      BY <1>7, <2>1, <2>4, <3>1
  <2>5. CASE ~Skipped(claims[i]) /\ resolved[i] # NoDevice
    <3>1. resolved[i] \in D /\ claims[i].pod \in Pods
      BY <1>1
    <3> HIDE DEF K, D
    <3> QED
      BY <1>7, <2>1, <2>2, <2>3, <2>5, <3>1, AssignReflects
  <2> QED
    BY <2>4, <2>5
<1>8. \A i \in 0..N : Reflects(Fold[i], K(i))
  <2> HIDE DEF K
  <2> DEFINE T == {i \in 0..N : Reflects(Fold[i], K(i))}
  <2>1. 0 \in T
    BY <1>1, <1>5, <1>6
  <2>2. \A i \in 1..N : i - 1 \in T => i \in T
    BY <1>7
  <2>3. \A i \in 0..N : i \in T
    <3> HIDE DEF T
    <3> QED
      BY <1>1, <2>1, <2>2, PrefixInduction
  <2> QED
    BY <2>3
<1> QED
  BY <1>1, <1>2, <1>8 DEF N

-----------------------------------------------------------------------------
\* A claim resolves to a device exactly when it means it.
LEMMA ResolvesWhatItMeans ==
  ASSUME NEW claim, inventory \in Inventories, NEW n \in DOMAIN inventory
  PROVE  /\ Means(claim, n) <=> claim.ours /\ claim.id # NoDevice
                                 /\ resolve(claim, inventory) = n
         /\ resolve(claim, inventory) \in DOMAIN inventory \cup {NoDevice}
<1> DEFINE current == {m \in DOMAIN inventory : inventory[m].compute}
           aliased == {m \in current : /\ Partitioned(inventory[m])
                                       /\ claim.id = Append(m, inventory[m].mode)}
           Segments == STRING \cup {"vf1", "vf4"}
<1>1. \A m \in DOMAIN inventory : m \in Seq(Segments) /\ m # NoDevice
  <2>1. \A m \in DOMAIN inventory : m \in Seq(STRING) /\ m # NoDevice
    BY InventoriesAssumption
  <2>2. Seq(STRING) \subseteq Seq(Segments)
    OBVIOUS
  <2> QED
    BY <2>1, <2>2
<1>2. \A m \in DOMAIN inventory, mode \in {"vf1", "vf4"} :
        Append(m, mode) \notin DOMAIN inventory /\ Append(m, mode) # NoDevice
  <2>1. \A m \in DOMAIN inventory, mode \in {"vf1", "vf4"} : Append(m, mode) # <<>>
    <3>1. \A m \in Seq(Segments), mode \in Segments : Append(m, mode) # <<>>
      BY AppendProperties, Zenon
    <3>2. {"vf1", "vf4"} \subseteq Segments
      OBVIOUS
    <3> HIDE DEF Segments
    <3> QED
      BY <1>1, <3>1, <3>2
  <2>2. \A m \in DOMAIN inventory, mode \in {"vf1", "vf4"} : Append(m, mode) \notin DOMAIN inventory
    BY InventoriesAssumption
  <2> QED
    BY <2>1, <2>2 DEF NoDevice
<1>3. \A k, m \in aliased : k = m
  <2> SUFFICES ASSUME NEW k \in aliased, NEW m \in aliased PROVE k = m
    OBVIOUS
  <2>1. inventory[k].mode \in Segments /\ inventory[m].mode \in Segments
    BY DEF Partitioned
  <2>2. k \in Seq(Segments) /\ m \in Seq(Segments)
        /\ Append(k, inventory[k].mode) = Append(m, inventory[m].mode)
    BY <1>1
  <2> HIDE DEF Segments
  <2> QED
    BY <2>1, <2>2, AppendInjective
<1>4. resolve(claim, inventory) =
        IF claim.id \in current
        THEN IF \/ ~inventory[claim.id].isVF
                \/ /\ ~claim.dra
                   /\ Partitioned(inventory[claim.id])
                   /\ claim.mode = inventory[claim.id].mode
             THEN claim.id ELSE NoDevice
        ELSE IF claim.dra /\ aliased # {} THEN CHOOSE m \in aliased : TRUE
        ELSE NoDevice
  BY DEF resolve
<1>5. aliased # {} => (CHOOSE m \in aliased : TRUE) \in aliased
  OBVIOUS
<1>6. CASE claim.id \in current
  <2>1. aliased = {}
    BY <1>2, <1>6 DEF Partitioned
  <2> QED
    BY <1>1, <1>4, <1>6, <2>1 DEF Means, Partitioned
<1>7. CASE claim.id \notin current
  <2>1. Means(claim, n) <=> claim.ours /\ claim.dra /\ n \in aliased
    BY <1>7 DEF Means, Partitioned
  <2>2. n \in aliased => claim.id # NoDevice
    BY <1>2 DEF Partitioned
  <2>3. resolve(claim, inventory) = IF claim.dra /\ aliased # {} THEN CHOOSE m \in aliased : TRUE
                                    ELSE NoDevice
    BY <1>4, <1>7
  <2>4. aliased \subseteq DOMAIN inventory
    OBVIOUS
  <2> HIDE DEF current, aliased
  <2>5. n \in aliased => n = CHOOSE m \in aliased : TRUE
    BY <1>3, <1>5
  <2> QED
    BY <1>1, <1>5, <2>1, <2>2, <2>3, <2>4, <2>5
<1> QED
  BY <1>6, <1>7

\* Responses are lists of claims, inventories are the node's.
AttributionTypeOK == response \in Seq(Claims) /\ inventory \in Inventories

LEMMA TypesHold == Spec => []AttributionTypeOK
<1>1. Init => AttributionTypeOK
  BY DEF Init, AttributionTypeOK, NoResponse
<1>2. AttributionTypeOK /\ [Next]_vars => AttributionTypeOK'
  BY DEF AttributionTypeOK, Next, ListMore, Repartition, vars
<1> QED
  BY <1>1, <1>2, PTL DEF Spec

\* What Snapshot says of a device, in terms of its claimants.
LEMMA SnapshotReflects ==
  ASSUME AttributionTypeOK
  PROVE  /\ \A n \in DOMAIN inventory : \A p \in Claimants(n) :
              n \in DOMAIN Snapshot.devices /\ ~before(p, Snapshot.devices[n])
         /\ \A n \in DOMAIN Snapshot.devices :
              n \in DOMAIN inventory /\ Snapshot.devices[n] \in Claimants(n)
         /\ \A n : n \in Snapshot.shared <=>
                     n \in DOMAIN inventory /\ \E p, q \in Claimants(n) : ~SamePod(p, q)
<1> DEFINE resolved == [i \in DOMAIN response |-> resolve(response[i], inventory)]
           K == Assigned(response, resolved, Len(response))
<1>1. DOMAIN response = 1..Len(response) /\ \A j \in DOMAIN response : response[j] \in Claims
  BY DEF AttributionTypeOK
<1>2. \A j \in DOMAIN response : response[j].pod \in Pods
  BY <1>1, ClaimsAssumption DEF Pods
<1>3. Reflects(Snapshot, K)
  BY <1>2, LoopReflects DEF Snapshot, SnapshotFor, AttributionTypeOK
<1>4. ASSUME NEW n, NEW p
      PROVE  <<n, p>> \in K <=> n \in DOMAIN inventory /\ p \in Claimants(n)
  <2>1. <<n, p>> \in K <=>
          \E j \in DOMAIN response :
            /\ response[j].ours /\ response[j].id # NoDevice
            /\ resolve(response[j], inventory) # NoDevice
            /\ n = resolve(response[j], inventory) /\ p = response[j].pod
    BY <1>1 DEF Assigned
  <2> HIDE DEF K
  <2>2. \A m \in DOMAIN inventory : m # NoDevice
    BY InventoriesAssumption DEF AttributionTypeOK
  <2>3. CASE n \in DOMAIN inventory
    <3>1. \A j \in DOMAIN response :
            Means(response[j], n) <=> response[j].ours /\ response[j].id # NoDevice
                                      /\ resolve(response[j], inventory) = n
      BY <2>3, ResolvesWhatItMeans DEF AttributionTypeOK
    <3> QED
      BY <2>1, <2>2, <2>3, <3>1 DEF Claimants
  <2>4. CASE n \notin DOMAIN inventory
    <3>1. CASE DOMAIN inventory # {}
      <4>1. \A j \in DOMAIN response : resolve(response[j], inventory) \in DOMAIN inventory \cup {NoDevice}
        BY <3>1, ResolvesWhatItMeans DEF AttributionTypeOK
      <4> QED
        BY <2>1, <2>4, <4>1
    <3>2. CASE DOMAIN inventory = {}
      <4>1. \A j \in DOMAIN response : resolve(response[j], inventory) = NoDevice
        BY <3>2 DEF resolve
      <4> QED
        BY <2>1, <2>4, <4>1
    <3> QED
      BY <3>1, <3>2
  <2> QED
    BY <2>3, <2>4
<1> HIDE DEF K
<1> QED
  BY <1>3, <1>4 DEF Reflects

\* Whatever kubelet lists and however the node was repartitioned since, a device is
\* credited to the least container that holds it under its current profile, and to none
\* if there is none (kubernetes.go 187-250).
THEOREM CreditsLeastClaimant == Spec => []LeastClaimant
<1>1. AttributionTypeOK => LeastClaimant
  <2> SUFFICES ASSUME AttributionTypeOK PROVE LeastClaimant
    OBVIOUS
  <2>1. \A n \in DOMAIN inventory : Claimants(n) # {} => n \in DOMAIN Snapshot.devices
    BY SnapshotReflects
  <2>2. DOMAIN Snapshot.devices = {n \in DOMAIN inventory : Claimants(n) # {}}
    BY <2>1, SnapshotReflects
  <2> QED
    BY <2>2, SnapshotReflects DEF LeastClaimant
<1> QED
  BY <1>1, TypesHold, PTL

\* A device is marked shared exactly when two pods claim it, in whatever order the
\* claims are listed (kubernetes.go 178-182, 236-243).
THEOREM SharedByTwoPods == Spec => []SharedMeansTwoPods
<1>1. AttributionTypeOK => SharedMeansTwoPods
  BY SnapshotReflects DEF SharedMeansTwoPods
<1> QED
  BY <1>1, TypesHold, PTL
=============================================================================
