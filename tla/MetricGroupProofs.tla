-------------------------- MODULE MetricGroupProofs -------------------------
(***************************************************************************)
(* What MetricGroup promises for every set of exporters, creators and      *)
(* administrator's groups.  The inductive invariant adds to the property   *)
(* that a daemon has at most one group of an id, and that a creation whose *)
(* group was already there, or was added, leaves a group behind as long as *)
(* nobody but exporters touches the daemon.                                *)
(***************************************************************************)
EXTENDS MetricGroup, TLAPS

OneGroupPerId == \A g, h \in groups : g.id = h.id => g = h

GroupsOK ==
  /\ groups \subseteq MetricGroup
  /\ OneGroupPerId
  /\ pc \in [Exporters -> {"idle", "find", "create", "sample"}]
  /\ created \in [Exporters -> BOOLEAN]
  /\ seen \in [Exporters -> SUBSET Tokens]
  /\ outcome \in [Exporters -> {"none", "ok", "failed"}]
  /\ disturbed \subseteq Exporters
  /\ erred \subseteq Exporters /\ found \subseteq Exporters
  /\ changes \in Nat

\* After its creation an undisturbed exporter has a group to find.
CreationStays ==
  \A e \in Exporters : pc[e] = "find" /\ created[e] /\ e \notin disturbed => Ours # {}

IndInv == GroupsOK /\ CreationStays /\ SamplesWantedGroup

-----------------------------------------------------------------------------
\* A group that validateMetricGroup accepts is the wanted one (metric_group.go 50-64).
LEMMA ValidIsWanted ==
  ASSUME NEW g \in MetricGroup, g.id = MetricGroupID, validateMetricGroup(g)
  PROVE  g = Wanted
BY DEF MetricGroup, validateMetricGroup, Wanted

\* The group an exporter creates is a group of the API.
LEMMA WantedIsGroup == Wanted \in MetricGroup
BY WantedAssumption DEF CreateMetricGroupRequest

\* A creation by an exporter keeps the groups there are and their ids apart.
LEMMA CreationAdds ==
  ASSUME groups \subseteq MetricGroup, OneGroupPerId
  PROVE  LET r == CreateMetricGroup(groups, Wanted)
         IN /\ r.groups \subseteq MetricGroup
            /\ \A g, h \in r.groups : g.id = h.id => g = h
            /\ groups \subseteq r.groups /\ r.groups \subseteq groups \cup {Wanted}
            /\ {g \in r.groups : g.id = MetricGroupID} # {}
            /\ r.code = "OK" => {g \in r.groups : g.id = MetricGroupID} = {Wanted}
            /\ Ours # {} => r.groups = groups
<1>1. CASE \E g \in groups : g.id = Wanted.id
  BY <1>1 DEF CreateMetricGroup, OneGroupPerId, Ours, Wanted
<1>2. CASE ~ \E g \in groups : g.id = Wanted.id
  BY <1>2, WantedIsGroup DEF CreateMetricGroup, OneGroupPerId, Ours, Wanted
<1> QED BY <1>1, <1>2

-----------------------------------------------------------------------------
LEMMA InitInv == Init => IndInv
<1> SUFFICES ASSUME Init PROVE IndInv
  OBVIOUS
<1>1. groups \subseteq MetricGroup /\ OneGroupPerId
  BY GroupAssumption DEF Init, OneGroupPerId
<1> QED BY <1>1 DEF Init, IndInv, GroupsOK, CreationStays, SamplesWantedGroup

\* Whatever the daemon or its administrator does, every collection under way counts as
\* disturbed; the ids stay apart.
LEMMA EnvironmentInv ==
  ASSUME IndInv, Environment
  PROVE  IndInv'
<1> USE DEF IndInv, GroupsOK, OneGroupPerId
<1>1. Change
  BY DEF Environment, Restart, ReachChanges, AdminPuts, AdminDeletes
<1>2. (groups \subseteq MetricGroup)' /\ OneGroupPerId'
  <2>1. CASE Restart
    BY <2>1 DEF Restart
  <2>2. CASE ReachChanges
    BY <2>2 DEF ReachChanges
  <2>3. ASSUME NEW g \in AdminGroups, AdminPuts(g)
        PROVE  (groups \subseteq MetricGroup)' /\ OneGroupPerId'
    BY <2>3, GroupAssumption DEF AdminPuts
  <2>4. ASSUME NEW g \in groups, AdminDeletes(g)
        PROVE  (groups \subseteq MetricGroup)' /\ OneGroupPerId'
    BY <2>4 DEF AdminDeletes
  <2> QED BY <2>1, <2>2, <2>3, <2>4 DEF Environment
<1> QED BY <1>1, <1>2 DEF Change, CreationStays, SamplesWantedGroup

\* An exporter that fails or goes on looking leaves the groups alone or adds the wanted
\* one, and does not sample.
LEMMA LeavesInv ==
  ASSUME IndInv, NEW e \in Exporters, groups \subseteq groups', groups' \subseteq MetricGroup,
         OneGroupPerId', Ours = {Wanted} => Ours' = {Wanted},
         pc' \in [Exporters -> {"idle", "find", "create", "sample"}],
         \A x \in Exporters \ {e} : pc'[x] = pc[x] /\ created'[x] = created[x],
         pc'[e] # "sample",
         pc'[e] = "find" /\ created'[e] /\ e \notin disturbed => Ours' # {},
         created' \in [Exporters -> BOOLEAN], seen' \in [Exporters -> SUBSET Tokens],
         outcome' \in [Exporters -> {"none", "ok", "failed"}],
         disturbed' = disturbed \/ (disturbed' = disturbed \ {e} /\ ~created'[e]),
         erred' \subseteq Exporters, found \ {e} \subseteq found', found' \subseteq Exporters,
         changes' = changes
  PROVE  IndInv'
<1>1. GroupsOK'
  BY DEF IndInv, GroupsOK
<1>2. CreationStays'
  BY DEF IndInv, GroupsOK, CreationStays, Ours
<1>3. SamplesWantedGroup'
  BY DEF IndInv, GroupsOK, SamplesWantedGroup
<1> QED BY <1>1, <1>2, <1>3 DEF IndInv

\* A step of an exporter.
LEMMA ExporterInv ==
  ASSUME IndInv, NEW e \in Exporters, Collect(e)
  PROVE  IndInv'
<1>t. GroupsOK
  BY DEF IndInv
<1>s. groups' = groups => Ours' = Ours /\ OneGroupPerId' /\ groups' \subseteq MetricGroup
  BY <1>t DEF GroupsOK, Ours, OneGroupPerId
<1>1. CASE EnsureMetricGroup(e)
  BY <1>1, <1>t, <1>s, LeavesInv DEF EnsureMetricGroup, Goto, daemonVars, GroupsOK
<1>2. CASE FindNextPage(e)
  BY <1>2, <1>t, <1>s, LeavesInv DEF FindNextPage, Ends, daemonVars, GroupsOK, IndInv, CreationStays
<1>3. CASE FindUnreachable(e) \/ ListFails(e) \/ SampleFails(e) \/ Sample(e)
  BY <1>3, <1>t, <1>s, LeavesInv
     DEF FindUnreachable, ListFails, SampleFails, Sample, Fails, Ends, daemonVars, GroupsOK
<1>4. CASE FindReturns(e)
  <2>1. PICK g \in Ours : Returns(e, g)
    BY <1>4 DEF FindReturns
  <2>2. UNCHANGED <<groups, changes, created, disturbed, seen, erred>>
    BY <1>4 DEF FindReturns, daemonVars
  <2>3. CASE validateMetricGroup(g)
    <3>1. Ours = {Wanted}
      BY <1>t, <2>1, <2>3, ValidIsWanted DEF Ours, OneGroupPerId, GroupsOK
    <3>2. pc' = [pc EXCEPT ![e] = "sample"] /\ outcome' = outcome /\ found' = found \cup {e}
      BY <1>s, <2>1, <2>2, <2>3, <3>1 DEF Returns, Goto
    <3> QED BY <1>t, <1>s, <2>2, <3>1, <3>2 DEF IndInv, GroupsOK, CreationStays, SamplesWantedGroup
  <2>4. CASE ~validateMetricGroup(g)
    BY <1>t, <1>s, <2>1, <2>2, <2>4, LeavesInv DEF Returns, Ends, GroupsOK
  <2> QED BY <2>3, <2>4
<1>5. CASE FindEmpty(e)
  BY <1>5, <1>t, <1>s, LeavesInv DEF FindEmpty, Goto, Ends, daemonVars, GroupsOK
<1>6. CASE Create(e)
  <2> DEFINE r == CreateMetricGroup(groups, Wanted)
  <2>1. /\ groups' = r.groups
        /\ IF r.code = "OK" THEN \E g \in Ours' : Returns(e, g) ELSE Goto(e, "find")
        /\ created' = [created EXCEPT ![e] = TRUE]
        /\ seen' = [seen EXCEPT ![e] = {}]
        /\ UNCHANGED <<disturbed, changes, erred>>
    BY <1>6 DEF Create
  <2>2. /\ r.groups \subseteq MetricGroup
        /\ \A g, h \in r.groups : g.id = h.id => g = h
        /\ groups \subseteq r.groups
        /\ {g \in r.groups : g.id = MetricGroupID} # {}
        /\ r.code = "OK" => {g \in r.groups : g.id = MetricGroupID} = {Wanted}
        /\ Ours # {} => r.groups = groups
    BY <1>t, CreationAdds DEF GroupsOK
  <2> HIDE DEF r
  <2>3. /\ groups' \subseteq MetricGroup /\ OneGroupPerId' /\ groups \subseteq groups'
        /\ Ours' # {} /\ (r.code = "OK" => Ours' = {Wanted}) /\ (Ours # {} => Ours' = Ours)
    BY <2>1, <2>2 DEF OneGroupPerId, Ours
  <2>4. CASE r.code = "OK"
    <3>1. Returns(e, Wanted)
      BY <2>1, <2>3, <2>4
    <3>2. pc' = [pc EXCEPT ![e] = "sample"] /\ outcome' = outcome /\ found' = found \cup {e}
      BY <2>3, <2>4, <3>1 DEF Returns, Goto, validateMetricGroup, Wanted
    <3>3. GroupsOK'
      BY <1>t, <2>1, <2>3, <3>2 DEF GroupsOK
    <3>4. CreationStays' /\ SamplesWantedGroup'
      BY <1>t, <2>1, <2>3, <2>4, <3>2 DEF GroupsOK, CreationStays, SamplesWantedGroup, IndInv
    <3> QED BY <3>3, <3>4 DEF IndInv
  <2>5. CASE r.code # "OK"
    <3>1. pc' = [pc EXCEPT ![e] = "find"] /\ outcome' = outcome /\ found' = found \ {e}
      BY <2>1, <2>5 DEF Goto
    <3> QED BY <1>t, <2>1, <2>3, <3>1, LeavesInv DEF GroupsOK
  <2> QED BY <2>4, <2>5
<1>7. CASE CreateFails(e)
  <2> DEFINE r == CreateMetricGroup(groups, Wanted)
  <2>1. /\ r.groups \subseteq MetricGroup
        /\ \A g, h \in r.groups : g.id = h.id => g = h
        /\ groups \subseteq r.groups
        /\ Ours # {} => r.groups = groups
    BY <1>t, CreationAdds DEF GroupsOK
  <2>2. groups' \in {groups, r.groups}
    BY <1>7 DEF CreateFails
  <2> HIDE DEF r
  <2>3. /\ groups' \subseteq MetricGroup /\ OneGroupPerId' /\ groups \subseteq groups'
        /\ Ours # {} => Ours' = Ours
    BY <1>s, <2>1, <2>2 DEF OneGroupPerId, Ours
  <2> QED BY <1>7, <1>t, <2>3, LeavesInv DEF CreateFails, Fails, Ends, GroupsOK
<1> QED BY <1>1, <1>2, <1>3, <1>4, <1>5, <1>6, <1>7 DEF Collect

LEMMA NextInv == IndInv /\ [Next]_vars => IndInv'
<1> SUFFICES ASSUME IndInv, [Next]_vars PROVE IndInv'
  OBVIOUS
<1>1. CASE Environment
  BY <1>1, EnvironmentInv
<1>2. CASE ExporterStep
  BY <1>2, ExporterInv DEF ExporterStep
<1>3. CASE UNCHANGED vars
  BY <1>3 DEF vars, daemonVars, IndInv, GroupsOK, CreationStays, SamplesWantedGroup,
              OneGroupPerId, Ours
<1> QED BY <1>1, <1>2, <1>3 DEF Next

LEMMA AlwaysInv == Spec => []IndInv
BY InitInv, NextInv, PTL DEF Spec

-----------------------------------------------------------------------------
\* metric_group.go 54-61: an exporter samples only after it had the very group it wants
\* before it in this collection, and one whose collection met no restart and no
\* administrator still has it, however many exporters race to create it.
THEOREM SamplesWanted == Spec => []SamplesWantedGroup
<1>1. IndInv => SamplesWantedGroup
  BY DEF IndInv
<1> QED BY <1>1, AlwaysInv, PTL

-----------------------------------------------------------------------------
\* An exporter's step adds the wanted group or leaves the groups alone.
LEMMA ExporterAddsOnly ==
  ASSUME IndInv, NEW e \in Exporters, Collect(e)
  PROVE  groups \subseteq groups' /\ groups' \subseteq groups \cup {Wanted}
<1>1. CASE Create(e)
  <2>1. groups' = CreateMetricGroup(groups, Wanted).groups
    BY <1>1 DEF Create
  <2> QED BY <2>1, CreationAdds DEF IndInv, GroupsOK
<1>2. CASE CreateFails(e)
  <2>1. groups' \in {groups, CreateMetricGroup(groups, Wanted).groups}
    BY <1>2 DEF CreateFails
  <2> QED BY <2>1, CreationAdds DEF IndInv, GroupsOK
<1>3. CASE ~Create(e) /\ ~CreateFails(e)
  BY <1>3 DEF Collect, EnsureMetricGroup, FindNextPage, FindUnreachable, FindReturns,
              FindEmpty, Sample, ListFails, SampleFails, daemonVars
<1> QED BY <1>1, <1>2, <1>3

\* metric_group.go 61 "refusing to sample or modify it": between two interventions of the
\* daemon or its administrator the groups only ever gain the wanted one.
THEOREM NotModified == Spec => GroupsNotModified
<1>1. ASSUME IndInv, [Next]_vars
      PROVE  [changes' = changes =>
                groups \subseteq groups' /\ groups' \subseteq groups \cup {Wanted}]_vars
  <2>1. CASE Environment
    <3>1. changes' = changes + 1 /\ changes \in Int
      BY <1>1, <2>1 DEF Environment, Restart, ReachChanges, AdminPuts, AdminDeletes, Change,
                       IndInv, GroupsOK
    <3> QED BY <3>1
  <2>2. CASE ExporterStep
    BY <2>2, <1>1, ExporterAddsOnly DEF ExporterStep
  <2>3. CASE UNCHANGED vars
    BY <2>3
  <2> QED BY <1>1, <2>1, <2>2, <2>3 DEF Next
<1> QED BY <1>1, AlwaysInv, PTL DEF Spec, GroupsNotModified

\* metric_group.go 27-48, 66-95: a collection that no restart and no administrator disturbs
\* and no RPC error ends fails only because its group is refused, unreachable, not to be
\* created or listed in circles; losing the race for its creation is no such cause, and
\* neither is another exporter's creation whose answer was lost.
THEOREM FailsForCause == Spec => FailsOnlyForCause
<1> DEFINE Cause(e) == \/ e \in disturbed
                       \/ e \in erred'
                       \/ MetricGroupID \in unreachable
                       \/ seen[e] # {}
                       \/ \E g \in Ours : g # Wanted
                       \/ Ours = {} /\ e \notin Creators
           Failed(e) == pc[e] # "idle" /\ pc'[e] = "idle" /\ outcome'[e] = "failed"
<1>1. ASSUME IndInv, NEW e \in Exporters, Collect(e), NEW f \in Exporters, Failed(f)
      PROVE  Cause(f)
  <2> USE DEF Goto, Ends
  <2>t. IndInv
    BY <1>1
  <2>1. CASE EnsureMetricGroup(e)
    BY <2>1, <1>1 DEF EnsureMetricGroup, IndInv, GroupsOK
  <2>2. CASE FindNextPage(e)
    BY <2>2, <1>1 DEF FindNextPage, IndInv, GroupsOK
  <2>3. CASE FindUnreachable(e)
    BY <2>3 DEF FindUnreachable
  <2>4. CASE FindReturns(e)
    BY <2>4, <1>1 DEF FindReturns, Returns, validateMetricGroup, Wanted, IndInv, GroupsOK
  <2>5. CASE FindEmpty(e)
    BY <2>5, <1>1 DEF FindEmpty, CreationStays, IndInv, GroupsOK
  <2>6. CASE Create(e)
    <3>1. pc'[f] = pc[f] \/ pc'[f] # "idle"
      <4> DEFINE r == CreateMetricGroup(groups, Wanted)
      <4>1. r.code = "OK" => {g \in r.groups : g.id = MetricGroupID} = {Wanted}
        BY <2>t, CreationAdds DEF IndInv, GroupsOK
      <4>2. /\ groups' = r.groups
            /\ IF r.code = "OK" THEN \E g \in Ours' : Returns(e, g) ELSE Goto(e, "find")
        BY <2>6 DEF Create
      <4> HIDE DEF r
      <4>3. Goto(e, "find") \/ Returns(e, Wanted)
        BY <4>1, <4>2 DEF Ours
      <4>4. validateMetricGroup(Wanted)
        BY DEF validateMetricGroup, Wanted
      <4> QED BY <4>3, <4>4, <2>t DEF Returns, IndInv, GroupsOK
    <3> QED BY <3>1, <1>1
  <2>7. CASE ListFails(e) \/ CreateFails(e) \/ SampleFails(e)
    BY <2>7, <1>1 DEF ListFails, CreateFails, SampleFails, Fails, IndInv, GroupsOK
  <2>8. CASE Sample(e)
    BY <2>8, <1>1 DEF Sample, SampleCode, SamplesWantedGroup, Wanted, Ours, IndInv, GroupsOK
  <2> QED BY <1>1, <2>1, <2>2, <2>3, <2>4, <2>5, <2>6, <2>7, <2>8 DEF Collect
<1>2. ASSUME IndInv, [Next]_vars
      PROVE  [\A e \in Exporters : Failed(e) => Cause(e)]_vars
  <2>1. CASE Environment
    BY <2>1 DEF Environment, Restart, ReachChanges, AdminPuts, AdminDeletes, Change
  <2>2. CASE ExporterStep
    <3> SUFFICES ASSUME NEW f \in Exporters, Failed(f) PROVE Cause(f)
      OBVIOUS
    <3>1. PICK e \in Exporters : Collect(e)
      BY <2>2 DEF ExporterStep
    <3> QED BY <3>1, <1>1, <1>2
  <2>3. CASE UNCHANGED vars
    BY <2>3
  <2> QED BY <1>2, <2>1, <2>2, <2>3 DEF Next
<1> QED BY <1>2, AlwaysInv, PTL DEF Spec, FailsOnlyForCause
=============================================================================
