----------------------------- MODULE MetricGroup ----------------------------
(***************************************************************************)
(* The metric group of internal/daemon/metric_group.go: several exporters  *)
(* of one daemon find, create, validate and sample the group of one id,    *)
(* while the daemon restarts without its groups and an administrator       *)
(* creates, changes and deletes groups.  Each RPC is a step, and each may  *)
(* fail.  Of the metric ids of a group only their set is kept.             *)
(***************************************************************************)
EXTENDS SmdApi

CONSTANTS
  Exporters,      \* clients of the daemon
  Creators,       \* those that run with CreateMetricGroup
  MetricGroupID,  \* the id they are configured with
  AdminGroups,    \* the groups an administrator may put in place
  MaxChanges      \* bound on restarts and changes by the administrator

ASSUME GroupAssumption ==
  /\ Creators \subseteq Exporters
  /\ MetricGroupID \in GroupIds
  /\ AdminGroups \subseteq MetricGroup
  /\ MaxChanges \in Nat

VARIABLES
  groups,       \* the groups of the daemon
  unreachable,  \* the ids it lists as unreachable
  changes,      \* restarts and changes so far
  pc,           \* per exporter, the next step of its collection
  seen,         \* the page tokens of its current listing
  created,      \* it has tried to create the group in this collection
  outcome,      \* how its last collection ended
  disturbed,    \* history: exporters whose collection has met a change or restart
  erred,        \* history: exporters whose collection was answered with an error
  found         \* history: exporters about to sample that had the wanted group before them

daemonVars == <<groups, unreachable, changes>>
vars == <<daemonVars, pc, seen, created, outcome, disturbed, erred, found>>

exporterMetricIDs == {"temperature", "power", "utilization", "memory_used", "power_state"}

Wanted == [id |-> MetricGroupID, metrics |-> exporterMetricIDs, scope |-> "all",
           policy |-> "on_demand"]

ASSUME WantedAssumption == Wanted \in CreateMetricGroupRequest

Ours == {g \in groups : g.id = MetricGroupID}

Init ==
  /\ groups \in {{}} \cup {{g} : g \in AdminGroups}
  /\ unreachable = {}
  /\ changes = 0
  /\ pc = [e \in Exporters |-> "idle"]
  /\ seen = [e \in Exporters |-> {}]
  /\ created = [e \in Exporters |-> FALSE]
  /\ outcome = [e \in Exporters |-> "none"]
  /\ disturbed = {} /\ erred = {} /\ found = {}

-----------------------------------------------------------------------------
\* The daemon and its administrator (external).
Change ==
  /\ changes < MaxChanges
  /\ changes' = changes + 1
  /\ disturbed' = {e \in Exporters : pc[e] # "idle"}
  /\ UNCHANGED <<pc, seen, created, outcome, erred, found>>

Restart == groups' = {} /\ unreachable' = {} /\ Change

\* CreateMetricGroup, UpdateMetricGroup and DeleteMetricGroup of the administrator.
AdminPuts(g) ==
  /\ groups' = {h \in groups : h.id # g.id} \cup {g}
  /\ UNCHANGED unreachable /\ Change
AdminDeletes(g) ==
  g \in groups /\ groups' = groups \ {g} /\ UNCHANGED unreachable /\ Change

ReachChanges ==
  unreachable' \in {{}, {MetricGroupID}} \ {unreachable} /\ UNCHANGED groups /\ Change

Environment ==
  \/ Restart \/ ReachChanges
  \/ \E g \in AdminGroups : AdminPuts(g)
  \/ \E g \in groups : AdminDeletes(g)

-----------------------------------------------------------------------------
Goto(e, step) ==
  /\ pc' = [pc EXCEPT ![e] = step] /\ UNCHANGED outcome
  /\ found' = IF step = "sample" /\ Ours' = {Wanted} THEN found \cup {e} ELSE found \ {e}
Ends(e, result) ==
  /\ pc' = [pc EXCEPT ![e] = "idle"] /\ outcome' = [outcome EXCEPT ![e] = result]
  /\ found' = found \ {e}

\* An RPC of the collection ends with an error, or with a group it cannot accept.
Fails(e) == Ends(e, "failed") /\ erred' = erred \cup {e}

\* Mutation of EnsureMetricGroup: what was once ensured is not looked at again.
EnsureMetricGroupOnce(e) ==
  /\ pc[e] = "idle"
  /\ UNCHANGED daemonVars
  /\ Goto(e, IF outcome[e] = "none" THEN "find" ELSE "sample")
  /\ seen' = [seen EXCEPT ![e] = {}] /\ created' = [created EXCEPT ![e] = FALSE]
  /\ disturbed' = disturbed \ {e} /\ erred' = erred \ {e}

\* A collection reaches ensureMetricGroup.
EnsureMetricGroup(e) ==
  /\ pc[e] = "idle"
  /\ UNCHANGED daemonVars
  /\ Goto(e, "find")
  /\ seen' = [seen EXCEPT ![e] = {}] /\ created' = [created EXCEPT ![e] = FALSE]
  /\ disturbed' = disturbed \ {e} /\ erred' = erred \ {e}

\* ListMetricGroups fails, on whichever page and in either search.
ListFails(e) ==
  /\ pc[e] = "find"
  /\ UNCHANGED <<daemonVars, seen, created, disturbed>>
  /\ Fails(e)

\* findMetricGroup, a page without the group and with a token.
FindNextPage(e) ==
  /\ pc[e] = "find" /\ MetricGroupID \notin unreachable
  /\ UNCHANGED <<daemonVars, created, disturbed, erred>>
  /\ \E t \in Tokens :
       IF t \in seen[e] THEN Ends(e, "failed") /\ UNCHANGED seen
       ELSE seen' = [seen EXCEPT ![e] = @ \cup {t}] /\ UNCHANGED <<pc, outcome, found>>

FindUnreachable(e) ==
  /\ pc[e] = "find" /\ MetricGroupID \in unreachable
  /\ UNCHANGED <<daemonVars, seen, created, disturbed, erred>>
  /\ Ends(e, "failed")

\* Mutation of validateMetricGroup: more metrics than wanted are accepted.
validateMetricGroupSuperset(g) ==
  /\ g.id = MetricGroupID
  /\ exporterMetricIDs \subseteq g.metrics
  /\ g.scope = "all" /\ g.policy = "on_demand"

validateMetricGroup(g) ==
  /\ g.id = MetricGroupID
  /\ g.metrics = exporterMetricIDs
  /\ g.scope = "all" /\ g.policy = "on_demand"

\* What ensureMetricGroup ends with: the group is sampled or refused.
Returns(e, g) == IF validateMetricGroup(g) THEN Goto(e, "sample") ELSE Ends(e, "failed")

\* The group is on the page.
FindReturns(e) ==
  /\ pc[e] = "find" /\ MetricGroupID \notin unreachable
  /\ UNCHANGED <<daemonVars, seen, created, disturbed, erred>>
  /\ \E g \in Ours : Returns(e, g)

\* The last page does not have it.  A creation that has just failed with AlreadyExists
\* is not tried again.
FindEmpty(e) ==
  /\ pc[e] = "find" /\ MetricGroupID \notin unreachable
  /\ Ours = {}
  /\ UNCHANGED <<daemonVars, seen, created, disturbed, erred>>
  /\ IF e \in Creators /\ ~created[e] THEN Goto(e, "create") ELSE Ends(e, "failed")

\* Mutation of Create: the loser of a race gives up.
CreateLosing(e) ==
  /\ pc[e] = "create"
  /\ LET r == CreateMetricGroup(groups, Wanted)
     IN /\ groups' = r.groups
        /\ IF r.code = "OK" THEN Goto(e, "sample") ELSE Ends(e, "failed")
  /\ seen' = [seen EXCEPT ![e] = {}] /\ created' = [created EXCEPT ![e] = TRUE]
  /\ UNCHANGED <<unreachable, changes, disturbed, erred>>

\* Mutation of Create: the group is put in place of another one.
CreateReplacing(e) ==
  /\ pc[e] = "create"
  /\ groups' = (groups \ Ours) \cup {Wanted}
  /\ Goto(e, "sample")
  /\ seen' = [seen EXCEPT ![e] = {}] /\ created' = [created EXCEPT ![e] = TRUE]
  /\ UNCHANGED <<unreachable, changes, disturbed, erred>>

\* CreateMetricGroup returns the new group, or it has been there first and is looked
\* for once more.
Create(e) ==
  /\ pc[e] = "create"
  /\ LET r == CreateMetricGroup(groups, Wanted)
     IN /\ groups' = r.groups
        /\ IF r.code = "OK" THEN \E g \in Ours' : Returns(e, g) ELSE Goto(e, "find")
  /\ seen' = [seen EXCEPT ![e] = {}] /\ created' = [created EXCEPT ![e] = TRUE]
  /\ UNCHANGED <<unreachable, changes, disturbed, erred>>

\* CreateMetricGroup fails with any code but AlreadyExists, or returns a group that is
\* not the wanted one; the daemon may have carried it out all the same.
CreateFails(e) ==
  /\ pc[e] = "create"
  /\ groups' \in {groups, CreateMetricGroup(groups, Wanted).groups}
  /\ UNCHANGED <<unreachable, changes, seen, created, disturbed>>
  /\ Fails(e)

\* SampleMetrics of the group's id.
Sample(e) ==
  /\ pc[e] = "sample"
  /\ UNCHANGED <<daemonVars, seen, created, disturbed, erred>>
  /\ Ends(e, IF SampleCode(groups, MetricGroupID) = "OK" THEN "ok" ELSE "failed")

\* It fails although the group is there.
SampleFails(e) ==
  /\ pc[e] = "sample"
  /\ UNCHANGED <<daemonVars, seen, created, disturbed>>
  /\ Fails(e)

Collect(e) ==
  EnsureMetricGroup(e) \/ FindNextPage(e) \/ FindUnreachable(e) \/ FindReturns(e)
  \/ FindEmpty(e) \/ Create(e) \/ Sample(e)
  \/ ListFails(e) \/ CreateFails(e) \/ SampleFails(e)

ExporterStep == \E e \in Exporters : Collect(e)

Next == ExporterStep \/ Environment

Spec == Init /\ [][Next]_vars

\* Every RPC of a collection returns, if only with an error, and collections go on.
FairSpec == Spec /\ \A e \in Exporters : WF_vars(Collect(e))

-----------------------------------------------------------------------------
\* metric_group.go 54-61, client_test.go 175 "unsafe group was sampled": an exporter about
\* to sample has had the very contents it wants before it in this collection, and still
\* finds them unless the daemon was restarted or its groups changed by an administrator
\* since the collection began.  No other exporter can cause it to sample anything else.
SamplesWantedGroup ==
  \A e \in Exporters : pc[e] = "sample" =>
    e \in found /\ (e \notin disturbed => Ours = {Wanted})

\* metric_group.go 61 "refusing to sample or modify it": whatever a group contains, no
\* exporter changes or removes it, and none adds a group other than the wanted one.
GroupsNotModified ==
  [][changes' = changes => groups \subseteq groups' /\ groups' \subseteq groups \cup {Wanted}]_vars

\* Of all collections that meet no restart or change and whose RPCs are answered without
\* an error, only those fail whose group is refused, unreachable, not to be created, or
\* listed in circles; in particular a race of several creators, or the creation of one
\* whose answer was lost, fails for none of them (metric_group.go 27-48, 66-95).
FailsOnlyForCause ==
  [][\A e \in Exporters : pc[e] # "idle" /\ pc'[e] = "idle" /\ outcome'[e] = "failed" =>
       \/ e \in disturbed
       \/ e \in erred'
       \/ MetricGroupID \in unreachable
       \/ seen[e] # {}
       \/ \E g \in Ours : g # Wanted
       \/ Ours = {} /\ e \notin Creators]_vars

\* client_test.go 164: after the last restart or change, every creator ends up sampling,
\* unless a group it must refuse or cannot reach is in the way, or the daemon goes on
\* answering it with errors or with pages without the group.
GroupIsRestored ==
  \A e \in Creators :
    <>[](Ours \subseteq {Wanted} /\ unreachable = {} /\ seen[e] = {} /\ e \notin erred)
    => <>[](outcome[e] = "ok")
=============================================================================
