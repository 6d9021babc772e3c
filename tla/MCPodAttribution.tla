-------------------------- MODULE MCPodAttribution --------------------------
(***************************************************************************)
(* A card that is whole, or cut into VFs of profile vf1 or vf4, and the    *)
(* claims of three containers of two namespaces on it.                     *)
(***************************************************************************)
EXTENDS PodAttributionCheck

PF == <<"rbln0">>
VF == <<"rbln0", "0">>

Info(isVF, mode, compute) == [isVF |-> isVF, mode |-> mode, compute |-> compute]

Cut(mode) == [n \in {PF, VF} |-> IF n = PF THEN Info(FALSE, "hosting", FALSE)
                                 ELSE Info(TRUE, mode, TRUE)]

MCInventories == {[n \in {PF} |-> Info(FALSE, "none", TRUE)],
                  Cut("vf1"), Cut("vf4"), Cut("")}

Container(ns, pod, c) == [namespace |-> ns, name |-> pod, container |-> c]

MCPods == {Container(1, 2, 1), Container(1, 2, 2), Container(2, 1, 1)}

Plugin(id, mode, ours, pod) ==
  [id |-> id, dra |-> FALSE, ours |-> ours, mode |-> mode, pod |-> pod]
DRA(id, ours, pod) ==
  [id |-> id, dra |-> TRUE, ours |-> ours, mode |-> "", pod |-> pod]

MCClaims ==
  UNION {{Plugin(PF, "", TRUE, p), Plugin(VF, "vf4", TRUE, p),
          DRA(PF, TRUE, p), DRA(VF, TRUE, p), DRA(Append(VF, "vf4"), TRUE, p)} : p \in MCPods}
    \cup {Plugin(PF, "", FALSE, Container(1, 1, 1)), Plugin(VF, "vf1", TRUE, Container(1, 1, 1)),
          DRA(PF, FALSE, Container(1, 1, 1)), DRA(NoDevice, TRUE, Container(1, 1, 1)),
          DRA(Append(VF, "vf1"), TRUE, Container(1, 1, 1))}
=============================================================================
