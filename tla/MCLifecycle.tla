----------------------------- MODULE MCLifecycle ----------------------------
(***************************************************************************)
(* Settings at their limits and wrong ones, one or two at a time.          *)
(***************************************************************************)
EXTENDS Lifecycle

Unset == [interval |-> Nil, mode |-> Nil, kubernetesMode |-> Nil, group |-> Nil,
          oneshot |-> Nil, ca |-> Nil, cert |-> Nil, key |-> Nil]
Both == {"local", "gateway"}

Variables ==
  {[Unset EXCEPT !.mode = m, !.interval = i] : m \in Both \cup {Nil, Typo}, i \in {Nil, Typo, 0, 60}}
  \cup {[Unset EXCEPT !.mode = m, !.cert = c, !.key = k, !.ca = a] :
          m \in Both, c \in {Nil, "good", "bad"}, k \in {Nil, "good"}, a \in {Nil, "bad"}}
  \cup {[Unset EXCEPT !.group = "default"]}

Arguments ==
  {Unset, [Unset EXCEPT !.interval = 1], [Unset EXCEPT !.interval = 61],
   [Unset EXCEPT !.oneshot = Typo], [Unset EXCEPT !.group = "blank"],
   [Unset EXCEPT !.key = ""], [Unset EXCEPT !.kubernetesMode = "on"]}

SomeLevels == {Nil, Typo, "error", "debug"}
SomeFormats == {Nil, Typo, "text"}
=============================================================================
