------------------------------ MODULE Exposure ------------------------------
(***************************************************************************)
(* What the local exporter promises to whoever reads /metrics and the log: *)
(* a collection cycle happens at once.  It either replaces every family by *)
(* the one inventory it collected and raises rbln_up, or empties every     *)
(* family and lowers it; between two cycles nothing moves.  The log line   *)
(* follows from rbln_up and from whether it was ever 1, without a counter  *)
(* of failures and without a clock.                                        *)
(***************************************************************************)
CONSTANTS
  Families,  \* the metric families
  Results,   \* the inventories a cycle may collect
  Legal,     \* Legal[f][r]: the contents of family f that show the result r
  Blank      \* the contents of a family without series

VARIABLES
  settled,   \* no cycle is writing
  view,      \* what the families show while settled
  up, everUp, line

vars == <<settled, view, up, everUp, line>>

Nothing == [f \in Families |-> Blank]

Init ==
  /\ settled = TRUE
  /\ view = Nothing
  /\ up = 0
  /\ everUp = FALSE
  /\ line = "none"

\* A cycle has heard from the daemon, or has given up on it, and begins to write.
Begin ==
  /\ settled
  /\ settled' = FALSE
  /\ view' = Nothing
  /\ UNCHANGED <<up, everUp, line>>

\* The cycle ends with every family showing one and the same inventory.
Succeed ==
  /\ ~settled
  /\ settled' = TRUE
  /\ \E r \in Results : /\ view' = [f \in Families |-> view'[f]]
                        /\ \A f \in Families : view'[f] \in Legal[f][r]
  /\ up' = 1
  /\ everUp' = TRUE
  /\ line' = IF everUp /\ up = 0 THEN "recovered" ELSE line

\* The cycle ends with nothing to show.
Fail ==
  /\ ~settled
  /\ settled' = TRUE
  /\ view' = Nothing
  /\ up' = 0
  /\ line' \in IF everUp THEN {"failed"}
               ELSE IF line = "none" THEN {"waiting"} ELSE {line, "stillWaiting"}
  /\ UNCHANGED everUp

Next == Begin \/ Succeed \/ Fail

Spec == Init /\ [][Next]_vars
=============================================================================
