----------------------------- MODULE MCGateway -----------------------------
(***************************************************************************)
(* Two daemons and a malformed target, scraped with two timeouts and       *)
(* without any.                                                            *)
(***************************************************************************)
EXTENDS Gateway

MCTargets == {"host1:50051", "host2:50051", "host1"}
MCValidTargets == MCTargets \ {"host1"}
MCHeaders == {0, 3}
PrometheusHeaders == {4, 10}
=============================================================================
