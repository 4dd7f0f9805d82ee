----------------------------- MODULE MCBootstrap -----------------------------
(* A small instance of Bootstrap for TLC. *)
EXTENDS Bootstrap, TLC

CONSTANTS g1, g2

TwoGoroutines == {g1, g2}
AnyFault      == {"call", "crash"}
Roles         == (g1 :> {"bootstrap"}) @@ (g2 :> {"bootstrap", "questions"})

Ask(service, type, port, replicas, repository) ==
    [stage |-> "production", service |-> service, type |-> type, dedicated |-> FALSE,
     port |-> port, replicas |-> replicas, repository |-> repository]

\* A request that leaves all to the service; one for no ingress and more replicas than
\* there may be; one for another service, with the repository of the project.
ThreeAsks == {Ask("", "", 0, 0, TRUE), Ask("", "ClusterIP", 80, 12, TRUE), Ask("api", "LoadBalancer", 0, 2, FALSE)}
=============================================================================
