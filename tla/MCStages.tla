------------------------------ MODULE MCStages ------------------------------
(* A small instance of Stages for TLC. *)
EXTENDS Stages, TLC

CONSTANTS h1, h2, staging

TwoSlugs    == {Production, staging}
TwoHandlers == {h1, h2}
AnyFault    == {"write", "cluster", "crash"}

\* Every request of one handler may overlap with every one of the other.
Roles == (h1 :> {"create", "resolve", "delete", "report"}) @@ (h2 :> {"list", "urls", "runtime", "delete"})
=============================================================================
