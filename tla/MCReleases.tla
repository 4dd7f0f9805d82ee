----------------------------- MODULE MCReleases -----------------------------
(* Small instances of Releases for TLC. *)
EXTENDS Releases, TLC

CONSTANTS g1, g2

OneStage      == {Production}
OneRun        == {1}
TwoGoroutines == {g1, g2}
NoFault       == {}
AnyFault      == {"read", "write", "apply", "crash"}

\* The second run may be of a workflow whose stage does not exist.
OneOrNone == (1 :> {Production}) @@ (2 :> {Production, NoStage})

\* Rollbacks and lists overlap with each other and with events, not with their like.
Roles == (g1 :> {"webhook", "rollback"}) @@ (g2 :> {"webhook", "sync"})
=============================================================================
