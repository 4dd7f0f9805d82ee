---------------------------- MODULE MCProvisioner ----------------------------
(* A small instance of Provisioner for TLC. *)
EXTENDS Provisioner, TLC

CONSTANTS g1, g2

AllModes      == {"domain", "auto", "none"}
TwoGoroutines == {g1, g2}
AnyFault      == {"call", "crash"}

\* One goroutine provisions; every other call may come beside it, and beside a deletion.
Roles == (g1 :> {"create", "delete", "pause"}) @@ (g2 :> {"delete", "resume", "kubeconfig", "command"})
=============================================================================
