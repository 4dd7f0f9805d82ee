------------------------- MODULE MCProjectLifecycle -------------------------
(* Small instances of ProjectLifecycle for TLC. *)
EXTENDS ProjectLifecycle, TLC

CONSTANTS p1, h1, h2

OneProject  == {p1}
TwoHandlers == {h1, h2}
OneHandler  == {h1}
AnyFault    == {"store", "env", "crash"}
CallFaults  == {"env"}
NoFault     == {}

SwapHandlers == Permutations({h1, h2})
=============================================================================
