--------------------------- MODULE MCDeployBudget ---------------------------
(* Small instances of DeployBudget for TLC. *)
EXTENDS DeployBudget

CONSTANTS u1, r1, r2

OneUser     == {u1}
TwoRequests == {r1, r2}
NoOne       == {}

TwoBalances == {0, 2}
FewSpends   == {0, 1}
FewReserves == {1, 2}
=============================================================================
