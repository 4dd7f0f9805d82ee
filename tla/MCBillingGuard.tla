--------------------------- MODULE MCBillingGuard ---------------------------
(* Instances of BillingGuard for TLC: one project per user. *)
EXTENDS BillingGuard

CONSTANTS u1, u2, p1, p2

MCOwner == [p \in Projects |-> IF p = p1 THEN u1 ELSE u2]
=============================================================================
