----------------------------- MODULE MCPayments -----------------------------
(* Small instances of Payments for TLC. *)
EXTENDS Payments

CONSTANTS u1, p1, r1, r2

OneUser     == {u1}
OnePayment  == {p1}
TwoRequests == {r1, r2}

ToTheUser == [p \in {p1} |-> u1]
Three     == [p \in {p1} |-> 3]
Small     == {1}
Medium    == {2}
=============================================================================
