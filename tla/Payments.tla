------------------------------ MODULE Payments ------------------------------
(***************************************************************************)
(* A user's balance in deploy-service and who changes it: payments of the  *)
(* YooKassa gateway with their notifications, direct top-ups, and the      *)
(* metering goroutine that charges for usage.                              *)
(*                                                                         *)
(* UpdateBalance writes an absolute value: reading the balance, writing it *)
(* and recording the billing transaction are three calls, and nothing      *)
(* holds them together. A payment's row is a fourth.                       *)
(***************************************************************************)
EXTENDS Integers, FiniteSets

CONSTANTS
    Users,
    Payments,   \* payments, by the gateway's id
    Requests,   \* goroutines serving requests and webhooks
    Meter,      \* the goroutine of runMetricsAggregator
    NoUser, NoPayment,
    Owner,      \* the user a payment is for
    Amount,     \* the amount of a payment
    Deposits,   \* amounts of direct top-ups
    Costs,      \* what ComputeUsageCost may answer
    Opening,    \* defaultBalanceRUB of AuthService
    MaxMoves,   \* bound: direct top-ups and charges
    MaxFaults   \* bound: failing calls, lost answers and restarts

Workers == Requests \cup {Meter}

ASSUME WorkersAssumption == Meter \notin Requests
ASSUME NobodyAssumption == NoUser \notin Users /\ NoPayment \notin Payments
ASSUME PaymentAssumption == Owner \in [Payments -> Users] /\ Amount \in [Payments -> Nat \ {0}]
ASSUME MoneyAssumption == Deposits \subseteq Nat \ {0} /\ Costs \subseteq Nat \ {0} /\ Opening \in Nat
ASSUME BoundAssumption == MaxMoves \in Nat /\ MaxFaults \in Nat

VARIABLES
    gateway,    \* YooKassa's side of each payment
    table,      \* yookassa_payments: the status of each payment's row
    balance,    \* users.balance_rub
    ledger,     \* billing_transactions: the sum of each user's amounts
    work,       \* where each goroutine is, and what it has read
    moves, faults,  \* how much of MaxMoves and MaxFaults is used up
    credits,    \* history: how many times a payment was added to a balance
    overlapped, \* history: two notifications of a payment were served at once
    dropped,    \* history: a call failed that no later notification makes up for
    raced,      \* history: a balance was written while someone else was to write it too
    unrecorded  \* history: a change of a balance got no billing transaction

money   == <<balance, ledger>>
bounds  == <<moves, faults>>
history == <<credits, overlapped, dropped, raced, unrecorded>>
vars    == <<gateway, table, balance, ledger, work, moves, faults,
             credits, overlapped, dropped, raced, unrecorded>>

-----------------------------------------------------------------------------
(* Data *)

GatewayState == {"none", "created", "offered", "paid", "acknowledged"}
RowState     == {"none", "pending", "succeeded"}

Pc   == {"idle", "record", "lookup", "mark", "read", "write", "ledger"}
Job  == [pc : Pc, payment : Payments \cup {NoPayment}, user : Users \cup {NoUser},
         amount : Int, copy : Int]
Idle == [pc |-> "idle", payment |-> NoPayment, user |-> NoUser, amount |-> 0, copy |-> 0]

TypeOK ==
    /\ gateway \in [Payments -> GatewayState]
    /\ table \in [Payments -> RowState]
    /\ balance \in [Users -> Int] /\ ledger \in [Users -> Int]
    /\ work \in [Workers -> Job]
    /\ \A w \in Workers :
          /\ work[w].pc \in {"record", "lookup", "mark"} => work[w].payment \in Payments
          /\ work[w].pc \in {"read", "write", "ledger"} => work[w].user \in Users
          /\ work[w].payment \in Payments => work[w].user = Owner[work[w].payment]
    /\ moves \in 0..MaxMoves /\ faults \in 0..MaxFaults
    /\ credits \in [Payments -> Nat]
    /\ overlapped \in [Payments -> BOOLEAN] /\ dropped \in [Payments -> BOOLEAN]
    /\ raced \in [Users -> BOOLEAN] /\ unrecorded \in [Users -> BOOLEAN]

Init ==
    /\ gateway = [p \in Payments |-> "none"]
    /\ table = [p \in Payments |-> "none"]
    /\ balance = [u \in Users |-> Opening] /\ ledger = [u \in Users |-> 0]
    /\ work = [w \in Workers |-> Idle]
    /\ moves = 0 /\ faults = 0
    /\ credits = [p \in Payments |-> 0]
    /\ overlapped = [p \in Payments |-> FALSE] /\ dropped = [p \in Payments |-> FALSE]
    /\ raced = [u \in Users |-> FALSE] /\ unrecorded = [u \in Users |-> FALSE]

-----------------------------------------------------------------------------
(* Helpers *)

At(w, pc)    == work[w].pc = pc
Goto(w, job) == work' = [work EXCEPT ![w] = job]
Done(w)      == Goto(w, Idle)

Well  == UNCHANGED faults
Fault == faults < MaxFaults /\ faults' = faults + 1
Move  == moves < MaxMoves /\ moves' = moves + 1

Drop(p) == dropped' = IF p = NoPayment THEN dropped ELSE [dropped EXCEPT ![p] = TRUE]

Serving(p)     == {w \in Workers : work[w].payment = p /\ work[w].pc \notin {"idle", "record"}}
AboutToWrite(u) == {w \in Workers : work[w].user = u /\ work[w].pc = "write"}

\* The answer 200, which the gateway may not get. Other requests notify nobody.
Answer(p) ==
    \/ /\ gateway' = IF p = NoPayment THEN gateway ELSE [gateway EXCEPT ![p] = "acknowledged"]
       /\ Well
    \/ p # NoPayment /\ UNCHANGED gateway /\ Fault

-----------------------------------------------------------------------------
(* InitiateTopUp, and the user at the gateway *)

\* The gateway creates the payment, keyed by a fresh id.
InitiateTopUp(w, p) ==
    /\ w \in Requests /\ At(w, "idle") /\ gateway[p] = "none"
    /\ gateway' = [gateway EXCEPT ![p] = "created"]
    /\ Goto(w, [Idle EXCEPT !.pc = "record", !.payment = p, !.user = Owner[p], !.amount = Amount[p]])
    /\ UNCHANGED <<table, money, bounds, history>>

\* Mutant: the row gets the gateway's own status.
RecordPaymentAsIs(w) ==
    LET p == work[w].payment IN
    /\ At(w, "record")
    /\ table' = [table EXCEPT ![p] = gateway[p]]
    /\ gateway' = [gateway EXCEPT ![p] = "offered"]
    /\ Done(w)
    /\ UNCHANGED <<money, bounds, history>>

\* The payment's row is created; whether it was or not, the user gets the link.
RecordPayment(w) ==
    LET p == work[w].payment IN
    /\ At(w, "record")
    /\ gateway' = [gateway EXCEPT ![p] = "offered"]
    /\ \/ /\ table' = [table EXCEPT ![p] = "pending"]
          /\ Well /\ UNCHANGED dropped
       \/ Fault /\ Drop(p) /\ UNCHANGED table
    /\ Done(w)
    /\ UNCHANGED <<money, moves, credits, overlapped, raced, unrecorded>>

\* The user pays.
Pay(p) ==
    /\ gateway[p] = "offered"
    /\ gateway' = [gateway EXCEPT ![p] = "paid"]
    /\ UNCHANGED <<table, money, work, bounds, history>>

\* payment.succeeded arrives: for the first time, again because it was not
\* answered with 200, or while an earlier one is still being served.
Notify(w, p) ==
    /\ w \in Requests /\ At(w, "idle") /\ gateway[p] = "paid"
    /\ Goto(w, [Idle EXCEPT !.pc = "lookup", !.payment = p, !.user = Owner[p]])
    /\ overlapped' = [overlapped EXCEPT ![p] = overlapped[p] \/ Serving(p) # {}]
    /\ UNCHANGED <<gateway, table, money, bounds, credits, dropped, raced, unrecorded>>

-----------------------------------------------------------------------------
(* HandleYooKassaWebhook *)

\* Mutant: the status of the row is not looked at.
LookUpRowOnly(w) ==
    LET p == work[w].payment IN
    /\ At(w, "lookup")
    /\ \/ /\ table[p] # "none"
          /\ Goto(w, [work[w] EXCEPT !.pc = "mark", !.amount = Amount[p]])
          /\ Well /\ UNCHANGED gateway
       \/ table[p] = "none" /\ Done(w) /\ Answer(p)
    /\ UNCHANGED <<table, money, moves, history>>

\* The row is read. One that was handled, one that is not there and one that could
\* not be read are all answered with 200.
LookUp(w) ==
    LET p == work[w].payment IN
    /\ At(w, "lookup")
    /\ \/ /\ table[p] = "pending"
          /\ Goto(w, [work[w] EXCEPT !.pc = "mark", !.amount = Amount[p]])
          /\ Well /\ UNCHANGED <<gateway, dropped>>
       \/ table[p] # "pending" /\ Done(w) /\ Answer(p) /\ UNCHANGED dropped
       \/ /\ Fault /\ Done(w) /\ Drop(p)
          /\ gateway' = [gateway EXCEPT ![p] = "acknowledged"]
    /\ UNCHANGED <<table, money, moves, credits, overlapped, raced, unrecorded>>

\* Mutant: an error of MarkSucceeded is answered with 200.
MarkSucceededQuietly(w) ==
    LET p == work[w].payment IN
    /\ At(w, "mark")
    /\ \/ /\ table' = [table EXCEPT ![p] = "succeeded"]
          /\ Goto(w, [work[w] EXCEPT !.pc = "read"])
          /\ Well /\ UNCHANGED gateway
       \/ /\ Fault /\ Done(w) /\ UNCHANGED table
          /\ gateway' = [gateway EXCEPT ![p] = "acknowledged"]
    /\ UNCHANGED <<money, moves, history>>

\* The row becomes succeeded, whatever it was. On an error the answer is 500, and
\* the next notification finds the row pending, unless only the answer was lost.
MarkSucceeded(w) ==
    LET p == work[w].payment IN
    /\ At(w, "mark")
    /\ \/ /\ table' = [table EXCEPT ![p] = "succeeded"]
          /\ Goto(w, [work[w] EXCEPT !.pc = "read"])
          /\ Well /\ UNCHANGED dropped
       \/ Fault /\ Done(w) /\ UNCHANGED <<table, dropped>>
       \/ Fault /\ Done(w) /\ table' = [table EXCEPT ![p] = "succeeded"] /\ Drop(p)
    /\ UNCHANGED <<gateway, money, moves, credits, overlapped, raced, unrecorded>>

-----------------------------------------------------------------------------
(* TopUpBalance, by the webhook and by POST /billing/top-up *)

BeginTopUp(w, u) ==
    /\ w \in Requests /\ At(w, "idle") /\ Move
    /\ \E a \in Deposits : Goto(w, [Idle EXCEPT !.pc = "read", !.user = u, !.amount = a])
    /\ UNCHANGED <<gateway, table, money, faults, history>>

\* collectAndStoreUsage has recorded the usage of a project, and it costs something.
BeginCharge(u) ==
    /\ At(Meter, "idle") /\ Move
    /\ \E c \in Costs : Goto(Meter, [Idle EXCEPT !.pc = "read", !.user = u, !.amount = -c])
    /\ UNCHANGED <<gateway, table, money, faults, history>>

\* The user is read. An error is taken for a missing user: the top-up fails with
\* an error (500 for a webhook), the charge is left out.
ReadBalance(w) ==
    /\ At(w, "read")
    /\ \/ /\ Goto(w, [work[w] EXCEPT !.pc = "write", !.copy = balance[work[w].user]])
          /\ Well /\ UNCHANGED dropped
       \/ Fault /\ Done(w) /\ Drop(work[w].payment)
    /\ UNCHANGED <<gateway, table, money, moves, credits, overlapped, raced, unrecorded>>

\* The new balance is put in the store, over whatever has become of it.
PutBalance(w) ==
    LET u == work[w].user p == work[w].payment IN
    /\ balance' = [balance EXCEPT ![u] = work[w].copy + work[w].amount]
    /\ credits' = IF p = NoPayment THEN credits ELSE [credits EXCEPT ![p] = credits[p] + 1]
    /\ raced' = [raced EXCEPT ![u] = raced[u] \/ AboutToWrite(u) # {w}]

\* Mutant: when UpdateBalance fails, the amount is added and written once more.
UpdateBalanceTwice(w) ==
    LET u == work[w].user IN
    /\ At(w, "write") /\ PutBalance(w)
    /\ \/ Goto(w, [work[w] EXCEPT !.pc = "ledger"]) /\ Well
       \/ Fault /\ Goto(w, [work[w] EXCEPT !.copy = balance'[u]])
    /\ UNCHANGED <<gateway, table, ledger, moves, overlapped, dropped, unrecorded>>

\* UpdateBalance. On an error the operation ends, with the balance as it was, or
\* with the new one and no billing transaction.
UpdateBalance(w) ==
    LET u == work[w].user IN
    /\ At(w, "write")
    /\ \/ /\ PutBalance(w) /\ Goto(w, [work[w] EXCEPT !.pc = "ledger"])
          /\ Well /\ UNCHANGED <<dropped, unrecorded>>
       \/ /\ Fault /\ Done(w) /\ Drop(work[w].payment)
          /\ UNCHANGED <<balance, credits, raced, unrecorded>>
       \/ /\ Fault /\ Done(w) /\ PutBalance(w)
          /\ unrecorded' = [unrecorded EXCEPT ![u] = TRUE] /\ UNCHANGED dropped
    /\ UNCHANGED <<gateway, table, ledger, moves, overlapped>>

\* The billing transaction is recorded; an error is only logged. This ends the
\* operation: a webhook is answered with 200.
RecordTransaction(w) ==
    LET u == work[w].user IN
    /\ At(w, "ledger")
    /\ \/ /\ ledger' = [ledger EXCEPT ![u] = ledger[u] + work[w].amount]
          /\ Answer(work[w].payment) /\ UNCHANGED unrecorded
       \/ /\ Fault /\ UNCHANGED ledger
          /\ unrecorded' = [unrecorded EXCEPT ![u] = TRUE]
          /\ gateway' = IF work[w].payment = NoPayment THEN gateway
                        ELSE [gateway EXCEPT ![work[w].payment] = "acknowledged"]
    /\ Done(w)
    /\ UNCHANGED <<table, balance, moves, credits, overlapped, dropped, raced>>

-----------------------------------------------------------------------------
(* The process stops and starts again *)

\* A payment marked but not credited yet is lost, like a transaction not recorded.
Crash ==
    /\ Fault
    /\ work' = [w \in Workers |-> Idle]
    /\ dropped' = [p \in Payments |->
          dropped[p] \/ \E w \in Serving(p) : work[w].pc \in {"read", "write"}]
    /\ unrecorded' = [u \in Users |->
          unrecorded[u] \/ \E w \in Workers : work[w].user = u /\ work[w].pc = "ledger"]
    /\ UNCHANGED <<gateway, table, money, moves, credits, overlapped, raced>>

-----------------------------------------------------------------------------
(* The specification *)

Step(w) ==
    \/ RecordPayment(w) \/ LookUp(w) \/ MarkSucceeded(w)
    \/ ReadBalance(w) \/ UpdateBalance(w) \/ RecordTransaction(w)

Next ==
    \/ \E w \in Requests, p \in Payments : InitiateTopUp(w, p) \/ Notify(w, p)
    \/ \E p \in Payments : Pay(p)
    \/ \E w \in Requests, u \in Users : BeginTopUp(w, u)
    \/ \E u \in Users : BeginCharge(u)
    \/ \E w \in Workers : Step(w)
    \/ Crash

Spec == Init /\ [][Next]_vars

\* Requests run to their end, and the gateway notifies until it is answered.
Fairness ==
    /\ \A w \in Workers : WF_vars(Step(w))
    /\ \A p \in Payments : WF_vars(\E w \in Requests : Notify(w, p))

FairSpec == Spec /\ Fairness

-----------------------------------------------------------------------------
(* Properties *)

\* A payment whose notifications come one after the other is credited at most once,
\* however often they come and wherever calls fail or the process stops in between.
CreditedOnce ==
    \A p \in Payments : ~overlapped[p] => credits[p] <= 1

\* HandleYooKassaWebhook answers 200, and the gateway stops notifying, only when the
\* payment has been credited or somebody is about to credit it, also when that is
\* another notification served meanwhile; unless a call failed that nobody repeats.
AcknowledgedIsCredited ==
    \A p \in Payments : gateway[p] = "acknowledged" /\ ~dropped[p] =>
        credits[p] > 0 \/ \E w \in Workers : work[w].payment = p /\ work[w].pc \in {"read", "write"}

\* The ledger explains the balance (tasks/task-017) as long as no two changes of it
\* overlap and every transaction is recorded.
LedgerExplainsBalance ==
    \A u \in Users :
        /\ ~raced[u] /\ ~unrecorded[u]
        /\ \A w \in Workers : work[w].pc = "ledger" => work[w].user # u
        => balance[u] = Opening + ledger[u]

\* A paid payment is credited in the end, unless one of the calls failed that the
\* code does not repeat; failing to mark it and unanswered notifications are not.
PaidIsCredited ==
    \A p \in Payments : gateway[p] = "paid" ~> credits[p] > 0 \/ dropped[p]

-----------------------------------------------------------------------------
(* What the repository says and the code does not do *)

\* HandleYooKassaWebhook: "idempotent: calling it again with the same
\* yookassaPaymentID does nothing".
WebhookIsIdempotent ==
    \A p \in Payments : credits[p] <= 1
=============================================================================
