--------------------------- MODULE PaymentsProofs ---------------------------
(***************************************************************************)
(* Proofs about Payments, for any users, payments, requests, amounts and   *)
(* number of faults: typing, that a payment is credited once and not lost, *)
(* and that the ledger explains the balance.                               *)
(*                                                                         *)
(* CreditedOnce needs to know how far each of a payment's notifications is *)
(* and what the row said when it passed (ServedOnce). The ledger lags the  *)
(* balance by what goroutines still have to record. That is a sum over a   *)
(* set, of which only two facts are used: it is 0 for the empty set, and a *)
(* member adds its own amount (Adds). A function with these two is carried *)
(* along from step to step, so that none has to be constructed.            *)
(***************************************************************************)
EXTENDS Payments, TLAPS

Recording(p) == {w \in Workers : work[w].payment = p /\ work[w].pc = "record"}

\* A payment's row is created once, and before that nobody hears of the payment.
Recorded(p) ==
    /\ gateway[p] \in {"none", "created"} => table[p] = "none" /\ credits[p] = 0 /\ Serving(p) = {}
    /\ gateway[p] # "created" => Recording(p) = {}
    /\ \A v, w \in Recording(p) : v = w

\* Notifications served one after the other: whoever is past the row and has not
\* credited the payment yet is the only one, and nobody has before.
ServedOnce(p) ==
    /\ \A v, w \in Serving(p) : v = w
    /\ credits[p] <= 1
    /\ table[p] # "succeeded" => credits[p] = 0
    /\ \A w \in Serving(p) : work[w].pc \in {"mark", "read", "write"} => credits[p] = 0
    /\ \A w \in Serving(p) : work[w].pc \in {"read", "write"} => table[p] = "succeeded"

Handled(p) == Recorded(p) /\ (~overlapped[p] => ServedOnce(p))

OnceInv == TypeOK /\ \A p \in Payments : Handled(p)

\* What was read is still what is there, if nobody else was about to write.
CopiesFresh ==
    \A u \in Users : ~raced[u] => \A w \in AboutToWrite(u) : work[w].copy = balance[u]

\* Who has changed the balance of u and not recorded it yet.
Unrecorded(u) == {w \in Workers : work[w].user = u /\ work[w].pc = "ledger"}

\* sum adds up the amounts of jobs over any set that is made member by member.
Adds(sum, jobs) ==
    /\ sum \in [SUBSET Workers -> Int]
    /\ sum[{}] = 0
    /\ \A S \in SUBSET Workers : \A w \in Workers \ S : sum[S \cup {w}] = sum[S] + jobs[w].amount

ExplainedBy(sum) ==
    \A u \in Users : ~raced[u] /\ ~unrecorded[u] => balance[u] = Opening + ledger[u] + sum[Unrecorded(u)]

Explained == \E sum : Adds(sum, work) /\ ExplainedBy(sum)

BooksInv == TypeOK /\ CopiesFresh /\ Explained

-----------------------------------------------------------------------------
(* Jobs *)

Proper(job) ==
    /\ job.pc \in {"record", "lookup", "mark"} => job.payment \in Payments
    /\ job.pc \in {"read", "write", "ledger"} => job.user \in Users
    /\ job.payment \in Payments => job.user = Owner[job.payment]

LEMMA JobFields ==
    ASSUME TypeOK, NEW w \in Workers
    PROVE  /\ work[w] \in Job /\ Proper(work[w])
           /\ work[w].pc \in Pc /\ work[w].amount \in Int /\ work[w].copy \in Int
           /\ work[w].payment \in Payments \cup {NoPayment} /\ work[w].user \in Users \cup {NoUser}
BY DEF TypeOK, Job, Proper

LEMMA IdleJob ==
    /\ Idle \in Job /\ Proper(Idle)
    /\ Idle.pc = "idle" /\ Idle.payment = NoPayment /\ Idle.user = NoUser /\ Idle.amount = 0
BY NobodyAssumption DEF Idle, Job, Pc, Proper

LEMMA UpdateInRange ==
    ASSUME NEW S, NEW T, NEW f \in [S -> T], NEW a \in S, NEW v \in T
    PROVE  [f EXCEPT ![a] = v] \in [S -> T]
OBVIOUS

\* Goroutine w goes on with a job of the right type, and the others do not notice.
LEMMA GotoStep ==
    ASSUME TypeOK, NEW w \in Workers, NEW job \in Job, Proper(job), Goto(w, job)
    PROVE  /\ work' \in [Workers -> Job]
           /\ \A x \in Workers : Proper(work[x])'
           /\ work'[w] = job
           /\ \A x \in Workers : x # w => work'[x] = work[x]
<1>1. work \in [Workers -> Job] BY DEF TypeOK
<1>2. work' = [work EXCEPT ![w] = job] BY DEF Goto
<1>3. work' \in [Workers -> Job] BY <1>1, <1>2, UpdateInRange
<1>4. work'[w] = job /\ \A x \in Workers : x # w => work'[x] = work[x] BY <1>1, <1>2
<1>5. \A x \in Workers : Proper(work[x])'
  BY <1>4, JobFields DEF Proper
<1> QED BY <1>3, <1>4, <1>5

-----------------------------------------------------------------------------
(* Typing, with what each action makes of the goroutine's job *)

LEMMA InitTyped == Init => TypeOK
BY IdleJob, MoneyAssumption, BoundAssumption DEF Init, TypeOK, GatewayState, RowState, Proper

\* What is left to say of an action once the job it goes on with is known.
LEMMA JobTyped ==
    ASSUME TypeOK, NEW w \in Workers, NEW job \in Job, Proper(job), Goto(w, job),
           gateway' \in [Payments -> GatewayState], table' \in [Payments -> RowState],
           balance' \in [Users -> Int], ledger' \in [Users -> Int],
           moves' \in 0..MaxMoves, faults' \in 0..MaxFaults,
           credits' \in [Payments -> Nat], overlapped' \in [Payments -> BOOLEAN],
           dropped' \in [Payments -> BOOLEAN], raced' \in [Users -> BOOLEAN],
           unrecorded' \in [Users -> BOOLEAN]
    PROVE  TypeOK' /\ work'[w] = job /\ \A x \in Workers : x # w => work'[x] = work[x]
<1>1. /\ work' \in [Workers -> Job]
      /\ \A x \in Workers : Proper(work[x])'
      /\ work'[w] = job
      /\ \A x \in Workers : x # w => work'[x] = work[x]
  BY GotoStep
<1> QED BY <1>1 DEF TypeOK, Proper

LEMMA Counters ==
    ASSUME TypeOK
    PROVE  /\ Well \/ Fault => faults' \in 0..MaxFaults
           /\ Move => moves' \in 0..MaxMoves
BY BoundAssumption DEF TypeOK, Well, Fault, Move

LEMMA DropTyped ==
    ASSUME TypeOK, NEW p \in Payments \cup {NoPayment}, Drop(p)
    PROVE  dropped' \in [Payments -> BOOLEAN]
BY DEF TypeOK, Drop

LEMMA AnswerTyped ==
    ASSUME TypeOK, NEW p \in Payments \cup {NoPayment}, Answer(p)
    PROVE  /\ gateway' \in [Payments -> GatewayState] /\ faults' \in 0..MaxFaults
           /\ \A q \in Payments : gateway'[q] = gateway[q] \/ (q = p /\ gateway'[q] = "acknowledged")
<1>1. faults' \in 0..MaxFaults BY Counters DEF Answer
<1>2. CASE p = NoPayment
  <2>1. gateway' = gateway BY <1>2 DEF Answer
  <2> QED BY <1>1, <2>1 DEF TypeOK
<1>3. CASE p \in Payments
  <2>1. gateway' \in {gateway, [gateway EXCEPT ![p] = "acknowledged"]}
    BY <1>3, NobodyAssumption DEF Answer
  <2> QED BY <1>1, <1>3, <2>1 DEF TypeOK, GatewayState
<1> QED BY <1>2, <1>3

LEMMA Places ==
    "record" \in Pc /\ "lookup" \in Pc /\ "mark" \in Pc /\ "read" \in Pc /\ "write" \in Pc /\ "ledger" \in Pc
BY DEF Pc

LEMMA PaymentFacts ==
    ASSUME NEW p \in Payments
    PROVE  Owner[p] \in Users /\ Amount[p] \in Int
BY PaymentAssumption

LEMMA InitiateTopUpTyped ==
    ASSUME TypeOK, NEW w \in Requests, NEW p \in Payments, InitiateTopUp(w, p)
    PROVE  /\ TypeOK'
           /\ work'[w].pc = "record" /\ work'[w].payment = p
           /\ \A x \in Workers : x # w => work'[x] = work[x]
<1> DEFINE job == [Idle EXCEPT !.pc = "record", !.payment = p, !.user = Owner[p], !.amount = Amount[p]]
<1>1. w \in Workers BY DEF Workers
<1>2. job \in Job /\ job.pc = "record" /\ job.payment = p /\ job.user = Owner[p]
  BY IdleJob, PaymentFacts, Places DEF Job
<1>3. Goto(w, job) BY DEF InitiateTopUp
<1> HIDE DEF job
<1>4. Proper(job) BY <1>2 DEF Proper
<1>5. gateway' \in [Payments -> GatewayState] BY DEF InitiateTopUp, TypeOK, GatewayState
<1>6. TypeOK' /\ work'[w] = job /\ \A x \in Workers : x # w => work'[x] = work[x]
  BY <1>1, <1>2, <1>3, <1>4, <1>5, JobTyped DEF InitiateTopUp, TypeOK, money, bounds, history
<1> QED BY <1>2, <1>6

LEMMA RecordPaymentTyped ==
    ASSUME TypeOK, NEW w \in Workers, RecordPayment(w)
    PROVE  /\ TypeOK' /\ work'[w] = Idle /\ work[w].payment \in Payments
           /\ \A x \in Workers : x # w => work'[x] = work[x]
<1>1. work[w].payment \in Payments BY JobFields DEF RecordPayment, At, Proper
<1>2. gateway' \in [Payments -> GatewayState] /\ table' \in [Payments -> RowState]
  BY <1>1 DEF RecordPayment, TypeOK, GatewayState, RowState
<1>3. faults' \in 0..MaxFaults BY Counters DEF RecordPayment
<1>4. dropped' \in [Payments -> BOOLEAN] BY <1>1, DropTyped DEF RecordPayment, TypeOK
<1>5. Goto(w, Idle) BY DEF RecordPayment, Done
<1>6. TypeOK' /\ work'[w] = Idle /\ \A x \in Workers : x # w => work'[x] = work[x]
  BY <1>2, <1>3, <1>4, <1>5, IdleJob, JobTyped DEF RecordPayment, TypeOK, money
<1> QED BY <1>1, <1>6

LEMMA NotifyTyped ==
    ASSUME TypeOK, NEW w \in Requests, NEW p \in Payments, Notify(w, p)
    PROVE  /\ TypeOK'
           /\ work'[w].pc = "lookup" /\ work'[w].payment = p
           /\ \A x \in Workers : x # w => work'[x] = work[x]
<1> DEFINE job == [Idle EXCEPT !.pc = "lookup", !.payment = p, !.user = Owner[p]]
<1>1. w \in Workers BY DEF Workers
<1>2. job \in Job /\ job.pc = "lookup" /\ job.payment = p /\ job.user = Owner[p]
  BY IdleJob, PaymentFacts, Places DEF Job
<1>3. Goto(w, job) BY DEF Notify
<1> HIDE DEF job
<1>4. Proper(job) BY <1>2 DEF Proper
<1>5. overlapped' \in [Payments -> BOOLEAN] BY DEF Notify, TypeOK
<1>6. TypeOK' /\ work'[w] = job /\ \A x \in Workers : x # w => work'[x] = work[x]
  BY <1>1, <1>2, <1>3, <1>4, <1>5, JobTyped DEF Notify, TypeOK, money, bounds
<1> QED BY <1>2, <1>6

LEMMA LookUpTyped ==
    ASSUME TypeOK, NEW w \in Workers, LookUp(w)
    PROVE  /\ TypeOK' /\ work[w].payment \in Payments
           /\ \/ /\ table[work[w].payment] = "pending" /\ UNCHANGED gateway
                 /\ work'[w].pc = "mark" /\ work'[w].payment = work[w].payment
              \/ work'[w] = Idle
           /\ \A q \in Payments :
                 gateway'[q] = gateway[q] \/ (q = work[w].payment /\ gateway'[q] = "acknowledged")
           /\ \A x \in Workers : x # w => work'[x] = work[x]
<1> DEFINE p == work[w].payment
<1>1. p \in Payments /\ work[w] \in Job /\ Proper(work[w]) BY JobFields DEF LookUp, At, Proper
<1>2. CASE table[p] = "pending" /\ Goto(w, [work[w] EXCEPT !.pc = "mark", !.amount = Amount[p]])
           /\ Well /\ UNCHANGED <<gateway, dropped>>
  <2> DEFINE job == [work[w] EXCEPT !.pc = "mark", !.amount = Amount[p]]
  <2>1. job \in Job /\ job.pc = "mark" /\ job.payment = p /\ job.user = work[w].user
    BY <1>1, PaymentFacts, Places DEF Job
  <2>2. Goto(w, job) BY <1>2
  <2> HIDE DEF job
  <2>3. Proper(job) BY <1>1, <2>1 DEF Proper
  <2>4. TypeOK' /\ work'[w] = job /\ \A x \in Workers : x # w => work'[x] = work[x]
    BY <1>2, <2>1, <2>2, <2>3, JobTyped, Counters DEF LookUp, TypeOK, money
  <2>5. work'[w].pc = "mark" /\ work'[w].payment = p BY <2>1, <2>4
  <2> QED BY <1>1, <1>2, <2>4, <2>5
<1>3. CASE table[p] # "pending" /\ Done(w) /\ Answer(p) /\ UNCHANGED dropped
  <2>1. TypeOK' /\ work'[w] = Idle /\ \A x \in Workers : x # w => work'[x] = work[x]
    BY <1>1, <1>3, IdleJob, JobTyped, AnswerTyped DEF LookUp, TypeOK, money, Done
  <2> QED BY <1>1, <1>3, <2>1, AnswerTyped
<1>4. CASE Fault /\ Done(w) /\ Drop(p) /\ gateway' = [gateway EXCEPT ![p] = "acknowledged"]
  <2>1. gateway' \in [Payments -> GatewayState] BY <1>4 DEF TypeOK, GatewayState
  <2>2. dropped' \in [Payments -> BOOLEAN] BY <1>1, <1>4, DropTyped
  <2>3. TypeOK' /\ work'[w] = Idle /\ \A x \in Workers : x # w => work'[x] = work[x]
    BY <1>4, <2>1, <2>2, IdleJob, JobTyped, Counters DEF LookUp, TypeOK, money, Done
  <2>4. \A q \in Payments : gateway'[q] = gateway[q] \/ (q = p /\ gateway'[q] = "acknowledged")
    BY <1>1, <1>4 DEF TypeOK
  <2> QED BY <1>1, <2>3, <2>4
<1> QED BY <1>2, <1>3, <1>4 DEF LookUp

LEMMA MarkSucceededTyped ==
    ASSUME TypeOK, NEW w \in Workers, MarkSucceeded(w)
    PROVE  /\ TypeOK' /\ work[w].payment \in Payments
           /\ \/ /\ work'[w].pc = "read" /\ work'[w].payment = work[w].payment
                 /\ table' = [table EXCEPT ![work[w].payment] = "succeeded"]
              \/ /\ work'[w] = Idle
                 /\ table' \in {table, [table EXCEPT ![work[w].payment] = "succeeded"]}
           /\ \A x \in Workers : x # w => work'[x] = work[x]
<1> DEFINE p == work[w].payment
<1>1. p \in Payments /\ work[w] \in Job /\ Proper(work[w]) BY JobFields DEF MarkSucceeded, At, Proper
<1>2. work[w].user \in Users BY <1>1, PaymentFacts DEF Proper
<1>3. [table EXCEPT ![p] = "succeeded"] \in [Payments -> RowState] BY <1>1 DEF TypeOK, RowState
<1>4. CASE table' = [table EXCEPT ![p] = "succeeded"]
           /\ Goto(w, [work[w] EXCEPT !.pc = "read"]) /\ Well /\ UNCHANGED dropped
  <2> DEFINE job == [work[w] EXCEPT !.pc = "read"]
  <2>1. job \in Job /\ job.pc = "read" /\ job.payment = p /\ job.user = work[w].user
    BY <1>1, Places DEF Job
  <2>2. Goto(w, job) BY <1>4
  <2> HIDE DEF job
  <2>3. Proper(job) BY <1>1, <1>2, <2>1 DEF Proper
  <2>4. TypeOK' /\ work'[w] = job /\ \A x \in Workers : x # w => work'[x] = work[x]
    BY <1>3, <1>4, <2>1, <2>2, <2>3, JobTyped, Counters DEF MarkSucceeded, TypeOK, money
  <2>5. work'[w].pc = "read" /\ work'[w].payment = p BY <2>1, <2>4
  <2> QED BY <1>1, <1>4, <2>4, <2>5
<1>5. CASE Fault /\ Done(w) /\ UNCHANGED <<table, dropped>>
  <2>1. TypeOK' /\ work'[w] = Idle /\ \A x \in Workers : x # w => work'[x] = work[x]
    BY <1>5, IdleJob, JobTyped, Counters DEF MarkSucceeded, TypeOK, money, Done
  <2> QED BY <1>1, <1>5, <2>1
<1>6. CASE Fault /\ Done(w) /\ table' = [table EXCEPT ![p] = "succeeded"] /\ Drop(p)
  <2>1. dropped' \in [Payments -> BOOLEAN] BY <1>1, <1>6, DropTyped
  <2>2. TypeOK' /\ work'[w] = Idle /\ \A x \in Workers : x # w => work'[x] = work[x]
    BY <1>3, <1>6, <2>1, IdleJob, JobTyped, Counters DEF MarkSucceeded, TypeOK, money, Done
  <2> QED BY <1>1, <1>6, <2>2
<1> QED BY <1>4, <1>5, <1>6 DEF MarkSucceeded

LEMMA BeginMoveTyped ==
    ASSUME TypeOK, NEW w \in Workers, NEW u \in Users, NEW n \in Int, Move,
           Goto(w, [Idle EXCEPT !.pc = "read", !.user = u, !.amount = n]),
           UNCHANGED <<gateway, table, money, faults, history>>
    PROVE  /\ TypeOK'
           /\ work'[w].pc = "read" /\ work'[w].payment = NoPayment
           /\ \A x \in Workers : x # w => work'[x] = work[x]
<1> DEFINE job == [Idle EXCEPT !.pc = "read", !.user = u, !.amount = n]
<1>1. job \in Job /\ job.pc = "read" /\ job.payment = NoPayment /\ job.user = u
  BY IdleJob, Places DEF Job
<1>2. Goto(w, job) OBVIOUS
<1> HIDE DEF job
<1>3. Proper(job) BY <1>1, NobodyAssumption DEF Proper
<1>4. TypeOK' /\ work'[w] = job /\ \A x \in Workers : x # w => work'[x] = work[x]
  BY <1>1, <1>2, <1>3, JobTyped, Counters DEF TypeOK, money, history
<1> QED BY <1>1, <1>4

LEMMA BeginTopUpTyped ==
    ASSUME TypeOK, NEW w \in Requests, NEW u \in Users, BeginTopUp(w, u)
    PROVE  /\ TypeOK' /\ work'[w].pc = "read" /\ work'[w].payment = NoPayment
           /\ \A x \in Workers : x # w => work'[x] = work[x]
<1>1. PICK a \in Deposits : Goto(w, [Idle EXCEPT !.pc = "read", !.user = u, !.amount = a])
  BY DEF BeginTopUp
<1>2. a \in Int /\ w \in Workers BY MoneyAssumption DEF Workers
<1>3. Move /\ UNCHANGED <<gateway, table, money, faults, history>> BY DEF BeginTopUp
<1> QED BY <1>1, <1>2, <1>3, BeginMoveTyped

LEMMA BeginChargeTyped ==
    ASSUME TypeOK, NEW u \in Users, BeginCharge(u)
    PROVE  /\ TypeOK' /\ work'[Meter].pc = "read" /\ work'[Meter].payment = NoPayment
           /\ \A x \in Workers : x # Meter => work'[x] = work[x]
<1>1. PICK c \in Costs : Goto(Meter, [Idle EXCEPT !.pc = "read", !.user = u, !.amount = -c])
  BY DEF BeginCharge
<1>2. -c \in Int /\ Meter \in Workers BY MoneyAssumption DEF Workers
<1>3. Move /\ UNCHANGED <<gateway, table, money, faults, history>> BY DEF BeginCharge
<1> QED BY <1>1, <1>2, <1>3, BeginMoveTyped

LEMMA ReadBalanceTyped ==
    ASSUME TypeOK, NEW w \in Workers, ReadBalance(w)
    PROVE  /\ TypeOK' /\ work[w].user \in Users
           /\ \/ /\ work'[w].pc = "write" /\ work'[w].payment = work[w].payment
                 /\ work'[w].user = work[w].user /\ work'[w].amount = work[w].amount
                 /\ work'[w].copy = balance[work[w].user]
              \/ work'[w] = Idle
           /\ \A x \in Workers : x # w => work'[x] = work[x]
<1> DEFINE u == work[w].user
<1>1. /\ u \in Users /\ work[w] \in Job /\ Proper(work[w]) /\ work[w].payment \in Payments \cup {NoPayment}
  BY JobFields DEF ReadBalance, At, Proper
<1>2. CASE Goto(w, [work[w] EXCEPT !.pc = "write", !.copy = balance[u]]) /\ Well /\ UNCHANGED dropped
  <2> DEFINE job == [work[w] EXCEPT !.pc = "write", !.copy = balance[u]]
  <2>1. balance[u] \in Int BY <1>1 DEF TypeOK
  <2>2. /\ job \in Job /\ job.pc = "write" /\ job.payment = work[w].payment /\ job.user = u
        /\ job.amount = work[w].amount /\ job.copy = balance[u]
    BY <1>1, <2>1, Places DEF Job
  <2>3. Goto(w, job) BY <1>2
  <2> HIDE DEF job
  <2>4. Proper(job) BY <1>1, <2>2 DEF Proper
  <2>5. TypeOK' /\ work'[w] = job /\ \A x \in Workers : x # w => work'[x] = work[x]
    BY <1>2, <2>2, <2>3, <2>4, JobTyped, Counters DEF ReadBalance, TypeOK, money
  <2> QED BY <1>1, <2>2, <2>5
<1>3. CASE Fault /\ Done(w) /\ Drop(work[w].payment)
  <2>1. dropped' \in [Payments -> BOOLEAN] BY <1>1, <1>3, DropTyped
  <2>2. TypeOK' /\ work'[w] = Idle /\ \A x \in Workers : x # w => work'[x] = work[x]
    BY <1>3, <2>1, IdleJob, JobTyped, Counters DEF ReadBalance, TypeOK, money, Done
  <2> QED BY <1>1, <2>2
<1> QED BY <1>2, <1>3 DEF ReadBalance

LEMMA PutTyped ==
    ASSUME TypeOK, NEW w \in Workers, work[w].user \in Users, PutBalance(w)
    PROVE  /\ balance' \in [Users -> Int] /\ credits' \in [Payments -> Nat] /\ raced' \in [Users -> BOOLEAN]
           /\ balance' = [balance EXCEPT ![work[w].user] = work[w].copy + work[w].amount]
           /\ raced' = [raced EXCEPT ![work[w].user] = raced[work[w].user] \/ AboutToWrite(work[w].user) # {w}]
           /\ \A q \in Payments : credits'[q] = IF q = work[w].payment THEN credits[q] + 1 ELSE credits[q]
<1> DEFINE p == work[w].payment
<1>1. work[w].copy + work[w].amount \in Int /\ p \in Payments \cup {NoPayment} BY JobFields
<1>2. balance' \in [Users -> Int] /\ raced' \in [Users -> BOOLEAN]
  BY <1>1 DEF PutBalance, TypeOK
<1>3. credits' \in [Payments -> Nat] /\ \A q \in Payments : credits'[q] = IF q = p THEN credits[q] + 1 ELSE credits[q]
  <2>1. CASE p = NoPayment BY <2>1, NobodyAssumption DEF PutBalance, TypeOK
  <2>2. CASE p \in Payments
    <3>1. credits' = [credits EXCEPT ![p] = credits[p] + 1] BY <2>2, NobodyAssumption DEF PutBalance
    <3> QED BY <2>2, <3>1 DEF TypeOK
  <2> QED BY <1>1, <2>1, <2>2
<1> QED BY <1>2, <1>3 DEF PutBalance

LEMMA UpdateBalanceTyped ==
    ASSUME TypeOK, NEW w \in Workers, UpdateBalance(w)
    PROVE  /\ TypeOK' /\ work[w].user \in Users
           /\ \/ /\ work'[w].pc = "ledger" /\ work'[w].payment = work[w].payment
                 /\ work'[w].user = work[w].user /\ work'[w].amount = work[w].amount
                 /\ PutBalance(w) /\ UNCHANGED unrecorded
              \/ work'[w] = Idle /\ UNCHANGED <<balance, credits, raced, unrecorded>>
              \/ /\ work'[w] = Idle /\ PutBalance(w)
                 /\ unrecorded' = [unrecorded EXCEPT ![work[w].user] = TRUE]
           /\ \A x \in Workers : x # w => work'[x] = work[x]
<1> DEFINE u == work[w].user
<1>1. /\ u \in Users /\ work[w] \in Job /\ Proper(work[w]) /\ work[w].payment \in Payments \cup {NoPayment}
  BY JobFields DEF UpdateBalance, At, Proper
<1>2. CASE PutBalance(w) /\ Goto(w, [work[w] EXCEPT !.pc = "ledger"]) /\ Well /\ UNCHANGED <<dropped, unrecorded>>
  <2> DEFINE job == [work[w] EXCEPT !.pc = "ledger"]
  <2>1. /\ job \in Job /\ job.pc = "ledger" /\ job.payment = work[w].payment /\ job.user = u
        /\ job.amount = work[w].amount
    BY <1>1, Places DEF Job
  <2>2. Goto(w, job) BY <1>2
  <2> HIDE DEF job
  <2>3. Proper(job) BY <1>1, <2>1 DEF Proper
  <2>4. TypeOK' /\ work'[w] = job /\ \A x \in Workers : x # w => work'[x] = work[x]
    BY <1>1, <1>2, <2>1, <2>2, <2>3, PutTyped, JobTyped, Counters DEF UpdateBalance, TypeOK
  <2> QED BY <1>1, <1>2, <2>1, <2>4
<1>3. CASE Fault /\ Done(w) /\ Drop(work[w].payment) /\ UNCHANGED <<balance, credits, raced, unrecorded>>
  <2>1. dropped' \in [Payments -> BOOLEAN] BY <1>1, <1>3, DropTyped
  <2>2. TypeOK' /\ work'[w] = Idle /\ \A x \in Workers : x # w => work'[x] = work[x]
    BY <1>3, <2>1, IdleJob, JobTyped, Counters DEF UpdateBalance, TypeOK, Done
  <2> QED BY <1>1, <1>3, <2>2
<1>4. CASE /\ Fault /\ Done(w) /\ PutBalance(w)
           /\ unrecorded' = [unrecorded EXCEPT ![u] = TRUE] /\ UNCHANGED dropped
  <2>1. unrecorded' \in [Users -> BOOLEAN] BY <1>4 DEF TypeOK
  <2>2. TypeOK' /\ work'[w] = Idle /\ \A x \in Workers : x # w => work'[x] = work[x]
    BY <1>1, <1>4, <2>1, IdleJob, PutTyped, JobTyped, Counters DEF UpdateBalance, TypeOK, Done
  <2> QED BY <1>1, <1>4, <2>2
<1> QED BY <1>2, <1>3, <1>4 DEF UpdateBalance

LEMMA RecordTransactionTyped ==
    ASSUME TypeOK, NEW w \in Workers, RecordTransaction(w)
    PROVE  /\ TypeOK' /\ work[w].user \in Users /\ work[w].payment \in Payments \cup {NoPayment}
           /\ work'[w] = Idle
           /\ \/ /\ ledger' = [ledger EXCEPT ![work[w].user] = ledger[work[w].user] + work[w].amount]
                 /\ UNCHANGED unrecorded
              \/ UNCHANGED ledger /\ unrecorded' = [unrecorded EXCEPT ![work[w].user] = TRUE]
           /\ \A q \in Payments :
                 gateway'[q] = gateway[q] \/ (q = work[w].payment /\ gateway'[q] = "acknowledged")
           /\ \A x \in Workers : x # w => work'[x] = work[x]
<1> DEFINE u == work[w].user
           p == work[w].payment
<1>1. /\ u \in Users /\ work[w].amount \in Int /\ p \in Payments \cup {NoPayment}
  BY JobFields DEF RecordTransaction, At, Proper
<1>2. /\ gateway' \in [Payments -> GatewayState] /\ faults' \in 0..MaxFaults
      /\ \A q \in Payments : gateway'[q] = gateway[q] \/ (q = p /\ gateway'[q] = "acknowledged")
  <2>1. CASE Answer(p) BY <1>1, <2>1, AnswerTyped
  <2>2. CASE Fault /\ gateway' = IF p = NoPayment THEN gateway ELSE [gateway EXCEPT ![p] = "acknowledged"]
    <3>1. CASE p = NoPayment BY <2>2, <3>1, Counters DEF TypeOK
    <3>2. CASE p \in Payments
      <4>1. gateway' = [gateway EXCEPT ![p] = "acknowledged"] BY <2>2, <3>2, NobodyAssumption
      <4> QED BY <2>2, <3>2, <4>1, Counters DEF TypeOK, GatewayState
    <3> QED BY <1>1, <3>1, <3>2
  <2> QED BY <2>1, <2>2 DEF RecordTransaction
<1>3. ledger' \in [Users -> Int] /\ unrecorded' \in [Users -> BOOLEAN]
  <2>1. CASE ledger' = [ledger EXCEPT ![u] = ledger[u] + work[w].amount] /\ UNCHANGED unrecorded
    <3>1. ledger[u] + work[w].amount \in Int BY <1>1 DEF TypeOK
    <3> QED BY <2>1, <3>1 DEF TypeOK
  <2>2. CASE UNCHANGED ledger /\ unrecorded' = [unrecorded EXCEPT ![u] = TRUE] BY <2>2 DEF TypeOK
  <2> QED BY <2>1, <2>2 DEF RecordTransaction
<1>4. TypeOK' /\ work'[w] = Idle /\ \A x \in Workers : x # w => work'[x] = work[x]
  BY <1>2, <1>3, IdleJob, JobTyped DEF RecordTransaction, TypeOK, Done
<1> QED BY <1>1, <1>2, <1>4 DEF RecordTransaction

LEMMA CrashTyped == ASSUME TypeOK, Crash PROVE TypeOK'
<1>1. faults' \in 0..MaxFaults BY Counters DEF Crash
<1>2. work' \in [Workers -> Job] /\ \A x \in Workers : Proper(work[x])' BY IdleJob DEF Crash, Proper
<1>3. dropped' \in [Payments -> BOOLEAN] /\ unrecorded' \in [Users -> BOOLEAN] BY DEF Crash, TypeOK
<1> QED BY <1>1, <1>2, <1>3 DEF Crash, TypeOK, Proper, money

LEMMA PayTyped == ASSUME TypeOK, NEW p \in Payments, Pay(p) PROVE TypeOK'
BY DEF Pay, TypeOK, GatewayState, money, bounds, history

LEMMA StutterTyped == ASSUME TypeOK, UNCHANGED vars PROVE TypeOK'
BY DEF TypeOK, vars

LEMMA NextTyped == TypeOK /\ [Next]_vars => TypeOK'
<1> SUFFICES ASSUME TypeOK, [Next]_vars PROVE TypeOK' OBVIOUS
<1>1. CASE \E w \in Requests, p \in Payments : InitiateTopUp(w, p) \/ Notify(w, p)
  BY <1>1, InitiateTopUpTyped, NotifyTyped
<1>2. CASE \E p \in Payments : Pay(p) BY <1>2, PayTyped
<1>3. CASE \E w \in Requests, u \in Users : BeginTopUp(w, u) BY <1>3, BeginTopUpTyped
<1>4. CASE \E u \in Users : BeginCharge(u) BY <1>4, BeginChargeTyped
<1>5. CASE \E w \in Workers : Step(w)
  BY <1>5, RecordPaymentTyped, LookUpTyped, MarkSucceededTyped, ReadBalanceTyped, UpdateBalanceTyped,
     RecordTransactionTyped DEF Step
<1>6. CASE Crash BY <1>6, CrashTyped
<1>7. CASE UNCHANGED vars BY <1>7, StutterTyped
<1> QED BY <1>1, <1>2, <1>3, <1>4, <1>5, <1>6, <1>7 DEF Next

\* Every variable keeps its type: in particular a job that writes money has a user,
\* and one for a payment has that payment's owner.
THEOREM TypeCorrect == Spec => []TypeOK
BY InitTyped, NextTyped, PTL DEF Spec

-----------------------------------------------------------------------------
(* A payment is credited once *)

\* A step of w for payment p does not touch another payment.
LEMMA OtherHandled ==
    ASSUME OnceInv, NEW w \in Workers, NEW q \in Payments, Handled(q),
           work[w].payment # q, work'[w].payment # q,
           \A x \in Workers : x # w => work'[x] = work[x],
           gateway'[q] = gateway[q], table'[q] = table[q], credits'[q] = credits[q],
           overlapped'[q] = overlapped[q]
    PROVE  Handled(q)'
<1>1. Serving(q)' = Serving(q) /\ Recording(q)' = Recording(q)
  BY DEF Serving, Recording
<1>2. \A x \in Serving(q) \cup Recording(q) : work'[x] = work[x]
  BY DEF Serving, Recording
<1> QED BY <1>1, <1>2 DEF Handled, Recorded, ServedOnce

LEMMA InitiateTopUpOnce ==
    ASSUME OnceInv, NEW w \in Requests, NEW p \in Payments, InitiateTopUp(w, p), NEW q \in Payments
    PROVE  Handled(q)'
<1>1. /\ w \in Workers /\ work[w].pc = "idle" /\ gateway[p] = "none"
      /\ work'[w].pc = "record" /\ work'[w].payment = p
      /\ \A x \in Workers : x # w => work'[x] = work[x]
  BY InitiateTopUpTyped DEF InitiateTopUp, OnceInv, At, Workers
<1>2. /\ gateway'[q] = IF q = p THEN "created" ELSE gateway[q]
      /\ table' = table /\ credits' = credits /\ overlapped' = overlapped
  BY DEF InitiateTopUp, OnceInv, TypeOK, history
<1>3. Handled(q) BY DEF OnceInv
<1>4. Serving(q)' = Serving(q) /\ \A x \in Serving(q) : work'[x] = work[x]
  BY <1>1 DEF Serving
<1>5. Recording(q)' = IF q = p THEN {w} ELSE Recording(q)
  BY <1>1, <1>3 DEF Recording, Handled, Recorded
<1> QED BY <1>1, <1>2, <1>3, <1>4, <1>5 DEF Handled, Recorded, ServedOnce

LEMMA RecordPaymentOnce ==
    ASSUME OnceInv, NEW w \in Workers, RecordPayment(w), NEW q \in Payments
    PROVE  Handled(q)'
<1> DEFINE p == work[w].payment
<1>1. /\ work[w].pc = "record" /\ p \in Payments /\ work'[w] = Idle
      /\ \A x \in Workers : x # w => work'[x] = work[x]
  BY RecordPaymentTyped DEF RecordPayment, OnceInv, At
<1>2. /\ gateway'[q] = IF q = p THEN "offered" ELSE gateway[q]
      /\ table'[q] = table[q] \/ (q = p /\ table'[q] = "pending")
      /\ credits' = credits /\ overlapped' = overlapped
  BY <1>1 DEF RecordPayment, OnceInv, TypeOK
<1>3. Handled(q) BY DEF OnceInv
<1>4. Serving(q)' = Serving(q) /\ \A x \in Serving(q) : work'[x] = work[x]
  BY <1>1, IdleJob DEF Serving
<1>5. Recording(q)' = Recording(q) \ {w} BY <1>1, IdleJob DEF Recording
<1>6. CASE q = p
  <2>1. w \in Recording(q) BY <1>1, <1>6 DEF Recording
  <2>2. gateway[q] = "created" BY <1>3, <2>1 DEF Handled, Recorded
  <2>3. table[q] = "none" /\ credits[q] = 0 /\ Serving(q) = {} BY <1>3, <2>2 DEF Handled, Recorded
  <2>4. Recording(q)' = {} BY <1>3, <1>5, <2>1 DEF Handled, Recorded
  <2> QED BY <1>2, <1>4, <1>6, <2>3, <2>4 DEF Handled, Recorded, ServedOnce
<1>7. CASE q # p
  <2>1. Recording(q)' = Recording(q) BY <1>1, <1>5, <1>7 DEF Recording
  <2> QED BY <1>2, <1>3, <1>4, <1>7, <2>1 DEF Handled, Recorded, ServedOnce
<1> QED BY <1>6, <1>7

LEMMA PayOnce ==
    ASSUME OnceInv, NEW p \in Payments, Pay(p), NEW q \in Payments
    PROVE  Handled(q)'
<1>1. /\ gateway[p] = "offered" /\ gateway'[q] = IF q = p THEN "paid" ELSE gateway[q]
      /\ table' = table /\ work' = work /\ credits' = credits /\ overlapped' = overlapped
  BY DEF Pay, OnceInv, TypeOK, history
<1>2. Handled(q) BY DEF OnceInv
<1>3. Serving(q)' = Serving(q) /\ Recording(q)' = Recording(q) BY <1>1 DEF Serving, Recording
<1> QED BY <1>1, <1>2, <1>3 DEF Handled, Recorded, ServedOnce

\* Another notification makes the payment overlapped, or is the only one.
LEMMA NotifyOnce ==
    ASSUME OnceInv, NEW w \in Requests, NEW p \in Payments, Notify(w, p), NEW q \in Payments
    PROVE  Handled(q)'
<1>1. /\ w \in Workers /\ work[w].pc = "idle" /\ gateway[p] = "paid"
      /\ work'[w].pc = "lookup" /\ work'[w].payment = p
      /\ \A x \in Workers : x # w => work'[x] = work[x]
  BY NotifyTyped DEF Notify, OnceInv, At, Workers
<1>2. /\ gateway' = gateway /\ table' = table /\ credits' = credits
      /\ overlapped'[q] = IF q = p THEN overlapped[p] \/ Serving(p) # {} ELSE overlapped[q]
  BY DEF Notify, OnceInv, TypeOK
<1>3. Handled(q) BY DEF OnceInv
<1>4. Recording(q)' = Recording(q) BY <1>1 DEF Recording
<1>5. Serving(q)' = IF q = p THEN Serving(q) \cup {w} ELSE Serving(q)
  BY <1>1 DEF Serving
<1>6. w \notin Serving(q) /\ \A x \in Serving(q) : work'[x] = work[x] BY <1>1 DEF Serving
<1>7. CASE q = p
  <2>1. Recorded(q)' BY <1>1, <1>2, <1>3, <1>4, <1>7 DEF Handled, Recorded
  <2>2. ASSUME ~overlapped'[q] PROVE ServedOnce(q)'
    <3>1. ~overlapped[q] /\ Serving(q) = {} BY <1>2, <1>7, <2>2
    <3>2. Serving(q)' = {w} BY <1>5, <1>7, <3>1
    <3> QED BY <1>1, <1>2, <1>3, <3>1, <3>2 DEF Handled, ServedOnce
  <2> QED BY <2>1, <2>2 DEF Handled
<1>8. CASE q # p BY <1>2, <1>3, <1>4, <1>5, <1>6, <1>8 DEF Handled, Recorded, ServedOnce
<1> QED BY <1>7, <1>8

\* A job of payment p, past its notification, goes on or ends. What it has to show is
\* that the row and the credits agree with where it goes.
LEMMA ServingOnce ==
    ASSUME OnceInv, NEW w \in Workers, NEW q \in Payments,
           work[w].pc \notin {"idle", "record"},
           work'[w] = Idle \/ (work'[w].payment = work[w].payment /\ work'[w].pc \notin {"idle", "record"}),
           \A x \in Workers : x # w => work'[x] = work[x],
           gateway'[q] = gateway[q] \/ (q = work[w].payment /\ gateway'[q] = "acknowledged"),
           overlapped' = overlapped,
           work[w].payment # q => table'[q] = table[q] /\ credits'[q] = credits[q],
           work[w].payment = q =>
              \/ table'[q] = table[q] /\ credits'[q] = credits[q]
              \/ gateway[q] \notin {"none", "created"},
           work[w].payment = q /\ ~overlapped[q] =>
              /\ credits'[q] <= 1
              /\ table'[q] # "succeeded" => credits'[q] = 0
              /\ work'[w].pc \in {"mark", "read", "write"} => credits'[q] = 0
              /\ work'[w].pc \in {"read", "write"} => table'[q] = "succeeded"
    PROVE  Handled(q)'
<1>1. Handled(q) BY DEF OnceInv
<1>2. Recording(q)' = Recording(q) BY IdleJob DEF Recording
<1>3. Serving(q)' \in {Serving(q), Serving(q) \ {w}} BY IdleJob DEF Serving
<1>4. \A x \in Serving(q) : x # w => work'[x] = work[x] BY DEF Serving
<1>5. CASE work[w].payment = q
  <2>1. w \in Serving(q) BY <1>5 DEF Serving
  <2>2. gateway[q] \notin {"none", "created"} BY <1>1, <2>1 DEF Handled, Recorded
  <2>3. Recorded(q)' BY <1>1, <1>2, <2>2 DEF Handled, Recorded
  <2>4. ASSUME ~overlapped'[q] PROVE ServedOnce(q)'
    <3>1. \A x \in Serving(q) : x = w BY <1>1, <2>1, <2>4 DEF Handled, ServedOnce
    <3>2. \A x \in Serving(q)' : x = w BY <1>3, <3>1
    <3> QED BY <1>5, <2>4, <3>2 DEF ServedOnce
  <2> QED BY <2>3, <2>4 DEF Handled
<1>6. CASE work[w].payment # q
  <2>1. w \notin Serving(q) /\ Serving(q)' = Serving(q) BY <1>3, <1>6 DEF Serving
  <2> QED BY <1>1, <1>2, <1>4, <1>6, <2>1 DEF Handled, Recorded, ServedOnce
<1> QED BY <1>5, <1>6

\* What is known of the payment of a job when it was not overlapped.
LEMMA KnownOnce ==
    ASSUME OnceInv, NEW w \in Workers, work[w].payment \in Payments,
           work[w].pc \notin {"idle", "record"}
    PROVE  LET p == work[w].payment IN
           /\ gateway[p] \notin {"none", "created"}
           /\ ~overlapped[p] =>
                 /\ credits[p] <= 1
                 /\ table[p] # "succeeded" => credits[p] = 0
                 /\ work[w].pc \in {"mark", "read", "write"} => credits[p] = 0
                 /\ work[w].pc \in {"read", "write"} => table[p] = "succeeded"
<1>1. w \in Serving(work[w].payment) BY DEF Serving
<1> QED BY <1>1 DEF OnceInv, Handled, Recorded, ServedOnce

LEMMA LookUpOnce ==
    ASSUME OnceInv, NEW w \in Workers, LookUp(w), NEW q \in Payments
    PROVE  Handled(q)'
<1>1. /\ work[w].pc = "lookup" /\ table' = table /\ credits' = credits /\ overlapped' = overlapped
      /\ work[w].payment \in Payments
      /\ \/ /\ table[work[w].payment] = "pending" /\ work'[w].pc = "mark"
            /\ work'[w].payment = work[w].payment
         \/ work'[w] = Idle
      /\ gateway'[q] = gateway[q] \/ (q = work[w].payment /\ gateway'[q] = "acknowledged")
      /\ \A x \in Workers : x # w => work'[x] = work[x]
  BY LookUpTyped DEF LookUp, OnceInv, At
<1> QED BY <1>1, KnownOnce, ServingOnce, IdleJob

LEMMA MarkSucceededOnce ==
    ASSUME OnceInv, NEW w \in Workers, MarkSucceeded(w), NEW q \in Payments
    PROVE  Handled(q)'
<1> DEFINE p == work[w].payment
<1>1. /\ work[w].pc = "mark" /\ gateway' = gateway /\ credits' = credits /\ overlapped' = overlapped
      /\ p \in Payments
      /\ \A x \in Workers : x # w => work'[x] = work[x]
  BY MarkSucceededTyped DEF MarkSucceeded, OnceInv, At
<1>2. /\ \/ work'[w].pc = "read" /\ work'[w].payment = p /\ table'[p] = "succeeded"
         \/ work'[w] = Idle
      /\ table'[q] = table[q] \/ (q = p /\ table'[q] = "succeeded")
  BY <1>1, MarkSucceededTyped DEF OnceInv, TypeOK
<1> QED BY <1>1, <1>2, KnownOnce, ServingOnce, IdleJob

LEMMA ReadBalanceOnce ==
    ASSUME OnceInv, NEW w \in Workers, ReadBalance(w), NEW q \in Payments
    PROVE  Handled(q)'
<1>1. /\ work[w].pc = "read" /\ gateway' = gateway /\ table' = table
      /\ credits' = credits /\ overlapped' = overlapped
      /\ \/ work'[w].pc = "write" /\ work'[w].payment = work[w].payment
         \/ work'[w] = Idle
      /\ \A x \in Workers : x # w => work'[x] = work[x]
  BY ReadBalanceTyped DEF ReadBalance, OnceInv, At
<1> QED BY <1>1, KnownOnce, ServingOnce, IdleJob

LEMMA UpdateBalanceOnce ==
    ASSUME OnceInv, NEW w \in Workers, UpdateBalance(w), NEW q \in Payments
    PROVE  Handled(q)'
<1>1. /\ work[w].pc = "write" /\ gateway' = gateway /\ table' = table /\ overlapped' = overlapped
      /\ work[w].user \in Users
      /\ \/ work'[w].pc = "ledger" /\ work'[w].payment = work[w].payment
         \/ work'[w] = Idle
      /\ \A x \in Workers : x # w => work'[x] = work[x]
  BY UpdateBalanceTyped DEF UpdateBalance, OnceInv, At
<1>2. credits'[q] = credits[q] \/ (q = work[w].payment /\ credits'[q] = credits[q] + 1)
  BY <1>1, UpdateBalanceTyped, PutTyped DEF OnceInv
<1> QED BY <1>1, <1>2, KnownOnce, ServingOnce, IdleJob DEF OnceInv, TypeOK

LEMMA RecordTransactionOnce ==
    ASSUME OnceInv, NEW w \in Workers, RecordTransaction(w), NEW q \in Payments
    PROVE  Handled(q)'
<1>1. /\ work[w].pc = "ledger" /\ table' = table /\ credits' = credits /\ overlapped' = overlapped
      /\ work'[w] = Idle
      /\ gateway'[q] = gateway[q] \/ (q = work[w].payment /\ gateway'[q] = "acknowledged")
      /\ \A x \in Workers : x # w => work'[x] = work[x]
  BY RecordTransactionTyped DEF RecordTransaction, OnceInv, At
<1> QED BY <1>1, KnownOnce, ServingOnce, IdleJob

\* A top-up or a charge is about no payment.
LEMMA MoveOnce ==
    ASSUME OnceInv, NEW w \in Workers, work[w].pc = "idle",
           work'[w].pc = "read" /\ work'[w].payment = NoPayment,
           \A x \in Workers : x # w => work'[x] = work[x],
           UNCHANGED <<gateway, table, credits, overlapped>>, NEW q \in Payments
    PROVE  Handled(q)'
<1>1. Serving(q)' = Serving(q) /\ \A x \in Serving(q) : work'[x] = work[x]
  BY NobodyAssumption DEF Serving
<1>2. Recording(q)' = Recording(q) BY NobodyAssumption DEF Recording
<1>3. Handled(q) BY DEF OnceInv
<1> QED BY <1>1, <1>2, <1>3 DEF Handled, Recorded, ServedOnce

LEMMA CrashOnce ==
    ASSUME OnceInv, Crash, NEW q \in Payments PROVE Handled(q)'
<1>1. Serving(q)' = {} /\ Recording(q)' = {} BY IdleJob DEF Crash, Serving, Recording
<1>2. UNCHANGED <<gateway, table, credits, overlapped>> BY DEF Crash
<1>3. Handled(q) BY DEF OnceInv
<1> QED BY <1>1, <1>2, <1>3 DEF Handled, Recorded, ServedOnce

LEMMA InitOnce == Init => OnceInv
<1> SUFFICES ASSUME Init PROVE OnceInv OBVIOUS
<1>1. \A q \in Payments : Serving(q) = {} /\ Recording(q) = {}
  BY IdleJob DEF Init, Serving, Recording
<1> QED BY <1>1, InitTyped DEF Init, OnceInv, Handled, Recorded, ServedOnce

LEMMA NextOnce == OnceInv /\ [Next]_vars => OnceInv'
<1> SUFFICES ASSUME OnceInv, [Next]_vars PROVE OnceInv' OBVIOUS
<1>1. TypeOK' BY NextTyped DEF OnceInv
<1>2. ASSUME NEW q \in Payments PROVE Handled(q)'
  <2>1. CASE \E w \in Requests, p \in Payments : InitiateTopUp(w, p) \/ Notify(w, p)
    BY <1>2, <2>1, InitiateTopUpOnce, NotifyOnce
  <2>2. CASE \E p \in Payments : Pay(p) BY <1>2, <2>2, PayOnce
  <2>3. CASE \E w \in Requests, u \in Users : BeginTopUp(w, u)
    BY <1>2, <2>3, BeginTopUpTyped, MoveOnce DEF OnceInv, BeginTopUp, At, Workers, history
  <2>4. CASE \E u \in Users : BeginCharge(u)
    BY <1>2, <2>4, BeginChargeTyped, MoveOnce DEF OnceInv, BeginCharge, At, Workers, history
  <2>5. CASE \E w \in Workers : Step(w)
    BY <1>2, <2>5, RecordPaymentOnce, LookUpOnce, MarkSucceededOnce, ReadBalanceOnce,
       UpdateBalanceOnce, RecordTransactionOnce DEF Step
  <2>6. CASE Crash BY <1>2, <2>6, CrashOnce
  <2>7. CASE UNCHANGED vars
    BY <1>2, <2>7 DEF vars, OnceInv, Handled, Recorded, ServedOnce, Serving, Recording
  <2> QED BY <2>1, <2>2, <2>3, <2>4, <2>5, <2>6, <2>7 DEF Next
<1> QED BY <1>1, <1>2 DEF OnceInv

\* A payment whose notifications come one after the other is credited at most once,
\* however often they come and wherever calls fail or the process stops.
THEOREM CreditedAtMostOnce == Spec => []CreditedOnce
<1>1. OnceInv => CreditedOnce BY DEF OnceInv, Handled, ServedOnce, CreditedOnce
<1> QED BY <1>1, InitOnce, NextOnce, PTL DEF Spec

-----------------------------------------------------------------------------
(* No payment is lost silently *)

Crediting(p) == {w \in Workers : work[w].payment = p /\ work[w].pc \in {"read", "write"}}

\* A row is marked before anybody credits the payment, and if no call failed for good it
\* is there when the user can pay, marked when the gateway stops notifying, and when it
\* is marked the payment is credited or somebody is at it.
Kept(p) ==
    /\ \A w \in Serving(p) : work[w].pc \in {"read", "write", "ledger"} => table[p] = "succeeded"
    /\ ~dropped[p] =>
          /\ gateway[p] \in {"offered", "paid", "acknowledged"} => table[p] # "none"
          /\ gateway[p] = "acknowledged" => table[p] = "succeeded"
          /\ table[p] = "succeeded" => credits[p] > 0 \/ Crediting(p) # {}

KeptInv == OnceInv /\ \A p \in Payments : Kept(p)

\* What a step of w has to show of a payment.
LEMMA StepKept ==
    ASSUME KeptInv, NEW w \in Workers, NEW q \in Payments,
           \A x \in Workers : x # w => work'[x] = work[x],
           work'[w].payment = q /\ work'[w].pc \in {"read", "write", "ledger"} => table'[q] = "succeeded",
           table[q] = "succeeded" => table'[q] = "succeeded",
           dropped[q] => dropped'[q],
           ~dropped'[q] =>
              /\ gateway'[q] \in {"offered", "paid", "acknowledged"} => table'[q] # "none"
              /\ gateway'[q] = "acknowledged" => table'[q] = "succeeded"
              /\ table'[q] = "succeeded" =>
                    \/ credits'[q] > 0
                    \/ work'[w].payment = q /\ work'[w].pc \in {"read", "write"}
                    \/ table[q] = "succeeded" /\ credits'[q] = credits[q] /\ w \notin Crediting(q)
    PROVE  Kept(q)'
<1>1. Kept(q) BY DEF KeptInv
<1>2. ASSUME NEW x \in Serving(q)', work'[x].pc \in {"read", "write", "ledger"}
      PROVE  table'[q] = "succeeded"
  BY <1>1, <1>2 DEF Kept, Serving
<1>3. work'[w].payment = q /\ work'[w].pc \in {"read", "write"} => Crediting(q)' # {}
  BY DEF Crediting
<1>4. w \notin Crediting(q) /\ Crediting(q) # {} => Crediting(q)' # {} BY DEF Crediting
<1> QED BY <1>1, <1>2, <1>3, <1>4 DEF Kept

\* A step that leaves the payment alone.
LEMMA AsideKept ==
    ASSUME KeptInv, NEW w \in Workers, NEW q \in Payments,
           \A x \in Workers : x # w => work'[x] = work[x],
           w \notin Crediting(q),
           work'[w].payment = q => work'[w].pc \notin {"read", "write", "ledger"},
           table'[q] = table[q], dropped'[q] = dropped[q], credits'[q] = credits[q],
           gateway'[q] \in {gateway[q], "created"}
    PROVE  Kept(q)'
<1>1. Kept(q) BY DEF KeptInv
<1> QED BY <1>1, StepKept DEF Kept

\* Whoever serves a payment finds it offered, and its row made unless that failed.
LEMMA ServedIsThere ==
    ASSUME KeptInv, NEW w \in Workers, NEW p \in Payments, work[w].payment = p,
           work[w].pc \notin {"idle", "record"}
    PROVE  /\ gateway[p] \in {"offered", "paid", "acknowledged"}
           /\ table[p] \in {"none", "pending", "succeeded"}
           /\ ~dropped[p] => table[p] # "none"
           /\ work[w].pc \in {"read", "write", "ledger"} => table[p] = "succeeded"
<1>1. w \in Serving(p) BY DEF Serving
<1>2. gateway[p] \in GatewayState /\ table[p] \in RowState BY DEF KeptInv, OnceInv, TypeOK
<1>3. gateway[p] \notin {"none", "created"} BY <1>1 DEF KeptInv, OnceInv, Handled, Recorded
<1>4. Kept(p) BY DEF KeptInv
<1> QED BY <1>1, <1>2, <1>3, <1>4 DEF GatewayState, RowState, Kept

\* What a goroutine goes on with, or that it is done.
LEMMA GoesOn ==
    ASSUME KeptInv, NEW w \in Workers
    PROVE  /\ Done(w) => work'[w] = Idle
           /\ \A pc : Goto(w, [work[w] EXCEPT !.pc = pc]) =>
                 work'[w].pc = pc /\ work'[w].payment = work[w].payment
           /\ \A pc, n : Goto(w, [work[w] EXCEPT !.pc = pc, !.copy = n]) =>
                 work'[w].pc = pc /\ work'[w].payment = work[w].payment
BY DEF KeptInv, OnceInv, TypeOK, Job, Done, Goto

LEMMA InitiateTopUpKept ==
    ASSUME KeptInv, NEW w \in Requests, NEW p \in Payments, InitiateTopUp(w, p), NEW q \in Payments
    PROVE  Kept(q)'
<1>1. /\ w \in Workers /\ work[w].pc = "idle" /\ work'[w].pc = "record"
      /\ \A x \in Workers : x # w => work'[x] = work[x]
  BY InitiateTopUpTyped DEF InitiateTopUp, KeptInv, OnceInv, At, Workers
<1>2. /\ gateway'[q] = "created" \/ gateway'[q] = gateway[q]
      /\ table' = table /\ credits' = credits /\ dropped' = dropped
  BY DEF InitiateTopUp, KeptInv, OnceInv, TypeOK, history
<1>3. w \notin Crediting(q) BY <1>1 DEF Crediting
<1> QED BY <1>1, <1>2, <1>3, AsideKept

\* Until the row is made, or its creation has failed, nobody can pay.
LEMMA RecordPaymentKept ==
    ASSUME KeptInv, NEW w \in Workers, RecordPayment(w), NEW q \in Payments
    PROVE  Kept(q)'
<1> DEFINE p == work[w].payment
<1>1. /\ work[w].pc = "record" /\ p \in Payments /\ work'[w] = Idle
      /\ \A x \in Workers : x # w => work'[x] = work[x]
  BY RecordPaymentTyped DEF RecordPayment, KeptInv, OnceInv, At
<1>2. p # NoPayment BY <1>1, NobodyAssumption
<1>3. /\ gateway'[q] = IF q = p THEN "offered" ELSE gateway[q]
      /\ credits' = credits
      /\ \/ /\ table'[q] = IF q = p THEN "pending" ELSE table[q]
            /\ dropped' = dropped
         \/ /\ table' = table
            /\ dropped'[q] = IF q = p THEN TRUE ELSE dropped[q]
  BY <1>1, <1>2 DEF RecordPayment, KeptInv, OnceInv, TypeOK, Drop
<1>4. w \notin Crediting(q) BY <1>1 DEF Crediting
<1>5. CASE q = p
  <2>1. w \in Recording(q) BY <1>1, <1>5 DEF Recording
  <2>2. gateway[q] = "created" BY <2>1 DEF KeptInv, OnceInv, Handled, Recorded
  <2>3. table[q] = "none" BY <2>2 DEF KeptInv, OnceInv, Handled, Recorded
  <2>4. dropped[q] \in BOOLEAN BY DEF KeptInv, OnceInv, TypeOK
  <2> QED BY <1>1, <1>3, <1>4, <1>5, <2>3, <2>4, IdleJob, StepKept
<1>6. CASE q # p BY <1>1, <1>3, <1>4, <1>6, IdleJob, AsideKept
<1> QED BY <1>5, <1>6

LEMMA PayKept ==
    ASSUME KeptInv, NEW p \in Payments, Pay(p), NEW q \in Payments
    PROVE  Kept(q)'
<1>1. /\ gateway[p] = "offered" /\ gateway'[q] = IF q = p THEN "paid" ELSE gateway[q]
      /\ table' = table /\ work' = work /\ credits' = credits /\ dropped' = dropped
  BY DEF Pay, KeptInv, OnceInv, TypeOK, history
<1>2. Kept(q) BY DEF KeptInv
<1>3. Serving(q)' = Serving(q) /\ Crediting(q)' = Crediting(q) BY <1>1 DEF Serving, Crediting
<1> QED BY <1>1, <1>2, <1>3 DEF Kept

LEMMA NotifyKept ==
    ASSUME KeptInv, NEW w \in Requests, NEW p \in Payments, Notify(w, p), NEW q \in Payments
    PROVE  Kept(q)'
<1>1. /\ w \in Workers /\ work[w].pc = "idle" /\ work'[w].pc = "lookup"
      /\ \A x \in Workers : x # w => work'[x] = work[x]
  BY NotifyTyped DEF Notify, KeptInv, OnceInv, At, Workers
<1>2. UNCHANGED <<gateway, table, credits, dropped>> BY DEF Notify
<1>3. w \notin Crediting(q) BY <1>1 DEF Crediting
<1> QED BY <1>1, <1>2, <1>3, AsideKept

\* The row is answered as handled only when it is marked, or when a call has failed.
LEMMA LookUpKept ==
    ASSUME KeptInv, NEW w \in Workers, LookUp(w), NEW q \in Payments
    PROVE  Kept(q)'
<1> DEFINE p == work[w].payment
<1>1. /\ work[w].pc = "lookup" /\ table' = table /\ credits' = credits /\ p \in Payments
      /\ \A x \in Workers : x # w => work'[x] = work[x]
  BY LookUpTyped DEF LookUp, KeptInv, OnceInv, At
<1>2. p # NoPayment BY <1>1, NobodyAssumption
<1>3. work'[w].pc \in {"mark", "idle"}
  BY <1>1, LookUpTyped, IdleJob DEF LookUp, KeptInv, OnceInv
<1>4. \/ /\ dropped' = dropped
         /\ \/ gateway' = gateway
            \/ table[p] # "pending" /\ gateway'[q] = IF q = p THEN "acknowledged" ELSE gateway[q]
      \/ /\ dropped'[q] = IF q = p THEN TRUE ELSE dropped[q]
         /\ gateway'[q] = IF q = p THEN "acknowledged" ELSE gateway[q]
  BY <1>1, <1>2 DEF LookUp, KeptInv, OnceInv, TypeOK, Drop, Answer
<1>5. w \notin Crediting(q) BY <1>1 DEF Crediting
<1>6. CASE q = p
  <2>1. /\ table[q] \in {"none", "pending", "succeeded"}
        /\ ~dropped[q] => table[q] # "none"
    BY <1>1, <1>6, ServedIsThere
  <2>2. Kept(q) BY DEF KeptInv
  <2>3. CASE dropped'[q] BY <1>1, <1>3, <1>5, <2>3, StepKept
  <2>4. CASE dropped' = dropped /\ gateway' = gateway
    BY <1>1, <1>3, <1>5, <2>2, <2>4, StepKept DEF Kept
  <2>5. CASE dropped' = dropped /\ table[q] # "pending"
    BY <1>1, <1>3, <1>5, <2>1, <2>2, <2>5, StepKept DEF Kept
  <2> QED BY <1>4, <1>6, <2>3, <2>4, <2>5
<1>7. CASE q # p
  <2>1. gateway'[q] = gateway[q] /\ dropped'[q] = dropped[q] BY <1>4, <1>7 DEF KeptInv, OnceInv, TypeOK
  <2> QED BY <1>1, <1>3, <1>5, <2>1, AsideKept
<1> QED BY <1>6, <1>7

LEMMA MarkSucceededKept ==
    ASSUME KeptInv, NEW w \in Workers, MarkSucceeded(w), NEW q \in Payments
    PROVE  Kept(q)'
<1> DEFINE p == work[w].payment
<1>1. /\ work[w].pc = "mark" /\ gateway' = gateway /\ credits' = credits /\ p \in Payments
      /\ \A x \in Workers : x # w => work'[x] = work[x]
  BY MarkSucceededTyped DEF MarkSucceeded, KeptInv, OnceInv, At
<1>2. p # NoPayment BY <1>1, NobodyAssumption
<1>3. \/ /\ work'[w].pc = "read" /\ work'[w].payment = p /\ dropped' = dropped
         /\ table' = [table EXCEPT ![p] = "succeeded"]
      \/ work'[w] = Idle /\ table' = table /\ dropped' = dropped
      \/ work'[w] = Idle /\ Drop(p) /\ table' = [table EXCEPT ![p] = "succeeded"]
  BY GoesOn DEF MarkSucceeded
<1>4. \/ /\ work'[w].pc = "read" /\ work'[w].payment = p /\ dropped' = dropped
         /\ table'[q] = IF q = p THEN "succeeded" ELSE table[q]
      \/ work'[w] = Idle /\ table' = table /\ dropped' = dropped
      \/ /\ work'[w] = Idle /\ dropped'[q] = IF q = p THEN TRUE ELSE dropped[q]
         /\ table'[q] = IF q = p THEN "succeeded" ELSE table[q]
  BY <1>2, <1>3 DEF KeptInv, OnceInv, TypeOK, Drop
<1>5. w \notin Crediting(q) BY <1>1 DEF Crediting
<1>6. CASE q = p
  <2>1. ~dropped[q] => table[q] # "none" BY <1>1, <1>6, ServedIsThere
  <2>2. Kept(q) /\ dropped[q] \in BOOLEAN BY DEF KeptInv, OnceInv, TypeOK
  <2> QED BY <1>1, <1>4, <1>5, <1>6, <2>1, <2>2, IdleJob, StepKept DEF Kept
<1>7. CASE q # p
  <2>1. /\ table'[q] = table[q] /\ dropped'[q] = dropped[q]
        /\ work'[w].payment = q => work'[w].pc \notin {"read", "write", "ledger"}
    BY <1>4, <1>7, IdleJob DEF KeptInv, OnceInv, TypeOK
  <2> QED BY <1>1, <1>5, <2>1, AsideKept
<1> QED BY <1>6, <1>7

LEMMA ReadBalanceKept ==
    ASSUME KeptInv, NEW w \in Workers, ReadBalance(w), NEW q \in Payments
    PROVE  Kept(q)'
<1> DEFINE p == work[w].payment
<1>1. /\ work[w].pc = "read" /\ UNCHANGED <<gateway, table, credits>>
      /\ \/ work'[w].pc = "write" /\ work'[w].payment = p /\ dropped' = dropped
         \/ work'[w] = Idle /\ Drop(p)
      /\ \A x \in Workers : x # w => work'[x] = work[x]
  BY ReadBalanceTyped, GoesOn DEF ReadBalance, KeptInv, OnceInv, At
<1>2. CASE q = p
  <2>1. ~dropped[q] => table[q] # "none" BY <1>1, <1>2, ServedIsThere
  <2>2. table[q] = "succeeded" BY <1>1, <1>2, ServedIsThere
  <2>3. \/ work'[w].pc = "write" /\ work'[w].payment = q /\ dropped' = dropped
        \/ work'[w] = Idle /\ dropped'[q] = TRUE
    BY <1>1, <1>2, NobodyAssumption DEF Drop, KeptInv, OnceInv, TypeOK
  <2> QED BY <1>1, <2>1, <2>2, <2>3, StepKept
<1>3. CASE q # p
  <2>1. /\ dropped'[q] = dropped[q] /\ w \notin Crediting(q)
        /\ work'[w].payment = q => work'[w].pc \notin {"read", "write", "ledger"}
    BY <1>1, <1>3, IdleJob DEF Drop, Crediting, KeptInv, OnceInv, TypeOK
  <2> QED BY <1>1, <2>1, AsideKept
<1> QED BY <1>2, <1>3

LEMMA UpdateBalanceKept ==
    ASSUME KeptInv, NEW w \in Workers, UpdateBalance(w), NEW q \in Payments
    PROVE  Kept(q)'
<1> DEFINE p == work[w].payment
<1>1. /\ work[w].pc = "write" /\ UNCHANGED <<gateway, table>>
      /\ \/ /\ work'[w] = Idle \/ (work'[w].pc = "ledger" /\ work'[w].payment = p)
            /\ PutBalance(w) /\ dropped' = dropped
         \/ work'[w] = Idle /\ Drop(p) /\ credits' = credits
      /\ \A x \in Workers : x # w => work'[x] = work[x]
  BY UpdateBalanceTyped, GoesOn DEF UpdateBalance, KeptInv, OnceInv, At
<1>2. CASE q = p
  <2>1. ~dropped[q] => table[q] # "none" BY <1>1, <1>2, ServedIsThere
  <2>2. table[q] = "succeeded" BY <1>1, <1>2, ServedIsThere
  <2>3. \/ dropped' = dropped /\ credits'[q] > 0
        \/ dropped'[q] = TRUE
    <3>1. q # NoPayment /\ credits[q] \in Nat BY NobodyAssumption DEF KeptInv, OnceInv, TypeOK
    <3>2. CASE PutBalance(w) /\ dropped' = dropped
      <4>1. credits'[q] = credits[q] + 1
        BY <1>2, <3>1, <3>2 DEF PutBalance, KeptInv, OnceInv, TypeOK
      <4> QED BY <3>1, <3>2, <4>1
    <3>3. CASE Drop(p) BY <1>2, <3>1, <3>3 DEF Drop, KeptInv, OnceInv, TypeOK
    <3> QED BY <1>1, <3>2, <3>3
  <2> QED BY <1>1, <2>1, <2>2, <2>3, StepKept
<1>3. CASE q # p
  <2>1. dropped'[q] = dropped[q] /\ credits'[q] = credits[q]
    BY <1>1, <1>3 DEF Drop, PutBalance, KeptInv, OnceInv, TypeOK
  <2>2. /\ w \notin Crediting(q)
        /\ work'[w].payment = q => work'[w].pc \notin {"read", "write", "ledger"}
    BY <1>1, <1>3, IdleJob DEF Crediting
  <2> QED BY <1>1, <2>1, <2>2, AsideKept
<1> QED BY <1>2, <1>3

\* The webhook is answered after the credit, of a row that was marked before.
LEMMA RecordTransactionKept ==
    ASSUME KeptInv, NEW w \in Workers, RecordTransaction(w), NEW q \in Payments
    PROVE  Kept(q)'
<1> DEFINE p == work[w].payment
<1>1. /\ work[w].pc = "ledger" /\ UNCHANGED <<table, credits, dropped>> /\ work'[w] = Idle
      /\ gateway'[q] = gateway[q] \/ q = p
      /\ \A x \in Workers : x # w => work'[x] = work[x]
  BY RecordTransactionTyped DEF RecordTransaction, Answer, KeptInv, OnceInv, TypeOK, At
<1>2. w \notin Crediting(q) BY <1>1 DEF Crediting
<1>3. CASE q = p
  <2>1. table[q] = "succeeded" BY <1>1, <1>3, ServedIsThere
  <2> QED BY <1>1, <1>2, <2>1, IdleJob, StepKept
<1>4. CASE q # p BY <1>1, <1>2, <1>4, IdleJob, AsideKept
<1> QED BY <1>3, <1>4

\* A top-up or a charge is about no payment.
LEMMA MoveKept ==
    ASSUME KeptInv, NEW w \in Workers, work[w].pc = "idle", work'[w].payment = NoPayment,
           \A x \in Workers : x # w => work'[x] = work[x],
           UNCHANGED <<gateway, table, credits, dropped>>, NEW q \in Payments
    PROVE  Kept(q)'
<1>1. w \notin Crediting(q) BY DEF Crediting
<1>2. work'[w].payment # q BY NobodyAssumption
<1> QED BY <1>1, <1>2, AsideKept

\* A restart loses what was marked and not credited.
LEMMA CrashKept ==
    ASSUME KeptInv, Crash, NEW q \in Payments PROVE Kept(q)'
<1>1. Serving(q)' = {} BY IdleJob DEF Crash, Serving
<1>2. UNCHANGED <<gateway, table, credits>> BY DEF Crash
<1>3. ~dropped'[q] => ~dropped[q] /\ Crediting(q) = {}
  BY DEF Crash, Crediting, Serving
<1>4. Kept(q) BY DEF KeptInv
<1> QED BY <1>1, <1>2, <1>3, <1>4 DEF Kept

LEMMA NextKept == KeptInv /\ [Next]_vars => KeptInv'
<1> SUFFICES ASSUME KeptInv, [Next]_vars PROVE KeptInv' OBVIOUS
<1>1. OnceInv' BY NextOnce DEF KeptInv
<1>2. ASSUME NEW q \in Payments PROVE Kept(q)'
  <2>1. CASE \E w \in Requests, p \in Payments : InitiateTopUp(w, p) \/ Notify(w, p)
    BY <1>2, <2>1, InitiateTopUpKept, NotifyKept
  <2>2. CASE \E p \in Payments : Pay(p) BY <1>2, <2>2, PayKept
  <2>3. CASE \E w \in Requests, u \in Users : BeginTopUp(w, u)
    BY <1>2, <2>3, BeginTopUpTyped, MoveKept DEF KeptInv, OnceInv, BeginTopUp, At, Workers, history
  <2>4. CASE \E u \in Users : BeginCharge(u)
    BY <1>2, <2>4, BeginChargeTyped, MoveKept DEF KeptInv, OnceInv, BeginCharge, At, Workers, history
  <2>5. CASE \E w \in Workers : Step(w)
    BY <1>2, <2>5, RecordPaymentKept, LookUpKept, MarkSucceededKept, ReadBalanceKept,
       UpdateBalanceKept, RecordTransactionKept DEF Step
  <2>6. CASE Crash BY <1>2, <2>6, CrashKept
  <2>7. CASE UNCHANGED vars BY <1>2, <2>7 DEF vars, KeptInv, Kept, Serving, Crediting
  <2> QED BY <2>1, <2>2, <2>3, <2>4, <2>5, <2>6, <2>7 DEF Next
<1> QED BY <1>1, <1>2 DEF KeptInv

LEMMA KeptAlways == Spec => []KeptInv
<1>1. Init => KeptInv
  <2> SUFFICES ASSUME Init PROVE KeptInv OBVIOUS
  <2>1. \A q \in Payments : Serving(q) = {} BY IdleJob DEF Init, Serving
  <2> QED BY <2>1, InitOnce DEF Init, KeptInv, Kept
<1> QED BY <1>1, NextKept, PTL DEF Spec

\* HandleYooKassaWebhook: when the gateway stops notifying, the payment has been credited
\* or is about to be, unless one of the calls failed that the code does not repeat.
THEOREM NoPaymentIsLost == Spec => []AcknowledgedIsCredited
<1>1. KeptInv => AcknowledgedIsCredited
  BY DEF KeptInv, Kept, Crediting, AcknowledgedIsCredited
<1> QED BY <1>1, KeptAlways, PTL

\* Together: when the gateway has stopped notifying and nobody serves the payment any
\* more, it was credited exactly once, if its notifications did not overlap and no call
\* failed for good.
THEOREM CreditedExactlyOnce ==
    Spec => [](\A p \in Payments :
                  gateway[p] = "acknowledged" /\ ~dropped[p] /\ ~overlapped[p] /\ Serving(p) = {}
                  => credits[p] = 1)
<1>1. KeptInv => \A p \in Payments :
                    gateway[p] = "acknowledged" /\ ~dropped[p] /\ ~overlapped[p] /\ Serving(p) = {}
                    => credits[p] = 1
  <2> SUFFICES ASSUME KeptInv, NEW p \in Payments,
                      gateway[p] = "acknowledged", ~dropped[p], ~overlapped[p], Serving(p) = {}
               PROVE  credits[p] = 1
    OBVIOUS
  <2>1. credits[p] > 0 BY DEF KeptInv, Kept, Crediting, Serving
  <2>2. credits[p] <= 1 BY DEF KeptInv, OnceInv, Handled, ServedOnce
  <2>3. credits[p] \in Nat BY DEF KeptInv, OnceInv, TypeOK
  <2> QED BY <2>1, <2>2, <2>3
<1> QED BY <1>1, KeptAlways, PTL

-----------------------------------------------------------------------------
(* The ledger explains the balance *)

\* When one job changes, the sum of every set with its goroutine changes alike.
LEMMA SumGoesOn ==
    ASSUME TypeOK, TypeOK', NEW w \in Workers, \A x \in Workers : x # w => work'[x] = work[x],
           NEW sum, Adds(sum, work)
    PROVE  \E after : /\ Adds(after, work')
                      /\ \A S \in SUBSET Workers : w \notin S => after[S] = sum[S]
                      /\ work'[w].amount = work[w].amount => after = sum
<1> DEFINE more == work'[w].amount - work[w].amount
           after == [S \in SUBSET Workers |-> IF w \in S THEN sum[S] + more ELSE sum[S]]
<1>1. \A x \in Workers : work[x].amount \in Int /\ work'[x].amount \in Int
  BY DEF TypeOK, Job
<1>2. \A S \in SUBSET Workers : sum[S] \in Int BY DEF Adds
<1>3. more \in Int BY <1>1
<1>4. more + work[w].amount = work'[w].amount BY <1>1
<1>5. work'[w].amount = work[w].amount => more = 0 BY <1>1
<1> HIDE DEF more
<1>6. after \in [SUBSET Workers -> Int] BY <1>2, <1>3
<1>7. after[{}] = 0 BY DEF Adds
<1>8. ASSUME NEW S \in SUBSET Workers, NEW x \in Workers \ S
      PROVE  after[S \cup {x}] = after[S] + work'[x].amount
  <2>1. sum[S \cup {x}] = sum[S] + work[x].amount BY DEF Adds
  <2>2. S \cup {x} \in SUBSET Workers OBVIOUS
  <2>3. CASE x = w
    <3>1. after[S \cup {x}] = sum[S \cup {x}] + more /\ after[S] = sum[S] BY <2>2, <2>3
    <3> QED BY <1>1, <1>2, <1>3, <1>4, <2>1, <2>3, <3>1
  <2>4. CASE x # w /\ w \in S
    <3>1. after[S \cup {x}] = sum[S \cup {x}] + more /\ after[S] = sum[S] + more BY <2>2, <2>4
    <3>2. work'[x].amount = work[x].amount BY <2>4
    <3> QED BY <1>1, <1>2, <1>3, <2>1, <3>1, <3>2
  <2>5. CASE x # w /\ w \notin S
    <3>1. after[S \cup {x}] = sum[S \cup {x}] /\ after[S] = sum[S] BY <2>2, <2>5
    <3>2. work'[x].amount = work[x].amount BY <2>5
    <3> QED BY <2>1, <3>1, <3>2
  <2> QED BY <2>3, <2>4, <2>5
<1>9. Adds(after, work') BY <1>6, <1>7, <1>8 DEF Adds
<1>10. \A S \in SUBSET Workers : w \notin S => after[S] = sum[S] OBVIOUS
<1>11. work'[w].amount = work[w].amount => after = sum
  <2>1. SUFFICES ASSUME more = 0 PROVE \A S \in SUBSET Workers : after[S] = sum[S]
    BY <1>5 DEF Adds
  <2> QED BY <1>2, <2>1
<1> QED BY <1>9, <1>10, <1>11

\* A step that neither writes a balance nor ends a change of one: what was read stays
\* fresh, and the books stay as they were.
LEMMA QuietBooks ==
    ASSUME BooksInv, TypeOK', NEW w \in Workers, work[w].pc # "ledger", work'[w].pc # "ledger",
           work'[w].pc = "write" => work'[w].copy = balance[work'[w].user],
           \A x \in Workers : x # w => work'[x] = work[x],
           UNCHANGED <<balance, ledger, raced, unrecorded>>
    PROVE  BooksInv'
<1>1. CopiesFresh' BY DEF BooksInv, CopiesFresh, AboutToWrite
<1>2. Explained'
  <2>1. PICK sum : Adds(sum, work) /\ ExplainedBy(sum) BY DEF BooksInv, Explained
  <2>2. PICK after : /\ Adds(after, work')
                     /\ \A S \in SUBSET Workers : w \notin S => after[S] = sum[S]
    BY <2>1, SumGoesOn DEF BooksInv
  <2>3. \A u \in Users : /\ Unrecorded(u)' = Unrecorded(u) /\ w \notin Unrecorded(u)
                         /\ Unrecorded(u) \in SUBSET Workers
    BY DEF Unrecorded
  <2>4. \A u \in Users : after[Unrecorded(u)'] = sum[Unrecorded(u)] BY <2>2, <2>3
  <2>5. \A u \in Users : ~raced'[u] /\ ~unrecorded'[u] =>
           balance'[u] = Opening + ledger'[u] + after[Unrecorded(u)']
    BY <2>1, <2>4 DEF ExplainedBy
  <2> QED BY <2>2, <2>5 DEF Explained, ExplainedBy
<1> QED BY <1>1, <1>2 DEF BooksInv

LEMMA UpdateBalanceBooks ==
    ASSUME BooksInv, NEW w \in Workers, UpdateBalance(w) PROVE BooksInv'
<1> DEFINE u == work[w].user
<1>1. /\ TypeOK' /\ u \in Users /\ work[w].pc = "write" /\ UNCHANGED ledger
      /\ \A x \in Workers : x # w => work'[x] = work[x]
  BY UpdateBalanceTyped DEF BooksInv, UpdateBalance, At
<1>2. CASE work'[w] = Idle /\ UNCHANGED <<balance, credits, raced, unrecorded>>
  BY <1>1, <1>2, IdleJob, QuietBooks
<1>3. CASE /\ work'[w].pc \in {"ledger", "idle"}
           /\ work'[w].pc = "ledger" =>
                 work'[w].user = u /\ work'[w].amount = work[w].amount /\ UNCHANGED unrecorded
           /\ work'[w].pc = "idle" => unrecorded' = [unrecorded EXCEPT ![u] = TRUE]
           /\ PutBalance(w)
  <2>1. /\ balance'[u] = work[w].copy + work[w].amount
        /\ \A v \in Users : v # u => balance'[v] = balance[v] /\ raced'[v] = raced[v]
        /\ raced'[u] = (raced[u] \/ AboutToWrite(u) # {w})
        /\ \A v \in Users : v # u => unrecorded'[v] = unrecorded[v]
    <3>1. /\ balance' = [balance EXCEPT ![u] = work[w].copy + work[w].amount]
          /\ raced' = [raced EXCEPT ![u] = raced[u] \/ AboutToWrite(u) # {w}]
      BY <1>3 DEF PutBalance
    <3>2. unrecorded' \in {unrecorded, [unrecorded EXCEPT ![u] = TRUE]} BY <1>3
    <3>3. /\ balance \in [Users -> Int] /\ raced \in [Users -> BOOLEAN]
          /\ unrecorded \in [Users -> BOOLEAN]
      BY DEF BooksInv, TypeOK
    <3>4. raced'[u] = (raced[u] \/ AboutToWrite(u) # {w}) BY <1>1, <3>1, <3>3, Zenon
    <3>5. \A v \in Users : v # u => raced'[v] = raced[v] BY <1>1, <3>1, <3>3
    <3> QED BY <1>1, <3>1, <3>2, <3>3, <3>4, <3>5
  <2>2. /\ work[w].amount \in Int /\ balance[u] \in Int /\ ledger[u] \in Int /\ Opening \in Int
        /\ w \in AboutToWrite(u)
    BY <1>1, JobFields, MoneyAssumption DEF BooksInv, TypeOK, AboutToWrite
  <2>3. ~raced'[u] => work[w].copy = balance[u] BY <1>1, <2>1, <2>2 DEF BooksInv, CopiesFresh
  <2>4. CopiesFresh'
    <3> SUFFICES ASSUME NEW v \in Users, ~raced'[v], NEW x \in AboutToWrite(v)'
                 PROVE  work'[x].copy = balance'[v]
      BY DEF CopiesFresh
    <3>1. x \in Workers /\ x # w /\ x \in AboutToWrite(v) /\ work'[x] = work[x]
      BY <1>1, <1>3 DEF AboutToWrite
    <3>2. CASE v = u BY <2>1, <3>1, <3>2
    <3>3. CASE v # u BY <2>1, <3>1, <3>3 DEF BooksInv, CopiesFresh
    <3> QED BY <3>2, <3>3
  <2>5. PICK sum : Adds(sum, work) /\ ExplainedBy(sum) BY DEF BooksInv, Explained
  <2>6. PICK after : /\ Adds(after, work')
                     /\ \A S \in SUBSET Workers : w \notin S => after[S] = sum[S]
                     /\ work'[w].amount = work[w].amount => after = sum
    BY <1>1, <2>5, SumGoesOn DEF BooksInv
  <2>7. ASSUME NEW v \in Users, ~raced'[v], ~unrecorded'[v]
        PROVE  balance'[v] = Opening + ledger'[v] + after[Unrecorded(v)']
    <3>1. Unrecorded(v) \in SUBSET Workers /\ w \notin Unrecorded(v) BY <1>1 DEF Unrecorded
    <3>2. CASE v # u
      <4>1. Unrecorded(v)' = Unrecorded(v) BY <1>1, <1>3, <3>2 DEF Unrecorded
      <4>2. after[Unrecorded(v)'] = sum[Unrecorded(v)] BY <2>6, <3>1, <4>1
      <4>3. ~raced[v] /\ ~unrecorded[v] BY <2>1, <2>7, <3>2
      <4> QED BY <1>1, <2>1, <2>5, <3>2, <4>2, <4>3 DEF ExplainedBy
    <3>3. CASE v = u
      <4>1. work'[w].pc = "ledger" BY <1>1, <1>3, <2>7, <3>3 DEF BooksInv, TypeOK
      <4>2. Unrecorded(v)' = Unrecorded(u) \cup {w} BY <1>1, <1>3, <3>3, <4>1 DEF Unrecorded
      <4>3. after = sum /\ sum[Unrecorded(u) \cup {w}] = sum[Unrecorded(u)] + work[w].amount
        BY <1>3, <2>5, <2>6, <3>1, <3>3, <4>1 DEF Adds
      <4>4. ~raced[u] /\ ~unrecorded[u] /\ work[w].copy = balance[u]
        BY <1>3, <2>1, <2>3, <2>7, <3>3, <4>1
      <4>5. balance[u] = Opening + ledger[u] + sum[Unrecorded(u)] /\ sum[Unrecorded(u)] \in Int
        BY <1>1, <2>5, <3>1, <3>3, <4>4 DEF ExplainedBy, Adds
      <4> QED BY <1>1, <2>1, <2>2, <3>3, <4>2, <4>3, <4>4, <4>5
    <3> QED BY <3>2, <3>3
  <2>8. Explained' BY <2>6, <2>7 DEF Explained, ExplainedBy
  <2> QED BY <1>1, <2>4, <2>8 DEF BooksInv
<1> QED BY <1>2, <1>3, IdleJob, UpdateBalanceTyped DEF BooksInv

LEMMA RecordTransactionBooks ==
    ASSUME BooksInv, NEW w \in Workers, RecordTransaction(w) PROVE BooksInv'
<1> DEFINE u == work[w].user
<1>1. /\ TypeOK' /\ u \in Users /\ work[w].pc = "ledger" /\ work'[w] = Idle
      /\ UNCHANGED <<balance, raced>>
      /\ \A x \in Workers : x # w => work'[x] = work[x]
  BY RecordTransactionTyped DEF BooksInv, RecordTransaction, At
<1>2. /\ \/ ledger'[u] = ledger[u] + work[w].amount /\ unrecorded'[u] = unrecorded[u]
         \/ unrecorded'[u] = TRUE
      /\ \A v \in Users : v # u => ledger'[v] = ledger[v] /\ unrecorded'[v] = unrecorded[v]
  BY <1>1, RecordTransactionTyped DEF BooksInv, TypeOK
<1>3. CopiesFresh' BY <1>1, IdleJob DEF BooksInv, CopiesFresh, AboutToWrite
<1>4. PICK sum : Adds(sum, work) /\ ExplainedBy(sum) BY DEF BooksInv, Explained
<1>5. PICK after : Adds(after, work') /\ \A S \in SUBSET Workers : w \notin S => after[S] = sum[S]
  BY <1>1, <1>4, SumGoesOn DEF BooksInv
<1>6. ASSUME NEW v \in Users, ~raced'[v], ~unrecorded'[v]
      PROVE  balance'[v] = Opening + ledger'[v] + after[Unrecorded(v)']
  <2>1. Unrecorded(v) \in SUBSET Workers /\ Unrecorded(v) \ {w} \in SUBSET Workers BY DEF Unrecorded
  <2>2. Unrecorded(v)' = Unrecorded(v) \ {w} BY <1>1, IdleJob DEF Unrecorded
  <2>3. after[Unrecorded(v)'] = sum[Unrecorded(v) \ {w}] BY <1>5, <2>1, <2>2
  <2>4. ~raced[v] /\ ~unrecorded[v] BY <1>1, <1>2, <1>6
  <2>5. balance[v] = Opening + ledger[v] + sum[Unrecorded(v)] BY <1>4, <2>4 DEF ExplainedBy
  <2>6. CASE v # u
    <3>1. Unrecorded(v) \ {w} = Unrecorded(v) BY <2>6 DEF Unrecorded
    <3> QED BY <1>1, <1>2, <2>3, <2>5, <2>6, <3>1
  <2>7. CASE v = u
    <3>1. w \in Unrecorded(u) BY <1>1 DEF Unrecorded
    <3>2. (Unrecorded(u) \ {w}) \cup {w} = Unrecorded(u) BY <3>1
    <3>3. sum[Unrecorded(u)] = sum[Unrecorded(u) \ {w}] + work[w].amount
      BY <1>4, <2>1, <2>7, <3>2 DEF Adds
    <3>4. /\ work[w].amount \in Int /\ ledger[u] \in Int /\ Opening \in Int
          /\ sum[Unrecorded(u) \ {w}] \in Int
      BY <1>1, <1>4, <2>1, <2>7, JobFields, MoneyAssumption DEF BooksInv, TypeOK, Adds
    <3>5. ledger'[u] = ledger[u] + work[w].amount BY <1>2, <1>6, <2>7
    <3> QED BY <1>1, <2>3, <2>5, <2>7, <3>3, <3>4, <3>5
  <2> QED BY <2>6, <2>7
<1>7. Explained' BY <1>5, <1>6 DEF Explained, ExplainedBy
<1> QED BY <1>1, <1>3, <1>7 DEF BooksInv

LEMMA NothingAdds == Adds([S \in SUBSET Workers |-> 0], [w \in Workers |-> Idle])
BY IdleJob DEF Adds

LEMMA CrashBooks == ASSUME BooksInv, Crash PROVE BooksInv'
<1>1. /\ TypeOK' /\ work' = [w \in Workers |-> Idle] /\ UNCHANGED <<balance, ledger, raced>>
  BY CrashTyped DEF BooksInv, Crash, money
<1>2. CopiesFresh' BY <1>1, IdleJob DEF CopiesFresh, AboutToWrite
<1>3. \A u \in Users : ~unrecorded'[u] => ~unrecorded[u] /\ Unrecorded(u) = {}
  BY DEF Crash, Unrecorded
<1>4. \A u \in Users : Unrecorded(u)' = {} BY <1>1, IdleJob DEF Unrecorded
<1>5. PICK sum : Adds(sum, work) /\ ExplainedBy(sum) BY DEF BooksInv, Explained
<1> DEFINE after == [S \in SUBSET Workers |-> 0]
<1>6. Adds(after, work') BY <1>1, NothingAdds
<1>7. after[{}] = 0 /\ sum[{}] = 0 BY <1>5 DEF Adds
<1> HIDE DEF after
<1>8. \A u \in Users : ~raced'[u] /\ ~unrecorded'[u] =>
         balance'[u] = Opening + ledger'[u] + after[Unrecorded(u)']
  BY <1>1, <1>3, <1>4, <1>5, <1>7 DEF ExplainedBy
<1>9. Explained' BY <1>6, <1>8 DEF Explained, ExplainedBy
<1> QED BY <1>1, <1>2, <1>9 DEF BooksInv

LEMMA InitBooks == Init => BooksInv
<1> SUFFICES ASSUME Init PROVE BooksInv OBVIOUS
<1>1. CopiesFresh BY IdleJob DEF Init, CopiesFresh, AboutToWrite
<1> DEFINE sum == [S \in SUBSET Workers |-> 0]
<1>2. Adds(sum, work) BY NothingAdds DEF Init
<1>3. sum[{}] = 0 OBVIOUS
<1>4. \A u \in Users : Unrecorded(u) = {} BY IdleJob DEF Init, Unrecorded
<1> HIDE DEF sum
<1>5. ExplainedBy(sum) BY <1>3, <1>4, MoneyAssumption DEF Init, ExplainedBy
<1> QED BY <1>1, <1>2, <1>5, InitTyped DEF BooksInv, Explained

LEMMA NextBooks == BooksInv /\ [Next]_vars => BooksInv'
<1> SUFFICES ASSUME BooksInv, [Next]_vars PROVE BooksInv' OBVIOUS
<1>1. TypeOK /\ TypeOK' BY NextTyped DEF BooksInv
<1>2. CASE \E w \in Requests, p \in Payments : InitiateTopUp(w, p) \/ Notify(w, p)
  <2> PICK w \in Requests, p \in Payments : InitiateTopUp(w, p) \/ Notify(w, p) BY <1>2
  <2>1. /\ w \in Workers /\ work[w].pc = "idle" /\ work'[w].pc \in {"record", "lookup"}
        /\ \A x \in Workers : x # w => work'[x] = work[x]
        /\ UNCHANGED <<balance, ledger, raced, unrecorded>>
    <3>1. w \in Workers BY DEF Workers
    <3>2. /\ work'[w].pc \in {"record", "lookup"}
          /\ \A x \in Workers : x # w => work'[x] = work[x]
      BY <1>1, InitiateTopUpTyped, NotifyTyped
    <3> QED BY <3>1, <3>2 DEF InitiateTopUp, Notify, At, money, history
  <2> QED BY <1>1, <2>1, QuietBooks
<1>3. CASE \E p \in Payments : Pay(p)
  <2>1. UNCHANGED <<balance, ledger, work, raced, unrecorded>> BY <1>3 DEF Pay, money, history
  <2> QED BY <1>1, <2>1 DEF BooksInv, CopiesFresh, AboutToWrite, Explained, ExplainedBy, Unrecorded
<1>4. CASE \E w \in Requests, u \in Users : BeginTopUp(w, u)
  <2> PICK w \in Requests, u \in Users : BeginTopUp(w, u) BY <1>4
  <2>1. /\ w \in Workers /\ work[w].pc = "idle" /\ work'[w].pc = "read"
        /\ \A x \in Workers : x # w => work'[x] = work[x]
        /\ UNCHANGED <<balance, ledger, raced, unrecorded>>
    <3>1. w \in Workers BY DEF Workers
    <3>2. work'[w].pc = "read" /\ \A x \in Workers : x # w => work'[x] = work[x] BY <1>1, BeginTopUpTyped
    <3> QED BY <3>1, <3>2 DEF BeginTopUp, At, money, history
  <2> QED BY <1>1, <2>1, QuietBooks
<1>5. CASE \E u \in Users : BeginCharge(u)
  <2> PICK u \in Users : BeginCharge(u) BY <1>5
  <2>1. /\ Meter \in Workers /\ work[Meter].pc = "idle" /\ work'[Meter].pc = "read"
        /\ \A x \in Workers : x # Meter => work'[x] = work[x]
        /\ UNCHANGED <<balance, ledger, raced, unrecorded>>
    BY <1>1, BeginChargeTyped DEF BeginCharge, At, Workers, money, history
  <2> QED BY <1>1, <2>1, QuietBooks
<1>6. CASE \E w \in Workers : Step(w)
  <2> PICK w \in Workers : Step(w) BY <1>6
  <2>1. CASE RecordPayment(w) \/ LookUp(w) \/ MarkSucceeded(w)
    <3>1. /\ work[w].pc # "ledger" /\ work'[w].pc \notin {"write", "ledger"}
          /\ \A x \in Workers : x # w => work'[x] = work[x]
          /\ UNCHANGED <<balance, ledger, raced, unrecorded>>
      BY <1>1, <2>1, IdleJob, RecordPaymentTyped, LookUpTyped, MarkSucceededTyped
         DEF RecordPayment, LookUp, MarkSucceeded, At, money
    <3> QED BY <1>1, <3>1, QuietBooks
  <2>2. CASE ReadBalance(w)
    <3>1. /\ work[w].pc # "ledger" /\ work'[w].pc # "ledger"
          /\ work'[w].pc = "write" => work'[w].copy = balance[work'[w].user]
          /\ \A x \in Workers : x # w => work'[x] = work[x]
          /\ UNCHANGED <<balance, ledger, raced, unrecorded>>
      BY <1>1, <2>2, IdleJob, ReadBalanceTyped DEF ReadBalance, At, money
    <3> QED BY <1>1, <3>1, QuietBooks
  <2>3. CASE UpdateBalance(w) BY <2>3, UpdateBalanceBooks
  <2>4. CASE RecordTransaction(w) BY <2>4, RecordTransactionBooks
  <2> QED BY <2>1, <2>2, <2>3, <2>4 DEF Step
<1>7. CASE Crash BY <1>7, CrashBooks
<1>8. CASE UNCHANGED vars
  BY <1>1, <1>8 DEF vars, BooksInv, CopiesFresh, AboutToWrite, Explained, ExplainedBy, Unrecorded
<1> QED BY <1>2, <1>3, <1>4, <1>5, <1>6, <1>7, <1>8 DEF Next

\* As long as no two changes of it overlap and every transaction is recorded, the
\* balance is what the ledger says, as soon as nobody is still to record his own.
THEOREM BooksBalance == Spec => []LedgerExplainsBalance
<1>1. BooksInv => LedgerExplainsBalance
  <2> SUFFICES ASSUME BooksInv, NEW u \in Users, ~raced[u], ~unrecorded[u],
                      \A w \in Workers : work[w].pc = "ledger" => work[w].user # u
               PROVE  balance[u] = Opening + ledger[u]
    BY DEF LedgerExplainsBalance
  <2>1. PICK sum : Adds(sum, work) /\ ExplainedBy(sum) BY DEF BooksInv, Explained
  <2>2. Unrecorded(u) = {} BY DEF Unrecorded
  <2>3. balance[u] = Opening + ledger[u] + 0 BY <2>1, <2>2 DEF ExplainedBy, Adds
  <2> QED BY <2>3, MoneyAssumption DEF BooksInv, TypeOK
<1> QED BY <1>1, InitBooks, NextBooks, PTL DEF Spec
=============================================================================
