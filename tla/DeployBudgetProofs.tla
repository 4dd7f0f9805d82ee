------------------------- MODULE DeployBudgetProofs -------------------------
(***************************************************************************)
(* Proofs about DeployBudget, for any users, requests, amounts and number  *)
(* of faults: its typing, that what concurrent deploys hold back stays     *)
(* within the marks, and that it is what they reserved.                    *)
(*                                                                         *)
(* NoOvercommit alone is not inductive: what Admit compares with was read  *)
(* earlier. The invariant adds that high and low enclose the current money *)
(* and every snapshot a deploy under way still goes by.                    *)
(***************************************************************************)
EXTENDS DeployBudget, FiniteSetTheorems, WellFoundedInduction, TLAPS

\* The marks enclose what the user has now.
MoneyInMarks ==
    \A u \in Users : balance[u] <= high[u] /\ low[u] <= spent[u]

\* The marks enclose what a deploy that has not been admitted yet has read.
ReadsInMarks ==
    \A w \in Workers :
        /\ work[w].pc \in {"spending", "admit"} => work[w].readBalance <= high[work[w].user]
        /\ work[w].pc = "admit" => low[work[w].user] <= work[w].readSpent

IInv == TypeOK /\ MoneyInMarks /\ ReadsInMarks /\ NoOvercommit

-----------------------------------------------------------------------------
(* Jobs, so that no step below has to unfold an EXCEPT of work *)

LEMMA UpdateInRange ==
    ASSUME NEW S, NEW T, NEW f \in [S -> T], NEW a \in S, NEW v \in T
    PROVE  [f EXCEPT ![a] = v] \in [S -> T]
OBVIOUS

\* Goroutine w goes on with a job of the right type: work stays well typed, and
\* the other goroutines do not notice.
LEMMA GotoStep ==
    ASSUME TypeOK, NEW w \in Workers, NEW job \in Job, Goto(w, job),
           job.pc # "idle" => job.user \in Users
    PROVE  /\ work' \in [Workers -> Job]
           /\ \A x \in Workers : work'[x].pc # "idle" => work'[x].user \in Users
           /\ work'[w] = job
           /\ \A x \in Workers : x # w => work'[x] = work[x]
<1>1. work \in [Workers -> Job] BY DEF TypeOK
<1>2. work' = [work EXCEPT ![w] = job] BY DEF Goto
<1>3. work' \in [Workers -> Job] BY <1>1, <1>2, UpdateInRange
<1>4. work'[w] = job /\ \A x \in Workers : x # w => work'[x] = work[x]
  BY <1>1, <1>2
<1>5. \A x \in Workers : work'[x].pc # "idle" => work'[x].user \in Users
  BY <1>4 DEF TypeOK
<1> QED BY <1>3, <1>4, <1>5

LEMMA IdleJob == Idle \in Job /\ Idle.pc = "idle"
BY DEF Idle, Job, Verdict

LEMMA JobFields ==
    ASSUME TypeOK, NEW w \in Workers
    PROVE  /\ work[w] \in Job
           /\ work[w].readBalance \in Int /\ work[w].readSpent \in Nat /\ work[w].reserve \in Nat
           /\ work[w].pc # "idle" => work[w].user \in Users
BY DEF TypeOK, Job

-----------------------------------------------------------------------------
(* The invariant *)

LEMMA Start == Init => IInv
<1> SUFFICES ASSUME Init PROVE IInv OBVIOUS
<1> USE MoneyAssumption, FaultAssumption
<1>1. balance \in [Users -> Int] BY DEF Init
<1>2. TypeOK BY <1>1, IdleJob DEF Init, TypeOK
<1>3. MoneyInMarks BY <1>1 DEF Init, MoneyInMarks
<1>4. ReadsInMarks BY IdleJob DEF Init, ReadsInMarks
<1>5. NoOvercommit BY DEF Init, NoOvercommit
<1> QED BY <1>2, <1>3, <1>4, <1>5 DEF IInv

LEMMA BalanceMovesStep ==
    ASSUME IInv, NEW u \in Users, BalanceMoves(u) PROVE IInv'
<1> PICK b \in Balances :
      /\ balance' = [balance EXCEPT ![u] = b]
      /\ high' = [high EXCEPT ![u] = IF b > high[u] THEN b ELSE high[u]]
      /\ UNCHANGED <<spent, guard, work, low, faults>>
  BY DEF BalanceMoves
<1>1. b \in Int BY MoneyAssumption
<1>2. TypeOK' BY <1>1 DEF IInv, TypeOK, guard
<1>3. /\ balance'[u] = b /\ high'[u] >= b /\ high'[u] >= high[u]
      /\ \A x \in Users : x # u => balance'[x] = balance[x] /\ high'[x] = high[x]
  BY <1>1 DEF IInv, TypeOK
<1>4. \A x \in Users : high'[x] \in Int /\ high[x] \in Int /\ high'[x] >= high[x]
  BY <1>2, <1>3 DEF IInv, TypeOK
<1>5. MoneyInMarks' BY <1>3 DEF IInv, MoneyInMarks
<1>6. ReadsInMarks' BY <1>4, JobFields DEF IInv, ReadsInMarks
<1>7. NoOvercommit' BY <1>4 DEF IInv, NoOvercommit, guard, TypeOK
<1> QED BY <1>2, <1>5, <1>6, <1>7 DEF IInv

LEMMA SpendingMovesStep ==
    ASSUME IInv, NEW u \in Users, SpendingMoves(u) PROVE IInv'
<1> PICK s \in Spends :
      /\ spent' = [spent EXCEPT ![u] = s]
      /\ low' = [low EXCEPT ![u] = IF s < low[u] THEN s ELSE low[u]]
      /\ UNCHANGED <<balance, guard, work, high, faults>>
  BY DEF SpendingMoves
<1>1. s \in Nat BY MoneyAssumption
<1>2. TypeOK' BY <1>1 DEF IInv, TypeOK, guard
<1>3. /\ spent'[u] = s /\ low'[u] <= s /\ low'[u] <= low[u]
      /\ \A x \in Users : x # u => spent'[x] = spent[x] /\ low'[x] = low[x]
  BY <1>1 DEF IInv, TypeOK
<1>4. \A x \in Users : low'[x] \in Nat /\ low[x] \in Nat /\ low'[x] <= low[x]
  BY <1>2, <1>3 DEF IInv, TypeOK
<1>5. MoneyInMarks' BY <1>3 DEF IInv, MoneyInMarks
<1>6. ReadsInMarks' BY <1>4, JobFields DEF IInv, ReadsInMarks
<1>7. NoOvercommit' BY <1>4 DEF IInv, NoOvercommit, guard, TypeOK
<1> QED BY <1>2, <1>5, <1>6, <1>7 DEF IInv

\* The steps that change a goroutine's job, and of money and marks at most lower low:
\* enough is to say what the job is, and that what it still goes by lies in the marks.
LEMMA LowerStep ==
    ASSUME IInv, NEW w \in Workers, NEW job \in Job, Goto(w, job),
           job.pc # "idle" => job.user \in Users,
           job.pc \in {"spending", "admit"} => job.readBalance <= high[job.user],
           job.pc = "admit" => low'[job.user] <= job.readSpent,
           UNCHANGED <<money, high>>, faults' \in 0..MaxFaults,
           low' \in [Users -> Nat], \A u \in Users : low'[u] <= low[u],
           pending' \in [Users -> Nat], grace' \in [Users -> BOOLEAN],
           NoOvercommit'
    PROVE  IInv'
<1>1. /\ work' \in [Workers -> Job]
      /\ \A x \in Workers : work'[x].pc # "idle" => work'[x].user \in Users
      /\ work'[w] = job
      /\ \A x \in Workers : x # w => work'[x] = work[x]
  BY GotoStep DEF IInv
<1>2. TypeOK' BY <1>1 DEF IInv, TypeOK, money
<1>3. \A u \in Users : low[u] \in Nat /\ low'[u] \in Nat /\ spent[u] \in Nat /\ low'[u] <= low[u]
  BY DEF IInv, TypeOK
<1>4. MoneyInMarks' BY <1>3 DEF IInv, MoneyInMarks, money
<1>5. ASSUME NEW x \in Workers
      PROVE  /\ work'[x].pc \in {"spending", "admit"} => work'[x].readBalance <= high'[work'[x].user]
             /\ work'[x].pc = "admit" => low'[work'[x].user] <= work'[x].readSpent
  <2>1. CASE x = w BY <1>1, <2>1
  <2>2. CASE x # w
    <3>1. work'[x] = work[x] /\ (work[x].pc # "idle" => work[x].user \in Users) /\ work[x].readSpent \in Nat
      BY <1>1, <2>2, JobFields DEF IInv
    <3>2. work[x].pc = "admit" => low[work[x].user] <= work[x].readSpent BY DEF IInv, ReadsInMarks
    <3>3. work[x].pc = "admit" => low'[work[x].user] <= work[x].readSpent BY <1>3, <3>1, <3>2
    <3> QED BY <3>1, <3>3 DEF IInv, ReadsInMarks
  <2> QED BY <2>1, <2>2
<1>6. ReadsInMarks' BY <1>5 DEF ReadsInMarks
<1> QED BY <1>2, <1>4, <1>6 DEF IInv

\* The steps that change a goroutine's job and neither money nor marks.
LEMMA JobStep ==
    ASSUME IInv, NEW w \in Workers, NEW job \in Job, Goto(w, job),
           job.pc # "idle" => job.user \in Users,
           job.pc \in {"spending", "admit"} => job.readBalance <= high[job.user],
           job.pc = "admit" => low[job.user] <= job.readSpent,
           UNCHANGED <<money, marks>>, faults' \in 0..MaxFaults,
           pending' \in [Users -> Nat], grace' \in [Users -> BOOLEAN],
           NoOvercommit'
    PROVE  IInv'
<1>1. /\ high' = high /\ low' = low /\ low \in [Users -> Nat]
      /\ \A u \in Users : low[u] <= low[u]
  BY DEF marks, IInv, TypeOK
<1> QED BY <1>1, LowerStep

LEMMA FaultStep == ASSUME IInv, Fault \/ UNCHANGED faults PROVE faults' \in 0..MaxFaults
BY FaultAssumption DEF IInv, TypeOK, Fault

LEMMA SameHeld ==
    ASSUME NoOvercommit, UNCHANGED <<pending, marks>>
    PROVE  NoOvercommit'
BY DEF NoOvercommit, marks

LEMMA BeginDeployStep ==
    ASSUME IInv, NEW w \in Workers, NEW u \in Users, BeginDeploy(w, u) PROVE IInv'
<1> DEFINE job == [Idle EXCEPT !.pc = "spending", !.user = u, !.readBalance = balance[u]]
<1>1. /\ job \in Job /\ job.pc = "spending" /\ job.user = u /\ job.readBalance = balance[u]
  BY DEF IInv, TypeOK, Idle, Job, Verdict, DeployPc
<1>2. Goto(w, job) BY DEF BeginDeploy
<1> HIDE DEF job
<1>3. /\ work' \in [Workers -> Job]
      /\ \A x \in Workers : work'[x].pc # "idle" => work'[x].user \in Users
      /\ work'[w] = job
      /\ \A x \in Workers : x # w => work'[x] = work[x]
  BY <1>1, <1>2, GotoStep DEF IInv
<1>4. /\ high' \in [Users -> Int] /\ low' \in [Users -> Nat]
      /\ balance[u] <= high'[u] /\ low'[u] <= spent[u]
      /\ ~Quiet(u) => high'[u] = high[u] /\ low'[u] = low[u]
      /\ \A x \in Users : x # u => high'[x] = high[x] /\ low'[x] = low[x]
  BY DEF BeginDeploy, IInv, TypeOK, MoneyInMarks
<1>5. TypeOK' BY <1>3, <1>4 DEF IInv, TypeOK, BeginDeploy, money, guard
<1>6. MoneyInMarks' BY <1>4 DEF IInv, MoneyInMarks, BeginDeploy, money
<1>7. ReadsInMarks'
  <2> SUFFICES ASSUME NEW x \in Workers
               PROVE  /\ work'[x].pc \in {"spending", "admit"} => work'[x].readBalance <= high'[work'[x].user]
                      /\ work'[x].pc = "admit" => low'[work'[x].user] <= work'[x].readSpent
    BY DEF ReadsInMarks
  <2>1. CASE x = w BY <2>1, <1>1, <1>3, <1>4
  <2>2. CASE x # w /\ work[x].pc \in {"spending", "admit"}
    <3>1. work[x].user = u => ~Quiet(u) BY <2>2 DEF Quiet, DeploysOf, DeployPc
    <3>2. work[x].user \in Users BY <2>2, JobFields DEF IInv
    <3>3. high'[work[x].user] = high[work[x].user] /\ low'[work[x].user] = low[work[x].user]
      BY <3>1, <3>2, <1>4
    <3> QED BY <3>3, <2>2, <1>3 DEF IInv, ReadsInMarks
  <2>3. CASE x # w /\ work[x].pc \notin {"spending", "admit"} BY <2>3, <1>3
  <2> QED BY <2>1, <2>2, <2>3
<1>8. NoOvercommit'
  <2> SUFFICES ASSUME NEW x \in Users, pending[x] > 0
               PROVE  pending[x] <= high'[x] - low'[x]
    BY DEF NoOvercommit, BeginDeploy, guard
  <2>1. x = u => ~Quiet(u) BY DEF Quiet, IInv, TypeOK
  <2>2. high'[x] = high[x] /\ low'[x] = low[x] BY <2>1, <1>4
  <2> QED BY <2>2 DEF IInv, NoOvercommit
<1> QED BY <1>5, <1>6, <1>7, <1>8 DEF IInv

LEMMA ReadSpendingStep ==
    ASSUME IInv, NEW w \in Workers, ReadSpending(w) PROVE IInv'
<1> DEFINE u == work[w].user
<1>1. work[w].pc = "spending" /\ work[w] \in Job /\ u \in Users
  BY JobFields DEF ReadSpending, IInv
<1>2. PICK seen \in {spent[u], 0} :
        /\ \/ seen = spent[u] /\ UNCHANGED <<low, faults>>
           \/ seen = 0 /\ Fault /\ low' = [low EXCEPT ![u] = 0]
        /\ \/ Goto(w, [work[w] EXCEPT !.pc = "deploying", !.readSpent = seen])
           \/ \E r \in Reserves :
                Goto(w, [work[w] EXCEPT !.pc = "admit", !.readSpent = seen, !.reserve = r])
  BY DEF ReadSpending
<1>3. /\ seen \in Nat /\ low' \in [Users -> Nat] /\ low'[u] <= seen
      /\ \A x \in Users : low'[x] <= low[x] /\ low[x] \in Nat /\ low'[x] \in Nat /\ high[x] \in Int
      /\ work[w].readBalance <= high[u]
  <2>1. /\ spent[u] \in Nat /\ low \in [Users -> Nat] /\ high \in [Users -> Int]
        /\ low[u] <= spent[u] /\ work[w].readBalance <= high[u]
    BY <1>1 DEF IInv, TypeOK, MoneyInMarks, ReadsInMarks
  <2> HIDE DEF u
  <2>2. CASE seen = spent[u] /\ low' = low BY <2>1, <2>2, <1>1
  <2>3. CASE seen = 0 /\ low' = [low EXCEPT ![u] = 0] BY <2>1, <2>3, <1>1
  <2> QED BY <1>2, <2>2, <2>3
<1>4. faults' \in 0..MaxFaults BY <1>2, FaultStep
<1>5. /\ UNCHANGED <<money, high, pending>>
      /\ pending' \in [Users -> Nat] /\ grace' \in [Users -> BOOLEAN]
  BY DEF ReadSpending, guard, IInv, TypeOK
<1>6. NoOvercommit'
  <2>1. \A x \in Users : pending[x] \in Nat BY DEF IInv, TypeOK
  <2> HIDE DEF u
  <2> QED BY <1>3, <1>5, <2>1 DEF IInv, NoOvercommit
<1>7. CASE Goto(w, [work[w] EXCEPT !.pc = "deploying", !.readSpent = seen])
  <2> DEFINE job == [work[w] EXCEPT !.pc = "deploying", !.readSpent = seen]
  <2>1. job \in Job /\ job.pc = "deploying" /\ job.user = u
    BY <1>1, <1>3 DEF Job, DeployPc
  <2>2. Goto(w, job) BY <1>7
  <2> HIDE DEF job, u
  <2> QED BY <2>1, <2>2, <1>1, <1>3, <1>4, <1>5, <1>6, LowerStep
<1>8. ASSUME NEW r \in Reserves,
             Goto(w, [work[w] EXCEPT !.pc = "admit", !.readSpent = seen, !.reserve = r])
      PROVE  IInv'
  <2> DEFINE job == [work[w] EXCEPT !.pc = "admit", !.readSpent = seen, !.reserve = r]
  <2>1. /\ job \in Job /\ job.pc = "admit" /\ job.user = u
        /\ job.readBalance = work[w].readBalance /\ job.readSpent = seen
    BY <1>1, <1>3, MoneyAssumption DEF Job, DeployPc
  <2>2. Goto(w, job) BY <1>8
  <2> HIDE DEF job, u
  <2> QED BY <2>1, <2>2, <1>1, <1>3, <1>4, <1>5, <1>6, LowerStep
<1> QED BY <1>2, <1>7, <1>8

LEMMA ReadFailsStep == ASSUME IInv, NEW w \in Workers, ReadFails(w) PROVE IInv'
<1>1. Goto(w, Idle) /\ faults' \in 0..MaxFaults BY FaultStep DEF ReadFails
<1>2. /\ UNCHANGED <<money, marks, pending>>
      /\ pending' \in [Users -> Nat] /\ grace' \in [Users -> BOOLEAN]
  BY DEF ReadFails, guard, IInv, TypeOK
<1>3. NoOvercommit' BY <1>2, SameHeld DEF IInv
<1> QED BY <1>1, <1>2, <1>3, IdleJob, JobStep

\* The reserve fits into what the job read, less what is held: so into the marks.
LEMMA AdmitStep ==
    ASSUME IInv, NEW w \in Workers, Admit(w) PROVE IInv'
<1> DEFINE u == work[w].user
           job == [work[w] EXCEPT !.pc = "deploying"]
<1>1. /\ work[w] \in Job /\ u \in Users /\ work[w].pc = "admit"
      /\ work[w].readBalance \in Int /\ work[w].readSpent \in Nat /\ work[w].reserve \in Nat
  BY JobFields DEF Admit, IInv
<1>2. /\ pending \in [Users -> Nat] /\ high[u] \in Int /\ low[u] \in Nat
      /\ \A x \in Users : pending[x] \in Nat
  BY <1>1 DEF IInv, TypeOK
<1>3. work[w].readBalance <= high[u] /\ low[u] <= work[w].readSpent
  BY <1>1 DEF IInv, ReadsInMarks
<1>4. /\ pending' = [pending EXCEPT ![u] = pending[u] + work[w].reserve]
      /\ work[w].readBalance - work[w].readSpent - pending[u] >= work[w].reserve
      /\ UNCHANGED <<money, grace, marks, faults>>
      /\ Goto(w, job)
  BY DEF Admit, Available
<1>5. job \in Job /\ job.pc = "deploying" /\ job.user = u
  BY <1>1 DEF Job, DeployPc
<1> HIDE DEF u, job
<1>6. pending[u] + work[w].reserve \in Nat /\ pending[u] + work[w].reserve <= high[u] - low[u]
  BY <1>1, <1>2, <1>3, <1>4
<1>7. /\ pending' \in [Users -> Nat] /\ pending'[u] = pending[u] + work[w].reserve
      /\ \A x \in Users : x # u => pending'[x] = pending[x]
  BY <1>1, <1>2, <1>4, <1>6
<1>8. NoOvercommit' BY <1>4, <1>6, <1>7 DEF IInv, NoOvercommit, marks
<1>9. grace' \in [Users -> BOOLEAN] BY <1>4 DEF IInv, TypeOK
<1> QED BY <1>1, <1>4, <1>5, <1>7, <1>8, <1>9, FaultStep, JobStep

LEMMA RefuseStep ==
    ASSUME IInv, NEW w \in Workers, Refuse(w) PROVE IInv'
<1> DEFINE u == work[w].user
           bit == grace[u] \/ Available(work[w], pending[u]) <= 0
<1>1. u \in Users BY JobFields DEF Refuse, IInv
<1>2. bit \in BOOLEAN OBVIOUS
<1>3. /\ grace' = [grace EXCEPT ![u] = bit]
      /\ UNCHANGED <<money, pending, marks, faults>> /\ Goto(w, Idle)
  BY DEF Refuse
<1> HIDE DEF bit, u
<1>4. grace' \in [Users -> BOOLEAN] BY <1>1, <1>2, <1>3, UpdateInRange DEF IInv, TypeOK
<1>5. pending' \in [Users -> Nat] BY <1>3 DEF IInv, TypeOK
<1>6. NoOvercommit' BY <1>3, SameHeld DEF IInv
<1> QED BY <1>3, <1>4, <1>5, <1>6, IdleJob, FaultStep, JobStep

\* What is held can only get smaller.
LEMMA ReleaseStep ==
    ASSUME IInv, NEW w \in Workers, Release(w) PROVE IInv'
<1> DEFINE u == work[w].user
           left == pending[u] - work[w].reserve
           held == IF left <= 0 THEN 0 ELSE left
<1>1. /\ u \in Users /\ work[w].reserve \in Nat
  BY JobFields DEF Release, IInv
<1>2. pending \in [Users -> Nat] /\ \A x \in Users : pending[x] \in Nat
  BY DEF IInv, TypeOK
<1>3. held \in Nat /\ held <= pending[u] BY <1>1, <1>2
<1>4. /\ pending' = [pending EXCEPT ![u] = held]
      /\ UNCHANGED <<money, grace, marks, faults>> /\ Goto(w, Idle)
  BY DEF Release
<1> HIDE DEF held, left, u
<1>5. /\ pending' \in [Users -> Nat] /\ pending'[u] = held
      /\ \A x \in Users : x # u => pending'[x] = pending[x]
  BY <1>1, <1>2, <1>3, <1>4
<1>6. NoOvercommit'
  <2> SUFFICES ASSUME NEW x \in Users, pending'[x] > 0
               PROVE  pending'[x] <= high[x] - low[x]
    BY <1>4 DEF NoOvercommit, marks
  <2>1. pending'[x] <= pending[x] /\ pending[x] \in Nat /\ pending'[x] \in Nat
    BY <1>2, <1>3, <1>5
  <2>2. high[x] \in Int /\ low[x] \in Nat BY DEF IInv, TypeOK
  <2>3. pending[x] <= high[x] - low[x] BY <2>1 DEF IInv, NoOvercommit
  <2> QED BY <2>1, <2>2, <2>3
<1>7. grace' \in [Users -> BOOLEAN] BY <1>4 DEF IInv, TypeOK
<1> QED BY <1>4, <1>5, <1>6, <1>7, IdleJob, FaultStep, JobStep

LEMMA BeginEnforceStep ==
    ASSUME IInv, NEW w \in Workers, NEW u \in Users, BeginEnforce(w, u) PROVE IInv'
<1> DEFINE job == [Idle EXCEPT !.pc = "guardSpending", !.user = u, !.readBalance = balance[u]]
<1>1. job \in Job /\ job.pc = "guardSpending" /\ job.user = u
  BY DEF IInv, TypeOK, Idle, Job, Verdict, EnforcePc
<1>2. Goto(w, job) /\ UNCHANGED <<money, pending, grace, marks, faults>>
  BY DEF BeginEnforce, guard
<1> HIDE DEF job
<1>3. NoOvercommit' BY <1>2, SameHeld DEF IInv
<1>4. pending' \in [Users -> Nat] /\ grace' \in [Users -> BOOLEAN] BY <1>2 DEF IInv, TypeOK
<1> QED BY <1>1, <1>2, <1>3, <1>4, FaultStep, JobStep

LEMMA GuardSpendingStep ==
    ASSUME IInv, NEW w \in Workers, GuardSpending(w) PROVE IInv'
<1>1. work[w] \in Job /\ work[w].user \in Users BY JobFields DEF GuardSpending, IInv
<1>2. PICK seen \in {spent[work[w].user], 0} :
        /\ Fault \/ UNCHANGED faults
        /\ Goto(w, [work[w] EXCEPT !.pc = "judge", !.readSpent = seen])
  BY DEF GuardSpending
<1> DEFINE job == [work[w] EXCEPT !.pc = "judge", !.readSpent = seen]
<1>3. seen \in Nat BY <1>1 DEF IInv, TypeOK
<1>4. job \in Job /\ job.pc = "judge" /\ job.user = work[w].user
  BY <1>1, <1>3 DEF Job, EnforcePc
<1>5. Goto(w, job) /\ UNCHANGED <<money, pending, grace, marks>>
  BY <1>2 DEF GuardSpending, guard
<1> HIDE DEF job
<1>6. NoOvercommit' BY <1>5, SameHeld DEF IInv
<1>7. /\ pending' \in [Users -> Nat] /\ grace' \in [Users -> BOOLEAN]
      /\ faults' \in 0..MaxFaults
  BY <1>2, <1>5, FaultStep DEF IInv, TypeOK
<1> QED BY <1>1, <1>4, <1>5, <1>6, <1>7, JobStep

LEMMA JudgeStep ==
    ASSUME IInv, NEW w \in Workers, Judge(w) PROVE IInv'
<1> DEFINE u == work[w].user
           verdict == GuardVerdict(u, Available(work[w], pending[u]))
           job == [work[w] EXCEPT !.pc = "apply", !.verdict = verdict]
<1>1. work[w] \in Job /\ u \in Users BY JobFields DEF Judge, IInv
<1>2. verdict \in Verdict BY DEF GuardVerdict, Verdict
<1>3. Goto(w, job) /\ UNCHANGED <<money, pending, grace, marks, faults>>
  BY DEF Judge, guard
<1> HIDE DEF verdict
<1>4. job \in Job /\ job.pc = "apply" /\ job.user = u
  BY <1>1, <1>2 DEF Job, EnforcePc
<1> HIDE DEF job, u
<1>5. NoOvercommit' BY <1>3, SameHeld DEF IInv
<1>6. pending' \in [Users -> Nat] /\ grace' \in [Users -> BOOLEAN] BY <1>3 DEF IInv, TypeOK
<1> QED BY <1>1, <1>3, <1>4, <1>5, <1>6, FaultStep, JobStep

LEMMA ApplyStep ==
    ASSUME IInv, NEW w \in Workers, Apply(w) PROVE IInv'
<1> DEFINE u == work[w].user
           bit == CASE work[w].verdict = "clear" -> FALSE
                    [] work[w].verdict = "start" -> TRUE
                    [] OTHER -> grace[u]
<1>1. u \in Users BY JobFields DEF Apply, IInv
<1>2. grace[u] \in BOOLEAN BY <1>1 DEF IInv, TypeOK
<1>3. bit \in BOOLEAN BY <1>2
<1>4. /\ grace' = [grace EXCEPT ![u] = bit]
      /\ UNCHANGED <<money, pending, marks, faults>> /\ Goto(w, Idle)
  BY DEF Apply
<1> HIDE DEF bit, u
<1>5. grace' \in [Users -> BOOLEAN] BY <1>1, <1>3, <1>4, UpdateInRange DEF IInv, TypeOK
<1>6. pending' \in [Users -> Nat] BY <1>4 DEF IInv, TypeOK
<1>7. NoOvercommit' BY <1>4, SameHeld DEF IInv
<1> QED BY <1>4, <1>5, <1>6, <1>7, IdleJob, FaultStep, JobStep

LEMMA CrashStep ==
    ASSUME IInv, Crash PROVE IInv'
<1>1. /\ work' = [w \in Workers |-> Idle]
      /\ pending' = [u \in Users |-> 0] /\ grace' = [u \in Users |-> FALSE]
      /\ UNCHANGED <<money, marks>> /\ Fault
  BY DEF Crash
<1>2. \A w \in Workers : work'[w].pc = "idle" BY <1>1, IdleJob
<1>3. work' \in [Workers -> Job] BY <1>1, IdleJob
<1>4. faults' \in 0..MaxFaults BY <1>1, FaultStep
<1>5. TypeOK' BY <1>1, <1>2, <1>3, <1>4 DEF IInv, TypeOK, money, marks
<1>6. MoneyInMarks' BY <1>1 DEF IInv, MoneyInMarks, money, marks
<1>7. ReadsInMarks' BY <1>2 DEF ReadsInMarks
<1>8. NoOvercommit' BY <1>1 DEF NoOvercommit
<1> QED BY <1>5, <1>6, <1>7, <1>8 DEF IInv

LEMMA StutterStep ==
    ASSUME IInv, UNCHANGED vars PROVE IInv'
<1> USE DEF vars, money, guard, marks
<1>1. TypeOK' BY DEF IInv, TypeOK
<1>2. MoneyInMarks' /\ ReadsInMarks' BY DEF IInv, MoneyInMarks, ReadsInMarks
<1>3. NoOvercommit' BY SameHeld DEF IInv
<1> QED BY <1>1, <1>2, <1>3 DEF IInv

LEMMA Step == IInv /\ [Next]_vars => IInv'
<1> SUFFICES ASSUME IInv, [Next]_vars PROVE IInv' OBVIOUS
<1>1. CASE \E u \in Users : BalanceMoves(u) \/ SpendingMoves(u)
  BY <1>1, BalanceMovesStep, SpendingMovesStep
<1>2. CASE \E w \in Workers, u \in Users : BeginDeploy(w, u) \/ BeginEnforce(w, u)
  BY <1>2, BeginDeployStep, BeginEnforceStep
<1>3. CASE \E w \in Workers : DeployStep(w)
  BY <1>3, ReadSpendingStep, AdmitStep, RefuseStep, ReleaseStep DEF DeployStep
<1>7. CASE \E w \in Workers : ReadFails(w) BY <1>7, ReadFailsStep
<1>4. CASE \E w \in Workers : EnforceStep(w)
  BY <1>4, GuardSpendingStep, JudgeStep, ApplyStep DEF EnforceStep
<1>5. CASE Crash BY <1>5, CrashStep
<1>6. CASE UNCHANGED vars BY <1>6, StutterStep
<1> QED BY <1>1, <1>2, <1>3, <1>4, <1>5, <1>6, <1>7 DEF Next

LEMMA Invariance == Spec => []IInv
<1>1. Init => IInv BY Start
<1>2. IInv /\ [Next]_vars => IInv' BY Step
<1> QED BY <1>1, <1>2, PTL DEF Spec

-----------------------------------------------------------------------------
(* The theorems *)

\* Every variable of the billing guard keeps its type: in particular, what is held
\* back for a user never becomes negative, in whatever order reserves are released.
THEOREM TypeCorrect == Spec => []TypeOK
<1>1. IInv => TypeOK BY DEF IInv
<1> QED BY <1>1, Invariance, PTL

\* reserveDeployBudget: however many deploys run at once and however the money moves
\* between their reads and the lock, what is held back stays within the highest
\* balance less the lowest spending since the first of them asked.
THEOREM NeverOvercommitted == Spec => []NoOvercommit
<1>1. IInv => NoOvercommit BY DEF IInv
<1> QED BY <1>1, Invariance, PTL
-----------------------------------------------------------------------------
(* What is held adds up                                                    *)
(*                                                                         *)
(* The steps need two facts of a sum only: nothing adds up to 0, and a     *)
(* member adds its own reserve. That the library's sum over a set, which   *)
(* is defined by recursion, is such a sum is shown in the section after.   *)

Deploying(u) == {w \in Workers : work[w].user = u /\ work[w].pc = "deploying"}

\* sum adds up the reserves of jobs over any set that is made member by member.
Adds(sum, jobs) ==
    /\ sum \in [SUBSET Workers -> Nat]
    /\ sum[{}] = 0
    /\ \A S \in SUBSET Workers : \A w \in Workers \ S : sum[S \cup {w}] = sum[S] + jobs[w].reserve

HeldIs(sum) == \A u \in Users : pending[u] = sum[Deploying(u)]

ReservesAddUp == \E sum : Adds(sum, work) /\ HeldIs(sum)

\* Who has not read the spending yet has reserved nothing: so an exempt user's deploy
\* has nothing to release.
NoReserveYet == \A w \in Workers : work[w].pc = "spending" => work[w].reserve = 0

SumInv == IInv /\ ReservesAddUp /\ NoReserveYet

\* When one job changes there is again a sum, the same for every set without it.
LEMMA SumGoesOn ==
    ASSUME TypeOK', NEW w \in Workers, \A x \in Workers : x # w => work'[x] = work[x],
           NEW sum, Adds(sum, work)
    PROVE  \E after : /\ Adds(after, work')
                      /\ \A S \in SUBSET Workers : w \notin S => after[S] = sum[S]
<1> DEFINE r == work'[w].reserve
           after == [S \in SUBSET Workers |-> IF w \in S THEN sum[S \ {w}] + r ELSE sum[S]]
<1>1. r \in Nat BY DEF TypeOK, Job
<1>2. \A S \in SUBSET Workers : sum[S] \in Nat BY DEF Adds
<1> HIDE DEF r
<1>3. after \in [SUBSET Workers -> Nat]
  <2>1. \A S \in SUBSET Workers : S \ {w} \in SUBSET Workers OBVIOUS
  <2> QED BY <1>1, <1>2, <2>1
<1>4. after[{}] = 0 BY DEF Adds
<1>5. ASSUME NEW S \in SUBSET Workers, NEW x \in Workers \ S
      PROVE  after[S \cup {x}] = after[S] + work'[x].reserve
  <2>0. S \cup {x} \in SUBSET Workers OBVIOUS
  <2>1. CASE x = w
    <3>1. (S \cup {x}) \ {w} = S BY <2>1
    <3>2. after[S \cup {x}] = sum[S] + r /\ after[S] = sum[S] BY <2>0, <2>1, <3>1
    <3> QED BY <2>1, <3>2 DEF r
  <2>2. CASE x # w /\ w \in S
    <3>1. (S \cup {x}) \ {w} = (S \ {w}) \cup {x} BY <2>2
    <3>2. after[S \cup {x}] = sum[(S \ {w}) \cup {x}] + r /\ after[S] = sum[S \ {w}] + r
      BY <2>0, <2>2, <3>1
    <3>3. S \ {w} \in SUBSET Workers /\ x \in Workers \ (S \ {w}) OBVIOUS
    <3>4. sum[(S \ {w}) \cup {x}] = sum[S \ {w}] + work[x].reserve BY <3>3 DEF Adds
    <3>5. work'[x].reserve = work[x].reserve /\ work'[x].reserve \in Nat
      BY <2>2 DEF TypeOK, Job
    <3>6. sum[S \ {w}] \in Nat BY <1>2, <3>3
    <3> HIDE DEF after
    <3> QED BY <1>1, <3>2, <3>4, <3>5, <3>6
  <2>3. CASE x # w /\ w \notin S
    <3>1. after[S \cup {x}] = sum[S \cup {x}] /\ after[S] = sum[S] BY <2>0, <2>3
    <3>2. work'[x].reserve = work[x].reserve BY <2>3
    <3> QED BY <3>1, <3>2 DEF Adds
  <2> QED BY <2>1, <2>2, <2>3
<1>6. Adds(after, work') BY <1>3, <1>4, <1>5 DEF Adds
<1>7. \A S \in SUBSET Workers : w \notin S => after[S] = sum[S] OBVIOUS
<1> QED BY <1>6, <1>7

\* A goroutine that does not deploy, before or after, leaves what is held alone.
LEMMA AsideAddsUp ==
    ASSUME SumInv, TypeOK', NEW w \in Workers, \A x \in Workers : x # w => work'[x] = work[x],
           work[w].pc # "deploying", work'[w].pc # "deploying", UNCHANGED pending
    PROVE  ReservesAddUp'
<1>1. PICK sum : Adds(sum, work) /\ HeldIs(sum) BY DEF SumInv, ReservesAddUp
<1>2. PICK after : Adds(after, work') /\ \A S \in SUBSET Workers : w \notin S => after[S] = sum[S]
  BY <1>1, SumGoesOn
<1>3. \A u \in Users : /\ Deploying(u)' = Deploying(u) /\ w \notin Deploying(u)
                       /\ Deploying(u) \in SUBSET Workers
  BY DEF Deploying
<1>4. \A u \in Users : pending'[u] = after[Deploying(u)'] BY <1>1, <1>2, <1>3 DEF HeldIs
<1> QED BY <1>2, <1>4 DEF ReservesAddUp, HeldIs

\* A goroutine that begins to deploy adds its reserve.
LEMMA EnterAddsUp ==
    ASSUME SumInv, TypeOK', NEW w \in Workers, \A x \in Workers : x # w => work'[x] = work[x],
           work[w].pc # "deploying", work'[w].pc = "deploying",
           \A u \in Users : pending'[u] = pending[u] + (IF u = work'[w].user THEN work'[w].reserve ELSE 0)
    PROVE  ReservesAddUp'
<1>1. PICK sum : Adds(sum, work) /\ HeldIs(sum) BY DEF SumInv, ReservesAddUp
<1>2. PICK after : Adds(after, work') /\ \A S \in SUBSET Workers : w \notin S => after[S] = sum[S]
  BY <1>1, SumGoesOn
<1>3. ASSUME NEW u \in Users PROVE pending'[u] = after[Deploying(u)']
  <2>1. /\ w \notin Deploying(u) /\ Deploying(u) \in SUBSET Workers
        /\ after[Deploying(u)] = pending[u] /\ pending[u] \in Nat
    BY <1>1, <1>2 DEF Deploying, HeldIs, SumInv, IInv, TypeOK
  <2>2. CASE u = work'[w].user
    <3>1. Deploying(u)' = Deploying(u) \cup {w} BY <2>2 DEF Deploying
    <3>2. after[Deploying(u) \cup {w}] = after[Deploying(u)] + work'[w].reserve
      BY <1>2, <2>1 DEF Adds
    <3> QED BY <2>1, <2>2, <3>1, <3>2
  <2>3. CASE u # work'[w].user
    <3>1. Deploying(u)' = Deploying(u) BY <2>3 DEF Deploying
    <3> QED BY <2>1, <2>3, <3>1
  <2> QED BY <2>2, <2>3
<1> QED BY <1>2, <1>3 DEF ReservesAddUp, HeldIs

\* A deploy that returns takes away its own reserve, and there is never less.
LEMMA ReleaseAddsUp ==
    ASSUME SumInv, TypeOK', NEW w \in Workers, Release(w)
    PROVE  ReservesAddUp'
<1> DEFINE v == work[w].user
<1>0. work[w].pc = "deploying" /\ v \in Users /\ work[w].reserve \in Nat
  BY JobFields DEF Release, SumInv, IInv
<1>1. PICK sum : Adds(sum, work) /\ HeldIs(sum) BY DEF SumInv, ReservesAddUp
<1>2. work'[w] = Idle /\ \A x \in Workers : x # w => work'[x] = work[x]
  BY DEF Release, Goto, SumInv, IInv, TypeOK
<1>3. PICK after : Adds(after, work') /\ \A S \in SUBSET Workers : w \notin S => after[S] = sum[S]
  BY <1>1, <1>2, SumGoesOn
<1>4. /\ pending'[v] = IF pending[v] - work[w].reserve <= 0 THEN 0 ELSE pending[v] - work[w].reserve
      /\ \A u \in Users : u # v => pending'[u] = pending[u]
  BY <1>0 DEF Release, SumInv, IInv, TypeOK
<1>5. work'[w].pc # "deploying" BY <1>2, IdleJob
<1>6. ASSUME NEW u \in Users PROVE pending'[u] = after[Deploying(u)']
  <2>1. /\ Deploying(u)' = Deploying(u) \ {w} /\ Deploying(u) \ {w} \in SUBSET Workers
        /\ u # v => w \notin Deploying(u)
        /\ w \in Deploying(v)
    BY <1>0, <1>2, <1>5 DEF Deploying
  <2>2. after[Deploying(u)'] = sum[Deploying(u) \ {w}] BY <1>3, <2>1
  <2>3. CASE u = v
    <3>1. (Deploying(u) \ {w}) \cup {w} = Deploying(u) BY <2>1, <2>3
    <3>2. sum[Deploying(u)] = sum[Deploying(u) \ {w}] + work[w].reserve
      BY <1>1, <2>1, <3>1 DEF Adds
    <3>3. sum[Deploying(u) \ {w}] \in Nat BY <1>1, <2>1 DEF Adds
    <3>4. pending[u] = sum[Deploying(u)] BY <1>1 DEF HeldIs
    <3> QED BY <1>0, <1>4, <2>2, <2>3, <3>2, <3>3, <3>4
  <2>4. CASE u # v
    <3>1. Deploying(u) \ {w} = Deploying(u) BY <2>1, <2>4
    <3> QED BY <1>1, <1>4, <2>2, <2>4, <3>1 DEF HeldIs
  <2> QED BY <2>3, <2>4
<1> HIDE DEF v
<1> QED BY <1>3, <1>6 DEF ReservesAddUp, HeldIs

LEMMA NothingAdds == Adds([S \in SUBSET Workers |-> 0], [w \in Workers |-> Idle])
BY DEF Adds, Idle

\* What a goroutine goes on with, for the steps of one goroutine.
LEMMA WorkStep ==
    ASSUME IInv, NEW w \in Workers, NEW job, Goto(w, job)
    PROVE  work'[w] = job /\ \A x \in Workers : x # w => work'[x] = work[x]
BY DEF Goto, IInv, TypeOK

LEMMA ReadSpendingSum ==
    ASSUME SumInv, TypeOK', NEW w \in Workers, ReadSpending(w)
    PROVE  ReservesAddUp' /\ NoReserveYet'
<1>1. work[w].pc = "spending" /\ work[w] \in Job /\ work[w].user \in Users /\ work[w].reserve = 0
  BY JobFields DEF ReadSpending, SumInv, IInv, NoReserveYet
<1>2. pending' = pending /\ \A x \in Users : pending[x] \in Nat
  BY DEF ReadSpending, guard, SumInv, IInv, TypeOK
<1>3. ASSUME NEW seen, Goto(w, [work[w] EXCEPT !.pc = "deploying", !.readSpent = seen])
      PROVE  ReservesAddUp' /\ NoReserveYet'
  <2> DEFINE job == [work[w] EXCEPT !.pc = "deploying", !.readSpent = seen]
  <2>1. job.pc = "deploying" /\ job.reserve = 0 BY <1>1 DEF Job
  <2>2. work'[w] = job /\ \A x \in Workers : x # w => work'[x] = work[x]
    BY <1>3, WorkStep DEF SumInv
  <2> HIDE DEF job
  <2>3. ReservesAddUp' BY <1>1, <1>2, <2>1, <2>2, EnterAddsUp
  <2> QED BY <2>1, <2>2, <2>3 DEF SumInv, NoReserveYet
<1>4. ASSUME NEW seen, NEW r \in Reserves,
             Goto(w, [work[w] EXCEPT !.pc = "admit", !.readSpent = seen, !.reserve = r])
      PROVE  ReservesAddUp' /\ NoReserveYet'
  <2> DEFINE job == [work[w] EXCEPT !.pc = "admit", !.readSpent = seen, !.reserve = r]
  <2>1. job.pc = "admit" BY <1>1 DEF Job
  <2>2. work'[w] = job /\ \A x \in Workers : x # w => work'[x] = work[x]
    BY <1>4, WorkStep DEF SumInv
  <2> HIDE DEF job
  <2>3. ReservesAddUp' BY <1>1, <1>2, <2>1, <2>2, AsideAddsUp
  <2> QED BY <2>1, <2>2, <2>3 DEF SumInv, NoReserveYet
<1> QED BY <1>3, <1>4 DEF ReadSpending

LEMMA AdmitSum ==
    ASSUME SumInv, TypeOK', NEW w \in Workers, Admit(w)
    PROVE  ReservesAddUp' /\ NoReserveYet'
<1> DEFINE u == work[w].user
           job == [work[w] EXCEPT !.pc = "deploying"]
<1>1. work[w].pc = "admit" /\ work[w] \in Job /\ u \in Users /\ work[w].reserve \in Nat
  BY JobFields DEF Admit, SumInv, IInv
<1>2. job.pc = "deploying" /\ job.reserve = work[w].reserve /\ job.user = u BY <1>1 DEF Job
<1>3. work'[w] = job /\ \A x \in Workers : x # w => work'[x] = work[x]
  BY WorkStep DEF Admit, SumInv
<1>4. /\ pending'[u] = pending[u] + work[w].reserve
      /\ \A x \in Users : pending[x] \in Nat /\ (x # u => pending'[x] = pending[x])
  BY <1>1 DEF Admit, SumInv, IInv, TypeOK
<1> HIDE DEF job, u
<1>5. ReservesAddUp' BY <1>1, <1>2, <1>3, <1>4, EnterAddsUp
<1> QED BY <1>2, <1>3, <1>5 DEF SumInv, NoReserveYet

\* Requests that begin, are refused, and everything a check does.
LEMMA AsideSum ==
    ASSUME SumInv, TypeOK', NEW w \in Workers, NEW job, Goto(w, job), UNCHANGED pending,
           work[w].pc # "deploying", job.pc # "deploying", job.pc = "spending" => job.reserve = 0
    PROVE  ReservesAddUp' /\ NoReserveYet'
<1>1. work'[w] = job /\ \A x \in Workers : x # w => work'[x] = work[x] BY WorkStep DEF SumInv
<1>2. ReservesAddUp' BY <1>1, AsideAddsUp
<1> QED BY <1>1, <1>2 DEF SumInv, NoReserveYet

LEMMA BeginSum ==
    ASSUME SumInv, TypeOK', NEW w \in Workers, NEW u \in Users, BeginDeploy(w, u) \/ BeginEnforce(w, u)
    PROVE  ReservesAddUp' /\ NoReserveYet'
<1>1. work[w].pc = "idle" /\ UNCHANGED pending BY DEF BeginDeploy, BeginEnforce, guard
<1>2. ASSUME NEW pc \in {"spending", "guardSpending"},
             Goto(w, [Idle EXCEPT !.pc = pc, !.user = u, !.readBalance = balance[u]])
      PROVE  ReservesAddUp' /\ NoReserveYet'
  <2> DEFINE job == [Idle EXCEPT !.pc = pc, !.user = u, !.readBalance = balance[u]]
  <2>1. job.pc = pc /\ job.reserve = 0 BY DEF Idle
  <2> HIDE DEF job
  <2> QED BY <1>1, <1>2, <2>1, AsideSum DEF job
<1> QED BY <1>2 DEF BeginDeploy, BeginEnforce

LEMMA EnforceSum ==
    ASSUME SumInv, TypeOK', NEW w \in Workers, Refuse(w) \/ EnforceStep(w) \/ ReadFails(w)
    PROVE  ReservesAddUp' /\ NoReserveYet'
<1>1. work[w] \in Job BY JobFields DEF SumInv, IInv
<1>2. CASE Refuse(w) \/ Apply(w) \/ ReadFails(w)
  BY <1>2, AsideSum, IdleJob DEF Refuse, Apply, ReadFails, guard
<1>3. CASE GuardSpending(w)
  <2> PICK seen : Goto(w, [work[w] EXCEPT !.pc = "judge", !.readSpent = seen]) BY <1>3 DEF GuardSpending
  <2> DEFINE job == [work[w] EXCEPT !.pc = "judge", !.readSpent = seen]
  <2>1. job.pc = "judge" BY <1>1 DEF Job
  <2>2. Goto(w, job) /\ work[w].pc = "guardSpending" /\ UNCHANGED pending
    BY <1>3 DEF GuardSpending, guard
  <2> HIDE DEF job
  <2> QED BY <2>1, <2>2, AsideSum
<1>4. CASE Judge(w)
  <2> DEFINE job == [work[w] EXCEPT !.pc = "apply",
                         !.verdict = GuardVerdict(work[w].user, Available(work[w], pending[work[w].user]))]
  <2>1. job.pc = "apply" BY <1>1 DEF Job
  <2>2. Goto(w, job) /\ work[w].pc = "judge" /\ UNCHANGED pending BY <1>4 DEF Judge, guard
  <2> HIDE DEF job
  <2> QED BY <2>1, <2>2, AsideSum
<1> QED BY <1>2, <1>3, <1>4 DEF EnforceStep

LEMMA ReleaseSum ==
    ASSUME SumInv, TypeOK', NEW w \in Workers, Release(w)
    PROVE  ReservesAddUp' /\ NoReserveYet'
<1>1. work'[w] = Idle /\ \A x \in Workers : x # w => work'[x] = work[x]
  BY WorkStep DEF Release, SumInv
<1>2. NoReserveYet' BY <1>1, IdleJob DEF SumInv, NoReserveYet
<1> QED BY <1>2, ReleaseAddsUp

LEMMA NextSum == SumInv /\ [Next]_vars => SumInv'
<1> SUFFICES ASSUME SumInv, [Next]_vars PROVE SumInv' OBVIOUS
<1>1. IInv' /\ TypeOK' BY Step DEF SumInv, IInv
<1>2. ASSUME UNCHANGED <<work, pending>> PROVE ReservesAddUp' /\ NoReserveYet'
  <2>1. PICK sum : Adds(sum, work) /\ HeldIs(sum) BY DEF SumInv, ReservesAddUp
  <2>2. Adds(sum, work') /\ \A u \in Users : pending'[u] = sum[Deploying(u)']
    BY <1>2, <2>1 DEF HeldIs, Deploying
  <2> QED BY <1>2, <2>2 DEF ReservesAddUp, HeldIs, SumInv, NoReserveYet
<1>3. CASE UNCHANGED vars \/ \E u \in Users : BalanceMoves(u) \/ SpendingMoves(u)
  BY <1>1, <1>2, <1>3 DEF vars, BalanceMoves, SpendingMoves, guard, SumInv
<1>4. ASSUME NEW w \in Workers, NEW u \in Users, BeginDeploy(w, u) \/ BeginEnforce(w, u) PROVE SumInv'
  BY <1>1, <1>4, BeginSum DEF SumInv
<1>5. ASSUME NEW w \in Workers, DeployStep(w) \/ EnforceStep(w) \/ ReadFails(w) PROVE SumInv'
  BY <1>1, <1>5, ReadSpendingSum, AdmitSum, EnforceSum, ReleaseSum DEF DeployStep, SumInv
<1>6. CASE Crash
  <2>1. work' = [w \in Workers |-> Idle] /\ pending' = [u \in Users |-> 0] BY <1>6 DEF Crash
  <2> DEFINE sum == [S \in SUBSET Workers |-> 0]
  <2>2. Adds(sum, work') BY <2>1, NothingAdds
  <2>3. \A u \in Users : Deploying(u)' \in SUBSET Workers BY DEF Deploying
  <2>4. \A u \in Users : pending'[u] = sum[Deploying(u)'] BY <2>1, <2>3
  <2>5. NoReserveYet' BY <2>1, IdleJob DEF NoReserveYet
  <2> HIDE DEF sum
  <2> QED BY <1>1, <2>2, <2>4, <2>5 DEF SumInv, ReservesAddUp, HeldIs
<1> QED BY <1>3, <1>4, <1>5, <1>6 DEF Next

\* reserveDeployBudget and its release: what is held back for a user is what the
\* deploys in progress were admitted with. No reserve outlives its deploy, and none is
\* released twice.
THEOREM HeldAddsUp == Spec => []ReservesAddUp
<1>1. Init => SumInv
  <2> SUFFICES ASSUME Init PROVE SumInv OBVIOUS
  <2>1. work = [w \in Workers |-> Idle] /\ pending = [u \in Users |-> 0] BY DEF Init
  <2> DEFINE sum == [S \in SUBSET Workers |-> 0]
  <2>2. Adds(sum, work) BY <2>1, NothingAdds
  <2>3. \A u \in Users : Deploying(u) \in SUBSET Workers BY DEF Deploying
  <2>4. HeldIs(sum) BY <2>1, <2>3 DEF HeldIs
  <2>5. NoReserveYet BY <2>1, IdleJob DEF NoReserveYet
  <2> HIDE DEF sum
  <2> QED BY <2>2, <2>4, <2>5, Start DEF SumInv, ReservesAddUp
<1>2. SumInv => ReservesAddUp BY DEF SumInv
<1> QED BY <1>1, <1>2, NextSum, PTL DEF Spec

\* When none of a user's deploys is in progress, nothing is held back for the user.
THEOREM NothingHeldAfterwards ==
    Spec => [](\A u \in Users : Deploying(u) = {} => pending[u] = 0)
<1>1. ReservesAddUp => \A u \in Users : Deploying(u) = {} => pending[u] = 0
  BY DEF ReservesAddUp, HeldIs, Adds
<1> QED BY <1>1, HeldAddsUp, PTL

-----------------------------------------------------------------------------
(* The library's sum is such a function                                    *)
(*                                                                         *)
(* Its recursive function is chosen among those that satisfy an equation.  *)
(* The sum the steps carry along satisfies it, and no other one does.      *)

\* sum satisfies the equation by which the library adds up fun over the parts of S.
FoldsUp(sum, fun, S) ==
    sum = [T \in SUBSET S |->
              IF T = {} THEN 0
              ELSE fun[CHOOSE x \in T : TRUE] + sum[T \ {CHOOSE x \in T : TRUE}]]

LEMMA SumUnfolded ==
    ASSUME NEW fun, NEW S
    PROVE  SumFunctionOnSet(fun, S) = (CHOOSE sum : FoldsUp(sum, fun, S))[S]
BY DEF SumFunctionOnSet, FoldFunctionOnSet, MapThenFoldSet, FoldsUp

\* Only one function satisfies it when S is finite: a smallest part for which two
\* differ would have a part without its chosen element for which they already do.
LEMMA FoldsUpOnce ==
    ASSUME NEW S, IsFiniteSet(S), NEW fun,
           NEW f, FoldsUp(f, fun, S), NEW g, FoldsUp(g, fun, S)
    PROVE  f[S] = g[S]
<1> DEFINE Bad == {T \in SUBSET S : f[T] # g[T]}
<1>1. SUFFICES ASSUME Bad # {} PROVE FALSE OBVIOUS
<1>2. IsWellFoundedOn(StrictSubsetOrdering(S), SUBSET S)
  BY FS_StrictSubsetOrderingWellFounded, FS_FiniteSubsetsOfFinite
<1>3. PICK T \in Bad : \A U \in Bad : ~ (<<U, T>> \in StrictSubsetOrdering(S))
  <2>1. Bad \subseteq SUBSET S OBVIOUS
  <2> HIDE DEF Bad
  <2> QED BY <1>1, <1>2, <2>1, WFMin
<1> DEFINE x == CHOOSE y \in T : TRUE
<1>4. T \in SUBSET S /\ f[T] # g[T] OBVIOUS
<1>5. /\ f[T] = IF T = {} THEN 0 ELSE fun[x] + f[T \ {x}]
      /\ g[T] = IF T = {} THEN 0 ELSE fun[x] + g[T \ {x}]
  BY <1>4 DEF FoldsUp
<1>6. T # {} /\ f[T \ {x}] # g[T \ {x}] BY <1>4, <1>5
<1>7. x \in T BY <1>6
<1>8. T \ {x} \in Bad BY <1>4, <1>6
<1>9. <<T \ {x}, T>> \in StrictSubsetOrdering(S) BY <1>4, <1>7 DEF StrictSubsetOrdering
<1> QED BY <1>3, <1>8, <1>9

\* A function to which each goroutine adds its reserve satisfies it.
LEMMA AddsFoldsUp ==
    ASSUME NEW jobs \in [Workers -> Job], NEW sum, Adds(sum, jobs), NEW S \in SUBSET Workers
    PROVE  FoldsUp([T \in SUBSET S |-> sum[T]], [w \in Workers |-> jobs[w].reserve], S)
<1> DEFINE fun  == [w \in Workers |-> jobs[w].reserve]
           part == [T \in SUBSET S |-> sum[T]]
<1>1. ASSUME NEW T \in SUBSET S, T # {}, NEW x \in T
      PROVE  sum[T] = fun[x] + part[T \ {x}]
  <2>1. (T \ {x}) \cup {x} = T /\ T \ {x} \in SUBSET Workers /\ x \in Workers \ (T \ {x})
    OBVIOUS
  <2>2. sum[(T \ {x}) \cup {x}] = sum[T \ {x}] + jobs[x].reserve BY <2>1 DEF Adds
  <2>3. sum[T] = sum[T \ {x}] + jobs[x].reserve BY <2>1, <2>2
  <2>4. sum[T \ {x}] \in Nat /\ jobs[x].reserve \in Nat BY <2>1 DEF Adds, Job
  <2>5. fun[x] = jobs[x].reserve /\ part[T \ {x}] = sum[T \ {x}] BY <2>1
  <2>6. sum[T] = jobs[x].reserve + sum[T \ {x}] BY <2>3, <2>4
  <2> QED BY <2>5, <2>6
<1>2. sum[{}] = 0 BY DEF Adds
<1>3. ASSUME NEW T \in SUBSET S
      PROVE  sum[T] = IF T = {} THEN 0
                      ELSE fun[CHOOSE x \in T : TRUE] + part[T \ {CHOOSE x \in T : TRUE}]
  <2>1. CASE T = {} BY <1>2, <2>1
  <2>2. CASE T # {}
    <3>1. (CHOOSE x \in T : TRUE) \in T BY <2>2
    <3> HIDE DEF fun, part
    <3> QED BY <1>1, <2>2, <3>1
  <2> QED BY <2>1, <2>2
<1> QED BY <1>3 DEF FoldsUp

\* So the library's sum over a finite set is the value of any such function.
LEMMA SumIsWhatAdds ==
    ASSUME NEW jobs \in [Workers -> Job], NEW sum, Adds(sum, jobs),
           NEW S \in SUBSET Workers, IsFiniteSet(S)
    PROVE  SumFunctionOnSet([w \in Workers |-> jobs[w].reserve], S) = sum[S]
<1> DEFINE fun    == [w \in Workers |-> jobs[w].reserve]
           part   == [T \in SUBSET S |-> sum[T]]
           folded == CHOOSE f : FoldsUp(f, fun, S)
<1>1. FoldsUp(part, fun, S) BY AddsFoldsUp
<1>2. part[S] = sum[S] OBVIOUS
<1> HIDE DEF fun, part
<1>3. FoldsUp(folded, fun, S) BY <1>1
<1> HIDE DEF folded
<1>4. folded[S] = part[S] BY <1>1, <1>3, FoldsUpOnce
<1>5. SumFunctionOnSet(fun, S) = folded[S] BY SumUnfolded DEF folded
<1> QED BY <1>2, <1>4, <1>5 DEF fun

-----------------------------------------------------------------------------
(* Finitely many deploys are in progress, however many goroutines there may be *)

Busy == {w \in Workers : work[w].pc = "deploying"}

FinitelyMany == IsFiniteSet(Busy)

LEMMA OneMore ==
    ASSUME NEW A, IsFiniteSet(A), NEW B, NEW w, B \subseteq A \cup {w}
    PROVE  IsFiniteSet(B)
BY FS_AddElement, FS_Subset

LEMMA GotoFinite ==
    ASSUME IInv, FinitelyMany, NEW w \in Workers, NEW job, Goto(w, job)
    PROVE  FinitelyMany'
<1>1. Busy' \subseteq Busy \cup {w} BY WorkStep DEF Busy
<1>2. PICK A : A = Busy /\ IsFiniteSet(A) BY DEF FinitelyMany
<1>3. PICK B : B = Busy' OBVIOUS
<1> QED BY <1>1, <1>2, <1>3, OneMore DEF FinitelyMany

LEMMA NextFinite == IInv /\ FinitelyMany /\ [Next]_vars => FinitelyMany'
<1> SUFFICES ASSUME IInv, FinitelyMany, [Next]_vars PROVE FinitelyMany' OBVIOUS
<1>1. CASE UNCHANGED work BY <1>1 DEF FinitelyMany, Busy
<1>2. ASSUME NEW w \in Workers, NEW u \in Users, BeginDeploy(w, u) \/ BeginEnforce(w, u)
      PROVE  FinitelyMany'
  BY <1>2, GotoFinite DEF BeginDeploy, BeginEnforce
<1>3. ASSUME NEW w \in Workers, DeployStep(w) \/ EnforceStep(w) \/ ReadFails(w) PROVE FinitelyMany'
  <2>1. CASE ReadSpending(w) BY <2>1, GotoFinite DEF ReadSpending
  <2>2. CASE Admit(w) \/ Refuse(w) \/ Release(w) BY <2>2, GotoFinite DEF Admit, Refuse, Release
  <2>3. CASE EnforceStep(w) \/ ReadFails(w)
    BY <2>3, GotoFinite DEF EnforceStep, GuardSpending, Judge, Apply, ReadFails
  <2> QED BY <1>3, <2>1, <2>2, <2>3 DEF DeployStep
<1>4. CASE Crash
  <2>1. Busy' = {} BY <1>4, IdleJob DEF Crash, Busy
  <2> QED BY <2>1, FS_EmptySet DEF FinitelyMany
<1>5. CASE UNCHANGED vars \/ \E u \in Users : BalanceMoves(u) \/ SpendingMoves(u)
  BY <1>1, <1>5 DEF vars, BalanceMoves, SpendingMoves
<1> QED BY <1>2, <1>3, <1>4, <1>5 DEF Next

\* reserveDeployBudget and its release, in the words of the property: what is held back
\* for a user is the sum of the reserves of the user's deploys in progress.
THEOREM PendingIsTheSum == Spec => []PendingIsReserved
<1>1. Init => FinitelyMany
  <2> SUFFICES ASSUME Init PROVE FinitelyMany OBVIOUS
  <2>1. Busy = {} BY IdleJob DEF Init, Busy
  <2> QED BY <2>1, FS_EmptySet DEF FinitelyMany
<1>2. IInv /\ FinitelyMany /\ ReservesAddUp => PendingIsReserved
  <2> SUFFICES ASSUME IInv, FinitelyMany, ReservesAddUp, NEW u \in Users
               PROVE  pending[u] = SumFunctionOnSet([w \in Workers |-> work[w].reserve],
                                                    {w \in DeploysOf(u) : work[w].pc = "deploying"})
    BY DEF PendingIsReserved
  <2>1. PICK sum : Adds(sum, work) /\ HeldIs(sum) BY DEF ReservesAddUp
  <2>2. {w \in DeploysOf(u) : work[w].pc = "deploying"} = Deploying(u)
    BY DEF DeploysOf, Deploying, DeployPc
  <2>3. Deploying(u) \in SUBSET Workers /\ Deploying(u) \subseteq Busy BY DEF Deploying, Busy
  <2>4. IsFiniteSet(Deploying(u)) BY <2>3, FS_Subset DEF FinitelyMany
  <2>5. work \in [Workers -> Job] BY DEF IInv, TypeOK
  <2>6. SumFunctionOnSet([w \in Workers |-> work[w].reserve], Deploying(u)) = sum[Deploying(u)]
    BY <2>1, <2>3, <2>4, <2>5, SumIsWhatAdds
  <2>7. pending[u] = sum[Deploying(u)] BY <2>1 DEF HeldIs
  <2> QED BY <2>2, <2>6, <2>7
<1> QED BY <1>1, <1>2, NextFinite, Start, Step, HeldAddsUp, PTL DEF Spec
=============================================================================
