---------------------------- MODULE DeployBudget ----------------------------
(***************************************************************************)
(* Money held back for deploys in progress, and the grace period, in       *)
(* deploy-service's billing guard.                                         *)
(*                                                                         *)
(* billingGuardMu protects the two in-memory maps and nothing else: the    *)
(* balance and the month's spending are read from the stores before the    *)
(* lock is taken, each at its own time. Metering, top-ups, the turn of the *)
(* month and other requests move all of them in between.                   *)
(*                                                                         *)
(* Money is in whole units. Refunds are left out: nothing creates one.     *)
(***************************************************************************)
EXTENDS Integers, FiniteSets, Functions

CONSTANTS
    Users,
    Requests,    \* goroutines serving bootstrap, rollback and billing requests
    Loop,        \* the goroutine of runBillingGuard
    NoUser,      \* the user of an idle goroutine
    Exempt,      \* users the guard leaves alone
    Balances,    \* values of a balance
    Spends,      \* values of a month's spending
    Reserves,    \* what estimateRequiredDeployReserve may answer
    MaxFaults    \* bound: restarts of the process and reads that fail

Workers == Requests \cup {Loop}

ASSUME UsersAssumption == NoUser \notin Users /\ Exempt \subseteq Users
ASSUME MoneyAssumption == Balances \subseteq Int /\ Spends \subseteq Nat /\ Reserves \subseteq Nat \ {0}
ASSUME FaultAssumption == MaxFaults \in Nat

VARIABLES
    balance,    \* users.balance_rub
    spent,      \* the month's cost of the user's projects, as GetProjectCost adds it up
    pending,    \* pendingCharges; 0 stands for no entry
    grace,      \* graceStartedAt has an entry
    work,       \* where each goroutine is, and what it has read
    high, low,  \* history: see Quiet
    faults

money == <<balance, spent>>
guard == <<pending, grace>>
marks == <<high, low>>
vars  == <<balance, spent, pending, grace, work, high, low, faults>>

-----------------------------------------------------------------------------
(* Data *)

DeployPc  == {"spending", "admit", "deploying"}
EnforcePc == {"guardSpending", "judge", "apply"}
Verdict   == {"none", "clear", "start"}

\* readBalance and readSpent are the billingSnapshot of the call.
Job  == [pc : {"idle"} \cup DeployPc \cup EnforcePc, user : Users \cup {NoUser},
         readBalance : Int, readSpent : Nat, reserve : Nat, verdict : Verdict]
Idle == [pc |-> "idle", user |-> NoUser,
         readBalance |-> 0, readSpent |-> 0, reserve |-> 0, verdict |-> "none"]

TypeOK ==
    /\ balance \in [Users -> Int]
    /\ spent \in [Users -> Nat]
    /\ pending \in [Users -> Nat]
    /\ grace \in [Users -> BOOLEAN]
    /\ work \in [Workers -> Job]
    /\ \A w \in Workers : work[w].pc # "idle" => work[w].user \in Users
    /\ high \in [Users -> Int]
    /\ low \in [Users -> Nat]
    /\ faults \in 0..MaxFaults

Init ==
    /\ balance \in [Users -> Balances]
    /\ spent = [u \in Users |-> 0]
    /\ pending = [u \in Users |-> 0]
    /\ grace = [u \in Users |-> FALSE]
    /\ work = [w \in Workers |-> Idle]
    /\ high = balance
    /\ low = spent
    /\ faults = 0

DeploysOf(u) == {w \in Workers : work[w].user = u /\ work[w].pc \in DeployPc}

\* Nothing is held back for u and nobody asks for a deploy. Since it was last like
\* this, high is the highest balance u has had, and low the lowest spending u has had
\* or was taken to have: each of a moment of its own.
Quiet(u) == pending[u] = 0 /\ DeploysOf(u) = {}

Goto(w, job)     == work' = [work EXCEPT ![w] = job]
Available(job, held) == job.readBalance - job.readSpent - held

Fault == faults < MaxFaults /\ faults' = faults + 1

-----------------------------------------------------------------------------
(* The world outside: metering, top-ups, the turn of the month *)

BalanceMoves(u) ==
    \E b \in Balances :
        /\ b # balance[u]
        /\ balance' = [balance EXCEPT ![u] = b]
        /\ high' = [high EXCEPT ![u] = IF b > high[u] THEN b ELSE high[u]]
        /\ UNCHANGED <<spent, guard, work, low, faults>>

SpendingMoves(u) ==
    \E s \in Spends :
        /\ s # spent[u]
        /\ spent' = [spent EXCEPT ![u] = s]
        /\ low' = [low EXCEPT ![u] = IF s < low[u] THEN s ELSE low[u]]
        /\ UNCHANGED <<balance, guard, work, high, faults>>

-----------------------------------------------------------------------------
(* reserveDeployBudget, the deploy it is for, and the release of the reserve *)

\* BootstrapGitHubFlow or RollbackToRelease asks: the user's balance is read.
BeginDeploy(w, u) ==
    /\ w \in Requests /\ work[w].pc = "idle"
    /\ Goto(w, [Idle EXCEPT !.pc = "spending", !.user = u, !.readBalance = balance[u]])
    /\ high' = [high EXCEPT ![u] = IF Quiet(u) THEN balance[u] ELSE high[u]]
    /\ low' = [low EXCEPT ![u] = IF Quiet(u) THEN spent[u] ELSE low[u]]
    /\ UNCHANGED <<money, guard, faults>>

\* The spending is read and the reserve is estimated. When the projects cannot be
\* listed nothing counts as spent. An exempt user's deploy goes ahead without a reserve.
ReadSpending(w) ==
    LET u == work[w].user IN
    /\ work[w].pc = "spending"
    /\ \E seen \in {spent[u], 0} :
          /\ \/ seen = spent[u] /\ UNCHANGED <<low, faults>>
             \/ seen = 0 /\ Fault /\ low' = [low EXCEPT ![u] = 0]
          /\ \/ /\ u \in Exempt
                /\ Goto(w, [work[w] EXCEPT !.pc = "deploying", !.readSpent = seen])
             \/ /\ u \notin Exempt
                /\ \E r \in Reserves :
                      Goto(w, [work[w] EXCEPT !.pc = "admit", !.readSpent = seen, !.reserve = r])
    /\ UNCHANGED <<money, guard, high>>

\* loadBillingSnapshot: what was spent cannot be found out, and the deploy is refused
\* or the check ends. (A user who cannot be read at all never gets that far.)
ReadFails(w) ==
    /\ work[w].pc \in {"spending", "guardSpending"}
    /\ Fault /\ Goto(w, Idle)
    /\ UNCHANGED <<money, guard, marks>>

\* Mutant: what other deploys hold back is not subtracted.
AdmitAlone(w) ==
    LET u == work[w].user IN
    /\ work[w].pc = "admit"
    /\ Available(work[w], 0) >= work[w].reserve
    /\ pending' = [pending EXCEPT ![u] = pending[u] + work[w].reserve]
    /\ Goto(w, [work[w] EXCEPT !.pc = "deploying"])
    /\ UNCHANGED <<money, grace, marks, faults>>

\* Under the lock: enough is available, and the reserve is added to what is held.
Admit(w) ==
    LET u == work[w].user IN
    /\ work[w].pc = "admit"
    /\ Available(work[w], pending[u]) >= work[w].reserve
    /\ pending' = [pending EXCEPT ![u] = pending[u] + work[w].reserve]
    /\ Goto(w, [work[w] EXCEPT !.pc = "deploying"])
    /\ UNCHANGED <<money, grace, marks, faults>>

\* Mutant: the reserve is released although none was made.
RefuseReleasing(w) ==
    LET u == work[w].user IN
    /\ work[w].pc = "admit"
    /\ Available(work[w], pending[u]) < work[w].reserve
    /\ pending' = [pending EXCEPT ![u] = pending[u] - work[w].reserve]
    /\ Goto(w, Idle)
    /\ UNCHANGED <<money, grace, marks, faults>>

\* Under the lock: not enough; when nothing at all is available a grace period starts.
Refuse(w) ==
    LET u == work[w].user IN
    /\ work[w].pc = "admit"
    /\ Available(work[w], pending[u]) < work[w].reserve
    /\ grace' = [grace EXCEPT ![u] = grace[u] \/ Available(work[w], pending[u]) <= 0]
    /\ Goto(w, Idle)
    /\ UNCHANGED <<money, pending, marks, faults>>

\* Mutant: the entry is deleted whatever is left of it.
ReleaseAll(w) ==
    LET u == work[w].user IN
    /\ work[w].pc = "deploying"
    /\ pending' = [pending EXCEPT ![u] = 0]
    /\ Goto(w, Idle)
    /\ UNCHANGED <<money, grace, marks, faults>>

\* The deploy returns, whether it went well or not, and its reserve is released.
Release(w) ==
    LET u == work[w].user left == pending[u] - work[w].reserve IN
    /\ work[w].pc = "deploying"
    /\ pending' = [pending EXCEPT ![u] = IF left <= 0 THEN 0 ELSE left]
    /\ Goto(w, Idle)
    /\ UNCHANGED <<money, grace, marks, faults>>

-----------------------------------------------------------------------------
(* EnforceBillingGuard: by the loop for every user, and by GET /billing *)

\* The loop comes to every user: each owns a project here that is not deleted.
BeginEnforce(w, u) ==
    /\ work[w].pc = "idle"
    /\ Goto(w, [Idle EXCEPT !.pc = "guardSpending", !.user = u, !.readBalance = balance[u]])
    /\ UNCHANGED <<money, guard, marks, faults>>

\* Here too, nothing counts as spent when the projects cannot be listed.
GuardSpending(w) ==
    /\ work[w].pc = "guardSpending"
    /\ \E seen \in {spent[work[w].user], 0} :
          /\ \/ seen = spent[work[w].user] /\ UNCHANGED faults
             \/ seen = 0 /\ Fault
          /\ Goto(w, [work[w] EXCEPT !.pc = "judge", !.readSpent = seen])
    /\ UNCHANGED <<money, guard, marks>>

\* Mutant: money is not looked at once a grace period runs.
VerdictOnceInGrace(u, available) ==
    IF u \in Exempt THEN "clear"
    ELSE IF grace[u] THEN "none"
    ELSE IF available > 0 THEN "clear" ELSE "start"

\* evaluateBillingGuard, as far as the grace period goes.
GuardVerdict(u, available) ==
    IF u \in Exempt \/ available > 0 THEN "clear"
    ELSE IF grace[u] THEN "none" ELSE "start"

\* Under the lock: what is held and whether a grace period runs are read; the
\* decision is taken from them after the lock is given back.
Judge(w) ==
    LET u == work[w].user IN
    /\ work[w].pc = "judge"
    /\ Goto(w, [work[w] EXCEPT !.pc = "apply",
                               !.verdict = GuardVerdict(u, Available(work[w], pending[u]))])
    /\ UNCHANGED <<money, guard, marks, faults>>

\* applyBillingDecision takes the lock again.
Apply(w) ==
    LET u == work[w].user IN
    /\ work[w].pc = "apply"
    /\ grace' = [grace EXCEPT ![u] = CASE work[w].verdict = "clear" -> FALSE
                                       [] work[w].verdict = "start" -> TRUE
                                       [] OTHER -> grace[u]]
    /\ Goto(w, Idle)
    /\ UNCHANGED <<money, pending, marks, faults>>

\* The process stops: both maps and every request are gone.
Crash ==
    /\ Fault
    /\ pending' = [u \in Users |-> 0]
    /\ grace' = [u \in Users |-> FALSE]
    /\ work' = [w \in Workers |-> Idle]
    /\ UNCHANGED <<money, marks>>

-----------------------------------------------------------------------------
(* The specification *)

DeployStep(w)  == ReadSpending(w) \/ Admit(w) \/ Refuse(w) \/ Release(w)
EnforceStep(w) == GuardSpending(w) \/ Judge(w) \/ Apply(w)

Next ==
    \/ \E u \in Users : BalanceMoves(u) \/ SpendingMoves(u)
    \/ \E w \in Workers, u \in Users : BeginDeploy(w, u) \/ BeginEnforce(w, u)
    \/ \E w \in Workers : DeployStep(w) \/ EnforceStep(w) \/ ReadFails(w)
    \/ Crash

Spec == Init /\ [][Next]_vars

\* A check of the guard ends, and the loop comes to each user again and again: it goes
\* through the owners of undeleted projects at every tick, an error ends its round, and
\* no error here lasts (MaxFaults). Nobody has to send a request, and a deploy may take
\* for ever.
Fairness ==
    /\ \A w \in Workers : WF_vars(EnforceStep(w))
    /\ \A u \in Users : SF_vars(BeginEnforce(Loop, u))

FairSpec == Spec /\ Fairness

-----------------------------------------------------------------------------
(* Properties *)

\* What is held back for a user is what the deploys in progress were admitted
\* with: no reserve outlives its deploy, none is released twice.
PendingIsReserved ==
    \A u \in Users :
        pending[u] = SumFunctionOnSet([w \in Workers |-> work[w].reserve],
                                      {w \in DeploysOf(u) : work[w].pc = "deploying"})

\* Concurrent deploys do not pass on the same money (tasks/task-018): together they
\* hold back no more than the highest balance less the lowest spending between the
\* first of them and now, however both moved between the reads and the lock. The two
\* may be of different moments, since a deploy reads them at different moments.
NoOvercommit ==
    \A u \in Users : pending[u] > 0 => pending[u] <= high[u] - low[u]

\* The grace period of a user who has money, and for whom nothing is held back,
\* from some time on, comes to an end for good (RFC-004), whatever stale sweeps
\* and refusals were under way.
GraceEnds ==
    \A u \in Users :
        <>[](balance[u] - spent[u] > 0 /\ Quiet(u)) => <>[](~grace[u])

\* A user who has run out of money for good is in a grace period for good.
GraceStarts ==
    \A u \in Users \ Exempt :
        <>[](balance[u] - spent[u] <= 0) => <>[](grace[u])

\* In the long run the grace period follows the user's money, both ways.
GraceFollowsMoney == GraceEnds /\ GraceStarts
=============================================================================
