---------------------------- MODULE BillingGuard ----------------------------
(***************************************************************************)
(* What becomes of the projects of a user whose money has run out, in      *)
(* deploy-service: a grace period, then suspension, then a retention       *)
(* period, then deletion, by the loop of runBillingGuard, while requests   *)
(* and further checks of the same user go on.                              *)
(*                                                                         *)
(* A check notes the time and copies the user's projects when it begins,   *)
(* decides from these, and works off its decision project by project, with *)
(* calls to the cluster that take long. Its first error ends it, and the   *)
(* loop's whole round with it.                                             *)
(*                                                                         *)
(* Deadlines are kept as the time that is left until them, zero or less    *)
(* when they have passed. How balance, spending and reserves make up the   *)
(* money that is available, DeployBudget says; here a user has some or not.*)
(***************************************************************************)
EXTENDS Integers, FiniteSets

CONSTANTS
    Users, Projects,
    Owner,          \* the owner of a project
    Requests,       \* goroutines serving requests
    Loop,           \* the goroutine of runBillingGuard
    NoUser, NoProject,
    Grace,          \* billingGracePeriod
    Retention,      \* billingRetentionPeriod
    Lag,            \* bound: the time an operation takes
    NoDeadline,     \* no entry in graceStartedAt; a nil DeletionDueAt
    KeepsSchedule,  \* TRUE: memory store; FALSE: Postgres, whose store leaves DeletionDueAt out
    MaxFaults       \* bound: failing calls of Postgres, and restarts

Workers == Requests \cup {Loop}

ASSUME PeopleAssumption == NoUser \notin Users /\ NoProject \notin Projects /\ Loop \notin Requests
ASSUME OwnerAssumption == Owner \in [Projects -> Users]
ASSUME TimeAssumption == Grace \in Nat /\ Retention \in Nat /\ Lag \in Nat /\ NoDeadline \notin Int
ASSUME StoreAssumption == KeepsSchedule \in BOOLEAN /\ MaxFaults \in Nat /\ (KeepsSchedule => MaxFaults = 0)

VARIABLES
    money,      \* whether the user's available money is above zero
    store,      \* the projects table: status, and the time left until DeletionDueAt
    grace,      \* the time left of the user's grace period
    round,      \* the users the loop has yet to come to
    work,       \* where each goroutine is, and what it has read
    faults,     \* how much of MaxFaults is used up
    clear,      \* history: the time since it was last clear that no grace period ran
    suspended,  \* history: the time since the guard last suspended the project
    untouched   \* history: nobody has written the record since then

history == <<clear, suspended, untouched>>
vars    == <<money, store, grace, round, work, faults, clear, suspended, untouched>>

-----------------------------------------------------------------------------
(* Data *)

Left(period) == (-Lag)..period \cup {NoDeadline}

\* Projects still being created, or failed, are none of the guard's business.
Status == {"active", "suspended", "deleting", "deleted"}
Record == [status : Status, due : Left(Retention)]
Blank  == [status |-> "deleted", due |-> NoDeadline]

CheckPc == {"judge", "forget", "cancel", "start", "enforce", "pause"}
Pc      == {"idle", "save", "destroy", "saveDeleting", "saveDeleted"} \cup CheckPc

\* user is the one a check is about, project and copy the record about to be written,
\* todo the projects still to be written, as they were listed; age is the time since
\* the operation began.
Job  == [pc : Pc, user : Users \cup {NoUser}, project : Projects \cup {NoProject}, copy : Record,
         listed : [Projects -> Record], todo : SUBSET Projects, age : 0..Lag]
Idle == [pc |-> "idle", user |-> NoUser, project |-> NoProject, copy |-> Blank,
         listed |-> [p \in Projects |-> Blank], todo |-> {}, age |-> 0]

\* A check is about a user, a write about a project.
HasSubject(job) ==
    /\ job.pc \in CheckPc \/ job.todo # {} => job.user \in Users
    /\ job.pc \in {"save", "saveDeleting", "destroy", "saveDeleted"} => job.project \in Projects

TypeOK ==
    /\ money \in [Users -> BOOLEAN]
    /\ store \in [Projects -> Record]
    /\ grace \in [Users -> Left(Grace)]
    /\ round \subseteq Users
    /\ work \in [Workers -> Job]
    /\ \A w \in Workers : HasSubject(work[w])
    /\ faults \in 0..MaxFaults
    /\ clear \in [Users -> 0..Grace]
    /\ suspended \in [Projects -> 0..Retention]
    /\ untouched \in [Projects -> BOOLEAN]

Init ==
    /\ money \in [Users -> BOOLEAN]
    /\ store = [p \in Projects |-> [status |-> "active", due |-> NoDeadline]]
    /\ grace = [u \in Users |-> NoDeadline]
    /\ round = {}
    /\ work = [w \in Workers |-> Idle]
    /\ faults = 0
    /\ clear = [u \in Users |-> 0]
    /\ suspended = [p \in Projects |-> 0]
    /\ untouched = [p \in Projects |-> FALSE]

-----------------------------------------------------------------------------
(* Helpers *)

At(w, pc)    == work[w].pc = pc
Goto(w, job) == work' = [work EXCEPT ![w] = job]
Done(w)      == Goto(w, Idle) /\ UNCHANGED round

\* An error ends a check, and the loop's round.
Abort(w) == Goto(w, Idle) /\ round' = IF w = Loop THEN {} ELSE round

\* A check goes on with what is left of its decision, if anything is.
GoOn(w, pc, todo) ==
    /\ Goto(w, IF todo = {} THEN Idle
               ELSE [work[w] EXCEPT !.pc = pc, !.project = NoProject, !.copy = Blank, !.todo = todo])
    /\ UNCHANGED round

Well  == UNCHANGED faults
Fault == faults < MaxFaults /\ faults' = faults + 1

\* Update of the whole record, by a suspension of the guard or by anybody else.
Put(p, rec, byGuard) ==
    /\ store' = [store EXCEPT ![p] = IF KeepsSchedule THEN rec ELSE [rec EXCEPT !.due = NoDeadline]]
    /\ untouched' = [untouched EXCEPT ![p] = byGuard]
    /\ suspended' = IF byGuard THEN [suspended EXCEPT ![p] = 0] ELSE suspended
NoPut == UNCHANGED <<store, untouched, suspended>>

-----------------------------------------------------------------------------
(* The world outside *)

\* Top-ups, charges, the turn of the month, reserves of deploys.
MoneyMoves(u) ==
    /\ money' = [money EXCEPT ![u] = ~money[u]]
    /\ UNCHANGED <<store, grace, round, work, faults, history>>

\* What is left at a later time; long past is as good as past.
Later(left) == IF left = NoDeadline \/ left = -Lag THEN left ELSE left - 1
LaterRecord(rec) == [rec EXCEPT !.due = Later(rec.due)]
Since(passed, most) == IF passed = most THEN most ELSE passed + 1

\* Time passes; no operation takes longer than Lag.
Tick ==
    /\ \A w \in Workers : At(w, "idle") \/ work[w].age < Lag
    /\ store' = [p \in Projects |-> LaterRecord(store[p])]
    /\ grace' = [u \in Users |-> Later(grace[u])]
    /\ work' = [w \in Workers |->
          IF At(w, "idle") THEN work[w]
          ELSE [work[w] EXCEPT !.age = work[w].age + 1, !.copy = LaterRecord(work[w].copy),
                               !.listed = [p \in Projects |-> LaterRecord(work[w].listed[p])]]]
    /\ clear' = [u \in Users |-> Since(clear[u], Grace)]
    /\ suspended' = [p \in Projects |-> Since(suspended[p], Retention)]
    /\ UNCHANGED <<money, round, faults, untouched>>

\* The process stops and starts again: the memory of grace periods is lost, and with
\* the memory store everything else would be.
Restart ==
    /\ ~KeepsSchedule /\ Fault
    /\ grace' = [u \in Users |-> NoDeadline]
    /\ clear' = [u \in Users |-> 0]
    /\ work' = [w \in Workers |-> Idle] /\ round' = {}
    /\ UNCHANGED <<money, store, suspended, untouched>>

-----------------------------------------------------------------------------
(* EnforceAllBillingGuards, EnforceBillingGuard: the decision *)

\* A tick of the loop: the owners of all projects that are not deleted.
BeginRound ==
    /\ At(Loop, "idle") /\ round = {}
    /\ round' = {Owner[p] : p \in {q \in Projects : store[q].status # "deleted"}}
    /\ round' # {}
    /\ UNCHANGED <<money, store, grace, work, faults, history>>

\* The time is noted and the user's projects are listed: for the next user of the
\* round, or for GET /billing. When listing fails there are none.
BeginCheck(w, u) ==
    LET mine == {p \in Projects : Owner[p] = u /\ store[p].status # "deleted"}
        Listing(found) ==
            Goto(w, [Idle EXCEPT !.pc = "judge", !.user = u, !.todo = found,
                                 !.listed = [p \in Projects |-> IF p \in found THEN store[p] ELSE Blank]])
    IN
    /\ At(w, "idle") /\ (w = Loop => u \in round)
    /\ \/ Listing(mine) /\ Well
       \/ Listing({}) /\ Fault
    /\ round' = IF w = Loop THEN round \ {u} ELSE round
    /\ UNCHANGED <<money, store, grace, history>>

\* !now.Before(deadline), with the time noted.
Over(left, age) == left # NoDeadline /\ left + age <= 0

Scheduled(job) == {p \in job.todo : job.listed[p].status = "suspended" /\ job.listed[p].due # NoDeadline}

\* Mutant: a project is deleted as soon as there is a deadline.
ToDeleteAtOnce(job) == Scheduled(job)

\* What is done once the grace period is over: active projects are suspended, and
\* suspended ones deleted when their deadline had passed at the time noted.
ToSuspend(job) == {p \in job.todo : job.listed[p].status = "active"}
ToDelete(job)  == {p \in Scheduled(job) : Over(job.listed[p].due, job.age)}

\* loadBillingState and evaluateBillingGuard. With no projects listed nothing counts
\* as spent, so that a balance that is left counts as money. One step: that balance and
\* spending are read before the lock under which the grace period is, DeployBudget has.
Judge(w) ==
    LET u == work[w].user IN
    /\ At(w, "judge")
    /\ \/ /\ money[u] \/ work[w].todo = {}
          /\ Goto(w, [work[w] EXCEPT !.pc = "forget", !.todo = Scheduled(work[w])])
          /\ Well /\ UNCHANGED round
       \/ /\ ~money[u] /\ grace[u] = NoDeadline
          /\ Goto(w, [work[w] EXCEPT !.pc = "start", !.todo = {}])
          /\ Well /\ UNCHANGED round
       \/ /\ ~money[u] /\ grace[u] # NoDeadline /\ ~Over(grace[u], work[w].age)
          /\ Done(w) /\ Well
       \/ /\ ~money[u] /\ Over(grace[u], work[w].age)
          /\ GoOn(w, "enforce", ToSuspend(work[w]) \cup ToDelete(work[w]))
          /\ Well
       \/ Fault /\ Abort(w)
    /\ UNCHANGED <<money, store, grace, history>>

-----------------------------------------------------------------------------
(* applyBillingDecision *)

\* Mutant: the grace period is left as it is.
ForgetNothing(w) ==
    LET u == work[w].user IN
    /\ At(w, "forget")
    /\ clear' = [clear EXCEPT ![u] = 0]
    /\ GoOn(w, "cancel", work[w].todo)
    /\ UNCHANGED <<money, store, grace, faults, suspended, untouched>>

\* Money was found: the grace period is over.
Forget(w) ==
    LET u == work[w].user IN
    /\ At(w, "forget")
    /\ grace' = [grace EXCEPT ![u] = NoDeadline]
    /\ clear' = [clear EXCEPT ![u] = 0]
    /\ GoOn(w, "cancel", work[w].todo)
    /\ UNCHANGED <<money, store, faults, suspended, untouched>>

\* An Update that succeeds, and one that answers an error, having written or not.
Saved(p, rec, byGuard)      == Put(p, rec, byGuard) /\ Well
SaveFailed(p, rec, byGuard) == Fault /\ (Put(p, rec, byGuard) \/ NoPut)

\* clearDeletionSchedule: the listed record of a suspended project is written
\* without its deadline. Only the memory store has deadlines, and it does not fail.
Cancel(w) ==
    \E p \in work[w].todo :
        /\ At(w, "cancel")
        /\ store' = [store EXCEPT ![p] = [work[w].listed[p] EXCEPT !.due = NoDeadline]]
        /\ untouched' = [untouched EXCEPT ![p] = FALSE]
        /\ GoOn(w, "cancel", work[w].todo \ {p})
        /\ UNCHANGED <<money, grace, faults, clear, suspended>>

\* Mutant: the retention period is added as well.
StartBoth(w) ==
    LET u == work[w].user IN
    /\ At(w, "start")
    /\ grace' = IF grace[u] = NoDeadline THEN [grace EXCEPT ![u] = Grace + Retention - work[w].age] ELSE grace
    /\ Done(w)
    /\ UNCHANGED <<money, store, faults, history>>

\* ensureGraceDeadlineLocked: unless one runs, a grace period starts at the time noted.
Start(w) ==
    LET u == work[w].user IN
    /\ At(w, "start")
    /\ grace' = IF grace[u] = NoDeadline THEN [grace EXCEPT ![u] = Grace - work[w].age] ELSE grace
    /\ Done(w)
    /\ UNCHANGED <<money, store, faults, history>>

\* A deploy is refused, with no money left at all.
RefuseDeploy(u) ==
    /\ ~money[u] /\ grace[u] = NoDeadline
    /\ grace' = [grace EXCEPT ![u] = Grace]
    /\ UNCHANGED <<money, store, round, work, faults, history>>

\* Mutant: the deadline is not set.
UnpaidForGood(job) == [status |-> "suspended", due |-> NoDeadline]

\* What suspendProjectForNonPayment writes: the deadline counts from the time noted.
Unpaid(job) == [status |-> "suspended", due |-> Retention - job.age]

\* Mutant: the project is paused first and written when that went well.
SuspendAfterPause(w) ==
    \E p \in ToSuspend(work[w]) :
        /\ At(w, "enforce")
        /\ \/ Saved(p, Unpaid(work[w]), TRUE) /\ GoOn(w, "enforce", work[w].todo \ {p})
           \/ NoPut /\ Well /\ Abort(w)
        /\ UNCHANGED <<money, grace, clear>>

\* A listed project that was active is written as suspended, whatever it is by now.
Suspend(w) ==
    \E p \in ToSuspend(work[w]) :
        /\ At(w, "enforce")
        /\ \/ /\ Saved(p, Unpaid(work[w]), TRUE)
              /\ Goto(w, [work[w] EXCEPT !.pc = "pause", !.project = p, !.todo = work[w].todo \ {p}])
              /\ UNCHANGED round
           \/ SaveFailed(p, Unpaid(work[w]), TRUE) /\ Abort(w)
        /\ UNCHANGED <<money, grace, clear>>

\* SuspendProjectEnvironment answers.
Pause(w) ==
    /\ At(w, "pause")
    /\ GoOn(w, "enforce", work[w].todo) \/ Abort(w)
    /\ UNCHANGED <<money, store, grace, faults, history>>

-----------------------------------------------------------------------------
(* DeleteProject, by a request and by a check whose suspensions are done *)

\* The record is read again, by its id; its status is not looked at.
ReadToDelete(w) ==
    /\ At(w, "enforce") /\ ToSuspend(work[w]) = {}
    /\ \E p \in work[w].todo :
          Goto(w, [work[w] EXCEPT !.pc = "saveDeleting", !.project = p, !.todo = work[w].todo \ {p},
                                  !.copy = [store[p] EXCEPT !.status = "deleting"]])
    /\ UNCHANGED <<money, store, grace, round, faults, history>>

SaveDeleting(w) ==
    LET p == work[w].project rec == work[w].copy IN
    /\ At(w, "saveDeleting")
    /\ \/ Saved(p, rec, FALSE) /\ Goto(w, [work[w] EXCEPT !.pc = "destroy"]) /\ UNCHANGED round
       \/ SaveFailed(p, rec, FALSE) /\ Abort(w)
    /\ UNCHANGED <<money, grace, clear>>

\* DeleteProjectEnvironment answers.
Destroy(w) ==
    /\ At(w, "destroy")
    /\ \/ /\ Goto(w, [work[w] EXCEPT !.pc = "saveDeleted", !.copy = [work[w].copy EXCEPT !.status = "deleted"]])
          /\ UNCHANGED round
       \/ Abort(w)
    /\ UNCHANGED <<money, store, grace, faults, history>>

SaveDeleted(w) ==
    LET p == work[w].project rec == work[w].copy IN
    /\ At(w, "saveDeleted")
    /\ \/ Saved(p, rec, FALSE) /\ GoOn(w, "enforce", work[w].todo)
       \/ SaveFailed(p, rec, FALSE) /\ Abort(w)
    /\ UNCHANGED <<money, grace, clear>>

-----------------------------------------------------------------------------
(* Requests that write the record *)

Request(w, p, pc, status) ==
    /\ w \in Requests /\ At(w, "idle")
    /\ Goto(w, [Idle EXCEPT !.pc = pc, !.project = p, !.copy = [store[p] EXCEPT !.status = status]])
    /\ UNCHANGED <<money, store, grace, round, faults, history>>

BeginDelete(w, p)  == Request(w, p, "saveDeleting", "deleting")
BeginSuspend(w, p) == store[p].status = "active" /\ Request(w, p, "save", "suspended")
\* ResumeProject, whose call to the cluster has succeeded. The deadline stays.
BeginResume(w, p)  == store[p].status = "suspended" /\ Request(w, p, "save", "active")
\* Deployment settings, bootstrap, runtime status.
BeginUpdate(w, p)  == store[p].status # "deleted" /\ Request(w, p, "save", store[p].status)

Save(w) ==
    LET p == work[w].project rec == work[w].copy IN
    /\ At(w, "save")
    /\ Saved(p, rec, FALSE) \/ SaveFailed(p, rec, FALSE)
    /\ Done(w)
    /\ UNCHANGED <<money, grace, clear>>

-----------------------------------------------------------------------------
(* The specification *)

Step(w) ==
    \/ Judge(w) \/ Forget(w) \/ Cancel(w) \/ Start(w) \/ Suspend(w) \/ Pause(w)
    \/ ReadToDelete(w) \/ SaveDeleting(w) \/ Destroy(w) \/ SaveDeleted(w) \/ Save(w)

Next ==
    \/ \E u \in Users : MoneyMoves(u) \/ RefuseDeploy(u)
    \/ Tick \/ Restart \/ BeginRound
    \/ \E w \in Workers, u \in Users : BeginCheck(w, u)
    \/ \E w \in Requests, p \in Projects :
          BeginDelete(w, p) \/ BeginSuspend(w, p) \/ BeginResume(w, p) \/ BeginUpdate(w, p)
    \/ \E w \in Workers : Step(w)

Spec == Init /\ [][Next]_vars

\* Time passes between operations, these come to an end, and the loop goes on; nobody
\* has to send a request.
Fairness ==
    /\ SF_vars(Tick) /\ WF_vars(BeginRound)
    /\ \A u \in Users : WF_vars(BeginCheck(Loop, u))
    /\ \A w \in Workers : WF_vars(Step(w))

FairSpec == Spec /\ Fairness

-----------------------------------------------------------------------------
(* Properties *)

\* evaluateBillingGuard decides to suspend or to delete only when a grace period has
\* run to its end since a check last found money (or the process started), whatever
\* slow checks, refused deploys and top-ups came in between (tasks/task-018).
SuspendedOnlyAfterGrace ==
    [][\A w \in Workers :
         At(w, "judge") /\ At(w, "enforce")' => clear[work[w].user] >= Grace - Lag]_vars

\* A project the guard has suspended, and that nobody has written since, is not
\* deleted by the guard before the retention period is over (RFC-004), unless it was
\* suspended again while the check that deletes it was under way.
DeletedOnlyAfterRetention ==
    [][\A w \in Workers :
         LET p == work[w].project IN
         /\ At(w, "saveDeleting") /\ work[w].user # NoUser /\ At(w, "destroy")'
         /\ untouched[p]
         => suspended[p] >= Retention - Lag \/ suspended[p] <= work[w].age]_vars

\* The active projects of a user who is out of money for good get suspended (RFC-004),
\* even if no project can ever be paused: the error ends the round, but the project
\* was written as suspended before, and the next round gets further.
BrokeIsSuspended ==
    \A p \in Projects :
        <>[](~money[Owner[p]]) => []<>(store[p].status # "active")

\* A project suspended for non-payment is deleted, or at least its deletion is begun,
\* if no money comes in and nobody touches it. RFC-004: "retention period over -
\* auto-delete of the project". The Postgres store neither writes nor reads the
\* deadline, though its table has a column for it.
UnpaidIsDeleted ==
    \A p \in Projects :
        ~<>[](~money[Owner[p]] /\ untouched[p] /\ store[p].status = "suspended")

=============================================================================
