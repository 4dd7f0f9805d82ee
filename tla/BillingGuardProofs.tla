------------------------- MODULE BillingGuardProofs -------------------------
(***************************************************************************)
(* Proofs about BillingGuard, for any users, projects and periods, either  *)
(* store and any number of faults: its typing, that nothing is decided     *)
(* against a user's projects before a grace period has run to its end, and *)
(* that a project is not deleted before its retention period is over.      *)
(*                                                                         *)
(* The first invariant says how old a grace period is at most: no older    *)
(* than the last moment at which it was clear that none ran, but for the   *)
(* delay of a check that starts one at the time it noted. The second       *)
(* follows a deadline from the suspension that sets it to the check that   *)
(* lists it and the deletion it is decided by.                             *)
(***************************************************************************)
EXTENDS BillingGuard, TLAPS

\* What has passed of a grace period.
GraceIsYoung ==
    \A u \in Users : grace[u] # NoDeadline => Grace - grace[u] <= clear[u] + Lag

IInv == TypeOK /\ GraceIsYoung

-----------------------------------------------------------------------------
(* Time left, records and jobs *)

LEMMA LaterType ==
    ASSUME NEW n \in Nat, NEW left \in Left(n)
    PROVE  Later(left) \in Left(n)
BY TimeAssumption DEF Later, Left

LEMMA LaterRecordType ==
    ASSUME NEW rec \in Record
    PROVE  LaterRecord(rec) \in Record
<1>1. rec.due \in Left(Retention) BY DEF Record
<1>2. Later(rec.due) \in Left(Retention) BY <1>1, LaterType, TimeAssumption
<1> QED BY <1>2 DEF LaterRecord, Record

LEMMA SinceType ==
    ASSUME NEW n \in Nat, NEW passed \in 0..n
    PROVE  Since(passed, n) \in 0..n
BY DEF Since

LEMMA BlankRecord == Blank \in Record
BY DEF Blank, Record, Status, Left

LEMMA IdleJob == Idle \in Job /\ HasSubject(Idle) /\ Idle.pc = "idle"
<1>1. Idle.listed \in [Projects -> Record] BY BlankRecord DEF Idle
<1>2. Idle \in Job BY <1>1, BlankRecord, TimeAssumption DEF Idle, Job, Pc
<1> QED BY <1>2 DEF Idle, HasSubject, CheckPc

LEMMA JobFields ==
    ASSUME TypeOK, NEW w \in Workers
    PROVE  /\ work[w] \in Job /\ HasSubject(work[w])
           /\ work[w].copy \in Record /\ work[w].listed \in [Projects -> Record]
           /\ work[w].todo \subseteq Projects /\ work[w].age \in 0..Lag
BY DEF TypeOK, Job

\* A goroutine goes on with a job of the right type.
LEMMA GotoType ==
    ASSUME TypeOK, NEW w \in Workers, NEW job \in Job, HasSubject(job), Goto(w, job)
    PROVE  work' \in [Workers -> Job] /\ \A x \in Workers : HasSubject(work'[x])
<1>1. work' = [work EXCEPT ![w] = job] /\ work \in [Workers -> Job] BY DEF Goto, TypeOK
<1>2. work' \in [Workers -> Job] BY <1>1
<1>3. work'[w] = job /\ \A x \in Workers : x # w => work'[x] = work[x] BY <1>1
<1> QED BY <1>2, <1>3 DEF TypeOK

LEMMA DoneType ==
    ASSUME TypeOK, NEW w \in Workers, Done(w)
    PROVE  work' \in [Workers -> Job] /\ (\A x \in Workers : HasSubject(work'[x])) /\ round' \subseteq Users
BY GotoType, IdleJob DEF Done, TypeOK

LEMMA AbortType ==
    ASSUME TypeOK, NEW w \in Workers, Abort(w)
    PROVE  work' \in [Workers -> Job] /\ (\A x \in Workers : HasSubject(work'[x])) /\ round' \subseteq Users
BY GotoType, IdleJob DEF Abort, TypeOK

LEMMA GoOnType ==
    ASSUME TypeOK, NEW w \in Workers, NEW pc \in CheckPc, NEW todo \in SUBSET Projects,
           todo # {} => work[w].user \in Users, GoOn(w, pc, todo)
    PROVE  work' \in [Workers -> Job] /\ (\A x \in Workers : HasSubject(work'[x])) /\ round' \subseteq Users
<1> DEFINE job == [work[w] EXCEPT !.pc = pc, !.project = NoProject, !.copy = Blank, !.todo = todo]
<1>1. work[w] \in Job BY JobFields
<1>2. job \in Job BY <1>1, BlankRecord DEF Job, Pc
<1>3. job.pc = pc /\ job.user = work[w].user /\ job.todo = todo BY <1>1 DEF Job
<1>4. todo # {} => HasSubject(job) BY <1>3 DEF HasSubject, CheckPc
<1>5. Goto(w, IF todo = {} THEN Idle ELSE job) BY DEF GoOn
<1> HIDE DEF job
<1>6. work' \in [Workers -> Job] /\ \A x \in Workers : HasSubject(work'[x])
  <2>1. CASE todo = {} BY <2>1, <1>5, GotoType, IdleJob
  <2>2. CASE todo # {} BY <2>2, <1>2, <1>4, <1>5, GotoType
  <2> QED BY <2>1, <2>2
<1> QED BY <1>6 DEF GoOn, TypeOK

\* The parts of the type invariant that a write of a record touches.
RecordsTyped ==
    /\ store \in [Projects -> Record]
    /\ suspended \in [Projects -> 0..Retention]
    /\ untouched \in [Projects -> BOOLEAN]

LEMMA PutType ==
    ASSUME TypeOK, NEW p \in Projects, NEW rec \in Record, NEW byGuard \in BOOLEAN,
           Put(p, rec, byGuard) \/ NoPut
    PROVE  RecordsTyped'
<1>1. [rec EXCEPT !.due = NoDeadline] \in Record BY DEF Record, Left
<1>2. CASE Put(p, rec, byGuard)
  <2>1. store' \in [Projects -> Record] BY <1>1, <1>2 DEF Put, TypeOK
  <2>2. untouched' \in [Projects -> BOOLEAN] BY <1>2 DEF Put, TypeOK
  <2>3. suspended' \in [Projects -> 0..Retention] BY <1>2, TimeAssumption DEF Put, TypeOK
  <2> QED BY <2>1, <2>2, <2>3 DEF RecordsTyped
<1>3. CASE NoPut BY <1>3 DEF NoPut, RecordsTyped, TypeOK
<1> QED BY <1>2, <1>3

LEMMA FaultType ==
    ASSUME TypeOK, Well \/ Fault
    PROVE  faults' \in 0..MaxFaults
BY StoreAssumption DEF TypeOK, Well, Fault

\* An Update, whatever comes of it.
LEMMA SaveType ==
    ASSUME TypeOK, NEW p \in Projects, NEW rec \in Record, NEW byGuard \in BOOLEAN,
           Saved(p, rec, byGuard) \/ SaveFailed(p, rec, byGuard)
    PROVE  RecordsTyped' /\ faults' \in 0..MaxFaults
BY PutType, FaultType DEF Saved, SaveFailed

-----------------------------------------------------------------------------
(* Every action keeps the types *)

LEMMA InitType == Init => TypeOK
<1> SUFFICES ASSUME Init PROVE TypeOK OBVIOUS
<1>1. store \in [Projects -> Record] BY DEF Init, Record, Status, Left
<1>2. grace \in [Users -> Left(Grace)] BY DEF Init, Left
<1>3. work \in [Workers -> Job] /\ \A w \in Workers : HasSubject(work[w]) BY IdleJob DEF Init
<1>4. clear \in [Users -> 0..Grace] /\ suspended \in [Projects -> 0..Retention]
  BY TimeAssumption DEF Init
<1> QED BY <1>1, <1>2, <1>3, <1>4, StoreAssumption DEF Init, TypeOK

LEMMA OutsideType ==
    ASSUME TypeOK, NEW u \in Users, MoneyMoves(u) \/ RefuseDeploy(u) \/ BeginRound
    PROVE  TypeOK'
<1>1. CASE MoneyMoves(u) BY <1>1 DEF MoneyMoves, history, TypeOK
<1>2. CASE RefuseDeploy(u)
  <2>1. Grace \in Left(Grace) BY TimeAssumption DEF Left
  <2> QED BY <1>2, <2>1 DEF RefuseDeploy, history, TypeOK
<1>3. CASE BeginRound BY <1>3, OwnerAssumption DEF BeginRound, history, TypeOK
<1> QED BY <1>1, <1>2, <1>3

LEMMA TickType ==
    ASSUME TypeOK, Tick
    PROVE  TypeOK'
<1>1. store' \in [Projects -> Record] BY LaterRecordType DEF Tick, TypeOK
<1>2. grace' \in [Users -> Left(Grace)] BY LaterType, TimeAssumption DEF Tick, TypeOK
<1>3. \A w \in Workers : work'[w] \in Job /\ HasSubject(work'[w])
  <2> TAKE w \in Workers
  <2> DEFINE listed == [p \in Projects |-> LaterRecord(work[w].listed[p])]
             job == [work[w] EXCEPT !.age = work[w].age + 1, !.copy = LaterRecord(work[w].copy),
                                    !.listed = listed]
  <2>1. work[w] \in Job /\ HasSubject(work[w]) /\ work[w].age \in 0..Lag BY JobFields
  <2>2. work'[w] = IF At(w, "idle") THEN work[w] ELSE job BY DEF Tick
  <2>3. listed \in [Projects -> Record] BY LaterRecordType, JobFields
  <2>4. LaterRecord(work[w].copy) \in Record BY LaterRecordType, JobFields
  <2>0. ~At(w, "idle") => work[w].age < Lag BY DEF Tick
  <2>5. ~At(w, "idle") => work[w].age + 1 \in 0..Lag BY <2>1, <2>0, TimeAssumption
  <2> HIDE DEF listed
  <2>6. ~At(w, "idle") => job \in Job BY <2>1, <2>3, <2>4, <2>5 DEF Job
  <2>7. job.pc = work[w].pc /\ job.user = work[w].user /\ job.project = work[w].project
        /\ job.todo = work[w].todo BY <2>1 DEF Job
  <2>8. HasSubject(job) BY <2>1, <2>7 DEF HasSubject
  <2> QED BY <2>1, <2>2, <2>6, <2>8
<1>4. work' \in [Workers -> Job] BY <1>3 DEF Tick
<1>5. clear' \in [Users -> 0..Grace] BY SinceType, TimeAssumption DEF Tick, TypeOK
<1>6. suspended' \in [Projects -> 0..Retention] BY SinceType, TimeAssumption DEF Tick, TypeOK
<1> QED BY <1>1, <1>2, <1>3, <1>4, <1>5, <1>6 DEF Tick, TypeOK

LEMMA RestartType ==
    ASSUME TypeOK, Restart
    PROVE  TypeOK'
<1>1. work' \in [Workers -> Job] /\ \A w \in Workers : HasSubject(work'[w]) BY IdleJob DEF Restart
<1>2. grace' \in [Users -> Left(Grace)] /\ clear' \in [Users -> 0..Grace]
  BY TimeAssumption DEF Restart, Left
<1>3. faults' \in 0..MaxFaults BY FaultType DEF Restart
<1> QED BY <1>1, <1>2, <1>3 DEF Restart, TypeOK

LEMMA BeginCheckType ==
    ASSUME TypeOK, NEW w \in Workers, NEW u \in Users, BeginCheck(w, u)
    PROVE  TypeOK'
<1> DEFINE Listed(found) == [p \in Projects |-> IF p \in found THEN store[p] ELSE Blank]
           Begun(found) == [Idle EXCEPT !.pc = "judge", !.user = u, !.todo = found, !.listed = Listed(found)]
           mine == {p \in Projects : Owner[p] = u /\ store[p].status # "deleted"}
<1>1. \A found \in SUBSET Projects : Begun(found) \in Job /\ HasSubject(Begun(found))
  <2> TAKE found \in SUBSET Projects
  <2>1. Listed(found) \in [Projects -> Record] BY BlankRecord DEF TypeOK
  <2> HIDE DEF Listed
  <2>2. Begun(found) \in Job BY <2>1, IdleJob DEF Job, Pc, CheckPc
  <2>3. Begun(found).pc = "judge" /\ Begun(found).user = u BY IdleJob DEF Job
  <2> QED BY <2>2, <2>3 DEF HasSubject
<1>2. \E found \in SUBSET Projects : Goto(w, Begun(found))
  <2>1. mine \in SUBSET Projects /\ {} \in SUBSET Projects OBVIOUS
  <2>2. Goto(w, Begun(mine)) \/ Goto(w, Begun({})) BY DEF BeginCheck
  <2> HIDE DEF Begun, mine
  <2> QED BY <2>1, <2>2
<1> HIDE DEF Begun
<1>3. work' \in [Workers -> Job] /\ \A x \in Workers : HasSubject(work'[x]) BY <1>1, <1>2, GotoType
<1>4. faults' \in 0..MaxFaults BY FaultType DEF BeginCheck
<1>5. round' \subseteq Users BY DEF BeginCheck, TypeOK
<1> QED BY <1>3, <1>4, <1>5 DEF BeginCheck, history, TypeOK

\* A goroutine that only changes its place, and what it still has to do.
LEMMA PlaceType ==
    ASSUME TypeOK, NEW w \in Workers, NEW pc \in CheckPc, NEW todo \in SUBSET Projects,
           work[w].user \in Users, Goto(w, [work[w] EXCEPT !.pc = pc, !.todo = todo])
    PROVE  work' \in [Workers -> Job] /\ \A x \in Workers : HasSubject(work'[x])
<1> DEFINE job == [work[w] EXCEPT !.pc = pc, !.todo = todo]
<1>1. work[w] \in Job BY JobFields
<1>2. job \in Job BY <1>1 DEF Job, Pc
<1>3. job.pc = pc /\ job.user = work[w].user BY <1>1 DEF Job
<1>4. HasSubject(job) BY <1>3 DEF HasSubject, CheckPc
<1> HIDE DEF job
<1> QED BY <1>2, <1>4, GotoType DEF job

LEMMA JudgeType ==
    ASSUME TypeOK, NEW w \in Workers, Judge(w)
    PROVE  TypeOK'
<1> DEFINE todo == ToSuspend(work[w]) \cup ToDelete(work[w])
<1>1. work[w].user \in Users BY JobFields DEF Judge, At, HasSubject, CheckPc
<1>2. Scheduled(work[w]) \in SUBSET Projects /\ todo \in SUBSET Projects
  BY JobFields DEF Scheduled, ToSuspend, ToDelete
<1>3. work' \in [Workers -> Job] /\ (\A x \in Workers : HasSubject(work'[x])) /\ round' \subseteq Users
  <2>1. CASE Goto(w, [work[w] EXCEPT !.pc = "forget", !.todo = Scheduled(work[w])]) /\ UNCHANGED round
    BY <2>1, <1>1, <1>2, PlaceType DEF CheckPc, TypeOK
  <2>2. CASE Goto(w, [work[w] EXCEPT !.pc = "start", !.todo = {}]) /\ UNCHANGED round
    <3>1. "start" \in CheckPc /\ {} \in SUBSET Projects BY DEF CheckPc
    <3>2. Goto(w, [work[w] EXCEPT !.pc = "start", !.todo = {}]) BY <2>2
    <3>3. work' \in [Workers -> Job] /\ \A x \in Workers : HasSubject(work'[x])
      BY <1>1, <3>1, <3>2, PlaceType
    <3> QED BY <2>2, <3>3 DEF TypeOK
  <2>3. CASE Done(w) BY <2>3, DoneType
  <2>4. CASE GoOn(w, "enforce", todo) BY <2>4, <1>1, <1>2, GoOnType DEF CheckPc
  <2>5. CASE Abort(w) BY <2>5, AbortType
  <2> QED BY <2>1, <2>2, <2>3, <2>4, <2>5 DEF Judge
<1>4. faults' \in 0..MaxFaults BY FaultType DEF Judge
<1> QED BY <1>3, <1>4 DEF Judge, history, TypeOK

LEMMA ForgetType ==
    ASSUME TypeOK, NEW w \in Workers, Forget(w)
    PROVE  TypeOK'
<1>1. work[w].user \in Users BY JobFields DEF Forget, At, HasSubject, CheckPc
<1>2. work' \in [Workers -> Job] /\ (\A x \in Workers : HasSubject(work'[x])) /\ round' \subseteq Users
  BY <1>1, GoOnType, JobFields DEF Forget, CheckPc
<1>3. NoDeadline \in Left(Grace) /\ 0 \in 0..Grace BY TimeAssumption DEF Left
<1>4. grace' \in [Users -> Left(Grace)] BY <1>1, <1>3 DEF Forget, TypeOK
<1>5. clear' \in [Users -> 0..Grace] BY <1>1, <1>3 DEF Forget, TypeOK
<1> QED BY <1>2, <1>4, <1>5 DEF Forget, TypeOK

LEMMA CancelType ==
    ASSUME TypeOK, NEW w \in Workers, Cancel(w)
    PROVE  TypeOK'
<1>1. PICK p \in work[w].todo :
        /\ store' = [store EXCEPT ![p] = [work[w].listed[p] EXCEPT !.due = NoDeadline]]
        /\ untouched' = [untouched EXCEPT ![p] = FALSE]
        /\ GoOn(w, "cancel", work[w].todo \ {p})
  BY DEF Cancel
<1>2. p \in Projects /\ work[w].user \in Users BY JobFields DEF Cancel, At, HasSubject, CheckPc
<1>3. [work[w].listed[p] EXCEPT !.due = NoDeadline] \in Record BY <1>2, JobFields DEF Record, Left
<1>4. store' \in [Projects -> Record] /\ untouched' \in [Projects -> BOOLEAN]
  BY <1>1, <1>3 DEF TypeOK
<1>5. work' \in [Workers -> Job] /\ (\A x \in Workers : HasSubject(work'[x])) /\ round' \subseteq Users
  <2>1. work[w].todo \ {p} \in SUBSET Projects BY JobFields
  <2> QED BY <1>1, <1>2, <2>1, GoOnType DEF CheckPc
<1> QED BY <1>4, <1>5 DEF Cancel, TypeOK

LEMMA StartType ==
    ASSUME TypeOK, NEW w \in Workers, Start(w)
    PROVE  TypeOK'
<1>1. Grace - work[w].age \in Left(Grace) BY JobFields, TimeAssumption DEF Left
<1>2. grace' \in [Users -> Left(Grace)] BY <1>1 DEF Start, TypeOK
<1> QED BY <1>2, DoneType DEF Start, history, TypeOK

\* The type invariant, from what an action that writes a record changes.
LEMMA WriteType ==
    ASSUME TypeOK, NEW w \in Workers, UNCHANGED <<money, grace, clear>>, faults' \in 0..MaxFaults,
           RecordsTyped', work' \in [Workers -> Job], \A x \in Workers : HasSubject(work'[x]),
           round' \subseteq Users
    PROVE  TypeOK'
BY DEF RecordsTyped, TypeOK

LEMMA SuspendType ==
    ASSUME TypeOK, NEW w \in Workers, Suspend(w)
    PROVE  TypeOK'
<1>1. PICK p \in ToSuspend(work[w]) :
        \/ /\ Saved(p, Unpaid(work[w]), TRUE)
           /\ Goto(w, [work[w] EXCEPT !.pc = "pause", !.project = p, !.todo = work[w].todo \ {p}])
           /\ UNCHANGED round
        \/ SaveFailed(p, Unpaid(work[w]), TRUE) /\ Abort(w)
  BY DEF Suspend
<1>2. p \in Projects /\ work[w].user \in Users
  BY JobFields DEF Suspend, At, HasSubject, CheckPc, ToSuspend
<1>3. Unpaid(work[w]) \in Record
  <2>1. Retention - work[w].age \in Left(Retention) BY JobFields, TimeAssumption DEF Left
  <2> QED BY <2>1 DEF Unpaid, Record, Status
<1>4. RecordsTyped' /\ faults' \in 0..MaxFaults BY <1>1, <1>2, <1>3, SaveType
<1>5. work' \in [Workers -> Job] /\ (\A x \in Workers : HasSubject(work'[x])) /\ round' \subseteq Users
  <2> DEFINE job == [work[w] EXCEPT !.pc = "pause", !.project = p, !.todo = work[w].todo \ {p}]
  <2>1. work[w] \in Job /\ work[w].todo \ {p} \subseteq Projects BY JobFields
  <2>2. job \in Job BY <1>2, <2>1 DEF Job, Pc, CheckPc
  <2>3. job.pc = "pause" /\ job.user = work[w].user BY <2>1 DEF Job
  <2>4. HasSubject(job) BY <1>2, <2>3 DEF HasSubject
  <2>5. CASE Goto(w, job) /\ UNCHANGED round
    <3> HIDE DEF job
    <3> QED BY <2>2, <2>4, <2>5, GotoType DEF TypeOK
  <2>6. CASE Abort(w) BY <2>6, AbortType
  <2> QED BY <1>1, <2>5, <2>6
<1> QED BY <1>4, <1>5, WriteType DEF Suspend

LEMMA PauseType ==
    ASSUME TypeOK, NEW w \in Workers, Pause(w)
    PROVE  TypeOK'
<1>1. work[w].user \in Users /\ work[w].todo \in SUBSET Projects
  BY JobFields DEF Pause, At, HasSubject, CheckPc
<1>2. work' \in [Workers -> Job] /\ (\A x \in Workers : HasSubject(work'[x])) /\ round' \subseteq Users
  BY <1>1, GoOnType, AbortType DEF Pause, CheckPc
<1> QED BY <1>2 DEF Pause, history, TypeOK

LEMMA ReadToDeleteType ==
    ASSUME TypeOK, NEW w \in Workers, ReadToDelete(w)
    PROVE  TypeOK'
<1>1. PICK p \in work[w].todo :
        Goto(w, [work[w] EXCEPT !.pc = "saveDeleting", !.project = p, !.todo = work[w].todo \ {p},
                                !.copy = [store[p] EXCEPT !.status = "deleting"]])
  BY DEF ReadToDelete
<1> DEFINE copy == [store[p] EXCEPT !.status = "deleting"]
           job == [work[w] EXCEPT !.pc = "saveDeleting", !.project = p, !.todo = work[w].todo \ {p}, !.copy = copy]
<1>2. p \in Projects /\ work[w].user \in Users /\ work[w] \in Job /\ work[w].todo \subseteq Projects
  BY JobFields DEF ReadToDelete, At, HasSubject, CheckPc
<1>3. copy \in Record BY <1>2 DEF TypeOK, Record, Status
<1>4. Goto(w, job) BY <1>1
<1> HIDE DEF copy
<1>5. job \in Job BY <1>2, <1>3 DEF Job, Pc
<1>6. job.user = work[w].user /\ job.project = p /\ job.pc = "saveDeleting" BY <1>2 DEF Job
<1>7. HasSubject(job) BY <1>2, <1>6 DEF HasSubject
<1> HIDE DEF job
<1>8. work' \in [Workers -> Job] /\ \A x \in Workers : HasSubject(work'[x])
  BY <1>4, <1>5, <1>7, GotoType
<1> QED BY <1>8 DEF ReadToDelete, history, TypeOK

\* A goroutine that deletes goes on to the next call.
LEMMA DeletionGoesOn ==
    ASSUME TypeOK, NEW w \in Workers, work[w].pc \in {"saveDeleting", "destroy"},
           NEW pc \in {"destroy", "saveDeleted"}, NEW copy \in Record,
           Goto(w, [work[w] EXCEPT !.pc = pc, !.copy = copy]), UNCHANGED round
    PROVE  work' \in [Workers -> Job] /\ (\A x \in Workers : HasSubject(work'[x])) /\ round' \subseteq Users
<1> DEFINE job == [work[w] EXCEPT !.pc = pc, !.copy = copy]
<1>1. work[w] \in Job /\ HasSubject(work[w]) BY JobFields
<1>2. job \in Job BY <1>1 DEF Job, Pc
<1>3. job.pc = pc /\ job.user = work[w].user /\ job.project = work[w].project /\ job.todo = work[w].todo
  BY <1>1 DEF Job
<1>4. HasSubject(job) BY <1>1, <1>3 DEF HasSubject, CheckPc
<1> HIDE DEF job
<1> QED BY <1>2, <1>4, GotoType DEF job, TypeOK

LEMMA SaveDeletingType ==
    ASSUME TypeOK, NEW w \in Workers, SaveDeleting(w)
    PROVE  TypeOK'
<1>1. work[w].pc = "saveDeleting" /\ work[w].project \in Projects /\ work[w].copy \in Record
  BY JobFields DEF SaveDeleting, At, HasSubject
<1>2. RecordsTyped' /\ faults' \in 0..MaxFaults BY <1>1, SaveType DEF SaveDeleting
<1>3. work' \in [Workers -> Job] /\ (\A x \in Workers : HasSubject(work'[x])) /\ round' \subseteq Users
  <2>1. CASE Goto(w, [work[w] EXCEPT !.pc = "destroy"]) /\ UNCHANGED round
    <3>1. work[w] \in Job BY JobFields
    <3>2. [work[w] EXCEPT !.pc = "destroy"] = [work[w] EXCEPT !.pc = "destroy", !.copy = work[w].copy]
      BY <3>1 DEF Job
    <3>3. Goto(w, [work[w] EXCEPT !.pc = "destroy", !.copy = work[w].copy]) BY <2>1, <3>2
    <3> QED BY <1>1, <2>1, <3>3, DeletionGoesOn
  <2>2. CASE Abort(w) BY <2>2, AbortType
  <2> QED BY <2>1, <2>2 DEF SaveDeleting
<1> QED BY <1>2, <1>3, WriteType DEF SaveDeleting

LEMMA DestroyType ==
    ASSUME TypeOK, NEW w \in Workers, Destroy(w)
    PROVE  TypeOK'
<1> DEFINE copy == [work[w].copy EXCEPT !.status = "deleted"]
<1>1. work[w].pc = "destroy" BY DEF Destroy, At
<1>2. copy \in Record BY JobFields DEF Record, Status
<1>3. work' \in [Workers -> Job] /\ (\A x \in Workers : HasSubject(work'[x])) /\ round' \subseteq Users
  <2>1. CASE Goto(w, [work[w] EXCEPT !.pc = "saveDeleted", !.copy = copy]) /\ UNCHANGED round
    <3> HIDE DEF copy
    <3> QED BY <1>1, <1>2, <2>1, DeletionGoesOn
  <2>2. CASE Abort(w) BY <2>2, AbortType
  <2> QED BY <2>1, <2>2 DEF Destroy
<1> QED BY <1>3 DEF Destroy, history, TypeOK

LEMMA SaveDeletedType ==
    ASSUME TypeOK, NEW w \in Workers, SaveDeleted(w)
    PROVE  TypeOK'
<1>1. /\ work[w].project \in Projects /\ work[w].copy \in Record
      /\ work[w].todo \in SUBSET Projects /\ (work[w].todo # {} => work[w].user \in Users)
  BY JobFields DEF SaveDeleted, At, HasSubject
<1>2. RecordsTyped' /\ faults' \in 0..MaxFaults BY <1>1, SaveType DEF SaveDeleted
<1>3. work' \in [Workers -> Job] /\ (\A x \in Workers : HasSubject(work'[x])) /\ round' \subseteq Users
  <2>1. "enforce" \in CheckPc BY DEF CheckPc
  <2> QED BY <1>1, <2>1, GoOnType, AbortType DEF SaveDeleted
<1> QED BY <1>2, <1>3, WriteType DEF SaveDeleted

LEMMA RequestType ==
    ASSUME TypeOK, NEW w \in Workers, NEW p \in Projects, NEW pc \in {"save", "saveDeleting"},
           NEW status \in Status, Request(w, p, pc, status)
    PROVE  TypeOK'
<1> DEFINE copy == [store[p] EXCEPT !.status = status]
           job == [Idle EXCEPT !.pc = pc, !.project = p, !.copy = copy]
<1>1. copy \in Record BY DEF TypeOK, Record
<1>2. Goto(w, job) BY DEF Request
<1> HIDE DEF copy
<1>3. job \in Job BY <1>1, IdleJob DEF Job, Pc
<1>4. Idle.todo = {} BY DEF Idle
<1>5. job.pc = pc /\ job.project = p /\ job.todo = {} BY <1>4, IdleJob DEF Job
<1>6. HasSubject(job) BY <1>5 DEF HasSubject, CheckPc
<1> HIDE DEF job
<1>7. work' \in [Workers -> Job] /\ \A x \in Workers : HasSubject(work'[x])
  BY <1>2, <1>3, <1>6, GotoType
<1> QED BY <1>7 DEF Request, history, TypeOK

LEMMA BeginType ==
    ASSUME TypeOK, NEW w \in Requests, NEW p \in Projects,
           BeginDelete(w, p) \/ BeginSuspend(w, p) \/ BeginResume(w, p) \/ BeginUpdate(w, p)
    PROVE  TypeOK'
<1>1. w \in Workers /\ store[p].status \in Status BY DEF Workers, TypeOK, Record
<1> QED BY <1>1, RequestType DEF BeginDelete, BeginSuspend, BeginResume, BeginUpdate, Status

LEMMA SaveStepType ==
    ASSUME TypeOK, NEW w \in Workers, Save(w)
    PROVE  TypeOK'
<1>1. work[w].project \in Projects /\ work[w].copy \in Record
  BY JobFields DEF Save, At, HasSubject
<1>2. RecordsTyped' /\ faults' \in 0..MaxFaults BY <1>1, SaveType DEF Save
<1> QED BY <1>2, DoneType, WriteType DEF Save

LEMMA NextType == TypeOK /\ [Next]_vars => TypeOK'
<1> SUFFICES ASSUME TypeOK, [Next]_vars PROVE TypeOK' OBVIOUS
<1>1. ASSUME NEW w \in Workers, Step(w) PROVE TypeOK'
  BY <1>1, JudgeType, ForgetType, CancelType, StartType, SuspendType, PauseType, ReadToDeleteType,
     SaveDeletingType, DestroyType, SaveDeletedType, SaveStepType DEF Step
<1>2. ASSUME NEW u \in Users, MoneyMoves(u) \/ RefuseDeploy(u) PROVE TypeOK'
  BY <1>2, OutsideType
<1>3. CASE BeginRound
  BY <1>3, OwnerAssumption DEF BeginRound, history, TypeOK
<1>4. CASE UNCHANGED vars BY <1>4 DEF vars, TypeOK
<1> QED BY <1>1, <1>2, <1>3, <1>4, TickType, RestartType, BeginCheckType, BeginType DEF Next

\* What the variables may hold.
THEOREM TypeCorrect == Spec => []TypeOK
BY InitType, NextType, PTL DEF Spec

-----------------------------------------------------------------------------
(* A grace period is as old as it should be *)

LEMMA InitYoung == Init => GraceIsYoung
BY DEF Init, GraceIsYoung

LEMMA YoungUntouched ==
    ASSUME GraceIsYoung, UNCHANGED <<grace, clear>>
    PROVE  GraceIsYoung'
BY DEF GraceIsYoung

LEMMA TickYoung ==
    ASSUME IInv, Tick
    PROVE  GraceIsYoung'
<1> SUFFICES ASSUME NEW u \in Users, grace'[u] # NoDeadline
             PROVE  Grace - grace'[u] <= clear'[u] + Lag
  BY DEF GraceIsYoung
<1>1. grace'[u] = Later(grace[u]) /\ clear'[u] = Since(clear[u], Grace) BY DEF Tick
<1>2. grace[u] \in Left(Grace) /\ clear[u] \in 0..Grace BY DEF IInv, TypeOK
<1>3. grace[u] # NoDeadline BY <1>1 DEF Later
<1>4. grace[u] \in (-Lag)..Grace /\ Grace - grace[u] <= clear[u] + Lag
  BY <1>2, <1>3 DEF IInv, GraceIsYoung, Left
<1>5. CASE clear[u] = Grace
  <2>1. clear'[u] = Grace BY <1>1, <1>5 DEF Since
  <2>2. grace'[u] \in (-Lag)..Grace BY <1>1, <1>3, <1>4, TimeAssumption DEF Later
  <2> QED BY <2>1, <2>2, TimeAssumption
<1>6. CASE clear[u] # Grace
  <2>1. clear'[u] = clear[u] + 1 BY <1>1, <1>6 DEF Since
  <2>2. grace'[u] \in Int /\ grace'[u] >= grace[u] - 1 BY <1>1, <1>3, <1>4, TimeAssumption DEF Later
  <2> QED BY <1>2, <1>4, <2>1, <2>2, TimeAssumption
<1> QED BY <1>5, <1>6

LEMMA ForgetYoung ==
    ASSUME IInv, NEW w \in Workers, Forget(w)
    PROVE  GraceIsYoung'
<1>1. work[w].user \in Users BY JobFields DEF IInv, Forget, At, HasSubject, CheckPc
<1> QED BY <1>1 DEF Forget, GraceIsYoung, IInv, TypeOK

LEMMA StartYoung ==
    ASSUME IInv, NEW w \in Workers, Start(w)
    PROVE  GraceIsYoung'
<1> DEFINE s == work[w].user
<1>1. s \in Users /\ work[w].age \in 0..Lag
  BY JobFields DEF IInv, Start, At, HasSubject, CheckPc
<1> SUFFICES ASSUME NEW u \in Users, grace'[u] # NoDeadline
             PROVE  Grace - grace'[u] <= clear'[u] + Lag
  BY DEF GraceIsYoung
<1>2. clear'[u] = clear[u] /\ clear[u] \in 0..Grace BY DEF Start, history, IInv, TypeOK
<1>3. grace'[u] = grace[u] \/ grace'[u] = Grace - work[w].age BY DEF Start, IInv, TypeOK
<1>4. CASE grace'[u] = grace[u] BY <1>2, <1>4 DEF IInv, GraceIsYoung
<1>5. CASE grace'[u] = Grace - work[w].age BY <1>1, <1>2, <1>5, TimeAssumption
<1> QED BY <1>3, <1>4, <1>5

LEMMA RefuseYoung ==
    ASSUME IInv, NEW r \in Users, RefuseDeploy(r)
    PROVE  GraceIsYoung'
<1> SUFFICES ASSUME NEW u \in Users, grace'[u] # NoDeadline
             PROVE  Grace - grace'[u] <= clear'[u] + Lag
  BY DEF GraceIsYoung
<1>1. clear'[u] = clear[u] /\ clear[u] \in 0..Grace BY DEF RefuseDeploy, history, IInv, TypeOK
<1>2. grace'[u] = grace[u] \/ grace'[u] = Grace BY DEF RefuseDeploy, IInv, TypeOK
<1>3. CASE grace'[u] = grace[u] BY <1>1, <1>3 DEF IInv, GraceIsYoung
<1>4. CASE grace'[u] = Grace BY <1>1, <1>4, TimeAssumption
<1> QED BY <1>2, <1>3, <1>4

LEMMA NextYoung == IInv /\ [Next]_vars => GraceIsYoung'
<1> SUFFICES ASSUME IInv, [Next]_vars PROVE GraceIsYoung' OBVIOUS
<1>0. GraceIsYoung BY DEF IInv
<1>1. ASSUME NEW w \in Workers, Step(w) PROVE GraceIsYoung'
  <2>1. CASE Forget(w) BY <2>1, ForgetYoung
  <2>2. CASE Start(w) BY <2>2, StartYoung
  <2>3. CASE Judge(w) \/ Cancel(w) \/ Pause(w) \/ ReadToDelete(w) \/ Destroy(w)
    BY <1>0, <2>3, YoungUntouched DEF Judge, Cancel, Pause, ReadToDelete, Destroy, history
  <2>4. CASE Suspend(w) \/ SaveDeleting(w) \/ SaveDeleted(w) \/ Save(w)
    BY <1>0, <2>4, YoungUntouched DEF Suspend, SaveDeleting, SaveDeleted, Save
  <2> QED BY <1>1, <2>1, <2>2, <2>3, <2>4 DEF Step
<1>2. ASSUME NEW u \in Users, MoneyMoves(u) \/ RefuseDeploy(u) PROVE GraceIsYoung'
  BY <1>0, <1>2, RefuseYoung, YoungUntouched DEF MoneyMoves, history
<1>3. CASE Restart BY <1>3 DEF Restart, GraceIsYoung
<1>4. ASSUME NEW w \in Workers, NEW u \in Users, BeginCheck(w, u) PROVE GraceIsYoung'
  BY <1>0, <1>4, YoungUntouched DEF BeginCheck, history
<1>5. ASSUME NEW w \in Requests, NEW p \in Projects,
             BeginDelete(w, p) \/ BeginSuspend(w, p) \/ BeginResume(w, p) \/ BeginUpdate(w, p)
      PROVE  GraceIsYoung'
  BY <1>0, <1>5, YoungUntouched DEF BeginDelete, BeginSuspend, BeginResume, BeginUpdate, Request, history
<1>6. CASE BeginRound \/ UNCHANGED vars BY <1>0, <1>6, YoungUntouched DEF BeginRound, vars, history
<1> QED BY <1>1, <1>2, <1>3, <1>4, <1>5, <1>6, TickYoung DEF Next

\* A grace period that is over began when it was long since clear that none ran.
LEMMA JudgedAfterGrace ==
    ASSUME IInv, NEW w \in Workers, Judge(w), At(w, "enforce")'
    PROVE  clear[work[w].user] >= Grace - Lag
<1> DEFINE u == work[w].user
<1>1. u \in Users /\ work[w] \in Job /\ work[w].age \in 0..Lag
  BY JobFields DEF IInv, Judge, At, HasSubject, CheckPc
<1>2. work'[w].pc = "enforce" BY DEF At
<1>3. ASSUME NEW job, Goto(w, job) PROVE work'[w] = job BY <1>3 DEF Goto, IInv, TypeOK
<1>4. Over(grace[u], work[w].age)
  <2>1. ~Goto(w, Idle) BY <1>2, <1>3, IdleJob
  <2>2. ~Goto(w, [work[w] EXCEPT !.pc = "forget", !.todo = Scheduled(work[w])])
    BY <1>1, <1>2, <1>3 DEF Job
  <2>3. ~Goto(w, [work[w] EXCEPT !.pc = "start", !.todo = {}]) BY <1>1, <1>2, <1>3 DEF Job
  <2> QED BY <2>1, <2>2, <2>3 DEF Judge, Done, Abort
<1>5. grace[u] \in (-Lag)..Grace /\ clear[u] \in 0..Grace
  BY <1>1, <1>4 DEF Over, IInv, TypeOK, Left
<1>6. Grace - grace[u] <= clear[u] + Lag BY <1>1, <1>4 DEF Over, IInv, GraceIsYoung
<1> QED BY <1>1, <1>4, <1>5, <1>6, TimeAssumption DEF Over

\* What one goroutine does, the others do not notice.
LEMMA OthersUnmoved ==
    ASSUME TypeOK, NEW x \in Workers, NEW w \in Workers, w # x, Step(x)
    PROVE  work'[w] = work[w]
<1>1. ASSUME NEW job, Goto(x, job) PROVE work'[w] = work[w] BY <1>1 DEF Goto, TypeOK
<1>2. Done(x) \/ Abort(x) => work'[w] = work[w] BY <1>1 DEF Done, Abort
<1>3. ASSUME NEW pc, NEW todo, GoOn(x, pc, todo) PROVE work'[w] = work[w] BY <1>1, <1>3 DEF GoOn
<1>4. CASE Judge(x) BY <1>1, <1>2, <1>3, <1>4 DEF Judge
<1>5. CASE Forget(x) \/ Cancel(x) \/ Start(x) \/ Suspend(x) \/ Pause(x)
  BY <1>1, <1>2, <1>3, <1>5 DEF Forget, Cancel, Start, Suspend, Pause
<1>6. CASE ReadToDelete(x) \/ SaveDeleting(x) \/ Destroy(x) \/ SaveDeleted(x) \/ Save(x)
  BY <1>1, <1>2, <1>3, <1>6 DEF ReadToDelete, SaveDeleting, Destroy, SaveDeleted, Save
<1> QED BY <1>4, <1>5, <1>6 DEF Step

LEMMA OnlyJudgeDecides ==
    ASSUME TypeOK, [Next]_vars, NEW w \in Workers, At(w, "judge"), At(w, "enforce")'
    PROVE  Judge(w)
<1>1. work[w].pc = "judge" /\ work'[w].pc = "enforce" /\ work[w] \in Job BY JobFields DEF At
<1>2. work'[w] # work[w] BY <1>1
<1>3. ASSUME NEW x \in Workers, Step(x) PROVE Judge(w)
  <2>1. x = w BY <1>2, <1>3, OthersUnmoved
  <2> QED BY <1>1, <1>3, <2>1 DEF Step, At, Forget, Cancel, Start, Suspend, Pause,
             ReadToDelete, SaveDeleting, Destroy, SaveDeleted, Save
<1>4. ~Tick
  <2>1. ASSUME Tick PROVE work'[w].pc = work[w].pc BY <1>1, <2>1 DEF Tick, Job, At
  <2> QED BY <1>1, <2>1
<1>5. ~Restart BY <1>1, IdleJob DEF Restart
<1>6. ASSUME NEW x \in Workers, work[x].pc = "idle", NEW job, Goto(x, job) PROVE FALSE
  BY <1>1, <1>2, <1>6 DEF Goto, TypeOK
<1>7. ASSUME NEW x \in Workers, NEW u \in Users PROVE ~BeginCheck(x, u)
  BY <1>6 DEF BeginCheck, At
<1>8. ASSUME NEW x \in Requests, NEW p \in Projects
      PROVE  ~(BeginDelete(x, p) \/ BeginSuspend(x, p) \/ BeginResume(x, p) \/ BeginUpdate(x, p))
  BY <1>6 DEF BeginDelete, BeginSuspend, BeginResume, BeginUpdate, Request, At, Workers
<1>9. ~(BeginRound \/ UNCHANGED vars \/ \E u \in Users : MoneyMoves(u) \/ RefuseDeploy(u))
  BY <1>2 DEF BeginRound, vars, MoneyMoves, RefuseDeploy
<1> QED BY <1>3, <1>4, <1>5, <1>7, <1>8, <1>9 DEF Next

\* The guard decides to suspend or delete projects only when a grace period has run
\* to its end since a check last found money or the process last started.
THEOREM NoHastyDecision == Spec => SuspendedOnlyAfterGrace
<1>1. Init => IInv BY InitType, InitYoung DEF IInv
<1>2. IInv /\ [Next]_vars => IInv' BY NextType, NextYoung DEF IInv
<1>3. IInv /\ [Next]_vars =>
        [\A w \in Workers :
           At(w, "judge") /\ At(w, "enforce")' => clear[work[w].user] >= Grace - Lag]_vars
  BY OnlyJudgeDecides, JudgedAfterGrace DEF IInv
<1> QED BY <1>1, <1>2, <1>3, PTL DEF Spec, SuspendedOnlyAfterGrace
-----------------------------------------------------------------------------
(* Deletion comes when it is due *)

\* The deadline of a record the guard has written last is as late as it should be,
\* but for the delay of the check that wrote it.
DueIsLate ==
    \A p \in Projects :
        untouched[p] /\ store[p].due # NoDeadline => Retention - store[p].due <= suspended[p] + Lag

\* So is the deadline a check has listed, unless the project was suspended since.
ListedIsLate ==
    \A w \in Workers : \A p \in work[w].todo :
        /\ ~At(w, "idle") /\ work[w].listed[p].due # NoDeadline
        /\ untouched[p] /\ suspended[p] > work[w].age
        => Retention - work[w].listed[p].due <= suspended[p] + Lag

\* What a check may suspend or delete, going by what it has listed.
Decided(job, p) ==
    \/ job.listed[p].status = "active"
    \/ /\ job.listed[p].status = "suspended"
       /\ job.listed[p].due # NoDeadline /\ Over(job.listed[p].due, job.age)

\* A check that suspends and deletes goes through what it decided to.
Deciding == {"enforce", "pause", "saveDeleting", "destroy", "saveDeleted"}
TodoIsDecided ==
    \A w \in Workers : work[w].pc \in Deciding => \A p \in work[w].todo : Decided(work[w], p)

\* What DeletedOnlyAfterRetention asks for, as long as the deletion is to be saved.
DeletionIsDue ==
    \A w \in Workers :
        LET p == work[w].project IN
        /\ At(w, "saveDeleting") /\ work[w].user # NoUser /\ untouched[p]
        => suspended[p] >= Retention - Lag \/ suspended[p] <= work[w].age

DueInv == TypeOK /\ DueIsLate /\ ListedIsLate /\ TodoIsDecided /\ DeletionIsDue

\* What a step that takes no time does to a record.
SameRecord(p) == store'[p] = store[p] /\ untouched'[p] = untouched[p] /\ suspended'[p] = suspended[p]
RecordMoves(p) ==
    \/ SameRecord(p)
    \/ untouched'[p] = FALSE
    \/ /\ suspended'[p] = 0
       /\ store'[p].due = NoDeadline \/ \E a \in 0..Lag : store'[p].due = Retention - a

\* What it does to a goroutine: nothing, or the goroutine has no project left to do,
\* lists some, goes on with some of those it had, or turns to one it deletes.
HasNoTodo(w) == work'[w].todo = {} /\ ~(work'[w].pc = "saveDeleting" /\ work'[w].user # NoUser)
Lists(w) ==
    /\ work'[w].pc = "judge" /\ work'[w].todo \subseteq Projects
    /\ \A p \in work'[w].todo : SameRecord(p) /\ work'[w].listed[p] = store[p]
SameCheck(w) ==
    /\ work[w].pc # "idle" /\ work'[w].todo \subseteq work[w].todo
    /\ work'[w].listed = work[w].listed /\ work'[w].age = work[w].age
GoesOn(w) ==
    /\ SameCheck(w) /\ work'[w].pc # "saveDeleting"
    /\ work'[w].pc \in Deciding => \A p \in work'[w].todo : Decided(work[w], p)
Deletes(w) ==
    /\ SameCheck(w) /\ work[w].pc = "enforce" /\ ToSuspend(work[w]) = {}
    /\ work'[w].project \in work[w].todo /\ \A p \in Projects : SameRecord(p)
JobMoves(w) == work'[w] = work[w] \/ HasNoTodo(w) \/ Lists(w) \/ GoesOn(w) \/ Deletes(w)

LEMMA InitDue == Init => DueInv
<1> SUFFICES ASSUME Init PROVE DueInv OBVIOUS
<1>1. TypeOK BY InitType
<1>2. \A w \in Workers : work[w] = Idle BY DEF Init
<1>3. DueIsLate BY DEF Init, DueIsLate
<1>4. ListedIsLate /\ TodoIsDecided /\ DeletionIsDue
  BY <1>2 DEF Idle, ListedIsLate, TodoIsDecided, DeletionIsDue, At
<1> QED BY <1>1, <1>3, <1>4 DEF DueInv

\* A check that has listed a project whose time was over deletes it when it is due.
LEMMA DeletesWhenDue ==
    ASSUME DueInv, NEW w \in Workers, Deletes(w), NEW p, p = work'[w].project, untouched[p]
    PROVE  suspended[p] >= Retention - Lag \/ suspended[p] <= work[w].age
<1>1. p \in work[w].todo /\ p \in Projects BY JobFields DEF Deletes, DueInv
<1>2. Decided(work[w], p) BY <1>1 DEF Deletes, DueInv, TodoIsDecided, Deciding
<1> DEFINE due == work[w].listed[p].due
<1>3. due # NoDeadline /\ Over(due, work[w].age) BY <1>1, <1>2 DEF Deletes, ToSuspend, Decided
<1>4. work[w].age \in Nat /\ suspended[p] \in Nat /\ due \in Left(Retention)
  BY <1>1, JobFields DEF DueInv, TypeOK, Record
<1>5. due \in Int /\ due + work[w].age <= 0 BY <1>3, <1>4, TimeAssumption DEF Over, Left
<1>6. suspended[p] > work[w].age => Retention - due <= suspended[p] + Lag
  BY <1>1, <1>3 DEF Deletes, SameCheck, DueInv, ListedIsLate, At
<1> HIDE DEF due
<1> QED BY <1>4, <1>5, <1>6, TimeAssumption

LEMMA MovesDue ==
    ASSUME DueInv, TypeOK', \A p \in Projects : RecordMoves(p), \A w \in Workers : JobMoves(w)
    PROVE  DueInv'
<1>1. DueIsLate'
  <2> SUFFICES ASSUME NEW p \in Projects, untouched'[p], store'[p].due # NoDeadline
               PROVE  Retention - store'[p].due <= suspended'[p] + Lag
    BY DEF DueIsLate
  <2>1. CASE SameRecord(p) BY <2>1 DEF SameRecord, DueInv, DueIsLate
  <2>2. CASE suspended'[p] = 0 /\ \E a \in 0..Lag : store'[p].due = Retention - a
    BY <2>2, TimeAssumption
  <2> QED BY <2>1, <2>2 DEF RecordMoves
<1>2. ASSUME NEW w \in Workers PROVE work'[w].age \in 0..Lag /\ work[w].age \in 0..Lag
  BY DEF DueInv, TypeOK, Job
<1>3. ASSUME NEW w \in Workers, NEW p \in Projects, untouched'[p], suspended'[p] > work'[w].age
      PROVE  SameRecord(p)
  BY <1>2, <1>3, TimeAssumption DEF RecordMoves
<1>4. ListedIsLate'
  <2> SUFFICES ASSUME NEW w \in Workers, NEW p \in work'[w].todo, untouched'[p],
                      suspended'[p] > work'[w].age, work'[w].listed[p].due # NoDeadline,
                      work'[w].pc # "idle"
               PROVE  Retention - work'[w].listed[p].due <= suspended'[p] + Lag
    BY DEF ListedIsLate, At
  <2>1. p \in Projects BY DEF TypeOK, Job
  <2>2. SameRecord(p) BY <1>3, <2>1
  <2>3. CASE work'[w] = work[w] BY <2>2, <2>3 DEF SameRecord, DueInv, ListedIsLate, At
  <2>4. CASE Lists(w) BY <2>1, <2>2, <2>4 DEF Lists, SameRecord, DueInv, DueIsLate
  <2>5. CASE SameCheck(w) BY <2>2, <2>5 DEF SameCheck, SameRecord, DueInv, ListedIsLate, At
  <2> QED BY <2>3, <2>4, <2>5 DEF JobMoves, HasNoTodo, GoesOn, Deletes
<1>5. TodoIsDecided'
  <2> SUFFICES ASSUME NEW w \in Workers, work'[w].pc \in Deciding, NEW p \in work'[w].todo
               PROVE  Decided(work'[w], p)
    BY DEF TodoIsDecided
  <2>1. CASE work'[w] = work[w] BY <2>1 DEF DueInv, TodoIsDecided
  <2>2. CASE Lists(w) BY <2>2 DEF Lists, Deciding
  <2>3. CASE GoesOn(w) BY <2>3 DEF GoesOn, SameCheck, Decided
  <2>4. CASE Deletes(w)
    <3>1. Decided(work[w], p) BY <2>4 DEF Deletes, SameCheck, DueInv, TodoIsDecided, Deciding
    <3> QED BY <2>4, <3>1 DEF Deletes, SameCheck, Decided
  <2> QED BY <2>1, <2>2, <2>3, <2>4 DEF JobMoves, HasNoTodo
<1>6. DeletionIsDue'
  <2> SUFFICES ASSUME NEW w \in Workers, work'[w].pc = "saveDeleting", work'[w].user # NoUser,
                      NEW p, p = work'[w].project, untouched'[p]
               PROVE  suspended'[p] >= Retention - Lag \/ suspended'[p] <= work'[w].age
    BY DEF DeletionIsDue, At
  <2>1. p \in Projects BY DEF TypeOK, HasSubject
  <2>2. suspended'[p] \in Nat BY <2>1 DEF TypeOK
  <2>3. CASE ~SameRecord(p) BY <1>2, <1>3, <2>1, <2>2, <2>3
  <2>4. CASE SameRecord(p) /\ work'[w] = work[w]
    BY <2>4 DEF SameRecord, DueInv, DeletionIsDue, At
  <2>5. CASE SameRecord(p) /\ Deletes(w)
    <3>1. untouched[p] BY <2>5 DEF SameRecord
    <3>2. suspended[p] >= Retention - Lag \/ suspended[p] <= work[w].age
      BY <2>5, <3>1, DeletesWhenDue
    <3> QED BY <2>5, <3>2 DEF SameRecord, Deletes, SameCheck
  <2> QED BY <2>3, <2>4, <2>5 DEF JobMoves, HasNoTodo, Lists, GoesOn
<1> QED BY <1>1, <1>4, <1>5, <1>6 DEF DueInv
LEMMA LaterFields ==
    ASSUME NEW rec \in Record
    PROVE  /\ LaterRecord(rec).status = rec.status /\ LaterRecord(rec).due = Later(rec.due)
           /\ rec.due \in Left(Retention)
BY DEF LaterRecord, Record

LEMMA TickDue ==
    ASSUME DueInv, TypeOK', Tick
    PROVE  DueInv'
<1>1. ASSUME NEW p \in Projects
      PROVE  /\ store'[p].due = Later(store[p].due) /\ untouched'[p] = untouched[p]
             /\ suspended'[p] = Since(suspended[p], Retention)
             /\ suspended[p] \in 0..Retention /\ store[p].due \in Left(Retention)
  <2>1. store'[p] = LaterRecord(store[p]) BY DEF Tick
  <2>2. store[p] \in Record BY DEF DueInv, TypeOK
  <2>3. untouched'[p] = untouched[p] /\ suspended'[p] = Since(suspended[p], Retention)
    BY DEF Tick
  <2> QED BY <2>1, <2>2, <2>3, LaterFields DEF DueInv, TypeOK
<1>2. ASSUME NEW w \in Workers, work[w].pc # "idle"
      PROVE  /\ work'[w].pc = work[w].pc /\ work'[w].user = work[w].user
             /\ work'[w].project = work[w].project /\ work'[w].todo = work[w].todo
             /\ work'[w].age = work[w].age + 1 /\ work[w].age \in Nat /\ work[w].age < Lag
             /\ work[w].todo \subseteq Projects
             /\ \A p \in Projects : /\ work'[w].listed[p].status = work[w].listed[p].status
                                    /\ work'[w].listed[p].due = Later(work[w].listed[p].due)
                                    /\ work[w].listed[p].due \in Left(Retention)
  <2> DEFINE job == [work[w] EXCEPT !.age = work[w].age + 1, !.copy = LaterRecord(work[w].copy),
                       !.listed = [p \in Projects |-> LaterRecord(work[w].listed[p])]]
  <2>1. work'[w] = job /\ work[w].age < Lag BY <1>2 DEF Tick, At
  <2>2. /\ work[w] \in Job /\ work[w].age \in Nat /\ work[w].todo \subseteq Projects
        /\ \A p \in Projects : work[w].listed[p] \in Record
    BY DEF DueInv, TypeOK, Job
  <2>3. /\ job.pc = work[w].pc /\ job.user = work[w].user /\ job.project = work[w].project
        /\ job.todo = work[w].todo /\ job.age = work[w].age + 1
        /\ job.listed = [p \in Projects |-> LaterRecord(work[w].listed[p])]
    BY <2>2 DEF Job
  <2> HIDE DEF job
  <2>4. \A p \in Projects : job.listed[p] = LaterRecord(work[w].listed[p]) BY <2>3
  <2> QED BY <2>1, <2>2, <2>3, <2>4, LaterFields
<1>3. ASSUME NEW w \in Workers, work[w].pc = "idle" PROVE work'[w] = work[w]
  BY <1>3 DEF Tick, At
<1>4. ASSUME NEW left \in Left(Retention), NEW s \in 0..Retention, Later(left) # NoDeadline,
             left # NoDeadline => Retention - left <= s + Lag
      PROVE  Retention - Later(left) <= Since(s, Retention) + Lag
  BY <1>4, TimeAssumption DEF Left, Later, Since
<1>5. DueIsLate'
  BY <1>1, <1>4 DEF DueInv, DueIsLate
<1>6. ASSUME NEW w \in Workers, NEW p \in Projects
      PROVE  suspended[p] <= work[w].age /\ work[w].pc # "idle" => suspended'[p] <= work'[w].age
  BY <1>1, <1>2, TimeAssumption DEF Since
<1>7. ListedIsLate'
  <2> SUFFICES ASSUME NEW w \in Workers, NEW p \in work'[w].todo, untouched'[p],
                      suspended'[p] > work'[w].age, work'[w].listed[p].due # NoDeadline,
                      work'[w].pc # "idle"
               PROVE  Retention - work'[w].listed[p].due <= suspended'[p] + Lag
    BY DEF ListedIsLate, At
  <2>1. work[w].pc # "idle" BY <1>3
  <2>2. p \in Projects /\ p \in work[w].todo BY <1>2, <2>1
  <2> DEFINE due == work[w].listed[p].due
  <2>3. work'[w].listed[p].due = Later(due) /\ due \in Left(Retention) BY <1>2, <2>1, <2>2
  <2>4. suspended[p] > work[w].age
    <3>1. suspended[p] \in Nat /\ work[w].age \in Nat BY <1>1, <1>2, <2>1, <2>2
    <3>2. suspended'[p] \in Nat /\ work'[w].age \in Nat
      BY <1>1, <1>2, <2>1, <2>2, <3>1, TimeAssumption DEF Since
    <3>3. ~(suspended'[p] <= work'[w].age) BY <3>2
    <3> QED BY <1>6, <2>1, <2>2, <3>1, <3>3
  <2>5. due # NoDeadline => Retention - due <= suspended[p] + Lag
    BY <1>1, <2>1, <2>2, <2>4 DEF DueInv, ListedIsLate, At
  <2> HIDE DEF due
  <2>6. Later(due) # NoDeadline BY <2>3
  <2>7. due # NoDeadline BY <2>6 DEF Later
  <2>8. suspended[p] \in 0..Retention /\ suspended'[p] = Since(suspended[p], Retention)
    BY <1>1, <2>2
  <2>9. Retention - Later(due) <= Since(suspended[p], Retention) + Lag
    BY <1>4, <2>3, <2>5, <2>6, <2>8
  <2> QED BY <2>3, <2>8, <2>9
<1>8. TodoIsDecided'
  <2> SUFFICES ASSUME NEW w \in Workers, work'[w].pc \in Deciding, NEW p \in work'[w].todo
               PROVE  Decided(work'[w], p)
    BY DEF TodoIsDecided
  <2>1. work[w].pc # "idle" /\ work[w].pc \in Deciding BY <1>2, <1>3 DEF Deciding
  <2>2. p \in Projects /\ p \in work[w].todo /\ Decided(work[w], p)
    BY <1>2, <2>1 DEF DueInv, TodoIsDecided
  <2>3. CASE work[w].listed[p].status = "active" BY <1>2, <2>1, <2>2, <2>3 DEF Decided
  <2>4. CASE work[w].listed[p].status # "active"
    <3> DEFINE due == work[w].listed[p].due
    <3>1. work[w].listed[p].status = "suspended" /\ due # NoDeadline /\ Over(due, work[w].age)
      BY <2>2, <2>4 DEF Decided
    <3>2. work'[w].listed[p].due = Later(due) /\ due \in Left(Retention) BY <1>2, <2>1, <2>2
    <3>3. work'[w].age = work[w].age + 1 /\ work[w].age \in Nat /\ work[w].age < Lag
      BY <1>2, <2>1
    <3>4. Later(due) # NoDeadline /\ Over(Later(due), work[w].age + 1)
      <4> HIDE DEF due
      <4> QED BY <3>1, <3>2, <3>3, TimeAssumption DEF Over, Later, Left
    <3> QED BY <1>2, <2>1, <2>2, <3>1, <3>2, <3>3, <3>4 DEF Decided
  <2> QED BY <2>3, <2>4
<1>9. DeletionIsDue'
  <2> SUFFICES ASSUME NEW w \in Workers, work'[w].pc = "saveDeleting", work'[w].user # NoUser,
                      NEW p, p = work'[w].project, untouched'[p]
               PROVE  suspended'[p] >= Retention - Lag \/ suspended'[p] <= work'[w].age
    BY DEF DeletionIsDue, At
  <2>1. work[w].pc # "idle" BY <1>3
  <2>2. work[w].pc = "saveDeleting" /\ work[w].user # NoUser /\ p = work[w].project
    BY <1>2, <2>1
  <2>3. p \in Projects BY <2>2 DEF DueInv, TypeOK, HasSubject
  <2>4. suspended[p] >= Retention - Lag \/ suspended[p] <= work[w].age
    BY <1>1, <2>2, <2>3 DEF DueInv, DeletionIsDue, At
  <2>5. suspended'[p] >= suspended[p] BY <1>1, <2>3, TimeAssumption DEF Since
  <2>6. suspended'[p] \in Nat /\ suspended[p] \in Nat BY <2>3 DEF TypeOK, DueInv
  <2> QED BY <1>6, <2>1, <2>3, <2>4, <2>5, <2>6, TimeAssumption
<1> QED BY <1>5, <1>7, <1>8, <1>9 DEF DueInv
\* Records, step by step.
LEMMA PutMoves ==
    ASSUME DueInv, NEW r \in Projects, NEW rec \in Record, NEW byGuard \in BOOLEAN,
           Put(r, rec, byGuard),
           byGuard => \E a \in 0..Lag : rec.due = Retention - a,
           NEW p \in Projects
    PROVE  RecordMoves(p)
<1>1. CASE p # r BY <1>1 DEF Put, DueInv, TypeOK, RecordMoves, SameRecord
<1>2. CASE p = r /\ ~byGuard BY <1>2 DEF Put, DueInv, TypeOK, RecordMoves
<1>3. CASE p = r /\ byGuard
  <2>1. suspended'[p] = 0 BY <1>3 DEF Put, DueInv, TypeOK
  <2>2. store'[p] = IF KeepsSchedule THEN rec ELSE [rec EXCEPT !.due = NoDeadline]
    BY <1>3 DEF Put, DueInv, TypeOK
  <2>3. store'[p].due = rec.due \/ store'[p].due = NoDeadline BY <2>2 DEF Record
  <2> QED BY <1>3, <2>1, <2>3 DEF RecordMoves
<1> QED BY <1>1, <1>2, <1>3

LEMMA SaveMoves ==
    ASSUME DueInv, NEW r \in Projects, NEW rec \in Record, NEW byGuard \in BOOLEAN,
           Saved(r, rec, byGuard) \/ SaveFailed(r, rec, byGuard) \/ NoPut,
           byGuard => \E a \in 0..Lag : rec.due = Retention - a,
           NEW p \in Projects
    PROVE  RecordMoves(p)
BY PutMoves DEF Saved, SaveFailed, NoPut, RecordMoves, SameRecord

LEMMA NoRecordMoves ==
    ASSUME UNCHANGED <<store, untouched, suspended>>, NEW p
    PROVE  SameRecord(p) /\ RecordMoves(p)
BY DEF RecordMoves, SameRecord

LEMMA UnpaidDue ==
    ASSUME NEW job, job.age \in 0..Lag
    PROVE  Unpaid(job) \in Record /\ \E a \in 0..Lag : Unpaid(job).due = Retention - a
BY TimeAssumption DEF Unpaid, Record, Status, Left

LEMMA StepRecordMoves ==
    ASSUME DueInv, NEW w \in Workers, Step(w), NEW p \in Projects
    PROVE  RecordMoves(p)
<1>1. work[w] \in Job /\ work[w].age \in 0..Lag /\ work[w].copy \in Record
  BY JobFields DEF DueInv
<1>2. CASE Judge(w) \/ Forget(w) \/ Start(w) \/ Pause(w) \/ ReadToDelete(w) \/ Destroy(w)
  BY <1>2, NoRecordMoves DEF Judge, Forget, Start, Pause, ReadToDelete, Destroy, history
<1>3. CASE Cancel(w)
  <2>1. PICK r \in Projects :
            store' = [store EXCEPT ![r] = [work[w].listed[r] EXCEPT !.due = NoDeadline]]
            /\ untouched' = [untouched EXCEPT ![r] = FALSE] /\ suspended' = suspended
    BY <1>3, JobFields DEF Cancel, DueInv
  <2> QED BY <2>1 DEF DueInv, TypeOK, RecordMoves, SameRecord
<1>4. CASE Suspend(w)
  <2>1. PICK r \in ToSuspend(work[w]) :
            Saved(r, Unpaid(work[w]), TRUE) \/ SaveFailed(r, Unpaid(work[w]), TRUE)
    BY <1>4 DEF Suspend
  <2>2. r \in Projects BY JobFields DEF ToSuspend, DueInv
  <2> QED BY <1>1, <2>1, <2>2, UnpaidDue, SaveMoves
<1>5. CASE SaveDeleting(w) \/ SaveDeleted(w) \/ Save(w)
  <2>1. work[w].project \in Projects
    BY <1>5, JobFields DEF SaveDeleting, SaveDeleted, Save, At, HasSubject, DueInv
  <2>2. Saved(work[w].project, work[w].copy, FALSE) \/ SaveFailed(work[w].project, work[w].copy, FALSE)
    BY <1>5 DEF SaveDeleting, SaveDeleted, Save
  <2> QED BY <1>1, <2>1, <2>2, SaveMoves
<1> QED BY <1>2, <1>3, <1>4, <1>5 DEF Step

\* Goroutines, step by step.
LEMMA GotoMoves ==
    ASSUME DueInv, NEW w \in Workers, NEW job, Goto(w, job)
    PROVE  work'[w] = job /\ \A x \in Workers : x # w => work'[x] = work[x]
BY DEF Goto, DueInv, TypeOK

LEMMA IdleMoves ==
    ASSUME DueInv, NEW w \in Workers, Done(w) \/ Abort(w)
    PROVE  HasNoTodo(w)
<1>1. Goto(w, Idle) BY DEF Done, Abort
<1> QED BY <1>1, GotoMoves DEF Idle, HasNoTodo

LEMMA GoOnMoves ==
    ASSUME DueInv, NEW w \in Workers, work[w].pc # "idle",
           NEW pc \in {"cancel", "enforce"}, NEW todo, todo \subseteq work[w].todo,
           GoOn(w, pc, todo), pc = "enforce" => \A p \in todo : Decided(work[w], p)
    PROVE  HasNoTodo(w) \/ GoesOn(w)
<1> DEFINE job == [work[w] EXCEPT !.pc = pc, !.project = NoProject, !.copy = Blank, !.todo = todo]
<1>1. CASE todo = {}
  <2>1. Goto(w, Idle) BY <1>1 DEF GoOn
  <2> QED BY <2>1, GotoMoves DEF Idle, HasNoTodo
<1>2. CASE todo # {}
  <2>1. work'[w] = job BY <1>2, GotoMoves DEF GoOn
  <2>2. /\ job.pc = pc /\ job.todo = todo
        /\ job.listed = work[w].listed /\ job.age = work[w].age
    BY JobFields DEF DueInv, Job
  <2> HIDE DEF job
  <2> QED BY <2>1, <2>2 DEF GoesOn, SameCheck, Deciding
<1> QED BY <1>1, <1>2

\* A check that is to suspend and delete has decided on all it has to do.
LEMMA DecidedTodo ==
    ASSUME DueInv, NEW w \in Workers, work[w].pc \in Deciding
    PROVE  \A p \in work[w].todo : Decided(work[w], p)
BY DEF DueInv, TodoIsDecided

LEMMA JudgeMoves ==
    ASSUME DueInv, NEW w \in Workers, Judge(w)
    PROVE  JobMoves(w)
<1>0. work[w] \in Job /\ work[w].pc = "judge" BY JobFields DEF DueInv, Judge, At
<1>1. CASE Goto(w, [work[w] EXCEPT !.pc = "forget", !.todo = Scheduled(work[w])])
  <2> DEFINE job == [work[w] EXCEPT !.pc = "forget", !.todo = Scheduled(work[w])]
  <2>1. work'[w] = job BY <1>1, GotoMoves
  <2>2. /\ job.pc = "forget" /\ job.todo = Scheduled(work[w])
        /\ job.listed = work[w].listed /\ job.age = work[w].age
    BY <1>0 DEF Job
  <2> HIDE DEF job
  <2> QED BY <1>0, <2>1, <2>2 DEF Scheduled, GoesOn, SameCheck, Deciding, JobMoves
<1>2. CASE Goto(w, [work[w] EXCEPT !.pc = "start", !.todo = {}])
  <2> DEFINE job == [work[w] EXCEPT !.pc = "start", !.todo = {}]
  <2>1. work'[w] = job BY <1>2, GotoMoves
  <2>2. job.pc = "start" /\ job.todo = {} BY <1>0 DEF Job
  <2> HIDE DEF job
  <2> QED BY <2>1, <2>2 DEF HasNoTodo, JobMoves
<1>3. CASE Done(w) \/ Abort(w) BY <1>3, IdleMoves DEF JobMoves
<1>4. CASE GoOn(w, "enforce", ToSuspend(work[w]) \cup ToDelete(work[w]))
  <2>1. \A p \in ToSuspend(work[w]) \cup ToDelete(work[w]) : Decided(work[w], p)
    BY DEF ToSuspend, ToDelete, Scheduled, Decided
  <2>2. ToSuspend(work[w]) \cup ToDelete(work[w]) \subseteq work[w].todo
    BY DEF ToSuspend, ToDelete, Scheduled
  <2> QED BY <1>0, <1>4, <2>1, <2>2, GoOnMoves DEF JobMoves
<1> QED BY <1>1, <1>2, <1>3, <1>4 DEF Judge

\* A check turns to a project that it deletes.
LEMMA ReadMoves ==
    ASSUME DueInv, NEW w \in Workers, ReadToDelete(w)
    PROVE  JobMoves(w)
<1>0. work[w] \in Job /\ work[w].pc = "enforce" /\ ToSuspend(work[w]) = {}
  BY JobFields DEF DueInv, ReadToDelete, At
<1>1. PICK p \in work[w].todo :
          Goto(w, [work[w] EXCEPT !.pc = "saveDeleting", !.project = p, !.todo = work[w].todo \ {p},
                                  !.copy = [store[p] EXCEPT !.status = "deleting"]])
  BY DEF ReadToDelete
<1> DEFINE job == [work[w] EXCEPT !.pc = "saveDeleting", !.project = p, !.todo = work[w].todo \ {p},
                                  !.copy = [store[p] EXCEPT !.status = "deleting"]]
<1>2. work'[w] = job BY <1>1, GotoMoves
<1>3. /\ job.project = p /\ job.todo \subseteq work[w].todo
      /\ job.listed = work[w].listed /\ job.age = work[w].age
  BY <1>0 DEF Job
<1> HIDE DEF job
<1>4. \A q \in Projects : SameRecord(q) BY NoRecordMoves DEF ReadToDelete, history
<1> QED BY <1>0, <1>2, <1>3, <1>4 DEF Deletes, SameCheck, JobMoves

LEMMA SuspendMoves ==
    ASSUME DueInv, NEW w \in Workers, Suspend(w)
    PROVE  JobMoves(w)
<1>0. work[w] \in Job /\ work[w].pc = "enforce" BY JobFields DEF DueInv, Suspend, At
<1>1. CASE Abort(w) BY <1>1, IdleMoves DEF JobMoves
<1>2. ASSUME NEW p \in ToSuspend(work[w]),
             Goto(w, [work[w] EXCEPT !.pc = "pause", !.project = p, !.todo = work[w].todo \ {p}])
      PROVE  JobMoves(w)
  <2> DEFINE job == [work[w] EXCEPT !.pc = "pause", !.project = p, !.todo = work[w].todo \ {p}]
  <2>1. work'[w] = job BY <1>2, GotoMoves
  <2>2. /\ job.pc = "pause" /\ job.todo \subseteq work[w].todo
        /\ job.listed = work[w].listed /\ job.age = work[w].age
    BY <1>0 DEF Job
  <2> HIDE DEF job
  <2>3. \A q \in work[w].todo : Decided(work[w], q) BY <1>0, DecidedTodo DEF Deciding
  <2> QED BY <1>0, <2>1, <2>2, <2>3 DEF GoesOn, SameCheck, JobMoves
<1> QED BY <1>1, <1>2 DEF Suspend

LEMMA StepJobMoves ==
    ASSUME DueInv, NEW w \in Workers, Step(w)
    PROVE  JobMoves(w)
<1>0. work[w] \in Job BY JobFields DEF DueInv
<1>1. CASE Judge(w) \/ ReadToDelete(w) \/ Suspend(w) BY <1>1, JudgeMoves, ReadMoves, SuspendMoves
<1>2. CASE Forget(w)
  BY <1>2, GoOnMoves DEF Forget, At, JobMoves
<1>3. CASE Cancel(w)
  <2>1. PICK p \in work[w].todo : GoOn(w, "cancel", work[w].todo \ {p}) BY <1>3 DEF Cancel
  <2> QED BY <1>3, <2>1, GoOnMoves DEF Cancel, At, JobMoves
<1>4. CASE Start(w) \/ Save(w) BY <1>4, IdleMoves DEF Start, Save, JobMoves
<1>5. CASE Pause(w) \/ SaveDeleted(w)
  <2>1. work[w].pc # "idle" /\ \A p \in work[w].todo : Decided(work[w], p)
    BY <1>5, DecidedTodo DEF Pause, SaveDeleted, At, Deciding
  <2>2. GoOn(w, "enforce", work[w].todo) \/ Abort(w) BY <1>5 DEF Pause, SaveDeleted
  <2> QED BY <2>1, <2>2, GoOnMoves, IdleMoves DEF JobMoves
<1>6. CASE SaveDeleting(w) \/ Destroy(w)
  <2>1. work[w].pc \in Deciding /\ work[w].pc # "idle"
    BY <1>6 DEF SaveDeleting, Destroy, At, Deciding
  <2>2. \A p \in work[w].todo : Decided(work[w], p) BY <2>1, DecidedTodo
  <2>3. CASE Abort(w) BY <2>3, IdleMoves DEF JobMoves
  <2>4. CASE Goto(w, [work[w] EXCEPT !.pc = "destroy"])
    <3> DEFINE job == [work[w] EXCEPT !.pc = "destroy"]
    <3>1. work'[w] = job BY <2>4, GotoMoves
    <3>2. /\ job.pc = "destroy" /\ job.todo = work[w].todo
          /\ job.listed = work[w].listed /\ job.age = work[w].age
      BY <1>0 DEF Job
    <3> HIDE DEF job
    <3> QED BY <2>1, <2>2, <3>1, <3>2 DEF GoesOn, SameCheck, JobMoves
  <2>5. CASE Goto(w, [work[w] EXCEPT !.pc = "saveDeleted",
                                     !.copy = [work[w].copy EXCEPT !.status = "deleted"]])
    <3> DEFINE job == [work[w] EXCEPT !.pc = "saveDeleted",
                                      !.copy = [work[w].copy EXCEPT !.status = "deleted"]]
    <3>1. work'[w] = job BY <2>5, GotoMoves
    <3>2. /\ job.pc = "saveDeleted" /\ job.todo = work[w].todo
          /\ job.listed = work[w].listed /\ job.age = work[w].age
      BY <1>0 DEF Job
    <3> HIDE DEF job
    <3> QED BY <2>1, <2>2, <3>1, <3>2 DEF GoesOn, SameCheck, JobMoves
  <2> QED BY <1>6, <2>3, <2>4, <2>5 DEF SaveDeleting, Destroy
<1> QED BY <1>1, <1>2, <1>3, <1>4, <1>5, <1>6 DEF Step

LEMMA CheckMoves ==
    ASSUME DueInv, NEW w \in Workers, NEW u \in Users, BeginCheck(w, u)
    PROVE  JobMoves(w) /\ \A x \in Workers : x # w => work'[x] = work[x]
<1> DEFINE mine == {p \in Projects : Owner[p] = u /\ store[p].status # "deleted"}
           Listing(set) ==
               Goto(w, [Idle EXCEPT !.pc = "judge", !.user = u, !.todo = set,
                                    !.listed = [p \in Projects |-> IF p \in set THEN store[p] ELSE Blank]])
<1>0. Listing(mine) \/ Listing({}) BY DEF BeginCheck
<1>1. PICK found \in SUBSET Projects : Listing(found)
  <2> HIDE DEF Listing
  <2> QED BY <1>0
<1> DEFINE job == [Idle EXCEPT !.pc = "judge", !.user = u, !.todo = found,
                               !.listed = [p \in Projects |-> IF p \in found THEN store[p] ELSE Blank]]
<1>2. work'[w] = job /\ \A x \in Workers : x # w => work'[x] = work[x] BY <1>1, GotoMoves
<1>3. /\ job.pc = "judge" /\ job.todo = found
      /\ job.listed = [p \in Projects |-> IF p \in found THEN store[p] ELSE Blank]
  BY DEF Idle
<1> HIDE DEF job
<1>4. \A p \in Projects : SameRecord(p) BY NoRecordMoves DEF BeginCheck, history
<1>5. \A p \in found : p \in Projects /\ job.listed[p] = store[p] BY <1>3
<1> QED BY <1>2, <1>3, <1>4, <1>5 DEF Lists, JobMoves

LEMMA RequestMoves ==
    ASSUME DueInv, NEW w \in Requests, NEW p \in Projects,
           BeginDelete(w, p) \/ BeginSuspend(w, p) \/ BeginResume(w, p) \/ BeginUpdate(w, p),
           NEW x \in Workers
    PROVE  JobMoves(x)
<1>0. w \in Workers BY DEF Workers
<1>1. PICK pc, status :
          Goto(w, [Idle EXCEPT !.pc = pc, !.project = p, !.copy = [store[p] EXCEPT !.status = status]])
  BY DEF BeginDelete, BeginSuspend, BeginResume, BeginUpdate, Request
<1> DEFINE job == [Idle EXCEPT !.pc = pc, !.project = p, !.copy = [store[p] EXCEPT !.status = status]]
<1>2. work'[w] = job /\ (x # w => work'[x] = work[x]) BY <1>0, <1>1, GotoMoves
<1>3. job.user = NoUser /\ job.todo = {} BY DEF Idle
<1> HIDE DEF job
<1> QED BY <1>2, <1>3 DEF HasNoTodo, JobMoves

LEMMA NextDue == DueInv /\ [Next]_vars => DueInv'
<1> SUFFICES ASSUME DueInv, [Next]_vars PROVE DueInv' OBVIOUS
<1>0. TypeOK' BY NextType DEF DueInv
<1>1. CASE Tick BY <1>0, <1>1, TickDue
<1>2. ASSUME NEW w \in Workers, Step(w) PROVE DueInv'
  <2>1. \A p \in Projects : RecordMoves(p) BY <1>2, StepRecordMoves
  <2>2. \A x \in Workers : JobMoves(x) BY <1>2, StepJobMoves, OthersUnmoved DEF DueInv, JobMoves
  <2> QED BY <1>0, <2>1, <2>2, MovesDue
<1>3. ASSUME NEW w \in Workers, NEW u \in Users, BeginCheck(w, u) PROVE DueInv'
  <2>1. \A p \in Projects : RecordMoves(p) BY <1>3, NoRecordMoves DEF BeginCheck, history
  <2>2. \A x \in Workers : JobMoves(x) BY <1>3, CheckMoves DEF JobMoves
  <2> QED BY <1>0, <2>1, <2>2, MovesDue
<1>4. ASSUME NEW w \in Requests, NEW p \in Projects,
             BeginDelete(w, p) \/ BeginSuspend(w, p) \/ BeginResume(w, p) \/ BeginUpdate(w, p)
      PROVE  DueInv'
  <2>1. \A q \in Projects : RecordMoves(q)
    BY <1>4, NoRecordMoves
       DEF BeginDelete, BeginSuspend, BeginResume, BeginUpdate, Request, history
  <2>2. \A x \in Workers : JobMoves(x) BY <1>4, RequestMoves
  <2> QED BY <1>0, <2>1, <2>2, MovesDue
<1>5. CASE Restart
  <2>1. \A p \in Projects : RecordMoves(p) BY <1>5, NoRecordMoves DEF Restart
  <2>2. \A x \in Workers : JobMoves(x) BY <1>5 DEF Restart, Idle, HasNoTodo, JobMoves
  <2> QED BY <1>0, <2>1, <2>2, MovesDue
<1>6. CASE BeginRound \/ UNCHANGED vars \/ \E u \in Users : MoneyMoves(u) \/ RefuseDeploy(u)
  <2>1. UNCHANGED <<work, store, untouched, suspended>>
    BY <1>6 DEF BeginRound, vars, MoneyMoves, RefuseDeploy, history
  <2>2. \A p \in Projects : RecordMoves(p) BY <2>1, NoRecordMoves
  <2>3. \A x \in Workers : JobMoves(x) BY <2>1 DEF JobMoves
  <2> QED BY <1>0, <2>2, <2>3, MovesDue
<1> QED BY <1>1, <1>2, <1>3, <1>4, <1>5, <1>6 DEF Next

\* The guard saves the deletion of a project it has suspended, and nobody has written
\* since, only when the retention period is over, but for the delays of two checks, or
\* when it was suspended again while this check was under way (DeleteProject).
THEOREM NoHastyDeletion == Spec => DeletedOnlyAfterRetention
<1>1. DueInv /\ [Next]_vars =>
        [\A w \in Workers :
           LET p == work[w].project IN
           /\ At(w, "saveDeleting") /\ work[w].user # NoUser /\ At(w, "destroy")'
           /\ untouched[p]
           => suspended[p] >= Retention - Lag \/ suspended[p] <= work[w].age]_vars
  BY DEF DueInv, DeletionIsDue
<1> QED BY <1>1, InitDue, NextDue, PTL DEF Spec, DeletedOnlyAfterRetention
=============================================================================
