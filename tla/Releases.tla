------------------------------ MODULE Releases ------------------------------
(***************************************************************************)
(* The releases of one project of deploy-service.  Three kinds of work     *)
(* write them, each reading, working outside and writing a whole row back: *)
(*   - the webhook, for one workflow_run event of GitHub;                  *)
(*   - ListReleases, which first asks GitHub for the latest runs;          *)
(*   - a rollback, which puts an old image on the cluster.                 *)
(* The releases table has no unique column but its id.                     *)
(*                                                                         *)
(* A release is known by its place in the order of creation, which is also *)
(* the order of created_at; an image by the run that built it.             *)
(***************************************************************************)
EXTENDS Naturals, Sequences, FiniteSetsExt

CONSTANTS
    Stages,         \* ids of the project's stages
    Production,     \* the stage every workflow file without one of its own belongs to
    NoStage,        \* the empty stage id: the slug names no stage
    MaxRuns,        \* bound: GitHub workflow runs
    Paths,          \* the workflow files each run may be of
    WithImage,      \* runs whose events name the image they built
    Goroutines,     \* goroutines serving the webhook and requests
    Serves,         \* bound: the operations each of them takes on
    MaxReleases,    \* bound: releases created
    MaxServed,      \* bound: events, lists and rollbacks served
    Faults          \* what may go wrong, once: "read", "write", "apply", "crash"

ASSUME StagesAssumption == Production \in Stages /\ NoStage \notin Stages

Runs == 1..MaxRuns  \* ids of the runs, in the order of their creation

ASSUME RunsAssumption ==
    /\ MaxRuns \in Nat /\ WithImage \subseteq Runs
    /\ Paths \in [Runs -> SUBSET (Stages \cup {NoStage})]
ASSUME BoundsAssumption ==
    /\ Serves \in [Goroutines -> SUBSET {"webhook", "sync", "rollback"}]
    /\ MaxReleases \in Nat /\ MaxServed \in Nat
    /\ Faults \subseteq {"read", "write", "apply", "crash"}

VARIABLES
    releases,   \* the releases table, in the order of creation
    stage,      \* status column of the stages: the outcome they show
    github,     \* GitHub's workflow runs and the events it has sent about them
    jobs,       \* what each goroutine is doing, with its copies
    served,     \* events, lists and rollbacks served so far
    applied,    \* history: releases whose image a rollback has put on the cluster
    troubles    \* history: faults that have occurred, and "overlap"

vars == <<releases, stage, github, jobs, served, applied, troubles>>

-----------------------------------------------------------------------------
(* Data *)

NoRun     == 0
StageId   == Stages \cup {NoStage}
RunId     == Runs \cup {NoRun}
ReleaseId == 0..MaxReleases        \* 0: none

ReleaseStatus == {"pending", "building", "success", "failed"}
Outcome       == {"success", "failed"}
Unfinished    == ReleaseStatus \ Outcome

Release == [stage : StageId, status : ReleaseStatus, run : RunId, tag : RunId]

NewRelease(s, status, run, tag) == [stage |-> s, status |-> status, run |-> run, tag |-> tag]
Nothing == NewRelease(NoStage, "pending", NoRun, NoRun)

RunStatus == {"unborn", "queued", "in_progress", "succeeded", "failed"}
News      == RunStatus \ {"unborn"}
Ended     == {"succeeded", "failed"}

\* path: the stage the run's workflow file is named after (stageSlugFromWorkflowPath).
\* A workflow that is none of ours counts as production's, and is one a sync misses.
Run == [status : RunStatus, path : StageId]
Unborn == [status |-> "unborn", path |-> NoStage]

Pc == {"idle", "lookup", "match", "create", "write", "stage", "fetch", "each", "apply"}
Op == {"none", "webhook", "sync", "rollback"}

\* id and copy: the row about to be written. seen: the runs GitHub answered and their
\* status. waiting: of each stage, the release the list showed waiting for a run.
Waiting == [id : ReleaseId, row : Release]
Nobody  == [id |-> 0, row |-> Nothing]
Job == [op : Op, pc : Pc, run : RunId, news : News, id : ReleaseId, copy : Release,
        groups : SUBSET Stages, group : Stages, seen : [Runs -> RunStatus],
        waiting : [Stages -> Waiting]]
Idle == [op |-> "none", pc |-> "idle", run |-> NoRun, news |-> "queued", id |-> 0,
         copy |-> Nothing, groups |-> {}, group |-> Production,
         seen |-> [r \in Runs |-> "unborn"], waiting |-> [s \in Stages |-> Nobody]]

TypeOK ==
    /\ releases \in Seq(Release) /\ Len(releases) <= MaxReleases
    /\ stage \in [Stages -> {"active", "failed"}]
    /\ github \in [Runs -> Run]
    /\ jobs \in [Goroutines -> Job]
    /\ served \in 0..MaxServed
    /\ applied \subseteq 1..Len(releases)
    /\ troubles \subseteq {"read", "write", "apply", "crash", "overlap"}

Init ==
    /\ releases = <<>>
    /\ stage = [s \in Stages |-> "active"]
    /\ github = [r \in Runs |-> Unborn]
    /\ jobs = [g \in Goroutines |-> Idle]
    /\ served = 0
    /\ applied = {}
    /\ troubles = {}

Ids         == 1..Len(releases)
Newest(ids) == IF ids = {} THEN 0 ELSE Max(ids)
At(g, pc)   == jobs[g].pc = pc
Goto(g, job) == jobs' = [jobs EXCEPT ![g] = job]
Does(g, pc)  == [jobs[g] EXCEPT !.pc = pc]

\* The job with only what a sync still reads.
Bare(job, pc) == [job EXCEPT !.pc = pc, !.run = NoRun, !.news = "queued", !.id = 0, !.copy = Nothing]
Found(job)    == {r \in Runs : job.seen[r] # "unborn"}

\* After a row is dealt with: a sync goes on with its next run or its next stage, the
\* others are done.
Resume(job) ==
    IF job.op = "sync" /\ Found(job) # {} THEN Bare(job, "each")
    ELSE IF job.op = "sync" /\ job.groups # {}
         THEN [Bare(job, "fetch") EXCEPT !.group = Production, !.waiting[job.group] = Nobody]
    ELSE Idle
Return(g) == Goto(g, Resume(jobs[g]))

\* A fault of the given kind occurs; one in a behaviour (bound).
Trouble(kind) ==
    /\ kind \in Faults /\ troubles \cap Faults = {}
    /\ troubles' = troubles \cup {kind}

\* A goroutine begins; "overlap" is noted when another one is at work.
Begin(g, job) ==
    /\ At(g, "idle") /\ job.op \in Serves[g]
    /\ served < MaxServed /\ served' = served + 1
    /\ Goto(g, job)
    /\ troubles' = IF \E h \in Goroutines : ~At(h, "idle") THEN troubles \cup {"overlap"} ELSE troubles

-----------------------------------------------------------------------------
(* GitHub *)

\* Somebody pushes, and a workflow of the repository starts.
StartRun(r) ==
    /\ github[r].status = "unborn" /\ \A q \in Runs : q < r => github[q].status # "unborn"
    /\ \E path \in Paths[r] :
          github' = [github EXCEPT ![r] = [status |-> "queued", path |-> path]]
    /\ UNCHANGED <<releases, stage, jobs, served, applied, troubles>>

\* The run goes on, and ends.
MoveRun(r) ==
    /\ \E to \in News :
          /\ \/ github[r].status = "queued" /\ to \in {"in_progress"}
             \/ github[r].status = "in_progress" /\ to \in Ended
          /\ github' = [github EXCEPT ![r].status = to]
    /\ UNCHANGED <<releases, stage, jobs, served, applied, troubles>>

\* The events sent about a run so far: one each time its status changed. They arrive
\* late, again, in any order, or never.
Sent(r) ==
    {news \in News : \/ news = "queued" /\ github[r].status # "unborn"
                     \/ news = "in_progress" /\ github[r].status \in {"in_progress"} \cup Ended
                     \/ news = github[r].status /\ news \in Ended}

-----------------------------------------------------------------------------
(* The release store *)

\* GetByWorkflowRunID answers any of the rows that match.
WithRun(r) == {i \in Ids : releases[i].run = r}

\* Mutant: a pending release of any stage is taken.
PendingOfAnyStage(s) ==
    Newest({i \in Ids : releases[i].run = NoRun /\ releases[i].status \in Unfinished})

\* findPendingReleaseWithoutWorkflow
PendingWithoutRun(s) ==
    Newest({i \in Ids : /\ releases[i].run = NoRun /\ releases[i].stage = s
                        /\ releases[i].status \in Unfinished})

\* Mutant: GitHub's own words are written.
StatusRaw(news) == news

\* mapWorkflowRunStatus; "pending" stands for the early return of the webhook too.
StatusOf(news) == CASE news = "in_progress" -> "building"
                    [] news = "succeeded"   -> "success"
                    [] news = "failed"      -> "failed"
                    [] OTHER                -> "pending"

\* A row is put in or over; or the store answers an error, with the row written or
\* not. (Inserts beyond the bound do not take place.)
Inserted(row) == Len(releases) < MaxReleases /\ releases' = Append(releases, row)
Updated(i, row) == releases' = [releases EXCEPT ![i] = row]
WriteFails == Trouble("write")

-----------------------------------------------------------------------------
(* HandleGitHubWebhook *)

Deliver(g, r, news) ==
    /\ news \in Sent(r)
    /\ Begin(g, [Idle EXCEPT !.op = "webhook", !.pc = "lookup", !.run = r, !.news = news])
    /\ UNCHANGED <<releases, stage, github, applied>>

\* The release of the run is looked up. A read that fails finds nothing.
Lookup(g) ==
    LET job == jobs[g] IN
    /\ At(g, "lookup")
    /\ \/ /\ \E i \in WithRun(job.run) :
                Goto(g, [job EXCEPT !.pc = "write", !.id = i, !.copy = releases[i]])
          /\ UNCHANGED troubles
       \/ WithRun(job.run) = {} /\ Goto(g, Does(g, "match")) /\ UNCHANGED troubles
       \/ WithRun(job.run) # {} /\ Trouble("read") /\ Goto(g, Does(g, "match"))
    /\ UNCHANGED <<releases, stage, github, served, applied>>

\* None: the newest release of the stage that waits for a run is bound to this one,
\* in the copy only; when there is none either, a release is created.
Match(g) ==
    LET job == jobs[g] s == github[job.run].path i == PendingWithoutRun(s) IN
    /\ At(g, "match")
    /\ \/ /\ i # 0
          /\ Goto(g, [job EXCEPT !.pc = "write", !.id = i, !.copy = [releases[i] EXCEPT !.run = job.run]])
          /\ UNCHANGED troubles
       \/ /\ IF i = 0 THEN UNCHANGED troubles ELSE Trouble("read")
          /\ Goto(g, [job EXCEPT !.pc = "create",
                                 !.copy = NewRelease(s, "pending", job.run, NoRun)])
    /\ UNCHANGED <<releases, stage, github, served, applied>>

\* The new row. A rollback goes on to put the image on the cluster; a sync creates
\* the row with the run's status, and the stage follows.
Create(g) ==
    LET job == jobs[g]
        after == CASE job.op = "sync" -> "stage" [] job.op = "rollback" -> "apply" [] OTHER -> "write"
    IN
    /\ At(g, "create")
    /\ \/ /\ Inserted(job.copy)
          /\ Goto(g, [job EXCEPT !.pc = after, !.id = Len(releases) + 1])
          /\ UNCHANGED troubles
       \/ /\ Inserted(job.copy) \/ UNCHANGED releases
          /\ WriteFails /\ Return(g)
    /\ UNCHANGED <<stage, github, served, applied>>

\* Mutant: the event is written under the status "success" whatever its conclusion.
WebhookRowAnyConclusion(job) ==
    [job.copy EXCEPT !.status = IF job.news = "in_progress" THEN "building" ELSE "success",
                     !.tag = IF job.run \in WithImage THEN job.run ELSE @]

\* The row of an event: its status, and the image of the run if the event names it.
WebhookRow(job) ==
    [job.copy EXCEPT !.status = StatusOf(job.news), !.tag = IF job.run \in WithImage THEN job.run ELSE @]

\* Update puts the whole copy back. An event that neither runs nor ends is dropped
\* here, and a binding that was only in the copy with it.
Write(g) ==
    LET job == jobs[g] row == IF job.op = "webhook" THEN WebhookRow(job) ELSE job.copy IN
    /\ At(g, "write")
    /\ \/ /\ job.op = "webhook" /\ job.news = "queued"
          /\ Return(g) /\ UNCHANGED <<releases, troubles>>
       \/ /\ ~(job.op = "webhook" /\ job.news = "queued")
          /\ \/ /\ Updated(job.id, row) /\ UNCHANGED troubles
                /\ IF job.op = "rollback" THEN Return(g)
                   ELSE Goto(g, [Bare(job, "stage") EXCEPT !.copy = NewRelease(row.stage, row.status, NoRun, NoRun)])
             \/ /\ Updated(job.id, row) \/ UNCHANGED releases
                /\ WriteFails /\ Return(g)
    /\ UNCHANGED <<stage, github, served, applied>>

\* Mutant: a sync does not report to the stage.
ReportEventsOnly(g) ==
    LET row == jobs[g].copy IN
    /\ At(g, "stage")
    /\ stage' = IF row.stage = NoStage \/ row.status \notin Outcome \/ jobs[g].op = "sync" THEN stage
                ELSE [stage EXCEPT ![row.stage] = IF row.status = "success" THEN "active" ELSE "failed"]
    /\ Return(g)
    /\ UNCHANGED <<releases, github, served, applied, troubles>>

\* updateStageStatusFromRelease; its errors are ignored.
ReportToStage(g) ==
    LET row == jobs[g].copy IN
    /\ At(g, "stage")
    /\ \/ /\ UNCHANGED troubles
          /\ stage' = IF row.stage = NoStage \/ row.status \notin Outcome THEN stage
                      ELSE [stage EXCEPT ![row.stage] = IF row.status = "success" THEN "active" ELSE "failed"]
       \/ WriteFails /\ UNCHANGED stage
    /\ Return(g)
    /\ UNCHANGED <<releases, github, served, applied>>

-----------------------------------------------------------------------------
(* ListReleases *)

\* A release without a stage counts as one of production.
GroupOf(row) == IF row.stage = NoStage THEN Production ELSE row.stage
WaitingIn(s) ==
    LET i == Newest({k \in Ids : /\ GroupOf(releases[k]) = s /\ releases[k].run = NoRun
                                 /\ releases[k].status \in Unfinished})
    IN IF i = 0 THEN Nobody ELSE [id |-> i, row |-> releases[i]]

\* The releases are listed: the stages that have any, and of each the newest that
\* waits for a run. (A list that cannot be read has no stages: nothing is done.)
BeginSync(g) ==
    /\ Ids # {}
    /\ Begin(g, [Idle EXCEPT !.op = "sync", !.pc = "fetch",
                             !.groups = {GroupOf(releases[i]) : i \in Ids},
                             !.waiting = [s \in Stages |-> WaitingIn(s)]])
    /\ UNCHANGED <<releases, stage, github, applied>>

\* GitHub is asked for the last 20 runs of one stage's workflow since two minutes
\* before its newest release: runs may be missed, and all of them if it fails.
FetchRuns(g) ==
    /\ At(g, "fetch")
    /\ \E s \in jobs[g].groups :
       \E found \in SUBSET {r \in Runs : github[r].status # "unborn" /\ github[r].path = s} :
          LET seen == [r \in Runs |-> IF r \in found THEN github[r].status ELSE "unborn"]
              rest == [jobs[g] EXCEPT !.groups = @ \ {s}]
          IN Goto(g, IF found # {} THEN [rest EXCEPT !.pc = "each", !.group = s, !.seen = seen]
                     ELSE IF rest.groups = {} THEN Idle ELSE rest)
    /\ UNCHANGED <<releases, stage, github, served, applied, troubles>>

\* The next run, newest first. A release that has it follows it; otherwise the
\* waiting release of the list gets it, once; otherwise a release is created.
EachRun(g) ==
    LET job == jobs[g] s == job.group r == Max(Found(job)) status == StatusOf(job.seen[r])
        rest == [job EXCEPT !.seen[r] = "unborn", !.run = r, !.news = job.seen[r]]
        unknown == (WithRun(r) = {} /\ UNCHANGED troubles) \/ (WithRun(r) # {} /\ Trouble("read"))
    IN
    /\ At(g, "each")
    /\ \/ \E i \in WithRun(r) :
             /\ Goto(g, IF releases[i].status = status THEN Resume(rest)
                        ELSE [rest EXCEPT !.pc = "write", !.id = i, !.copy = [releases[i] EXCEPT !.status = status]])
             /\ UNCHANGED troubles
       \/ /\ unknown /\ job.waiting[s] # Nobody
          /\ Goto(g, [rest EXCEPT !.pc = "write", !.id = job.waiting[s].id, !.waiting[s] = Nobody,
                                  !.copy = [job.waiting[s].row EXCEPT !.run = r, !.status = status]])
       \/ /\ unknown /\ job.waiting[s] = Nobody
          /\ Goto(g, [rest EXCEPT !.pc = "create", !.copy = NewRelease(s, status, r, NoRun)])
    /\ UNCHANGED <<releases, stage, github, served, applied>>

-----------------------------------------------------------------------------
(* BootstrapGitHubFlow and RollbackToRelease *)

\* createBootstrapPendingRelease, once the pull request is open.
CreateBootstrapRelease(s) ==
    /\ Inserted(NewRelease(s, "pending", NoRun, NoRun))
    /\ UNCHANGED <<stage, github, jobs, served, applied, troubles>>

\* Mutant: any release with an image may be the target.
BeginRollbackToAny(g, i) ==
    /\ releases[i].tag # NoRun
    /\ Begin(g, [Idle EXCEPT !.op = "rollback", !.pc = "create",
                             !.copy = NewRelease(releases[i].stage, "pending", NoRun, releases[i].tag)])
    /\ UNCHANGED <<releases, stage, github, applied>>

\* The target has succeeded and has an image. (Refused for want of money: no effect.)
BeginRollback(g, i) ==
    /\ releases[i].status = "success" /\ releases[i].tag # NoRun
    /\ Begin(g, [Idle EXCEPT !.op = "rollback", !.pc = "create",
                             !.copy = NewRelease(releases[i].stage, "pending", NoRun, releases[i].tag)])
    /\ UNCHANGED <<releases, stage, github, applied>>

\* ApplyImageToStage or ApplyImage; the outcome goes into the copy of the new row.
ApplyImage(g) ==
    LET job == jobs[g] IN
    /\ At(g, "apply")
    /\ \/ /\ applied' = applied \cup {job.id}
          /\ Goto(g, [job EXCEPT !.pc = "write", !.copy.status = "success"])
          /\ UNCHANGED troubles
       \/ /\ applied' \in {applied, applied \cup {job.id}}
          /\ Trouble("apply")
          /\ Goto(g, [job EXCEPT !.pc = "write", !.copy.status = "failed"])
    /\ UNCHANGED <<releases, stage, github, served>>

\* The process stops and starts again.
Crash ==
    /\ \E g \in Goroutines : ~At(g, "idle")
    /\ Trouble("crash")
    /\ jobs' = [g \in Goroutines |-> Idle]
    /\ UNCHANGED <<releases, stage, github, served, applied>>

-----------------------------------------------------------------------------
(* The specification *)

WebhookStep(g)  == Lookup(g) \/ Match(g)
SyncStep(g)     == FetchRuns(g) \/ EachRun(g)
Step(g) == WebhookStep(g) \/ SyncStep(g) \/ Create(g) \/ ApplyImage(g) \/ Write(g) \/ ReportToStage(g)

Next ==
    \/ \E r \in Runs : StartRun(r) \/ MoveRun(r)
    \/ \E s \in Stages : CreateBootstrapRelease(s)
    \/ \E g \in Goroutines :
          \/ \E r \in Runs, news \in News : Deliver(g, r, news)
          \/ BeginSync(g)
          \/ \E i \in Ids : BeginRollback(g, i)
          \/ Step(g)
    \/ Crash

Spec == Init /\ [][Next]_vars

-----------------------------------------------------------------------------
(* Properties *)

\* A workflow run has one release (task-013), whatever events come late, twice, in
\* another order or not at all, as long as the webhook and syncs do not overlap and
\* no read fails: nothing but the lookup before the insert keeps it so.
OneReleasePerRun ==
    troubles \cap {"overlap", "read"} = {} =>
        \A i, j \in Ids : releases[i].run = releases[j].run /\ releases[i].run # NoRun => i = j

\* The release of a run belongs to the stage of the run's workflow, or to none:
\* also when a pending release of a bootstrap or a rollback was bound to the run.
RunsStayOnTheirStage ==
    \A i \in Ids : releases[i].run # NoRun =>
        releases[i].stage \in {github[releases[i].run].path, NoStage}

\* Each run has one release at most, where it belongs.
RunsAreBoundWell == OneReleasePerRun /\ RunsStayOnTheirStage

\* A release is shown as a success only when GitHub has reported its run succeeded or,
\* if it has no run, when a rollback did apply its image: stale copies, lost answers
\* and restarts never make one up. And the image a rollback may choose, that of a
\* successful release, was built by a run that succeeded.
SuccessIsEarned ==
    \A i \in Ids : releases[i].status = "success" =>
        /\ IF releases[i].run = NoRun THEN i \in applied
           ELSE "succeeded" \in Sent(releases[i].run)
        /\ releases[i].tag # NoRun => "succeeded" \in Sent(releases[i].tag)

\* With no trouble, when the runs of a stage that have a release all ended the same
\* way, the stage shows that outcome, in whatever order the events came.
StageAgrees ==
    \A s \in Stages :
        LET ofRuns == {i \in Ids : releases[i].stage = s /\ releases[i].run # NoRun} IN
        troubles = {} /\ ofRuns # {} /\ (\A g \in Goroutines : ~At(g, "stage")) =>
            /\ (\A i \in ofRuns : releases[i].status = "success") => stage[s] = "active"
            /\ (\A i \in ofRuns : releases[i].status = "failed") => stage[s] = "failed"

\* While nothing overlaps, a release that shows an outcome changes only when GitHub
\* no longer shows that outcome itself, or by an event, or an answer to a sync,
\* that is out of date.
OnlyOldNewsReopens ==
    [][\A i \in Ids :
         LET row == releases[i] IN
         /\ row.status \in Outcome /\ releases'[i].status # row.status /\ "overlap" \notin troubles
         => \/ StatusOf(github[row.run].status) # row.status
            \/ \E g \in Goroutines : At(g, "write") /\ jobs[g].news # github[row.run].status]_vars
=============================================================================
