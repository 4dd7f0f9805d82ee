--------------------------- MODULE ReleasesProofs ---------------------------
(***************************************************************************)
(* Proofs about Releases, for any stages, runs, goroutines and faults:     *)
(* typing, that a run has one release on its own stage, that a success is  *)
(* earned, that only old news reopens a release, and that a stage shows    *)
(* what its releases do.                                                   *)
(*                                                                         *)
(* BaseInv holds whatever overlaps or fails: what is said in a row, or in  *)
(* a copy that will become one, GitHub has reported or a rollback has      *)
(* done. LoneInv needs that nobody else is at work, so that a copy is      *)
(* still like its row (Held) and a run looked up in vain still has no row  *)
(* (Free). StageInv, without trouble, traces what a stage shows to a run.  *)
(***************************************************************************)
EXTENDS Releases, WellFoundedInduction, TLAPS

\* Copies and rows, whatever happens beside them: an image is of the row's own run or
\* of one that succeeded; the run has started, and is one of the row's stage; and an
\* outcome is what GitHub reported of the run, or what the rollback has done.
Imaged(row) == row.tag # NoRun => row.tag = row.run \/ "succeeded" \in Sent(row.tag)
Placed(row) ==
    row.run # NoRun => github[row.run].status # "unborn" /\ row.stage \in {github[row.run].path, NoStage}
Earned(row, i) ==
    /\ row.status = "success" => IF row.run = NoRun THEN i \in applied ELSE "succeeded" \in Sent(row.run)
    /\ row.status = "failed" /\ row.run # NoRun => "failed" \in Sent(row.run)

RowTrue(i) == Imaged(releases[i]) /\ Placed(releases[i]) /\ Earned(releases[i], i)

\* A copy that follows a run, and one that a rollback fills.
Follows(job) ==
    /\ job.run \in Runs /\ job.news \in Sent(job.run)
    /\ job.copy.run = job.run /\ Placed(job.copy)
    /\ job.op = "sync" => job.copy.status = StatusOf(job.news)
Fills(job) ==
    /\ job.copy.run = NoRun
    /\ job.pc \in {"create", "apply"} => job.copy.status = "pending"
    /\ job.pc = "write" => job.copy.status \in Outcome /\ (job.copy.status = "success" => job.id \in applied)

\* What a sync has heard of GitHub, and the releases it listed before.
Heard(job) ==
    \A r \in Runs : job.seen[r] # "unborn" => job.seen[r] \in Sent(r) /\ github[r].path = job.group
Listed(job) ==
    \A s \in Stages : job.waiting[s] # Nobody =>
        LET w == job.waiting[s] IN
        /\ w.id \in Ids /\ w.row.run = NoRun /\ w.row.status \in Unfinished
        /\ GroupOf(w.row) = s /\ Imaged(w.row)

Rows == {"create", "apply", "write"}

Fits(g) ==
    LET job == jobs[g] IN
    /\ job.pc = "idle" => job = Idle
    /\ job.pc \in {"lookup", "match"} => job.op = "webhook" /\ job.run \in Runs /\ job.news \in Sent(job.run)
    /\ job.pc \in {"fetch", "each"} => job.op = "sync"
    /\ job.pc = "each" => Found(job) # {}
    /\ job.pc = "apply" => job.op = "rollback"
    /\ job.pc = "create" /\ job.op = "webhook" => job.copy.status = "pending"
    /\ job.pc \in {"apply", "write"} => job.id \in Ids
    /\ job.pc \in Rows => job.op # "none"
    /\ job.pc \in Rows => Imaged(job.copy) /\ IF job.op = "rollback" THEN Fills(job) ELSE Follows(job)
    /\ job.op = "sync" => Heard(job) /\ Listed(job)

BaseInv == TypeOK /\ (\A g \in Goroutines : Fits(g)) /\ \A i \in Ids : RowTrue(i)

Lone  == "overlap" \notin troubles
Clean == troubles \cap {"overlap", "read"} = {}

Alone ==
    Lone => \A g, h \in Goroutines : jobs[g].pc # "idle" /\ jobs[h].pc # "idle" => g = h

\* The run a job is about to give to a row has none yet, or that row.
Free(g) ==
    LET job == jobs[g] IN
    /\ job.pc = "match" => WithRun(job.run) = {}
    /\ job.pc = "create" /\ job.copy.run # NoRun => WithRun(job.copy.run) = {}
    /\ job.pc = "write" /\ job.copy.run # NoRun => WithRun(job.copy.run) \subseteq {job.id}

\* The row a job is about to write, and those a sync has listed, are as they were.
Held(g) ==
    LET job == jobs[g] IN
    /\ job.pc \in {"apply", "write"} =>
          /\ releases[job.id].stage = job.copy.stage
          /\ releases[job.id].run # job.copy.run =>
                releases[job.id].run = NoRun /\ releases[job.id].status \in Unfinished
    /\ job.pc \in {"apply", "write"} /\ job.op = "rollback" => releases[job.id].status = "pending"
    /\ job.op = "sync" => \A s \in Stages : job.waiting[s] # Nobody =>
          /\ releases[job.waiting[s].id] = job.waiting[s].row
          /\ job.pc = "write" => job.waiting[s].id # job.id

\* A run has one release at most.
Single == \A i, j \in Ids : releases[i].run = releases[j].run /\ releases[i].run # NoRun => i = j

LoneInv ==
    /\ BaseInv /\ Alone
    /\ Lone => \A g \in Goroutines : Held(g)
    /\ Clean => Single /\ \A g \in Goroutines : Free(g)

\* Some run of the stage, with a release, ended so.
EndedSo(s, how) ==
    \E i \in Ids : releases[i].stage = s /\ releases[i].run # NoRun /\ github[releases[i].run].status = how

\* A stage shows an outcome some run of it had; and one whose release failed shows
\* that, or another's success, or is about to hear of it.
Reported(s) ==
    /\ stage[s] = "failed" => EndedSo(s, "failed")
    /\ stage[s] = "active" /\ (\E i \in Ids : releases[i].stage = s /\ releases[i].run # NoRun /\ releases[i].status = "failed")
          => \/ EndedSo(s, "succeeded")
             \/ \E g \in Goroutines : jobs[g].pc = "stage" /\ jobs[g].copy.stage = s /\ jobs[g].copy.status = "failed"
Reports(g) ==
    LET row == jobs[g].copy IN
    jobs[g].pc = "stage" /\ row.stage # NoStage =>
        /\ row.status = "success" => EndedSo(row.stage, "succeeded")
        /\ row.status = "failed" => EndedSo(row.stage, "failed")

StageInv ==
    troubles = {} => (\A s \in Stages : Reported(s)) /\ \A g \in Goroutines : Reports(g)

-----------------------------------------------------------------------------
(* Numbers *)

\* A set of numbers with a bound has a largest: the distances to the bound have a least.
LessThan == {pair \in Nat \X Nat : pair[1] < pair[2]}

LEMMA MaxIn ==
    ASSUME NEW n \in Nat, NEW S \in SUBSET (1..n), S # {}
    PROVE  Max(S) \in S /\ \A x \in S : Max(S) >= x
<1> DEFINE T == {k \in 0..n : n - k \in S}
<1>1. ASSUME NEW x \in S PROVE n - x \in T /\ x \in 1..n
  <2>1. x \in 1..n OBVIOUS
  <2> QED BY <2>1
<1>2. \A k \in T : k \in 0..n /\ n - k \in S OBVIOUS
<1> HIDE DEF T
<1>3. T \subseteq Nat /\ T # {}
  <2>1. T \subseteq Nat BY <1>2
  <2>2. PICK x \in S : TRUE OBVIOUS
  <2>3. n - x \in T BY <1>1
  <2> QED BY <2>1, <2>3
<1>4. IsWellFoundedOn(LessThan, Nat) BY NatLessThanWellFounded DEF OpToRel, LessThan
<1>5. PICK m \in T : \A k \in T : ~(<<k, m>> \in LessThan) BY <1>3, <1>4, WFMin
<1>6. ASSUME NEW x \in S PROVE n - m >= x
  <2>1. n - x \in T /\ x \in 1..n /\ m \in 0..n BY <1>1, <1>2
  <2>2. n - x \in Nat /\ m \in Nat BY <1>3, <2>1
  <2>3. ~(<<n - x, m>> \in LessThan) BY <1>5, <2>1
  <2>4. ~(n - x < m) BY <2>2, <2>3 DEF LessThan
  <2> QED BY <2>1, <2>4
<1> QED BY <1>2, <1>5, <1>6 DEF Max

LEMMA NewestIn ==
    ASSUME releases \in Seq(Release), NEW S \in SUBSET Ids
    PROVE  IF S = {} THEN Newest(S) = 0 ELSE Newest(S) \in S /\ Newest(S) # 0
<1>1. Len(releases) \in Nat /\ Ids = 1..Len(releases) BY DEF Ids
<1>2. CASE S = {} BY <1>2 DEF Newest
<1>3. CASE S # {}
  <2>1. Max(S) \in S BY <1>1, <1>3, MaxIn
  <2> QED BY <1>1, <1>3, <2>1 DEF Newest
<1> QED BY <1>2, <1>3

-----------------------------------------------------------------------------
(* Rows and jobs *)

LEMMA Words ==
    /\ {"pending", "building", "success", "failed"} \subseteq ReleaseStatus
    /\ {"unborn", "queued", "in_progress", "succeeded", "failed"} \subseteq RunStatus
    /\ {"queued", "in_progress", "succeeded", "failed"} \subseteq News
    /\ {"idle", "lookup", "match", "create", "write", "stage", "fetch", "each", "apply"} \subseteq Pc
    /\ {"none", "webhook", "sync", "rollback"} \subseteq Op
BY DEF ReleaseStatus, RunStatus, News, Pc, Op

LEMMA StatusOfFacts ==
    ASSUME NEW news
    PROVE  /\ StatusOf(news) \in ReleaseStatus
           /\ StatusOf(news) = "success" <=> news = "succeeded"
           /\ StatusOf(news) = "failed" <=> news = "failed"
           /\ StatusOf(news) = "building" <=> news = "in_progress"
BY DEF StatusOf, ReleaseStatus

LEMMA NewReleaseFields ==
    ASSUME NEW s \in StageId, NEW status \in ReleaseStatus, NEW run \in RunId, NEW tag \in RunId
    PROVE  /\ NewRelease(s, status, run, tag) \in Release
           /\ NewRelease(s, status, run, tag).stage = s /\ NewRelease(s, status, run, tag).status = status
           /\ NewRelease(s, status, run, tag).run = run /\ NewRelease(s, status, run, tag).tag = tag
BY DEF NewRelease, Release

LEMMA RunFacts ==
    /\ Runs \subseteq Nat /\ NoRun \notin Runs /\ RunId = Runs \cup {NoRun}
    /\ Production \in Stages /\ NoStage \notin Stages /\ StageId = Stages \cup {NoStage}
    /\ WithImage \subseteq Runs /\ MaxReleases \in Nat /\ MaxServed \in Nat
BY StagesAssumption, RunsAssumption, BoundsAssumption DEF Runs, NoRun, RunId, StageId

LEMMA NobodyFields ==
    /\ Nothing \in Release /\ Nothing.run = NoRun /\ Nothing.tag = NoRun /\ Nothing.status = "pending"
    /\ Nobody \in Waiting /\ Nobody.id = 0
<1>1. NoStage \in StageId /\ "pending" \in ReleaseStatus /\ NoRun \in RunId BY RunFacts, Words
<1>2. Nothing \in Release /\ Nothing.run = NoRun /\ Nothing.tag = NoRun /\ Nothing.status = "pending"
  BY <1>1, NewReleaseFields DEF Nothing
<1>3. 0 \in ReleaseId BY RunFacts DEF ReleaseId
<1> QED BY <1>2, <1>3 DEF Nobody, Waiting

LEMMA IdleJob ==
    /\ Idle \in Job /\ Idle.op = "none" /\ Idle.pc = "idle" /\ Idle.copy = Nothing /\ Idle.id = 0
    /\ \A r \in Runs : Idle.seen[r] = "unborn"
    /\ \A s \in Stages : Idle.waiting[s] = Nobody
BY NobodyFields, RunFacts, Words DEF Idle, Job, ReleaseId

LEMMA JobFields ==
    ASSUME jobs \in [Goroutines -> Job], NEW g \in Goroutines
    PROVE  /\ jobs[g] \in Job /\ jobs[g].id \in ReleaseId /\ jobs[g].copy \in Release
           /\ jobs[g].run \in RunId /\ jobs[g].news \in News
           /\ jobs[g].seen \in [Runs -> RunStatus] /\ jobs[g].waiting \in [Stages -> Waiting]
           /\ jobs[g].group \in Stages /\ jobs[g].groups \subseteq Stages
BY DEF Job

LEMMA RowFields ==
    ASSUME NEW row \in Release
    PROVE  row.stage \in StageId /\ row.status \in ReleaseStatus /\ row.run \in RunId /\ row.tag \in RunId
BY DEF Release

LEMMA RowIn ==
    ASSUME releases \in Seq(Release), NEW i \in Ids
    PROVE  releases[i] \in Release
BY DEF Ids

LEMMA UpdateInRange ==
    ASSUME NEW S, NEW T, NEW f \in [S -> T], NEW a \in S, NEW v \in T
    PROVE  [f EXCEPT ![a] = v] \in [S -> T]
OBVIOUS

LEMMA JobGoes ==
    ASSUME jobs \in [Goroutines -> Job], NEW g \in Goroutines, NEW job \in Job, Goto(g, job)
    PROVE  /\ jobs' \in [Goroutines -> Job] /\ jobs'[g] = job
           /\ \A h \in Goroutines : h # g => jobs'[h] = jobs[h]
BY UpdateInRange DEF Goto

LEMMA RowUpdated ==
    ASSUME releases \in Seq(Release), NEW i \in Ids, NEW row \in Release, Updated(i, row)
    PROVE  /\ releases' \in Seq(Release) /\ Len(releases') = Len(releases) /\ Ids' = Ids
           /\ releases'[i] = row /\ \A j \in Ids : j # i => releases'[j] = releases[j]
BY DEF Updated, Ids

LEMMA RowInserted ==
    ASSUME releases \in Seq(Release), NEW row \in Release, Inserted(row)
    PROVE  /\ releases' \in Seq(Release) /\ Len(releases') <= MaxReleases
           /\ Ids' = Ids \cup {Len(releases) + 1} /\ Len(releases) + 1 \notin Ids
           /\ Len(releases) + 1 \in ReleaseId
           /\ releases'[Len(releases) + 1] = row /\ \A j \in Ids : releases'[j] = releases[j]
<1>1. Len(releases) \in Nat /\ MaxReleases \in Nat BY BoundsAssumption
<1>2. releases' = Append(releases, row) /\ Len(releases) < MaxReleases BY DEF Inserted
<1> QED BY <1>1, <1>2 DEF Ids, ReleaseId

-----------------------------------------------------------------------------
(* What was said stays said *)

Forward ==
    /\ Ids \subseteq Ids' /\ applied \subseteq applied'
    /\ \A r \in Runs :
          /\ Sent(r) \subseteq Sent(r)'
          /\ github[r].status # "unborn" => github'[r].status # "unborn" /\ github'[r].path = github[r].path

LEMMA SameHub ==
    ASSUME UNCHANGED github, Ids \subseteq Ids', applied \subseteq applied'
    PROVE  Forward /\ \A r \in Runs : Sent(r)' = Sent(r)
BY DEF Forward, Sent

LEMMA NewsOfTheBorn ==
    ASSUME NEW r \in Runs, NEW news \in Sent(r)
    PROVE  github[r].status # "unborn"
BY DEF Sent, Ended

LEMMA RowKept ==
    ASSUME TypeOK, Forward, NEW i \in Ids, RowTrue(i), releases'[i] = releases[i]
    PROVE  RowTrue(i)'
<1>1. releases[i] \in Release BY RowIn DEF TypeOK
<1>2. releases[i].run \in Runs \cup {NoRun} /\ releases[i].tag \in Runs \cup {NoRun}
  BY <1>1, RowFields, RunFacts
<1> QED BY <1>2 DEF RowTrue, Imaged, Placed, Earned, Forward

LEMMA FitsKept ==
    ASSUME TypeOK, Forward, NEW h \in Goroutines, Fits(h), jobs'[h] = jobs[h]
    PROVE  Fits(h)'
<1>1. /\ jobs[h] \in Job /\ jobs[h].copy.run \in Runs \cup {NoRun} /\ jobs[h].copy.tag \in Runs \cup {NoRun}
      /\ \A s \in Stages : jobs[h].waiting[s].row.tag \in Runs \cup {NoRun}
      /\ \A s \in Stages : jobs[h].waiting[s].row.run \in Runs \cup {NoRun}
  BY JobFields, RowFields, RunFacts DEF TypeOK, Waiting
<1>2. Imaged(jobs[h].copy) => Imaged(jobs[h].copy)' BY <1>1 DEF Imaged, Forward
<1>3. Placed(jobs[h].copy) => Placed(jobs[h].copy)' BY <1>1 DEF Placed, Forward
<1>4. Follows(jobs[h]) => Follows(jobs[h])' BY <1>1, <1>3 DEF Follows, Forward
<1>5. Fills(jobs[h]) => Fills(jobs[h])' BY DEF Fills, Forward
<1>6. Heard(jobs[h]) => Heard(jobs[h])' BY NewsOfTheBorn DEF Heard, Forward
<1>7. Listed(jobs[h]) => Listed(jobs[h])' BY <1>1 DEF Listed, Forward, Imaged
<1> QED BY <1>2, <1>4, <1>5, <1>6, <1>7 DEF Fits, Forward

Others(g) == \A h \in Goroutines : h # g => jobs'[h] = jobs[h]

LEMMA BaseStep ==
    ASSUME BaseInv, TypeOK', Forward, NEW g \in Goroutines, Others(g), Fits(g)',
           \A i \in Ids' : (i \in Ids /\ releases'[i] = releases[i]) \/ RowTrue(i)'
    PROVE  BaseInv'
<1>1. \A i \in Ids' : RowTrue(i)' BY RowKept DEF BaseInv
<1>2. \A h \in Goroutines : Fits(h)' BY FitsKept DEF BaseInv, Others
<1> QED BY <1>1, <1>2 DEF BaseInv

\* Steps of nobody's job.
LEMMA BaseStepNobody ==
    ASSUME BaseInv, TypeOK', Forward, UNCHANGED jobs,
           \A i \in Ids' : (i \in Ids /\ releases'[i] = releases[i]) \/ RowTrue(i)'
    PROVE  BaseInv'
<1>1. \A i \in Ids' : RowTrue(i)' BY RowKept DEF BaseInv
<1>2. \A h \in Goroutines : Fits(h)' BY FitsKept DEF BaseInv
<1> QED BY <1>1, <1>2 DEF BaseInv

LEMMA BaseFacts ==
    ASSUME BaseInv
    PROVE  /\ TypeOK /\ releases \in Seq(Release) /\ Len(releases) <= MaxReleases
           /\ stage \in [Stages -> {"active", "failed"}] /\ github \in [Runs -> Run]
           /\ jobs \in [Goroutines -> Job] /\ served \in 0..MaxServed
           /\ applied \subseteq Ids /\ Ids \subseteq ReleaseId
           /\ troubles \subseteq {"read", "write", "apply", "crash", "overlap"}
           /\ \A i \in Ids : releases[i] \in Release /\ RowTrue(i)
<1>1. Ids \subseteq ReleaseId BY BoundsAssumption DEF BaseInv, TypeOK, Ids, ReleaseId
<1> QED BY <1>1, RowIn DEF BaseInv, TypeOK, Ids

LEMMA TroubleTyped ==
    ASSUME BaseInv, NEW kind, Trouble(kind)
    PROVE  /\ troubles' \subseteq {"read", "write", "apply", "crash", "overlap"}
           /\ troubles \subseteq troubles' /\ kind \in troubles'
BY BoundsAssumption DEF Trouble, BaseInv, TypeOK

-----------------------------------------------------------------------------
(* Going on *)

\* Another job of a sync, with no more to hear and nothing else listed.
LEMMA SyncGoesOn ==
    ASSUME BaseInv, Forward, UNCHANGED github, NEW g \in Goroutines, NEW job \in Job,
           Heard(job), Listed(job), jobs'[g] \in Job,
           \A r \in Runs : jobs'[g].seen[r] \in {job.seen[r], "unborn"},
           jobs'[g].group = job.group \/ \A r \in Runs : jobs'[g].seen[r] = "unborn",
           \A s \in Stages : jobs'[g].waiting[s] \in {job.waiting[s], Nobody}
    PROVE  Heard(jobs[g])' /\ Listed(jobs[g])'
<1>1. Heard(jobs[g])' BY DEF Heard, Forward
<1>2. ASSUME NEW s \in Stages, jobs'[g].waiting[s] # Nobody
      PROVE  /\ jobs'[g].waiting[s].id \in Ids' /\ jobs'[g].waiting[s].row.run = NoRun
             /\ jobs'[g].waiting[s].row.status \in Unfinished
             /\ GroupOf(jobs'[g].waiting[s].row) = s /\ Imaged(jobs[g].waiting[s].row)'
  <2>1. jobs'[g].waiting[s] = job.waiting[s] /\ job.waiting[s] # Nobody BY <1>2
  <2>2. /\ job.waiting[s].id \in Ids /\ job.waiting[s].row.run = NoRun
        /\ job.waiting[s].row.status \in Unfinished
        /\ GroupOf(job.waiting[s].row) = s /\ Imaged(job.waiting[s].row)
    BY <2>1 DEF Listed
  <2>3. job.waiting[s].row.tag \in Runs \cup {NoRun} BY RowFields, RunFacts DEF Job, Waiting
  <2>4. Imaged(jobs[g].waiting[s].row)' BY <2>1, <2>2, <2>3 DEF Imaged, Forward
  <2> QED BY <2>1, <2>2, <2>4 DEF Forward
<1>3. Listed(jobs[g])' BY <1>2 DEF Listed, GroupOf
<1> QED BY <1>1, <1>3

LEMMA BareFields ==
    ASSUME NEW job \in Job, NEW pc \in Pc
    PROVE  /\ Bare(job, pc) \in Job /\ Bare(job, pc).pc = pc /\ Bare(job, pc).op = job.op
           /\ Bare(job, pc).seen = job.seen /\ Bare(job, pc).waiting = job.waiting
           /\ Bare(job, pc).group = job.group /\ Bare(job, pc).groups = job.groups
<1>1. NoRun \in RunId /\ "queued" \in News /\ 0 \in ReleaseId /\ Nothing \in Release
  BY RunFacts, NobodyFields, Words DEF ReleaseId
<1> QED BY <1>1 DEF Bare, Job

\* What a job becomes when its row is dealt with.
LEMMA Resumes ==
    ASSUME NEW job \in Job
    PROVE  /\ Resume(job) \in Job /\ Resume(job).pc \in {"idle", "each", "fetch"}
           /\ Resume(job).pc = "idle" => Resume(job) = Idle
           /\ Resume(job).pc # "idle" => job.op = "sync" /\ Resume(job).op = "sync"
           /\ \A r \in Runs : Resume(job).seen[r] \in {job.seen[r], "unborn"}
           /\ Resume(job).pc = "each" => Found(Resume(job)) # {}
           /\ Resume(job).group = job.group \/ \A r \in Runs : Resume(job).seen[r] = "unborn"
           /\ \A s \in Stages : Resume(job).waiting[s] \in {job.waiting[s], Nobody}
<1>1. CASE job.op = "sync" /\ Found(job) # {}
  <2>1. Resume(job) = Bare(job, "each") BY <1>1 DEF Resume
  <2> DEFINE next == Bare(job, "each")
  <2>2. /\ next \in Job /\ next.pc = "each" /\ next.op = "sync" /\ next.seen = job.seen
        /\ next.waiting = job.waiting /\ next.group = job.group
    BY <1>1, BareFields, Words
  <2>3. Resume(job) = next BY <2>1
  <2> HIDE DEF next
  <2>4. Found(next) = Found(job) BY <2>2 DEF Found
  <2> QED BY <1>1, <2>2, <2>3, <2>4
<1>2. CASE job.op = "sync" /\ Found(job) = {} /\ job.groups # {}
  <2> DEFINE bare == Bare(job, "fetch")
             next == [bare EXCEPT !.group = Production, !.waiting[job.group] = Nobody]
  <2>1. Resume(job) = next
    <3>1. Resume(job) = [Bare(job, "fetch") EXCEPT !.group = Production, !.waiting[job.group] = Nobody]
      BY <1>2 DEF Resume
    <3> QED BY <3>1
  <2>2. /\ bare \in Job /\ bare.pc = "fetch" /\ bare.op = "sync" /\ bare.seen = job.seen
        /\ bare.waiting = job.waiting
    BY <1>2, BareFields, Words
  <2> HIDE DEF bare
  <2>3. bare.waiting \in [Stages -> Waiting] /\ Nobody \in Waiting /\ Production \in Stages /\ job.group \in Stages
    BY <2>2, NobodyFields, RunFacts DEF Job
  <2>4. /\ next.pc = "fetch" /\ next.op = "sync" /\ next.seen = job.seen
        /\ next.waiting = [bare.waiting EXCEPT ![job.group] = Nobody]
    BY <2>2 DEF Job
  <2>5. next.waiting \in [Stages -> Waiting] BY <2>3, <2>4, UpdateInRange
  <2>6. next \in Job BY <2>2, <2>3, <2>5 DEF Job
  <2>7. \A s \in Stages : next.waiting[s] \in {job.waiting[s], Nobody} BY <2>2, <2>3, <2>4
  <2>8. \A r \in Runs : next.seen[r] = "unborn" BY <1>2, <2>4 DEF Found
  <2> HIDE DEF next
  <2> QED BY <1>2, <2>1, <2>4, <2>6, <2>7, <2>8
<1>3. CASE ~(job.op = "sync" /\ Found(job) # {}) /\ ~(job.op = "sync" /\ job.groups # {})
  <2>1. Resume(job) = Idle BY <1>3 DEF Resume
  <2> QED BY <2>1, IdleJob
<1> QED BY <1>1, <1>2, <1>3

LEMMA ResumeFits ==
    ASSUME BaseInv, Forward, UNCHANGED github, NEW g \in Goroutines, NEW job \in Job,
           job.op = "sync" => Heard(job) /\ Listed(job), jobs'[g] = Resume(job)
    PROVE  Fits(g)'
<1>1. jobs'[g] \in Job BY Resumes
<1>2. jobs'[g].pc \in {"idle", "each", "fetch"} /\ (jobs'[g].pc = "idle" => jobs'[g] = Idle)
  BY Resumes
<1>3. /\ jobs'[g].pc # "idle" => job.op = "sync" /\ jobs'[g].op = "sync"
      /\ jobs'[g].pc = "each" => Found(jobs'[g]) # {}
  BY Resumes
<1>4. jobs'[g].op = "sync" => job.op = "sync"
  BY <1>2, <1>3, IdleJob
<1>5. jobs'[g].op = "sync" => Heard(jobs[g])' /\ Listed(jobs[g])'
  BY <1>1, <1>4, Resumes, SyncGoesOn
<1>6. Found(jobs'[g]) = Found(jobs[g])' BY DEF Found
<1> QED BY <1>2, <1>3, <1>5, <1>6 DEF Fits, Rows

-----------------------------------------------------------------------------
(* Work that begins *)

LEMMA Begins ==
    ASSUME BaseInv, NEW g \in Goroutines, NEW job \in Job, Begin(g, job)
    PROVE  /\ jobs[g].pc = "idle" /\ jobs[g] = Idle
           /\ jobs' \in [Goroutines -> Job] /\ jobs'[g] = job /\ Others(g)
           /\ served' \in 0..MaxServed
           /\ troubles' \subseteq {"read", "write", "apply", "crash", "overlap"}
           /\ troubles \subseteq troubles'
           /\ "overlap" \notin troubles' => troubles' = troubles /\ \A h \in Goroutines : jobs[h].pc = "idle"
<1>1. served' \in 0..MaxServed BY BaseFacts, RunFacts DEF Begin
<1>2. Goto(g, job) BY DEF Begin
<1>3. jobs' \in [Goroutines -> Job] /\ jobs'[g] = job /\ Others(g)
  BY <1>2, BaseFacts, JobGoes DEF Others
<1>4. jobs[g].pc = "idle" /\ jobs[g] = Idle BY DEF Begin, At, BaseInv, Fits
<1>5. troubles' = IF \E h \in Goroutines : ~At(h, "idle") THEN troubles \cup {"overlap"} ELSE troubles
  BY DEF Begin
<1> QED BY <1>1, <1>3, <1>4, <1>5, BaseFacts DEF At

LEMMA DeliverJob ==
    ASSUME BaseInv, NEW g \in Goroutines, NEW r \in Runs, NEW news \in News, Deliver(g, r, news)
    PROVE  \E job \in Job :
             /\ Begin(g, job) /\ job.op = "webhook" /\ job.pc = "lookup" /\ job.run = r /\ job.news = news
             /\ news \in Sent(r) /\ UNCHANGED <<releases, stage, github, applied>>
<1> DEFINE job == [Idle EXCEPT !.op = "webhook", !.pc = "lookup", !.run = r, !.news = news]
<1>1. job \in Job BY IdleJob, RunFacts, Words DEF Job
<1>2. job.op = "webhook" /\ job.pc = "lookup" /\ job.run = r /\ job.news = news BY IdleJob DEF Job
<1>3. Begin(g, job) /\ news \in Sent(r) /\ UNCHANGED <<releases, stage, github, applied>> BY DEF Deliver
<1> HIDE DEF job
<1> QED BY <1>1, <1>2, <1>3

LEMMA BeginRollbackJob ==
    ASSUME BaseInv, NEW g \in Goroutines, NEW i \in Ids, BeginRollback(g, i)
    PROVE  \E job \in Job :
             /\ Begin(g, job) /\ job.op = "rollback" /\ job.pc = "create"
             /\ job.copy \in Release /\ job.copy.stage = releases[i].stage /\ job.copy.status = "pending"
             /\ job.copy.run = NoRun /\ job.copy.tag = releases[i].tag
             /\ releases[i].status = "success" /\ UNCHANGED <<releases, stage, github, applied>>
<1> DEFINE copy == NewRelease(releases[i].stage, "pending", NoRun, releases[i].tag)
           job == [Idle EXCEPT !.op = "rollback", !.pc = "create", !.copy = copy]
<1>1. releases[i].stage \in StageId /\ releases[i].tag \in RunId BY BaseFacts, RowFields
<1>2. /\ copy \in Release /\ copy.stage = releases[i].stage /\ copy.status = "pending"
      /\ copy.run = NoRun /\ copy.tag = releases[i].tag
  BY <1>1, NewReleaseFields, RunFacts, Words
<1>3. Begin(g, job) /\ releases[i].status = "success" /\ UNCHANGED <<releases, stage, github, applied>>
  BY DEF BeginRollback
<1> HIDE DEF copy
<1>4. job \in Job BY <1>2, IdleJob, Words DEF Job
<1>5. job.op = "rollback" /\ job.pc = "create" /\ job.copy = copy BY IdleJob DEF Job
<1> HIDE DEF job
<1> QED BY <1>2, <1>3, <1>4, <1>5

LEMMA WaitingInFacts ==
    ASSUME BaseInv, NEW s \in Stages
    PROVE  /\ WaitingIn(s) \in Waiting
           /\ WaitingIn(s) # Nobody =>
                /\ WaitingIn(s).id \in Ids /\ WaitingIn(s).row = releases[WaitingIn(s).id]
                /\ WaitingIn(s).row.run = NoRun /\ WaitingIn(s).row.status \in Unfinished
                /\ GroupOf(WaitingIn(s).row) = s
<1> DEFINE S == {k \in Ids : /\ GroupOf(releases[k]) = s /\ releases[k].run = NoRun
                             /\ releases[k].status \in Unfinished}
           i == Newest(S)
<1>1. WaitingIn(s) = IF i = 0 THEN Nobody ELSE [id |-> i, row |-> releases[i]] BY DEF WaitingIn
<1>2. S \in SUBSET Ids OBVIOUS
<1>3. i = 0 \/ (i \in Ids /\ GroupOf(releases[i]) = s /\ releases[i].run = NoRun /\ releases[i].status \in Unfinished)
  <2> HIDE DEF i
  <2>1. i = 0 \/ i \in S BY <1>2, BaseFacts, NewestIn DEF i
  <2> QED BY <2>1
<1> HIDE DEF i
<1>4. CASE i = 0 BY <1>1, <1>4, NobodyFields
<1>5. CASE i # 0
  <2>1. i \in ReleaseId /\ releases[i] \in Release BY <1>3, <1>5, BaseFacts
  <2> QED BY <1>1, <1>3, <1>5, <2>1 DEF Waiting
<1> QED BY <1>4, <1>5

LEMMA BeginSyncJob ==
    ASSUME BaseInv, NEW g \in Goroutines, BeginSync(g)
    PROVE  \E job \in Job :
             /\ Begin(g, job) /\ job.op = "sync" /\ job.pc = "fetch"
             /\ \A r \in Runs : job.seen[r] = "unborn"
             /\ \A s \in Stages : job.waiting[s] = WaitingIn(s)
             /\ UNCHANGED <<releases, stage, github, applied>>
<1> DEFINE groups == {GroupOf(releases[i]) : i \in Ids}
           waiting == [s \in Stages |-> WaitingIn(s)]
           job == [Idle EXCEPT !.op = "sync", !.pc = "fetch", !.groups = groups, !.waiting = waiting]
<1>1. groups \subseteq Stages
  <2>1. ASSUME NEW i \in Ids PROVE GroupOf(releases[i]) \in Stages
    BY BaseFacts, RowFields, RunFacts DEF GroupOf
  <2> QED BY <2>1
<1>2. waiting \in [Stages -> Waiting] /\ \A s \in Stages : waiting[s] = WaitingIn(s)
  BY WaitingInFacts
<1>3. Begin(g, job) /\ UNCHANGED <<releases, stage, github, applied>>
  BY DEF BeginSync
<1> HIDE DEF groups, waiting
<1>4. job \in Job BY <1>1, <1>2, IdleJob, Words DEF Job
<1>5. job.op = "sync" /\ job.pc = "fetch" /\ job.seen = Idle.seen /\ job.waiting = waiting
  BY IdleJob DEF Job
<1> HIDE DEF job
<1> QED BY <1>2, <1>3, <1>4, <1>5, IdleJob

\* Nothing but the job of one goroutine changes.
LEMMA BaseSameRows ==
    ASSUME BaseInv, NEW g \in Goroutines, jobs' \in [Goroutines -> Job], Others(g), Fits(g)',
           UNCHANGED <<releases, github>>, stage' \in [Stages -> {"active", "failed"}],
           applied \subseteq applied', applied' \subseteq Ids, served' \in 0..MaxServed,
           troubles' \subseteq {"read", "write", "apply", "crash", "overlap"}
    PROVE  BaseInv'
<1>1. Ids' = Ids BY DEF Ids
<1>2. TypeOK' BY <1>1, BaseFacts DEF TypeOK, Ids
<1>3. Forward BY <1>1, SameHub
<1> QED BY <1>1, <1>2, <1>3, BaseStep

LEMMA BaseBegin ==
    ASSUME BaseInv, NEW g \in Goroutines, NEW job \in Job, Begin(g, job), Fits(g)',
           UNCHANGED <<releases, stage, github, applied>>
    PROVE  BaseInv'
BY Begins, BaseFacts, BaseSameRows

LEMMA BaseDeliver ==
    ASSUME BaseInv, NEW g \in Goroutines, NEW r \in Runs, NEW news \in News, Deliver(g, r, news)
    PROVE  BaseInv'
<1>1. PICK job \in Job :
         /\ Begin(g, job) /\ job.op = "webhook" /\ job.pc = "lookup" /\ job.run = r /\ job.news = news
         /\ news \in Sent(r) /\ UNCHANGED <<releases, stage, github, applied>>
  BY DeliverJob
<1>2. jobs'[g] = job BY <1>1, Begins
<1>3. Sent(r)' = Sent(r) BY <1>1 DEF Sent
<1>4. Fits(g)' BY <1>1, <1>2, <1>3 DEF Fits, Rows
<1> QED BY <1>1, <1>4, BaseBegin

LEMMA BaseBeginRollback ==
    ASSUME BaseInv, NEW g \in Goroutines, NEW i \in Ids, BeginRollback(g, i)
    PROVE  BaseInv'
<1>1. PICK job \in Job :
         /\ Begin(g, job) /\ job.op = "rollback" /\ job.pc = "create"
         /\ job.copy \in Release /\ job.copy.stage = releases[i].stage /\ job.copy.status = "pending"
         /\ job.copy.run = NoRun /\ job.copy.tag = releases[i].tag
         /\ releases[i].status = "success" /\ UNCHANGED <<releases, stage, github, applied>>
  BY BeginRollbackJob
<1>2. jobs'[g] = job BY <1>1, Begins
<1>3. RowTrue(i) /\ releases[i].run \in RunId /\ releases[i].tag \in RunId BY BaseFacts, RowFields
<1>4. Imaged(jobs[g].copy)'
  <2>1. ASSUME releases[i].tag # NoRun PROVE "succeeded" \in Sent(releases[i].tag)'
    <3>1. "succeeded" \in Sent(releases[i].tag)
      BY <1>1, <1>3, <2>1 DEF RowTrue, Imaged, Earned
    <3> QED BY <1>1, <3>1 DEF Sent
  <2> QED BY <1>1, <1>2, <2>1 DEF Imaged, Sent
<1>5. Fills(jobs[g])' BY <1>1, <1>2 DEF Fills
<1>6. Fits(g)' BY <1>1, <1>2, <1>4, <1>5 DEF Fits, Rows
<1> QED BY <1>1, <1>6, BaseBegin

LEMMA BaseBeginSync ==
    ASSUME BaseInv, NEW g \in Goroutines, BeginSync(g)
    PROVE  BaseInv'
<1>1. PICK job \in Job :
         /\ Begin(g, job) /\ job.op = "sync" /\ job.pc = "fetch"
         /\ \A r \in Runs : job.seen[r] = "unborn"
         /\ \A s \in Stages : job.waiting[s] = WaitingIn(s)
         /\ UNCHANGED <<releases, stage, github, applied>>
  BY BeginSyncJob
<1>2. jobs'[g] = job BY <1>1, Begins
<1>3. Heard(jobs[g])' BY <1>1, <1>2 DEF Heard
<1>4. ASSUME NEW s \in Stages, job.waiting[s] # Nobody
      PROVE  /\ job.waiting[s].id \in Ids /\ job.waiting[s].row.run = NoRun
             /\ job.waiting[s].row.status \in Unfinished
             /\ GroupOf(job.waiting[s].row) = s /\ Imaged(job.waiting[s].row)
  <2> DEFINE w == job.waiting[s]
  <2>1. /\ w.id \in Ids /\ w.row = releases[w.id] /\ w.row.run = NoRun /\ GroupOf(w.row) = s
        /\ w.row.status \in Unfinished
    BY <1>1, <1>4, WaitingInFacts
  <2> HIDE DEF w
  <2>2. Imaged(w.row) BY <2>1, BaseFacts DEF RowTrue
  <2> QED BY <2>1, <2>2 DEF w
<1>5. Listed(job) BY <1>4 DEF Listed
<1>6. Heard(job) BY <1>1 DEF Heard
<1>7. Forward BY <1>1, SameHub DEF Ids
<1>8. Listed(jobs[g])' BY <1>1, <1>2, <1>5, <1>6, <1>7, SyncGoesOn
<1>9. Fits(g)' BY <1>1, <1>2, <1>3, <1>8 DEF Fits, Rows
<1> QED BY <1>1, <1>9, BaseBegin

-----------------------------------------------------------------------------
(* GitHub goes on, a pull request opens, the process stops *)

LEMMA HubMoves ==
    ASSUME TypeOK, NEW r \in Runs, StartRun(r) \/ MoveRun(r)
    PROVE  /\ github' \in [Runs -> Run] /\ Forward
           /\ \A q \in Runs : github[q].status \in Ended => github'[q] = github[q]
           /\ UNCHANGED <<releases, stage, jobs, served, applied, troubles>>
<1>1. github \in [Runs -> Run] BY DEF TypeOK
<1>2. UNCHANGED <<releases, stage, jobs, served, applied, troubles>> BY DEF StartRun, MoveRun
<1>3. Ids' = Ids BY <1>2 DEF Ids
<1>4. ASSUME NEW run \in Run, github' = [github EXCEPT ![r] = run], github[r].status \notin Ended,
             github[r].status # "unborn" => run.path = github[r].path,
             run.status # "unborn", github[r].status = "in_progress" => run.status \in Ended
      PROVE  /\ github' \in [Runs -> Run] /\ Forward
             /\ \A q \in Runs : github[q].status \in Ended => github'[q] = github[q]
  <2>1. github' \in [Runs -> Run] BY <1>1, <1>4
  <2>2. github'[r] = run /\ \A q \in Runs : q # r => github'[q] = github[q] BY <1>1, <1>4
  <2>3. ASSUME NEW q \in Runs PROVE Sent(q) \subseteq Sent(q)'
    <3>1. CASE q # r BY <2>2, <3>1 DEF Sent
    <3>2. CASE q = r
      <4>1. github[r] \in Run BY <1>1
      <4>2. github[r].status \in {"unborn", "queued", "in_progress"}
        BY <1>4, <4>1 DEF Run, RunStatus, Ended
      <4> QED BY <1>4, <2>2, <3>2, <4>2 DEF Sent, Ended
    <3> QED BY <3>1, <3>2
  <2>4. ASSUME NEW q \in Runs, github[q].status # "unborn"
        PROVE  github'[q].status # "unborn" /\ github'[q].path = github[q].path
    BY <1>4, <2>2, <2>4
  <2> QED BY <1>2, <1>3, <1>4, <2>1, <2>2, <2>3, <2>4 DEF Forward
<1>5. CASE StartRun(r)
  <2>1. PICK path \in Paths[r] : github' = [github EXCEPT ![r] = [status |-> "queued", path |-> path]]
    BY <1>5 DEF StartRun
  <2>2. path \in StageId BY RunsAssumption DEF StageId
  <2> DEFINE run == [status |-> "queued", path |-> path]
  <2>3. run \in Run /\ run.status = "queued" BY <2>2, Words DEF Run
  <2>4. github[r].status = "unborn" BY <1>5 DEF StartRun
  <2>5. github' = [github EXCEPT ![r] = run] BY <2>1
  <2> HIDE DEF run
  <2> QED BY <1>2, <1>4, <2>3, <2>4, <2>5 DEF Ended
<1>6. CASE MoveRun(r)
  <2>1. PICK to \in News : /\ \/ github[r].status = "queued" /\ to \in {"in_progress"}
                              \/ github[r].status = "in_progress" /\ to \in Ended
                           /\ github' = [github EXCEPT ![r].status = to]
    BY <1>6 DEF MoveRun
  <2> DEFINE run == [github[r] EXCEPT !.status = to]
  <2>2. github[r] \in Run BY <1>1
  <2>3. run \in Run /\ run.status = to /\ run.path = github[r].path BY <2>2 DEF Run, News
  <2>4. github' = [github EXCEPT ![r] = run] BY <1>1, <2>1
  <2>5. to # "unborn" /\ github[r].status \notin Ended BY <2>1 DEF Ended
  <2> HIDE DEF run
  <2> QED BY <1>2, <1>4, <2>1, <2>3, <2>4, <2>5
<1> QED BY <1>2, <1>5, <1>6

LEMMA BaseHub ==
    ASSUME BaseInv, NEW r \in Runs, StartRun(r) \/ MoveRun(r)
    PROVE  BaseInv'
<1>1. Ids' = Ids BY BaseFacts, HubMoves DEF Ids
<1>2. TypeOK' BY <1>1, BaseFacts, HubMoves DEF TypeOK
<1> QED BY <1>1, <1>2, BaseFacts, HubMoves, BaseStepNobody

LEMMA TypedAfter ==
    ASSUME releases' \in Seq(Release), Len(releases') <= MaxReleases,
           stage' \in [Stages -> {"active", "failed"}], github' \in [Runs -> Run],
           jobs' \in [Goroutines -> Job], served' \in 0..MaxServed, applied' \subseteq Ids',
           troubles' \subseteq {"read", "write", "apply", "crash", "overlap"}
    PROVE  TypeOK'
BY DEF TypeOK, Ids

\* A row that says nothing but what GitHub has reported may be put in.
LEMMA TrueInsert ==
    ASSUME BaseInv, NEW row \in Release, Inserted(row), UNCHANGED <<github, applied>>,
           Imaged(row), Placed(row),
           row.status = "success" => row.run # NoRun /\ "succeeded" \in Sent(row.run),
           row.status = "failed" /\ row.run # NoRun => "failed" \in Sent(row.run)
    PROVE  /\ releases' \in Seq(Release) /\ Len(releases') <= MaxReleases
           /\ Forward /\ applied' \subseteq Ids'
           /\ \A i \in Ids' : (i \in Ids /\ releases'[i] = releases[i]) \/ RowTrue(i)'
<1>1. PICK n : n = Len(releases) + 1 OBVIOUS
<1>2. /\ releases' \in Seq(Release) /\ Len(releases') <= MaxReleases
      /\ Ids' = Ids \cup {n} /\ releases'[n] = row /\ \A j \in Ids : releases'[j] = releases[j]
  BY <1>1, BaseFacts, RowInserted
<1>3. Forward BY <1>2, SameHub
<1>4. row.run \in Runs \cup {NoRun} /\ row.tag \in Runs \cup {NoRun} BY RowFields, RunFacts
<1>5. Imaged(releases[n])' BY <1>2, <1>3, <1>4 DEF Imaged, Forward
<1>6. Placed(releases[n])' BY <1>2, <1>4 DEF Placed
<1>7. Earned(releases[n], n)' BY <1>2, <1>3, <1>4 DEF Earned, Forward
<1>8. RowTrue(n)' BY <1>5, <1>6, <1>7 DEF RowTrue
<1> QED BY <1>2, <1>3, <1>8, BaseFacts

LEMMA BaseBootstrap ==
    ASSUME BaseInv, NEW s \in Stages, CreateBootstrapRelease(s)
    PROVE  BaseInv'
<1> DEFINE row == NewRelease(s, "pending", NoRun, NoRun)
<1>1. s \in StageId /\ "pending" \in ReleaseStatus /\ NoRun \in RunId BY RunFacts, Words
<1>2. row \in Release /\ row.status = "pending" /\ row.run = NoRun /\ row.tag = NoRun
  BY <1>1, NewReleaseFields
<1>3. Inserted(row) /\ UNCHANGED <<stage, github, jobs, served, applied, troubles>>
  BY DEF CreateBootstrapRelease
<1> HIDE DEF row
<1>4. Imaged(row) /\ Placed(row) BY <1>2 DEF Imaged, Placed
<1>5. /\ releases' \in Seq(Release) /\ Len(releases') <= MaxReleases
      /\ Forward /\ applied' \subseteq Ids'
      /\ \A i \in Ids' : (i \in Ids /\ releases'[i] = releases[i]) \/ RowTrue(i)'
  BY <1>2, <1>3, <1>4, TrueInsert
<1>6. TypeOK' BY <1>3, <1>5, BaseFacts, TypedAfter
<1> QED BY <1>3, <1>5, <1>6, BaseStepNobody

LEMMA BaseCrash ==
    ASSUME BaseInv, Crash
    PROVE  BaseInv'
<1>1. UNCHANGED <<releases, stage, github, served, applied>> /\ Trouble("crash") BY DEF Crash
<1>2. jobs' \in [Goroutines -> Job] /\ \A g \in Goroutines : jobs'[g] = Idle BY IdleJob DEF Crash
<1>3. Ids' = Ids BY <1>1 DEF Ids
<1>4. TypeOK' BY <1>1, <1>2, <1>3, BaseFacts, TroubleTyped DEF TypeOK
<1>5. Forward BY <1>1, <1>3, SameHub
<1>6. \A g \in Goroutines : Fits(g)' BY <1>2, IdleJob DEF Fits, Rows
<1>7. \A i \in Ids' : RowTrue(i)' BY <1>1, <1>3, <1>5, BaseFacts, RowKept
<1> QED BY <1>4, <1>6, <1>7 DEF BaseInv

-----------------------------------------------------------------------------
(* The steps of a webhook *)

\* A copy that follows a run, in a job of an event or a sync.
LEMMA RowJobFits ==
    ASSUME BaseInv, Forward, UNCHANGED github, NEW g \in Goroutines, NEW job \in Job, jobs'[g] = job,
           job.pc \in {"create", "write"}, job.op \in {"webhook", "sync"},
           Imaged(job.copy), Follows(job),
           job.pc = "write" => job.id \in Ids',
           job.pc = "create" /\ job.op = "webhook" => job.copy.status = "pending",
           job.op = "sync" => Heard(jobs[g])' /\ Listed(jobs[g])'
    PROVE  Fits(g)'
<1>1. job.copy.tag \in Runs \cup {NoRun} /\ job.copy.run \in Runs \cup {NoRun} /\ job.copy \in Release
  BY RowFields, RunFacts DEF Job
<1>2. Imaged(jobs[g].copy)' BY <1>1 DEF Imaged, Forward
<1>3. Follows(jobs[g])' BY <1>1 DEF Follows, Placed, Forward
<1> QED BY <1>2, <1>3 DEF Fits, Rows

LEMMA LookupJob ==
    ASSUME BaseInv, NEW g \in Goroutines, Lookup(g)
    PROVE  /\ jobs[g].pc = "lookup" /\ UNCHANGED <<releases, stage, github, served, applied>>
           /\ \E job \in Job :
                /\ Goto(g, job) /\ job.op = "webhook" /\ job.run = jobs[g].run /\ job.news = jobs[g].news
                /\ \/ /\ job.pc = "write" /\ job.id \in WithRun(job.run) /\ job.copy = releases[job.id]
                      /\ UNCHANGED troubles
                   \/ job.pc = "match" /\ WithRun(job.run) = {} /\ UNCHANGED troubles
                   \/ job.pc = "match" /\ Trouble("read")
<1>1. jobs[g].pc = "lookup" /\ UNCHANGED <<releases, stage, github, served, applied>> BY DEF Lookup, At
<1>2. jobs[g] \in Job /\ jobs[g].op = "webhook" BY <1>1, BaseFacts, JobFields DEF BaseInv, Fits
<1>3. ASSUME NEW i \in WithRun(jobs[g].run),
             Goto(g, [jobs[g] EXCEPT !.pc = "write", !.id = i, !.copy = releases[i]]), UNCHANGED troubles
      PROVE  \E job \in Job :
                /\ Goto(g, job) /\ job.op = "webhook" /\ job.run = jobs[g].run /\ job.news = jobs[g].news
                /\ job.pc = "write" /\ job.id \in WithRun(job.run) /\ job.copy = releases[job.id]
                /\ UNCHANGED troubles
  <2> DEFINE job == [jobs[g] EXCEPT !.pc = "write", !.id = i, !.copy = releases[i]]
  <2>1. i \in ReleaseId /\ releases[i] \in Release BY <1>3, BaseFacts DEF WithRun
  <2>2. job \in Job BY <1>2, <2>1, Words DEF Job
  <2>3. /\ job.op = "webhook" /\ job.run = jobs[g].run /\ job.news = jobs[g].news
        /\ job.pc = "write" /\ job.id = i /\ job.copy = releases[i]
    BY <1>2 DEF Job
  <2>4. Goto(g, job) BY <1>3
  <2> HIDE DEF job
  <2> QED BY <1>3, <2>2, <2>3, <2>4
<1> DEFINE next == Does(g, "match")
<1>4. next \in Job /\ next.op = "webhook" /\ next.run = jobs[g].run /\ next.news = jobs[g].news /\ next.pc = "match"
  BY <1>2, Words DEF Does, Job
<1>5. \/ \E i \in WithRun(jobs[g].run) :
            Goto(g, [jobs[g] EXCEPT !.pc = "write", !.id = i, !.copy = releases[i]]) /\ UNCHANGED troubles
      \/ WithRun(jobs[g].run) = {} /\ Goto(g, next) /\ UNCHANGED troubles
      \/ Trouble("read") /\ Goto(g, next)
  BY DEF Lookup
<1> HIDE DEF next
<1>6. CASE \E i \in WithRun(jobs[g].run) :
             Goto(g, [jobs[g] EXCEPT !.pc = "write", !.id = i, !.copy = releases[i]]) /\ UNCHANGED troubles
  <2>1. PICK job \in Job :
                /\ Goto(g, job) /\ job.op = "webhook" /\ job.run = jobs[g].run /\ job.news = jobs[g].news
                /\ job.pc = "write" /\ job.id \in WithRun(job.run) /\ job.copy = releases[job.id]
                /\ UNCHANGED troubles
    BY <1>3, <1>6
  <2> QED BY <1>1, <2>1
<1>7. CASE WithRun(jobs[g].run) = {} /\ Goto(g, next) /\ UNCHANGED troubles BY <1>1, <1>4, <1>7
<1>8. CASE Trouble("read") /\ Goto(g, next) BY <1>1, <1>4, <1>8
<1> QED BY <1>5, <1>6, <1>7, <1>8

LEMMA BaseLookup ==
    ASSUME BaseInv, NEW g \in Goroutines, Lookup(g)
    PROVE  BaseInv'
<1>1. PICK job \in Job :
        /\ Goto(g, job) /\ job.op = "webhook" /\ job.run = jobs[g].run /\ job.news = jobs[g].news
        /\ \/ /\ job.pc = "write" /\ job.id \in WithRun(job.run) /\ job.copy = releases[job.id]
              /\ UNCHANGED troubles
           \/ job.pc = "match" /\ WithRun(job.run) = {} /\ UNCHANGED troubles
           \/ job.pc = "match" /\ Trouble("read")
  BY LookupJob
<1>2. jobs[g].pc = "lookup" /\ UNCHANGED <<releases, stage, github, served, applied>> BY LookupJob
<1>3. jobs' \in [Goroutines -> Job] /\ jobs'[g] = job /\ Others(g) BY <1>1, BaseFacts, JobGoes DEF Others
<1>4. job.run \in Runs /\ job.news \in Sent(job.run) BY <1>1, <1>2 DEF BaseInv, Fits
<1>5. Ids' = Ids /\ Forward BY <1>2, SameHub DEF Ids
<1>6. troubles' \subseteq {"read", "write", "apply", "crash", "overlap"}
  <2>1. troubles' = troubles \/ Trouble("read") BY <1>1
  <2> QED BY <2>1, BaseFacts, TroubleTyped
<1>7. Fits(g)'
  <2>1. CASE job.pc = "match"
    <3>1. Sent(job.run)' = Sent(job.run) BY <1>2 DEF Sent
    <3> QED BY <1>1, <1>3, <1>4, <2>1, <3>1 DEF Fits, Rows
  <2>2. CASE job.pc = "write"
    <3>1. job.id \in Ids /\ job.copy = releases[job.id] /\ job.copy.run = job.run
      BY <1>1, <2>2 DEF WithRun
    <3>2. RowTrue(job.id) BY <3>1, BaseFacts
    <3>3. Imaged(job.copy) /\ Placed(job.copy) BY <3>1, <3>2 DEF RowTrue
    <3>4. Follows(job) BY <1>1, <1>4, <3>1, <3>3 DEF Follows
    <3> QED BY <1>1, <1>2, <1>3, <1>5, <2>2, <3>1, <3>3, <3>4, RowJobFits
  <2> QED BY <1>1, <2>1, <2>2
<1> QED BY <1>2, <1>3, <1>5, <1>6, <1>7, BaseFacts, BaseSameRows

LEMMA PendingFacts ==
    ASSUME BaseInv, NEW s
    PROVE  PendingWithoutRun(s) # 0 =>
             /\ PendingWithoutRun(s) \in Ids
             /\ releases[PendingWithoutRun(s)].run = NoRun /\ releases[PendingWithoutRun(s)].stage = s
             /\ releases[PendingWithoutRun(s)].status \in Unfinished
<1> DEFINE S == {i \in Ids : /\ releases[i].run = NoRun /\ releases[i].stage = s
                             /\ releases[i].status \in Unfinished}
<1>1. PendingWithoutRun(s) = Newest(S) BY DEF PendingWithoutRun
<1>2. S \in SUBSET Ids OBVIOUS
<1>3. Newest(S) = 0 \/ Newest(S) \in S BY <1>2, BaseFacts, NewestIn
<1> QED BY <1>1, <1>3

LEMMA MatchJob ==
    ASSUME BaseInv, NEW g \in Goroutines, Match(g)
    PROVE  /\ jobs[g].pc = "match" /\ UNCHANGED <<releases, stage, github, served, applied>>
           /\ troubles' = troubles \/ Trouble("read")
           /\ \E job \in Job :
                /\ Goto(g, job) /\ job.op = "webhook" /\ job.run = jobs[g].run /\ job.news = jobs[g].news
                /\ job.copy.run = job.run /\ job.copy.stage = github[job.run].path
                /\ \/ /\ job.pc = "write" /\ job.id \in Ids
                      /\ releases[job.id].run = NoRun /\ releases[job.id].stage = job.copy.stage
                      /\ releases[job.id].status \in Unfinished
                      /\ job.copy.tag = releases[job.id].tag
                   \/ job.pc = "create" /\ job.copy.status = "pending" /\ job.copy.tag = NoRun
<1>1. jobs[g].pc = "match" /\ UNCHANGED <<releases, stage, github, served, applied>> BY DEF Match, At
<1>2. jobs[g] \in Job /\ jobs[g].op = "webhook" /\ jobs[g].run \in Runs
  BY <1>1, BaseFacts, JobFields DEF BaseInv, Fits
<1> DEFINE s == github[jobs[g].run].path
           i == PendingWithoutRun(s)
           taken == [jobs[g] EXCEPT !.pc = "write", !.id = i, !.copy = [releases[i] EXCEPT !.run = jobs[g].run]]
           new == [jobs[g] EXCEPT !.pc = "create", !.copy = NewRelease(s, "pending", jobs[g].run, NoRun)]
<1>3. \/ i # 0 /\ Goto(g, taken) /\ UNCHANGED troubles
      \/ Goto(g, new) /\ (troubles' = troubles \/ Trouble("read"))
  BY DEF Match
<1>4. s \in StageId /\ jobs[g].run \in RunId
  <2>1. github[jobs[g].run] \in Run BY <1>2, BaseFacts
  <2> QED BY <1>2, <2>1, RunFacts DEF Run
<1> HIDE DEF s
<1>5. ASSUME i # 0
      PROVE  /\ taken \in Job /\ taken.op = "webhook" /\ taken.run = jobs[g].run /\ taken.news = jobs[g].news
             /\ taken.pc = "write" /\ taken.id = i /\ i \in Ids
             /\ releases[i].run = NoRun /\ releases[i].stage = s /\ releases[i].status \in Unfinished
             /\ taken.copy.run = jobs[g].run /\ taken.copy.stage = s /\ taken.copy.tag = releases[i].tag
  <2>1. i \in Ids /\ releases[i].run = NoRun /\ releases[i].stage = s /\ releases[i].status \in Unfinished
    BY <1>5, PendingFacts
  <2> HIDE DEF i
  <2> DEFINE copy == [releases[i] EXCEPT !.run = jobs[g].run]
  <2>2. i \in ReleaseId /\ releases[i] \in Release BY <2>1, BaseFacts
  <2>3. copy \in Release /\ copy.run = jobs[g].run /\ copy.stage = s /\ copy.tag = releases[i].tag
    BY <1>4, <2>1, <2>2 DEF Release
  <2> HIDE DEF copy
  <2> DEFINE next == [jobs[g] EXCEPT !.pc = "write", !.id = i, !.copy = copy]
  <2>4. /\ next \in Job /\ next.op = "webhook" /\ next.run = jobs[g].run /\ next.news = jobs[g].news
        /\ next.pc = "write" /\ next.id = i /\ next.copy = copy
    BY <1>2, <2>2, <2>3, Words DEF Job
  <2>5. taken = next BY DEF copy
  <2> HIDE DEF next, taken
  <2> QED BY <2>1, <2>3, <2>4, <2>5
<1>6. /\ new \in Job /\ new.op = "webhook" /\ new.run = jobs[g].run /\ new.news = jobs[g].news
      /\ new.pc = "create" /\ new.copy.run = jobs[g].run /\ new.copy.stage = s
      /\ new.copy.status = "pending" /\ new.copy.tag = NoRun
  <2> DEFINE copy == NewRelease(s, "pending", jobs[g].run, NoRun)
  <2>1. "pending" \in ReleaseStatus /\ NoRun \in RunId BY Words, RunFacts
  <2>2. /\ copy \in Release /\ copy.run = jobs[g].run /\ copy.stage = s
        /\ copy.status = "pending" /\ copy.tag = NoRun
    BY <1>4, <2>1, NewReleaseFields
  <2> HIDE DEF copy
  <2> DEFINE next == [jobs[g] EXCEPT !.pc = "create", !.copy = copy]
  <2>3. /\ next \in Job /\ next.op = "webhook" /\ next.run = jobs[g].run /\ next.news = jobs[g].news
        /\ next.pc = "create" /\ next.copy = copy
    BY <1>2, <2>2, Words DEF Job
  <2>4. new = next BY DEF copy
  <2> HIDE DEF next, new
  <2> QED BY <2>2, <2>3, <2>4
<1> HIDE DEF taken, new, i
<1>7. CASE i # 0 /\ Goto(g, taken) /\ UNCHANGED troubles BY <1>1, <1>5, <1>7 DEF s
<1>8. CASE Goto(g, new) /\ (troubles' = troubles \/ Trouble("read")) BY <1>1, <1>6, <1>8 DEF s
<1> QED BY <1>3, <1>7, <1>8

LEMMA BaseMatch ==
    ASSUME BaseInv, NEW g \in Goroutines, Match(g)
    PROVE  BaseInv'
<1>1. PICK job \in Job :
        /\ Goto(g, job) /\ job.op = "webhook" /\ job.run = jobs[g].run /\ job.news = jobs[g].news
        /\ job.copy.run = job.run /\ job.copy.stage = github[job.run].path
        /\ \/ /\ job.pc = "write" /\ job.id \in Ids
              /\ releases[job.id].run = NoRun /\ releases[job.id].stage = job.copy.stage
              /\ releases[job.id].status \in Unfinished
              /\ job.copy.tag = releases[job.id].tag
           \/ job.pc = "create" /\ job.copy.status = "pending" /\ job.copy.tag = NoRun
  BY MatchJob
<1>2. /\ jobs[g].pc = "match" /\ UNCHANGED <<releases, stage, github, served, applied>>
      /\ troubles' = troubles \/ Trouble("read")
  BY MatchJob
<1>3. jobs' \in [Goroutines -> Job] /\ jobs'[g] = job /\ Others(g) BY <1>1, BaseFacts, JobGoes DEF Others
<1>4. job.run \in Runs /\ job.news \in Sent(job.run) BY <1>1, <1>2 DEF BaseInv, Fits
<1>5. Ids' = Ids /\ Forward BY <1>2, SameHub DEF Ids
<1>6. troubles' \subseteq {"read", "write", "apply", "crash", "overlap"} BY <1>2, BaseFacts, TroubleTyped
<1>7. Placed(job.copy) BY <1>1, <1>4, NewsOfTheBorn DEF Placed
<1>8. Follows(job) BY <1>1, <1>4, <1>7 DEF Follows
<1>9. Imaged(job.copy)
  <2>1. CASE job.pc = "create" BY <1>1, <2>1 DEF Imaged
  <2>2. CASE job.pc = "write"
    <3>1. RowTrue(job.id) BY <1>1, <2>2, BaseFacts
    <3> QED BY <1>1, <2>2, <3>1 DEF RowTrue, Imaged
  <2> QED BY <1>1, <2>1, <2>2
<1>10. Fits(g)' BY <1>1, <1>2, <1>3, <1>5, <1>8, <1>9, RowJobFits
<1> QED BY <1>2, <1>3, <1>5, <1>6, <1>10, BaseFacts, BaseSameRows

-----------------------------------------------------------------------------
(* The steps of a sync *)

LEMMA LastNews ==
    ASSUME TypeOK, NEW r \in Runs, github[r].status # "unborn"
    PROVE  github[r].status \in Sent(r)
<1>1. github[r].status \in RunStatus BY DEF TypeOK, Run
<1> QED BY <1>1 DEF Sent, RunStatus, News, Ended

LEMMA FetchJob ==
    ASSUME BaseInv, NEW g \in Goroutines, FetchRuns(g)
    PROVE  /\ jobs[g].pc = "fetch" /\ jobs[g].op = "sync"
           /\ UNCHANGED <<releases, stage, github, served, applied, troubles>>
           /\ \E job \in Job :
                /\ Goto(g, job)
                /\ \/ job = Idle
                   \/ /\ job.op = "sync" /\ job.waiting = jobs[g].waiting
                      /\ \/ job.pc = "fetch" /\ job.seen = jobs[g].seen /\ job.group = jobs[g].group
                         \/ /\ job.pc = "each" /\ Found(job) # {}
                            /\ \A r \in Runs : job.seen[r] # "unborn" =>
                                  job.seen[r] = github[r].status /\ github[r].path = job.group
<1>1. jobs[g].pc = "fetch" /\ UNCHANGED <<releases, stage, github, served, applied, troubles>>
  BY DEF FetchRuns, At
<1>2. jobs[g] \in Job /\ jobs[g].op = "sync" BY <1>1, BaseFacts, JobFields DEF BaseInv, Fits
<1>3. PICK s \in jobs[g].groups :
         \E found \in SUBSET {r \in Runs : github[r].status # "unborn" /\ github[r].path = s} :
         LET seen == [r \in Runs |-> IF r \in found THEN github[r].status ELSE "unborn"]
             rest == [jobs[g] EXCEPT !.groups = @ \ {s}]
         IN Goto(g, IF found # {} THEN [rest EXCEPT !.pc = "each", !.group = s, !.seen = seen]
                    ELSE IF rest.groups = {} THEN Idle ELSE rest)
  BY DEF FetchRuns
<1>3a. PICK found \in SUBSET {r \in Runs : github[r].status # "unborn" /\ github[r].path = s} :
         LET seen == [r \in Runs |-> IF r \in found THEN github[r].status ELSE "unborn"]
             rest == [jobs[g] EXCEPT !.groups = @ \ {s}]
         IN Goto(g, IF found # {} THEN [rest EXCEPT !.pc = "each", !.group = s, !.seen = seen]
                    ELSE IF rest.groups = {} THEN Idle ELSE rest)
  BY <1>3
<1> DEFINE seen == [r \in Runs |-> IF r \in found THEN github[r].status ELSE "unborn"]
           rest == [jobs[g] EXCEPT !.groups = @ \ {s}]
           each == [rest EXCEPT !.pc = "each", !.group = s, !.seen = seen]
<1>4. IF found # {} THEN Goto(g, each) ELSE Goto(g, Idle) \/ Goto(g, rest)
  BY <1>3a
<1>5. /\ rest \in Job /\ rest.op = "sync" /\ rest.waiting = jobs[g].waiting /\ rest.pc = "fetch"
      /\ rest.seen = jobs[g].seen /\ rest.group = jobs[g].group
  BY <1>1, <1>2 DEF Job
<1>6. seen \in [Runs -> RunStatus]
  <2>1. ASSUME NEW r \in Runs PROVE github[r].status \in RunStatus BY BaseFacts DEF Run
  <2> QED BY <2>1, Words
<1>7. /\ \A r \in Runs : seen[r] # "unborn" => seen[r] = github[r].status /\ github[r].path = s
      /\ found # {} => \E r \in Runs : seen[r] # "unborn"
  OBVIOUS
<1>8. s \in Stages BY <1>2 DEF Job
<1> HIDE DEF seen, rest
<1>9. /\ each \in Job /\ each.op = "sync" /\ each.waiting = jobs[g].waiting /\ each.pc = "each"
      /\ each.seen = seen /\ each.group = s
  BY <1>5, <1>6, <1>8, Words DEF Job
<1> HIDE DEF each
<1>10. found # {} => Found(each) # {} BY <1>7, <1>9 DEF Found
<1>11. CASE found # {} BY <1>1, <1>2, <1>4, <1>7, <1>9, <1>10, <1>11
<1>12. CASE found = {} BY <1>1, <1>2, <1>4, <1>5, <1>12, IdleJob
<1> QED BY <1>11, <1>12

LEMMA BaseFetch ==
    ASSUME BaseInv, NEW g \in Goroutines, FetchRuns(g)
    PROVE  BaseInv'
<1>1. PICK job \in Job :
        /\ Goto(g, job)
        /\ \/ job = Idle
           \/ /\ job.op = "sync" /\ job.waiting = jobs[g].waiting
              /\ \/ job.pc = "fetch" /\ job.seen = jobs[g].seen /\ job.group = jobs[g].group
                 \/ /\ job.pc = "each" /\ Found(job) # {}
                    /\ \A r \in Runs : job.seen[r] # "unborn" =>
                          job.seen[r] = github[r].status /\ github[r].path = job.group
  BY FetchJob
<1>2. /\ jobs[g].pc = "fetch" /\ jobs[g].op = "sync"
      /\ UNCHANGED <<releases, stage, github, served, applied, troubles>>
  BY FetchJob
<1>3. jobs' \in [Goroutines -> Job] /\ jobs'[g] = job /\ Others(g) BY <1>1, BaseFacts, JobGoes DEF Others
<1>4. Heard(jobs[g]) /\ Listed(jobs[g]) /\ jobs[g] \in Job BY <1>2, BaseFacts, JobFields DEF BaseInv, Fits
<1>5. Ids' = Ids /\ Forward BY <1>2, SameHub DEF Ids
<1>6. Fits(g)'
  <2>1. CASE job = Idle BY <1>3, <2>1, IdleJob DEF Fits, Rows
  <2>2. CASE /\ job.op = "sync" /\ job.waiting = jobs[g].waiting
             /\ job.pc = "fetch" /\ job.seen = jobs[g].seen /\ job.group = jobs[g].group
    <3>1. Heard(jobs[g])' /\ Listed(jobs[g])' BY <1>2, <1>3, <1>4, <1>5, <2>2, SyncGoesOn
    <3> QED BY <1>3, <2>2, <3>1 DEF Fits, Rows
  <2>3. CASE /\ job.op = "sync" /\ job.waiting = jobs[g].waiting
             /\ job.pc = "each" /\ Found(job) # {}
             /\ \A r \in Runs : job.seen[r] # "unborn" =>
                          job.seen[r] = github[r].status /\ github[r].path = job.group
    <3>1. Heard(job) BY <2>3, BaseFacts, LastNews DEF Heard
    <3>2. Listed(job) BY <1>4, <2>3 DEF Listed
    <3>3. Heard(jobs[g])' /\ Listed(jobs[g])' BY <1>2, <1>3, <1>5, <3>1, <3>2, SyncGoesOn
    <3>4. Found(jobs[g])' = Found(job) BY <1>3 DEF Found
    <3> QED BY <1>3, <2>3, <3>3, <3>4 DEF Fits, Rows
  <2> QED BY <1>1, <2>1, <2>2, <2>3
<1> QED BY <1>2, <1>3, <1>5, <1>6, BaseFacts, BaseSameRows

\* The next run of a sync, and the job it leaves: how the three answers continue.
Unknown(r) == (WithRun(r) = {} /\ UNCHANGED troubles) \/ Trouble("read")

EachNext(g, r, rest) ==
    /\ r \in Runs /\ jobs[g].seen[r] # "unborn"
    /\ rest.op = "sync" /\ rest.run = r /\ rest.news = jobs[g].seen[r] /\ rest.group = jobs[g].group
    /\ \A q \in Runs : rest.seen[q] \in {jobs[g].seen[q], "unborn"}

EachKnown(g, r, job) ==
    /\ job.pc = "write" /\ job.id \in WithRun(r)
    /\ job.copy.stage = releases[job.id].stage /\ job.copy.tag = releases[job.id].tag
    /\ job.waiting = jobs[g].waiting /\ UNCHANGED troubles

EachListed(g, r, job) ==
    /\ job.pc = "write" /\ jobs[g].waiting[jobs[g].group] # Nobody
    /\ job.id = jobs[g].waiting[jobs[g].group].id
    /\ job.copy.stage = jobs[g].waiting[jobs[g].group].row.stage
    /\ job.copy.tag = jobs[g].waiting[jobs[g].group].row.tag
    /\ job.waiting[jobs[g].group] = Nobody
    /\ \A s \in Stages : job.waiting[s] \in {jobs[g].waiting[s], Nobody}
    /\ Unknown(r)

EachNew(g, r, job) ==
    /\ job.pc = "create" /\ job.copy.stage = jobs[g].group /\ job.copy.tag = NoRun
    /\ job.waiting = jobs[g].waiting /\ Unknown(r)

LEMMA EachRest ==
    ASSUME BaseInv, NEW g \in Goroutines, jobs[g].pc = "each"
    PROVE  LET r == Max(Found(jobs[g]))
               rest == [jobs[g] EXCEPT !.seen[r] = "unborn", !.run = r, !.news = jobs[g].seen[r]]
           IN  rest \in Job /\ EachNext(g, r, rest) /\ rest.waiting = jobs[g].waiting
<1>1. jobs[g] \in Job /\ jobs[g].op = "sync" /\ Found(jobs[g]) # {}
  BY BaseFacts, JobFields DEF BaseInv, Fits
<1>2. Found(jobs[g]) \in SUBSET (1..MaxRuns) BY DEF Found, Runs
<1> DEFINE r == Max(Found(jobs[g]))
<1>3. r \in Found(jobs[g]) BY <1>1, <1>2, RunsAssumption, MaxIn
<1>4. r \in Runs /\ jobs[g].seen[r] # "unborn" BY <1>3 DEF Found
<1> HIDE DEF r
<1>5. jobs[g].seen \in [Runs -> RunStatus] /\ jobs[g].seen[r] \in News /\ r \in RunId
  BY <1>1, <1>4, RunFacts DEF Job, News
<1> DEFINE seen == [jobs[g].seen EXCEPT ![r] = "unborn"]
           rest == [jobs[g] EXCEPT !.seen = seen, !.run = r, !.news = jobs[g].seen[r]]
<1>6. seen \in [Runs -> RunStatus] /\ \A q \in Runs : seen[q] \in {jobs[g].seen[q], "unborn"}
  BY <1>5, Words
<1> HIDE DEF seen
<1>7. /\ rest \in Job /\ rest.op = "sync" /\ rest.run = r /\ rest.news = jobs[g].seen[r]
      /\ rest.group = jobs[g].group /\ rest.seen = seen /\ rest.waiting = jobs[g].waiting
  BY <1>1, <1>5, <1>6 DEF Job
<1>8. rest = [jobs[g] EXCEPT !.seen[r] = "unborn", !.run = r, !.news = jobs[g].seen[r]]
  BY <1>1 DEF seen, Job
<1> HIDE DEF rest
<1>9. EachNext(g, r, rest) BY <1>4, <1>6, <1>7 DEF EachNext
<1> QED BY <1>7, <1>8, <1>9 DEF r

LEMMA EachJob ==
    ASSUME BaseInv, NEW g \in Goroutines, EachRun(g)
    PROVE  /\ jobs[g].pc = "each" /\ jobs[g].op = "sync" /\ jobs[g] \in Job
           /\ UNCHANGED <<releases, stage, github, served, applied>>
           /\ \E r \in Runs, job \in Job :
                /\ EachNext(g, r, job)
                /\ \/ Goto(g, Resume(job)) /\ job.waiting = jobs[g].waiting /\ UNCHANGED troubles
                   \/ /\ Goto(g, job) /\ job.copy.run = r /\ job.copy.status = StatusOf(job.news)
                      /\ (EachKnown(g, r, job) \/ EachListed(g, r, job) \/ EachNew(g, r, job))
<1>1. jobs[g].pc = "each" /\ UNCHANGED <<releases, stage, github, served, applied>> BY DEF EachRun, At
<1>2. jobs[g] \in Job /\ jobs[g].op = "sync" /\ jobs[g].group \in Stages /\ jobs[g].waiting \in [Stages -> Waiting]
  BY <1>1, BaseFacts, JobFields DEF BaseInv, Fits
<1> DEFINE s == jobs[g].group
           r == Max(Found(jobs[g]))
           status == StatusOf(jobs[g].seen[r])
           rest == [jobs[g] EXCEPT !.seen[r] = "unborn", !.run = r, !.news = jobs[g].seen[r]]
           Known(i) == [rest EXCEPT !.pc = "write", !.id = i, !.copy = [releases[i] EXCEPT !.status = status]]
           listed == [rest EXCEPT !.pc = "write", !.id = jobs[g].waiting[s].id, !.waiting[s] = Nobody,
                                  !.copy = [jobs[g].waiting[s].row EXCEPT !.run = r, !.status = status]]
           new == [rest EXCEPT !.pc = "create", !.copy = NewRelease(s, status, r, NoRun)]
<1>3. \/ \E i \in WithRun(r) : /\ Goto(g, IF releases[i].status = status THEN Resume(rest) ELSE Known(i))
                               /\ UNCHANGED troubles
      \/ Unknown(r) /\ jobs[g].waiting[s] # Nobody /\ Goto(g, listed)
      \/ Unknown(r) /\ Goto(g, new)
  BY DEF EachRun, Unknown
<1>4. rest \in Job /\ EachNext(g, r, rest) /\ rest.waiting = jobs[g].waiting BY <1>1, EachRest
<1> HIDE DEF rest, r
<1>5. r \in Runs /\ r \in RunId /\ status \in ReleaseStatus BY <1>4, RunFacts, StatusOfFacts DEF EachNext
<1>6. status = StatusOf(rest.news) BY <1>4 DEF EachNext
<1> HIDE DEF status
<1>7. ASSUME NEW job \in Job, job.op = rest.op, job.run = rest.run, job.news = rest.news,
             job.group = rest.group, job.seen = rest.seen
      PROVE  EachNext(g, r, job)
  BY <1>4, <1>7 DEF EachNext
<1>8. ASSUME NEW i \in WithRun(r), Goto(g, Known(i)), UNCHANGED troubles
      PROVE  \E job \in Job : /\ EachNext(g, r, job) /\ Goto(g, job)
                              /\ job.copy.run = r /\ job.copy.status = StatusOf(job.news) /\ EachKnown(g, r, job)
  <2> DEFINE copy == [releases[i] EXCEPT !.status = status]
             job == [rest EXCEPT !.pc = "write", !.id = i, !.copy = copy]
  <2>1. i \in ReleaseId /\ releases[i] \in Release /\ releases[i].run = r BY BaseFacts DEF WithRun
  <2>2. /\ copy \in Release /\ copy.run = r /\ copy.status = status
        /\ copy.stage = releases[i].stage /\ copy.tag = releases[i].tag
    BY <1>5, <2>1 DEF Release
  <2>3. Goto(g, job) BY <1>8
  <2> HIDE DEF copy
  <2>4. /\ job \in Job /\ job.op = rest.op /\ job.run = rest.run /\ job.news = rest.news
        /\ job.group = rest.group /\ job.seen = rest.seen /\ job.waiting = rest.waiting
        /\ job.pc = "write" /\ job.id = i /\ job.copy = copy
    BY <1>4, <2>1, <2>2, Words DEF Job
  <2> HIDE DEF job
  <2>5. EachNext(g, r, job) BY <1>7, <2>4
  <2>6. EachKnown(g, r, job) BY <1>4, <1>8, <2>2, <2>4 DEF EachKnown
  <2> QED BY <1>6, <2>2, <2>3, <2>4, <2>5, <2>6
<1>9. ASSUME Goto(g, listed), Unknown(r), jobs[g].waiting[s] # Nobody
      PROVE  \E job \in Job : /\ EachNext(g, r, job) /\ Goto(g, job)
                              /\ job.copy.run = r /\ job.copy.status = StatusOf(job.news) /\ EachListed(g, r, job)
  <2> DEFINE w == jobs[g].waiting[s]
             copy == [w.row EXCEPT !.run = r, !.status = status]
             waiting == [rest.waiting EXCEPT ![s] = Nobody]
             job == [rest EXCEPT !.pc = "write", !.id = w.id, !.waiting = waiting, !.copy = copy]
  <2>1. w \in Waiting /\ w.id \in ReleaseId /\ w.row \in Release BY <1>2 DEF Waiting
  <2>2. Goto(g, job) BY <1>9
  <2> HIDE DEF w
  <2>3. /\ copy \in Release /\ copy.run = r /\ copy.status = status
        /\ copy.stage = w.row.stage /\ copy.tag = w.row.tag
    BY <1>5, <2>1 DEF Release
  <2>4. /\ waiting \in [Stages -> Waiting] /\ waiting[s] = Nobody
        /\ \A q \in Stages : waiting[q] \in {jobs[g].waiting[q], Nobody}
    BY <1>2, <1>4, NobodyFields, UpdateInRange
  <2> HIDE DEF copy, waiting
  <2>5. /\ job \in Job /\ job.op = rest.op /\ job.run = rest.run /\ job.news = rest.news
        /\ job.group = rest.group /\ job.seen = rest.seen /\ job.waiting = waiting
        /\ job.pc = "write" /\ job.id = w.id /\ job.copy = copy
    BY <1>4, <2>1, <2>3, <2>4, Words DEF Job
  <2> HIDE DEF job
  <2>6. EachNext(g, r, job) BY <1>7, <2>5
  <2>7. EachListed(g, r, job) BY <1>9, <2>3, <2>4, <2>5 DEF EachListed, w
  <2> QED BY <1>6, <2>2, <2>3, <2>5, <2>6, <2>7
<1>10. ASSUME Goto(g, new), Unknown(r)
       PROVE  \E job \in Job : /\ EachNext(g, r, job) /\ Goto(g, job)
                               /\ job.copy.run = r /\ job.copy.status = StatusOf(job.news) /\ EachNew(g, r, job)
  <2> DEFINE copy == NewRelease(s, status, r, NoRun)
             job == [rest EXCEPT !.pc = "create", !.copy = copy]
  <2>1. s \in StageId /\ NoRun \in RunId BY <1>2, RunFacts
  <2>2. /\ copy \in Release /\ copy.run = r /\ copy.status = status /\ copy.stage = s /\ copy.tag = NoRun
    BY <1>5, <2>1, NewReleaseFields
  <2>3. Goto(g, job) BY <1>10
  <2> HIDE DEF copy
  <2>4. /\ job \in Job /\ job.op = rest.op /\ job.run = rest.run /\ job.news = rest.news
        /\ job.group = rest.group /\ job.seen = rest.seen /\ job.waiting = rest.waiting
        /\ job.pc = "create" /\ job.copy = copy
    BY <1>4, <2>2, Words DEF Job
  <2> HIDE DEF job
  <2>5. EachNext(g, r, job) BY <1>7, <2>4
  <2>6. EachNew(g, r, job) BY <1>4, <1>10, <2>2, <2>4 DEF EachNew
  <2> QED BY <1>6, <2>2, <2>3, <2>4, <2>5, <2>6
<1> HIDE DEF Known, listed, new
<1>11. CASE \E i \in WithRun(r) : /\ Goto(g, IF releases[i].status = status THEN Resume(rest) ELSE Known(i))
                                  /\ UNCHANGED troubles
  <2>1. PICK i \in WithRun(r) : /\ Goto(g, IF releases[i].status = status THEN Resume(rest) ELSE Known(i))
                                /\ UNCHANGED troubles
    BY <1>11
  <2>2. CASE releases[i].status = status
    <3>1. Goto(g, Resume(rest)) BY <2>1, <2>2
    <3> QED BY <1>1, <1>2, <1>4, <1>5, <2>1, <3>1
  <2>3. CASE releases[i].status # status
    <3>1. Goto(g, Known(i)) BY <2>1, <2>3
    <3>2. PICK job \in Job : /\ EachNext(g, r, job) /\ Goto(g, job) /\ job.copy.run = r
                             /\ job.copy.status = StatusOf(job.news) /\ EachKnown(g, r, job)
      BY <1>8, <2>1, <3>1
    <3> QED BY <1>1, <1>2, <1>5, <3>2
  <2> QED BY <2>2, <2>3
<1>12. CASE Unknown(r) /\ jobs[g].waiting[s] # Nobody /\ Goto(g, listed)
  <2>1. PICK job \in Job : /\ EachNext(g, r, job) /\ Goto(g, job) /\ job.copy.run = r
                           /\ job.copy.status = StatusOf(job.news) /\ EachListed(g, r, job)
    BY <1>9, <1>12
  <2> QED BY <1>1, <1>2, <1>5, <2>1
<1>13. CASE Unknown(r) /\ Goto(g, new)
  <2>1. PICK job \in Job : /\ EachNext(g, r, job) /\ Goto(g, job) /\ job.copy.run = r
                           /\ job.copy.status = StatusOf(job.news) /\ EachNew(g, r, job)
    BY <1>10, <1>13
  <2> QED BY <1>1, <1>2, <1>5, <2>1
<1> QED BY <1>3, <1>11, <1>12, <1>13

LEMMA BaseEach ==
    ASSUME BaseInv, NEW g \in Goroutines, EachRun(g)
    PROVE  BaseInv'
<1>1. PICK r \in Runs, job \in Job :
        /\ EachNext(g, r, job)
        /\ \/ Goto(g, Resume(job)) /\ job.waiting = jobs[g].waiting /\ UNCHANGED troubles
           \/ /\ Goto(g, job) /\ job.copy.run = r /\ job.copy.status = StatusOf(job.news)
              /\ (EachKnown(g, r, job) \/ EachListed(g, r, job) \/ EachNew(g, r, job))
  BY EachJob
<1>2. /\ jobs[g].pc = "each" /\ jobs[g].op = "sync" /\ jobs[g] \in Job
      /\ UNCHANGED <<releases, stage, github, served, applied>>
  BY EachJob
<1>3. Heard(jobs[g]) /\ Listed(jobs[g]) BY <1>2 DEF BaseInv, Fits
<1>4. Ids' = Ids /\ Forward BY <1>2, SameHub DEF Ids
<1>5. /\ job.op = "sync" /\ job.run = r /\ job.group = jobs[g].group /\ job.news = jobs[g].seen[r]
      /\ \A q \in Runs : job.seen[q] \in {jobs[g].seen[q], "unborn"}
      /\ jobs[g].seen[r] # "unborn"
  BY <1>1 DEF EachNext
<1>6. \A s \in Stages : job.waiting[s] \in {jobs[g].waiting[s], Nobody}
  BY <1>1, <1>2, <1>5 DEF EachKnown, EachListed, EachNew
<1>7. Heard(job) BY <1>3, <1>5 DEF Heard
<1>8. Listed(job) BY <1>3, <1>6 DEF Listed
<1>9. CASE Goto(g, Resume(job)) /\ UNCHANGED troubles
  <2>1. Resume(job) \in Job BY Resumes
  <2>2. jobs' \in [Goroutines -> Job] /\ jobs'[g] = Resume(job) /\ Others(g)
    BY <1>9, <2>1, BaseFacts, JobGoes DEF Others
  <2>3. Fits(g)' BY <1>2, <1>4, <1>7, <1>8, <2>2, ResumeFits
  <2> QED BY <1>2, <1>4, <1>9, <2>2, <2>3, BaseFacts, BaseSameRows
<1>10. CASE /\ Goto(g, job) /\ job.copy.run = r /\ job.copy.status = StatusOf(job.news)
            /\ (EachKnown(g, r, job) \/ EachListed(g, r, job) \/ EachNew(g, r, job))
  <2>1. jobs' \in [Goroutines -> Job] /\ jobs'[g] = job /\ Others(g)
    BY <1>10, BaseFacts, JobGoes DEF Others
  <2>2. troubles' \subseteq {"read", "write", "apply", "crash", "overlap"}
    <3>1. troubles' = troubles \/ Trouble("read") BY <1>10 DEF EachKnown, EachListed, EachNew, Unknown
    <3> QED BY <3>1, BaseFacts, TroubleTyped
  <2>3. Heard(jobs[g])' /\ Listed(jobs[g])' BY <1>2, <1>4, <1>7, <1>8, <2>1, SyncGoesOn
  <2>4. /\ job.news \in Sent(r) /\ github[r].path = job.group /\ github[r].status # "unborn"
        /\ r # NoRun /\ job.group \in Stages
    BY <1>3, <1>5, NewsOfTheBorn, RunFacts DEF Heard, Job
  <2>5. /\ job.pc \in {"create", "write"} /\ (job.pc = "write" => job.id \in Ids)
        /\ job.copy.stage \in {job.group, NoStage} /\ Imaged(job.copy)
    <3>1. CASE EachKnown(g, r, job)
      <4>1. /\ job.pc = "write" /\ job.id \in Ids /\ releases[job.id].run = r /\ RowTrue(job.id)
            /\ job.copy.stage = releases[job.id].stage /\ job.copy.tag = releases[job.id].tag
        BY <3>1, BaseFacts DEF EachKnown, WithRun
      <4>2. Imaged(job.copy) BY <1>10, <4>1 DEF RowTrue, Imaged
      <4>3. job.copy.stage \in {job.group, NoStage} BY <2>4, <4>1 DEF RowTrue, Placed
      <4> QED BY <4>1, <4>2, <4>3
    <3>2. CASE EachListed(g, r, job)
      <4> DEFINE w == jobs[g].waiting[jobs[g].group]
      <4>1. /\ job.pc = "write" /\ job.id = w.id /\ job.copy.stage = w.row.stage
            /\ job.copy.tag = w.row.tag /\ w # Nobody
        BY <3>2 DEF EachListed
      <4>2. w.id \in Ids /\ w.row.run = NoRun /\ GroupOf(w.row) = jobs[g].group /\ Imaged(w.row)
        BY <1>3, <1>5, <2>4, <4>1 DEF Listed
      <4> HIDE DEF w
      <4>3. Imaged(job.copy) BY <4>1, <4>2 DEF Imaged
      <4>4. job.copy.stage \in {job.group, NoStage} BY <1>5, <4>1, <4>2 DEF GroupOf
      <4> QED BY <4>1, <4>2, <4>3, <4>4
    <3>3. CASE EachNew(g, r, job) BY <1>5, <3>3 DEF EachNew, Imaged
    <3> QED BY <1>10, <3>1, <3>2, <3>3
  <2>6. Follows(job) BY <1>5, <1>10, <2>4, <2>5 DEF Follows, Placed
  <2>7. Fits(g)' BY <1>2, <1>4, <1>5, <2>1, <2>3, <2>5, <2>6, RowJobFits
  <2> QED BY <1>2, <1>4, <2>1, <2>2, <2>7, BaseFacts, BaseSameRows
<1> QED BY <1>1, <1>9, <1>10

-----------------------------------------------------------------------------
(* Rows are created and written, images applied, stages told *)

LEMMA ApplyJob ==
    ASSUME BaseInv, NEW g \in Goroutines, ApplyImage(g)
    PROVE  /\ jobs[g].pc = "apply" /\ jobs[g].op = "rollback" /\ jobs[g] \in Job
           /\ UNCHANGED <<releases, stage, github, served>>
           /\ troubles' = troubles \/ Trouble("apply")
           /\ applied \subseteq applied' /\ applied' \subseteq applied \cup {jobs[g].id}
           /\ \E job \in Job :
                /\ Goto(g, job) /\ job.op = "rollback" /\ job.pc = "write" /\ job.id = jobs[g].id
                /\ job.copy.stage = jobs[g].copy.stage /\ job.copy.tag = jobs[g].copy.tag
                /\ job.copy.run = jobs[g].copy.run /\ job.copy.status \in Outcome
                /\ job.copy.status = "success" => job.id \in applied'
<1>1. jobs[g].pc = "apply" /\ UNCHANGED <<releases, stage, github, served>> BY DEF ApplyImage, At
<1>2. jobs[g] \in Job /\ jobs[g].op = "rollback" BY <1>1, BaseFacts, JobFields DEF BaseInv, Fits
<1>3. PICK status \in Outcome :
         /\ Goto(g, [jobs[g] EXCEPT !.pc = "write", !.copy.status = status])
         /\ applied \subseteq applied' /\ applied' \subseteq applied \cup {jobs[g].id}
         /\ status = "success" => jobs[g].id \in applied'
         /\ troubles' = troubles \/ Trouble("apply")
  <2>1. \/ /\ applied' = applied \cup {jobs[g].id} /\ UNCHANGED troubles
           /\ Goto(g, [jobs[g] EXCEPT !.pc = "write", !.copy.status = "success"])
        \/ /\ applied' \in {applied, applied \cup {jobs[g].id}} /\ Trouble("apply")
           /\ Goto(g, [jobs[g] EXCEPT !.pc = "write", !.copy.status = "failed"])
    BY DEF ApplyImage
  <2>2. "success" \in Outcome /\ "failed" \in Outcome BY DEF Outcome
  <2> QED BY <2>1, <2>2
<1> DEFINE copy == [jobs[g].copy EXCEPT !.status = status]
           job == [jobs[g] EXCEPT !.pc = "write", !.copy = copy]
<1>4. job = [jobs[g] EXCEPT !.pc = "write", !.copy.status = status] BY <1>2 DEF Job
<1>5. status \in ReleaseStatus BY DEF Outcome, ReleaseStatus
<1>6. /\ copy \in Release /\ copy.status = status /\ copy.run = jobs[g].copy.run
      /\ copy.stage = jobs[g].copy.stage /\ copy.tag = jobs[g].copy.tag
  BY <1>2, <1>5 DEF Job, Release
<1> HIDE DEF copy
<1>7. job \in Job /\ job.op = "rollback" /\ job.pc = "write" /\ job.id = jobs[g].id /\ job.copy = copy
  BY <1>2, <1>6, Words DEF Job
<1> HIDE DEF job
<1> QED BY <1>1, <1>2, <1>3, <1>4, <1>6, <1>7

LEMMA BaseApply ==
    ASSUME BaseInv, NEW g \in Goroutines, ApplyImage(g)
    PROVE  BaseInv'
<1>1. /\ jobs[g].pc = "apply" /\ jobs[g].op = "rollback" /\ jobs[g] \in Job
      /\ UNCHANGED <<releases, stage, github, served>>
      /\ troubles' = troubles \/ Trouble("apply")
      /\ applied \subseteq applied' /\ applied' \subseteq applied \cup {jobs[g].id}
  BY ApplyJob
<1>2. PICK job \in Job :
        /\ Goto(g, job) /\ job.op = "rollback" /\ job.pc = "write" /\ job.id = jobs[g].id
        /\ job.copy.stage = jobs[g].copy.stage /\ job.copy.tag = jobs[g].copy.tag
        /\ job.copy.run = jobs[g].copy.run /\ job.copy.status \in Outcome
        /\ job.copy.status = "success" => job.id \in applied'
  BY ApplyJob
<1>3. jobs' \in [Goroutines -> Job] /\ jobs'[g] = job /\ Others(g) BY <1>2, BaseFacts, JobGoes DEF Others
<1>4. jobs[g].id \in Ids /\ Imaged(jobs[g].copy) /\ Fills(jobs[g]) BY <1>1 DEF BaseInv, Fits, Rows
<1>5. Ids' = Ids /\ Forward BY <1>1, SameHub DEF Ids
<1>6. Imaged(jobs[g].copy)'
  <2>1. jobs[g].copy.tag \in Runs \cup {NoRun} BY <1>1, RowFields, RunFacts DEF Job
  <2> QED BY <1>2, <1>3, <1>4, <1>5, <2>1 DEF Imaged, Forward
<1>7. Fills(jobs[g])' BY <1>2, <1>3, <1>4 DEF Fills
<1>8. Fits(g)' BY <1>2, <1>3, <1>4, <1>5, <1>6, <1>7 DEF Fits, Rows
<1>9. troubles' \subseteq {"read", "write", "apply", "crash", "overlap"} BY <1>1, BaseFacts, TroubleTyped
<1> QED BY <1>1, <1>3, <1>4, <1>5, <1>8, <1>9, BaseFacts, BaseSameRows

LEMMA ReportJob ==
    ASSUME BaseInv, NEW g \in Goroutines, ReportToStage(g)
    PROVE  /\ jobs[g].pc = "stage" /\ jobs[g] \in Job /\ Goto(g, Resume(jobs[g]))
           /\ UNCHANGED <<releases, github, served, applied>>
           /\ stage' \in [Stages -> {"active", "failed"}]
           /\ \/ Trouble("write") /\ UNCHANGED stage
              \/ /\ UNCHANGED troubles
                 /\ \A s \in Stages :
                       stage'[s] = IF s = jobs[g].copy.stage /\ jobs[g].copy.status \in Outcome
                                   THEN IF jobs[g].copy.status = "success" THEN "active" ELSE "failed"
                                   ELSE stage[s]
<1>1. jobs[g].pc = "stage" /\ Goto(g, Resume(jobs[g])) /\ UNCHANGED <<releases, github, served, applied>>
  BY DEF ReportToStage, At, Return
<1> DEFINE row == jobs[g].copy
           shown == IF row.status = "success" THEN "active" ELSE "failed"
<1>2. \/ Trouble("write") /\ UNCHANGED stage
      \/ /\ UNCHANGED troubles
         /\ stage' = IF row.stage = NoStage \/ row.status \notin Outcome THEN stage
                     ELSE [stage EXCEPT ![row.stage] = shown]
  BY DEF ReportToStage, WriteFails
<1>3. jobs[g] \in Job /\ row.stage \in Stages \cup {NoStage}
  BY BaseFacts, JobFields, RowFields, RunFacts
<1>4. stage \in [Stages -> {"active", "failed"}] /\ NoStage \notin Stages /\ shown \in {"active", "failed"}
  BY BaseFacts, RunFacts
<1> HIDE DEF row, shown
<1>5. /\ stage' \in [Stages -> {"active", "failed"}]
      /\ \/ Trouble("write") /\ UNCHANGED stage
         \/ /\ UNCHANGED troubles
            /\ \A s \in Stages :
                  stage'[s] = IF s = row.stage /\ row.status \in Outcome THEN shown ELSE stage[s]
  BY <1>2, <1>3, <1>4
<1> QED BY <1>1, <1>3, <1>5 DEF row, shown

LEMMA BaseReport ==
    ASSUME BaseInv, NEW g \in Goroutines, ReportToStage(g)
    PROVE  BaseInv'
<1>1. /\ jobs[g].pc = "stage" /\ jobs[g] \in Job /\ Goto(g, Resume(jobs[g]))
      /\ UNCHANGED <<releases, github, served, applied>>
      /\ stage' \in [Stages -> {"active", "failed"}]
      /\ Trouble("write") \/ UNCHANGED troubles
  BY ReportJob
<1>2. Resume(jobs[g]) \in Job BY <1>1, Resumes
<1>3. jobs' \in [Goroutines -> Job] /\ jobs'[g] = Resume(jobs[g]) /\ Others(g)
  BY <1>1, <1>2, BaseFacts, JobGoes DEF Others
<1>4. Ids' = Ids /\ Forward BY <1>1, SameHub DEF Ids
<1>5. jobs[g].op = "sync" => Heard(jobs[g]) /\ Listed(jobs[g]) BY DEF BaseInv, Fits
<1>6. Fits(g)' BY <1>1, <1>3, <1>4, <1>5, ResumeFits
<1>7. troubles' \subseteq {"read", "write", "apply", "crash", "overlap"} BY <1>1, BaseFacts, TroubleTyped
<1> QED BY <1>1, <1>3, <1>4, <1>6, <1>7, BaseFacts, BaseSameRows

LEMMA CreateJob ==
    ASSUME BaseInv, NEW g \in Goroutines, Create(g)
    PROVE  /\ jobs[g].pc = "create" /\ jobs[g] \in Job /\ UNCHANGED <<stage, github, served, applied>>
           /\ \/ /\ Inserted(jobs[g].copy) /\ UNCHANGED troubles
                 /\ \E job \in Job :
                      /\ Goto(g, job) /\ job.id = Len(releases) + 1
                      /\ job.pc = IF job.op = "sync" THEN "stage" ELSE IF job.op = "rollback" THEN "apply" ELSE "write"
                      /\ job.op = jobs[g].op /\ job.run = jobs[g].run /\ job.news = jobs[g].news
                      /\ job.copy = jobs[g].copy /\ job.seen = jobs[g].seen
                      /\ job.group = jobs[g].group /\ job.waiting = jobs[g].waiting
              \/ /\ Inserted(jobs[g].copy) \/ UNCHANGED releases
                 /\ Trouble("write") /\ Goto(g, Resume(jobs[g]))
<1>1. jobs[g].pc = "create" /\ UNCHANGED <<stage, github, served, applied>> BY DEF Create, At
<1>2. jobs[g] \in Job /\ jobs[g].op \in Op BY BaseFacts, JobFields DEF Job
<1> DEFINE after == CASE jobs[g].op = "sync" -> "stage" [] jobs[g].op = "rollback" -> "apply" [] OTHER -> "write"
           job == [jobs[g] EXCEPT !.pc = after, !.id = Len(releases) + 1]
<1>3. \/ Inserted(jobs[g].copy) /\ UNCHANGED troubles /\ Goto(g, job)
      \/ /\ Inserted(jobs[g].copy) \/ UNCHANGED releases
         /\ Trouble("write") /\ Goto(g, Resume(jobs[g]))
  BY DEF Create, Return, WriteFails
<1>4. after = IF jobs[g].op = "sync" THEN "stage" ELSE IF jobs[g].op = "rollback" THEN "apply" ELSE "write"
  OBVIOUS
<1>5. after \in Pc BY <1>4, Words
<1> HIDE DEF after
<1>6. CASE Inserted(jobs[g].copy) /\ UNCHANGED troubles /\ Goto(g, job)
  <2>1. Len(releases) + 1 \in ReleaseId
    <3>1. Len(releases) \in Nat /\ MaxReleases \in Nat /\ Len(releases) < MaxReleases
      BY <1>6, BaseFacts, RunFacts DEF Inserted
    <3> QED BY <3>1 DEF ReleaseId
  <2>2. /\ job \in Job /\ job.id = Len(releases) + 1 /\ job.pc = after
        /\ job.op = jobs[g].op /\ job.run = jobs[g].run /\ job.news = jobs[g].news
        /\ job.copy = jobs[g].copy /\ job.seen = jobs[g].seen
        /\ job.group = jobs[g].group /\ job.waiting = jobs[g].waiting
    BY <1>2, <1>5, <2>1 DEF Job
  <2> HIDE DEF job
  <2> QED BY <1>1, <1>2, <1>4, <1>6, <2>2
<1> HIDE DEF job
<1> QED BY <1>1, <1>2, <1>3, <1>6

\* What a job that is about to create a row has in its copy.
LEMMA CopyIsTrue ==
    ASSUME BaseInv, NEW g \in Goroutines, jobs[g].pc = "create"
    PROVE  /\ jobs[g].op # "none" /\ jobs[g].copy \in Release /\ Imaged(jobs[g].copy) /\ Placed(jobs[g].copy)
           /\ jobs[g].copy.status = "success" => jobs[g].copy.run # NoRun /\ "succeeded" \in Sent(jobs[g].copy.run)
           /\ jobs[g].copy.status = "failed" /\ jobs[g].copy.run # NoRun => "failed" \in Sent(jobs[g].copy.run)
<1>1. jobs[g] \in Job /\ jobs[g].op \in Op /\ jobs[g].copy \in Release BY BaseFacts, JobFields DEF Job
<1>2. /\ jobs[g].op # "none" /\ Imaged(jobs[g].copy)
      /\ IF jobs[g].op = "rollback" THEN Fills(jobs[g]) ELSE Follows(jobs[g])
      /\ jobs[g].op = "webhook" => jobs[g].copy.status = "pending"
  BY DEF BaseInv, Fits, Rows
<1>3. CASE jobs[g].op = "rollback" BY <1>1, <1>2, <1>3 DEF Fills, Placed
<1>4. CASE jobs[g].op = "webhook" BY <1>1, <1>2, <1>4 DEF Follows
<1>5. CASE jobs[g].op = "sync"
  <2>1. /\ jobs[g].run \in Runs /\ jobs[g].news \in Sent(jobs[g].run) /\ jobs[g].copy.run = jobs[g].run
        /\ jobs[g].copy.status = StatusOf(jobs[g].news) /\ Placed(jobs[g].copy)
    BY <1>2, <1>5 DEF Follows
  <2> QED BY <1>1, <1>2, <2>1, StatusOfFacts, RunFacts
<1> QED BY <1>1, <1>2, <1>3, <1>4, <1>5 DEF Op

LEMMA BaseCreate ==
    ASSUME BaseInv, NEW g \in Goroutines, Create(g)
    PROVE  BaseInv'
<1>1. jobs[g].pc = "create" /\ jobs[g] \in Job /\ UNCHANGED <<stage, github, served, applied>> BY CreateJob
<1>2. /\ jobs[g].op # "none" /\ Imaged(jobs[g].copy)
      /\ IF jobs[g].op = "rollback" THEN Fills(jobs[g]) ELSE Follows(jobs[g])
      /\ jobs[g].op = "webhook" => jobs[g].copy.status = "pending"
      /\ jobs[g].op = "sync" => Heard(jobs[g]) /\ Listed(jobs[g])
  BY <1>1 DEF BaseInv, Fits, Rows
<1>3. ASSUME Inserted(jobs[g].copy)
      PROVE  /\ releases' \in Seq(Release) /\ Len(releases') <= MaxReleases
             /\ Forward /\ applied' \subseteq Ids'
             /\ \A i \in Ids' : (i \in Ids /\ releases'[i] = releases[i]) \/ RowTrue(i)'
  BY <1>1, <1>3, CopyIsTrue, TrueInsert
<1>4. ASSUME UNCHANGED releases
      PROVE  /\ releases' \in Seq(Release) /\ Len(releases') <= MaxReleases
             /\ Forward /\ applied' \subseteq Ids'
             /\ \A i \in Ids' : (i \in Ids /\ releases'[i] = releases[i]) \/ RowTrue(i)'
  <2>1. Ids' = Ids BY <1>4 DEF Ids
  <2> QED BY <1>1, <1>4, <2>1, BaseFacts, SameHub
<1>5. CASE /\ Inserted(jobs[g].copy) \/ UNCHANGED releases
           /\ Trouble("write") /\ Goto(g, Resume(jobs[g]))
  <2>1. Resume(jobs[g]) \in Job BY <1>1, Resumes
  <2>2. jobs' \in [Goroutines -> Job] /\ jobs'[g] = Resume(jobs[g]) /\ Others(g)
    BY <1>5, <2>1, BaseFacts, JobGoes DEF Others
  <2>3. Fits(g)' BY <1>1, <1>2, <1>3, <1>4, <1>5, <2>2, ResumeFits
  <2>4. TypeOK' BY <1>1, <1>3, <1>4, <1>5, <2>2, BaseFacts, TroubleTyped, TypedAfter
  <2> QED BY <1>3, <1>4, <1>5, <2>2, <2>3, <2>4, BaseStep
<1>6. CASE /\ Inserted(jobs[g].copy) /\ UNCHANGED troubles
           /\ \E job \in Job :
                /\ Goto(g, job) /\ job.id = Len(releases) + 1
                /\ job.pc = IF job.op = "sync" THEN "stage" ELSE IF job.op = "rollback" THEN "apply" ELSE "write"
                /\ job.op = jobs[g].op /\ job.run = jobs[g].run /\ job.news = jobs[g].news
                /\ job.copy = jobs[g].copy /\ job.seen = jobs[g].seen
                /\ job.group = jobs[g].group /\ job.waiting = jobs[g].waiting
  <2>1. PICK job \in Job :
                /\ Goto(g, job) /\ job.id = Len(releases) + 1
                /\ job.pc = IF job.op = "sync" THEN "stage" ELSE IF job.op = "rollback" THEN "apply" ELSE "write"
                /\ job.op = jobs[g].op /\ job.run = jobs[g].run /\ job.news = jobs[g].news
                /\ job.copy = jobs[g].copy /\ job.seen = jobs[g].seen
                /\ job.group = jobs[g].group /\ job.waiting = jobs[g].waiting
    BY <1>6
  <2>2. jobs' \in [Goroutines -> Job] /\ jobs'[g] = job /\ Others(g)
    BY <2>1, BaseFacts, JobGoes DEF Others
  <2>3. Forward /\ job.id \in Ids'
    <3>1. jobs[g].copy \in Release BY <1>1, CopyIsTrue
    <3> QED BY <1>3, <1>6, <2>1, <3>1, BaseFacts, RowInserted
  <2>4. job.op = "sync" => Heard(jobs[g])' /\ Listed(jobs[g])'
    BY <1>1, <1>2, <2>1, <2>2, <2>3, SyncGoesOn
  <2>5. Fits(g)'
    <3>1. CASE job.op = "sync" BY <2>1, <2>2, <2>4, <3>1 DEF Fits, Rows
    <3>2. CASE job.op = "rollback"
      <4>1. job.copy.tag \in Runs \cup {NoRun} BY RowFields, RunFacts DEF Job
      <4>2. Imaged(job.copy) /\ Fills(jobs[g]) BY <1>2, <2>1, <3>2
      <4>3. Imaged(jobs[g].copy)' BY <2>2, <2>3, <4>1, <4>2 DEF Imaged, Forward
      <4>4. Fills(jobs[g])' BY <1>1, <2>1, <2>2, <3>2, <4>2 DEF Fills
      <4> QED BY <2>1, <2>2, <2>3, <3>2, <4>3, <4>4 DEF Fits, Rows
    <3>3. CASE job.op = "webhook"
      <4>1. Imaged(job.copy) /\ Follows(job) BY <1>2, <2>1, <3>3 DEF Follows
      <4>2. job.pc = "write" BY <2>1, <3>3
      <4> QED BY <1>1, <2>2, <2>3, <3>3, <4>1, <4>2, RowJobFits
    <3> QED BY <1>2, <2>1, <3>1, <3>2, <3>3 DEF Job, Op
  <2>6. TypeOK' BY <1>1, <1>3, <1>6, <2>2, BaseFacts, TypedAfter
  <2> QED BY <1>3, <1>6, <2>2, <2>5, <2>6, BaseStep
<1> QED BY <1>5, <1>6, CreateJob

\* The row a job writes: what becomes of the copy.
Written(job, row) ==
    /\ row.run = job.copy.run /\ row.stage = job.copy.stage
    /\ IF job.op = "webhook"
       THEN row.status = StatusOf(job.news) /\ job.news # "queued" /\ row.tag \in {job.copy.tag, job.run}
       ELSE row.status = job.copy.status /\ row.tag = job.copy.tag

LEMMA WriteJob ==
    ASSUME BaseInv, NEW g \in Goroutines, Write(g)
    PROVE  /\ jobs[g].pc = "write" /\ jobs[g] \in Job /\ UNCHANGED <<stage, github, served, applied>>
           /\ \/ jobs[g].op = "webhook" /\ Goto(g, Resume(jobs[g])) /\ UNCHANGED <<releases, troubles>>
              \/ \E row \in Release :
                   /\ Written(jobs[g], row)
                   /\ \/ /\ Updated(jobs[g].id, row) /\ UNCHANGED troubles
                         /\ \/ jobs[g].op = "rollback" /\ Goto(g, Resume(jobs[g]))
                            \/ /\ jobs[g].op # "rollback"
                               /\ \E job \in Job :
                                    /\ Goto(g, job) /\ job.pc = "stage" /\ job.op = jobs[g].op
                                    /\ job.copy.stage = row.stage /\ job.copy.status = row.status
                                    /\ job.seen = jobs[g].seen /\ job.group = jobs[g].group
                                    /\ job.waiting = jobs[g].waiting
                      \/ /\ Updated(jobs[g].id, row) \/ UNCHANGED releases
                         /\ Trouble("write") /\ Goto(g, Resume(jobs[g]))
<1>1. jobs[g].pc = "write" /\ UNCHANGED <<stage, github, served, applied>> BY DEF Write, At
<1>2. jobs[g] \in Job /\ jobs[g].copy \in Release /\ jobs[g].run \in RunId BY BaseFacts, JobFields
<1> DEFINE row == IF jobs[g].op = "webhook" THEN WebhookRow(jobs[g]) ELSE jobs[g].copy
           copy == NewRelease(row.stage, row.status, NoRun, NoRun)
           job == [Bare(jobs[g], "stage") EXCEPT !.copy = copy]
<1>3. \/ jobs[g].op = "webhook" /\ Goto(g, Resume(jobs[g])) /\ UNCHANGED <<releases, troubles>>
      \/ /\ ~(jobs[g].op = "webhook" /\ jobs[g].news = "queued")
         /\ \/ /\ Updated(jobs[g].id, row) /\ UNCHANGED troubles
               /\ \/ jobs[g].op = "rollback" /\ Goto(g, Resume(jobs[g]))
                  \/ jobs[g].op # "rollback" /\ Goto(g, job)
            \/ /\ Updated(jobs[g].id, row) \/ UNCHANGED releases
               /\ Trouble("write") /\ Goto(g, Resume(jobs[g]))
  <2>1. \/ jobs[g].op = "webhook" /\ Return(g) /\ UNCHANGED <<releases, troubles>>
        \/ /\ ~(jobs[g].op = "webhook" /\ jobs[g].news = "queued")
           /\ \/ /\ Updated(jobs[g].id, row) /\ UNCHANGED troubles
                 /\ IF jobs[g].op = "rollback" THEN Return(g) ELSE Goto(g, job)
              \/ /\ Updated(jobs[g].id, row) \/ UNCHANGED releases
                 /\ WriteFails /\ Return(g)
    BY DEF Write
  <2> HIDE DEF row, job
  <2> QED BY <2>1 DEF Return, WriteFails
<1>4. ~(jobs[g].op = "webhook" /\ jobs[g].news = "queued") => row \in Release /\ Written(jobs[g], row)
  <2>1. CASE jobs[g].op = "webhook"
    <3> DEFINE tag == IF jobs[g].run \in WithImage THEN jobs[g].run ELSE jobs[g].copy.tag
    <3>1. tag \in RunId /\ tag \in {jobs[g].copy.tag, jobs[g].run} BY <1>2, RowFields
    <3>2. row = [jobs[g].copy EXCEPT !.status = StatusOf(jobs[g].news), !.tag = tag]
      BY <1>2, <2>1 DEF WebhookRow, Release
    <3>3. StatusOf(jobs[g].news) \in ReleaseStatus BY StatusOfFacts
    <3> HIDE DEF tag, row
    <3>4. /\ row \in Release /\ row.run = jobs[g].copy.run /\ row.stage = jobs[g].copy.stage
          /\ row.status = StatusOf(jobs[g].news) /\ row.tag = tag
      BY <1>2, <3>1, <3>2, <3>3 DEF Release
    <3> QED BY <2>1, <3>1, <3>4 DEF Written
  <2>2. CASE jobs[g].op # "webhook" BY <1>2, <2>2 DEF Written
  <2> QED BY <2>1, <2>2
<1> HIDE DEF row
<1>5. ASSUME row \in Release
      PROVE  /\ job \in Job /\ job.pc = "stage" /\ job.op = jobs[g].op
             /\ job.copy.stage = row.stage /\ job.copy.status = row.status
             /\ job.seen = jobs[g].seen /\ job.group = jobs[g].group /\ job.waiting = jobs[g].waiting
  <2>1. row.stage \in StageId /\ row.status \in ReleaseStatus /\ NoRun \in RunId
    BY <1>5, RowFields, RunFacts
  <2>2. copy \in Release /\ copy.stage = row.stage /\ copy.status = row.status
    BY <2>1, NewReleaseFields
  <2> HIDE DEF copy
  <2> DEFINE bare == Bare(jobs[g], "stage")
  <2>3. /\ bare \in Job /\ bare.pc = "stage" /\ bare.op = jobs[g].op /\ bare.seen = jobs[g].seen
        /\ bare.waiting = jobs[g].waiting /\ bare.group = jobs[g].group
    BY <1>2, BareFields, Words
  <2> HIDE DEF bare
  <2> DEFINE next == [bare EXCEPT !.copy = copy]
  <2>4. /\ next \in Job /\ next.pc = "stage" /\ next.op = jobs[g].op /\ next.copy = copy
        /\ next.seen = jobs[g].seen /\ next.group = jobs[g].group /\ next.waiting = jobs[g].waiting
    BY <2>2, <2>3 DEF Job
  <2>5. job = next BY DEF bare
  <2> HIDE DEF job, next
  <2> QED BY <2>2, <2>4, <2>5
<1> HIDE DEF job
<1>6. CASE jobs[g].op = "webhook" /\ Goto(g, Resume(jobs[g])) /\ UNCHANGED <<releases, troubles>>
  BY <1>1, <1>2, <1>6
<1>7. CASE /\ ~(jobs[g].op = "webhook" /\ jobs[g].news = "queued")
           /\ Updated(jobs[g].id, row) /\ UNCHANGED troubles
           /\ \/ jobs[g].op = "rollback" /\ Goto(g, Resume(jobs[g]))
              \/ jobs[g].op # "rollback" /\ Goto(g, job)
  BY <1>1, <1>2, <1>4, <1>5, <1>7
<1>8. CASE /\ ~(jobs[g].op = "webhook" /\ jobs[g].news = "queued")
           /\ Updated(jobs[g].id, row) \/ UNCHANGED releases
           /\ Trouble("write") /\ Goto(g, Resume(jobs[g]))
  BY <1>1, <1>2, <1>4, <1>8
<1> QED BY <1>3, <1>6, <1>7, <1>8

\* And what is written is true.
LEMMA WrittenIsTrue ==
    ASSUME BaseInv, NEW g \in Goroutines, jobs[g].pc = "write", NEW row \in Release, Written(jobs[g], row)
    PROVE  /\ jobs[g].id \in Ids /\ Imaged(row) /\ Placed(row) /\ Earned(row, jobs[g].id)
           /\ jobs[g].op # "rollback" => row.run = jobs[g].run /\ row.run # NoRun /\ row.status = StatusOf(jobs[g].news)
           /\ jobs[g].op = "rollback" => row.run = NoRun
<1>1. jobs[g] \in Job /\ jobs[g].op \in Op BY BaseFacts, JobFields DEF Job
<1>2. /\ jobs[g].op # "none" /\ Imaged(jobs[g].copy) /\ jobs[g].id \in Ids
      /\ IF jobs[g].op = "rollback" THEN Fills(jobs[g]) ELSE Follows(jobs[g])
  BY DEF BaseInv, Fits, Rows
<1>3. CASE jobs[g].op = "rollback"
  <2>1. /\ row.run = NoRun /\ row.status = jobs[g].copy.status /\ row.tag = jobs[g].copy.tag
        /\ jobs[g].copy.run = NoRun /\ (row.status = "success" => jobs[g].id \in applied)
    BY <1>2, <1>3 DEF Written, Fills
  <2> QED BY <1>2, <1>3, <2>1 DEF Imaged, Placed, Earned
<1>4. CASE jobs[g].op # "rollback"
  <2>1. /\ jobs[g].run \in Runs /\ jobs[g].news \in Sent(jobs[g].run) /\ Placed(jobs[g].copy)
        /\ jobs[g].copy.run = jobs[g].run /\ (jobs[g].op = "sync" => jobs[g].copy.status = StatusOf(jobs[g].news))
    BY <1>2, <1>4 DEF Follows
  <2>2. /\ row.run = jobs[g].run /\ row.stage = jobs[g].copy.stage /\ row.status = StatusOf(jobs[g].news)
        /\ row.tag \in {jobs[g].copy.tag, row.run}
    BY <1>1, <1>2, <1>4, <2>1 DEF Written, Op
  <2>3. row.run # NoRun BY <2>1, <2>2, RunFacts
  <2>4. Earned(row, jobs[g].id) BY <2>1, <2>2, <2>3, StatusOfFacts DEF Earned
  <2>5. Imaged(row) BY <1>2, <2>1, <2>2 DEF Imaged
  <2>6. Placed(row) BY <2>1, <2>2 DEF Placed
  <2> QED BY <1>2, <1>4, <2>2, <2>3, <2>4, <2>5, <2>6
<1> QED BY <1>3, <1>4

LEMMA TrueUpdate ==
    ASSUME BaseInv, NEW i \in Ids, NEW row \in Release, Updated(i, row), UNCHANGED <<github, applied>>,
           Imaged(row), Placed(row), Earned(row, i)
    PROVE  /\ releases' \in Seq(Release) /\ Len(releases') <= MaxReleases
           /\ Forward /\ applied' \subseteq Ids' /\ Ids' = Ids
           /\ \A k \in Ids' : (k \in Ids /\ releases'[k] = releases[k]) \/ RowTrue(k)'
<1>1. /\ releases' \in Seq(Release) /\ Len(releases') = Len(releases) /\ Ids' = Ids
      /\ releases'[i] = row /\ \A j \in Ids : j # i => releases'[j] = releases[j]
  BY BaseFacts, RowUpdated
<1>2. Forward BY <1>1, SameHub
<1>3. row.run \in Runs \cup {NoRun} /\ row.tag \in Runs \cup {NoRun} BY RowFields, RunFacts
<1>4. Imaged(releases[i])' BY <1>1, <1>2, <1>3 DEF Imaged, Forward
<1>5. Placed(releases[i])' BY <1>1, <1>3 DEF Placed
<1>6. Earned(releases[i], i)' BY <1>1, <1>2, <1>3 DEF Earned, Forward
<1>7. RowTrue(i)' BY <1>4, <1>5, <1>6 DEF RowTrue
<1> QED BY <1>1, <1>2, <1>7, BaseFacts

LEMMA BaseWrite ==
    ASSUME BaseInv, NEW g \in Goroutines, Write(g)
    PROVE  BaseInv'
<1>1. jobs[g].pc = "write" /\ jobs[g] \in Job /\ UNCHANGED <<stage, github, served, applied>> BY WriteJob
<1>2. jobs[g].op = "sync" => Heard(jobs[g]) /\ Listed(jobs[g]) BY DEF BaseInv, Fits
<1>3. ASSUME NEW row \in Release, Written(jobs[g], row), Updated(jobs[g].id, row)
      PROVE  /\ releases' \in Seq(Release) /\ Len(releases') <= MaxReleases
             /\ Forward /\ applied' \subseteq Ids'
             /\ \A k \in Ids' : (k \in Ids /\ releases'[k] = releases[k]) \/ RowTrue(k)'
  <2>1. PICK i \in Ids : i = jobs[g].id BY <1>1, <1>3, WrittenIsTrue
  <2>2. Imaged(row) /\ Placed(row) /\ Earned(row, i) BY <1>1, <1>3, <2>1, WrittenIsTrue
  <2> QED BY <1>1, <1>3, <2>1, <2>2, TrueUpdate
<1>4. ASSUME UNCHANGED releases
      PROVE  /\ releases' \in Seq(Release) /\ Len(releases') <= MaxReleases
             /\ Forward /\ applied' \subseteq Ids'
             /\ \A k \in Ids' : (k \in Ids /\ releases'[k] = releases[k]) \/ RowTrue(k)'
  <2>1. Ids' = Ids BY <1>4 DEF Ids
  <2> QED BY <1>1, <1>4, <2>1, BaseFacts, SameHub
<1>5. ASSUME Goto(g, Resume(jobs[g])), UNCHANGED troubles \/ Trouble("write"),
             \/ UNCHANGED releases
             \/ \E row \in Release : Written(jobs[g], row) /\ Updated(jobs[g].id, row)
      PROVE  BaseInv'
  <2>1. Resume(jobs[g]) \in Job BY <1>1, Resumes
  <2>2. jobs' \in [Goroutines -> Job] /\ jobs'[g] = Resume(jobs[g]) /\ Others(g)
    BY <1>5, <2>1, BaseFacts, JobGoes DEF Others
  <2>3. Fits(g)' BY <1>1, <1>2, <1>3, <1>4, <1>5, <2>2, ResumeFits
  <2>4. TypeOK' BY <1>1, <1>3, <1>4, <1>5, <2>2, BaseFacts, TroubleTyped, TypedAfter
  <2> QED BY <1>3, <1>4, <1>5, <2>2, <2>3, <2>4, BaseStep
<1>6. ASSUME NEW row \in Release, Written(jobs[g], row), Updated(jobs[g].id, row), UNCHANGED troubles,
             NEW job \in Job, Goto(g, job), job.pc = "stage", job.op = jobs[g].op,
             job.seen = jobs[g].seen, job.group = jobs[g].group, job.waiting = jobs[g].waiting
      PROVE  BaseInv'
  <2>1. jobs' \in [Goroutines -> Job] /\ jobs'[g] = job /\ Others(g)
    BY <1>6, BaseFacts, JobGoes DEF Others
  <2>2. job.op = "sync" => Heard(jobs[g])' /\ Listed(jobs[g])'
    BY <1>1, <1>2, <1>3, <1>6, <2>1, SyncGoesOn
  <2>3. Fits(g)' BY <1>6, <2>1, <2>2 DEF Fits, Rows
  <2>4. TypeOK' BY <1>1, <1>3, <1>6, <2>1, BaseFacts, TypedAfter
  <2> QED BY <1>3, <1>6, <2>1, <2>3, <2>4, BaseStep
<1>7. CASE jobs[g].op = "webhook" /\ Goto(g, Resume(jobs[g])) /\ UNCHANGED <<releases, troubles>>
  BY <1>5, <1>7
<1>8. CASE \E row \in Release :
             /\ Written(jobs[g], row)
             /\ \/ /\ Updated(jobs[g].id, row) /\ UNCHANGED troubles
                   /\ \/ jobs[g].op = "rollback" /\ Goto(g, Resume(jobs[g]))
                      \/ /\ jobs[g].op # "rollback"
                         /\ \E job \in Job :
                              /\ Goto(g, job) /\ job.pc = "stage" /\ job.op = jobs[g].op
                              /\ job.copy.stage = row.stage /\ job.copy.status = row.status
                              /\ job.seen = jobs[g].seen /\ job.group = jobs[g].group
                              /\ job.waiting = jobs[g].waiting
                \/ /\ Updated(jobs[g].id, row) \/ UNCHANGED releases
                   /\ Trouble("write") /\ Goto(g, Resume(jobs[g]))
  BY <1>5, <1>6, <1>8
<1> QED BY <1>7, <1>8, WriteJob

-----------------------------------------------------------------------------
(* Typing, and successes that are earned *)

LEMMA BaseInit == Init => BaseInv
<1> SUFFICES ASSUME Init PROVE BaseInv OBVIOUS
<1>1. releases = <<>> /\ Len(releases) = 0 /\ Ids = {} BY DEF Init, Ids
<1>2. github \in [Runs -> Run]
  <2>1. Unborn \in Run BY RunFacts, Words DEF Unborn, Run
  <2> QED BY <2>1 DEF Init
<1>3. jobs \in [Goroutines -> Job] /\ \A g \in Goroutines : jobs[g] = Idle BY IdleJob DEF Init
<1>4. TypeOK BY <1>1, <1>2, <1>3, RunFacts DEF TypeOK, Init
<1>5. \A g \in Goroutines : Fits(g) BY <1>3, IdleJob DEF Fits, Rows
<1> QED BY <1>1, <1>4, <1>5 DEF BaseInv

LEMMA BaseStutter == BaseInv /\ UNCHANGED vars => BaseInv'
<1> SUFFICES ASSUME BaseInv, UNCHANGED vars PROVE BaseInv' OBVIOUS
<1>1. UNCHANGED <<releases, stage, github, jobs, served, applied, troubles>> BY DEF vars
<1>2. Ids' = Ids BY <1>1 DEF Ids
<1>3. TypeOK' BY <1>1, BaseFacts, TypedAfter, <1>2
<1>4. Forward BY <1>1, <1>2, SameHub
<1> QED BY <1>1, <1>2, <1>3, <1>4, BaseStepNobody

LEMMA BaseNext == BaseInv /\ [Next]_vars => BaseInv'
<1> SUFFICES ASSUME BaseInv, [Next]_vars PROVE BaseInv' OBVIOUS
<1>1. ASSUME NEW g \in Goroutines, Step(g) PROVE BaseInv'
  BY <1>1, BaseLookup, BaseMatch, BaseFetch, BaseEach, BaseCreate, BaseApply, BaseWrite, BaseReport
  DEF Step, WebhookStep, SyncStep
<1>2. ASSUME NEW g \in Goroutines, NEW r \in Runs, NEW news \in News, Deliver(g, r, news) PROVE BaseInv'
  BY <1>2, BaseDeliver
<1>3. ASSUME NEW g \in Goroutines, BeginSync(g) PROVE BaseInv' BY <1>3, BaseBeginSync
<1>4. ASSUME NEW g \in Goroutines, NEW i \in Ids, BeginRollback(g, i) PROVE BaseInv' BY <1>4, BaseBeginRollback
<1>5. ASSUME NEW r \in Runs, StartRun(r) \/ MoveRun(r) PROVE BaseInv' BY <1>5, BaseHub
<1>6. ASSUME NEW s \in Stages, CreateBootstrapRelease(s) PROVE BaseInv' BY <1>6, BaseBootstrap
<1>7. CASE Crash BY <1>7, BaseCrash
<1>8. CASE UNCHANGED vars BY <1>8, BaseStutter
<1> QED BY <1>1, <1>2, <1>3, <1>4, <1>5, <1>6, <1>7, <1>8 DEF Next

LEMMA BaseHolds == Spec => []BaseInv
BY BaseInit, BaseNext, PTL DEF Spec

\* The releases, the stages' outcomes, the runs and the jobs are as their declarations
\* say, and no row, copy or rollback is beyond the table.
THEOREM TypeCorrect == Spec => []TypeOK
<1>1. BaseInv => TypeOK BY DEF BaseInv
<1> QED BY <1>1, BaseHolds, PTL

\* A release shows a success only when GitHub has reported its run succeeded, or a
\* rollback has applied its image; and the image of such a release was built by a run
\* that succeeded: however the webhook, syncs and rollbacks overlap or fail.
THEOREM SuccessesAreEarned == Spec => []SuccessIsEarned
<1>1. BaseInv => SuccessIsEarned
  <2> SUFFICES ASSUME BaseInv, NEW i \in Ids, releases[i].status = "success"
               PROVE  /\ IF releases[i].run = NoRun THEN i \in applied
                         ELSE "succeeded" \in Sent(releases[i].run)
                      /\ releases[i].tag # NoRun => "succeeded" \in Sent(releases[i].tag)
    BY DEF SuccessIsEarned
  <2>1. RowTrue(i) BY BaseFacts
  <2> QED BY <2>1 DEF RowTrue, Imaged, Earned
<1> QED BY <1>1, BaseHolds, PTL

-----------------------------------------------------------------------------
(* Nobody else is at work *)

LEMMA TroubleStays ==
    ASSUME NEW kind, Trouble(kind)
    PROVE  /\ troubles \subseteq troubles' /\ kind \in troubles'
BY DEF Trouble

\* A step of one goroutine, that finds the others idle.
LEMMA LoneStep ==
    ASSUME LoneInv, BaseInv', NEW g \in Goroutines, Others(g), troubles \subseteq troubles',
           Lone' => \A h \in Goroutines : h # g => jobs[h].pc = "idle",
           Lone' => Held(g)',
           Clean' => Single' /\ Free(g)'
    PROVE  LoneInv'
<1>1. Lone' => \A h \in Goroutines : h # g => jobs'[h] = Idle
  BY DEF LoneInv, BaseInv, Fits, Others
<1>2. Alone' BY <1>1, IdleJob DEF Alone
<1>3. ASSUME NEW h \in Goroutines, jobs'[h] = Idle PROVE Held(h)' /\ Free(h)'
  BY <1>3, IdleJob DEF Held, Free
<1>4. Clean' => Lone' BY DEF Clean, Lone
<1> QED BY <1>1, <1>2, <1>3, <1>4 DEF LoneInv

\* A goroutine at work is the only one.
LEMMA OnlyOne ==
    ASSUME LoneInv, NEW g \in Goroutines, jobs[g].pc # "idle", troubles \subseteq troubles'
    PROVE  /\ Lone' => Lone /\ Held(g) /\ \A h \in Goroutines : h # g => jobs[h].pc = "idle"
           /\ Clean' => Clean /\ Lone' /\ Single /\ Free(g)
           /\ Trouble("read") => ~Clean'
<1>1. Lone' => Lone BY DEF Lone
<1>2. Clean' => Clean /\ Lone' BY DEF Lone, Clean
<1>3. Trouble("read") => ~Clean' BY TroubleStays DEF Clean
<1> QED BY <1>1, <1>2, <1>3 DEF LoneInv, Alone

\* Rows as they were.
LEMMA SameRows ==
    ASSUME UNCHANGED releases
    PROVE  Ids' = Ids /\ (Single => Single') /\ \A r : WithRun(r)' = WithRun(r)
BY DEF Ids, Single, WithRun

LEMMA LoneHub ==
    ASSUME LoneInv, NEW r \in Runs, StartRun(r) \/ MoveRun(r)
    PROVE  LoneInv'
<1>1. BaseInv /\ TypeOK BY DEF LoneInv, BaseInv
<1>2. BaseInv' BY <1>1, BaseHub
<1>3. UNCHANGED <<releases, jobs, troubles>> BY <1>1, HubMoves
<1>4. Alone' /\ (Lone' => Lone) /\ (Clean' => Clean) BY <1>3 DEF LoneInv, Alone, Lone, Clean
<1>5. \A g \in Goroutines : (Held(g) => Held(g)') /\ (Free(g) => Free(g)')
  BY <1>3 DEF Held, Free, WithRun, Ids
<1> QED BY <1>2, <1>3, <1>4, <1>5, SameRows DEF LoneInv

\* A row without a run is added: the rows there are, and those with a run, stay.
LEMMA BlankRow ==
    ASSUME BaseInv, NEW row \in Release, Inserted(row), row.run = NoRun
    PROVE  /\ \A i \in Ids : releases'[i] = releases[i]
           /\ Ids \subseteq Ids' /\ (Single => Single')
           /\ \A r \in Runs : WithRun(r)' = WithRun(r)
<1>1. PICK n : n = Len(releases) + 1 OBVIOUS
<1>2. Ids' = Ids \cup {n} /\ n \notin Ids /\ releases'[n] = row /\ \A j \in Ids : releases'[j] = releases[j]
  BY <1>1, BaseFacts, RowInserted
<1>3. Single => Single' BY <1>2 DEF Single
<1>4. ASSUME NEW r \in Runs PROVE WithRun(r)' = WithRun(r) BY <1>2, RunFacts DEF WithRun
<1> QED BY <1>2, <1>3, <1>4

LEMMA LoneBootstrap ==
    ASSUME LoneInv, NEW s \in Stages, CreateBootstrapRelease(s)
    PROVE  LoneInv'
<1>1. BaseInv BY DEF LoneInv
<1>2. BaseInv' BY <1>1, BaseBootstrap
<1> DEFINE row == NewRelease(s, "pending", NoRun, NoRun)
<1>3. row \in Release /\ row.run = NoRun
  <2>1. s \in StageId /\ "pending" \in ReleaseStatus /\ NoRun \in RunId BY RunFacts, Words
  <2> QED BY <2>1, NewReleaseFields
<1>4. Inserted(row) /\ UNCHANGED <<jobs, troubles>> BY DEF CreateBootstrapRelease
<1> HIDE DEF row
<1>5. /\ \A i \in Ids : releases'[i] = releases[i]
      /\ Ids \subseteq Ids' /\ (Single => Single')
      /\ \A r \in Runs : WithRun(r)' = WithRun(r)
  BY <1>1, <1>3, <1>4, BlankRow
<1>6. Alone' /\ (Lone' => Lone) /\ (Clean' => Clean) BY <1>4 DEF LoneInv, Alone, Lone, Clean
<1>7. ASSUME NEW g \in Goroutines, Held(g) PROVE Held(g)'
  <2>1. jobs[g].pc \in {"apply", "write"} => jobs[g].id \in Ids BY <1>1 DEF BaseInv, Fits
  <2>2. jobs[g].op = "sync" => \A q \in Stages : jobs[g].waiting[q] # Nobody => jobs[g].waiting[q].id \in Ids
    BY <1>1 DEF BaseInv, Fits, Listed
  <2> QED BY <1>4, <1>5, <1>7, <2>1, <2>2 DEF Held
<1>8. ASSUME NEW g \in Goroutines, Free(g) PROVE Free(g)'
  <2>1. jobs[g].copy.run \in Runs \cup {NoRun} BY <1>1, BaseFacts, JobFields, RowFields, RunFacts
  <2>2. jobs[g].pc = "match" => jobs[g].run \in Runs BY <1>1 DEF BaseInv, Fits
  <2> QED BY <1>4, <1>5, <1>8, <2>1, <2>2 DEF Free
<1> QED BY <1>2, <1>4, <1>5, <1>6, <1>7, <1>8 DEF LoneInv

LEMMA LoneCrash ==
    ASSUME LoneInv, Crash
    PROVE  LoneInv'
<1>1. BaseInv BY DEF LoneInv
<1>2. BaseInv' BY <1>1, BaseCrash
<1>3. UNCHANGED releases /\ troubles \subseteq troubles' BY TroubleStays DEF Crash
<1>4. \A g \in Goroutines : jobs'[g] = Idle BY DEF Crash
<1>5. Alone' BY <1>4, IdleJob DEF Alone
<1>6. \A g \in Goroutines : Held(g)' /\ Free(g)' BY <1>4, IdleJob DEF Held, Free
<1>7. Clean' => Single' BY <1>3, SameRows DEF LoneInv, Clean
<1> QED BY <1>2, <1>5, <1>6, <1>7 DEF LoneInv

LEMMA LoneBegin ==
    ASSUME LoneInv, BaseInv', NEW g \in Goroutines, NEW job \in Job, Begin(g, job), UNCHANGED releases,
           job.pc \notin {"apply", "write", "match"}, job.pc = "create" => job.copy.run = NoRun,
           job.op = "sync" => \A s \in Stages : job.waiting[s] # Nobody =>
                                 releases[job.waiting[s].id] = job.waiting[s].row
    PROVE  LoneInv'
<1>1. BaseInv BY DEF LoneInv
<1>2. /\ jobs'[g] = job /\ Others(g) /\ troubles \subseteq troubles'
      /\ Lone' => troubles' = troubles /\ \A h \in Goroutines : jobs[h].pc = "idle"
  BY <1>1, Begins DEF Lone
<1>3. Held(g)' /\ Free(g)' BY <1>2 DEF Held, Free
<1>4. Clean' => Single' BY <1>2, SameRows DEF LoneInv, Clean
<1> QED BY <1>2, <1>3, <1>4, LoneStep

LEMMA LoneDeliver ==
    ASSUME LoneInv, NEW g \in Goroutines, NEW r \in Runs, NEW news \in News, Deliver(g, r, news)
    PROVE  LoneInv'
<1>1. BaseInv BY DEF LoneInv
<1>2. BaseInv' BY <1>1, BaseDeliver
<1>3. PICK job \in Job : Begin(g, job) /\ job.op = "webhook" /\ job.pc = "lookup" /\ UNCHANGED releases
  BY <1>1, DeliverJob
<1> QED BY <1>2, <1>3, LoneBegin

LEMMA LoneBeginRollback ==
    ASSUME LoneInv, NEW g \in Goroutines, NEW i \in Ids, BeginRollback(g, i)
    PROVE  LoneInv'
<1>1. BaseInv BY DEF LoneInv
<1>2. BaseInv' BY <1>1, BaseBeginRollback
<1>3. PICK job \in Job : /\ Begin(g, job) /\ job.op = "rollback" /\ job.pc = "create"
                         /\ job.copy.run = NoRun /\ UNCHANGED releases
  BY <1>1, BeginRollbackJob
<1> QED BY <1>2, <1>3, LoneBegin

LEMMA LoneBeginSync ==
    ASSUME LoneInv, NEW g \in Goroutines, BeginSync(g)
    PROVE  LoneInv'
<1>1. BaseInv BY DEF LoneInv
<1>2. BaseInv' BY <1>1, BaseBeginSync
<1>3. PICK job \in Job : /\ Begin(g, job) /\ job.op = "sync" /\ job.pc = "fetch"
                         /\ \A s \in Stages : job.waiting[s] = WaitingIn(s)
                         /\ UNCHANGED releases
  BY <1>1, BeginSyncJob
<1>4. \A s \in Stages : job.waiting[s] # Nobody => releases[job.waiting[s].id] = job.waiting[s].row
  BY <1>1, <1>3, WaitingInFacts
<1> QED BY <1>2, <1>3, <1>4, LoneBegin

LEMMA LoneLookup ==
    ASSUME LoneInv, NEW g \in Goroutines, Lookup(g)
    PROVE  LoneInv'
<1>1. BaseInv BY DEF LoneInv
<1>2. BaseInv' BY <1>1, BaseLookup
<1>3. jobs[g].pc = "lookup" /\ UNCHANGED releases BY <1>1, LookupJob
<1>4. PICK job \in Job :
        /\ Goto(g, job) /\ job.op = "webhook" /\ job.run = jobs[g].run
        /\ \/ job.pc = "write" /\ job.id \in WithRun(job.run) /\ job.copy = releases[job.id] /\ UNCHANGED troubles
           \/ job.pc = "match" /\ WithRun(job.run) = {} /\ UNCHANGED troubles
           \/ job.pc = "match" /\ Trouble("read")
  BY <1>1, LookupJob
<1>5. jobs'[g] = job /\ Others(g) BY <1>1, <1>4, BaseFacts, JobGoes DEF Others
<1>6. troubles \subseteq troubles' BY <1>4, TroubleStays
<1>7. jobs[g].run \in Runs BY <1>1, <1>3 DEF BaseInv, Fits
<1>8. job.pc = "write" => job.id \in Ids /\ job.copy = releases[job.id] /\ job.copy.run = job.run
  BY <1>4 DEF WithRun
<1>9. Held(g)' BY <1>3, <1>4, <1>5, <1>8 DEF Held
<1>10. ASSUME Clean' PROVE Single' /\ Free(g)'
  <2>1. Single /\ ~Trouble("read") BY <1>3, <1>6, <1>10, OnlyOne
  <2>2. Single' /\ WithRun(job.run)' = WithRun(job.run) BY <1>3, <2>1, SameRows
  <2>3. job.pc = "match" => WithRun(job.run) = {} BY <1>4, <2>1
  <2>4. job.pc = "write" => WithRun(job.run) \subseteq {job.id}
    BY <1>4, <1>7, <1>8, <2>1, RunFacts DEF Single, WithRun
  <2>5. /\ (job.pc = "match" => WithRun(job.run)' = {})
        /\ (job.pc = "write" => job.copy.run = job.run /\ WithRun(job.run)' \subseteq {job.id})
        /\ job.pc # "create"
    BY <1>4, <1>8, <2>2, <2>3, <2>4
  <2>6. Free(g)' BY <1>5, <2>5 DEF Free, WithRun, Ids
  <2> QED BY <2>2, <2>6
<1> QED BY <1>2, <1>3, <1>5, <1>6, <1>9, <1>10, LoneStep, OnlyOne

LEMMA LoneMatch ==
    ASSUME LoneInv, NEW g \in Goroutines, Match(g)
    PROVE  LoneInv'
<1>1. BaseInv BY DEF LoneInv
<1>2. BaseInv' BY <1>1, BaseMatch
<1>3. jobs[g].pc = "match" /\ UNCHANGED releases /\ (troubles' = troubles \/ Trouble("read"))
  BY <1>1, MatchJob
<1>4. PICK job \in Job :
        /\ Goto(g, job) /\ job.op = "webhook" /\ job.run = jobs[g].run /\ job.copy.run = job.run
        /\ \/ /\ job.pc = "write" /\ releases[job.id].run = NoRun /\ releases[job.id].stage = job.copy.stage
              /\ releases[job.id].status \in Unfinished
           \/ job.pc = "create"
  BY <1>1, MatchJob
<1>5. jobs'[g] = job /\ Others(g) BY <1>1, <1>4, BaseFacts, JobGoes DEF Others
<1>6. troubles \subseteq troubles' BY <1>3, TroubleStays
<1>7. Held(g)' BY <1>3, <1>4, <1>5 DEF Held
<1>8. ASSUME Clean' PROVE Single' /\ Free(g)'
  <2>1. Single /\ WithRun(jobs[g].run) = {} BY <1>3, <1>6, <1>8, OnlyOne DEF Free
  <2>2. Single' /\ WithRun(job.run)' = {} BY <1>3, <1>4, <2>1, SameRows
  <2>3. Free(g)' BY <1>4, <1>5, <2>2 DEF Free, WithRun, Ids
  <2> QED BY <2>2, <2>3
<1> QED BY <1>2, <1>3, <1>5, <1>6, <1>7, <1>8, LoneStep, OnlyOne

\* A job with no row to write, and nothing listed that was not listed before.
LEMMA StillHeld ==
    ASSUME NEW g \in Goroutines, Held(g), NEW job \in Job, jobs'[g] = job,
           job.pc \notin {"apply", "write"},
           job.op = "sync" => /\ jobs[g].op = "sync"
                              /\ \A s \in Stages : job.waiting[s] \in {jobs[g].waiting[s], Nobody},
           jobs[g].op = "sync" => \A s \in Stages : jobs[g].waiting[s] # Nobody =>
               releases'[jobs[g].waiting[s].id] = releases[jobs[g].waiting[s].id]
    PROVE  Held(g)'
BY DEF Held

\* A job that is done with its row, and had nothing listed elsewhere.
LEMMA ResumeHeld ==
    ASSUME NEW g \in Goroutines, Held(g), NEW job \in Job, jobs'[g] = Resume(job), job.op = jobs[g].op,
           job.op = "sync" => \A s \in Stages : job.waiting[s] \in {jobs[g].waiting[s], Nobody},
           jobs[g].op = "sync" => \A s \in Stages : jobs[g].waiting[s] # Nobody =>
               releases'[jobs[g].waiting[s].id] = releases[jobs[g].waiting[s].id]
    PROVE  Held(g)'
<1> DEFINE next == Resume(job)
<1>1. /\ next \in Job /\ next.pc \in {"idle", "each", "fetch"} /\ (next.pc = "idle" => next = Idle)
      /\ (next.pc # "idle" => job.op = "sync")
      /\ \A s \in Stages : next.waiting[s] \in {job.waiting[s], Nobody}
  BY Resumes
<1>2. jobs'[g] = next OBVIOUS
<1> HIDE DEF next
<1>3. next.op = "sync" => job.op = "sync" BY <1>1, IdleJob
<1> QED BY <1>1, <1>2, <1>3, StillHeld

LEMMA ResumeFree ==
    ASSUME NEW g \in Goroutines, NEW job \in Job, jobs'[g] = Resume(job)
    PROVE  Free(g)'
BY Resumes DEF Free

LEMMA LoneFetch ==
    ASSUME LoneInv, NEW g \in Goroutines, FetchRuns(g)
    PROVE  LoneInv'
<1>1. BaseInv BY DEF LoneInv
<1>2. BaseInv' BY <1>1, BaseFetch
<1>3. jobs[g].pc = "fetch" /\ jobs[g].op = "sync" /\ UNCHANGED <<releases, troubles>> BY <1>1, FetchJob
<1>4. PICK job \in Job :
        /\ Goto(g, job)
        /\ job = Idle \/ (job.pc \in {"fetch", "each"} /\ job.op = "sync" /\ job.waiting = jobs[g].waiting)
  BY <1>1, FetchJob
<1>5. jobs'[g] = job /\ Others(g) BY <1>1, <1>4, BaseFacts, JobGoes DEF Others
<1>6. job.pc \in {"idle", "fetch", "each"} BY <1>4, IdleJob
<1>7. Free(g)' BY <1>5, <1>6 DEF Free
<1>8. Held(g) => Held(g)' BY <1>3, <1>4, <1>5, <1>6, StillHeld, IdleJob
<1> QED BY <1>2, <1>3, <1>5, <1>7, <1>8, LoneStep, OnlyOne, SameRows

LEMMA LoneReport ==
    ASSUME LoneInv, NEW g \in Goroutines, ReportToStage(g)
    PROVE  LoneInv'
<1>1. BaseInv BY DEF LoneInv
<1>2. BaseInv' BY <1>1, BaseReport
<1>3. /\ jobs[g].pc = "stage" /\ jobs[g] \in Job /\ Goto(g, Resume(jobs[g])) /\ UNCHANGED releases
      /\ Trouble("write") \/ UNCHANGED troubles
  BY <1>1, ReportJob
<1>4. jobs'[g] = Resume(jobs[g]) /\ Others(g) BY <1>1, <1>3, Resumes, BaseFacts, JobGoes DEF Others
<1>5. troubles \subseteq troubles' BY <1>3, TroubleStays
<1>6. Free(g)' BY <1>3, <1>4, ResumeFree
<1>7. Held(g) => Held(g)' BY <1>3, <1>4, ResumeHeld
<1> QED BY <1>2, <1>3, <1>4, <1>5, <1>6, <1>7, LoneStep, OnlyOne, SameRows

LEMMA LoneApply ==
    ASSUME LoneInv, NEW g \in Goroutines, ApplyImage(g)
    PROVE  LoneInv'
<1>1. BaseInv BY DEF LoneInv
<1>2. BaseInv' BY <1>1, BaseApply
<1>3. /\ jobs[g].pc = "apply" /\ jobs[g].op = "rollback" /\ UNCHANGED releases
      /\ troubles' = troubles \/ Trouble("apply")
  BY <1>1, ApplyJob
<1>4. PICK job \in Job :
        /\ Goto(g, job) /\ job.op = "rollback" /\ job.pc = "write" /\ job.id = jobs[g].id
        /\ job.copy.stage = jobs[g].copy.stage /\ job.copy.run = jobs[g].copy.run
  BY <1>1, ApplyJob
<1>5. jobs'[g] = job /\ Others(g) BY <1>1, <1>4, BaseFacts, JobGoes DEF Others
<1>6. troubles \subseteq troubles' BY <1>3, TroubleStays
<1>7. jobs[g].copy.run = NoRun BY <1>1, <1>3 DEF BaseInv, Fits, Rows, Fills
<1>8. Free(g)' BY <1>4, <1>5, <1>7 DEF Free
<1>9. Held(g) => Held(g)' BY <1>3, <1>4, <1>5 DEF Held
<1> QED BY <1>2, <1>3, <1>5, <1>6, <1>8, <1>9, LoneStep, OnlyOne, SameRows

LEMMA LoneEach ==
    ASSUME LoneInv, NEW g \in Goroutines, EachRun(g)
    PROVE  LoneInv'
<1>1. BaseInv BY DEF LoneInv
<1>2. BaseInv' BY <1>1, BaseEach
<1>3. jobs[g].pc = "each" /\ jobs[g].op = "sync" /\ jobs[g] \in Job /\ UNCHANGED releases BY <1>1, EachJob
<1>4. PICK r \in Runs, job \in Job :
        /\ EachNext(g, r, job)
        /\ \/ Goto(g, Resume(job)) /\ job.waiting = jobs[g].waiting /\ UNCHANGED troubles
           \/ /\ Goto(g, job) /\ job.copy.run = r
              /\ (EachKnown(g, r, job) \/ EachListed(g, r, job) \/ EachNew(g, r, job))
  BY <1>1, EachJob
<1>5. job.op = "sync" BY <1>4 DEF EachNext
<1>6. Listed(jobs[g]) /\ jobs[g].group \in Stages /\ r # NoRun
  BY <1>1, <1>3, RunFacts DEF BaseInv, Fits, Job
<1>7. CASE Goto(g, Resume(job)) /\ job.waiting = jobs[g].waiting /\ UNCHANGED troubles
  <2>1. jobs'[g] = Resume(job) /\ Others(g) BY <1>1, <1>7, Resumes, BaseFacts, JobGoes DEF Others
  <2>2. Free(g)' BY <2>1, ResumeFree
  <2>3. Held(g) => Held(g)' BY <1>3, <1>5, <1>7, <2>1, ResumeHeld
  <2> QED BY <1>2, <1>3, <1>7, <2>1, <2>2, <2>3, LoneStep, OnlyOne, SameRows
<1>8. CASE /\ Goto(g, job) /\ job.copy.run = r
           /\ (EachKnown(g, r, job) \/ EachListed(g, r, job) \/ EachNew(g, r, job))
  <2>1. jobs'[g] = job /\ Others(g) BY <1>1, <1>8, BaseFacts, JobGoes DEF Others
  <2>2. troubles \subseteq troubles'
    <3>1. troubles' = troubles \/ Trouble("read") BY <1>8 DEF EachKnown, EachListed, EachNew, Unknown
    <3> QED BY <3>1, TroubleStays
  <2>3. ASSUME Held(g) PROVE Held(g)'
    <3>1. \A s \in Stages : jobs[g].waiting[s] # Nobody =>
             /\ releases[jobs[g].waiting[s].id] = jobs[g].waiting[s].row
             /\ jobs[g].waiting[s].row.run = NoRun /\ jobs[g].waiting[s].row.status \in Unfinished
             /\ GroupOf(jobs[g].waiting[s].row) = s
      BY <1>3, <1>6, <2>3 DEF Held, Listed
    <3>2. CASE EachKnown(g, r, job)
      <4>1. /\ job.pc = "write" /\ releases[job.id].run = r /\ job.waiting = jobs[g].waiting
            /\ job.copy.stage = releases[job.id].stage
        BY <3>2 DEF EachKnown, WithRun
      <4>2. \A s \in Stages : job.waiting[s] # Nobody => job.waiting[s].id # job.id
        BY <1>6, <3>1, <4>1
      <4> QED BY <1>3, <1>5, <1>8, <2>1, <3>1, <4>1, <4>2 DEF Held
    <3>3. CASE EachListed(g, r, job)
      <4> DEFINE w == jobs[g].waiting[jobs[g].group]
      <4>1. /\ job.pc = "write" /\ w # Nobody /\ job.id = w.id /\ job.copy.stage = w.row.stage
            /\ job.waiting[jobs[g].group] = Nobody
            /\ \A s \in Stages : job.waiting[s] \in {jobs[g].waiting[s], Nobody}
        BY <3>3 DEF EachListed
      <4>2. /\ releases[w.id] = w.row /\ w.row.run = NoRun /\ w.row.status \in Unfinished
            /\ GroupOf(w.row) = jobs[g].group
        BY <1>6, <3>1, <4>1
      <4> HIDE DEF w
      <4>3. ASSUME NEW s \in Stages, job.waiting[s] # Nobody
            PROVE  releases[job.waiting[s].id] = job.waiting[s].row /\ job.waiting[s].id # job.id
        <5>1. job.waiting[s] = jobs[g].waiting[s] /\ jobs[g].waiting[s] # Nobody /\ s # jobs[g].group
          BY <4>1, <4>3
        <5>2. releases[job.waiting[s].id] = job.waiting[s].row /\ GroupOf(job.waiting[s].row) = s
          BY <3>1, <5>1
        <5> QED BY <4>1, <4>2, <5>1, <5>2
      <4> QED BY <1>3, <1>5, <1>6, <1>8, <2>1, <4>1, <4>2, <4>3 DEF Held
    <3>4. CASE EachNew(g, r, job)
      <4>1. job.pc = "create" /\ job.waiting = jobs[g].waiting BY <3>4 DEF EachNew
      <4> QED BY <1>3, <2>1, <2>3, <4>1, StillHeld
    <3> QED BY <1>8, <3>2, <3>3, <3>4
  <2>4. ASSUME Clean' PROVE Single' /\ Free(g)'
    <3>1. Single /\ ~Trouble("read") BY <1>3, <2>2, <2>4, OnlyOne
    <3>2. Single' /\ WithRun(r)' = WithRun(r) BY <1>3, <3>1, SameRows
    <3>3. CASE EachKnown(g, r, job)
      <4>1. job.pc = "write" /\ job.id \in WithRun(r) BY <3>3 DEF EachKnown
      <4>2. WithRun(r) \subseteq {job.id} BY <1>6, <3>1, <4>1 DEF Single, WithRun
      <4>3. WithRun(r)' \subseteq {job.id} BY <3>2, <4>2
      <4>4. Free(g)' BY <1>8, <2>1, <4>1, <4>3 DEF Free, WithRun, Ids
      <4> QED BY <3>2, <4>4
    <3>4. CASE EachListed(g, r, job) \/ EachNew(g, r, job)
      <4>1. job.pc \in {"write", "create"} /\ WithRun(r) = {}
        BY <3>1, <3>4 DEF EachListed, EachNew, Unknown
      <4>2. WithRun(r)' = {} BY <3>2, <4>1
      <4>3. Free(g)' BY <1>8, <2>1, <4>1, <4>2 DEF Free, WithRun, Ids
      <4> QED BY <3>2, <4>3
    <3> QED BY <1>8, <3>3, <3>4
  <2> QED BY <1>2, <1>3, <2>1, <2>2, <2>3, <2>4, LoneStep, OnlyOne
<1> QED BY <1>4, <1>7, <1>8

\* What is listed is in the table.
LEMMA ListedIds ==
    ASSUME BaseInv, NEW g \in Goroutines, jobs[g].op = "sync"
    PROVE  \A s \in Stages : jobs[g].waiting[s] # Nobody => jobs[g].waiting[s].id \in Ids
BY DEF BaseInv, Fits, Listed

LEMMA LoneCreate ==
    ASSUME LoneInv, NEW g \in Goroutines, Create(g)
    PROVE  LoneInv'
<1>1. BaseInv BY DEF LoneInv
<1>2. BaseInv' BY <1>1, BaseCreate
<1>3. jobs[g].pc = "create" /\ jobs[g] \in Job BY <1>1, CreateJob
<1>4. jobs[g].copy \in Release /\ jobs[g].op # "none" BY <1>1, <1>3, CopyIsTrue
<1>5. PICK n, run : n = Len(releases) + 1 /\ run = jobs[g].copy.run OBVIOUS
<1>6. ASSUME Inserted(jobs[g].copy)
      PROVE  /\ Ids' = Ids \cup {n} /\ n \notin Ids /\ releases'[n] = jobs[g].copy
             /\ \A i \in Ids : releases'[i] = releases[i]
  BY <1>1, <1>4, <1>5, <1>6, BaseFacts, RowInserted
<1>7. ASSUME Inserted(jobs[g].copy), Single, Free(g)
      PROVE  Single' /\ (run # NoRun => WithRun(run)' \subseteq {n})
  <2>1. run # NoRun => \A i \in Ids : releases[i].run # run
    BY <1>3, <1>5, <1>7 DEF Free, WithRun
  <2>2. Single' BY <1>5, <1>6, <1>7, <2>1 DEF Single
  <2>3. run # NoRun => WithRun(run)' \subseteq {n} BY <1>6, <1>7, <2>1 DEF WithRun
  <2> QED BY <2>2, <2>3
<1>8. CASE /\ Inserted(jobs[g].copy) \/ UNCHANGED releases
           /\ Trouble("write") /\ Goto(g, Resume(jobs[g]))
  <2>1. jobs'[g] = Resume(jobs[g]) /\ Others(g) BY <1>1, <1>3, <1>8, Resumes, BaseFacts, JobGoes DEF Others
  <2>2. troubles \subseteq troubles' BY <1>8, TroubleStays
  <2>3. Free(g)' BY <1>3, <2>1, ResumeFree
  <2>4. \A i \in Ids : releases'[i] = releases[i] BY <1>6, <1>8
  <2>5. Held(g) => Held(g)' BY <1>1, <1>3, <2>1, <2>4, ListedIds, ResumeHeld
  <2>6. Clean' => Single' BY <1>3, <1>7, <1>8, <2>2, OnlyOne, SameRows
  <2> QED BY <1>2, <1>3, <2>1, <2>2, <2>3, <2>5, <2>6, LoneStep, OnlyOne
<1>9. CASE /\ Inserted(jobs[g].copy) /\ UNCHANGED troubles
           /\ \E job \in Job :
                /\ Goto(g, job) /\ job.id = Len(releases) + 1
                /\ job.pc = IF job.op = "sync" THEN "stage" ELSE IF job.op = "rollback" THEN "apply" ELSE "write"
                /\ job.op = jobs[g].op /\ job.copy = jobs[g].copy /\ job.waiting = jobs[g].waiting
  <2>1. PICK job \in Job :
                /\ Goto(g, job) /\ job.id = n
                /\ job.pc = IF job.op = "sync" THEN "stage" ELSE IF job.op = "rollback" THEN "apply" ELSE "write"
                /\ job.op = jobs[g].op /\ job.copy = jobs[g].copy /\ job.waiting = jobs[g].waiting
    BY <1>5, <1>9
  <2>2. jobs'[g] = job /\ Others(g) BY <1>1, <2>1, BaseFacts, JobGoes DEF Others
  <2>3. releases'[n] = job.copy /\ \A i \in Ids : releases'[i] = releases[i] BY <1>6, <1>9, <2>1
  <2>4. ASSUME Held(g) PROVE Held(g)'
    <3>1. CASE job.op = "sync"
      <4>1. \A s \in Stages : jobs[g].waiting[s] # Nobody =>
               releases'[jobs[g].waiting[s].id] = releases[jobs[g].waiting[s].id]
        BY <1>1, <2>1, <2>3, <3>1, ListedIds
      <4> QED BY <2>1, <2>2, <2>4, <3>1, <4>1, StillHeld
    <3>2. CASE job.op # "sync"
      <4>1. job.op = "rollback" => job.copy.status = "pending"
        BY <1>1, <1>3, <2>1 DEF BaseInv, Fits, Rows, Fills
      <4> QED BY <2>1, <2>2, <2>3, <3>2, <4>1 DEF Held
    <3> QED BY <3>1, <3>2
  <2>5. ASSUME Clean' PROVE Single' /\ Free(g)'
    <3>1. Single' /\ (run # NoRun => WithRun(run)' \subseteq {n}) BY <1>3, <1>7, <1>9, <2>5, OnlyOne
    <3>2. Free(g)' BY <1>5, <2>1, <2>2, <3>1 DEF Free, WithRun, Ids
    <3> QED BY <3>1, <3>2
  <2> QED BY <1>2, <1>3, <1>9, <2>2, <2>4, <2>5, LoneStep, OnlyOne
<1>10. \/ /\ Inserted(jobs[g].copy) \/ UNCHANGED releases
          /\ Trouble("write") /\ Goto(g, Resume(jobs[g]))
       \/ /\ Inserted(jobs[g].copy) /\ UNCHANGED troubles
          /\ \E job \in Job :
                /\ Goto(g, job) /\ job.id = Len(releases) + 1
                /\ job.pc = IF job.op = "sync" THEN "stage" ELSE IF job.op = "rollback" THEN "apply" ELSE "write"
                /\ job.op = jobs[g].op /\ job.copy = jobs[g].copy /\ job.waiting = jobs[g].waiting
  BY <1>1, CreateJob
<1> QED BY <1>8, <1>9, <1>10

LEMMA LoneWrite ==
    ASSUME LoneInv, NEW g \in Goroutines, Write(g)
    PROVE  LoneInv'
<1>1. BaseInv BY DEF LoneInv
<1>2. BaseInv' BY <1>1, BaseWrite
<1>3. jobs[g].pc = "write" /\ jobs[g] \in Job BY <1>1, WriteJob
<1>4. PICK i \in Ids : i = jobs[g].id BY <1>1, <1>3 DEF BaseInv, Fits
\* What is written, over a row that has the run already or none.
<1>5. ASSUME NEW row \in Release, Written(jobs[g], row), Updated(jobs[g].id, row)
      PROVE  /\ \A k \in Ids : k # i => releases'[k] = releases[k]
             /\ Single /\ Free(g) => Single'
  <2>1. Ids' = Ids /\ releases'[i] = row /\ \A j \in Ids : j # i => releases'[j] = releases[j]
    BY <1>1, <1>4, <1>5, BaseFacts, RowUpdated
  <2>2. row.run = jobs[g].copy.run BY <1>5 DEF Written
  <2>3. Free(g) /\ row.run # NoRun => \A k \in Ids : releases[k].run = row.run => k = i
    BY <1>3, <1>4, <2>2 DEF Free, WithRun
  <2> QED BY <2>1, <2>3 DEF Single
<1>6. ASSUME \/ UNCHANGED releases
             \/ \E row \in Release : Written(jobs[g], row) /\ Updated(jobs[g].id, row),
             troubles \subseteq troubles'
      PROVE  /\ Clean' => Single'
             /\ Held(g) /\ jobs[g].op = "sync" => \A s \in Stages : jobs[g].waiting[s] # Nobody =>
                   releases'[jobs[g].waiting[s].id] = releases[jobs[g].waiting[s].id]
  <2>1. Clean' => Single' BY <1>3, <1>5, <1>6, OnlyOne, SameRows
  <2>2. \A k \in Ids : k # i => releases'[k] = releases[k] BY <1>5, <1>6
  <2>3. Held(g) /\ jobs[g].op = "sync" => \A s \in Stages : jobs[g].waiting[s] # Nobody =>
           jobs[g].waiting[s].id # i
    BY <1>3, <1>4 DEF Held
  <2> QED BY <1>1, <2>1, <2>2, <2>3, ListedIds
<1>7. ASSUME Goto(g, Resume(jobs[g])), UNCHANGED troubles \/ Trouble("write"),
             \/ UNCHANGED releases
             \/ \E row \in Release : Written(jobs[g], row) /\ Updated(jobs[g].id, row)
      PROVE  LoneInv'
  <2>1. jobs'[g] = Resume(jobs[g]) /\ Others(g) BY <1>1, <1>3, <1>7, Resumes, BaseFacts, JobGoes DEF Others
  <2>2. troubles \subseteq troubles' BY <1>7, TroubleStays
  <2>3. Free(g)' BY <1>3, <2>1, ResumeFree
  <2>4. Held(g) => Held(g)' BY <1>3, <1>6, <1>7, <2>1, <2>2, ResumeHeld
  <2>5. Clean' => Single' BY <1>6, <1>7, <2>2
  <2> QED BY <1>2, <1>3, <2>1, <2>2, <2>3, <2>4, <2>5, LoneStep, OnlyOne
<1>8. ASSUME NEW row \in Release, Written(jobs[g], row), Updated(jobs[g].id, row), UNCHANGED troubles,
             NEW job \in Job, Goto(g, job), job.pc = "stage", job.op = jobs[g].op,
             job.waiting = jobs[g].waiting
      PROVE  LoneInv'
  <2>1. jobs'[g] = job /\ Others(g) BY <1>1, <1>8, BaseFacts, JobGoes DEF Others
  <2>2. Free(g)' BY <1>8, <2>1 DEF Free
  <2>3. Held(g) => Held(g)' BY <1>6, <1>8, <2>1, StillHeld
  <2>4. Clean' => Single' BY <1>6, <1>8
  <2> QED BY <1>2, <1>3, <1>8, <2>1, <2>2, <2>3, <2>4, LoneStep, OnlyOne
<1>9. CASE jobs[g].op = "webhook" /\ Goto(g, Resume(jobs[g])) /\ UNCHANGED <<releases, troubles>>
  BY <1>7, <1>9
<1>10. CASE \E row \in Release :
             /\ Written(jobs[g], row)
             /\ \/ /\ Updated(jobs[g].id, row) /\ UNCHANGED troubles
                   /\ \/ jobs[g].op = "rollback" /\ Goto(g, Resume(jobs[g]))
                      \/ /\ jobs[g].op # "rollback"
                         /\ \E job \in Job :
                              /\ Goto(g, job) /\ job.pc = "stage" /\ job.op = jobs[g].op
                              /\ job.copy.stage = row.stage /\ job.copy.status = row.status
                              /\ job.seen = jobs[g].seen /\ job.group = jobs[g].group
                              /\ job.waiting = jobs[g].waiting
                \/ /\ Updated(jobs[g].id, row) \/ UNCHANGED releases
                   /\ Trouble("write") /\ Goto(g, Resume(jobs[g]))
  BY <1>7, <1>8, <1>10
<1> QED BY <1>1, <1>9, <1>10, WriteJob

LEMMA LoneNext == LoneInv /\ [Next]_vars => LoneInv'
<1> SUFFICES ASSUME LoneInv, [Next]_vars PROVE LoneInv' OBVIOUS
<1>1. ASSUME NEW g \in Goroutines, Step(g) PROVE LoneInv'
  BY <1>1, LoneLookup, LoneMatch, LoneFetch, LoneEach, LoneCreate, LoneApply, LoneWrite, LoneReport
  DEF Step, WebhookStep, SyncStep
<1>2. ASSUME NEW g \in Goroutines, NEW r \in Runs, NEW news \in News, Deliver(g, r, news) PROVE LoneInv'
  BY <1>2, LoneDeliver
<1>3. ASSUME NEW g \in Goroutines, BeginSync(g) PROVE LoneInv' BY <1>3, LoneBeginSync
<1>4. ASSUME NEW g \in Goroutines, NEW i \in Ids, BeginRollback(g, i) PROVE LoneInv' BY <1>4, LoneBeginRollback
<1>5. ASSUME NEW r \in Runs, StartRun(r) \/ MoveRun(r) PROVE LoneInv' BY <1>5, LoneHub
<1>6. ASSUME NEW s \in Stages, CreateBootstrapRelease(s) PROVE LoneInv' BY <1>6, LoneBootstrap
<1>7. CASE Crash BY <1>7, LoneCrash
<1>8. CASE UNCHANGED vars
  <2>1. UNCHANGED <<releases, jobs, troubles>> BY <1>8 DEF vars
  <2>2. BaseInv' BY <1>8, BaseStutter DEF LoneInv
  <2>3. Alone' /\ (Lone' => Lone) /\ (Clean' => Clean) BY <2>1 DEF LoneInv, Alone, Lone, Clean
  <2>4. \A g \in Goroutines : (Held(g) => Held(g)') /\ (Free(g) => Free(g)')
    BY <2>1 DEF Held, Free, WithRun, Ids
  <2> QED BY <2>1, <2>2, <2>3, <2>4, SameRows DEF LoneInv
<1> QED BY <1>1, <1>2, <1>3, <1>4, <1>5, <1>6, <1>7, <1>8 DEF Next

LEMMA LoneInit == Init => LoneInv
<1> SUFFICES ASSUME Init PROVE LoneInv OBVIOUS
<1>1. releases = <<>> /\ Ids = {} /\ \A g \in Goroutines : jobs[g] = Idle BY DEF Init, Ids
<1>2. Alone BY <1>1, IdleJob DEF Alone
<1>3. \A g \in Goroutines : Held(g) /\ Free(g) BY <1>1, IdleJob DEF Held, Free
<1>4. Single BY <1>1 DEF Single
<1> QED BY <1>2, <1>3, <1>4, BaseInit DEF LoneInv

LEMMA LoneHolds == Spec => []LoneInv
BY LoneInit, LoneNext, PTL DEF Spec

\* A workflow run has one release at most, on its own stage: the first as long as the
\* webhook and syncs do not overlap and no lookup fails, the second always. Nothing
\* but the lookup before each insert keeps the first, and a row is looked up in vain
\* only while nobody else could have put it in.
THEOREM RunsKeepTheirRelease == Spec => []RunsAreBoundWell
<1>1. LoneInv => OneReleasePerRun BY DEF LoneInv, Clean, Single, OneReleasePerRun
<1>2. BaseInv => RunsStayOnTheirStage
  <2> SUFFICES ASSUME BaseInv, NEW i \in Ids, releases[i].run # NoRun
               PROVE  releases[i].stage \in {github[releases[i].run].path, NoStage}
    BY DEF RunsStayOnTheirStage
  <2>1. RowTrue(i) BY BaseFacts
  <2> QED BY <2>1 DEF RowTrue, Placed
<1>3. LoneInv => RunsAreBoundWell BY <1>1, <1>2 DEF LoneInv, RunsAreBoundWell
<1> QED BY <1>3, LoneHolds, PTL

\* The steps that change the releases.
LEMMA RowsChange ==
    ASSUME BaseInv, [Next]_vars
    PROVE  \/ UNCHANGED releases
           \/ \E row \in Release : Inserted(row)
           \/ \E g \in Goroutines : Write(g)
<1>1. ASSUME NEW g \in Goroutines, Step(g)
      PROVE  UNCHANGED releases \/ (\E row \in Release : Inserted(row)) \/ Write(g)
  <2>1. CASE Create(g) BY <2>1, CreateJob, CopyIsTrue
  <2> QED BY <1>1, <2>1, LookupJob, MatchJob, FetchJob, EachJob, ApplyJob, ReportJob
      DEF Step, WebhookStep, SyncStep
<1>2. ASSUME NEW s \in Stages, CreateBootstrapRelease(s) PROVE \E row \in Release : Inserted(row)
  <2>1. s \in StageId /\ "pending" \in ReleaseStatus /\ NoRun \in RunId BY RunFacts, Words
  <2>2. NewRelease(s, "pending", NoRun, NoRun) \in Release BY <2>1, NewReleaseFields
  <2> QED BY <1>2, <2>2 DEF CreateBootstrapRelease
<1> QED BY <1>1, <1>2 DEF Next, StartRun, MoveRun, Deliver, BeginSync, BeginRollback, Crash, vars

\* While nothing overlaps, a release that shows an outcome changes it only when GitHub
\* no longer shows that outcome itself, or by news that is out of date.
THEOREM OldNewsReopens == Spec => OnlyOldNewsReopens
<1>1. ASSUME LoneInv, [Next]_vars, NEW i \in Ids, releases[i].status \in Outcome,
             releases'[i].status # releases[i].status, "overlap" \notin troubles
      PROVE  \/ StatusOf(github[releases[i].run].status) # releases[i].status
             \/ \E g \in Goroutines : At(g, "write") /\ jobs[g].news # github[releases[i].run].status
  <2>1. BaseInv /\ TypeOK /\ (\A g \in Goroutines : Held(g)) BY <1>1 DEF LoneInv, BaseInv, Lone
  <2>2. PICK g \in Goroutines : Write(g)
    <3>1. ASSUME NEW row \in Release, Inserted(row) PROVE FALSE
      BY <1>1, <2>1, <3>1, BaseFacts, RowInserted
    <3> QED BY <1>1, <2>1, <3>1, RowsChange
  <2>3. /\ jobs[g].pc = "write" /\ Held(g) /\ jobs[g].id \in Ids /\ jobs[g] \in Job
        /\ jobs[g].op = "rollback" => jobs[g].copy.run = NoRun
    BY <2>1, <2>2, WriteJob DEF BaseInv, Fits, Rows, Fills
  <2>4. PICK row \in Release : Written(jobs[g], row) /\ Updated(jobs[g].id, row)
    BY <1>1, <2>1, <2>2, WriteJob
  <2>5. i = jobs[g].id /\ releases'[i] = row
    BY <1>1, <2>1, <2>3, <2>4, BaseFacts, RowUpdated
  <2>6. jobs[g].op # "rollback" BY <1>1, <2>3, <2>5 DEF Held, Outcome
  <2>7. row.run = jobs[g].copy.run /\ row.status = StatusOf(jobs[g].news)
    BY <2>1, <2>3, <2>4, <2>6, WrittenIsTrue DEF Written
  <2>8. releases[i].run = row.run BY <1>1, <2>3, <2>5, <2>7 DEF Held, Unfinished
  <2>9. At(g, "write") BY <2>3 DEF At
  <2> QED BY <1>1, <2>5, <2>7, <2>8, <2>9
<1>2. LoneInv /\ [Next]_vars =>
        [\A i \in Ids :
           LET row == releases[i] IN
           /\ row.status \in Outcome /\ releases'[i].status # row.status /\ "overlap" \notin troubles
           => \/ StatusOf(github[row.run].status) # row.status
              \/ \E g \in Goroutines : At(g, "write") /\ jobs[g].news # github[row.run].status]_vars
  BY <1>1
<1> QED BY <1>2, LoneHolds, PTL DEF Spec, OnlyOldNewsReopens

-----------------------------------------------------------------------------
(* What a stage shows *)

LEMMA TroublesGrow ==
    ASSUME BaseInv, [Next]_vars
    PROVE  troubles \subseteq troubles'
<1>1. ASSUME NEW g \in Goroutines, Step(g) PROVE troubles \subseteq troubles'
  <2>1. CASE Lookup(g) BY <2>1, LookupJob, TroubleStays
  <2>2. CASE Match(g) BY <2>2, MatchJob, TroubleStays
  <2>3. CASE FetchRuns(g) BY <2>3, FetchJob
  <2>4. CASE EachRun(g) BY <2>4, EachJob, TroubleStays DEF EachKnown, EachListed, EachNew, Unknown
  <2>5. CASE Create(g) BY <2>5, CreateJob, TroubleStays
  <2>6. CASE ApplyImage(g) BY <2>6, ApplyJob, TroubleStays
  <2>7. CASE Write(g) BY <2>7, WriteJob, TroubleStays
  <2>8. CASE ReportToStage(g) BY <2>8, ReportJob, TroubleStays
  <2> QED BY <1>1, <2>1, <2>2, <2>3, <2>4, <2>5, <2>6, <2>7, <2>8 DEF Step, WebhookStep, SyncStep
<1>2. ASSUME NEW g \in Goroutines, NEW r \in Runs, NEW news \in News, Deliver(g, r, news)
      PROVE  troubles \subseteq troubles'
  BY <1>2, DeliverJob, Begins
<1>3. ASSUME NEW g \in Goroutines, BeginSync(g) PROVE troubles \subseteq troubles' BY <1>3, BeginSyncJob, Begins
<1>4. ASSUME NEW g \in Goroutines, NEW i \in Ids, BeginRollback(g, i) PROVE troubles \subseteq troubles'
  BY <1>4, BeginRollbackJob, Begins
<1> QED BY <1>1, <1>2, <1>3, <1>4, TroubleStays DEF Next, StartRun, MoveRun, CreateBootstrapRelease, Crash, vars

\* While nothing overlaps a release keeps its run, and with it its stage.
LEMMA RunsKept ==
    ASSUME LoneInv, [Next]_vars, Lone, NEW i \in Ids, releases[i].run # NoRun
    PROVE  i \in Ids' /\ releases'[i].run = releases[i].run /\ releases'[i].stage = releases[i].stage
<1>1. BaseInv /\ \A g \in Goroutines : Held(g) BY DEF LoneInv
<1>2. CASE UNCHANGED releases BY <1>2 DEF Ids
<1>3. ASSUME NEW row \in Release, Inserted(row)
      PROVE  i \in Ids' /\ releases'[i].run = releases[i].run /\ releases'[i].stage = releases[i].stage
  BY <1>1, <1>3, BaseFacts, RowInserted
<1>4. ASSUME NEW g \in Goroutines, Write(g), releases' # releases
      PROVE  i \in Ids' /\ releases'[i].run = releases[i].run /\ releases'[i].stage = releases[i].stage
  <2>1. jobs[g].pc = "write" /\ jobs[g].id \in Ids /\ Held(g)
    BY <1>1, <1>4, WriteJob DEF BaseInv, Fits
  <2>2. PICK row \in Release : Written(jobs[g], row) /\ Updated(jobs[g].id, row)
    BY <1>1, <1>4, WriteJob
  <2>3. /\ Ids' = Ids /\ releases'[jobs[g].id] = row
        /\ \A j \in Ids : j # jobs[g].id => releases'[j] = releases[j]
    BY <1>1, <2>1, <2>2, BaseFacts, RowUpdated
  <2>4. CASE i # jobs[g].id BY <2>3, <2>4
  <2>5. CASE i = jobs[g].id
    <3>1. row.run = jobs[g].copy.run /\ row.stage = jobs[g].copy.stage BY <2>2 DEF Written
    <3>2. releases[i].stage = jobs[g].copy.stage /\ releases[i].run = jobs[g].copy.run
      BY <2>1, <2>5 DEF Held
    <3> QED BY <2>3, <2>5, <3>1, <3>2
  <2> QED BY <2>4, <2>5
<1> QED BY <1>1, <1>2, <1>3, <1>4, RowsChange

LEMMA EndsKept ==
    ASSUME BaseInv, [Next]_vars, NEW r \in Runs, github[r].status \in Ended
    PROVE  github'[r] = github[r]
<1>1. ASSUME NEW q \in Runs, StartRun(q) \/ MoveRun(q) PROVE github'[r] = github[r]
  BY <1>1, HubMoves DEF BaseInv
<1>2. ASSUME NEW g \in Goroutines, Step(g) PROVE UNCHANGED github
  BY <1>2, LookupJob, MatchJob, FetchJob, EachJob, CreateJob, ApplyJob, WriteJob, ReportJob
  DEF Step, WebhookStep, SyncStep
<1> QED BY <1>1, <1>2 DEF Next, Deliver, BeginSync, BeginRollback, CreateBootstrapRelease, Crash, vars

EndingsStay == \A s \in Stages, how \in {"succeeded", "failed"} : EndedSo(s, how) => EndedSo(s, how)'

LEMMA EndingsAreKept ==
    ASSUME LoneInv, [Next]_vars, Lone
    PROVE  EndingsStay
<1> SUFFICES ASSUME NEW s \in Stages, NEW how \in {"succeeded", "failed"}, EndedSo(s, how)
             PROVE  EndedSo(s, how)'
  BY DEF EndingsStay
<1>1. BaseInv BY DEF LoneInv
<1>2. PICK i \in Ids : releases[i].stage = s /\ releases[i].run # NoRun /\ github[releases[i].run].status = how
  BY DEF EndedSo
<1>3. i \in Ids' /\ releases'[i].run = releases[i].run /\ releases'[i].stage = releases[i].stage
  BY <1>2, RunsKept
<1>4. releases[i].run \in Runs BY <1>1, <1>2, BaseFacts, RowFields, RunFacts
<1>5. github'[releases[i].run] = github[releases[i].run] BY <1>1, <1>2, <1>4, EndsKept DEF Ended
<1> QED BY <1>2, <1>3, <1>5 DEF EndedSo

\* A step after which the same goroutines have the same to tell, and no more failures.
SameTellers ==
    \A g \in Goroutines : jobs[g].pc = "stage" \/ jobs'[g].pc = "stage" =>
        jobs[g].pc = "stage" /\ jobs'[g].pc = "stage" /\ jobs'[g].copy = jobs[g].copy
SameFailures ==
    \A i \in Ids' : releases'[i].run # NoRun /\ releases'[i].status = "failed" =>
        i \in Ids /\ releases'[i] = releases[i]

LEMMA QuietStep ==
    ASSUME StageInv, BaseInv, troubles = {}, EndingsStay, UNCHANGED stage, SameTellers, SameFailures
    PROVE  StageInv'
<1>1. ASSUME NEW s \in Stages PROVE Reported(s)'
  <2>1. Reported(s) BY DEF StageInv
  <2> QED BY <2>1 DEF Reported, EndingsStay, SameTellers, SameFailures
<1>2. ASSUME NEW g \in Goroutines PROVE Reports(g)'
  <2>1. Reports(g) /\ jobs[g].copy.stage \in Stages \cup {NoStage}
    BY BaseFacts, JobFields, RowFields, RunFacts DEF StageInv
  <2> QED BY <2>1 DEF Reports, EndingsStay, SameTellers
<1> QED BY <1>1, <1>2 DEF StageInv

\* A row is written or created, and the stage is to hear of it.
LEMMA TellStep ==
    ASSUME StageInv, BaseInv, BaseInv', troubles = {}, EndingsStay, UNCHANGED <<stage, github>>,
           NEW g \in Goroutines, jobs'[g].pc = "stage", \A h \in Goroutines : jobs[h].pc # "stage",
           Others(g),
           NEW i \in Ids', releases'[i].run # NoRun, releases'[i].stage = jobs'[g].copy.stage,
           releases'[i].status = jobs'[g].copy.status,
           \A k \in Ids' : k # i => k \in Ids /\ releases'[k] = releases[k]
    PROVE  StageInv'
<1>1. /\ (releases'[i].status = "success" => github'[releases'[i].run].status = "succeeded")
      /\ (releases'[i].status = "failed" => github'[releases'[i].run].status = "failed")
  <2>1. RowTrue(i)' BY DEF BaseInv
  <2>2. /\ (releases'[i].status = "success" => "succeeded" \in Sent(releases[i].run)')
        /\ (releases'[i].status = "failed" => "failed" \in Sent(releases[i].run)')
    BY <2>1 DEF RowTrue, Earned
  <2> QED BY <2>2 DEF Sent, Ended
<1>2. Reports(g)' BY <1>1 DEF Reports, EndedSo
<1>3. ASSUME NEW h \in Goroutines, h # g PROVE Reports(h)' BY <1>3 DEF Reports, Others
<1>4. ASSUME NEW s \in Stages PROVE Reported(s)'
  <2>1. Reported(s) BY DEF StageInv
  <2>2. stage'[s] = "failed" => EndedSo(s, "failed")' BY <2>1 DEF Reported, EndingsStay
  <2>3. ASSUME stage'[s] = "active", NEW k \in Ids', releases'[k].stage = s, releases'[k].run # NoRun,
               releases'[k].status = "failed"
        PROVE  \/ EndedSo(s, "succeeded")'
               \/ \E h \in Goroutines : jobs'[h].pc = "stage" /\ jobs'[h].copy.stage = s /\ jobs'[h].copy.status = "failed"
    <3>1. CASE k = i BY <2>3, <3>1
    <3>2. CASE k # i
      <4>1. EndedSo(s, "succeeded") BY <2>1, <2>3, <3>2 DEF Reported
      <4> QED BY <4>1 DEF EndingsStay
    <3> QED BY <3>1, <3>2
  <2> QED BY <2>2, <2>3 DEF Reported
<1> QED BY <1>2, <1>3, <1>4 DEF StageInv

LEMMA StageReport ==
    ASSUME StageInv, LoneInv, EndingsStay, NEW g \in Goroutines, ReportToStage(g), troubles' = {}
    PROVE  StageInv'
<1>1. BaseInv BY DEF LoneInv
<1>2. /\ jobs[g].pc = "stage" /\ jobs[g] \in Job /\ Goto(g, Resume(jobs[g]))
      /\ UNCHANGED <<releases, github, troubles>>
      /\ \A s \in Stages :
            stage'[s] = IF s = jobs[g].copy.stage /\ jobs[g].copy.status \in Outcome
                        THEN IF jobs[g].copy.status = "success" THEN "active" ELSE "failed"
                        ELSE stage[s]
  BY <1>1, ReportJob, TroubleStays
<1>3. jobs'[g].pc # "stage" /\ Others(g)
  <2>1. jobs'[g] = Resume(jobs[g]) /\ Others(g) BY <1>1, <1>2, Resumes, BaseFacts, JobGoes DEF Others
  <2> QED BY <1>2, <2>1, Resumes
<1>4. \A h \in Goroutines : h # g => jobs[h].pc = "idle" BY <1>2 DEF LoneInv, Alone, Lone
<1>5. \A h \in Goroutines : Reports(h)' BY <1>3, <1>4 DEF Reports, Others
<1>6. ASSUME NEW s \in Stages PROVE Reported(s)'
  <2>1. Reported(s) /\ Reports(g) /\ s # NoStage BY <1>2, RunFacts DEF StageInv
  <2>2. CASE s = jobs[g].copy.stage /\ jobs[g].copy.status = "success"
    <3>1. stage'[s] = "active" BY <1>2, <2>2 DEF Outcome
    <3>2. EndedSo(s, "succeeded") BY <1>2, <2>1, <2>2 DEF Reports
    <3> QED BY <3>1, <3>2 DEF Reported, EndingsStay
  <2>3. CASE s = jobs[g].copy.stage /\ jobs[g].copy.status = "failed"
    <3>1. stage'[s] = "failed" BY <1>2, <2>3 DEF Outcome
    <3>2. EndedSo(s, "failed") BY <1>2, <2>1, <2>3 DEF Reports
    <3> QED BY <3>1, <3>2 DEF Reported, EndingsStay
  <2>4. CASE ~(s = jobs[g].copy.stage /\ jobs[g].copy.status \in Outcome)
    <3>1. stage'[s] = stage[s] BY <1>2, <2>4
    <3>2. ~\E h \in Goroutines : jobs[h].pc = "stage" /\ jobs[h].copy.stage = s /\ jobs[h].copy.status = "failed"
      BY <1>4, <2>4 DEF Outcome
    <3> QED BY <1>2, <2>1, <3>1, <3>2 DEF Reported, EndingsStay, Ids
  <2> QED BY <2>2, <2>3, <2>4 DEF Outcome
<1> QED BY <1>5, <1>6 DEF StageInv

LEMMA StageCreate ==
    ASSUME StageInv, LoneInv, BaseInv', EndingsStay, NEW g \in Goroutines, Create(g), troubles' = {}, troubles = {}
    PROVE  StageInv'
<1>1. BaseInv BY DEF LoneInv
<1>2. jobs[g].pc = "create" /\ jobs[g] \in Job /\ UNCHANGED <<stage, github>> BY <1>1, CreateJob
<1>3. \A h \in Goroutines : h # g => jobs[h].pc = "idle" BY <1>2 DEF LoneInv, Alone, Lone
<1>4. PICK job \in Job :
        /\ Inserted(jobs[g].copy) /\ Goto(g, job) /\ job.id = Len(releases) + 1
        /\ job.pc = IF job.op = "sync" THEN "stage" ELSE IF job.op = "rollback" THEN "apply" ELSE "write"
        /\ job.op = jobs[g].op /\ job.copy = jobs[g].copy
  BY <1>1, CreateJob, TroubleStays
<1>5. jobs'[g] = job /\ Others(g) BY <1>1, <1>4, BaseFacts, JobGoes DEF Others
<1>6. /\ Ids' = Ids \cup {job.id} /\ releases'[job.id] = job.copy
      /\ \A k \in Ids : releases'[k] = releases[k]
  BY <1>1, <1>2, <1>4, CopyIsTrue, BaseFacts, RowInserted
<1>7. CASE job.op = "sync"
  <2>1. job.copy.run # NoRun
    <3>1. jobs[g].pc \in Rows /\ jobs[g].op # "rollback" BY <1>2, <1>4, <1>7 DEF Rows
    <3>2. Follows(jobs[g]) BY <1>1, <3>1 DEF BaseInv, Fits
    <3> QED BY <1>4, <3>2, RunFacts DEF Follows
  <2>2. job.pc = "stage" BY <1>4, <1>7
  <2>3. PICK i \in Ids' : i = job.id BY <1>6
  <2>4. \A k \in Ids' : k # i => k \in Ids /\ releases'[k] = releases[k] BY <1>6, <2>3
  <2> QED BY <1>1, <1>2, <1>3, <1>5, <1>6, <2>1, <2>2, <2>3, <2>4, TellStep
<1>8. CASE job.op # "sync"
  <2>1. job.pc # "stage" BY <1>4, <1>8
  <2>2. SameTellers BY <1>2, <1>3, <1>5, <2>1 DEF SameTellers, Others
  <2>3. job.copy.run # NoRun => job.copy.status # "failed"
    BY <1>1, <1>2, <1>4, <1>8 DEF BaseInv, Fits, Rows, Fills, Job, Op
  <2>4. SameFailures BY <1>6, <2>3 DEF SameFailures
  <2> QED BY <1>1, <1>2, <2>2, <2>4, QuietStep
<1> QED BY <1>7, <1>8

LEMMA StageWrite ==
    ASSUME StageInv, LoneInv, BaseInv', EndingsStay, NEW g \in Goroutines, Write(g), troubles' = {}, troubles = {}
    PROVE  StageInv'
<1>1. BaseInv BY DEF LoneInv
<1>2. jobs[g].pc = "write" /\ jobs[g] \in Job /\ UNCHANGED <<stage, github>> BY <1>1, WriteJob
<1>3. \A h \in Goroutines : h # g => jobs[h].pc = "idle" BY <1>2 DEF LoneInv, Alone, Lone
<1>4. ASSUME Goto(g, Resume(jobs[g]))
      PROVE  SameTellers
  <2>1. jobs'[g] = Resume(jobs[g]) /\ Others(g) BY <1>1, <1>2, <1>4, Resumes, BaseFacts, JobGoes DEF Others
  <2>2. jobs'[g].pc # "stage" BY <1>2, <2>1, Resumes
  <2> QED BY <1>2, <1>3, <2>1, <2>2 DEF SameTellers, Others
<1>5. CASE Goto(g, Resume(jobs[g])) /\ UNCHANGED releases
  <2>1. SameFailures BY <1>5 DEF SameFailures, Ids
  <2> QED BY <1>1, <1>2, <1>4, <1>5, <2>1, QuietStep
<1>6. ASSUME NEW row \in Release, Written(jobs[g], row), Updated(jobs[g].id, row)
      PROVE  /\ jobs[g].id \in Ids /\ Ids' = Ids /\ releases'[jobs[g].id] = row
             /\ \A k \in Ids : k # jobs[g].id => releases'[k] = releases[k]
             /\ IF jobs[g].op = "rollback" THEN row.run = NoRun ELSE row.run # NoRun
  <2>1. jobs[g].id \in Ids /\ IF jobs[g].op = "rollback" THEN row.run = NoRun ELSE row.run # NoRun
    BY <1>1, <1>2, <1>6, WrittenIsTrue
  <2> QED BY <1>1, <1>6, <2>1, BaseFacts, RowUpdated
<1>7. ASSUME NEW row \in Release, Written(jobs[g], row), Updated(jobs[g].id, row),
             jobs[g].op = "rollback", Goto(g, Resume(jobs[g]))
      PROVE  StageInv'
  <2>1. SameFailures BY <1>6, <1>7 DEF SameFailures
  <2> QED BY <1>1, <1>2, <1>4, <1>7, <2>1, QuietStep
<1>8. ASSUME NEW row \in Release, Written(jobs[g], row), Updated(jobs[g].id, row), jobs[g].op # "rollback",
             NEW job \in Job, Goto(g, job), job.pc = "stage",
             job.copy.stage = row.stage, job.copy.status = row.status
      PROVE  StageInv'
  <2>1. jobs'[g] = job /\ Others(g) BY <1>1, <1>8, BaseFacts, JobGoes DEF Others
  <2>2. PICK i \in Ids' : i = jobs[g].id BY <1>6, <1>8
  <2>3. releases'[i] = row /\ row.run # NoRun /\ \A k \in Ids' : k # i => k \in Ids /\ releases'[k] = releases[k]
    BY <1>6, <1>8, <2>2
  <2> QED BY <1>1, <1>2, <1>3, <1>8, <2>1, <2>2, <2>3, TellStep
<1>9. ASSUME NEW kind, Trouble(kind) PROVE FALSE BY <1>9, TroubleStays
<1> QED BY <1>1, <1>5, <1>7, <1>8, <1>9, WriteJob

\* The other steps of a goroutine tell nobody anything, and change no row.
LEMMA StageOther ==
    ASSUME StageInv, LoneInv, EndingsStay, NEW g \in Goroutines, troubles = {}, UNCHANGED <<stage, releases>>,
           jobs[g].pc # "stage", jobs'[g].pc # "stage", Others(g),
           \A h \in Goroutines : h # g => jobs[h].pc = "idle"
    PROVE  StageInv'
<1>1. SameTellers BY DEF SameTellers, Others
<1>2. SameFailures BY DEF SameFailures, Ids
<1> QED BY <1>1, <1>2, QuietStep DEF LoneInv

LEMMA StageStep ==
    ASSUME StageInv, LoneInv, BaseInv', EndingsStay, NEW g \in Goroutines, Step(g), troubles = {}, troubles' = {}
    PROVE  StageInv'
<1>1. BaseInv BY DEF LoneInv
<1>2. CASE Create(g) BY <1>2, StageCreate
<1>3. CASE Write(g) BY <1>3, StageWrite
<1>4. CASE ReportToStage(g) BY <1>4, StageReport
<1>5. ASSUME jobs[g].pc \notin {"stage", "idle"}, UNCHANGED <<stage, releases>>,
             NEW job \in Job, Goto(g, job), job.pc # "stage"
      PROVE  StageInv'
  <2>1. jobs'[g] = job /\ Others(g) BY <1>1, <1>5, BaseFacts, JobGoes DEF Others
  <2>2. \A h \in Goroutines : h # g => jobs[h].pc = "idle" BY <1>5 DEF LoneInv, Alone, Lone
  <2> QED BY <1>5, <2>1, <2>2, StageOther
<1>6. CASE Lookup(g) BY <1>1, <1>5, <1>6, LookupJob
<1>7. CASE Match(g) BY <1>1, <1>5, <1>7, MatchJob
<1>8. CASE FetchRuns(g) BY <1>1, <1>5, <1>8, FetchJob, IdleJob
<1>9. CASE EachRun(g)
  <2>1. jobs[g].pc = "each" /\ UNCHANGED <<stage, releases>> BY <1>1, <1>9, EachJob
  <2>2. PICK r \in Runs, job \in Job :
          \/ Goto(g, Resume(job))
          \/ Goto(g, job) /\ (EachKnown(g, r, job) \/ EachListed(g, r, job) \/ EachNew(g, r, job))
    BY <1>1, <1>9, EachJob
  <2>3. CASE Goto(g, Resume(job))
    <3>1. Resume(job) \in Job /\ Resume(job).pc # "stage" BY Resumes
    <3> QED BY <1>5, <2>1, <2>3, <3>1
  <2>4. CASE Goto(g, job) /\ (EachKnown(g, r, job) \/ EachListed(g, r, job) \/ EachNew(g, r, job))
    <3>1. job.pc # "stage" BY <2>4 DEF EachKnown, EachListed, EachNew
    <3> QED BY <1>5, <2>1, <2>4, <3>1
  <2> QED BY <2>2, <2>3, <2>4
<1>10. CASE ApplyImage(g) BY <1>1, <1>5, <1>10, ApplyJob
<1> QED BY <1>2, <1>3, <1>4, <1>6, <1>7, <1>8, <1>9, <1>10 DEF Step, WebhookStep, SyncStep

LEMMA StageBegin ==
    ASSUME StageInv, LoneInv, EndingsStay, NEW g \in Goroutines, NEW job \in Job, Begin(g, job),
           job.pc # "stage", UNCHANGED <<stage, releases>>, troubles' = {}
    PROVE  StageInv'
<1>1. /\ jobs[g].pc = "idle" /\ jobs'[g] = job /\ Others(g) /\ troubles = {}
      /\ \A h \in Goroutines : jobs[h].pc = "idle"
  BY Begins DEF LoneInv
<1> QED BY <1>1, StageOther

LEMMA StageNext == LoneInv /\ BaseInv' /\ StageInv /\ [Next]_vars => StageInv'
<1> SUFFICES ASSUME LoneInv, BaseInv', StageInv, [Next]_vars, troubles' = {} PROVE StageInv'
  BY DEF StageInv
<1>1. BaseInv /\ TypeOK BY DEF LoneInv, BaseInv
<1>2. troubles = {} BY <1>1, TroublesGrow
<1>3. EndingsStay BY <1>2, EndingsAreKept DEF Lone
<1>4. ASSUME NEW g \in Goroutines, Step(g) PROVE StageInv' BY <1>2, <1>3, <1>4, StageStep
<1>5. ASSUME NEW g \in Goroutines, NEW r \in Runs, NEW news \in News, Deliver(g, r, news) PROVE StageInv'
  <2>1. PICK job \in Job : Begin(g, job) /\ job.pc = "lookup" /\ UNCHANGED <<stage, releases>>
    BY <1>1, <1>5, DeliverJob
  <2> QED BY <1>3, <2>1, StageBegin
<1>6. ASSUME NEW g \in Goroutines, BeginSync(g) PROVE StageInv'
  <2>1. PICK job \in Job : Begin(g, job) /\ job.pc = "fetch" /\ UNCHANGED <<stage, releases>>
    BY <1>1, <1>6, BeginSyncJob
  <2> QED BY <1>3, <2>1, StageBegin
<1>7. ASSUME NEW g \in Goroutines, NEW i \in Ids, BeginRollback(g, i) PROVE StageInv'
  <2>1. PICK job \in Job : Begin(g, job) /\ job.pc = "create" /\ UNCHANGED <<stage, releases>>
    BY <1>1, <1>7, BeginRollbackJob
  <2> QED BY <1>3, <2>1, StageBegin
<1>8. ASSUME UNCHANGED <<stage, releases, jobs>> PROVE StageInv'
  <2>1. SameTellers /\ SameFailures BY <1>8 DEF SameTellers, SameFailures, Ids
  <2> QED BY <1>1, <1>2, <1>3, <1>8, <2>1, QuietStep
<1>9. ASSUME NEW r \in Runs, StartRun(r) \/ MoveRun(r) PROVE StageInv' BY <1>1, <1>8, <1>9, HubMoves
<1>10. ASSUME NEW s \in Stages, CreateBootstrapRelease(s) PROVE StageInv'
  <2> DEFINE row == NewRelease(s, "pending", NoRun, NoRun)
  <2>1. s \in StageId /\ "pending" \in ReleaseStatus /\ NoRun \in RunId BY RunFacts, Words
  <2>2. row \in Release /\ row.run = NoRun BY <2>1, NewReleaseFields
  <2>3. Inserted(row) /\ UNCHANGED <<stage, jobs>> BY <1>10 DEF CreateBootstrapRelease
  <2> HIDE DEF row
  <2>4. PICK n : n = Len(releases) + 1 OBVIOUS
  <2>5. Ids' = Ids \cup {n} /\ releases'[n] = row /\ \A k \in Ids : releases'[k] = releases[k]
    BY <1>1, <2>2, <2>3, <2>4, BaseFacts, RowInserted
  <2>6. SameTellers BY <2>3 DEF SameTellers
  <2>7. SameFailures BY <2>2, <2>5 DEF SameFailures
  <2> QED BY <1>1, <1>2, <1>3, <2>3, <2>6, <2>7, QuietStep
<1>11. ~Crash BY TroubleStays DEF Crash
<1>12. CASE UNCHANGED vars BY <1>8, <1>12 DEF vars
<1> QED BY <1>4, <1>5, <1>6, <1>7, <1>9, <1>10, <1>11, <1>12 DEF Next

LEMMA StageInit == Init => StageInv
<1> SUFFICES ASSUME Init PROVE StageInv OBVIOUS
<1>1. Ids = {} /\ (\A s \in Stages : stage[s] = "active") /\ \A g \in Goroutines : jobs[g] = Idle
  BY DEF Init, Ids
<1>2. \A s \in Stages : Reported(s) BY <1>1 DEF Reported
<1>3. \A g \in Goroutines : Reports(g) BY <1>1, IdleJob DEF Reports
<1> QED BY <1>2, <1>3 DEF StageInv

LEMMA StageHolds == Spec => []StageInv
<1>1. LoneInv => BaseInv BY DEF LoneInv
<1>2. Init => StageInv BY StageInit
<1>3. LoneInv /\ BaseInv' /\ StageInv /\ [Next]_vars => StageInv' BY StageNext
<1> QED BY <1>1, <1>2, <1>3, LoneHolds, BaseHolds, PTL DEF Spec

\* With no trouble, when the releases of a stage's runs all succeeded, or all failed,
\* the stage shows just that: what it shows was the end of some run of it, and a
\* failure nobody has told it of was outdone by another's success.
THEOREM StagesShowTheirRuns == Spec => []StageAgrees
<1>1. ASSUME BaseInv, StageInv, NEW s \in Stages, troubles = {},
             NEW ofRuns, ofRuns = {i \in Ids : releases[i].stage = s /\ releases[i].run # NoRun}, ofRuns # {},
             \A g \in Goroutines : ~At(g, "stage")
      PROVE  /\ (\A i \in ofRuns : releases[i].status = "success") => stage[s] = "active"
             /\ (\A i \in ofRuns : releases[i].status = "failed") => stage[s] = "failed"
  <2>1. Reported(s) /\ stage[s] \in {"active", "failed"} BY <1>1, BaseFacts DEF StageInv
  <2>2. ASSUME NEW i \in ofRuns
        PROVE  /\ releases[i].status = "success" => github[releases[i].run].status = "succeeded"
               /\ releases[i].status = "failed" => github[releases[i].run].status = "failed"
    <3>1. RowTrue(i) /\ releases[i].run # NoRun BY <1>1, BaseFacts
    <3> QED BY <3>1 DEF RowTrue, Earned, Sent, Ended
  <2>3. ASSUME \A i \in ofRuns : releases[i].status = "success" PROVE stage[s] = "active"
    <3>1. ~EndedSo(s, "failed") BY <1>1, <2>2, <2>3 DEF EndedSo
    <3> QED BY <2>1, <3>1 DEF Reported
  <2>4. ASSUME \A i \in ofRuns : releases[i].status = "failed" PROVE stage[s] = "failed"
    <3>1. ~EndedSo(s, "succeeded") BY <1>1, <2>2, <2>4 DEF EndedSo
    <3> QED BY <1>1, <2>1, <2>4, <3>1 DEF Reported, At
  <2> QED BY <2>3, <2>4
<1>2. BaseInv /\ StageInv => StageAgrees BY <1>1 DEF StageAgrees
<1> QED BY <1>2, BaseHolds, StageHolds, PTL
=============================================================================
