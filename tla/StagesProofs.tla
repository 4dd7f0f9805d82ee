---------------------------- MODULE StagesProofs ----------------------------
(***************************************************************************)
(* Proofs about Stages, for any slugs, handlers, either store and any      *)
(* faults: typing, that a slug names one stage, that stages are what they  *)
(* are shown as when nobody is at work, and that a deleted stage stays     *)
(* deleted.                                                                *)
(*                                                                         *)
(* What holds without overlap rests on one fact: whoever is at work is     *)
(* alone (Alone). Then the row a job works on is as the job left it        *)
(* (Held), and the slug it found free still is (Free).                     *)
(***************************************************************************)
EXTENDS Stages, TLAPS

Lone == "overlap" \notin troubles

\* The places where a job works on a row, and those where it is about to make one.
OnRow  == {"apply", "settle", "mark", "remove", "settleDeleted", "query", "write"}
Before == {"activate", "list", "check", "kubeconfig", "insert"}

\* What a job's copies are, whatever happens beside it.
Fits(job, rows) ==
    /\ job.pc = "idle" => job = Idle
    /\ job.pc \in OnRow => job.id \in 1..Len(rows) /\ job.copy.slug = rows[job.id].slug
    /\ job.pc \in {"activate", "list"} => job.copy.slug = Production
    /\ job.pc \in Before => job.copy.status = "creating"
    /\ job.pc = "settle" => job.copy.status \in {"active", "failed"}
    /\ job.pc = "mark" => job.copy.status = "deleting"
    /\ job.pc = "settleDeleted" => job.copy.status = "deleted"
    /\ job.pc = "fill" => job.listed \subseteq 1..Len(rows)

TypeInv == TypeOK /\ \A g \in Goroutines : Fits(jobs[g], stages)

Alone ==
    Lone => \A g, h \in Goroutines : jobs[g].pc # "idle" /\ jobs[h].pc # "idle" => g = h

\* The slug a job is about to take is free.
Free(g) ==
    /\ jobs[g].pc = "activate" => stages = <<>>
    /\ jobs[g].pc \in {"kubeconfig", "insert"} => WithSlug(jobs[g].copy.slug) = {}

\* The row a job works on is as the job left it, or found it.
Held(g) ==
    LET job == jobs[g] IN
    /\ job.pc \in {"apply", "settle"} => stages[job.id].status = "creating"
    /\ job.pc \in {"remove", "settleDeleted"} => stages[job.id].status = "deleting"
    /\ job.pc = "query" => stages[job.id] = job.copy
    /\ job.pc = "write" /\ job.copy.status = "deleted" => stages[job.id].status = "deleted"

\* Nothing of a deleted stage is ready, and nobody is about to say otherwise.
Timely   == troubles \cap {"late", "overlap"} = {}
RowsGone == \A i \in Ids : stages[i].status = "deleted" => stages[i].slug \notin ready
JobGone(g) ==
    LET job == jobs[g] IN
    /\ job.pc = "settleDeleted" => job.copy.slug \notin ready
    /\ job.pc = "write" /\ stages[job.id].status = "deleted" => job.copy.status = "deleted"

LoneInv ==
    /\ TypeInv /\ Alone /\ OneStagePerSlug
    /\ Lone => \A g \in Goroutines : Free(g) /\ Held(g)
    /\ Timely => RowsGone /\ \A g \in Goroutines : JobGone(g)

\* A row that is half-way is so for the job that works on it; any other is as the
\* cluster is.
RowTrue(i, job) ==
    LET row == stages[i] IN
    /\ row.status = "creating" => job.pc \in {"apply", "settle"} /\ job.id = i
    /\ row.status = "deleting" => job.pc \in {"remove", "settleDeleted"} /\ job.id = i
    /\ row.status \in {"active", "failed"} => row.slug \in namespaces
    /\ row.status = "deleted" => row.slug \notin namespaces

\* Ids of the stages a list of URLs shows.
Shown == {i \in Ids : stages[i].status \notin Gone}

\* A copy that will be written or cached is right.
CopyTrue(g) ==
    LET job == jobs[g] IN
    /\ job.pc = "settle" => job.copy.status = "active" /\ job.copy.slug \in namespaces
    /\ job.pc = "settleDeleted" => job.copy.slug \notin namespaces
    /\ job.pc = "write" =>
          /\ job.copy.status \notin {"creating", "deleting"}
          /\ job.copy.status = "deleted" <=> stages[job.id].status \in Gone
    /\ job.pc = "fill" => job.listed = Shown

\* Those who change the list of stages, until they have thrown the cached one away.
Changing == {"apply", "settle", "remove", "settleDeleted", "invalidate"}

TrueInv ==
    troubles = {} =>
        /\ \A i \in Ids : \E g \in Goroutines : RowTrue(i, jobs[g])
        /\ \A g \in Goroutines : CopyTrue(g)
        /\ project = "provisioning" => jobs[Provisioner].pc = "activate"
        /\ cache \in {NoCache, Shown} \/ \E g \in Goroutines : jobs[g].pc \in Changing

-----------------------------------------------------------------------------
(* Rows and jobs *)

LEMMA RowUpdated ==
    ASSUME stages \in Seq(Stage), NEW i \in Ids, NEW row \in Stage, Updated(i, row)
    PROVE  /\ stages' \in Seq(Stage) /\ Len(stages') = Len(stages) /\ Ids' = Ids
           /\ stages'[i] = row /\ \A j \in Ids : j # i => stages'[j] = stages[j]
BY DEF Updated, Ids

LEMMA RowAppended ==
    ASSUME stages \in Seq(Stage), NEW row \in Stage, stages' = Append(stages, row)
    PROVE  /\ stages' \in Seq(Stage) /\ Len(stages') = Len(stages) + 1
           /\ Ids' = Ids \cup {Len(stages) + 1} /\ Len(stages) + 1 \notin Ids
           /\ stages'[Len(stages) + 1] = row /\ \A j \in Ids : stages'[j] = stages[j]
BY DEF Ids

LEMMA RowFields ==
    ASSUME stages \in Seq(Stage), NEW i \in Ids
    PROVE  stages[i] \in Stage /\ stages[i].slug \in Slugs /\ stages[i].status \in Status
<1>1. stages[i] \in Stage BY DEF Ids
<1> QED BY <1>1 DEF Stage

LEMMA UpdateInRange ==
    ASSUME NEW S, NEW T, NEW f \in [S -> T], NEW a \in S, NEW v \in T
    PROVE  [f EXCEPT ![a] = v] \in [S -> T]
OBVIOUS

LEMMA JobGoes ==
    ASSUME jobs \in [Goroutines -> Job], NEW g \in Goroutines, NEW job \in Job, Goto(g, job)
    PROVE  /\ jobs' \in [Goroutines -> Job] /\ jobs'[g] = job
           /\ \A h \in Goroutines : h # g => jobs'[h] = jobs[h]
BY UpdateInRange DEF Goto

LEMMA JobFields ==
    ASSUME jobs \in [Goroutines -> Job], NEW g \in Goroutines
    PROVE  /\ jobs[g] \in Job /\ jobs[g].id \in StageId /\ jobs[g].copy \in Stage
           /\ jobs[g].copy.slug \in Slugs /\ jobs[g].copy.status \in Status
           /\ jobs[g].listed \in SUBSET StageId
BY DEF Job, Stage

LEMMA NewStageFields ==
    ASSUME NEW slug \in Slugs
    PROVE  /\ NewStage(slug) \in Stage /\ NewStage(slug).slug = slug
           /\ NewStage(slug).status = "creating"
BY DEF NewStage, Stage, Status

LEMMA IdleJob ==
    /\ Idle \in Job /\ Idle.pc = "idle" /\ Idle.id = 0 /\ Idle.listed = {}
    /\ Idle.copy.slug = Production /\ Idle.copy.status = "creating"
BY NewStageFields, SlugsAssumption, BoundsAssumption DEF Idle, Job, Pc, StageId

LEMMA Places ==
    /\ {"idle", "activate", "check", "kubeconfig", "insert", "apply", "settle", "mark", "remove",
        "settleDeleted", "invalidate", "query", "write", "list", "urls", "fill"} \subseteq Pc
    /\ {"creating", "active", "deleting", "deleted", "failed"} \subseteq Status
BY DEF Pc, Status

LEMMA RowWithStatus ==
    ASSUME NEW row \in Stage, NEW status \in Status
    PROVE  /\ [row EXCEPT !.status = status] \in Stage
           /\ [row EXCEPT !.status = status].slug = row.slug
           /\ [row EXCEPT !.status = status].status = status
BY DEF Stage

-----------------------------------------------------------------------------
(* Typing, with what each action makes of the job *)

Others(g) == \A h \in Goroutines : h # g => jobs'[h] = jobs[h]

\* No row goes, and none changes its slug.
Kept == Ids \subseteq Ids' /\ \A i \in Ids : stages'[i].slug = stages[i].slug

LEMMA FitsKept ==
    ASSUME NEW job, Fits(job, stages), Kept, stages \in Seq(Stage), stages' \in Seq(Stage)
    PROVE  Fits(job, stages')
BY DEF Fits, Kept, Ids

LEMMA JobTyped ==
    ASSUME TypeInv, NEW g \in Goroutines, NEW job \in Job, Goto(g, job), Fits(job, stages'),
           project' \in {"provisioning", "active"},
           stages' \in Seq(Stage), Len(stages') <= MaxStages, Kept,
           ready' \subseteq namespaces', namespaces' \subseteq Slugs,
           cache' \in {NoCache} \cup SUBSET Ids',
           served' \in 0..MaxServed,
           troubles' \subseteq {"write", "cluster", "crash", "overlap", "late"}
    PROVE  TypeInv' /\ jobs'[g] = job /\ Others(g)
<1>1. jobs' \in [Goroutines -> Job] /\ jobs'[g] = job /\ Others(g)
  BY JobGoes DEF TypeInv, TypeOK, Others
<1>2. ASSUME NEW h \in Goroutines PROVE Fits(jobs'[h], stages')
  <2>1. CASE h = g BY <1>1, <2>1
  <2>2. CASE h # g BY <1>1, <2>2, FitsKept DEF TypeInv, TypeOK, Others
  <2> QED BY <2>1, <2>2
<1> QED BY <1>1, <1>2 DEF TypeInv, TypeOK, Ids

\* The usual case: the table stays as it is.
LEMMA StepTyped ==
    ASSUME TypeInv, NEW g \in Goroutines, NEW job \in Job, Goto(g, job), Fits(job, stages),
           UNCHANGED stages, project' \in {"provisioning", "active"},
           ready' \subseteq namespaces', namespaces' \subseteq Slugs,
           cache' \in {NoCache} \cup SUBSET Ids, served' \in 0..MaxServed,
           troubles' \subseteq {"write", "cluster", "crash", "overlap", "late"}
    PROVE  TypeInv' /\ jobs'[g] = job /\ Others(g)
<1>1. Kept /\ Ids' = Ids /\ stages' \in Seq(Stage) /\ Len(stages') <= MaxStages
  BY DEF Kept, Ids, TypeInv, TypeOK
<1> QED BY <1>1, JobTyped

LEMMA IdleFits == ASSUME NEW rows PROVE Fits(Idle, rows)
BY IdleJob DEF Fits, OnRow, Before

LEMMA TroubleTyped ==
    ASSUME TypeInv, NEW kind, Trouble(kind)
    PROVE  /\ troubles' \subseteq {"write", "cluster", "crash", "overlap", "late"}
           /\ troubles \subseteq troubles' /\ kind \in troubles' /\ kind \in {"write", "cluster", "crash"}
           /\ troubles' \ troubles \subseteq {"write", "cluster", "crash"}
BY BoundsAssumption DEF Trouble, TypeInv, TypeOK

LEMMA TypedFacts ==
    ASSUME TypeInv
    PROVE  /\ project \in {"provisioning", "active"} /\ stages \in Seq(Stage) /\ Len(stages) <= MaxStages
           /\ ready \subseteq namespaces /\ namespaces \subseteq Slugs
           /\ cache \in {NoCache} \cup SUBSET Ids /\ jobs \in [Goroutines -> Job]
           /\ served \in 0..MaxServed /\ Ids \subseteq StageId
           /\ troubles \subseteq {"write", "cluster", "crash", "overlap", "late"}
BY BoundsAssumption DEF TypeInv, TypeOK, Ids, StageId

LEMMA InitTyped == Init => TypeInv
<1> SUFFICES ASSUME Init PROVE TypeInv OBVIOUS
<1> DEFINE first == [Idle EXCEPT !.pc = "activate"]
<1>1. /\ first \in Job /\ first.pc = "activate"
      /\ first.copy.slug = Production /\ first.copy.status = "creating"
  BY IdleJob, Places DEF Job
<1>2. jobs = [g \in Goroutines |-> IF g = Provisioner THEN first ELSE Idle] BY DEF Init
<1> HIDE DEF first
<1>3. Fits(first, <<>>) BY <1>1 DEF Fits, OnRow
<1>4. jobs \in [Goroutines -> Job] /\ \A g \in Goroutines : Fits(jobs[g], <<>>)
  BY <1>1, <1>2, <1>3, IdleJob, IdleFits
<1> QED BY <1>4, BoundsAssumption DEF Init, TypeInv, TypeOK, NoCache

LEMMA ActivateTyped ==
    ASSUME TypeInv, Activate
    PROVE  /\ TypeInv' /\ Others(Provisioner) /\ jobs[Provisioner].pc = "activate"
           /\ jobs'[Provisioner].pc = "insert" /\ jobs'[Provisioner].copy = jobs[Provisioner].copy
<1> DEFINE g == Provisioner
           job == Does(g, "insert")
<1>1. g \in Goroutines /\ jobs[g].pc = "activate" BY DEF Goroutines, Activate, At
<1>2. jobs[g] \in Job /\ Fits(jobs[g], stages) BY <1>1 DEF TypeInv, TypeOK
<1>3. job \in Job /\ job.pc = "insert" /\ job.copy = jobs[g].copy
  BY <1>2, Places DEF Does, Job
<1>4. Goto(g, job) BY DEF Activate
<1> HIDE DEF job
<1>5. Fits(job, stages) BY <1>1, <1>2, <1>3 DEF Fits, OnRow, Before
<1>6. TypeInv' /\ jobs'[g] = job /\ Others(g)
  BY <1>1, <1>3, <1>4, <1>5, TypedFacts, StepTyped DEF Activate
<1> QED BY <1>1, <1>3, <1>6

LEMMA CheckSlugTyped ==
    ASSUME TypeInv, NEW g \in Goroutines, CheckSlug(g)
    PROVE  /\ TypeInv' /\ Others(g) /\ jobs[g].pc = "check"
           /\ \/ /\ jobs'[g].pc = "kubeconfig" /\ jobs'[g].copy = jobs[g].copy
                 /\ WithSlug(jobs[g].copy.slug) = {}
              \/ jobs'[g] = Idle
<1>1. jobs[g].pc = "check" /\ jobs[g] \in Job /\ Fits(jobs[g], stages)
  BY DEF CheckSlug, At, TypeInv, TypeOK
<1>2. CASE WithSlug(jobs[g].copy.slug) = {}
  <2> DEFINE job == Does(g, "kubeconfig")
  <2>1. job \in Job /\ job.pc = "kubeconfig" /\ job.copy = jobs[g].copy
    BY <1>1, Places DEF Does, Job
  <2>2. Goto(g, job) BY <1>2 DEF CheckSlug
  <2> HIDE DEF job
  <2>3. Fits(job, stages) BY <1>1, <2>1 DEF Fits, OnRow, Before
  <2>4. TypeInv' /\ jobs'[g] = job /\ Others(g)
    BY <2>1, <2>2, <2>3, TypedFacts, StepTyped DEF CheckSlug
  <2> QED BY <1>1, <1>2, <2>1, <2>4
<1>3. CASE WithSlug(jobs[g].copy.slug) # {}
  <2>1. Goto(g, Idle) BY <1>3 DEF CheckSlug
  <2> QED BY <1>1, <2>1, IdleJob, IdleFits, TypedFacts, StepTyped DEF CheckSlug
<1> QED BY <1>2, <1>3

LEMMA CheckKubeconfigTyped ==
    ASSUME TypeInv, NEW g \in Goroutines, CheckKubeconfig(g)
    PROVE  /\ TypeInv' /\ Others(g) /\ jobs[g].pc = "kubeconfig"
           /\ \/ jobs'[g].pc = "insert" /\ jobs'[g].copy = jobs[g].copy
              \/ jobs'[g] = Idle
           /\ troubles' = troubles \/ Trouble("cluster")
<1>1. jobs[g].pc = "kubeconfig" /\ jobs[g] \in Job /\ Fits(jobs[g], stages)
  BY DEF CheckKubeconfig, At, TypeInv, TypeOK
<1>2. troubles' = troubles \/ Trouble("cluster") BY DEF CheckKubeconfig
<1>3. troubles' \subseteq {"write", "cluster", "crash", "overlap", "late"}
  BY <1>2, TroubleTyped, TypedFacts
<1>4. CASE Goto(g, Does(g, "insert"))
  <2> DEFINE job == Does(g, "insert")
  <2>1. job \in Job /\ job.pc = "insert" /\ job.copy = jobs[g].copy
    BY <1>1, Places DEF Does, Job
  <2>2. Goto(g, job) BY <1>4
  <2> HIDE DEF job
  <2>3. Fits(job, stages) BY <1>1, <2>1 DEF Fits, OnRow, Before
  <2>4. TypeInv' /\ jobs'[g] = job /\ Others(g)
    BY <1>3, <2>1, <2>2, <2>3, TypedFacts, StepTyped DEF CheckKubeconfig
  <2> QED BY <1>1, <1>2, <2>1, <2>4
<1>5. CASE Done(g)
  BY <1>1, <1>2, <1>3, <1>5, IdleJob, IdleFits, TypedFacts, StepTyped DEF CheckKubeconfig, Done
<1> QED BY <1>4, <1>5 DEF CheckKubeconfig

LEMMA ListStagesTyped ==
    ASSUME TypeInv, NEW g \in Goroutines, ListStages(g)
    PROVE  /\ TypeInv' /\ Others(g) /\ jobs[g].pc = "list"
           /\ \/ jobs'[g].pc = "insert" /\ jobs'[g].copy = jobs[g].copy /\ Ids = {}
              \/ jobs'[g] = Idle
<1>1. jobs[g].pc = "list" /\ jobs[g] \in Job /\ Fits(jobs[g], stages)
  BY DEF ListStages, At, TypeInv, TypeOK
<1>2. CASE Ids = {}
  <2> DEFINE job == Does(g, "insert")
  <2>1. job \in Job /\ job.pc = "insert" /\ job.copy = jobs[g].copy
    BY <1>1, Places DEF Does, Job
  <2>2. Goto(g, job) BY <1>2 DEF ListStages
  <2> HIDE DEF job
  <2>3. Fits(job, stages) BY <1>1, <2>1 DEF Fits, OnRow, Before
  <2>4. TypeInv' /\ jobs'[g] = job /\ Others(g)
    BY <2>1, <2>2, <2>3, TypedFacts, StepTyped DEF ListStages
  <2> QED BY <1>1, <1>2, <2>1, <2>4
<1>3. CASE Ids # {}
  <2>1. Goto(g, Idle) BY <1>3 DEF ListStages
  <2> QED BY <1>1, <2>1, IdleJob, IdleFits, TypedFacts, StepTyped DEF ListStages
<1> QED BY <1>2, <1>3

\* Writing a job's copy over its row.
LEMMA CopyWritten ==
    ASSUME TypeInv, NEW g \in Goroutines, jobs[g].pc \in OnRow, Updated(jobs[g].id, jobs[g].copy)
    PROVE  /\ jobs[g].id \in Ids /\ stages' \in Seq(Stage) /\ Len(stages') <= MaxStages /\ Kept
           /\ Ids' = Ids /\ stages'[jobs[g].id] = jobs[g].copy
           /\ \A i \in Ids : i # jobs[g].id => stages'[i] = stages[i]
<1>1. jobs[g].id \in Ids /\ jobs[g].copy.slug = stages[jobs[g].id].slug /\ jobs[g].copy \in Stage
  BY JobFields DEF TypeInv, TypeOK, Fits, Ids
<1>2. /\ stages' \in Seq(Stage) /\ Len(stages') = Len(stages) /\ Ids' = Ids
      /\ stages'[jobs[g].id] = jobs[g].copy
      /\ \A i \in Ids : i # jobs[g].id => stages'[i] = stages[i]
  BY <1>1, RowUpdated DEF TypeInv, TypeOK
<1> QED BY <1>1, <1>2 DEF Kept, TypeInv, TypeOK

LEMMA WriteFailed ==
    ASSUME TypeInv, NEW g \in Goroutines, jobs[g].pc \in OnRow, UpdateFails(jobs[g].id, jobs[g].copy)
    PROVE  /\ Trouble("write") /\ stages' \in Seq(Stage) /\ Len(stages') <= MaxStages /\ Kept /\ Ids' = Ids
           /\ \/ stages' = stages
              \/ /\ stages'[jobs[g].id] = jobs[g].copy
                 /\ \A i \in Ids : i # jobs[g].id => stages'[i] = stages[i]
<1>1. CASE Updated(jobs[g].id, jobs[g].copy) BY <1>1, CopyWritten DEF UpdateFails
<1>2. CASE UNCHANGED stages BY <1>2, TypedFacts DEF UpdateFails, Kept, Ids
<1> QED BY <1>1, <1>2 DEF UpdateFails

\* A job ends, whatever became of the table.
LEMMA EndTyped ==
    ASSUME TypeInv, NEW g \in Goroutines, Done(g), UNCHANGED project,
           stages' \in Seq(Stage), Len(stages') <= MaxStages, Kept,
           ready' \subseteq namespaces', namespaces' \subseteq Slugs,
           cache' \in {NoCache} \cup SUBSET Ids', UNCHANGED served,
           troubles' \subseteq {"write", "cluster", "crash", "overlap", "late"}
    PROVE  TypeInv' /\ jobs'[g] = Idle /\ Others(g)
BY IdleJob, IdleFits, TypedFacts, JobTyped DEF Done

LEMMA RowInserted ==
    ASSUME TypeInv, NEW row \in Stage, Len(stages) < MaxStages, stages' = Append(stages, row)
    PROVE  /\ stages' \in Seq(Stage) /\ Len(stages') <= MaxStages /\ Kept
           /\ Ids' = Ids \cup {Len(stages) + 1} /\ Len(stages) + 1 \notin Ids
           /\ stages'[Len(stages) + 1] = row /\ \A j \in Ids : stages'[j] = stages[j]
           /\ Len(stages) + 1 \in StageId
<1>1. /\ stages' \in Seq(Stage) /\ Len(stages') = Len(stages) + 1
      /\ Ids' = Ids \cup {Len(stages) + 1} /\ Len(stages) + 1 \notin Ids
      /\ stages'[Len(stages) + 1] = row /\ \A j \in Ids : stages'[j] = stages[j]
  BY RowAppended, TypedFacts
<1>2. Len(stages) \in Nat BY TypedFacts
<1>3. Len(stages') <= MaxStages /\ Len(stages) + 1 \in StageId
  BY <1>1, <1>2, BoundsAssumption DEF StageId
<1> QED BY <1>1, <1>3 DEF Kept

LEMMA InsertTyped ==
    ASSUME TypeInv, NEW g \in Goroutines, Insert(g)
    PROVE  /\ TypeInv' /\ Others(g) /\ jobs[g].pc = "insert" /\ jobs[g].copy.status = "creating"
           /\ \/ /\ stages' = Append(stages, jobs[g].copy) /\ troubles' = troubles
                 /\ jobs'[g].pc = "apply" /\ jobs'[g].id = Len(stages) + 1 /\ jobs'[g].copy = jobs[g].copy
              \/ jobs'[g] = Idle /\ stages' = stages /\ troubles' = troubles
              \/ jobs'[g] = Idle /\ stages' \in {stages, Append(stages, jobs[g].copy)} /\ Trouble("write")
           /\ stages' # stages =>
                 /\ stages' = Append(stages, jobs[g].copy)
                 /\ Len(stages) < MaxStages /\ (~Unique \/ WithSlug(jobs[g].copy.slug) = {})
<1> DEFINE row == jobs[g].copy
           free == (~Unique \/ WithSlug(row.slug) = {}) /\ Len(stages) < MaxStages
<1>1. /\ jobs[g].pc = "insert" /\ jobs[g] \in Job /\ row \in Stage /\ row.status = "creating"
      /\ stages \in Seq(Stage)
  BY JobFields DEF Insert, At, TypeInv, TypeOK, Fits, Before
<1>2. CASE /\ free /\ stages' = Append(stages, row)
           /\ Goto(g, [jobs[g] EXCEPT !.pc = "apply", !.id = Len(stages) + 1]) /\ UNCHANGED troubles
  <2> DEFINE job == [jobs[g] EXCEPT !.pc = "apply", !.id = Len(stages) + 1]
  <2>1. /\ stages' \in Seq(Stage) /\ Len(stages') <= MaxStages /\ Kept
        /\ Ids' = Ids \cup {Len(stages) + 1} /\ stages'[Len(stages) + 1] = row
        /\ Len(stages) + 1 \in StageId
    BY <1>1, <1>2, RowInserted
  <2>2. job \in Job /\ job.pc = "apply" /\ job.id = Len(stages) + 1 /\ job.copy = row
    BY <1>1, <2>1, Places DEF Job
  <2>3. Goto(g, job) BY <1>2
  <2> HIDE DEF job
  <2>4. Fits(job, stages') BY <2>1, <2>2 DEF Fits, Before, Ids
  <2>5. cache' \in {NoCache} \cup SUBSET Ids' BY <2>1, TypedFacts DEF Insert
  <2>6. TypeInv' /\ jobs'[g] = job /\ Others(g)
    BY <1>2, <2>1, <2>2, <2>3, <2>4, <2>5, TypedFacts, JobTyped DEF Insert
  <2> QED BY <1>1, <1>2, <2>2, <2>6
<1>3. CASE ~free /\ Done(g) /\ UNCHANGED <<stages, troubles>>
  <2>1. Kept /\ Ids' = Ids BY <1>3 DEF Kept, Ids
  <2>2. TypeInv' /\ jobs'[g] = Idle /\ Others(g)
    BY <1>3, <2>1, TypedFacts, EndTyped DEF Insert
  <2> QED BY <1>1, <1>3, <2>2
<1>4. CASE Trouble("write") /\ Done(g) /\ (UNCHANGED stages \/ (free /\ stages' = Append(stages, row)))
  <2>1. /\ stages' \in Seq(Stage) /\ Len(stages') <= MaxStages /\ Kept /\ Ids \subseteq Ids'
    <3>1. CASE UNCHANGED stages BY <3>1, TypedFacts DEF Kept, Ids
    <3>2. CASE free /\ stages' = Append(stages, row) BY <1>1, <3>2, RowInserted
    <3> QED BY <1>4, <3>1, <3>2
  <2>2. cache' \in {NoCache} \cup SUBSET Ids' BY <2>1, TypedFacts DEF Insert
  <2>3. TypeInv' /\ jobs'[g] = Idle /\ Others(g)
    BY <1>4, <2>1, <2>2, TypedFacts, TroubleTyped, EndTyped DEF Insert
  <2> QED BY <1>1, <1>4, <2>3
<1> QED BY <1>2, <1>3, <1>4 DEF Insert

LEMMA ApplyNamespaceTyped ==
    ASSUME TypeInv, NEW g \in Goroutines, ApplyNamespace(g)
    PROVE  /\ TypeInv' /\ Others(g) /\ jobs[g].pc = "apply"
           /\ jobs'[g].pc = "settle" /\ jobs'[g].id = jobs[g].id /\ jobs'[g].copy.slug = jobs[g].copy.slug
           /\ \/ /\ jobs'[g].copy.status = "active" /\ troubles' = troubles
                 /\ namespaces' = namespaces \cup {jobs[g].copy.slug}
              \/ project = "provisioning" /\ troubles' = troubles
              \/ Trouble("cluster")
<1> DEFINE ok == [Does(g, "settle") EXCEPT !.copy.status = "active"]
           no == [Does(g, "settle") EXCEPT !.copy.status = "failed"]
           slug == jobs[g].copy.slug
<1>1. jobs[g].pc = "apply" /\ jobs[g] \in Job /\ Fits(jobs[g], stages) /\ slug \in Slugs
  BY JobFields DEF ApplyNamespace, At, TypeInv, TypeOK
<1>2. /\ ok \in Job /\ ok.pc = "settle" /\ ok.id = jobs[g].id /\ ok.copy.slug = slug
      /\ ok.copy.status = "active"
      /\ no \in Job /\ no.pc = "settle" /\ no.id = jobs[g].id /\ no.copy.slug = slug
      /\ no.copy.status = "failed"
  BY <1>1, Places DEF Does, Job, Stage
<1>3. /\ \/ Goto(g, ok) /\ troubles' = troubles /\ namespaces' = namespaces \cup {slug}
         \/ Goto(g, no) /\ project = "provisioning" /\ troubles' = troubles
         \/ Goto(g, no) /\ Trouble("cluster")
      /\ namespaces' \in {namespaces, namespaces \cup {slug}}
  BY DEF ApplyNamespace
<1> HIDE DEF ok, no
<1>4. Fits(ok, stages) /\ Fits(no, stages) BY <1>1, <1>2 DEF Fits, OnRow, Before
<1>5. ready' \subseteq namespaces' /\ namespaces' \subseteq Slugs
  BY <1>1, <1>3, TypedFacts DEF ApplyNamespace
<1>6. troubles' \subseteq {"write", "cluster", "crash", "overlap", "late"}
  BY <1>3, TypedFacts, TroubleTyped
<1>7. CASE Goto(g, ok)
  <2>1. TypeInv' /\ jobs'[g] = ok /\ Others(g)
    BY <1>2, <1>4, <1>5, <1>6, <1>7, TypedFacts, StepTyped DEF ApplyNamespace
  <2> QED BY <1>1, <1>2, <1>3, <2>1
<1>8. CASE Goto(g, no)
  <2>1. TypeInv' /\ jobs'[g] = no /\ Others(g)
    BY <1>2, <1>4, <1>5, <1>6, <1>8, TypedFacts, StepTyped DEF ApplyNamespace
  <2>2. (project = "provisioning" /\ troubles' = troubles) \/ Trouble("cluster")
    <3>1. ~Goto(g, ok)
      <4> SUFFICES ASSUME Goto(g, ok) PROVE FALSE OBVIOUS
      <4>1. jobs'[g] = ok BY <1>2, JobGoes DEF TypeInv, TypeOK
      <4> QED BY <1>2, <2>1, <4>1
    <3> QED BY <1>3, <3>1
  <2> QED BY <1>1, <1>2, <2>1, <2>2
<1> QED BY <1>3, <1>7, <1>8

LEMMA SettleTyped ==
    ASSUME TypeInv, NEW g \in Goroutines, Settle(g)
    PROVE  /\ TypeInv' /\ Others(g) /\ jobs[g].pc = "settle" /\ jobs[g].id \in Ids /\ Ids' = Ids
           /\ \/ /\ stages'[jobs[g].id] = jobs[g].copy
                 /\ \A i \in Ids : i # jobs[g].id => stages'[i] = stages[i]
              \/ stages' = stages
           /\ \/ /\ troubles' = troubles /\ stages'[jobs[g].id] = jobs[g].copy
                 /\ jobs[g].copy.status = "active" => jobs'[g].pc = "invalidate"
                 /\ jobs[g].copy.status # "active" => jobs'[g] = Idle
              \/ Trouble("write") /\ jobs'[g] = Idle
<1>1. /\ jobs[g].pc = "settle" /\ jobs[g].pc \in OnRow /\ jobs[g] \in Job /\ Fits(jobs[g], stages)
      /\ jobs[g].id \in Ids
  BY DEF Settle, At, TypeInv, TypeOK, OnRow, Fits, Ids
<1>2. CASE Updated(jobs[g].id, jobs[g].copy) /\ UNCHANGED troubles
  <2>1. /\ stages' \in Seq(Stage) /\ Len(stages') <= MaxStages /\ Kept
        /\ Ids' = Ids /\ stages'[jobs[g].id] = jobs[g].copy
        /\ \A i \in Ids : i # jobs[g].id => stages'[i] = stages[i]
    BY <1>1, <1>2, CopyWritten
  <2>2. CASE jobs[g].copy.status = "active" /\ Goto(g, Does(g, "invalidate"))
    <3> DEFINE job == Does(g, "invalidate")
    <3>1. job \in Job /\ job.pc = "invalidate" BY <1>1, Places DEF Does, Job
    <3>2. Goto(g, job) BY <2>2
    <3> HIDE DEF job
    <3>3. Fits(job, stages') BY <3>1 DEF Fits, OnRow, Before
    <3>4. TypeInv' /\ jobs'[g] = job /\ Others(g)
      BY <1>2, <2>1, <3>1, <3>2, <3>3, TypedFacts, JobTyped DEF Settle
    <3> QED BY <1>1, <1>2, <2>1, <2>2, <3>1, <3>4
  <2>3. CASE jobs[g].copy.status # "active" /\ Done(g)
    <3>1. TypeInv' /\ jobs'[g] = Idle /\ Others(g)
      BY <1>2, <2>1, <2>3, TypedFacts, EndTyped DEF Settle
    <3> QED BY <1>1, <1>2, <2>1, <2>3, <3>1
  <2>4. CASE UpdateFails(jobs[g].id, jobs[g].copy) /\ Done(g)
    <3>1. TypeInv' /\ jobs'[g] = Idle /\ Others(g)
      BY <1>2, <2>1, <2>4, TypedFacts, EndTyped DEF Settle
    <3>2. Trouble("write") BY <2>4 DEF UpdateFails
    <3> QED BY <1>1, <1>2, <2>1, <3>1, <3>2
  <2> QED BY <1>2, <2>2, <2>3, <2>4 DEF Settle, Done
<1>3. CASE UpdateFails(jobs[g].id, jobs[g].copy) /\ Done(g)
  <2>1. /\ Trouble("write") /\ stages' \in Seq(Stage) /\ Len(stages') <= MaxStages /\ Kept /\ Ids' = Ids
        /\ \/ stages' = stages
           \/ /\ stages'[jobs[g].id] = jobs[g].copy
              /\ \A i \in Ids : i # jobs[g].id => stages'[i] = stages[i]
    BY <1>1, <1>3, WriteFailed
  <2>2. TypeInv' /\ jobs'[g] = Idle /\ Others(g)
    BY <1>3, <2>1, TypedFacts, TroubleTyped, EndTyped DEF Settle
  <2> QED BY <1>1, <2>1, <2>2
<1> QED BY <1>2, <1>3 DEF Settle

LEMMA InvalidateTyped ==
    ASSUME TypeInv, NEW g \in Goroutines, Invalidate(g)
    PROVE  TypeInv' /\ Others(g) /\ jobs[g].pc = "invalidate" /\ jobs'[g] = Idle
<1>1. Kept /\ Ids' = Ids /\ Done(g) BY DEF Invalidate, Kept, Ids
<1> QED BY <1>1, TypedFacts, EndTyped DEF Invalidate, At

LEMMA MarkDeletingTyped ==
    ASSUME TypeInv, NEW g \in Goroutines, MarkDeleting(g)
    PROVE  /\ TypeInv' /\ Others(g) /\ jobs[g].pc = "mark" /\ jobs[g].id \in Ids /\ Ids' = Ids
           /\ jobs[g].copy.status = "deleting" /\ jobs[g].copy.slug = stages[jobs[g].id].slug
           /\ \/ /\ stages'[jobs[g].id] = jobs[g].copy
                 /\ \A i \in Ids : i # jobs[g].id => stages'[i] = stages[i]
              \/ stages' = stages
           /\ \/ /\ troubles' = troubles /\ jobs'[g].pc = "remove" /\ jobs'[g].id = jobs[g].id
                 /\ stages'[jobs[g].id] = jobs[g].copy
              \/ Trouble("write") /\ jobs'[g] = Idle
<1>1. /\ jobs[g].pc = "mark" /\ jobs[g].pc \in OnRow /\ jobs[g] \in Job
      /\ jobs[g].id \in Ids /\ jobs[g].copy.status = "deleting"
      /\ jobs[g].copy.slug = stages[jobs[g].id].slug
  BY DEF MarkDeleting, At, TypeInv, TypeOK, OnRow, Fits, Ids
<1>2. CASE /\ Updated(jobs[g].id, jobs[g].copy) /\ UNCHANGED troubles
           /\ Goto(g, Does(g, "remove"))
  <2>1. /\ stages' \in Seq(Stage) /\ Len(stages') <= MaxStages /\ Kept
        /\ Ids' = Ids /\ stages'[jobs[g].id] = jobs[g].copy
        /\ \A i \in Ids : i # jobs[g].id => stages'[i] = stages[i]
    BY <1>1, <1>2, CopyWritten
  <2> DEFINE job == Does(g, "remove")
  <2>2. job \in Job /\ job.pc = "remove" /\ job.id = jobs[g].id /\ job.copy = jobs[g].copy
    BY <1>1, Places DEF Does, Job
  <2>3. Goto(g, job) BY <1>2
  <2> HIDE DEF job
  <2>4. Fits(job, stages') BY <1>1, <2>1, <2>2 DEF Fits, Before, Ids
  <2>5. TypeInv' /\ jobs'[g] = job /\ Others(g)
    BY <1>2, <2>1, <2>2, <2>3, <2>4, TypedFacts, JobTyped DEF MarkDeleting
  <2> QED BY <1>1, <1>2, <2>1, <2>2, <2>5
<1>3. CASE UpdateFails(jobs[g].id, jobs[g].copy) /\ Done(g)
  <2>1. /\ Trouble("write") /\ stages' \in Seq(Stage) /\ Len(stages') <= MaxStages /\ Kept /\ Ids' = Ids
        /\ \/ stages' = stages
           \/ /\ stages'[jobs[g].id] = jobs[g].copy
              /\ \A i \in Ids : i # jobs[g].id => stages'[i] = stages[i]
    BY <1>1, <1>3, WriteFailed
  <2>2. TypeInv' /\ jobs'[g] = Idle /\ Others(g)
    BY <1>3, <2>1, TypedFacts, TroubleTyped, EndTyped DEF MarkDeleting
  <2> QED BY <1>1, <2>1, <2>2
<1> QED BY <1>2, <1>3 DEF MarkDeleting

LEMMA RemoveNamespaceTyped ==
    ASSUME TypeInv, NEW g \in Goroutines, RemoveNamespace(g)
    PROVE  /\ TypeInv' /\ Others(g) /\ jobs[g].pc = "remove"
           /\ ready' \subseteq ready
           /\ \/ /\ jobs'[g].pc = "settleDeleted" /\ jobs'[g].id = jobs[g].id
                 /\ jobs'[g].copy.slug = jobs[g].copy.slug /\ troubles' = troubles
                 /\ namespaces' = namespaces \ {jobs[g].copy.slug}
                 /\ ready' = ready \ {jobs[g].copy.slug}
              \/ jobs'[g] = Idle /\ Trouble("cluster")
<1> DEFINE job == [Does(g, "settleDeleted") EXCEPT !.copy.status = "deleted"]
           slug == jobs[g].copy.slug
<1>1. jobs[g].pc = "remove" /\ jobs[g] \in Job /\ Fits(jobs[g], stages) /\ slug \in Slugs
  BY JobFields DEF RemoveNamespace, At, TypeInv, TypeOK
<1>2. /\ job \in Job /\ job.pc = "settleDeleted" /\ job.id = jobs[g].id /\ job.copy.slug = slug
      /\ job.copy.status = "deleted"
  BY <1>1, Places DEF Does, Job, Stage
<1>3. /\ \/ Goto(g, job) /\ namespaces' = namespaces \ {slug} /\ ready' = ready \ {slug} /\ troubles' = troubles
         \/ Done(g) /\ Trouble("cluster")
      /\ \/ namespaces' = namespaces \ {slug} /\ ready' = ready \ {slug}
         \/ UNCHANGED <<namespaces, ready>>
  BY DEF RemoveNamespace
<1> HIDE DEF job
<1>4. Fits(job, stages) BY <1>1, <1>2 DEF Fits, OnRow, Before
<1>5. ready' \subseteq namespaces' /\ namespaces' \subseteq Slugs /\ ready' \subseteq ready
  BY <1>3, TypedFacts
<1>6. troubles' \subseteq {"write", "cluster", "crash", "overlap", "late"}
  BY <1>3, TypedFacts, TroubleTyped
<1>7. CASE Goto(g, job) /\ namespaces' = namespaces \ {slug} /\ ready' = ready \ {slug} /\ troubles' = troubles
  <2>1. TypeInv' /\ jobs'[g] = job /\ Others(g)
    BY <1>2, <1>4, <1>5, <1>6, <1>7, TypedFacts, StepTyped DEF RemoveNamespace
  <2> QED BY <1>1, <1>2, <1>5, <1>7, <2>1
<1>8. CASE Done(g) /\ Trouble("cluster")
  <2>1. Kept /\ Ids' = Ids BY DEF RemoveNamespace, Kept, Ids
  <2>2. TypeInv' /\ jobs'[g] = Idle /\ Others(g)
    BY <1>5, <1>6, <1>8, <2>1, TypedFacts, EndTyped DEF RemoveNamespace
  <2> QED BY <1>1, <1>5, <1>8, <2>2
<1> QED BY <1>3, <1>7, <1>8

LEMMA SettleDeletedTyped ==
    ASSUME TypeInv, NEW g \in Goroutines, SettleDeleted(g)
    PROVE  /\ TypeInv' /\ Others(g) /\ jobs[g].pc = "settleDeleted" /\ jobs[g].id \in Ids /\ Ids' = Ids
           /\ jobs[g].copy.status = "deleted"
           /\ \/ /\ stages'[jobs[g].id] = jobs[g].copy
                 /\ \A i \in Ids : i # jobs[g].id => stages'[i] = stages[i]
              \/ stages' = stages
           /\ \/ troubles' = troubles /\ jobs'[g].pc = "invalidate" /\ stages'[jobs[g].id] = jobs[g].copy
              \/ Trouble("write") /\ jobs'[g] = Idle
<1>1. /\ jobs[g].pc = "settleDeleted" /\ jobs[g].pc \in OnRow /\ jobs[g] \in Job
      /\ jobs[g].id \in Ids /\ jobs[g].copy.status = "deleted"
  BY DEF SettleDeleted, At, TypeInv, TypeOK, OnRow, Fits, Ids
<1>2. CASE /\ Updated(jobs[g].id, jobs[g].copy) /\ UNCHANGED troubles
           /\ Goto(g, Does(g, "invalidate"))
  <2>1. /\ stages' \in Seq(Stage) /\ Len(stages') <= MaxStages /\ Kept
        /\ Ids' = Ids /\ stages'[jobs[g].id] = jobs[g].copy
        /\ \A i \in Ids : i # jobs[g].id => stages'[i] = stages[i]
    BY <1>1, <1>2, CopyWritten
  <2> DEFINE job == Does(g, "invalidate")
  <2>2. job \in Job /\ job.pc = "invalidate" BY <1>1, Places DEF Does, Job
  <2>3. Goto(g, job) BY <1>2
  <2> HIDE DEF job
  <2>4. Fits(job, stages') BY <2>2 DEF Fits, OnRow, Before
  <2>5. TypeInv' /\ jobs'[g] = job /\ Others(g)
    BY <1>2, <2>1, <2>2, <2>3, <2>4, TypedFacts, JobTyped DEF SettleDeleted
  <2> QED BY <1>1, <1>2, <2>1, <2>2, <2>5
<1>3. CASE UpdateFails(jobs[g].id, jobs[g].copy) /\ Done(g)
  <2>1. /\ Trouble("write") /\ stages' \in Seq(Stage) /\ Len(stages') <= MaxStages /\ Kept /\ Ids' = Ids
        /\ \/ stages' = stages
           \/ /\ stages'[jobs[g].id] = jobs[g].copy
              /\ \A i \in Ids : i # jobs[g].id => stages'[i] = stages[i]
    BY <1>1, <1>3, WriteFailed
  <2>2. TypeInv' /\ jobs'[g] = Idle /\ Others(g)
    BY <1>3, <2>1, TypedFacts, TroubleTyped, EndTyped DEF SettleDeleted
  <2> QED BY <1>1, <2>1, <2>2
<1> QED BY <1>2, <1>3 DEF SettleDeleted

LEMMA SeenRow ==
    ASSUME NEW row \in Stage
    PROVE  /\ Seen(row) \in Stage /\ Seen(row).slug = row.slug
           /\ Seen(row).status = IF row.slug \in ready THEN "active" ELSE row.status
BY Places DEF Seen, Stage

LEMMA QueryRuntimeTyped ==
    ASSUME TypeInv, NEW g \in Goroutines, QueryRuntime(g)
    PROVE  /\ TypeInv' /\ Others(g) /\ jobs[g].pc = "query"
           /\ \/ /\ jobs'[g].pc = "write" /\ jobs'[g].id = jobs[g].id
                 /\ jobs'[g].copy.slug = jobs[g].copy.slug
                 /\ jobs'[g].copy.status =
                       IF jobs[g].copy.slug \in ready THEN "active" ELSE jobs[g].copy.status
              \/ jobs'[g] = Idle
           /\ troubles' = troubles \/ Trouble("cluster")
<1> DEFINE row == jobs[g].copy
           job == [Does(g, "write") EXCEPT !.copy = Seen(row)]
<1>1. jobs[g].pc = "query" /\ jobs[g] \in Job /\ Fits(jobs[g], stages) /\ row \in Stage
  BY JobFields DEF QueryRuntime, At, TypeInv, TypeOK
<1>2. /\ Seen(row) \in Stage /\ Seen(row).slug = row.slug
      /\ Seen(row).status = IF row.slug \in ready THEN "active" ELSE row.status
  BY <1>1, SeenRow
<1>3. job \in Job /\ job.pc = "write" /\ job.id = jobs[g].id /\ job.copy = Seen(row)
  BY <1>1, <1>2, Places DEF Does, Job
<1>4. /\ Goto(g, job) \/ Done(g)
      /\ troubles' = troubles \/ Trouble("cluster")
  BY DEF QueryRuntime
<1> HIDE DEF job
<1>5. Fits(job, stages) BY <1>1, <1>2, <1>3 DEF Fits, OnRow, Before
<1>6. troubles' \subseteq {"write", "cluster", "crash", "overlap", "late"}
  BY <1>4, TypedFacts, TroubleTyped
<1>7. CASE Goto(g, job)
  <2>1. TypeInv' /\ jobs'[g] = job /\ Others(g)
    BY <1>3, <1>5, <1>6, <1>7, TypedFacts, StepTyped DEF QueryRuntime
  <2> QED BY <1>1, <1>2, <1>3, <1>4, <2>1
<1>8. CASE Done(g)
  <2>1. Kept /\ Ids' = Ids BY DEF QueryRuntime, Kept, Ids
  <2>2. TypeInv' /\ jobs'[g] = Idle /\ Others(g)
    BY <1>6, <1>8, <2>1, TypedFacts, EndTyped DEF QueryRuntime
  <2> QED BY <1>1, <1>4, <2>2
<1> QED BY <1>4, <1>7, <1>8

LEMMA WriteTyped ==
    ASSUME TypeInv, NEW g \in Goroutines, Write(g)
    PROVE  /\ TypeInv' /\ Others(g) /\ jobs[g].pc = "write" /\ jobs[g].id \in Ids /\ Ids' = Ids
           /\ jobs'[g] = Idle
           /\ \/ /\ stages'[jobs[g].id] = jobs[g].copy
                 /\ \A i \in Ids : i # jobs[g].id => stages'[i] = stages[i]
              \/ stages' = stages
           /\ troubles' = troubles \/ Trouble("write")
<1>1. jobs[g].pc = "write" /\ jobs[g].pc \in OnRow /\ jobs[g].id \in Ids
  BY DEF Write, At, TypeInv, TypeOK, OnRow, Fits, Ids
<1>2. CASE Updated(jobs[g].id, jobs[g].copy) /\ UNCHANGED troubles
  <2>1. /\ stages' \in Seq(Stage) /\ Len(stages') <= MaxStages /\ Kept
        /\ Ids' = Ids /\ stages'[jobs[g].id] = jobs[g].copy
        /\ \A i \in Ids : i # jobs[g].id => stages'[i] = stages[i]
    BY <1>1, <1>2, CopyWritten
  <2>2. TypeInv' /\ jobs'[g] = Idle /\ Others(g)
    BY <1>2, <2>1, TypedFacts, EndTyped DEF Write
  <2> QED BY <1>1, <1>2, <2>1, <2>2
<1>3. CASE UpdateFails(jobs[g].id, jobs[g].copy)
  <2>1. /\ Trouble("write") /\ stages' \in Seq(Stage) /\ Len(stages') <= MaxStages /\ Kept /\ Ids' = Ids
        /\ \/ stages' = stages
           \/ /\ stages'[jobs[g].id] = jobs[g].copy
              /\ \A i \in Ids : i # jobs[g].id => stages'[i] = stages[i]
    BY <1>1, <1>3, WriteFailed
  <2>2. TypeInv' /\ jobs'[g] = Idle /\ Others(g)
    BY <2>1, TypedFacts, TroubleTyped, EndTyped DEF Write
  <2> QED BY <1>1, <2>1, <2>2
<1> QED BY <1>2, <1>3 DEF Write

LEMMA ListForURLsTyped ==
    ASSUME TypeInv, NEW g \in Goroutines, ListForURLs(g)
    PROVE  /\ TypeInv' /\ Others(g) /\ jobs[g].pc = "urls"
           /\ jobs'[g].pc = "fill" /\ jobs'[g].listed = Shown
<1> DEFINE job == [Does(g, "fill") EXCEPT !.listed = Shown]
<1>1. jobs[g].pc = "urls" /\ jobs[g] \in Job /\ Shown \subseteq Ids /\ Shown \in SUBSET StageId
  BY TypedFacts DEF ListForURLs, At, TypeInv, TypeOK, Shown
<1>2. job \in Job /\ job.pc = "fill" /\ job.listed = Shown
  BY <1>1, Places DEF Does, Job
<1>3. Goto(g, job) BY DEF ListForURLs, Shown
<1> HIDE DEF job
<1>4. Fits(job, stages) BY <1>1, <1>2 DEF Fits, OnRow, Before, Ids
<1>5. TypeInv' /\ jobs'[g] = job /\ Others(g)
  BY <1>2, <1>3, <1>4, TypedFacts, StepTyped DEF ListForURLs
<1> QED BY <1>1, <1>2, <1>5

LEMMA FillTyped ==
    ASSUME TypeInv, NEW g \in Goroutines, Fill(g)
    PROVE  TypeInv' /\ Others(g) /\ jobs[g].pc = "fill" /\ jobs'[g] = Idle
<1>1. jobs[g].pc = "fill" /\ jobs[g].listed \subseteq Ids BY DEF Fill, At, TypeInv, Fits, Ids
<1>2. Kept /\ Ids' = Ids BY DEF Fill, Kept, Ids
<1> QED BY <1>1, <1>2, TypedFacts, EndTyped DEF Fill

-----------------------------------------------------------------------------
(* Requests begin *)

LEMMA BeginFacts ==
    ASSUME TypeInv, NEW g, NEW job, NEW news \in SUBSET {"late"}, BeginWith(g, job, news)
    PROVE  /\ g \in Goroutines /\ jobs[g] = Idle /\ Goto(g, job)
           /\ troubles' \subseteq {"write", "cluster", "crash", "overlap", "late"}
           /\ troubles \subseteq troubles' /\ news \subseteq troubles'
           /\ troubles' \subseteq troubles \cup news \cup {"overlap"}
           /\ "overlap" \notin troubles' => \A h \in Goroutines : jobs[h].pc = "idle"
<1>1. g \in Goroutines /\ jobs[g].pc = "idle" /\ Goto(g, job)
  BY DEF BeginWith, Goroutines, At
<1>2. jobs[g] = Idle BY <1>1 DEF TypeInv, Fits
<1>3. troubles' = troubles \cup news \cup IF \E h \in Goroutines : ~At(h, "idle") THEN {"overlap"} ELSE {}
  BY DEF BeginWith
<1>4. troubles' \subseteq {"write", "cluster", "crash", "overlap", "late"}
  BY <1>3, TypedFacts
<1> QED BY <1>1, <1>2, <1>3, <1>4 DEF At

LEMMA BeginCreateTyped ==
    ASSUME TypeInv, NEW g, NEW slug \in Slugs, BeginCreate(g, slug)
    PROVE  /\ TypeInv' /\ Others(g) /\ g \in Goroutines /\ jobs[g] = Idle
           /\ jobs'[g].pc = "check"
<1> DEFINE job == [Idle EXCEPT !.pc = "check", !.copy = NewStage(slug)]
<1>1. /\ g \in Goroutines /\ jobs[g] = Idle /\ Goto(g, job)
      /\ troubles' \subseteq {"write", "cluster", "crash", "overlap", "late"}
  BY BeginFacts DEF BeginCreate, Begin
<1>2. job \in Job /\ job.pc = "check" /\ job.copy.slug = slug /\ job.copy.status = "creating"
  BY IdleJob, NewStageFields, Places DEF Job
<1> HIDE DEF job
<1>3. Fits(job, stages) BY <1>2 DEF Fits, OnRow
<1>4. served' \in 0..MaxServed BY TypedFacts, BoundsAssumption DEF BeginCreate, Serve
<1> QED BY <1>1, <1>2, <1>3, <1>4, TypedFacts, StepTyped DEF BeginCreate

\* Requests that begin with a job at a place of its own, for no row.
LEMMA BeginAtTyped ==
    ASSUME TypeInv, NEW g, NEW pc \in {"list", "insert", "urls"}, Begin(g, Does(g, pc)),
           UNCHANGED <<project, stages, namespaces, ready, cache>>, served' \in 0..MaxServed
    PROVE  /\ TypeInv' /\ Others(g) /\ g \in Goroutines /\ jobs[g] = Idle
           /\ jobs'[g].pc = pc /\ jobs'[g].copy.slug = Production
<1> DEFINE job == Does(g, pc)
<1>1. /\ g \in Goroutines /\ jobs[g] = Idle /\ Goto(g, job)
      /\ troubles' \subseteq {"write", "cluster", "crash", "overlap", "late"}
  BY BeginFacts DEF Begin
<1>2. job \in Job /\ job.pc = pc /\ job.copy = Idle.copy
  BY <1>1, IdleJob, Places DEF Does, Job
<1> HIDE DEF job
<1>3. Fits(job, stages) BY <1>2, IdleJob DEF Fits, OnRow
<1> QED BY <1>1, <1>2, <1>3, IdleJob, TypedFacts, StepTyped

\* Requests that begin with a copy of a row.
LEMMA BeginRowTyped ==
    ASSUME TypeInv, NEW g, NEW job \in Job, NEW news \in SUBSET {"late"}, BeginWith(g, job, news),
           job.pc \in {"query", "write"}, job.id \in Ids, job.copy.slug = stages[job.id].slug,
           UNCHANGED <<project, stages, namespaces, ready, cache>>, served' \in 0..MaxServed
    PROVE  TypeInv' /\ Others(g) /\ g \in Goroutines /\ jobs[g] = Idle /\ jobs'[g] = job
<1>1. /\ g \in Goroutines /\ jobs[g] = Idle /\ Goto(g, job)
      /\ troubles' \subseteq {"write", "cluster", "crash", "overlap", "late"}
  BY BeginFacts
<1>2. Fits(job, stages) BY DEF Fits, Before, Ids
<1> QED BY <1>1, <1>2, TypedFacts, StepTyped

LEMMA BeginDeleteTyped ==
    ASSUME TypeInv, NEW g, NEW i \in Ids, BeginDelete(g, i)
    PROVE  TypeInv' /\ Others(g) /\ g \in Goroutines /\ jobs[g] = Idle /\ jobs'[g].pc = "mark"
<1> DEFINE row == [stages[i] EXCEPT !.status = "deleting"]
           job == [Idle EXCEPT !.pc = "mark", !.id = i, !.copy = row]
<1>1. /\ g \in Goroutines /\ jobs[g] = Idle /\ Goto(g, job)
      /\ troubles' \subseteq {"write", "cluster", "crash", "overlap", "late"}
  BY BeginFacts DEF BeginDelete, Begin
<1>2. row \in Stage /\ row.slug = stages[i].slug /\ row.status = "deleting"
  BY TypedFacts, RowFields, RowWithStatus, Places
<1> HIDE DEF row
<1>3. job \in Job /\ job.pc = "mark" /\ job.id = i /\ job.copy = row
  BY <1>2, IdleJob, Places, TypedFacts DEF Job
<1> HIDE DEF job
<1>4. Fits(job, stages) BY <1>2, <1>3 DEF Fits, Before, Ids
<1>5. served' \in 0..MaxServed BY TypedFacts, BoundsAssumption DEF BeginDelete, Serve
<1>6. TypeInv' /\ jobs'[g] = job /\ Others(g)
  BY <1>1, <1>3, <1>4, <1>5, TypedFacts, StepTyped DEF BeginDelete
<1> QED BY <1>1, <1>3, <1>6

LEMMA BeginListTyped ==
    ASSUME TypeInv, NEW g, BeginList(g)
    PROVE  /\ TypeInv' /\ Others(g) /\ g \in Goroutines /\ jobs[g] = Idle
           /\ jobs'[g].pc = "list" /\ jobs'[g].copy.slug = Production
BY BeginAtTyped, TypedFacts DEF BeginList

LEMMA BeginURLsTyped ==
    ASSUME TypeInv, NEW g, BeginURLs(g)
    PROVE  /\ TypeInv' /\ Others(g) /\ g \in Goroutines /\ jobs[g] = Idle
           /\ jobs'[g].pc = "urls"
BY BeginAtTyped, TypedFacts DEF BeginURLs

LEMMA BeginResolveTyped ==
    ASSUME TypeInv, NEW g, BeginResolve(g)
    PROVE  /\ TypeInv' /\ Others(g) /\ g \in Goroutines /\ jobs[g] = Idle
           /\ jobs'[g].pc = "insert" /\ jobs'[g].copy.slug = Production
<1>1. served' \in 0..MaxServed BY TypedFacts, BoundsAssumption DEF BeginResolve, Serve
<1> QED BY <1>1, BeginAtTyped DEF BeginResolve

LEMMA BeginRuntimeStatusTyped ==
    ASSUME TypeInv, NEW g, NEW i \in Ids, BeginRuntimeStatus(g, i)
    PROVE  /\ TypeInv' /\ Others(g) /\ g \in Goroutines /\ jobs[g] = Idle
           /\ jobs'[g].pc = "query" /\ jobs'[g].id = i /\ jobs'[g].copy = stages[i]
<1> DEFINE job == [Idle EXCEPT !.pc = "query", !.id = i, !.copy = stages[i]]
<1>1. job \in Job /\ job.pc = "query" /\ job.id = i /\ job.copy = stages[i]
  BY TypedFacts, RowFields, IdleJob, Places DEF Job
<1>2. BeginWith(g, job, {}) /\ {} \in SUBSET {"late"} BY DEF BeginRuntimeStatus, Begin
<1>3. served' \in 0..MaxServed /\ UNCHANGED <<project, stages, namespaces, ready, cache>>
  BY TypedFacts DEF BeginRuntimeStatus
<1> HIDE DEF job
<1>4. TypeInv' /\ Others(g) /\ g \in Goroutines /\ jobs[g] = Idle /\ jobs'[g] = job
  BY <1>1, <1>2, <1>3, BeginRowTyped
<1> QED BY <1>1, <1>4

LEMMA BeginPublishTyped ==
    ASSUME TypeInv, NEW g, NEW i \in Ids, BeginPublish(g, i)
    PROVE  /\ TypeInv' /\ Others(g) /\ g \in Goroutines /\ jobs[g] = Idle
           /\ jobs'[g].pc = "write" /\ jobs'[g].id = i /\ jobs'[g].copy = stages[i]
<1> DEFINE job == [Idle EXCEPT !.pc = "write", !.id = i, !.copy = stages[i]]
<1>1. job \in Job /\ job.pc = "write" /\ job.id = i /\ job.copy = stages[i]
  BY TypedFacts, RowFields, IdleJob, Places DEF Job
<1>2. BeginWith(g, job, {}) /\ {} \in SUBSET {"late"} BY DEF BeginPublish, Begin
<1>3. served' \in 0..MaxServed /\ UNCHANGED <<project, stages, namespaces, ready, cache>>
  BY TypedFacts, BoundsAssumption DEF BeginPublish, Serve
<1> HIDE DEF job
<1>4. TypeInv' /\ Others(g) /\ g \in Goroutines /\ jobs[g] = Idle /\ jobs'[g] = job
  BY <1>1, <1>2, <1>3, BeginRowTyped
<1> QED BY <1>1, <1>4

LEMMA BeginReportTyped ==
    ASSUME TypeInv, NEW g, NEW i \in Ids, BeginReport(g, i)
    PROVE  /\ TypeInv' /\ Others(g) /\ g \in Goroutines /\ jobs[g] = Idle
           /\ jobs'[g].pc = "write" /\ jobs'[g].id = i /\ jobs'[g].copy.slug = stages[i].slug
           /\ jobs'[g].copy.status \in {"active", "failed"}
           /\ stages[i].status \in Gone => "late" \in troubles'
           /\ troubles \subseteq troubles'
           /\ "overlap" \notin troubles' => \A h \in Goroutines : jobs[h].pc = "idle"
<1> PICK status \in {"active", "failed"} \ {stages[i].status} :
        BeginWith(g, [Idle EXCEPT !.pc = "write", !.id = i, !.copy = [stages[i] EXCEPT !.status = status]], Late(i))
  BY Zenon DEF BeginReport
<1> DEFINE row == [stages[i] EXCEPT !.status = status]
           job == [Idle EXCEPT !.pc = "write", !.id = i, !.copy = row]
           news == Late(i)
<1>1. row \in Stage /\ row.slug = stages[i].slug /\ row.status = status
  BY TypedFacts, RowFields, RowWithStatus, Places
<1>2. BeginWith(g, job, news) OBVIOUS
<1> HIDE DEF row
<1>3. job \in Job /\ job.pc = "write" /\ job.id = i /\ job.copy = row
  BY <1>1, IdleJob, Places, TypedFacts DEF Job
<1> HIDE DEF job
<1>4. news \in SUBSET {"late"} /\ (stages[i].status \in Gone => "late" \in news) BY DEF Late
<1> HIDE DEF news
<1>5. served' \in 0..MaxServed /\ UNCHANGED <<project, stages, namespaces, ready, cache>>
  BY TypedFacts, BoundsAssumption DEF BeginReport, Serve
<1>6. TypeInv' /\ Others(g) /\ g \in Goroutines /\ jobs[g] = Idle /\ jobs'[g] = job
  BY <1>1, <1>2, <1>3, <1>4, <1>5, BeginRowTyped
<1>7. /\ troubles \subseteq troubles' /\ news \subseteq troubles'
      /\ "overlap" \notin troubles' => \A h \in Goroutines : jobs[h].pc = "idle"
  BY <1>2, <1>4, BeginFacts
<1> QED BY <1>1, <1>3, <1>4, <1>6, <1>7

-----------------------------------------------------------------------------
(* Steps of nobody's job *)

LEMMA DeployTyped == ASSUME TypeInv, NEW i \in Ids, Deploy(i) PROVE TypeInv'
<1>1. stages[i].slug \in Slugs BY TypedFacts, RowFields
<1>2. served' \in 0..MaxServed BY TypedFacts, BoundsAssumption DEF Deploy, Serve
<1>3. troubles' \subseteq {"write", "cluster", "crash", "overlap", "late"}
  BY TypedFacts DEF Deploy, Late
<1> QED BY <1>1, <1>2, <1>3 DEF Deploy, TypeInv, TypeOK

LEMMA ExpireTyped == ASSUME TypeInv, Expire PROVE TypeInv'
BY DEF Expire, TypeInv, TypeOK

LEMMA CrashTyped == ASSUME TypeInv, Crash PROVE TypeInv'
<1>1. jobs' \in [Goroutines -> Job] /\ \A g \in Goroutines : Fits(jobs'[g], stages')
  BY IdleJob, IdleFits DEF Crash
<1> QED BY <1>1, TroubleTyped DEF Crash, TypeInv, TypeOK

LEMMA StepsTyped == ASSUME TypeInv, NEW g \in Goroutines, Step(g) PROVE TypeInv'
BY CheckSlugTyped, CheckKubeconfigTyped, ListStagesTyped, InsertTyped, ApplyNamespaceTyped, SettleTyped,
   MarkDeletingTyped, RemoveNamespaceTyped, SettleDeletedTyped, InvalidateTyped, QueryRuntimeTyped, WriteTyped,
   ListForURLsTyped, FillTyped DEF Step, CreateStep, DeleteStep

\* The requests, for any case distinction over them.
Request(g) ==
    \/ BeginList(g) \/ BeginURLs(g) \/ BeginResolve(g)
    \/ \E slug \in Slugs : BeginCreate(g, slug)
    \/ \E i \in Ids : BeginPublish(g, i) \/ BeginDelete(g, i) \/ BeginRuntimeStatus(g, i) \/ BeginReport(g, i)

LEMMA NextCases ==
    ASSUME [Next]_vars
    PROVE  \/ Activate \/ (\E g \in Goroutines : Step(g)) \/ (\E g \in Handlers : Request(g))
           \/ (\E i \in Ids : Deploy(i)) \/ Expire \/ Crash \/ UNCHANGED vars
BY DEF Next, Request

LEMMA RequestTyped == ASSUME TypeInv, NEW g \in Handlers, Request(g) PROVE TypeInv'
BY BeginListTyped, BeginURLsTyped, BeginResolveTyped, BeginCreateTyped, BeginPublishTyped, BeginDeleteTyped,
   BeginRuntimeStatusTyped, BeginReportTyped DEF Request

LEMMA NextTyped == TypeInv /\ [Next]_vars => TypeInv'
<1> SUFFICES ASSUME TypeInv, [Next]_vars PROVE TypeInv' OBVIOUS
<1>1. CASE UNCHANGED vars BY <1>1 DEF vars, TypeInv, TypeOK
<1> QED BY <1>1, NextCases, ActivateTyped, StepsTyped, RequestTyped, DeployTyped, ExpireTyped, CrashTyped

\* Every variable keeps its type: in particular the cached URLs are of stages there
\* are, and a job never writes a row that is not there.
THEOREM TypeCorrect == Spec => []TypeOK
<1>1. TypeInv => TypeOK BY DEF TypeInv
<1> QED BY <1>1, InitTyped, NextTyped, PTL DEF Spec

-----------------------------------------------------------------------------
(* One goroutine at a time *)

\* What DeletedStaysDeleted says of one step.
StaysDeleted ==
    \A i \in Ids : stages[i].status = "deleted" /\ stages'[i].status # "deleted"
        => stages'[i].status = "deleting" \/ troubles' \cap {"late", "overlap"} # {}

LEMMA AloneAtWork ==
    ASSUME LoneInv, NEW g \in Goroutines, jobs[g].pc # "idle", troubles \subseteq troubles'
    PROVE  Lone' => \A h \in Goroutines : h # g => jobs[h] = Idle
BY DEF LoneInv, Lone, Alone, TypeInv, Fits

LEMMA IdleIsSound ==
    ASSUME NEW g, jobs'[g].pc \in {"idle", "invalidate", "urls", "fill", "list", "check"}
    PROVE  Free(g)' /\ Held(g)' /\ JobGone(g)'
BY DEF Free, Held, JobGone

\* Of the goroutines, only the one that makes the step needs a look.
LEMMA StepKeeps ==
    ASSUME NEW g \in Goroutines, TypeInv', Others(g),
           Lone' => \A h \in Goroutines : h # g => jobs[h] = Idle,
           OneStagePerSlug',
           Lone' => Free(g)' /\ Held(g)',
           Timely' => RowsGone' /\ JobGone(g)'
    PROVE  LoneInv'
<1>1. Lone' => \A h \in Goroutines : h # g => jobs'[h] = Idle BY DEF Others
<1>2. Alone' BY <1>1, IdleJob DEF Alone
<1>3. \A h \in Goroutines : jobs'[h] = Idle => Free(h)' /\ Held(h)' /\ JobGone(h)'
  BY IdleIsSound, IdleJob
<1>4. Timely' => Lone' BY DEF Timely, Lone
<1>5. Lone' => \A h \in Goroutines : Free(h)' /\ Held(h)' BY <1>1, <1>3
<1>6. Timely' => \A h \in Goroutines : JobGone(h)' BY <1>1, <1>3, <1>4
<1> QED BY <1>2, <1>5, <1>6 DEF LoneInv

LEMMA TableKept ==
    ASSUME LoneInv, UNCHANGED stages, ready' \subseteq ready, troubles \subseteq troubles'
    PROVE  /\ OneStagePerSlug' /\ (Timely' => RowsGone') /\ StaysDeleted
           /\ Ids' = Ids /\ (\A slug : WithSlug(slug)' = WithSlug(slug))
           /\ (Lone' => Lone) /\ (Timely' => Timely) /\ (Timely' => Lone')
BY DEF LoneInv, OneStagePerSlug, RowsGone, StaysDeleted, Ids, WithSlug, Lone, Timely

LEMMA LoneFacts ==
    ASSUME LoneInv, NEW g \in Goroutines
    PROVE  /\ TypeInv /\ Fits(jobs[g], stages)
           /\ Lone => Free(g) /\ Held(g)
           /\ Timely => Lone /\ RowsGone /\ JobGone(g)
BY DEF LoneInv, TypeInv, Lone, Timely

\* A step of a goroutine that leaves the table as it is.
LEMMA QuietStep ==
    ASSUME LoneInv, NEW g \in Goroutines, TypeInv', Others(g), jobs[g].pc # "idle",
           UNCHANGED stages, ready' \subseteq ready, troubles \subseteq troubles',
           Lone /\ Lone' => Free(g)' /\ Held(g)', Timely /\ Timely' => JobGone(g)'
    PROVE  LoneInv' /\ StaysDeleted
BY AloneAtWork, TableKept, StepKeeps

LEMMA ActivateLone == ASSUME LoneInv, Activate PROVE LoneInv' /\ StaysDeleted
<1> DEFINE g == Provisioner
<1>1. /\ g \in Goroutines /\ TypeInv' /\ Others(g) /\ jobs[g].pc = "activate"
      /\ jobs'[g].pc = "insert"
  BY ActivateTyped DEF LoneInv, Goroutines
<1>2. UNCHANGED <<stages, ready, troubles>> BY DEF Activate
<1>3. Lone => Free(g)' /\ Held(g)'
  BY <1>1, <1>2, LoneFacts DEF Free, Held, WithSlug, Ids
<1>4. JobGone(g)' BY <1>1 DEF JobGone
<1> QED BY <1>1, <1>2, <1>3, <1>4, QuietStep

LEMMA CheckSlugLone ==
    ASSUME LoneInv, NEW g \in Goroutines, CheckSlug(g) PROVE LoneInv' /\ StaysDeleted
<1>1. /\ TypeInv' /\ Others(g) /\ jobs[g].pc = "check"
      /\ \/ /\ jobs'[g].pc = "kubeconfig" /\ jobs'[g].copy = jobs[g].copy
            /\ WithSlug(jobs[g].copy.slug) = {}
         \/ jobs'[g] = Idle
  BY CheckSlugTyped DEF LoneInv
<1>2. UNCHANGED <<stages, ready, troubles>> BY DEF CheckSlug
<1>3. Free(g)' /\ Held(g)' /\ JobGone(g)'
  BY <1>1, <1>2, TableKept, IdleJob DEF Free, Held, JobGone
<1> QED BY <1>1, <1>2, <1>3, QuietStep

LEMMA CheckKubeconfigLone ==
    ASSUME LoneInv, NEW g \in Goroutines, CheckKubeconfig(g) PROVE LoneInv' /\ StaysDeleted
<1>1. /\ TypeInv' /\ Others(g) /\ jobs[g].pc = "kubeconfig"
      /\ \/ jobs'[g].pc = "insert" /\ jobs'[g].copy = jobs[g].copy
         \/ jobs'[g] = Idle
      /\ troubles \subseteq troubles'
  BY CheckKubeconfigTyped, TroubleTyped DEF LoneInv
<1>2. UNCHANGED <<stages, ready>> BY DEF CheckKubeconfig
<1>3. Lone => Free(g)' /\ Held(g)'
  BY <1>1, <1>2, TableKept, LoneFacts, IdleJob DEF Free, Held
<1>4. JobGone(g)' BY <1>1, IdleJob DEF JobGone
<1> QED BY <1>1, <1>2, <1>3, <1>4, QuietStep

LEMMA ListStagesLone ==
    ASSUME LoneInv, NEW g \in Goroutines, ListStages(g) PROVE LoneInv' /\ StaysDeleted
<1>1. /\ TypeInv' /\ Others(g) /\ jobs[g].pc = "list"
      /\ (jobs'[g].pc = "insert" /\ Ids = {}) \/ jobs'[g] = Idle
  BY ListStagesTyped DEF LoneInv
<1>2. UNCHANGED <<stages, ready, troubles>> BY DEF ListStages
<1>3. Free(g)' /\ Held(g)' /\ JobGone(g)'
  BY <1>1, <1>2, IdleJob DEF Free, Held, JobGone, WithSlug, Ids
<1> QED BY <1>1, <1>2, <1>3, QuietStep

LEMMA ApplyNamespaceLone ==
    ASSUME LoneInv, NEW g \in Goroutines, ApplyNamespace(g) PROVE LoneInv' /\ StaysDeleted
<1>1. /\ TypeInv' /\ Others(g) /\ jobs[g].pc = "apply"
      /\ jobs'[g].pc = "settle" /\ jobs'[g].id = jobs[g].id
      /\ troubles \subseteq troubles'
  BY ApplyNamespaceTyped, TroubleTyped DEF LoneInv
<1>2. UNCHANGED <<stages, ready>> BY DEF ApplyNamespace
<1>3. Lone => Free(g)' /\ Held(g)' BY <1>1, <1>2, LoneFacts DEF Free, Held
<1>4. JobGone(g)' BY <1>1 DEF JobGone
<1> QED BY <1>1, <1>2, <1>3, <1>4, QuietStep

LEMMA InvalidateLone ==
    ASSUME LoneInv, NEW g \in Goroutines, Invalidate(g) PROVE LoneInv' /\ StaysDeleted
<1>1. TypeInv' /\ Others(g) /\ jobs[g].pc = "invalidate" /\ jobs'[g].pc = "idle"
  BY InvalidateTyped, IdleJob DEF LoneInv
<1>2. UNCHANGED <<stages, ready, troubles>> BY DEF Invalidate
<1> QED BY <1>1, <1>2, IdleIsSound, QuietStep

LEMMA ListForURLsLone ==
    ASSUME LoneInv, NEW g \in Goroutines, ListForURLs(g) PROVE LoneInv' /\ StaysDeleted
<1>1. TypeInv' /\ Others(g) /\ jobs[g].pc = "urls" /\ jobs'[g].pc = "fill"
  BY ListForURLsTyped DEF LoneInv
<1>2. UNCHANGED <<stages, ready, troubles>> BY DEF ListForURLs
<1> QED BY <1>1, <1>2, IdleIsSound, QuietStep

LEMMA FillLone ==
    ASSUME LoneInv, NEW g \in Goroutines, Fill(g) PROVE LoneInv' /\ StaysDeleted
<1>1. TypeInv' /\ Others(g) /\ jobs[g].pc = "fill" /\ jobs'[g].pc = "idle"
  BY FillTyped, IdleJob DEF LoneInv
<1>2. UNCHANGED <<stages, ready, troubles>> BY DEF Fill
<1> QED BY <1>1, <1>2, IdleIsSound, QuietStep

\* The namespace is gone with its pods: nothing of the stage is ready.
LEMMA RemoveNamespaceLone ==
    ASSUME LoneInv, NEW g \in Goroutines, RemoveNamespace(g) PROVE LoneInv' /\ StaysDeleted
<1>1. /\ TypeInv' /\ Others(g) /\ jobs[g].pc = "remove" /\ ready' \subseteq ready
      /\ \/ /\ jobs'[g].pc = "settleDeleted" /\ jobs'[g].id = jobs[g].id
            /\ jobs'[g].copy.slug = jobs[g].copy.slug
            /\ ready' = ready \ {jobs[g].copy.slug}
         \/ jobs'[g] = Idle
      /\ troubles \subseteq troubles'
  BY RemoveNamespaceTyped, TroubleTyped DEF LoneInv
<1>2. UNCHANGED stages BY DEF RemoveNamespace
<1>3. Lone => Free(g)' /\ Held(g)' BY <1>1, <1>2, LoneFacts, IdleJob DEF Free, Held
<1>4. JobGone(g)' BY <1>1, IdleJob DEF JobGone
<1> QED BY <1>1, <1>2, <1>3, <1>4, QuietStep

\* A deleted stage is not seen ready, so the copy to be written says deleted too.
LEMMA QueryRuntimeLone ==
    ASSUME LoneInv, NEW g \in Goroutines, QueryRuntime(g) PROVE LoneInv' /\ StaysDeleted
<1>1. /\ TypeInv' /\ Others(g) /\ jobs[g].pc = "query"
      /\ \/ /\ jobs'[g].pc = "write" /\ jobs'[g].id = jobs[g].id
            /\ jobs'[g].copy.status =
                  IF jobs[g].copy.slug \in ready THEN "active" ELSE jobs[g].copy.status
         \/ jobs'[g] = Idle
      /\ troubles \subseteq troubles'
  BY QueryRuntimeTyped, TroubleTyped DEF LoneInv
<1>2. UNCHANGED <<stages, ready>> BY DEF QueryRuntime
<1>3. jobs[g].id \in Ids BY <1>1, LoneFacts DEF Fits, OnRow, Ids
<1>4. Lone => stages[jobs[g].id] = jobs[g].copy BY <1>1, LoneFacts DEF Held
<1>5. Lone => Free(g)' /\ Held(g)' BY <1>1, <1>2, <1>4, IdleJob DEF Free, Held
<1>6. Timely => JobGone(g)'
  BY <1>1, <1>2, <1>3, <1>4, LoneFacts, IdleJob DEF JobGone, RowsGone
<1> QED BY <1>1, <1>2, <1>5, <1>6, QuietStep

\* Steps that write the table.
LEMMA InsertLone ==
    ASSUME LoneInv, NEW g \in Goroutines, Insert(g) PROVE LoneInv' /\ StaysDeleted
<1> DEFINE row == jobs[g].copy
<1>1. /\ TypeInv /\ TypeInv' /\ Others(g) /\ jobs[g].pc = "insert" /\ row.status = "creating"
      /\ \/ /\ stages' = Append(stages, row)
            /\ jobs'[g].pc = "apply" /\ jobs'[g].id = Len(stages) + 1
         \/ jobs'[g] = Idle
      /\ stages' # stages =>
            stages' = Append(stages, row) /\ (~Unique \/ WithSlug(row.slug) = {})
      /\ troubles \subseteq troubles'
  BY InsertTyped, TroubleTyped DEF LoneInv
<1>2. ready' = ready BY DEF Insert
<1>3. CASE stages' = stages
  <2>1. stages' # Append(stages, row) BY <1>1, <1>3, TypedFacts, JobFields, RowAppended
  <2> QED BY <1>1, <1>2, <1>3, <2>1, IdleJob, IdleIsSound, QuietStep
<1>4. CASE stages' = Append(stages, row)
  <2> DEFINE n == Len(stages) + 1
  <2>1. /\ Ids' = Ids \cup {n} /\ stages'[n] = row /\ \A j \in Ids : stages'[j] = stages[j]
        /\ n \notin Ids
    BY <1>1, <1>4, TypedFacts, JobFields, RowAppended
  <2>2. stages' # stages
    BY <2>1, <1>4 DEF Ids
  <2>3. Lone => WithSlug(row.slug) = {} BY <1>1, LoneFacts DEF Free
  <2>4. /\ (Lone' => Lone) /\ (Timely' => Timely) /\ (Timely' => Lone')
    BY <1>1 DEF Lone, Timely
  <2>5. Unique \/ Lone' => WithSlug(row.slug) = {} BY <1>1, <2>2, <2>3, <2>4
  <2>6. OneStagePerSlug'
    <3> HIDE DEF n, row
    <3> SUFFICES ASSUME Unique \/ Lone', NEW i \in Ids', NEW j \in Ids', stages'[i].slug = stages'[j].slug
                 PROVE  i = j
      BY DEF OneStagePerSlug, Lone
    <3>1. \A k \in Ids : stages[k].slug # row.slug BY <2>5 DEF WithSlug
    <3>2. i \in Ids /\ j \in Ids => i = j BY <2>1, <2>4 DEF LoneInv, OneStagePerSlug, Lone
    <3> QED BY <2>1, <3>1, <3>2
  <2>7. Free(g)' /\ Held(g)' /\ JobGone(g)'
    BY <1>1, <2>1, IdleJob DEF Free, Held, JobGone
  <2>8. Timely' => RowsGone'
    BY <1>1, <1>2, <2>1, <2>4, LoneFacts DEF RowsGone
  <2>9. StaysDeleted BY <2>1 DEF StaysDeleted
  <2> QED BY <1>1, <2>6, <2>7, <2>8, <2>9, AloneAtWork, StepKeeps
<1> QED BY <1>1, <1>3, <1>4

\* A row written over keeps its slug.
LEMMA SlugsKept ==
    ASSUME LoneInv, TypeInv', Ids' = Ids, Kept, troubles \subseteq troubles'
    PROVE  OneStagePerSlug'
BY DEF LoneInv, OneStagePerSlug, Kept

\* A job that has its copy written over its row, or not, and goes no further with rows.
LEMMA CopyStep ==
    ASSUME LoneInv, NEW g \in Goroutines, TypeInv', Others(g),
           jobs[g].pc \in {"settle", "settleDeleted", "write"},
           jobs'[g].pc \in {"idle", "invalidate"},
           jobs[g].id \in Ids, Ids' = Ids, ready' = ready, troubles \subseteq troubles',
           \/ /\ stages'[jobs[g].id] = jobs[g].copy
              /\ \A i \in Ids : i # jobs[g].id => stages'[i] = stages[i]
           \/ stages' = stages,
           Timely => (jobs[g].copy.status = "deleted" => jobs[g].copy.slug \notin ready),
           Timely => (stages[jobs[g].id].status = "deleted" => jobs[g].copy.status = "deleted")
    PROVE  LoneInv' /\ StaysDeleted
<1>1. CASE stages' = stages BY <1>1, IdleIsSound, QuietStep
<1>2. CASE /\ stages'[jobs[g].id] = jobs[g].copy
           /\ \A i \in Ids : i # jobs[g].id => stages'[i] = stages[i]
  <2>1. jobs[g].copy.slug = stages[jobs[g].id].slug BY LoneFacts DEF Fits, OnRow
  <2>2. Kept BY <1>2, <2>1 DEF Kept
  <2>3. Timely' => Timely BY DEF Timely
  <2>4. Timely' => RowsGone' BY <1>2, <2>3, LoneFacts DEF RowsGone
  <2>5. StaysDeleted BY <1>2 DEF StaysDeleted, Timely
  <2> QED BY <2>2, <2>4, <2>5, SlugsKept, IdleIsSound, AloneAtWork, StepKeeps
<1> QED BY <1>1, <1>2

LEMMA SettleLone ==
    ASSUME LoneInv, NEW g \in Goroutines, Settle(g) PROVE LoneInv' /\ StaysDeleted
<1>1. /\ TypeInv' /\ Others(g) /\ jobs[g].pc = "settle" /\ jobs[g].id \in Ids /\ Ids' = Ids
      /\ jobs'[g].pc \in {"idle", "invalidate"}
      /\ \/ /\ stages'[jobs[g].id] = jobs[g].copy
            /\ \A i \in Ids : i # jobs[g].id => stages'[i] = stages[i]
         \/ stages' = stages
      /\ troubles \subseteq troubles'
  BY SettleTyped, TroubleTyped, IdleJob DEF LoneInv
<1>2. ready' = ready BY DEF Settle
<1>3. jobs[g].copy.status # "deleted" BY <1>1, LoneFacts DEF Fits
<1>4. Lone => stages[jobs[g].id].status = "creating" BY <1>1, LoneFacts DEF Held
<1> QED BY <1>1, <1>2, <1>3, <1>4, LoneFacts, CopyStep

\* The row a deletion found, deleted already or not, becomes "deleting".
LEMMA MarkDeletingLone ==
    ASSUME LoneInv, NEW g \in Goroutines, MarkDeleting(g) PROVE LoneInv' /\ StaysDeleted
<1> DEFINE i == jobs[g].id
<1>1. /\ TypeInv' /\ Others(g) /\ jobs[g].pc = "mark" /\ i \in Ids /\ Ids' = Ids
      /\ jobs[g].copy.status = "deleting" /\ jobs[g].copy.slug = stages[i].slug
      /\ \/ /\ stages'[i] = jobs[g].copy
            /\ \A j \in Ids : j # i => stages'[j] = stages[j]
         \/ stages' = stages
      /\ \/ jobs'[g].pc = "remove" /\ jobs'[g].id = i /\ stages'[i] = jobs[g].copy
         \/ jobs'[g] = Idle
      /\ troubles \subseteq troubles'
  BY MarkDeletingTyped, TroubleTyped DEF LoneInv
<1>2. ready' = ready BY DEF MarkDeleting
<1>3. Lone' => \A h \in Goroutines : h # g => jobs[h] = Idle BY <1>1, AloneAtWork
<1>4. Kept BY <1>1 DEF Kept
<1>5. OneStagePerSlug' BY <1>1, <1>4, SlugsKept
<1>6. Free(g)' /\ Held(g)' /\ JobGone(g)' BY <1>1, IdleJob DEF Free, Held, JobGone
<1>7. Timely' => RowsGone' BY <1>1, <1>2, LoneFacts DEF RowsGone, Timely
<1>8. StaysDeleted BY <1>1 DEF StaysDeleted
<1> QED BY <1>1, <1>3, <1>5, <1>6, <1>7, <1>8, StepKeeps

LEMMA SettleDeletedLone ==
    ASSUME LoneInv, NEW g \in Goroutines, SettleDeleted(g) PROVE LoneInv' /\ StaysDeleted
<1>1. /\ TypeInv' /\ Others(g) /\ jobs[g].pc = "settleDeleted" /\ jobs[g].id \in Ids /\ Ids' = Ids
      /\ jobs'[g].pc \in {"idle", "invalidate"} /\ jobs[g].copy.status = "deleted"
      /\ \/ /\ stages'[jobs[g].id] = jobs[g].copy
            /\ \A i \in Ids : i # jobs[g].id => stages'[i] = stages[i]
         \/ stages' = stages
      /\ troubles \subseteq troubles'
  BY SettleDeletedTyped, TroubleTyped, IdleJob DEF LoneInv
<1>2. ready' = ready BY DEF SettleDeleted
<1>3. Timely => jobs[g].copy.slug \notin ready BY <1>1, LoneFacts DEF JobGone
<1> QED BY <1>1, <1>2, <1>3, CopyStep

LEMMA WriteLone ==
    ASSUME LoneInv, NEW g \in Goroutines, Write(g) PROVE LoneInv' /\ StaysDeleted
<1>1. /\ TypeInv' /\ Others(g) /\ jobs[g].pc = "write" /\ jobs[g].id \in Ids /\ Ids' = Ids
      /\ jobs'[g].pc \in {"idle", "invalidate"}
      /\ \/ /\ stages'[jobs[g].id] = jobs[g].copy
            /\ \A i \in Ids : i # jobs[g].id => stages'[i] = stages[i]
         \/ stages' = stages
      /\ troubles \subseteq troubles'
  BY WriteTyped, TroubleTyped, IdleJob DEF LoneInv
<1>2. ready' = ready BY DEF Write
<1>3. Lone /\ jobs[g].copy.status = "deleted" => stages[jobs[g].id].status = "deleted"
  BY <1>1, LoneFacts DEF Held
<1>4. jobs[g].copy.slug = stages[jobs[g].id].slug BY <1>1, LoneFacts DEF Fits, OnRow
<1>5. Timely => (jobs[g].copy.status = "deleted" => jobs[g].copy.slug \notin ready)
  BY <1>1, <1>3, <1>4, LoneFacts DEF RowsGone
<1>6. Timely => (stages[jobs[g].id].status = "deleted" => jobs[g].copy.status = "deleted")
  BY <1>1, LoneFacts DEF JobGone
<1> QED BY <1>1, <1>2, <1>5, <1>6, CopyStep

-----------------------------------------------------------------------------
(* Requests, and steps of nobody's job, one at a time *)

LEMMA AllIdle ==
    ASSUME LoneInv, NEW g, NEW job, NEW news \in SUBSET {"late"}, BeginWith(g, job, news)
    PROVE  /\ troubles \subseteq troubles' /\ news \subseteq troubles'
           /\ Lone' => \A h \in Goroutines : h # g => jobs[h] = Idle
<1>1. /\ troubles \subseteq troubles' /\ news \subseteq troubles'
      /\ "overlap" \notin troubles' => \A h \in Goroutines : jobs[h].pc = "idle"
  BY BeginFacts DEF LoneInv
<1> QED BY <1>1 DEF Lone, LoneInv, TypeInv, Fits

\* A request that leaves the table as it is.
LEMMA QuietBegin ==
    ASSUME LoneInv, NEW g \in Goroutines, TypeInv', Others(g), NEW job, NEW news \in SUBSET {"late"},
           BeginWith(g, job, news), UNCHANGED <<stages, ready>>,
           Lone' => Free(g)' /\ Held(g)', Timely' => JobGone(g)'
    PROVE  LoneInv' /\ StaysDeleted
BY AllIdle, TableKept, StepKeeps

LEMMA BeginListLone == ASSUME LoneInv, NEW g, BeginList(g) PROVE LoneInv' /\ StaysDeleted
<1>1. TypeInv' /\ Others(g) /\ g \in Goroutines /\ jobs'[g].pc = "list"
  BY BeginListTyped DEF LoneInv
<1>2. BeginWith(g, Does(g, "list"), {}) /\ UNCHANGED <<stages, ready>> /\ {} \in SUBSET {"late"}
  BY DEF BeginList, Begin
<1> QED BY <1>1, <1>2, IdleIsSound, QuietBegin

LEMMA BeginURLsLone == ASSUME LoneInv, NEW g, BeginURLs(g) PROVE LoneInv' /\ StaysDeleted
<1>1. TypeInv' /\ Others(g) /\ g \in Goroutines /\ jobs'[g].pc = "urls"
  BY BeginURLsTyped DEF LoneInv
<1>2. BeginWith(g, Does(g, "urls"), {}) /\ UNCHANGED <<stages, ready>> /\ {} \in SUBSET {"late"}
  BY DEF BeginURLs, Begin
<1> QED BY <1>1, <1>2, IdleIsSound, QuietBegin

LEMMA BeginCreateLone ==
    ASSUME LoneInv, NEW g, NEW slug \in Slugs, BeginCreate(g, slug) PROVE LoneInv' /\ StaysDeleted
<1>1. TypeInv' /\ Others(g) /\ g \in Goroutines /\ jobs'[g].pc = "check"
  BY BeginCreateTyped DEF LoneInv
<1>2. /\ BeginWith(g, [Idle EXCEPT !.pc = "check", !.copy = NewStage(slug)], {})
      /\ UNCHANGED <<stages, ready>> /\ {} \in SUBSET {"late"}
  BY DEF BeginCreate, Begin
<1> QED BY <1>1, <1>2, IdleIsSound, QuietBegin

LEMMA BeginResolveLone == ASSUME LoneInv, NEW g, BeginResolve(g) PROVE LoneInv' /\ StaysDeleted
<1>1. /\ TypeInv' /\ Others(g) /\ g \in Goroutines
      /\ jobs'[g].pc = "insert" /\ jobs'[g].copy.slug = Production
  BY BeginResolveTyped DEF LoneInv
<1>2. /\ BeginWith(g, Does(g, "insert"), {}) /\ UNCHANGED <<stages, ready>> /\ {} \in SUBSET {"late"}
      /\ WithSlug(Production) = {}
  BY DEF BeginResolve, Begin
<1>3. Free(g)' /\ Held(g)' /\ JobGone(g)'
  BY <1>1, <1>2 DEF Free, Held, JobGone, WithSlug, Ids
<1> QED BY <1>1, <1>2, <1>3, QuietBegin

LEMMA BeginRuntimeStatusLone ==
    ASSUME LoneInv, NEW g, NEW i \in Ids, BeginRuntimeStatus(g, i) PROVE LoneInv' /\ StaysDeleted
<1>1. /\ TypeInv' /\ Others(g) /\ g \in Goroutines
      /\ jobs'[g].pc = "query" /\ jobs'[g].id = i /\ jobs'[g].copy = stages[i]
  BY BeginRuntimeStatusTyped DEF LoneInv
<1>2. /\ BeginWith(g, [Idle EXCEPT !.pc = "query", !.id = i, !.copy = stages[i]], {})
      /\ UNCHANGED <<stages, ready>> /\ {} \in SUBSET {"late"}
  BY DEF BeginRuntimeStatus, Begin
<1>3. Free(g)' /\ Held(g)' /\ JobGone(g)' BY <1>1, <1>2 DEF Free, Held, JobGone
<1> QED BY <1>1, <1>2, <1>3, QuietBegin

LEMMA BeginPublishLone ==
    ASSUME LoneInv, NEW g, NEW i \in Ids, BeginPublish(g, i) PROVE LoneInv' /\ StaysDeleted
<1>1. /\ TypeInv' /\ Others(g) /\ g \in Goroutines
      /\ jobs'[g].pc = "write" /\ jobs'[g].id = i /\ jobs'[g].copy = stages[i]
  BY BeginPublishTyped DEF LoneInv
<1>2. /\ BeginWith(g, [Idle EXCEPT !.pc = "write", !.id = i, !.copy = stages[i]], {})
      /\ UNCHANGED <<stages, ready>> /\ {} \in SUBSET {"late"}
  BY DEF BeginPublish, Begin
<1>3. Free(g)' /\ Held(g)' /\ JobGone(g)' BY <1>1, <1>2 DEF Free, Held, JobGone
<1> QED BY <1>1, <1>2, <1>3, QuietBegin

LEMMA BeginReportLone ==
    ASSUME LoneInv, NEW g, NEW i \in Ids, BeginReport(g, i) PROVE LoneInv' /\ StaysDeleted
<1>1. /\ TypeInv' /\ Others(g) /\ g \in Goroutines
      /\ jobs'[g].pc = "write" /\ jobs'[g].id = i /\ jobs'[g].copy.status \in {"active", "failed"}
      /\ stages[i].status \in Gone => "late" \in troubles'
  BY BeginReportTyped DEF LoneInv
<1>2. PICK job : BeginWith(g, job, Late(i)) BY DEF BeginReport
<1>3. Late(i) \in SUBSET {"late"} /\ UNCHANGED <<stages, ready>> BY DEF Late, BeginReport
<1>4. Free(g)' /\ Held(g)' BY <1>1 DEF Free, Held
<1>5. Timely' => JobGone(g)' BY <1>1, <1>3 DEF JobGone, Timely, Gone
<1> QED BY <1>1, <1>2, <1>3, <1>4, <1>5, QuietBegin

LEMMA BeginDeleteLone ==
    ASSUME LoneInv, NEW g, NEW i \in Ids, BeginDelete(g, i) PROVE LoneInv' /\ StaysDeleted
<1>1. TypeInv' /\ Others(g) /\ g \in Goroutines /\ jobs'[g].pc = "mark"
  BY BeginDeleteTyped DEF LoneInv
<1>2. PICK job : BeginWith(g, job, {}) BY DEF BeginDelete, Begin
<1>3. {} \in SUBSET {"late"} /\ UNCHANGED <<stages, ready>> BY DEF BeginDelete
<1>4. Free(g)' /\ Held(g)' /\ JobGone(g)' BY <1>1 DEF Free, Held, JobGone
<1> QED BY <1>1, <1>2, <1>3, <1>4, QuietBegin

\* A deployment into the namespace of a stage that is gone is late; another stage
\* has another slug.
LEMMA DeployLone == ASSUME LoneInv, NEW i \in Ids, Deploy(i) PROVE LoneInv' /\ StaysDeleted
<1>1. TypeInv /\ TypeInv' BY DeployTyped DEF LoneInv
<1>2. /\ UNCHANGED <<stages, jobs>> /\ ready' = ready \cup {stages[i].slug}
      /\ troubles' = troubles \cup Late(i)
  BY DEF Deploy
<1>3. Ids' = Ids /\ (Lone' <=> Lone) /\ (Timely' => Timely) /\ (Timely' => stages[i].status \notin Gone)
  BY <1>2 DEF Ids, Lone, Timely, Late
<1>4. StaysDeleted BY <1>2 DEF StaysDeleted
<1>5. OneStagePerSlug' /\ Alone' BY <1>2, <1>3 DEF LoneInv, OneStagePerSlug, Alone, Lone
<1>6. Lone' => \A g \in Goroutines : Free(g)' /\ Held(g)'
  <2> SUFFICES ASSUME Lone', NEW g \in Goroutines PROVE Free(g)' /\ Held(g)' OBVIOUS
  <2> QED BY <1>2, <1>3, LoneFacts DEF Free, Held, WithSlug
<1>7. ASSUME Timely' PROVE RowsGone' /\ \A g \in Goroutines : JobGone(g)'
  <2>1. Timely /\ Lone /\ stages[i].status \notin Gone BY <1>3, <1>7 DEF Timely, Lone
  <2>2. \A j \in Ids : stages[j].slug = stages[i].slug => j = i
    BY <2>1 DEF LoneInv, OneStagePerSlug, Lone
  <2>3. RowsGone' BY <1>2, <1>3, <2>1, <2>2 DEF LoneInv, RowsGone, Gone
  <2>4. ASSUME NEW g \in Goroutines PROVE JobGone(g)'
    <3>1. Fits(jobs[g], stages) /\ Held(g) /\ JobGone(g) BY <2>1, LoneFacts
    <3>2. jobs[g].pc = "settleDeleted" => jobs[g].copy.slug # stages[i].slug
      BY <2>1, <2>2, <3>1 DEF Fits, OnRow, Held, Gone, Ids
    <3> QED BY <1>2, <3>1, <3>2 DEF JobGone
  <2> QED BY <2>3, <2>4
<1> QED BY <1>1, <1>4, <1>5, <1>6, <1>7 DEF LoneInv

LEMMA StutterLone ==
    ASSUME LoneInv, UNCHANGED <<stages, ready, jobs, troubles>>, TypeInv' PROVE LoneInv' /\ StaysDeleted
<1>1. OneStagePerSlug' /\ Alone' /\ Ids' = Ids /\ (Lone' <=> Lone) /\ (Timely' <=> Timely)
  BY DEF LoneInv, OneStagePerSlug, Alone, Lone, Timely, Ids
<1>2. ASSUME NEW g \in Goroutines PROVE (Lone' => Free(g)' /\ Held(g)') /\ (Timely' => JobGone(g)')
  BY <1>1, LoneFacts DEF Free, Held, JobGone, WithSlug
<1>3. Timely' => RowsGone' BY <1>1 DEF LoneInv, RowsGone
<1> QED BY <1>1, <1>2, <1>3 DEF LoneInv, StaysDeleted

LEMMA CrashLone == ASSUME LoneInv, Crash PROVE LoneInv' /\ StaysDeleted
<1>1. /\ TypeInv' /\ \A g \in Goroutines : jobs'[g].pc = "idle"
  BY CrashTyped, IdleJob DEF LoneInv, Crash
<1>2. UNCHANGED <<stages, ready>> /\ troubles \subseteq troubles' BY TroubleTyped DEF Crash, LoneInv
<1>3. Alone' BY <1>1 DEF Alone
<1>4. \A g \in Goroutines : Free(g)' /\ Held(g)' /\ JobGone(g)' BY <1>1, IdleIsSound
<1> QED BY <1>1, <1>2, <1>3, <1>4, TableKept DEF LoneInv

LEMMA StepsLone ==
    ASSUME LoneInv, NEW g \in Goroutines, Step(g) PROVE LoneInv' /\ StaysDeleted
BY CheckSlugLone, CheckKubeconfigLone, ListStagesLone, InsertLone, ApplyNamespaceLone, SettleLone,
   MarkDeletingLone, RemoveNamespaceLone, SettleDeletedLone, InvalidateLone, QueryRuntimeLone, WriteLone,
   ListForURLsLone, FillLone DEF Step, CreateStep, DeleteStep

LEMMA RequestLone ==
    ASSUME LoneInv, NEW g \in Handlers, Request(g) PROVE LoneInv' /\ StaysDeleted
BY BeginListLone, BeginURLsLone, BeginResolveLone, BeginCreateLone, BeginPublishLone, BeginDeleteLone,
   BeginRuntimeStatusLone, BeginReportLone DEF Request

LEMMA NextLone == LoneInv /\ [Next]_vars => LoneInv' /\ StaysDeleted
<1> SUFFICES ASSUME LoneInv, [Next]_vars PROVE LoneInv' /\ StaysDeleted OBVIOUS
<1>1. CASE Expire BY <1>1, ExpireTyped, StutterLone DEF Expire, LoneInv
<1>2. CASE UNCHANGED vars BY <1>2, NextTyped, StutterLone DEF vars, LoneInv
<1> QED BY <1>1, <1>2, NextCases, ActivateLone, StepsLone, RequestLone, DeployLone, CrashLone

LEMMA InitLone == Init => LoneInv
<1> SUFFICES ASSUME Init PROVE LoneInv OBVIOUS
<1> DEFINE first == [Idle EXCEPT !.pc = "activate"]
<1>1. TypeInv /\ stages = <<>> /\ Ids = {} BY InitTyped DEF Init, Ids
<1>2. first.pc = "activate" /\ Idle.pc = "idle" BY IdleJob DEF Job
<1>3. jobs = [g \in Goroutines |-> IF g = Provisioner THEN first ELSE Idle] BY DEF Init
<1> HIDE DEF first
<1>4. \A g \in Goroutines : IF g = Provisioner THEN jobs[g].pc = "activate" ELSE jobs[g].pc = "idle"
  BY <1>2, <1>3
<1>5. Alone BY <1>4 DEF Alone
<1>6. \A g \in Goroutines : Free(g) /\ Held(g) /\ JobGone(g)
  BY <1>1, <1>4 DEF Free, Held, JobGone
<1> QED BY <1>1, <1>5, <1>6 DEF LoneInv, OneStagePerSlug, RowsGone

\* A slug names one stage: on Postgres always, in memory unless two jobs overlap, by
\* the lookups before each insertion alone.
THEOREM SlugsAreUnique == Spec => []OneStagePerSlug
<1>1. LoneInv => OneStagePerSlug BY DEF LoneInv
<1> QED BY <1>1, InitLone, NextLone, PTL DEF Spec

\* No step makes a deleted stage anything but "deleting" again, unless news came late
\* or jobs overlapped: not the status that is asked for, not a fault, not a restart.
THEOREM DeletedIsForGood == Spec => DeletedStaysDeleted
<1>1. LoneInv /\ [Next]_vars =>
        [\A i \in Ids : stages[i].status = "deleted" /\ stages'[i].status # "deleted"
            => stages'[i].status = "deleting" \/ troubles' \cap {"late", "overlap"} # {}]_vars
  BY NextLone DEF StaysDeleted
<1> QED BY <1>1, InitLone, NextLone, PTL DEF Spec, DeletedStaysDeleted
-----------------------------------------------------------------------------
(* Without trouble *)

\* What the invariant says when only g may be at work.
LEMMA TrueFacts ==
    ASSUME LoneInv, TrueInv, troubles = {}, NEW g \in Goroutines,
           \A h \in Goroutines : h # g => jobs[h] = Idle
    PROVE  /\ TypeInv /\ Fits(jobs[g], stages) /\ Held(g)
           /\ \A i \in Ids : RowTrue(i, jobs[g])
           /\ CopyTrue(g)
           /\ jobs[g].pc # "activate" => project = "active"
           /\ cache \in {NoCache, Shown} \/ jobs[g].pc \in Changing
           /\ \A i, j \in Ids : stages[i].slug = stages[j].slug => i = j
<1>1. TypeInv /\ Fits(jobs[g], stages) /\ Held(g) BY LoneFacts DEF Lone
<1>2. \A h \in Goroutines : h # g => jobs[h].pc = "idle" BY IdleJob
<1>3. \A i \in Ids : RowTrue(i, jobs[g])
  <2> SUFFICES ASSUME NEW i \in Ids PROVE RowTrue(i, jobs[g]) OBVIOUS
  <2> PICK h \in Goroutines : RowTrue(i, jobs[h]) BY DEF TrueInv
  <2>1. CASE h = g BY <2>1
  <2>2. CASE h # g BY <1>2, <2>2 DEF RowTrue
  <2> QED BY <2>1, <2>2
<1>4. jobs[g].pc # "activate" => project = "active"
  BY <1>1, <1>2, TypedFacts DEF TrueInv, Goroutines
<1>5. cache \in {NoCache, Shown} \/ jobs[g].pc \in Changing BY <1>2 DEF TrueInv, Changing
<1>6. \A i, j \in Ids : stages[i].slug = stages[j].slug => i = j
  BY DEF LoneInv, OneStagePerSlug
<1> QED BY <1>1, <1>3, <1>4, <1>5, <1>6 DEF TrueInv

\* The goroutine that makes the step is the only one that needs a look.
LEMMA TrueStep ==
    ASSUME NEW g \in Goroutines, Others(g),
           \A h \in Goroutines : h # g => jobs[h] = Idle,
           project' = "active",
           \A i \in Ids' : RowTrue(i, jobs[g])',
           CopyTrue(g)',
           cache' \in {NoCache, Shown'} \/ jobs'[g].pc \in Changing
    PROVE  TrueInv'
<1>1. \A h \in Goroutines : h # g => jobs'[h].pc = "idle" BY IdleJob DEF Others
<1>2. \A h \in Goroutines : CopyTrue(h)' BY <1>1 DEF CopyTrue
<1>3. \A i \in Ids' : \E h \in Goroutines : RowTrue(i, jobs[h])' OBVIOUS
<1> QED BY <1>2, <1>3 DEF TrueInv

\* A step without trouble finds the others idle.
LEMMA TrueWork ==
    ASSUME LoneInv, NEW g \in Goroutines, jobs[g].pc # "idle", troubles' = {}, troubles \subseteq troubles'
    PROVE  troubles = {} /\ \A h \in Goroutines : h # g => jobs[h] = Idle
<1>1. Lone' BY DEF Lone
<1> QED BY <1>1, AloneAtWork

\* Steps that leave the rows and the namespaces as they are, of a job that works on no
\* row that is half-way.
LEMMA CalmStep ==
    ASSUME LoneInv, TrueInv, NEW g \in Goroutines, Others(g), troubles = {},
           \A h \in Goroutines : h # g => jobs[h] = Idle,
           jobs[g].pc \notin {"apply", "settle", "remove", "settleDeleted"},
           UNCHANGED <<stages, namespaces>>, project' = "active",
           CopyTrue(g)',
           (cache' = cache /\ jobs[g].pc # "invalidate") \/ cache' \in {NoCache, Shown}
    PROVE  TrueInv'
<1>1. Ids' = Ids /\ Shown' = Shown BY DEF Ids, Shown
<1>2. \A i \in Ids : RowTrue(i, jobs[g]) BY TrueFacts
<1>3. \A i \in Ids' : RowTrue(i, jobs[g])' BY <1>1, <1>2 DEF RowTrue
<1>4. cache' \in {NoCache, Shown'} BY <1>1, TrueFacts DEF Changing
<1> QED BY <1>1, <1>3, <1>4, TrueStep

LEMMA PlainCopy ==
    ASSUME NEW g, jobs'[g].pc \notin {"settle", "settleDeleted", "write", "fill"}
    PROVE  CopyTrue(g)'
BY DEF CopyTrue

\* For most steps the rows, the namespaces and the cache stay as they are.
LEMMA CalmSteps ==
    ASSUME LoneInv, TrueInv, NEW g \in Goroutines, troubles' = {},
           CheckSlug(g) \/ CheckKubeconfig(g) \/ ListStages(g) \/ Invalidate(g)
    PROVE  TrueInv'
<1>1. /\ Others(g) /\ jobs[g].pc \in {"check", "kubeconfig", "list", "invalidate"}
      /\ jobs'[g].pc \in {"kubeconfig", "insert", "idle"}
      /\ troubles \subseteq troubles'
  <2>1. CASE CheckSlug(g) BY <2>1, CheckSlugTyped, IdleJob DEF LoneInv, CheckSlug
  <2>2. CASE CheckKubeconfig(g) BY <2>2, CheckKubeconfigTyped, TroubleTyped, IdleJob DEF LoneInv
  <2>3. CASE ListStages(g) BY <2>3, ListStagesTyped, IdleJob DEF LoneInv, ListStages
  <2>4. CASE Invalidate(g) BY <2>4, InvalidateTyped, IdleJob DEF LoneInv, Invalidate
  <2> QED BY <2>1, <2>2, <2>3, <2>4
<1>2. UNCHANGED <<project, stages, namespaces>>
  BY DEF CheckSlug, CheckKubeconfig, ListStages, Invalidate
<1>3. (cache' = cache /\ jobs[g].pc # "invalidate") \/ cache' = NoCache
  BY <1>1 DEF CheckSlug, CheckKubeconfig, ListStages, Invalidate, At
<1>4. troubles = {} /\ \A h \in Goroutines : h # g => jobs[h] = Idle BY <1>1, TrueWork
<1>5. project' = "active" BY <1>1, <1>2, <1>4, TrueFacts
<1> QED BY <1>1, <1>2, <1>3, <1>4, <1>5, PlainCopy, CalmStep

LEMMA ActivateTrue == ASSUME LoneInv, TrueInv, troubles' = {}, Activate PROVE TrueInv'
<1> DEFINE g == Provisioner
<1>1. /\ g \in Goroutines /\ Others(g) /\ jobs[g].pc = "activate" /\ jobs'[g].pc = "insert"
  BY ActivateTyped DEF LoneInv, Goroutines
<1>2. UNCHANGED <<stages, namespaces, cache, troubles>> /\ project' = "active" BY DEF Activate
<1>3. troubles = {} /\ \A h \in Goroutines : h # g => jobs[h] = Idle BY <1>1, <1>2, TrueWork
<1> QED BY <1>1, <1>2, <1>3, PlainCopy, CalmStep

LEMMA ListForURLsTrue ==
    ASSUME LoneInv, TrueInv, NEW g \in Goroutines, troubles' = {}, ListForURLs(g) PROVE TrueInv'
<1>1. /\ Others(g) /\ jobs[g].pc = "urls" /\ jobs'[g].pc = "fill" /\ jobs'[g].listed = Shown
  BY ListForURLsTyped DEF LoneInv
<1>2. UNCHANGED <<project, stages, namespaces, cache, troubles>> BY DEF ListForURLs
<1>3. troubles = {} /\ \A h \in Goroutines : h # g => jobs[h] = Idle BY <1>1, <1>2, TrueWork
<1>4. project' = "active" BY <1>1, <1>2, <1>3, TrueFacts
<1>5. CopyTrue(g)' BY <1>1, <1>2 DEF CopyTrue, Shown, Ids
<1> QED BY <1>1, <1>2, <1>3, <1>4, <1>5, CalmStep

LEMMA FillTrue ==
    ASSUME LoneInv, TrueInv, NEW g \in Goroutines, troubles' = {}, Fill(g) PROVE TrueInv'
<1>1. Others(g) /\ jobs[g].pc = "fill" /\ jobs'[g].pc = "idle"
  BY FillTyped, IdleJob DEF LoneInv
<1>2. UNCHANGED <<project, stages, namespaces, troubles>> /\ cache' = jobs[g].listed BY DEF Fill
<1>3. troubles = {} /\ \A h \in Goroutines : h # g => jobs[h] = Idle BY <1>1, <1>2, TrueWork
<1>4. project' = "active" BY <1>1, <1>2, <1>3, TrueFacts
<1>5. cache' = Shown BY <1>1, <1>2, <1>3, TrueFacts DEF CopyTrue
<1> QED BY <1>1, <1>2, <1>3, <1>4, <1>5, PlainCopy, CalmStep

\* What has been seen is what there is: ready pods are in a namespace.
LEMMA QueryRuntimeTrue ==
    ASSUME LoneInv, TrueInv, NEW g \in Goroutines, troubles' = {}, QueryRuntime(g) PROVE TrueInv'
<1>1. /\ TypeInv /\ Others(g) /\ jobs[g].pc = "query"
      /\ \/ /\ jobs'[g].pc = "write" /\ jobs'[g].id = jobs[g].id
            /\ jobs'[g].copy.status =
                  IF jobs[g].copy.slug \in ready THEN "active" ELSE jobs[g].copy.status
         \/ jobs'[g].pc = "idle"
      /\ troubles \subseteq troubles'
  BY QueryRuntimeTyped, TroubleTyped, IdleJob DEF LoneInv
<1>2. UNCHANGED <<project, stages, namespaces, cache>> BY DEF QueryRuntime
<1>3. troubles = {} /\ \A h \in Goroutines : h # g => jobs[h] = Idle BY <1>1, TrueWork
<1>4. project' = "active" BY <1>1, <1>2, <1>3, TrueFacts
<1>5. CopyTrue(g)'
  <2>1. /\ jobs[g].id \in Ids /\ stages[jobs[g].id] = jobs[g].copy
        /\ RowTrue(jobs[g].id, jobs[g])
    BY <1>1, <1>3, TrueFacts DEF Fits, OnRow, Held, Ids
  <2>2. ready \subseteq namespaces BY <1>1, TypedFacts
  <2> QED BY <1>1, <1>2, <2>1, <2>2 DEF CopyTrue, RowTrue, Gone
<1> QED BY <1>1, <1>2, <1>3, <1>4, <1>5, CalmStep

\* Whoever inserts has found no row half-way; the new row is its own.
LEMMA InsertTrue ==
    ASSUME LoneInv, TrueInv, NEW g \in Goroutines, troubles' = {}, Insert(g) PROVE TrueInv'
<1> DEFINE row == jobs[g].copy
           n == Len(stages) + 1
<1>1. /\ TypeInv /\ Others(g) /\ jobs[g].pc = "insert" /\ row.status = "creating"
      /\ \/ /\ stages' = Append(stages, row) /\ jobs'[g].pc = "apply" /\ jobs'[g].id = n
         \/ jobs'[g].pc = "idle" /\ stages' = stages
      /\ troubles \subseteq troubles'
  BY InsertTyped, TroubleTyped, IdleJob DEF LoneInv
<1>2. UNCHANGED <<project, namespaces, cache>> BY DEF Insert
<1>3. troubles = {} /\ \A h \in Goroutines : h # g => jobs[h] = Idle BY <1>1, TrueWork
<1>4. project' = "active" BY <1>1, <1>2, <1>3, TrueFacts
<1>5. CASE jobs'[g].pc = "idle" /\ stages' = stages
  BY <1>1, <1>2, <1>3, <1>4, <1>5, PlainCopy, CalmStep
<1>6. CASE stages' = Append(stages, row) /\ jobs'[g].pc = "apply" /\ jobs'[g].id = n
  <2>1. Ids' = Ids \cup {n} /\ stages'[n] = row /\ \A j \in Ids : stages'[j] = stages[j]
    BY <1>1, <1>6, TypedFacts, JobFields, RowAppended
  <2> HIDE DEF n, row
  <2>2. \A i \in Ids : RowTrue(i, jobs[g]) BY <1>3, TrueFacts
  <2>3. \A i \in Ids' : RowTrue(i, jobs[g])' BY <1>1, <1>2, <1>6, <2>1, <2>2 DEF RowTrue
  <2> QED BY <1>1, <1>3, <1>4, <1>6, <2>3, PlainCopy, TrueStep DEF Changing
<1> QED BY <1>1, <1>5, <1>6

\* No vcluster is missing: while the project is provisioned, nobody else works.
LEMMA ApplyNamespaceTrue ==
    ASSUME LoneInv, TrueInv, NEW g \in Goroutines, troubles' = {}, ApplyNamespace(g) PROVE TrueInv'
<1>1. /\ TypeInv /\ Others(g) /\ jobs[g].pc = "apply"
      /\ jobs'[g].pc = "settle" /\ jobs'[g].id = jobs[g].id /\ jobs'[g].copy.slug = jobs[g].copy.slug
      /\ \/ jobs'[g].copy.status = "active" /\ namespaces' = namespaces \cup {jobs[g].copy.slug}
         \/ project = "provisioning"
      /\ troubles \subseteq troubles'
  BY ApplyNamespaceTyped, TroubleTyped DEF LoneInv
<1>2. UNCHANGED <<project, stages>> BY DEF ApplyNamespace
<1>3. troubles = {} /\ \A h \in Goroutines : h # g => jobs[h] = Idle BY <1>1, TrueWork
<1>4. project = "active" BY <1>1, <1>3, TrueFacts
<1>5. /\ jobs[g].id \in Ids /\ jobs[g].copy.slug = stages[jobs[g].id].slug
      /\ stages[jobs[g].id].status = "creating"
  BY <1>1, <1>3, TrueFacts DEF Fits, OnRow, Held, Ids
<1>6. /\ jobs'[g].copy.status = "active"
      /\ namespaces' = namespaces \cup {stages[jobs[g].id].slug}
  BY <1>1, <1>4, <1>5
<1>7. ASSUME NEW i \in Ids' PROVE RowTrue(i, jobs[g])'
  <2>1. i \in Ids /\ RowTrue(i, jobs[g]) BY <1>2, <1>3, TrueFacts DEF Ids
  <2>2. stages[i].slug = stages[jobs[g].id].slug => i = jobs[g].id BY <1>3, <1>5, <2>1, TrueFacts
  <2> QED BY <1>1, <1>2, <1>5, <1>6, <2>1, <2>2 DEF RowTrue
<1>8. CopyTrue(g)' BY <1>1, <1>5, <1>6 DEF CopyTrue
<1> QED BY <1>1, <1>2, <1>3, <1>4, <1>7, <1>8, TrueStep DEF Changing

LEMMA MarkDeletingTrue ==
    ASSUME LoneInv, TrueInv, NEW g \in Goroutines, troubles' = {}, MarkDeleting(g) PROVE TrueInv'
<1>1. /\ Others(g) /\ jobs[g].pc = "mark" /\ jobs[g].id \in Ids /\ Ids' = Ids
      /\ jobs[g].copy.status = "deleting"
      /\ jobs'[g].pc = "remove" /\ jobs'[g].id = jobs[g].id /\ stages'[jobs[g].id] = jobs[g].copy
      /\ \A i \in Ids : i # jobs[g].id => stages'[i] = stages[i]
      /\ troubles \subseteq troubles'
  BY MarkDeletingTyped, TroubleTyped DEF LoneInv
<1>2. UNCHANGED <<project, namespaces>> BY DEF MarkDeleting
<1>3. troubles = {} /\ \A h \in Goroutines : h # g => jobs[h] = Idle BY <1>1, TrueWork
<1>4. project = "active" /\ \A i \in Ids : RowTrue(i, jobs[g]) BY <1>1, <1>3, TrueFacts
<1>5. ASSUME NEW i \in Ids' PROVE RowTrue(i, jobs[g])' BY <1>1, <1>2, <1>4 DEF RowTrue
<1> QED BY <1>1, <1>2, <1>3, <1>4, <1>5, PlainCopy, TrueStep DEF Changing

LEMMA RemoveNamespaceTrue ==
    ASSUME LoneInv, TrueInv, NEW g \in Goroutines, troubles' = {}, RemoveNamespace(g) PROVE TrueInv'
<1>1. /\ TypeInv /\ Others(g) /\ jobs[g].pc = "remove"
      /\ jobs'[g].pc = "settleDeleted" /\ jobs'[g].id = jobs[g].id
      /\ jobs'[g].copy.slug = jobs[g].copy.slug
      /\ namespaces' = namespaces \ {jobs[g].copy.slug}
      /\ troubles \subseteq troubles'
  BY RemoveNamespaceTyped, TroubleTyped DEF LoneInv
<1>2. UNCHANGED <<project, stages>> BY DEF RemoveNamespace
<1>3. troubles = {} /\ \A h \in Goroutines : h # g => jobs[h] = Idle BY <1>1, TrueWork
<1>4. project = "active" BY <1>1, <1>3, TrueFacts
<1>5. /\ jobs[g].id \in Ids /\ jobs[g].copy.slug = stages[jobs[g].id].slug
      /\ stages[jobs[g].id].status = "deleting"
  BY <1>1, <1>3, TrueFacts DEF Fits, OnRow, Held, Ids
<1>6. ASSUME NEW i \in Ids' PROVE RowTrue(i, jobs[g])'
  <2>1. i \in Ids /\ RowTrue(i, jobs[g]) BY <1>2, <1>3, TrueFacts DEF Ids
  <2>2. stages[i].slug = stages[jobs[g].id].slug => i = jobs[g].id BY <1>3, <1>5, <2>1, TrueFacts
  <2> QED BY <1>1, <1>2, <1>5, <2>1, <2>2 DEF RowTrue
<1>7. CopyTrue(g)' BY <1>1 DEF CopyTrue
<1> QED BY <1>1, <1>2, <1>3, <1>4, <1>6, <1>7, TrueStep DEF Changing

\* The copy of a creation or a deletion is written over the row that was half-way.
LEMMA SettleTrue ==
    ASSUME LoneInv, TrueInv, NEW g \in Goroutines, troubles' = {}, Settle(g) \/ SettleDeleted(g)
    PROVE  TrueInv'
<1>1. /\ Others(g) /\ jobs[g].pc \in {"settle", "settleDeleted"} /\ jobs[g].id \in Ids /\ Ids' = Ids
      /\ troubles \subseteq troubles'
  BY SettleTyped, SettleDeletedTyped, TroubleTyped DEF LoneInv, Trouble
<1>2. UNCHANGED <<project, namespaces>> BY DEF Settle, SettleDeleted
<1>3. troubles = {} /\ \A h \in Goroutines : h # g => jobs[h] = Idle BY <1>1, TrueWork
<1>4. project = "active" BY <1>1, <1>3, TrueFacts
<1>5. /\ jobs[g].pc = "settle" => jobs[g].copy.status = "active" /\ jobs[g].copy.slug \in namespaces
      /\ jobs[g].pc = "settleDeleted" => jobs[g].copy.status = "deleted" /\ jobs[g].copy.slug \notin namespaces
      /\ \A i \in Ids : RowTrue(i, jobs[g])
  BY <1>3, TrueFacts DEF CopyTrue, Fits
<1>6. /\ stages'[jobs[g].id] = jobs[g].copy /\ jobs'[g].pc = "invalidate"
      /\ \A i \in Ids : i # jobs[g].id => stages'[i] = stages[i]
  <2>1. CASE Settle(g) BY <1>1, <1>3, <1>5, <2>1, SettleTyped, TroubleTyped DEF LoneInv
  <2>2. CASE SettleDeleted(g) BY <1>1, <1>3, <1>5, <2>2, SettleDeletedTyped, TroubleTyped DEF LoneInv
  <2> QED BY <2>1, <2>2
<1>7. ASSUME NEW i \in Ids' PROVE RowTrue(i, jobs[g])'
  BY <1>1, <1>2, <1>5, <1>6 DEF RowTrue
<1> QED BY <1>1, <1>2, <1>3, <1>4, <1>6, <1>7, PlainCopy, TrueStep DEF Changing

\* A correction changes what a row says of its pods, not whether the stage is there.
LEMMA WriteTrue ==
    ASSUME LoneInv, TrueInv, NEW g \in Goroutines, troubles' = {}, Write(g) PROVE TrueInv'
<1>1. /\ TypeInv /\ Others(g) /\ jobs[g].pc = "write" /\ jobs[g].id \in Ids /\ Ids' = Ids
      /\ jobs'[g].pc = "idle" /\ jobs[g].copy.status \in Status /\ stages[jobs[g].id].status \in Status
      /\ \/ /\ stages'[jobs[g].id] = jobs[g].copy
            /\ \A i \in Ids : i # jobs[g].id => stages'[i] = stages[i]
         \/ stages' = stages
      /\ troubles \subseteq troubles'
  BY WriteTyped, TroubleTyped, IdleJob, TypedFacts, JobFields, RowFields DEF LoneInv
<1>2. UNCHANGED <<project, namespaces, cache>> BY DEF Write
<1>3. troubles = {} /\ \A h \in Goroutines : h # g => jobs[h] = Idle BY <1>1, TrueWork
<1>4. project = "active" BY <1>1, <1>3, TrueFacts
<1>5. /\ jobs[g].copy.status \notin {"creating", "deleting"}
      /\ jobs[g].copy.status = "deleted" <=> stages[jobs[g].id].status \in Gone
      /\ jobs[g].copy.slug = stages[jobs[g].id].slug
      /\ \A i \in Ids : RowTrue(i, jobs[g])
      /\ cache \in {NoCache, Shown}
  BY <1>1, <1>3, TrueFacts DEF CopyTrue, Fits, OnRow, Changing
<1>6. ASSUME NEW i \in Ids' PROVE RowTrue(i, jobs[g])'
  BY <1>1, <1>2, <1>5 DEF RowTrue, Status, Gone
<1>7. Shown' = Shown BY <1>1, <1>5 DEF Shown, Gone
<1> QED BY <1>1, <1>2, <1>3, <1>4, <1>5, <1>6, <1>7, PlainCopy, TrueStep

-----------------------------------------------------------------------------
(* Requests, and steps of nobody's job, without trouble *)

\* A request without trouble finds everybody idle, and so the project made.
LEMMA TrueBegin ==
    ASSUME LoneInv, TrueInv, NEW g \in Goroutines, NEW job, NEW news \in SUBSET {"late"},
           BeginWith(g, job, news), troubles' = {}
    PROVE  /\ troubles = {} /\ jobs[g].pc = "idle" /\ project = "active"
           /\ \A h \in Goroutines : h # g => jobs[h] = Idle
<1>1. troubles = {} /\ jobs[g].pc = "idle" /\ \A h \in Goroutines : h # g => jobs[h] = Idle
  BY AllIdle DEF Lone, BeginWith, At
<1> QED BY <1>1, TrueFacts

LEMMA CalmBegin ==
    ASSUME LoneInv, TrueInv, NEW g \in Goroutines, Others(g), NEW job, NEW news \in SUBSET {"late"},
           BeginWith(g, job, news), troubles' = {},
           UNCHANGED <<project, stages, namespaces, cache>>, CopyTrue(g)'
    PROVE  TrueInv'
BY TrueBegin, CalmStep

LEMMA PlainBegins ==
    ASSUME LoneInv, TrueInv, NEW g, troubles' = {},
           BeginList(g) \/ BeginURLs(g) \/ BeginResolve(g) \/ \E slug \in Slugs : BeginCreate(g, slug)
    PROVE  TrueInv'
<1>1. /\ Others(g) /\ g \in Goroutines
      /\ jobs'[g].pc \in {"list", "urls", "insert", "check"}
  BY BeginListTyped, BeginURLsTyped, BeginResolveTyped, BeginCreateTyped DEF LoneInv
<1>2. PICK job : BeginWith(g, job, {})
  BY DEF BeginList, BeginURLs, BeginResolve, BeginCreate, Begin
<1>3. UNCHANGED <<project, stages, namespaces, cache>> /\ {} \in SUBSET {"late"}
  BY DEF BeginList, BeginURLs, BeginResolve, BeginCreate
<1> QED BY <1>1, <1>2, <1>3, PlainCopy, CalmBegin

LEMMA BeginRuntimeStatusTrue ==
    ASSUME LoneInv, TrueInv, NEW g, NEW i \in Ids, troubles' = {}, BeginRuntimeStatus(g, i) PROVE TrueInv'
<1>1. Others(g) /\ g \in Goroutines /\ jobs'[g].pc = "query"
  BY BeginRuntimeStatusTyped DEF LoneInv
<1>2. PICK job : BeginWith(g, job, {}) BY DEF BeginRuntimeStatus, Begin
<1>3. UNCHANGED <<project, stages, namespaces, cache>> /\ {} \in SUBSET {"late"}
  BY DEF BeginRuntimeStatus
<1> QED BY <1>1, <1>2, <1>3, PlainCopy, CalmBegin

LEMMA BeginPublishTrue ==
    ASSUME LoneInv, TrueInv, NEW g, NEW i \in Ids, troubles' = {}, BeginPublish(g, i) PROVE TrueInv'
<1>1. /\ Others(g) /\ g \in Goroutines
      /\ jobs'[g].pc = "write" /\ jobs'[g].id = i /\ jobs'[g].copy = stages[i]
  BY BeginPublishTyped DEF LoneInv
<1>2. PICK job : BeginWith(g, job, {}) BY DEF BeginPublish, Begin
<1>3. UNCHANGED <<project, stages, namespaces, cache>> /\ {} \in SUBSET {"late"}
  BY DEF BeginPublish
<1>4. RowTrue(i, jobs[g]) /\ jobs[g].pc = "idle" BY <1>1, <1>2, <1>3, TrueBegin, TrueFacts
<1>5. CopyTrue(g)' BY <1>1, <1>3, <1>4 DEF CopyTrue, RowTrue, Gone
<1> QED BY <1>1, <1>2, <1>3, <1>5, CalmBegin

LEMMA BeginReportTrue ==
    ASSUME LoneInv, TrueInv, NEW g, NEW i \in Ids, troubles' = {}, BeginReport(g, i) PROVE TrueInv'
<1>1. /\ Others(g) /\ g \in Goroutines
      /\ jobs'[g].pc = "write" /\ jobs'[g].id = i /\ jobs'[g].copy.status \in {"active", "failed"}
      /\ stages[i].status \in Gone => "late" \in troubles'
  BY BeginReportTyped DEF LoneInv
<1>2. PICK job : BeginWith(g, job, Late(i)) BY DEF BeginReport
<1>3. UNCHANGED <<project, stages, namespaces, cache>> /\ Late(i) \in SUBSET {"late"}
  BY DEF BeginReport, Late
<1>4. CopyTrue(g)' BY <1>1, <1>3 DEF CopyTrue
<1> QED BY <1>1, <1>2, <1>3, <1>4, CalmBegin

LEMMA BeginDeleteTrue ==
    ASSUME LoneInv, TrueInv, NEW g, NEW i \in Ids, troubles' = {}, BeginDelete(g, i) PROVE TrueInv'
<1>1. Others(g) /\ g \in Goroutines /\ jobs'[g].pc = "mark"
  BY BeginDeleteTyped DEF LoneInv
<1>2. PICK job : BeginWith(g, job, {}) BY DEF BeginDelete, Begin
<1>3. UNCHANGED <<project, stages, namespaces, cache>> /\ {} \in SUBSET {"late"} BY DEF BeginDelete
<1> QED BY <1>1, <1>2, <1>3, PlainCopy, CalmBegin

LEMMA DeployTrue == ASSUME LoneInv, TrueInv, NEW i \in Ids, troubles' = {}, Deploy(i) PROVE TrueInv'
<1>1. /\ UNCHANGED <<stages, jobs, cache>> /\ namespaces' = namespaces \cup {stages[i].slug}
      /\ troubles' = troubles \cup Late(i) /\ project' = "active"
  BY DEF Deploy
<1>2. troubles = {} /\ stages[i].status \notin Gone /\ Ids' = Ids /\ Shown' = Shown
  BY <1>1 DEF Late, Ids, Shown
<1>3. \A j \in Ids : stages[j].slug = stages[i].slug => j = i
  BY <1>2 DEF LoneInv, OneStagePerSlug
<1>4. ASSUME NEW j \in Ids' PROVE \E g \in Goroutines : RowTrue(j, jobs[g])'
  <2> PICK g \in Goroutines : RowTrue(j, jobs[g]) BY <1>2 DEF TrueInv
  <2>1. RowTrue(j, jobs[g])' BY <1>1, <1>2, <1>3 DEF RowTrue, Gone
  <2> QED BY <2>1
<1>5. ASSUME NEW g \in Goroutines PROVE CopyTrue(g)'
  <2>1. /\ Fits(jobs[g], stages) /\ Held(g) /\ CopyTrue(g)
    BY <1>2, LoneFacts DEF TrueInv, Lone
  <2>2. jobs[g].pc = "settleDeleted" => jobs[g].copy.slug # stages[i].slug
    BY <1>2, <1>3, <2>1 DEF Fits, OnRow, Held, Gone, Ids
  <2> QED BY <1>1, <1>2, <2>1, <2>2 DEF CopyTrue
<1>6. cache' \in {NoCache, Shown'} \/ \E g \in Goroutines : jobs'[g].pc \in Changing
  BY <1>1, <1>2 DEF TrueInv
<1> QED BY <1>1, <1>4, <1>5, <1>6 DEF TrueInv

LEMMA CacheStep ==
    ASSUME TrueInv, UNCHANGED <<project, stages, namespaces, jobs, troubles>>, cache' \in {cache, NoCache}
    PROVE  TrueInv'
BY DEF TrueInv, RowTrue, CopyTrue, Shown, Ids

LEMMA NextTrue == LoneInv /\ TrueInv /\ [Next]_vars => TrueInv'
<1> SUFFICES ASSUME LoneInv, TrueInv, [Next]_vars, troubles' = {} PROVE TrueInv'
  BY DEF TrueInv
<1>1. CASE UNCHANGED vars BY <1>1, CacheStep DEF vars
<1>2. CASE Expire BY <1>2, CacheStep DEF Expire
<1>3. CASE Crash BY <1>3, TroubleTyped DEF Crash, LoneInv
<1>4. CASE \E g \in Goroutines : Step(g)
  BY <1>4, CalmSteps, InsertTrue, ApplyNamespaceTrue, SettleTrue, MarkDeletingTrue, RemoveNamespaceTrue, QueryRuntimeTrue,
     WriteTrue, ListForURLsTrue, FillTrue DEF Step, CreateStep, DeleteStep
<1>5. CASE \E g \in Handlers : Request(g)
  BY <1>5, PlainBegins, BeginPublishTrue, BeginDeleteTrue, BeginRuntimeStatusTrue, BeginReportTrue DEF Request
<1> QED BY <1>1, <1>2, <1>3, <1>4, <1>5, NextCases, ActivateTrue, DeployTrue

LEMMA InitTrue == Init => TrueInv
<1> SUFFICES ASSUME Init PROVE TrueInv OBVIOUS
<1> DEFINE first == [Idle EXCEPT !.pc = "activate"]
<1>1. Ids = {} /\ cache = NoCache BY DEF Init, Ids
<1>2. first.pc = "activate" /\ Idle.pc = "idle" BY IdleJob DEF Job
<1>3. jobs = [g \in Goroutines |-> IF g = Provisioner THEN first ELSE Idle] BY DEF Init
<1> HIDE DEF first
<1>4. jobs[Provisioner].pc = "activate" /\ \A g \in Goroutines : jobs[g].pc \in {"activate", "idle"}
  BY <1>2, <1>3 DEF Goroutines
<1> QED BY <1>1, <1>4 DEF TrueInv, CopyTrue

\* When nothing went wrong and nobody is at work, each stage is as the cluster is, none
\* is left half-way, and the cached URLs are those of the stages there are.
THEOREM StagesAreTrue == Spec => []QuietStagesAreTrue
<1>1. LoneInv /\ TrueInv => QuietStagesAreTrue
  <2> SUFFICES ASSUME TrueInv, Quiet, troubles = {} PROVE QuietStagesAreTrue
    BY DEF QuietStagesAreTrue
  <2>1. \A g \in Goroutines : jobs[g].pc = "idle" BY DEF Quiet, At
  <2>2. cache \in {NoCache, Shown} BY <2>1 DEF TrueInv, Changing
  <2>3. ASSUME NEW i \in Ids
        PROVE  /\ stages[i].status \notin {"creating", "deleting"}
               /\ stages[i].status = "active" => stages[i].slug \in namespaces
               /\ stages[i].status = "deleted" => stages[i].slug \notin namespaces
    BY <2>1 DEF TrueInv, RowTrue
  <2> QED BY <2>2, <2>3 DEF QuietStagesAreTrue, Shown
<1>2. LoneInv /\ TrueInv /\ [Next]_vars => LoneInv' /\ TrueInv' BY NextLone, NextTrue
<1> QED BY <1>1, <1>2, InitLone, InitTrue, PTL DEF Spec
=============================================================================
