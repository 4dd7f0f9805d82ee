--------------------------- MODULE BootstrapProofs ---------------------------
(***************************************************************************)
(* Proofs about Bootstrap, for any requests, goroutines, seconds and       *)
(* faults: typing, that a pull request is what one request asked for, that *)
(* a workflow on the base branch finds its manifests there, and that a     *)
(* release waits only for what will be heard of.                           *)
(*                                                                         *)
(* The invariant says of each request what it has written so far to a      *)
(* branch that is its own, since only one was given the name, and that the *)
(* base branch has never lost a file that a branch was made from.          *)
(***************************************************************************)
EXTENDS Bootstrap, TLAPS

-----------------------------------------------------------------------------
(* The files of a request *)

\* They are the workflow, the deployment, the service and, if there is one, the ingress.
AreFilesOf(files, stage, s) ==
    /\ Len(files) = IF s.ingress THEN 4 ELSE 3
    /\ DOMAIN files = 1..Len(files)
    /\ files[1] = [path |-> StageWorkflowPath(stage), text |-> RenderWorkflow(s)]
    /\ files[2] = [path |-> ManifestPath("deployment", stage, s.service), text |-> RenderDeployment(s)]
    /\ files[3] = [path |-> ManifestPath("service", stage, s.service), text |-> RenderService(s)]
    /\ s.ingress =>
         files[4] = [path |-> ManifestPath("ingress", stage, s.service), text |-> RenderIngress(s)]

LEMMA FilesAre ==
    ASSUME NEW stage, NEW s, s.ingress \in BOOLEAN
    PROVE  AreFilesOf(FilesOf(stage, s), stage, s)
<1> DEFINE a == [path |-> StageWorkflowPath(stage), text |-> RenderWorkflow(s)]
           b == [path |-> ManifestPath("deployment", stage, s.service), text |-> RenderDeployment(s)]
           c == [path |-> ManifestPath("service", stage, s.service), text |-> RenderService(s)]
           d == [path |-> ManifestPath("ingress", stage, s.service), text |-> RenderIngress(s)]
<1>1. FilesOf(stage, s) = IF s.ingress THEN <<a, b, c, d>> ELSE <<a, b, c>> BY DEF FilesOf
<1> HIDE DEF a, b, c, d
<1>2. CASE s.ingress
  <2>1. FilesOf(stage, s) = <<a, b, c, d>> BY <1>1, <1>2
  <2> QED BY <1>2, <2>1 DEF AreFilesOf, a, b, c, d
<1>3. CASE ~s.ingress
  <2>1. FilesOf(stage, s) = <<a, b, c>> BY <1>1, <1>3
  <2> QED BY <1>3, <2>1 DEF AreFilesOf, a, b, c
<1> QED BY <1>2, <1>3

\* What is rendered names its service, which has a name.
LEMMA EffectiveNames ==
    ASSUME NEW a \in Asks, NEW read \in BOOLEAN
    PROVE  LET s == Effective(a, read) IN
           s \in Effectives /\ s.ingress \in BOOLEAN /\ s.service \in Services /\ s.service # ""
<1> DEFINE s == Effective(a, read)
<1>1. a.service \in STRING /\ a.dedicated \in BOOLEAN BY AsksAssumption
<1>2. s.service = IF a.service # "" THEN a.service ELSE RepositoryName BY DEF Effective, Inferred
<1>3. s.service \in Services /\ s.service # "" BY <1>1, <1>2, PlaceAssumption DEF Services, Names
<1>4. s.ingress \in BOOLEAN BY DEF Effective, NeedsIngress
<1>5. s \in Effectives BY DEF Effectives
<1> QED BY <1>3, <1>4, <1>5

LEMMA Rendered ==
    ASSUME NEW s \in Effectives, s.service # "", s.ingress \in BOOLEAN
    PROVE  /\ {RenderWorkflow(s), RenderDeployment(s), RenderService(s), RenderIngress(s)} \subseteq Texts \ {NoFile}
           /\ RenderWorkflow(s).service = s.service /\ RenderWorkflow(s).ingress = s.ingress
<1>1. {RenderWorkflow(s), RenderDeployment(s), RenderService(s), RenderIngress(s)} \subseteq Texts
  BY DEF Texts
<1>2. /\ RenderWorkflow(s).service = s.service /\ RenderWorkflow(s).ingress = s.ingress
      /\ RenderDeployment(s).service = s.service /\ RenderService(s).service = s.service
      /\ RenderIngress(s).service = s.service /\ NoFile.service = ""
  BY DEF RenderWorkflow, RenderDeployment, RenderService, RenderIngress, NoFile
<1> QED BY <1>1, <1>2

\* A file that there is names a service.
LEMMA TextsNameServices ==
    ASSUME NEW text \in Texts, text # NoFile
    PROVE  text.service \in Services
<1>1. PICK s \in Effectives :
          \/ text = RenderWorkflow(s) \/ text = RenderDeployment(s)
          \/ text = RenderService(s) \/ text = RenderIngress(s)
  BY DEF Texts
<1>2. s.service \in Services
  <2>1. PICK a \in Asks, read \in BOOLEAN : s = Effective(a, read) BY DEF Effectives
  <2>2. Effective(a, read).service \in Services BY EffectiveNames
  <2> QED BY <2>1, <2>2
<1>3. text.service = s.service
  BY <1>1 DEF RenderWorkflow, RenderDeployment, RenderService, RenderIngress, NoFile
<1> QED BY <1>2, <1>3

\* The files of a request: where they are, and what is in them.
LEMMA FilesOfAsk ==
    ASSUME NEW a \in Asks, NEW read \in BOOLEAN, NEW s, s = Effective(a, read),
           NEW files, files = FilesOf(a.stage, s)
    PROVE  /\ Len(files) \in {3, 4} /\ DOMAIN files = 1..Len(files)
           /\ \A i \in 1..Len(files) : files[i].path \in Paths /\ files[i].text \in Texts \ {NoFile}
           /\ \A i, j \in 1..Len(files) : files[i].path = files[j].path => i = j
           /\ \A i \in 1..Len(files), stage \in Stages :
                 files[i].path = StageWorkflowPath(stage) =>
                    stage = a.stage /\ files[i].text.service = s.service /\ files[i].text.ingress = s.ingress
           /\ \A kind \in {"deployment", "service"} \cup {k \in {"ingress"} : s.ingress} :
                 \E i \in 1..Len(files) : files[i].path = ManifestPath(kind, a.stage, s.service)
<1>1. s \in Effectives /\ s.ingress \in BOOLEAN /\ s.service \in Services /\ s.service # ""
  BY EffectiveNames
<1>2. a.stage \in Stages BY DEF Stages
<1>3. /\ {RenderWorkflow(s), RenderDeployment(s), RenderService(s), RenderIngress(s)} \subseteq Texts \ {NoFile}
      /\ RenderWorkflow(s).service = s.service /\ RenderWorkflow(s).ingress = s.ingress
  BY <1>1, Rendered
<1>4. AreFilesOf(files, a.stage, s)
  <2>1. s.ingress \in BOOLEAN BY <1>1
  <2>2. AreFilesOf(FilesOf(a.stage, s), a.stage, s) BY ONLY <2>1, FilesAre
  <2> QED BY <2>2
<1>41. /\ Len(files) = IF s.ingress THEN 4 ELSE 3
       /\ DOMAIN files = 1..Len(files)
       /\ files[1] = [path |-> StageWorkflowPath(a.stage), text |-> RenderWorkflow(s)]
       /\ files[2] = [path |-> ManifestPath("deployment", a.stage, s.service), text |-> RenderDeployment(s)]
       /\ files[3] = [path |-> ManifestPath("service", a.stage, s.service), text |-> RenderService(s)]
       /\ s.ingress =>
            files[4] = [path |-> ManifestPath("ingress", a.stage, s.service), text |-> RenderIngress(s)]
  BY <1>4 DEF AreFilesOf
<1>5. /\ Len(files) \in {3, 4}
      /\ \A i \in 1..Len(files) : i \in {1, 2, 3} \/ (i = 4 /\ s.ingress)
      /\ {1, 2, 3} \subseteq 1..Len(files) /\ (s.ingress => 4 \in 1..Len(files))
  <2>1. CASE s.ingress BY <1>41, <2>1
  <2>2. CASE ~s.ingress BY <1>41, <2>2
  <2> QED BY <2>1, <2>2
<1>6. /\ StageWorkflowPath(a.stage) \in Paths
      /\ \A kind \in Kinds : ManifestPath(kind, a.stage, s.service) \in Paths
  BY <1>1, <1>2 DEF Paths, StageWorkflowPath, ManifestPath
<1>7. /\ files[1].path \in Paths /\ files[1].text \in Texts \ {NoFile} /\ files[1].path.kind = "workflow"
      /\ files[2].path \in Paths /\ files[2].text \in Texts \ {NoFile} /\ files[2].path.kind = "deployment"
      /\ files[3].path \in Paths /\ files[3].text \in Texts \ {NoFile} /\ files[3].path.kind = "service"
      /\ s.ingress =>
           /\ files[4].path \in Paths /\ files[4].text \in Texts \ {NoFile} /\ files[4].path.kind = "ingress"
  <2>1. "deployment" \in Kinds /\ "service" \in Kinds /\ "ingress" \in Kinds BY DEF Kinds
  <2>2. /\ StageWorkflowPath(a.stage).kind = "workflow"
        /\ \A kind \in Kinds : ManifestPath(kind, a.stage, s.service).kind = kind
    BY DEF StageWorkflowPath, ManifestPath
  <2> QED BY <1>3, <1>41, <1>6, <2>1, <2>2
<1>8. \A i \in 1..Len(files) : files[i].path \in Paths /\ files[i].text \in Texts \ {NoFile}
  BY <1>5, <1>7
<1>9. \A i, j \in 1..Len(files) : files[i].path = files[j].path => i = j BY <1>5, <1>7
<1>10. ASSUME NEW i \in 1..Len(files), NEW stage \in Stages, files[i].path = StageWorkflowPath(stage)
       PROVE  stage = a.stage /\ files[i].text.service = s.service /\ files[i].text.ingress = s.ingress
  <2>1. StageWorkflowPath(stage).kind = "workflow" BY DEF StageWorkflowPath
  <2>2. i = 1 BY <1>5, <1>7, <1>10, <2>1
  <2>3. StageWorkflowPath(stage) = StageWorkflowPath(a.stage) BY <1>41, <1>10, <2>2
  <2>4. stage = a.stage BY <2>3 DEF StageWorkflowPath
  <2>5. files[i].text = RenderWorkflow(s) BY <1>41, <2>2
  <2> QED BY <1>3, <2>4, <2>5
<1>11. ASSUME NEW kind \in {"deployment", "service"} \cup {k \in {"ingress"} : s.ingress}
       PROVE  \E i \in 1..Len(files) : files[i].path = ManifestPath(kind, a.stage, s.service)
  <2>1. CASE kind = "deployment" BY <1>41, <1>5, <2>1
  <2>2. CASE kind = "service" BY <1>41, <1>5, <2>2
  <2>3. CASE kind = "ingress" /\ s.ingress BY <1>41, <1>5, <2>3
  <2> QED BY <1>11, <2>1, <2>2, <2>3
<1> QED BY <1>41, <1>5, <1>8, <1>9, <1>10, <1>11

-----------------------------------------------------------------------------
(* The invariant *)

JobFiles(j) == FilesOf(j.ask.stage, Effective(j.ask, j.read))
Writing(j)  == j.pc \in {"upsert", "pull"}
\* The number of files a request has written.
Written(j)  == IF j.pc = "upsert" THEN j.file - 1 ELSE Len(JobFiles(j))

\* A branch on which a request has written its files so far, and nobody anything else.
WrittenOn(br, j) ==
    /\ br.state = "made" /\ j.file \in 1..Len(JobFiles(j))
    /\ \A i \in 1..Written(j) : br.tree[JobFiles(j)[i].path] = JobFiles(j)[i].text
    /\ \A p \in Paths : (\A i \in 1..Written(j) : JobFiles(j)[i].path # p) => br.tree[p] = br.fork[p]

\* What was on the base branch when a branch was made is on it still.
FromBase(fork) == \A p \in Paths : fork[p] # NoFile => base[p] # NoFile

Opened(b) == branches[b].state \in {"open", "merged"}

\* What a request knows of the rest.
JobOK(j) ==
    /\ j.pc # "infer" => j.read \/ troubles # {}
    /\ FromBase(j.fork)
    /\ j.pc \in {"infer", "sha"} => ~j.opened
    /\ j.pc \in {"infer", "sha", "branch"} => j.file = 1
    /\ j.opened => Opened(j.second)
    /\ Writing(j) => WrittenOn(branches[j.second], j)
    /\ j.pc = "release" \/ (j.pc = "save" /\ j.op = "bootstrap") => hooked \/ ~HasPublicURL \/ troubles # {}
    /\ j.pc = "release" => project.named

JobsInv  == \A g \in Goroutines : jobs[g] # Idle => JobOK(jobs[g])
\* No two requests write to the same branch.
AloneInv == \A g, h \in Goroutines :
                g # h /\ Writing(jobs[g]) /\ Writing(jobs[h]) => jobs[g].second # jobs[h].second
ForksInv == \A b \in Seconds : branches[b].state # "none" => FromBase(branches[b].fork)

Inv ==
    /\ TypeOK /\ JobsInv /\ AloneInv /\ ForksInv
    /\ PullRequestsAreWhole /\ WorkflowFindsItsFiles /\ WaitingCanBeMatched

-----------------------------------------------------------------------------
(* What a step does to the requests *)

\* A goroutine that serves something serves a request.
LEMMA Busy ==
    ASSUME TypeOK, NEW g \in Goroutines, ~At(g, "idle")
    PROVE  jobs[g] \in Job /\ jobs[g] # Idle
BY DEF TypeOK, At, Idle

LEMMA IdleIsNoJob == Idle \notin Job /\ Idle.pc = "idle" /\ \A j \in Job : j # Idle
BY DEF Idle, Job, Pc

LEMMA PcOfJob ==
    ASSUME NEW j \in Job, NEW pc \in Pc
    PROVE  [j EXCEPT !.pc = pc] \in Job
BY DEF Job

LEMMA GotoMoves ==
    ASSUME TypeOK, NEW g \in Goroutines, ~At(g, "idle"), NEW pc \in Pc, Goto(g, pc)
    PROVE  /\ jobs' \in [Goroutines -> Job \cup {Idle}]
           /\ jobs'[g] = [jobs[g] EXCEPT !.pc = pc] /\ jobs'[g] \in Job
           /\ \A h \in Goroutines \ {g} : jobs'[h] = jobs[h]
<1>1. jobs[g] \in Job BY Busy
<1>2. [jobs[g] EXCEPT !.pc = pc] \in Job BY <1>1, PcOfJob
<1>3. jobs \in [Goroutines -> Job \cup {Idle}] BY DEF TypeOK
<1> QED BY <1>2, <1>3 DEF Goto

LEMMA EndsMoves ==
    ASSUME TypeOK, NEW g \in Goroutines, Ends(g)
    PROVE  /\ jobs' \in [Goroutines -> Job \cup {Idle}]
           /\ jobs'[g] = Idle /\ \A h \in Goroutines \ {g} : jobs'[h] = jobs[h]
BY DEF Ends, TypeOK

LEMMA TroubleMoves ==
    ASSUME TypeOK, NEW kind, Trouble(kind)
    PROVE  troubles' \subseteq Faults /\ troubles' # {}
BY DEF Trouble

-----------------------------------------------------------------------------
(* What a step leaves as it is *)

\* What is there stays there, on the base branch and elsewhere.
Grows ==
    /\ \A p \in Paths : base[p] # NoFile => base'[p] # NoFile
    /\ \A b \in Seconds : Opened(b) => branches'[b].state \in {"open", "merged"}
    /\ project.named => project'.named
    /\ hooked => hooked'
    /\ troubles # {} => troubles' # {}

LEMMA JobStays ==
    ASSUME NEW j \in Job, JobOK(j), Grows,
           Writing(j) => branches'[j.second] = branches[j.second]
    PROVE  JobOK(j)'
<1>1. j.second \in Seconds BY DEF Job
<1>2. FromBase(j.fork)' BY DEF JobOK, FromBase, Grows
<1>3. j.opened => Opened(j.second)' BY <1>1 DEF JobOK, Grows, Opened
<1>4. Writing(j) => WrittenOn(branches[j.second], j)' BY DEF JobOK, WrittenOn
<1> QED BY <1>2, <1>3, <1>4 DEF JobOK, Grows

\* A step of one goroutine: it is enough to look at its own request, and at the branch
\* it takes.
LEMMA StepKeepsJobs ==
    ASSUME TypeOK, JobsInv, AloneInv, Grows, NEW g \in Goroutines,
           jobs' \in [Goroutines -> Job \cup {Idle}],
           \A h \in Goroutines \ {g} : jobs'[h] = jobs[h],
           \A h \in Goroutines \ {g} : Writing(jobs[h]) => branches'[jobs[h].second] = branches[jobs[h].second],
           \A j \in Job : j = jobs'[g] =>
              /\ JobOK(j)'
              /\ Writing(j) => \A h \in Goroutines \ {g} : Writing(jobs[h]) => jobs[h].second # j.second
    PROVE  JobsInv' /\ AloneInv'
<1>1. ASSUME NEW h \in Goroutines, jobs'[h] # Idle PROVE JobOK(jobs[h])'
  <2>1. PICK j \in Job : j = jobs'[h] BY <1>1
  <2>2. CASE h = g BY <2>1, <2>2
  <2>3. CASE h # g
    <3>1. j = jobs[h] BY <2>1, <2>3
    <3>2. JobOK(j) BY <3>1, IdleIsNoJob DEF JobsInv
    <3>3. JobOK(j)' BY <2>3, <3>1, <3>2, JobStays
    <3> QED BY <2>1, <3>3
  <2> QED BY <2>2, <2>3
<1>2. ASSUME NEW h \in Goroutines, NEW i \in Goroutines, h # i, Writing(jobs'[h]), Writing(jobs'[i])
      PROVE  jobs'[h].second # jobs'[i].second
  <2>1. jobs'[h] \in Job /\ jobs'[i] \in Job BY <1>2, IdleIsNoJob DEF Writing
  <2>2. CASE h # g /\ i # g BY <1>2, <2>2 DEF AloneInv
  <2>3. CASE h = g /\ i # g BY <1>2, <2>1, <2>3
  <2>4. CASE h # g /\ i = g BY <1>2, <2>1, <2>4
  <2> QED BY <1>2, <2>2, <2>3, <2>4
<1> QED BY <1>1, <1>2 DEF JobsInv, AloneInv, Writing

\* A branch is what one request asked for.
Whole(br) ==
    \E a \in Asks, read \in BOOLEAN :
        LET files == FilesOf(a.stage, Effective(a, read)) IN
        /\ read \/ troubles # {}
        /\ HasFiles(br.tree, files)
        /\ \A p \in Paths \ {files[i].path : i \in DOMAIN files} : br.tree[p] = br.fork[p]

LEMMA WholePullRequests == PullRequestsAreWhole <=> \A b \in Seconds : Opened(b) => Whole(branches[b])
BY DEF PullRequestsAreWhole, Opened, Whole

LEMMA WholeStays ==
    ASSUME NEW br, Whole(br), troubles # {} => troubles' # {}
    PROVE  Whole(br)'
BY DEF Whole, HasFiles

LEMMA GithubStays ==
    ASSUME ForksInv, PullRequestsAreWhole, WorkflowFindsItsFiles,
           base' = base, branches' = branches, troubles # {} => troubles' # {}
    PROVE  ForksInv' /\ PullRequestsAreWhole' /\ WorkflowFindsItsFiles'
<1>1. ForksInv' BY DEF ForksInv, FromBase
<1>2. ASSUME NEW b \in Seconds, Opened(b)' PROVE Whole(branches[b])'
  <2>1. PICK br : br = branches[b] OBVIOUS
  <2>2. Whole(br) BY <1>2, <2>1, WholePullRequests DEF Opened
  <2>3. Whole(br)' BY <2>2, WholeStays
  <2> QED BY <2>1, <2>3 DEF Whole
<1>3. PullRequestsAreWhole' BY <1>2 DEF PullRequestsAreWhole, Opened, Whole
<1>4. WorkflowFindsItsFiles' BY DEF WorkflowFindsItsFiles
<1> QED BY <1>1, <1>3, <1>4

LEMMA WaitingStays ==
    ASSUME TypeOK, WaitingCanBeMatched, Grows, waiting' = waiting
    PROVE  WaitingCanBeMatched'
BY DEF WaitingCanBeMatched, Grows, Opened, TypeOK

LEMMA NothingGrows ==
    ASSUME github' = github, project' = project, troubles # {} => troubles' # {}
    PROVE  Grows
BY DEF github, Grows, Opened

-----------------------------------------------------------------------------
(* The steps that make no branch *)

LEMMA NoFileIsText == NoFile \in Texts BY DEF Texts

LEMMA InitInv == Init => Inv
<1> SUFFICES ASSUME Init PROVE Inv OBVIOUS
<1>2. Empty \in [Paths -> Texts] BY NoFileIsText DEF Empty
<1>3. NoBranch \in BranchState /\ NoBranch.state = "none" BY <1>2 DEF NoBranch, BranchState
<1>4. project \in Project
  <2>1. NoSettings \in Settings BY DEF Settings, NoSettings, Names, Ports
  <2> QED BY <2>1 DEF Init, Project
<1>5. 0 \in Seconds BY BoundsAssumption DEF Seconds
<1>6. 0 \in 0..MaxServed BY BoundsAssumption
<1>7. TypeOK BY <1>2, <1>3, <1>4, <1>5, <1>6 DEF Init, TypeOK
<1>8. JobsInv /\ AloneInv BY DEF Init, JobsInv, AloneInv, Writing, Idle
<1>9. ForksInv /\ PullRequestsAreWhole BY <1>3 DEF Init, ForksInv, PullRequestsAreWhole
<1>10. WorkflowFindsItsFiles
  <2>1. \A stage \in Stages : StageWorkflowPath(stage) \in Paths BY DEF Paths, StageWorkflowPath
  <2> QED BY <2>1 DEF Init, Empty, WorkflowFindsItsFiles
<1>11. WaitingCanBeMatched BY DEF Init, WaitingCanBeMatched
<1> QED BY <1>7, <1>8, <1>9, <1>10, <1>11 DEF Inv

\* A goroutine whose request ends, and anything that grows.
LEMMA EndsKeepsJobs ==
    ASSUME Inv, NEW g \in Goroutines, Ends(g), Grows,
           \A h \in Goroutines \ {g} : Writing(jobs[h]) => branches'[jobs[h].second] = branches[jobs[h].second]
    PROVE  jobs' \in [Goroutines -> Job \cup {Idle}] /\ JobsInv' /\ AloneInv'
<1>1. /\ jobs' \in [Goroutines -> Job \cup {Idle}]
      /\ jobs'[g] = Idle /\ \A h \in Goroutines \ {g} : jobs'[h] = jobs[h]
  BY EndsMoves DEF Inv
<1>2. \A j \in Job : j # jobs'[g] BY <1>1, IdleIsNoJob
<1> QED BY <1>1, <1>2, StepKeepsJobs DEF Inv

LEMMA BeginKeeps ==
    ASSUME Inv, NEW g \in Goroutines, NEW op \in {"bootstrap", "questions"}, NEW a \in Asks, Begin(g, op, a)
    PROVE  Inv'
<1> DEFINE k == [op |-> op, pc |-> "infer", ask |-> a, copy |-> project, read |-> FALSE,
                 fork |-> Empty, second |-> 0, file |-> 1, opened |-> FALSE]
<1>1. Empty \in [Paths -> Texts] /\ \A p \in Paths : Empty[p] = NoFile
  BY NoFileIsText DEF Empty
<1>2. k \in Job
  <2>1. 0 \in Seconds BY BoundsAssumption DEF Seconds
  <2>2. "infer" \in Pc /\ project \in Project BY DEF Pc, Inv, TypeOK
  <2> QED BY <1>1, <2>1, <2>2 DEF Job
<1>3. /\ jobs' \in [Goroutines -> Job \cup {Idle}] /\ jobs'[g] = k
      /\ \A h \in Goroutines \ {g} : jobs'[h] = jobs[h]
  <2>1. jobs' = [jobs EXCEPT ![g] = k] BY DEF Begin
  <2>2. jobs \in [Goroutines -> Job \cup {Idle}] BY DEF Inv, TypeOK
  <2> HIDE DEF k
  <2> QED BY <1>2, <2>1, <2>2
<1>4. UNCHANGED <<github, project, waiting, now, troubles>> /\ served' = served + 1 /\ served < MaxServed
  BY DEF Begin
<1>5. TypeOK'
  <2>1. served' \in 0..MaxServed BY <1>4, BoundsAssumption DEF Inv, TypeOK
  <2> QED BY <1>3, <1>4, <2>1 DEF Inv, TypeOK, github
<1>6. Grows BY <1>4, NothingGrows
<1>7. \A j \in Job : j = k => JobOK(j)' /\ ~Writing(j)
  BY <1>1 DEF JobOK, FromBase, Writing
<1> HIDE DEF k
<1>8. JobsInv' /\ AloneInv' BY <1>3, <1>4, <1>6, <1>7, StepKeepsJobs DEF Inv, github
<1>9. ForksInv' /\ PullRequestsAreWhole' /\ WorkflowFindsItsFiles' BY <1>4, GithubStays DEF Inv, github
<1>10. WaitingCanBeMatched' BY <1>4, <1>6, WaitingStays DEF Inv
<1> QED BY <1>5, <1>8, <1>9, <1>10 DEF Inv

\* A request that goes on, and nothing else but troubles.
LEMMA OnlyJobsMove ==
    ASSUME Inv, NEW g \in Goroutines,
           jobs' \in [Goroutines -> Job \cup {Idle}],
           \A h \in Goroutines \ {g} : jobs'[h] = jobs[h],
           \A j \in Job : j = jobs'[g] => JobOK(j)' /\ ~Writing(j),
           UNCHANGED <<github, project, waiting, now, served>>,
           troubles' \subseteq Faults, troubles # {} => troubles' # {}
    PROVE  Inv'
<1>1. TypeOK' BY DEF Inv, TypeOK, github
<1>2. Grows BY NothingGrows
<1>3. JobsInv' /\ AloneInv' BY <1>2, StepKeepsJobs DEF Inv, github
<1>4. ForksInv' /\ PullRequestsAreWhole' /\ WorkflowFindsItsFiles' BY GithubStays DEF Inv, github
<1>5. WaitingCanBeMatched' BY <1>2, WaitingStays DEF Inv
<1> QED BY <1>1, <1>3, <1>4, <1>5 DEF Inv

LEMMA FailsKeeps ==
    ASSUME Inv, NEW g \in Goroutines, Fails(g), UNCHANGED <<github, project, waiting, now, served>>
    PROVE  Inv'
<1>1. troubles' \subseteq Faults /\ troubles' # {} BY TroubleMoves DEF Fails, Inv
<1>2. /\ jobs' \in [Goroutines -> Job \cup {Idle}]
      /\ jobs'[g] = Idle /\ \A h \in Goroutines \ {g} : jobs'[h] = jobs[h]
  BY EndsMoves DEF Inv, Fails
<1>3. \A j \in Job : j # jobs'[g] BY <1>2, IdleIsNoJob
<1> QED BY <1>1, <1>2, <1>3, OnlyJobsMove

LEMMA InferKeeps ==
    ASSUME Inv, NEW g \in Goroutines, Infer(g)
    PROVE  Inv'
<1>1. CASE Fails(g) BY <1>1, FailsKeeps DEF Infer
<1>2. ASSUME NEW read \in BOOLEAN, IF read THEN UNCHANGED troubles ELSE Trouble("call"),
             jobs' = [jobs EXCEPT ![g].read = read, ![g].pc = IF jobs[g].op = "questions" THEN "save" ELSE "sha"]
      PROVE  Inv'
  <2>1. PICK j \in Job : j = jobs[g] /\ j.pc = "infer" /\ j # Idle BY Busy DEF Infer, At, Inv
  <2>2. JobOK(j) BY <2>1 DEF Inv, JobsInv
  <2> DEFINE k == [j EXCEPT !.read = read, !.pc = IF j.op = "questions" THEN "save" ELSE "sha"]
  <2>3. k \in Job BY DEF Job, Pc
  <2>4. /\ k.read = read /\ k.pc \in {"save", "sha"} /\ (k.pc = "save" => k.op # "bootstrap")
        /\ k.fork = j.fork /\ k.opened = j.opened /\ k.second = j.second /\ k.file = j.file
    BY <2>1 DEF Job
  <2>5. /\ jobs' \in [Goroutines -> Job \cup {Idle}] /\ jobs'[g] = k
        /\ \A h \in Goroutines \ {g} : jobs'[h] = jobs[h]
    <3>1. jobs \in [Goroutines -> Job \cup {Idle}] BY DEF Inv, TypeOK
    <3>2. jobs' = [jobs EXCEPT ![g] = k] BY <1>2, <2>1
    <3> HIDE DEF k
    <3> QED BY <2>3, <3>1, <3>2
  <2>6. /\ troubles' \subseteq Faults /\ (troubles # {} => troubles' # {})
        /\ read \/ troubles' # {}
    BY <1>2, TroubleMoves DEF Inv, TypeOK
  <2>7. UNCHANGED <<github, project, waiting, now, served>> BY DEF Infer
  <2> HIDE DEF k
  <2>8. JobOK(k)' /\ ~Writing(k)
    <3>1. FromBase(k.fork)' BY <2>2, <2>4, <2>7 DEF JobOK, FromBase, github
    <3>2. ~k.opened /\ k.file = 1 BY <2>1, <2>2, <2>4 DEF JobOK
    <3> QED BY <2>4, <2>6, <3>1, <3>2 DEF JobOK, Writing
  <2> QED BY <2>5, <2>6, <2>7, <2>8, OnlyJobsMove
<1>3. CASE /\ jobs' = [jobs EXCEPT ![g].read = TRUE, ![g].pc = IF jobs[g].op = "questions" THEN "save" ELSE "sha"]
           /\ UNCHANGED troubles
  BY <1>2, <1>3
<1>4. CASE /\ jobs' = [jobs EXCEPT ![g].read = FALSE, ![g].pc = IF jobs[g].op = "questions" THEN "save" ELSE "sha"]
           /\ Trouble("call")
  BY <1>2, <1>4
<1> QED BY <1>1, <1>3, <1>4 DEF Infer

LEMMA GetBranchSHAKeeps ==
    ASSUME Inv, NEW g \in Goroutines, GetBranchSHA(g)
    PROVE  Inv'
<1>1. CASE Fails(g) BY <1>1, FailsKeeps DEF GetBranchSHA
<1>2. CASE jobs' = [jobs EXCEPT ![g].fork = base, ![g].second = now, ![g].pc = "branch"] /\ UNCHANGED troubles
  <2>1. PICK j \in Job : j = jobs[g] /\ j.pc = "sha" /\ j # Idle BY Busy DEF GetBranchSHA, At, Inv
  <2>2. JobOK(j) BY <2>1 DEF Inv, JobsInv
  <2> DEFINE k == [j EXCEPT !.fork = base, !.second = now, !.pc = "branch"]
  <2>3. k \in Job BY DEF Job, Pc, Inv, TypeOK
  <2>4. k.read = j.read /\ k.pc = "branch" /\ k.fork = base /\ k.opened = j.opened /\ k.file = j.file
    BY DEF Job
  <2>5. /\ jobs' \in [Goroutines -> Job \cup {Idle}] /\ jobs'[g] = k
        /\ \A h \in Goroutines \ {g} : jobs'[h] = jobs[h]
    <3>1. jobs \in [Goroutines -> Job \cup {Idle}] BY DEF Inv, TypeOK
    <3>2. jobs' = [jobs EXCEPT ![g] = k] BY <1>2, <2>1
    <3> HIDE DEF k
    <3> QED BY <2>3, <3>1, <3>2
  <2>6. UNCHANGED <<github, project, waiting, now, served>> BY DEF GetBranchSHA
  <2>7. troubles' \subseteq Faults /\ troubles' = troubles BY <1>2 DEF Inv, TypeOK
  <2> HIDE DEF k
  <2>8. \A kk \in Job : kk = k => JobOK(kk)' /\ ~Writing(kk)
    BY <2>1, <2>2, <2>4, <2>6, <2>7 DEF JobOK, Writing, FromBase, github
  <2> QED BY <2>5, <2>6, <2>7, <2>8, OnlyJobsMove
<1> QED BY <1>1, <1>2 DEF GetBranchSHA

LEMMA EnsureWorkflowWebhookKeeps ==
    ASSUME Inv, NEW g \in Goroutines, EnsureWorkflowWebhook(g)
    PROVE  Inv'
<1>1. PICK j \in Job : j = jobs[g] /\ j.pc = "hook" /\ j # Idle BY Busy DEF EnsureWorkflowWebhook, At, Inv
<1>2. JobOK(j) BY <1>1 DEF Inv, JobsInv
<1>3. PICK k \in Job : k = [j EXCEPT !.pc = "save"] BY PcOfJob DEF Pc
<1>4. /\ jobs' \in [Goroutines -> Job \cup {Idle}] /\ jobs'[g] = k
      /\ \A h \in Goroutines \ {g} : jobs'[h] = jobs[h]
  BY <1>1, <1>3, GotoMoves DEF EnsureWorkflowWebhook, At, Inv, Pc
<1>5. k.read = j.read /\ k.pc = "save" /\ k.fork = j.fork /\ k.opened = j.opened /\ k.second = j.second
  BY <1>3 DEF Job
<1>6. UNCHANGED <<base, branches, project, waiting, now, served>> BY DEF EnsureWorkflowWebhook
<1>7. /\ hooked' \in BOOLEAN /\ (hooked => hooked')
      /\ hooked' \/ ~HasPublicURL \/ troubles' # {}
      /\ troubles' \subseteq Faults /\ (troubles # {} => troubles' # {})
  BY TroubleMoves, PlaceAssumption DEF EnsureWorkflowWebhook, Inv, TypeOK
<1>8. TypeOK' BY <1>4, <1>6, <1>7 DEF Inv, TypeOK
<1>9. Grows BY <1>6, <1>7 DEF Grows, Opened
<1>10. JobOK(k)' /\ ~Writing(k)
  BY <1>1, <1>2, <1>5, <1>6, <1>7 DEF JobOK, Writing, FromBase, Opened
<1>11. JobsInv' /\ AloneInv' BY <1>4, <1>6, <1>9, <1>10, StepKeepsJobs DEF Inv
<1>12. ForksInv' /\ PullRequestsAreWhole' /\ WorkflowFindsItsFiles' BY <1>6, <1>7, GithubStays DEF Inv
<1>13. WaitingCanBeMatched' BY <1>6, <1>9, WaitingStays DEF Inv
<1> QED BY <1>8, <1>11, <1>12, <1>13 DEF Inv

LEMMA NormalizedReplicaCountIn ==
    ASSUME NEW n \in Int
    PROVE  NormalizedReplicaCount(n) \in 0..10
BY DEF NormalizedReplicaCount

\* What is saved is a project that names the repository.
LEMMA SavedIsProject ==
    ASSUME NEW g \in Goroutines, jobs[g] \in Job
    PROVE  Saved(g) \in Project /\ Saved(g).named
<1>1. PICK j \in Job : j = jobs[g] OBVIOUS
<1>2. PICK a \in Asks : a = j.ask BY DEF Job
<1>3. PICK old \in Settings : old = j.copy.settings BY DEF Job, Project
<1>4. /\ a.service \in STRING /\ a.port \in Nat /\ a.replicas \in Int /\ a.dedicated \in BOOLEAN
      /\ a.type \in {"", "LoadBalancer", "ClusterIP"}
  BY AsksAssumption
<1>41. Settings = [service : Names, type : {"", "LoadBalancer", "ClusterIP"}, dedicated : BOOLEAN,
                   port : Ports, replicas : 0..10]
  BY DEF Settings
<1>42. RepositoryName \in Names /\ 8080 \in Ports /\ ExposedPort \in Ports
  BY DEF Names, Ports
<1>43. a.service \in Names /\ a.port \in Ports
  <2>1. a.service \in Names BY DEF Names
  <2>2. a.port \in Ports BY DEF Ports
  <2> QED BY <2>1, <2>2
<1>5. /\ old.service \in Names /\ old.port \in Ports
      /\ old.type \in {"", "LoadBalancer", "ClusterIP"} /\ old.dedicated \in BOOLEAN /\ old.replicas \in Int
  <2>1. old.service \in Names BY <1>41
  <2>2. old.port \in Ports BY <1>41
  <2>3. old.type \in {"", "LoadBalancer", "ClusterIP"} BY <1>41
  <2>4. old.dedicated \in BOOLEAN BY <1>41
  <2>5. old.replicas \in Int
    <3>1. old.replicas \in 0..10 BY <1>41
    <3> QED BY ONLY <3>1
  <2> QED BY ONLY <2>1, <2>2, <2>3, <2>4, <2>5
<1> DEFINE inferred == Inferred(a, j.read)
           questions == [service |-> inferred.service, type |-> "LoadBalancer", dedicated |-> old.dedicated,
                         port |-> inferred.port, replicas |-> NormalizedReplicaCount(old.replicas)]
           asked == [service |-> IF a.service # "" THEN a.service ELSE old.service,
                     type |-> IF a.type # "" THEN a.type ELSE old.type,
                     dedicated |-> a.dedicated, port |-> IF a.port > 0 THEN a.port ELSE old.port,
                     replicas |-> NormalizedReplicaCount(IF a.replicas > 0 THEN a.replicas ELSE old.replicas)]
<1>6. inferred.service \in Names /\ inferred.port \in Ports
  <2>1. inferred.service \in {a.service, RepositoryName} BY DEF Inferred
  <2>2. inferred.port \in {ExposedPort, 8080} BY DEF Inferred
  <2> QED BY <1>42, <1>43, <2>1, <2>2
<1>7. questions \in Settings
  <2>1. NormalizedReplicaCount(old.replicas) \in 0..10 BY <1>5, NormalizedReplicaCountIn
  <2> HIDE DEF inferred
  <2> QED BY <1>41, <1>5, <1>6, <2>1
<1>8. asked \in Settings
  <2>1. NormalizedReplicaCount(IF a.replicas > 0 THEN a.replicas ELSE old.replicas) \in 0..10
    BY <1>4, <1>5, NormalizedReplicaCountIn
  <2> QED BY <1>4, <1>41, <1>43, <1>5, <2>1
<1>9. Saved(g) = [named |-> TRUE, settings |-> IF j.op = "questions" THEN questions ELSE asked]
  BY <1>1, <1>2, <1>3 DEF Saved
<1> HIDE DEF questions, asked
<1> QED BY <1>7, <1>8, <1>9 DEF Project

LEMMA SaveProjectKeeps ==
    ASSUME Inv, NEW g \in Goroutines, SaveProject(g)
    PROVE  Inv'
<1>1. PICK j \in Job : j = jobs[g] /\ j.pc = "save" /\ j # Idle BY Busy DEF SaveProject, At, Inv
<1>2. JobOK(j) BY <1>1 DEF Inv, JobsInv
<1>3. Saved(g) \in Project /\ Saved(g).named BY <1>1, SavedIsProject
<1>4. UNCHANGED <<github, waiting, now, served>> BY DEF SaveProject
<1>5. /\ project' \in Project /\ (project.named => project'.named)
      /\ troubles' \subseteq Faults /\ (troubles # {} => troubles' # {})
  BY <1>3, TroubleMoves DEF SaveProject, Fails, Inv, TypeOK
<1>6. Grows BY <1>4, <1>5 DEF Grows, Opened, github
<1>7. ForksInv' /\ PullRequestsAreWhole' /\ WorkflowFindsItsFiles'
  BY <1>4, <1>5, GithubStays DEF Inv, github
<1>8. WaitingCanBeMatched' BY <1>4, <1>6, WaitingStays DEF Inv
<1>9. jobs' \in [Goroutines -> Job \cup {Idle}] /\ JobsInv' /\ AloneInv'
  <2>1. CASE Ends(g) BY <1>4, <1>6, <2>1, EndsKeepsJobs DEF github
  <2>2. CASE Goto(g, "release") /\ project' = Saved(g) /\ UNCHANGED troubles /\ j.op # "questions"
    <3>1. PICK k \in Job : k = [j EXCEPT !.pc = "release"] BY PcOfJob DEF Pc
    <3>2. /\ jobs' \in [Goroutines -> Job \cup {Idle}] /\ jobs'[g] = k
          /\ \A h \in Goroutines \ {g} : jobs'[h] = jobs[h]
      BY <1>1, <2>2, <3>1, GotoMoves DEF At, Inv, Pc
    <3>3. k.read = j.read /\ k.pc = "release" /\ k.fork = j.fork /\ k.opened = j.opened /\ k.second = j.second
      BY <3>1 DEF Job
    <3>4. j.op = "bootstrap" BY <2>2 DEF Job
    <3>5. JobOK(k)' /\ ~Writing(k)
      BY <1>1, <1>2, <1>3, <1>4, <2>2, <3>3, <3>4 DEF JobOK, Writing, FromBase, Opened, github
    <3> QED BY <1>4, <1>6, <3>2, <3>5, StepKeepsJobs DEF Inv, github
  <2> QED BY <1>1, <2>1, <2>2 DEF SaveProject, Fails
<1>10. TypeOK' BY <1>4, <1>5, <1>9 DEF Inv, TypeOK, github
<1> QED BY <1>7, <1>8, <1>9, <1>10 DEF Inv

LEMMA CreatePendingReleaseKeeps ==
    ASSUME Inv, NEW g \in Goroutines, CreatePendingRelease(g)
    PROVE  Inv'
<1>1. PICK j \in Job : j = jobs[g] /\ j.pc = "release" /\ j # Idle BY Busy DEF CreatePendingRelease, At, Inv
<1>2. JobOK(j) BY <1>1 DEF Inv, JobsInv
<1>3. j.second \in Seconds BY DEF Job
<1>4. UNCHANGED <<github, project, now, served>> /\ Ends(g) BY DEF CreatePendingRelease, Fails
<1>5. troubles' \subseteq Faults /\ (troubles # {} => troubles' # {})
  BY TroubleMoves DEF CreatePendingRelease, Fails, Inv, TypeOK
<1>6. waiting' = waiting \/ (j.opened /\ waiting' = waiting \cup {j.second})
  BY <1>1 DEF CreatePendingRelease, Branch
<1>7. Grows BY <1>4, <1>5, NothingGrows
<1>8. jobs' \in [Goroutines -> Job \cup {Idle}] /\ JobsInv' /\ AloneInv'
  BY <1>4, <1>7, EndsKeepsJobs DEF github
<1>9. ForksInv' /\ PullRequestsAreWhole' /\ WorkflowFindsItsFiles'
  BY <1>4, <1>5, GithubStays DEF Inv, github
<1>10. WaitingCanBeMatched'
  <2>1. CASE waiting' = waiting BY <1>7, <2>1, WaitingStays DEF Inv
  <2>2. CASE j.opened /\ waiting' = waiting \cup {j.second}
    BY <1>1, <1>2, <1>4, <1>5, <2>2 DEF JobOK, WaitingCanBeMatched, Opened, Inv, github
  <2> QED BY <1>6, <2>1, <2>2
<1>11. TypeOK' BY <1>3, <1>4, <1>5, <1>6, <1>8 DEF Inv, TypeOK, github
<1> QED BY <1>8, <1>9, <1>10, <1>11 DEF Inv

LEMMA TickKeeps == ASSUME Inv, Tick PROVE Inv'
<1>1. UNCHANGED <<github, project, waiting, jobs, served, troubles>> /\ now' \in Seconds
  BY BoundsAssumption DEF Tick, Inv, TypeOK, Seconds
<1>2. TypeOK' BY <1>1 DEF Inv, TypeOK, github
<1>3. JobsInv' /\ AloneInv'
  BY <1>1 DEF Inv, JobsInv, AloneInv, JobOK, FromBase, Opened, WrittenOn, Writing, github
<1>4. ForksInv' /\ PullRequestsAreWhole' /\ WorkflowFindsItsFiles' BY <1>1, GithubStays DEF Inv, github
<1>5. WaitingCanBeMatched' BY <1>1, NothingGrows, WaitingStays DEF Inv
<1> QED BY <1>2, <1>3, <1>4, <1>5 DEF Inv

LEMMA CrashKeeps == ASSUME Inv, Crash PROVE Inv'
<1>1. /\ UNCHANGED <<github, project, waiting, now, served>> /\ jobs' = [g \in Goroutines |-> Idle]
      /\ troubles' \subseteq Faults /\ troubles' # {}
  BY TroubleMoves DEF Crash, Inv
<1>2. TypeOK' BY <1>1 DEF Inv, TypeOK, github
<1>3. JobsInv' /\ AloneInv' BY <1>1, IdleIsNoJob DEF JobsInv, AloneInv, Writing
<1>4. ForksInv' /\ PullRequestsAreWhole' /\ WorkflowFindsItsFiles' BY <1>1, GithubStays DEF Inv, github
<1>5. WaitingCanBeMatched' BY <1>1, NothingGrows, WaitingStays DEF Inv
<1> QED BY <1>2, <1>3, <1>4, <1>5 DEF Inv

-----------------------------------------------------------------------------
(* The steps that change a branch *)

\* One branch changes, from one that was not opened to one that is whole once it is.
LEMMA BranchStep ==
    ASSUME Inv, NEW b \in Seconds, NEW br \in BranchState, branches' = [branches EXCEPT ![b] = br],
           ~Opened(b), FromBase(br.fork), br.state \in {"open", "merged"} => Whole(br),
           UNCHANGED <<base, hooked, project, waiting>>, troubles # {} => troubles' # {}
    PROVE  /\ branches' \in [Seconds -> BranchState]
           /\ branches'[b] = br /\ \A c \in Seconds \ {b} : branches'[c] = branches[c]
           /\ Grows /\ ForksInv' /\ PullRequestsAreWhole' /\ WorkflowFindsItsFiles' /\ WaitingCanBeMatched'
<1>1. /\ branches' \in [Seconds -> BranchState]
      /\ branches'[b] = br /\ \A c \in Seconds \ {b} : branches'[c] = branches[c]
  BY DEF Inv, TypeOK
<1>2. Grows BY <1>1 DEF Grows, Opened
<1>3. ForksInv' BY <1>1 DEF Inv, ForksInv, FromBase
<1>4. ASSUME NEW c \in Seconds, Opened(c)' PROVE Whole(branches[c])'
  <2>1. PICK bc : bc = branches'[c] OBVIOUS
  <2>2. CASE c = b
    <3>1. Whole(bc) BY <1>1, <1>4, <2>1, <2>2 DEF Opened
    <3>2. Whole(bc)' BY <3>1, WholeStays
    <3> QED BY <2>1, <3>2 DEF Whole
  <2>3. CASE c # b
    <3>1. bc = branches[c] /\ Opened(c) BY <1>1, <1>4, <2>1, <2>3 DEF Opened
    <3>2. Whole(bc) BY <3>1, WholePullRequests DEF Inv
    <3>3. Whole(bc)' BY <3>2, WholeStays
    <3> QED BY <2>1, <3>3 DEF Whole
  <2> QED BY <2>2, <2>3
<1>5. PullRequestsAreWhole' BY <1>4 DEF PullRequestsAreWhole, Opened, Whole
<1>6. WorkflowFindsItsFiles' BY DEF Inv, WorkflowFindsItsFiles
<1>7. WaitingCanBeMatched' BY <1>2, WaitingStays DEF Inv
<1> QED BY <1>1, <1>2, <1>3, <1>5, <1>6, <1>7

LEMMA FilesOfJob ==
    ASSUME NEW j \in Job
    PROVE  /\ Len(JobFiles(j)) \in {3, 4} /\ DOMAIN JobFiles(j) = 1..Len(JobFiles(j))
           /\ \A i \in 1..Len(JobFiles(j)) :
                 JobFiles(j)[i].path \in Paths /\ JobFiles(j)[i].text \in Texts \ {NoFile}
           /\ \A i, n \in 1..Len(JobFiles(j)) : JobFiles(j)[i].path = JobFiles(j)[n].path => i = n
<1>1. j.ask \in Asks /\ j.read \in BOOLEAN BY DEF Job
<1>2. PICK files : files = JobFiles(j) OBVIOUS
<1>3. PICK s : s = Effective(j.ask, j.read) OBVIOUS
<1>4. files = FilesOf(j.ask.stage, s) BY <1>2, <1>3 DEF JobFiles
<1> QED BY <1>1, <1>2, <1>3, <1>4, FilesOfAsk

LEMMA CreateBranchKeeps ==
    ASSUME Inv, NEW g \in Goroutines, CreateBranch(g)
    PROVE  Inv'
<1>1. PICK j \in Job : j = jobs[g] /\ j.pc = "branch" /\ j # Idle BY Busy DEF CreateBranch, At, Inv
<1>2. JobOK(j) BY <1>1 DEF Inv, JobsInv
<1>3. PICK b \in Seconds : b = j.second BY DEF Job
<1> DEFINE br == [state |-> "made", fork |-> j.fork, tree |-> j.fork, ahead |-> FALSE]
<1>4. UNCHANGED <<base, hooked, project, waiting, now, served>> BY DEF CreateBranch
<1>5. troubles' \subseteq Faults /\ (troubles # {} => troubles' # {})
  BY TroubleMoves DEF CreateBranch, Fails, Inv, TypeOK
<1>6. br \in BranchState /\ FromBase(br.fork) /\ br.state = "made" BY <1>2 DEF BranchState, Job, JobOK
<1>7. CASE branches' = branches /\ Ends(g)
  <2>1. Grows BY <1>4, <1>5, <1>7, NothingGrows DEF github
  <2>2. jobs' \in [Goroutines -> Job \cup {Idle}] /\ JobsInv' /\ AloneInv' BY <1>7, <2>1, EndsKeepsJobs
  <2>3. ForksInv' /\ PullRequestsAreWhole' /\ WorkflowFindsItsFiles' BY <1>4, <1>5, <1>7, GithubStays DEF Inv
  <2>4. WaitingCanBeMatched' BY <1>4, <2>1, WaitingStays DEF Inv
  <2>5. TypeOK' BY <1>4, <1>5, <1>7, <2>2 DEF Inv, TypeOK
  <2> QED BY <2>2, <2>3, <2>4, <2>5 DEF Inv
<1>8. CASE branches[b].state = "none" /\ branches' = [branches EXCEPT ![b] = br] /\ (Ends(g) \/ Goto(g, "upsert"))
  <2> HIDE DEF br
  <2>1. /\ branches' \in [Seconds -> BranchState]
        /\ branches'[b] = br /\ \A c \in Seconds \ {b} : branches'[c] = branches[c]
        /\ Grows /\ ForksInv' /\ PullRequestsAreWhole' /\ WorkflowFindsItsFiles' /\ WaitingCanBeMatched'
    BY <1>4, <1>5, <1>6, <1>8, BranchStep DEF Opened
  <2>2. ASSUME NEW h \in Goroutines \ {g}, Writing(jobs[h])
        PROVE  jobs[h].second # b /\ branches'[jobs[h].second] = branches[jobs[h].second]
    <3>1. PICK jh \in Job : jh = jobs[h] BY <2>2, IdleIsNoJob DEF Inv, TypeOK, Writing
    <3>2. JobOK(jh) BY <3>1, IdleIsNoJob DEF Inv, JobsInv
    <3>3. branches[jh.second].state = "made" /\ jh.second \in Seconds
      BY <2>2, <3>1, <3>2 DEF JobOK, WrittenOn, Job
    <3> QED BY <1>8, <2>1, <3>1, <3>3
  <2>3. jobs' \in [Goroutines -> Job \cup {Idle}] /\ JobsInv' /\ AloneInv'
    <3>1. CASE Ends(g) BY <2>1, <2>2, <3>1, EndsKeepsJobs
    <3>2. CASE Goto(g, "upsert")
      <4>1. PICK k \in Job : k = [j EXCEPT !.pc = "upsert"] BY PcOfJob DEF Pc
      <4>2. /\ jobs' \in [Goroutines -> Job \cup {Idle}] /\ jobs'[g] = k
            /\ \A h \in Goroutines \ {g} : jobs'[h] = jobs[h]
        BY <1>1, <3>2, <4>1, GotoMoves DEF At, Inv, Pc
      <4>3. /\ k.read = j.read /\ k.pc = "upsert" /\ k.fork = j.fork /\ k.opened = j.opened
            /\ k.second = b /\ k.file = 1
        BY <1>1, <1>2, <1>3, <4>1 DEF Job, JobOK
      <4>4. WrittenOn(br, k)
        <5>1. Written(k) = 0 BY <4>3 DEF Written
        <5>2. 1 \in 1..Len(JobFiles(k))
          <6>1. Len(JobFiles(k)) \in {3, 4} BY FilesOfJob
          <6> QED BY ONLY <6>1
        <5>3. br.state = "made" /\ br.tree = br.fork BY DEF br
        <5> QED BY <4>3, <5>1, <5>2, <5>3 DEF WrittenOn
      <4>5. JobOK(k)'
        <5>1. FromBase(k.fork)' BY <1>2, <1>4, <4>3 DEF JobOK, FromBase
        <5>2. ~k.opened BY <1>2, <1>3, <1>8, <4>3 DEF JobOK, Opened
        <5>3. WrittenOn(branches[k.second], k)' BY <2>1, <4>3, <4>4 DEF WrittenOn
        <5> QED BY <1>1, <1>2, <1>5, <4>3, <5>1, <5>2, <5>3 DEF JobOK, Writing
      <4> QED BY <2>1, <2>2, <4>2, <4>3, <4>5, StepKeepsJobs DEF Inv
    <3> QED BY <1>8, <3>1, <3>2
  <2>4. TypeOK' BY <1>4, <1>5, <2>1, <2>3 DEF Inv, TypeOK
  <2> QED BY <2>1, <2>3, <2>4 DEF Inv
<1> QED BY <1>1, <1>3, <1>7, <1>8 DEF CreateBranch, Branch, Fails

\* A request writes its next file.
LEMMA WrittenNext ==
    ASSUME NEW j \in Job, NEW br \in BranchState, WrittenOn(br, j), j.pc = "upsert",
           NEW n, n = j.file, NEW files, files = JobFiles(j),
           NEW new \in BranchState, new.state = br.state, new.fork = br.fork,
           new.tree[files[n].path] = files[n].text,
           \A p \in Paths : p # files[n].path => new.tree[p] = br.tree[p],
           NEW k, k = IF n < Len(files) THEN [j EXCEPT !.file = n + 1] ELSE [j EXCEPT !.pc = "pull"]
    PROVE  /\ k \in Job /\ Writing(k) /\ WrittenOn(new, k)
           /\ k.read = j.read /\ k.fork = j.fork /\ k.opened = j.opened /\ k.second = j.second
<1>1. /\ Len(files) \in {3, 4}
      /\ \A i \in 1..Len(files) : files[i].path \in Paths /\ files[i].text \in Texts \ {NoFile}
      /\ \A i, m \in 1..Len(files) : files[i].path = files[m].path => i = m
  BY FilesOfJob
<1>2. n \in 1..Len(files) BY DEF WrittenOn
<1>3. n \in Int /\ Len(files) \in Int /\ 1 <= n /\ n <= Len(files) /\ Len(files) <= 4
  <2>1. Len(files) \in Int /\ Len(files) <= 4 BY ONLY <1>1
  <2> QED BY <1>2, <2>1
<1>4. /\ k \in Job /\ Writing(k) /\ k.ask = j.ask /\ k.file \in 1..Len(files) /\ Written(k) = n
      /\ k.read = j.read /\ k.fork = j.fork /\ k.opened = j.opened /\ k.second = j.second
  <2>1. CASE n < Len(files)
    <3>1. n + 1 \in 1..4 /\ n + 1 \in 1..Len(files) /\ (n + 1) - 1 = n BY ONLY <1>3, <2>1
    <3>2. k = [j EXCEPT !.file = n + 1] BY <2>1
    <3>3. k \in Job /\ k.pc = "upsert" /\ k.file = n + 1 /\ k.ask = j.ask
          /\ k.read = j.read /\ k.fork = j.fork /\ k.opened = j.opened /\ k.second = j.second
      BY <3>1, <3>2 DEF Job
    <3> QED BY <3>1, <3>3 DEF Writing, Written
  <2>2. CASE ~(n < Len(files))
    <3>1. n = Len(files) BY <1>3, <2>2
    <3>2. k = [j EXCEPT !.pc = "pull"] BY <2>2
    <3>3. k \in Job BY <3>2, PcOfJob DEF Pc
    <3>4. k.pc = "pull" /\ k.file = n /\ k.ask = j.ask
          /\ k.read = j.read /\ k.fork = j.fork /\ k.opened = j.opened /\ k.second = j.second
      BY <3>2 DEF Job
    <3>5. JobFiles(k) = files BY <3>4 DEF JobFiles
    <3> QED BY <1>2, <3>1, <3>3, <3>4, <3>5 DEF Writing, Written
  <2> QED BY <2>1, <2>2
<1>5. JobFiles(k) = files BY <1>4 DEF JobFiles
<1>6. Written(j) = n - 1 BY DEF Written
<1>7. ASSUME NEW i \in 1..n PROVE new.tree[files[i].path] = files[i].text
  <2>1. CASE i = n BY <2>1
  <2>2. CASE i # n
    <3>1. i \in 1..(n - 1) /\ i \in 1..Len(files) BY <1>3, <2>2
    <3>2. br.tree[files[i].path] = files[i].text BY <1>6, <3>1 DEF WrittenOn
    <3>3. files[i].path # files[n].path /\ files[i].path \in Paths BY <1>1, <1>2, <2>2, <3>1
    <3> QED BY <3>2, <3>3
  <2> QED BY <2>1, <2>2
<1>8. ASSUME NEW p \in Paths, \A i \in 1..n : files[i].path # p PROVE new.tree[p] = new.fork[p]
  <2>1. p # files[n].path /\ \A i \in 1..(n - 1) : files[i].path # p BY <1>3, <1>8
  <2>2. br.tree[p] = br.fork[p] BY <1>6, <2>1 DEF WrittenOn
  <2> QED BY <2>1, <2>2
<1>9. new.state = "made" BY DEF WrittenOn
<1>10. WrittenOn(new, k) BY <1>4, <1>5, <1>7, <1>8, <1>9 DEF WrittenOn
<1> QED BY <1>4, <1>10

\* Another request writes to another branch.
LEMMA OthersWriteElsewhere ==
    ASSUME Inv, NEW g \in Goroutines, Writing(jobs[g]), NEW b \in Seconds, b = jobs[g].second,
           \A c \in Seconds \ {b} : branches'[c] = branches[c], NEW h \in Goroutines \ {g}, Writing(jobs[h])
    PROVE  jobs[h].second # b /\ branches'[jobs[h].second] = branches[jobs[h].second]
<1>1. PICK jh \in Job : jh = jobs[h] BY IdleIsNoJob DEF Inv, TypeOK, Writing
<1>2. jh.second \in Seconds BY DEF Job
<1>3. jobs[h].second # jobs[g].second BY DEF Inv, AloneInv
<1> QED BY <1>1, <1>2, <1>3

LEMMA UpsertFileKeeps ==
    ASSUME Inv, NEW g \in Goroutines, UpsertFile(g)
    PROVE  Inv'
<1>1. PICK j \in Job : j = jobs[g] /\ j.pc = "upsert" /\ j # Idle BY Busy DEF UpsertFile, At, Inv
<1>2. JobOK(j) BY <1>1 DEF Inv, JobsInv
<1>3. PICK b \in Seconds : b = j.second BY DEF Job
<1>4. PICK br \in BranchState : br = branches[b] BY DEF Inv, TypeOK
<1>5. WrittenOn(br, j) /\ br.state = "made" BY <1>1, <1>2, <1>3, <1>4 DEF JobOK, Writing, WrittenOn
<1>6. PICK files : files = JobFiles(j) OBVIOUS
<1>7. PICK n : n = j.file OBVIOUS
<1>8. files[n].path \in Paths /\ files[n].text \in Texts
  <2>1. n \in 1..Len(files) BY <1>5, <1>6, <1>7 DEF WrittenOn
  <2> QED BY <1>6, <2>1, FilesOfJob
<1> DEFINE put == [br EXCEPT !.tree = [@ EXCEPT ![files[n].path] = files[n].text], !.ahead = TRUE]
           k   == IF n < Len(files) THEN [j EXCEPT !.file = n + 1] ELSE [j EXCEPT !.pc = "pull"]
<1>9. /\ put \in BranchState /\ put.state = "made" /\ put.fork = br.fork
      /\ put.tree[files[n].path] = files[n].text
      /\ \A p \in Paths : p # files[n].path => put.tree[p] = br.tree[p]
  BY <1>5, <1>8 DEF BranchState
<1>10. UNCHANGED <<base, hooked, project, waiting, now, served>> BY DEF UpsertFile
<1>11. troubles' \subseteq Faults /\ (troubles # {} => troubles' # {})
  BY TroubleMoves DEF UpsertFile, Fails, Inv, TypeOK
<1>12. Files(g) = files BY <1>1, <1>6 DEF Files, Settled, JobFiles
<1>13. Put(g) => branches' = [branches EXCEPT ![b] = put]
  BY <1>1, <1>3, <1>4, <1>7, <1>12 DEF Put, Branch, Inv, TypeOK
<1>14. NextFile(g) => jobs' = [jobs EXCEPT ![g] = k]
  BY <1>1, <1>7, <1>12 DEF NextFile, Goto, Inv, TypeOK
<1>15. branches' = branches => branches' = [branches EXCEPT ![b] = br] BY <1>4 DEF Inv, TypeOK
<1>16. PICK new \in BranchState :
          /\ branches' = [branches EXCEPT ![b] = new] /\ new.state = "made" /\ new.fork = br.fork
          /\ \/ Ends(g)
             \/ /\ jobs' = [jobs EXCEPT ![g] = k]
                /\ new.tree[files[n].path] = files[n].text
                /\ \A p \in Paths : p # files[n].path => new.tree[p] = br.tree[p]
  <2> HIDE DEF put, k
  <2>1. CASE br.tree[files[n].path] = files[n].text /\ NextFile(g) /\ branches' = branches
    BY <1>5, <1>14, <1>15, <2>1
  <2>2. CASE NextFile(g) /\ Put(g) BY <1>9, <1>13, <1>14, <2>2
  <2>3. CASE Put(g) /\ Ends(g) BY <1>9, <1>13, <2>3
  <2>4. CASE branches' = branches /\ Ends(g) BY <1>5, <1>15, <2>4
  <2> QED BY <1>1, <1>3, <1>4, <1>7, <1>12, <2>1, <2>2, <2>3, <2>4 DEF UpsertFile, Fails, Branch
<1> HIDE DEF put, k
<1>17. FromBase(new.fork) BY <1>4, <1>5, <1>16 DEF Inv, ForksInv
<1>18. /\ branches' \in [Seconds -> BranchState]
       /\ branches'[b] = new /\ \A c \in Seconds \ {b} : branches'[c] = branches[c]
       /\ Grows /\ ForksInv' /\ PullRequestsAreWhole' /\ WorkflowFindsItsFiles' /\ WaitingCanBeMatched'
  BY <1>4, <1>5, <1>10, <1>11, <1>16, <1>17, BranchStep DEF Opened
<1>19. \A h \in Goroutines \ {g} : Writing(jobs[h]) =>
          jobs[h].second # b /\ branches'[jobs[h].second] = branches[jobs[h].second]
  BY <1>1, <1>3, <1>18, OthersWriteElsewhere DEF Writing
<1>20. jobs' \in [Goroutines -> Job \cup {Idle}] /\ JobsInv' /\ AloneInv'
  <2>1. CASE Ends(g) BY <1>18, <1>19, <2>1, EndsKeepsJobs
  <2>2. CASE /\ jobs' = [jobs EXCEPT ![g] = k]
             /\ new.tree[files[n].path] = files[n].text
             /\ \A p \in Paths : p # files[n].path => new.tree[p] = br.tree[p]
    <3>1. /\ k \in Job /\ Writing(k) /\ WrittenOn(new, k)
          /\ k.read = j.read /\ k.fork = j.fork /\ k.opened = j.opened /\ k.second = j.second
      BY <1>1, <1>5, <1>6, <1>7, <1>16, <2>2, WrittenNext DEF k
    <3>2. /\ jobs' \in [Goroutines -> Job \cup {Idle}] /\ jobs'[g] = k
          /\ \A h \in Goroutines \ {g} : jobs'[h] = jobs[h]
      BY <2>2, <3>1 DEF Inv, TypeOK
    <3>3. JobOK(k)'
      <4>1. FromBase(k.fork)' BY <1>2, <1>10, <3>1 DEF JobOK, FromBase
      <4>2. ~k.opened BY <1>2, <1>3, <1>4, <1>5, <3>1 DEF JobOK, Opened
      <4>3. WrittenOn(branches[k.second], k)' BY <1>3, <1>18, <3>1 DEF WrittenOn
      <4>4. k.read \/ troubles' # {} BY <1>1, <1>2, <1>11, <3>1 DEF JobOK
      <4>5. k.pc \in {"upsert", "pull"} BY <3>1 DEF Writing
      <4> QED BY <4>1, <4>2, <4>3, <4>4, <4>5 DEF JobOK
    <3> QED BY <1>3, <1>18, <1>19, <3>1, <3>2, <3>3, StepKeepsJobs DEF Inv
  <2> QED BY <1>16, <2>1, <2>2
<1>21. TypeOK' BY <1>10, <1>11, <1>18, <1>20 DEF Inv, TypeOK
<1> QED BY <1>18, <1>20, <1>21 DEF Inv

\* All files are written before the pull request is opened.
LEMMA WrittenIsWhole ==
    ASSUME NEW j \in Job, NEW br, WrittenOn(br, j), j.pc = "pull", j.read \/ troubles # {}
    PROVE  Whole(br)
<1>1. PICK a \in Asks : a = j.ask BY DEF Job
<1>2. PICK read \in BOOLEAN : read = j.read BY DEF Job
<1>3. PICK files : files = FilesOf(a.stage, Effective(a, read)) OBVIOUS
<1>4. files = JobFiles(j) BY <1>1, <1>2, <1>3 DEF JobFiles
<1>5. Written(j) = Len(files) /\ DOMAIN files = 1..Len(files) BY <1>4, FilesOfJob DEF Written
<1>6. HasFiles(br.tree, files) BY <1>4, <1>5 DEF WrittenOn, HasFiles
<1>7. \A p \in Paths \ {files[i].path : i \in DOMAIN files} : br.tree[p] = br.fork[p]
  BY <1>4, <1>5 DEF WrittenOn
<1>8. read \/ troubles # {} BY <1>2
<1> QED BY <1>3, <1>6, <1>7, <1>8 DEF Whole

LEMMA CreatePullRequestKeeps ==
    ASSUME Inv, NEW g \in Goroutines, CreatePullRequest(g)
    PROVE  Inv'
<1>1. PICK j \in Job : j = jobs[g] /\ j.pc = "pull" /\ j # Idle BY Busy DEF CreatePullRequest, At, Inv
<1>2. JobOK(j) BY <1>1 DEF Inv, JobsInv
<1>3. PICK b \in Seconds : b = j.second BY DEF Job
<1>4. PICK br \in BranchState : br = branches[b] BY DEF Inv, TypeOK
<1>5. WrittenOn(br, j) /\ br.state = "made" BY <1>1, <1>2, <1>3, <1>4 DEF JobOK, Writing, WrittenOn
<1>6. Whole(br) BY <1>1, <1>2, <1>5, WrittenIsWhole DEF JobOK
<1> DEFINE open == [br EXCEPT !.state = "open"]
           k    == [j EXCEPT !.pc = "hook", !.opened = TRUE]
<1>7. open \in BranchState /\ open.state = "open" /\ open.fork = br.fork /\ open.tree = br.tree
  BY DEF BranchState
<1>8. Whole(open)
  <2> HIDE DEF open
  <2> QED BY <1>6, <1>7 DEF Whole
<1>9. FromBase(br.fork) BY <1>4, <1>5 DEF Inv, ForksInv
<1>10. k \in Job /\ k.pc = "hook" /\ k.read = j.read /\ k.fork = j.fork /\ k.second = j.second
  BY DEF Job, Pc
<1>11. UNCHANGED <<base, hooked, project, waiting, now, served>> BY DEF CreatePullRequest
<1>12. troubles' \subseteq Faults /\ (troubles # {} => troubles' # {})
  BY TroubleMoves DEF CreatePullRequest, Fails, Inv, TypeOK
<1>13. branches' = branches => branches' = [branches EXCEPT ![b] = br] BY <1>4 DEF Inv, TypeOK
<1>14. /\ branches' = [branches EXCEPT ![b] = br] \/ branches' = [branches EXCEPT ![b] = open]
       /\ \/ Ends(g)
          \/ Goto(g, "hook")
          \/ branches' = [branches EXCEPT ![b] = open] /\ jobs' = [jobs EXCEPT ![g] = k]
  BY <1>1, <1>3, <1>4, <1>13 DEF CreatePullRequest, Branch, Fails
<1>15. PICK new \in BranchState :
          /\ branches' = [branches EXCEPT ![b] = new] /\ FromBase(new.fork)
          /\ new.state \in {"open", "merged"} => Whole(new)
          /\ \/ Ends(g)
             \/ Goto(g, "hook")
             \/ new.state = "open" /\ jobs' = [jobs EXCEPT ![g] = k]
  <2> HIDE DEF open, k
  <2>1. CASE branches' = [branches EXCEPT ![b] = open] BY <1>7, <1>8, <1>9, <1>14, <2>1
  <2>2. CASE /\ branches' = [branches EXCEPT ![b] = br] /\ (Ends(g) \/ Goto(g, "hook"))
    BY <1>5, <1>9, <2>2
  <2> QED BY <1>14, <2>1, <2>2
<1> HIDE DEF open, k
<1>16. /\ branches' \in [Seconds -> BranchState]
       /\ branches'[b] = new /\ \A c \in Seconds \ {b} : branches'[c] = branches[c]
       /\ Grows /\ ForksInv' /\ PullRequestsAreWhole' /\ WorkflowFindsItsFiles' /\ WaitingCanBeMatched'
  BY <1>4, <1>5, <1>11, <1>12, <1>15, BranchStep DEF Opened
<1>17. \A h \in Goroutines \ {g} : Writing(jobs[h]) =>
          jobs[h].second # b /\ branches'[jobs[h].second] = branches[jobs[h].second]
  BY <1>1, <1>3, <1>16, OthersWriteElsewhere DEF Writing
<1>18. FromBase(j.fork)' /\ (j.read \/ troubles' # {}) /\ ~j.opened
  BY <1>1, <1>2, <1>3, <1>4, <1>5, <1>11, <1>12 DEF JobOK, FromBase, Opened
<1>19. jobs' \in [Goroutines -> Job \cup {Idle}] /\ JobsInv' /\ AloneInv'
  <2>1. CASE Ends(g) BY <1>16, <1>17, <2>1, EndsKeepsJobs
  <2>2. CASE Goto(g, "hook")
    <3>1. PICK i \in Job : i = [j EXCEPT !.pc = "hook"] BY PcOfJob DEF Pc
    <3>2. /\ jobs' \in [Goroutines -> Job \cup {Idle}] /\ jobs'[g] = i
          /\ \A h \in Goroutines \ {g} : jobs'[h] = jobs[h]
      BY <1>1, <2>2, <3>1, GotoMoves DEF At, Inv, Pc
    <3>3. i.read = j.read /\ i.pc = "hook" /\ i.fork = j.fork /\ i.opened = j.opened BY <3>1 DEF Job
    <3>4. JobOK(i)' /\ ~Writing(i) BY <1>18, <3>3 DEF JobOK, Writing, FromBase
    <3> QED BY <1>16, <1>17, <3>2, <3>4, StepKeepsJobs DEF Inv
  <2>3. CASE new.state = "open" /\ jobs' = [jobs EXCEPT ![g] = k]
    <3>1. /\ jobs' \in [Goroutines -> Job \cup {Idle}] /\ jobs'[g] = k
          /\ \A h \in Goroutines \ {g} : jobs'[h] = jobs[h]
      BY <1>10, <2>3 DEF Inv, TypeOK
    <3>2. Opened(k.second)' BY <1>3, <1>10, <1>16, <2>3 DEF Opened
    <3>3. JobOK(k)' /\ ~Writing(k) BY <1>10, <1>18, <3>2 DEF JobOK, Writing, FromBase
    <3> QED BY <1>16, <1>17, <3>1, <3>3, StepKeepsJobs DEF Inv
  <2> QED BY <1>15, <2>1, <2>2, <2>3
<1>20. TypeOK' BY <1>11, <1>12, <1>16, <1>19 DEF Inv, TypeOK
<1> QED BY <1>16, <1>19, <1>20 DEF Inv

LEMMA MergeKeeps ==
    ASSUME Inv, NEW b \in Seconds, Merge(b)
    PROVE  Inv'
<1>1. PICK br \in BranchState : br = branches[b] BY DEF Inv, TypeOK
<1>2. br.state = "open" /\ Whole(br) BY <1>1, WholePullRequests DEF Merge, Inv, Opened
<1>3. PICK a \in Asks, read \in BOOLEAN :
          /\ HasFiles(br.tree, FilesOf(a.stage, Effective(a, read)))
          /\ \A p \in Paths \ {FilesOf(a.stage, Effective(a, read))[i].path :
                                  i \in DOMAIN FilesOf(a.stage, Effective(a, read))} : br.tree[p] = br.fork[p]
  BY <1>2 DEF Whole
<1>4. PICK s : s = Effective(a, read) OBVIOUS
<1>5. PICK files : files = FilesOf(a.stage, s) OBVIOUS
<1>6. /\ \A i \in 1..Len(files) : br.tree[files[i].path] = files[i].text
      /\ \A p \in Paths : br.tree[p] # br.fork[p] => \E i \in 1..Len(files) : p = files[i].path
  <2>1. DOMAIN files = 1..Len(files) BY <1>4, <1>5, FilesOfAsk
  <2> QED BY <1>3, <1>4, <1>5, <2>1 DEF HasFiles
<1>7. /\ UNCHANGED <<hooked, project, waiting, now, jobs, served, troubles>>
      /\ base' \in [Paths -> Texts]
      /\ \A p \in Paths : base'[p] = IF br.tree[p] # br.fork[p] THEN br.tree[p] ELSE base[p]
  BY <1>1 DEF Merge, Inv, TypeOK, BranchState
<1>8. FromBase(br.fork) BY <1>1, <1>2 DEF Inv, ForksInv
<1>9. \A p \in Paths : br.tree[p] # br.fork[p] => br.tree[p] # NoFile
  <2>1. \A i \in 1..Len(files) : files[i].text \in Texts \ {NoFile} BY <1>4, <1>5, FilesOfAsk
  <2> QED BY <1>6, <2>1
<1>10. \A p \in Paths : base[p] # NoFile \/ br.tree[p] # NoFile => base'[p] # NoFile
  BY <1>7, <1>8, <1>9 DEF FromBase
<1> DEFINE merged == [br EXCEPT !.state = "merged"]
<1>11. /\ merged \in BranchState /\ merged.state = "merged" /\ merged.tree = br.tree /\ merged.fork = br.fork
  BY DEF BranchState
<1>12. branches' = [branches EXCEPT ![b] = merged] BY <1>1 DEF Merge
<1> HIDE DEF merged
<1>13. /\ branches' \in [Seconds -> BranchState]
       /\ branches'[b] = merged /\ \A c \in Seconds \ {b} : branches'[c] = branches[c]
  BY <1>11, <1>12 DEF Inv, TypeOK
<1>14. Grows BY <1>7, <1>10, <1>11, <1>13 DEF Grows, Opened
<1>15. TypeOK' BY <1>7, <1>13 DEF Inv, TypeOK
<1>16. ASSUME NEW h \in Goroutines, jobs[h] # Idle PROVE JobOK(jobs[h])'
  <2>1. PICK j \in Job : j = jobs[h] BY <1>16 DEF Inv, TypeOK
  <2>2. JobOK(j) BY <1>16, <2>1 DEF Inv, JobsInv
  <2>3. j.second \in Seconds BY DEF Job
  <2>4. Writing(j) => branches'[j.second] = branches[j.second]
    BY <1>1, <1>2, <1>13, <2>2, <2>3 DEF JobOK, WrittenOn
  <2>5. JobOK(j)' BY <1>14, <2>2, <2>4, JobStays
  <2> QED BY <1>7, <2>1, <2>5
<1>17. JobsInv' /\ AloneInv' BY <1>7, <1>16 DEF Inv, JobsInv, AloneInv, Writing
<1>18. ForksInv' BY <1>1, <1>2, <1>10, <1>11, <1>13 DEF Inv, ForksInv, FromBase
<1>19. ASSUME NEW c \in Seconds, Opened(c)' PROVE Whole(branches[c])'
  <2>1. PICK bc : bc = branches'[c] OBVIOUS
  <2>2. Whole(bc)
    <3>1. CASE c = b BY <1>2, <1>11, <1>13, <2>1, <3>1 DEF Whole
    <3>2. CASE c # b
      <4>1. bc = branches[c] /\ Opened(c) BY <1>13, <1>19, <2>1, <3>2 DEF Opened
      <4> QED BY <4>1, WholePullRequests DEF Inv
    <3> QED BY <3>1, <3>2
  <2>3. Whole(bc)' BY <1>7, <2>2, WholeStays
  <2> QED BY <2>1, <2>3 DEF Whole
<1>20. PullRequestsAreWhole' BY <1>19 DEF PullRequestsAreWhole, Opened, Whole
<1>21. ASSUME NEW stage \in Stages, NEW w, w = base'[StageWorkflowPath(stage)], w # NoFile,
              NEW kind \in {"deployment", "service"} \cup {k \in {"ingress"} : w.ingress}
       PROVE  base'[ManifestPath(kind, stage, w.service)] # NoFile
  <2>1. StageWorkflowPath(stage) \in Paths BY DEF Paths, StageWorkflowPath
  <2>2. CASE br.tree[StageWorkflowPath(stage)] # br.fork[StageWorkflowPath(stage)]
    <3>1. PICK i \in 1..Len(files) : StageWorkflowPath(stage) = files[i].path BY <1>6, <2>1, <2>2
    <3>2. w = files[i].text BY <1>6, <1>7, <1>21, <2>1, <2>2, <3>1
    <3>3. stage = a.stage /\ w.service = s.service /\ w.ingress = s.ingress
      BY <1>4, <1>5, <3>1, <3>2, FilesOfAsk
    <3>4. PICK m \in 1..Len(files) : files[m].path = ManifestPath(kind, stage, w.service)
      BY <1>4, <1>5, <1>21, <3>3, FilesOfAsk
    <3>5. files[m].path \in Paths /\ br.tree[files[m].path] # NoFile BY <1>4, <1>5, <1>6, FilesOfAsk
    <3> QED BY <1>10, <3>4, <3>5
  <2>3. CASE br.tree[StageWorkflowPath(stage)] = br.fork[StageWorkflowPath(stage)]
    <3>1. w = base[StageWorkflowPath(stage)] BY <1>7, <1>21, <2>1, <2>3
    <3>2. base[ManifestPath(kind, stage, w.service)] # NoFile
      BY <1>21, <3>1 DEF Inv, WorkflowFindsItsFiles
    <3>3. ManifestPath(kind, stage, w.service) \in Paths
      <4>1. w.service \in Services BY <1>21, <2>1, <3>1, TextsNameServices DEF Inv, TypeOK
      <4>2. kind \in Kinds BY <1>21 DEF Kinds
      <4> QED BY <4>1, <4>2 DEF Paths, ManifestPath
    <3> QED BY <1>10, <3>2, <3>3
  <2> QED BY <2>2, <2>3
<1>22. WorkflowFindsItsFiles' BY <1>21 DEF WorkflowFindsItsFiles
<1>23. WaitingCanBeMatched' BY <1>7, <1>14, WaitingStays DEF Inv
<1> QED BY <1>15, <1>17, <1>18, <1>20, <1>22, <1>23 DEF Inv

-----------------------------------------------------------------------------
(* The invariant is one *)

LEMMA NextKeeps == Inv /\ [Next]_vars => Inv'
<1> SUFFICES ASSUME Inv, [Next]_vars PROVE Inv' OBVIOUS
<1>1. ASSUME NEW g \in Goroutines, NEW a \in Asks,
             BuildGitHubBootstrapQuestions(g, a) \/ BootstrapGitHubFlow(g, a)
      PROVE  Inv'
  BY <1>1, BeginKeeps DEF BuildGitHubBootstrapQuestions, BootstrapGitHubFlow
<1>2. ASSUME NEW g \in Goroutines, Step(g) PROVE Inv'
  <2>1. CASE Infer(g) BY <2>1, InferKeeps
  <2>2. CASE GetBranchSHA(g) BY <2>2, GetBranchSHAKeeps
  <2>3. CASE CreateBranch(g) BY <2>3, CreateBranchKeeps
  <2>4. CASE UpsertFile(g) BY <2>4, UpsertFileKeeps
  <2>5. CASE CreatePullRequest(g) BY <2>5, CreatePullRequestKeeps
  <2>6. CASE EnsureWorkflowWebhook(g) BY <2>6, EnsureWorkflowWebhookKeeps
  <2>7. CASE SaveProject(g) BY <2>7, SaveProjectKeeps
  <2>8. CASE CreatePendingRelease(g) BY <2>8, CreatePendingReleaseKeeps
  <2> QED BY <1>2, <2>1, <2>2, <2>3, <2>4, <2>5, <2>6, <2>7, <2>8 DEF Step
<1>3. CASE UNCHANGED vars
  <2>1. UNCHANGED <<github, project, waiting, now, jobs, served, troubles>> BY <1>3 DEF vars
  <2>2. TypeOK' BY <2>1 DEF github, Inv, TypeOK
  <2>3. JobsInv' /\ AloneInv'
    BY <2>1 DEF Inv, JobsInv, AloneInv, JobOK, FromBase, Opened, WrittenOn, Writing, github
  <2>4. ForksInv' /\ PullRequestsAreWhole' /\ WorkflowFindsItsFiles' BY <2>1, GithubStays DEF Inv, github
  <2>5. WaitingCanBeMatched' BY <2>1, NothingGrows, WaitingStays DEF Inv
  <2> QED BY <2>2, <2>3, <2>4, <2>5 DEF Inv
<1> QED BY <1>1, <1>2, <1>3, MergeKeeps, TickKeeps, CrashKeeps DEF Next

LEMMA InvHolds == Spec => []Inv
BY InitInv, NextKeeps, PTL DEF Spec

-----------------------------------------------------------------------------
(* The theorems *)

\* Type correctness of BootstrapGitHubFlow: whatever is asked, in whatever order its
\* calls fail, the project keeps settings it can have and the branches files of requests.
THEOREM TypeCorrect == Spec => []TypeOK
BY InvHolds, PTL DEF Inv

\* BootstrapRepositoryFlow opens a pull request only when its loop over the files has
\* ended, and on a branch of its own: what one merges is all that one request asked for.
THEOREM OnePullRequestPerAsk == Spec => []PullRequestsAreWhole
BY InvHolds, PTL DEF Inv

\* The base branch has a manifest for all that its workflows apply: pull requests made
\* before others were merged, and merged after them, take no file away.
THEOREM WorkflowsAreComplete == Spec => []WorkflowFindsItsFiles
BY InvHolds, PTL DEF Inv

\* createBootstrapPendingRelease is reached with a pull request, a project that names
\* the repository, and a webhook registered, as far as that can be.
THEOREM WaitingIsMatched == Spec => []WaitingCanBeMatched
BY InvHolds, PTL DEF Inv
=============================================================================
