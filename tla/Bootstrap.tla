------------------------------ MODULE Bootstrap ------------------------------
(***************************************************************************)
(* BootstrapGitHubFlow of ProjectService and BootstrapRepositoryFlow of    *)
(* GitHubAutomation, call by call, for one project and one repository: a   *)
(* branch is made, the workflow and the manifests are written to it, a     *)
(* pull request is opened, the webhook registered, the project saved and   *)
(* the release that waits for the workflow created.  Its stage is looked   *)
(* up in Stages, its money reserved in DeployBudget.  Who merges pull      *)
(* requests is the user.                                                   *)
(***************************************************************************)
EXTENDS Integers, Sequences

CONSTANTS
    Goroutines,     \* goroutines serving requests
    Serves,         \* bound: what each of them serves
    Asks,           \* the requests: fields may be left blank, "" or 0
    RepositoryName, \* the name a service gets that is given none
    ExposedPort,    \* the port the Dockerfile exposes
    HasDomain,      \* whether the applications have a base domain
    HasPublicURL,   \* whether the service can be reached by GitHub
    MaxSecond,      \* bound: seconds of the clock
    MaxServed,      \* bound: requests
    Faults          \* what may go wrong, once: "call", "crash"

ASSUME AsksAssumption ==
    Asks \subseteq [stage : STRING, service : STRING, type : {"", "LoadBalancer", "ClusterIP"},
                    dedicated : BOOLEAN, port : Nat, replicas : Int, repository : BOOLEAN]
ASSUME ServesAssumption == Serves \in [Goroutines -> SUBSET {"bootstrap", "questions"}]
ASSUME PlaceAssumption  ==
    /\ RepositoryName \in STRING \ {""} /\ ExposedPort \in Nat \ {0}
    /\ HasDomain \in BOOLEAN /\ HasPublicURL \in BOOLEAN
ASSUME BoundsAssumption ==
    MaxSecond \in Nat /\ MaxServed \in Nat /\ Faults \subseteq {"call", "crash"}

VARIABLES
    base,           \* the files on the base branch
    branches,       \* the branch deploy-service/<project>-<second>, for each second
    hooked,         \* whether the repository has the workflow_run webhook
    project,        \* the project: does it name the repository, and its settings
    waiting,        \* pending releases, by the branch of their pull request
    now,            \* the clock
    jobs,           \* what each goroutine is doing
    served,         \* requests so far
    troubles        \* history: faults

github == <<base, branches, hooked>>
vars == <<github, project, waiting, now, jobs, served, troubles>>

-----------------------------------------------------------------------------
(* What is asked, and what becomes of it *)

Seconds == 0..MaxSecond

\* The settings that a project keeps.
Names    == {"", RepositoryName} \cup {a.service : a \in Asks}
Ports    == {0, 8080, ExposedPort} \cup {a.port : a \in Asks}
Settings == [service : Names, type : {"", "LoadBalancer", "ClusterIP"}, dedicated : BOOLEAN,
             port : Ports, replicas : 0..10]
NoSettings == [service |-> "", type |-> "", dedicated |-> FALSE, port |-> 0, replicas |-> 0]

\* Mutant: only the lower bound.
AtLeastOneReplica(n) == IF n <= 0 THEN 1 ELSE n

NormalizedReplicaCount(n) == IF n <= 0 THEN 1 ELSE IF n > 10 THEN 10 ELSE n

\* resolveServiceExposure: an ingress takes the place of a load balancer of one's own.
NeedsIngress(type, dedicated) == type = "LoadBalancer" /\ ~dedicated /\ HasDomain
ServiceManifestType(type, dedicated) == IF NeedsIngress(type, dedicated) THEN "ClusterIP" ELSE type

\* inferBootstrapSettings; a Dockerfile that could not be read exposes nothing.
Inferred(a, read) ==
    [service |-> IF a.service # "" THEN a.service ELSE RepositoryName,
     port    |-> IF read THEN ExposedPort ELSE 8080]

\* What the files are rendered from: the request, and what is blank in it is inferred.
Effective(a, read) ==
    LET type == IF a.type # "" THEN a.type ELSE "LoadBalancer" IN
    [service  |-> Inferred(a, read).service,
     port     |-> IF a.port > 0 THEN a.port ELSE Inferred(a, read).port,
     type     |-> ServiceManifestType(type, a.dedicated),
     ingress  |-> NeedsIngress(type, a.dedicated),
     replicas |-> NormalizedReplicaCount(a.replicas)]

-----------------------------------------------------------------------------
(* Files *)

StageWorkflowPath(stage)            == [kind |-> "workflow", stage |-> stage, service |-> ""]
ManifestPath(kind, stage, service)  == [kind |-> kind, stage |-> stage, service |-> service]

Stages   == {a.stage : a \in Asks}
Services == Names \ {""}
Kinds    == {"deployment", "service", "ingress"}
Paths    == [kind : {"workflow"}, stage : Stages, service : {""}]
                \cup [kind : Kinds, stage : Stages, service : Services]

\* A file is told apart by the settings it was rendered from.
NoFile == [service |-> "", port |-> 0, type |-> "", ingress |-> FALSE, replicas |-> 0]

RenderWorkflow(s)   == [NoFile EXCEPT !.service = s.service, !.ingress = s.ingress]
RenderDeployment(s) == [NoFile EXCEPT !.service = s.service, !.port = s.port, !.replicas = s.replicas]
RenderService(s)    == [NoFile EXCEPT !.service = s.service, !.port = s.port, !.type = s.type]
RenderIngress(s)    == [NoFile EXCEPT !.service = s.service, !.port = s.port]

\* The files of a request, in the order they are written.
FilesOf(stage, s) ==
    LET file(path, text) == [path |-> path, text |-> text]
        workflow   == file(StageWorkflowPath(stage), RenderWorkflow(s))
        deployment == file(ManifestPath("deployment", stage, s.service), RenderDeployment(s))
        service    == file(ManifestPath("service", stage, s.service), RenderService(s))
        ingress    == file(ManifestPath("ingress", stage, s.service), RenderIngress(s))
    IN  IF s.ingress THEN <<workflow, deployment, service, ingress>> ELSE <<workflow, deployment, service>>

Effectives == {Effective(a, read) : a \in Asks, read \in BOOLEAN}
Texts == {NoFile} \cup {RenderWorkflow(s) : s \in Effectives} \cup {RenderDeployment(s) : s \in Effectives}
            \cup {RenderService(s) : s \in Effectives} \cup {RenderIngress(s) : s \in Effectives}

-----------------------------------------------------------------------------
(* State *)

Empty    == [p \in Paths |-> NoFile]
NoBranch == [state |-> "none", fork |-> Empty, tree |-> Empty, ahead |-> FALSE]

Project     == [named : BOOLEAN, settings : Settings]
BranchState == [state : {"none", "made", "open", "merged"}, ahead : BOOLEAN,
                fork : [Paths -> Texts], tree : [Paths -> Texts]]

\* ask is the request and copy the project as it was read, read whether its Dockerfile
\* could be, fork the base branch as it was then, file the next to write, opened
\* whether there is a pull request.
Pc   == {"infer", "sha", "branch", "upsert", "pull", "hook", "save", "release"}
Job  == [op : {"bootstrap", "questions"}, pc : Pc, ask : Asks, copy : Project, read : BOOLEAN,
         fork : [Paths -> Texts], second : Seconds, file : 1..4, opened : BOOLEAN]
Idle == [op |-> "none", pc |-> "idle"]

TypeOK ==
    /\ base \in [Paths -> Texts]
    /\ branches \in [Seconds -> BranchState]
    /\ hooked \in BOOLEAN
    /\ project \in Project
    /\ waiting \subseteq Seconds /\ now \in Seconds
    /\ jobs \in [Goroutines -> Job \cup {Idle}]
    /\ served \in 0..MaxServed /\ troubles \subseteq Faults

Init ==
    /\ base = Empty /\ branches = [b \in Seconds |-> NoBranch] /\ hooked = FALSE
    /\ project = [named |-> FALSE, settings |-> NoSettings] /\ waiting = {} /\ now = 0
    /\ jobs = [g \in Goroutines |-> Idle] /\ served = 0 /\ troubles = {}

At(g, pc)   == jobs[g].pc = pc
Goto(g, pc) == jobs' = [jobs EXCEPT ![g].pc = pc]
Ends(g)     == jobs' = [jobs EXCEPT ![g] = Idle]
Branch(g)   == jobs[g].second
Settled(g)  == Effective(jobs[g].ask, jobs[g].read)
Files(g)    == FilesOf(jobs[g].ask.stage, Settled(g))

\* A fault of the given kind occurs; one in a behaviour (bound).
Trouble(kind) == kind \in Faults /\ troubles = {} /\ troubles' = {kind}
\* A call fails, and with it the request.
Fails(g)      == Trouble("call") /\ Ends(g)

-----------------------------------------------------------------------------
(* BuildGitHubBootstrapQuestions and BootstrapGitHubFlow *)

\* The project is read; the repository is the one asked for, or the one it names.
Begin(g, op, a) ==
    /\ op \in Serves[g] /\ At(g, "idle") /\ served < MaxServed
    /\ a.repository \/ project.named
    /\ jobs' = [jobs EXCEPT ![g] = [op |-> op, pc |-> "infer", ask |-> a, copy |-> project, read |-> FALSE,
                                    fork |-> Empty, second |-> 0, file |-> 1, opened |-> FALSE]]
    /\ served' = served + 1
    /\ UNCHANGED <<github, project, waiting, now, troubles>>

BuildGitHubBootstrapQuestions(g, a) == Begin(g, "questions", a)
BootstrapGitHubFlow(g, a)           == Begin(g, "bootstrap", a)

\* inferBootstrapSettings: the default branch is needed, the Dockerfile is not.
Infer(g) ==
    /\ At(g, "infer")
    /\ LET next(read) == jobs' = [jobs EXCEPT ![g].read = read,
                                              ![g].pc = IF jobs[g].op = "questions" THEN "save" ELSE "sha"]
       IN  \/ next(TRUE) /\ UNCHANGED troubles
           \/ next(FALSE) /\ Trouble("call")
           \/ Fails(g)
    /\ UNCHANGED <<github, project, waiting, now, served>>

\* getBranchSHA; after it the branch gets its name, from the clock.
GetBranchSHA(g) ==
    /\ At(g, "sha")
    /\ \/ /\ jobs' = [jobs EXCEPT ![g].fork = base, ![g].second = now, ![g].pc = "branch"]
          /\ UNCHANGED troubles
       \/ Fails(g)
    /\ UNCHANGED <<github, project, waiting, now, served>>

\* Mutant: a branch that is there already is as good as a new one.
CreateBranchOrUse(g) ==
    /\ At(g, "branch")
    /\ branches' = [branches EXCEPT ![Branch(g)] =
                      IF @.state # "none" THEN @
                      ELSE [state |-> "made", fork |-> jobs[g].fork, tree |-> jobs[g].fork, ahead |-> FALSE]]
    /\ Goto(g, "upsert")
    /\ UNCHANGED <<base, hooked, project, waiting, now, served, troubles>>

\* createBranch: GitHub refuses a name that is taken.
CreateBranch(g) ==
    LET free == branches[Branch(g)].state = "none"
        done == branches' = [branches EXCEPT ![Branch(g)] =
                    [state |-> "made", fork |-> jobs[g].fork, tree |-> jobs[g].fork, ahead |-> FALSE]]
    IN
    /\ At(g, "branch")
    /\ \/ free /\ done /\ Goto(g, "upsert") /\ UNCHANGED troubles
       \/ ~free /\ Ends(g) /\ UNCHANGED <<branches, troubles>>
       \/ ((free /\ done) \/ UNCHANGED branches) /\ Fails(g)
    /\ UNCHANGED <<base, hooked, project, waiting, now, served>>

NextFile(g) ==
    IF jobs[g].file < Len(Files(g)) THEN jobs' = [jobs EXCEPT ![g].file = @ + 1] ELSE Goto(g, "pull")

\* The file is committed to the branch.
Put(g) ==
    LET file == Files(g)[jobs[g].file] IN
    branches' = [branches EXCEPT ![Branch(g)].tree[file.path] = file.text, ![Branch(g)].ahead = TRUE]

\* Mutant: the loop goes on after a file that could not be written.
UpsertFileOrNot(g) ==
    LET file == Files(g)[jobs[g].file] IN
    /\ At(g, "upsert") /\ NextFile(g)
    /\ \/ Put(g) /\ UNCHANGED troubles
       \/ UNCHANGED branches /\ Trouble("call")
    /\ UNCHANGED <<base, hooked, project, waiting, now, served>>

\* upsertFile: a file that is the same already is skipped. If that cannot be read the
\* file is written nevertheless; but if its SHA cannot, GitHub refuses to replace it.
UpsertFile(g) ==
    LET file == Files(g)[jobs[g].file]
        old  == branches[Branch(g)].tree[file.path]
    IN
    /\ At(g, "upsert")
    /\ \/ old = file.text /\ NextFile(g) /\ UNCHANGED <<branches, troubles>>
       \/ old # file.text /\ NextFile(g) /\ Put(g) /\ UNCHANGED troubles
       \/ old = file.text /\ NextFile(g) /\ Put(g) /\ Trouble("call")
       \/ (Put(g) \/ UNCHANGED branches) /\ Fails(g)
    /\ UNCHANGED <<base, hooked, project, waiting, now, served>>

\* createPullRequest: GitHub refuses one without commits, which is taken for success.
CreatePullRequest(g) ==
    LET ahead == branches[Branch(g)].ahead
        done  == branches' = [branches EXCEPT ![Branch(g)].state = "open"]
    IN
    /\ At(g, "pull")
    /\ \/ ahead /\ done /\ UNCHANGED troubles
          /\ jobs' = [jobs EXCEPT ![g].pc = "hook", ![g].opened = TRUE]
       \/ ~ahead /\ Goto(g, "hook") /\ UNCHANGED <<branches, troubles>>
       \/ ((ahead /\ done) \/ UNCHANGED branches) /\ Fails(g)
    /\ UNCHANGED <<base, hooked, project, waiting, now, served>>

\* ensureWorkflowWebhook: what it fails with is logged; one that is there is fine.
EnsureWorkflowWebhook(g) ==
    /\ At(g, "hook") /\ Goto(g, "save")
    /\ \/ hooked' = (hooked \/ HasPublicURL) /\ UNCHANGED troubles
       \/ Trouble("call") /\ hooked' \in {hooked, hooked \/ HasPublicURL}
    /\ UNCHANGED <<base, branches, project, waiting, now, served>>

-----------------------------------------------------------------------------
(* What the project and its releases get to know *)

\* Whole copies of the record are written: what the request leaves blank is kept.
Saved(g) ==
    LET a == jobs[g].ask
        old == jobs[g].copy.settings
        port == IF a.port > 0 THEN a.port ELSE old.port
    IN
    [named |-> TRUE,
     settings |->
        IF jobs[g].op = "questions"
        THEN [service |-> Inferred(a, jobs[g].read).service, type |-> "LoadBalancer", dedicated |-> old.dedicated,
              port |-> Inferred(a, jobs[g].read).port, replicas |-> NormalizedReplicaCount(old.replicas)]
        ELSE [service   |-> IF a.service # "" THEN a.service ELSE old.service,
              type      |-> IF a.type # "" THEN a.type ELSE old.type,
              dedicated |-> a.dedicated, port |-> port,
              replicas  |-> NormalizedReplicaCount(IF a.replicas > 0 THEN a.replicas ELSE old.replicas)]]

\* Mutant: an error of the store is ignored.
SaveProjectOrNot(g) ==
    /\ At(g, "save") /\ Goto(g, "release")
    /\ \/ project' = Saved(g) /\ UNCHANGED troubles
       \/ UNCHANGED project /\ Trouble("call")
    /\ UNCHANGED <<github, waiting, now, served>>

SaveProject(g) ==
    /\ At(g, "save")
    /\ \/ /\ project' = Saved(g) /\ UNCHANGED troubles
          /\ IF jobs[g].op = "questions" THEN Ends(g) ELSE Goto(g, "release")
       \/ project' \in {project, Saved(g)} /\ Fails(g)
    /\ UNCHANGED <<github, waiting, now, served>>

\* createBootstrapPendingRelease, and the request is answered.
CreatePendingRelease(g) ==
    /\ At(g, "release")
    /\ \/ Ends(g) /\ waiting' = waiting \cup {b \in {Branch(g)} : jobs[g].opened} /\ UNCHANGED troubles
       \/ jobs[g].opened /\ Fails(g) /\ waiting' \in {waiting, waiting \cup {Branch(g)}}
    /\ UNCHANGED <<github, project, now, served>>

-----------------------------------------------------------------------------
(* The user, the clock and the process *)

\* A file changed on one side only is taken from there; two different changes conflict.
Conflict(b) ==
    \E p \in Paths :
        /\ branches[b].tree[p] # branches[b].fork[p] /\ base[p] # branches[b].fork[p]
        /\ branches[b].tree[p] # base[p]

Merge(b) ==
    /\ branches[b].state = "open" /\ ~Conflict(b)
    /\ base' = [p \in Paths |-> IF branches[b].tree[p] # branches[b].fork[p] THEN branches[b].tree[p] ELSE base[p]]
    /\ branches' = [branches EXCEPT ![b].state = "merged"]
    /\ UNCHANGED <<hooked, project, waiting, now, jobs, served, troubles>>

Tick ==
    /\ now < MaxSecond /\ now' = now + 1
    /\ UNCHANGED <<github, project, waiting, jobs, served, troubles>>

Crash ==
    /\ Trouble("crash") /\ jobs' = [g \in Goroutines |-> Idle]
    /\ UNCHANGED <<github, project, waiting, now, served>>

-----------------------------------------------------------------------------
(* The specification *)

Step(g) ==
    \/ Infer(g) \/ GetBranchSHA(g) \/ CreateBranch(g) \/ UpsertFile(g) \/ CreatePullRequest(g)
    \/ EnsureWorkflowWebhook(g) \/ SaveProject(g) \/ CreatePendingRelease(g)

Next ==
    \/ \E g \in Goroutines :
          \/ \E a \in Asks : BuildGitHubBootstrapQuestions(g, a) \/ BootstrapGitHubFlow(g, a)
          \/ Step(g)
    \/ \E b \in Seconds : Merge(b)
    \/ Tick
    \/ Crash

Spec == Init /\ [][Next]_vars

-----------------------------------------------------------------------------
(* Properties *)

HasFiles(tree, files) == \A i \in DOMAIN files : tree[files[i].path] = files[i].text

\* A pull request, once it is open, changes the repository to what one request asked
\* for, all of it and nothing else: whatever failed, and however many requests there
\* were in the same second. Only where a call failed, the port may not be the exposed one.
PullRequestsAreWhole ==
    \A b \in Seconds : branches[b].state \in {"open", "merged"} =>
        \E a \in Asks, read \in BOOLEAN :
            LET files == FilesOf(a.stage, Effective(a, read)) IN
            /\ read \/ troubles # {}
            /\ HasFiles(branches[b].tree, files)
            /\ \A p \in Paths \ {files[i].path : i \in DOMAIN files} : branches[b].tree[p] = branches[b].fork[p]

\* What a workflow on the base branch deploys is on the base branch too, in whatever
\* order the pull requests of several requests were made and merged.
WorkflowFindsItsFiles ==
    \A stage \in Stages :
        LET w == base[StageWorkflowPath(stage)] IN
        w # NoFile =>
            \A kind \in {"deployment", "service"} \cup {k \in {"ingress"} : w.ingress} :
                base[ManifestPath(kind, stage, w.service)] # NoFile

\* A release waits for a workflow only when there is a pull request for it, the project
\* names the repository, by which events are matched with it, and GitHub has been asked
\* to send them, as far as it can reach the service and no call failed.
WaitingCanBeMatched ==
    waiting # {} =>
        /\ \A b \in waiting : branches[b].state \in {"open", "merged"}
        /\ project.named
        /\ hooked \/ ~HasPublicURL \/ troubles # {}
=============================================================================
