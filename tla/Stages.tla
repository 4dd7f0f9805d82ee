------------------------------- MODULE Stages -------------------------------
(***************************************************************************)
(* The stages of one project of deploy-service: rows of the stages table,  *)
(* each standing for a namespace of the project's vcluster, and the cached *)
(* list of the project's URLs.  Everything that writes a stage reads the   *)
(* whole row, works on the cluster, and writes the row back:               *)
(*   - createStage, for the provisioning goroutine, for CreateStage, for   *)
(*     the backfill of ListStages and for a release that has no stage;     *)
(*   - DeleteStage;                                                        *)
(*   - GetStageRuntimeStatus, which corrects the row by what it sees;      *)
(*   - updateStageStatusFromRelease;                                       *)
(*   - BootstrapGitHubFlow, for the URL.                                   *)
(* Only Postgres refuses a second stage with the slug of the first.        *)
(***************************************************************************)
EXTENDS Naturals, Sequences

CONSTANTS
    Slugs,          \* slugs a stage may have
    Production,     \* slug of the default stage
    Unique,         \* whether the store refuses a second slug: TRUE on Postgres, FALSE in memory
    Provisioner,    \* the goroutine of provisionProject
    Handlers,       \* goroutines of requests
    Serves,         \* bound: the requests each of them takes on
    MaxStages,      \* bound: rows ever inserted
    MaxServed,      \* bound: creations, deletions, releases and deployments (anything may be asked)
    Faults          \* what may go wrong, once: "write", "cluster", "crash"

ASSUME SlugsAssumption      == Production \in Slugs /\ Unique \in BOOLEAN
ASSUME GoroutinesAssumption ==
    /\ Provisioner \notin Handlers
    /\ Serves \in [Handlers -> SUBSET {"create", "delete", "resolve", "report", "list", "urls", "runtime"}]
ASSUME BoundsAssumption     ==
    MaxStages \in Nat /\ MaxServed \in Nat /\ Faults \subseteq {"write", "cluster", "crash"}

VARIABLES
    project,        \* status of the project: "provisioning" or "active"
    stages,         \* the rows, in the order of creation
    namespaces,     \* namespaces of the vcluster
    ready,          \* those with ready replicas
    cache,          \* ids of the stages in the cached URLs; NoCache: nothing cached
    jobs,           \* what each goroutine is doing, with its copies
    served,         \* requests and deployments so far
    troubles        \* history: faults, "overlap" of jobs, "late" news of a deleted stage

vars == <<project, stages, namespaces, ready, cache, jobs, served, troubles>>

-----------------------------------------------------------------------------
(* Data *)

Goroutines == Handlers \cup {Provisioner}
Status     == {"creating", "active", "deleting", "deleted", "failed"}
Gone       == {"deleting", "deleted"}
Stage      == [slug : Slugs, status : Status]
StageId    == 0..MaxStages      \* 0: none
NoCache    == {0}

NewStage(slug) == [slug |-> slug, status |-> "creating"]

\* id and copy: the row being worked on. listed: the ids a list of URLs read.
Pc  == {"idle", "activate", "check", "kubeconfig", "insert", "apply", "settle",
        "mark", "remove", "settleDeleted", "invalidate", "query", "write", "list", "urls", "fill"}
Job == [pc : Pc, id : StageId, copy : Stage, listed : SUBSET StageId]
Idle == [pc |-> "idle", id |-> 0, copy |-> NewStage(Production), listed |-> {}]

TypeOK ==
    /\ project \in {"provisioning", "active"}
    /\ stages \in Seq(Stage) /\ Len(stages) <= MaxStages
    /\ ready \subseteq namespaces /\ namespaces \subseteq Slugs
    /\ cache \in {NoCache} \cup SUBSET (1..Len(stages))
    /\ jobs \in [Goroutines -> Job]
    /\ served \in 0..MaxServed
    /\ troubles \subseteq {"write", "cluster", "crash", "overlap", "late"}

Init ==
    /\ project = "provisioning"
    /\ stages = <<>> /\ namespaces = {} /\ ready = {} /\ cache = NoCache
    /\ jobs = [g \in Goroutines |-> IF g = Provisioner THEN [Idle EXCEPT !.pc = "activate"] ELSE Idle]
    /\ served = 0 /\ troubles = {}

Ids          == 1..Len(stages)
At(g, pc)    == jobs[g].pc = pc
Goto(g, job) == jobs' = [jobs EXCEPT ![g] = job]
Does(g, pc)  == [jobs[g] EXCEPT !.pc = pc]
Done(g)      == Goto(g, Idle)

\* A fault of the given kind occurs; one in a behaviour (bound).
Trouble(kind) ==
    /\ kind \in Faults /\ troubles \cap Faults = {}
    /\ troubles' = troubles \cup {kind}

\* A handler begins; "overlap" is noted when another goroutine is at work.
BeginWith(g, job, news) ==
    /\ g \in Handlers /\ At(g, "idle")
    /\ Goto(g, job)
    /\ troubles' = troubles \cup news \cup IF \E h \in Goroutines : ~At(h, "idle") THEN {"overlap"} ELSE {}
Begin(g, job) == BeginWith(g, job, {})

Serve == served < MaxServed /\ served' = served + 1

-----------------------------------------------------------------------------
(* The stores and the cluster *)

WithSlug(slug) == {i \in Ids : stages[i].slug = slug}

\* Update of a row; or it answers an error, with the row written or not.
Updated(i, row) == stages' = [stages EXCEPT ![i] = row]
UpdateFails(i, row) == Trouble("write") /\ (Updated(i, row) \/ UNCHANGED stages)

-----------------------------------------------------------------------------
(* createStage *)

\* The last of provisionProject: the project is made active, and a stage production
\* is created without asking whether there is one.
Activate ==
    /\ At(Provisioner, "activate")
    /\ project' = "active" /\ Goto(Provisioner, Does(Provisioner, "insert"))
    /\ UNCHANGED <<stages, namespaces, ready, cache, served, troubles>>

\* CreateStage: any name the user likes.
BeginCreate(g, slug) ==
    /\ Begin(g, [Idle EXCEPT !.pc = "check", !.copy = NewStage(slug)])
    /\ Serve /\ UNCHANGED <<project, stages, namespaces, ready, cache>>

\* Mutant: the slug is not looked up.
CheckNothing(g) ==
    /\ At(g, "check") /\ Goto(g, Does(g, "kubeconfig"))
    /\ UNCHANGED <<project, stages, namespaces, ready, cache, served, troubles>>

\* A slug that was ever used, by a stage that has failed or is deleted too, is refused.
CheckSlug(g) ==
    /\ At(g, "check")
    /\ Goto(g, IF WithSlug(jobs[g].copy.slug) = {} THEN Does(g, "kubeconfig") ELSE Idle)
    /\ UNCHANGED <<project, stages, namespaces, ready, cache, served, troubles>>

\* The kubeconfig is asked for, to see that the vcluster is there: while the project
\* is provisioned it may not be.
CheckKubeconfig(g) ==
    /\ At(g, "kubeconfig")
    /\ \/ Goto(g, Does(g, "insert")) /\ UNCHANGED troubles
       \/ Done(g) /\ project = "provisioning" /\ UNCHANGED troubles
       \/ Done(g) /\ Trouble("cluster")
    /\ UNCHANGED <<project, stages, namespaces, ready, cache, served>>

\* The row is put in as "creating"; or the store refuses it.
Insert(g) ==
    LET row == jobs[g].copy
        inserted == stages' = Append(stages, row) /\ Goto(g, [jobs[g] EXCEPT !.pc = "apply", !.id = Len(stages) + 1])
        free == (~Unique \/ WithSlug(row.slug) = {}) /\ Len(stages) < MaxStages
    IN
    /\ At(g, "insert")
    /\ \/ free /\ inserted /\ UNCHANGED troubles
       \/ ~free /\ Done(g) /\ UNCHANGED <<stages, troubles>>
       \/ Trouble("write") /\ Done(g) /\ (UNCHANGED stages \/ (free /\ stages' = Append(stages, row)))
    /\ UNCHANGED <<project, namespaces, ready, cache, served>>

\* CreateStageEnvironment, and the outcome in the copy. It fails while there is no
\* vcluster, and by a fault, with the namespace there or not.
ApplyNamespace(g) ==
    LET ok == [Does(g, "settle") EXCEPT !.copy.status = "active"]
        no == [Does(g, "settle") EXCEPT !.copy.status = "failed"]
    IN
    /\ At(g, "apply")
    /\ \/ namespaces' = namespaces \cup {jobs[g].copy.slug} /\ Goto(g, ok) /\ UNCHANGED troubles
       \/ project = "provisioning" /\ Goto(g, no) /\ UNCHANGED <<namespaces, troubles>>
       \/ /\ namespaces' \in {namespaces, namespaces \cup {jobs[g].copy.slug}}
          /\ Goto(g, no) /\ Trouble("cluster")
    /\ UNCHANGED <<project, stages, ready, cache, served>>

\* The copy, made at the start, is written over the row; the error of a creation that
\* failed is returned without touching the cache.
Settle(g) ==
    LET job == jobs[g] IN
    /\ At(g, "settle")
    /\ \/ /\ Updated(job.id, job.copy) /\ UNCHANGED troubles
          /\ Goto(g, IF job.copy.status = "active" THEN Does(g, "invalidate") ELSE Idle)
       \/ UpdateFails(job.id, job.copy) /\ Done(g)
    /\ UNCHANGED <<project, namespaces, ready, cache, served>>

\* invalidateProjectCaches, the last of a creation and of a deletion.
Invalidate(g) ==
    /\ At(g, "invalidate") /\ cache' = NoCache /\ Done(g)
    /\ UNCHANGED <<project, stages, namespaces, ready, served, troubles>>

\* ListStages: the project, then its stages; none of an active one: production is made.
BeginList(g) ==
    /\ project = "active"
    /\ Begin(g, Does(g, "list"))
    /\ UNCHANGED <<project, stages, namespaces, ready, cache, served>>

\* Mutant: no stage is made up for.
ListOnly(g) ==
    /\ At(g, "list") /\ Done(g)
    /\ UNCHANGED <<project, stages, namespaces, ready, cache, served, troubles>>

ListStages(g) ==
    /\ At(g, "list") /\ Goto(g, IF Ids = {} THEN Does(g, "insert") ELSE Idle)
    /\ UNCHANGED <<project, stages, namespaces, ready, cache, served, troubles>>

\* resolveReleaseStageID, for a release of production that has no stage, and
\* BootstrapGitHubFlow: at any time in the project's life.
BeginResolve(g) ==
    /\ WithSlug(Production) = {}
    /\ Begin(g, Does(g, "insert"))
    /\ Serve /\ UNCHANGED <<project, stages, namespaces, ready, cache>>

-----------------------------------------------------------------------------
(* DeleteStage *)

\* The row is read, of any status; production is refused.
BeginDelete(g, i) ==
    /\ stages[i].slug # Production
    /\ Begin(g, [Idle EXCEPT !.pc = "mark", !.id = i, !.copy = [stages[i] EXCEPT !.status = "deleting"]])
    /\ Serve /\ UNCHANGED <<project, stages, namespaces, ready, cache>>

\* The row becomes "deleting"; without that nothing is removed.
MarkDeleting(g) ==
    LET job == jobs[g] IN
    /\ At(g, "mark")
    /\ \/ Updated(job.id, job.copy) /\ Goto(g, Does(g, "remove")) /\ UNCHANGED troubles
       \/ UpdateFails(job.id, job.copy) /\ Done(g)
    /\ UNCHANGED <<project, namespaces, ready, cache, served>>

\* DeleteStageEnvironment; when it fails the row stays "deleting".
RemoveNamespace(g) ==
    LET slug == jobs[g].copy.slug gone == namespaces' = namespaces \ {slug} /\ ready' = ready \ {slug} IN
    /\ At(g, "remove")
    /\ \/ gone /\ Goto(g, [Does(g, "settleDeleted") EXCEPT !.copy.status = "deleted"]) /\ UNCHANGED troubles
       \/ (gone \/ UNCHANGED <<namespaces, ready>>) /\ Done(g) /\ Trouble("cluster")
    /\ UNCHANGED <<project, stages, cache, served>>

\* Mutant: the cached URLs are left alone.
SettleDeletedOnly(g) ==
    /\ At(g, "settleDeleted") /\ Updated(jobs[g].id, jobs[g].copy) /\ Done(g)
    /\ UNCHANGED <<project, namespaces, ready, cache, served, troubles>>

SettleDeleted(g) ==
    LET job == jobs[g] IN
    /\ At(g, "settleDeleted")
    /\ \/ Updated(job.id, job.copy) /\ Goto(g, Does(g, "invalidate")) /\ UNCHANGED troubles
       \/ UpdateFails(job.id, job.copy) /\ Done(g)
    /\ UNCHANGED <<project, namespaces, ready, cache, served>>

-----------------------------------------------------------------------------
(* Corrections *)

Late(i) == IF stages[i].status \in Gone THEN {"late"} ELSE {}

\* A workflow of GitHub deploys into the namespace of a stage, and makes it if needed.
Deploy(i) ==
    /\ project = "active"
    /\ namespaces' = namespaces \cup {stages[i].slug} /\ ready' = ready \cup {stages[i].slug}
    /\ troubles' = troubles \cup Late(i)
    /\ Serve /\ UNCHANGED <<project, stages, cache, jobs>>

\* GetStageRuntimeStatus: the row is read, then the cluster.
BeginRuntimeStatus(g, i) ==
    /\ Begin(g, [Idle EXCEPT !.pc = "query", !.id = i, !.copy = stages[i]])
    /\ UNCHANGED <<project, stages, namespaces, ready, cache, served>>

\* Mutant: any stage that is asked for is taken for active.
Revived(row) == [row EXCEPT !.status = "active"]

\* Mutant: the cluster's word for it is taken over.
SeenRaw(row) == [row EXCEPT !.status = IF row.slug \in ready THEN "ready" ELSE row.status]

\* Ready replicas make the copy active, whatever its status.
Seen(row) == [row EXCEPT !.status = IF row.slug \in ready THEN "active" ELSE row.status]

\* A copy that is as the cluster shows it is written too when the URL is a new one.
QueryRuntime(g) ==
    LET row == jobs[g].copy IN
    /\ At(g, "query")
    /\ \/ /\ row.slug \in ready \/ Seen(row) # row
          /\ Goto(g, [Does(g, "write") EXCEPT !.copy = Seen(row)])
          /\ UNCHANGED troubles
       \/ Seen(row) = row /\ Done(g) /\ UNCHANGED troubles
       \/ Trouble("cluster") /\ Done(g)
    /\ UNCHANGED <<project, stages, namespaces, ready, cache, served>>

\* updateStageStatusFromRelease: a release of the stage has ended.
BeginReport(g, i) ==
    /\ \E status \in {"active", "failed"} \ {stages[i].status} :
          BeginWith(g, [Idle EXCEPT !.pc = "write", !.id = i, !.copy = [stages[i] EXCEPT !.status = status]], Late(i))
    /\ Serve /\ UNCHANGED <<project, stages, namespaces, ready, cache>>

\* BootstrapGitHubFlow puts the stage's URL into a row it has just read.
BeginPublish(g, i) ==
    /\ Begin(g, [Idle EXCEPT !.pc = "write", !.id = i, !.copy = stages[i]])
    /\ Serve /\ UNCHANGED <<project, stages, namespaces, ready, cache>>

\* The corrected copy is written over the row; an error is ignored.
Write(g) ==
    LET job == jobs[g] IN
    /\ At(g, "write")
    /\ \/ Updated(job.id, job.copy) /\ UNCHANGED troubles
       \/ UpdateFails(job.id, job.copy)
    /\ Done(g)
    /\ UNCHANGED <<project, namespaces, ready, cache, served>>

-----------------------------------------------------------------------------
(* GetProjectURLs *)

\* Nothing is cached: the stages are listed, then the cluster is asked about each
\* that is not being deleted, and at last the answer is cached, whatever happened since.
BeginURLs(g) ==
    /\ cache = NoCache
    /\ Begin(g, Does(g, "urls"))
    /\ UNCHANGED <<project, stages, namespaces, ready, cache, served>>

\* Mutant: deleted stages are listed.
ListEveryStage(g) ==
    /\ At(g, "urls") /\ Goto(g, [Does(g, "fill") EXCEPT !.listed = Ids])
    /\ UNCHANGED <<project, stages, namespaces, ready, cache, served, troubles>>

ListForURLs(g) ==
    /\ At(g, "urls")
    /\ Goto(g, [Does(g, "fill") EXCEPT !.listed = {i \in Ids : stages[i].status \notin Gone}])
    /\ UNCHANGED <<project, stages, namespaces, ready, cache, served, troubles>>

Fill(g) ==
    /\ At(g, "fill") /\ cache' = jobs[g].listed /\ Done(g)
    /\ UNCHANGED <<project, stages, namespaces, ready, served, troubles>>

\* urlsCacheTTL has passed.
Expire ==
    /\ cache # NoCache /\ cache' = NoCache
    /\ UNCHANGED <<project, stages, namespaces, ready, jobs, served, troubles>>

\* The process stops and starts again: what it cached and did is gone, and no
\* goroutine goes on with provisioning.
Crash ==
    /\ Trouble("crash")
    /\ jobs' = [g \in Goroutines |-> Idle] /\ cache' = NoCache
    /\ UNCHANGED <<project, stages, namespaces, ready, served>>

-----------------------------------------------------------------------------
(* The specification *)

CreateStep(g) == CheckSlug(g) \/ CheckKubeconfig(g) \/ ListStages(g) \/ Insert(g) \/ ApplyNamespace(g) \/ Settle(g)
DeleteStep(g) == MarkDeleting(g) \/ RemoveNamespace(g) \/ SettleDeleted(g)
Step(g) == CreateStep(g) \/ DeleteStep(g) \/ Invalidate(g) \/ QueryRuntime(g) \/ Write(g) \/ ListForURLs(g) \/ Fill(g)

Next ==
    \/ Activate
    \/ \E g \in Goroutines : Step(g)
    \/ \E g \in Handlers :
          \/ "list" \in Serves[g] /\ BeginList(g)
          \/ "urls" \in Serves[g] /\ BeginURLs(g)
          \/ "resolve" \in Serves[g] /\ (BeginResolve(g) \/ \E i \in Ids : BeginPublish(g, i))
          \/ "create" \in Serves[g] /\ \E slug \in Slugs : BeginCreate(g, slug)
          \/ "delete" \in Serves[g] /\ \E i \in Ids : BeginDelete(g, i)
          \/ "runtime" \in Serves[g] /\ \E i \in Ids : BeginRuntimeStatus(g, i)
          \/ "report" \in Serves[g] /\ \E i \in Ids : BeginReport(g, i)
    \/ \E i \in Ids : Deploy(i)
    \/ Expire
    \/ Crash

\* Goroutines run and time passes; nobody has to ask for anything.
Spec == Init /\ [][Next]_vars /\ WF_vars(Expire) /\ \A g \in Goroutines : WF_vars(Step(g))

-----------------------------------------------------------------------------
(* Properties *)

Quiet == \A g \in Goroutines : At(g, "idle")

\* A slug names one stage: on Postgres always, in memory unless two jobs overlap, by
\* the lookups alone. (Listing the stages may overlap with provisionProject's own
\* creation of production, which asks for none.)
OneStagePerSlug ==
    Unique \/ "overlap" \notin troubles =>
        \A i, j \in Ids : stages[i].slug = stages[j].slug => i = j

\* When nothing went wrong and nobody is at work, a stage shown as active has its
\* namespace, and one shown as deleted has none; no stage is left half-way; and cached
\* URLs are those of the stages there are: each change of that list throws them away.
QuietStagesAreTrue ==
    Quiet /\ troubles = {} =>
        /\ \A i \in Ids :
              /\ stages[i].status \notin {"creating", "deleting"}
              /\ stages[i].status = "active" => stages[i].slug \in namespaces
              /\ stages[i].status = "deleted" => stages[i].slug \notin namespaces
        /\ cache # NoCache => cache = {i \in Ids : stages[i].status \notin Gone}

\* A deleted stage comes back only by a release or a deployment that comes late, or
\* by jobs that overlap: asking for its status, deleting it again, faults and
\* restarts do not bring it back.
DeletedStaysDeleted ==
    [][\A i \in Ids : stages[i].status = "deleted" /\ stages'[i].status # "deleted"
          => stages'[i].status = "deleting" \/ troubles' \cap {"late", "overlap"} # {}]_vars

\* An active project whose stages are listed again and again does not stay without a
\* stage, whatever stopped provisionProject before it made one.
BackfillGivesAStage ==
    <>[](project = "active") /\ []<>(\E g \in Handlers : At(g, "list")) => <>(stages # <<>>)

\* A stage that is deleted for good leaves the URLs shown, also when a list made
\* before the deletion is cached after it.
DeletedStagesLeaveURLs ==
    \A i \in 1..MaxStages :
        <>[](i \in Ids /\ stages[i].status = "deleted") => <>[](i \notin cache)
=============================================================================
