-------------------------- MODULE ProjectLifecycle --------------------------
(***************************************************************************)
(* The life of a project in deploy-service: its record in the project      *)
(* store, its environment in the host cluster, the goroutine that          *)
(* provisions it and the request handlers (and the billing loop) that read *)
(* the record, work outside, and write the WHOLE record back.              *)
(*                                                                         *)
(* No lock or version column protects a record: every read and every write *)
(* is a step of its own here, and so is every call to kubectl or vcluster. *)
(***************************************************************************)
EXTENDS Naturals, FiniteSets

CONSTANTS
    Projects,           \* project ids
    Handlers,           \* goroutines serving requests, and the billing loop
    NoProject,          \* the project of an idle handler
    MaxAttempts,        \* len(projectProvisionRetryDelays) + 1
    MergesEmptyFields,  \* TRUE: memory store's Update; FALSE: Postgres'
    Faults              \* what may go wrong: "store", "env", "crash"

ASSUME WorkersAssumption == Projects \cap Handlers = {} /\ NoProject \notin Projects
ASSUME AttemptsAssumption == MaxAttempts \in Nat \ {0}
ASSUME FaultsAssumption == Faults \subseteq {"store", "env", "crash"}
ASSUME StoreAssumption == MergesEmptyFields \in BOOLEAN

VARIABLES
    store,          \* the projects table: status and the facts filled in so far
    env,            \* the host cluster: namespace, vcluster, its policies and add-ons
    prov,           \* provisionProject of each project: where it is, and its copy
    handlers,       \* where each handler is, and the record it is going to write
    fresh,          \* history: workers whose copy no other worker's write has outdated
    stale,          \* history: the last write of the record was of an outdated copy
    overlapped,     \* history: an operation began while another one was under way
    cutShort,       \* history: a handler's call to the cluster has failed
    built,          \* history: CreateProjectEnvironment has succeeded
    deleteRequested \* history: DeleteProject has been called

world   == <<store, env>>
history == <<fresh, stale, overlapped, cutShort, built, deleteRequested>>
vars    == <<store, env, prov, handlers, fresh, stale, overlapped, cutShort, built, deleteRequested>>

-----------------------------------------------------------------------------
(* Data *)

Status == {"absent", "creating", "failed", "active", "suspended", "deleting", "deleted"}
Live   == {"active", "suspended"}

\* What other operations fill in and a write of an old copy can drop: deployment
\* settings (repository, service, ports), the apps base domain, the public URL.
\* "settings" says that the last settings sent have got there, blank ones included.
Fact   == {"settings", "domain", "url"}
Record == [status : Status, facts : SUBSET Fact]
Blank  == [status |-> "absent", facts |-> {}]

As(status, rec)    == [rec EXCEPT !.status = status]
Adding(rec, facts) == [rec EXCEPT !.facts = @ \cup facts]

Environment == [namespace : BOOLEAN,
                vcluster  : {"absent", "running", "paused"},
                complete  : BOOLEAN]
NoEnvironment == [namespace |-> FALSE, vcluster |-> "absent", complete |-> FALSE]

ProvisionPc == {"off", "namespace", "vcluster", "finish", "backoff",
                "publish", "reread", "activate", "fail"}
HandlerPc   == {"idle", "save", "observe", "saveSuspended", "pause", "resume",
                "saveDeleting", "deleteVCluster", "deleteNamespace"}

IdleHandler     == [pc |-> "idle", project |-> NoProject, copy |-> Blank]
NoProvisioning  == [pc |-> "off", attempt |-> 1, copy |-> Blank]

TypeOK ==
    /\ store \in [Projects -> Record]
    /\ env \in [Projects -> Environment]
    /\ prov \in [Projects -> [pc : ProvisionPc, attempt : 1..MaxAttempts, copy : Record]]
    /\ handlers \in [Handlers -> [pc : HandlerPc, project : Projects \cup {NoProject}, copy : Record]]
    /\ \A h \in Handlers : handlers[h].pc # "idle" => handlers[h].project \in Projects
    /\ fresh \subseteq Projects \cup Handlers
    /\ stale \in [Projects -> BOOLEAN]
    /\ overlapped \in [Projects -> BOOLEAN]
    /\ cutShort \in [Projects -> BOOLEAN]
    /\ built \in [Projects -> BOOLEAN]
    /\ deleteRequested \in [Projects -> BOOLEAN]

Init ==
    /\ store = [p \in Projects |-> Blank]
    /\ env = [p \in Projects |-> NoEnvironment]
    /\ prov = [p \in Projects |-> NoProvisioning]
    /\ handlers = [h \in Handlers |-> IdleHandler]
    /\ fresh = {}
    /\ stale = [p \in Projects |-> FALSE]
    /\ overlapped = [p \in Projects |-> FALSE]
    /\ cutShort = [p \in Projects |-> FALSE]
    /\ built = [p \in Projects |-> FALSE]
    /\ deleteRequested = [p \in Projects |-> FALSE]

-----------------------------------------------------------------------------
(* The store and the history of its writes *)

HandlersOf(p) == {h \in Handlers : handlers[h].project = p}
Busy(p)       == prov[p].pc # "off" \/ HandlersOf(p) # {}

\* What Update leaves in the store for a record. The memory store keeps its own
\* settings where the incoming record has none; Postgres writes what it is given.
Written(p, rec) ==
    Adding(rec, IF MergesEmptyFields THEN store[p].facts \cap {"settings"} ELSE {})

\* Worker w (a handler, or p itself for p's provisioning) puts rec in the store.
Put(w, p, rec) ==
    /\ store' = [store EXCEPT ![p] = Written(p, rec)]
    /\ fresh' = fresh \ ((HandlersOf(p) \cup {p}) \ {w})
    /\ stale' = [stale EXCEPT ![p] = w \notin fresh]

\* Update answers nil.
Saved(w, p, rec) == Put(w, p, rec)

\* Update answers an error: the row is untouched, or the answer was lost.
SaveFailed(w, p, rec) ==
    /\ "store" \in Faults
    /\ Put(w, p, rec) \/ UNCHANGED <<store, fresh, stale>>

\* A call of kubectl or vcluster failed: it did nothing, or its answer was lost.
CallFailed(p, after) ==
    /\ "env" \in Faults
    /\ env' = env \/ env' = [env EXCEPT ![p] = after]

-----------------------------------------------------------------------------
(* CreateProject and its goroutine *)

\* The row is put in and the goroutine started. When the store answers an error no
\* goroutine is started, though the row may be there; if it is not, nothing has happened.
CreateProject(p) ==
    LET rec == [status |-> "creating", facts |-> {}] IN
    /\ store[p].status = "absent"
    /\ store' = [store EXCEPT ![p] = rec]
    /\ \/ prov' = [prov EXCEPT ![p] = [pc |-> "namespace", attempt |-> 1, copy |-> rec]]
       \/ "store" \in Faults /\ UNCHANGED prov
    /\ fresh' = fresh \cup {p}
    /\ UNCHANGED <<env, handlers, stale, overlapped, cutShort, built, deleteRequested>>

\* Mutant: attempt <= attempts is checked after the decision to retry.
AttemptFailedUncounted(p) ==
    \E next \in {"backoff", "fail"} : prov' = [prov EXCEPT ![p].pc = next]

\* Mutant: the error of the last attempt is lost, nil is returned.
AttemptFailedSwallowed(p) ==
    \E next \in {"backoff", "reread"} :
        /\ next = "backoff" => prov[p].attempt < MaxAttempts
        /\ prov' = [prov EXCEPT ![p].pc = next]

\* One attempt of createProjectEnvironmentWithRetry failed: another one follows
\* when the error looks transient and attempts are left.
AttemptFailed(p) ==
    \E next \in {"backoff", "fail"} :
        /\ next = "backoff" => prov[p].attempt < MaxAttempts
        /\ prov' = [prov EXCEPT ![p].pc = next]

\* kubectl apply of the namespace, the first call of CreateProjectEnvironment.
ProvisionNamespace(p) ==
    LET after == [env[p] EXCEPT !.namespace = TRUE] IN
    /\ prov[p].pc = "namespace"
    /\ \/ /\ env' = [env EXCEPT ![p] = after]
          /\ prov' = [prov EXCEPT ![p].pc = "vcluster"]
       \/ CallFailed(p, after) /\ AttemptFailed(p)
    /\ UNCHANGED <<store, handlers, history>>

\* vcluster create --create-namespace=false. On a vcluster that is already there
\* it may refuse or succeed; without the namespace it fails.
ProvisionVCluster(p) ==
    LET after == [env[p] EXCEPT !.vcluster = "running"] IN
    /\ prov[p].pc = "vcluster"
    /\ \/ /\ env[p].namespace
          /\ env' = [env EXCEPT ![p] = after]
          /\ prov' = [prov EXCEPT ![p].pc = "finish"]
       \/ /\ ~env[p].namespace \/ env[p].vcluster # "absent"
          /\ AttemptFailed(p) /\ UNCHANGED env
       \/ env[p].namespace /\ CallFailed(p, after) /\ AttemptFailed(p)
    /\ UNCHANGED <<store, handlers, history>>

\* The kubeconfig secret, policies, quota, ingress controller and Grafana: from
\* the wait for the secret to the return of CreateProjectEnvironment, which
\* answers an apps base domain or "".
ProvisionFinish(p) ==
    LET after == [env[p] EXCEPT !.complete = TRUE] IN
    /\ prov[p].pc = "finish"
    /\ \/ /\ env[p].namespace /\ env[p].vcluster = "running"
          /\ env' = [env EXCEPT ![p] = after]
          /\ built' = [built EXCEPT ![p] = TRUE]
          /\ \/ prov' = [prov EXCEPT ![p] = [@ EXCEPT !.pc = "publish", !.copy = Adding(prov[p].copy, {"domain"})]]
             \/ prov' = [prov EXCEPT ![p].pc = "reread"]
       \/ /\ ~(env[p].namespace /\ env[p].vcluster = "running")
          /\ AttemptFailed(p) /\ UNCHANGED <<env, built>>
       \/ /\ env[p].namespace /\ env[p].vcluster = "running"
          /\ CallFailed(p, after) /\ AttemptFailed(p) /\ UNCHANGED built
    /\ UNCHANGED <<store, handlers, fresh, stale, overlapped, cutShort, deleteRequested>>

\* Mutant: the loop counter is not advanced.
BackoffForever(p) ==
    /\ prov[p].pc = "backoff"
    /\ \/ prov' = [prov EXCEPT ![p].pc = "namespace"]
       \/ "env" \in Faults /\ prov' = [prov EXCEPT ![p].pc = "fail"]
    /\ UNCHANGED <<world, handlers, history>>

\* The retry delay elapses, or the 15 minutes of the whole job do.
Backoff(p) ==
    /\ prov[p].pc = "backoff"
    /\ \/ prov' = [prov EXCEPT ![p].pc = "namespace", ![p].attempt = @ + 1]
       \/ "env" \in Faults /\ prov' = [prov EXCEPT ![p].pc = "fail"]
    /\ UNCHANGED <<world, handlers, history>>

\* The apps base domain is written with the copy of CreateProject; errors are ignored.
PublishDomain(p) ==
    /\ prov[p].pc = "publish"
    /\ Saved(p, p, prov[p].copy) \/ SaveFailed(p, p, prov[p].copy)
    /\ prov' = [prov EXCEPT ![p].pc = "reread"]
    /\ UNCHANGED <<env, handlers, overlapped, cutShort, built, deleteRequested>>

\* The record is read again; a failed read falls back to the copy at hand.
RereadRecord(p) ==
    /\ prov[p].pc = "reread"
    /\ \/ /\ prov' = [prov EXCEPT ![p] = [@ EXCEPT !.pc = "activate", !.copy = As("active", store[p])]]
          /\ fresh' = fresh \cup {p}
       \/ /\ "store" \in Faults
          /\ prov' = [prov EXCEPT ![p] = [@ EXCEPT !.pc = "activate", !.copy = As("active", prov[p].copy)]]
          /\ UNCHANGED fresh
    /\ UNCHANGED <<world, handlers, stale, overlapped, cutShort, built, deleteRequested>>

\* The project becomes active. On an error the goroutine just ends.
Activate(p) ==
    /\ prov[p].pc = "activate"
    /\ Saved(p, p, prov[p].copy) \/ SaveFailed(p, p, prov[p].copy)
    /\ prov' = [prov EXCEPT ![p] = NoProvisioning]
    /\ UNCHANGED <<env, handlers, overlapped, cutShort, built, deleteRequested>>

\* markFailed: the copy of CreateProject, now failed, over whatever is there.
MarkFailed(p) ==
    LET rec == As("failed", prov[p].copy) IN
    /\ prov[p].pc = "fail"
    /\ Saved(p, p, rec) \/ SaveFailed(p, p, rec)
    /\ prov' = [prov EXCEPT ![p] = NoProvisioning]
    /\ UNCHANGED <<env, handlers, overlapped, cutShort, built, deleteRequested>>

-----------------------------------------------------------------------------
(* Request handlers and the billing loop *)

\* Handler h reads the record of p and goes on with rec, the record to be written.
Begin(h, p, pc, rec) ==
    /\ handlers[h].pc = "idle" /\ store[p].status # "absent"
    /\ handlers' = [handlers EXCEPT ![h] = [pc |-> pc, project |-> p, copy |-> rec]]
    /\ fresh' = fresh \cup {h}
    /\ overlapped' = [overlapped EXCEPT ![p] = @ \/ Busy(p)]
    /\ UNCHANGED <<store, env, prov, stale, cutShort, built>>

Kept == UNCHANGED deleteRequested

\* DeleteProject asks nothing of the status.
BeginDelete(h, p) ==
    /\ Begin(h, p, "saveDeleting", As("deleting", store[p]))
    /\ deleteRequested' = [deleteRequested EXCEPT ![p] = TRUE]

\* Mutant: the status is not checked.
BeginSuspendAnyStatus(h, p) ==
    Begin(h, p, "saveSuspended", As("suspended", store[p])) /\ Kept

BeginSuspend(h, p) ==
    /\ store[p].status = "active"
    /\ Begin(h, p, "saveSuspended", As("suspended", store[p])) /\ Kept

\* suspendProjectForNonPayment, on the project read when the guard listed them.
BeginAutoSuspend(h, p) ==
    /\ store[p].status = "active"
    /\ Begin(h, p, "saveSuspended", As("suspended", store[p])) /\ Kept

BeginResume(h, p) ==
    /\ store[p].status = "suspended"
    /\ Begin(h, p, "resume", As("active", store[p])) /\ Kept

\* Mutant: the record is built from the request instead of the one in the store.
BeginSettingsFromRequest(h, p) ==
    Begin(h, p, "save", [store[p] EXCEPT !.facts = {"settings"}]) /\ Kept

\* UpdateProjectDeploymentSettings
BeginSettings(h, p) ==
    Begin(h, p, "save", Adding(store[p], {"settings"})) /\ Kept

\* BuildGitHubBootstrapQuestions asks GitHub between its read and its write.
BeginQuestions(h, p) ==
    Begin(h, p, "save", Adding(store[p], {"settings"})) /\ Kept

\* BootstrapGitHubFlow: only a suspended project is refused; the public URL is
\* filled in when a base domain is known.
BeginBootstrap(h, p) ==
    /\ store[p].status # "suspended"
    /\ \E url \in {{}, {"url"}} :
          Begin(h, p, "save", Adding(store[p], {"settings"} \cup url)) /\ Kept

\* GetProjectRuntimeStatus, or GetStageRuntimeStatus as far as it writes the project,
\* of a load-balanced service with no public URL yet.
BeginRuntimeStatus(h, p) ==
    /\ "settings" \in store[p].facts /\ "url" \notin store[p].facts
    /\ Begin(h, p, "observe", Adding(store[p], {"url"})) /\ Kept

\* clearDeletionSchedule rewrites a suspended project listed by the guard.
BeginClearSchedule(h, p) ==
    /\ store[p].status = "suspended"
    /\ Begin(h, p, "save", store[p]) /\ Kept

\* GetProjectKubeconfig and RotateProjectKubeconfig re-create a missing host
\* namespace, whatever the status of the project.
FetchKubeconfig(p) ==
    /\ store[p].status # "absent"
    /\ env' = [env EXCEPT ![p].namespace = TRUE]
    /\ UNCHANGED <<store, prov, handlers, history>>

At(h, pc) == handlers[h].pc = pc
Project(h) == handlers[h].project
Goto(h, pc) == handlers' = [handlers EXCEPT ![h].pc = pc]
Done(h) == handlers' = [handlers EXCEPT ![h] = IdleHandler]
Recorded == UNCHANGED <<overlapped, cutShort, built, deleteRequested>>

\* The last write of an operation: its request is answered either way.
Save(h) ==
    LET p == Project(h) rec == handlers[h].copy IN
    /\ At(h, "save")
    /\ Saved(h, p, rec) \/ SaveFailed(h, p, rec)
    /\ Done(h)
    /\ UNCHANGED <<env, prov>> /\ Recorded

\* A write that must succeed before the operation goes on.
SaveAndGo(h, from, to) ==
    LET p == Project(h) rec == handlers[h].copy IN
    /\ At(h, from)
    /\ \/ Saved(h, p, rec) /\ Goto(h, to)
       \/ SaveFailed(h, p, rec) /\ Done(h)
    /\ UNCHANGED <<env, prov>> /\ Recorded

\* Mutant: the environment is not paused.
SaveSuspendedOnly(h) == SaveAndGo(h, "saveSuspended", "save")

SaveSuspended(h) == SaveAndGo(h, "saveSuspended", "pause")
SaveDeleting(h)  == SaveAndGo(h, "saveDeleting", "deleteVCluster")

\* The URL is only seen, and then only written, while the service runs.
Observe(h) ==
    /\ At(h, "observe")
    /\ \/ env[Project(h)].vcluster = "running" /\ Goto(h, "save")
       \/ Done(h)
    /\ UNCHANGED <<world, prov, history>>

\* How a handler's call to vcluster or kubectl ends: well, refused because there
\* is no vcluster, or failed.
Called(p, after) == env' = [env EXCEPT ![p] = after] /\ UNCHANGED cutShort
Failed(p, after) == CallFailed(p, after) /\ cutShort' = [cutShort EXCEPT ![p] = TRUE]
Refused(p) ==
    /\ env[p].vcluster = "absent"
    /\ cutShort' = [cutShort EXCEPT ![p] = TRUE] /\ UNCHANGED env
Rest == UNCHANGED <<store, prov, fresh, stale, overlapped, built, deleteRequested>>

\* vcluster pause, the last call of a suspension.
PauseEnvironment(h) ==
    LET p == Project(h) after == [env[p] EXCEPT !.vcluster = "paused"] IN
    /\ At(h, "pause")
    /\ \/ env[p].vcluster # "absent" /\ (Called(p, after) \/ Failed(p, after))
       \/ Refused(p)
    /\ Done(h) /\ Rest

\* Mutant: the error of vcluster resume is ignored.
ResumeEnvironmentUnchecked(h) ==
    LET p == Project(h) after == [env[p] EXCEPT !.vcluster = "running"] IN
    /\ At(h, "resume")
    /\ \/ env[p].vcluster # "absent" /\ (Called(p, after) \/ Failed(p, after))
       \/ Refused(p)
    /\ Goto(h, "save") /\ Rest

\* vcluster resume: only then is the project written as active.
ResumeEnvironment(h) ==
    LET p == Project(h) after == [env[p] EXCEPT !.vcluster = "running"] IN
    /\ At(h, "resume")
    /\ \/ env[p].vcluster # "absent" /\ Called(p, after) /\ Goto(h, "save")
       \/ env[p].vcluster # "absent" /\ Failed(p, after) /\ Done(h)
       \/ Refused(p) /\ Done(h)
    /\ Rest

\* vcluster delete --delete-namespace: the helm release goes, and the namespace may go
\* with it or stay for the next call.
DeleteVCluster(h) ==
    LET p == Project(h) part == [env[p] EXCEPT !.vcluster = "absent"] IN
    /\ At(h, "deleteVCluster")
    /\ \/ (Called(p, NoEnvironment) \/ Called(p, part)) /\ Goto(h, "deleteNamespace")
       \/ (Failed(p, NoEnvironment) \/ Failed(p, part)) /\ Done(h)
    /\ Rest

\* kubectl delete namespace: only then is the project written as deleted.
DeleteNamespace(h) ==
    LET p == Project(h) IN
    /\ At(h, "deleteNamespace")
    /\ \/ /\ Called(p, NoEnvironment)
          /\ handlers' = [handlers EXCEPT ![h] = [@ EXCEPT !.pc = "save", !.copy = As("deleted", handlers[h].copy)]]
       \/ Failed(p, NoEnvironment) /\ Done(h)
    /\ Rest

\* The process stops and starts again: goroutines are gone, nothing resumes them.
Crash ==
    /\ "crash" \in Faults
    /\ prov' = [p \in Projects |-> NoProvisioning]
    /\ handlers' = [h \in Handlers |-> IdleHandler]
    /\ UNCHANGED <<world, history>>

-----------------------------------------------------------------------------
(* The specification *)

ProvisionStep(p) ==
    \/ ProvisionNamespace(p) \/ ProvisionVCluster(p) \/ ProvisionFinish(p) \/ Backoff(p)
    \/ PublishDomain(p) \/ RereadRecord(p) \/ Activate(p) \/ MarkFailed(p)

Request(h, p) ==
    \/ BeginDelete(h, p) \/ BeginSuspend(h, p) \/ BeginAutoSuspend(h, p) \/ BeginResume(h, p)
    \/ BeginSettings(h, p) \/ BeginQuestions(h, p) \/ BeginBootstrap(h, p)
    \/ BeginRuntimeStatus(h, p) \/ BeginClearSchedule(h, p)

HandlerStep(h) ==
    \/ Save(h) \/ SaveSuspended(h) \/ SaveDeleting(h) \/ Observe(h)
    \/ PauseEnvironment(h) \/ ResumeEnvironment(h) \/ DeleteVCluster(h) \/ DeleteNamespace(h)

Next ==
    \/ \E p \in Projects : CreateProject(p) \/ ProvisionStep(p) \/ FetchKubeconfig(p)
    \/ \E h \in Handlers, p \in Projects : Request(h, p)
    \/ \E h \in Handlers : HandlerStep(h)
    \/ Crash

Spec == Init /\ [][Next]_vars

\* Goroutines run and calls return; nothing makes anyone send a request.
Fairness ==
    /\ \A p \in Projects : WF_vars(ProvisionStep(p))
    /\ \A h \in Handlers : WF_vars(HandlerStep(h))

FairSpec == Spec /\ Fairness

-----------------------------------------------------------------------------
(* Properties *)

\* A project shown as active or suspended had its environment provisioned to the
\* end, and still has all of it unless somebody called DeleteProject: whatever
\* retries, half-done attempts, old copies, lost answers and restarts there were.
NoHollowProject ==
    \A p \in Projects :
        store[p].status \in Live =>
            /\ built[p]
            /\ deleteRequested[p]
               \/ (env[p].namespace /\ env[p].vcluster # "absent" /\ env[p].complete)

\* When operations on a project never overlap, the record promises no more than
\* the cluster holds, whichever call or write fails and wherever the process
\* stops: "active" means running and complete, "deleted" means no vcluster.
\* SuspendProject writes before it pauses and ResumeProject after it resumes.
NeverOverpromises ==
    \A p \in Projects : ~overlapped[p] =>
        /\ store[p].status = "active" => env[p].vcluster = "running" /\ env[p].complete
        /\ store[p].status = "deleted" => env[p].vcluster = "absent"

\* The status graph of the lifecycle; DeleteProject may start from any status.
Graph == {<<"absent", "creating">>, <<"creating", "active">>, <<"creating", "failed">>,
          <<"active", "suspended">>, <<"suspended", "active">>, <<"deleting", "deleted">>}
         \cup ((Status \ {"absent"}) \X {"deleting"})

\* A status leaves the graph only through a write of an outdated copy, or through
\* provisionProject, which never looks at the status it reads again, activating a
\* project whose deletion was requested meanwhile.
OnlyStaleWritesLeaveTheGraph ==
    [][\A p \in Projects :
         store'[p].status # store[p].status =>
            \/ <<store[p].status, store'[p].status>> \in Graph
            \/ stale'[p]
            \/ prov[p].pc = "activate" /\ deleteRequested[p]]_vars

\* Settings, domain and public URL, once in the record, are dropped only by a
\* write of an outdated copy: no operation forgets what it has read itself.
OnlyStaleWritesDropFacts ==
    [][\A p \in Projects : store[p].facts \subseteq store'[p].facts \/ stale'[p]]_vars

\* With one operation at a time, and no operation broken off by a failing call, a
\* project nobody works on is never left in between, and its environment is in the
\* state its status names; only a failed provisioning leaves something behind.
SettledRecordMatches ==
    \A p \in Projects : ~Busy(p) /\ ~overlapped[p] /\ ~cutShort[p] =>
        /\ store[p].status \notin {"creating", "deleting"}
        /\ store[p].status # "failed" => (store[p].status = "active" <=> env[p].vcluster = "running")
        /\ store[p].status = "suspended" <=> env[p].vcluster = "paused"

\* provisionProject comes to an end: a project does not stay in creating, even
\* with failing attempts, as long as nobody else works on it meanwhile.
CreatingSettles ==
    \A p \in Projects : store[p].status = "creating" ~> store[p].status # "creating" \/ overlapped[p]

\* A deletion whose calls succeed comes to an end.
DeletingSettles ==
    \A p \in Projects :
        store[p].status = "deleting" ~> store[p].status = "deleted" \/ overlapped[p] \/ cutShort[p]

\* Neither work on a project stops half-way for good.
WorkSettles == CreatingSettles /\ DeletingSettles

=============================================================================
