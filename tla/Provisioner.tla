----------------------------- MODULE Provisioner -----------------------------
(***************************************************************************)
(* KubectlProvisioner, call by call, for one project.  Every call of       *)
(* kubectl or vcluster is a step; calls into the vcluster first read its   *)
(* kubeconfig from a secret of the host namespace, make the namespace if   *)
(* it is missing, wait for the secret, and go through a port-forward that  *)
(* lives as long as the call.  Goroutines are not kept from each other.    *)
(***************************************************************************)
EXTENDS Naturals, FiniteSets

CONSTANTS
    Project,        \* the project
    Modes,          \* kinds of deployment: "domain", "auto" (ingress-nginx is installed), "none"
    Goroutines,     \* goroutines that call the provisioner
    Serves,         \* bound: the calls each of them makes
    MaxTries,       \* attempts of each wait (kubeconfigSecretReadMaxAttempts and the like)
    MaxServed,      \* bound: creations, deletions, suspensions and resumptions
    Faults          \* what may go wrong, once: "call", "crash"

ASSUME ModesAssumption  == Modes \subseteq {"domain", "auto", "none"}
ASSUME ServesAssumption ==
    Serves \in [Goroutines -> SUBSET {"create", "delete", "pause", "resume", "kubeconfig", "command"}]
ASSUME BoundsAssumption ==
    MaxTries \in Nat \ {0} /\ MaxServed \in Nat /\ Faults \subseteq {"call", "crash"}

VARIABLES
    mode,           \* the kind of this deployment
    ns,             \* the host namespace
    vcluster,       \* the helm release of the vcluster
    secret,         \* whether the vcluster has written its kubeconfig
    parts,          \* what is applied in the namespace, and "ingress" in the vcluster
    address,        \* the load balancer of the vcluster's service: "none", "asked", "given"
    forwards,       \* goroutines with a port-forward running
    jobs,           \* what each goroutine is doing
    answered,       \* history: the last creation or deletion that answered well, if none began since
    served,         \* changes begun so far
    troubles        \* history: faults, "overlap" of changes, "revived" namespaces

cluster == <<ns, vcluster, secret, parts, address>>
vars == <<mode, cluster, forwards, jobs, answered, served, troubles>>

-----------------------------------------------------------------------------
(* Data *)

Policies == {"deny", "allow", "quota", "gateway"}
Parts    == Policies \cup {"ingress", "grafana"}
Needed   == Policies \cup (IF mode = "auto" THEN {"ingress", "grafana"} ELSE {})
                     \cup (IF mode = "domain" THEN {"grafana"} ELSE {})

\* next: where a call into the vcluster goes on. tries: attempts of a wait that failed.
Pc == {"idle", "namespace", "vcluster", "secret", "deny", "allow", "quota", "gateway",
       "domain", "ingressIP", "grafana", "rollout", "deleteVCluster", "deleteNamespace",
       "read", "reconcile", "wait", "forward", "command", "address", "askAddress", "waitAddress"}
Aims == Pc \cup {"ingress"}
Job  == [op : {"none", "create", "delete", "pause", "resume", "kubeconfig", "command"},
         pc : Pc \cup {"pause", "resume"}, next : Aims, tries : 0..(MaxTries - 1)]
Idle == [op |-> "none", pc |-> "idle", next |-> "idle", tries |-> 0]

At(g, pc) == jobs[g].pc = pc
Changes == {"create", "delete", "pause", "resume"}

TypeOK ==
    /\ mode \in Modes
    /\ ns \in {"absent", "present", "terminating"} /\ vcluster \in {"absent", "running", "paused"}
    /\ secret \in BOOLEAN /\ parts \subseteq Parts /\ address \in {"none", "asked", "given"}
    /\ forwards \subseteq {g \in Goroutines : At(g, "command")} /\ jobs \in [Goroutines -> Job]
    /\ answered \in {"none", "created", "deleted"} /\ served \in 0..MaxServed
    /\ troubles \subseteq {"call", "crash", "overlap", "revived"}

Init ==
    /\ mode \in Modes /\ ns = "absent" /\ vcluster = "absent"
    /\ secret = FALSE /\ parts = {} /\ address = "none"
    /\ forwards = {} /\ jobs = [g \in Goroutines |-> Idle]
    /\ answered = "none" /\ served = 0 /\ troubles = {}

Goto(g, pc)  == jobs' = [jobs EXCEPT ![g].pc = pc, ![g].tries = 0]
Again(g)     == jobs' = [jobs EXCEPT ![g].tries = @ + 1]
Ends(g)      == jobs' = [jobs EXCEPT ![g] = Idle]

\* A fault of the given kind occurs; one in a behaviour (bound).
Possible(kind) == kind \in Faults /\ troubles \cap Faults = {}
Trouble(kind)  == Possible(kind) /\ troubles' = troubles \cup {kind}

\* A call that had the given effect; one that failed, with the effect or not, ends the work.
Well(g, pc)     == Goto(g, pc) /\ UNCHANGED troubles
Badly(g)        == Ends(g) /\ Trouble("call")
Refused(g)      == Ends(g) /\ UNCHANGED <<cluster, troubles>>
Here            == UNCHANGED <<mode, forwards, answered, served>>

\* A call into the vcluster, which goes on at next.
Inside(g, next) == jobs' = [jobs EXCEPT ![g].pc = "read", ![g].next = next, ![g].tries = 0]

Begin(g, op, pc) ==
    /\ op \in Serves[g] /\ At(g, "idle")
    /\ jobs' = [jobs EXCEPT ![g] = [Idle EXCEPT !.op = op, !.pc = pc, !.next = IF op = "command" THEN "idle" ELSE "address"]]
    /\ IF op \in Changes
       THEN /\ served < MaxServed /\ served' = served + 1 /\ answered' = "none"
            /\ troubles' = IF \E h \in Goroutines : jobs[h].op \in Changes THEN troubles \cup {"overlap"} ELSE troubles
       ELSE UNCHANGED <<served, answered, troubles>>
    /\ UNCHANGED <<mode, cluster, forwards>>

-----------------------------------------------------------------------------
(* CreateProjectEnvironment *)

CreateProjectEnvironment(g) == Begin(g, "create", "namespace")

\* kubectl apply leaves a namespace that is on its way out as it is.
Applied == ns' = (IF ns = "absent" THEN "present" ELSE ns) /\ UNCHANGED <<vcluster, secret, parts, address>>

ApplyNamespace(g) ==
    /\ At(g, "namespace")
    /\ \/ Applied /\ Well(g, "vcluster")
       \/ (Applied \/ UNCHANGED cluster) /\ Badly(g)
    /\ Here

\* Mutant: vcluster create makes a namespace that is missing.
CreateVClusterAnyway(g) ==
    /\ At(g, "vcluster")
    /\ vcluster' = "running" /\ ns' = "present" /\ UNCHANGED <<secret, parts, address>>
    /\ Well(g, "secret") /\ Here

\* vcluster create; one that is there already is refused, or set up again.
CreateVCluster(g) ==
    LET done == vcluster' = "running" /\ UNCHANGED <<ns, secret, parts, address>> IN
    /\ At(g, "vcluster")
    /\ \/ ns = "present" /\ done /\ Well(g, "secret")
       \/ (ns # "present" \/ vcluster # "absent") /\ Refused(g)
       \/ ((ns = "present" /\ done) \/ UNCHANGED cluster) /\ Badly(g)
    /\ Here

\* Mutant: one attempt too many.
NextTryAndOneMore(g) == IF jobs[g].tries < MaxTries THEN Again(g) ELSE Ends(g)

\* An attempt has failed: there is one more, unless it was the last.
NextTry(g) == IF jobs[g].tries + 1 < MaxTries THEN Again(g) ELSE Ends(g)

\* waitForProjectKubeconfigSecret. An error other than that there is no secret ends it.
AwaitSecret(g, pc) ==
    /\ \/ secret /\ Well(g, pc)
       \/ ~secret /\ ns # "absent" /\ NextTry(g) /\ UNCHANGED troubles
       \/ ~secret /\ ns = "absent" /\ Ends(g) /\ UNCHANGED troubles
       \/ Badly(g)
    /\ UNCHANGED cluster /\ Here
WaitForSecret(g) == At(g, "secret") /\ AwaitSecret(g, "deny")

\* A manifest of the host namespace is applied: it takes a namespace that stays.
Apply(g, part, pc) ==
    LET done == ns = "present" /\ parts' = parts \cup {part} /\ UNCHANGED <<ns, vcluster, secret, address>> IN
    /\ At(g, part)
    /\ \/ done /\ Well(g, pc)
       \/ ns # "present" /\ Refused(g)
       \/ (done \/ UNCHANGED cluster) /\ Badly(g)
    /\ Here

\* Mutant: the quota is forgotten.
ApplyPoliciesButQuota(g) ==
    \/ Apply(g, "deny", "allow") \/ Apply(g, "allow", "gateway") \/ Apply(g, "gateway", "domain")

ApplyPolicies(g) ==
    \/ Apply(g, "deny", "allow") \/ Apply(g, "allow", "quota")
    \/ Apply(g, "quota", "gateway") \/ Apply(g, "gateway", "domain")

\* The creation has answered.
Created(g) == Ends(g) /\ answered' = "created" /\ UNCHANGED <<mode, cluster, forwards, served, troubles>>

\* Where the base domain of the applications comes from, if there is one.
ChooseDomain(g) ==
    /\ At(g, "domain")
    /\ \/ mode = "none" /\ Created(g)
       \/ /\ CASE mode = "auto" -> Inside(g, "ingress") [] mode = "domain" -> Goto(g, "grafana") [] OTHER -> FALSE
          /\ UNCHANGED <<cluster, troubles>> /\ Here

\* waitForIngressNginxIP: each attempt is a call into the vcluster, one step here: it
\* makes a missing namespace again, and the controller has its address or not yet.
AwaitIngressIP(g) ==
    /\ At(g, "ingressIP")
    /\ \/ vcluster = "running" /\ "ingress" \in parts /\ Well(g, "grafana") /\ UNCHANGED cluster
       \/ ns # "absent" /\ NextTry(g) /\ UNCHANGED <<cluster, troubles>>
       \/ ns = "absent" /\ NextTry(g) /\ Applied /\ troubles' = troubles \cup {"revived"}
    /\ Here

ApplyGrafana(g) == Apply(g, "grafana", "rollout")

Rollout(g) ==
    /\ At(g, "rollout")
    /\ \/ "grafana" \in parts /\ Created(g)
       \/ "grafana" \notin parts /\ Refused(g) /\ Here
       \/ Badly(g) /\ UNCHANGED cluster /\ Here

-----------------------------------------------------------------------------
(* SuspendProjectEnvironment, ResumeProjectEnvironment, DeleteProjectEnvironment *)

Suspend(g) == Begin(g, "pause", "pause")
Resume(g)  == Begin(g, "resume", "resume")

Turn(g, pc, to) ==
    LET done == vcluster # "absent" /\ vcluster' = to /\ UNCHANGED <<ns, secret, parts, address>> IN
    /\ At(g, pc)
    /\ \/ done /\ Ends(g) /\ UNCHANGED troubles
       \/ vcluster = "absent" /\ Refused(g)
       \/ (done \/ UNCHANGED cluster) /\ Badly(g)
    /\ Here
TurnVCluster(g) == Turn(g, "pause", "paused") \/ Turn(g, "resume", "running")

DeleteProjectEnvironment(g) == Begin(g, "delete", "deleteVCluster")

\* The helm release goes, with all that is in the vcluster; --delete-namespace may
\* take the namespace too, which like any namespace needs some time to go.
VClusterGone ==
    /\ vcluster' = "absent" /\ secret' = FALSE /\ address' = "none"
    /\ parts' = parts \ {"ingress"}
    /\ ns' = ns \/ (ns = "present" /\ ns' = "terminating")

DeleteVCluster(g) ==
    /\ At(g, "deleteVCluster")
    /\ \/ VClusterGone /\ Well(g, "deleteNamespace")
       \/ (VClusterGone \/ UNCHANGED cluster) /\ Badly(g)
    /\ Here

Deleted(g) == Ends(g) /\ answered' = "deleted" /\ UNCHANGED <<mode, forwards, served, troubles>>

\* Mutant: vcluster delete is trusted to take the namespace with it.
DeleteNamespaceNot(g) == At(g, "deleteNamespace") /\ Deleted(g) /\ UNCHANGED cluster

\* kubectl delete namespace --wait=false
DeleteNamespace(g) ==
    LET done == /\ ns' = (IF ns = "present" THEN "terminating" ELSE ns)
                /\ UNCHANGED <<vcluster, secret, parts, address>>
    IN
    /\ At(g, "deleteNamespace")
    /\ \/ done /\ Deleted(g)
       \/ (done \/ UNCHANGED cluster) /\ Badly(g) /\ Here

-----------------------------------------------------------------------------
(* Readers: GetProjectKubeconfig, and whatever is asked of the vcluster *)

GetProjectKubeconfig(g) == Begin(g, "kubeconfig", "read")
Command(g)              == Begin(g, "command", "read")

\* Where a reader goes once it has the kubeconfig.
Having(g) == IF jobs[g].op = "kubeconfig" THEN "address" ELSE "forward"

\* getProjectKubeconfigRaw reads the secret, and makes a namespace that is missing.
ReadSecret(g) ==
    /\ At(g, "read")
    /\ \/ ns # "absent" /\ secret /\ Well(g, Having(g))
       \/ ns # "absent" /\ ~secret /\ Well(g, "wait")
       \/ ns = "absent" /\ Well(g, "reconcile")
       \/ Badly(g)
    /\ UNCHANGED cluster /\ Here

\* reconcileProjectNamespace, and the second attempt to read the secret.
ReconcileNamespace(g) ==
    /\ At(g, "reconcile")
    /\ \/ Applied /\ Goto(g, "wait") /\ troubles' = troubles \cup {"revived"}
       \/ /\ Possible("call") /\ troubles' = troubles \cup {"call", "revived"}
          /\ (Applied \/ UNCHANGED cluster) /\ Ends(g)
    /\ Here
WaitToRead(g) == At(g, "wait") /\ AwaitSecret(g, Having(g))

\* The port-forward ends with the command, however that ends.
StopForward(g) == forwards' = forwards \ {g}

\* startVClusterPortForward: it comes up while the vcluster runs, or is given up.
StartForward(g) ==
    /\ At(g, "forward")
    /\ \/ vcluster = "running" /\ forwards' = forwards \cup {g} /\ Well(g, "command")
       \/ vcluster # "running" /\ Ends(g) /\ UNCHANGED <<forwards, troubles>>
       \/ Badly(g) /\ UNCHANGED forwards
    /\ UNCHANGED <<mode, cluster, answered, served>>

\* kubectl in the vcluster; of its effects, only the ingress controller is told apart:
\* the first call of installIngressNginxInVCluster applies it, the second awaits its rollout.
RunCommand(g) ==
    LET next == jobs[g].next
        able == vcluster = "running" /\ (next = "ingressIP" => "ingress" \in parts)
        done == /\ able /\ parts' = parts \cup ({next} \cap {"ingress"})
                /\ UNCHANGED <<ns, vcluster, secret, address>>
    IN
    /\ At(g, "command")
    /\ \/ /\ done /\ StopForward(g) /\ UNCHANGED troubles
          /\ CASE next = "idle" -> Ends(g) [] next = "ingress" -> Inside(g, "ingressIP") [] OTHER -> Goto(g, next)
       \/ ~able /\ Refused(g) /\ StopForward(g)
       \/ (done \/ UNCHANGED cluster) /\ Badly(g) /\ StopForward(g)
    /\ UNCHANGED <<mode, answered, served>>

\* ensureVClusterExternalIP: the address is read, asked for once, and waited for.
ReadAddress(g) ==
    /\ At(g, "address")
    /\ \/ address = "given" /\ Ends(g) /\ UNCHANGED troubles
       \/ address # "given" /\ vcluster # "absent" /\ Well(g, "askAddress")
       \/ vcluster = "absent" /\ Ends(g) /\ UNCHANGED troubles
       \/ Badly(g)
    /\ UNCHANGED cluster /\ Here

AskAddress(g) ==
    LET done == /\ vcluster # "absent" /\ address' = (IF address = "none" THEN "asked" ELSE address)
                /\ UNCHANGED <<ns, vcluster, secret, parts>>
    IN
    /\ At(g, "askAddress")
    /\ \/ done /\ Well(g, "waitAddress")
       \/ vcluster = "absent" /\ Refused(g)
       \/ (done \/ UNCHANGED cluster) /\ Badly(g)
    /\ Here

AwaitAddress(g) ==
    /\ At(g, "waitAddress")
    /\ \/ address = "given" /\ Ends(g) /\ UNCHANGED troubles
       \/ address # "given" /\ NextTry(g) /\ UNCHANGED troubles
    /\ UNCHANGED cluster /\ Here

-----------------------------------------------------------------------------
(* The cluster itself, and the process *)

\* The vcluster starts and writes its kubeconfig, the cloud gives an address, a
\* namespace that is being deleted is gone, with all that was in it.
ClusterMoves ==
    /\ \/ vcluster = "running" /\ ~secret /\ secret' = TRUE /\ UNCHANGED <<ns, vcluster, parts, address>>
       \/ address = "asked" /\ address' = "given" /\ UNCHANGED <<ns, vcluster, secret, parts>>
       \/ /\ ns = "terminating" /\ ns' = "absent" /\ vcluster' = "absent"
          /\ secret' = FALSE /\ parts' = {} /\ address' = "none"
    /\ UNCHANGED <<mode, forwards, jobs, answered, served, troubles>>

\* The process stops and starts again; its children end with it.
Crash ==
    /\ Trouble("crash")
    /\ jobs' = [g \in Goroutines |-> Idle] /\ forwards' = {}
    /\ UNCHANGED <<mode, cluster, answered, served>>

-----------------------------------------------------------------------------
(* The specification *)

CreateStep(g) ==
    \/ ApplyNamespace(g) \/ CreateVCluster(g) \/ WaitForSecret(g) \/ ApplyPolicies(g)
    \/ ChooseDomain(g) \/ AwaitIngressIP(g) \/ ApplyGrafana(g) \/ Rollout(g)
ReadStep(g) ==
    \/ ReadSecret(g) \/ ReconcileNamespace(g) \/ WaitToRead(g) \/ StartForward(g) \/ RunCommand(g)
    \/ ReadAddress(g) \/ AskAddress(g) \/ AwaitAddress(g)
Step(g) == CreateStep(g) \/ ReadStep(g) \/ TurnVCluster(g) \/ DeleteVCluster(g) \/ DeleteNamespace(g)

Next ==
    \/ \E g \in Goroutines :
          \/ CreateProjectEnvironment(g) \/ DeleteProjectEnvironment(g) \/ Suspend(g) \/ Resume(g)
          \/ GetProjectKubeconfig(g) \/ Command(g)
          \/ Step(g)
    \/ ClusterMoves
    \/ Crash

Spec == Init /\ [][Next]_vars

-----------------------------------------------------------------------------
(* Properties *)

\* What the environment is taken for by the rest of the program: a namespace that is
\* on its way out, and what is in it, is gone already.
View ==
    LET there == ns = "present" IN
    [p \in {Project} |->
        [namespace |-> there,
         vcluster  |-> IF there THEN vcluster ELSE "absent",
         complete  |-> there /\ Needed \ {"ingress"} \subseteq parts]]
Host == INSTANCE HostEnvironment WITH Projects <- {Project}, env <- View

\* Call by call, with faults, restarts, deletions half-way and readers that make the
\* namespace again, the environment changes as the coarse steps of HostEnvironment say.
ImplementsHostEnvironment == Host!Spec

\* A creation that answered well, with no other change at work beside it, has left
\* everything the project needs: though readers make the namespace again, and the
\* control plane is cut off by the first policy until the second is applied.
CreatedIsWhole ==
    answered = "created" /\ "overlap" \notin troubles =>
        ns = "present" /\ vcluster = "running" /\ secret /\ Needed \subseteq parts

\* After a deletion that answered well nothing is left, unless a reader that missed
\* the namespace has made it again: then the namespace, and it is empty.
DeletedIsGone ==
    answered = "deleted" /\ "overlap" \notin troubles =>
        /\ vcluster = "absent"
        /\ ns = "present" => "revived" \in troubles /\ parts = {}

=============================================================================
