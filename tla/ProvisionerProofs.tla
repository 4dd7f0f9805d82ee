-------------------------- MODULE ProvisionerProofs --------------------------
(***************************************************************************)
(* Proofs about Provisioner, for any goroutines, waits, kinds of           *)
(* deployment and faults.                                                  *)
(*                                                                         *)
(* First, that it implements HostEnvironment.  The cluster is followed     *)
(* alone: each step of the program is one of a few changes of the cluster, *)
(* and of the cluster nothing more is needed than that a namespace that is *)
(* gone left nothing behind.                                               *)
(*                                                                         *)
(* Then what a creation and a deletion that answered well have left:       *)
(* CreatedIsWhole and DeletedIsGone.  The invariant says of each goroutine *)
(* where its call can have taken it, and of the one change that runs by    *)
(* itself what it has reached so far; the readers beside it change nothing *)
(* of that, for all they do to a missing namespace.                        *)
(***************************************************************************)
EXTENDS Provisioner, TLAPS

\* What a namespace that is not there has left behind.
NothingOutlives ==
    /\ ns \in {"absent", "present", "terminating"} /\ vcluster \in {"absent", "running", "paused"}
    /\ ns = "absent" => vcluster = "absent" /\ parts = {}

-----------------------------------------------------------------------------
(* The changes of the cluster *)

KeepsCluster == UNCHANGED <<ns, vcluster, parts>>
MakesNamespace == Applied
MakesVCluster == ns = "present" /\ vcluster' = "running" /\ UNCHANGED <<ns, parts>>
AddsPart == \E part \in Parts : ns = "present" /\ parts' = parts \cup {part} /\ UNCHANGED <<ns, vcluster>>
Installs == vcluster = "running" /\ parts' \in {parts, parts \cup {"ingress"}} /\ UNCHANGED <<ns, vcluster>>
Turns == vcluster # "absent" /\ vcluster' \in {"running", "paused"} /\ UNCHANGED <<ns, parts>>
EndsNamespace == ns' = (IF ns = "present" THEN "terminating" ELSE ns) /\ UNCHANGED <<vcluster, parts>>
Vanishes == ns = "terminating" /\ ns' = "absent" /\ vcluster' = "absent" /\ parts' = {}

ClusterChange ==
    \/ KeepsCluster \/ MakesNamespace \/ MakesVCluster \/ AddsPart \/ Installs
    \/ Turns \/ VClusterGone \/ EndsNamespace \/ Vanishes

LEMMA CreateStepChange ==
    ASSUME NEW g \in Goroutines, CreateStep(g)
    PROVE  UNCHANGED mode /\ ClusterChange
<1> USE DEF Here, Well, Badly, Refused, cluster, ClusterChange, KeepsCluster
<1>1. CASE ApplyNamespace(g) BY <1>1 DEF ApplyNamespace, MakesNamespace
<1>2. CASE CreateVCluster(g) BY <1>2 DEF CreateVCluster, MakesVCluster
<1>3. CASE WaitForSecret(g) BY <1>3 DEF WaitForSecret, AwaitSecret
<1>4. ASSUME NEW part \in Parts, NEW pc, Apply(g, part, pc) PROVE UNCHANGED mode /\ ClusterChange
    BY <1>4 DEF Apply, AddsPart
<1>5. CASE ApplyPolicies(g) BY <1>5, <1>4 DEF ApplyPolicies, Parts, Policies
<1>6. CASE ChooseDomain(g) BY <1>6 DEF ChooseDomain, Created
<1>7. CASE AwaitIngressIP(g) BY <1>7 DEF AwaitIngressIP, MakesNamespace
<1>8. CASE ApplyGrafana(g) BY <1>8, <1>4 DEF ApplyGrafana, Parts
<1>9. CASE Rollout(g) BY <1>9 DEF Rollout, Created
<1> QED BY <1>1, <1>2, <1>3, <1>5, <1>6, <1>7, <1>8, <1>9 DEF CreateStep

LEMMA ReadStepChange ==
    ASSUME NEW g \in Goroutines, ReadStep(g)
    PROVE  UNCHANGED mode /\ ClusterChange
<1> USE DEF Here, Well, Badly, Refused, cluster, ClusterChange, KeepsCluster
<1>1. CASE ReadSecret(g) BY <1>1 DEF ReadSecret
<1>2. CASE ReconcileNamespace(g) BY <1>2 DEF ReconcileNamespace, MakesNamespace
<1>3. CASE WaitToRead(g) BY <1>3 DEF WaitToRead, AwaitSecret
<1>4. CASE StartForward(g) BY <1>4 DEF StartForward
<1>5. CASE RunCommand(g)
    <2>1. parts \cup ({jobs[g].next} \cap {"ingress"}) \in {parts, parts \cup {"ingress"}} OBVIOUS
    <2> QED BY <1>5, <2>1 DEF RunCommand, Installs
<1>6. CASE ReadAddress(g) BY <1>6 DEF ReadAddress
<1>7. CASE AskAddress(g) BY <1>7 DEF AskAddress
<1>8. CASE AwaitAddress(g) BY <1>8 DEF AwaitAddress
<1> QED BY <1>1, <1>2, <1>3, <1>4, <1>5, <1>6, <1>7, <1>8 DEF ReadStep

LEMMA NextChange == [Next]_vars => UNCHANGED mode /\ ClusterChange
<1> SUFFICES ASSUME [Next]_vars PROVE UNCHANGED mode /\ ClusterChange
    OBVIOUS
<1> USE DEF Here, Well, Badly, Refused, cluster, ClusterChange, KeepsCluster
<1>1. ASSUME NEW g \in Goroutines, NEW op, NEW pc, Begin(g, op, pc) PROVE UNCHANGED mode /\ ClusterChange
    BY <1>1 DEF Begin
<1>2. ASSUME NEW g \in Goroutines,
             CreateProjectEnvironment(g) \/ DeleteProjectEnvironment(g) \/ Suspend(g) \/ Resume(g)
                \/ GetProjectKubeconfig(g) \/ Command(g)
      PROVE  UNCHANGED mode /\ ClusterChange
    BY <1>1, <1>2 DEF CreateProjectEnvironment, DeleteProjectEnvironment, Suspend, Resume,
                      GetProjectKubeconfig, Command
<1>3. ASSUME NEW g \in Goroutines, TurnVCluster(g) PROVE UNCHANGED mode /\ ClusterChange
    BY <1>3 DEF TurnVCluster, Turn, Turns
<1>4. ASSUME NEW g \in Goroutines, DeleteVCluster(g) PROVE UNCHANGED mode /\ ClusterChange
    BY <1>4 DEF DeleteVCluster
<1>5. ASSUME NEW g \in Goroutines, DeleteNamespace(g) PROVE UNCHANGED mode /\ ClusterChange
    BY <1>5 DEF DeleteNamespace, Deleted, EndsNamespace
<1>6. CASE ClusterMoves BY <1>6 DEF ClusterMoves, Vanishes
<1>7. CASE Crash BY <1>7 DEF Crash
<1>8. CASE UNCHANGED vars BY <1>8 DEF vars
<1> QED BY <1>2, <1>3, <1>4, <1>5, <1>6, <1>7, <1>8, CreateStepChange, ReadStepChange DEF Next, Step

-----------------------------------------------------------------------------
(* What a change does to the invariant and to what is seen of the cluster *)

LEMMA ChangeKeeps == NothingOutlives /\ ClusterChange => NothingOutlives'
BY DEF NothingOutlives, ClusterChange, KeepsCluster, MakesNamespace, Applied, MakesVCluster, AddsPart,
       Installs, Turns, VClusterGone, EndsNamespace, Vanishes

\* What HostEnvironment sees of a namespace, a vcluster and whether all the parts are there.
Whole == Needed \ {"ingress"} \subseteq parts
Shows(n, v, w) == [namespace |-> n = "present",
                   vcluster  |-> IF n = "present" THEN v ELSE "absent",
                   complete  |-> n = "present" /\ w]
Seen == Shows(ns, vcluster, Whole)
SeenNext == Shows(ns', vcluster', Whole')

LEMMA SeenIsView == View = [p \in {Project} |-> Seen] /\ View[Project] = Seen
BY DEF View, Seen, Shows, Whole

LEMMA SeenIsViewNext == View' = [p \in {Project} |-> SeenNext]
BY DEF View, SeenNext, Shows, Whole

LEMMA Stutters == SeenNext = Seen => View' = View
BY SeenIsView, SeenIsViewNext

LEMMA SeenMoves ==
    ASSUME NEW after, SeenNext = after
    PROVE  Host!Becomes(Project, after)
BY SeenIsView, SeenIsViewNext DEF Host!Becomes

\* What is seen, field by field, and how one field of it changes.
LEMMA FieldsOfShows ==
    ASSUME NEW n, NEW v \in {"absent", "running", "paused"}, NEW w \in BOOLEAN
    PROVE  /\ Shows(n, v, w) \in Host!Environment
           /\ Shows(n, v, w).namespace <=> n = "present"
           /\ Shows(n, v, w).vcluster = IF n = "present" THEN v ELSE "absent"
           /\ Shows(n, v, w).complete <=> n = "present" /\ w
BY DEF Shows, Host!Environment

LEMMA NoFields ==
    Host!NoEnvironment \in Host!Environment /\ ~Host!NoEnvironment.namespace
        /\ Host!NoEnvironment.vcluster = "absent" /\ ~Host!NoEnvironment.complete
BY DEF Host!NoEnvironment, Host!Environment

LEMMA FieldMoves ==
    ASSUME NEW r \in Host!Environment, NEW s \in Host!Environment
    PROVE  /\ (r.vcluster = s.vcluster /\ (r.complete <=> s.complete) /\ s.namespace) => s = [r EXCEPT !.namespace = TRUE]
           /\ ((r.namespace <=> s.namespace) /\ (r.complete <=> s.complete)) => s = [r EXCEPT !.vcluster = s.vcluster]
           /\ ((r.namespace <=> s.namespace) /\ r.vcluster = s.vcluster /\ s.complete) => s = [r EXCEPT !.complete = TRUE]
           /\ ((r.namespace <=> s.namespace) /\ r.vcluster = s.vcluster /\ (r.complete <=> s.complete)) => s = r
BY DEF Host!Environment

HostStep ==
    \/ Host!AddNamespace(Project) \/ Host!AddVCluster(Project) \/ Host!Complete(Project)
    \/ Host!Pause(Project) \/ Host!Resume(Project)
    \/ Host!RemoveVCluster(Project) \/ Host!Remove(Project)

LEMMA SeenFields ==
    ASSUME NothingOutlives, ClusterChange
    PROVE  /\ Seen \in Host!Environment /\ SeenNext \in Host!Environment
           /\ Seen.namespace <=> ns = "present"
           /\ Seen.vcluster = IF ns = "present" THEN vcluster ELSE "absent"
           /\ Seen.complete <=> ns = "present" /\ Whole
           /\ SeenNext.namespace <=> ns' = "present"
           /\ SeenNext.vcluster = IF ns' = "present" THEN vcluster' ELSE "absent"
           /\ SeenNext.complete <=> ns' = "present" /\ Whole'
<1>1. Whole \in BOOLEAN /\ Whole' \in BOOLEAN BY DEF Whole
<1>2. vcluster \in {"absent", "running", "paused"} /\ vcluster' \in {"absent", "running", "paused"}
    BY ChangeKeeps DEF NothingOutlives
<1>3. /\ Seen \in Host!Environment
      /\ Seen.namespace <=> ns = "present"
      /\ Seen.vcluster = IF ns = "present" THEN vcluster ELSE "absent"
      /\ Seen.complete <=> ns = "present" /\ Whole
    BY <1>1, <1>2 DEF Seen, Shows, Host!Environment
<1>4. /\ SeenNext \in Host!Environment
      /\ SeenNext.namespace <=> ns' = "present"
      /\ SeenNext.vcluster = IF ns' = "present" THEN vcluster' ELSE "absent"
      /\ SeenNext.complete <=> ns' = "present" /\ Whole'
    BY <1>1, <1>2 DEF SeenNext, Shows, Host!Environment
<1> QED BY <1>3, <1>4

LEMMA ChangeIsHost ==
    ASSUME NothingOutlives, UNCHANGED mode, ClusterChange
    PROVE  HostStep \/ UNCHANGED View
<1>1. Needed' = Needed BY DEF Needed
<1>2. "deny" \in Needed \ {"ingress"} BY DEF Needed, Policies
<1>3. (Whole /\ parts \subseteq parts' => Whole') /\ (Whole' /\ parts' \subseteq parts \cup {"ingress"} => Whole)
        /\ (Whole /\ parts \subseteq parts' \cup {"ingress"} => Whole')
    BY <1>1 DEF Whole
<1>4. ns \in {"absent", "present", "terminating"} BY DEF NothingOutlives
<1>5. CASE ns' = ns /\ vcluster' = vcluster /\ (Whole' <=> Whole)
    BY <1>5, Stutters, SeenFields, FieldMoves
<1>6. CASE MakesNamespace /\ ns = "absent"
    <2>1. ns' = "present" /\ vcluster' = "absent" /\ parts' = {}
        BY <1>6 DEF MakesNamespace, Applied, NothingOutlives
    <2>2. ~Whole' BY <2>1, <1>1, <1>2 DEF Whole
    <2>3. SeenNext = [Seen EXCEPT !.namespace = TRUE] BY <2>1, <2>2, <1>6, SeenFields, FieldMoves
    <2> QED BY <2>3, SeenMoves, SeenIsView DEF HostStep, Host!AddNamespace
<1>7. CASE MakesVCluster
    <2>1. (Whole' <=> Whole) /\ ns' = "present" /\ ns = "present" /\ vcluster' = "running"
        BY <1>7, <1>3 DEF MakesVCluster
    <2>2. SeenNext = [Seen EXCEPT !.vcluster = "running"] BY <2>1, SeenFields, FieldMoves
    <2> QED BY <2>1, <2>2, SeenFields, SeenMoves, SeenIsView DEF HostStep, Host!AddVCluster
<1>8. CASE AddsPart /\ ~(Whole' <=> Whole)
    <2>1. ns = "present" /\ ns' = ns /\ vcluster' = vcluster /\ parts \subseteq parts' BY <1>8 DEF AddsPart
    <2>2. Whole' BY <1>3, <1>8, <2>1
    <2>3. SeenNext = [Seen EXCEPT !.complete = TRUE] BY <2>1, <2>2, SeenFields, FieldMoves
    <2> QED BY <2>1, <2>3, SeenFields, SeenMoves, SeenIsView DEF HostStep, Host!Complete
<1>9. CASE Turns /\ ns = "present"
    <2>1. (Whole' <=> Whole) /\ ns' = ns /\ vcluster # "absent" /\ vcluster' \in {"running", "paused"}
        BY <1>9, <1>3 DEF Turns
    <2>2. SeenNext = [Seen EXCEPT !.vcluster = vcluster'] BY <1>9, <2>1, SeenFields, FieldMoves
    <2>3. View[Project].vcluster # "absent" BY <1>9, <2>1, SeenFields, SeenIsView
    <2>4. CASE vcluster' = "running"
        BY <2>2, <2>3, <2>4, SeenMoves, SeenIsView DEF HostStep, Host!Resume
    <2>5. CASE vcluster' = "paused"
        BY <2>2, <2>3, <2>5, SeenMoves, SeenIsView DEF HostStep, Host!Pause
    <2> QED BY <2>1, <2>4, <2>5
<1>10. CASE ns # "present" /\ ns' # "present"
    BY <1>10, Stutters, SeenFields, FieldMoves
<1>11. CASE ns = "present" /\ ns' = "terminating"
    <2>1. SeenNext = Host!NoEnvironment BY <1>11, SeenFields, FieldMoves, NoFields
    <2> QED BY <2>1, SeenMoves DEF HostStep, Host!Remove
<1>12. CASE VClusterGone /\ ns = "present" /\ ns' = "present"
    <2>1. (Whole' <=> Whole) /\ vcluster' = "absent"
        BY <1>12, <1>3 DEF VClusterGone
    <2>2. SeenNext = [Seen EXCEPT !.vcluster = "absent"] BY <1>12, <2>1, SeenFields, FieldMoves
    <2> QED BY <2>2, SeenMoves, SeenIsView DEF HostStep, Host!RemoveVCluster
<1>13. CASE KeepsCluster BY <1>13, <1>3, <1>5 DEF KeepsCluster
<1>14. CASE MakesNamespace /\ ns # "absent" BY <1>14, <1>3, <1>5 DEF MakesNamespace, Applied
<1>15. CASE AddsPart BY <1>15, <1>5, <1>8 DEF AddsPart
<1>16. CASE Installs
    <2>1. Whole' <=> Whole BY <1>16, <1>3 DEF Installs
    <2> QED BY <1>16, <2>1, <1>5 DEF Installs
<1>17. CASE Turns BY <1>17, <1>9, <1>10 DEF Turns
<1>18. CASE VClusterGone BY <1>18, <1>4, <1>10, <1>11, <1>12 DEF VClusterGone
<1>19. CASE EndsNamespace BY <1>19, <1>3, <1>5, <1>11 DEF EndsNamespace
<1>20. CASE Vanishes BY <1>20, <1>10 DEF Vanishes
<1> QED BY <1>6, <1>7, <1>13, <1>14, <1>15, <1>16, <1>17, <1>18, <1>19, <1>20 DEF ClusterChange

LEMMA StepIsHost == NothingOutlives /\ [Next]_vars => [Host!Next]_View
<1>1. HostStep => Host!Next BY DEF HostStep, Host!Next
<1> QED BY <1>1, NextChange, ChangeIsHost

-----------------------------------------------------------------------------
(* The theorems *)

LEMMA InitIsHost == Init => NothingOutlives /\ Host!Init
<1> SUFFICES ASSUME Init PROVE NothingOutlives /\ Host!Init
    OBVIOUS
<1>1. NothingOutlives BY DEF Init, NothingOutlives
<1>2. Seen = Host!NoEnvironment
    <2>1. Whole \in BOOLEAN BY DEF Whole
    <2>2. Shows("absent", "absent", Whole) = Host!NoEnvironment BY <2>1, FieldsOfShows, NoFields, FieldMoves
    <2> QED BY <2>2 DEF Init, Seen
<1> QED BY <1>1, <1>2, SeenIsView DEF Host!Init

\* A namespace that is gone leaves nothing behind: whatever runs at the same time.
THEOREM NothingOutlivesItsNamespace == Spec => []NothingOutlives
<1>1. NothingOutlives /\ [Next]_vars => NothingOutlives' BY NextChange, ChangeKeeps
<1> QED BY <1>1, InitIsHost, PTL DEF Spec

\* KubectlProvisioner, call by call, keeps the promises of HostEnvironment
\* (ImplementsHostEnvironment): for any number of goroutines that create, delete, pause,
\* resume and read at the same time, any waits, every kind of deployment and any faults.
THEOREM ProvisionerImplementsHostEnvironment == Spec => ImplementsHostEnvironment
<1> QED BY InitIsHost, StepIsHost, NothingOutlivesItsNamespace, PTL DEF Spec, ImplementsHostEnvironment, Host!Spec

-----------------------------------------------------------------------------
(* The inductive invariant of the safety properties *)

CreatePcs  == {"namespace", "vcluster", "secret", "deny", "allow", "quota", "gateway",
               "domain", "ingressIP", "grafana", "rollout"}
ReadPcs    == {"read", "reconcile", "wait", "forward", "command"}
AddressPcs == {"address", "askAddress", "waitAddress"}

\* A goroutine is where the call it serves can have taken it.
Fits(job) ==
    /\ job.pc = "idle" <=> job.op = "none"
    /\ job.pc \in CreatePcs => job.op = "create"
    /\ job.pc \in {"deleteVCluster", "deleteNamespace"} => job.op = "delete"
    /\ job.pc \in {"pause", "resume"} => job.op = job.pc
    /\ job.pc \in AddressPcs => job.op = "kubeconfig"
    /\ job.pc \in ReadPcs =>
          \/ job.op = "create" /\ job.next \in {"ingress", "ingressIP"}
          \/ job.op = "command" /\ job.next = "idle"
          \/ job.op = "kubeconfig" /\ job.pc \notin {"forward", "command"}

\* What a creation of kind m has applied for good by the time it is at pc.
Laid(pc, m) ==
    CASE pc \in {"secret", "deny"} -> {}
      [] pc = "allow"   -> {"deny"}
      [] pc = "quota"   -> {"deny", "allow"}
      [] pc = "gateway" -> {"deny", "allow", "quota"}
      [] pc \in {"grafana", "rollout"} -> Policies \cup (IF m = "auto" THEN {"ingress"} ELSE {})
      [] OTHER -> Policies

\* What a change that no other interferes with has reached.
Reached(job) ==
    /\ job.pc = "deleteNamespace" => vcluster = "absent"
    /\ job.op = "create" /\ job.pc \notin {"namespace", "vcluster"} =>
          /\ ns = "present" /\ vcluster = "running"
          /\ job.pc # "secret" => secret
          /\ Laid(job.pc, mode) \subseteq parts

Changing(g) == jobs[g].op \in Changes
Sound ==
    /\ \A g, h \in Goroutines : Changing(g) /\ Changing(h) => g = h
    /\ \A g \in Goroutines : Reached(jobs[g])
    /\ answered # "none" => \A g \in Goroutines : ~Changing(g)
    /\ CreatedIsWhole /\ DeletedIsGone

Orderly == \A g \in Goroutines : Fits(jobs[g])
IInv == TypeOK /\ Orderly /\ ("overlap" \notin troubles => Sound)

-----------------------------------------------------------------------------
(* How a step moves its goroutine *)

JobsType == jobs \in [Goroutines -> Job]

\* g is at pc of its call now, and nobody else has moved.
Takes(g, op, pc, next) ==
    /\ JobsType'
    /\ jobs'[g].op = op /\ jobs'[g].pc = pc /\ jobs'[g].next = next
    /\ \A h \in Goroutines : h # g => jobs'[h] = jobs[h]

LEMMA NoneFailed == 0 \in 0..(MaxTries - 1)
BY BoundsAssumption

LEMMA IdleIsJob == Idle \in Job
BY NoneFailed DEF Idle, Job, Pc, Aims

LEMMA GotoTakes ==
    ASSUME JobsType, NEW g \in Goroutines, NEW pc \in Pc, Goto(g, pc)
    PROVE  Takes(g, jobs[g].op, pc, jobs[g].next)
<1>1. jobs' = [jobs EXCEPT ![g] = [jobs[g] EXCEPT !.pc = pc, !.tries = 0]] BY DEF Goto, JobsType
<1>2. jobs[g] \in Job /\ 0 \in 0..(MaxTries - 1) /\ pc \in Pc \cup {"pause", "resume"} BY NoneFailed DEF JobsType
<1>3. [jobs[g] EXCEPT !.pc = pc, !.tries = 0] \in Job BY <1>2 DEF Job
<1> QED BY <1>1, <1>3 DEF JobsType, Takes, Job

LEMMA AgainTakes ==
    ASSUME JobsType, NEW g \in Goroutines, jobs[g].tries + 1 < MaxTries, Again(g)
    PROVE  Takes(g, jobs[g].op, jobs[g].pc, jobs[g].next)
<1>1. jobs' = [jobs EXCEPT ![g] = [jobs[g] EXCEPT !.tries = jobs[g].tries + 1]] BY DEF Again, JobsType
<1>2. jobs[g].tries + 1 \in 0..(MaxTries - 1) BY BoundsAssumption DEF JobsType, Job
<1>3. [jobs[g] EXCEPT !.tries = jobs[g].tries + 1] \in Job BY <1>2 DEF JobsType, Job
<1> QED BY <1>1, <1>3 DEF JobsType, Takes, Job

LEMMA EndsTakes ==
    ASSUME JobsType, NEW g \in Goroutines, Ends(g)
    PROVE  Takes(g, "none", "idle", "idle")
BY IdleIsJob DEF Ends, JobsType, Takes, Idle

LEMMA InsideTakes ==
    ASSUME JobsType, NEW g \in Goroutines, NEW next \in Aims, Inside(g, next)
    PROVE  Takes(g, jobs[g].op, "read", next)
<1>1. jobs' = [jobs EXCEPT ![g] = [jobs[g] EXCEPT !.pc = "read", !.next = next, !.tries = 0]] BY DEF Inside, JobsType
<1>2. jobs[g] \in Job /\ 0 \in 0..(MaxTries - 1) /\ "read" \in Pc \cup {"pause", "resume"} BY NoneFailed DEF JobsType, Pc
<1>3. [jobs[g] EXCEPT !.pc = "read", !.next = next, !.tries = 0] \in Job BY <1>2 DEF Job
<1> QED BY <1>1, <1>3 DEF JobsType, Takes, Job

\* A wait goes on where it is, or its call ends.
LEMMA NextTryTakes ==
    ASSUME JobsType, NEW g \in Goroutines, NextTry(g)
    PROVE  Takes(g, jobs[g].op, jobs[g].pc, jobs[g].next) \/ Takes(g, "none", "idle", "idle")
BY AgainTakes, EndsTakes DEF NextTry

\* One goroutine has moved, to where a call can take it.
Moves(g) ==
    /\ JobsType' /\ Fits(jobs'[g])
    /\ \A h \in Goroutines : h # g => jobs'[h] = jobs[h]

\* The same, and serves the call it served, or none.
Steps(g) == Moves(g) /\ jobs'[g].op \in {jobs[g].op, "none"}

LEMMA EndsSteps ==
    ASSUME JobsType, NEW g \in Goroutines, Ends(g)
    PROVE  Steps(g) /\ jobs'[g].op = "none" /\ jobs'[g].pc = "idle"
BY EndsTakes DEF Takes, Steps, Moves, Fits, CreatePcs, ReadPcs, AddressPcs

LEMMA NextTrySteps ==
    ASSUME JobsType, NEW g \in Goroutines, Fits(jobs[g]), NextTry(g)
    PROVE  Steps(g) /\ jobs'[g].op \in {jobs[g].op, "none"} /\ jobs'[g].pc \in {jobs[g].pc, "idle"}
<1>1. CASE Takes(g, jobs[g].op, jobs[g].pc, jobs[g].next) BY <1>1 DEF Takes, Steps, Moves, Fits
<1>2. CASE Takes(g, "none", "idle", "idle")
    BY <1>2 DEF Takes, Steps, Moves, Fits, CreatePcs, ReadPcs, AddressPcs
<1> QED BY <1>1, <1>2, NextTryTakes

LEMMA GotoSteps ==
    ASSUME JobsType, NEW g \in Goroutines, Fits(jobs[g]), NEW pc \in Pc, Goto(g, pc),
           \/ pc \in CreatePcs /\ jobs[g].op = "create"
           \/ pc = "deleteNamespace" /\ jobs[g].op = "delete"
           \/ pc \in AddressPcs /\ jobs[g].op = "kubeconfig"
           \/ pc \in ReadPcs /\ jobs[g].pc \in ReadPcs /\ (pc \in {"forward", "command"} => jobs[g].op # "kubeconfig")
    PROVE  Steps(g) /\ jobs'[g].op = jobs[g].op /\ jobs'[g].pc = pc /\ jobs'[g].next = jobs[g].next
BY GotoTakes DEF Takes, Steps, Moves, Fits, CreatePcs, ReadPcs, AddressPcs

LEMMA InsideSteps ==
    ASSUME JobsType, NEW g \in Goroutines, jobs[g].op = "create", NEW next \in {"ingress", "ingressIP"}, Inside(g, next)
    PROVE  Steps(g) /\ jobs'[g].op = "create" /\ jobs'[g].pc = "read"
<1>1. next \in Aims BY DEF Aims, Pc
<1> QED BY <1>1, InsideTakes DEF Takes, Steps, Moves, Fits, CreatePcs, ReadPcs, AddressPcs

LEMMA CreateStepSteps ==
    ASSUME JobsType, NEW g \in Goroutines, Fits(jobs[g]), CreateStep(g)
    PROVE  Steps(g)
<1> USE DEF Here, Well, Badly, Refused, At
<1>1. ASSUME NEW pc \in CreatePcs, Goto(g, pc), jobs[g].pc \in CreatePcs PROVE Steps(g)
    BY <1>1, GotoSteps DEF Fits, CreatePcs, Pc
<1>2. CASE ApplyNamespace(g) BY <1>2, <1>1, EndsSteps DEF ApplyNamespace, CreatePcs
<1>3. CASE CreateVCluster(g) BY <1>3, <1>1, EndsSteps DEF CreateVCluster, CreatePcs
<1>4. CASE WaitForSecret(g) BY <1>4, <1>1, EndsSteps, NextTrySteps DEF WaitForSecret, AwaitSecret, CreatePcs
<1>5. ASSUME NEW part \in CreatePcs, NEW pc \in CreatePcs, Apply(g, part, pc) PROVE Steps(g)
    BY <1>5, <1>1, EndsSteps DEF Apply
<1>6. CASE ApplyPolicies(g) BY <1>6, <1>5 DEF ApplyPolicies, CreatePcs
<1>7. CASE ChooseDomain(g)
    <2>1. jobs[g].op = "create" BY <1>7 DEF ChooseDomain, Fits, CreatePcs
    <2> QED BY <1>7, <1>1, <2>1, InsideSteps, EndsSteps DEF ChooseDomain, Created, CreatePcs
<1>8. CASE AwaitIngressIP(g) BY <1>8, <1>1, NextTrySteps DEF AwaitIngressIP, CreatePcs
<1>9. CASE ApplyGrafana(g) BY <1>9, <1>5 DEF ApplyGrafana, CreatePcs
<1>10. CASE Rollout(g) BY <1>10, EndsSteps DEF Rollout, Created
<1> QED BY <1>2, <1>3, <1>4, <1>6, <1>7, <1>8, <1>9, <1>10 DEF CreateStep

LEMMA ReadStepSteps ==
    ASSUME JobsType, NEW g \in Goroutines, Fits(jobs[g]), ReadStep(g)
    PROVE  Steps(g)
<1> USE DEF Here, Well, Badly, Refused, At
<1>1. ASSUME NEW pc \in AddressPcs, Goto(g, pc), jobs[g].pc \in AddressPcs PROVE Steps(g)
    BY <1>1, GotoSteps DEF Fits, AddressPcs, Pc
<1>2. ASSUME NEW pc \in {"reconcile", "wait"}, Goto(g, pc), jobs[g].pc \in ReadPcs PROVE Steps(g)
    BY <1>2, GotoSteps DEF ReadPcs, Pc
<1>3. ASSUME Goto(g, Having(g)), jobs[g].pc \in ReadPcs PROVE Steps(g)
    BY <1>3, GotoSteps DEF Having, ReadPcs, AddressPcs, Pc
<1>4. CASE ReadSecret(g) BY <1>4, <1>2, <1>3, EndsSteps DEF ReadSecret, ReadPcs
<1>5. CASE ReconcileNamespace(g) BY <1>5, <1>2, EndsSteps DEF ReconcileNamespace, ReadPcs
<1>6. CASE WaitToRead(g) BY <1>6, <1>3, EndsSteps, NextTrySteps DEF WaitToRead, AwaitSecret, ReadPcs
<1>7. CASE StartForward(g)
    <2>1. ASSUME Goto(g, "command") PROVE Steps(g)
        BY <1>7, <2>1, GotoSteps DEF StartForward, Fits, ReadPcs, Pc
    <2> QED BY <1>7, <2>1, EndsSteps DEF StartForward
<1>8. CASE RunCommand(g)
    <2>1. \/ jobs[g].op = "create" /\ jobs[g].next \in {"ingress", "ingressIP"}
          \/ jobs[g].op = "command" /\ jobs[g].next = "idle"
        BY <1>8 DEF RunCommand, Fits, ReadPcs
    <2>2. ASSUME Goto(g, "ingressIP"), jobs[g].op = "create" PROVE Steps(g)
        BY <2>2, GotoSteps DEF CreatePcs, Pc
    <2>3. ASSUME Inside(g, "ingressIP"), jobs[g].op = "create" PROVE Steps(g)
        BY <2>3, InsideSteps
    <2> QED BY <1>8, <2>1, <2>2, <2>3, EndsSteps DEF RunCommand
<1>9. CASE ReadAddress(g) BY <1>9, <1>1, EndsSteps DEF ReadAddress, AddressPcs
<1>10. CASE AskAddress(g) BY <1>10, <1>1, EndsSteps DEF AskAddress, AddressPcs
<1>11. CASE AwaitAddress(g) BY <1>11, EndsSteps, NextTrySteps DEF AwaitAddress
<1> QED BY <1>4, <1>5, <1>6, <1>7, <1>8, <1>9, <1>10, <1>11 DEF ReadStep

LEMMA StepSteps ==
    ASSUME JobsType, NEW g \in Goroutines, Fits(jobs[g]), Step(g)
    PROVE  Steps(g)
<1> USE DEF Here, Well, Badly, Refused, At
<1>1. CASE TurnVCluster(g) BY <1>1, EndsSteps DEF TurnVCluster, Turn
<1>2. CASE DeleteVCluster(g)
    <2>1. ASSUME Goto(g, "deleteNamespace") PROVE Steps(g)
        BY <1>2, <2>1, GotoSteps DEF DeleteVCluster, Fits, Pc
    <2> QED BY <1>2, <2>1, EndsSteps DEF DeleteVCluster
<1>3. CASE DeleteNamespace(g) BY <1>3, EndsSteps DEF DeleteNamespace, Deleted
<1> QED BY <1>1, <1>2, <1>3, CreateStepSteps, ReadStepSteps DEF Step

-----------------------------------------------------------------------------
(* What a step leaves of the data *)

ClusterType ==
    /\ ns \in {"absent", "present", "terminating"} /\ vcluster \in {"absent", "running", "paused"}
    /\ secret \in BOOLEAN /\ parts \subseteq Parts /\ address \in {"none", "asked", "given"}

\* A step of g keeps the cluster within its type, and forwards and history in order.
Leaves(g) ==
    /\ ClusterType' /\ UNCHANGED <<mode, served>>
    /\ forwards' \subseteq forwards \cup {g}
    /\ answered' \in {"none", "created", "deleted"}
    /\ troubles \subseteq troubles' /\ troubles' \subseteq troubles \cup {"call", "revived"}

LEMMA CreateStepLeaves ==
    ASSUME TypeOK, NEW g \in Goroutines, CreateStep(g)
    PROVE  Leaves(g) /\ UNCHANGED forwards /\ ~At(g, "command")
<1> USE DEF Here, Well, Badly, Refused, Trouble, cluster, At, ClusterType, Leaves
<1>1. ClusterType /\ answered \in {"none", "created", "deleted"} /\ (g \in forwards => At(g, "command"))
    BY DEF TypeOK
<1>2. CASE ApplyNamespace(g) BY <1>1, <1>2 DEF ApplyNamespace, Applied
<1>3. CASE CreateVCluster(g) BY <1>1, <1>3 DEF CreateVCluster
<1>4. CASE WaitForSecret(g) BY <1>1, <1>4 DEF WaitForSecret, AwaitSecret
<1>5. ASSUME NEW part \in Parts, NEW pc, Apply(g, part, pc)
      PROVE  Leaves(g) /\ UNCHANGED forwards /\ ~At(g, "command")
    <2>1. part # "command" BY DEF Parts, Policies
    <2>2. parts \cup {part} \subseteq Parts BY <1>1
    <2>3. CASE UNCHANGED parts BY <1>1, <1>5, <2>1, <2>3 DEF Apply
    <2>4. CASE parts' = parts \cup {part} BY <1>1, <1>5, <2>1, <2>2, <2>4 DEF Apply
    <2> QED BY <1>5, <2>3, <2>4 DEF Apply
<1>6. CASE ApplyPolicies(g) BY <1>6, <1>5 DEF ApplyPolicies, Parts, Policies
<1>7. CASE ChooseDomain(g) BY <1>1, <1>7 DEF ChooseDomain, Created
<1>8. CASE AwaitIngressIP(g) BY <1>1, <1>8 DEF AwaitIngressIP, Applied
<1>9. CASE ApplyGrafana(g) BY <1>9, <1>5 DEF ApplyGrafana, Parts
<1>10. CASE Rollout(g) BY <1>1, <1>10 DEF Rollout, Created
<1> QED BY <1>2, <1>3, <1>4, <1>6, <1>7, <1>8, <1>9, <1>10 DEF CreateStep

LEMMA ReadStepLeaves ==
    ASSUME TypeOK, NEW g \in Goroutines, ReadStep(g)
    PROVE  /\ Leaves(g)
           /\ IF At(g, "command") THEN g \notin forwards'
              ELSE UNCHANGED forwards \/ jobs'[g].pc = "command"
<1> USE DEF Here, Well, Badly, Refused, Trouble, cluster, At, ClusterType, Leaves
<1>1. ClusterType /\ answered \in {"none", "created", "deleted"} /\ (g \in forwards => At(g, "command"))
    BY DEF TypeOK
<1>2. CASE ReadSecret(g) BY <1>1, <1>2 DEF ReadSecret
<1>3. CASE ReconcileNamespace(g) BY <1>1, <1>3 DEF ReconcileNamespace, Applied
<1>4. CASE WaitToRead(g) BY <1>1, <1>4 DEF WaitToRead, AwaitSecret
<1>5. CASE StartForward(g)
    <2>1. ASSUME Goto(g, "command") PROVE jobs'[g].pc = "command"
        BY <2>1, GotoTakes DEF TypeOK, JobsType, Takes, Pc
    <2> QED BY <1>1, <1>5, <2>1 DEF StartForward
<1>6. CASE RunCommand(g) BY <1>1, <1>6 DEF RunCommand, StopForward, Parts
<1>7. CASE ReadAddress(g) BY <1>1, <1>7 DEF ReadAddress
<1>8. CASE AskAddress(g) BY <1>1, <1>8 DEF AskAddress
<1>9. CASE AwaitAddress(g) BY <1>1, <1>9 DEF AwaitAddress
<1> QED BY <1>2, <1>3, <1>4, <1>5, <1>6, <1>7, <1>8, <1>9 DEF ReadStep

LEMMA StepLeaves ==
    ASSUME TypeOK, NEW g \in Goroutines, Step(g)
    PROVE  Leaves(g) /\ (g \in forwards' => jobs'[g].pc = "command")
<1> USE DEF Here, Well, Badly, Refused, Trouble, cluster, At, ClusterType, Leaves
<1>1. ClusterType /\ answered \in {"none", "created", "deleted"} /\ (g \in forwards => At(g, "command"))
    BY DEF TypeOK
<1>2. CASE CreateStep(g) BY <1>1, <1>2, CreateStepLeaves
<1>3. CASE ReadStep(g) BY <1>1, <1>3, ReadStepLeaves
<1>4. CASE TurnVCluster(g) BY <1>1, <1>4 DEF TurnVCluster, Turn
<1>5. CASE DeleteVCluster(g) BY <1>1, <1>5 DEF DeleteVCluster, VClusterGone
<1>6. CASE DeleteNamespace(g) BY <1>1, <1>6 DEF DeleteNamespace, Deleted
<1> QED BY <1>2, <1>3, <1>4, <1>5, <1>6 DEF Step

-----------------------------------------------------------------------------
(* Types, and goroutines where they belong *)

LEMMA BeginMoves ==
    ASSUME JobsType, NEW g \in Goroutines, NEW op, NEW pc, Begin(g, op, pc),
           \/ op = "create" /\ pc = "namespace"
           \/ op = "delete" /\ pc = "deleteVCluster"
           \/ op \in {"pause", "resume"} /\ pc = op
           \/ op \in {"kubeconfig", "command"} /\ pc = "read"
    PROVE  Moves(g) /\ jobs'[g].op = op /\ jobs'[g].pc = pc
<1> DEFINE next == IF op = "command" THEN "idle" ELSE "address"
           job  == [Idle EXCEPT !.op = op, !.pc = pc, !.next = next]
<1>1. job.op = op /\ job.pc = pc /\ job.next = next BY DEF Idle
<1>2. job \in Job
    <2>1. next \in Aims /\ pc \in Pc \cup {"pause", "resume"} BY DEF Aims, Pc
    <2>2. op \in {"none", "create", "delete", "pause", "resume", "kubeconfig", "command"} OBVIOUS
    <2> HIDE DEF next
    <2> QED BY <2>1, <2>2, IdleIsJob DEF Job
<1>3. Fits(job)
    <2>1. op = "command" => next = "idle" OBVIOUS
    <2> HIDE DEF job, next
    <2> QED BY <1>1, <2>1 DEF Fits, CreatePcs, ReadPcs, AddressPcs
<1>4. jobs' = [jobs EXCEPT ![g] = job] BY DEF Begin
<1> HIDE DEF job
<1> QED BY <1>1, <1>2, <1>3, <1>4 DEF JobsType, Moves

\* The calls that begin, one by one.
Begins(g) ==
    \/ CreateProjectEnvironment(g) \/ DeleteProjectEnvironment(g) \/ Suspend(g) \/ Resume(g)
    \/ GetProjectKubeconfig(g) \/ Command(g)

LEMMA BeginsMove ==
    ASSUME JobsType, NEW g \in Goroutines, Begins(g)
    PROVE  /\ Moves(g) /\ At(g, "idle")
           /\ \E op, pc :
                 /\ Begin(g, op, pc) /\ jobs'[g].op = op /\ jobs'[g].pc = pc
                 /\ \/ op \in Changes /\ pc \in {"namespace", "deleteVCluster", "pause", "resume"}
                    \/ op \notin Changes
<1>1. ASSUME NEW op, NEW pc, Begin(g, op, pc),
             \/ op = "create" /\ pc = "namespace"
             \/ op = "delete" /\ pc = "deleteVCluster"
             \/ op \in {"pause", "resume"} /\ pc = op
             \/ op \in {"kubeconfig", "command"} /\ pc = "read"
      PROVE  /\ Moves(g) /\ At(g, "idle") /\ jobs'[g].op = op /\ jobs'[g].pc = pc
             /\ \/ op \in Changes /\ pc \in {"namespace", "deleteVCluster", "pause", "resume"}
                \/ op \notin Changes
    BY <1>1, BeginMoves DEF Begin, Changes
<1> QED BY <1>1 DEF Begins, CreateProjectEnvironment, DeleteProjectEnvironment, Suspend, Resume,
                    GetProjectKubeconfig, Command

LEMMA TypeStep == TypeOK /\ Orderly /\ [Next]_vars => TypeOK' /\ Orderly'
<1> SUFFICES ASSUME TypeOK, Orderly, [Next]_vars PROVE TypeOK' /\ Orderly'
    OBVIOUS
<1>1. JobsType /\ ClusterType BY DEF TypeOK, JobsType, ClusterType
<1>2. ASSUME NEW g \in Goroutines, Moves(g) PROVE Orderly' BY <1>2 DEF Moves, Orderly
<1>3. ASSUME NEW g \in Goroutines, Step(g) PROVE TypeOK' /\ Orderly'
    <2>1. Moves(g) BY <1>1, <1>3, StepSteps DEF Orderly, Steps
    <2>2. Leaves(g) /\ (g \in forwards' => jobs'[g].pc = "command") BY <1>3, StepLeaves
    <2>3. forwards' \subseteq {h \in Goroutines : At(h, "command")'}
        BY <2>1, <2>2 DEF TypeOK, Moves, Leaves, At
    <2>4. troubles' \subseteq {"call", "crash", "overlap", "revived"} BY <2>2 DEF TypeOK, Leaves
    <2> QED BY <1>2, <2>1, <2>2, <2>3, <2>4 DEF TypeOK, Leaves, Moves, ClusterType, JobsType
<1>4. ASSUME NEW g \in Goroutines, Begins(g) PROVE TypeOK' /\ Orderly'
    <2>1. Moves(g) /\ At(g, "idle") BY <1>1, <1>4, BeginsMove
    <2>2. PICK op, pc : Begin(g, op, pc) BY <1>1, <1>4, BeginsMove
    <2>3. forwards' \subseteq {h \in Goroutines : At(h, "command")'}
        BY <2>1, <2>2 DEF TypeOK, Moves, Begin, At
    <2>4. served' \in 0..MaxServed /\ answered' \in {"none", "created", "deleted"}
            /\ troubles' \subseteq {"call", "crash", "overlap", "revived"}
        BY <2>2, BoundsAssumption DEF TypeOK, Begin
    <2> QED BY <1>2, <2>1, <2>2, <2>3, <2>4 DEF TypeOK, Begin, cluster, Moves, JobsType
<1>5. CASE ClusterMoves
    BY <1>5 DEF ClusterMoves, TypeOK, Orderly, Fits, At
<1>6. CASE Crash
    <2>1. Orderly' BY <1>6 DEF Crash, Orderly, Fits, Idle, CreatePcs, ReadPcs, AddressPcs
    <2>2. jobs' \in [Goroutines -> Job] /\ forwards' = {} BY <1>6, IdleIsJob DEF Crash
    <2>3. troubles' = troubles \cup {"crash"} BY <1>6 DEF Crash, Trouble
    <2> QED BY <1>6, <2>1, <2>2, <2>3 DEF Crash, TypeOK, cluster
<1>7. CASE UNCHANGED vars BY <1>7 DEF vars, cluster, TypeOK, Orderly, Fits, At
<1> QED BY <1>3, <1>4, <1>5, <1>6, <1>7 DEF Next, Begins

LEMMA TypeInit == Init => TypeOK /\ Orderly
<1> SUFFICES ASSUME Init PROVE TypeOK /\ Orderly
    OBVIOUS
<1>1. Orderly BY DEF Init, Orderly, Fits, Idle, CreatePcs, ReadPcs, AddressPcs
<1>2. jobs \in [Goroutines -> Job] BY IdleIsJob DEF Init
<1>3. served \in 0..MaxServed BY BoundsAssumption DEF Init
<1> QED BY <1>1, <1>2, <1>3 DEF Init, TypeOK

-----------------------------------------------------------------------------
(* A reader changes nothing of what was reached *)

\* All that a reader does to the data: it makes a namespace that is missing.
Reads ==
    /\ UNCHANGED <<mode, vcluster, secret, parts, answered>>
    /\ ns' = ns \/ (ns = "absent" /\ ns' = "present" /\ "revived" \in troubles')

LEMMA ReadsOnly ==
    ASSUME NEW g \in Goroutines, Fits(jobs[g]), ~Changing(g), Step(g)
    PROVE  Reads
<1> USE DEF Here, Well, Badly, Refused, Trouble, cluster, At, Reads
<1>1. jobs[g].op \notin {"create", "delete", "pause", "resume"} BY DEF Changing, Changes
<1>2. ~CreateStep(g)
    BY <1>1 DEF CreateStep, Fits, CreatePcs, ApplyNamespace, CreateVCluster, WaitForSecret, ApplyPolicies,
                Apply, ChooseDomain, AwaitIngressIP, ApplyGrafana, Rollout
<1>3. ~TurnVCluster(g) /\ ~DeleteVCluster(g) /\ ~DeleteNamespace(g)
    BY <1>1 DEF TurnVCluster, Turn, DeleteVCluster, DeleteNamespace, Fits
<1>4. CASE ReadSecret(g) BY <1>4 DEF ReadSecret
<1>5. CASE ReconcileNamespace(g) BY <1>5 DEF ReconcileNamespace, Applied
<1>6. CASE WaitToRead(g) BY <1>6 DEF WaitToRead, AwaitSecret
<1>7. CASE StartForward(g) BY <1>7 DEF StartForward
<1>8. CASE RunCommand(g)
    <2>1. jobs[g].next = "idle" BY <1>1, <1>8 DEF RunCommand, Fits, ReadPcs
    <2>2. parts \cup ({jobs[g].next} \cap {"ingress"}) = parts BY <2>1
    <2> QED BY <1>8, <2>2 DEF RunCommand
<1>9. CASE ReadAddress(g) BY <1>9 DEF ReadAddress
<1>10. CASE AskAddress(g) BY <1>10 DEF AskAddress
<1>11. CASE AwaitAddress(g) BY <1>11 DEF AwaitAddress
<1> QED BY <1>2, <1>3, <1>4, <1>5, <1>6, <1>7, <1>8, <1>9, <1>10, <1>11 DEF Step, ReadStep

\* What CreatedIsWhole and DeletedIsGone say of a change with no other beside it.
Claims ==
    /\ answered = "created" => ns = "present" /\ vcluster = "running" /\ secret /\ Needed \subseteq parts
    /\ answered = "deleted" => vcluster = "absent" /\ (ns = "present" => "revived" \in troubles /\ parts = {})

LEMMA SoundClaims ==
    "overlap" \notin troubles => ((CreatedIsWhole /\ DeletedIsGone) <=> Claims)
BY DEF Claims, CreatedIsWhole, DeletedIsGone

LEMMA ReaderKeepsSound ==
    ASSUME NothingOutlives, Sound, "overlap" \notin troubles', troubles \subseteq troubles', Reads,
           NEW g \in Goroutines, Moves(g), ~Changing(g), jobs'[g].op \notin Changes
    PROVE  Sound'
<1>1. \A h \in Goroutines : Changing(h)' => Changing(h) BY DEF Changing, Moves
<1>2. Claims /\ "overlap" \notin troubles BY SoundClaims DEF Sound
<1>3. Claims'
    BY <1>2 DEF Claims, Reads, NothingOutlives, Needed
<1>4. \A h \in Goroutines : Reached(jobs[h])'
    <2>1. Reached(jobs[g])' BY DEF Reached, Moves, Fits, Changes
    <2>2. ASSUME NEW h \in Goroutines, h # g PROVE Reached(jobs[h])'
        BY <2>2 DEF Sound, Reached, Reads, Moves
    <2> QED BY <2>1, <2>2
<1>5. CreatedIsWhole' /\ DeletedIsGone' BY <1>3 DEF Claims, CreatedIsWhole, DeletedIsGone
<1> QED BY <1>1, <1>4, <1>5 DEF Sound, Reads

-----------------------------------------------------------------------------
(* A change that runs by itself gets somewhere *)

\* g has reached what it should, and if it answered, what it answered is so.
Advances(g) ==
    /\ Reached(jobs[g])'
    /\ answered' = "none" \/ (jobs'[g].op = "none" /\ Claims')

LEMMA EndsReached ==
    ASSUME JobsType, NEW g \in Goroutines, Ends(g)
    PROVE  Reached(jobs[g])' /\ jobs'[g].op = "none"
BY EndsSteps DEF Reached

\* A creation, call by call: each finds what the last has left, and adds its part.
LEMMA CreateStepAdvances ==
    ASSUME JobsType, NEW g \in Goroutines, Fits(jobs[g]), Reached(jobs[g]), answered = "none", CreateStep(g)
    PROVE  Advances(g)
<1> USE DEF Here, Well, Badly, Refused, cluster, At
<1>1. ASSUME Ends(g), UNCHANGED answered PROVE Advances(g) BY <1>1, EndsReached DEF Advances
<1>2. jobs[g].pc \in CreatePcs /\ jobs[g].op = "create" /\ jobs[g].pc \in Pc
    <2>1. jobs[g].pc \in CreatePcs
        BY DEF CreateStep, CreatePcs, ApplyNamespace, CreateVCluster, WaitForSecret, ApplyPolicies, Apply,
               ChooseDomain, AwaitIngressIP, ApplyGrafana, Rollout
    <2> QED BY <2>1 DEF Fits, CreatePcs, Pc
<1>3. ASSUME NEW pc \in CreatePcs, Goto(g, pc), UNCHANGED answered,
             pc \notin {"namespace", "vcluster"} =>
                ns' = "present" /\ vcluster' = "running" /\ (pc # "secret" => secret') /\ Laid(pc, mode') \subseteq parts'
      PROVE  Advances(g)
    <2>1. pc \in Pc BY DEF CreatePcs, Pc
    <2>2. jobs'[g].pc = pc BY <1>2, <1>3, <2>1, GotoSteps
    <2> QED BY <1>3, <2>2 DEF Advances, Reached, CreatePcs
<1>4. ASSUME NextTry(g), UNCHANGED <<cluster, mode, answered>> PROVE Advances(g)
    <2>1. CASE Takes(g, "none", "idle", "idle") BY <1>4, <2>1 DEF Takes, Advances, Reached
    <2>2. CASE Takes(g, jobs[g].op, jobs[g].pc, jobs[g].next) BY <1>4, <2>2 DEF Takes, Advances, Reached
    <2> QED BY <1>4, <2>1, <2>2, NextTryTakes
<1>5. CASE ApplyNamespace(g) BY <1>5, <1>1, <1>3 DEF ApplyNamespace, CreatePcs
<1>6. CASE CreateVCluster(g)
    <2>1. ASSUME Goto(g, "secret"), ns' = "present", vcluster' = "running", UNCHANGED answered PROVE Advances(g)
        BY <2>1, <1>3 DEF Laid, CreatePcs
    <2> QED BY <1>6, <1>1, <2>1 DEF CreateVCluster
<1>7. ASSUME jobs[g].pc \notin {"namespace", "vcluster"}
      PROVE  /\ ns = "present" /\ vcluster = "running" /\ (jobs[g].pc # "secret" => secret)
             /\ Laid(jobs[g].pc, mode) \subseteq parts
    BY <1>2, <1>7 DEF Reached
<1>8. CASE WaitForSecret(g)
    <2>1. ASSUME Goto(g, "deny"), secret, UNCHANGED <<cluster, mode, answered>>, jobs[g].pc = "secret"
          PROVE  Advances(g)
        BY <2>1, <1>3, <1>7 DEF Laid, CreatePcs
    <2> QED BY <1>8, <1>1, <1>4, <2>1 DEF WaitForSecret, AwaitSecret
<1>9. ASSUME NEW part \in Parts, NEW pc \in CreatePcs, part # "ingress", Apply(g, part, pc),
             Laid(pc, mode) \subseteq Laid(part, mode) \cup {part}, pc \notin {"secret", "vcluster", "namespace"}
      PROVE  Advances(g)
    <2>1. jobs[g].pc \notin {"namespace", "vcluster", "secret"} BY <1>9 DEF Apply, Parts, Policies
    <2> QED BY <1>9, <1>1, <1>3, <1>7, <2>1 DEF Apply
<1>10. CASE ApplyPolicies(g)
    <2>1. /\ Laid("allow", mode) \subseteq Laid("deny", mode) \cup {"deny"}
          /\ Laid("quota", mode) \subseteq Laid("allow", mode) \cup {"allow"}
          /\ Laid("gateway", mode) \subseteq Laid("quota", mode) \cup {"quota"}
          /\ Laid("domain", mode) \subseteq Laid("gateway", mode) \cup {"gateway"}
        BY DEF Laid, Policies
    <2> QED BY <1>10, <2>1, <1>9 DEF ApplyPolicies, Parts, Policies, CreatePcs
<1>11. CASE ChooseDomain(g)
    <2>1. ns = "present" /\ vcluster = "running" /\ secret /\ Policies \subseteq parts
        BY <1>11, <1>7 DEF ChooseDomain, Laid
    <2>2. CASE mode = "none" /\ Created(g)
        BY <2>1, <2>2, EndsReached DEF Created, Advances, Claims, Needed
    <2>3. ASSUME Inside(g, "ingress"), UNCHANGED <<cluster, mode, answered>> PROVE Advances(g)
        <3>1. jobs'[g].op = "create" /\ jobs'[g].pc = "read" BY <1>2, <2>3, InsideSteps
        <3> QED BY <2>1, <2>3, <3>1 DEF Advances, Reached, Laid
    <2>4. ASSUME Goto(g, "grafana"), mode = "domain", UNCHANGED <<cluster, mode, answered>> PROVE Advances(g)
        BY <2>1, <2>4, <1>3 DEF Laid, CreatePcs
    <2> QED BY <1>11, <2>2, <2>3, <2>4 DEF ChooseDomain
<1>12. CASE AwaitIngressIP(g)
    <2>1. ns = "present" /\ vcluster = "running" /\ secret /\ Policies \subseteq parts
        BY <1>12, <1>7 DEF AwaitIngressIP, Laid
    <2>2. ASSUME Goto(g, "grafana"), "ingress" \in parts, UNCHANGED <<cluster, mode, answered>> PROVE Advances(g)
        BY <2>1, <2>2, <1>3 DEF Laid, CreatePcs
    <2> QED BY <1>12, <2>1, <2>2, <1>4 DEF AwaitIngressIP
<1>13. CASE ApplyGrafana(g)
    <2>1. Laid("rollout", mode) = Laid("grafana", mode) BY DEF Laid
    <2> QED BY <1>13, <2>1, <1>9 DEF ApplyGrafana, Parts, CreatePcs
<1>14. CASE Rollout(g)
    <2>1. ns = "present" /\ vcluster = "running" /\ secret
            /\ Policies \cup (IF mode = "auto" THEN {"ingress"} ELSE {}) \subseteq parts
        BY <1>14, <1>7 DEF Rollout, Laid
    <2>2. CASE "grafana" \in parts /\ Created(g)
        BY <2>1, <2>2, EndsReached DEF Created, Advances, Claims, Needed
    <2> QED BY <1>14, <1>1, <2>2 DEF Rollout
<1> QED BY <1>5, <1>6, <1>8, <1>10, <1>11, <1>12, <1>13, <1>14 DEF CreateStep

\* A creation on its way into the vcluster: it has its namespace and its kubeconfig.
LEMMA ReadStepAdvances ==
    ASSUME JobsType, NEW g \in Goroutines, Fits(jobs[g]), Reached(jobs[g]), answered = "none", Changing(g), ReadStep(g)
    PROVE  Advances(g)
<1> USE DEF Here, Well, Badly, Refused, cluster, At
<1>1. ASSUME Ends(g), UNCHANGED answered PROVE Advances(g) BY <1>1, EndsReached DEF Advances
<1>2. jobs[g].op = "create" /\ jobs[g].pc \in ReadPcs /\ jobs[g].next \in {"ingress", "ingressIP"}
    <2>1. jobs[g].op \in {"create", "delete", "pause", "resume"} BY DEF Changing, Changes
    <2> QED BY <2>1 DEF ReadStep, Fits, ReadPcs, AddressPcs, ReadSecret, ReconcileNamespace, WaitToRead, StartForward,
                        RunCommand, ReadAddress, AskAddress, AwaitAddress
<1>3. ns = "present" /\ vcluster = "running" /\ secret /\ Policies \subseteq parts
    BY <1>2 DEF Reached, Laid, ReadPcs
<1>4. ASSUME NEW pc \in ReadPcs \cup {"ingressIP"}, Goto(g, pc), UNCHANGED <<ns, vcluster, secret, mode, answered>>,
             parts \subseteq parts'
      PROVE  Advances(g)
    <2>1. jobs'[g].pc = pc /\ pc \notin {"deleteNamespace", "namespace", "vcluster"}
        BY <1>2, <1>4, GotoSteps DEF ReadPcs, CreatePcs, Pc
    <2>2. Laid(pc, mode) = Policies BY <1>4 DEF Laid, ReadPcs
    <2> QED BY <1>3, <1>4, <2>1, <2>2 DEF Advances, Reached
<1>5. CASE ReadSecret(g) BY <1>1, <1>2, <1>3, <1>4, <1>5 DEF ReadSecret, Having, ReadPcs
<1>6. CASE ReconcileNamespace(g)
    BY <1>1, <1>3, <1>4, <1>6 DEF ReconcileNamespace, Applied, ReadPcs
<1>7. CASE WaitToRead(g) BY <1>1, <1>2, <1>3, <1>4, <1>7 DEF WaitToRead, AwaitSecret, Having, ReadPcs
<1>8. CASE StartForward(g) BY <1>1, <1>4, <1>8 DEF StartForward, ReadPcs
<1>9. CASE RunCommand(g)
    <2>1. ASSUME Inside(g, "ingressIP"), UNCHANGED <<ns, vcluster, secret, mode, answered>>, parts \subseteq parts'
          PROVE  Advances(g)
        <3>1. jobs'[g].op = "create" /\ jobs'[g].pc = "read" BY <1>2, <2>1, InsideSteps
        <3> QED BY <1>3, <2>1, <3>1 DEF Advances, Reached, Laid
    <2> QED BY <1>1, <1>2, <1>4, <1>9, <2>1 DEF RunCommand
<1>10. ~ReadAddress(g) /\ ~AskAddress(g) /\ ~AwaitAddress(g)
    BY <1>2 DEF ReadAddress, AskAddress, AwaitAddress, ReadPcs
<1> QED BY <1>5, <1>6, <1>7, <1>8, <1>9, <1>10 DEF ReadStep

LEMMA StepAdvances ==
    ASSUME JobsType, NEW g \in Goroutines, Fits(jobs[g]), Reached(jobs[g]), answered = "none", Changing(g), Step(g)
    PROVE  Advances(g)
<1> USE DEF Here, Well, Badly, Refused, cluster, At
<1>1. ASSUME Ends(g), UNCHANGED answered PROVE Advances(g) BY <1>1, EndsReached DEF Advances
<1>2. CASE TurnVCluster(g) BY <1>1, <1>2 DEF TurnVCluster, Turn
<1>3. CASE DeleteVCluster(g)
    <2>1. ASSUME Goto(g, "deleteNamespace"), vcluster' = "absent", UNCHANGED answered PROVE Advances(g)
        <3>1. jobs[g].op = "delete" BY <1>3 DEF DeleteVCluster, Fits
        <3>2. jobs'[g].op = "delete" BY <2>1, <3>1, GotoSteps DEF Pc
        <3> QED BY <2>1, <3>2 DEF Advances, Reached
    <2> QED BY <1>1, <1>3, <2>1 DEF DeleteVCluster, VClusterGone
<1>4. CASE DeleteNamespace(g)
    <2>1. vcluster = "absent" BY <1>4 DEF DeleteNamespace, Reached
    <2>2. ASSUME Deleted(g), vcluster' = "absent", ns' # "present" PROVE Advances(g)
        BY <2>2, EndsReached DEF Deleted, Advances, Claims
    <2> QED BY <1>1, <1>4, <2>1, <2>2 DEF DeleteNamespace
<1> QED BY <1>2, <1>3, <1>4, CreateStepAdvances, ReadStepAdvances DEF Step

LEMMA ChangeKeepsSound ==
    ASSUME JobsType, Orderly, Sound, "overlap" \notin troubles', NEW g \in Goroutines, Changing(g), Steps(g), Step(g)
    PROVE  Sound'
<1>1. answered = "none" /\ \A h \in Goroutines : Changing(h) => h = g BY DEF Sound
<1>2. Advances(g) BY <1>1, StepAdvances DEF Sound, Orderly
<1>3. \A h \in Goroutines : Changing(h)' => h = g /\ jobs'[g].op # "none"
    BY <1>1 DEF Changing, Changes, Steps, Moves
<1>4. ASSUME NEW h \in Goroutines, h # g PROVE Reached(jobs[h])'
    <2>1. jobs[h].op \notin {"create", "delete"} /\ Fits(jobs[h])
        BY <1>1, <1>4 DEF Changing, Changes, Orderly
    <2> QED BY <1>4, <2>1 DEF Fits, Reached, Steps, Moves
<1>5. answered' # "none" => \A h \in Goroutines : ~Changing(h)' BY <1>2, <1>3 DEF Advances
<1>6. CreatedIsWhole' /\ DeletedIsGone' BY <1>2 DEF Advances, Claims, CreatedIsWhole, DeletedIsGone
<1> QED BY <1>2, <1>3, <1>4, <1>5, <1>6 DEF Sound, Advances

-----------------------------------------------------------------------------
(* The invariant *)

\* A change that begins, and no other is at work.
LEMMA BeginKeepsSound ==
    ASSUME JobsType, Sound, "overlap" \notin troubles', NEW g \in Goroutines, At(g, "idle"), Moves(g),
           NEW op \in Changes, NEW pc \in {"namespace", "deleteVCluster", "pause", "resume"}, Begin(g, op, pc),
           jobs'[g].pc = pc
    PROVE  Sound'
<1>1. answered' = "none" /\ \A h \in Goroutines : ~Changing(h) BY DEF Begin, Changing
<1>2. \A h \in Goroutines : Changing(h)' => h = g BY <1>1 DEF Changing, Moves
<1>3. Reached(jobs[g])' BY DEF Reached, Moves, Fits
<1>4. ASSUME NEW h \in Goroutines, h # g PROVE Reached(jobs[h])'
    BY <1>4 DEF Sound, Reached, Begin, cluster, Moves
<1>5. CreatedIsWhole' /\ DeletedIsGone' BY <1>1 DEF CreatedIsWhole, DeletedIsGone
<1> QED BY <1>1, <1>2, <1>3, <1>4, <1>5 DEF Sound

LEMMA SoundStep ==
    ASSUME IInv, NothingOutlives, [Next]_vars, "overlap" \notin troubles'
    PROVE  Sound'
<1>1. TypeOK /\ Orderly /\ JobsType BY DEF IInv, TypeOK, JobsType
<1>2. ASSUME troubles \subseteq troubles' PROVE Sound BY <1>2 DEF IInv
<1>3. ASSUME NEW g \in Goroutines, Step(g) PROVE Sound'
    <2>1. Fits(jobs[g]) /\ Steps(g) BY <1>1, <1>3, StepSteps DEF Orderly
    <2>2. troubles \subseteq troubles' BY <1>1, <1>3, StepLeaves DEF Leaves
    <2>3. CASE Changing(g) BY <1>1, <1>2, <1>3, <2>1, <2>2, <2>3, ChangeKeepsSound
    <2>4. CASE ~Changing(g)
        <3>1. Moves(g) /\ jobs'[g].op \notin Changes BY <2>1, <2>4 DEF Steps, Changing, Changes
        <3>2. Reads BY <1>3, <2>1, <2>4, ReadsOnly
        <3> QED BY <1>2, <2>2, <2>4, <3>1, <3>2, ReaderKeepsSound
    <2> QED BY <2>3, <2>4
<1>4. ASSUME NEW g \in Goroutines, Begins(g) PROVE Sound'
    <2>1. Moves(g) /\ At(g, "idle") BY <1>1, <1>4, BeginsMove
    <2>2. PICK op, pc : /\ Begin(g, op, pc) /\ jobs'[g].op = op /\ jobs'[g].pc = pc
                        /\ \/ op \in Changes /\ pc \in {"namespace", "deleteVCluster", "pause", "resume"}
                           \/ op \notin Changes
        BY <1>1, <1>4, BeginsMove
    <2>3. troubles \subseteq troubles' BY <2>2 DEF Begin
    <2>4. CASE op \in Changes BY <1>1, <1>2, <2>1, <2>2, <2>3, <2>4, BeginKeepsSound
    <2>5. CASE op \notin Changes
        <3>1. Reads BY <2>2, <2>5 DEF Begin, Reads, cluster
        <3>2. ~Changing(g) BY <1>1, <2>1 DEF Orderly, Fits, At, Changing, Changes
        <3> QED BY <1>2, <2>1, <2>2, <2>3, <2>5, <3>1, <3>2, ReaderKeepsSound
    <2> QED BY <2>4, <2>5
<1>5. CASE ClusterMoves
    <2>1. Sound /\ Claims BY <1>2, <1>5, SoundClaims DEF ClusterMoves, Sound
    <2>2. Claims' BY <1>5, <2>1 DEF ClusterMoves, Claims, Needed
    <2>3. \A g \in Goroutines : Reached(jobs[g])' BY <1>5, <2>1 DEF ClusterMoves, Sound, Reached
    <2>4. CreatedIsWhole' /\ DeletedIsGone' BY <2>2 DEF Claims, CreatedIsWhole, DeletedIsGone
    <2> QED BY <1>5, <2>1, <2>3, <2>4 DEF ClusterMoves, Sound, Changing
<1>6. CASE Crash
    <2>1. Sound /\ Claims BY <1>2, <1>6, SoundClaims DEF Crash, Trouble, Sound
    <2>2. \A g \in Goroutines : jobs'[g].op = "none" /\ jobs'[g].pc = "idle" BY <1>6 DEF Crash, Idle
    <2>3. \A g \in Goroutines : ~Changing(g)' /\ Reached(jobs[g])' BY <2>2 DEF Changing, Changes, Reached
    <2>4. Claims' BY <1>6, <2>1 DEF Crash, Trouble, cluster, Claims, Needed
    <2>5. CreatedIsWhole' /\ DeletedIsGone' BY <2>4 DEF Claims, CreatedIsWhole, DeletedIsGone
    <2> QED BY <2>3, <2>5 DEF Sound
<1>7. CASE UNCHANGED vars
    <2>1. Sound BY <1>2, <1>7 DEF vars
    <2> QED BY <1>7, <2>1 DEF vars, cluster, Sound, Changing, Reached, CreatedIsWhole, DeletedIsGone, Needed
<1> QED BY <1>3, <1>4, <1>5, <1>6, <1>7 DEF Next, Begins

LEMMA InitIInv == Init => IInv
<1> SUFFICES ASSUME Init PROVE IInv
    OBVIOUS
<1>1. \A g \in Goroutines : jobs[g].op = "none" /\ jobs[g].pc = "idle" BY DEF Init, Idle
<1>2. Sound BY <1>1 DEF Init, Sound, Changing, Changes, Reached, CreatedIsWhole, DeletedIsGone
<1> QED BY <1>2, TypeInit DEF IInv

LEMMA IInvStep == IInv /\ NothingOutlives /\ [Next]_vars => IInv'
BY TypeStep, SoundStep DEF IInv

\* The invariant, with what NothingOutlives says of a namespace that is gone, holds always.
THEOREM InvariantHolds == Spec => []IInv
BY InitIInv, IInvStep, NothingOutlivesItsNamespace, PTL DEF Spec

-----------------------------------------------------------------------------
(* The theorems *)

\* Every variable keeps its type (TypeOK): attempts stay within their number, and
\* whoever has a port-forward is running a command through it.
THEOREM TypeCorrect == Spec => []TypeOK
<1>1. IInv => TypeOK BY DEF IInv
<1> QED BY <1>1, InvariantHolds, PTL

\* A creation that answered well, with no other change beside it, has left a whole
\* environment (CreatedIsWhole), for any number of goroutines that read meanwhile and
\* make a missing namespace again, any waits, any kind of deployment, any faults.
THEOREM CreationIsWhole == Spec => []CreatedIsWhole
<1>1. IInv => CreatedIsWhole BY DEF IInv, Sound, CreatedIsWhole
<1> QED BY <1>1, InvariantHolds, PTL

\* After a deletion that answered well nothing is left (DeletedIsGone), except the empty
\* namespace that a reader may have made again.
THEOREM DeletionIsComplete == Spec => []DeletedIsGone
<1>1. IInv => DeletedIsGone BY DEF IInv, Sound, DeletedIsGone
<1> QED BY <1>1, InvariantHolds, PTL
=============================================================================
