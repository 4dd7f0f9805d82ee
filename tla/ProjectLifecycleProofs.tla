----------------------- MODULE ProjectLifecycleProofs -----------------------
(***************************************************************************)
(* ProjectLifecycle for any projects, handlers, retry budget, store and    *)
(* faults. NoHollowProject is not inductive: the status "active" reaches   *)
(* the store through copies that were made earlier, by handlers and by the *)
(* provisioning goroutine, so the invariant IInv follows those copies too. *)
(*                                                                         *)
(* Three more invariants build on it: what a copy nobody has outdated says *)
(* of the record it was made of (CopiesInv); that an operation that did    *)
(* not overlap is the only one, and what it has reached (AloneInv); and    *)
(* when the record and the cluster agree (MatchInv). They are proved from  *)
(* what each step does to the fields they compare (HandlerMoves,           *)
(* RequestBegins, GoroutineMoves).                                         *)
(***************************************************************************)
EXTENDS ProjectLifecycle, TLAPS

\* Every record that says active or suspended, stored or about to be written,
\* belongs to a project whose environment was provisioned to the end.
StoredBuilt == \A p \in Projects : store[p].status \in Live => built[p]
HeldBuilt ==
    \A h \in Handlers : handlers[h].pc # "idle" /\ handlers[h].copy.status \in Live =>
        built[handlers[h].project]
GoroutineBuilt ==
    \A p \in Projects :
        prov[p].pc \in {"publish", "reread", "activate"} \/ prov[p].copy.status \in Live => built[p]

\* What was provisioned is only taken away by a deletion somebody requested.
BuiltStands ==
    \A p \in Projects : built[p] /\ ~deleteRequested[p] =>
        env[p].namespace /\ env[p].vcluster # "absent" /\ env[p].complete
DeletersKnown ==
    \A h \in Handlers : handlers[h].pc \in {"saveDeleting", "deleteVCluster", "deleteNamespace"} =>
        deleteRequested[handlers[h].project]

\* A goroutine waits for another attempt only while there is a delay left for it.
RetriesLeft == \A p \in Projects : prov[p].pc = "backoff" => prov[p].attempt < MaxAttempts

IInv == TypeOK /\ RetriesLeft /\ StoredBuilt /\ HeldBuilt /\ GoroutineBuilt /\ BuiltStands /\ DeletersKnown

-----------------------------------------------------------------------------
(* Types *)

\* A record that Update writes is a record.
LEMMA WrittenType ==
    ASSUME TypeOK, NEW p \in Projects, NEW rec \in Record
    PROVE  Written(p, rec) \in Record /\ Written(p, rec).status = rec.status
BY DEF Written, Adding, Record, TypeOK

\* A write keeps the types of what it touches.
LEMMA PutType ==
    ASSUME TypeOK, NEW p \in Projects, NEW w, NEW rec \in Record, Put(w, p, rec)
    PROVE  /\ store' \in [Projects -> Record]
           /\ fresh' \subseteq Projects \cup Handlers
           /\ stale' \in [Projects -> BOOLEAN]
           /\ store'[p].status = rec.status
           /\ \A q \in Projects : q # p => store'[q] = store[q]
<1>1. Written(p, rec) \in Record /\ Written(p, rec).status = rec.status BY WrittenType
<1>2. (w \notin fresh) \in BOOLEAN OBVIOUS
<1> QED BY <1>1, <1>2 DEF Put, TypeOK

\* A failing Update wrote the record or nothing at all.
LEMMA SaveFailedType ==
    ASSUME TypeOK, NEW p \in Projects, NEW w, NEW rec \in Record, SaveFailed(w, p, rec)
    PROVE  /\ store' \in [Projects -> Record]
           /\ fresh' \subseteq Projects \cup Handlers
           /\ stale' \in [Projects -> BOOLEAN]
           /\ store'[p].status \in {store[p].status, rec.status}
           /\ \A q \in Projects : q # p => store'[q] = store[q]
<1>1. CASE Put(w, p, rec) BY <1>1, PutType
<1>2. CASE UNCHANGED <<store, fresh, stale>> BY <1>2 DEF TypeOK
<1> QED BY <1>1, <1>2 DEF SaveFailed
-----------------------------------------------------------------------------
(* The invariant *)

LEMMA InitInv == Init => IInv
BY WorkersAssumption, AttemptsAssumption
   DEF Init, IInv, TypeOK, RetriesLeft, StoredBuilt, HeldBuilt, GoroutineBuilt, BuiltStands, DeletersKnown,
       Record, Blank, Status, Fact, Live, Environment, NoEnvironment, NoProvisioning, ProvisionPc,
       IdleHandler, HandlerPc

\* A project is registered: nothing is live yet.
LEMMA CreateProjectInv == ASSUME IInv, NEW p \in Projects, CreateProject(p) PROVE IInv'
<1> DEFINE begun == [prov EXCEPT ![p] = [pc |-> "namespace", attempt |-> 1, copy |-> store'[p]]]
<1>1. /\ store' \in [Projects -> Record] /\ store'[p].status = "creating"
      /\ \A q \in Projects : q # p => store'[q] = store[q]
  BY DEF CreateProject, IInv, TypeOK, Record, Status
<1>2. prov' = begun \/ prov' = prov
  BY DEF CreateProject, IInv, TypeOK
<1>3. begun \in [Projects -> [pc : ProvisionPc, attempt : 1..MaxAttempts, copy : Record]]
  BY <1>1, AttemptsAssumption DEF IInv, TypeOK, ProvisionPc
<1>4. begun[p].pc = "namespace" /\ begun[p].copy.status = "creating"
      /\ \A q \in Projects : q # p => begun[q] = prov[q]
  BY <1>1 DEF IInv, TypeOK
<1> HIDE DEF begun
<1>5. TypeOK' BY <1>1, <1>2, <1>3 DEF CreateProject, IInv, TypeOK
<1>6. RetriesLeft' /\ GoroutineBuilt' /\ StoredBuilt'
  BY <1>1, <1>2, <1>4 DEF CreateProject, IInv, RetriesLeft, GoroutineBuilt, StoredBuilt, Live
<1>7. HeldBuilt' /\ BuiltStands' /\ DeletersKnown'
  BY DEF CreateProject, IInv, HeldBuilt, BuiltStands, DeletersKnown
<1> QED BY <1>5, <1>6, <1>7 DEF IInv

ProvType    == [Projects -> [pc : ProvisionPc, attempt : 1..MaxAttempts, copy : Record]]
HandlerType == [Handlers -> [pc : HandlerPc, project : Projects \cup {NoProject}, copy : Record]]

\* What a call for one project does to the environments.
LEMMA CallType ==
    ASSUME TypeOK, NEW p \in Projects, NEW after \in Environment,
           env' \in {env, [env EXCEPT ![p] = after]}
    PROVE  /\ env' \in [Projects -> Environment]
           /\ env'[p] \in {env[p], after}
           /\ \A q \in Projects : q # p => env'[q] = env[q]
<1>1. env \in [Projects -> Environment] BY DEF TypeOK
<1> QED BY <1>1

\* What a change of one goroutine's place does to the goroutines.
LEMMA ProvPcType ==
    ASSUME TypeOK, NEW p \in Projects, NEW pc \in ProvisionPc, prov' = [prov EXCEPT ![p].pc = pc]
    PROVE  /\ prov' \in ProvType
           /\ prov'[p].pc = pc /\ prov'[p].copy = prov[p].copy
           /\ \A q \in Projects : q # p => prov'[q] = prov[q]
<1>1. prov \in ProvType BY DEF TypeOK, ProvType
<1>2. prov' \in ProvType BY <1>1 DEF ProvType
<1> QED BY <1>1, <1>2 DEF ProvType

LEMMA AttemptFailedType ==
    ASSUME TypeOK, NEW p \in Projects, AttemptFailed(p)
    PROVE  /\ prov' \in ProvType
           /\ prov'[p].pc \in {"backoff", "fail"} /\ prov'[p].copy = prov[p].copy
           /\ prov'[p].pc = "backoff" => prov'[p].attempt < MaxAttempts
           /\ \A q \in Projects : q # p => prov'[q] = prov[q]
<1>1. prov'[p].attempt = prov[p].attempt BY DEF AttemptFailed, TypeOK
<1> QED BY <1>1, ProvPcType DEF AttemptFailed, ProvisionPc

-----------------------------------------------------------------------------
(* The provisioning goroutine *)

\* A step of an attempt before its end adds to the environment and keeps the copy.
LEMMA AttemptInv ==
    ASSUME IInv, NEW p \in Projects,
           env' \in [Projects -> Environment], prov' \in ProvType,
           \A q \in Projects : q # p => env'[q] = env[q] /\ prov'[q] = prov[q],
           env[p].namespace => env'[p].namespace,
           env[p].vcluster # "absent" => env'[p].vcluster # "absent",
           env[p].complete => env'[p].complete,
           prov'[p].copy = prov[p].copy,
           prov'[p].pc \notin {"publish", "reread", "activate"},
           prov'[p].pc = "backoff" => prov'[p].attempt < MaxAttempts,
           UNCHANGED <<store, handlers, fresh, stale, overlapped, cutShort, built, deleteRequested>>
    PROVE  IInv'
<1>1. TypeOK' BY DEF IInv, TypeOK, ProvType
<1>2. StoredBuilt' /\ HeldBuilt' /\ DeletersKnown' BY DEF IInv, StoredBuilt, HeldBuilt, DeletersKnown
<1>3. GoroutineBuilt' /\ RetriesLeft' BY DEF IInv, GoroutineBuilt, RetriesLeft
<1>4. BuiltStands'
  <2> SUFFICES ASSUME NEW q \in Projects, built[q], ~deleteRequested[q]
               PROVE  env'[q].namespace /\ env'[q].vcluster # "absent" /\ env'[q].complete
    BY DEF BuiltStands
  <2>1. env[q].namespace /\ env[q].vcluster # "absent" /\ env[q].complete BY DEF IInv, BuiltStands
  <2> QED BY <2>1
<1> QED BY <1>1, <1>2, <1>3, <1>4 DEF IInv

LEMMA ProvisionNamespaceInv == ASSUME IInv, NEW p \in Projects, ProvisionNamespace(p) PROVE IInv'
<1> DEFINE after == [env[p] EXCEPT !.namespace = TRUE]
<1>1. TypeOK /\ env[p] \in Environment BY DEF IInv, TypeOK
<1>2. after \in Environment /\ after.namespace
      /\ after.vcluster = env[p].vcluster /\ after.complete = env[p].complete
  BY <1>1 DEF Environment
<1>3. env' \in {env, [env EXCEPT ![p] = after]} BY DEF ProvisionNamespace, CallFailed
<1> HIDE DEF after
<1>4. /\ env' \in [Projects -> Environment] /\ env'[p] \in {env[p], after}
      /\ \A q \in Projects : q # p => env'[q] = env[q]
  BY <1>1, <1>2, <1>3, CallType
<1>5. /\ prov' \in ProvType /\ prov'[p].copy = prov[p].copy
      /\ prov'[p].pc \in {"vcluster", "backoff", "fail"}
      /\ prov'[p].pc = "backoff" => prov'[p].attempt < MaxAttempts
      /\ \A q \in Projects : q # p => prov'[q] = prov[q]
  <2>1. CASE prov' = [prov EXCEPT ![p].pc = "vcluster"]
    BY <1>1, <2>1, ProvPcType DEF ProvisionPc
  <2>2. CASE AttemptFailed(p) BY <1>1, <2>2, AttemptFailedType
  <2> QED BY <2>1, <2>2 DEF ProvisionNamespace
<1> QED BY <1>2, <1>4, <1>5, AttemptInv DEF ProvisionNamespace, history

LEMMA ProvisionVClusterInv == ASSUME IInv, NEW p \in Projects, ProvisionVCluster(p) PROVE IInv'
<1> DEFINE after == [env[p] EXCEPT !.vcluster = "running"]
<1>1. TypeOK /\ env[p] \in Environment BY DEF IInv, TypeOK
<1>2. after \in Environment /\ after.vcluster # "absent"
      /\ after.namespace = env[p].namespace /\ after.complete = env[p].complete
  BY <1>1 DEF Environment
<1>3. env' \in {env, [env EXCEPT ![p] = after]} BY DEF ProvisionVCluster, CallFailed
<1> HIDE DEF after
<1>4. /\ env' \in [Projects -> Environment] /\ env'[p] \in {env[p], after}
      /\ \A q \in Projects : q # p => env'[q] = env[q]
  BY <1>1, <1>2, <1>3, CallType
<1>5. /\ prov' \in ProvType /\ prov'[p].copy = prov[p].copy
      /\ prov'[p].pc \in {"finish", "backoff", "fail"}
      /\ prov'[p].pc = "backoff" => prov'[p].attempt < MaxAttempts
      /\ \A q \in Projects : q # p => prov'[q] = prov[q]
  <2>1. CASE prov' = [prov EXCEPT ![p].pc = "finish"]
    BY <1>1, <2>1, ProvPcType DEF ProvisionPc
  <2>2. CASE AttemptFailed(p) BY <1>1, <2>2, AttemptFailedType
  <2> QED BY <2>1, <2>2 DEF ProvisionVCluster
<1> QED BY <1>2, <1>4, <1>5, AttemptInv DEF ProvisionVCluster, history

\* The attempt that succeeds: from here on the environment counts as provisioned.
LEMMA ProvisionFinishInv == ASSUME IInv, NEW p \in Projects, ProvisionFinish(p) PROVE IInv'
<1> DEFINE after == [env[p] EXCEPT !.complete = TRUE]
           copy  == Adding(prov[p].copy, {"domain"})
<1>1. TypeOK /\ env[p] \in Environment /\ prov[p].copy \in Record /\ prov[p].pc = "finish"
  BY DEF IInv, TypeOK, ProvisionFinish
<1>2. after \in Environment /\ after.complete
      /\ after.namespace = env[p].namespace /\ after.vcluster = env[p].vcluster
  BY <1>1 DEF Environment
<1>3. copy \in Record /\ copy.status = prov[p].copy.status BY <1>1 DEF Adding, Record, Fact
<1>4. CASE AttemptFailed(p) /\ UNCHANGED built
  <2>1. env' \in {env, [env EXCEPT ![p] = after]} BY <1>4, <1>1 DEF ProvisionFinish, CallFailed, AttemptFailed
  <2> HIDE DEF after
  <2>2. /\ env' \in [Projects -> Environment] /\ env'[p] \in {env[p], after}
        /\ \A q \in Projects : q # p => env'[q] = env[q]
    BY <1>1, <1>2, <2>1, CallType
  <2>3. /\ prov' \in ProvType /\ prov'[p].copy = prov[p].copy
        /\ prov'[p].pc \in {"backoff", "fail"}
        /\ prov'[p].pc = "backoff" => prov'[p].attempt < MaxAttempts
        /\ \A q \in Projects : q # p => prov'[q] = prov[q]
    BY <1>1, <1>4, AttemptFailedType
  <2> QED BY <1>2, <1>4, <2>2, <2>3, AttemptInv DEF ProvisionFinish
<1>5. CASE /\ env[p].namespace /\ env[p].vcluster = "running"
           /\ env' = [env EXCEPT ![p] = after]
           /\ built' = [built EXCEPT ![p] = TRUE]
           /\ \/ prov' = [prov EXCEPT ![p] = [@ EXCEPT !.pc = "publish", !.copy = Adding(prov[p].copy, {"domain"})]]
              \/ prov' = [prov EXCEPT ![p].pc = "reread"]
  <2> HIDE DEF after, copy
  <2>1. /\ env' \in [Projects -> Environment] /\ env'[p] = after
        /\ \A q \in Projects : q # p => env'[q] = env[q]
    BY <1>1, <1>2, <1>5 DEF TypeOK
  <2>2. /\ prov' \in ProvType
        /\ prov'[p].copy.status = prov[p].copy.status /\ prov'[p].pc # "backoff"
        /\ \A q \in Projects : q # p => prov'[q] = prov[q]
    <3>1. CASE prov' = [prov EXCEPT ![p].pc = "reread"]
      BY <1>1, <3>1, ProvPcType DEF ProvisionPc
    <3>2. CASE prov' = [prov EXCEPT ![p] = [@ EXCEPT !.pc = "publish", !.copy = Adding(prov[p].copy, {"domain"})]]
      BY <1>1, <1>3, <3>2 DEF copy, TypeOK, ProvType, ProvisionPc
    <3> QED BY <1>5, <3>1, <3>2
  <2>3. built' \in [Projects -> BOOLEAN] /\ built'[p] /\ \A q \in Projects : q # p => built'[q] = built[q]
    BY <1>1, <1>5 DEF TypeOK
  <2>4. UNCHANGED <<store, handlers, fresh, stale, overlapped, cutShort, deleteRequested>> BY DEF ProvisionFinish
  <2>5. TypeOK' BY <2>1, <2>2, <2>3, <2>4 DEF IInv, TypeOK, ProvType
  <2>6. StoredBuilt' /\ DeletersKnown' BY <2>3, <2>4 DEF IInv, StoredBuilt, DeletersKnown
  <2>7. HeldBuilt'
    <3> SUFFICES ASSUME NEW h \in Handlers, handlers[h].pc # "idle", handlers[h].copy.status \in Live
                 PROVE  built'[handlers[h].project]
      BY <2>4 DEF HeldBuilt
    <3>1. built[handlers[h].project] /\ handlers[h].project \in Projects
      BY <1>1 DEF IInv, HeldBuilt, TypeOK
    <3> QED BY <3>1, <2>3
  <2>8. GoroutineBuilt' /\ RetriesLeft' BY <2>2, <2>3 DEF IInv, GoroutineBuilt, RetriesLeft
  <2>9. BuiltStands' BY <1>2, <1>5, <2>1, <2>3, <2>4 DEF IInv, BuiltStands
  <2> QED BY <2>5, <2>6, <2>7, <2>8, <2>9 DEF IInv
<1> QED BY <1>4, <1>5 DEF ProvisionFinish

\* A step after the attempts, or between two: the record and the goroutine change,
\* and whatever either of them says, it says of a provisioned environment if live.
LEMMA GoroutineInv ==
    ASSUME IInv, NEW p \in Projects,
           store' \in [Projects -> Record], prov' \in ProvType,
           \A q \in Projects : q # p => store'[q] = store[q] /\ prov'[q] = prov[q],
           store'[p].status \in Live => built[p],
           prov'[p].pc \in {"publish", "reread", "activate"} \/ prov'[p].copy.status \in Live => built[p],
           prov'[p].pc # "backoff",
           fresh' \subseteq Projects \cup Handlers, stale' \in [Projects -> BOOLEAN],
           UNCHANGED <<env, handlers, overlapped, cutShort, built, deleteRequested>>
    PROVE  IInv'
<1>1. TypeOK' BY DEF IInv, TypeOK, ProvType
<1>2. StoredBuilt' BY DEF IInv, StoredBuilt
<1>3. GoroutineBuilt' /\ RetriesLeft' BY DEF IInv, GoroutineBuilt, RetriesLeft
<1>4. HeldBuilt' /\ BuiltStands' /\ DeletersKnown' BY DEF IInv, HeldBuilt, BuiltStands, DeletersKnown
<1> QED BY <1>1, <1>2, <1>3, <1>4 DEF IInv

LEMMA BackoffInv == ASSUME IInv, NEW p \in Projects, Backoff(p) PROVE IInv'
<1>1. TypeOK /\ prov[p].pc = "backoff" /\ prov[p].attempt + 1 \in 1..MaxAttempts
  BY AttemptsAssumption DEF IInv, TypeOK, RetriesLeft, Backoff
<1>2. /\ prov' \in ProvType /\ prov'[p].copy = prov[p].copy
      /\ prov'[p].pc \in {"namespace", "fail"}
      /\ \A q \in Projects : q # p => prov'[q] = prov[q]
  <2>1. CASE prov' = [prov EXCEPT ![p].pc = "namespace", ![p].attempt = @ + 1]
    BY <1>1, <2>1 DEF TypeOK, ProvType, ProvisionPc
  <2>2. CASE prov' = [prov EXCEPT ![p].pc = "fail"] BY <1>1, <2>2, ProvPcType DEF ProvisionPc
  <2> QED BY <2>1, <2>2 DEF Backoff
<1>3. UNCHANGED <<store, env, handlers, fresh, stale, overlapped, cutShort, built, deleteRequested>>
  BY DEF Backoff, world, history
<1>4. env' \in [Projects -> Environment] /\ \A q \in Projects : env'[q] = env[q] BY <1>1, <1>3 DEF TypeOK
<1> QED BY <1>2, <1>3, <1>4, AttemptInv

\* A write of the goroutine, its answer good or bad.
LEMMA ProvisionWrite ==
    ASSUME TypeOK, NEW p \in Projects, NEW rec \in Record, Saved(p, p, rec) \/ SaveFailed(p, p, rec)
    PROVE  /\ store' \in [Projects -> Record]
           /\ store'[p].status \in {store[p].status, rec.status}
           /\ \A q \in Projects : q # p => store'[q] = store[q]
           /\ fresh' \subseteq Projects \cup Handlers
           /\ stale' \in [Projects -> BOOLEAN]
BY PutType, SaveFailedType DEF Saved

LEMMA PublishDomainInv == ASSUME IInv, NEW p \in Projects, PublishDomain(p) PROVE IInv'
<1>1. /\ TypeOK /\ prov[p].copy \in Record /\ built[p]
  BY DEF IInv, TypeOK, GoroutineBuilt, PublishDomain
<1>2. /\ store' \in [Projects -> Record]
      /\ \A q \in Projects : q # p => store'[q] = store[q]
      /\ fresh' \subseteq Projects \cup Handlers /\ stale' \in [Projects -> BOOLEAN]
  BY <1>1, ProvisionWrite DEF PublishDomain
<1>3. /\ prov' \in ProvType /\ prov'[p].pc = "reread"
      /\ \A q \in Projects : q # p => prov'[q] = prov[q]
  BY <1>1, ProvPcType DEF PublishDomain, ProvisionPc
<1> QED BY <1>1, <1>2, <1>3, GoroutineInv DEF PublishDomain

LEMMA RereadRecordInv == ASSUME IInv, NEW p \in Projects, RereadRecord(p) PROVE IInv'
<1>1. /\ TypeOK /\ prov[p].copy \in Record /\ store[p] \in Record /\ built[p]
  BY DEF IInv, TypeOK, GoroutineBuilt, RereadRecord
<1>2. As("active", store[p]) \in Record /\ As("active", prov[p].copy) \in Record
  BY <1>1 DEF As, Record, Status
<1>3. \E rec \in Record : prov' = [prov EXCEPT ![p] = [prov[p] EXCEPT !.pc = "activate", !.copy = rec]]
  BY <1>2 DEF RereadRecord
<1>4. /\ prov' \in ProvType /\ prov'[p].pc = "activate"
      /\ \A q \in Projects : q # p => prov'[q] = prov[q]
  <2>1. PICK rec \in Record : prov' = [prov EXCEPT ![p] = [prov[p] EXCEPT !.pc = "activate", !.copy = rec]]
    BY <1>3
  <2> DEFINE held == [prov[p] EXCEPT !.pc = "activate", !.copy = rec]
  <2>2. prov[p] \in [pc : ProvisionPc, attempt : 1..MaxAttempts, copy : Record] BY <1>1 DEF TypeOK
  <2>3. held \in [pc : ProvisionPc, attempt : 1..MaxAttempts, copy : Record] /\ held.pc = "activate"
    BY <2>2 DEF ProvisionPc
  <2>4. prov' = [prov EXCEPT ![p] = held] BY <2>1
  <2>5. prov \in ProvType BY <1>1 DEF TypeOK, ProvType
  <2> HIDE DEF held
  <2> QED BY <2>3, <2>4, <2>5 DEF ProvType
<1>5. /\ store' = store /\ stale' = stale /\ fresh' \in {fresh, fresh \cup {p}}
      /\ UNCHANGED <<env, handlers, overlapped, cutShort, built, deleteRequested>>
  BY DEF RereadRecord, world
<1>6. /\ store' \in [Projects -> Record] /\ stale' \in [Projects -> BOOLEAN]
      /\ fresh' \subseteq Projects \cup Handlers
  BY <1>1, <1>5 DEF TypeOK
<1> QED BY <1>1, <1>4, <1>5, <1>6, GoroutineInv

\* The goroutine ends with a write.
LEMMA LastWriteInv ==
    ASSUME IInv, NEW p \in Projects, NEW rec \in Record,
           rec.status \in Live => built[p],
           Saved(p, p, rec) \/ SaveFailed(p, p, rec),
           prov' = [prov EXCEPT ![p] = NoProvisioning],
           UNCHANGED <<env, handlers, overlapped, cutShort, built, deleteRequested>>
    PROVE  IInv'
<1>1. TypeOK /\ (store[p].status \in Live => built[p]) BY DEF IInv, StoredBuilt
<1>2. NoProvisioning \in [pc : ProvisionPc, attempt : 1..MaxAttempts, copy : Record]
  BY AttemptsAssumption DEF NoProvisioning, ProvisionPc, Record, Blank, Status
<1>3. /\ prov' \in ProvType /\ prov'[p] = NoProvisioning
      /\ \A q \in Projects : q # p => prov'[q] = prov[q]
  BY <1>1, <1>2 DEF TypeOK, ProvType
<1>4. prov'[p].pc = "off" /\ prov'[p].copy.status \notin Live BY <1>3 DEF NoProvisioning, Blank, Live
<1> QED BY <1>1, <1>3, <1>4, ProvisionWrite, GoroutineInv

LEMMA ActivateInv == ASSUME IInv, NEW p \in Projects, Activate(p) PROVE IInv'
<1>1. prov[p].copy \in Record /\ built[p] BY DEF IInv, TypeOK, GoroutineBuilt, Activate
<1> QED BY <1>1, LastWriteInv DEF Activate

LEMMA MarkFailedInv == ASSUME IInv, NEW p \in Projects, MarkFailed(p) PROVE IInv'
<1>1. prov[p].copy \in Record BY DEF IInv, TypeOK
<1>2. As("failed", prov[p].copy) \in Record /\ As("failed", prov[p].copy).status = "failed"
  BY <1>1 DEF As, Record, Status
<1> QED BY <1>2, LastWriteInv DEF MarkFailed, Live

-----------------------------------------------------------------------------
(* Handlers *)

Deleters == {"saveDeleting", "deleteVCluster", "deleteNamespace"}

\* A step of one handler: what it stores and what it keeps for later says "live"
\* only of provisioned projects, and it harms an environment only to delete it.
LEMMA HandlerInv ==
    ASSUME IInv, NEW h \in Handlers,
           store' \in [Projects -> Record],
           \A q \in Projects : store'[q].status \in Live => built[q],
           env' \in [Projects -> Environment],
           \A q \in Projects : deleteRequested[q] => deleteRequested'[q],
           \A q \in Projects :
              deleteRequested'[q]
              \/ /\ env'[q].namespace = env[q].namespace \/ env'[q].namespace
                 /\ env[q].vcluster # "absent" => env'[q].vcluster # "absent"
                 /\ env'[q].complete = env[q].complete,
           handlers' \in HandlerType,
           \A g \in Handlers : g # h => handlers'[g] = handlers[g],
           handlers'[h].pc # "idle" =>
              /\ handlers'[h].project \in Projects
              /\ handlers'[h].copy.status \in Live => built[handlers'[h].project]
              /\ handlers'[h].pc \in Deleters => deleteRequested'[handlers'[h].project],
           fresh' \subseteq Projects \cup Handlers, stale' \in [Projects -> BOOLEAN],
           overlapped' \in [Projects -> BOOLEAN], cutShort' \in [Projects -> BOOLEAN],
           deleteRequested' \in [Projects -> BOOLEAN],
           UNCHANGED <<prov, built>>
    PROVE  IInv'
<1>1. TypeOK' BY DEF IInv, TypeOK, HandlerType
<1>2. StoredBuilt' /\ GoroutineBuilt' /\ RetriesLeft'
  BY DEF IInv, StoredBuilt, GoroutineBuilt, RetriesLeft
<1>3. HeldBuilt' BY DEF IInv, HeldBuilt
<1>4. BuiltStands' BY DEF IInv, BuiltStands
<1>5. DeletersKnown'
  <2> SUFFICES ASSUME NEW g \in Handlers, handlers'[g].pc \in Deleters
               PROVE  deleteRequested'[handlers'[g].project]
    BY DEF DeletersKnown, Deleters
  <2>1. CASE g = h BY <2>1 DEF Deleters
  <2>2. CASE g # h
    <3>1. handlers[g].pc \in Deleters /\ handlers'[g].project = handlers[g].project BY <2>2
    <3>2. deleteRequested[handlers[g].project] /\ handlers[g].project \in Projects
      BY <3>1 DEF IInv, TypeOK, DeletersKnown, Deleters
    <3> QED BY <3>1, <3>2
  <2> QED BY <2>1, <2>2
<1> QED BY <1>1, <1>2, <1>3, <1>4, <1>5 DEF IInv

\* A request starts: the record it will write is live only if the one it read is.
LEMMA BeginInv ==
    ASSUME IInv, NEW h \in Handlers, NEW p \in Projects, NEW pc \in HandlerPc, NEW rec \in Record,
           Begin(h, p, pc, rec),
           rec.status \in Live => store[p].status \in Live,
           pc \in Deleters => deleteRequested'[p],
           deleteRequested' \in {deleteRequested, [deleteRequested EXCEPT ![p] = TRUE]}
    PROVE  IInv'
<1>1. TypeOK /\ (store[p].status \in Live => built[p]) BY DEF IInv, StoredBuilt
<1>2. /\ handlers' \in HandlerType
      /\ handlers'[h] = [pc |-> pc, project |-> p, copy |-> rec]
      /\ \A g \in Handlers : g # h => handlers'[g] = handlers[g]
  BY <1>1 DEF Begin, TypeOK, HandlerType
<1>3. overlapped' \in [Projects -> BOOLEAN]
  <2>1. (overlapped[p] \/ Busy(p)) \in BOOLEAN BY <1>1 DEF TypeOK
  <2> QED BY <1>1, <2>1 DEF Begin, TypeOK
<1>4. /\ deleteRequested' \in [Projects -> BOOLEAN]
      /\ \A q \in Projects : deleteRequested[q] => deleteRequested'[q]
  BY <1>1 DEF TypeOK
<1>5. /\ fresh' \subseteq Projects \cup Handlers /\ cutShort' \in [Projects -> BOOLEAN]
      /\ UNCHANGED <<store, env, prov, stale, built>>
  BY <1>1 DEF Begin, TypeOK
<1>6. /\ store' \in [Projects -> Record] /\ env' \in [Projects -> Environment]
      /\ stale' \in [Projects -> BOOLEAN]
      /\ \A q \in Projects : store'[q].status \in Live => built[q]
  BY <1>1, <1>5 DEF TypeOK, IInv, StoredBuilt
<1> QED BY <1>1, <1>2, <1>3, <1>4, <1>5, <1>6, HandlerInv

\* Every request of the service keeps the invariant.
LEMMA RequestInv == ASSUME IInv, NEW h \in Handlers, NEW p \in Projects, Request(h, p) PROVE IInv'
<1>1. store[p] \in Record BY DEF IInv, TypeOK
<1>2. \A status \in Status : As(status, store[p]) \in Record /\ As(status, store[p]).status = status
  BY <1>1 DEF As, Record
<1>3. \A facts \in SUBSET Fact : /\ Adding(store[p], facts) \in Record
                                 /\ Adding(store[p], facts).status = store[p].status
  BY <1>1 DEF Adding, Record
<1>4. CASE BeginDelete(h, p)
  <2>1. deleteRequested' = [deleteRequested EXCEPT ![p] = TRUE] /\ deleteRequested'[p]
    BY <1>4 DEF BeginDelete, IInv, TypeOK
  <2>2. As("deleting", store[p]) \in Record /\ As("deleting", store[p]).status \notin Live
    BY <1>2 DEF Status, Live
  <2> QED BY <1>4, <2>1, <2>2, BeginInv DEF BeginDelete, HandlerPc
<1>5. CASE BeginSuspend(h, p) \/ BeginAutoSuspend(h, p)
  BY <1>2, <1>5, BeginInv DEF BeginSuspend, BeginAutoSuspend, Kept, Status, Live, HandlerPc, Deleters
<1>6. CASE BeginResume(h, p)
  BY <1>2, <1>6, BeginInv DEF BeginResume, Kept, Status, Live, HandlerPc, Deleters
<1>7. CASE BeginSettings(h, p) \/ BeginQuestions(h, p)
  BY <1>3, <1>7, BeginInv DEF BeginSettings, BeginQuestions, Kept, Fact, HandlerPc, Deleters
<1>8. CASE BeginBootstrap(h, p)
  <2>1. PICK url \in {{}, {"url"}} :
           Begin(h, p, "save", Adding(store[p], {"settings"} \cup url)) /\ Kept
    BY <1>8 DEF BeginBootstrap
  <2>2. {"settings"} \cup url \in SUBSET Fact BY DEF Fact
  <2> QED BY <1>3, <2>1, <2>2, BeginInv DEF Kept, HandlerPc, Deleters
<1>9. CASE BeginRuntimeStatus(h, p)
  BY <1>3, <1>9, BeginInv DEF BeginRuntimeStatus, Kept, Fact, HandlerPc, Deleters
<1>10. CASE BeginClearSchedule(h, p)
  BY <1>1, <1>10, BeginInv DEF BeginClearSchedule, Kept, HandlerPc, Deleters
<1> QED BY <1>4, <1>5, <1>6, <1>7, <1>8, <1>9, <1>10 DEF Request

\* A handler that is done holds nothing.
LEMMA DoneType ==
    ASSUME TypeOK, NEW h \in Handlers, Done(h)
    PROVE  /\ handlers' \in HandlerType /\ handlers'[h].pc = "idle"
           /\ \A g \in Handlers : g # h => handlers'[g] = handlers[g]
<1>1. IdleHandler \in [pc : HandlerPc, project : Projects \cup {NoProject}, copy : Record]
  BY DEF IdleHandler, HandlerPc, Record, Blank, Status
<1> QED BY <1>1 DEF Done, TypeOK, HandlerType, IdleHandler

LEMMA GotoType ==
    ASSUME TypeOK, NEW h \in Handlers, NEW pc \in HandlerPc, Goto(h, pc)
    PROVE  /\ handlers' \in HandlerType /\ handlers'[h].pc = pc
           /\ handlers'[h].project = handlers[h].project /\ handlers'[h].copy = handlers[h].copy
           /\ \A g \in Handlers : g # h => handlers'[g] = handlers[g]
<1>1. handlers \in HandlerType BY DEF TypeOK, HandlerType
<1> QED BY <1>1 DEF Goto, HandlerType

\* What the invariant says of a handler at work.
LEMMA HandlerFacts ==
    ASSUME IInv, NEW h \in Handlers, handlers[h].pc # "idle"
    PROVE  /\ Project(h) \in Projects /\ handlers[h].copy \in Record
           /\ handlers[h].copy.status \in Live => built[Project(h)]
           /\ handlers[h].pc \in Deleters => deleteRequested[Project(h)]
BY DEF IInv, TypeOK, HeldBuilt, DeletersKnown, Project, Deleters

\* A write of a handler, its answer good or bad.
LEMMA HandlerWriteInv ==
    ASSUME IInv, NEW h \in Handlers, handlers[h].pc # "idle",
           \/ Saved(h, Project(h), handlers[h].copy)
           \/ SaveFailed(h, Project(h), handlers[h].copy),
           \/ Done(h)
           \/ \E pc \in HandlerPc : Goto(h, pc) /\ (pc \in Deleters => handlers[h].pc \in Deleters),
           UNCHANGED <<env, prov>>, Recorded
    PROVE  IInv'
<1> DEFINE p == Project(h)  rec == handlers[h].copy
<1>1. /\ TypeOK /\ p \in Projects /\ rec \in Record
      /\ rec.status \in Live => built[p]
      /\ handlers[h].pc \in Deleters => deleteRequested[p]
  BY HandlerFacts DEF IInv
<1>2. /\ store' \in [Projects -> Record]
      /\ store'[p].status \in {store[p].status, rec.status}
      /\ \A q \in Projects : q # p => store'[q] = store[q]
      /\ fresh' \subseteq Projects \cup Handlers /\ stale' \in [Projects -> BOOLEAN]
  BY <1>1, PutType, SaveFailedType DEF Saved
<1>3. \A q \in Projects : store'[q].status \in Live => built[q]
  BY <1>1, <1>2 DEF IInv, StoredBuilt
<1>4. /\ handlers' \in HandlerType
      /\ \A g \in Handlers : g # h => handlers'[g] = handlers[g]
      /\ handlers'[h].pc # "idle" =>
            /\ handlers'[h].project = p /\ handlers'[h].copy = rec
            /\ handlers'[h].pc \in Deleters => handlers[h].pc \in Deleters
  BY <1>1, DoneType, GotoType DEF Project
<1>5. /\ env' \in [Projects -> Environment] /\ env' = env
      /\ overlapped' \in [Projects -> BOOLEAN] /\ cutShort' \in [Projects -> BOOLEAN]
      /\ deleteRequested' \in [Projects -> BOOLEAN]
      /\ UNCHANGED <<prov, built, deleteRequested>>
  BY <1>1 DEF TypeOK, Recorded
<1> HIDE DEF p, rec
<1> QED BY <1>1, <1>2, <1>3, <1>4, <1>5, HandlerInv

LEMMA SaveInv == ASSUME IInv, NEW h \in Handlers, Save(h) PROVE IInv'
BY HandlerWriteInv DEF Save, At

LEMMA SaveAndGoInv ==
    ASSUME IInv, NEW h \in Handlers, SaveSuspended(h) \/ SaveDeleting(h)
    PROVE  IInv'
<1>1. CASE SaveSuspended(h)
  <2>1. "pause" \in HandlerPc /\ "pause" \notin Deleters BY DEF HandlerPc, Deleters
  <2> QED BY <1>1, <2>1, HandlerWriteInv DEF SaveSuspended, SaveAndGo, At
<1>2. CASE SaveDeleting(h)
  <2>1. "deleteVCluster" \in HandlerPc /\ "saveDeleting" \in Deleters BY DEF HandlerPc, Deleters
  <2> QED BY <1>2, <2>1, HandlerWriteInv DEF SaveDeleting, SaveAndGo, At
<1> QED BY <1>1, <1>2

\* A call of a handler to the cluster: it may take away from the environment only
\* what a requested deletion takes.
LEMMA HandlerCallInv ==
    ASSUME IInv, NEW h \in Handlers, NEW after \in Environment, handlers[h].pc # "idle",
           env' \in {env, [env EXCEPT ![Project(h)] = after]},
           \/ handlers[h].pc \in Deleters
           \/ /\ after.namespace = env[Project(h)].namespace
              /\ env[Project(h)].vcluster # "absent" => after.vcluster # "absent"
              /\ after.complete = env[Project(h)].complete,
           handlers' \in HandlerType,
           \A g \in Handlers : g # h => handlers'[g] = handlers[g],
           handlers'[h].pc # "idle" =>
              /\ handlers'[h].project = Project(h)
              /\ handlers'[h].copy.status \in Live => handlers[h].copy.status \in Live
              /\ handlers'[h].pc \in Deleters => handlers[h].pc \in Deleters,
           cutShort' \in [Projects -> BOOLEAN], Rest
    PROVE  IInv'
<1> DEFINE p == Project(h)
<1>1. /\ TypeOK /\ p \in Projects
      /\ handlers[h].copy.status \in Live => built[p]
      /\ handlers[h].pc \in Deleters => deleteRequested[p]
  BY HandlerFacts DEF IInv
<1>2. /\ env' \in [Projects -> Environment] /\ env'[p] \in {env[p], after}
      /\ \A q \in Projects : q # p => env'[q] = env[q]
  BY <1>1, CallType
<1>3. /\ store' \in [Projects -> Record] /\ fresh' \subseteq Projects \cup Handlers
      /\ stale' \in [Projects -> BOOLEAN] /\ overlapped' \in [Projects -> BOOLEAN]
      /\ deleteRequested' \in [Projects -> BOOLEAN]
      /\ UNCHANGED <<store, prov, built, deleteRequested>>
  BY <1>1 DEF TypeOK, Rest
<1>4. \A q \in Projects : store'[q].status \in Live => built[q] BY <1>3 DEF IInv, StoredBuilt
<1> HIDE DEF p
<1>5. Project(h) = p BY DEF p
<1> QED BY <1>1, <1>2, <1>3, <1>4, <1>5, HandlerInv

LEMMA ObserveInv == ASSUME IInv, NEW h \in Handlers, Observe(h) PROVE IInv'
<1>1. TypeOK /\ handlers[h].pc = "observe" /\ "save" \in HandlerPc /\ "save" \notin Deleters
  BY DEF IInv, Observe, At, HandlerPc, Deleters
<1>2. Project(h) \in Projects BY <1>1, HandlerFacts
<1>3. env' = env /\ env[Project(h)] \in Environment BY <1>1, <1>2 DEF Observe, world, TypeOK
<1>4. cutShort' \in [Projects -> BOOLEAN] /\ Rest
  BY <1>1 DEF Observe, world, history, Rest, TypeOK
<1> QED BY <1>1, <1>3, <1>4, DoneType, GotoType, HandlerCallInv DEF Observe, Project

LEMMA PauseEnvironmentInv == ASSUME IInv, NEW h \in Handlers, PauseEnvironment(h) PROVE IInv'
<1> DEFINE p == Project(h)  after == [env[p] EXCEPT !.vcluster = "paused"]
<1>1. TypeOK /\ handlers[h].pc # "idle" BY DEF IInv, PauseEnvironment, At
<1>2. env[p] \in Environment BY <1>1, HandlerFacts DEF TypeOK
<1>3. /\ after \in Environment /\ after.vcluster # "absent"
      /\ after.namespace = env[p].namespace /\ after.complete = env[p].complete
  BY <1>2 DEF Environment
<1>4. env' \in {env, [env EXCEPT ![p] = after]} BY DEF PauseEnvironment, Called, Failed, Refused, CallFailed
<1>5. cutShort' \in [Projects -> BOOLEAN] /\ Rest
  BY <1>1 DEF PauseEnvironment, Called, Failed, Refused, TypeOK
<1> HIDE DEF after
<1> QED BY <1>1, <1>3, <1>4, <1>5, DoneType, HandlerCallInv DEF PauseEnvironment

LEMMA ResumeEnvironmentInv == ASSUME IInv, NEW h \in Handlers, ResumeEnvironment(h) PROVE IInv'
<1> DEFINE p == Project(h)  after == [env[p] EXCEPT !.vcluster = "running"]
<1>1. /\ TypeOK /\ handlers[h].pc # "idle" /\ "save" \in HandlerPc /\ "save" \notin Deleters
  BY DEF IInv, ResumeEnvironment, At, HandlerPc, Deleters
<1>2. env[p] \in Environment BY <1>1, HandlerFacts DEF TypeOK
<1>3. /\ after \in Environment /\ after.vcluster # "absent"
      /\ after.namespace = env[p].namespace /\ after.complete = env[p].complete
  BY <1>2 DEF Environment
<1>4. env' \in {env, [env EXCEPT ![p] = after]} BY DEF ResumeEnvironment, Called, Failed, Refused, CallFailed
<1>5. Done(h) \/ Goto(h, "save") BY DEF ResumeEnvironment
<1>6. cutShort' \in [Projects -> BOOLEAN] /\ Rest
  BY <1>1 DEF ResumeEnvironment, Called, Failed, Refused, TypeOK
<1>7. /\ handlers' \in HandlerType
      /\ \A g \in Handlers : g # h => handlers'[g] = handlers[g]
      /\ handlers'[h].pc # "idle" =>
            /\ handlers'[h].project = p /\ handlers'[h].copy = handlers[h].copy
            /\ handlers'[h].pc \notin Deleters
  BY <1>1, <1>5, DoneType, GotoType DEF Project
<1> HIDE DEF after
<1> QED BY <1>1, <1>3, <1>4, <1>6, <1>7, HandlerCallInv

LEMMA DeleteVClusterInv == ASSUME IInv, NEW h \in Handlers, DeleteVCluster(h) PROVE IInv'
<1> DEFINE p == Project(h)  part == [env[p] EXCEPT !.vcluster = "absent"]
<1>1. /\ TypeOK /\ handlers[h].pc # "idle" /\ handlers[h].pc \in Deleters
      /\ "deleteNamespace" \in HandlerPc
  BY DEF IInv, DeleteVCluster, At, HandlerPc, Deleters
<1>2. env[p] \in Environment BY <1>1, HandlerFacts DEF TypeOK
<1>3. part \in Environment /\ NoEnvironment \in Environment BY <1>2 DEF Environment, NoEnvironment
<1>4. \/ env' \in {env, [env EXCEPT ![p] = NoEnvironment]}
      \/ env' \in {env, [env EXCEPT ![p] = part]}
  BY DEF DeleteVCluster, Called, Failed, Refused, CallFailed
<1>5. Done(h) \/ Goto(h, "deleteNamespace") BY DEF DeleteVCluster
<1>6. cutShort' \in [Projects -> BOOLEAN] /\ Rest
  BY <1>1 DEF DeleteVCluster, Called, Failed, Refused, TypeOK
<1>7. /\ handlers' \in HandlerType
      /\ \A g \in Handlers : g # h => handlers'[g] = handlers[g]
      /\ handlers'[h].pc # "idle" =>
            handlers'[h].project = p /\ handlers'[h].copy = handlers[h].copy
  BY <1>1, <1>5, DoneType, GotoType DEF Project
<1> HIDE DEF part
<1> QED BY <1>1, <1>3, <1>4, <1>6, <1>7, HandlerCallInv

LEMMA DeleteNamespaceInv == ASSUME IInv, NEW h \in Handlers, DeleteNamespace(h) PROVE IInv'
<1> DEFINE p == Project(h)  deleted == As("deleted", handlers[h].copy)
<1>1. TypeOK /\ handlers[h].pc # "idle" /\ handlers[h].pc \in Deleters
  BY DEF IInv, DeleteNamespace, At, Deleters
<1>2. p \in Projects /\ handlers[h].copy \in Record BY <1>1, HandlerFacts
<1>3. deleted \in Record /\ deleted.status \notin Live BY <1>2 DEF As, Record, Status, Live
<1>4. NoEnvironment \in Environment BY DEF Environment, NoEnvironment
<1>5. env' \in {env, [env EXCEPT ![p] = NoEnvironment]} BY DEF DeleteNamespace, Called, Failed, Refused, CallFailed
<1>6. cutShort' \in [Projects -> BOOLEAN] /\ Rest
  BY <1>1 DEF DeleteNamespace, Called, Failed, Refused, TypeOK
<1>7. \/ Done(h)
      \/ handlers' = [handlers EXCEPT ![h] = [@ EXCEPT !.pc = "save", !.copy = deleted]]
  BY DEF DeleteNamespace
<1> HIDE DEF deleted
<1>8. /\ handlers' \in HandlerType
      /\ \A g \in Handlers : g # h => handlers'[g] = handlers[g]
      /\ handlers'[h].pc # "idle" =>
            handlers'[h].project = p /\ handlers'[h].copy = deleted
  <2>1. CASE Done(h) BY <1>1, <2>1, DoneType
  <2>2. CASE handlers' = [handlers EXCEPT ![h] = [@ EXCEPT !.pc = "save", !.copy = deleted]]
    BY <1>1, <1>3, <2>2 DEF TypeOK, HandlerType, HandlerPc, Project
  <2> QED BY <1>7, <2>1, <2>2
<1> QED BY <1>1, <1>3, <1>4, <1>5, <1>6, <1>8, HandlerCallInv

LEMMA FetchKubeconfigInv == ASSUME IInv, NEW p \in Projects, FetchKubeconfig(p) PROVE IInv'
<1> DEFINE after == [env[p] EXCEPT !.namespace = TRUE]
<1>1. TypeOK /\ env[p] \in Environment BY DEF IInv, TypeOK
<1>2. after \in Environment /\ after.namespace
      /\ after.vcluster = env[p].vcluster /\ after.complete = env[p].complete
  BY <1>1 DEF Environment
<1>3. env' = [env EXCEPT ![p] = after] BY DEF FetchKubeconfig
<1> HIDE DEF after
<1>4. /\ env' \in [Projects -> Environment] /\ env'[p] = after
      /\ \A q \in Projects : q # p => env'[q] = env[q]
  BY <1>1, <1>2, <1>3 DEF TypeOK
<1>5. UNCHANGED <<store, prov, handlers, history>> BY DEF FetchKubeconfig
<1>6. TypeOK' BY <1>1, <1>4, <1>5 DEF TypeOK, history
<1>7. BuiltStands' BY <1>2, <1>4, <1>5 DEF IInv, BuiltStands, history
<1> QED BY <1>5, <1>6, <1>7
        DEF IInv, RetriesLeft, StoredBuilt, HeldBuilt, GoroutineBuilt, DeletersKnown, history

\* A restart forgets the goroutines: with them go the copies they held.
LEMMA CrashInv == ASSUME IInv, Crash PROVE IInv'
<1>1. UNCHANGED <<store, env, fresh, stale, overlapped, cutShort, built, deleteRequested>>
  BY DEF Crash, world, history
<1>2. \A p \in Projects : prov'[p] = NoProvisioning BY DEF Crash
<1>3. \A h \in Handlers : handlers'[h] = IdleHandler BY DEF Crash
<1>4. TypeOK'
  <2>1. prov' \in ProvType
    BY AttemptsAssumption
    DEF Crash, ProvType, NoProvisioning, ProvisionPc, Record, Blank, Status
  <2>2. handlers' \in HandlerType
    BY DEF Crash, HandlerType, IdleHandler, HandlerPc, Record, Blank, Status
  <2> QED BY <1>1, <1>3, <2>1, <2>2 DEF IInv, TypeOK, ProvType, HandlerType, IdleHandler
<1>5. StoredBuilt' /\ BuiltStands' BY <1>1 DEF IInv, StoredBuilt, BuiltStands
<1>6. GoroutineBuilt' /\ RetriesLeft'
  BY <1>2 DEF GoroutineBuilt, RetriesLeft, NoProvisioning, Blank, Live
<1>7. HeldBuilt' /\ DeletersKnown' BY <1>3 DEF HeldBuilt, DeletersKnown, IdleHandler
<1> QED BY <1>4, <1>5, <1>6, <1>7 DEF IInv

-----------------------------------------------------------------------------
(* The theorems *)

LEMMA StepInv == IInv /\ [Next]_vars => IInv'
<1> SUFFICES ASSUME IInv, [Next]_vars PROVE IInv'
  OBVIOUS
<1>1. ASSUME NEW p \in Projects, CreateProject(p) \/ ProvisionStep(p) \/ FetchKubeconfig(p)
      PROVE  IInv'
  BY <1>1, CreateProjectInv, ProvisionNamespaceInv, ProvisionVClusterInv, ProvisionFinishInv,
     BackoffInv, PublishDomainInv, RereadRecordInv, ActivateInv, MarkFailedInv, FetchKubeconfigInv
  DEF ProvisionStep
<1>2. ASSUME NEW h \in Handlers, HandlerStep(h) PROVE IInv'
  BY <1>2, SaveInv, SaveAndGoInv, ObserveInv, PauseEnvironmentInv, ResumeEnvironmentInv,
     DeleteVClusterInv, DeleteNamespaceInv
  DEF HandlerStep
<1>3. CASE UNCHANGED vars
  BY <1>3 DEF vars, IInv, TypeOK, RetriesLeft, StoredBuilt, HeldBuilt, GoroutineBuilt, BuiltStands,
              DeletersKnown
<1> QED BY <1>1, <1>2, <1>3, RequestInv, CrashInv DEF Next

\* TypeOK of every reachable state: the type invariant of the model of
\* project_service.go, with Backoff's attempt counter never past the last delay.
THEOREM TypeCorrect == Spec => []TypeOK
<1>1. IInv => TypeOK BY DEF IInv
<1> QED BY InitInv, StepInv, <1>1, PTL DEF Spec

\* NoHollowProject for every number of projects, handlers and attempts, both
\* stores and all the faults: the record says active or suspended only of an
\* environment that CreateProjectEnvironment finished and no deletion touched.
THEOREM HollowFree == Spec => []NoHollowProject
<1>1. IInv => NoHollowProject BY DEF IInv, StoredBuilt, BuiltStands, NoHollowProject
<1> QED BY InitInv, StepInv, <1>1, PTL DEF Spec

\* provisionProject indexes projectProvisionRetryDelays with attempt - 2: it
\* never starts an attempt that has no delay in the table.
THEOREM DelayExists == Spec => []RetriesLeft
<1>1. IInv => RetriesLeft BY DEF IInv
<1> QED BY InitInv, StepInv, <1>1, PTL DEF Spec

-----------------------------------------------------------------------------
(* What copies, the cluster and records say of each other *)

\* Where a record may go when a copy of it is written.
Follows(from, to) ==
    /\ from.facts \subseteq to.facts
    /\ from.status = to.status \/ <<from.status, to.status>> \in Graph

\* What the goroutine's copy says, and, when nobody else has written, the record.
GoroutineFollows(p) ==
    /\ prov[p].pc \notin {"off", "activate"} => prov[p].copy.status = "creating"
    /\ prov[p].pc = "activate" => prov[p].copy.status = "active"
    /\ prov[p].pc # "off" => store[p].status \notin {"absent", "failed"}
    /\ prov[p].pc # "off" /\ p \in fresh =>
          /\ store[p].facts \subseteq prov[p].copy.facts
          /\ prov[p].pc # "activate" => store[p].status = "creating"
    /\ store[p].status \in {"deleting", "deleted"} => deleteRequested[p]
    /\ store[p].status = "absent" => store[p].facts = {}

\* The same of a handler's copy.
HandlerFollows(h) ==
    LET p == handlers[h].project  copy == handlers[h].copy IN
    IF handlers[h].pc = "idle" THEN p \notin Projects ELSE
    /\ store[p].status # "absent" /\ copy.status # "absent"
    /\ copy.status = "failed" => prov[p].pc = "off"
    /\ copy.status \in {"deleting", "deleted"} => deleteRequested[p]
    /\ handlers[h].pc = "saveDeleting" => copy.status = "deleting"
    /\ h \in fresh => Follows(store[p], copy)
    /\ h \in fresh /\ handlers[h].pc \in {"deleteVCluster", "deleteNamespace"} => store[p].status = "deleting"

CopiesInv ==
    /\ \A p \in Projects : GoroutineFollows(p)
    /\ \A h \in Handlers : HandlerFollows(h)

\* What a status promises of an environment.
Promised(status, e) ==
    /\ status = "active" => e.vcluster = "running"
    /\ status \in Live => e.complete
    /\ status = "deleted" => e.vcluster = "absent"

\* One operation at a time: the goroutine has the record for itself, or one handler has.
GoroutineAlone(p) ==
    /\ prov[p].pc # "off" =>
          store[p].status = "creating" /\ \A h \in Handlers : handlers[h].pc # "idle" => handlers[h].project # p
    /\ prov[p].pc \in {"publish", "reread", "activate"} => Promised("active", env[p])
    /\ Promised(store[p].status, env[p])
HandlerAlone(h) ==
    LET p == handlers[h].project  pc == handlers[h].pc  copy == handlers[h].copy IN
    /\ \A g \in Handlers : handlers[g].pc # "idle" /\ handlers[g].project = p => g = h
    /\ pc \in {"save", "observe"} => Promised(copy.status, env[p])
    /\ pc = "saveSuspended" => store[p].status = "active" /\ copy.status = "suspended"
    /\ pc = "resume" => store[p].status = "suspended" /\ copy.status = "active"
    /\ pc = "pause" => store[p].status = "suspended"
    /\ pc \in {"deleteVCluster", "deleteNamespace"} => store[p].status = "deleting"

AloneInv ==
    /\ \A p \in Projects : ~overlapped[p] => GoroutineAlone(p)
    /\ \A h \in Handlers : handlers[h].pc # "idle" /\ ~overlapped[handlers[h].project] => HandlerAlone(h)

\* A status and an environment that agree.
Matches(status, e) ==
    /\ status \notin {"creating", "deleting"}
    /\ status # "failed" => (status = "active" <=> e.vcluster = "running")
    /\ status = "suspended" <=> e.vcluster = "paused"

Undisturbed(p) == ~overlapped[p] /\ ~cutShort[p]

GoroutineMatches(p) ==
    IF prov[p].pc # "off" THEN env[p].vcluster # "paused"
    ELSE (\A h \in Handlers : handlers[h].project # p) => Matches(store[p].status, env[p])
HandlerMatches(h) ==
    LET p == handlers[h].project  pc == handlers[h].pc  copy == handlers[h].copy IN
    /\ pc \in {"save", "observe"} => Matches(copy.status, env[p])
    /\ pc = "observe" => copy.status = store[p].status
    /\ pc = "saveSuspended" => env[p].vcluster = "running"

MatchInv ==
    /\ \A p \in Projects : Undisturbed(p) => GoroutineMatches(p)
    /\ \A h \in Handlers : handlers[h].pc # "idle" /\ Undisturbed(handlers[h].project) => HandlerMatches(h)

-----------------------------------------------------------------------------
(* What steps do, in terms of the fields that the invariants compare *)

\* Worker w has put rec in the store, or nothing was written.
Wrote(w, p, rec) ==
    /\ store'[p].status = rec.status
    /\ store[p].facts \subseteq rec.facts => store'[p].facts = rec.facts
    /\ stale'[p] = (w \notin fresh)
    /\ fresh' \subseteq fresh
    /\ p # w => p \notin fresh'
    /\ \A h \in Handlers : h # w /\ handlers[h].project = p => h \notin fresh'
NothingWritten == UNCHANGED <<store, fresh, stale>>

\* Nothing happens to other projects, or to other handlers.
Elsewhere(p) ==
    \A q \in Projects : q # p => store'[q] = store[q] /\ env'[q] = env[q] /\ cutShort'[q] = cutShort[q]
Besides(h) == \A g \in Handlers : g # h => handlers'[g] = handlers[g]

LEMMA PutWrites ==
    ASSUME TypeOK, NEW p \in Projects, NEW w, NEW rec \in Record, Put(w, p, rec)
    PROVE  /\ Wrote(w, p, rec)
           /\ \A q \in Projects : q # p => store'[q] = store[q]
<1>1. store[p] \in Record /\ store \in [Projects -> Record] /\ stale \in [Projects -> BOOLEAN]
  BY DEF TypeOK
<1> DEFINE row == Written(p, rec)
<1>2. /\ row \in Record /\ row.status = rec.status
      /\ store[p].facts \subseteq rec.facts => row.facts = rec.facts
  BY <1>1 DEF Written, Adding, Record
<1> HIDE DEF row
<1>3. store' = [store EXCEPT ![p] = row] BY DEF Put, row
<1>4. store'[p] = row /\ \A q \in Projects : q # p => store'[q] = store[q] BY <1>1, <1>3
<1>5. stale'[p] = (w \notin fresh) BY <1>1 DEF Put
<1>6. /\ fresh' \subseteq fresh /\ (p # w => p \notin fresh')
      /\ \A h \in Handlers : h # w /\ handlers[h].project = p => h \notin fresh'
  BY DEF Put, HandlersOf
<1> QED BY <1>2, <1>4, <1>5, <1>6 DEF Wrote

\* Update, its answer good or bad.
LEMMA SaveWrites ==
    ASSUME TypeOK, NEW p \in Projects, NEW w, NEW rec \in Record,
           Saved(w, p, rec) \/ SaveFailed(w, p, rec)
    PROVE  /\ Wrote(w, p, rec) \/ (NothingWritten /\ "store" \in Faults)
           /\ Saved(w, p, rec) => Wrote(w, p, rec)
           /\ \A q \in Projects : q # p => store'[q] = store[q]
<1>1. CASE Put(w, p, rec) BY <1>1, PutWrites
<1>2. CASE UNCHANGED <<store, fresh, stale>> /\ "store" \in Faults /\ ~Put(w, p, rec)
  BY <1>2 DEF NothingWritten, Saved
<1> QED BY <1>1, <1>2 DEF Saved, SaveFailed

-----------------------------------------------------------------------------
(* What handlers do *)

HandlerWrites(h) ==
    LET p == handlers[h].project  pc == handlers[h].pc  copy == handlers[h].copy
        next == IF pc = "saveSuspended" THEN "pause" ELSE "deleteVCluster" IN
    /\ pc \in {"save", "saveSuspended", "saveDeleting"}
    /\ UNCHANGED <<env, cutShort>>
    /\ Wrote(h, p, copy) \/ (NothingWritten /\ "store" \in Faults)
    /\ \/ handlers'[h] = IdleHandler /\ (pc = "save" \/ "store" \in Faults)
       \/ /\ pc # "save" /\ Wrote(h, p, copy)
          /\ handlers'[h].pc = next /\ handlers'[h].project = p /\ handlers'[h].copy = copy

\* A call goes well, and the handler goes on with its copy, ...
HandlerGoesOn(h) ==
    LET p == handlers[h].project  pc == handlers[h].pc  copy == handlers[h].copy  next == handlers'[h] IN
    /\ next.project = p /\ next.copy.facts = copy.facts /\ cutShort' = cutShort
    /\ \/ pc = "observe" /\ next.pc = "save" /\ next.copy.status = copy.status /\ env' = env
       \/ /\ pc = "resume" /\ next.pc = "save" /\ next.copy.status = copy.status
          /\ env'[p].vcluster = "running" /\ env'[p].complete = env[p].complete
       \/ pc = "deleteVCluster" /\ next.pc = "deleteNamespace" /\ next.copy.status = copy.status
       \/ /\ pc = "deleteNamespace" /\ next.pc = "save" /\ next.copy.status = "deleted"
          /\ env'[p] = NoEnvironment
\* ... or the request is answered.
HandlerEnds(h) ==
    LET p == handlers[h].project  pc == handlers[h].pc IN
    /\ handlers'[h] = IdleHandler
    /\ \/ pc = "observe" /\ env' = env /\ cutShort' = cutShort
       \/ /\ pc = "pause" /\ env'[p].vcluster = "paused"
          /\ env'[p].complete = env[p].complete /\ cutShort' = cutShort
       \/ pc \in {"pause", "resume"} /\ env'[p].complete = env[p].complete /\ cutShort'[p]
       \/ pc \in {"deleteVCluster", "deleteNamespace"} /\ cutShort'[p]

HandlerCalls(h) == NothingWritten /\ (HandlerGoesOn(h) \/ HandlerEnds(h))

HandlerMoves(h) ==
    /\ handlers[h].project \in Projects /\ handlers[h].copy \in Record
    /\ Elsewhere(handlers[h].project) /\ Besides(h)
    /\ UNCHANGED <<prov, overlapped, deleteRequested>>
    /\ HandlerWrites(h) \/ HandlerCalls(h)

LEMMA AtWork ==
    ASSUME TypeOK, NEW h \in Handlers, handlers[h].pc # "idle"
    PROVE  /\ handlers[h].project \in Projects /\ handlers[h].project = Project(h)
           /\ handlers[h].copy \in Record /\ env[Project(h)] \in Environment
BY DEF TypeOK, Project

LEMMA DoneGoes == ASSUME TypeOK, NEW h \in Handlers, Done(h) PROVE handlers'[h] = IdleHandler /\ Besides(h)
BY DEF Done, TypeOK, Besides

LEMMA GotoGoes ==
    ASSUME TypeOK, NEW h \in Handlers, NEW pc \in HandlerPc, Goto(h, pc)
    PROVE  /\ handlers'[h].pc = pc /\ handlers'[h].project = handlers[h].project
           /\ handlers'[h].copy = handlers[h].copy /\ Besides(h)
BY GotoType DEF Besides

LEMMA WritesMove ==
    ASSUME TypeOK, NEW h \in Handlers, Save(h) \/ SaveSuspended(h) \/ SaveDeleting(h)
    PROVE  HandlerMoves(h)
<1> DEFINE p == Project(h)  copy == handlers[h].copy  pc == handlers[h].pc
           next == IF pc = "saveSuspended" THEN "pause" ELSE "deleteVCluster"
<1>1. pc \in {"save", "saveSuspended", "saveDeleting"}
  BY DEF Save, SaveSuspended, SaveDeleting, SaveAndGo, At
<1>2. p \in Projects /\ copy \in Record /\ p = handlers[h].project BY <1>1, AtWork
<1>3. Saved(h, p, copy) \/ SaveFailed(h, p, copy)
  BY DEF Save, SaveSuspended, SaveDeleting, SaveAndGo
<1>4. \/ Done(h) /\ (pc = "save" \/ SaveFailed(h, p, copy))
      \/ pc # "save" /\ Saved(h, p, copy) /\ Goto(h, next)
  BY DEF Save, SaveSuspended, SaveDeleting, SaveAndGo, At
<1>5. UNCHANGED <<env, prov, overlapped, cutShort, deleteRequested>>
  BY DEF Save, SaveSuspended, SaveDeleting, SaveAndGo, Recorded
<1>6. next \in HandlerPc BY DEF HandlerPc
<1>7. /\ Wrote(h, p, copy) \/ (NothingWritten /\ "store" \in Faults)
      /\ Saved(h, p, copy) => Wrote(h, p, copy)
      /\ \A q \in Projects : q # p => store'[q] = store[q]
  BY <1>2, <1>3, SaveWrites
<1>8. SaveFailed(h, p, copy) => "store" \in Faults BY DEF SaveFailed
<1> HIDE DEF copy, next
<1>9. /\ Besides(h)
      /\ \/ handlers'[h] = IdleHandler /\ (pc = "save" \/ "store" \in Faults)
         \/ /\ pc # "save" /\ Wrote(h, p, copy)
            /\ handlers'[h].pc = next /\ handlers'[h].project = p /\ handlers'[h].copy = copy
  BY <1>2, <1>4, <1>6, <1>7, <1>8, DoneGoes, GotoGoes DEF copy
<1>10. HandlerWrites(h) BY <1>1, <1>2, <1>5, <1>7, <1>9 DEF HandlerWrites, copy, next
<1>11. Elsewhere(p) BY <1>5, <1>7 DEF Elsewhere
<1> QED BY <1>2, <1>5, <1>9, <1>10, <1>11 DEF HandlerMoves, copy

\* A call leaves the environments of others alone.
LEMMA CallElsewhere ==
    ASSUME TypeOK, NEW p \in Projects, NEW after \in Environment,
           env' \in {env, [env EXCEPT ![p] = after]},
           cutShort' \in {cutShort, [cutShort EXCEPT ![p] = TRUE]}, UNCHANGED store
    PROVE  /\ Elsewhere(p)
           /\ env' = [env EXCEPT ![p] = after] => env'[p] = after
           /\ env'[p] \in {env[p], after}
           /\ cutShort' = [cutShort EXCEPT ![p] = TRUE] => cutShort'[p]
BY CallType DEF TypeOK, Elsewhere

LEMMA ObserveMoves == ASSUME TypeOK, NEW h \in Handlers, Observe(h) PROVE HandlerMoves(h)
<1> DEFINE p == Project(h)
<1>1. handlers[h].pc = "observe" /\ "save" \in HandlerPc BY DEF Observe, At, HandlerPc
<1>2. p \in Projects /\ handlers[h].copy \in Record /\ p = handlers[h].project BY <1>1, AtWork
<1>3. UNCHANGED <<store, env, prov, fresh, stale, overlapped, cutShort, deleteRequested>>
  BY DEF Observe, world, history
<1>4. Elsewhere(p) /\ NothingWritten BY <1>3 DEF Elsewhere, NothingWritten
<1>5. CASE Done(h)
  <2>1. handlers'[h] = IdleHandler /\ Besides(h) BY <1>5, DoneGoes
  <2>2. HandlerEnds(h) BY <1>1, <1>3, <2>1 DEF HandlerEnds
  <2> QED BY <1>2, <1>3, <1>4, <2>1, <2>2 DEF HandlerMoves, HandlerCalls
<1>6. CASE Goto(h, "save")
  <2>1. /\ handlers'[h].pc = "save" /\ handlers'[h].project = handlers[h].project
        /\ handlers'[h].copy = handlers[h].copy /\ Besides(h)
    BY <1>1, <1>6, GotoGoes
  <2>2. HandlerGoesOn(h) BY <1>1, <1>3, <2>1 DEF HandlerGoesOn
  <2> QED BY <1>2, <1>3, <1>4, <2>1, <2>2 DEF HandlerMoves, HandlerCalls
<1> QED BY <1>5, <1>6 DEF Observe

LEMMA PauseMoves == ASSUME TypeOK, NEW h \in Handlers, PauseEnvironment(h) PROVE HandlerMoves(h)
<1> DEFINE p == Project(h)  after == [env[p] EXCEPT !.vcluster = "paused"]
<1>1. handlers[h].pc = "pause" BY DEF PauseEnvironment, At
<1>2. p \in Projects /\ handlers[h].copy \in Record /\ p = handlers[h].project /\ env[p] \in Environment
  BY <1>1, AtWork
<1>3. after \in Environment /\ after.vcluster = "paused" /\ after.complete = env[p].complete
  BY <1>2 DEF Environment
<1>4. UNCHANGED <<store, prov, fresh, stale, overlapped, deleteRequested>> BY DEF PauseEnvironment, Rest
<1>5. handlers'[h] = IdleHandler /\ Besides(h) BY DoneGoes DEF PauseEnvironment
<1>6. /\ env' \in {env, [env EXCEPT ![p] = after]}
      /\ cutShort' \in {cutShort, [cutShort EXCEPT ![p] = TRUE]}
      /\ \/ env' = [env EXCEPT ![p] = after] /\ cutShort' = cutShort
         \/ cutShort' = [cutShort EXCEPT ![p] = TRUE]
  BY DEF PauseEnvironment, Called, Failed, Refused, CallFailed
<1> HIDE DEF after
<1>7. /\ Elsewhere(p) /\ env'[p] \in {env[p], after}
      /\ env' = [env EXCEPT ![p] = after] => env'[p] = after
      /\ cutShort' = [cutShort EXCEPT ![p] = TRUE] => cutShort'[p]
  BY <1>2, <1>3, <1>4, <1>6, CallElsewhere
<1>8. \/ env'[p].vcluster = "paused" /\ env'[p].complete = env[p].complete /\ cutShort' = cutShort
      \/ env'[p].complete = env[p].complete /\ cutShort'[p]
  BY <1>3, <1>6, <1>7
<1>9. HandlerEnds(h) BY <1>1, <1>2, <1>5, <1>8 DEF HandlerEnds
<1> QED BY <1>2, <1>4, <1>5, <1>7, <1>9 DEF HandlerMoves, HandlerCalls, NothingWritten

LEMMA ResumeMoves == ASSUME TypeOK, NEW h \in Handlers, ResumeEnvironment(h) PROVE HandlerMoves(h)
<1> DEFINE p == Project(h)  after == [env[p] EXCEPT !.vcluster = "running"]
<1>1. handlers[h].pc = "resume" /\ "save" \in HandlerPc BY DEF ResumeEnvironment, At, HandlerPc
<1>2. p \in Projects /\ handlers[h].copy \in Record /\ p = handlers[h].project /\ env[p] \in Environment
  BY <1>1, AtWork
<1>3. after \in Environment /\ after.vcluster = "running" /\ after.complete = env[p].complete
  BY <1>2 DEF Environment
<1>4. UNCHANGED <<store, prov, fresh, stale, overlapped, deleteRequested>> BY DEF ResumeEnvironment, Rest
<1>5. /\ env' \in {env, [env EXCEPT ![p] = after]}
      /\ cutShort' \in {cutShort, [cutShort EXCEPT ![p] = TRUE]}
      /\ \/ env' = [env EXCEPT ![p] = after] /\ cutShort' = cutShort /\ Goto(h, "save")
         \/ cutShort' = [cutShort EXCEPT ![p] = TRUE] /\ Done(h)
  BY DEF ResumeEnvironment, Called, Failed, Refused, CallFailed
<1> HIDE DEF after
<1>6. /\ Elsewhere(p) /\ env'[p] \in {env[p], after}
      /\ env' = [env EXCEPT ![p] = after] => env'[p] = after
      /\ cutShort' = [cutShort EXCEPT ![p] = TRUE] => cutShort'[p]
  BY <1>2, <1>3, <1>4, <1>5, CallElsewhere
<1>7. CASE env' = [env EXCEPT ![p] = after] /\ cutShort' = cutShort /\ Goto(h, "save")
  <2>1. /\ handlers'[h].pc = "save" /\ handlers'[h].project = handlers[h].project
        /\ handlers'[h].copy = handlers[h].copy /\ Besides(h)
    BY <1>1, <1>7, GotoGoes
  <2>2. HandlerGoesOn(h) BY <1>1, <1>2, <1>3, <1>6, <1>7, <2>1 DEF HandlerGoesOn
  <2> QED BY <1>2, <1>4, <1>6, <2>1, <2>2 DEF HandlerMoves, HandlerCalls, NothingWritten
<1>8. CASE cutShort' = [cutShort EXCEPT ![p] = TRUE] /\ Done(h)
  <2>1. handlers'[h] = IdleHandler /\ Besides(h) BY <1>8, DoneGoes
  <2>2. HandlerEnds(h) BY <1>1, <1>2, <1>3, <1>6, <1>8, <2>1 DEF HandlerEnds
  <2> QED BY <1>2, <1>4, <1>6, <2>1, <2>2 DEF HandlerMoves, HandlerCalls, NothingWritten
<1> QED BY <1>5, <1>7, <1>8

LEMMA DeleteVClusterMoves == ASSUME TypeOK, NEW h \in Handlers, DeleteVCluster(h) PROVE HandlerMoves(h)
<1> DEFINE p == Project(h)  part == [env[p] EXCEPT !.vcluster = "absent"]
<1>1. handlers[h].pc = "deleteVCluster" /\ "deleteNamespace" \in HandlerPc BY DEF DeleteVCluster, At, HandlerPc
<1>2. p \in Projects /\ handlers[h].copy \in Record /\ p = handlers[h].project /\ env[p] \in Environment
  BY <1>1, AtWork
<1>3. part \in Environment /\ NoEnvironment \in Environment BY <1>2 DEF Environment, NoEnvironment
<1>4. UNCHANGED <<store, prov, fresh, stale, overlapped, deleteRequested>> BY DEF DeleteVCluster, Rest
<1>5. /\ \/ env' \in {env, [env EXCEPT ![p] = NoEnvironment]}
         \/ env' \in {env, [env EXCEPT ![p] = part]}
      /\ cutShort' \in {cutShort, [cutShort EXCEPT ![p] = TRUE]}
      /\ \/ cutShort' = cutShort /\ Goto(h, "deleteNamespace")
         \/ cutShort' = [cutShort EXCEPT ![p] = TRUE] /\ Done(h)
  BY DEF DeleteVCluster, Called, Failed, CallFailed
<1> HIDE DEF part
<1>6. /\ Elsewhere(p)
      /\ cutShort' = [cutShort EXCEPT ![p] = TRUE] => cutShort'[p]
  BY <1>2, <1>3, <1>4, <1>5, CallElsewhere
<1>7. CASE cutShort' = cutShort /\ Goto(h, "deleteNamespace")
  <2>1. /\ handlers'[h].pc = "deleteNamespace" /\ handlers'[h].project = handlers[h].project
        /\ handlers'[h].copy = handlers[h].copy /\ Besides(h)
    BY <1>1, <1>7, GotoGoes
  <2>2. HandlerGoesOn(h) BY <1>1, <1>7, <2>1 DEF HandlerGoesOn
  <2> QED BY <1>2, <1>4, <1>6, <2>1, <2>2 DEF HandlerMoves, HandlerCalls, NothingWritten
<1>8. CASE cutShort' = [cutShort EXCEPT ![p] = TRUE] /\ Done(h)
  <2>1. handlers'[h] = IdleHandler /\ Besides(h) BY <1>8, DoneGoes
  <2>2. HandlerEnds(h) BY <1>1, <1>2, <1>6, <1>8, <2>1 DEF HandlerEnds
  <2> QED BY <1>2, <1>4, <1>6, <2>1, <2>2 DEF HandlerMoves, HandlerCalls, NothingWritten
<1> QED BY <1>5, <1>7, <1>8

LEMMA DeleteNamespaceMoves == ASSUME TypeOK, NEW h \in Handlers, DeleteNamespace(h) PROVE HandlerMoves(h)
<1> DEFINE p == Project(h)  deleted == As("deleted", handlers[h].copy)
           next == [handlers[h] EXCEPT !.pc = "save", !.copy = deleted]
<1>1. handlers[h].pc = "deleteNamespace" BY DEF DeleteNamespace, At
<1>2. p \in Projects /\ handlers[h].copy \in Record /\ p = handlers[h].project /\ env[p] \in Environment
  BY <1>1, AtWork
<1>3. deleted.status = "deleted" /\ deleted.facts = handlers[h].copy.facts /\ NoEnvironment \in Environment
  BY <1>2 DEF As, Record, Environment, NoEnvironment
<1> HIDE DEF deleted
<1>4. next.pc = "save" /\ next.copy = deleted /\ next.project = handlers[h].project BY DEF TypeOK
<1>5. UNCHANGED <<store, prov, fresh, stale, overlapped, deleteRequested>> BY DEF DeleteNamespace, Rest
<1>6. /\ env' \in {env, [env EXCEPT ![p] = NoEnvironment]}
      /\ cutShort' \in {cutShort, [cutShort EXCEPT ![p] = TRUE]}
      /\ \/ env' = [env EXCEPT ![p] = NoEnvironment] /\ cutShort' = cutShort /\ handlers' = [handlers EXCEPT ![h] = next]
         \/ cutShort' = [cutShort EXCEPT ![p] = TRUE] /\ Done(h)
  BY DEF DeleteNamespace, Called, Failed, CallFailed, deleted
<1> HIDE DEF next
<1>7. /\ Elsewhere(p)
      /\ env' = [env EXCEPT ![p] = NoEnvironment] => env'[p] = NoEnvironment
      /\ cutShort' = [cutShort EXCEPT ![p] = TRUE] => cutShort'[p]
  BY <1>2, <1>3, <1>5, <1>6, CallElsewhere
<1>8. CASE env' = [env EXCEPT ![p] = NoEnvironment] /\ cutShort' = cutShort /\ handlers' = [handlers EXCEPT ![h] = next]
  <2>1. handlers'[h] = next /\ Besides(h) BY <1>8 DEF TypeOK, Besides
  <2>2. HandlerGoesOn(h) BY <1>1, <1>2, <1>3, <1>4, <1>7, <1>8, <2>1 DEF HandlerGoesOn
  <2> QED BY <1>2, <1>5, <1>7, <2>1, <2>2 DEF HandlerMoves, HandlerCalls, NothingWritten
<1>9. CASE cutShort' = [cutShort EXCEPT ![p] = TRUE] /\ Done(h)
  <2>1. handlers'[h] = IdleHandler /\ Besides(h) BY <1>9, DoneGoes
  <2>2. HandlerEnds(h) BY <1>1, <1>2, <1>7, <1>9, <2>1 DEF HandlerEnds
  <2> QED BY <1>2, <1>5, <1>7, <2>1, <2>2 DEF HandlerMoves, HandlerCalls, NothingWritten
<1> QED BY <1>6, <1>8, <1>9

LEMMA StepMoves == ASSUME TypeOK, NEW h \in Handlers, HandlerStep(h) PROVE HandlerMoves(h)
BY WritesMove, ObserveMoves, PauseMoves, ResumeMoves, DeleteVClusterMoves, DeleteNamespaceMoves DEF HandlerStep

-----------------------------------------------------------------------------
(* What requests do *)

\* What a handler that begins on p is going to do with the record it has read.
Asks(p, next) ==
    /\ next.project = p
    /\ store[p].facts \subseteq next.copy.facts
    /\ \/ next.pc \in {"save", "observe"} /\ next.copy.status = store[p].status
       \/ next.pc = "saveSuspended" /\ store[p].status = "active" /\ next.copy.status = "suspended"
       \/ next.pc = "resume" /\ store[p].status = "suspended" /\ next.copy.status = "active"
       \/ next.pc = "saveDeleting" /\ next.copy.status = "deleting" /\ deleteRequested'[p]

RequestBegins(h, p) ==
    /\ handlers[h].pc = "idle" /\ store[p].status # "absent"
    /\ Asks(p, handlers'[h]) /\ Besides(h)
    /\ fresh' = fresh \cup {h}
    /\ overlapped'[p] = (overlapped[p] \/ Busy(p))
    /\ \A q \in Projects : q # p => overlapped'[q] = overlapped[q]
    /\ \A q \in Projects : deleteRequested[q] => deleteRequested'[q]
    /\ UNCHANGED <<store, env, prov, stale, cutShort>>

LEMMA BeginBegins ==
    ASSUME TypeOK, NEW h \in Handlers, NEW p \in Projects, NEW pc \in HandlerPc, NEW rec \in Record,
           Begin(h, p, pc, rec), Asks(p, [pc |-> pc, project |-> p, copy |-> rec]),
           Kept \/ deleteRequested' = [deleteRequested EXCEPT ![p] = TRUE]
    PROVE  RequestBegins(h, p)
<1> DEFINE next == [pc |-> pc, project |-> p, copy |-> rec]
<1>1. handlers' = [handlers EXCEPT ![h] = next] BY DEF Begin
<1>2. Asks(p, next) OBVIOUS
<1> HIDE DEF next
<1>3. handlers'[h] = next /\ Besides(h) BY <1>1 DEF TypeOK, Besides
<1>4. overlapped'[p] = (overlapped[p] \/ Busy(p)) /\ \A q \in Projects : q # p => overlapped'[q] = overlapped[q]
  BY DEF Begin, TypeOK
<1>5. \A q \in Projects : deleteRequested[q] => deleteRequested'[q] BY DEF TypeOK, Kept
<1>6. Asks(p, handlers'[h]) BY <1>2, <1>3 DEF Asks
<1> QED BY <1>3, <1>4, <1>5, <1>6 DEF RequestBegins, Begin

LEMMA RequestMoves == ASSUME TypeOK, NEW h \in Handlers, NEW p \in Projects, Request(h, p) PROVE RequestBegins(h, p)
<1>1. store[p] \in Record BY DEF TypeOK
<1>2. \A status \in Status : /\ As(status, store[p]) \in Record /\ As(status, store[p]).status = status
                             /\ As(status, store[p]).facts = store[p].facts
  BY <1>1 DEF As, Record
<1>3. \A facts \in SUBSET Fact : /\ Adding(store[p], facts) \in Record
                                 /\ Adding(store[p], facts).status = store[p].status
                                 /\ store[p].facts \subseteq Adding(store[p], facts).facts
  BY <1>1 DEF Adding, Record
<1>4. CASE BeginDelete(h, p)
  <2>1. deleteRequested' = [deleteRequested EXCEPT ![p] = TRUE] /\ deleteRequested'[p]
    BY <1>4 DEF BeginDelete, TypeOK
  <2>2. "deleting" \in Status /\ "saveDeleting" \in HandlerPc BY DEF Status, HandlerPc
  <2>3. Begin(h, p, "saveDeleting", As("deleting", store[p])) BY <1>4 DEF BeginDelete
  <2>4. Asks(p, [pc |-> "saveDeleting", project |-> p, copy |-> As("deleting", store[p])])
    BY <1>2, <2>1, <2>2 DEF Asks
  <2> QED BY <1>2, <2>1, <2>2, <2>3, <2>4, BeginBegins
<1>5. CASE BeginSuspend(h, p) \/ BeginAutoSuspend(h, p)
  <2>1. store[p].status = "active" /\ Begin(h, p, "saveSuspended", As("suspended", store[p])) /\ Kept
    BY <1>5 DEF BeginSuspend, BeginAutoSuspend
  <2>2. "suspended" \in Status /\ "saveSuspended" \in HandlerPc BY DEF Status, HandlerPc
  <2>3. Asks(p, [pc |-> "saveSuspended", project |-> p, copy |-> As("suspended", store[p])])
    BY <1>2, <2>1, <2>2 DEF Asks
  <2> QED BY <1>2, <2>1, <2>2, <2>3, BeginBegins
<1>6. CASE BeginResume(h, p)
  <2>1. store[p].status = "suspended" /\ Begin(h, p, "resume", As("active", store[p])) /\ Kept
    BY <1>6 DEF BeginResume
  <2>2. "active" \in Status /\ "resume" \in HandlerPc BY DEF Status, HandlerPc
  <2>3. Asks(p, [pc |-> "resume", project |-> p, copy |-> As("active", store[p])])
    BY <1>2, <2>1, <2>2 DEF Asks
  <2> QED BY <1>2, <2>1, <2>2, <2>3, BeginBegins
<1>7. ASSUME NEW pc \in {"save", "observe"}, NEW facts \in SUBSET Fact,
             Begin(h, p, pc, Adding(store[p], facts)) /\ Kept
      PROVE  RequestBegins(h, p)
  <2>1. Asks(p, [pc |-> pc, project |-> p, copy |-> Adding(store[p], facts)]) BY <1>3 DEF Asks
  <2>2. pc \in HandlerPc BY DEF HandlerPc
  <2> QED BY <1>3, <1>7, <2>1, <2>2, BeginBegins
<1>8. CASE BeginSettings(h, p) \/ BeginQuestions(h, p)
  BY <1>7, <1>8 DEF BeginSettings, BeginQuestions, Fact
<1>9. CASE BeginBootstrap(h, p)
  <2>1. PICK url \in {{}, {"url"}} :
           Begin(h, p, "save", Adding(store[p], {"settings"} \cup url)) /\ Kept
    BY <1>9 DEF BeginBootstrap
  <2>2. {"settings"} \cup url \in SUBSET Fact BY DEF Fact
  <2> QED BY <1>7, <2>1, <2>2
<1>10. CASE BeginRuntimeStatus(h, p)
  BY <1>7, <1>10 DEF BeginRuntimeStatus, Fact
<1>11. CASE BeginClearSchedule(h, p)
  <2>1. Asks(p, [pc |-> "save", project |-> p, copy |-> store[p]]) BY DEF Asks
  <2>2. "save" \in HandlerPc BY DEF HandlerPc
  <2> QED BY <1>1, <1>11, <2>1, <2>2, BeginBegins DEF BeginClearSchedule
<1> QED BY <1>4, <1>5, <1>6, <1>8, <1>9, <1>10, <1>11 DEF Request

-----------------------------------------------------------------------------
(* What the goroutine does *)

\* A step of an attempt: it starts the vcluster, or leaves it as it is.
GoroutineTries(p) ==
    LET pc == prov[p].pc  next == prov'[p] IN
    /\ pc \in {"namespace", "vcluster", "finish", "backoff"} /\ NothingWritten
    /\ next.copy.status = prov[p].copy.status /\ prov[p].copy.facts \subseteq next.copy.facts
    /\ env'[p].vcluster \in {env[p].vcluster, "running"}
    /\ \/ next.pc \in {"namespace", "vcluster", "finish", "backoff", "fail"}
       \/ next.pc \in {"publish", "reread"} /\ env'[p].vcluster = "running" /\ env'[p].complete

\* The writes and the read that follow.
GoroutineTells(p) ==
    LET pc == prov[p].pc  copy == prov[p].copy  next == prov'[p] IN
    /\ UNCHANGED env
    /\ \/ /\ pc = "publish" /\ next.pc = "reread" /\ next.copy = copy
          /\ Wrote(p, p, copy) \/ (NothingWritten /\ "store" \in Faults)
       \/ /\ pc = "reread" /\ next.pc = "activate" /\ next.copy.status = "active"
          /\ UNCHANGED <<store, stale>>
          /\ \/ next.copy.facts = store[p].facts /\ fresh' = fresh \cup {p}
             \/ next.copy.facts = copy.facts /\ fresh' = fresh
       \/ /\ pc = "activate" /\ next = NoProvisioning
          /\ Wrote(p, p, copy) \/ (NothingWritten /\ "store" \in Faults)
       \/ /\ pc = "fail" /\ next = NoProvisioning
          /\ Wrote(p, p, As("failed", copy)) \/ (NothingWritten /\ "store" \in Faults)

GoroutineMoves(p) ==
    /\ prov[p].copy \in Record
    /\ Elsewhere(p) /\ \A q \in Projects : q # p => prov'[q] = prov[q]
    /\ UNCHANGED <<handlers, overlapped, cutShort, deleteRequested>>
    /\ GoroutineTries(p) \/ GoroutineTells(p)

\* What a call for p leaves of the environments.
LEMMA CallMakes ==
    ASSUME TypeOK, NEW p \in Projects, NEW after \in Environment,
           env' \in {env, [env EXCEPT ![p] = after]}, UNCHANGED <<store, cutShort>>
    PROVE  /\ Elsewhere(p) /\ env'[p] \in {env[p], after}
           /\ env' = [env EXCEPT ![p] = after] => env'[p] = after
BY CallElsewhere

LEMMA TriesMove ==
    ASSUME TypeOK, NEW p \in Projects,
           ProvisionNamespace(p) \/ ProvisionVCluster(p) \/ ProvisionFinish(p) \/ Backoff(p)
    PROVE  GoroutineMoves(p)
<1>1. prov[p].copy \in Record /\ env[p] \in Environment /\ prov[p] \in [pc : ProvisionPc, attempt : 1..MaxAttempts, copy : Record]
  BY DEF TypeOK
<1>2. UNCHANGED <<store, fresh, stale, handlers, overlapped, cutShort, deleteRequested>>
  BY DEF ProvisionNamespace, ProvisionVCluster, ProvisionFinish, Backoff, history, world
<1>3. NothingWritten BY <1>2 DEF NothingWritten
<1>4. CASE ProvisionNamespace(p)
  <2> DEFINE after == [env[p] EXCEPT !.namespace = TRUE]
  <2>1. prov[p].pc = "namespace" /\ env' \in {env, [env EXCEPT ![p] = after]}
    BY <1>4 DEF ProvisionNamespace, CallFailed
  <2>2. after \in Environment /\ after.vcluster = env[p].vcluster BY <1>1 DEF Environment
  <2> HIDE DEF after
  <2>3. Elsewhere(p) /\ env'[p] \in {env[p], after} BY <1>2, <2>1, <2>2, CallMakes
  <2>4. /\ prov'[p].pc \in {"vcluster", "backoff", "fail"} /\ prov'[p].copy = prov[p].copy
        /\ \A q \in Projects : q # p => prov'[q] = prov[q]
    BY <1>4, ProvPcType, AttemptFailedType DEF ProvisionNamespace, ProvisionPc
  <2>5. GoroutineTries(p) BY <1>3, <2>1, <2>2, <2>3, <2>4 DEF GoroutineTries
  <2> QED BY <1>1, <1>2, <2>3, <2>4, <2>5 DEF GoroutineMoves
<1>5. CASE ProvisionVCluster(p)
  <2> DEFINE after == [env[p] EXCEPT !.vcluster = "running"]
  <2>1. prov[p].pc = "vcluster" /\ env' \in {env, [env EXCEPT ![p] = after]}
    BY <1>5 DEF ProvisionVCluster, CallFailed
  <2>2. after \in Environment /\ after.vcluster = "running" BY <1>1 DEF Environment
  <2> HIDE DEF after
  <2>3. Elsewhere(p) /\ env'[p] \in {env[p], after} BY <1>2, <2>1, <2>2, CallMakes
  <2>4. /\ prov'[p].pc \in {"finish", "backoff", "fail"} /\ prov'[p].copy = prov[p].copy
        /\ \A q \in Projects : q # p => prov'[q] = prov[q]
    BY <1>5, ProvPcType, AttemptFailedType DEF ProvisionVCluster, ProvisionPc
  <2>5. GoroutineTries(p) BY <1>3, <2>1, <2>2, <2>3, <2>4 DEF GoroutineTries
  <2> QED BY <1>1, <1>2, <2>3, <2>4, <2>5 DEF GoroutineMoves
<1>6. CASE ProvisionFinish(p)
  <2> DEFINE after == [env[p] EXCEPT !.complete = TRUE]
             copy  == Adding(prov[p].copy, {"domain"})
             next  == [prov[p] EXCEPT !.pc = "publish", !.copy = copy]
  <2>1. prov[p].pc = "finish" /\ env' \in {env, [env EXCEPT ![p] = after]}
    BY <1>6 DEF ProvisionFinish, CallFailed
  <2>2. after \in Environment /\ after.vcluster = env[p].vcluster /\ after.complete BY <1>1 DEF Environment
  <2>3. copy.status = prov[p].copy.status /\ prov[p].copy.facts \subseteq copy.facts
    BY <1>1 DEF Adding, Record
  <2> HIDE DEF copy
  <2>4. next.pc = "publish" /\ next.copy = copy BY <1>1
  <2>5. \/ AttemptFailed(p)
        \/ /\ env[p].vcluster = "running" /\ env' = [env EXCEPT ![p] = after]
           /\ prov' = [prov EXCEPT ![p] = next] \/ prov' = [prov EXCEPT ![p].pc = "reread"]
    BY <1>6 DEF ProvisionFinish, copy
  <2> HIDE DEF after, next
  <2>6. /\ Elsewhere(p) /\ env'[p] \in {env[p], after}
        /\ env' = [env EXCEPT ![p] = after] => env'[p] = after
    BY <1>2, <2>1, <2>2, CallMakes
  <2>7. CASE AttemptFailed(p)
    <3>1. /\ prov'[p].pc \in {"backoff", "fail"} /\ prov'[p].copy = prov[p].copy
          /\ \A q \in Projects : q # p => prov'[q] = prov[q]
      BY <2>7, AttemptFailedType
    <3>2. GoroutineTries(p) BY <1>3, <2>1, <2>2, <2>6, <3>1 DEF GoroutineTries
    <3> QED BY <1>1, <1>2, <2>6, <3>1, <3>2 DEF GoroutineMoves
  <2>8. CASE /\ env[p].vcluster = "running" /\ env' = [env EXCEPT ![p] = after]
             /\ prov' = [prov EXCEPT ![p] = next] \/ prov' = [prov EXCEPT ![p].pc = "reread"]
    <3>1. /\ prov'[p].pc \in {"publish", "reread"} /\ prov'[p].copy \in {prov[p].copy, copy}
          /\ \A q \in Projects : q # p => prov'[q] = prov[q]
      <4>1. CASE prov' = [prov EXCEPT ![p] = next] BY <2>4, <4>1 DEF TypeOK
      <4>2. CASE prov' = [prov EXCEPT ![p].pc = "reread"] BY <4>2, ProvPcType DEF ProvisionPc
      <4> QED BY <2>8, <4>1, <4>2
    <3>2. GoroutineTries(p) BY <1>3, <2>1, <2>2, <2>3, <2>6, <2>8, <3>1 DEF GoroutineTries
    <3> QED BY <1>1, <1>2, <2>6, <3>1, <3>2 DEF GoroutineMoves
  <2> QED BY <2>5, <2>7, <2>8
<1>7. CASE Backoff(p)
  <2>1. prov[p].pc = "backoff" /\ env' = env BY <1>7 DEF Backoff, world
  <2>2. /\ prov'[p].pc \in {"namespace", "fail"} /\ prov'[p].copy = prov[p].copy
        /\ \A q \in Projects : q # p => prov'[q] = prov[q]
    <3>1. CASE prov' = [prov EXCEPT ![p].pc = "namespace", ![p].attempt = @ + 1]
      BY <3>1 DEF TypeOK
    <3>2. CASE prov' = [prov EXCEPT ![p].pc = "fail"] BY <3>2, ProvPcType DEF ProvisionPc
    <3> QED BY <1>7, <3>1, <3>2 DEF Backoff
  <2>3. GoroutineTries(p) BY <1>3, <2>1, <2>2 DEF GoroutineTries
  <2>4. Elsewhere(p) BY <1>2, <2>1 DEF Elsewhere
  <2> QED BY <1>1, <1>2, <2>2, <2>3, <2>4 DEF GoroutineMoves
<1> QED BY <1>4, <1>5, <1>6, <1>7

LEMMA TellsMove ==
    ASSUME TypeOK, NEW p \in Projects,
           PublishDomain(p) \/ RereadRecord(p) \/ Activate(p) \/ MarkFailed(p)
    PROVE  GoroutineMoves(p)
<1>1. prov[p].copy \in Record /\ store[p] \in Record BY DEF TypeOK
<1>2. UNCHANGED <<env, handlers, overlapped, cutShort, deleteRequested>>
  BY DEF PublishDomain, RereadRecord, Activate, MarkFailed, world
<1>3. CASE PublishDomain(p)
  <2>1. /\ Wrote(p, p, prov[p].copy) \/ (NothingWritten /\ "store" \in Faults)
        /\ \A q \in Projects : q # p => store'[q] = store[q]
    BY <1>1, <1>3, SaveWrites DEF PublishDomain
  <2>2. /\ prov[p].pc = "publish" /\ prov'[p].pc = "reread" /\ prov'[p].copy = prov[p].copy
        /\ \A q \in Projects : q # p => prov'[q] = prov[q]
    BY <1>3, ProvPcType DEF PublishDomain, ProvisionPc
  <2>3. GoroutineTells(p) BY <1>2, <2>1, <2>2 DEF GoroutineTells
  <2>4. Elsewhere(p) BY <1>2, <2>1 DEF Elsewhere
  <2> QED BY <1>1, <1>2, <2>2, <2>3, <2>4 DEF GoroutineMoves
<1>4. CASE RereadRecord(p)
  <2>1. prov[p].pc = "reread" /\ UNCHANGED <<store, stale>> BY <1>4 DEF RereadRecord, world
  <2>2. ASSUME NEW rec \in Record, prov' = [prov EXCEPT ![p] = [@ EXCEPT !.pc = "activate", !.copy = As("active", rec)]]
        PROVE  /\ prov'[p].pc = "activate" /\ prov'[p].copy.status = "active" /\ prov'[p].copy.facts = rec.facts
               /\ \A q \in Projects : q # p => prov'[q] = prov[q]
    <3> DEFINE copy == As("active", rec)  next == [prov[p] EXCEPT !.pc = "activate", !.copy = copy]
    <3>1. copy.status = "active" /\ copy.facts = rec.facts BY DEF As, Record
    <3> HIDE DEF copy
    <3>2. next.pc = "activate" /\ next.copy = copy BY DEF TypeOK
    <3>3. prov' = [prov EXCEPT ![p] = next] BY <2>2 DEF copy
    <3> HIDE DEF next
    <3>4. prov'[p] = next /\ \A q \in Projects : q # p => prov'[q] = prov[q] BY <3>3 DEF TypeOK
    <3> QED BY <3>1, <3>2, <3>4
  <2>3. /\ \/ prov'[p].copy.facts = store[p].facts /\ fresh' = fresh \cup {p}
           \/ prov'[p].copy.facts = prov[p].copy.facts /\ fresh' = fresh
        /\ prov'[p].pc = "activate" /\ prov'[p].copy.status = "active"
        /\ \A q \in Projects : q # p => prov'[q] = prov[q]
    BY <1>1, <1>4, <2>2 DEF RereadRecord
  <2>4. GoroutineTells(p) BY <1>2, <2>1, <2>3 DEF GoroutineTells
  <2>5. Elsewhere(p) BY <1>2, <2>1 DEF Elsewhere
  <2> QED BY <1>1, <1>2, <2>3, <2>4, <2>5 DEF GoroutineMoves
<1>5. CASE Activate(p)
  <2>1. /\ Wrote(p, p, prov[p].copy) \/ (NothingWritten /\ "store" \in Faults)
        /\ \A q \in Projects : q # p => store'[q] = store[q]
    BY <1>1, <1>5, SaveWrites DEF Activate
  <2>2. /\ prov[p].pc = "activate" /\ prov'[p] = NoProvisioning
        /\ \A q \in Projects : q # p => prov'[q] = prov[q]
    BY <1>5 DEF Activate, TypeOK
  <2>3. GoroutineTells(p) BY <1>2, <2>1, <2>2 DEF GoroutineTells
  <2>4. Elsewhere(p) BY <1>2, <2>1 DEF Elsewhere
  <2> QED BY <1>1, <1>2, <2>2, <2>3, <2>4 DEF GoroutineMoves
<1>6. CASE MarkFailed(p)
  <2>1. As("failed", prov[p].copy) \in Record BY <1>1 DEF As, Record, Status
  <2>2. /\ Wrote(p, p, As("failed", prov[p].copy)) \/ (NothingWritten /\ "store" \in Faults)
        /\ \A q \in Projects : q # p => store'[q] = store[q]
    BY <1>6, <2>1, SaveWrites DEF MarkFailed
  <2>3. /\ prov[p].pc = "fail" /\ prov'[p] = NoProvisioning
        /\ \A q \in Projects : q # p => prov'[q] = prov[q]
    BY <1>6 DEF MarkFailed, TypeOK
  <2>4. GoroutineTells(p) BY <1>2, <2>2, <2>3 DEF GoroutineTells
  <2>5. Elsewhere(p) BY <1>2, <2>2 DEF Elsewhere
  <2> QED BY <1>1, <1>2, <2>3, <2>4, <2>5 DEF GoroutineMoves
<1> QED BY <1>3, <1>4, <1>5, <1>6

LEMMA ProvisionMoves == ASSUME TypeOK, NEW p \in Projects, ProvisionStep(p) PROVE GoroutineMoves(p)
BY TriesMove, TellsMove DEF ProvisionStep

-----------------------------------------------------------------------------
(* Copies and records *)

\* What happens to p does not concern the copies for other projects.
LEMMA OtherCopies ==
    ASSUME IInv, CopiesInv, NEW p \in Projects, Elsewhere(p),
           \A q \in Projects : q # p => prov'[q] = prov[q],
           \A w \in Projects \cup Handlers : w # p /\ w \in fresh' =>
              w \in fresh \/ (w \in Handlers /\ handlers'[w].project = p),
           \A q \in Projects : deleteRequested[q] => deleteRequested'[q]
    PROVE  /\ \A q \in Projects : q # p => GoroutineFollows(q)'
           /\ \A g \in Handlers : handlers'[g] = handlers[g] /\ handlers[g].project # p => HandlerFollows(g)'
<1>1. ASSUME NEW q \in Projects, q # p PROVE GoroutineFollows(q)'
  <2>1. store'[q] = store[q] /\ prov'[q] = prov[q] BY <1>1 DEF Elsewhere
  <2>2. q \in fresh' => q \in fresh BY <1>1, WorkersAssumption
  <2>3. GoroutineFollows(q) BY DEF CopiesInv
  <2> QED BY <2>1, <2>2, <2>3 DEF GoroutineFollows
<1>2. ASSUME NEW g \in Handlers, handlers'[g] = handlers[g], handlers[g].project # p PROVE HandlerFollows(g)'
  <2>1. HandlerFollows(g) BY DEF CopiesInv
  <2>2. CASE handlers[g].pc = "idle" BY <1>2, <2>1, <2>2 DEF HandlerFollows
  <2>3. CASE handlers[g].pc # "idle"
    <3>1. handlers[g].project \in Projects BY <2>3 DEF IInv, TypeOK
    <3>2. store'[handlers[g].project] = store[handlers[g].project] /\ prov'[handlers[g].project] = prov[handlers[g].project]
      BY <1>2, <3>1 DEF Elsewhere
    <3>3. deleteRequested[handlers[g].project] => deleteRequested'[handlers[g].project] BY <3>1
    <3>4. g \in fresh' => g \in fresh BY <1>2, WorkersAssumption
    <3> QED BY <1>2, <2>1, <2>3, <3>1, <3>2, <3>3, <3>4 DEF HandlerFollows, Follows
  <2> QED BY <2>2, <2>3
<1> QED BY <1>1, <1>2

LEMMA CopiesInit == Init => CopiesInv
BY WorkersAssumption DEF Init, CopiesInv, GoroutineFollows, HandlerFollows, NoProvisioning, IdleHandler, Blank

LEMMA CopiesHandled == ASSUME IInv, CopiesInv, NEW h \in Handlers, HandlerMoves(h) PROVE CopiesInv'
<1> DEFINE pc == handlers[h].pc  copy == handlers[h].copy
<1>0. PICK p \in Projects : p = handlers[h].project BY DEF HandlerMoves
<1>1. h # p /\ NoProject \notin Projects BY WorkersAssumption
<1>2. pc # "idle" BY DEF HandlerMoves, HandlerWrites, HandlerCalls, HandlerGoesOn, HandlerEnds
<1>3. HandlerFollows(h) /\ GoroutineFollows(p) BY <1>0 DEF CopiesInv
<1>4. Elsewhere(p) /\ Besides(h) /\ UNCHANGED <<prov, deleteRequested>> BY <1>0 DEF HandlerMoves
<1>5. \/ NothingWritten
      \/ HandlerWrites(h) /\ Wrote(h, p, copy)
  BY <1>0 DEF HandlerMoves, HandlerWrites, HandlerCalls
<1>6. fresh' \subseteq fresh BY <1>5 DEF NothingWritten, Wrote
<1>7. /\ \A q \in Projects : q # p => GoroutineFollows(q)'
      /\ \A g \in Handlers : handlers'[g] = handlers[g] /\ handlers[g].project # p => HandlerFollows(g)'
  BY <1>0, <1>1, <1>4, <1>6, OtherCopies
<1>8. GoroutineFollows(p)'
  <2>1. CASE NothingWritten BY <1>3, <1>4, <2>1 DEF GoroutineFollows, NothingWritten
  <2>2. CASE Wrote(h, p, copy) BY <1>0, <1>1, <1>2, <1>3, <1>4, <2>2 DEF GoroutineFollows, HandlerFollows, Wrote
  <2> QED BY <1>5, <2>1, <2>2
<1>9. ASSUME NEW g \in Handlers, g # h, handlers[g].project = p PROVE HandlerFollows(g)'
  <2>1. handlers'[g] = handlers[g] BY <1>4, <1>9 DEF Besides
  <2>2. HandlerFollows(g) BY DEF CopiesInv
  <2>3. handlers[g].pc # "idle" BY <1>1, <1>9, <2>2 DEF HandlerFollows
  <2>4. CASE NothingWritten BY <1>4, <2>1, <2>2, <2>4 DEF HandlerFollows, NothingWritten
  <2>5. CASE Wrote(h, p, copy)
    <3>1. g \notin fresh' /\ store'[p].status = copy.status BY <1>9, <2>5 DEF Wrote
    <3>2. copy.status # "absent" BY <1>0, <1>2, <1>3 DEF HandlerFollows
    <3> QED BY <1>4, <1>9, <2>1, <2>2, <2>3, <3>1, <3>2 DEF HandlerFollows
  <2> QED BY <1>5, <2>4, <2>5
<1>10. HandlerFollows(h)'
  <2>1. CASE handlers'[h] = IdleHandler BY <1>1, <2>1 DEF HandlerFollows, IdleHandler
  <2>2. CASE HandlerWrites(h) /\ handlers'[h] # IdleHandler
    <3>1. /\ Wrote(h, p, copy) /\ pc \in {"saveSuspended", "saveDeleting"}
          /\ handlers'[h].pc = (IF pc = "saveSuspended" THEN "pause" ELSE "deleteVCluster")
          /\ handlers'[h].project = p /\ handlers'[h].copy = copy
      BY <1>0, <2>2 DEF HandlerWrites
    <3>2. store'[p].status = copy.status /\ (h \in fresh' => h \in fresh)
          /\ (store[p].facts \subseteq copy.facts => store'[p].facts = copy.facts)
      BY <3>1 DEF Wrote
    <3>3. h \in fresh => store[p].facts \subseteq copy.facts BY <1>0, <1>2, <1>3 DEF HandlerFollows, Follows
    <3> QED BY <1>0, <1>2, <1>3, <1>4, <3>1, <3>2, <3>3 DEF HandlerFollows, Follows
  <2>3. CASE HandlerCalls(h) /\ handlers'[h] # IdleHandler
    <3>1. HandlerGoesOn(h) /\ NothingWritten BY <2>3 DEF HandlerCalls, HandlerEnds
    <3>2. pc = "deleteNamespace" => deleteRequested[p] BY <1>0 DEF IInv, DeletersKnown
    <3>3. <<"deleting", "deleted">> \in Graph BY DEF Graph
    <3> QED BY <1>0, <1>2, <1>3, <1>4, <3>1, <3>2, <3>3 DEF HandlerGoesOn, NothingWritten, HandlerFollows, Follows
  <2> QED BY <2>1, <2>2, <2>3 DEF HandlerMoves
<1>11. \A g \in Handlers : g # h => handlers'[g] = handlers[g] BY <1>4 DEF Besides
<1> QED BY <1>7, <1>8, <1>9, <1>10, <1>11 DEF CopiesInv

LEMMA CopiesRequested ==
    ASSUME IInv, CopiesInv, NEW h \in Handlers, NEW p \in Projects, RequestBegins(h, p)
    PROVE  CopiesInv'
<1>1. store[p].status \in Status BY DEF IInv, TypeOK, Record
<1>2. UNCHANGED <<store, env, prov, stale, cutShort>> /\ fresh' = fresh \cup {h} /\ h \notin Projects
  BY WorkersAssumption DEF RequestBegins
<1>3. Elsewhere(p) /\ Besides(h) /\ (\A q \in Projects : deleteRequested[q] => deleteRequested'[q])
  BY <1>2 DEF Elsewhere, RequestBegins
<1>4. handlers'[h].project = p BY DEF RequestBegins, Asks
<1>5. \A q \in Projects : GoroutineFollows(q)'
  BY <1>2, <1>3 DEF CopiesInv, GoroutineFollows
<1>6. ASSUME NEW g \in Handlers, g # h PROVE HandlerFollows(g)'
  <2>1. handlers'[g] = handlers[g] /\ HandlerFollows(g) /\ (g \in fresh' => g \in fresh)
    BY <1>2, <1>3, <1>6 DEF Besides, CopiesInv
  <2>2. handlers[g].pc # "idle" => handlers[g].project \in Projects BY DEF IInv, TypeOK
  <2> QED BY <1>2, <1>3, <2>1, <2>2 DEF HandlerFollows
<1>7. HandlerFollows(h)'
  <2>1. GoroutineFollows(p) /\ store[p].status # "absent" BY DEF CopiesInv, RequestBegins
  <2>2. Follows(store[p], handlers'[h].copy)
    BY <1>1, <2>1 DEF RequestBegins, Asks, Follows, Graph
  <2>3. deleteRequested[p] => deleteRequested'[p] BY <1>3
  <2>4. handlers'[h].pc # "idle" BY DEF RequestBegins, Asks
  <2> QED BY <1>2, <1>4, <2>1, <2>2, <2>3, <2>4 DEF RequestBegins, Asks, GoroutineFollows, HandlerFollows
<1> QED BY <1>5, <1>6, <1>7 DEF CopiesInv

LEMMA CopiesProvisioned == ASSUME IInv, CopiesInv, NEW p \in Projects, GoroutineMoves(p) PROVE CopiesInv'
<1> DEFINE pc == prov[p].pc  copy == prov[p].copy
<1>1. GoroutineFollows(p) BY DEF CopiesInv
<1>2. Elsewhere(p) /\ (\A q \in Projects : q # p => prov'[q] = prov[q]) /\ UNCHANGED <<handlers, deleteRequested>>
  BY DEF GoroutineMoves
<1>3. pc # "off" BY DEF GoroutineMoves, GoroutineTries, GoroutineTells
<1>4. fresh' \subseteq fresh \cup {p}
  BY DEF GoroutineMoves, GoroutineTries, GoroutineTells, NothingWritten, Wrote
<1>5. /\ \A q \in Projects : q # p => GoroutineFollows(q)'
      /\ \A g \in Handlers : handlers'[g] = handlers[g] /\ handlers[g].project # p => HandlerFollows(g)'
  BY <1>2, <1>4, OtherCopies
<1>6. As("failed", copy).status = "failed" /\ As("failed", copy).facts = copy.facts
  BY DEF GoroutineMoves, As, Record
<1>7. GoroutineFollows(p)'
  <2>1. CASE GoroutineTries(p)
    BY <1>1, <1>2, <2>1 DEF GoroutineTries, GoroutineFollows, NothingWritten
  <2>2. CASE GoroutineTells(p)
    BY <1>1, <1>2, <1>6, <2>2 DEF GoroutineTells, GoroutineFollows, NothingWritten, Wrote, NoProvisioning
  <2> QED BY <2>1, <2>2 DEF GoroutineMoves
<1>8. ASSUME NEW g \in Handlers, handlers[g].project = p PROVE HandlerFollows(g)'
  <2>1. HandlerFollows(g) /\ handlers'[g] = handlers[g] /\ g # p BY <1>2, WorkersAssumption DEF CopiesInv
  <2>2. handlers[g].pc # "idle" BY <1>8, <2>1 DEF HandlerFollows
  <2>3. handlers[g].copy.status # "failed" BY <1>3, <1>8, <2>1, <2>2 DEF HandlerFollows
  <2>4. \/ UNCHANGED store /\ (g \in fresh' => g \in fresh)
        \/ g \notin fresh' /\ store'[p].status \in {"creating", "active", "failed"}
    BY <1>1, <1>6, <1>8, <2>1 DEF GoroutineMoves, GoroutineTries, GoroutineTells, NothingWritten, Wrote, GoroutineFollows
  <2> QED BY <1>2, <1>8, <2>1, <2>2, <2>3, <2>4 DEF HandlerFollows
<1> QED BY <1>2, <1>5, <1>7, <1>8 DEF CopiesInv

LEMMA CreateMakes ==
    ASSUME TypeOK, NEW p \in Projects, CreateProject(p)
    PROVE  /\ store[p].status = "absent" /\ store'[p].status = "creating" /\ store'[p].facts = {}
           /\ \/ prov'[p].pc = "namespace" /\ prov'[p].copy = store'[p]
              \/ prov'[p] = prov[p] /\ "store" \in Faults
           /\ Elsewhere(p) /\ \A q \in Projects : q # p => prov'[q] = prov[q]
           /\ fresh' = fresh \cup {p}
           /\ UNCHANGED <<env, handlers, overlapped, cutShort, deleteRequested>>
<1> DEFINE begun == [pc |-> "namespace", attempt |-> 1, copy |-> [status |-> "creating", facts |-> {}]]
<1>1. /\ store[p].status = "absent" /\ store'[p] = [status |-> "creating", facts |-> {}]
      /\ Elsewhere(p) /\ fresh' = fresh \cup {p}
      /\ UNCHANGED <<env, handlers, overlapped, cutShort, deleteRequested>>
  BY DEF CreateProject, TypeOK, Elsewhere
<1>2. prov' = [prov EXCEPT ![p] = begun] \/ ("store" \in Faults /\ UNCHANGED prov)
  BY DEF CreateProject
<1>3. begun.pc = "namespace" /\ begun.copy = [status |-> "creating", facts |-> {}] OBVIOUS
<1> HIDE DEF begun
<1>4. CASE prov' = [prov EXCEPT ![p] = begun] BY <1>1, <1>3, <1>4 DEF TypeOK
<1>5. CASE "store" \in Faults /\ UNCHANGED prov BY <1>1, <1>5
<1> QED BY <1>2, <1>4, <1>5

LEMMA CopiesCreated == ASSUME IInv, CopiesInv, NEW p \in Projects, CreateProject(p) PROVE CopiesInv'
<1>1. /\ store[p].status = "absent" /\ store'[p].status = "creating" /\ store'[p].facts = {}
      /\ \/ prov'[p].pc = "namespace" /\ prov'[p].copy = store'[p]
         \/ prov'[p] = prov[p]
      /\ Elsewhere(p) /\ \A q \in Projects : q # p => prov'[q] = prov[q]
      /\ fresh' = fresh \cup {p}
      /\ UNCHANGED <<env, handlers, overlapped, cutShort, deleteRequested>>
  BY CreateMakes DEF IInv
<1>2. /\ \A q \in Projects : q # p => GoroutineFollows(q)'
      /\ \A g \in Handlers : handlers'[g] = handlers[g] /\ handlers[g].project # p => HandlerFollows(g)'
  BY <1>1, OtherCopies
<1>3. prov[p].pc = "off" /\ \A g \in Handlers : handlers[g].project # p
  BY <1>1 DEF CopiesInv, GoroutineFollows, HandlerFollows
<1>4. GoroutineFollows(p)' BY <1>1, <1>3 DEF GoroutineFollows
<1> QED BY <1>1, <1>2, <1>3, <1>4 DEF CopiesInv

LEMMA CrashForgets ==
    ASSUME Crash
    PROVE  /\ \A p \in Projects : prov'[p] = NoProvisioning
           /\ \A h \in Handlers : handlers'[h] = IdleHandler
           /\ UNCHANGED <<store, env, fresh, overlapped, cutShort, deleteRequested>>
BY DEF Crash, world, history

LEMMA CopiesStep == IInv /\ CopiesInv /\ [Next]_vars => CopiesInv'
<1> SUFFICES ASSUME IInv, CopiesInv, [Next]_vars PROVE CopiesInv'
  OBVIOUS
<1>1. TypeOK BY DEF IInv
<1>2. ASSUME NEW p \in Projects, FetchKubeconfig(p) PROVE CopiesInv'
  BY <1>2 DEF FetchKubeconfig, history, CopiesInv, GoroutineFollows, HandlerFollows
<1>3. CASE Crash
  BY <1>3, CrashForgets, WorkersAssumption
  DEF CopiesInv, GoroutineFollows, HandlerFollows, NoProvisioning, IdleHandler
<1>4. CASE UNCHANGED vars BY <1>4 DEF vars, CopiesInv, GoroutineFollows, HandlerFollows
<1> QED BY <1>1, <1>2, <1>3, <1>4, CopiesCreated, CopiesProvisioned, ProvisionMoves, CopiesRequested, RequestMoves,
           CopiesHandled, StepMoves DEF Next

-----------------------------------------------------------------------------
(* What a write does to a record *)

\* What OnlyStaleWritesLeaveTheGraph and OnlyStaleWritesDropFacts say of a step.
StaysInGraph(p) ==
    store'[p].status # store[p].status =>
       \/ <<store[p].status, store'[p].status>> \in Graph
       \/ stale'[p]
       \/ prov[p].pc = "activate" /\ deleteRequested[p]
KeepsFacts(p) == store[p].facts \subseteq store'[p].facts \/ stale'[p]

LEMMA StepKeeps ==
    ASSUME IInv, CopiesInv, [Next]_vars, NEW p \in Projects
    PROVE  StaysInGraph(p) /\ KeepsFacts(p)
<1> USE DEF StaysInGraph, KeepsFacts
<1>1. TypeOK /\ store[p] \in Record /\ store[p].status \in Status /\ GoroutineFollows(p)
  BY DEF IInv, TypeOK, Record, CopiesInv
<1>2. CASE UNCHANGED store BY <1>2
<1>3. ASSUME NEW q \in Projects, CreateProject(q) PROVE StaysInGraph(p) /\ KeepsFacts(p)
  <2>1. CASE q # p BY <1>1, <1>3, <2>1, CreateMakes DEF Elsewhere
  <2>2. CASE q = p
    <3>1. <<"absent", "creating">> \in Graph BY DEF Graph
    <3> QED BY <1>1, <1>3, <2>2, <3>1, CreateMakes DEF GoroutineFollows
  <2> QED BY <2>1, <2>2
<1>4. ASSUME NEW q \in Projects, GoroutineMoves(q) PROVE StaysInGraph(p) /\ KeepsFacts(p)
  <2>1. CASE q # p BY <1>4, <2>1 DEF GoroutineMoves, Elsewhere
  <2>2. CASE q = p
    <3>1. As("failed", prov[p].copy).status = "failed" /\ As("failed", prov[p].copy).facts = prov[p].copy.facts
      BY <1>4, <2>2 DEF GoroutineMoves, As, Record
    <3>2. CASE NothingWritten BY <3>2 DEF NothingWritten
    <3>3. CASE Wrote(p, p, prov[p].copy) /\ prov[p].pc \in {"publish", "activate"}
      <4>1. /\ \A status \in {"creating", "suspended"} : <<status, "active">> \in Graph
            /\ Status \ {"absent", "failed", "deleting", "deleted"} \subseteq {"creating", "suspended", "active"}
        BY DEF Graph, Status
      <4>2. prov[p].pc = "activate" => store[p].status \in {"creating", "suspended", "active"} \/ deleteRequested[p]
        BY <1>1, <4>1 DEF GoroutineFollows
      <4> QED BY <1>1, <3>3, <4>1, <4>2 DEF Wrote, GoroutineFollows
    <3>4. CASE Wrote(p, p, As("failed", prov[p].copy)) /\ prov[p].pc = "fail"
      <4>1. <<"creating", "failed">> \in Graph BY DEF Graph
      <4> QED BY <1>1, <3>1, <3>4, <4>1 DEF Wrote, GoroutineFollows
    <3> QED BY <1>2, <1>4, <2>2, <3>2, <3>3, <3>4 DEF GoroutineMoves, GoroutineTries, GoroutineTells
  <2> QED BY <2>1, <2>2
<1>5. ASSUME NEW h \in Handlers, HandlerMoves(h) PROVE StaysInGraph(p) /\ KeepsFacts(p)
  <2>1. CASE handlers[h].project # p BY <1>5, <2>1 DEF HandlerMoves, Elsewhere
  <2>2. CASE NothingWritten BY <2>2 DEF NothingWritten
  <2>3. CASE handlers[h].project = p /\ HandlerWrites(h) /\ Wrote(h, p, handlers[h].copy)
    <3>1. HandlerFollows(h) /\ handlers[h].pc # "idle" BY <2>3 DEF CopiesInv, HandlerWrites
    <3>2. h \in fresh => Follows(store[p], handlers[h].copy) BY <2>3, <3>1 DEF HandlerFollows
    <3> QED BY <2>3, <3>2 DEF Wrote, Follows
  <2> QED BY <1>5, <2>1, <2>2, <2>3 DEF HandlerMoves, HandlerWrites, HandlerCalls
<1>6. CASE Crash BY <1>2, <1>6, CrashForgets
<1>7. ASSUME NEW h \in Handlers, NEW q \in Projects, Request(h, q) PROVE UNCHANGED store
  BY <1>1, <1>7, RequestMoves DEF RequestBegins
<1>8. ASSUME NEW q \in Projects, FetchKubeconfig(q) PROVE UNCHANGED store
  BY <1>8 DEF FetchKubeconfig
<1>9. UNCHANGED vars => UNCHANGED store BY DEF vars
<1> QED BY <1>1, <1>2, <1>3, <1>4, <1>5, <1>6, <1>7, <1>8, <1>9, ProvisionMoves, StepMoves DEF Next

LEMMA CopiesHold == Spec => [](IInv /\ CopiesInv)
<1>1. Init => IInv /\ CopiesInv BY InitInv, CopiesInit
<1>2. (IInv /\ CopiesInv) /\ [Next]_vars => (IInv /\ CopiesInv)' BY StepInv, CopiesStep
<1> QED BY <1>1, <1>2, PTL DEF Spec

\* A status leaves the graph of the lifecycle only through a write of a copy that was
\* out of date, or when provisionProject activates a project somebody has asked to
\* delete: for any number of handlers, and of Update's errors (OnlyStaleWritesLeaveTheGraph).
THEOREM StatusesFollowTheGraph == Spec => OnlyStaleWritesLeaveTheGraph
<1>1. IInv /\ CopiesInv /\ [Next]_vars =>
      [\A p \in Projects :
         store'[p].status # store[p].status =>
            \/ <<store[p].status, store'[p].status>> \in Graph
            \/ stale'[p]
            \/ prov[p].pc = "activate" /\ deleteRequested[p]]_vars
  BY StepKeeps DEF StaysInGraph
<1> QED BY <1>1, CopiesHold, PTL DEF Spec, OnlyStaleWritesLeaveTheGraph

\* No operation drops what it has read itself: settings, domain and URL only get lost
\* by a write of a copy that was out of date, with either store's Update.
THEOREM FactsAreKept == Spec => OnlyStaleWritesDropFacts
<1>1. IInv /\ CopiesInv /\ [Next]_vars =>
      [\A p \in Projects : store[p].facts \subseteq store'[p].facts \/ stale'[p]]_vars
  BY StepKeeps DEF KeepsFacts
<1> QED BY <1>1, CopiesHold, PTL DEF Spec, OnlyStaleWritesDropFacts

-----------------------------------------------------------------------------
(* One operation at a time *)

LEMMA AloneInit == Init => AloneInv
BY DEF Init, AloneInv, GoroutineAlone, NoProvisioning, IdleHandler, Blank, Promised, Live

\* What the invariant says of p while nothing has overlapped.
LEMMA AloneFacts ==
    ASSUME IInv, CopiesInv, AloneInv, NEW h \in Handlers, NEW p \in Projects,
           handlers[h].pc # "idle", handlers[h].project = p, ~overlapped[p]
    PROVE  /\ GoroutineAlone(p) /\ HandlerAlone(h) /\ HandlerFollows(h)
           /\ prov[p].pc = "off"
           /\ \A g \in Handlers : g # h /\ handlers[g].pc # "idle" => handlers[g].project # p
BY DEF AloneInv, GoroutineAlone, HandlerAlone, CopiesInv

\* What happens to p leaves others alone.
LEMMA OthersAlone ==
    ASSUME IInv, AloneInv, NEW p \in Projects, Elsewhere(p),
           \A q \in Projects : q # p => prov'[q] = prov[q] /\ overlapped'[q] = overlapped[q],
           \A h \in Handlers : handlers'[h].pc # "idle" /\ handlers'[h].project # p => handlers'[h] = handlers[h]
    PROVE  /\ \A q \in Projects : q # p /\ ~overlapped'[q] => GoroutineAlone(q)'
           /\ \A h \in Handlers : handlers'[h].pc # "idle" /\ handlers'[h].project \in Projects \ {p}
                 /\ ~overlapped'[handlers'[h].project] => HandlerAlone(h)'
<1>1. ASSUME NEW q \in Projects, q # p, ~overlapped'[q] PROVE GoroutineAlone(q)'
  <2>1. /\ store'[q] = store[q] /\ env'[q] = env[q] /\ prov'[q] = prov[q] /\ GoroutineAlone(q)
    BY <1>1 DEF Elsewhere, AloneInv
  <2>2. \A h \in Handlers : handlers'[h].pc # "idle" /\ handlers'[h].project = q => handlers'[h] = handlers[h]
    BY <1>1
  <2> QED BY <2>1, <2>2 DEF GoroutineAlone
<1>2. ASSUME NEW h \in Handlers, handlers'[h].pc # "idle", handlers'[h].project \in Projects \ {p},
             ~overlapped'[handlers'[h].project]
      PROVE  HandlerAlone(h)'
  <2>1. PICK q \in Projects : q = handlers'[h].project /\ q # p BY <1>2
  <2>2. handlers'[h] = handlers[h] /\ HandlerAlone(h) BY <1>2, <2>1 DEF AloneInv
  <2>3. store'[q] = store[q] /\ env'[q] = env[q] BY <2>1 DEF Elsewhere
  <2>4. \A g \in Handlers : handlers'[g].pc # "idle" /\ handlers'[g].project = q => handlers'[g] = handlers[g]
    BY <2>1
  <2> QED BY <2>1, <2>2, <2>3, <2>4 DEF HandlerAlone
<1> QED BY <1>1, <1>2

LEMMA AloneHandled ==
    ASSUME IInv, IInv', CopiesInv, AloneInv, NEW h \in Handlers, HandlerMoves(h)
    PROVE  AloneInv'
<1> DEFINE pc == handlers[h].pc  copy == handlers[h].copy
<1>1. PICK p \in Projects : p = handlers[h].project BY DEF HandlerMoves
<1>2. pc # "idle" BY DEF HandlerMoves, HandlerWrites, HandlerCalls, HandlerGoesOn, HandlerEnds
<1>3. Elsewhere(p) /\ Besides(h) /\ UNCHANGED <<prov, overlapped>> BY <1>1 DEF HandlerMoves
<1>4. handlers'[h].project = p \/ handlers'[h] = IdleHandler
  BY <1>1 DEF HandlerMoves, HandlerWrites, HandlerCalls, HandlerGoesOn, HandlerEnds
<1>5. \A g \in Handlers : handlers'[g].pc # "idle" /\ handlers'[g].project # p => handlers'[g] = handlers[g]
  BY <1>3, <1>4 DEF Besides, IdleHandler
<1>6. /\ \A q \in Projects : q # p /\ ~overlapped'[q] => GoroutineAlone(q)'
      /\ \A g \in Handlers : handlers'[g].pc # "idle" /\ handlers'[g].project \in Projects \ {p}
            /\ ~overlapped'[handlers'[g].project] => HandlerAlone(g)'
  BY <1>3, <1>5, OthersAlone
<1>7. ASSUME ~overlapped[p]
      PROVE  /\ GoroutineAlone(p)'
             /\ handlers'[h].pc # "idle" => HandlerAlone(h)'
             /\ \A g \in Handlers : g # h /\ handlers'[g].pc # "idle" => handlers'[g].project # p
  <2>1. /\ GoroutineAlone(p) /\ HandlerAlone(h) /\ HandlerFollows(h) /\ prov'[p].pc = "off"
        /\ \A g \in Handlers : g # h /\ handlers'[g].pc # "idle" => handlers'[g].project # p
    BY <1>1, <1>2, <1>3, <1>7, AloneFacts DEF Besides
  <2>2. CASE HandlerWrites(h)
    <3>1. /\ pc \in {"save", "saveSuspended", "saveDeleting"} /\ env' = env
          /\ store'[p].status \in {store[p].status, copy.status}
          /\ \/ handlers'[h] = IdleHandler
             \/ /\ pc # "save" /\ store'[p].status = copy.status
                /\ handlers'[h].pc = (IF pc = "saveSuspended" THEN "pause" ELSE "deleteVCluster")
                /\ handlers'[h].project = p /\ handlers'[h].copy = copy
      BY <1>1, <2>2 DEF HandlerWrites, Wrote, NothingWritten
    <3>2. Promised(store'[p].status, env[p])
      BY <1>1, <1>2, <2>1, <3>1 DEF GoroutineAlone, HandlerAlone, HandlerFollows, Promised, Live
    <3>3. GoroutineAlone(p)' BY <2>1, <3>1, <3>2 DEF GoroutineAlone
    <3>4. handlers'[h].pc # "idle" => HandlerAlone(h)'
      BY <1>1, <1>2, <2>1, <3>1 DEF HandlerAlone, HandlerFollows, IdleHandler
    <3> QED BY <2>1, <3>3, <3>4
  <2>3. CASE HandlerCalls(h)
    <3>1. store' = store BY <2>3 DEF HandlerCalls, NothingWritten
    <3>2. Promised(store[p].status, env'[p])
      BY <1>1, <2>1, <2>3 DEF HandlerCalls, HandlerGoesOn, HandlerEnds, GoroutineAlone, HandlerAlone, Promised, Live
    <3>3. GoroutineAlone(p)' BY <2>1, <3>1, <3>2 DEF GoroutineAlone
    <3>4. handlers'[h].pc # "idle" => HandlerAlone(h)'
      BY <1>1, <2>1, <2>3, <3>1, <3>2
      DEF HandlerCalls, HandlerGoesOn, HandlerEnds, HandlerAlone, IdleHandler, Promised, Live, NoEnvironment
    <3> QED BY <2>1, <3>3, <3>4
  <2> QED BY <2>2, <2>3 DEF HandlerMoves
<1>8. ASSUME NEW g \in Handlers, handlers'[g].pc # "idle", ~overlapped'[handlers'[g].project] PROVE HandlerAlone(g)'
  <2>1. handlers'[g].project \in Projects BY <1>8 DEF IInv, TypeOK
  <2> QED BY <1>3, <1>6, <1>7, <1>8, <2>1
<1> QED BY <1>3, <1>6, <1>7, <1>8 DEF AloneInv

LEMMA AloneRequested ==
    ASSUME IInv, IInv', CopiesInv, AloneInv, NEW h \in Handlers, NEW p \in Projects, RequestBegins(h, p)
    PROVE  AloneInv'
<1>1. /\ UNCHANGED <<store, env, prov, cutShort>> /\ Besides(h) /\ handlers[h].pc = "idle"
      /\ handlers'[h].project = p /\ handlers'[h].pc # "idle"
      /\ \A q \in Projects : q # p => overlapped'[q] = overlapped[q]
      /\ overlapped'[p] = (overlapped[p] \/ Busy(p))
  BY DEF RequestBegins, Asks
<1>2. Elsewhere(p) BY <1>1 DEF Elsewhere
<1>3. \A g \in Handlers : handlers'[g].project # p => handlers'[g] = handlers[g] BY <1>1 DEF Besides
<1>4. /\ \A q \in Projects : q # p /\ ~overlapped'[q] => GoroutineAlone(q)'
      /\ \A g \in Handlers : handlers'[g].pc # "idle" /\ handlers'[g].project \in Projects \ {p}
            /\ ~overlapped'[handlers'[g].project] => HandlerAlone(g)'
  BY <1>1, <1>2, <1>3, OthersAlone
<1>5. ASSUME ~overlapped'[p]
      PROVE  /\ GoroutineAlone(p)' /\ HandlerAlone(h)'
             /\ \A g \in Handlers : g # h => handlers'[g].project # p
  <2>1. ~overlapped[p] /\ prov[p].pc = "off" /\ \A g \in Handlers : handlers[g].project # p
    BY <1>1, <1>5 DEF Busy, HandlersOf
  <2>2. GoroutineAlone(p) BY <2>1 DEF AloneInv
  <2>3. \A g \in Handlers : g # h => handlers'[g].project # p BY <1>1, <2>1 DEF Besides
  <2>4. GoroutineAlone(p)' BY <1>1, <2>1, <2>2 DEF GoroutineAlone
  <2>5. HandlerAlone(h)'
    BY <1>1, <2>2, <2>3 DEF RequestBegins, Asks, HandlerAlone, GoroutineAlone
  <2> QED BY <2>3, <2>4, <2>5
<1>6. ASSUME NEW g \in Handlers, handlers'[g].pc # "idle", ~overlapped'[handlers'[g].project] PROVE HandlerAlone(g)'
  <2>1. handlers'[g].project \in Projects BY <1>6 DEF IInv, TypeOK
  <2> QED BY <1>4, <1>5, <1>6, <2>1
<1> QED BY <1>4, <1>5, <1>6 DEF AloneInv

LEMMA AloneProvisioned ==
    ASSUME IInv, IInv', CopiesInv, AloneInv, NEW p \in Projects, GoroutineMoves(p)
    PROVE  AloneInv'
<1>1. /\ Elsewhere(p) /\ (\A q \in Projects : q # p => prov'[q] = prov[q])
      /\ UNCHANGED <<handlers, overlapped>>
  BY DEF GoroutineMoves
<1>2. /\ \A q \in Projects : q # p /\ ~overlapped'[q] => GoroutineAlone(q)'
      /\ \A g \in Handlers : handlers'[g].pc # "idle" /\ handlers'[g].project \in Projects \ {p}
            /\ ~overlapped'[handlers'[g].project] => HandlerAlone(g)'
  BY <1>1, OthersAlone
<1>3. prov[p].pc # "off" BY DEF GoroutineMoves, GoroutineTries, GoroutineTells
<1>4. ASSUME ~overlapped[p]
      PROVE  /\ GoroutineAlone(p)'
             /\ \A g \in Handlers : handlers'[g].pc # "idle" => handlers'[g].project # p
  <2>1. GoroutineAlone(p) /\ GoroutineFollows(p) BY <1>4 DEF AloneInv, CopiesInv
  <2>2. \A g \in Handlers : handlers'[g].pc # "idle" => handlers'[g].project # p
    BY <1>1, <1>3, <2>1 DEF GoroutineAlone
  <2>3. As("failed", prov[p].copy).status = "failed" BY DEF GoroutineMoves, As, Record
  <2>4. CASE GoroutineTries(p)
    BY <1>3, <2>1, <2>2, <2>4 DEF GoroutineTries, NothingWritten, GoroutineAlone, Promised, Live
  <2>5. CASE GoroutineTells(p)
    BY <1>3, <2>1, <2>2, <2>3, <2>5
    DEF GoroutineTells, NothingWritten, Wrote, GoroutineAlone, GoroutineFollows, Promised, Live, NoProvisioning
  <2> QED BY <2>2, <2>4, <2>5 DEF GoroutineMoves
<1>5. ASSUME NEW g \in Handlers, handlers'[g].pc # "idle", ~overlapped'[handlers'[g].project] PROVE HandlerAlone(g)'
  <2>1. handlers'[g].project \in Projects BY <1>5 DEF IInv, TypeOK
  <2> QED BY <1>1, <1>2, <1>4, <1>5, <2>1
<1> QED BY <1>1, <1>2, <1>4, <1>5 DEF AloneInv

LEMMA NobodyOnAbsent ==
    ASSUME CopiesInv, NEW p \in Projects, store[p].status = "absent"
    PROVE  prov[p].pc = "off" /\ \A h \in Handlers : handlers[h].project # p
BY DEF CopiesInv, GoroutineFollows, HandlerFollows

LEMMA AloneCreated ==
    ASSUME IInv, IInv', CopiesInv, AloneInv, NEW p \in Projects, CreateProject(p)
    PROVE  AloneInv'
<1>1. /\ store[p].status = "absent" /\ store'[p].status = "creating"
      /\ prov'[p].pc = "namespace" \/ prov'[p] = prov[p]
      /\ Elsewhere(p) /\ \A q \in Projects : q # p => prov'[q] = prov[q]
      /\ UNCHANGED <<env, handlers, overlapped>>
  BY CreateMakes DEF IInv
<1>2. prov[p].pc = "off" /\ \A h \in Handlers : handlers[h].project # p BY <1>1, NobodyOnAbsent
<1>3. /\ \A q \in Projects : q # p /\ ~overlapped'[q] => GoroutineAlone(q)'
      /\ \A g \in Handlers : handlers'[g].pc # "idle" /\ handlers'[g].project \in Projects \ {p}
            /\ ~overlapped'[handlers'[g].project] => HandlerAlone(g)'
  BY <1>1, OthersAlone
<1>4. GoroutineAlone(p)' BY <1>1, <1>2 DEF GoroutineAlone, Promised, Live
<1>5. ASSUME NEW g \in Handlers, handlers'[g].pc # "idle", ~overlapped'[handlers'[g].project] PROVE HandlerAlone(g)'
  <2>1. handlers'[g].project \in Projects /\ handlers'[g].project # p BY <1>1, <1>2, <1>5 DEF IInv, TypeOK
  <2> QED BY <1>3, <1>5, <2>1
<1> QED BY <1>3, <1>4, <1>5 DEF AloneInv

LEMMA FetchMakes ==
    ASSUME TypeOK, NEW p \in Projects, FetchKubeconfig(p)
    PROVE  /\ \A q \in Projects : env'[q].vcluster = env[q].vcluster /\ env'[q].complete = env[q].complete
           /\ UNCHANGED <<store, prov, handlers, overlapped, cutShort>>
<1> DEFINE after == [env[p] EXCEPT !.namespace = TRUE]
<1>1. after.vcluster = env[p].vcluster /\ after.complete = env[p].complete BY DEF TypeOK, Environment
<1>2. env' = [env EXCEPT ![p] = after] BY DEF FetchKubeconfig
<1> HIDE DEF after
<1>3. env'[p] = after /\ \A q \in Projects : q # p => env'[q] = env[q] BY <1>2 DEF TypeOK
<1> QED BY <1>1, <1>3 DEF FetchKubeconfig, history

LEMMA AloneFetched == ASSUME IInv, AloneInv, NEW p \in Projects, FetchKubeconfig(p) PROVE AloneInv'
<1>1. /\ \A q \in Projects : env'[q].vcluster = env[q].vcluster /\ env'[q].complete = env[q].complete
      /\ UNCHANGED <<store, prov, handlers, overlapped>>
  BY FetchMakes DEF IInv
<1>2. \A q \in Projects : \A status : Promised(status, env[q]) => Promised(status, env'[q])
  BY <1>1 DEF Promised
<1>3. ASSUME NEW q \in Projects, ~overlapped[q] PROVE GoroutineAlone(q)'
  BY <1>1, <1>2, <1>3 DEF AloneInv, GoroutineAlone
<1>4. ASSUME NEW h \in Handlers, handlers[h].pc # "idle", ~overlapped[handlers[h].project] PROVE HandlerAlone(h)'
  <2>1. handlers[h].project \in Projects BY <1>4 DEF IInv, TypeOK
  <2> QED BY <1>1, <1>2, <1>4, <2>1 DEF AloneInv, HandlerAlone
<1> QED BY <1>1, <1>3, <1>4 DEF AloneInv

LEMMA AloneStep == IInv /\ IInv' /\ CopiesInv /\ AloneInv /\ [Next]_vars => AloneInv'
<1> SUFFICES ASSUME IInv, IInv', CopiesInv, AloneInv, [Next]_vars PROVE AloneInv'
  OBVIOUS
<1>1. TypeOK BY DEF IInv
<1>2. CASE Crash
  BY <1>2, CrashForgets DEF AloneInv, GoroutineAlone, NoProvisioning, IdleHandler
<1>3. CASE UNCHANGED vars BY <1>3 DEF vars, AloneInv, GoroutineAlone, HandlerAlone
<1> QED BY <1>1, <1>2, <1>3, AloneCreated, AloneProvisioned, ProvisionMoves, AloneRequested, RequestMoves,
           AloneHandled, StepMoves, AloneFetched DEF Next

\* While operations on a project do not overlap its record promises no more than the
\* cluster holds, whichever call or write fails and wherever the process stops: for
\* any projects, handlers, attempts, store and faults (NeverOverpromises).
THEOREM PromisesAreKept == Spec => []NeverOverpromises
<1> DEFINE Inv == IInv /\ CopiesInv /\ AloneInv
<1>1. Init => Inv BY InitInv, CopiesInit, AloneInit
<1>2. Inv /\ [Next]_vars => Inv' BY StepInv, CopiesStep, AloneStep
<1>3. Inv => NeverOverpromises
  BY DEF AloneInv, GoroutineAlone, Promised, Live, NeverOverpromises
<1> QED BY <1>1, <1>2, <1>3, PTL DEF Spec

-----------------------------------------------------------------------------
(* Settled records *)

LEMMA MatchInit == Init => MatchInv
BY DEF Init, MatchInv, GoroutineMatches, HandlerMatches, Matches, NoProvisioning, IdleHandler, Blank, NoEnvironment

\* What happens to p does not unsettle others.
LEMMA OthersMatch ==
    ASSUME IInv, MatchInv, NEW p \in Projects, Elsewhere(p),
           \A q \in Projects : q # p => prov'[q] = prov[q] /\ overlapped'[q] = overlapped[q],
           \A h \in Handlers : handlers'[h] = handlers[h]
              \/ /\ handlers'[h].pc = "idle" \/ handlers'[h].project = p
                 /\ handlers[h].project \notin Projects \ {p}
    PROVE  /\ \A q \in Projects : q # p /\ Undisturbed(q)' => GoroutineMatches(q)'
           /\ \A h \in Handlers : handlers'[h].pc # "idle" /\ handlers'[h].project \in Projects \ {p}
                 /\ Undisturbed(handlers[h].project)' => HandlerMatches(h)'
<1>1. ASSUME NEW q \in Projects, q # p, Undisturbed(q)' PROVE GoroutineMatches(q)'
  <2>1. /\ store'[q] = store[q] /\ env'[q] = env[q] /\ prov'[q] = prov[q] /\ GoroutineMatches(q)
    BY <1>1 DEF Elsewhere, MatchInv, Undisturbed
  <2>2. \A h \in Handlers : handlers[h].project = q => handlers'[h].project = q BY <1>1
  <2> QED BY <2>1, <2>2 DEF GoroutineMatches
<1>2. ASSUME NEW h \in Handlers, handlers'[h].pc # "idle", handlers'[h].project \in Projects \ {p},
             Undisturbed(handlers[h].project)'
      PROVE  HandlerMatches(h)'
  <2>1. PICK q \in Projects : q = handlers'[h].project /\ q # p BY <1>2
  <2>2. handlers'[h] = handlers[h] BY <1>2, <2>1
  <2>3. store'[q] = store[q] /\ env'[q] = env[q] /\ cutShort'[q] = cutShort[q] /\ overlapped'[q] = overlapped[q]
    BY <2>1 DEF Elsewhere
  <2>4. HandlerMatches(h) BY <1>2, <2>1, <2>2, <2>3 DEF MatchInv, Undisturbed
  <2> QED BY <2>1, <2>2, <2>3, <2>4 DEF HandlerMatches
<1> QED BY <1>1, <1>2

LEMMA MatchHandled ==
    ASSUME IInv, IInv', CopiesInv, AloneInv, MatchInv, "store" \notin Faults, NEW h \in Handlers, HandlerMoves(h)
    PROVE  MatchInv'
<1> DEFINE pc == handlers[h].pc  copy == handlers[h].copy
<1>1. PICK p \in Projects : p = handlers[h].project BY DEF HandlerMoves
<1>2. pc # "idle" BY DEF HandlerMoves, HandlerWrites, HandlerCalls, HandlerGoesOn, HandlerEnds
<1>3. Elsewhere(p) /\ Besides(h) /\ UNCHANGED <<prov, overlapped>> BY <1>1 DEF HandlerMoves
<1>4. handlers'[h].project = p \/ handlers'[h] = IdleHandler
  BY <1>1 DEF HandlerMoves, HandlerWrites, HandlerCalls, HandlerGoesOn, HandlerEnds
<1>5. IdleHandler.pc = "idle" BY DEF IdleHandler
<1>6. \A g \in Handlers : handlers'[g] = handlers[g]
         \/ /\ handlers'[g].pc = "idle" \/ handlers'[g].project = p
            /\ handlers[g].project \notin Projects \ {p}
  BY <1>1, <1>3, <1>4, <1>5 DEF Besides
<1>7. /\ \A q \in Projects : q # p /\ Undisturbed(q)' => GoroutineMatches(q)'
      /\ \A g \in Handlers : handlers'[g].pc # "idle" /\ handlers'[g].project \in Projects \ {p}
            /\ Undisturbed(handlers[g].project)' => HandlerMatches(g)'
  BY <1>3, <1>6, OthersMatch
<1>8. ASSUME Undisturbed(p)'
      PROVE  /\ GoroutineMatches(p)'
             /\ handlers'[h].pc # "idle" => HandlerMatches(h)'
             /\ \A g \in Handlers : g # h /\ handlers'[g].pc # "idle" => handlers'[g].project # p
  <2>1. cutShort' = cutShort
    BY <1>1, <1>8 DEF Undisturbed, HandlerMoves, HandlerWrites, HandlerCalls, HandlerGoesOn, HandlerEnds
  <2>2. Undisturbed(p) BY <1>3, <1>8, <2>1 DEF Undisturbed
  <2>3. /\ GoroutineAlone(p) /\ HandlerAlone(h) /\ HandlerFollows(h) /\ prov'[p].pc = "off"
        /\ \A g \in Handlers : g # h /\ handlers'[g].pc # "idle" => handlers'[g].project # p
    BY <1>1, <1>2, <1>3, <2>2, AloneFacts DEF Besides, Undisturbed
  <2>4. HandlerMatches(h) BY <1>1, <1>2, <2>2 DEF MatchInv
  <2>5. CASE handlers'[h] = IdleHandler
    <3>1. Matches(store'[p].status, env'[p])
      <4>1. CASE HandlerWrites(h)
        <5>1. pc = "save" /\ store'[p].status = copy.status /\ env' = env
          BY <1>1, <2>5, <4>1, <1>5 DEF HandlerWrites, Wrote, HandlerFollows
        <5> QED BY <1>1, <2>4, <5>1 DEF HandlerMatches
      <4>2. CASE HandlerCalls(h)
        <5>1. HandlerEnds(h) /\ store' = store
          BY <1>5, <2>5, <4>2 DEF HandlerCalls, HandlerGoesOn, NothingWritten
        <5>2. CASE pc = "observe"
          BY <1>1, <2>4, <5>1, <5>2 DEF HandlerEnds, HandlerMatches
        <5>3. CASE pc # "observe"
          <6>1. pc = "pause" /\ env'[p].vcluster = "paused"
            BY <1>1, <1>8, <2>1, <5>1, <5>3 DEF HandlerEnds, Undisturbed
          <6>2. store[p].status = "suspended" BY <1>1, <2>3, <6>1 DEF HandlerAlone
          <6> QED BY <5>1, <6>1, <6>2 DEF Matches
        <5> QED BY <5>2, <5>3
      <4> QED BY <4>1, <4>2 DEF HandlerMoves
    <3>2. GoroutineMatches(p)' BY <2>3, <3>1 DEF GoroutineMatches
    <3> QED BY <1>5, <2>3, <2>5, <3>2
  <2>6. CASE handlers'[h] # IdleHandler
    <3>1. handlers'[h].project = p BY <1>4, <2>6
    <3>2. GoroutineMatches(p)' BY <2>3, <3>1 DEF GoroutineMatches
    <3>3. HandlerMatches(h)'
      <4>1. CASE HandlerWrites(h)
        BY <2>6, <4>1 DEF HandlerWrites, HandlerMatches
      <4>2. CASE HandlerCalls(h)
        <5>1. HandlerGoesOn(h) BY <2>6, <4>2 DEF HandlerCalls, HandlerEnds
        <5>2. Matches("deleted", NoEnvironment) BY DEF Matches, NoEnvironment
        <5>3. pc = "resume" => Matches("active", env'[p]) BY <1>1, <5>1 DEF HandlerGoesOn, Matches
        <5>4. pc = "resume" => copy.status = "active" BY <1>1, <2>3 DEF HandlerAlone
        <5>5. handlers'[h].pc \in {"save", "deleteNamespace"} BY <5>1 DEF HandlerGoesOn
        <5>6. handlers'[h].pc = "save" => Matches(handlers'[h].copy.status, env'[p])
          BY <1>1, <2>4, <5>1, <5>2, <5>3, <5>4 DEF HandlerGoesOn, HandlerMatches
        <5> QED BY <3>1, <5>5, <5>6 DEF HandlerMatches
      <4> QED BY <4>1, <4>2 DEF HandlerMoves
    <3> QED BY <2>3, <3>2, <3>3
  <2> QED BY <2>5, <2>6
<1>9. ASSUME NEW g \in Handlers, handlers'[g].pc # "idle", Undisturbed(handlers[g].project)' PROVE HandlerMatches(g)'
  <2>1. handlers'[g].project \in Projects BY <1>9 DEF IInv, TypeOK
  <2>2. CASE handlers'[g].project # p BY <1>7, <1>9, <2>1, <2>2
  <2>3. CASE handlers'[g].project = p
    <3>1. Undisturbed(p)' BY <1>9, <2>3 DEF Undisturbed
    <3> QED BY <1>8, <1>9, <2>3, <3>1
  <2> QED BY <2>2, <2>3
<1> QED BY <1>7, <1>8, <1>9 DEF MatchInv

LEMMA MatchRequested ==
    ASSUME IInv, IInv', CopiesInv, AloneInv, MatchInv, NEW h \in Handlers, NEW p \in Projects, RequestBegins(h, p)
    PROVE  MatchInv'
<1>1. /\ UNCHANGED <<store, env, prov, cutShort>> /\ Besides(h) /\ handlers[h].pc = "idle"
      /\ handlers'[h].project = p /\ handlers'[h].pc # "idle"
      /\ \A q \in Projects : q # p => overlapped'[q] = overlapped[q]
      /\ overlapped'[p] = (overlapped[p] \/ Busy(p))
  BY DEF RequestBegins, Asks
<1>2. Elsewhere(p) BY <1>1 DEF Elsewhere
<1>3. handlers[h].project \notin Projects BY <1>1 DEF CopiesInv, HandlerFollows
<1>4. \A g \in Handlers : handlers'[g] = handlers[g]
         \/ /\ handlers'[g].pc = "idle" \/ handlers'[g].project = p
            /\ handlers[g].project \notin Projects \ {p}
  BY <1>1, <1>3 DEF Besides
<1>5. /\ \A q \in Projects : q # p /\ Undisturbed(q)' => GoroutineMatches(q)'
      /\ \A g \in Handlers : handlers'[g].pc # "idle" /\ handlers'[g].project \in Projects \ {p}
            /\ Undisturbed(handlers[g].project)' => HandlerMatches(g)'
  BY <1>1, <1>2, <1>4, OthersMatch
<1>6. ASSUME Undisturbed(p)'
      PROVE  /\ GoroutineMatches(p)' /\ HandlerMatches(h)'
             /\ \A g \in Handlers : g # h => handlers'[g].project # p
  <2>1. Undisturbed(p) /\ prov[p].pc = "off" /\ \A g \in Handlers : handlers[g].project # p
    BY <1>1, <1>6 DEF Busy, HandlersOf, Undisturbed
  <2>2. Matches(store[p].status, env[p]) BY <2>1 DEF MatchInv, GoroutineMatches
  <2>3. GoroutineMatches(p)' BY <1>1, <2>1 DEF GoroutineMatches
  <2>4. HandlerMatches(h)' BY <1>1, <2>2 DEF RequestBegins, Asks, HandlerMatches, Matches
  <2> QED BY <1>1, <2>1, <2>3, <2>4 DEF Besides
<1>7. ASSUME NEW g \in Handlers, handlers'[g].pc # "idle", Undisturbed(handlers[g].project)' PROVE HandlerMatches(g)'
  <2>1. handlers'[g].project \in Projects BY <1>7 DEF IInv, TypeOK
  <2>2. CASE handlers'[g].project # p BY <1>5, <1>7, <2>1, <2>2
  <2>3. CASE handlers'[g].project = p
    <3>1. Undisturbed(p)' BY <1>7, <2>3 DEF Undisturbed
    <3> QED BY <1>6, <1>7, <2>3, <3>1
  <2> QED BY <2>2, <2>3
<1> QED BY <1>5, <1>6, <1>7 DEF MatchInv

LEMMA MatchProvisioned ==
    ASSUME IInv, IInv', CopiesInv, AloneInv, MatchInv, "store" \notin Faults, NEW p \in Projects, GoroutineMoves(p)
    PROVE  MatchInv'
<1>1. /\ Elsewhere(p) /\ (\A q \in Projects : q # p => prov'[q] = prov[q])
      /\ UNCHANGED <<handlers, overlapped, cutShort>>
  BY DEF GoroutineMoves
<1>2. /\ \A q \in Projects : q # p /\ Undisturbed(q)' => GoroutineMatches(q)'
      /\ \A g \in Handlers : handlers'[g].pc # "idle" /\ handlers'[g].project \in Projects \ {p}
            /\ Undisturbed(handlers[g].project)' => HandlerMatches(g)'
  BY <1>1, OthersMatch
<1>3. prov[p].pc # "off" BY DEF GoroutineMoves, GoroutineTries, GoroutineTells
<1>4. ASSUME Undisturbed(p)'
      PROVE  /\ GoroutineMatches(p)'
             /\ \A g \in Handlers : handlers'[g].pc # "idle" => handlers'[g].project # p
  <2>1. Undisturbed(p) BY <1>1, <1>4 DEF Undisturbed
  <2>2. GoroutineAlone(p) /\ GoroutineFollows(p) /\ env[p].vcluster # "paused"
    BY <1>3, <2>1 DEF AloneInv, CopiesInv, MatchInv, GoroutineMatches, Undisturbed
  <2>3. \A g \in Handlers : handlers'[g].pc # "idle" => handlers'[g].project # p
    BY <1>1, <1>3, <2>2 DEF GoroutineAlone
  <2>4. As("failed", prov[p].copy).status = "failed" BY DEF GoroutineMoves, As, Record
  <2>5. CASE GoroutineTries(p)
    <3>1. prov'[p].pc # "off" /\ env'[p].vcluster # "paused" BY <2>2, <2>5 DEF GoroutineTries
    <3> QED BY <2>3, <3>1 DEF GoroutineMatches
  <2>6. CASE GoroutineTells(p)
    <3>1. env' = env BY <2>6 DEF GoroutineTells
    <3>2. CASE prov'[p].pc # "off" BY <2>2, <2>3, <3>1, <3>2 DEF GoroutineMatches
    <3>3. CASE prov'[p].pc = "off"
      <4>1. \/ prov[p].pc = "activate" /\ store'[p].status = "active"
            \/ store'[p].status = "failed"
        BY <2>2, <2>4, <2>6, <3>3 DEF GoroutineTells, Wrote, GoroutineFollows
      <4>2. Matches(store'[p].status, env'[p])
        BY <2>2, <3>1, <4>1 DEF GoroutineAlone, Promised, Matches
      <4> QED BY <2>3, <3>3, <4>2 DEF GoroutineMatches
    <3> QED BY <3>2, <3>3
  <2> QED BY <2>5, <2>6 DEF GoroutineMoves
<1>5. ASSUME NEW g \in Handlers, handlers'[g].pc # "idle", Undisturbed(handlers[g].project)' PROVE HandlerMatches(g)'
  <2>1. handlers'[g].project \in Projects BY <1>5 DEF IInv, TypeOK
  <2>2. CASE handlers'[g].project # p BY <1>2, <1>5, <2>1, <2>2
  <2>3. CASE handlers'[g].project = p
    <3>1. Undisturbed(p)' BY <1>5, <2>3 DEF Undisturbed
    <3> QED BY <1>4, <1>5, <2>3, <3>1
  <2> QED BY <2>2, <2>3
<1> QED BY <1>2, <1>4, <1>5 DEF MatchInv

LEMMA MatchCreated ==
    ASSUME "store" \notin Faults, IInv, IInv', CopiesInv, MatchInv, NEW p \in Projects, CreateProject(p)
    PROVE  MatchInv'
<1>1. /\ store[p].status = "absent" /\ prov'[p].pc = "namespace"
      /\ Elsewhere(p) /\ \A q \in Projects : q # p => prov'[q] = prov[q]
      /\ UNCHANGED <<env, handlers, overlapped, cutShort>>
  BY CreateMakes DEF IInv
<1>2. prov[p].pc = "off" /\ \A h \in Handlers : handlers[h].project # p BY <1>1, NobodyOnAbsent
<1>3. /\ \A q \in Projects : q # p /\ Undisturbed(q)' => GoroutineMatches(q)'
      /\ \A g \in Handlers : handlers'[g].pc # "idle" /\ handlers'[g].project \in Projects \ {p}
            /\ Undisturbed(handlers[g].project)' => HandlerMatches(g)'
  BY <1>1, OthersMatch
<1>4. ASSUME Undisturbed(p)' PROVE GoroutineMatches(p)'
  <2>1. Undisturbed(p) BY <1>1, <1>4 DEF Undisturbed
  <2>2. Matches("absent", env[p]) BY <1>1, <1>2, <2>1 DEF MatchInv, GoroutineMatches
  <2> QED BY <1>1, <2>2 DEF GoroutineMatches, Matches
<1>5. ASSUME NEW g \in Handlers, handlers'[g].pc # "idle", Undisturbed(handlers[g].project)' PROVE HandlerMatches(g)'
  <2>1. handlers'[g].project \in Projects /\ handlers'[g].project # p BY <1>1, <1>2, <1>5 DEF IInv, TypeOK
  <2> QED BY <1>3, <1>5, <2>1
<1> QED BY <1>3, <1>4, <1>5 DEF MatchInv

LEMMA MatchFetched == ASSUME IInv, MatchInv, NEW p \in Projects, FetchKubeconfig(p) PROVE MatchInv'
<1>1. /\ \A q \in Projects : env'[q].vcluster = env[q].vcluster
      /\ UNCHANGED <<store, prov, handlers, overlapped, cutShort>>
  BY FetchMakes DEF IInv
<1>2. \A q \in Projects : \A status : Matches(status, env[q]) => Matches(status, env'[q])
  BY <1>1 DEF Matches
<1>3. ASSUME NEW q \in Projects, Undisturbed(q)' PROVE GoroutineMatches(q)'
  BY <1>1, <1>2, <1>3 DEF MatchInv, GoroutineMatches, Undisturbed
<1>4. ASSUME NEW h \in Handlers, handlers'[h].pc # "idle", Undisturbed(handlers[h].project)' PROVE HandlerMatches(h)'
  <2>1. handlers[h].project \in Projects BY <1>1, <1>4 DEF IInv, TypeOK
  <2> QED BY <1>1, <1>2, <1>4, <2>1 DEF MatchInv, HandlerMatches, Undisturbed
<1> QED BY <1>3, <1>4 DEF MatchInv

LEMMA MatchStep ==
    ASSUME Faults \subseteq {"env"}
    PROVE  IInv /\ IInv' /\ CopiesInv /\ AloneInv /\ MatchInv /\ [Next]_vars => MatchInv'
<1> SUFFICES ASSUME IInv, IInv', CopiesInv, AloneInv, MatchInv, [Next]_vars PROVE MatchInv'
  OBVIOUS
<1>1. TypeOK /\ "store" \notin Faults /\ ~Crash BY DEF IInv, Crash
<1>2. CASE UNCHANGED vars
  BY <1>2 DEF vars, MatchInv, GoroutineMatches, HandlerMatches, Undisturbed
<1> QED BY <1>1, <1>2, MatchCreated, MatchProvisioned, ProvisionMoves, MatchRequested, RequestMoves,
           MatchHandled, StepMoves, MatchFetched DEF Next

\* With one operation at a time, none broken off by a failing call, a project nobody
\* works on is not left in between and its environment is in the state its status
\* names. It is so as long as the store answers well and the process runs; calls
\* to the cluster may fail during provisioning (SettledRecordMatches).
THEOREM SettledRecordsMatch ==
    ASSUME Faults \subseteq {"env"}
    PROVE  Spec => []SettledRecordMatches
<1> DEFINE Inv == IInv /\ CopiesInv /\ AloneInv /\ MatchInv
<1>1. Init => Inv BY InitInv, CopiesInit, AloneInit, MatchInit
<1>2. Inv /\ [Next]_vars => Inv' BY StepInv, CopiesStep, AloneStep, MatchStep
<1>3. Inv => SettledRecordMatches
  <2> SUFFICES ASSUME Inv, NEW p \in Projects, ~Busy(p), ~overlapped[p], ~cutShort[p]
               PROVE  Matches(store[p].status, env[p])
    BY DEF SettledRecordMatches, Matches
  <2> QED BY DEF MatchInv, GoroutineMatches, Undisturbed, Busy, HandlersOf
<1> QED BY <1>1, <1>2, <1>3, PTL DEF Spec
=============================================================================
