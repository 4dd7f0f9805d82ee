--------------------------- MODULE HostEnvironment ---------------------------
(***************************************************************************)
(* What the rest of deploy-service may assume of the environments that     *)
(* KubectlProvisioner keeps on the host cluster, one for each project: a   *)
(* namespace, the vcluster in it, and, once everything else that a project *)
(* needs is there too, "complete".  Nothing of an environment is there     *)
(* without its namespace, and nothing outlives it.                         *)
(***************************************************************************)
CONSTANT Projects

VARIABLE env

Environment == [namespace : BOOLEAN, vcluster : {"absent", "running", "paused"}, complete : BOOLEAN]
NoEnvironment == [namespace |-> FALSE, vcluster |-> "absent", complete |-> FALSE]

Init == env = [p \in Projects |-> NoEnvironment]

Becomes(p, after) == env' = [env EXCEPT ![p] = after]

\* A namespace is made, by provisioning or by a reader that misses it.
AddNamespace(p) == Becomes(p, [env[p] EXCEPT !.namespace = TRUE])

AddVCluster(p) == env[p].namespace /\ Becomes(p, [env[p] EXCEPT !.vcluster = "running"])

\* The last of the policies, quotas and add-ons.
Complete(p) == env[p].namespace /\ Becomes(p, [env[p] EXCEPT !.complete = TRUE])

Pause(p)  == env[p].vcluster # "absent" /\ Becomes(p, [env[p] EXCEPT !.vcluster = "paused"])
Resume(p) == env[p].vcluster # "absent" /\ Becomes(p, [env[p] EXCEPT !.vcluster = "running"])

\* A deletion that stops half-way, and one that does not.
RemoveVCluster(p) == Becomes(p, [env[p] EXCEPT !.vcluster = "absent"])
Remove(p)         == Becomes(p, NoEnvironment)

Next == \E p \in Projects :
    \/ AddNamespace(p) \/ AddVCluster(p) \/ Complete(p)
    \/ Pause(p) \/ Resume(p)
    \/ RemoveVCluster(p) \/ Remove(p)

Spec == Init /\ [][Next]_env
=============================================================================
