---------------------------- MODULE MCDeployments ----------------------------
(* Small deployments to check the safety of long-term memory on: which        *)
(* processes run, which conversations go idle, how many rows, chunks among    *)
(* them, and faults there are. What a behaviour does not deploy stays where   *)
(* it begins.                                                                 *)
EXTENDS MCLongTermMemory

CONSTANTS s1, s2, r1, t1, c1, c2, v2

VARIABLE deployment

Deployed(processes, conversations, n, documents, limit) ==
    [processes |-> processes, conversations |-> conversations, rows |-> n,
     chunks |-> documents, faults |-> limit]

(* Two replicas of the sync worker beside everyone who makes rows and takes   *)
(* them away; two replicas of consolidation that race for one fact; and a     *)
(* reconciliation job with its stale list of ids beside all of them.          *)
Deployments ==
    {Deployed({s1, s2, t1, c1}, {v1}, 2, 1, 2),
     Deployed({t1, c1, c2}, {v1, v2}, 2, 0, 1),
     Deployed({s1, s2, r1, t1, c1}, {v1}, 1, 1, 1)}

DeploymentsInit == deployment \in Deployments /\ Init

Stays(local, processes) ==
    \A p \in processes \ deployment.processes : local'[p] = local[p]

DeploymentsNext ==
    /\ Next
    /\ Stays(sync, SyncWorkers) /\ Stays(rec, Reconcilers) /\ Stays(ret, RetentionJobs)
    /\ Stays(con, Consolidators) /\ Stays(er, Erasers)
    /\ \A v \in Convs \ deployment.conversations : convs'[v] = convs[v]
    /\ \A m \in MemoryIds : m > deployment.rows => rows'[m] = rows[m]
    /\ Cardinality(Chunks') <= deployment.chunks
    /\ faults' <= deployment.faults
    /\ UNCHANGED deployment

DeploymentsSpec == DeploymentsInit /\ [][DeploymentsNext]_<<vars, deployment>>
=============================================================================
