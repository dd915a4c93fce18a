--------------------------- MODULE ClusterSandbox ---------------------------
(***************************************************************************)
(* app/services/system_engine.py from ClusterSimulator on: the simulated    *)
(* pods of K8S_CLUSTER mode. Its coroutines never await anything, so each   *)
(* runs to its end without the event loop switching to another task.        *)
(*                                                                          *)
(* A pod's memory is kept as one bit, whether it is at or above the 75%     *)
(* that _degraded_pod_candidates looks at; cpu, status and the cluster-wide *)
(* rates are display only. One PodTick stands for any number of random-walk *)
(* steps between two observations.                                          *)
(***************************************************************************)
EXTENDS Naturals

CONSTANTS Pod,
          Gateway,  \* "payment-gateway-pod", the one pod that starts anomalous
          None

VARIABLE pods

PodState == [restarts : Nat, anomaly : BOOLEAN, memory : {"normal", "saturated"}]

ClusterTypeOK == pods \in [Pod -> PodState]

ClusterInit ==
    pods = [p \in Pod |->
              IF p = Gateway
              THEN [restarts |-> 3, anomaly |-> TRUE, memory |-> "saturated"]
              ELSE [restarts |-> 0, anomaly |-> FALSE, memory |-> "normal"]]

(* tick: memory wanders, except that an anomalous gateway is clamped high. *)
PodTick ==
    \E saturated \in SUBSET Pod :
        /\ \A p \in Pod : p = Gateway /\ pods[p].anomaly => p \in saturated
        /\ pods' = [p \in Pod |->
               [pods[p] EXCEPT !.memory = IF p \in saturated THEN "saturated" ELSE "normal"]]

(* cluster_execute on PROCESS_KILL and ROLLBACK, recover_pod included. *)
AfterRestart(p) ==
    LET recovered == p = Gateway /\ pods[p].anomaly
    IN  [restarts |-> pods[p].restarts + 1,
         anomaly |-> pods[p].anomaly /\ ~recovered,
         memory |-> IF recovered THEN "normal" ELSE pods[p].memory]

(* cluster_execute for real: isolating a pod changes nothing in the sandbox. *)
ClusterExecute(p, intent) ==
    pods' = IF intent = "NETWORK_ISOLATE" THEN pods ELSE [pods EXCEPT ![p] = AfterRestart(p)]

(* cluster_restore_pod: the snapshot verbatim, or a healthy state without one. *)
RestorePod(p, snapshot) ==
    pods' = [pods EXCEPT ![p] =
               IF snapshot # None THEN snapshot
               ELSE [@ EXCEPT !.anomaly = FALSE, !.memory = "normal"]]

=============================================================================
