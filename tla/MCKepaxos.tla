----------------------------- MODULE MCKepaxos ------------------------------
(* Kepaxos instantiated for TLC. *)
EXTENDS Kepaxos

(* Replicas are labelled by their index in the peer list. *)
ThreeReplicas == 0 .. 2
FourReplicas == 0 .. 3
OwnIndex == [r \in Replicas |-> r]

(* Every log file is new. *)
FreshLogs == {[r \in Replicas |-> [k \in Keys |-> 0]]}

(* Logs that have drifted apart, as after lost COMMIT messages: replica 0  *)
(* is at seq 1, replica 1 is new and replica 2 is at seq 2, for every key. *)
DriftedLogs == {[r \in Replicas |-> [k \in Keys |-> (0 :> 1 @@ 1 :> 0 @@ 2 :> 2)[r]]]}

(* Replica 2 is one commit ahead of the others. *)
OneAhead == {[r \in Replicas |-> [k \in Keys |-> IF r = 2 THEN 1 ELSE 0]]}

(* The calls of kepaxos_run_command the host makes at each replica. *)
TwoClients == [r \in Replicas |-> IF r \in {0, 1} THEN 1 ELSE 0]
ThreeClients == [r \in Replicas |-> 1]
Reissuing == [r \in Replicas |-> (0 :> 1 @@ 1 :> 2 @@ 2 :> 0)[r]]

(* The host runs one command at replica 1 and one at replica 2. *)
LaterClients == [r \in Replicas |-> IF r \in {1, 2} THEN 1 ELSE 0]

OneClient == [r \in Replicas |-> IF r = 0 THEN 1 ELSE 0]

NoReplicas == {}
FirstReplica == {0}
LastReplica == {2}
LaterReplicas == {1, 2}
=============================================================================
