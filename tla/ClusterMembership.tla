-------------------------- MODULE ClusterMembership --------------------------
(***************************************************************************)
(* What synchronization promises of clusters and their time, whatever      *)
(* anchor masters, elections and grades decide: a device starts a cluster  *)
(* of its own, of a time of its own, and leaves it only for the cluster    *)
(* and the time, together, that another device had when it announced them. *)
(***************************************************************************)
EXTENDS Integers

CONSTANTS Device, ClusterId

VARIABLES
    now,
    cluster,    \* the cluster each device is in: its id and when its time began
    announced   \* the clusters that announcements on their way are about

vars == <<now, cluster, announced>>

Cluster == [cluster_id : ClusterId, base_time : Int]

\* The clusters that a device is in or may still follow into.
InUse == announced \cup { cluster[n] : n \in Device }

Init ==
    /\ now \in Nat
    /\ cluster \in [Device -> Cluster]
    /\ announced = {}

\* Announcements are handled before the interval they were made in ends.
Tick ==
    /\ now' \in Nat /\ now' > now
    /\ announced = {}
    /\ UNCHANGED <<cluster, announced>>

Announce(n) ==
    /\ UNCHANGED <<now, cluster>>
    /\ announced' \subseteq announced \cup {cluster[n]}

\* An announcement arrives, or is lost.
Hear(n) ==
    /\ \E c \in announced : cluster' \in {cluster, [cluster EXCEPT ![n] = c]}
    /\ announced' \subseteq announced
    /\ UNCHANGED now

Found(n) ==
    /\ \E id \in ClusterId :
          cluster' = [ cluster EXCEPT ![n] = [cluster_id |-> id, base_time |-> now] ]
    /\ announced' \subseteq announced
    /\ UNCHANGED now

Next == Tick \/ \E n \in Device : Announce(n) \/ Hear(n) \/ Found(n)

Spec == Init /\ [][Next]_vars
=============================================================================
