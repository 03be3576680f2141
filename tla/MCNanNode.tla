------------------------------ MODULE MCNanNode ------------------------------
(***************************************************************************)
(* A device with address 2 and neighbours around it for TLC.  Ranks that   *)
(* arrive: a neighbour's, high and low, a third party's above every other, *)
(* and one the device itself may have issued before.                       *)
(***************************************************************************)
EXTENDS NanNode

MCNeighbours == {1}
MCAddr == {1, 2, 3}

Received ==
    { [mp |-> 2, rf |-> 0, addr |-> 1], [mp |-> 0, rf |-> 0, addr |-> 1],
      [mp |-> 2, rf |-> 0, addr |-> 2], [mp |-> 1, rf |-> 0, addr |-> 3] }

\* With hop count 0 the receiver ignores the transmission time.
Paths == { <<0, 0>>, <<1, 1>> }

Heard(type, c, carries, intact, mp, rank, path) ==
    [ type |-> type, cluster_id |-> c, timestamp |-> 1,
      carries |-> carries, intact |-> intact,
      master_preference |-> mp, random_factor |-> 0,
      anchor_master_rank |-> rank, hop_count |-> path[1], ambtt |-> path[2] ]

\* Sync beacons of the device's cluster and a foreign cluster to join, and
\* one beacon that breaks off after its first attribute.
MCBeacons ==
    { Heard("SYNC", "c1", Attribute, TRUE, mp, rank, path) :
          mp \in {2}, rank \in Received, path \in Paths }
    \cup { Heard("DISCOVERY", "c2", Attribute, TRUE, mp, rank, <<0, 0>>) :
          mp \in {2}, rank \in { [mp |-> 2, rf |-> 0, addr |-> 1] } }
    \cup { Heard("SYNC", "c1", {"MASTER_INDICATION"}, FALSE, 2, ZeroRank, <<0, 0>>) }
=============================================================================
