--------------------------- MODULE MCNanAnchorWatch ---------------------------
(***************************************************************************)
(* A device with address 2 and one neighbour for TLC, which announces      *)
(* itself with two ranks, a third device, and a rank the device itself may *)
(* have had before.                                                        *)
(***************************************************************************)
EXTENDS NanAnchorWatch

MCNeighbours == {1}
MCAddr == {1, 2, 3}

MCReceived ==
    { [mp |-> 2, rf |-> 0, addr |-> 1], [mp |-> 0, rf |-> 0, addr |-> 1],
      [mp |-> 2, rf |-> 0, addr |-> 2], [mp |-> 1, rf |-> 0, addr |-> 3] }

MCBeacons ==
    { [ type |-> "SYNC", cluster_id |-> "c1", timestamp |-> 2,
        carries |-> Attribute, intact |-> TRUE,
        master_preference |-> 0, random_factor |-> 0,
        anchor_master_rank |-> rank, hop_count |-> 1, ambtt |-> ambtt ] :
          rank \in MCReceived, ambtt \in {0, 1, 2} }
=============================================================================
