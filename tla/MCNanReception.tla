---------------------------- MODULE MCNanReception ----------------------------
(***************************************************************************)
(* One message of each shape.  An info of 5 bytes counts as long, and a    *)
(* byte that belongs to nothing may read as the id of any attribute, or as *)
(* a length that fits or does not.                                         *)
(***************************************************************************)
EXTENDS NanReception

CONSTANTS Peer, Broadcast, Cluster, Name

Header(kind, src, oui) ==
    [ kind |-> kind, src |-> src, dst |-> Broadcast, cluster_id |-> Cluster, oui |-> oui ]

BeaconOf(type, src, oui) ==
    Header("beacon", src, oui) @@
        [ type |-> type, timestamp |-> 70000,
          master_preference |-> 128, random_factor |-> 7,
          anchor_master_rank |-> 9000, hop_count |-> 2, ambtt |-> 600 ]

\* A service as this program describes it.
Own(control_type, published, info) ==
    [ service_id |-> Name, instance_id |-> 21, requestor_instance_id |-> 0,
      control_type |-> control_type, published |-> published, update_indicator |-> 4,
      info |-> info, binding |-> FALSE, matching |-> FALSE, response |-> FALSE,
      range |-> FALSE, miscounted |-> -1 ]

\* One as another program may, with what an extension says of its info.
Other(published, miscounted) ==
    [ Own(1, published, 2) EXCEPT !.binding = TRUE, !.matching = TRUE, !.response = TRUE,
                                  !.range = TRUE, !.miscounted = miscounted ]

Discovery(kind, services) == Header(kind, Peer, NAN_OUI) @@ [ services |-> services ]

MCMessages ==
    { BeaconOf("SYNC", Peer, NAN_OUI), BeaconOf("DISCOVERY", Peer, NAN_OUI),
      BeaconOf("DISCOVERY", Peer, 1), BeaconOf("SYNC", Self, NAN_OUI),
      BeaconOf("OTHER", Peer, NAN_OUI),
      Discovery("discovery", << Own(0, TRUE, 3) >>),
      Discovery("discovery", << Own(0, TRUE, 5), Own(1, FALSE, -1) >>),
      Discovery("discovery", << Other(FALSE, -1) >>),
      Discovery("discovery", << Other(TRUE, 0) >>),
      Discovery("discovery", << [ Other(FALSE, 7) EXCEPT !.range = FALSE ] >>),
      Discovery("follow_up", << [ Own(2, FALSE, 0) EXCEPT !.requestor_instance_id = 33 ] >>),
      Discovery("follow_up", << Own(2, TRUE, 6) >>),
      Header("action", Peer, NAN_OUI) @@ [ oui_type |-> NAN_OUI_TYPE_ACTION ],
      Header("action", Peer, NAN_OUI) @@ [ oui_type |-> 9 ],
      Header("action", Peer, 1) @@ [ oui_type |-> NAN_OUI_TYPE_ACTION ],
      Header("data", Peer, NAN_OUI) }

MCGarbage == {0, 1, 2, 3, 14, 300}
=============================================================================
