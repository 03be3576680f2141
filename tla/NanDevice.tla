------------------------------ MODULE NanDevice ------------------------------
(***************************************************************************)
(* The handlers of one device, whole: what a received beacon                *)
(* (src/src/rx.c), a received action frame, the end of a discovery window, *)
(* the peer cleaner (src/daemon/core.c) and the "set" and "peer" commands  *)
(* (src/daemon/cmd.c) do to the device's state.  The daemon runs them one  *)
(* at a time from a single event loop.                                     *)
(*                                                                         *)
(* average_error is left out: it only moves the moments at which the       *)
(* discovery window timers fire, and a user of this module lets those      *)
(* handlers run at any moment.                                             *)
(***************************************************************************)
EXTENDS NanPeer

Attribute == {"MASTER_INDICATION", "CLUSTER"}

(***************************************************************************)
(* A NAN beacon as its receiver sees it.  carries names the attributes     *)
(* that can be read; intact is FALSE when a later one cannot, or when      *)
(* bytes are left over.                                                    *)
(***************************************************************************)
Beacon ==
    [ type : {"SYNC", "DISCOVERY"},
      cluster_id : ClusterId,
      timestamp : Nat,
      carries : SUBSET Attribute,
      intact : BOOLEAN,
      master_preference : Byte,
      random_factor : Byte,
      anchor_master_rank : Rank,
      hop_count : Byte,
      ambtt : Ambtt ]

\* struct nan_state, less the parts that no handler here touches
DeviceTypeOK(d) ==
    /\ d = [ sync |-> d.sync, peers |-> d.peers, cluster_id |-> d.cluster_id,
             base_time |-> d.base_time ]
    /\ d.sync \in SyncState
    /\ d.peers \in [DOMAIN d.peers -> Peer]
    /\ DOMAIN d.peers \subseteq Addr
    /\ d.cluster_id \in ClusterId
    /\ d.base_time \in Int

init_nan_state(addr, cluster_id, now) ==
    [ sync |-> nan_sync_state_init(addr),
      peers |-> [ a \in {} |-> nan_peer_new(a, cluster_id, now) ],
      cluster_id |-> cluster_id,
      base_time |-> now ]

\* Mutant: the device's own clock, not the cluster's.
OwnClock(d, now) == now

nan_timer_get_synced_time(d, now) == now - d.base_time

\* Mutant: the clocks' difference is added with the wrong sign.
SyncBackwards(d, now, timestamp) ==
    d.base_time + (timestamp - nan_timer_get_synced_time(d, now))

\* The base time that makes the synced time equal to timestamp.
nan_timer_sync_time(d, now, timestamp) ==
    d.base_time + (nan_timer_get_synced_time(d, now) - timestamp)

----------------------------------------------------------------------------
(* Beacons. *)

nan_build_beacon_frame(d, type, now) ==
    [ type |-> type,
      cluster_id |-> d.cluster_id,
      timestamp |-> nan_timer_get_synced_time(d, now),
      carries |-> Attribute,
      intact |-> TRUE,
      master_preference |-> d.sync.master_preference,
      random_factor |-> d.sync.random_factor,
      anchor_master_rank |-> d.sync.anchor_master_rank,
      hop_count |-> d.sync.hop_count,
      ambtt |-> d.sync.ambtt ]

\* Mutant: clusters of the same preference are never told apart.
GradeWithoutTime(preferenceA, timestampA, preferenceB, timestampB) ==
    preferenceA < preferenceB

\* The low 19 bits of a timestamp in microseconds are its time within a
\* discovery window interval.
nan_cluster_compare_grade(preferenceA, timestampA, preferenceB, timestampB) ==
    \/ preferenceA < preferenceB
    \/ preferenceA = preferenceB /\ timestampA % DwTicks < timestampB % DwTicks

\* Mutant: the cluster attribute is not read.
ParseIndicationOnly(peer, b) ==
    IF "MASTER_INDICATION" \in b.carries
    THEN nan_peer_set_master_indication(peer, b.master_preference, b.random_factor)
    ELSE peer

\* The sender's entry once the attributes have been read into it.
ParseAttributes(peer, b) ==
    LET indicated ==
            IF "MASTER_INDICATION" \in b.carries
            THEN nan_peer_set_master_indication(peer, b.master_preference, b.random_factor)
            ELSE peer
    IN  IF "CLUSTER" \in b.carries
        THEN nan_peer_set_anchor_master_information(
                 indicated, b.anchor_master_rank, b.ambtt, b.hop_count)
        ELSE indicated

\* Mutant: every sync beacon of the cluster sets the time.
TimeOfEveryBeacon(d, before, after, timestamp, now) ==
    nan_timer_sync_time(d, now, timestamp)

\* Mutant: with a new anchor master the cluster's time begins anew.
TimeBeginsAnew(d, before, after, timestamp, now) ==
    IF before.anchor_master_rank = after.anchor_master_rank THEN d.base_time ELSE now

\* Only a selection that took another anchor master sets the time.
TimeOfSelection(d, before, after, timestamp, now) ==
    IF before.anchor_master_rank = after.anchor_master_rank
    THEN d.base_time
    ELSE nan_timer_sync_time(d, now, timestamp)

(***************************************************************************)
(* random is what get_rand_num returns, should the master preference be    *)
(* updated; rssi is the class of the sender's average signal.  The master  *)
(* candidate flag is set from the anchor the device has BEFORE this beacon *)
(* may change it.                                                          *)
(***************************************************************************)
nan_rx_beacon(d, addr, b, rssi, random, now) ==
    LET parsed == ParseAttributes(nan_peer_add(d.peers, addr, b.cluster_id, now), b)
        heard  == nan_peer_set_beacon_information(parsed, rssi, b.timestamp)
        ranked == nan_update_master_preference(d.sync, heard, now, random)
        peer   == nan_check_master_candidate(ranked, heard)
        peers  == Put(d.peers, addr, peer)
        is_new_cluster == b.cluster_id # d.cluster_id
        in_initial_cluster == DOMAIN d.peers = {}
        compared == is_new_cluster \/ in_initial_cluster
        joins == nan_cluster_compare_grade(
                     ranked.master_preference, nan_timer_get_synced_time(d, now),
                     peer.master_preference, b.timestamp)
        selected == nan_anchor_master_selection(
                        ranked, peer, nan_timer_get_synced_time(d, now))
    IN  IF ~b.intact
        THEN [ d EXCEPT !.peers = Put(d.peers, addr, parsed) ]
        ELSE IF compared /\ joins
        THEN [ d EXCEPT !.peers = peers,
                        !.sync = ranked,
                        !.cluster_id = b.cluster_id,
                        !.base_time = nan_timer_sync_time(d, now, b.timestamp) ]
        ELSE IF ~compared /\ b.type = "SYNC"
        THEN [ d EXCEPT !.peers = peers,
                        !.sync = selected,
                        !.base_time =
                            TimeOfSelection(d, ranked, selected, b.timestamp, now) ]
        ELSE [ d EXCEPT !.peers = peers, !.sync = ranked ]

\* Any action frame with the NAN OUI refreshes its sender's entry.
nan_rx_action(d, addr, cluster_id, now) ==
    [ d EXCEPT !.peers = Put(@, addr, nan_peer_add(@, addr, cluster_id, now)) ]

----------------------------------------------------------------------------
(* Timers and commands. *)

nan_handle_discovery_window_end(d, now) ==
    [ d EXCEPT !.sync = nan_check_anchor_master_expiration(
                            nan_master_election(@, d.peers, now)) ]

nan_clean_peers(d, now) == [ d EXCEPT !.peers = nan_peers_clean(@, now) ]

\* "peer <address> rm"; its address is that of a peer in the table.
nan_cmd_peer_rm(d, addr) == [ d EXCEPT !.peers = nan_peer_remove(@, addr) ]

\* Mutant: the preference is stored and the rank is left as it was.
SetMpWithoutRank(d, value) == [ d EXCEPT !.sync.master_preference = value ]

nan_cmd_set_mp(d, value) ==
    [ d EXCEPT !.sync =
        nan_update_master_rank([ @ EXCEPT !.master_preference = value ]) ]

nan_cmd_set_rf(d, value) ==
    [ d EXCEPT !.sync =
        nan_update_master_rank([ @ EXCEPT !.random_factor = value ]) ]
=============================================================================
