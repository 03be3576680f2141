-------------------------- MODULE NanNetworkProofs --------------------------
(***************************************************************************)
(* Any number of devices, with frames lost and processes restarted: what   *)
(* each of them holds stays in its range, every anchor master rank that    *)
(* anyone follows, stores or announces was some device's own rank, and no  *)
(* announcement is below the one who makes it.  The clusters they are in   *)
(* are followed as ClusterMembership says: nothing but a restart adds a    *)
(* cluster, or a time, to those in use.                                    *)
(***************************************************************************)
EXTENDS NanNetwork, NanDeviceProofs, SequenceTheorems

Message == [from : Device, beacon : Beacon]

----------------------------------------------------------------------------
(* Ranges. *)

(***************************************************************************)
(* Each device satisfies the invariant of its handlers, and what is in     *)
(* flight is a beacon of a device.                                         *)
(***************************************************************************)
NetworkInv ==
    /\ now \in Nat
    /\ DOMAIN dev = Device
    /\ \A n \in Device : DeviceInv(dev[n], n, now)
    /\ inbox \in [Device -> Seq(Message)]
    /\ opened \subseteq Device /\ closed \subseteq opened
    /\ discovery \in [Device -> Nat]
    /\ issued \subseteq Rank

\* What a device builds from its state is a beacon.
LEMMA BuiltBeacon ==
    ASSUME NEW self, NEW t \in Nat, NEW d, DeviceInv(d, self, t),
           NEW type \in {"SYNC", "DISCOVERY"}
    PROVE  nan_build_beacon_frame(d, type, t) \in Beacon
<1>1. t - d.base_time \in Nat
  BY DEF DeviceInv, DeviceTypeOK
<1> QED
  BY <1>1 DEF DeviceInv, DeviceTypeOK, SyncInv, SyncState, nan_build_beacon_frame, Beacon,
              nan_timer_get_synced_time

\* A broadcast puts beacons into the queues.
LEMMA BroadcastInboxes ==
    ASSUME NetworkInv, NEW n \in Device, NEW b \in Beacon, Broadcast(n, b)
    PROVE  inbox' \in [Device -> Seq(Message)]
<1> DEFINE message == [from |-> n, beacon |-> b]
<1>1. message \in Message
  BY DEF Message
<1>2. \A m \in Device : inbox[m] \in Seq(Message)
  BY DEF NetworkInv
<1> HIDE DEF message
<1>3. \A m \in Device : Append(inbox[m], message) \in Seq(Message)
  BY <1>1, <1>2, AppendProperties
<1>4. inbox' = [ m \in Device |-> IF m = n THEN inbox[m] ELSE Append(inbox[m], message) ]
  BY DEF Broadcast, message
<1> QED
  BY <1>2, <1>3, <1>4

\* The oldest frame of a queue is a message, and taking it leaves a queue.
LEMMA TakeHead ==
    ASSUME NetworkInv, NEW n \in Device, inbox[n] # <<>>
    PROVE  /\ Head(inbox[n]) \in Message
           /\ [ inbox EXCEPT ![n] = Tail(@) ] \in [Device -> Seq(Message)]
<1>1. inbox[n] \in Seq(Message)
  BY DEF NetworkInv
<1>2. Head(inbox[n]) \in Message /\ Tail(inbox[n]) \in Seq(Message)
  BY <1>1, HeadTailProperties
<1> QED
  BY <1>2 DEF NetworkInv

\* The ranks of devices are ranks.
LEMMA IssuedAreRanks ==
    ASSUME NetworkInv, NEW d, DOMAIN d = Device, NEW t,
           \A n \in Device : DeviceInv(d[n], n, t)
    PROVE  Issue(d) \subseteq Rank
BY DEF NetworkInv, Issue, DeviceInv, SyncInv, SyncState

\* The state of one device changes, to one that satisfies the invariant.
LEMMA OneDevice ==
    ASSUME NetworkInv, NEW n \in Device, NEW d, DeviceInv(d, n, now)
    PROVE  /\ DOMAIN [ dev EXCEPT ![n] = d ] = Device
           /\ \A m \in Device : DeviceInv([ dev EXCEPT ![n] = d ][m], m, now)
BY DEF NetworkInv

\* Time passes.
LEMMA LaterDevice ==
    ASSUME NEW self, NEW t \in Nat, NEW u \in Nat, t <= u, NEW d, DeviceInv(d, self, t)
    PROVE  DeviceInv(d, self, u)
BY DEF DeviceInv, DeviceTypeOK

\* A device that was started and given a preference.
LEMMA StartedDevice ==
    ASSUME NEW n \in Device, NEW value \in Byte
    PROVE  DeviceInv(nan_cmd_set_mp(init_nan_state(n, InitialCluster[n], Start[n]), value),
                     n, Boot)
<1>1. /\ n \in Addr /\ InitialCluster[n] \in ClusterId
      /\ Start[n] \in Nat /\ Start[n] <= Boot /\ Boot \in Nat
  BY NetworkAssumption
<1>2. DeviceInv(init_nan_state(n, InitialCluster[n], Start[n]), n, Start[n])
  BY <1>1, InitDevice
<1> QED
  BY <1>1, <1>2, SetCommandInv, LaterDevice

\* The initial states satisfy the invariant.
LEMMA InitNetworkInv == Init => NetworkInv
<1> SUFFICES ASSUME Init
             PROVE  NetworkInv
  OBVIOUS
<1>1. PICK mp \in [Device -> Preferences] :
          dev = [ n \in Device |->
                    nan_cmd_set_mp(init_nan_state(n, InitialCluster[n], Start[n]), mp[n]) ]
  BY DEF Init
<1>2. now = Boot /\ now \in Nat
  BY NetworkAssumption DEF Init
<1>3. \A n \in Device : DeviceInv(dev[n], n, now)
  <2> SUFFICES ASSUME NEW n \in Device
               PROVE  DeviceInv(dev[n], n, now)
    OBVIOUS
  <2>1. mp[n] \in Byte
    BY NetworkAssumption
  <2> QED
    BY <1>1, <1>2, <2>1, StartedDevice
<1>4. issued \subseteq Rank
  <2>1. \A n \in Device : nan_sync_state_init(n).master_rank \in Rank
    BY NetworkAssumption, InitSync DEF SyncInv, SyncState
  <2>2. \A n \in Device : dev[n].sync.master_rank \in Rank
    BY <1>3 DEF DeviceInv, SyncInv, SyncState
  <2> QED
    BY <2>1, <2>2 DEF Init
<1>5. /\ inbox \in [Device -> Seq(Message)]
      /\ opened \subseteq Device /\ closed \subseteq opened
      /\ discovery \in [Device -> Nat]
  BY DEF Init
<1> QED
  BY <1>1, <1>2, <1>3, <1>4, <1>5 DEF NetworkInv

\* Every step keeps the invariant: one case per action.
LEMMA NextNetworkInv == NetworkInv /\ [Next]_vars => NetworkInv'
<1> SUFFICES ASSUME NetworkInv, [Next]_vars
             PROVE  NetworkInv'
  OBVIOUS
<1>1. CASE NextInterval
  <2>1. now' \in Nat /\ now <= now'
    BY <1>1, SyncAssumption DEF NextInterval, NetworkInv
  <2>2. \A n \in Device : DeviceInv(dev'[n], n, now')
    BY <1>1, <2>1, LaterDevice DEF NextInterval, NetworkInv
  <2> QED
    BY <1>1, <2>1, <2>2 DEF NextInterval, NetworkInv
<1>2. CASE \E n \in Device : OpenWindow(n)
  <2>1. PICK n \in Device : OpenWindow(n)
    BY <1>2
  <2>2. nan_build_beacon_frame(dev[n], "SYNC", now) \in Beacon
    BY BuiltBeacon DEF NetworkInv
  <2>3. inbox' \in [Device -> Seq(Message)]
    BY <2>1, <2>2, BroadcastInboxes DEF OpenWindow
  <2> QED
    BY <2>1, <2>3 DEF OpenWindow, NetworkInv
<1>3. CASE \E n \in Device : SendDiscoveryBeacon(n)
  <2>1. PICK n \in Device : SendDiscoveryBeacon(n)
    BY <1>3
  <2>2. nan_build_beacon_frame(dev[n], "DISCOVERY", now) \in Beacon
    BY BuiltBeacon DEF NetworkInv
  <2>3. inbox' \in [Device -> Seq(Message)]
    BY <2>1, <2>2, BroadcastInboxes DEF SendDiscoveryBeacon
  <2>4. discovery' \in [Device -> Nat]
    BY <2>1 DEF SendDiscoveryBeacon, NetworkInv
  <2> QED
    BY <2>1, <2>3, <2>4 DEF SendDiscoveryBeacon, NetworkInv
<1>4. CASE \E n \in Device : Receive(n)
  <2>1. PICK n \in Device : Receive(n)
    BY <1>4
  <2>2. PICK random \in RandomFactors :
            dev' = [ dev EXCEPT ![n] =
                       nan_rx_beacon(@, Head(inbox[n]).from, Head(inbox[n]).beacon,
                                     Signal, random, now) ]
    BY <2>1 DEF Receive
  <2> DEFINE after == nan_rx_beacon(dev[n], Head(inbox[n]).from, Head(inbox[n]).beacon,
                                    Signal, random, now)
  <2>3. dev' = [ dev EXCEPT ![n] = after ] /\ inbox' = [ inbox EXCEPT ![n] = Tail(@) ]
    BY <2>1, <2>2 DEF Receive, NetworkInv
  <2>4. inbox' \in [Device -> Seq(Message)] /\ Head(inbox[n]) \in Message
    BY <2>1, <2>3, TakeHead DEF Receive
  <2>5. /\ Head(inbox[n]).from \in Addr /\ Head(inbox[n]).beacon \in Beacon
        /\ n \in Addr /\ Signal \in RssiLevel /\ random \in Byte
    BY <2>4, NetworkAssumption DEF Message
  <2>6. DeviceInv(after, n, now)
    BY <2>5, RxBeaconInv DEF NetworkInv
  <2> HIDE DEF after
  <2>7. DOMAIN dev' = Device /\ \A m \in Device : DeviceInv(dev'[m], m, now)
    BY <2>3, <2>6, OneDevice
  <2>8. issued' \subseteq Rank
    BY <2>1, <2>7, IssuedAreRanks DEF Receive
  <2> QED
    BY <2>1, <2>4, <2>7, <2>8 DEF Receive, NetworkInv
<1>5. CASE \E n \in Device : CloseWindow(n)
  <2>1. PICK n \in Device : CloseWindow(n)
    BY <1>5
  <2>2. DeviceInv(nan_handle_discovery_window_end(dev[n], now), n, now)
    BY NetworkAssumption, WindowEndInv DEF NetworkInv
  <2>3. DOMAIN dev' = Device /\ \A m \in Device : DeviceInv(dev'[m], m, now)
    BY <2>1, <2>2, OneDevice DEF CloseWindow, NetworkInv
  <2> QED
    BY <2>1, <2>3 DEF CloseWindow, NetworkInv
<1>6. CASE \E n \in Device : Clean(n)
  <2>1. PICK n \in Device : Clean(n)
    BY <1>6
  <2>2. DeviceInv(nan_clean_peers(dev[n], now), n, now)
    BY NetworkAssumption, CleanPeersInv DEF NetworkInv
  <2>3. DOMAIN dev' = Device /\ \A m \in Device : DeviceInv(dev'[m], m, now)
    BY <2>1, <2>2, OneDevice DEF Clean, NetworkInv
  <2> QED
    BY <2>1, <2>3 DEF Clean, NetworkInv
<1>7. CASE \E n \in Device : Lose(n)
  <2>1. PICK n \in Device : Lose(n)
    BY <1>7
  <2>2. inbox' \in [Device -> Seq(Message)]
    BY <2>1, TakeHead DEF Lose
  <2> QED
    BY <2>1, <2>2 DEF Lose, NetworkInv
<1>8. CASE \E n \in Device : Restart(n)
  <2>1. PICK n \in Device : Restart(n)
    BY <1>8
  <2>2. PICK c \in ClusterId : dev' = [ dev EXCEPT ![n] = init_nan_state(n, c, now) ]
    BY <2>1 DEF Restart
  <2>3. DeviceInv(init_nan_state(n, c, now), n, now)
    BY NetworkAssumption, InitDevice DEF NetworkInv
  <2>4. DOMAIN dev' = Device /\ \A m \in Device : DeviceInv(dev'[m], m, now)
    BY <2>2, <2>3, OneDevice
  <2>5. issued' \subseteq Rank
    BY <2>1, <2>4, IssuedAreRanks DEF Restart
  <2>6. inbox' \in [Device -> Seq(Message)] /\ discovery' \in [Device -> Nat]
    BY <2>1 DEF Restart, NetworkInv
  <2> QED
    BY <2>1, <2>4, <2>5, <2>6 DEF Restart, NetworkInv
<1>9. CASE \E n \in Device, value \in Settings : SetPreference(n, value)
  <2>1. PICK n \in Device, value \in Settings : SetPreference(n, value)
    BY <1>9
  <2>2. DeviceInv(nan_cmd_set_mp(dev[n], value), n, now)
    BY NetworkAssumption, SetCommandInv DEF NetworkInv
  <2>3. DOMAIN dev' = Device /\ \A m \in Device : DeviceInv(dev'[m], m, now)
    BY <2>1, <2>2, OneDevice DEF SetPreference, NetworkInv
  <2>4. issued' \subseteq Rank
    BY <2>1, <2>3, IssuedAreRanks DEF SetPreference
  <2> QED
    BY <2>1, <2>3, <2>4 DEF SetPreference, NetworkInv
<1>10. CASE UNCHANGED vars
  BY <1>10 DEF vars, NetworkInv
<1> QED
  BY <1>1, <1>2, <1>3, <1>4, <1>5, <1>6, <1>7, <1>8, <1>9, <1>10
     DEF Next, Step, Disturbance

\* The invariant holds of every reachable state.
LEMMA NetworkInvariance == Spec => []NetworkInv
BY InitNetworkInv, NextNetworkInv, PTL DEF Spec

(***************************************************************************)
(* For any number of devices, whatever is lost and whoever restarts: every *)
(* handler leaves every field in its range, only beacons are in flight,    *)
(* and no device's cluster starts in the future.                           *)
(***************************************************************************)
THEOREM NetworkTypeCorrectness == Spec => []TypeOK
<1>1. NetworkInv => TypeOK
  BY DEF NetworkInv, TypeOK, DeviceInv, Message
<1> QED
  BY <1>1, NetworkInvariance, PTL

----------------------------------------------------------------------------
(* Where anchor master ranks come from. *)

(***************************************************************************)
(* What a device holds and what is in flight, against a set of ranks.  An  *)
(* entry of the peer table tells the truth because the beacon that made it *)
(* carried both attributes: without that the anchor of a new entry would   *)
(* be ZeroRank, which nobody ever had.                                     *)
(***************************************************************************)
PeerTruthful(p, a, ranks) ==
    /\ p.addr = a
    /\ p.anchor_master_rank \in ranks
    /\ nan_get_peer_master_rank(p) \in ranks
    /\ RankLeq(nan_get_peer_master_rank(p), p.anchor_master_rank)

PeersTruthful(peers, ranks) ==
    \A a \in DOMAIN peers : PeerTruthful(peers[a], a, ranks)

DeviceTruthful(d, ranks) ==
    /\ d.sync.master_rank \in ranks
    /\ d.sync.anchor_master_rank \in ranks
    /\ PeersTruthful(d.peers, ranks)

BeaconTruthful(b, from, ranks) ==
    /\ b.carries = Attribute /\ b.intact
    /\ b.anchor_master_rank \in ranks
    /\ nan_calculate_master_rank(b.master_preference, b.random_factor, from) \in ranks
    /\ RankLeq(nan_calculate_master_rank(b.master_preference, b.random_factor, from),
               b.anchor_master_rank)

QueueTruthful(q, ranks) ==
    \A i \in 1 .. Len(q) : BeaconTruthful(q[i].beacon, q[i].from, ranks)

Truthful ==
    \A n \in Device : DeviceTruthful(dev[n], issued) /\ QueueTruthful(inbox[n], issued)

\* A larger set of ranks makes nothing untrue.
LEMMA MoreRanks ==
    ASSUME NEW ranks, NEW more, ranks \subseteq more
    PROVE  /\ \A d : DeviceTruthful(d, ranks) => DeviceTruthful(d, more)
           /\ \A q : QueueTruthful(q, ranks) => QueueTruthful(q, more)
BY DEF DeviceTruthful, PeersTruthful, PeerTruthful, QueueTruthful, BeaconTruthful

(***************************************************************************)
(* From where a device takes its anchor: from itself, or it stays.         *)
(***************************************************************************)
OwnOrSame(s, r) ==
    r.anchor_master_rank \in {s.anchor_master_rank, r.master_rank}

\* A change of the own rank brings no other anchor.
LEMMA UpdateRankAnchor ==
    ASSUME NEW s \in SyncState
    PROVE  OwnOrSame(s, nan_update_master_rank(s))
<1> DEFINE rank == nan_calculate_master_rank(s.master_preference, s.random_factor,
                                             s.master_rank.addr)
           updated == [ s EXCEPT !.master_rank = rank ]
           own == [ updated EXCEPT !.last_anchor_master_rank = s.anchor_master_rank,
                                   !.anchor_master_rank = rank ]
<1> HIDE DEF rank
<1>1. /\ updated.anchor_master_rank = s.anchor_master_rank
      /\ own.anchor_master_rank = rank /\ own.master_rank = rank
      /\ nan_set_anchor_master_self(updated).anchor_master_rank = rank
      /\ nan_set_anchor_master_self(updated).master_rank = rank
  BY DEF SyncState, nan_set_anchor_master_self, nan_save_current_anchor_master
<1>2. nan_update_master_rank(s) \in {s, own, nan_set_anchor_master_self(updated), updated}
  BY DEF nan_update_master_rank, rank
<1> QED
  BY <1>1, <1>2 DEF OwnOrSame

\* Renewing preference and random factor brings no other anchor.
LEMMA UpdatePreferenceAnchor ==
    ASSUME NEW s \in SyncState, NEW peer, NEW t \in Nat, NEW random \in Byte
    PROVE  OwnOrSame(s, nan_update_master_preference(s, peer, t, random))
<1> DEFINE elapsed_dws == (t - s.last_master_preference_update) \div DwTicks
           refreshed == IF elapsed_dws > RfUpdateMinDw
                        THEN [ s EXCEPT !.random_factor = random ]
                        ELSE s
           preferred == IF elapsed_dws > MpUpdateMinDw
                        THEN [ refreshed EXCEPT !.master_preference = MasterPreference,
                                                !.last_master_preference_update = t ]
                        ELSE refreshed
<1> HIDE DEF elapsed_dws
<1>1. preferred \in SyncState /\ preferred.anchor_master_rank = s.anchor_master_rank
  BY SyncAssumption DEF SyncState
<1> HIDE DEF preferred
<1>2. OwnOrSame(preferred, nan_update_master_rank(preferred))
  BY <1>1, UpdateRankAnchor
<1>3. \/ nan_update_master_preference(s, peer, t, random) = s
      \/ nan_update_master_preference(s, peer, t, random) = nan_update_master_rank(preferred)
  BY DEF nan_update_master_preference, preferred, elapsed_dws
<1> QED
  BY <1>1, <1>2, <1>3 DEF OwnOrSame

\* Selection takes the peer's anchor, or the device itself, or changes none.
LEMMA SelectedAnchor ==
    ASSUME NEW s \in SyncState, NEW peer \in Peer, NEW t
    PROVE  LET q == nan_anchor_master_selection(s, peer, t) IN
           /\ q.master_rank = s.master_rank
           /\ q.anchor_master_rank \in
                  {s.anchor_master_rank, s.master_rank, peer.anchor_master_rank}
<1> DEFINE other(r) == nan_set_anchor_master_other(r, peer)
           Fine(r) == /\ r \in SyncState
                      /\ r.master_rank = s.master_rank
                      /\ r.anchor_master_rank \in
                            {s.anchor_master_rank, s.master_rank, peer.anchor_master_rank}
           Good(r) == /\ r.master_rank = s.master_rank
                      /\ r.anchor_master_rank \in
                            {s.anchor_master_rank, s.master_rank, peer.anchor_master_rank}
<1>1. Fine(s)
  OBVIOUS
<1>2. Fine(other(s))
  <2>1. (peer.hop_count + 1) % ByteMod \in Byte
    <3>1. peer.hop_count + 1 \in Nat
      BY ByteIsNat DEF Peer
    <3> QED
      BY <3>1, ByteFacts
  <2> QED
    BY <2>1 DEF SyncState, Peer, nan_set_anchor_master_other, nan_save_current_anchor_master
<1>3. \A r : Fine(r) => /\ Good(SelectHigher(r, peer)) /\ Good(SelectLower(r, peer))
                        /\ Good(SelectSame(r, peer)) /\ Good(r)
  BY DEF SyncState, Peer, SelectHigher, SelectLower, SelectSame, nan_set_anchor_master_other,
         nan_set_anchor_master_self, nan_save_current_anchor_master
<1> HIDE DEF Fine, other
<1>4. \E r \in {s, other(s)} :
          nan_anchor_master_selection(s, peer, t) \in
              {r, SelectHigher(r, peer), SelectLower(r, peer), SelectSame(r, peer)}
  BY DEF nan_anchor_master_selection, other
<1>5. Good(nan_anchor_master_selection(s, peer, t))
  <2> HIDE DEF Good
  <2> QED
    BY <1>1, <1>2, <1>3, <1>4
<1> QED
  BY <1>5

\* Expiration replaces the anchor by the device itself, an election by nothing.
LEMMA WindowEndAnchor ==
    ASSUME NEW self \in Addr, NEW s, SyncInv(s, self), NEW peers, NEW t
    PROVE  LET r == nan_check_anchor_master_expiration(nan_master_election(s, peers, t)) IN
           r.master_rank = s.master_rank /\ OwnOrSame(s, r)
<1> DEFINE e == nan_master_election(s, peers, t)
<1>1. e \in SyncState
  BY Election DEF SyncInv
<1>2. e.anchor_master_rank = s.anchor_master_rank /\ e.master_rank = s.master_rank
  BY DEF nan_master_election, SyncInv, SyncState
<1> HIDE DEF e
<1>3. nan_check_anchor_master_expiration(e).master_rank = e.master_rank
      /\ OwnOrSame(e, nan_check_anchor_master_expiration(e))
  BY <1>1 DEF nan_check_anchor_master_expiration, nan_set_anchor_master_self, OwnOrSame,
              nan_save_current_anchor_master, SyncState
<1>4. nan_check_anchor_master_expiration(e).master_rank = s.master_rank
      /\ OwnOrSame(s, nan_check_anchor_master_expiration(e))
  BY <1>2, <1>3 DEF OwnOrSame
<1> QED
  BY <1>4 DEF e

----------------------------------------------------------------------------
(* What each handler makes of the truth. *)

\* What a truthful device announces is true.
LEMMA BuiltTruthful ==
    ASSUME NEW self, NEW t, NEW d, DeviceInv(d, self, t), NEW ranks,
           DeviceTruthful(d, ranks), NEW type
    PROVE  BeaconTruthful(nan_build_beacon_frame(d, type, t), self, ranks)
BY DEF DeviceInv, SyncInv, DeviceTruthful, BeaconTruthful, nan_build_beacon_frame

\* A device that has just started knows only itself.
LEMMA InitTruthful ==
    ASSUME NEW self, NEW c, NEW t, NEW ranks,
           nan_sync_state_init(self).master_rank \in ranks
    PROVE  DeviceTruthful(init_nan_state(self, c, t), ranks)
BY DEF DeviceTruthful, PeersTruthful, init_nan_state, nan_sync_state_init

\* A change of the sync state that leads to the device itself, or nowhere.
LEMMA SyncTruthful ==
    ASSUME NEW d, DeviceTypeOK(d), NEW ranks, DeviceTruthful(d, ranks),
           NEW s, OwnOrSame(d.sync, s), s.master_rank \in ranks
    PROVE  DeviceTruthful([ d EXCEPT !.sync = s ], ranks)
BY DEF DeviceTruthful, DeviceTypeOK, OwnOrSame

\* Setting a preference.
LEMMA SetMpTruthful ==
    ASSUME NEW d, DeviceTypeOK(d), NEW value \in Byte, NEW ranks, DeviceTruthful(d, ranks),
           nan_cmd_set_mp(d, value).sync.master_rank \in ranks
    PROVE  DeviceTruthful(nan_cmd_set_mp(d, value), ranks)
<1> DEFINE set == [ d.sync EXCEPT !.master_preference = value ]
           s   == nan_update_master_rank(set)
<1>1. set \in SyncState /\ set.anchor_master_rank = d.sync.anchor_master_rank
  BY DEF DeviceTypeOK, SyncState
<1> HIDE DEF set
<1>2. OwnOrSame(d.sync, s)
  BY <1>1, UpdateRankAnchor DEF OwnOrSame
<1>3. nan_cmd_set_mp(d, value) = [ d EXCEPT !.sync = s ]
  BY DEF nan_cmd_set_mp, set, DeviceTypeOK
<1> HIDE DEF s
<1>4. nan_cmd_set_mp(d, value).sync = s
  BY <1>3 DEF DeviceTypeOK
<1> QED
  BY <1>2, <1>3, <1>4, SyncTruthful

\* The end of a window.
LEMMA WindowEndTruthful ==
    ASSUME NEW self \in Addr, NEW t, NEW d, DeviceInv(d, self, t), NEW ranks,
           DeviceTruthful(d, ranks)
    PROVE  DeviceTruthful(nan_handle_discovery_window_end(d, t), ranks)
<1> DEFINE s == nan_check_anchor_master_expiration(nan_master_election(d.sync, d.peers, t))
<1>1. s.master_rank = d.sync.master_rank /\ OwnOrSame(d.sync, s)
  BY WindowEndAnchor DEF DeviceInv
<1>2. nan_handle_discovery_window_end(d, t) = [ d EXCEPT !.sync = s ]
  BY DEF nan_handle_discovery_window_end
<1> HIDE DEF s
<1>3. s.master_rank \in ranks
  BY <1>1 DEF DeviceTruthful
<1> QED
  BY <1>1, <1>2, <1>3, SyncTruthful DEF DeviceInv

\* Removing silent peers.
LEMMA CleanTruthful ==
    ASSUME NEW t, NEW d, DeviceTypeOK(d), NEW ranks, DeviceTruthful(d, ranks)
    PROVE  DeviceTruthful(nan_clean_peers(d, t), ranks)
<1>1. /\ nan_clean_peers(d, t).sync = d.sync
      /\ nan_clean_peers(d, t).peers = nan_peers_clean(d.peers, t)
  BY DEF nan_clean_peers, DeviceTypeOK
<1>2. /\ DOMAIN nan_peers_clean(d.peers, t) \subseteq DOMAIN d.peers
      /\ \A a \in DOMAIN nan_peers_clean(d.peers, t) :
            nan_peers_clean(d.peers, t)[a] = d.peers[a]
  BY DEF nan_peers_clean
<1> QED
  BY <1>1, <1>2 DEF DeviceTruthful, PeersTruthful

\* The entry of the sender of a truthful beacon.
LEMMA HeardTruthful ==
    ASSUME NEW peers, PeersOK(peers), NEW ranks,
           PeersTruthful(peers, ranks),
           NEW a \in Addr, NEW b \in Beacon, BeaconTruthful(b, a, ranks), NEW t \in Nat,
           NEW rssi \in RssiLevel, NEW s,
           NEW p, p = nan_check_master_candidate(s,
                          nan_peer_set_beacon_information(
                              ParseAttributes(nan_peer_add(peers, a, b.cluster_id, t), b),
                              rssi, b.timestamp))
    PROVE  PeerTruthful(p, a, ranks) /\ p.anchor_master_rank = b.anchor_master_rank
<1> DEFINE added  == nan_peer_add(peers, a, b.cluster_id, t)
           indicated == nan_peer_set_master_indication(
                            added, b.master_preference, b.random_factor)
           parsed == nan_peer_set_anchor_master_information(
                         indicated, b.anchor_master_rank, b.ambtt, b.hop_count)
           heard  == nan_peer_set_beacon_information(parsed, rssi, b.timestamp)
           last   == nan_check_master_candidate(s, heard)
<1>1. added \in Peer /\ added.addr = a
  <2>1. added \in Peer
    BY AddPeer DEF Beacon
  <2>2. CASE a \in DOMAIN peers
    <3>1. peers[a] \in Peer /\ peers[a].addr = a
      BY <2>2 DEF PeersOK, PeersTruthful, PeerTruthful
    <3> QED
      BY <2>1, <2>2, <3>1 DEF nan_peer_add, Peer
  <2>3. CASE a \notin DOMAIN peers
    BY <2>1, <2>3 DEF nan_peer_add, nan_peer_new
  <2> QED
    BY <2>1, <2>2, <2>3
<1> HIDE DEF added
<1>2. /\ indicated \in Peer /\ indicated.addr = a
      /\ indicated.master_preference = b.master_preference
      /\ indicated.random_factor = b.random_factor
  BY <1>1 DEF nan_peer_set_master_indication, Peer, Beacon
<1>3. ParseAttributes(added, b) = parsed
  BY DEF ParseAttributes, BeaconTruthful, Attribute
<1>4. parsed \in Peer
  BY <1>1, <1>3, Parse
<1>5. /\ parsed.addr = a
      /\ parsed.master_preference = b.master_preference
      /\ parsed.random_factor = b.random_factor
      /\ parsed.anchor_master_rank = b.anchor_master_rank
  <2> HIDE DEF indicated
  <2> QED
    BY <1>2 DEF nan_peer_set_anchor_master_information, Peer, Beacon
<1> HIDE DEF parsed
<1>6. /\ last.addr = a
      /\ last.master_preference = b.master_preference
      /\ last.random_factor = b.random_factor
      /\ last.anchor_master_rank = b.anchor_master_rank
  BY <1>4, <1>5 DEF nan_check_master_candidate, nan_peer_set_beacon_information, Peer
<1> HIDE DEF last
<1>7. PeerTruthful(last, a, ranks) /\ last.anchor_master_rank = b.anchor_master_rank
  BY <1>6 DEF PeerTruthful, BeaconTruthful, nan_get_peer_master_rank
<1> QED
  BY <1>3, <1>7 DEF last, added

(***************************************************************************)
(* A truthful beacon, whichever way its handler goes: the anchor after it  *)
(* is the old one, the announced one or the device's new rank.             *)
(***************************************************************************)
LEMMA RxBeaconTruthful ==
    ASSUME NEW self \in Addr, NEW t \in Nat, NEW d, DeviceInv(d, self, t), NEW ranks,
           DeviceTruthful(d, ranks), NEW a \in Addr, NEW b \in Beacon,
           BeaconTruthful(b, a, ranks), NEW rssi \in RssiLevel, NEW random \in Byte,
           NEW more, ranks \subseteq more,
           nan_rx_beacon(d, a, b, rssi, random, t).sync.master_rank \in more
    PROVE  DeviceTruthful(nan_rx_beacon(d, a, b, rssi, random, t), more)
<1> DEFINE parsed == ParseAttributes(nan_peer_add(d.peers, a, b.cluster_id, t), b)
           heard  == nan_peer_set_beacon_information(parsed, rssi, b.timestamp)
           ranked == nan_update_master_preference(d.sync, heard, t, random)
           peer   == nan_check_master_candidate(ranked, heard)
           peers  == Put(d.peers, a, peer)
           selected == nan_anchor_master_selection(
                           ranked, peer, nan_timer_get_synced_time(d, t))
           result == nan_rx_beacon(d, a, b, rssi, random, t)
<1>1. PeersOK(d.peers) /\ SyncInv(d.sync, self) /\ DeviceTypeOK(d)
  BY DEF DeviceInv, DeviceTypeOK, PeersOK
<1>2. SyncInv(ranked, self) /\ OwnOrSame(d.sync, ranked)
  BY <1>1, UpdateMasterPreference, UpdatePreferenceAnchor DEF SyncInv
<1>3. PeerTruthful(peer, a, ranks) /\ peer.anchor_master_rank = b.anchor_master_rank
  <2>1. peer = nan_check_master_candidate(ranked, heard) /\ PeersTruthful(d.peers, ranks)
    BY DEF DeviceTruthful
  <2> HIDE DEF ranked, peer
  <2> QED
    BY <1>1, <2>1, HeardTruthful
<1>4. peer \in Peer
  <2>1. parsed \in Peer
    BY <1>1, AddPeer, Parse DEF Beacon
  <2>2. heard \in Peer
    BY <2>1, BeaconInformation DEF Beacon
  <2> QED
    BY <2>2, MasterCandidate
<1> HIDE DEF parsed, heard, ranked, peer
<1>5. /\ selected.master_rank = ranked.master_rank
      /\ selected.anchor_master_rank \in
            {ranked.anchor_master_rank, ranked.master_rank, b.anchor_master_rank}
  BY <1>2, <1>3, <1>4, SelectedAnchor DEF SyncInv
<1> HIDE DEF selected
<1>6. result.sync \in {ranked, selected} /\ result.peers = peers
  <2>1. d = [ sync |-> d.sync, peers |-> d.peers, cluster_id |-> d.cluster_id,
              base_time |-> d.base_time ]
    BY <1>1 DEF DeviceTypeOK
  <2>2. b.intact
    BY DEF BeaconTruthful
  <2> QED
    BY <2>1, <2>2 DEF nan_rx_beacon, parsed, heard, ranked, peer, selected
<1>7. PeersTruthful(peers, more)
  <2>1. PeersTruthful(d.peers, more)
    BY DEF DeviceTruthful, PeersTruthful, PeerTruthful
  <2>2. PeerTruthful(peer, a, more)
    BY <1>3 DEF PeerTruthful
  <2> QED
    BY <2>1, <2>2 DEF PeersTruthful, Put
<1> HIDE DEF peers
<1>8. result.sync.master_rank = ranked.master_rank
  BY <1>5, <1>6
<1>9. ranked.master_rank \in more
  BY <1>8
<1>10. result.sync.anchor_master_rank \in
          {d.sync.anchor_master_rank, ranked.master_rank, b.anchor_master_rank}
  BY <1>2, <1>5, <1>6 DEF OwnOrSame
<1>11. d.sync.anchor_master_rank \in more /\ b.anchor_master_rank \in more
  BY DEF DeviceTruthful, BeaconTruthful
<1>12. result.sync.anchor_master_rank \in more
  BY <1>9, <1>10, <1>11
<1> HIDE DEF result
<1>13. DeviceTruthful(result, more)
  BY <1>6, <1>7, <1>8, <1>9, <1>12 DEF DeviceTruthful
<1> QED
  BY <1>13 DEF result

----------------------------------------------------------------------------
(* The network. *)

\* A frame of a truthful queue tells the truth, and so does the rest.
LEMMA TakeTruthful ==
    ASSUME NEW q \in Seq(Message), q # <<>>, NEW ranks, QueueTruthful(q, ranks)
    PROVE  /\ BeaconTruthful(Head(q).beacon, Head(q).from, ranks)
           /\ QueueTruthful(Tail(q), ranks)
<1>1. Len(q) \in Nat /\ Len(q) > 0 /\ Head(q) = q[1]
  BY EmptySeq, LenProperties
<1>2. /\ Len(Tail(q)) = Len(q) - 1
      /\ \A i \in 1 .. Len(Tail(q)) : Tail(q)[i] = q[i + 1]
  BY HeadTailProperties
<1> QED
  BY <1>1, <1>2 DEF QueueTruthful

\* A true announcement keeps every queue truthful.
LEMMA BroadcastTruthful ==
    ASSUME NetworkInv, Truthful, NEW n \in Device, NEW b \in Beacon,
           BeaconTruthful(b, n, issued), Broadcast(n, b)
    PROVE  \A m \in Device : QueueTruthful(inbox'[m], issued)
<1> DEFINE message == [from |-> n, beacon |-> b]
<1>1. message \in Message /\ message.from = n /\ message.beacon = b
  BY DEF Message
<1>2. \A m \in Device : inbox[m] \in Seq(Message)
  BY DEF NetworkInv
<1>3. inbox' = [ m \in Device |-> IF m = n THEN inbox[m] ELSE Append(inbox[m], message) ]
  BY DEF Broadcast
<1> HIDE DEF message
<1>4. ASSUME NEW m \in Device
      PROVE  QueueTruthful(Append(inbox[m], message), issued)
  <2>1. /\ Len(Append(inbox[m], message)) = Len(inbox[m]) + 1
        /\ \A i \in 1 .. Len(inbox[m]) : Append(inbox[m], message)[i] = inbox[m][i]
        /\ Append(inbox[m], message)[Len(inbox[m]) + 1] = message
        /\ Len(inbox[m]) \in Nat
    BY <1>1, <1>2, AppendProperties, LenProperties
  <2> QED
    BY <1>1, <2>1 DEF QueueTruthful, Truthful
<1> QED
  BY <1>3, <1>4 DEF Truthful

(***************************************************************************)
(* One device changes to a truthful state; the others hold what they held, *)
(* against the ranks issued by then.                                       *)
(***************************************************************************)
LEMMA OneTruthful ==
    ASSUME NetworkInv, Truthful, NEW n \in Device, NEW d,
           dev' = [ dev EXCEPT ![n] = d ], issued' = Issue(dev'),
           d.sync.master_rank \in issued' => DeviceTruthful(d, issued')
    PROVE  /\ issued \subseteq issued'
           /\ \A m \in Device : DeviceTruthful(dev'[m], issued')
<1>1. issued \subseteq issued'
  BY DEF Issue
<1>2. dev'[n] = d /\ \A m \in Device \ {n} : dev'[m] = dev[m]
  BY DEF NetworkInv
<1>3. d.sync.master_rank \in issued'
  BY <1>2 DEF Issue
<1>4. ASSUME NEW m \in Device, m # n
      PROVE  DeviceTruthful(dev'[m], issued')
  <2>1. DeviceTruthful(dev[m], issued) /\ dev'[m] = dev[m]
    BY <1>2, <1>4 DEF Truthful
  <2>2. DeviceTruthful(dev[m], issued')
    BY <1>1, <2>1, MoreRanks
  <2> QED
    BY <2>1, <2>2
<1> QED
  BY <1>1, <1>2, <1>3, <1>4

\* The initial states are truthful.
LEMMA InitTruth == Init => Truthful
<1> SUFFICES ASSUME Init, NEW n \in Device
             PROVE  DeviceTruthful(dev[n], issued) /\ QueueTruthful(inbox[n], issued)
  BY DEF Truthful
<1>1. PICK mp \in [Device -> Preferences] :
          dev = [ m \in Device |->
                    nan_cmd_set_mp(init_nan_state(m, InitialCluster[m], Start[m]), mp[m]) ]
  BY DEF Init
<1> DEFINE started == init_nan_state(n, InitialCluster[n], Start[n])
<1>2. /\ n \in Addr /\ InitialCluster[n] \in ClusterId /\ Start[n] \in Nat
      /\ mp[n] \in Byte
  BY NetworkAssumption
<1>3. DeviceTypeOK(started)
  BY <1>2, InitDevice DEF DeviceInv
<1>4. nan_sync_state_init(n).master_rank \in issued /\ dev[n].sync.master_rank \in issued
  BY DEF Init
<1>5. DeviceTruthful(started, issued)
  BY <1>4, InitTruthful
<1>6. dev[n] = nan_cmd_set_mp(started, mp[n])
  BY <1>1
<1> HIDE DEF started
<1>7. DeviceTruthful(dev[n], issued)
  BY <1>2, <1>3, <1>4, <1>5, <1>6, SetMpTruthful
<1>8. QueueTruthful(inbox[n], issued)
  BY DEF Init, QueueTruthful
<1> QED
  BY <1>7, <1>8

\* Every step keeps the truth: one case per action.
LEMMA NextTruth == NetworkInv /\ Truthful /\ [Next]_vars => Truthful'
<1> SUFFICES ASSUME NetworkInv, Truthful, [Next]_vars
             PROVE  Truthful'
  OBVIOUS
<1>0. \A n \in Device : n \in Addr /\ DeviceInv(dev[n], n, now) /\ DeviceTypeOK(dev[n])
                       /\ DeviceTruthful(dev[n], issued) /\ QueueTruthful(inbox[n], issued)
  BY NetworkAssumption DEF NetworkInv, Truthful, DeviceInv
<1>1. CASE NextInterval \/ UNCHANGED vars
  BY <1>1 DEF NextInterval, vars, Truthful
<1>2. CASE \E n \in Device : OpenWindow(n)
  <2>1. PICK n \in Device : OpenWindow(n)
    BY <1>2
  <2>2. nan_build_beacon_frame(dev[n], "SYNC", now) \in Beacon
    BY BuiltBeacon DEF NetworkInv
  <2>3. BeaconTruthful(nan_build_beacon_frame(dev[n], "SYNC", now), n, issued)
    BY <1>0, BuiltTruthful
  <2>4. \A m \in Device : QueueTruthful(inbox'[m], issued)
    BY <2>1, <2>2, <2>3, BroadcastTruthful DEF OpenWindow
  <2> QED
    BY <2>1, <2>4 DEF OpenWindow, Truthful
<1>3. CASE \E n \in Device : SendDiscoveryBeacon(n)
  <2>1. PICK n \in Device : SendDiscoveryBeacon(n)
    BY <1>3
  <2>2. nan_build_beacon_frame(dev[n], "DISCOVERY", now) \in Beacon
    BY BuiltBeacon DEF NetworkInv
  <2>3. BeaconTruthful(nan_build_beacon_frame(dev[n], "DISCOVERY", now), n, issued)
    BY <1>0, BuiltTruthful
  <2>4. \A m \in Device : QueueTruthful(inbox'[m], issued)
    BY <2>1, <2>2, <2>3, BroadcastTruthful DEF SendDiscoveryBeacon
  <2> QED
    BY <2>1, <2>4 DEF SendDiscoveryBeacon, Truthful
<1>4. CASE \E n \in Device : Receive(n)
  <2>1. PICK n \in Device : Receive(n)
    BY <1>4
  <2>2. PICK random \in RandomFactors :
            dev' = [ dev EXCEPT ![n] =
                       nan_rx_beacon(@, Head(inbox[n]).from, Head(inbox[n]).beacon,
                                     Signal, random, now) ]
    BY <2>1 DEF Receive
  <2> DEFINE a == Head(inbox[n]).from
             b == Head(inbox[n]).beacon
             after == nan_rx_beacon(dev[n], a, b, Signal, random, now)
  <2>3. dev' = [ dev EXCEPT ![n] = after ] /\ inbox' = [ inbox EXCEPT ![n] = Tail(@) ]
        /\ issued' = Issue(dev')
    BY <2>1, <2>2 DEF Receive, NetworkInv
  <2>4. inbox[n] \in Seq(Message) /\ inbox[n] # <<>> /\ Head(inbox[n]) \in Message
    BY <2>1, TakeHead DEF NetworkInv, Receive
  <2>5. a \in Addr /\ b \in Beacon /\ Signal \in RssiLevel /\ random \in Byte
    BY <2>4, NetworkAssumption DEF Message
  <2>6. BeaconTruthful(b, a, issued) /\ QueueTruthful(Tail(inbox[n]), issued)
    BY <1>0, <2>4, TakeTruthful
  <2>7. issued \subseteq issued'
    BY <2>3 DEF Issue
  <2> HIDE DEF a, b
  <2>8. after.sync.master_rank \in issued' => DeviceTruthful(after, issued')
    BY <1>0, <2>5, <2>6, <2>7, RxBeaconTruthful DEF NetworkInv
  <2> HIDE DEF after
  <2>9. \A m \in Device : DeviceTruthful(dev'[m], issued')
    BY <2>3, <2>8, OneTruthful
  <2>10. \A m \in Device : QueueTruthful(inbox'[m], issued')
    BY <1>0, <2>3, <2>6, <2>7, MoreRanks DEF NetworkInv
  <2> QED
    BY <2>9, <2>10 DEF Truthful
<1>5. CASE \E n \in Device : CloseWindow(n)
  <2>1. PICK n \in Device : CloseWindow(n)
    BY <1>5
  <2>2. DeviceTruthful(nan_handle_discovery_window_end(dev[n], now), issued)
    BY <1>0, WindowEndTruthful
  <2> QED
    BY <1>0, <2>1, <2>2 DEF CloseWindow, Truthful, NetworkInv
<1>6. CASE \E n \in Device : Clean(n)
  <2>1. PICK n \in Device : Clean(n)
    BY <1>6
  <2>2. DeviceTruthful(nan_clean_peers(dev[n], now), issued)
    BY <1>0, CleanTruthful
  <2> QED
    BY <1>0, <2>1, <2>2 DEF Clean, Truthful, NetworkInv
<1>7. CASE \E n \in Device : Lose(n)
  <2>1. PICK n \in Device : Lose(n)
    BY <1>7
  <2>2. inbox[n] \in Seq(Message) /\ inbox[n] # <<>>
    BY <2>1 DEF NetworkInv, Lose
  <2>3. QueueTruthful(Tail(inbox[n]), issued)
    BY <1>0, <2>2, TakeTruthful
  <2> QED
    BY <1>0, <2>1, <2>3 DEF Lose, Truthful, NetworkInv
<1>8. CASE \E n \in Device : Restart(n)
  <2>1. PICK n \in Device : Restart(n)
    BY <1>8
  <2>2. PICK c \in ClusterId : dev' = [ dev EXCEPT ![n] = init_nan_state(n, c, now) ]
    BY <2>1 DEF Restart
  <2>3. init_nan_state(n, c, now).sync.master_rank = nan_sync_state_init(n).master_rank
    BY DEF init_nan_state
  <2>4. issued' = Issue(dev') /\ inbox' = [ inbox EXCEPT ![n] = <<>> ]
    BY <2>1 DEF Restart
  <2>5. init_nan_state(n, c, now).sync.master_rank \in issued'
            => DeviceTruthful(init_nan_state(n, c, now), issued')
    BY <2>3, InitTruthful
  <2>6. issued \subseteq issued' /\ \A m \in Device : DeviceTruthful(dev'[m], issued')
    BY <2>2, <2>4, <2>5, OneTruthful
  <2>7. QueueTruthful(<<>>, issued')
    BY DEF QueueTruthful
  <2>8. \A m \in Device : QueueTruthful(inbox'[m], issued')
    BY <1>0, <2>4, <2>6, <2>7, MoreRanks DEF NetworkInv
  <2> QED
    BY <2>6, <2>8 DEF Truthful
<1>9. CASE \E n \in Device, value \in Settings : SetPreference(n, value)
  <2>1. PICK n \in Device, value \in Settings : SetPreference(n, value)
    BY <1>9
  <2> DEFINE after == nan_cmd_set_mp(dev[n], value)
  <2>2. dev' = [ dev EXCEPT ![n] = after ] /\ issued' = Issue(dev') /\ inbox' = inbox
    BY <2>1 DEF SetPreference, NetworkInv
  <2>3. issued \subseteq issued'
    BY <2>2 DEF Issue
  <2>4. DeviceTruthful(dev[n], issued')
    BY <1>0, <2>3, MoreRanks
  <2>5. after.sync.master_rank \in issued' => DeviceTruthful(after, issued')
    BY <1>0, <2>4, SetMpTruthful, NetworkAssumption
  <2> HIDE DEF after
  <2>6. \A m \in Device : DeviceTruthful(dev'[m], issued')
    BY <2>2, <2>5, OneTruthful
  <2> QED
    BY <1>0, <2>2, <2>3, <2>6, MoreRanks DEF Truthful
<1> QED
  BY <1>1, <1>2, <1>3, <1>4, <1>5, <1>6, <1>7, <1>8, <1>9
     DEF Next, Step, Disturbance

\* The truth holds of every reachable state.
LEMMA TruthInvariance == Spec => []Truthful
BY InitTruth, NextTruth, NetworkInvariance, PTL DEF Spec

\* A queue's frames are told apart by their positions.
LEMMA QueueDomain ==
    ASSUME NetworkInv, NEW n \in Device
    PROVE  DOMAIN inbox[n] = 1 .. Len(inbox[n])
BY LenProperties DEF NetworkInv

(***************************************************************************)
(* Ranks are copied from device to device, old beacons wait in queues and  *)
(* devices change their ranks or restart meanwhile: nobody follows, stores *)
(* or announces an anchor master rank that no device ever had.             *)
(***************************************************************************)
THEOREM AnchorsHaveIssuers == Spec => []AnchorsAreIssued
<1>1. NetworkInv /\ Truthful => AnchorsAreIssued
  BY QueueDomain
     DEF AnchorsAreIssued, Truthful, DeviceTruthful, PeersTruthful, PeerTruthful,
         QueueTruthful, BeaconTruthful
<1> QED
  BY <1>1, NetworkInvariance, TruthInvariance, PTL

(***************************************************************************)
(* What nan_build_beacon_frame announces and what nan_rx_beacon stores of  *)
(* it is consistent: the announced anchor is never below the announcer.    *)
(***************************************************************************)
THEOREM NoLowerAnchorAnnounced == Spec => []PeersAnnounceNoLowerAnchor
<1>1. NetworkInv /\ Truthful => PeersAnnounceNoLowerAnchor
  <2>1. \A n \in Device : NetworkInv =>
            RankLeq(dev[n].sync.master_rank, dev[n].sync.anchor_master_rank)
    BY DEF NetworkInv, DeviceInv, SyncInv
  <2> QED
    BY <2>1, QueueDomain
       DEF PeersAnnounceNoLowerAnchor, Truthful, DeviceTruthful, PeersTruthful,
           PeerTruthful, QueueTruthful, BeaconTruthful
<1> QED
  BY <1>1, NetworkInvariance, TruthInvariance, PTL

(***************************************************************************)
(* A peer's entry names a rank that some device had: preference and random *)
(* factor are announced and stored together, however old the announcement. *)
(***************************************************************************)
THEOREM PeersAreWhatTheyWere == Spec => []PeersHadTheirRanks
<1>1. NetworkInv /\ Truthful => PeersHadTheirRanks
  BY QueueDomain
     DEF PeersHadTheirRanks, Truthful, DeviceTruthful, PeersTruthful, PeerTruthful,
         QueueTruthful, BeaconTruthful
<1> QED
  BY <1>1, NetworkInvariance, TruthInvariance, PTL

----------------------------------------------------------------------------
(* Clusters and their time. *)

\* The time of a cluster read off the clock gives its base time again.
LEMMA BuiltTells ==
    ASSUME NEW d, DeviceTypeOK(d), now \in Nat, NEW type
    PROVE  Told(nan_build_beacon_frame(d, type, now)) = ClusterOf(d)
<1>1. now - (now - d.base_time) = d.base_time
  BY DEF DeviceTypeOK
<1> QED
  BY <1>1 DEF Told, ClusterOf, nan_build_beacon_frame, nan_timer_get_synced_time

(***************************************************************************)
(* A beacon that can be read leaves the device in its cluster, or takes it *)
(* into the sender's, id and time at once.                                 *)
(***************************************************************************)
LEMMA RxBeaconFollows ==
    ASSUME NEW d, DeviceTypeOK(d), now \in Nat, NEW a, NEW b \in Beacon, b.intact,
           NEW rssi, NEW random
    PROVE  ClusterOf(nan_rx_beacon(d, a, b, rssi, random, now)) \in {ClusterOf(d), Told(b)}
<1> DEFINE set == nan_timer_sync_time(d, now, b.timestamp)
           result == nan_rx_beacon(d, a, b, rssi, random, now)
<1>1. d = [ sync |-> d.sync, peers |-> d.peers, cluster_id |-> d.cluster_id,
            base_time |-> d.base_time ]
  BY DEF DeviceTypeOK
<1>2. set = now - b.timestamp
  BY DEF nan_timer_sync_time, nan_timer_get_synced_time, DeviceTypeOK, Beacon
<1> HIDE DEF set
<1>3. \E peers, sync :
          \/ result = [ d EXCEPT !.peers = peers, !.sync = sync,
                                 !.cluster_id = b.cluster_id, !.base_time = set ]
          \/ /\ b.cluster_id = d.cluster_id
             /\ \/ result = [ d EXCEPT !.peers = peers, !.sync = sync, !.base_time = set ]
                \/ result = [ d EXCEPT !.peers = peers, !.sync = sync,
                                       !.base_time = d.base_time ]
          \/ result = [ d EXCEPT !.peers = peers, !.sync = sync ]
  BY DEF nan_rx_beacon, TimeOfSelection, set
<1> HIDE DEF result
<1>4. \/ result.cluster_id = b.cluster_id /\ result.base_time = set
      \/ result.cluster_id = d.cluster_id /\ result.base_time = d.base_time
  BY <1>1, <1>3
<1>5. ClusterOf(result) \in {ClusterOf(d), Told(b)}
  BY <1>2, <1>4 DEF ClusterOf, Told
<1> QED
  BY <1>5 DEF result

\* Commands, elections, expiry and the cleaner leave cluster and time alone.
LEMMA OthersStay ==
    ASSUME NEW d, DeviceTypeOK(d), NEW t, NEW value
    PROVE  /\ ClusterOf(nan_handle_discovery_window_end(d, t)) = ClusterOf(d)
           /\ ClusterOf(nan_clean_peers(d, t)) = ClusterOf(d)
           /\ ClusterOf(nan_cmd_set_mp(d, value)) = ClusterOf(d)
BY DEF DeviceTypeOK, ClusterOf, nan_handle_discovery_window_end, nan_clean_peers,
       nan_cmd_set_mp

\* One device changes, and with it at most its cluster.
LEMMA OneCluster ==
    ASSUME NetworkInv, NEW n \in Device, NEW d, dev' = [ dev EXCEPT ![n] = d ]
    PROVE  /\ Clusters' = [ Clusters EXCEPT ![n] = ClusterOf(d) ]
           /\ ClusterOf(d) = ClusterOf(dev[n]) => Clusters' = Clusters
<1>1. \A m \in Device : dev'[m] = IF m = n THEN d ELSE dev[m]
  BY DEF NetworkInv
<1>2. /\ Clusters = [ m \in Device |-> ClusterOf(dev[m]) ]
      /\ Clusters' = [ m \in Device |-> ClusterOf(dev'[m]) ]
  BY DEF Clusters, ClusterOf
<1>3. \A m \in Device : ClusterOf(dev'[m]) = IF m = n THEN ClusterOf(d) ELSE ClusterOf(dev[m])
  BY <1>1
<1> QED
  BY <1>2, <1>3

\* The cluster a beacon that arrives at some time is about.
ToldAt(b, t) == [cluster_id |-> b.cluster_id, base_time |-> t - b.timestamp]

\* What waits somewhere is announced.
LEMMA WaitingIsAnnounced ==
    ASSUME NEW n \in Device, NEW i \in DOMAIN inbox[n]
    PROVE  ToldAt(inbox[n][i].beacon, now) \in Announced
BY DEF Announced, Told, ToldAt

\* What is announced after a step waits somewhere.
LEMMA AnnouncedWaits ==
    ASSUME NEW set, now' = now,
           \A m \in Device : \A i \in DOMAIN inbox'[m] :
               ToldAt(inbox'[m][i].beacon, now) \in set
    PROVE  Announced' \subseteq set
<1>1. Announced' = UNION { { ToldAt(inbox'[m][i].beacon, now) : i \in DOMAIN inbox'[m] } :
                           m \in Device }
  BY DEF Announced, Told, ToldAt
<1> QED
  BY <1>1

\* The frame at the head of a queue is announced.
LEMMA HeadIsAnnounced ==
    ASSUME NetworkInv, NEW n \in Device, inbox[n] # <<>>
    PROVE  ToldAt(Head(inbox[n]).beacon, now) \in Announced
<1>1. inbox[n] \in Seq(Message)
  BY DEF NetworkInv
<1>2. 1 \in DOMAIN inbox[n] /\ Head(inbox[n]) = inbox[n][1]
  BY <1>1, EmptySeq, LenProperties
<1> QED
  BY <1>2, WaitingIsAnnounced

\* Queues that lose frames announce no more.
LEMMA FewerAnnounced ==
    ASSUME NetworkInv, NEW n \in Device, now' = now,
           NEW q \in {<<>>, Tail(inbox[n])}, inbox[n] # <<>> \/ q = <<>>,
           inbox' = [ inbox EXCEPT ![n] = q ]
    PROVE  Announced' \subseteq Announced
<1>1. inbox[n] \in Seq(Message)
  BY DEF NetworkInv
<1>2. \A i \in DOMAIN q : \E j \in DOMAIN inbox[n] : q[i] = inbox[n][j]
  <2>1. CASE q = <<>>
    BY <2>1
  <2>2. CASE q = Tail(inbox[n]) /\ inbox[n] # <<>>
    <3>1. /\ Len(q) = Len(inbox[n]) - 1 /\ Len(inbox[n]) \in Nat
          /\ q \in Seq(Message)
          /\ \A i \in 1 .. Len(q) : q[i] = inbox[n][i + 1]
      BY <1>1, <2>2, HeadTailProperties, LenProperties
    <3>2. DOMAIN q = 1 .. Len(q) /\ DOMAIN inbox[n] = 1 .. Len(inbox[n])
      BY <1>1, <3>1, LenProperties
    <3>3. ASSUME NEW i \in DOMAIN q
          PROVE  \E j \in DOMAIN inbox[n] : q[i] = inbox[n][j]
      <4>1. i + 1 \in DOMAIN inbox[n]
        BY <3>1, <3>2
      <4> QED
        BY <3>1, <3>2, <4>1
    <3> QED
      BY <3>3
  <2> QED
    BY <2>1, <2>2
<1>3. \A m \in Device : inbox'[m] = IF m = n THEN q ELSE inbox[m]
  BY DEF NetworkInv
<1>4. ASSUME NEW m \in Device, NEW i \in DOMAIN inbox'[m]
      PROVE  ToldAt(inbox'[m][i].beacon, now) \in Announced
  <2>1. PICK j \in DOMAIN inbox[m] : inbox'[m][i] = inbox[m][j]
    BY <1>2, <1>3
  <2> QED
    BY <2>1, WaitingIsAnnounced
<1> QED
  BY <1>4, AnnouncedWaits

\* A broadcast announces what its beacon tells, and nothing else.
LEMMA BroadcastAnnounces ==
    ASSUME NetworkInv, NEW n \in Device, NEW b \in Beacon, Broadcast(n, b), now' = now
    PROVE  Announced' \subseteq Announced \cup {ToldAt(b, now)}
<1> DEFINE message == [from |-> n, beacon |-> b]
<1>1. message \in Message /\ message.beacon = b
  BY DEF Message
<1>2. inbox' = [ m \in Device |-> IF m = n THEN inbox[m] ELSE Append(inbox[m], message) ]
  BY DEF Broadcast
<1> HIDE DEF message
<1>3. ASSUME NEW m \in Device, NEW i \in DOMAIN inbox'[m]
      PROVE  ToldAt(inbox'[m][i].beacon, now) \in Announced \cup {ToldAt(b, now)}
  <2>1. inbox[m] \in Seq(Message)
    BY DEF NetworkInv
  <2>2. CASE m = n
    BY <1>2, <2>2, WaitingIsAnnounced
  <2>3. CASE m # n
    <3>1. inbox'[m] = Append(inbox[m], message)
      BY <1>2, <2>3
    <3>2. /\ Append(inbox[m], message) \in Seq(Message)
          /\ Len(Append(inbox[m], message)) = Len(inbox[m]) + 1
          /\ Len(inbox[m]) \in Nat
          /\ \A j \in 1 .. Len(inbox[m]) : Append(inbox[m], message)[j] = inbox[m][j]
          /\ Append(inbox[m], message)[Len(inbox[m]) + 1] = message
      BY <1>1, <2>1, AppendProperties, LenProperties
    <3>3. /\ DOMAIN inbox'[m] = 1 .. Len(inbox[m]) + 1
          /\ DOMAIN inbox[m] = 1 .. Len(inbox[m])
      BY <2>1, <3>1, <3>2, LenProperties
    <3>4. \/ i \in DOMAIN inbox[m] /\ inbox'[m][i] = inbox[m][i]
          \/ inbox'[m][i] = message
      BY <3>1, <3>2, <3>3
    <3> QED
      BY <1>1, <3>4, WaitingIsAnnounced
  <2> QED
    BY <2>2, <2>3
<1> QED
  BY <1>3, AnnouncedWaits

\* The steps that start no cluster.
Following ==
    Membership!Tick \/ \E n \in Device : Membership!Announce(n) \/ Membership!Hear(n)

(***************************************************************************)
(* How a step looks to the clusters: the invariant makes each step but a   *)
(* restart an announcement, one heard or lost, the end of an interval, or  *)
(* invisible.                                                              *)
(***************************************************************************)
LEMMA StepFollows ==
    ASSUME NetworkInv, Truthful, [Next]_vars, ~\E n \in Device : Restart(n)
    PROVE  [Following]_(Membership!vars)
<1>0. \A n \in Device : n \in Addr /\ DeviceTypeOK(dev[n])
                        /\ Clusters[n] = ClusterOf(dev[n])
                        /\ now \in Nat
  BY NetworkAssumption DEF NetworkInv, DeviceInv, Clusters
<1>1. CASE NextInterval
  <2>1. now' \in Nat /\ now' > now
    BY <1>1, SyncAssumption DEF NextInterval, NetworkInv
  <2>2. Announced = {} /\ Announced' = {}
    BY <1>1 DEF NextInterval, Announced
  <2>3. Clusters' = Clusters
    BY <1>1 DEF NextInterval, Clusters, ClusterOf
  <2>4. Membership!Tick
    BY <2>1, <2>2, <2>3 DEF Membership!Tick
  <2> QED
    BY <2>4 DEF Following
<1>2. CASE \E n \in Device : OpenWindow(n)
  <2>1. PICK n \in Device : OpenWindow(n)
    BY <1>2
  <2> DEFINE b == nan_build_beacon_frame(dev[n], "SYNC", now)
  <2>2. b \in Beacon
    BY BuiltBeacon DEF NetworkInv
  <2>3. ToldAt(b, now) = Clusters[n]
    BY <1>0, BuiltTells DEF ToldAt, Told
  <2> HIDE DEF b
  <2>4. Announced' \subseteq Announced \cup {ToldAt(b, now)}
    BY <2>1, <2>2, BroadcastAnnounces DEF OpenWindow, b
  <2>5. Clusters' = Clusters /\ now' = now
    BY <2>1 DEF OpenWindow, Clusters, ClusterOf
  <2>6. Membership!Announce(n)
    BY <2>3, <2>4, <2>5 DEF Membership!Announce
  <2> QED
    BY <2>6 DEF Following
<1>3. CASE \E n \in Device : SendDiscoveryBeacon(n)
  <2>1. PICK n \in Device : SendDiscoveryBeacon(n)
    BY <1>3
  <2> DEFINE b == nan_build_beacon_frame(dev[n], "DISCOVERY", now)
  <2>2. b \in Beacon
    BY BuiltBeacon DEF NetworkInv
  <2>3. ToldAt(b, now) = Clusters[n]
    BY <1>0, BuiltTells DEF ToldAt, Told
  <2> HIDE DEF b
  <2>4. Announced' \subseteq Announced \cup {ToldAt(b, now)}
    BY <2>1, <2>2, BroadcastAnnounces DEF SendDiscoveryBeacon, b
  <2>5. Clusters' = Clusters /\ now' = now
    BY <2>1 DEF SendDiscoveryBeacon, Clusters, ClusterOf
  <2>6. Membership!Announce(n)
    BY <2>3, <2>4, <2>5 DEF Membership!Announce
  <2> QED
    BY <2>6 DEF Following
<1>4. CASE \E n \in Device : Receive(n)
  <2>1. PICK n \in Device : Receive(n)
    BY <1>4
  <2>2. PICK random \in RandomFactors :
            dev' = [ dev EXCEPT ![n] =
                       nan_rx_beacon(@, Head(inbox[n]).from, Head(inbox[n]).beacon,
                                     Signal, random, now) ]
    BY <2>1 DEF Receive
  <2> DEFINE a == Head(inbox[n]).from
             b == Head(inbox[n]).beacon
             after == nan_rx_beacon(dev[n], a, b, Signal, random, now)
  <2>3. /\ dev' = [ dev EXCEPT ![n] = after ]
        /\ inbox' = [ inbox EXCEPT ![n] = Tail(inbox[n]) ]
        /\ inbox[n] # <<>> /\ now' = now
    BY <2>1, <2>2 DEF Receive, NetworkInv
  <2>4. inbox[n] \in Seq(Message) /\ Head(inbox[n]) \in Message
    BY <2>3, TakeHead DEF NetworkInv
  <2>5. b \in Beacon
    BY <2>4 DEF Message
  <2>6. b.intact
    BY <2>3, <2>4, TakeTruthful DEF Truthful, BeaconTruthful
  <2>7. ToldAt(b, now) \in Announced
    BY <2>3, HeadIsAnnounced
  <2> HIDE DEF a, b
  <2>8. ClusterOf(after) \in {ClusterOf(dev[n]), ToldAt(b, now)}
    BY <1>0, <2>5, <2>6, RxBeaconFollows DEF Told, ToldAt
  <2> HIDE DEF after
  <2>9. /\ Clusters' = [ Clusters EXCEPT ![n] = ClusterOf(after) ]
        /\ ClusterOf(after) = ClusterOf(dev[n]) => Clusters' = Clusters
    BY <2>3, OneCluster
  <2>10. Announced' \subseteq Announced
    BY <2>3, FewerAnnounced
  <2>11. Clusters' \in {Clusters, [ Clusters EXCEPT ![n] = ToldAt(b, now) ]}
    BY <2>8, <2>9
  <2>12. Membership!Hear(n)
    BY <2>3, <2>7, <2>10, <2>11 DEF Membership!Hear
  <2> QED
    BY <2>12 DEF Following
<1>5. CASE \E n \in Device : CloseWindow(n)
  <2>1. PICK n \in Device : CloseWindow(n)
    BY <1>5
  <2> DEFINE after == nan_handle_discovery_window_end(dev[n], now)
  <2>2. dev' = [ dev EXCEPT ![n] = after ]
    BY <2>1 DEF CloseWindow, NetworkInv
  <2>3. ClusterOf(after) = ClusterOf(dev[n])
    BY <1>0, OthersStay
  <2> HIDE DEF after
  <2>4. Clusters' = Clusters
    BY <2>2, <2>3, OneCluster
  <2>5. now' = now /\ Announced' = Announced
    BY <2>1 DEF CloseWindow, Announced, Told
  <2> QED
    BY <2>4, <2>5 DEF Membership!vars
<1>6. CASE \E n \in Device : Clean(n)
  <2>1. PICK n \in Device : Clean(n)
    BY <1>6
  <2> DEFINE after == nan_clean_peers(dev[n], now)
  <2>2. dev' = [ dev EXCEPT ![n] = after ]
    BY <2>1 DEF Clean, NetworkInv
  <2>3. ClusterOf(after) = ClusterOf(dev[n])
    BY <1>0, OthersStay
  <2> HIDE DEF after
  <2>4. Clusters' = Clusters
    BY <2>2, <2>3, OneCluster
  <2>5. now' = now /\ Announced' = Announced
    BY <2>1 DEF Clean, Announced, Told
  <2> QED
    BY <2>4, <2>5 DEF Membership!vars
<1>7. CASE \E n \in Device : Lose(n)
  <2>1. PICK n \in Device : Lose(n)
    BY <1>7
  <2>2. /\ inbox' = [ inbox EXCEPT ![n] = Tail(inbox[n]) ]
        /\ inbox[n] # <<>> /\ now' = now
    BY <2>1 DEF Lose, NetworkInv
  <2>3. Announced' \subseteq Announced
    BY <2>2, FewerAnnounced
  <2>4. ToldAt(Head(inbox[n]).beacon, now) \in Announced
    BY <2>2, HeadIsAnnounced
  <2>5. Clusters' = Clusters
    BY <2>1 DEF Lose, Clusters, ClusterOf
  <2>6. Membership!Hear(n)
    BY <2>2, <2>3, <2>4, <2>5 DEF Membership!Hear
  <2> QED
    BY <2>6 DEF Following
<1>8. CASE \E n \in Device, value \in Settings : SetPreference(n, value)
  <2>1. PICK n \in Device, value \in Settings : SetPreference(n, value)
    BY <1>8
  <2> DEFINE after == nan_cmd_set_mp(dev[n], value)
  <2>2. dev' = [ dev EXCEPT ![n] = after ]
    BY <2>1 DEF SetPreference, NetworkInv
  <2>3. ClusterOf(after) = ClusterOf(dev[n])
    BY <1>0, OthersStay
  <2> HIDE DEF after
  <2>4. Clusters' = Clusters
    BY <2>2, <2>3, OneCluster
  <2>5. now' = now /\ Announced' = Announced
    BY <2>1 DEF SetPreference, Announced, Told
  <2> QED
    BY <2>4, <2>5 DEF Membership!vars
<1>9. CASE UNCHANGED vars
  <2>1. now' = now /\ Announced' = Announced /\ Clusters' = Clusters
    BY <1>9 DEF vars, Announced, Told, Clusters, ClusterOf
  <2> QED
    BY <2>1 DEF Membership!vars
<1> QED
  BY <1>1, <1>2, <1>3, <1>4, <1>5, <1>6, <1>7, <1>8, <1>9
     DEF Next, Step, Disturbance

\* A restart starts a cluster, of an id of its own choosing.
LEMMA RestartFounds ==
    ASSUME NetworkInv, NEW n \in Device, Restart(n)
    PROVE  /\ Membership!Found(n)
           /\ Clusters'[n].cluster_id = dev'[n].cluster_id
           /\ \A m \in Device \ {n} : Clusters'[m] = Clusters[m]
<1>1. PICK c \in ClusterId : dev' = [ dev EXCEPT ![n] = init_nan_state(n, c, now) ]
  BY DEF Restart
<1>2. ClusterOf(init_nan_state(n, c, now)) = [cluster_id |-> c, base_time |-> now]
  BY DEF ClusterOf, init_nan_state
<1>3. Clusters' = [ Clusters EXCEPT ![n] = [cluster_id |-> c, base_time |-> now] ]
  BY <1>1, <1>2, OneCluster
<1>4. inbox' = [ inbox EXCEPT ![n] = <<>> ] /\ now' = now
  BY DEF Restart
<1>5. Announced' \subseteq Announced
  BY <1>4, FewerAnnounced
<1>6. Membership!Found(n)
  BY <1>3, <1>4, <1>5 DEF Membership!Found
<1>7. Clusters'[n] = ClusterOf(dev'[n])
  BY DEF Clusters, ClusterOf
<1>8. \A m \in Device \ {n} : Clusters'[m] = Clusters[m]
  BY <1>3 DEF Clusters
<1> QED
  BY <1>6, <1>7, <1>8 DEF ClusterOf

\* Every step is one of the abstract specification, or invisible to it.
LEMMA StepOfMembership ==
    NetworkInv /\ Truthful /\ [Next]_vars => [Membership!Next]_(Membership!vars)
<1> SUFFICES ASSUME NetworkInv, Truthful, [Next]_vars
             PROVE  [Membership!Next]_(Membership!vars)
  OBVIOUS
<1>1. CASE \E n \in Device : Restart(n)
  BY <1>1, RestartFounds DEF Membership!Next
<1>2. CASE ~\E n \in Device : Restart(n)
  BY <1>2, StepFollows DEF Following, Membership!Next
<1> QED
  BY <1>1, <1>2

\* What devices are in are clusters.
LEMMA ClustersTyped == NetworkInv => Clusters \in [Device -> Membership!Cluster]
<1>1. NetworkInv =>
          \A n \in Device : ClusterOf(dev[n]) \in [cluster_id : ClusterId, base_time : Int]
  BY DEF NetworkInv, DeviceInv, DeviceTypeOK, ClusterOf
<1> QED
  BY <1>1 DEF Clusters, Membership!Cluster

\* The first clusters are clusters, and nothing is announced yet.
LEMMA InitOfMembership == Init => Membership!Init
<1> SUFFICES ASSUME Init
             PROVE  Membership!Init
  OBVIOUS
<1>1. NetworkInv
  BY InitNetworkInv
<1>2. Clusters \in [Device -> Membership!Cluster]
  BY <1>1, ClustersTyped
<1>3. Announced = {}
  BY DEF Init, Announced
<1> QED
  BY <1>1, <1>2, <1>3 DEF Membership!Init, NetworkInv

(***************************************************************************)
(* Synchronization implements what it promises of clusters: whatever       *)
(* anchor masters, elections and grades decide, a device starts a cluster  *)
(* of its own and leaves it only for the id and the time, together, that   *)
(* another had when it built its beacon (nan_rx_beacon,                    *)
(* nan_timer_sync_time).                                                   *)
(***************************************************************************)
THEOREM ClustersAreFollowed == Spec => ImplementsMembership
BY InitOfMembership, StepOfMembership, NetworkInvariance, TruthInvariance, PTL
   DEF Spec, ImplementsMembership, Membership!Spec

(***************************************************************************)
(* Only a start adds a cluster to those in use: following takes a device   *)
(* into one that is announced already.                                     *)
(***************************************************************************)
LEMMA InUseShrinks ==
    ASSUME Clusters \in [Device -> Membership!Cluster], [Following]_(Membership!vars)
    PROVE  Membership!InUse' \subseteq Membership!InUse
<1>1. CASE Membership!Tick \/ UNCHANGED Membership!vars
  BY <1>1 DEF Membership!Tick, Membership!vars, Membership!InUse
<1>2. CASE \E n \in Device : Membership!Announce(n)
  BY <1>2 DEF Membership!Announce, Membership!InUse
<1>3. CASE \E n \in Device : Membership!Hear(n)
  <2>1. PICK n \in Device : Membership!Hear(n)
    BY <1>3
  <2>2. PICK c \in Announced : Clusters' \in {Clusters, [ Clusters EXCEPT ![n] = c ]}
    BY <2>1 DEF Membership!Hear
  <2>3. \A m \in Device : Clusters'[m] \in {Clusters[m], c}
    BY <2>2
  <2>4. Announced' \subseteq Announced
    BY <2>1 DEF Membership!Hear
  <2> QED
    BY <2>3, <2>4 DEF Membership!InUse
<1> QED
  BY <1>1, <1>2, <1>3 DEF Following

\* A restart adds the cluster it starts.
LEMMA InUseAfterRestart ==
    ASSUME NetworkInv, NEW n \in Device, Restart(n)
    PROVE  Membership!InUse' \subseteq Membership!InUse \cup {Clusters'[n]}
<1>1. Announced' \subseteq Announced
  BY RestartFounds DEF Membership!Found
<1>2. \A m \in Device : Clusters'[m] \in {Clusters[m], Clusters'[n]}
  BY RestartFounds
<1> QED
  BY <1>1, <1>2 DEF Membership!InUse

(***************************************************************************)
(* The devices of one cluster id have one time, and so have the beacons    *)
(* about it on their way: no merging, selection or election ends that,     *)
(* only a device that starts with an id in use (nan_timer_sync_time).      *)
(***************************************************************************)
THEOREM ClusterHasOneTime == Spec => OneTimePerCluster
<1>1. NetworkInv /\ Truthful /\ [Next]_vars =>
          [ ~OneTime(Membership!InUse)'
                => \/ ~OneTime(Membership!InUse)
                   \/ \E n \in Device, c \in Membership!InUse :
                         Restart(n) /\ dev'[n].cluster_id = c.cluster_id ]_vars
  <2> SUFFICES ASSUME NetworkInv, Truthful, [Next]_vars,
                      OneTime(Membership!InUse), ~OneTime(Membership!InUse)'
               PROVE  \E n \in Device, c \in Membership!InUse :
                          Restart(n) /\ dev'[n].cluster_id = c.cluster_id
    OBVIOUS
  <2>1. ~(Membership!InUse' \subseteq Membership!InUse)
    BY DEF OneTime
  <2>2. PICK n \in Device : Restart(n)
    BY <2>1, StepFollows, InUseShrinks, ClustersTyped
  <2>3. Membership!InUse' \subseteq Membership!InUse \cup {Clusters'[n]}
    BY <2>2, InUseAfterRestart
  <2>4. \E c \in Membership!InUse : Clusters'[n].cluster_id = c.cluster_id
    BY <2>3 DEF OneTime
  <2> QED
    BY <2>2, <2>4, RestartFounds
<1> QED
  BY <1>1, NetworkInvariance, TruthInvariance, PTL DEF Spec, OneTimePerCluster

(***************************************************************************)
(* Devices that have agreed on a cluster and its time, with no beacon of   *)
(* another on its way, stay agreed, however many they are and whatever     *)
(* they elect, lose and forget, until one of them restarts.                *)
(***************************************************************************)
THEOREM AgreedClusterIsKept == Spec => OneClusterIsKept
<1>1. NetworkInv /\ Truthful /\ [Next]_vars =>
          [ (\A c, d \in Membership!InUse : c = d)
                /\ ~(\A c, d \in Membership!InUse : c = d)'
                => \E n \in Device : Restart(n) ]_vars
  BY StepFollows, InUseShrinks, ClustersTyped
<1> QED
  BY <1>1, NetworkInvariance, TruthInvariance, PTL DEF Spec, OneClusterIsKept
=============================================================================
