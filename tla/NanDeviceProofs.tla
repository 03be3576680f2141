--------------------------- MODULE NanDeviceProofs ---------------------------
(***************************************************************************)
(* What the functions of sync.c and the handlers of a device preserve,     *)
(* whatever a neighbour sends.                                             *)
(***************************************************************************)
EXTENDS NanDevice, NanRankProofs

(***************************************************************************)
(* The rank a sync state compares with is the one of its settings and of   *)
(* the address self, and the anchor's is not below it.                     *)
(***************************************************************************)
SyncInv(s, self) ==
    /\ s \in SyncState
    /\ s.master_rank =
           nan_calculate_master_rank(s.master_preference, s.random_factor, self)
    /\ RankLeq(s.master_rank, s.anchor_master_rank)

----------------------------------------------------------------------------
(* Ranges. *)

\* A byte and its successor are numbers.
LEMMA ByteIsNat ==
    ASSUME NEW b \in Byte
    PROVE  b \in Nat /\ b + 1 \in Nat
BY ByteModAssumption DEF Byte

\* What is reduced modulo the size of a field fits into it.
LEMMA ByteFacts ==
    /\ Byte \subseteq Nat
    /\ 0 \in Byte /\ ByteMod - 1 \in Byte
    /\ \A n \in Nat : n % ByteMod \in Byte
    /\ 0 \in Ambtt
    /\ \A n \in Nat : n % AmbttMod \in Ambtt
BY ByteModAssumption, SyncAssumption DEF Byte, Ambtt

\* nan_calculate_master_rank makes a rank of bytes and an address.
LEMMA CalculatedRank ==
    ASSUME NEW mp \in Byte, NEW rf \in Byte, NEW a \in Addr \cup {0}
    PROVE  nan_calculate_master_rank(mp, rf, a) \in Rank
BY DEF nan_calculate_master_rank, Rank

----------------------------------------------------------------------------
(* The functions of sync.c. *)

\* A device starts as its own anchor master.
LEMMA InitSync ==
    ASSUME NEW self \in Addr
    PROVE  SyncInv(nan_sync_state_init(self), self)
BY ByteFacts, CalculatedRank, RankLeqReflexive
   DEF SyncInv, nan_sync_state_init, SyncState, nan_calculate_master_rank, Rank, Role

\* Taking over an anchor that is not below the device keeps the invariant.
LEMMA SetAnchorMasterOther ==
    ASSUME NEW self \in Addr, NEW s, SyncInv(s, self), NEW peer \in Peer,
           RankLeq(s.master_rank, peer.anchor_master_rank)
    PROVE  SyncInv(nan_set_anchor_master_other(s, peer), self)
<1>1. peer.anchor_master_rank \in Rank /\ peer.ambtt \in Ambtt /\ peer.hop_count \in Byte
  BY DEF Peer
<1>2. (peer.hop_count + 1) % ByteMod \in Byte
  <2>1. peer.hop_count + 1 \in Nat
    BY <1>1, ByteIsNat
  <2> QED
    BY <2>1, ByteFacts
<1> QED
  BY <1>1, <1>2 DEF SyncInv, SyncState, nan_set_anchor_master_other,
                    nan_save_current_anchor_master

\* Becoming the anchor master keeps the invariant.
LEMMA SetAnchorMasterSelf ==
    ASSUME NEW self \in Addr, NEW s, SyncInv(s, self)
    PROVE  SyncInv(nan_set_anchor_master_self(s), self)
<1>1. s.master_rank \in Rank
  BY DEF SyncInv, SyncState
<1>2. RankLeq(s.master_rank, s.master_rank)
  BY <1>1, RankLeqReflexive
<1> QED
  BY <1>1, <1>2, ByteFacts
     DEF SyncInv, SyncState, nan_set_anchor_master_self, nan_save_current_anchor_master

(***************************************************************************)
(* Whatever a peer announces, selection keeps the anchor at or above the   *)
(* device's own rank.                                                      *)
(***************************************************************************)
LEMMA Selection ==
    ASSUME NEW self \in Addr, NEW s, SyncInv(s, self), NEW peer \in Peer,
           NEW t \in Nat
    PROVE  SyncInv(nan_anchor_master_selection(s, peer, t), self)
<1> DEFINE received == peer.anchor_master_rank
           mine     == nan_is_anchor_master_self(s)
           current  == IF mine THEN nan_set_anchor_master_other(s, peer) ELSE s
           ignored  == SelectionIgnores(s, peer, t)
<1>1. s.master_rank \in Rank /\ s.anchor_master_rank \in Rank /\ received \in Rank
  BY DEF SyncInv, SyncState, Peer
<1>2. CASE ignored
  BY <1>2 DEF nan_anchor_master_selection
<1>3. CASE ~ignored
  <2>1. SyncInv(current, self) /\ current.master_rank = s.master_rank
    <3>1. CASE mine
      <4>1. RankLeq(s.master_rank, received)
        BY <1>1, <1>3, <3>1, RankLessImpliesLeq DEF RankLeq, SelectionIgnores
      <4> QED
        BY <3>1, <4>1, SetAnchorMasterOther
           DEF nan_set_anchor_master_other, nan_save_current_anchor_master, SyncInv, SyncState
    <3>2. CASE ~mine
      BY <3>2
    <3> QED
      BY <3>1, <3>2
  <2> HIDE DEF current, mine
  <2>2. current.anchor_master_rank \in Rank /\ current.master_rank \in Rank
    BY <2>1 DEF SyncInv, SyncState
  <2>3. CASE RankLess(current.anchor_master_rank, received)
    <3>1. RankLeq(current.master_rank, received)
      BY <1>1, <2>1, <2>2, <2>3, RankLessImpliesLeq, RankLeqTransitive DEF SyncInv
    <3>2. SyncInv(SelectHigher(current, peer), self)
      BY <2>1, <3>1, SetAnchorMasterOther DEF SelectHigher
    <3>3. nan_anchor_master_selection(s, peer, t) = SelectHigher(current, peer)
      BY <1>3, <2>3 DEF nan_anchor_master_selection, current, mine
    <3> QED
      BY <3>2, <3>3
  <2>4. CASE RankLess(received, current.anchor_master_rank)
    <3>1. SyncInv(SelectLower(current, peer), self)
      <4>1. CASE RankLess(received, current.master_rank)
        BY <2>1, <4>1, SetAnchorMasterSelf DEF SelectLower
      <4>2. CASE ~RankLess(received, current.master_rank)
        BY <2>1, <4>2, SetAnchorMasterOther DEF SelectLower, RankLeq
      <4> QED
        BY <4>1, <4>2
    <3>2. ~RankLess(current.anchor_master_rank, received)
      BY <1>1, <2>2, <2>4, RankLessIrreflexive, RankLessTransitive
    <3>3. nan_anchor_master_selection(s, peer, t) = SelectLower(current, peer)
      BY <1>3, <2>4, <3>2 DEF nan_anchor_master_selection, current, mine
    <3> QED
      BY <3>1, <3>3
  <2>5. CASE ~RankLess(current.anchor_master_rank, received)
             /\ ~RankLess(received, current.anchor_master_rank)
    <3>1. SyncInv(SelectSame(current, peer), self)
      BY <2>1 DEF SyncInv, SyncState, SelectSame, Peer
    <3>2. nan_anchor_master_selection(s, peer, t) = SelectSame(current, peer)
      BY <1>3, <2>5 DEF nan_anchor_master_selection, current, mine
    <3> QED
      BY <3>1, <3>2
  <2> QED
    BY <2>3, <2>4, <2>5
<1> QED
  BY <1>2, <1>3

\* The counters of silent windows stay bytes.
LEMMA Counting ==
    ASSUME NEW count \in Byte, NEW unchanged \in BOOLEAN
    PROVE  CountUp(unchanged, count) \in Byte
<1>1. count + 1 \in Nat
  BY ByteIsNat
<1> QED
  BY <1>1, ByteFacts DEF CountUp

(***************************************************************************)
(* An expired anchor is replaced by the device itself, and an anchor whose *)
(* hop count is given up stays what it is.                                 *)
(***************************************************************************)
LEMMA Expiration ==
    ASSUME NEW self \in Addr, NEW s, SyncInv(s, self)
    PROVE  SyncInv(nan_check_anchor_master_expiration(s), self)
<1> DEFINE quiet == CountUp(s.ambtt = s.last_ambtt, s.count_dws_without_ambtt_update)
           far   == CountUp(s.hop_count = last_hop_count,
                            s.count_dws_without_hop_count_update)
           counted == [ s EXCEPT !.count_dws_without_ambtt_update = quiet,
                                 !.count_dws_without_hop_count_update = far ]
<1>1. quiet \in Byte /\ far \in Byte
  BY Counting DEF SyncInv, SyncState
<1> HIDE DEF quiet, far
<1>2. SyncInv(counted, self)
  BY <1>1 DEF SyncInv, SyncState
<1>3. SyncInv([ s EXCEPT !.count_dws_without_ambtt_update = 0,
                         !.count_dws_without_hop_count_update = 0 ], self)
  BY ByteFacts DEF SyncInv, SyncState
<1>4. SyncInv([ counted EXCEPT !.hop_count = ByteMod - 1 ], self)
  BY <1>2, ByteFacts DEF SyncInv, SyncState
<1>5. SyncInv(nan_set_anchor_master_self(counted), self)
  BY <1>2, SetAnchorMasterSelf
<1>6. \/ nan_check_anchor_master_expiration(s) = counted
      \/ nan_check_anchor_master_expiration(s) = [ counted EXCEPT !.hop_count = ByteMod - 1 ]
      \/ nan_check_anchor_master_expiration(s) = nan_set_anchor_master_self(counted)
      \/ nan_check_anchor_master_expiration(s) =
            [ s EXCEPT !.count_dws_without_ambtt_update = 0,
                       !.count_dws_without_hop_count_update = 0 ]
  BY DEF nan_check_anchor_master_expiration, quiet, far
<1> HIDE DEF counted
<1> QED
  BY <1>2, <1>3, <1>4, <1>5, <1>6

(***************************************************************************)
(* An election changes the role and nothing else.                          *)
(***************************************************************************)
LEMMA Election ==
    ASSUME NEW self \in Addr, NEW s, SyncInv(s, self), NEW peers, NEW now
    PROVE  SyncInv(nan_master_election(s, peers, now), self)
<1>1. \E role \in Role : nan_master_election(s, peers, now) = [ s EXCEPT !.role = role ]
  BY DEF nan_master_election, SyncInv, SyncState, Role
<1> QED
  BY <1>1 DEF SyncInv, SyncState

(***************************************************************************)
(* After a change of preference or random factor: the rank is recomputed,  *)
(* and an anchor that would now be below it is replaced by the device.     *)
(***************************************************************************)
LEMMA UpdateMasterRank ==
    ASSUME NEW self \in Addr, NEW s, s \in SyncState, s.master_rank.addr = self,
           RankLeq(s.master_rank, s.anchor_master_rank)
    PROVE  SyncInv(nan_update_master_rank(s), self)
<1> DEFINE rank == nan_calculate_master_rank(s.master_preference, s.random_factor, self)
           updated == [ s EXCEPT !.master_rank = rank ]
           own == [ updated EXCEPT !.last_anchor_master_rank = s.anchor_master_rank,
                                   !.anchor_master_rank = rank ]
<1>1. rank \in Rank /\ s.anchor_master_rank \in Rank
  BY CalculatedRank DEF SyncState
<1>2. RankLeq(rank, rank)
  BY <1>1, RankLeqReflexive
<1> HIDE DEF rank
<1>3. updated \in SyncState /\ updated.master_rank = rank
      /\ updated.anchor_master_rank = s.anchor_master_rank
      /\ updated.master_preference = s.master_preference
      /\ updated.random_factor = s.random_factor
  BY <1>1 DEF SyncState
<1>4. CASE rank = s.master_rank
  BY <1>4 DEF nan_update_master_rank, SyncInv, rank
<1>5. CASE rank # s.master_rank /\ nan_is_anchor_master_self(updated)
  <2>1. nan_update_master_rank(s) = own
    BY <1>5 DEF nan_update_master_rank, rank
  <2>2. SyncInv(own, self)
    BY <1>1, <1>2, <1>3 DEF SyncInv, SyncState, rank
  <2> QED
    BY <2>1, <2>2
<1>6. CASE /\ rank # s.master_rank /\ ~nan_is_anchor_master_self(updated)
           /\ RankLess(s.anchor_master_rank, rank)
  <2>1. nan_update_master_rank(s) = nan_set_anchor_master_self(updated)
    BY <1>6 DEF nan_update_master_rank, rank
  <2>2. SyncInv(nan_set_anchor_master_self(updated), self)
    <3>1. /\ nan_set_anchor_master_self(updated) \in SyncState
          /\ nan_set_anchor_master_self(updated).master_rank = rank
          /\ nan_set_anchor_master_self(updated).anchor_master_rank = rank
          /\ nan_set_anchor_master_self(updated).master_preference = s.master_preference
          /\ nan_set_anchor_master_self(updated).random_factor = s.random_factor
      BY <1>1, <1>3, ByteFacts
         DEF nan_set_anchor_master_self, nan_save_current_anchor_master, SyncState
    <3> QED
      BY <1>2, <3>1 DEF SyncInv, rank
  <2> QED
    BY <2>1, <2>2
<1>7. CASE /\ rank # s.master_rank /\ ~nan_is_anchor_master_self(updated)
           /\ ~RankLess(s.anchor_master_rank, rank)
  <2>1. nan_update_master_rank(s) = updated
    BY <1>7 DEF nan_update_master_rank, rank
  <2> QED
    BY <1>3, <1>7, <2>1 DEF SyncInv, RankLeq, rank
<1> QED
  BY <1>4, <1>5, <1>6, <1>7

\* Renewing preference and random factor keeps the invariant.
LEMMA UpdateMasterPreference ==
    ASSUME NEW self \in Addr, NEW s, SyncInv(s, self), NEW peer,
           NEW now \in Nat, NEW random \in Byte
    PROVE  SyncInv(nan_update_master_preference(s, peer, now, random), self)
<1> DEFINE elapsed_dws == (now - s.last_master_preference_update) \div DwTicks
           refreshed == IF elapsed_dws > RfUpdateMinDw
                        THEN [ s EXCEPT !.random_factor = random ]
                        ELSE s
           preferred == IF elapsed_dws > MpUpdateMinDw
                        THEN [ refreshed EXCEPT !.master_preference = MasterPreference,
                                                !.last_master_preference_update = now ]
                        ELSE refreshed
<1> HIDE DEF elapsed_dws
<1>1. /\ preferred \in SyncState
      /\ preferred.master_rank = s.master_rank
      /\ preferred.anchor_master_rank = s.anchor_master_rank
  BY SyncAssumption DEF SyncInv, SyncState
<1>2. preferred.master_rank.addr = self
  BY <1>1 DEF SyncInv, nan_calculate_master_rank
<1> HIDE DEF preferred
<1>3. SyncInv(nan_update_master_rank(preferred), self)
  BY <1>1, <1>2, UpdateMasterRank DEF SyncInv
<1>4. \/ nan_update_master_preference(s, peer, now, random) = s
      \/ nan_update_master_preference(s, peer, now, random) = nan_update_master_rank(preferred)
  BY DEF nan_update_master_preference, preferred, elapsed_dws
<1> QED
  BY <1>3, <1>4

----------------------------------------------------------------------------
(* The peer table. *)

PeersOK(peers) == peers \in [DOMAIN peers -> Peer] /\ DOMAIN peers \subseteq Addr

\* A peer that is stored leaves a peer table.
LEMMA PutPeer ==
    ASSUME NEW peers, PeersOK(peers), NEW a \in Addr, NEW p \in Peer
    PROVE  PeersOK(Put(peers, a, p))
BY DEF PeersOK, Put

\* A peer begins with every field in its range.
LEMMA NewPeer ==
    ASSUME NEW a \in Addr, NEW c \in ClusterId, NEW now \in Nat
    PROVE  nan_peer_new(a, c, now) \in Peer
<1>1. ZeroRank \in Rank
  BY ByteFacts DEF ZeroRank, Rank
<1> QED
  BY <1>1, ByteFacts DEF nan_peer_new, Peer, RssiLevel

\* A peer that is added, or refreshed, is well-formed.
LEMMA AddPeer ==
    ASSUME NEW peers, PeersOK(peers), NEW a \in Addr, NEW c \in ClusterId, NEW now \in Nat
    PROVE  nan_peer_add(peers, a, c, now) \in Peer
<1>1. CASE a \in DOMAIN peers
  <2>1. peers[a] \in Peer
    BY <1>1 DEF PeersOK
  <2> QED
    BY <1>1, <2>1 DEF nan_peer_add, Peer
<1>2. CASE a \notin DOMAIN peers
  BY <1>2, NewPeer DEF nan_peer_add
<1> QED
  BY <1>1, <1>2

\* Attributes that are read, all of them or some, leave a well-formed peer.
LEMMA Parse ==
    ASSUME NEW peer \in Peer, NEW b \in Beacon
    PROVE  ParseAttributes(peer, b) \in Peer
<1>1. nan_peer_set_master_indication(peer, b.master_preference, b.random_factor) \in Peer
  BY DEF nan_peer_set_master_indication, Peer, Beacon
<1>2. \A p \in Peer : nan_peer_set_anchor_master_information(
                         p, b.anchor_master_rank, b.ambtt, b.hop_count) \in Peer
  <2> SUFFICES ASSUME NEW p \in Peer
               PROVE  nan_peer_set_anchor_master_information(
                          p, b.anchor_master_rank, b.ambtt, b.hop_count) \in Peer
    OBVIOUS
  <2>1. p.last_timestamp % AmbttMod \in Ambtt
    BY ByteFacts DEF Peer
  <2> QED
    BY <2>1 DEF nan_peer_set_anchor_master_information, Peer, Beacon
<1> QED
  BY <1>1, <1>2 DEF ParseAttributes

\* Signal and timestamp of a beacon leave a well-formed peer.
LEMMA BeaconInformation ==
    ASSUME NEW peer \in Peer, NEW rssi \in RssiLevel, NEW timestamp \in Nat
    PROVE  nan_peer_set_beacon_information(peer, rssi, timestamp) \in Peer
BY DEF nan_peer_set_beacon_information, Peer

\* The candidate flag leaves a well-formed peer.
LEMMA MasterCandidate ==
    ASSUME NEW s, NEW peer \in Peer
    PROVE  nan_check_master_candidate(s, peer) \in Peer
BY DEF nan_check_master_candidate, Peer

----------------------------------------------------------------------------
(* The handlers. *)

DeviceInv(d, self, now) ==
    /\ DeviceTypeOK(d)
    /\ SyncInv(d.sync, self)
    /\ d.base_time <= now

\* A device that has just started satisfies the invariant.
LEMMA InitDevice ==
    ASSUME NEW self \in Addr, NEW c \in ClusterId, NEW now \in Nat
    PROVE  DeviceInv(init_nan_state(self, c, now), self, now)
<1>1. SyncInv(nan_sync_state_init(self), self)
  BY InitSync
<1> QED
  BY <1>1 DEF DeviceInv, DeviceTypeOK, init_nan_state, SyncInv

(***************************************************************************)
(* A beacon, whatever it says and whichever way the handler returns,       *)
(* leaves a device whose anchor is not below it.                           *)
(***************************************************************************)
LEMMA RxBeaconInv ==
    ASSUME NEW self \in Addr, NEW now \in Nat, NEW d, DeviceInv(d, self, now),
           NEW a \in Addr, NEW b \in Beacon, NEW rssi \in RssiLevel,
           NEW random \in Byte
    PROVE  DeviceInv(nan_rx_beacon(d, a, b, rssi, random, now), self, now)
<1> DEFINE parsed == ParseAttributes(nan_peer_add(d.peers, a, b.cluster_id, now), b)
           heard  == nan_peer_set_beacon_information(parsed, rssi, b.timestamp)
           ranked == nan_update_master_preference(d.sync, heard, now, random)
           peer   == nan_check_master_candidate(ranked, heard)
           peers  == Put(d.peers, a, peer)
           selected == nan_anchor_master_selection(
                           ranked, peer, nan_timer_get_synced_time(d, now))
           synced == nan_timer_sync_time(d, now, b.timestamp)
<1>1. b.cluster_id \in ClusterId /\ b.timestamp \in Nat
  BY DEF Beacon
<1>2. PeersOK(d.peers) /\ SyncInv(d.sync, self) /\ d.base_time \in Int /\ d.base_time <= now
  BY DEF DeviceInv, DeviceTypeOK, PeersOK
<1>3. parsed \in Peer
  BY <1>1, <1>2, AddPeer, Parse
<1>4. heard \in Peer
  BY <1>1, <1>3, BeaconInformation
<1>5. SyncInv(ranked, self)
  BY <1>2, UpdateMasterPreference
<1>6. peer \in Peer
  BY <1>4, MasterCandidate
<1>7. PeersOK(peers) /\ PeersOK(Put(d.peers, a, parsed))
  BY <1>2, <1>3, <1>6, PutPeer
<1>8. SyncInv(selected, self)
  <2>1. nan_timer_get_synced_time(d, now) \in Nat
    BY <1>2 DEF nan_timer_get_synced_time
  <2> QED
    BY <1>5, <1>6, <2>1, Selection
<1>9. synced \in Int /\ synced <= now
  BY <1>1, <1>2 DEF nan_timer_sync_time, nan_timer_get_synced_time
<1>10. \E table \in {peers, Put(d.peers, a, parsed)}, s \in {d.sync, ranked, selected},
          c \in {d.cluster_id, b.cluster_id}, base \in {d.base_time, synced} :
          nan_rx_beacon(d, a, b, rssi, random, now) =
              [ sync |-> s, peers |-> table, cluster_id |-> c, base_time |-> base ]
  <2>1. d = [ sync |-> d.sync, peers |-> d.peers, cluster_id |-> d.cluster_id,
              base_time |-> d.base_time ]
    BY DEF DeviceInv, DeviceTypeOK
  <2> HIDE DEF parsed, heard, ranked, peer, peers, selected, synced
  <2> DEFINE result == nan_rx_beacon(d, a, b, rssi, random, now)
  <2>2. \/ result = [ d EXCEPT !.peers = Put(d.peers, a, parsed) ]
        \/ result = [ d EXCEPT !.peers = peers, !.sync = ranked,
                               !.cluster_id = b.cluster_id, !.base_time = synced ]
        \/ result = [ d EXCEPT !.peers = peers, !.sync = selected, !.base_time = synced ]
        \/ result = [ d EXCEPT !.peers = peers, !.sync = selected ]
        \/ result = [ d EXCEPT !.peers = peers, !.sync = ranked ]
    BY <2>1 DEF nan_rx_beacon, TimeOfSelection, parsed, heard, ranked, peer, peers,
                selected, synced
  <2> HIDE DEF result
  <2>3. \/ result = [ sync |-> d.sync, peers |-> Put(d.peers, a, parsed),
                      cluster_id |-> d.cluster_id, base_time |-> d.base_time ]
        \/ result = [ sync |-> ranked, peers |-> peers,
                      cluster_id |-> b.cluster_id, base_time |-> synced ]
        \/ result = [ sync |-> selected, peers |-> peers,
                      cluster_id |-> d.cluster_id, base_time |-> synced ]
        \/ result = [ sync |-> selected, peers |-> peers,
                      cluster_id |-> d.cluster_id, base_time |-> d.base_time ]
        \/ result = [ sync |-> ranked, peers |-> peers,
                      cluster_id |-> d.cluster_id, base_time |-> d.base_time ]
    BY <2>1, <2>2
  <2> QED
    BY <2>3 DEF result
<1>11. d.cluster_id \in ClusterId
  BY DEF DeviceInv, DeviceTypeOK
<1> HIDE DEF parsed, ranked, peers, selected, synced
<1> QED
  BY <1>1, <1>2, <1>5, <1>7, <1>8, <1>9, <1>10, <1>11
     DEF DeviceInv, DeviceTypeOK, PeersOK, SyncInv

\* A received action frame keeps the invariant of the device.
LEMMA RxActionInv ==
    ASSUME NEW self \in Addr, NEW now \in Nat, NEW d, DeviceInv(d, self, now),
           NEW a \in Addr, NEW c \in ClusterId
    PROVE  DeviceInv(nan_rx_action(d, a, c, now), self, now)
<1>1. PeersOK(Put(d.peers, a, nan_peer_add(d.peers, a, c, now)))
  BY AddPeer, PutPeer DEF DeviceInv, DeviceTypeOK, PeersOK
<1> QED
  BY <1>1 DEF nan_rx_action, DeviceInv, DeviceTypeOK, PeersOK

\* Election and expiration at the end of a window keep the invariant.
LEMMA WindowEndInv ==
    ASSUME NEW self \in Addr, NEW now \in Nat, NEW d, DeviceInv(d, self, now)
    PROVE  DeviceInv(nan_handle_discovery_window_end(d, now), self, now)
<1> DEFINE s == nan_check_anchor_master_expiration(nan_master_election(d.sync, d.peers, now))
<1>1. SyncInv(s, self)
  BY Election, Expiration DEF DeviceInv
<1>2. nan_handle_discovery_window_end(d, now) = [ d EXCEPT !.sync = s ]
  BY DEF nan_handle_discovery_window_end
<1> HIDE DEF s
<1> QED
  BY <1>1, <1>2 DEF DeviceInv, DeviceTypeOK, SyncInv

\* Removing silent peers keeps the invariant.
LEMMA CleanPeersInv ==
    ASSUME NEW self \in Addr, NEW now \in Nat, NEW d, DeviceInv(d, self, now)
    PROVE  DeviceInv(nan_clean_peers(d, now), self, now)
<1>1. PeersOK(nan_peers_clean(d.peers, now))
  BY DEF nan_peers_clean, DeviceInv, DeviceTypeOK, PeersOK
<1> QED
  BY <1>1 DEF nan_clean_peers, DeviceInv, DeviceTypeOK, PeersOK

\* Removing a peer by command keeps the invariant.
LEMMA RemovePeerInv ==
    ASSUME NEW self \in Addr, NEW now \in Nat, NEW d, DeviceInv(d, self, now), NEW a
    PROVE  DeviceInv(nan_cmd_peer_rm(d, a), self, now)
<1>1. PeersOK(nan_peer_remove(d.peers, a))
  BY DEF nan_peer_remove, DeviceInv, DeviceTypeOK, PeersOK
<1> QED
  BY <1>1 DEF nan_cmd_peer_rm, DeviceInv, DeviceTypeOK, PeersOK

\* Setting preference or random factor keeps the invariant.
LEMMA SetCommandInv ==
    ASSUME NEW self \in Addr, NEW now \in Nat, NEW d, DeviceInv(d, self, now),
           NEW value \in Byte
    PROVE  /\ DeviceInv(nan_cmd_set_mp(d, value), self, now)
           /\ DeviceInv(nan_cmd_set_rf(d, value), self, now)
<1> DEFINE mp == [ d.sync EXCEPT !.master_preference = value ]
           rf == [ d.sync EXCEPT !.random_factor = value ]
<1>1. /\ mp \in SyncState /\ mp.master_rank.addr = self
      /\ RankLeq(mp.master_rank, mp.anchor_master_rank)
      /\ rf \in SyncState /\ rf.master_rank.addr = self
      /\ RankLeq(rf.master_rank, rf.anchor_master_rank)
  BY DEF DeviceInv, SyncInv, SyncState, nan_calculate_master_rank
<1> HIDE DEF mp, rf
<1>2. SyncInv(nan_update_master_rank(mp), self) /\ SyncInv(nan_update_master_rank(rf), self)
  BY <1>1, UpdateMasterRank
<1>3. /\ nan_cmd_set_mp(d, value) = [ d EXCEPT !.sync = nan_update_master_rank(mp) ]
      /\ nan_cmd_set_rf(d, value) = [ d EXCEPT !.sync = nan_update_master_rank(rf) ]
  BY DEF nan_cmd_set_mp, nan_cmd_set_rf, mp, rf, DeviceInv, DeviceTypeOK
<1> QED
  BY <1>2, <1>3 DEF DeviceInv, DeviceTypeOK, SyncInv
=============================================================================
