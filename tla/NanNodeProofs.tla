---------------------------- MODULE NanNodeProofs ----------------------------
(***************************************************************************)
(* A device among arbitrary neighbours never follows an anchor master of a *)
(* rank below its own, for every address, every set of beacons and every   *)
(* value of the other constants.                                           *)
(***************************************************************************)
EXTENDS NanNode, NanDeviceProofs

\* The inductive invariant: the lemmas on the handlers preserve it.
IInv == now \in Nat /\ DeviceInv(dev, Self, now)

\* The inductive invariant contains the three invariants.
LEMMA IInvImplies ==
    ASSUME IInv
    PROVE  TypeOK /\ RankReflectsSettings /\ AnchorNotBelowSelf
BY DEF IInv, DeviceInv, SyncInv, TypeOK, RankReflectsSettings, AnchorNotBelowSelf

\* The initial states satisfy the inductive invariant.
LEMMA InitIInv == Init => IInv
<1> SUFFICES ASSUME Init
             PROVE  IInv
  OBVIOUS
<1> QED
  BY NodeAssumption, InitDevice DEF Init, IInv

\* Every step keeps the inductive invariant: one case per action.
LEMMA NextIInv == IInv /\ [Next]_vars => IInv'
<1> SUFFICES ASSUME IInv, [Next]_vars
             PROVE  IInv'
  OBVIOUS
<1> USE NodeAssumption DEF IInv
<1>1. CASE Tick
  <2>1. dev.base_time \in Int /\ dev.base_time <= now /\ now' = now + 1 /\ dev' = dev
    BY <1>1 DEF Tick, DeviceInv, DeviceTypeOK
  <2> QED
    BY <2>1 DEF DeviceInv
<1>2. CASE \E a \in Neighbours, b \in Beacons : RxBeacon(a, b)
  <2>1. PICK a \in Neighbours, b \in Beacons, rssi \in RssiLevel, random \in Byte :
            dev' = nan_rx_beacon(dev, a, b, rssi, random, now) /\ now' = now
    BY <1>2 DEF RxBeacon
  <2>2. a \in Addr /\ b \in Beacon
    OBVIOUS
  <2> QED
    BY <2>1, <2>2, RxBeaconInv
<1>3. CASE \E a \in Neighbours, c \in ClusterId : RxAction(a, c)
  BY <1>3, RxActionInv DEF RxAction
<1>4. CASE DiscoveryWindowEnd
  BY <1>4, WindowEndInv DEF DiscoveryWindowEnd
<1>5. CASE CleanPeers \/ \E a \in Neighbours : RemovePeer(a)
  BY <1>5, CleanPeersInv, RemovePeerInv DEF CleanPeers, RemovePeer
<1>6. CASE \E value \in Settings : SetMasterPreference(value)
  BY <1>6, SetCommandInv DEF SetMasterPreference
<1>7. CASE \E value \in Settings : SetRandomFactor(value)
  BY <1>7, SetCommandInv DEF SetRandomFactor
<1>8. CASE UNCHANGED vars
  BY <1>8 DEF vars
<1> QED
  BY <1>1, <1>2, <1>3, <1>4, <1>5, <1>6, <1>7, <1>8 DEF Next

\* The inductive invariant holds in every reachable state.
LEMMA Invariance == Spec => []IInv
BY InitIInv, NextIInv, PTL DEF Spec

(***************************************************************************)
(* Every handler keeps every field in its range.                           *)
(***************************************************************************)
THEOREM TypeCorrectness == Spec => []TypeOK
BY Invariance, IInvImplies, PTL

(***************************************************************************)
(* The announced rank is always the one of the current settings.           *)
(***************************************************************************)
THEOREM RankIsCurrent == Spec => []RankReflectsSettings
BY Invariance, IInvImplies, PTL

(***************************************************************************)
(* The anchor master's rank is never below the device's own.               *)
(***************************************************************************)
THEOREM AnchorIsNotBelowSelf == Spec => []AnchorNotBelowSelf
BY Invariance, IInvImplies, PTL

----------------------------------------------------------------------------
(* Where a lower anchor comes from. *)

(***************************************************************************)
(* From the sync state s to the sync state t, the anchor's rank falls only *)
(* for a cause.                                                            *)
(***************************************************************************)
Caused(s, t) ==
    RankLess(t.anchor_master_rank, s.anchor_master_rank) =>
        \/ nan_is_same_master_rank_issuer(s.anchor_master_rank, t.anchor_master_rank)
        \/ t.anchor_master_rank = t.master_rank
        \/ s.anchor_master_rank.addr = Self

\* A step that keeps the anchor rank needs no cause.
LEMMA SameAnchorIsCaused ==
    ASSUME NEW s, NEW t, s.anchor_master_rank \in Rank,
           t.anchor_master_rank = s.anchor_master_rank
    PROVE  Caused(s, t)
BY RankLessIrreflexive DEF Caused

(***************************************************************************)
(* What a selection that hears peer makes of the sync state s: a device    *)
(* that is its own anchor takes a higher rank of someone else, any other   *)
(* takes a higher rank, one of the same issuer, or falls back to itself.   *)
(***************************************************************************)
SelectionMove(s, r, peer) ==
    \/ r.anchor_master_rank = s.anchor_master_rank
    \/ /\ ~nan_is_anchor_master_self(s)
       /\ r.anchor_master_rank = peer.anchor_master_rank
       /\ \/ RankLess(s.anchor_master_rank, peer.anchor_master_rank)
          \/ nan_is_same_master_rank_issuer(s.anchor_master_rank, peer.anchor_master_rank)
    \/ /\ r.anchor_master_rank = s.master_rank
       /\ r.master_rank = s.master_rank
    \/ /\ nan_is_anchor_master_self(s)
       /\ r.anchor_master_rank = peer.anchor_master_rank
       /\ RankLess(s.master_rank, peer.anchor_master_rank)
       /\ peer.anchor_master_rank.addr # Self

\* nan_anchor_master_selection moves the anchor as SelectionMove says.
LEMMA SelectionAnchor ==
    ASSUME NEW s, SyncInv(s, Self), NEW peer \in Peer, NEW t
    PROVE  SelectionMove(s, nan_anchor_master_selection(s, peer, t), peer)
<1> DEFINE received == peer.anchor_master_rank
           other == nan_set_anchor_master_other(s, peer)
           r == nan_anchor_master_selection(s, peer, t)
<1>1. /\ s \in SyncState /\ received \in Rank /\ s.master_rank.addr = Self
  BY DEF SyncInv, Peer, nan_calculate_master_rank
<1>2. other.anchor_master_rank = received
  BY <1>1 DEF nan_set_anchor_master_other, nan_save_current_anchor_master, SyncState
<1>3. CASE SelectionIgnores(s, peer, t)
  BY <1>3 DEF nan_anchor_master_selection, SelectionMove
<1>4. CASE ~SelectionIgnores(s, peer, t) /\ nan_is_anchor_master_self(s)
  <2>1. ~RankLess(received, received)
    BY <1>1, RankLessIrreflexive
  <2>2. r = SelectSame(other, peer)
    BY <1>2, <1>4, <2>1 DEF nan_anchor_master_selection
  <2>3. r.anchor_master_rank = received
    BY <1>1, <1>2, <2>2 DEF SelectSame, nan_set_anchor_master_other,
                            nan_save_current_anchor_master, SyncState
  <2>4. RankLess(s.master_rank, received) /\ received.addr # Self
    BY <1>1, <1>4 DEF SelectionIgnores, RankLeq, nan_is_same_master_rank_issuer,
                      nan_is_master_rank_issuer
  <2> QED
    BY <1>4, <2>3, <2>4 DEF SelectionMove
<1>5. CASE ~SelectionIgnores(s, peer, t) /\ ~nan_is_anchor_master_self(s)
  <2>1. CASE RankLess(s.anchor_master_rank, received)
    <3>1. r = SelectHigher(s, peer)
      BY <1>5, <2>1 DEF nan_anchor_master_selection
    <3> QED
      BY <1>2, <1>5, <2>1, <3>1 DEF SelectHigher, SelectionMove
  <2>2. CASE /\ ~RankLess(s.anchor_master_rank, received)
             /\ RankLess(received, s.anchor_master_rank)
    <3>1. r = SelectLower(s, peer)
      BY <1>5, <2>2 DEF nan_anchor_master_selection
    <3>2. /\ nan_set_anchor_master_self(s).anchor_master_rank = s.master_rank
          /\ nan_set_anchor_master_self(s).master_rank = s.master_rank
      BY <1>1 DEF nan_set_anchor_master_self, nan_save_current_anchor_master, SyncState
    <3> QED
      BY <1>2, <1>5, <2>2, <3>1, <3>2 DEF SelectLower, SelectionMove
  <2>3. CASE /\ ~RankLess(s.anchor_master_rank, received)
             /\ ~RankLess(received, s.anchor_master_rank)
    <3>1. r = SelectSame(s, peer)
      BY <1>5, <2>3 DEF nan_anchor_master_selection
    <3> QED
      BY <1>1, <3>1 DEF SelectSame, SyncState, SelectionMove
  <2> QED
    BY <2>1, <2>2, <2>3
<1> QED
  BY <1>3, <1>4, <1>5

(***************************************************************************)
(* A change of the device's own rank moves the anchor only to that rank,   *)
(* and only when the device was its own anchor or now outranks it.         *)
(***************************************************************************)
OwnRankMove(s, r) ==
    \/ r.anchor_master_rank = s.anchor_master_rank
    \/ /\ r.anchor_master_rank = r.master_rank
       /\ \/ s.anchor_master_rank.addr = Self
          \/ RankLess(s.anchor_master_rank, r.master_rank)

\* A new rank of the device moves the anchor as OwnRankMove says.
LEMMA UpdateRankMove ==
    ASSUME NEW s, s \in SyncState, s.master_rank.addr = Self
    PROVE  OwnRankMove(s, nan_update_master_rank(s))
<1> DEFINE rank == nan_calculate_master_rank(s.master_preference, s.random_factor, Self)
           updated == [ s EXCEPT !.master_rank = rank ]
<1>1. rank.addr = Self
  BY DEF nan_calculate_master_rank
<1> HIDE DEF rank
<1>2. nan_is_anchor_master_self(updated) => s.anchor_master_rank.addr = Self
  BY <1>1 DEF SyncState, nan_is_anchor_master_self, nan_is_same_master_rank_issuer,
              nan_is_master_rank_issuer
<1>3. /\ nan_set_anchor_master_self(updated).anchor_master_rank = rank
      /\ nan_set_anchor_master_self(updated).master_rank = rank
  BY DEF nan_set_anchor_master_self, nan_save_current_anchor_master, SyncState
<1> QED
  BY <1>2, <1>3 DEF OwnRankMove, nan_update_master_rank, SyncState, rank

\* So does renewing preference and random factor.
LEMMA UpdatePreferenceMove ==
    ASSUME NEW s, SyncInv(s, Self), NEW peer, NEW n \in Nat, NEW random \in Byte
    PROVE  OwnRankMove(s, nan_update_master_preference(s, peer, n, random))
<1> DEFINE elapsed_dws == (n - s.last_master_preference_update) \div DwTicks
           refreshed == IF elapsed_dws > RfUpdateMinDw
                        THEN [ s EXCEPT !.random_factor = random ]
                        ELSE s
           preferred == IF elapsed_dws > MpUpdateMinDw
                        THEN [ refreshed EXCEPT !.master_preference = MasterPreference,
                                                !.last_master_preference_update = n ]
                        ELSE refreshed
<1> HIDE DEF elapsed_dws
<1>1. /\ preferred \in SyncState
      /\ preferred.master_rank = s.master_rank
      /\ preferred.anchor_master_rank = s.anchor_master_rank
  BY SyncAssumption DEF SyncInv, SyncState
<1> HIDE DEF preferred
<1>2. s.master_rank.addr = Self
  BY DEF SyncInv, nan_calculate_master_rank
<1>3. OwnRankMove(preferred, nan_update_master_rank(preferred))
  BY <1>1, <1>2, UpdateRankMove
<1>4. \/ nan_update_master_preference(s, peer, n, random) = s
      \/ nan_update_master_preference(s, peer, n, random) = nan_update_master_rank(preferred)
  BY DEF nan_update_master_preference, preferred, elapsed_dws
<1> QED
  BY <1>1, <1>3, <1>4 DEF OwnRankMove

\* A change of the own rank is a cause.
LEMMA OwnRankMoveIsCaused ==
    ASSUME NEW s, NEW r, s.anchor_master_rank \in Rank, r.master_rank \in Rank,
           OwnRankMove(s, r)
    PROVE  Caused(s, r)
BY SameAnchorIsCaused, RankLessIrreflexive, RankLessTransitive DEF OwnRankMove, Caused

(***************************************************************************)
(* A change of the own rank followed by a selection: what one beacon does. *)
(***************************************************************************)
LEMMA MoveThenSelectionIsCaused ==
    ASSUME NEW s, s.anchor_master_rank \in Rank,
           NEW r, SyncInv(r, Self), OwnRankMove(s, r),
           NEW peer \in Peer, NEW t
    PROVE  Caused(s, nan_anchor_master_selection(r, peer, t))
<1> DEFINE q == nan_anchor_master_selection(r, peer, t)
<1>1. /\ r.master_rank \in Rank /\ r.anchor_master_rank \in Rank
      /\ peer.anchor_master_rank \in Rank /\ r.master_rank.addr = Self
  BY DEF SyncInv, SyncState, Peer, nan_calculate_master_rank
<1>2. SelectionMove(r, q, peer)
  BY SelectionAnchor
<1>3. nan_is_anchor_master_self(r) <=> r.anchor_master_rank.addr = Self
  BY <1>1 DEF nan_is_anchor_master_self, nan_is_same_master_rank_issuer,
              nan_is_master_rank_issuer
<1> SUFFICES Caused(s, q)
  OBVIOUS
<1> HIDE DEF q
<1>4. CASE r.anchor_master_rank = s.anchor_master_rank
  BY <1>1, <1>2, <1>3, <1>4, RankLessIrreflexive, RankLessTransitive
     DEF Caused, SelectionMove
<1>5. CASE s.anchor_master_rank.addr = Self
  BY <1>5 DEF Caused
<1>6. CASE r.anchor_master_rank = r.master_rank /\ RankLess(s.anchor_master_rank, r.master_rank)
  BY <1>1, <1>2, <1>3, <1>6, RankLessIrreflexive, RankLessTransitive
     DEF Caused, SelectionMove
<1> QED
  BY <1>4, <1>5, <1>6 DEF OwnRankMove

\* An anchor that expires gives way to the device itself.
LEMMA ExpirationIsCaused ==
    ASSUME NEW s, SyncInv(s, Self), NEW peers, NEW n
    PROVE  Caused(s, nan_check_anchor_master_expiration(nan_master_election(s, peers, n)))
<1> DEFINE e == nan_master_election(s, peers, n)
           x == nan_check_anchor_master_expiration(e)
<1>1. e.anchor_master_rank = s.anchor_master_rank /\ e \in SyncState
  <2>1. SyncInv(e, Self)
    BY Election, NodeAssumption
  <2>2. e.anchor_master_rank = s.anchor_master_rank
    BY DEF nan_master_election, SyncInv, SyncState
  <2> QED
    BY <2>1, <2>2 DEF SyncInv
<1> HIDE DEF e
<1>2. \/ x.anchor_master_rank = e.anchor_master_rank
      \/ x.anchor_master_rank = x.master_rank
  BY <1>1 DEF nan_check_anchor_master_expiration, nan_set_anchor_master_self,
              nan_save_current_anchor_master, SyncState
<1> HIDE DEF x
<1>3. s.anchor_master_rank \in Rank
  BY DEF SyncInv, SyncState
<1>4. Caused(s, x)
  BY <1>1, <1>2, <1>3, SameAnchorIsCaused DEF Caused
<1> QED
  BY <1>4 DEF x, e

\* The set command moves the anchor to the device itself or not at all.
LEMMA SetCommandIsCaused ==
    ASSUME NEW s, SyncInv(s, Self), NEW value \in Byte
    PROVE  /\ Caused(s, nan_update_master_rank([ s EXCEPT !.master_preference = value ]))
           /\ Caused(s, nan_update_master_rank([ s EXCEPT !.random_factor = value ]))
<1> SUFFICES ASSUME NEW set,
                    set \in { [ s EXCEPT !.master_preference = value ],
                              [ s EXCEPT !.random_factor = value ] }
             PROVE  Caused(s, nan_update_master_rank(set))
  OBVIOUS
<1>1. /\ set \in SyncState
      /\ set.master_rank = s.master_rank
      /\ set.anchor_master_rank = s.anchor_master_rank
  BY DEF SyncInv, SyncState
<1>2. set.master_rank.addr = Self
  BY <1>1 DEF SyncInv, nan_calculate_master_rank
<1>3. OwnRankMove(s, nan_update_master_rank(set))
  BY <1>1, <1>2, UpdateRankMove DEF OwnRankMove
<1>4. nan_update_master_rank(set).master_rank \in Rank /\ s.anchor_master_rank \in Rank
  <2>1. RankLeq(set.master_rank, set.anchor_master_rank)
    BY <1>1 DEF SyncInv
  <2>2. SyncInv(nan_update_master_rank(set), Self)
    BY <1>1, <1>2, <2>1, UpdateMasterRank, NodeAssumption
  <2> QED
    BY <2>2 DEF SyncInv, SyncState
<1> QED
  BY <1>3, <1>4, OwnRankMoveIsCaused

\* A beacon moves the anchor for a cause.
LEMMA RxBeaconIsCaused ==
    ASSUME NEW d, NEW n \in Nat, DeviceInv(d, Self, n), NEW a \in Addr, NEW b \in Beacon,
           NEW rssi \in RssiLevel, NEW random \in Byte
    PROVE  Caused(d.sync, nan_rx_beacon(d, a, b, rssi, random, n).sync)
<1> DEFINE parsed == ParseAttributes(nan_peer_add(d.peers, a, b.cluster_id, n), b)
           heard  == nan_peer_set_beacon_information(parsed, rssi, b.timestamp)
           ranked == nan_update_master_preference(d.sync, heard, n, random)
           peer   == nan_check_master_candidate(ranked, heard)
           selected == nan_anchor_master_selection(
                           ranked, peer, nan_timer_get_synced_time(d, n))
<1>1. SyncInv(d.sync, Self) /\ PeersOK(d.peers) /\ Self \in Addr
  BY NodeAssumption DEF DeviceInv, DeviceTypeOK, PeersOK
<1>2. SyncInv(ranked, Self) /\ OwnRankMove(d.sync, ranked)
  BY <1>1, UpdateMasterPreference, UpdatePreferenceMove
<1>3. peer \in Peer
  <2>1. parsed \in Peer
    BY <1>1, AddPeer, Parse DEF Beacon
  <2>2. heard \in Peer
    BY <2>1, BeaconInformation DEF Beacon
  <2> QED
    BY <2>2, MasterCandidate
<1>4. d.sync.anchor_master_rank \in Rank /\ ranked.master_rank \in Rank
  BY <1>1, <1>2 DEF SyncInv, SyncState
<1> HIDE DEF parsed, heard, ranked, peer
<1>5. Caused(d.sync, d.sync) /\ Caused(d.sync, ranked) /\ Caused(d.sync, selected)
  BY <1>2, <1>3, <1>4, SameAnchorIsCaused, OwnRankMoveIsCaused, MoveThenSelectionIsCaused
<1>6. nan_rx_beacon(d, a, b, rssi, random, n).sync \in {d.sync, ranked, selected}
  <2>1. d = [ sync |-> d.sync, peers |-> d.peers, cluster_id |-> d.cluster_id,
              base_time |-> d.base_time ]
    BY DEF DeviceInv, DeviceTypeOK
  <2> QED
    BY <2>1 DEF nan_rx_beacon, parsed, heard, ranked, peer
<1> HIDE DEF selected
<1> QED
  BY <1>5, <1>6

\* Every step of the device, one handler after the other.
LEMMA StepIsCaused == IInv /\ [Next]_vars => [AnchorFallsForCause]_vars
<1> SUFFICES ASSUME IInv, [Next]_vars
             PROVE  Caused(dev.sync, dev'.sync)
  BY DEF AnchorFallsForCause, Caused
<1> USE NodeAssumption DEF IInv
<1>1. SyncInv(dev.sync, Self) /\ dev.sync.anchor_master_rank \in Rank
  BY DEF DeviceInv, SyncInv, SyncState
<1>2. dev = [ sync |-> dev.sync, peers |-> dev.peers, cluster_id |-> dev.cluster_id,
              base_time |-> dev.base_time ]
  BY DEF DeviceInv, DeviceTypeOK
<1>3. CASE dev'.sync = dev.sync
  BY <1>1, <1>3, SameAnchorIsCaused
<1>4. CASE \E a \in Neighbours, b \in Beacons : RxBeacon(a, b)
  <2>1. PICK a \in Neighbours, b \in Beacons, rssi \in RssiLevel, random \in Byte :
            dev' = nan_rx_beacon(dev, a, b, rssi, random, now)
    BY <1>4 DEF RxBeacon
  <2>2. a \in Addr /\ b \in Beacon
    OBVIOUS
  <2> QED
    BY <2>1, <2>2, RxBeaconIsCaused
<1>5. CASE DiscoveryWindowEnd
  <2>1. dev'.sync = nan_check_anchor_master_expiration(
                        nan_master_election(dev.sync, dev.peers, now))
    BY <1>2, <1>5 DEF DiscoveryWindowEnd, nan_handle_discovery_window_end
  <2> QED
    BY <1>1, <2>1, ExpirationIsCaused
<1>6. CASE \E value \in Settings : SetMasterPreference(value) \/ SetRandomFactor(value)
  <2>1. PICK value \in Byte :
            \/ dev'.sync = nan_update_master_rank(
                               [ dev.sync EXCEPT !.master_preference = value ])
            \/ dev'.sync = nan_update_master_rank(
                               [ dev.sync EXCEPT !.random_factor = value ])
    BY <1>2, <1>6 DEF SetMasterPreference, SetRandomFactor, nan_cmd_set_mp, nan_cmd_set_rf
  <2> QED
    BY <1>1, <2>1, SetCommandIsCaused
<1>7. CASE Tick \/ CleanPeers \/ UNCHANGED vars
           \/ \E a \in Neighbours, c \in ClusterId : RxAction(a, c)
  <2>1. dev'.sync = dev.sync
    BY <1>2, <1>7 DEF Tick, CleanPeers, RxAction, vars, nan_clean_peers, nan_rx_action
  <2> QED
    BY <1>3, <2>1
<1>8. CASE \E a \in Neighbours : RemovePeer(a)
  <2>1. dev'.sync = dev.sync
    BY <1>2, <1>8 DEF RemovePeer, nan_cmd_peer_rm
  <2> QED
    BY <1>3, <2>1
<1> QED
  BY <1>4, <1>5, <1>6, <1>7, <1>8 DEF Next

(***************************************************************************)
(* The anchor's rank falls only for a cause: the same issuer, the device   *)
(* itself, or the end of following an old rank of its own.                 *)
(***************************************************************************)
THEOREM AnchorFalls == Spec => AnchorFallsOnlyForCause
BY Invariance, StepIsCaused, PTL DEF Spec, AnchorFallsOnlyForCause

----------------------------------------------------------------------------
(* When the synced time jumps. *)

(***************************************************************************)
(* A selection after a change of the own rank does not lead back to the    *)
(* anchor the device had before both.                                      *)
(***************************************************************************)
LEMMA SelectionLeadsOn ==
    ASSUME NEW s, s.anchor_master_rank \in Rank,
           NEW r, SyncInv(r, Self), OwnRankMove(s, r),
           NEW peer \in Peer, NEW t,
           NEW q, q = nan_anchor_master_selection(r, peer, t),
           q.anchor_master_rank # r.anchor_master_rank
    PROVE  q.anchor_master_rank # s.anchor_master_rank
<1>1. /\ r.master_rank \in Rank /\ peer.anchor_master_rank \in Rank
      /\ r.master_rank.addr = Self
  BY DEF SyncInv, SyncState, Peer, nan_calculate_master_rank
<1>2. SelectionMove(r, q, peer)
  BY SelectionAnchor
<1> SUFFICES ASSUME q.anchor_master_rank = s.anchor_master_rank
             PROVE  FALSE
  OBVIOUS
<1>3. /\ r.anchor_master_rank = r.master_rank
      /\ \/ s.anchor_master_rank.addr = Self
         \/ RankLess(s.anchor_master_rank, r.master_rank)
  BY DEF OwnRankMove
<1>4. nan_is_anchor_master_self(r)
  BY <1>1, <1>3 DEF nan_is_anchor_master_self, nan_is_same_master_rank_issuer,
                    nan_is_master_rank_issuer
<1>5. /\ q.anchor_master_rank = peer.anchor_master_rank
      /\ RankLess(r.master_rank, peer.anchor_master_rank)
      /\ peer.anchor_master_rank.addr # Self
  BY <1>2, <1>3, <1>4 DEF SelectionMove
<1> QED
  BY <1>1, <1>3, <1>5, RankLessIrreflexive, RankLessTransitive

\* A beacon that sets the clock changed cluster or anchor, or is the first heard.
LEMMA RxBeaconTime ==
    ASSUME NEW d, NEW n \in Nat, DeviceInv(d, Self, n), NEW a \in Addr, NEW b \in Beacon,
           NEW rssi \in RssiLevel, NEW random \in Byte,
           NEW r, r = nan_rx_beacon(d, a, b, rssi, random, n),
           r.base_time # d.base_time
    PROVE  \/ r.cluster_id # d.cluster_id
           \/ r.sync.anchor_master_rank # d.sync.anchor_master_rank
           \/ DOMAIN d.peers = {}
<1> DEFINE parsed == ParseAttributes(nan_peer_add(d.peers, a, b.cluster_id, n), b)
           heard  == nan_peer_set_beacon_information(parsed, rssi, b.timestamp)
           ranked == nan_update_master_preference(d.sync, heard, n, random)
           peer   == nan_check_master_candidate(ranked, heard)
           selected == nan_anchor_master_selection(
                           ranked, peer, nan_timer_get_synced_time(d, n))
<1>1. SyncInv(d.sync, Self) /\ PeersOK(d.peers) /\ Self \in Addr
  BY NodeAssumption DEF DeviceInv, DeviceTypeOK, PeersOK
<1>2. SyncInv(ranked, Self) /\ OwnRankMove(d.sync, ranked)
  BY <1>1, UpdateMasterPreference, UpdatePreferenceMove
<1>3. peer \in Peer
  <2>1. parsed \in Peer
    BY <1>1, AddPeer, Parse DEF Beacon
  <2>2. heard \in Peer
    BY <2>1, BeaconInformation DEF Beacon
  <2> QED
    BY <2>2, MasterCandidate
<1>4. d.sync.anchor_master_rank \in Rank
  BY <1>1 DEF SyncInv, SyncState
<1>5. selected.anchor_master_rank # ranked.anchor_master_rank
          => selected.anchor_master_rank # d.sync.anchor_master_rank
  <2> HIDE DEF ranked, peer
  <2> QED
    BY <1>2, <1>3, <1>4, SelectionLeadsOn
<1>6. \/ DOMAIN d.peers = {}
      \/ r.cluster_id = b.cluster_id /\ b.cluster_id # d.cluster_id
      \/ /\ selected.anchor_master_rank # ranked.anchor_master_rank
         /\ r.sync = selected
  <2>1. d = [ sync |-> d.sync, peers |-> d.peers, cluster_id |-> d.cluster_id,
              base_time |-> d.base_time ]
    BY DEF DeviceInv, DeviceTypeOK
  <2> QED
    BY <2>1 DEF nan_rx_beacon, TimeOfSelection, parsed, heard, ranked, peer, selected
<1> HIDE DEF ranked, peer, selected
<1> QED
  BY <1>5, <1>6

\* A step that sets the clock is a beacon, with one of its reasons.
LEMMA StepTime ==
    IInv /\ [Next]_vars =>
        [ dev'.base_time # dev.base_time =>
            \/ dev'.cluster_id # dev.cluster_id
            \/ dev'.sync.anchor_master_rank # dev.sync.anchor_master_rank
            \/ DOMAIN dev.peers = {} ]_vars
<1> SUFFICES ASSUME IInv, [Next]_vars, dev'.base_time # dev.base_time
             PROVE  \/ dev'.cluster_id # dev.cluster_id
                    \/ dev'.sync.anchor_master_rank # dev.sync.anchor_master_rank
                    \/ DOMAIN dev.peers = {}
  OBVIOUS
<1> USE NodeAssumption DEF IInv
<1>1. dev = [ sync |-> dev.sync, peers |-> dev.peers, cluster_id |-> dev.cluster_id,
              base_time |-> dev.base_time ]
  BY DEF DeviceInv, DeviceTypeOK
<1>2. CASE \E a \in Neighbours, b \in Beacons : RxBeacon(a, b)
  <2>1. PICK a \in Neighbours, b \in Beacons, rssi \in RssiLevel, random \in Byte :
            dev' = nan_rx_beacon(dev, a, b, rssi, random, now)
    BY <1>2 DEF RxBeacon
  <2>2. a \in Addr /\ b \in Beacon
    OBVIOUS
  <2> QED
    BY <2>1, <2>2, RxBeaconTime
<1>3. ~(\E a \in Neighbours, b \in Beacons : RxBeacon(a, b)) => dev'.base_time = dev.base_time
  BY <1>1 DEF Next, vars, Tick, RxAction, DiscoveryWindowEnd, CleanPeers, RemovePeer,
              SetMasterPreference, SetRandomFactor, nan_rx_action, nan_clean_peers,
              nan_cmd_peer_rm,
              nan_handle_discovery_window_end, nan_cmd_set_mp, nan_cmd_set_rf
<1> QED
  BY <1>2, <1>3

(***************************************************************************)
(* The synced time jumps only with the anchor master or the cluster, or    *)
(* when the first neighbour of all is heard.                               *)
(***************************************************************************)
THEOREM TimeJumps == Spec => TimeJumpsWithAnchor
BY Invariance, StepTime, PTL DEF Spec, TimeJumpsWithAnchor
=============================================================================
