------------------------------- MODULE NanSync -------------------------------
(***************************************************************************)
(* The functions of src/src/sync.c on one sync state: anchor master        *)
(* selection and expiration, master election, master candidates and the    *)
(* updates of the device's own rank.  A function that writes through its   *)
(* state pointer is an operator that returns the new state.                *)
(*                                                                         *)
(* Time is counted in ticks.  DwTicks ticks make one discovery window      *)
(* interval of 512 TU, which is also the 2^19 microseconds that a cluster  *)
(* grade looks at; every constant of the source that is a duration is a    *)
(* number of ticks here.                                                   *)
(***************************************************************************)
EXTENDS NanRank, FiniteSets

CONSTANTS
    DwTicks,            \* NAN_DW_INTERVAL_TU
    FreshTicks,         \* NAN_DW_LENGTH_TU + 4, a peer's age at an election
    AmbttMod,           \* values of a uint32_t timestamp
    RfUpdateMinDw,      \* NAN_RANDOM_FACTOR_UPDATE_MIN_DW, 120
    MpUpdateMinDw,      \* NAN_MASTER_PREFERENCE_UPDATE_MIN_DW, 240
    MasterPreference    \* NAN_MASTER_PREFERENCE, 200

ASSUME SyncAssumption ==
    /\ DwTicks \in Nat \ {0}
    /\ FreshTicks \in Nat
    /\ AmbttMod \in Nat \ {0}
    /\ RfUpdateMinDw \in Nat
    /\ MpUpdateMinDw \in Nat
    /\ MasterPreference \in Byte

Role == {"NON_SYNC", "SYNC", "MASTER"}
Ambtt == 0 .. AmbttMod - 1

\* rssi_average against RSSI_MIDDLE and RSSI_CLOSE: "close" counts as middle too.
RssiLevel == {"far", "middle", "close"}

(***************************************************************************)
(* struct nan_sync_state.  last_random_factor_update_usec is written but   *)
(* never read, and last_hop_count keeps the 0 it is initialised with.      *)
(***************************************************************************)
SyncState ==
    [ role : Role,
      master_rank : Rank,
      master_preference : Byte,
      random_factor : Byte,
      last_master_preference_update : Nat,
      anchor_master_rank : Rank,
      ambtt : Ambtt,
      hop_count : Byte,
      last_anchor_master_rank : Rank,
      last_ambtt : Ambtt,
      count_dws_without_ambtt_update : Byte,
      count_dws_without_hop_count_update : Byte ]

last_hop_count == 0

nan_sync_state_init(interface_address) ==
    LET rank == nan_calculate_master_rank(0, 0, interface_address) IN
    [ role |-> "MASTER",
      master_rank |-> rank,
      master_preference |-> 0,
      random_factor |-> 0,
      last_master_preference_update |-> 0,
      anchor_master_rank |-> rank,
      ambtt |-> 0,
      hop_count |-> 0,
      last_anchor_master_rank |-> rank,
      last_ambtt |-> 0,
      count_dws_without_ambtt_update |-> 0,
      count_dws_without_hop_count_update |-> 0 ]

nan_is_anchor_master_self(s) ==
    nan_is_same_master_rank_issuer(s.master_rank, s.anchor_master_rank)

nan_get_peer_master_rank(peer) ==
    nan_calculate_master_rank(peer.master_preference, peer.random_factor, peer.addr)

----------------------------------------------------------------------------
(* Anchor master selection. *)

nan_save_current_anchor_master(s) ==
    [ s EXCEPT !.last_anchor_master_rank = s.anchor_master_rank,
               !.last_ambtt = s.ambtt ]

nan_set_anchor_master_other(s, peer) ==
    [ nan_save_current_anchor_master(s) EXCEPT
        !.anchor_master_rank = peer.anchor_master_rank,
        !.ambtt = peer.ambtt,
        !.hop_count = (peer.hop_count + 1) % ByteMod ]

nan_set_anchor_master_self(s) ==
    [ nan_save_current_anchor_master(s) EXCEPT
        !.anchor_master_rank = s.master_rank,
        !.ambtt = 0,
        !.hop_count = 0 ]

(***************************************************************************)
(* Mutant: a lower rank from the current anchor is always taken over, even *)
(* when it is below the device's own.                                      *)
(***************************************************************************)
SelectBelowOwn(s, peer) ==
    IF ~nan_is_same_master_rank_issuer(s.anchor_master_rank, peer.anchor_master_rank)
    THEN s
    ELSE nan_set_anchor_master_other(s, peer)

\* Mutant: a lower rank is taken over without asking who issued it.
SelectAnyLower(s, peer) ==
    IF RankLess(peer.anchor_master_rank, s.master_rank)
    THEN nan_set_anchor_master_self(s)
    ELSE nan_set_anchor_master_other(s, peer)

\* The received rank is below the current anchor's.
SelectLower(s, peer) ==
    IF ~nan_is_same_master_rank_issuer(s.anchor_master_rank, peer.anchor_master_rank)
    THEN s
    ELSE IF RankLess(peer.anchor_master_rank, s.master_rank)
         THEN nan_set_anchor_master_self(s)
         ELSE nan_set_anchor_master_other(s, peer)

\* The received rank is above the current anchor's.
SelectHigher(s, peer) ==
    IF s.last_anchor_master_rank = peer.anchor_master_rank /\ s.last_ambtt >= peer.ambtt
    THEN s
    ELSE nan_set_anchor_master_other(s, peer)

\* The received rank is the current anchor's: only a later transmission time
\* and a better hop count are taken over.
SelectSame(s, peer) ==
    [ s EXCEPT
        !.ambtt = IF @ < peer.ambtt THEN peer.ambtt ELSE @,
        !.hop_count = IF @ > peer.hop_count + 1 THEN peer.hop_count ELSE @ ]

\* The received rank changes nothing: it is outdated, or the device is its own
\* anchor and the rank is no better or once was its own.  synced_time_tu * 16 *
\* 512 is eight times the synced time in microseconds, the same in ticks.
SelectionIgnores(s, peer, synced_time) ==
    \/ /\ s.anchor_master_rank = peer.anchor_master_rank
       /\ peer.ambtt <= 8 * synced_time
    \/ /\ nan_is_anchor_master_self(s)
       /\ \/ RankLeq(peer.anchor_master_rank, s.master_rank)
          \/ nan_is_same_master_rank_issuer(s.master_rank, peer.anchor_master_rank)

(***************************************************************************)
(* The branch for a device that is its own anchor, unless it returns,      *)
(* falls through to the comparison, now with the peer's anchor.            *)
(***************************************************************************)
nan_anchor_master_selection(s, peer, synced_time) ==
    LET received == peer.anchor_master_rank
        current  == IF nan_is_anchor_master_self(s)
                    THEN nan_set_anchor_master_other(s, peer)
                    ELSE s
    IN  IF SelectionIgnores(s, peer, synced_time) THEN s
        ELSE IF RankLess(current.anchor_master_rank, received)
             THEN SelectHigher(current, peer)
        ELSE IF RankLess(received, current.anchor_master_rank)
             THEN SelectLower(current, peer)
        ELSE SelectSame(current, peer)

----------------------------------------------------------------------------
(* Anchor master expiration, called at the end of a discovery window. *)

\* Mutant: the windows are counted whatever was received in them.
CountAlways(unchanged, count) == (count + 1) % ByteMod

CountUp(unchanged, count) == IF unchanged THEN (count + 1) % ByteMod ELSE 0

nan_check_anchor_master_expiration(s) ==
    LET quiet == CountUp(s.ambtt = s.last_ambtt, s.count_dws_without_ambtt_update)
        far   == CountUp(s.hop_count = last_hop_count,
                         s.count_dws_without_hop_count_update)
        counted == [ s EXCEPT !.count_dws_without_ambtt_update = quiet,
                              !.count_dws_without_hop_count_update = far ]
    IN  IF nan_is_anchor_master_self(s)
        THEN [ s EXCEPT !.count_dws_without_ambtt_update = 0,
                        !.count_dws_without_hop_count_update = 0 ]
        ELSE IF quiet >= 3 THEN nan_set_anchor_master_self(counted)
        ELSE IF far >= 3 THEN [ counted EXCEPT !.hop_count = ByteMod - 1 ]
        ELSE counted

----------------------------------------------------------------------------
(* Master candidates and master election. *)

nan_check_master_candidate(s, peer) ==
    [ peer EXCEPT !.master_candidate =
        /\ peer.anchor_master_rank = s.anchor_master_rank
        /\ \/ peer.hop_count < s.hop_count
           \/ /\ peer.hop_count = s.hop_count
              /\ RankLess(s.master_rank, nan_get_peer_master_rank(peer)) ]

(***************************************************************************)
(* The peers heard in the window that just ended, counted by their signal. *)
(***************************************************************************)
HeardPeers(peers, now) ==
    { a \in DOMAIN peers : now - peers[a].last_update <= FreshTicks }

CloseOf(peers, heard)  == { a \in heard : peers[a].rssi = "close" }
MiddleOf(peers, heard) == { a \in heard : peers[a].rssi \in {"close", "middle"} }
CandidatesOf(peers, heard) == { a \in heard : peers[a].master_candidate }
HigherOf(s, peers, heard) ==
    { a \in heard : RankLess(s.master_rank, nan_get_peer_master_rank(peers[a])) }

\* One peer in close range, or three in middle range.
InReach(peers, group) ==
    \/ CloseOf(peers, group) # {}
    \/ Cardinality(MiddleOf(peers, group)) >= 3

(***************************************************************************)
(* Two decisions in a row: the second reads the role the first has set.    *)
(* Its else branch takes every role but SYNC, MASTER included.             *)
(***************************************************************************)
nan_master_election(s, peers, now) ==
    LET heard      == HeardPeers(peers, now)
        higher     == HigherOf(s, peers, heard)
        candidates == CandidatesOf(peers, heard)
        first ==
            IF s.role = "MASTER"
            THEN IF InReach(peers, higher) THEN "SYNC" ELSE "MASTER"
            ELSE IF CloseOf(peers, heard) = {} /\ higher # {} THEN "MASTER" ELSE s.role
        second ==
            IF first = "SYNC"
            THEN IF InReach(peers, candidates) THEN "NON_SYNC" ELSE "SYNC"
            ELSE IF InReach(peers, candidates) THEN first ELSE "SYNC"
    IN  [ s EXCEPT !.role = second ]

----------------------------------------------------------------------------
(* The device's own rank. *)

(***************************************************************************)
(* Mutant: a device whose new rank exceeds its anchor's goes on following. *)
(***************************************************************************)
UpdateRankAndFollow(s) ==
    LET rank == nan_calculate_master_rank(s.master_preference, s.random_factor,
                                          s.master_rank.addr)
        updated == [ s EXCEPT !.master_rank = rank ]
    IN  IF rank # s.master_rank /\ nan_is_anchor_master_self(updated)
        THEN [ updated EXCEPT !.last_anchor_master_rank = s.anchor_master_rank,
                              !.anchor_master_rank = rank ]
        ELSE updated

(***************************************************************************)
(* Every caller passes the address the rank already has.                   *)
(***************************************************************************)
nan_update_master_rank(s) ==
    LET rank == nan_calculate_master_rank(s.master_preference, s.random_factor,
                                          s.master_rank.addr)
        updated == [ s EXCEPT !.master_rank = rank ]
    IN  IF rank = s.master_rank THEN s
        ELSE IF nan_is_anchor_master_self(updated)
             THEN [ updated EXCEPT !.last_anchor_master_rank = s.anchor_master_rank,
                                   !.anchor_master_rank = rank ]
        ELSE IF RankLess(s.anchor_master_rank, rank)
             THEN nan_set_anchor_master_self(updated)
        ELSE updated

(***************************************************************************)
(* random is the value get_rand_num returns.  Both limits are measured     *)
(* from the last change of the master preference.                          *)
(***************************************************************************)
nan_update_master_preference(s, peer, now, random) ==
    LET elapsed_dws == (now - s.last_master_preference_update) \div DwTicks
        refreshed == IF elapsed_dws > RfUpdateMinDw
                     THEN [ s EXCEPT !.random_factor = random ]
                     ELSE s
        preferred == IF elapsed_dws > MpUpdateMinDw
                     THEN [ refreshed EXCEPT !.master_preference = MasterPreference,
                                             !.last_master_preference_update = now ]
                     ELSE refreshed
        due == elapsed_dws > RfUpdateMinDw \/ elapsed_dws > MpUpdateMinDw
    IN  IF peer.master_preference = peer.last_master_preference \/ ~due
        THEN s
        ELSE nan_update_master_rank(preferred)
=============================================================================
