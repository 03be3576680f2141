------------------------------- MODULE NanPeer -------------------------------
(***************************************************************************)
(* The table of known peers (src/src/peer.c): a function from addresses to *)
(* peer records, in place of the linked list.  An operator returns the new *)
(* table, or the new record of one peer.                                   *)
(***************************************************************************)
EXTENDS NanSync

CONSTANTS
    ClusterId,      \* cluster ids in use
    PeerTimeout     \* PEER_DEFAULT_TIMEOUT_USEC, ten discovery window intervals

ASSUME PeerAssumption == PeerTimeout \in Nat

(***************************************************************************)
(* struct nan_peer, less what no decision reads: the IPv6 address and      *)
(* last_anchor_master_rank, which only words a log line.  rssi stands for  *)
(* rssi_average.                                                           *)
(***************************************************************************)
Peer ==
    [ addr : Addr,
      cluster_id : ClusterId,
      last_update : Nat,
      last_timestamp : Nat,
      master_preference : Byte,
      last_master_preference : Byte,
      random_factor : Byte,
      anchor_master_rank : Rank,
      ambtt : Ambtt,
      hop_count : Byte,
      master_candidate : BOOLEAN,
      rssi : RssiLevel ]

\* f with key mapped to value, whether or not key was in its domain
Put(f, key, value) ==
    [ x \in DOMAIN f \cup {key} |-> IF x = key THEN value ELSE f[x] ]

\* The average of no readings is 0 dBm, which counts as close.
nan_peer_new(addr, cluster_id, now) ==
    [ addr |-> addr,
      cluster_id |-> cluster_id,
      last_update |-> now,
      last_timestamp |-> 0,
      master_preference |-> 0,
      last_master_preference |-> 0,
      random_factor |-> 0,
      anchor_master_rank |-> ZeroRank,
      ambtt |-> 0,
      hop_count |-> 0,
      master_candidate |-> FALSE,
      rssi |-> "close" ]

\* The entry of addr after nan_peer_add: a new one, or its own refreshed.
nan_peer_add(peers, addr, cluster_id, now) ==
    IF addr \in DOMAIN peers
    THEN [ peers[addr] EXCEPT !.last_update = now, !.cluster_id = cluster_id ]
    ELSE nan_peer_new(addr, cluster_id, now)

\* Mutant: the random factor of the first announcement is kept.
IndicatePreferenceOnly(peer, master_preference, random_factor) ==
    [ peer EXCEPT !.last_master_preference = peer.master_preference,
                  !.master_preference = master_preference ]

nan_peer_set_master_indication(peer, master_preference, random_factor) ==
    [ peer EXCEPT !.last_master_preference = peer.master_preference,
                  !.master_preference = master_preference,
                  !.random_factor = random_factor ]

(***************************************************************************)
(* An anchor master announces itself with hop count 0, and its             *)
(* transmission time is then the timestamp of its PREVIOUS beacon, the     *)
(* timestamp of this one being stored only afterwards; 0 if there was none.*)
(***************************************************************************)
nan_peer_set_anchor_master_information(peer, anchor_master_rank, ambtt, hop_count) ==
    [ peer EXCEPT
        !.anchor_master_rank = anchor_master_rank,
        !.hop_count = hop_count,
        !.ambtt = IF hop_count = 0 THEN peer.last_timestamp % AmbttMod ELSE ambtt ]

nan_peer_set_beacon_information(peer, rssi, timestamp) ==
    [ peer EXCEPT !.rssi = rssi, !.last_timestamp = timestamp ]

nan_peer_remove(peers, addr) == [ a \in DOMAIN peers \ {addr} |-> peers[a] ]

(***************************************************************************)
(* last_update < now - timeout in uint64_t: a clock that has not reached   *)
(* the timeout makes the difference wrap to a time after every update.     *)
(***************************************************************************)
TimedOut(peer, now) ==
    now < PeerTimeout \/ peer.last_update < now - PeerTimeout

nan_peers_clean(peers, now) ==
    [ a \in { x \in DOMAIN peers : ~TimedOut(peers[x], now) } |-> peers[a] ]
=============================================================================
