------------------------------- MODULE NanNode -------------------------------
(***************************************************************************)
(* One device among arbitrary neighbours: any beacon of Beacons may arrive *)
(* from any address of Neighbours at any moment, the discovery window      *)
(* timers fire when they like, and the user may change the rank.           *)
(***************************************************************************)
EXTENDS NanDevice

CONSTANTS
    Self,           \* the device's own address
    Neighbours,     \* addresses frames are received from
    Beacons,        \* beacons that may arrive
    Signals,        \* classes of average signal they may arrive with
    Settings,       \* values the user sets and the generator returns
    Boot,           \* CLOCK_MONOTONIC when the daemon starts
    MaxTime         \* bound on the clock, for TLC

ASSUME NodeAssumption ==
    /\ Self \in Addr
    /\ Neighbours \subseteq Addr \ {Self}
    /\ Beacons \subseteq Beacon
    /\ Signals \subseteq RssiLevel
    /\ Settings \subseteq Byte
    /\ Boot \in Nat
    /\ MaxTime \in Nat

VARIABLES now, dev

vars == <<now, dev>>

Init ==
    /\ now = Boot
    /\ \E c \in ClusterId : dev = init_nan_state(Self, c, Boot)

Tick ==
    /\ now < MaxTime
    /\ now' = now + 1
    /\ UNCHANGED dev

\* nan_rx drops the device's own frames, so no neighbour has its address.
RxBeacon(a, b) ==
    /\ \E rssi \in Signals, random \in Settings :
          dev' = nan_rx_beacon(dev, a, b, rssi, random, now)
    /\ UNCHANGED now

RxAction(a, c) ==
    /\ dev' = nan_rx_action(dev, a, c, now)
    /\ UNCHANGED now

DiscoveryWindowEnd ==
    /\ dev' = nan_handle_discovery_window_end(dev, now)
    /\ UNCHANGED now

CleanPeers ==
    /\ dev' = nan_clean_peers(dev, now)
    /\ UNCHANGED now

RemovePeer(a) ==
    /\ a \in DOMAIN dev.peers
    /\ dev' = nan_cmd_peer_rm(dev, a)
    /\ UNCHANGED now

SetMasterPreference(value) ==
    /\ dev' = nan_cmd_set_mp(dev, value)
    /\ UNCHANGED now

SetRandomFactor(value) ==
    /\ dev' = nan_cmd_set_rf(dev, value)
    /\ UNCHANGED now

Next ==
    \/ Tick
    \/ \E a \in Neighbours, b \in Beacons : RxBeacon(a, b)
    \/ \E a \in Neighbours, c \in ClusterId : RxAction(a, c)
    \/ DiscoveryWindowEnd
    \/ CleanPeers
    \/ \E a \in Neighbours : RemovePeer(a)
    \/ \E value \in Settings : SetMasterPreference(value)
    \/ \E value \in Settings : SetRandomFactor(value)

Spec == Init /\ [][Next]_vars

----------------------------------------------------------------------------
(* Properties. *)

(***************************************************************************)
(* Every field keeps its range through every handler, and the clock of the *)
(* cluster never starts in the device's future, so that the synced time    *)
(* now - base_time does not wrap below zero (timer.c).                     *)
(***************************************************************************)
TypeOK ==
    /\ now \in Nat
    /\ DeviceTypeOK(dev)
    /\ dev.base_time <= now

(***************************************************************************)
(* The rank the device compares with is the one its beacons announce: no   *)
(* path that changes preference or random factor forgets to recompute the  *)
(* rank (nan_update_master_preference, nan_cmd_set_value).                 *)
(***************************************************************************)
RankReflectsSettings ==
    dev.sync.master_rank =
        nan_calculate_master_rank(dev.sync.master_preference,
                                  dev.sync.random_factor, Self)

(***************************************************************************)
(* The device never follows an anchor master of a rank below its own: the  *)
(* selection, the expiration and every change of the own rank keep the     *)
(* anchor at or above it, whatever the neighbours announce (sync.c).       *)
(***************************************************************************)
AnchorNotBelowSelf ==
    RankLeq(dev.sync.master_rank, dev.sync.anchor_master_rank)

(***************************************************************************)
(* A step that lowers the anchor's rank keeps its issuer (the anchor       *)
(* announced a lower rank) or falls back to the device itself.  The one    *)
(* exception is a device that follows an old rank of its own.              *)
(***************************************************************************)
AnchorFallsForCause ==
    LET before == dev.sync.anchor_master_rank
        after  == dev'.sync.anchor_master_rank
    IN  RankLess(after, before) =>
            \/ nan_is_same_master_rank_issuer(before, after)
            \/ after = dev'.sync.master_rank
            \/ before.addr = Self

AnchorFallsOnlyForCause == [][AnchorFallsForCause]_vars

(***************************************************************************)
(* The device's synced time jumps only with a new anchor master or a new   *)
(* cluster, except that the first neighbour of a device alone may also set *)
(* it.  Commands, elections, expiry and malformed beacons leave it alone.  *)
(***************************************************************************)
TimeJumpsWithAnchor ==
    [][ dev'.base_time # dev.base_time =>
            \/ dev'.cluster_id # dev.cluster_id
            \/ dev'.sync.anchor_master_rank # dev.sync.anchor_master_rank
            \/ DOMAIN dev.peers = {} ]_vars
=============================================================================
