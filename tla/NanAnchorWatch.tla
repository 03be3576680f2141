---------------------------- MODULE NanAnchorWatch ----------------------------
(***************************************************************************)
(* What the comments of sync.c and sync.h promise about a device's role    *)
(* and its anchor master, against what its code does.  History variables   *)
(* count the discovery windows that have ended since the anchor master was *)
(* last taken over or announced with a later transmission time, and keep   *)
(* the ranks the device has had: neighbours announce none it never had.    *)
(***************************************************************************)
EXTENDS NanNode

VARIABLES quiet, held

wvars == <<vars, quiet, held>>

WInit == Init /\ quiet = 0 /\ held = {dev.sync.master_rank}

SameAnchor == dev'.sync.anchor_master_rank = dev.sync.anchor_master_rank

\* Neighbour a has just announced the device's anchor master, and a later
\* transmission time (an ambtt update).
Announced(a) ==
    /\ dev'.peers[a].anchor_master_rank = dev.sync.anchor_master_rank
    /\ dev'.peers[a].ambtt > dev.sync.ambtt

WRxBeacon(a, b) ==
    /\ b.anchor_master_rank.addr = Self => b.anchor_master_rank \in held
    /\ RxBeacon(a, b)
    /\ quiet' = IF ~SameAnchor \/ Announced(a) THEN 0 ELSE quiet
    /\ held' = held \cup {dev'.sync.master_rank}

WDiscoveryWindowEnd ==
    /\ DiscoveryWindowEnd
    /\ quiet' = IF SameAnchor /\ ~nan_is_anchor_master_self(dev.sync)
                THEN quiet + 1 ELSE 0
    /\ UNCHANGED held

WSetMasterPreference(value) ==
    /\ SetMasterPreference(value)
    /\ quiet' = IF SameAnchor THEN quiet ELSE 0
    /\ held' = held \cup {dev'.sync.master_rank}

WTick == Tick /\ UNCHANGED <<quiet, held>>

WNext ==
    \/ WTick
    \/ \E a \in Neighbours, b \in Beacons : WRxBeacon(a, b)
    \/ WDiscoveryWindowEnd
    \/ \E value \in Settings : WSetMasterPreference(value)

WSpec == WInit /\ [][WNext]_wvars

----------------------------------------------------------------------------
(* Properties. *)

(***************************************************************************)
(* nan_check_anchor_master_expiration gives up an anchor master without an *)
(* ambtt update for three discovery windows.  In the code an anchor whose  *)
(* first ambtt differs from the one held before is never given up.         *)
(***************************************************************************)
QuietAnchorExpires == quiet < 3

(***************************************************************************)
(* nan_check_anchor_master_expiration gives up an anchor master only after *)
(* three discovery windows without an ambtt update.  In the code updates   *)
(* of the current anchor are dropped as outdated while it is counted, and  *)
(* the count runs over from one anchor to the next.                        *)
(***************************************************************************)
AnchorExpiresOnlyWhenQuiet ==
    [][ WDiscoveryWindowEnd /\ ~SameAnchor => quiet >= 2 ]_wvars

(***************************************************************************)
(* Becoming SYNC at the end of a window is the transition of a NON_SYNC    *)
(* device, or of a MASTER that heard peers of a higher rank in reach       *)
(* (nan_master_election).  In the code a MASTER that heard nobody takes    *)
(* the else branch of the second decision and becomes SYNC.                *)
(***************************************************************************)
MasterYieldsOnlyToHigherRank ==
    [][ dev.sync.role = "MASTER" /\ dev'.sync.role # "MASTER" =>
            InReach(dev.peers, HigherOf(dev.sync, dev.peers, HeardPeers(dev.peers, now)))
      ]_wvars
=============================================================================
