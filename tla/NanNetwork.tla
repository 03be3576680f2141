------------------------------ MODULE NanNetwork ------------------------------
(***************************************************************************)
(* Several devices in range of each other.  In every discovery window      *)
(* interval each device broadcasts a sync beacon, handles the beacons that *)
(* reached it in the order they arrived, and closes its window; a MASTER   *)
(* may add a discovery beacon.  Frames are lost, devices restart with      *)
(* nothing but their address, users change preferences.                    *)
(*                                                                         *)
(* The clock advances by one interval at a time, once every device has had *)
(* its window and the air is clear; what happens within an interval        *)
(* interleaves freely.  A device may handle a beacon before its own window *)
(* opens, during it, or after it has closed.                               *)
(***************************************************************************)
EXTENDS NanDevice, Sequences

CONSTANTS
    Device,             \* addresses of the devices
    Start,              \* the clock when each device started
    InitialCluster,     \* the cluster id each device drew
    Preferences,        \* preferences a user may have set before the first window
    Settings,           \* values a user sets later
    RandomFactors,      \* values get_rand_num returns
    Signal,             \* class of the signal between two devices
    MayLose,            \* whether frames may be lost
    MayRestart,         \* the devices that may restart
    MaxDiscovery,       \* discovery beacons a device sends in one interval
    MaxQueue,           \* bound on the frames waiting at a device, for TLC
    Boot,               \* the clock at the first window
    MaxTime             \* bound on the clock, for TLC

ASSUME NetworkAssumption ==
    /\ Device \subseteq Addr
    /\ Start \in [Device -> Nat]
    /\ InitialCluster \in [Device -> ClusterId]
    /\ Preferences \subseteq Byte
    /\ Settings \subseteq Byte
    /\ RandomFactors \subseteq Byte
    /\ Signal \in RssiLevel
    /\ MayLose \in BOOLEAN
    /\ MayRestart \subseteq Device
    /\ MaxDiscovery \in Nat
    /\ MaxQueue \in Nat
    /\ Boot \in Nat
    /\ \A n \in Device : Start[n] <= Boot
    /\ MaxTime \in Nat

VARIABLES
    now,        \* CLOCK_MONOTONIC, the same for all
    dev,        \* state of each device
    inbox,      \* frames captured by each device and not yet handled
    opened,     \* devices whose window of this interval has opened
    closed,     \* and those whose window has closed again
    discovery,  \* discovery beacons each device has sent in this interval
    issued      \* history: every rank a device has had

vars == <<now, dev, inbox, opened, closed, discovery, issued>>

\* history: the ranks in use after a step
Issue(d) == issued \cup { d[n].sync.master_rank : n \in Device }

Init ==
    /\ now = Boot
    /\ \E mp \in [Device -> Preferences] :
          dev = [ n \in Device |->
                    nan_cmd_set_mp(init_nan_state(n, InitialCluster[n], Start[n]), mp[n]) ]
    /\ inbox = [ n \in Device |-> <<>> ]
    /\ opened = {}
    /\ closed = {}
    /\ discovery = [ n \in Device |-> 0 ]
    /\ issued = { nan_sync_state_init(n).master_rank : n \in Device }
                  \cup { dev[n].sync.master_rank : n \in Device }

\* A broadcast reaches the capture queue of every other device.
Broadcast(n, b) ==
    /\ \A m \in Device \ {n} : Len(inbox[m]) < MaxQueue
    /\ inbox' = [ m \in Device |->
                 IF m = n THEN inbox[m] ELSE Append(inbox[m], [from |-> n, beacon |-> b]) ]

\* nan_handle_discovery_window, which does not ask for the device's role
OpenWindow(n) ==
    /\ n \notin opened
    /\ Broadcast(n, nan_build_beacon_frame(dev[n], "SYNC", now))
    /\ opened' = opened \cup {n}
    /\ UNCHANGED <<now, dev, closed, discovery, issued>>

\* nan_send_discovery_beacon, which leaves 100 TU between two beacons
SendDiscoveryBeacon(n) ==
    /\ dev[n].sync.role = "MASTER"
    /\ discovery[n] < MaxDiscovery
    /\ Broadcast(n, nan_build_beacon_frame(dev[n], "DISCOVERY", now))
    /\ discovery' = [ discovery EXCEPT ![n] = @ + 1 ]
    /\ UNCHANGED <<now, dev, opened, closed, issued>>

\* nan_receive_frame hands one captured frame to nan_rx.
Receive(n) ==
    /\ inbox[n] # <<>>
    /\ \E random \in RandomFactors :
          dev' = [ dev EXCEPT ![n] =
                     nan_rx_beacon(@, Head(inbox[n]).from, Head(inbox[n]).beacon,
                                   Signal, random, now) ]
    /\ inbox' = [ inbox EXCEPT ![n] = Tail(@) ]
    /\ issued' = Issue(dev')
    /\ UNCHANGED <<now, opened, closed, discovery>>

\* A frame that did not make it to one receiver, or failed its checksum there.
Lose(n) ==
    /\ MayLose
    /\ inbox[n] # <<>>
    /\ inbox' = [ inbox EXCEPT ![n] = Tail(@) ]
    /\ UNCHANGED <<now, dev, opened, closed, discovery, issued>>

\* The timer for the end of the window is armed when the window opens.
CloseWindow(n) ==
    /\ n \in opened \ closed
    /\ dev' = [ dev EXCEPT ![n] = nan_handle_discovery_window_end(@, now) ]
    /\ closed' = closed \cup {n}
    /\ UNCHANGED <<now, inbox, opened, discovery, issued>>

Clean(n) ==
    /\ dev' = [ dev EXCEPT ![n] = nan_clean_peers(@, now) ]
    /\ UNCHANGED <<now, inbox, opened, closed, discovery, issued>>

SetPreference(n, value) ==
    /\ dev' = [ dev EXCEPT ![n] = nan_cmd_set_mp(@, value) ]
    /\ issued' = Issue(dev')
    /\ UNCHANGED <<now, inbox, opened, closed, discovery>>

\* A new process: a new cluster id, an empty table, a base time of now, and no
\* timer armed.
Restart(n) ==
    /\ n \in MayRestart
    /\ \E c \in ClusterId : dev' = [ dev EXCEPT ![n] = init_nan_state(n, c, now) ]
    /\ inbox' = [ inbox EXCEPT ![n] = <<>> ]
    /\ opened' = opened \ {n}
    /\ closed' = closed \ {n}
    /\ discovery' = [ discovery EXCEPT ![n] = 0 ]
    /\ issued' = Issue(dev')
    /\ UNCHANGED now

NextInterval ==
    /\ now < MaxTime
    /\ closed = Device
    /\ \A n \in Device : inbox[n] = <<>>
    /\ now' = now + DwTicks
    /\ opened' = {}
    /\ closed' = {}
    /\ discovery' = [ n \in Device |-> 0 ]
    /\ UNCHANGED <<dev, inbox, issued>>

Step(n) ==
    \/ OpenWindow(n)
    \/ SendDiscoveryBeacon(n)
    \/ Receive(n)
    \/ CloseWindow(n)
    \/ Clean(n)

Disturbance(n) ==
    \/ Lose(n)
    \/ Restart(n)
    \/ \E value \in Settings : SetPreference(n, value)

Next == NextInterval \/ \E n \in Device : Step(n) \/ Disturbance(n)

Spec == Init /\ [][Next]_vars

----------------------------------------------------------------------------
(* Properties. *)

(***************************************************************************)
(* Ranges, of what is in flight too, and no device's cluster starts in the *)
(* future (no handler makes now - base_time wrap).                         *)
(***************************************************************************)
TypeOK ==
    /\ now \in Nat
    /\ DOMAIN dev = Device
    /\ \A n \in Device : DeviceTypeOK(dev[n]) /\ dev[n].base_time <= now
    /\ inbox \in [Device -> Seq([from : Device, beacon : Beacon])]
    /\ opened \subseteq Device /\ closed \subseteq opened
    /\ discovery \in [Device -> Nat]
    /\ issued \subseteq Rank

(***************************************************************************)
(* Anchor master ranks are copied from device to device, each with its own *)
(* idea of the current one, old beacons wait in queues and devices change  *)
(* their ranks meanwhile: still nobody follows, stores or announces an     *)
(* anchor master rank that no device ever had.                             *)
(***************************************************************************)
AnchorsAreIssued ==
    \A n \in Device :
        /\ dev[n].sync.anchor_master_rank \in issued
        /\ \A a \in DOMAIN dev[n].peers :
              dev[n].peers[a].anchor_master_rank \in issued
        /\ \A i \in DOMAIN inbox[n] :
              inbox[n][i].beacon.anchor_master_rank \in issued

(***************************************************************************)
(* What a device believes of a peer is consistent: the anchor the peer     *)
(* announced is not below the rank it announced, in its entry and in every *)
(* beacon on its way.                                                      *)
(***************************************************************************)
PeersAnnounceNoLowerAnchor ==
    \A n \in Device :
        /\ RankLeq(dev[n].sync.master_rank, dev[n].sync.anchor_master_rank)
        /\ \A a \in DOMAIN dev[n].peers :
              LET peer == dev[n].peers[a] IN
              RankLeq(nan_get_peer_master_rank(peer), peer.anchor_master_rank)
        /\ \A i \in DOMAIN inbox[n] :
              LET b == inbox[n][i].beacon IN
              RankLeq(nan_calculate_master_rank(b.master_preference, b.random_factor,
                                                inbox[n][i].from),
                      b.anchor_master_rank)

(***************************************************************************)
(* What a device compares in elections is what its peers are, or were: no  *)
(* peer is taken for the holder of a rank that it never had, whatever      *)
(* became of the rank while the beacon waited (nan_peer_set_master_        *)
(* indication).                                                            *)
(***************************************************************************)
PeersHadTheirRanks ==
    \A n \in Device :
        /\ \A a \in DOMAIN dev[n].peers :
              /\ dev[n].peers[a].addr = a
              /\ nan_get_peer_master_rank(dev[n].peers[a]) \in issued
        /\ \A i \in DOMAIN inbox[n] :
              LET b == inbox[n][i].beacon IN
              nan_calculate_master_rank(b.master_preference, b.random_factor,
                                        inbox[n][i].from) \in issued

\* The cluster a device is in: its id, and when its time began.
ClusterOf(d) == [cluster_id |-> d.cluster_id, base_time |-> d.base_time]

\* The cluster a beacon that arrives now is about.
Told(b) == [cluster_id |-> b.cluster_id, base_time |-> now - b.timestamp]

Clusters == [ n \in Device |-> ClusterOf(dev[n]) ]

\* Those of the beacons that wait to be handled.
Announced ==
    UNION { { Told(inbox[n][i].beacon) : i \in DOMAIN inbox[n] } : n \in Device }

Membership == INSTANCE ClusterMembership WITH cluster <- Clusters, announced <- Announced

(***************************************************************************)
(* Whatever is selected, expired and elected: a device leaves its cluster  *)
(* only for the id and the time, together, that the sender had when it     *)
(* built the beacon, however the sender has moved on since (nan_rx_beacon, *)
(* nan_timer_sync_time); only starting makes a cluster.                    *)
(***************************************************************************)
ImplementsMembership == Membership!Spec

\* One id, one time.
OneTime(clusters) ==
    \A c, d \in clusters : c.cluster_id = d.cluster_id => c = d

(***************************************************************************)
(* The devices of a cluster have the same time, and so have the beacons    *)
(* about it that wait to be handled: no merging of clusters and no new     *)
(* anchor master ends that, only a device that starts with an id in use.   *)
(***************************************************************************)
OneTimePerCluster ==
    [][ ~OneTime(Membership!InUse)'
            => \/ ~OneTime(Membership!InUse)
               \/ \E n \in Device, c \in Membership!InUse :
                     Restart(n) /\ dev'[n].cluster_id = c.cluster_id ]_vars

(***************************************************************************)
(* Devices that have agreed on a cluster and its time, with no beacon of   *)
(* another on its way, are not parted again by anything but a restart.     *)
(***************************************************************************)
OneClusterIsKept ==
    [][ (\A c, d \in Membership!InUse : c = d)
            /\ ~(\A c, d \in Membership!InUse : c = d)'
            => \E n \in Device : Restart(n) ]_vars
=============================================================================
