----------------------------- MODULE NanSchedule -----------------------------
(***************************************************************************)
(* The timers of one device's event loop (src/daemon/core.c): discovery    *)
(* beacon, discovery window and its end, armed relative to the clock and   *)
(* rearmed by their handlers (nan_schedule), while received beacons set    *)
(* and correct that clock.  The peer cleaner repeats by itself and touches *)
(* nothing of this: it is left out.                                        *)
(*                                                                         *)
(* libev remembers the time at which it woke up (loop_now).  A timer is    *)
(* armed relative to that time and expires by it, whereas the handlers     *)
(* read the clock themselves: a handler runs late when others keep the     *)
(* loop busy, and early by the time that passed between the loop's look at *)
(* the clock and the handler's.  Time passes within the handler of the     *)
(* window, which sends frames and reads the clock twice.                   *)
(***************************************************************************)
EXTENDS NanTimer

CONSTANTS
    Boot,               \* the clock when the program starts
    Latency,            \* how late a handler runs at most
    MaxSend,            \* how long the window's handler takes at most
    Offsets,            \* how far a received timestamp may be from the synced time
    MaxBeacons,         \* bound on the received beacons that act on the clock, for TLC
    MaxTime             \* bound on the clock, for TLC

ASSUME ScheduleAssumption ==
    /\ Boot \in Nat
    /\ Latency \in Nat
    /\ MaxSend \in Nat
    /\ Offsets \subseteq Int
    /\ MaxBeacons \in Nat
    /\ MaxTime \in Nat

Timer == {"discovery_beacon", "discovery_window", "discovery_window_end"}

\* A timer that is not active.
Off == -1

VARIABLES
    now,            \* CLOCK_MONOTONIC
    loop_now,       \* the clock as libev saw it last
    timer,          \* struct nan_timer_state
    is_master,      \* whether the role is MASTER
    due,            \* when each timer expires
    sending,        \* whether the window's handler is sending
    beacons,        \* received beacons that acted on the clock
    closing,        \* history: whether the last window's handler could still end it
    since,          \* history: when a window opened, or the clock was set or
                    \* corrected, whichever came later
    untouched,      \* history: whether it was the window
    silent_since    \* history: the later of a MASTER's last discovery beacon and
                    \* its becoming MASTER; 0 otherwise

vars == <<now, loop_now, timer, is_master, due, sending, beacons,
          closing, since, untouched, silent_since>>

\* nan_init makes the device MASTER; nan_schedule starts three timers at once.
Init ==
    /\ now = Boot
    /\ loop_now = Boot
    /\ timer = nan_timer_state_init(Boot)
    /\ is_master = TRUE
    /\ due = [ w \in Timer |-> IF w = "discovery_window_end" THEN Off ELSE Boot ]
    /\ sending = FALSE
    /\ beacons = 0
    /\ closing = FALSE
    /\ since = Boot
    /\ untouched = FALSE
    /\ silent_since = Boot

----------------------------------------------------------------------------
(* The loop. *)

\* Time passes, up to the latest moment an expired timer's handler starts or
\* the window's handler ends.
Tick ==
    /\ now < MaxTime
    /\ \A w \in Timer : due[w] # Off => now < due[w] + Latency
    /\ sending => now < since + MaxSend
    /\ now' = now + 1
    /\ UNCHANGED <<loop_now, timer, is_master, due, sending, beacons,
                   closing, since, untouched, silent_since>>

\* libev wakes up and looks at the clock.
Wake ==
    /\ ~sending
    /\ loop_now # now
    /\ loop_now' = now
    /\ UNCHANGED <<now, timer, is_master, due, sending, beacons,
                   closing, since, untouched, silent_since>>

Expired(w) == ~sending /\ due[w] # Off /\ due[w] <= loop_now

\* ev_timer_rearm
Rearmed(w, in) == [ due EXCEPT ![w] = loop_now + in ]

----------------------------------------------------------------------------
(* The handlers. *)

\* Sends if the device is MASTER and the interval has passed, and rearms itself.
SendDiscoveryBeacon ==
    /\ Expired("discovery_beacon")
    /\ IF is_master /\ nan_timer_can_send_discovery_beacon(timer, now)
       THEN /\ timer' = nan_timer_set_last_discovery_beacon(timer, now)
            /\ silent_since' = now
       ELSE UNCHANGED <<timer, silent_since>>
    /\ due' = Rearmed("discovery_beacon", nan_timer_next_discovery_beacon(timer', now))
    /\ UNCHANGED <<now, loop_now, is_master, sending, beacons, closing, since, untouched>>

\* nan_handle_discovery_window outside a window: try again at the next one.
AwaitWindow ==
    /\ Expired("discovery_window")
    /\ ~nan_timer_in_dw(timer, now)
    /\ due' = Rearmed("discovery_window", nan_timer_next_dw(timer, now))
    /\ UNCHANGED <<now, loop_now, timer, is_master, sending, beacons,
                   closing, since, untouched, silent_since>>

\* ... within one: the sync beacon and what follows it are sent,
OpenWindow ==
    /\ Expired("discovery_window")
    /\ nan_timer_in_dw(timer, now)
    /\ sending' = TRUE
    /\ due' = [ due EXCEPT !["discovery_window"] = Off ]
    /\ since' = now
    /\ untouched' = TRUE
    /\ UNCHANGED <<now, loop_now, timer, is_master, beacons, closing, silent_since>>

RearmedForWindow ==
    [ due EXCEPT !["discovery_window_end"] = loop_now + nan_timer_dw_end(timer, now),
                 !["discovery_window"] = loop_now + nan_timer_next_dw(timer, now) ]

\* The window, less its last time unit.
BeforeLastTu(t, time) == nan_timer_get_fixed_time_tu(t, time) % DwIntervalTu < DwLengthTu

\* ... then the clock is read again, and both timers are armed.
FinishWindow ==
    /\ sending
    /\ sending' = FALSE
    /\ due' = RearmedForWindow
    /\ closing' = BeforeLastTu(timer, now)
    /\ UNCHANGED <<now, loop_now, timer, is_master, beacons, since,
                   untouched, silent_since>>

\* nan_handle_discovery_window_end: the election decides on the role.
EndWindow ==
    /\ Expired("discovery_window_end")
    /\ due' = [ due EXCEPT !["discovery_window_end"] = Off ]
    /\ is_master' \in BOOLEAN
    /\ silent_since' = IF ~is_master' THEN 0 ELSE IF is_master THEN silent_since ELSE now
    /\ UNCHANGED <<now, loop_now, timer, sending, beacons, closing, since, untouched>>

\* nan_rx_beacon of an anchor master or cluster that is taken over, or of one
\* that is followed already.  No timer is rearmed.
Receive ==
    /\ ~sending
    /\ beacons < MaxBeacons
    /\ \E offset \in Offsets :
          LET timestamp == nan_timer_get_synced_time(timer, now) + offset IN
          /\ timestamp >= 0
          /\ \/ timer' = nan_timer_sync_time(timer, now, timestamp)
             \/ timer' = nan_timer_sync_error(timer, now, timestamp)
    /\ beacons' = beacons + 1
    /\ since' = now
    /\ untouched' = FALSE
    /\ UNCHANGED <<now, loop_now, is_master, due, sending, closing, silent_since>>

Handler ==
    \/ SendDiscoveryBeacon
    \/ AwaitWindow
    \/ OpenWindow
    \/ FinishWindow
    \/ EndWindow
    \/ Receive

Next == Tick \/ Wake \/ Handler

Spec == Init /\ [][Next]_vars

----------------------------------------------------------------------------
(* Properties. *)

(***************************************************************************)
(* Ranges; libev's idea of the time is never ahead of the clock, and a     *)
(* timer that has to be active is.                                         *)
(***************************************************************************)
TypeOK ==
    /\ now \in Nat /\ loop_now \in Nat /\ loop_now <= now
    /\ timer \in TimerState
    /\ timer.last_discovery_beacon <= now
    /\ is_master \in BOOLEAN /\ sending \in BOOLEAN /\ closing \in BOOLEAN
    /\ untouched \in BOOLEAN
    /\ due \in [Timer -> Nat \cup {Off}]
    /\ due["discovery_beacon"] # Off
    /\ due["discovery_window"] = Off <=> sending
    /\ beacons \in Nat
    /\ since \in Nat /\ since <= now
    /\ silent_since \in Nat /\ silent_since <= now

\* The number of the interval a moment is in.
Interval(t, time) == nan_timer_get_fixed_time_tu(t, time) \div DwIntervalTu

(***************************************************************************)
(* The window timer fires early or late, its handler takes a while and     *)
(* rearms it for a moment computed from another clock reading than the one *)
(* it is counted from: still, while the clock is left alone, the device    *)
(* opens exactly the next window, neither the same one twice nor one       *)
(* later, each time it sends a sync beacon (nan_handle_discovery_window).  *)
(***************************************************************************)
OpensEveryWindowOnce ==
    [][ OpenWindow /\ untouched
            => Interval(timer, now) = Interval(timer, since) + 1 ]_vars

(***************************************************************************)
(* When a received beacon sets or corrects the clock, the window timer     *)
(* stays armed for a moment of the old clock (nan_rx_beacon rearms         *)
(* nothing).  The device finds its way back to the windows: it is never    *)
(* without one for longer than two intervals since.                        *)
(***************************************************************************)
WindowsResume ==
    now - since <= TU_TO_USEC(2 * DwIntervalTu) + Latency

(***************************************************************************)
(* A window is ended, with its election and expiration of the anchor       *)
(* master, before the next one opens, however the clock jumps in between:  *)
(* unless its handler finished in the window's last time unit or later,    *)
(* when nan_timer_dw_end_usec answers with the end of the NEXT window and  *)
(* the election waits a whole interval.                                    *)
(***************************************************************************)
EndsBeforeNext ==
    [][ OpenWindow /\ due["discovery_window_end"] # Off => ~closing ]_vars

(***************************************************************************)
(* A MASTER goes on sending discovery beacons: although a handler that     *)
(* runs early waits for the elapsed time PLUS the interval                 *)
(* (nan_timer_next_discovery_beacon_usec), it is never silent for more     *)
(* than three intervals.                                                   *)
(***************************************************************************)
MasterBeacons ==
    is_master => now - silent_since <= TU_TO_USEC(3 * BeaconIntervalTu) + Latency

(***************************************************************************)
(* The loop does not spin on the window's timer, nor on a MASTER's         *)
(* discovery beacon: after each run of their handlers they expire later    *)
(* than the moment the loop is at.  (For a device that is not MASTER the   *)
(* beacon's handler asks for 0 once the interval has passed, and the loop  *)
(* does spin, nan_send_discovery_beacon.)                                  *)
(***************************************************************************)
TimersMoveOn ==
    [][ /\ AwaitWindow \/ FinishWindow => due'["discovery_window"] > loop_now
        /\ SendDiscoveryBeacon /\ is_master => due'["discovery_beacon"] > loop_now ]_vars

(***************************************************************************)
(* Until its ring overflows, the moving average that corrects the clock    *)
(* lies within the errors it was made from, so that a window is never      *)
(* moved further than the worst timestamp seemed to be off.  (From then on *)
(* the average moves by truncated differences and may leave that range.)   *)
(***************************************************************************)
CorrectionWithinErrors ==
    LET last == IF timer.full THEN AverageSize - 1 ELSE timer.position - 1
        seen == { timer.errors[i] : i \in 0 .. last } IN
    beacons <= AverageSize /\ seen # {} =>
        /\ \E e \in seen : e <= timer.average_error
        /\ \E e \in seen : e >= timer.average_error
=============================================================================
