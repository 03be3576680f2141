-------------------------- MODULE NanScheduleProofs --------------------------
(***************************************************************************)
(* The clock and the timers for every length of windows and intervals, and *)
(* any received timestamps.  For any delay of the handlers: types, that    *)
(* the loop always moves on, that a MASTER goes on beaconing, and that the *)
(* correction of the clock stays within the errors it is made from.  For   *)
(* handlers that are prompt (PromptHandlers): that every window is opened  *)
(* once and ended before the next one, and that the device finds back to   *)
(* the windows after its clock was moved.                                  *)
(***************************************************************************)
EXTENDS NanSchedule, TLAPS

(***************************************************************************)
(* A whole number of time units is a number of microseconds, and none only *)
(* for none (TU_TO_USEC).                                                  *)
(***************************************************************************)
LEMMA TuProperties ==
    \A tu \in Nat : /\ TU_TO_USEC(tu) \in Nat
                    /\ tu > 0 => TU_TO_USEC(tu) > 0
<1>1. \A a, b \in Nat : a * b \in Nat /\ (a > 0 /\ b > 0 => a * b > 0)
  BY SMT
<1> QED BY <1>1, TimerAssumption DEF TU_TO_USEC

(***************************************************************************)
(* Dividing by a positive number gives an integer and a remainder below it *)
(* (USEC_TO_TU and the operator % of nan_timer_next_dw_usec).              *)
(***************************************************************************)
LEMMA Division ==
    \A a \in Int : \A b \in Nat \ {0} : a \div b \in Int /\ a % b \in 0 .. b - 1
BY SMT

(***************************************************************************)
(* The next window is always ahead, never the one that is on               *)
(* (nan_timer_next_dw_usec).                                               *)
(***************************************************************************)
LEMMA NextDwIsLater ==
    ASSUME NEW t \in TimerState, NEW time \in Int
    PROVE  nan_timer_next_dw(t, time) \in Nat /\ nan_timer_next_dw(t, time) > 0
<1> DEFINE tu == nan_timer_get_fixed_time_tu(t, time)
<1>1. tu \in Int
  <2>1. nan_timer_get_fixed_time(t, time) \in Int
    BY DEF nan_timer_get_fixed_time, TimerState
  <2> QED BY <2>1, Division, TimerAssumption DEF nan_timer_get_fixed_time_tu, USEC_TO_TU
<1>2. nan_timer_next_dw(t, time) = TU_TO_USEC(DwIntervalTu - (tu % DwIntervalTu))
  BY DEF nan_timer_next_dw
<1> HIDE DEF tu
<1>3. DwIntervalTu \in Nat \ {0}
  BY TimerAssumption
<1>4. tu % DwIntervalTu \in 0 .. DwIntervalTu - 1
  BY <1>1, <1>3, Division
<1>5. DwIntervalTu - (tu % DwIntervalTu) \in Nat /\ DwIntervalTu - (tu % DwIntervalTu) > 0
  BY <1>3, <1>4
<1> QED BY <1>2, <1>5, TuProperties

(***************************************************************************)
(* The end of a window is a moment from now on (nan_timer_dw_end_usec).    *)
(***************************************************************************)
LEMMA DwEndIsLater ==
    ASSUME NEW t \in TimerState, NEW time \in Int
    PROVE  nan_timer_dw_end(t, time) \in Nat
<1>1. TU_TO_USEC(DwLengthTu) \in Nat
  BY TuProperties, TimerAssumption
<1>2. time - TU_TO_USEC(DwLengthTu) \in Int
  BY <1>1
<1> QED BY <1>1, <1>2, NextDwIsLater DEF nan_timer_dw_end

(***************************************************************************)
(* The next discovery beacon is due from now on, and later than now unless *)
(* it may be sent at once (nan_timer_next_discovery_beacon_usec).          *)
(***************************************************************************)
LEMMA NextBeaconIsLater ==
    ASSUME NEW t \in TimerState, NEW time \in Nat, t.last_discovery_beacon <= time
    PROVE  /\ nan_timer_next_discovery_beacon(t, time) \in Nat
           /\ ~nan_timer_can_send_discovery_beacon(t, time)
                  => nan_timer_next_discovery_beacon(t, time) > 0
<1>1. t.last_discovery_beacon \in Nat
  BY DEF TimerState
<1>2. TU_TO_USEC(BeaconIntervalTu) \in Nat /\ TU_TO_USEC(BeaconIntervalTu) > 0
  BY TuProperties, TimerAssumption
<1> QED BY <1>1, <1>2 DEF nan_timer_next_discovery_beacon

(***************************************************************************)
(* A quotient of integers is an integer (the divisions of                  *)
(* moving_average_add).                                                    *)
(***************************************************************************)
LEMMA QuotientIsInt ==
    ASSUME NEW a \in Int, NEW b \in Nat \ {0}
    PROVE  Quotient(a, b) \in Int
BY Division DEF Quotient

(***************************************************************************)
(* A beacon that sets the clock leaves a timer state                       *)
(* (nan_timer_sync_time).                                                  *)
(***************************************************************************)
LEMMA SyncTimeType ==
    ASSUME NEW t \in TimerState, NEW time \in Nat, NEW timestamp \in Int
    PROVE  /\ nan_timer_sync_time(t, time, timestamp) \in TimerState
           /\ nan_timer_sync_time(t, time, timestamp).last_discovery_beacon
                  = t.last_discovery_beacon
BY DEF nan_timer_sync_time, nan_timer_get_synced_time, TimerState

(***************************************************************************)
(* So does one whose error is averaged, or too large for that              *)
(* (nan_timer_sync_error, moving_average_add).                             *)
(***************************************************************************)
LEMMA SyncErrorType ==
    ASSUME NEW t \in TimerState, NEW time \in Nat, NEW timestamp \in Int
    PROVE  /\ nan_timer_sync_error(t, time, timestamp) \in TimerState
           /\ nan_timer_sync_error(t, time, timestamp).last_discovery_beacon
                  = t.last_discovery_beacon
<1> DEFINE error == Error(t, time, timestamp)
           average == NextAverage(t, error)
           next == (t.position + 1) % AverageSize
           r == moving_average_add(t, error)
<1>1. error \in Int
  <2>1. nan_timer_get_synced_time(t, time) - timestamp \in Int
    BY DEF nan_timer_get_synced_time, TimerState
  <2>2. \A n \in Int : n % IntRange \in Int
    BY TimerAssumption
  <2> QED  BY <2>1, <2>2, TimerAssumption DEF Error, ToInt
<1> HIDE DEF error
<1>2. /\ AverageSize \in Nat \ {0}
      /\ t.position \in 0 .. AverageSize - 1
      /\ t.average_error \in Int
      /\ t.errors \in [0 .. AverageSize - 1 -> Int]
  BY TimerAssumption DEF TimerState
<1>3. average \in Int
  <2>1. t.errors[t.position] \in Int
    BY <1>2
  <2>2. t.average_error * t.position + error \in Int
    <3>1. \A a, b \in Int : a * b \in Int
      BY SMT
    <3>2. t.position \in Int
      BY <1>2
    <3> QED BY <1>1, <1>2, <3>1, <3>2
  <2>3. error - t.errors[t.position] \in Int /\ t.position + 1 \in Nat \ {0}
    BY <1>1, <1>2, <2>1
  <2>4. Quotient(error - t.errors[t.position], AverageSize) \in Int
    BY <1>2, <2>3, QuotientIsInt
  <2>5. Quotient(t.average_error * t.position + error, t.position + 1) \in Int
    BY <2>2, <2>3, QuotientIsInt
  <2> QED BY <1>2, <2>4, <2>5 DEF NextAverage
<1> HIDE DEF average
<1>4. next \in 0 .. AverageSize - 1
  <2>1. t.position + 1 \in Int
    BY <1>2
  <2> QED BY <1>2, <2>1, Division
<1>5. r = [ t EXCEPT !.average_error = average, !.errors[t.position] = error,
                     !.position = next, !.full = @ \/ t.position = AverageSize - 1 ]
  BY DEF moving_average_add, average
<1> HIDE DEF r, next
<1>6. [ t.errors EXCEPT ![t.position] = error ] \in [0 .. AverageSize - 1 -> Int]
  BY <1>1, <1>2
<1>7. r \in TimerState /\ r.last_discovery_beacon = t.last_discovery_beacon
  BY <1>3, <1>4, <1>5, <1>6 DEF TimerState
<1> QED
  BY <1>7 DEF nan_timer_sync_error, r, error

----------------------------------------------------------------------------
(* The reachable states. *)

\* The initial states have the types of TypeOK.
LEMMA InitType == Init => TypeOK
<1> SUFFICES ASSUME Init
             PROVE  TypeOK
  OBVIOUS
<1>1. timer \in TimerState /\ timer.last_discovery_beacon = 0
  BY ScheduleAssumption, TimerAssumption DEF Init, nan_timer_state_init, TimerState
<1>2. due \in [Timer -> Nat \cup {Off}]
  BY ScheduleAssumption DEF Init, Timer, Off
<1>3. due["discovery_beacon"] # Off /\ due["discovery_window"] # Off
  BY ScheduleAssumption DEF Init, Timer, Off
<1>4. /\ now \in Nat /\ loop_now = now /\ beacons \in Nat
      /\ since = now /\ silent_since = now
      /\ is_master \in BOOLEAN /\ sending = FALSE
      /\ closing \in BOOLEAN /\ untouched \in BOOLEAN
  BY ScheduleAssumption DEF Init
<1>5. now \in Nat /\ loop_now \in Nat /\ loop_now <= now
  BY <1>4
<1>6. timer.last_discovery_beacon <= now
  BY <1>1, <1>4
<1>7. since \in Nat /\ since <= now /\ silent_since \in Nat /\ silent_since <= now
  BY <1>4
<1>8. (due["discovery_window"] = Off) <=> sending
  BY <1>3, <1>4
<1>9. due["discovery_beacon"] # Off
  BY <1>3
<1> QED
  BY <1>1, <1>2, <1>4, <1>5, <1>6, <1>7, <1>8, <1>9, Zenon DEF TypeOK

(***************************************************************************)
(* Rearming a timer for a moment from now on keeps the others              *)
(* (ev_timer_rearm).                                                       *)
(***************************************************************************)
LEMMA RearmedType ==
    ASSUME TypeOK, NEW w \in Timer, NEW in \in Nat
    PROVE  /\ Rearmed(w, in) \in [Timer -> Nat \cup {Off}]
           /\ Rearmed(w, in)[w] = loop_now + in
           /\ Rearmed(w, in)[w] # Off
           /\ \A v \in Timer : v # w => Rearmed(w, in)[v] = due[v]
BY DEF Rearmed, TypeOK, Off

\* Every step keeps the types: one case per action.
LEMMA NextType == TypeOK /\ [Next]_vars => TypeOK'
<1> SUFFICES ASSUME TypeOK, [Next]_vars
             PROVE  TypeOK'
  OBVIOUS
<1>0. /\ {"discovery_beacon", "discovery_window", "discovery_window_end"} = Timer
      /\ now \in Nat /\ loop_now \in Nat /\ timer \in TimerState
      /\ timer.last_discovery_beacon <= now
  BY DEF Timer, TypeOK
<1>1. CASE Tick
  BY <1>1 DEF Tick, TypeOK, TimerState
<1>2. CASE Wake
  BY <1>2 DEF Wake, TypeOK
<1>3. CASE SendDiscoveryBeacon
  <2>1. timer' \in TimerState /\ timer'.last_discovery_beacon <= now
    BY <1>0, <1>3 DEF SendDiscoveryBeacon, nan_timer_set_last_discovery_beacon, TimerState
  <2>2. nan_timer_next_discovery_beacon(timer', now) \in Nat
    BY <1>0, <2>1, NextBeaconIsLater
  <2>3. due' \in [Timer -> Nat \cup {Off}] /\ due'["discovery_beacon"] # Off
        /\ due'["discovery_window"] = due["discovery_window"]
    BY <1>0, <1>3, <2>2, RearmedType DEF SendDiscoveryBeacon
  <2>4. silent_since' \in Nat /\ silent_since' <= now
    BY <1>3 DEF SendDiscoveryBeacon, TypeOK
  <2> QED
    BY <1>3, <2>1, <2>3, <2>4 DEF SendDiscoveryBeacon, TypeOK
<1>4. CASE AwaitWindow
  <2>1. nan_timer_next_dw(timer, now) \in Nat
    BY <1>0, NextDwIsLater
  <2>2. due' \in [Timer -> Nat \cup {Off}] /\ due'["discovery_window"] # Off
        /\ due'["discovery_beacon"] = due["discovery_beacon"]
    BY <1>0, <1>4, <2>1, RearmedType DEF AwaitWindow
  <2>3. ~sending
    BY <1>4 DEF AwaitWindow, Expired
  <2> QED
    BY <1>4, <2>2, <2>3 DEF AwaitWindow, TypeOK
<1>5. CASE OpenWindow
  <2>1. due' \in [Timer -> Nat \cup {Off}] /\ due'["discovery_window"] = Off
        /\ due'["discovery_beacon"] = due["discovery_beacon"]
    BY <1>0, <1>5 DEF OpenWindow, TypeOK
  <2> QED
    BY <1>5, <2>1 DEF OpenWindow, TypeOK
<1>6. CASE FinishWindow
  <2>1. /\ nan_timer_next_dw(timer, now) \in Nat
        /\ nan_timer_dw_end(timer, now) \in Nat
    BY <1>0, NextDwIsLater, DwEndIsLater
  <2>2. due' \in [Timer -> Nat \cup {Off}] /\ due'["discovery_window"] # Off
        /\ due'["discovery_beacon"] = due["discovery_beacon"]
    BY <1>0, <1>6, <2>1 DEF FinishWindow, RearmedForWindow, TypeOK, Off
  <2>3. closing' \in BOOLEAN
    BY <1>6 DEF FinishWindow, BeforeLastTu
  <2> QED
    BY <1>6, <2>2, <2>3 DEF FinishWindow, TypeOK
<1>7. CASE EndWindow
  <2>1. due' \in [Timer -> Nat \cup {Off}]
        /\ due'["discovery_window"] = due["discovery_window"]
        /\ due'["discovery_beacon"] = due["discovery_beacon"]
    BY <1>0, <1>7 DEF EndWindow, TypeOK
  <2>2. silent_since' \in Nat /\ silent_since' <= now
    BY <1>7 DEF EndWindow, TypeOK
  <2> QED
    BY <1>7, <2>1, <2>2 DEF EndWindow, TypeOK
<1>8. CASE Receive
  <2>1. PICK offset \in Offsets :
            LET timestamp == nan_timer_get_synced_time(timer, now) + offset IN
            \/ timer' = nan_timer_sync_time(timer, now, timestamp)
            \/ timer' = nan_timer_sync_error(timer, now, timestamp)
    BY <1>8 DEF Receive
  <2>2. nan_timer_get_synced_time(timer, now) + offset \in Int
    BY <1>0, ScheduleAssumption DEF nan_timer_get_synced_time, TimerState
  <2>3. timer' \in TimerState /\ timer'.last_discovery_beacon <= now
    BY <1>0, <2>1, <2>2, SyncTimeType, SyncErrorType
  <2>4. /\ beacons' = beacons + 1 /\ since' = now /\ untouched' = FALSE
        /\ UNCHANGED <<now, loop_now, is_master, due, sending, closing, silent_since>>
    BY <1>8 DEF Receive
  <2>5. beacons' \in Nat
    BY <2>4 DEF TypeOK
  <2>6. since' \in Nat /\ since' <= now' /\ timer'.last_discovery_beacon <= now'
    BY <1>0, <2>3, <2>4
  <2> QED
    BY <1>0, <2>3, <2>4, <2>5, <2>6, Zenon DEF TypeOK
<1>9. CASE UNCHANGED vars
  BY <1>9 DEF vars, TypeOK
<1> QED
  BY <1>1, <1>2, <1>3, <1>4, <1>5, <1>6, <1>7, <1>8, <1>9 DEF Next, Handler

(***************************************************************************)
(* Types hold in every reachable state: every timer the loop needs stays   *)
(* armed, and never for a moment of a negative count, whatever the clock   *)
(* is set to.                                                              *)
(***************************************************************************)
THEOREM TypeCorrectness == Spec => []TypeOK
BY InitType, NextType, PTL DEF Spec

(***************************************************************************)
(* The step of TimersMoveOn: after the handlers of the window and of a     *)
(* MASTER's beacon their timers expire later than the loop's time.         *)
(***************************************************************************)
LEMMA NextMovesOn ==
    ASSUME TypeOK, [Next]_vars
    PROVE  /\ AwaitWindow \/ FinishWindow => due'["discovery_window"] > loop_now
           /\ SendDiscoveryBeacon /\ is_master => due'["discovery_beacon"] > loop_now
<1>0. /\ {"discovery_beacon", "discovery_window", "discovery_window_end"} = Timer
      /\ now \in Nat /\ loop_now \in Nat /\ timer \in TimerState
      /\ timer.last_discovery_beacon <= now
  BY DEF Timer, TypeOK
<1>1. nan_timer_next_dw(timer, now) \in Nat /\ nan_timer_next_dw(timer, now) > 0
  BY <1>0, NextDwIsLater
<1>2. ASSUME AwaitWindow
      PROVE  due'["discovery_window"] > loop_now
  BY <1>0, <1>1, <1>2, RearmedType DEF AwaitWindow
<1>3. ASSUME FinishWindow
      PROVE  due'["discovery_window"] > loop_now
  BY <1>0, <1>1, <1>3 DEF FinishWindow, RearmedForWindow, TypeOK
<1>4. ASSUME SendDiscoveryBeacon, is_master
      PROVE  due'["discovery_beacon"] > loop_now
  <2>1. timer' \in TimerState /\ timer'.last_discovery_beacon <= now
    BY <1>0, <1>4 DEF SendDiscoveryBeacon, nan_timer_set_last_discovery_beacon, TimerState
  <2>2. TU_TO_USEC(BeaconIntervalTu) \in Nat /\ TU_TO_USEC(BeaconIntervalTu) > 0
    BY TuProperties, TimerAssumption
  <2>3. ~nan_timer_can_send_discovery_beacon(timer', now)
    BY <1>0, <1>4, <2>2 DEF SendDiscoveryBeacon, nan_timer_set_last_discovery_beacon,
                            nan_timer_can_send_discovery_beacon, TimerState
  <2>4. /\ nan_timer_next_discovery_beacon(timer', now) \in Nat
        /\ nan_timer_next_discovery_beacon(timer', now) > 0
    BY <1>0, <2>1, <2>3, NextBeaconIsLater
  <2> QED
    BY <1>0, <1>4, <2>4, RearmedType DEF SendDiscoveryBeacon
<1> QED
  BY <1>2, <1>3, <1>4

(***************************************************************************)
(* The loop never spins on the window's timer or on a MASTER's beacon,     *)
(* whatever the lengths and however late the handlers run.                 *)
(***************************************************************************)
THEOREM LoopMovesOn == Spec => TimersMoveOn
<1>1. TypeOK /\ [Next]_vars
          => [ /\ AwaitWindow \/ FinishWindow => due'["discovery_window"] > loop_now
               /\ SendDiscoveryBeacon /\ is_master
                      => due'["discovery_beacon"] > loop_now ]_vars
  BY NextMovesOn
<1> QED
  BY <1>1, TypeCorrectness, PTL DEF Spec, TimersMoveOn

----------------------------------------------------------------------------
(* The discovery beacons of a MASTER. *)

\* When the discovery beacon's timer expires, and the interval in microseconds.
BeaconDue == due["discovery_beacon"]

BeaconUsec == TU_TO_USEC(BeaconIntervalTu)

\* The beacon's timer expires, at most so late; it is due by now or within three
\* intervals of the last beacon, and for a MASTER of the later of that beacon
\* and its becoming MASTER.
BeaconInv ==
    /\ TypeOK
    /\ now <= BeaconDue + Latency
    /\ BeaconDue <= now \/ BeaconDue <= timer.last_discovery_beacon + 3 * BeaconUsec
    /\ is_master => /\ timer.last_discovery_beacon <= silent_since
                    /\ BeaconDue <= silent_since + 3 * BeaconUsec

\* A device starts as MASTER, with its first beacon due (nan_init, nan_schedule).
LEMMA BeaconInit == Init => BeaconInv
<1> SUFFICES ASSUME Init
             PROVE  BeaconInv
  OBVIOUS
<1>1. TypeOK
  BY InitType
<1>2. /\ now \in Nat /\ BeaconDue = now /\ silent_since = now
      /\ timer.last_discovery_beacon = 0
  BY ScheduleAssumption DEF Init, Timer, BeaconDue, nan_timer_state_init
<1>3. BeaconUsec \in Nat /\ Latency \in Nat
  BY TuProperties, TimerAssumption, ScheduleAssumption DEF BeaconUsec
<1> QED
  BY <1>1, <1>2, <1>3 DEF BeaconInv

\* Every step keeps it: the handler waits for the elapsed time and the interval,
\* which is less than two of them (nan_timer_next_discovery_beacon_usec).
LEMMA BeaconNext == BeaconInv /\ [Next]_vars => BeaconInv'
<1> SUFFICES ASSUME BeaconInv, [Next]_vars
             PROVE  BeaconInv'
  OBVIOUS
<1> DEFINE last == timer.last_discovery_beacon
<1>1. TypeOK /\ TypeOK'
  BY NextType DEF BeaconInv
<1>2. /\ now \in Nat /\ loop_now \in Nat /\ loop_now <= now
      /\ BeaconDue \in Nat /\ BeaconDue # Off
      /\ last \in Nat /\ last <= now /\ silent_since \in Nat /\ silent_since <= now
      /\ timer \in TimerState
  BY <1>1 DEF TypeOK, BeaconDue, Timer, TimerState
<1>3. BeaconUsec \in Nat /\ BeaconUsec > 0 /\ Latency \in Nat
  BY TuProperties, TimerAssumption, ScheduleAssumption DEF BeaconUsec
<1>4. CASE Tick
  <2>1. /\ now' = now + 1 /\ now < BeaconDue + Latency
        /\ UNCHANGED <<timer, BeaconDue, is_master, silent_since>>
    BY <1>2, <1>4 DEF Tick, Timer, BeaconDue
  <2> QED
    BY <1>1, <1>2, <1>3, <2>1 DEF BeaconInv
<1>5. CASE SendDiscoveryBeacon
  <2> DEFINE wait == nan_timer_next_discovery_beacon(timer', now)
             sent == is_master /\ nan_timer_can_send_discovery_beacon(timer, now)
  <2>1. /\ BeaconDue <= loop_now /\ now' = now /\ is_master' = is_master
        /\ BeaconDue' = loop_now + wait
    BY <1>1, <1>5 DEF SendDiscoveryBeacon, Expired, Rearmed, BeaconDue, TypeOK, Timer
  <2>2. IF sent THEN last' = now /\ silent_since' = now
                ELSE timer' = timer /\ silent_since' = silent_since
    BY <1>2, <1>5 DEF SendDiscoveryBeacon, nan_timer_set_last_discovery_beacon, TimerState
  <2>3. sent <=> is_master /\ now - last >= BeaconUsec
    BY DEF nan_timer_can_send_discovery_beacon, BeaconUsec
  <2>4. wait = IF now - last' >= BeaconUsec THEN 0 ELSE now - last' + BeaconUsec
    BY DEF nan_timer_next_discovery_beacon, nan_timer_can_send_discovery_beacon, BeaconUsec
  <2> HIDE DEF wait, sent
  <2>5. last' \in Nat /\ last' <= now /\ wait \in Nat
    BY <1>2, <1>3, <2>2, <2>4
  <2>6. now' <= BeaconDue' + Latency
    BY <1>2, <1>3, <2>1, <2>5 DEF BeaconInv
  <2>7. BeaconDue' <= now' \/ BeaconDue' <= last' + 3 * BeaconUsec
    BY <1>2, <1>3, <2>1, <2>4, <2>5
  <2>8. ASSUME is_master
        PROVE  last' <= silent_since' /\ BeaconDue' <= silent_since' + 3 * BeaconUsec
    <3>1. now - last' < BeaconUsec
      BY <1>2, <1>3, <2>2, <2>3, <2>8
    <3>2. last' <= silent_since' /\ silent_since' \in Nat
      BY <1>2, <2>2, <2>8 DEF BeaconInv
    <3> QED
      BY <1>2, <1>3, <2>1, <2>4, <2>5, <3>1, <3>2
  <2> QED
    BY <1>1, <2>1, <2>6, <2>7, <2>8 DEF BeaconInv
<1>6. CASE EndWindow
  <2>1. /\ BeaconDue' = BeaconDue /\ timer' = timer /\ now' = now
        /\ is_master' => (silent_since' = silent_since /\ is_master) \/ silent_since' = now
    BY <1>1, <1>6 DEF EndWindow, TypeOK, Timer, BeaconDue
  <2> QED
    BY <1>1, <1>2, <1>3, <2>1 DEF BeaconInv
<1>7. CASE Receive
  <2>1. PICK offset \in Offsets :
            LET timestamp == nan_timer_get_synced_time(timer, now) + offset IN
            \/ timer' = nan_timer_sync_time(timer, now, timestamp)
            \/ timer' = nan_timer_sync_error(timer, now, timestamp)
    BY <1>7 DEF Receive
  <2>2. PICK timestamp \in Int :
            \/ timer' = nan_timer_sync_time(timer, now, timestamp)
            \/ timer' = nan_timer_sync_error(timer, now, timestamp)
    <3>1. nan_timer_get_synced_time(timer, now) + offset \in Int
      BY <1>2, ScheduleAssumption DEF nan_timer_get_synced_time, TimerState
    <3> QED
      BY <2>1, <3>1
  <2>3. timer'.last_discovery_beacon = timer.last_discovery_beacon
    <3>1. /\ nan_timer_sync_time(timer, now, timestamp).last_discovery_beacon
                = timer.last_discovery_beacon
          /\ nan_timer_sync_error(timer, now, timestamp).last_discovery_beacon
                = timer.last_discovery_beacon
      BY <1>2, SyncTimeType, SyncErrorType
    <3> QED
      BY <2>2, <3>1
  <2>4. UNCHANGED <<now, BeaconDue, is_master, silent_since>>
    BY <1>7 DEF Receive, BeaconDue
  <2> QED
    BY <1>1, <2>3, <2>4 DEF BeaconInv
<1>8. CASE Wake \/ AwaitWindow \/ OpenWindow \/ FinishWindow \/ UNCHANGED vars
  <2>1. UNCHANGED <<now, timer, BeaconDue, is_master, silent_since>>
    BY <1>1, <1>8 DEF Wake, AwaitWindow, OpenWindow, FinishWindow, vars,
                      Rearmed, RearmedForWindow, TypeOK, Timer, BeaconDue
  <2> QED
    BY <1>1, <2>1 DEF BeaconInv
<1> QED
  BY <1>4, <1>5, <1>6, <1>7, <1>8 DEF Next, Handler

(***************************************************************************)
(* A MASTER is never silent for more than three intervals and the delay,   *)
(* whatever that delay is (nan_send_discovery_beacon).                     *)
(***************************************************************************)
THEOREM MastersGoOnBeaconing == Spec => []MasterBeacons
<1>1. BeaconInv => MasterBeacons
  <2> SUFFICES ASSUME BeaconInv, is_master
               PROVE  now - silent_since <= TU_TO_USEC(3 * BeaconIntervalTu) + Latency
    BY DEF MasterBeacons
  <2>1. TU_TO_USEC(3 * BeaconIntervalTu) = 3 * BeaconUsec
    <3>1. \A a, n \in Nat : (3 * a) * n = 3 * (a * n)
      BY SMT
    <3> QED
      BY <3>1, TimerAssumption DEF TU_TO_USEC, BeaconUsec
  <2>2. BeaconUsec \in Nat /\ Latency \in Nat
    BY TuProperties, TimerAssumption, ScheduleAssumption DEF BeaconUsec
  <2>3. now \in Nat /\ silent_since \in Nat /\ BeaconDue \in Nat
    BY DEF BeaconInv, TypeOK, BeaconDue, Timer
  <2> QED
    BY <2>1, <2>2, <2>3 DEF BeaconInv
<1> QED
  BY <1>1, BeaconInit, BeaconNext, PTL DEF Spec

----------------------------------------------------------------------------
(* The correction of the clock. *)

\* The quotient of a number between two multiples lies between the factors, for
\* the division of C too (moving_average_add).
LEMMA QuotientBetween ==
    ASSUME NEW a \in Int, NEW m \in Nat \ {0}, NEW lo \in Int, NEW hi \in Int,
           lo * m <= a, a <= hi * m
    PROVE  lo <= Quotient(a, m) /\ Quotient(a, m) <= hi
<1>1. \A i, j \in Int : i * m < j * m => i < j
  BY SMT
<1>2. \A b, l, h \in Int :
          l * m <= b /\ b <= h * m => l <= b \div m /\ b \div m <= h
  <2> SUFFICES ASSUME NEW b \in Int, NEW l \in Int, NEW h \in Int,
                      l * m <= b, b <= h * m
               PROVE  l <= b \div m /\ b \div m <= h
    OBVIOUS
  <2>1. PICK q \in Int, r \in 0 .. m - 1 : q = b \div m /\ b = q * m + r
    <3>1. b \div m \in Int /\ b % m \in 0 .. m - 1 /\ b = (b \div m) * m + (b % m)
      BY SMT
    <3> QED
      BY <3>1
  <2>2. l * m \in Int /\ q * m \in Int /\ (q + 1) * m = q * m + m /\ h * m \in Int
        /\ (h + 1) * m = h * m + m
    BY SMT
  <2>3. l * m < (q + 1) * m /\ q * m < (h + 1) * m
    BY <2>1, <2>2
  <2>4. l < q + 1 /\ q < h + 1
    BY <1>1, <2>3
  <2> QED
    BY <2>1, <2>4
<1>3. CASE a >= 0
  BY <1>2, <1>3 DEF Quotient
<1>4. CASE a < 0
  <2>1. (-hi) * m <= -a /\ -a <= (-lo) * m
    BY SMT
  <2>2. -hi <= (-a) \div m /\ (-a) \div m <= -lo
    BY <1>2, <2>1
  <2>3. (-a) \div m \in Int
    BY Division
  <2> QED
    BY <1>4, <2>2, <2>3 DEF Quotient
<1> QED
  BY <1>3, <1>4

\* Adding an entry to a ring that is not full leaves the average between what it
\* was and the entry (moving_average_add).
LEMMA AverageBetween ==
    ASSUME NEW t \in TimerState, NEW value \in Int, ~t.full
    PROVE  /\ NextAverage(t, value) \in Int
           /\ \/ t.position # 0 /\ t.average_error <= NextAverage(t, value)
              \/ value <= NextAverage(t, value)
           /\ \/ t.position # 0 /\ NextAverage(t, value) <= t.average_error
              \/ NextAverage(t, value) <= value
<1> DEFINE a == t.average_error
           n == t.position
<1>1. a \in Int /\ n \in Nat
  BY TimerAssumption DEF TimerState
<1>2. NextAverage(t, value) = Quotient(a * n + value, n + 1)
  BY DEF NextAverage
<1> HIDE DEF a, n
<1>3. a * n \in Int /\ n + 1 \in Nat \ {0}
  BY <1>1, SMT
<1>4. NextAverage(t, value) \in Int
  BY <1>2, <1>3, QuotientIsInt
<1>5. CASE n = 0
  <2>1. a * n + value = value /\ n + 1 = 1
    BY <1>1, <1>5
  <2>2. value * 1 <= value /\ value <= value * 1
    OBVIOUS
  <2>3. NextAverage(t, value) <= value /\ value <= NextAverage(t, value)
    BY <1>2, <2>1, <2>2, QuotientBetween
  <2> QED
    BY <1>4, <2>3
<1>6. CASE n # 0 /\ a <= value
  <2>1. a * (n + 1) <= a * n + value /\ a * n + value <= value * (n + 1)
    <3>1. \A i, j \in Int, k \in Nat :
              i <= j => i * (k + 1) <= i * k + j /\ i * k + j <= j * (k + 1)
      BY SMT
    <3> QED
      BY <1>1, <1>6, <3>1
  <2> QED
    BY <1>1, <1>2, <1>3, <1>4, <1>6, <2>1, QuotientBetween DEF a, n
<1>7. CASE n # 0 /\ value <= a
  <2>1. value * (n + 1) <= a * n + value /\ a * n + value <= a * (n + 1)
    <3>1. \A i, j \in Int, k \in Nat :
              j <= i => j * (k + 1) <= i * k + j /\ i * k + j <= i * (k + 1)
      BY SMT
    <3> QED
      BY <1>1, <1>7, <3>1
  <2> QED
    BY <1>1, <1>2, <1>3, <1>4, <1>7, <2>1, QuotientBetween DEF a, n
<1> QED
  BY <1>1, <1>5, <1>6, <1>7

\* The entries of the moving average that were made from a beacon.
Last(t) == IF t.full THEN AverageSize - 1 ELSE t.position - 1

Seen(t) == { t.errors[i] : i \in 0 .. Last(t) }

Within(t) ==
    Seen(t) # {} =>
        /\ \E e \in Seen(t) : e <= t.average_error
        /\ \E e \in Seen(t) : e >= t.average_error

\* Until the ring is full, one more entry keeps the average within them
\* (moving_average_add).
LEMMA AddStaysWithin ==
    ASSUME NEW t \in TimerState, NEW value \in Int, ~t.full, Within(t)
    PROVE  Within(moving_average_add(t, value))
<1> DEFINE u == moving_average_add(t, value)
           p == t.position
<1>1. /\ AverageSize \in Nat \ {0}
      /\ p \in 0 .. AverageSize - 1
      /\ t.average_error \in Int
      /\ t.errors \in [0 .. AverageSize - 1 -> Int]
  BY TimerAssumption DEF TimerState
<1>2. /\ u.average_error = NextAverage(t, value)
      /\ u.errors = [ t.errors EXCEPT ![p] = value ]
      /\ u.position = (p + 1) % AverageSize
      /\ u.full <=> p = AverageSize - 1
  BY DEF moving_average_add, TimerState
<1>3. Last(u) = p
  <2>1. p + 1 < AverageSize => (p + 1) % AverageSize = p + 1
    BY <1>1
  <2> HIDE DEF u
  <2>2. p # AverageSize - 1 => p + 1 < AverageSize
    BY <1>1
  <2> QED
    BY <1>1, <1>2, <2>1, <2>2 DEF Last
<1>4. Last(t) = p - 1
  BY DEF Last
<1> HIDE DEF u, p
<1>5. value \in Seen(u)
  <2>1. p \in 0 .. Last(u) /\ u.errors[p] = value
    BY <1>1, <1>2, <1>3
  <2> QED
    BY <2>1 DEF Seen
<1>6. ASSUME NEW i \in 0 .. p - 1
      PROVE  t.errors[i] \in Seen(u) /\ t.errors[i] \in Seen(t) /\ t.errors[i] \in Int
  <2>1. i \in 0 .. Last(u) /\ i \in 0 .. Last(t) /\ i \in 0 .. AverageSize - 1
        /\ u.errors[i] = t.errors[i]
    BY <1>1, <1>2, <1>3, <1>4
  <2> QED
    BY <1>1, <2>1 DEF Seen
<1>7. \A e \in Seen(t) : e \in Seen(u) /\ e \in Int
  BY <1>4, <1>6 DEF Seen
<1>8. p # 0 => Seen(t) # {}
  <2>1. p # 0 => 0 \in 0 .. p - 1
    BY <1>1
  <2> QED
    BY <1>6, <2>1
<1>9. /\ NextAverage(t, value) \in Int
      /\ \/ p # 0 /\ t.average_error <= NextAverage(t, value)
         \/ value <= NextAverage(t, value)
      /\ \/ p # 0 /\ NextAverage(t, value) <= t.average_error
         \/ NextAverage(t, value) <= value
  BY AverageBetween DEF p
<1>10. \E e \in Seen(u) : e <= u.average_error
  <2>1. CASE value <= NextAverage(t, value)
    BY <1>2, <1>5, <2>1
  <2>2. CASE p # 0 /\ t.average_error <= NextAverage(t, value)
    <3>1. PICK e \in Seen(t) : e <= t.average_error
      BY <1>8, <2>2 DEF Within
    <3>2. e \in Seen(u) /\ e <= NextAverage(t, value)
      BY <1>1, <1>7, <1>9, <2>2, <3>1
    <3> QED
      BY <1>2, <3>2
  <2> QED
    BY <1>9, <2>1, <2>2
<1>11. \E e \in Seen(u) : e >= u.average_error
  <2>1. CASE NextAverage(t, value) <= value
    <3>1. value >= NextAverage(t, value)
      BY <1>9, <2>1
    <3> QED
      BY <1>2, <1>5, <3>1
  <2>2. CASE p # 0 /\ NextAverage(t, value) <= t.average_error
    <3>1. PICK e \in Seen(t) : e >= t.average_error
      BY <1>8, <2>2 DEF Within
    <3>2. e \in Seen(u) /\ e >= NextAverage(t, value)
      BY <1>1, <1>7, <1>9, <2>2, <3>1
    <3> QED
      BY <1>2, <3>2
  <2> QED
    BY <1>9, <2>1, <2>2
<1> QED
  BY <1>10, <1>11 DEF Within, u

\* No more entries than beacons, and the average within them until the ring may
\* have overflowed.
ErrorInv ==
    /\ TypeOK
    /\ IF timer.full THEN AverageSize <= beacons ELSE timer.position <= beacons
    /\ beacons <= AverageSize => Within(timer)

\* The ring starts empty (nan_timer_state_init).
LEMMA ErrorInit == Init => ErrorInv
<1> SUFFICES ASSUME Init
             PROVE  ErrorInv
  OBVIOUS
<1>1. /\ beacons = 0 /\ ~timer.full /\ timer.position = 0
  BY DEF Init, nan_timer_state_init
<1>2. Seen(timer) = {}
  BY <1>1 DEF Seen, Last
<1> QED
  BY <1>1, <1>2, InitType DEF ErrorInv, Within

\* Every step keeps it: a beacon adds one entry at most (nan_timer_sync_error).
LEMMA ErrorNext == ErrorInv /\ [Next]_vars => ErrorInv'
<1> SUFFICES ASSUME ErrorInv, [Next]_vars
             PROVE  ErrorInv'
  OBVIOUS
<1>1. TypeOK /\ TypeOK'
  BY NextType DEF ErrorInv
<1>2. /\ now \in Nat /\ beacons \in Nat /\ timer \in TimerState
      /\ AverageSize \in Nat \ {0}
  BY <1>1, TimerAssumption DEF TypeOK
<1>3. CASE SendDiscoveryBeacon
  <2>1. beacons' = beacons
        /\ \/ timer' = timer
           \/ timer' = nan_timer_set_last_discovery_beacon(timer, now)
    BY <1>3 DEF SendDiscoveryBeacon
  <2>2. /\ timer'.full = timer.full /\ timer'.position = timer.position
        /\ timer'.errors = timer.errors /\ timer'.average_error = timer.average_error
    BY <1>2, <2>1 DEF nan_timer_set_last_discovery_beacon, TimerState
  <2> QED
    BY <1>1, <2>1, <2>2 DEF ErrorInv, Within, Seen, Last
<1>4. CASE Receive
  <2>1. PICK timestamp \in Int :
            \/ timer' = nan_timer_sync_time(timer, now, timestamp)
            \/ timer' = nan_timer_sync_error(timer, now, timestamp)
    <3>1. PICK offset \in Offsets :
            LET timestamp == nan_timer_get_synced_time(timer, now) + offset IN
            \/ timer' = nan_timer_sync_time(timer, now, timestamp)
            \/ timer' = nan_timer_sync_error(timer, now, timestamp)
      BY <1>4 DEF Receive
    <3>2. nan_timer_get_synced_time(timer, now) + offset \in Int
      BY <1>2, ScheduleAssumption DEF nan_timer_get_synced_time, TimerState
    <3> QED
      BY <3>1, <3>2
  <2>2. beacons' = beacons + 1
    BY <1>4 DEF Receive
  <2>3. CASE /\ timer'.full = timer.full /\ timer'.position = timer.position
             /\ timer'.errors = timer.errors /\ timer'.average_error = timer.average_error
    <3>1. Within(timer') <=> Within(timer)
      BY <2>3 DEF Within, Seen, Last
    <3>2. timer.position \in Int
      BY <1>2 DEF TimerState
    <3> QED
      BY <1>1, <1>2, <2>2, <2>3, <3>1, <3>2 DEF ErrorInv
  <2>4. CASE \E error \in Int : timer' = moving_average_add(timer, error)
    <3>1. PICK error \in Int : timer' = moving_average_add(timer, error)
      BY <2>4
    <3>2. CASE timer.full
      <4>1. timer'.full
        BY <1>2, <3>1, <3>2 DEF moving_average_add, TimerState
      <4>2. AverageSize < beacons'
        BY <1>2, <2>2, <3>2 DEF ErrorInv
      <4> QED
        BY <1>1, <1>2, <2>2, <4>1, <4>2 DEF ErrorInv
    <3>3. CASE ~timer.full
      <4>1. timer.position \in 0 .. AverageSize - 1 /\ timer.position <= beacons
        BY <1>2, <3>3 DEF ErrorInv, TimerState
      <4>2. /\ timer'.full <=> timer.position = AverageSize - 1
            /\ timer'.position = (timer.position + 1) % AverageSize
        BY <1>2, <3>1, <3>3 DEF moving_average_add, TimerState
      <4>3. timer'.position <= timer.position + 1
        <5>1. \A i \in Nat, n \in Nat \ {0} : i % n <= i
          BY SMT
        <5> QED
          BY <1>2, <4>1, <4>2, <5>1
      <4>4. timer'.position \in Int
        BY <1>1 DEF TypeOK, TimerState
      <4>5. IF timer'.full THEN AverageSize <= beacons' ELSE timer'.position <= beacons'
        BY <1>2, <2>2, <4>1, <4>2, <4>3, <4>4
      <4>6. beacons' <= AverageSize => Within(timer)
        BY <1>2, <2>2 DEF ErrorInv
      <4>7. beacons' <= AverageSize => Within(timer')
        BY <1>2, <3>1, <3>3, <4>6, AddStaysWithin
      <4> QED
        BY <1>1, <4>5, <4>7 DEF ErrorInv
    <3> QED
      BY <3>2, <3>3
  <2>5. Error(timer, now, timestamp) \in Int
    <3>1. nan_timer_get_synced_time(timer, now) - timestamp \in Int
      BY <1>2 DEF nan_timer_get_synced_time, TimerState
    <3>2. \A n \in Int : n % IntRange \in Int
      BY TimerAssumption
    <3> QED
      BY <3>1, <3>2, TimerAssumption DEF Error, ToInt
  <2> QED
    BY <1>2, <2>1, <2>3, <2>4, <2>5
       DEF nan_timer_sync_time, nan_timer_sync_error, TimerState
<1>5. CASE Tick \/ Wake \/ AwaitWindow \/ OpenWindow \/ FinishWindow \/ EndWindow
           \/ UNCHANGED vars
  <2>1. UNCHANGED <<timer, beacons>>
    BY <1>5 DEF Tick, Wake, AwaitWindow, OpenWindow, FinishWindow, EndWindow, vars
  <2> QED
    BY <1>1, <2>1 DEF ErrorInv
<1> QED
  BY <1>3, <1>4, <1>5 DEF Next, Handler

(***************************************************************************)
(* Until the ring overflows, the correction of the clock lies within the   *)
(* errors it is made from, whatever the timestamps (nan_timer_sync_error). *)
(***************************************************************************)
THEOREM CorrectionStaysWithin == Spec => []CorrectionWithinErrors
<1>1. ErrorInv => CorrectionWithinErrors
  BY DEF ErrorInv, Within, Seen, Last, CorrectionWithinErrors
<1> QED
  BY <1>1, ErrorInit, ErrorNext, PTL DEF Spec

----------------------------------------------------------------------------
(* Where a moment is among the windows. *)

\* A window and an interval, in microseconds.
IntervalUsec == TU_TO_USEC(DwIntervalTu)
LengthUsec == TU_TO_USEC(DwLengthTu)

\* A window with its last time unit fits into an interval (NAN_DW_LENGTH_TU and
\* NAN_DW_INTERVAL_TU).
LEMMA Lengths ==
    /\ UsecPerTu \in Nat \ {0}
    /\ IntervalUsec \in Nat /\ LengthUsec \in Nat
    /\ LengthUsec + UsecPerTu <= IntervalUsec
<1>1. \A a, b, u \in Nat : a < b => a * u + u <= b * u
  BY SMT
<1> QED
  BY <1>1, TuProperties, TimerAssumption DEF IntervalUsec, LengthUsec, TU_TO_USEC

\* The moment interval number k starts at, by the monotonic clock.
WindowStart(t, k) == k * IntervalUsec + t.base_time + t.average_error

\* Intervals follow each other without a gap.
LEMMA NextStart ==
    ASSUME NEW t \in TimerState, NEW k \in Int
    PROVE  /\ WindowStart(t, k) \in Int
           /\ WindowStart(t, k + 1) = WindowStart(t, k) + IntervalUsec
<1>1. \A i \in Int, n \in Nat : i * n \in Int /\ (i + 1) * n = i * n + n
  BY SMT
<1> QED
  BY <1>1, Lengths DEF WindowStart, TimerState

(***************************************************************************)
(* Every moment has an interval k, a time unit r within it and a           *)
(* microsecond p within that (the divisions of nan_timer_in_dw and         *)
(* nan_timer_next_dw_usec).                                                *)
(***************************************************************************)
LEMMA Position ==
    ASSUME NEW t \in TimerState, NEW time \in Int
    PROVE  \E k \in Int, r \in 0 .. DwIntervalTu - 1, p \in 0 .. UsecPerTu - 1 :
              /\ time = WindowStart(t, k) + TU_TO_USEC(r) + p
              /\ k = Interval(t, time)
              /\ r = nan_timer_get_fixed_time_tu(t, time) % DwIntervalTu
<1> DEFINE fixed == time - t.base_time - t.average_error
           tu == fixed \div UsecPerTu
           p == fixed % UsecPerTu
           k == tu \div DwIntervalTu
           r == tu % DwIntervalTu
<1>1. fixed \in Int
  BY DEF TimerState
<1>2. tu = nan_timer_get_fixed_time_tu(t, time)
  BY DEF nan_timer_get_fixed_time_tu, nan_timer_get_fixed_time, USEC_TO_TU
<1>3. \A a \in Int : \A b \in Nat \ {0} :
          a \div b \in Int /\ a % b \in 0 .. b - 1 /\ a = b * (a \div b) + (a % b)
  BY SMT
<1>4. tu \in Int /\ p \in 0 .. UsecPerTu - 1 /\ fixed = UsecPerTu * tu + p
  BY <1>1, <1>3, TimerAssumption
<1> HIDE DEF fixed, tu, p
<1>5. k \in Int /\ r \in 0 .. DwIntervalTu - 1 /\ tu = DwIntervalTu * k + r
  BY <1>3, <1>4, TimerAssumption
<1> HIDE DEF k, r
<1>6. \A u, n, i, j \in Int : u * (n * i + j) = i * (n * u) + j * u
  BY SMT
<1>7. UsecPerTu * tu = k * (DwIntervalTu * UsecPerTu) + r * UsecPerTu
  BY <1>5, <1>6, TimerAssumption
<1>8. \A i \in Int, n \in Nat : i * n \in Int
  BY SMT
<1>9. k * IntervalUsec \in Int /\ TU_TO_USEC(r) \in Int
      /\ fixed = k * IntervalUsec + TU_TO_USEC(r) + p
  BY <1>4, <1>5, <1>7, <1>8, Lengths, TimerAssumption DEF IntervalUsec, TU_TO_USEC
<1>10. time = WindowStart(t, k) + TU_TO_USEC(r) + p
  <2>1. fixed = time - t.base_time - t.average_error
    BY DEF fixed
  <2>2. t.base_time \in Int /\ t.average_error \in Int /\ p \in Int
    BY <1>4, TimerAssumption DEF TimerState
  <2>3. \A b, c, d, e, f \in Int : time - b - c = d + e + f => time = d + b + c + e + f
    OBVIOUS
  <2>4. \A d, e, f \in Int : time - t.base_time - t.average_error = d + e + f
                           => time = d + t.base_time + t.average_error + e + f
    BY <2>2, <2>3, Zenon
  <2>5. time = k * IntervalUsec + t.base_time + t.average_error + TU_TO_USEC(r) + p
    <3>1. time - t.base_time - t.average_error = k * IntervalUsec + TU_TO_USEC(r) + p
      BY <1>9, <2>1, Zenon
    <3>2. k * IntervalUsec \in Int /\ TU_TO_USEC(r) \in Int /\ p \in Int
      BY <1>9, <2>2
    <3> QED
      BY <2>4, <3>1, <3>2, Zenon
  <2> QED
    BY <2>5 DEF WindowStart
<1>11. k = Interval(t, time) /\ r = nan_timer_get_fixed_time_tu(t, time) % DwIntervalTu
  BY <1>2 DEF k, r, Interval
<1> QED
  BY <1>4, <1>5, <1>10, <1>11

(***************************************************************************)
(* What a moment's position says of the window and of the distance to the  *)
(* next one: that is exact but for the microseconds of the time unit       *)
(* (nan_timer_in_dw, nan_timer_next_dw_usec).                              *)
(***************************************************************************)
LEMMA WindowFacts ==
    ASSUME NEW t \in TimerState, NEW time \in Int
    PROVE  LET start == WindowStart(t, Interval(t, time)) IN
           /\ Interval(t, time) \in Int
           /\ start \in Int
           /\ start <= time /\ time < start + IntervalUsec
           /\ nan_timer_in_dw(t, time) <=> time < start + LengthUsec + UsecPerTu
           /\ BeforeLastTu(t, time) <=> time < start + LengthUsec
           /\ nan_timer_next_dw(t, time) \in Int
           /\ nan_timer_next_dw(t, time) <= IntervalUsec
           /\ start + IntervalUsec <= time + nan_timer_next_dw(t, time)
           /\ time + nan_timer_next_dw(t, time) < start + IntervalUsec + UsecPerTu
<1>1. PICK k \in Int, r \in 0 .. DwIntervalTu - 1, p \in 0 .. UsecPerTu - 1 :
              /\ time = WindowStart(t, k) + TU_TO_USEC(r) + p
              /\ k = Interval(t, time)
              /\ r = nan_timer_get_fixed_time_tu(t, time) % DwIntervalTu
  BY Position
<1>2. /\ DwIntervalTu \in Nat /\ DwLengthTu \in Nat /\ UsecPerTu \in Nat \ {0}
      /\ DwLengthTu < DwIntervalTu
  BY TimerAssumption
<1>3. WindowStart(t, k) \in Int
  BY NextStart
<1>4. PICK s \in Int, u \in Int : s = WindowStart(t, k) /\ u = TU_TO_USEC(r)
  <2>1. \A a, b \in Int : a * b \in Int
    BY SMT
  <2> QED
    BY <1>2, <1>3, <2>1 DEF TU_TO_USEC
<1>5. time = s + u + p
  BY <1>1, <1>4
<1>6. \A a, b, n, q \in Int :
          n > 0 /\ 0 <= q /\ q < n => (a < b <=> a * n + q < b * n)
  BY SMT
<1>7. (r < DwLengthTu <=> u + p < LengthUsec)
      /\ (r < DwLengthTu + 1 <=> u + p < LengthUsec + UsecPerTu)
      /\ u + p < IntervalUsec
  <2>1. \A n \in Nat : r < n <=> u + p < TU_TO_USEC(n)
    BY <1>2, <1>4, <1>6 DEF TU_TO_USEC
  <2>2. TU_TO_USEC(DwLengthTu + 1) = LengthUsec + UsecPerTu
    BY <1>2 DEF TU_TO_USEC, LengthUsec
  <2> QED
    BY <1>2, <2>1, <2>2 DEF LengthUsec, IntervalUsec
<1>8. nan_timer_next_dw(t, time) = IntervalUsec - u
  <2>1. \A a, b, n \in Int : (a - b) * n = a * n - b * n
    BY SMT
  <2>2. nan_timer_next_dw(t, time) = TU_TO_USEC(DwIntervalTu - r)
    BY <1>1 DEF nan_timer_next_dw
  <2> QED
    BY <1>2, <1>4, <2>1, <2>2 DEF TU_TO_USEC, IntervalUsec
<1>9. 0 <= u
  <2>1. \A a, b \in Nat : 0 <= a * b
    BY SMT
  <2> QED
    BY <1>2, <1>4, <2>1 DEF TU_TO_USEC
<1>10. nan_timer_in_dw(t, time) <=> r < DwLengthTu + 1
  BY <1>1, <1>2 DEF nan_timer_in_dw
<1>11. BeforeLastTu(t, time) <=> r < DwLengthTu
  BY <1>1 DEF BeforeLastTu
<1>12. IntervalUsec \in Int /\ LengthUsec \in Int
  BY Lengths
<1>13. /\ s <= time /\ time < s + IntervalUsec
       /\ nan_timer_in_dw(t, time) <=> time < s + LengthUsec + UsecPerTu
       /\ BeforeLastTu(t, time) <=> time < s + LengthUsec
       /\ nan_timer_next_dw(t, time) \in Int
       /\ nan_timer_next_dw(t, time) <= IntervalUsec
       /\ s + IntervalUsec <= time + nan_timer_next_dw(t, time)
       /\ time + nan_timer_next_dw(t, time) < s + IntervalUsec + UsecPerTu
  BY <1>2, <1>5, <1>7, <1>8, <1>9, <1>10, <1>11, <1>12
<1> QED
  BY <1>1, <1>3, <1>4, <1>13

\* A moment is in one interval only.
LEMMA OneInterval ==
    ASSUME NEW t \in TimerState, NEW time \in Int, NEW j \in Int,
           WindowStart(t, j) <= time, time < WindowStart(t, j) + IntervalUsec
    PROVE  Interval(t, time) = j
<1> DEFINE k == Interval(t, time)
<1>1. /\ k \in Int /\ WindowStart(t, k) \in Int /\ WindowStart(t, j) \in Int
      /\ WindowStart(t, k) <= time /\ time < WindowStart(t, k) + IntervalUsec
  BY WindowFacts, NextStart
<1> HIDE DEF k
<1>2. \A a, b \in Int : a < b => WindowStart(t, a) + IntervalUsec <= WindowStart(t, b)
  <2> SUFFICES ASSUME NEW a \in Int, NEW b \in Int, a < b
               PROVE  WindowStart(t, a) + IntervalUsec <= WindowStart(t, b)
    OBVIOUS
  <2>1. \A n \in Nat : a * n \in Int /\ b * n \in Int /\ a * n + n <= b * n
    BY SMT
  <2>2. PICK m \in Int, n \in Int : m = a * IntervalUsec /\ n = b * IntervalUsec
    BY <2>1, Lengths
  <2>3. m + IntervalUsec <= n
    BY <2>1, <2>2, Lengths
  <2>4. t.base_time \in Int /\ t.average_error \in Int
    BY DEF TimerState
  <2> QED
    BY <2>2, <2>3, <2>4, Lengths DEF WindowStart
<1>3. ~(k < j) /\ ~(j < k)
  BY <1>1, <1>2, Lengths
<1> QED
  BY <1>1, <1>3 DEF k

(***************************************************************************)
(* Before a window's last time unit, its end comes before the next window  *)
(* by what lies between the two (nan_timer_dw_end_usec).                   *)
(***************************************************************************)
LEMMA WindowEnd ==
    ASSUME NEW t \in TimerState, NEW time \in Int, BeforeLastTu(t, time)
    PROVE  nan_timer_dw_end(t, time) \in Int
           /\ nan_timer_dw_end(t, time) + IntervalUsec
                  < nan_timer_next_dw(t, time) + LengthUsec + UsecPerTu
<1> DEFINE k == Interval(t, time)
           before == time - LengthUsec
<1>1. UsecPerTu \in Int /\ UsecPerTu > 0 /\ IntervalUsec \in Int /\ LengthUsec \in Nat
      /\ LengthUsec + UsecPerTu <= IntervalUsec
  BY Lengths
<1>2. /\ k \in Int /\ WindowStart(t, k) \in Int
      /\ WindowStart(t, k) <= time /\ time < WindowStart(t, k) + LengthUsec
      /\ nan_timer_in_dw(t, time) <=> time < WindowStart(t, k) + LengthUsec + UsecPerTu
      /\ nan_timer_next_dw(t, time) \in Int
      /\ WindowStart(t, k) + IntervalUsec <= time + nan_timer_next_dw(t, time)
  BY WindowFacts
<1> HIDE DEF k
<1>3. before \in Int
  BY <1>1
<1>4. k - 1 \in Int /\ WindowStart(t, k - 1) \in Int
      /\ WindowStart(t, k) = WindowStart(t, k - 1) + IntervalUsec
  <2>1. k - 1 \in Int /\ (k - 1) + 1 = k
    BY <1>2
  <2> QED
    BY <2>1, NextStart
<1>5. WindowStart(t, k - 1) <= before /\ before < WindowStart(t, k - 1) + IntervalUsec
  BY <1>1, <1>2, <1>4
<1>6. Interval(t, before) = k - 1
  BY <1>3, <1>4, <1>5, OneInterval
<1>7. /\ nan_timer_next_dw(t, before) \in Int
      /\ before + nan_timer_next_dw(t, before)
             < WindowStart(t, k - 1) + IntervalUsec + UsecPerTu
  BY <1>3, <1>6, WindowFacts
<1>8. nan_timer_dw_end(t, time) = nan_timer_next_dw(t, before)
  BY <1>1, <1>2 DEF nan_timer_dw_end, LengthUsec
<1> QED
  BY <1>1, <1>2, <1>3, <1>4, <1>7, <1>8

\* A discovery beacon leaves the windows where they are
\* (nan_timer_set_last_discovery_beacon).
LEMMA BeaconKeepsWindows ==
    ASSUME NEW t \in TimerState, NEW at \in Nat
    PROVE  LET u == nan_timer_set_last_discovery_beacon(t, at) IN
           /\ \A k \in Int : WindowStart(u, k) = WindowStart(t, k)
           /\ \A time \in Int : /\ Interval(u, time) = Interval(t, time)
                                /\ nan_timer_in_dw(u, time) = nan_timer_in_dw(t, time)
BY DEF nan_timer_set_last_discovery_beacon, TimerState, WindowStart, Interval,
       nan_timer_in_dw, nan_timer_get_fixed_time_tu, nan_timer_get_fixed_time

----------------------------------------------------------------------------
(* The windows, for handlers that are prompt. *)

(***************************************************************************)
(* The premise of what follows: a handler starts at most the length of a   *)
(* window late, and sending is over early enough for what is left of the   *)
(* interval to be longer than that.  With the program's values: at most 16 *)
(* time units late, and both together below 495.                           *)
(***************************************************************************)
PromptHandlers ==
    /\ Latency <= TU_TO_USEC(DwLengthTu)
    /\ TU_TO_USEC(DwLengthTu + 1) + MaxSend + Latency <= TU_TO_USEC(DwIntervalTu)

\* The same in microseconds.
LEMMA Prompt ==
    ASSUME PromptHandlers
    PROVE  /\ Latency \in Nat /\ MaxSend \in Nat
           /\ Latency <= LengthUsec
           /\ LengthUsec + UsecPerTu + MaxSend + Latency <= IntervalUsec
<1>1. TU_TO_USEC(DwLengthTu + 1) = LengthUsec + UsecPerTu
  BY TimerAssumption DEF TU_TO_USEC, LengthUsec
<1> QED
  BY <1>1, Lengths, ScheduleAssumption DEF PromptHandlers, LengthUsec, IntervalUsec

WindowDue == due["discovery_window"]

EndDue == due["discovery_window_end"]

\* How late the window's handler may be, by either clock; how far ahead it is armed.
ArmedInTime ==
    ~sending =>
        /\ now <= WindowDue + Latency \/ now <= since + MaxSend
        /\ now <= WindowDue + Latency \/ loop_now < WindowDue \/ loop_now = now
        /\ WindowDue <= now + IntervalUsec

\* While the handler sends, the window it found on is the last event.
SendingInWindow ==
    sending => /\ untouched
               /\ now <= since + MaxSend
               /\ since <= loop_now + Latency
               /\ nan_timer_in_dw(timer, since)

\* After a window the timer expires between its end and the next one's first
\* time unit.
ArmedForNext ==
    ~sending /\ untouched =>
        /\ nan_timer_in_dw(timer, since)
        /\ WindowStart(timer, Interval(timer, since)) + LengthUsec + UsecPerTu <= WindowDue
        /\ WindowDue < WindowStart(timer, Interval(timer, since)) + IntervalUsec + UsecPerTu

\* It expires around the start of some window.
ArmedForStart(j) ==
    /\ WindowStart(timer, j) - Latency <= WindowDue
    /\ WindowDue < WindowStart(timer, j) + UsecPerTu
    /\ WindowStart(timer, j) + UsecPerTu <= since + 2 * IntervalUsec

\* After a beacon has moved the windows it expires once at any moment, then
\* around the start of one.
ArmedAnew ==
    ~sending /\ ~untouched =>
        \/ WindowDue <= since + IntervalUsec
        \/ \E j \in Int : ArmedForStart(j)

\* A handler that finished in time has armed the window's end before the next window.
EndArmedFirst ==
    closing /\ EndDue # Off =>
        /\ ~sending
        /\ now < WindowDue
        /\ EndDue + Latency < WindowDue

\* The inductive invariant.
WindowInv ==
    /\ TypeOK
    /\ ArmedInTime
    /\ SendingInWindow
    /\ ArmedForNext
    /\ ArmedAnew
    /\ EndArmedFirst

\* The program starts with the window's timer expired (nan_schedule).
LEMMA WindowInit == Init => WindowInv
<1> SUFFICES ASSUME Init
             PROVE  WindowInv
  OBVIOUS
<1>1. TypeOK
  BY InitType
<1>2. /\ ~sending /\ ~untouched /\ ~closing
      /\ WindowDue = now /\ since = now /\ now \in Nat
  BY ScheduleAssumption DEF Init, Timer, WindowDue
<1> QED
  BY <1>1, <1>2, Lengths, ScheduleAssumption
     DEF WindowInv, ArmedInTime, SendingInWindow, ArmedForNext, ArmedAnew, EndArmedFirst

(***************************************************************************)
(* What the window's handler finds when it starts: the loop's time and the *)
(* clock differ by no more than the delay (nan_handle_discovery_window).   *)
(***************************************************************************)
LEMMA HandlerTime ==
    ASSUME PromptHandlers, WindowInv, Expired("discovery_window")
    PROVE  /\ ~sending
           /\ WindowDue \in Nat /\ WindowDue <= now
           /\ now <= loop_now + Latency
           /\ now <= WindowDue + Latency \/ now <= since + MaxSend
<1>1. ~sending /\ WindowDue # Off /\ WindowDue <= loop_now
  BY DEF Expired, WindowDue
<1>2. "discovery_window" \in Timer
  BY DEF Timer
<1>3. now \in Nat /\ loop_now \in Nat /\ loop_now <= now /\ WindowDue \in Nat
  BY <1>1, <1>2 DEF WindowInv, TypeOK, WindowDue
<1>4. /\ now <= WindowDue + Latency \/ now <= since + MaxSend
      /\ now <= WindowDue + Latency \/ loop_now < WindowDue \/ loop_now = now
  BY <1>1 DEF WindowInv, ArmedInTime
<1> QED
  BY <1>1, <1>3, <1>4, ScheduleAssumption

(***************************************************************************)
(* While the clock is left alone the handler that finds a window on finds  *)
(* the one after the last, and one that finds none is still in the last    *)
(* one's interval (nan_handle_discovery_window).                           *)
(***************************************************************************)
LEMMA NextWindow ==
    ASSUME PromptHandlers, WindowInv, Expired("discovery_window"), untouched
    PROVE  LET k == Interval(timer, since) IN
           /\ k \in Int
           /\ Interval(timer, now) = IF nan_timer_in_dw(timer, now) THEN k + 1 ELSE k
<1> DEFINE k == Interval(timer, since)
           start == WindowStart(timer, k)
<1>1. /\ ~sending
      /\ WindowDue \in Nat /\ WindowDue <= now
      /\ now <= loop_now + Latency
      /\ now <= WindowDue + Latency \/ now <= since + MaxSend
  BY HandlerTime
<1>2. timer \in TimerState /\ now \in Int /\ since \in Int
  BY DEF WindowInv, TypeOK
<1>3. /\ nan_timer_in_dw(timer, since)
      /\ start + LengthUsec + UsecPerTu <= WindowDue
      /\ WindowDue < start + IntervalUsec + UsecPerTu
  BY <1>1 DEF WindowInv, ArmedForNext
<1>4. /\ k \in Int /\ start \in Int
      /\ start <= since /\ since < start + LengthUsec + UsecPerTu
  BY <1>2, <1>3, WindowFacts
<1> HIDE DEF k
<1>5. /\ WindowStart(timer, k + 1) = start + IntervalUsec
      /\ WindowStart(timer, k + 1) \in Int
  BY <1>2, <1>4, NextStart
<1> HIDE DEF start
<1>6. start <= now /\ now < start + IntervalUsec + LengthUsec + UsecPerTu
  BY <1>1, <1>2, <1>3, <1>4, Prompt, Lengths
<1>7. start + LengthUsec + UsecPerTu <= now
  BY <1>1, <1>2, <1>3, <1>4, Lengths
<1>8. CASE now < start + IntervalUsec
  <2>1. Interval(timer, now) = k
    BY <1>2, <1>4, <1>6, <1>8, OneInterval DEF start
  <2>2. nan_timer_in_dw(timer, now) <=> now < start + LengthUsec + UsecPerTu
    BY <1>2, <2>1, WindowFacts DEF start
  <2>3. ~(now < start + LengthUsec + UsecPerTu)
    BY <1>2, <1>4, <1>7, Lengths
  <2> QED
    BY <1>4, <2>1, <2>2, <2>3 DEF k
<1>9. CASE start + IntervalUsec <= now
  <2>1. k + 1 \in Int /\ WindowStart(timer, k + 1) <= now
        /\ now < WindowStart(timer, k + 1) + IntervalUsec
    BY <1>2, <1>4, <1>5, <1>6, <1>9, Lengths
  <2>2. Interval(timer, now) = k + 1
    BY <1>2, <2>1, OneInterval
  <2>3. nan_timer_in_dw(timer, now)
            <=> now < WindowStart(timer, k + 1) + LengthUsec + UsecPerTu
    BY <1>2, <2>2, WindowFacts
  <2>4. nan_timer_in_dw(timer, now)
    BY <1>4, <1>5, <1>6, <2>3, Lengths
  <2> QED
    BY <1>4, <2>2, <2>4 DEF k
<1> QED
  BY <1>2, <1>4, <1>8, <1>9, Lengths

\* Outside a window the handler arms its timer for the start of the next one
\* (the early return of nan_handle_discovery_window).
LEMMA AwaitForNext ==
    ASSUME PromptHandlers, WindowInv, AwaitWindow, untouched
    PROVE  ArmedForNext'
<1> DEFINE k == Interval(timer, since)
<1>1. Expired("discovery_window") /\ ~nan_timer_in_dw(timer, now)
  BY DEF AwaitWindow
<1>2. k \in Int /\ Interval(timer, now) = k
  BY <1>1, NextWindow
<1>3. /\ timer \in TimerState /\ now \in Int /\ since \in Int
      /\ loop_now \in Int /\ loop_now <= now /\ now <= loop_now + Latency
  BY <1>1, HandlerTime DEF WindowInv, TypeOK
<1>4. /\ nan_timer_next_dw(timer, now) \in Int
      /\ WindowStart(timer, k) \in Int
      /\ WindowStart(timer, k) + IntervalUsec <= now + nan_timer_next_dw(timer, now)
      /\ now + nan_timer_next_dw(timer, now)
             < WindowStart(timer, k) + IntervalUsec + UsecPerTu
  BY <1>2, <1>3, WindowFacts
<1>5. WindowDue' = loop_now + nan_timer_next_dw(timer, now)
  BY DEF AwaitWindow, Rearmed, WindowDue, WindowInv, TypeOK, Timer
<1>6. WindowDue' < WindowStart(timer, k) + IntervalUsec + UsecPerTu
  BY <1>3, <1>4, <1>5, Lengths
<1>7. WindowStart(timer, k) + LengthUsec + UsecPerTu <= WindowDue'
  BY <1>3, <1>4, <1>5, Lengths, Prompt
<1>8. nan_timer_in_dw(timer, since)
  BY <1>1, HandlerTime DEF WindowInv, ArmedForNext
<1>9. timer' = timer /\ since' = since
  BY DEF AwaitWindow
<1> QED
  BY <1>6, <1>7, <1>8, <1>9 DEF ArmedForNext

\* So it does after a beacon has moved the windows.
LEMMA AwaitAnew ==
    ASSUME PromptHandlers, WindowInv, AwaitWindow, ~untouched
    PROVE  ArmedAnew'
<1> DEFINE k == Interval(timer, now)
           start == WindowStart(timer, k)
<1>1. Expired("discovery_window") /\ ~nan_timer_in_dw(timer, now)
  BY DEF AwaitWindow
<1>2. /\ ~sending
      /\ WindowDue \in Nat /\ WindowDue <= now
      /\ loop_now \in Int /\ loop_now <= now /\ now <= loop_now + Latency
      /\ now <= WindowDue + Latency \/ now <= since + MaxSend
  BY <1>1, HandlerTime DEF WindowInv, TypeOK
<1>3. timer \in TimerState /\ now \in Int /\ since \in Int
  BY DEF WindowInv, TypeOK
<1>4. /\ k \in Int /\ start \in Int
      /\ start <= now /\ now < start + IntervalUsec
      /\ start + LengthUsec + UsecPerTu <= now
      /\ nan_timer_next_dw(timer, now) \in Int
      /\ start + IntervalUsec <= now + nan_timer_next_dw(timer, now)
      /\ now + nan_timer_next_dw(timer, now) < start + IntervalUsec + UsecPerTu
  <2>1. /\ k \in Int /\ start \in Int
        /\ start <= now /\ now < start + IntervalUsec
        /\ nan_timer_in_dw(timer, now) <=> now < start + LengthUsec + UsecPerTu
        /\ nan_timer_next_dw(timer, now) \in Int
        /\ start + IntervalUsec <= now + nan_timer_next_dw(timer, now)
        /\ now + nan_timer_next_dw(timer, now) < start + IntervalUsec + UsecPerTu
    BY <1>3, WindowFacts
  <2> HIDE DEF k, start
  <2> QED
    BY <1>1, <1>3, <2>1, Lengths
<1>5. WindowDue' = loop_now + nan_timer_next_dw(timer, now)
  BY DEF AwaitWindow, Rearmed, WindowDue, WindowInv, TypeOK, Timer
<1>6. timer' = timer /\ since' = since
  BY DEF AwaitWindow
<1> HIDE DEF k
<1>7. PICK i \in Int : i = k + 1 /\ WindowStart(timer, i) = start + IntervalUsec
  BY <1>3, <1>4, NextStart
<1> HIDE DEF start
<1>8. /\ start + IntervalUsec - Latency <= WindowDue'
      /\ WindowDue' < start + IntervalUsec + UsecPerTu
  BY <1>2, <1>3, <1>4, <1>5, Lengths, Prompt
<1>9. ASSUME start + IntervalUsec + UsecPerTu <= since + 2 * IntervalUsec
      PROVE  ArmedForStart(i)'
  <2>1. WindowStart(timer, i)' = start + IntervalUsec
    BY <1>6, <1>7
  <2> QED
    BY <1>4, <1>6, <1>8, <1>9, <2>1, Lengths, Prompt DEF ArmedForStart
<1>10. CASE WindowDue <= since + IntervalUsec \/ now <= since + MaxSend
  <2>1. start + IntervalUsec + UsecPerTu <= since + 2 * IntervalUsec
    BY <1>2, <1>3, <1>4, <1>10, Lengths, Prompt
  <2> QED
    BY <1>7, <1>9, <2>1 DEF ArmedAnew
<1>11. CASE now <= WindowDue + Latency /\ \E j \in Int : ArmedForStart(j)
  <2>1. PICK j \in Int : ArmedForStart(j)
    BY <1>11
  <2>2. /\ WindowStart(timer, j) \in Int
        /\ WindowStart(timer, j) - Latency <= WindowDue
        /\ WindowDue < WindowStart(timer, j) + UsecPerTu
        /\ WindowStart(timer, j) + UsecPerTu <= since + 2 * IntervalUsec
    BY <1>3, <2>1, NextStart DEF ArmedForStart
  <2>3. now < WindowStart(timer, j)
    <3>1. SUFFICES ASSUME WindowStart(timer, j) <= now
                   PROVE  FALSE
      BY <1>3, <2>2
    <3>2. now < WindowStart(timer, j) + LengthUsec + UsecPerTu
      BY <1>2, <1>3, <1>11, <2>2, Lengths, Prompt
    <3>3. k = j
      <4>1. now < WindowStart(timer, j) + IntervalUsec
        BY <1>3, <2>2, <3>2, Lengths
      <4> QED
        BY <1>3, <3>1, <4>1, OneInterval DEF k
    <3> QED
      BY <1>3, <1>4, <2>2, <3>2, <3>3, Lengths DEF start
  <2>4. j - 1 \in Int /\ WindowStart(timer, j - 1) \in Int
        /\ WindowStart(timer, j) = WindowStart(timer, j - 1) + IntervalUsec
    <3>1. j - 1 \in Int /\ (j - 1) + 1 = j
      BY <2>1
    <3> QED
      BY <1>3, <3>1, NextStart
  <2>5. k = j - 1
    <3>1. /\ WindowStart(timer, j - 1) <= now
          /\ now < WindowStart(timer, j - 1) + IntervalUsec
      BY <1>2, <1>3, <2>2, <2>3, <2>4, Lengths, Prompt
    <3> QED
      BY <1>3, <2>4, <3>1, OneInterval DEF k
  <2>6. start + IntervalUsec = WindowStart(timer, j)
    BY <2>4, <2>5 DEF start
  <2>7. start + IntervalUsec + UsecPerTu <= since + 2 * IntervalUsec
    BY <2>2, <2>6
  <2> QED
    BY <1>7, <1>9, <2>7 DEF ArmedAnew
<1> QED
  BY <1>2, <1>10, <1>11 DEF WindowInv, ArmedAnew

(***************************************************************************)
(* The handler of the window arms its timer for the next one, and the      *)
(* window's end before that, unless it finished too late for it (the end   *)
(* of nan_handle_discovery_window).                                        *)
(***************************************************************************)
LEMMA FinishArms ==
    ASSUME PromptHandlers, WindowInv, FinishWindow
    PROVE  ArmedInTime' /\ ArmedForNext' /\ EndArmedFirst'
<1> DEFINE k == Interval(timer, since)
           start == WindowStart(timer, k)
<1>1. /\ timer \in TimerState /\ now \in Int /\ since \in Int /\ since <= now
      /\ loop_now \in Int /\ loop_now <= now
  BY DEF WindowInv, TypeOK
<1>2. /\ untouched
      /\ now <= since + MaxSend
      /\ since <= loop_now + Latency
      /\ nan_timer_in_dw(timer, since)
  BY DEF FinishWindow, WindowInv, SendingInWindow
<1>3. /\ k \in Int /\ start \in Int
      /\ start <= since /\ since < start + LengthUsec + UsecPerTu
  BY <1>1, <1>2, WindowFacts
<1> HIDE DEF k
<1>4. start <= now /\ now < start + IntervalUsec
  <2> HIDE DEF start
  <2> QED
    BY <1>1, <1>2, <1>3, Lengths, Prompt
<1>5. Interval(timer, now) = k
  BY <1>1, <1>3, <1>4, OneInterval
<1>6. /\ nan_timer_next_dw(timer, now) \in Int
      /\ nan_timer_next_dw(timer, now) <= IntervalUsec
      /\ start + IntervalUsec <= now + nan_timer_next_dw(timer, now)
      /\ now + nan_timer_next_dw(timer, now) < start + IntervalUsec + UsecPerTu
      /\ BeforeLastTu(timer, now) <=> now < start + LengthUsec
  BY <1>1, <1>5, WindowFacts
<1>7. /\ timer' = timer /\ since' = since /\ untouched' = untouched
      /\ now' = now /\ loop_now' = loop_now /\ ~sending'
      /\ closing' = BeforeLastTu(timer, now)
  BY DEF FinishWindow
<1>8. /\ WindowDue' = loop_now + nan_timer_next_dw(timer, now)
      /\ EndDue' = loop_now + nan_timer_dw_end(timer, now)
  BY DEF FinishWindow, RearmedForWindow, WindowDue, EndDue, WindowInv, TypeOK, Timer
<1> HIDE DEF start
<1>9. /\ start + LengthUsec + UsecPerTu <= WindowDue'
      /\ WindowDue' < start + IntervalUsec + UsecPerTu
      /\ WindowDue' <= now + IntervalUsec
      /\ loop_now < WindowDue'
  BY <1>1, <1>2, <1>3, <1>4, <1>6, <1>8, Lengths, Prompt
<1>10. ArmedInTime'
  BY <1>2, <1>7, <1>9 DEF ArmedInTime
<1>11. ArmedForNext'
  BY <1>2, <1>7, <1>9 DEF ArmedForNext, k, start
<1>12. EndArmedFirst'
  <2> SUFFICES ASSUME BeforeLastTu(timer, now)
               PROVE  now < WindowDue' /\ EndDue' + Latency < WindowDue'
    BY <1>7 DEF EndArmedFirst
  <2>1. nan_timer_dw_end(timer, now) \in Int
        /\ nan_timer_dw_end(timer, now) + IntervalUsec
               < nan_timer_next_dw(timer, now) + LengthUsec + UsecPerTu
    BY <1>1, WindowEnd
  <2>2. now < WindowDue'
    BY <1>1, <1>3, <1>6, <1>8, <1>9, Lengths
  <2>3. EndDue' + Latency < WindowDue'
    BY <1>1, <1>6, <1>8, <2>1, Lengths, Prompt
  <2> QED
    BY <2>2, <2>3
<1> QED
  BY <1>10, <1>11, <1>12

\* A step that leaves the windows and their timers alone.
LEMMA WindowFrame ==
    ASSUME WindowInv,
           now' = now, since' = since, sending' = sending, untouched' = untouched,
           WindowDue' = WindowDue,
           loop_now' \in {loop_now, now},
           sending => loop_now' = loop_now,
           timer' = timer \/ timer' = nan_timer_set_last_discovery_beacon(timer, now)
    PROVE  ArmedInTime' /\ SendingInWindow' /\ ArmedForNext' /\ ArmedAnew'
<1>1. /\ timer \in TimerState /\ now \in Nat /\ since \in Nat
  BY DEF WindowInv, TypeOK
<1>2. /\ \A k \in Int : WindowStart(timer', k) = WindowStart(timer, k)
      /\ Interval(timer', since) = Interval(timer, since)
      /\ nan_timer_in_dw(timer', since) = nan_timer_in_dw(timer, since)
      /\ Interval(timer, since) \in Int
  BY <1>1, BeaconKeepsWindows, WindowFacts
<1>3. ArmedInTime'
  BY <1>1 DEF WindowInv, ArmedInTime
<1>4. SendingInWindow'
  BY <1>2 DEF WindowInv, SendingInWindow
<1>5. ArmedForNext'
  BY <1>2 DEF WindowInv, ArmedForNext
<1>6. ArmedAnew'
  BY <1>2 DEF WindowInv, ArmedAnew, ArmedForStart
<1> QED
  BY <1>3, <1>4, <1>5, <1>6

\* Every step keeps the invariant, one case per action.
LEMMA WindowNext ==
    ASSUME PromptHandlers, WindowInv, [Next]_vars
    PROVE  WindowInv'
<1>1. TypeOK /\ TypeOK'
  BY NextType DEF WindowInv
<1>2. /\ now \in Nat /\ loop_now \in Nat /\ loop_now <= now /\ since \in Nat /\ since <= now
      /\ WindowDue # Off => WindowDue \in Nat
      /\ WindowDue = Off <=> sending
      /\ EndDue # Off => EndDue \in Nat
      /\ Off \notin Nat
  BY <1>1 DEF TypeOK, WindowDue, EndDue, Timer, Off
<1>3. ~sending /\ closing /\ EndDue # Off => ~Expired("discovery_window")
  BY <1>1, <1>2 DEF WindowInv, EndArmedFirst, Expired, WindowDue
<1>4. CASE Tick
  <2>1. /\ now' = now + 1
        /\ WindowDue # Off => now < WindowDue + Latency
        /\ EndDue # Off => now < EndDue + Latency
        /\ sending => now < since + MaxSend
        /\ UNCHANGED <<loop_now, timer, WindowDue, EndDue, sending, closing, since, untouched>>
    BY <1>4 DEF Tick, Timer, WindowDue, EndDue
  <2>2. ArmedInTime'
    BY <1>2, <2>1, Lengths, Prompt DEF WindowInv, ArmedInTime
  <2>3. SendingInWindow'
    BY <1>2, <2>1, Prompt DEF WindowInv, SendingInWindow
  <2>4. ArmedForNext' /\ ArmedAnew'
    BY <2>1 DEF WindowInv, ArmedForNext, ArmedAnew, ArmedForStart
  <2>5. EndArmedFirst'
    BY <1>2, <2>1, Prompt DEF WindowInv, EndArmedFirst
  <2> QED
    BY <1>1, <2>2, <2>3, <2>4, <2>5 DEF WindowInv
<1>5. CASE Wake
  <2>1. /\ loop_now' = now /\ ~sending
        /\ UNCHANGED <<now, timer, WindowDue, EndDue, sending, closing, since, untouched>>
    BY <1>5 DEF Wake, WindowDue, EndDue
  <2>2. ArmedInTime' /\ SendingInWindow' /\ ArmedForNext' /\ ArmedAnew'
    BY <2>1, WindowFrame
  <2>3. EndArmedFirst'
    BY <2>1 DEF WindowInv, EndArmedFirst
  <2> QED
    BY <1>1, <2>2, <2>3 DEF WindowInv
<1>6. CASE SendDiscoveryBeacon
  <2>1. /\ timer' = timer \/ timer' = nan_timer_set_last_discovery_beacon(timer, now)
        /\ WindowDue' = WindowDue /\ EndDue' = EndDue
        /\ UNCHANGED <<now, loop_now, sending, closing, since, untouched>>
    BY <1>1, <1>6 DEF SendDiscoveryBeacon, Rearmed, TypeOK, Timer, WindowDue, EndDue
  <2>2. ArmedInTime' /\ SendingInWindow' /\ ArmedForNext' /\ ArmedAnew'
    BY <2>1, WindowFrame
  <2>3. EndArmedFirst'
    BY <2>1 DEF WindowInv, EndArmedFirst
  <2> QED
    BY <1>1, <2>2, <2>3 DEF WindowInv
<1>7. CASE AwaitWindow
  <2>1. /\ Expired("discovery_window") /\ ~sending
        /\ UNCHANGED <<now, loop_now, timer, sending, closing, since, untouched>>
        /\ WindowDue' = loop_now + nan_timer_next_dw(timer, now)
        /\ EndDue' = EndDue
    BY <1>1, <1>7 DEF AwaitWindow, Expired, Rearmed, TypeOK, Timer, WindowDue, EndDue
  <2>2. ArmedInTime'
    <3>1. nan_timer_next_dw(timer, now) \in Nat /\ nan_timer_next_dw(timer, now) > 0
          /\ nan_timer_next_dw(timer, now) <= IntervalUsec
      BY <1>1, NextDwIsLater, WindowFacts DEF TypeOK
    <3>2. now <= loop_now + Latency
      BY <2>1, HandlerTime
    <3> QED
      BY <1>2, <2>1, <3>1, <3>2, Prompt, Lengths DEF ArmedInTime
  <2>3. ArmedForNext' /\ ArmedAnew'
    BY <1>7, <2>1, AwaitForNext, AwaitAnew DEF ArmedForNext, ArmedAnew
  <2>4. SendingInWindow' /\ EndArmedFirst'
    BY <1>3, <2>1 DEF SendingInWindow, EndArmedFirst
  <2> QED
    BY <1>1, <2>2, <2>3, <2>4 DEF WindowInv
<1>8. CASE OpenWindow
  <2>1. /\ Expired("discovery_window") /\ ~sending /\ nan_timer_in_dw(timer, now)
        /\ sending' /\ untouched' /\ since' = now
        /\ UNCHANGED <<now, loop_now, timer, closing>>
        /\ EndDue' = EndDue
    BY <1>1, <1>8 DEF OpenWindow, Expired, TypeOK, Timer, EndDue
  <2>2. SendingInWindow'
    <3>1. now <= loop_now + Latency
      BY <2>1, HandlerTime
    <3> QED
      BY <1>2, <2>1, <3>1, Prompt DEF SendingInWindow
  <2>3. ArmedInTime' /\ ArmedForNext' /\ ArmedAnew'
    BY <2>1 DEF ArmedInTime, ArmedForNext, ArmedAnew
  <2>4. EndArmedFirst'
    BY <1>3, <2>1 DEF EndArmedFirst
  <2> QED
    BY <1>1, <2>2, <2>3, <2>4 DEF WindowInv
<1>9. CASE FinishWindow
  <2>1. ~sending' /\ untouched'
    BY <1>9 DEF FinishWindow, WindowInv, SendingInWindow
  <2>2. SendingInWindow' /\ ArmedAnew'
    BY <2>1 DEF SendingInWindow, ArmedAnew
  <2> QED
    BY <1>1, <1>9, <2>2, FinishArms DEF WindowInv
<1>10. CASE EndWindow
  <2>1. /\ WindowDue' = WindowDue /\ EndDue' = Off
        /\ UNCHANGED <<now, loop_now, timer, sending, closing, since, untouched>>
    BY <1>1, <1>10 DEF EndWindow, TypeOK, Timer, WindowDue, EndDue
  <2>2. ArmedInTime' /\ SendingInWindow' /\ ArmedForNext' /\ ArmedAnew'
    BY <2>1, WindowFrame
  <2>3. EndArmedFirst'
    BY <2>1 DEF EndArmedFirst, Off
  <2> QED
    BY <1>1, <2>2, <2>3 DEF WindowInv
<1>11. CASE Receive
  <2>1. /\ ~sending /\ since' = now /\ ~untouched'
        /\ WindowDue' = WindowDue /\ EndDue' = EndDue
        /\ UNCHANGED <<now, loop_now, sending, closing>>
    BY <1>11 DEF Receive, WindowDue, EndDue
  <2>2. ArmedInTime'
    BY <1>2, <2>1, Prompt DEF WindowInv, ArmedInTime
  <2>3. ArmedAnew'
    BY <2>1 DEF WindowInv, ArmedInTime, ArmedAnew
  <2>4. SendingInWindow' /\ ArmedForNext' /\ EndArmedFirst'
    BY <2>1 DEF WindowInv, SendingInWindow, ArmedForNext, EndArmedFirst
  <2> QED
    BY <1>1, <2>2, <2>3, <2>4 DEF WindowInv
<1>12. CASE UNCHANGED vars
  <2>1. UNCHANGED <<now, loop_now, timer, sending, closing, since, untouched,
                    WindowDue, EndDue>>
    BY <1>12 DEF vars, WindowDue, EndDue
  <2>2. ArmedInTime' /\ SendingInWindow' /\ ArmedForNext' /\ ArmedAnew'
    BY <2>1, WindowFrame
  <2>3. EndArmedFirst'
    BY <2>1 DEF WindowInv, EndArmedFirst
  <2> QED
    BY <1>1, <2>2, <2>3 DEF WindowInv
<1> QED
  BY <1>4, <1>5, <1>6, <1>7, <1>8, <1>9, <1>10, <1>11, <1>12 DEF Next, Handler

\* The invariant holds in every reachable state.
LEMMA WindowInvariant ==
    ASSUME PromptHandlers
    PROVE  Spec => []WindowInv
<1>1. WindowInv /\ [Next]_vars => WindowInv'
  BY WindowNext
<1> QED
  BY <1>1, WindowInit, PTL DEF Spec

\* However the timer is armed, it expires within two intervals of the last
\* window or the last change of the clock.
LEMMA WindowInvResumes ==
    ASSUME PromptHandlers, WindowInv
    PROVE  WindowsResume
<1>1. /\ timer \in TimerState /\ now \in Nat /\ since \in Nat /\ since <= now
  BY DEF WindowInv, TypeOK
<1>2. TU_TO_USEC(2 * DwIntervalTu) = 2 * IntervalUsec
  <2>1. \A a, n \in Nat : (2 * a) * n = 2 * (a * n)
    BY SMT
  <2> QED
    BY <2>1, TimerAssumption DEF TU_TO_USEC, IntervalUsec
<1>3. IntervalUsec \in Nat /\ MaxSend <= IntervalUsec /\ UsecPerTu <= IntervalUsec
      /\ UsecPerTu \in Nat /\ MaxSend \in Nat /\ Latency \in Nat
  BY Lengths, Prompt
<1>4. CASE sending \/ now <= since + MaxSend
  <2>1. now <= since + MaxSend
    BY <1>4 DEF WindowInv, SendingInWindow
  <2> QED
    BY <1>1, <1>2, <1>3, <2>1 DEF WindowsResume
<1>5. CASE ~sending /\ now <= WindowDue + Latency
  <2>1. WindowDue \in Nat
    BY <1>5 DEF WindowInv, TypeOK, WindowDue, Timer, Off
  <2>2. WindowDue <= since + 2 * IntervalUsec
    <3>1. CASE untouched
      <4> DEFINE k == Interval(timer, since)
      <4>1. WindowStart(timer, k) \in Int /\ WindowStart(timer, k) <= since
        BY <1>1, WindowFacts
      <4>2. WindowDue < WindowStart(timer, k) + IntervalUsec + UsecPerTu
        BY <1>5, <3>1 DEF WindowInv, ArmedForNext
      <4> HIDE DEF k
      <4> QED
        BY <1>1, <1>3, <2>1, <4>1, <4>2
    <3>2. CASE WindowDue <= since + IntervalUsec
      BY <1>1, <1>3, <2>1, <3>2
    <3>3. CASE \E j \in Int : ArmedForStart(j)
      <4>1. PICK j \in Int : ArmedForStart(j)
        BY <3>3
      <4>2. WindowStart(timer, j) \in Int
        BY <1>1, NextStart
      <4> QED
        BY <1>1, <1>3, <2>1, <4>1, <4>2 DEF ArmedForStart
    <3> QED
      BY <1>5, <3>1, <3>2, <3>3 DEF WindowInv, ArmedAnew
  <2> QED
    BY <1>1, <1>2, <1>3, <1>5, <2>1, <2>2 DEF WindowsResume
<1> QED
  BY <1>4, <1>5 DEF WindowInv, ArmedInTime

(***************************************************************************)
(* Prompt handlers are never without a window for longer than two          *)
(* intervals, whatever the received beacons do to the clock and however    *)
(* often (nan_rx_beacon rearms nothing).                                   *)
(***************************************************************************)
THEOREM WindowsAlwaysResume ==
    ASSUME PromptHandlers
    PROVE  Spec => []WindowsResume
<1>1. WindowInv => WindowsResume
  BY WindowInvResumes
<1> QED
  BY <1>1, WindowInvariant, PTL

(***************************************************************************)
(* Prompt handlers open each window once, while the clock is left alone    *)
(* (nan_handle_discovery_window).                                          *)
(***************************************************************************)
THEOREM EveryWindowIsOpenedOnce ==
    ASSUME PromptHandlers
    PROVE  Spec => OpensEveryWindowOnce
<1>1. WindowInv /\ [Next]_vars
          => [ OpenWindow /\ untouched
                   => Interval(timer, now) = Interval(timer, since) + 1 ]_vars
  BY NextWindow DEF OpenWindow
<1> QED
  BY <1>1, WindowInvariant, PTL DEF Spec, OpensEveryWindowOnce

(***************************************************************************)
(* Prompt handlers end a window before they open the next one, wherever    *)
(* the received beacons move it, unless they finished it in its last time  *)
(* unit or later (nan_timer_dw_end_usec).                                  *)
(***************************************************************************)
THEOREM WindowsEndBeforeTheNext ==
    ASSUME PromptHandlers
    PROVE  Spec => EndsBeforeNext
<1>1. WindowInv /\ [Next]_vars
          => [ OpenWindow /\ due["discovery_window_end"] # Off => ~closing ]_vars
  <2> SUFFICES ASSUME WindowInv, OpenWindow, EndDue # Off, closing
               PROVE  FALSE
    BY DEF EndDue
  <2>1. now < WindowDue
    BY DEF WindowInv, EndArmedFirst
  <2>2. /\ WindowDue <= loop_now /\ loop_now <= now /\ loop_now \in Nat /\ now \in Nat
        /\ WindowDue \in Nat
    BY DEF OpenWindow, Expired, WindowDue, WindowInv, TypeOK, Timer
  <2> QED
    BY <2>1, <2>2
<1> QED
  BY <1>1, WindowInvariant, PTL DEF Spec, EndsBeforeNext
=============================================================================
