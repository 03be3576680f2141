------------------------------- MODULE NanTimer -------------------------------
(***************************************************************************)
(* The clock of a device (src/src/timer.c, src/src/moving_average.h): its  *)
(* base time, which makes its synced time, the average of the errors       *)
(* observed against the anchor master's beacons, which corrects it, and    *)
(* what is computed from both: whether a discovery window is on, when the  *)
(* next one starts, when this one ends, when to beacon again.              *)
(*                                                                         *)
(* A timer state t is a record, now the monotonic clock; both count        *)
(* microseconds, UsecPerTu to a time unit.  The program computes in        *)
(* uint64_t: 2^64 is a multiple of an interval, so that a difference that  *)
(* wraps below zero has the remainder of the integer used here.            *)
(*                                                                         *)
(* The initial scan counts as done from the start (nan_timer_state_init),  *)
(* and nothing calls the warmup and DW0 functions: both are left out.      *)
(***************************************************************************)
EXTENDS Integers

CONSTANTS
    UsecPerTu,          \* 1024
    DwLengthTu,         \* NAN_DW_LENGTH_TU
    DwIntervalTu,       \* NAN_DW_INTERVAL_TU
    BeaconIntervalTu,   \* NAN_DISCOVERY_BEACON_INTERVAL_TU
    AverageSize,        \* entries of the moving average
    IntRange            \* 2^32, the values of an int

ASSUME TimerAssumption ==
    /\ UsecPerTu \in Nat \ {0}
    /\ DwLengthTu \in Nat
    /\ DwIntervalTu \in Nat
    /\ DwLengthTu < DwIntervalTu
    /\ BeaconIntervalTu \in Nat \ {0}
    /\ AverageSize \in Nat \ {0}
    /\ IntRange \in Nat \ {0}

TU_TO_USEC(tu) == tu * UsecPerTu

USEC_TO_TU(usec) == usec \div UsecPerTu

\* struct nan_timer_state
TimerState ==
    [ base_time : Int,
      last_discovery_beacon : Nat,
      average_error : Int,
      errors : [0 .. AverageSize - 1 -> Int],
      position : 0 .. AverageSize - 1,
      full : BOOLEAN ]

nan_timer_state_init(now) ==
    [ base_time |-> now,
      last_discovery_beacon |-> 0,
      average_error |-> 0,
      errors |-> [ i \in 0 .. AverageSize - 1 |-> 0 ],
      position |-> 0,
      full |-> FALSE ]

----------------------------------------------------------------------------
(* The clock. *)

nan_timer_get_synced_time(t, now) == now - t.base_time

nan_timer_get_fixed_time(t, now) == now - t.base_time - t.average_error

nan_timer_get_fixed_time_tu(t, now) == USEC_TO_TU(nan_timer_get_fixed_time(t, now))

nan_timer_sync_time(t, now, timestamp) ==
    [ t EXCEPT !.base_time = @ + (nan_timer_get_synced_time(t, now) - timestamp) ]

\* Division of ints in C: towards zero.
Quotient(a, b) == IF a >= 0 THEN a \div b ELSE -((-a) \div b)

\* Mutant: the new entry is not counted.
OneTooFew(t, value) ==
    IF t.full \/ t.position = 0
    THEN t.average_error + Quotient(value - t.errors[t.position], AverageSize)
    ELSE Quotient(t.average_error * t.position + value, t.position)

\* The new average, from the old one and the entry that is replaced.
NextAverage(t, value) ==
    IF t.full
    THEN t.average_error + Quotient(value - t.errors[t.position], AverageSize)
    ELSE Quotient(t.average_error * t.position + value, t.position + 1)

\* Mutant: the position does not return to the start.
AddWithoutWrap(t, value) ==
    [ t EXCEPT !.average_error = NextAverage(t, value),
               !.errors[t.position] = value,
               !.position = @ + 1,
               !.full = @ \/ t.position = AverageSize - 1 ]

moving_average_add(t, value) ==
    [ t EXCEPT !.average_error = NextAverage(t, value),
               !.errors[t.position] = value,
               !.position = (@ + 1) % AverageSize,
               !.full = @ \/ t.position = AverageSize - 1 ]

\* Conversion to an int.
ToInt(n) ==
    IF n % IntRange < IntRange \div 2 THEN n % IntRange ELSE (n % IntRange) - IntRange

\* A clock that is off by the range of an int seems to be right.
Error(t, now, timestamp) == ToInt(nan_timer_get_synced_time(t, now) - timestamp)

TooLarge(error) ==
    \/ error > TU_TO_USEC(DwIntervalTu)
    \/ -error > TU_TO_USEC(DwIntervalTu)

nan_timer_sync_error(t, now, timestamp) ==
    IF TooLarge(Error(t, now, timestamp))
    THEN t
    ELSE moving_average_add(t, Error(t, now, timestamp))

----------------------------------------------------------------------------
(* Discovery windows. *)

\* The last time unit counts: a window is DwLengthTu + 1 of them.
nan_timer_in_dw(t, now) ==
    nan_timer_get_fixed_time_tu(t, now) % DwIntervalTu <= DwLengthTu

\* Mutant: the distance to the window that is on is taken.
ThisDw(t, now) ==
    TU_TO_USEC((DwIntervalTu - (nan_timer_get_fixed_time_tu(t, now) % DwIntervalTu))
                   % DwIntervalTu)

\* Mutant: windows are an interval apart, wherever this one was.
WholeInterval(t, now) == TU_TO_USEC(DwIntervalTu)

nan_timer_next_dw(t, now) ==
    TU_TO_USEC(DwIntervalTu - (nan_timer_get_fixed_time_tu(t, now) % DwIntervalTu))

\* Mutant: the end of the window is taken for a distance from the next one.
EndOfNextDw(t, now) == nan_timer_next_dw(t, now) + TU_TO_USEC(DwLengthTu)

\* Within a window, the next start of one as seen DwLengthTu earlier: what is
\* left of the window, but a whole interval in its last time unit.
nan_timer_dw_end(t, now) ==
    IF nan_timer_in_dw(t, now)
    THEN nan_timer_next_dw(t, now - TU_TO_USEC(DwLengthTu))
    ELSE nan_timer_next_dw(t, now) + TU_TO_USEC(DwLengthTu)

----------------------------------------------------------------------------
(* Discovery beacons. *)

nan_timer_can_send_discovery_beacon(t, now) ==
    now - t.last_discovery_beacon >= TU_TO_USEC(BeaconIntervalTu)

\* Mutant: the point in time instead of the distance to it.
BeaconTime(t, now) ==
    IF nan_timer_can_send_discovery_beacon(t, now)
    THEN 0
    ELSE now + TU_TO_USEC(BeaconIntervalTu)

\* Mutant: the wait is over as soon as it starts.
NoWait(t, now) == 0

\* The time since the last beacon is added to the interval, not taken from it.
nan_timer_next_discovery_beacon(t, now) ==
    IF nan_timer_can_send_discovery_beacon(t, now)
    THEN 0
    ELSE now - t.last_discovery_beacon + TU_TO_USEC(BeaconIntervalTu)

nan_timer_set_last_discovery_beacon(t, time) == [ t EXCEPT !.last_discovery_beacon = time ]
=============================================================================
