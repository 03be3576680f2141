---------------------------- MODULE CircularBuffer ----------------------------
(***************************************************************************)
(* The buffer of follow-up frames (src/src/circular_buffer.c): an array of *)
(* Capacity pointers, the index head to write at, the index tail to read   *)
(* at, and a flag to tell full from empty when the two are equal.          *)
(***************************************************************************)
EXTENDS Integers, Sequences

CONSTANTS Data, NoData, Capacity

ASSUME CapacityAssumption == Capacity \in Nat \ {0}

VARIABLES
    buffer, head, tail, full,   \* struct circular_buf, less its capacity
    result                      \* what the last call returned

cbuf == <<buffer, head, tail, full>>
vars == <<cbuf, result>>

Index == 0 .. Capacity - 1

Returned(code, data) == [code |-> code, data |-> data]

circular_buf_full == full
circular_buf_empty == ~full /\ head = tail

circular_buf_size ==
    IF circular_buf_full THEN Capacity
    ELSE IF head >= tail THEN head - tail
    ELSE Capacity + head - tail

\* The array is not initialised; NoData stands for what is found there.
Init ==
    /\ buffer = [ i \in Index |-> NoData ]
    /\ head = 0 /\ tail = 0 /\ full = FALSE
    /\ result = Returned(0, NoData)

\* Mutant: the tail stays behind when a full buffer is written to.
AdvanceHeadOnly ==
    /\ head' = (head + 1) % Capacity
    /\ tail' = tail
    /\ full' = (head' = tail')

\* Mutant: head runs out of the array.
AdvanceUnwrapped ==
    /\ head' = head + 1
    /\ tail' = IF full THEN (tail + 1) % Capacity ELSE tail
    /\ full' = (head' = tail')

advance_pointer ==
    /\ head' = (head + 1) % Capacity
    /\ tail' = IF full THEN (tail + 1) % Capacity ELSE tail
    /\ full' = (head' = tail')

retreat_pointer ==
    /\ tail' = (tail + 1) % Capacity
    /\ full' = FALSE
    /\ UNCHANGED head

circular_buf_reset ==
    /\ head' = 0 /\ tail' = 0 /\ full' = FALSE
    /\ result' = Returned(0, NoData)
    /\ UNCHANGED buffer

circular_buf_put_override(data) ==
    /\ buffer' = [ buffer EXCEPT ![head] = data ]
    /\ advance_pointer
    /\ result' = Returned(0, NoData)

circular_buf_put(data) ==
    IF circular_buf_full
    THEN result' = Returned(-1, NoData) /\ UNCHANGED cbuf
    ELSE circular_buf_put_override(data)

circular_buf_get(peek) ==
    IF circular_buf_empty
    THEN result' = Returned(-1, NoData) /\ UNCHANGED cbuf
    ELSE /\ result' = Returned(0, buffer[tail])
         /\ IF peek THEN UNCHANGED cbuf ELSE retreat_pointer /\ UNCHANGED buffer

Truth(condition) == IF condition THEN 1 ELSE 0

\* The three questions a caller may ask.
Ask ==
    /\ result' \in { Returned(circular_buf_size, NoData),
                     Returned(Truth(circular_buf_empty), NoData),
                     Returned(Truth(circular_buf_full), NoData) }
    /\ UNCHANGED cbuf

Next ==
    \/ \E data \in Data : circular_buf_put(data) \/ circular_buf_put_override(data)
    \/ \E peek \in BOOLEAN : circular_buf_get(peek)
    \/ circular_buf_reset
    \/ Ask

Spec == Init /\ [][Next]_vars

----------------------------------------------------------------------------
(* Properties. *)

(***************************************************************************)
(* Both indices stay in the array, and the buffer is full only where they  *)
(* meet (advance_pointer, retreat_pointer).                                *)
(***************************************************************************)
TypeOK ==
    /\ buffer \in [Index -> Data \cup {NoData}]
    /\ head \in Index /\ tail \in Index
    /\ full \in BOOLEAN
    /\ full => head = tail

\* The stored items from tail on, around the end of the array.
Contents == [ i \in 1 .. circular_buf_size |-> buffer[(tail + i - 1) % Capacity] ]

Q == INSTANCE BoundedQueue WITH queue <- Contents

(***************************************************************************)
(* Every call does to the stored items, and returns, what it would on a    *)
(* bounded first-in first-out queue (circular_buffer.h): no item is lost,  *)
(* doubled or overtaken where the indices wrap.                            *)
(***************************************************************************)
ImplementsQueue == Q!Spec
=============================================================================
