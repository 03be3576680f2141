----------------------------- MODULE BoundedQueue -----------------------------
(***************************************************************************)
(* What circular_buffer.h promises: a first-in first-out queue of at most  *)
(* Capacity items.  A put into a full queue is refused, unless it is the   *)
(* overriding one, which drops the oldest item.                            *)
(***************************************************************************)
EXTENDS Integers, Sequences

CONSTANTS
    Data,       \* what is stored
    NoData,     \* the NULL pointer
    Capacity    \* how many items fit: 16 in the program

VARIABLES
    queue,      \* the items, oldest first
    result      \* what the last call returned and wrote through its pointer

vars == <<queue, result>>

Returned(code, data) == [code |-> code, data |-> data]

Init == queue = <<>> /\ result = Returned(0, NoData)

Put(d) ==
    /\ Len(queue) < Capacity
    /\ queue' = Append(queue, d)
    /\ result' = Returned(0, NoData)

RefusedPut ==
    /\ Len(queue) = Capacity
    /\ result' = Returned(-1, NoData)
    /\ UNCHANGED queue

PutOverride(d) ==
    /\ queue' = Append(IF Len(queue) = Capacity THEN Tail(queue) ELSE queue, d)
    /\ result' = Returned(0, NoData)

Get(peek) ==
    /\ queue # <<>>
    /\ queue' = IF peek THEN queue ELSE Tail(queue)
    /\ result' = Returned(0, Head(queue))

RefusedGet ==
    /\ queue = <<>>
    /\ result' = Returned(-1, NoData)
    /\ UNCHANGED queue

Reset == queue' = <<>> /\ result' = Returned(0, NoData)

Truth(condition) == IF condition THEN 1 ELSE 0

Ask ==
    /\ result' \in { Returned(Len(queue), NoData),
                     Returned(Truth(queue = <<>>), NoData),
                     Returned(Truth(Len(queue) = Capacity), NoData) }
    /\ UNCHANGED queue

Next ==
    \/ \E d \in Data : Put(d) \/ PutOverride(d)
    \/ \E peek \in BOOLEAN : Get(peek)
    \/ RefusedPut \/ RefusedGet
    \/ Reset
    \/ Ask

Spec == Init /\ [][Next]_vars
=============================================================================
