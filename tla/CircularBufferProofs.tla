------------------------- MODULE CircularBufferProofs -------------------------
(***************************************************************************)
(* The circular buffer is a bounded queue, for every capacity and every    *)
(* set of items.  The contents are written as a function of the array, the *)
(* tail and the size, so that the lemmas apply before and after a step.    *)
(***************************************************************************)
EXTENDS CircularBuffer, SequenceTheorems, TLAPS

Item == Data \cup {NoData}

\* The n items from index t on.
ItemsOf(b, t, n) == [ i \in 1 .. n |-> b[(t + i - 1) % Capacity] ]

Valid(b, t, n) == b \in [Index -> Item] /\ t \in Index /\ n \in 0 .. Capacity

\* Where the i-th item lies.
At(t, i) == IF t + i - 1 < Capacity THEN t + i - 1 ELSE t + i - 1 - Capacity

\* The index after i.
After(i) == IF i + 1 = Capacity THEN 0 ELSE i + 1

----------------------------------------------------------------------------
(* Indices. *)

(***************************************************************************)
(* An index that has run past the end of the array once is wrapped once.   *)
(***************************************************************************)
LEMMA Wrap ==
    ASSUME NEW i \in Nat, i < 2 * Capacity
    PROVE  i % Capacity = IF i < Capacity THEN i ELSE i - Capacity
BY CapacityAssumption, SMTT(60)

\* The index after another is advance_pointer of it.
LEMMA AfterIsNext ==
    ASSUME NEW i \in Index
    PROVE  (i + 1) % Capacity = After(i) /\ After(i) \in Index
<1> DEFINE j == i + 1
<1>1. j \in Nat /\ j < 2 * Capacity
  BY CapacityAssumption DEF Index
<1> HIDE DEF j
<1>2. j % Capacity = IF j < Capacity THEN j ELSE j - Capacity
  BY <1>1, Wrap
<1> USE DEF j
<1> QED
  BY <1>2, CapacityAssumption DEF Index, After

\* The items in the array from the tail on are a sequence of their number.
LEMMA ItemsFacts ==
    ASSUME NEW b, NEW t, NEW n, Valid(b, t, n)
    PROVE  /\ ItemsOf(b, t, n) \in Seq(Item)
           /\ Len(ItemsOf(b, t, n)) = n
           /\ \A i \in 1 .. n : At(t, i) \in Index /\ ItemsOf(b, t, n)[i] = b[At(t, i)]
<1> DEFINE items == ItemsOf(b, t, n)
<1>1. n \in 0 .. Capacity
  BY DEF Valid
<1>2. ASSUME NEW i \in 1 .. n
      PROVE  (t + i - 1) % Capacity = At(t, i) /\ At(t, i) \in Index
  <2> DEFINE j == t + i - 1
  <2>1. j \in Nat /\ j < 2 * Capacity
    BY <1>1, CapacityAssumption DEF Valid, Index
  <2> HIDE DEF j
  <2>2. j % Capacity = IF j < Capacity THEN j ELSE j - Capacity
    BY <2>1, Wrap
  <2>3. j = t + i - 1 /\ At(t, i) = IF j < Capacity THEN j ELSE j - Capacity
    BY <1>1, CapacityAssumption DEF At, j, Valid, Index
  <2>4. At(t, i) \in Index
    BY <1>1, CapacityAssumption DEF Valid, Index, At
  <2> QED
    BY <2>2, <2>3, <2>4
<1>3. items = [ i \in 1 .. n |-> b[At(t, i)] ]
  BY <1>2 DEF ItemsOf
<1>4. \A i \in 1 .. n : b[At(t, i)] \in Item
  BY <1>2 DEF Valid
<1> HIDE DEF items
<1>5. items \in Seq(Item) /\ Len(items) = n
  BY <1>1, <1>3, <1>4
<1> QED
  BY <1>2, <1>3, <1>5 DEF items

----------------------------------------------------------------------------
(* What a write behind the last item and a read of the first one do. *)

\* A write after the last item appends to the items.
LEMMA AppendItem ==
    ASSUME NEW b, NEW t, NEW n, Valid(b, t, n), n < Capacity, NEW d \in Data,
           NEW h, h = At(t, n + 1),
           NEW b2, b2 \in [Index -> Item], b2[h] = d,
           \A i \in Index : i # h => b2[i] = b[i],
           NEW m, m = n + 1
    PROVE  ItemsOf(b2, t, m) = Append(ItemsOf(b, t, n), d)
<1> DEFINE old == ItemsOf(b, t, n)
           new == ItemsOf(b2, t, m)
<1>1. n \in Nat /\ n + 1 \in 0 .. Capacity /\ t \in Index
  BY CapacityAssumption DEF Valid
<1>2. h \in Index /\ \A i \in 1 .. n : At(t, i) # h
  BY <1>1, CapacityAssumption DEF Index, At
<1>3. Valid(b2, t, m)
  BY <1>1, <1>2 DEF Valid, Item
<1>4. /\ old \in Seq(Item) /\ Len(old) = n
      /\ \A i \in 1 .. n : At(t, i) \in Index /\ old[i] = b[At(t, i)]
  BY ItemsFacts
<1>5. /\ new \in Seq(Item) /\ Len(new) = m
      /\ \A i \in 1 .. m : At(t, i) \in Index /\ new[i] = b2[At(t, i)]
  BY ONLY <1>3, ItemsFacts
<1> HIDE DEF old, new
<1>6. \A i \in 1 .. n : new[i] = old[i]
  BY <1>1, <1>2, <1>4, <1>5 DEF Valid
<1>7. new[n + 1] = d
  BY <1>1, <1>2, <1>5 DEF Valid
<1>8. /\ Append(old, d) \in Seq(Item) /\ Len(Append(old, d)) = n + 1
      /\ \A i \in 1 .. n + 1 : Append(old, d)[i] = IF i = n + 1 THEN d ELSE old[i]
  BY <1>1, <1>4 DEF Item
<1>9. \A i \in 1 .. n + 1 : new[i] = Append(old, d)[i]
  BY <1>1, <1>6, <1>7, <1>8
<1>10. new = Append(old, d)
  BY <1>5, <1>8, <1>9, SeqEqual
<1> QED
  BY <1>10 DEF old, new

\* Moving the tail drops the first item, and no other.
LEMMA DropItem ==
    ASSUME NEW b, NEW t, NEW n, Valid(b, t, n), n > 0
    PROVE  /\ Valid(b, After(t), n - 1)
           /\ ItemsOf(b, t, n) # <<>>
           /\ ItemsOf(b, After(t), n - 1) = Tail(ItemsOf(b, t, n))
           /\ b[t] = Head(ItemsOf(b, t, n))
<1> DEFINE old == ItemsOf(b, t, n)
           new == ItemsOf(b, After(t), n - 1)
<1>1. n \in Nat /\ n - 1 \in 0 .. Capacity /\ t \in Index
  BY CapacityAssumption DEF Valid
<1>2. Valid(b, After(t), n - 1)
  BY <1>1, AfterIsNext DEF Valid
<1>3. /\ old \in Seq(Item) /\ Len(old) = n
      /\ \A i \in 1 .. n : At(t, i) \in Index /\ old[i] = b[At(t, i)]
  BY ItemsFacts
<1>4. /\ new \in Seq(Item) /\ Len(new) = n - 1
      /\ \A i \in 1 .. n - 1 : At(After(t), i) \in Index /\ new[i] = b[At(After(t), i)]
  BY <1>2, ItemsFacts
<1>5. \A i \in 1 .. n - 1 : At(After(t), i) = At(t, i + 1)
  <2> TAKE i \in 1 .. n - 1
  <2>1. /\ i \in Nat /\ i > 0 /\ i < Capacity
        /\ t \in Nat /\ t < Capacity /\ Capacity \in Nat
    BY <1>1, CapacityAssumption DEF Valid, Index
  <2>2. CASE t + 1 = Capacity
    <3>1. At(After(t), i) = i - 1
      BY <2>1, <2>2 DEF At, After
    <3>2. At(t, i + 1) = i - 1
      BY <2>1, <2>2 DEF At
    <3> QED
      BY <3>1, <3>2
  <2>3. CASE t + 1 # Capacity
    BY <2>1, <2>3 DEF At, After
  <2> QED
    BY <2>2, <2>3
<1>6. At(t, 1) = t
  BY <1>1, CapacityAssumption DEF Index, At
<1> HIDE DEF old, new
<1>7. old # <<>>
  BY <1>1, <1>3, EmptySeq
<1>8. Head(old) = b[t]
  BY <1>1, <1>3, <1>6, <1>7
<1>9. /\ Tail(old) \in Seq(Item) /\ Len(Tail(old)) = n - 1
      /\ \A i \in 1 .. n - 1 : Tail(old)[i] = old[i + 1]
  BY <1>3, <1>7, HeadTailProperties
<1>10. \A i \in 1 .. n - 1 : new[i] = Tail(old)[i]
  BY <1>1, <1>3, <1>4, <1>5, <1>9
<1>11. new = Tail(old)
  BY <1>4, <1>9, <1>10, SeqEqual
<1> QED
  BY <1>2, <1>7, <1>8, <1>11 DEF old, new

----------------------------------------------------------------------------
(* Every step of the buffer is a step of the queue. *)

\* The size, and the index written to, in the terms of the lemmas.
LEMMA BufferFacts ==
    ASSUME TypeOK
    PROVE  /\ Valid(buffer, tail, circular_buf_size)
           /\ circular_buf_size = Capacity <=> circular_buf_full
           /\ circular_buf_size = 0 <=> circular_buf_empty
           /\ ~circular_buf_full => head = At(tail, circular_buf_size + 1)
           /\ Contents = ItemsOf(buffer, tail, circular_buf_size)
           /\ Contents \in Seq(Item)
           /\ Len(Contents) = circular_buf_size
           /\ Contents = <<>> <=> circular_buf_size = 0
<1>1. /\ circular_buf_size \in 0 .. Capacity
      /\ circular_buf_size = Capacity <=> circular_buf_full
      /\ circular_buf_size = 0 <=> circular_buf_empty
      /\ ~circular_buf_full => head = At(tail, circular_buf_size + 1)
  BY CapacityAssumption DEF TypeOK, Index, circular_buf_size, circular_buf_full,
                            circular_buf_empty, At
<1>2. Valid(buffer, tail, circular_buf_size)
  BY <1>1 DEF TypeOK, Valid, Item
<1>3. Contents = ItemsOf(buffer, tail, circular_buf_size)
  BY DEF Contents, ItemsOf
<1>4. Contents \in Seq(Item) /\ Len(Contents) = circular_buf_size
  BY <1>2, <1>3, ItemsFacts
<1> QED
  BY <1>1, <1>2, <1>3, <1>4, EmptySeq

\* Writing an item at the head appends it, in place of the oldest if there is no room.
LEMMA WriteStep ==
    ASSUME TypeOK, NEW d \in Data,
           buffer' = [ buffer EXCEPT ![head] = d ], advance_pointer
    PROVE  /\ TypeOK'
           /\ Contents' = Append(IF Len(Contents) = Capacity THEN Tail(Contents) ELSE Contents, d)
<1> DEFINE n == circular_buf_size
           n2 == circular_buf_size'
<1>1. /\ head' = After(head)
      /\ tail' = IF full THEN After(tail) ELSE tail
      /\ full' = (head' = tail')
  BY AfterIsNext DEF advance_pointer, TypeOK
<1>2. TypeOK'
  BY <1>1, AfterIsNext DEF TypeOK
<1>3. Contents' = ItemsOf(buffer', tail', n2)
  BY DEF Contents, ItemsOf
<1>4. buffer' \in [Index -> Item] /\ buffer'[head] = d
      /\ \A i \in Index : i # head => buffer'[i] = buffer[i]
  BY DEF TypeOK, Item
<1>5. CASE ~full
  <2>1. tail' = tail /\ (full' <=> After(head) = tail)
    BY <1>1, <1>5
  <2>2. n2 = n + 1 /\ n < Capacity
    <3>1. CASE After(head) = tail
      BY <1>1, <1>5, <2>1, <3>1, CapacityAssumption
         DEF TypeOK, Index, After, circular_buf_size, circular_buf_full
    <3>2. CASE After(head) # tail
      BY <1>1, <1>5, <2>1, <3>2, CapacityAssumption
         DEF TypeOK, Index, After, circular_buf_size, circular_buf_full
    <3> QED
      BY <3>1, <3>2
  <2>3. /\ Valid(buffer, tail, n) /\ head = At(tail, n + 1)
        /\ Contents = ItemsOf(buffer, tail, n) /\ Len(Contents) = n
    BY <1>5, BufferFacts DEF circular_buf_full
  <2> HIDE DEF n, n2
  <2>4. ItemsOf(buffer', tail, n2) = Append(ItemsOf(buffer, tail, n), d)
    BY ONLY <1>4, <2>2, <2>3, d \in Data, AppendItem
  <2>5. Len(Contents) # Capacity
    BY <2>2, <2>3, CapacityAssumption DEF Valid
  <2> QED
    BY <1>2, <1>3, <2>1, <2>3, <2>4, <2>5
<1>6. CASE full
  <2> DEFINE less == Capacity - 1
             more == less + 1
             first == After(tail)
  <2>1. n = Capacity /\ n2 = Capacity /\ tail' = first /\ head = tail
    BY <1>1, <1>6, CapacityAssumption DEF TypeOK, circular_buf_size, circular_buf_full
  <2>2. /\ Valid(buffer, tail, Capacity) /\ Len(Contents) = Capacity
        /\ Contents = ItemsOf(buffer, tail, Capacity)
    BY <2>1, BufferFacts
  <2>3. /\ Valid(buffer, first, less)
        /\ ItemsOf(buffer, first, less) = Tail(Contents)
    BY <2>2, CapacityAssumption, DropItem
  <2>4. head = At(first, less + 1)
    BY <2>1, CapacityAssumption DEF TypeOK, Index, At, After
  <2>5. less < Capacity /\ more = less + 1
    BY CapacityAssumption
  <2>6. Capacity = more
    BY CapacityAssumption
  <2>7. Valid(buffer, first, less)
    BY <2>3
  <2> HIDE DEF less, more, first
  <2>8. ItemsOf(buffer', first, more) = Append(ItemsOf(buffer, first, less), d)
    BY ONLY <1>4, <2>4, <2>5, <2>7, d \in Data, AppendItem
  <2> QED
    BY <1>2, <1>3, <2>1, <2>2, <2>3, <2>6, <2>8
<1> QED
  BY <1>5, <1>6 DEF TypeOK

\* Moving the tail of a buffer that is not empty removes the oldest item.
LEMMA ReadStep ==
    ASSUME TypeOK, ~circular_buf_empty, retreat_pointer, UNCHANGED buffer
    PROVE  /\ TypeOK'
           /\ Contents' = Tail(Contents)
<1> DEFINE n == circular_buf_size
           n2 == circular_buf_size'
           first == After(tail)
<1>1. tail' = first /\ first \in Index /\ full' = FALSE /\ head' = head
  BY AfterIsNext DEF retreat_pointer, TypeOK
<1>2. TypeOK'
  BY <1>1 DEF TypeOK
<1>3. Contents' = ItemsOf(buffer, first, n2)
  BY <1>1 DEF Contents, ItemsOf
<1>4. n2 = n - 1
  BY <1>1, CapacityAssumption
     DEF TypeOK, Index, After, circular_buf_size, circular_buf_full, circular_buf_empty
<1>5. Valid(buffer, tail, n) /\ n > 0 /\ Contents = ItemsOf(buffer, tail, n)
  BY BufferFacts, CapacityAssumption DEF Valid
<1>6. ItemsOf(buffer, first, n - 1) = Tail(ItemsOf(buffer, tail, n))
  BY <1>5, DropItem
<1> HIDE DEF n, n2, first
<1> QED
  BY <1>2, <1>3, <1>4, <1>5, <1>6

\* A reset leaves no items.
LEMMA ResetStep ==
    ASSUME TypeOK, circular_buf_reset
    PROVE  TypeOK' /\ Contents' = <<>>
<1> DEFINE n2 == circular_buf_size'
<1>1. 0 \in Index
  BY CapacityAssumption DEF Index
<1>2. TypeOK'
  BY <1>1 DEF TypeOK, circular_buf_reset
<1>3. n2 = 0
  BY DEF circular_buf_reset, circular_buf_size, circular_buf_full
<1>4. Contents' = ItemsOf(buffer', tail', n2)
  BY DEF Contents, ItemsOf
<1>5. Valid(buffer', tail', n2)
  BY <1>2, <1>3, CapacityAssumption DEF Valid, TypeOK, Item
<1> HIDE DEF n2
<1>6. Contents' \in Seq(Item) /\ Len(Contents') = 0
  BY <1>3, <1>4, <1>5, ItemsFacts
<1> QED
  BY <1>2, <1>6, EmptySeq

\* What leaves the buffer alone leaves its contents alone.
LEMMA SameContents ==
    ASSUME TypeOK, UNCHANGED cbuf
    PROVE  TypeOK' /\ Contents' = Contents
BY DEF cbuf, TypeOK, Contents, circular_buf_size, circular_buf_full

\* Every operation of the buffer is one of the queue, with the same result.
LEMMA StepOfQueue ==
    ASSUME TypeOK, [Next]_vars
    PROVE  TypeOK' /\ [Q!Next]_(Q!vars)
<1>1. /\ Contents \in Seq(Item)
      /\ Len(Contents) = circular_buf_size
      /\ Len(Contents) = Capacity <=> circular_buf_full
      /\ Contents = <<>> <=> circular_buf_empty
  BY BufferFacts
<1>2. ASSUME NEW data \in Data, circular_buf_put_override(data)
      PROVE  /\ TypeOK' /\ Q!PutOverride(data)
             /\ ~circular_buf_full => Q!Put(data)
  <2>1. /\ TypeOK'
        /\ Contents' = Append(IF Len(Contents) = Capacity THEN Tail(Contents)
                              ELSE Contents, data)
    BY <1>2, WriteStep DEF circular_buf_put_override
  <2>2. result' = Q!Returned(0, NoData)
    BY <1>2 DEF circular_buf_put_override, Returned, Q!Returned
  <2>3. ~circular_buf_full => Len(Contents) < Capacity
    BY <1>1, CapacityAssumption
       DEF TypeOK, Index, circular_buf_size, circular_buf_full
  <2> QED
    BY <1>1, <2>1, <2>2, <2>3 DEF Q!PutOverride, Q!Put
<1>3. ASSUME NEW data \in Data, circular_buf_put(data)
      PROVE  TypeOK' /\ (Q!Put(data) \/ Q!RefusedPut)
  <2>1. CASE circular_buf_full
    BY <1>1, <1>3, <2>1, SameContents
       DEF circular_buf_put, Returned, Q!Returned, Q!RefusedPut
  <2>2. CASE ~circular_buf_full
    BY <1>2, <1>3, <2>2 DEF circular_buf_put
  <2> QED
    BY <2>1, <2>2
<1>4. ASSUME NEW peek \in BOOLEAN, circular_buf_get(peek)
      PROVE  TypeOK' /\ (Q!Get(peek) \/ Q!RefusedGet)
  <2>1. CASE circular_buf_empty
    BY <1>1, <1>4, <2>1, SameContents
       DEF circular_buf_get, Returned, Q!Returned, Q!RefusedGet
  <2>2. CASE ~circular_buf_empty
    <3>1. result' = Q!Returned(0, Head(Contents))
      <4>1. Valid(buffer, tail, circular_buf_size) /\ circular_buf_size > 0
        BY <2>2, BufferFacts, CapacityAssumption DEF Valid
      <4>2. buffer[tail] = Head(ItemsOf(buffer, tail, circular_buf_size))
        BY <4>1, DropItem
      <4> QED
        BY <1>4, <2>2, <4>2, BufferFacts DEF circular_buf_get, Returned, Q!Returned
    <3>2. CASE peek
      BY <1>1, <1>4, <2>2, <3>1, <3>2, SameContents DEF circular_buf_get, Q!Get
    <3>3. CASE ~peek
      <4>1. TypeOK' /\ Contents' = Tail(Contents)
        BY <1>4, <2>2, <3>3, ReadStep DEF circular_buf_get
      <4> QED
        BY <1>1, <2>2, <3>1, <3>3, <4>1 DEF Q!Get
    <3> QED
      BY <3>2, <3>3
  <2> QED
    BY <2>1, <2>2
<1>5. ASSUME circular_buf_reset
      PROVE  TypeOK' /\ Q!Reset
  BY <1>5, ResetStep DEF circular_buf_reset, Returned, Q!Returned, Q!Reset
<1>6. ASSUME Ask
      PROVE  TypeOK' /\ Q!Ask
  BY <1>1, <1>6, SameContents DEF Ask, Returned, Q!Returned, Truth, Q!Truth, Q!Ask
<1>7. ASSUME UNCHANGED vars
      PROVE  TypeOK' /\ UNCHANGED Q!vars
  BY <1>7, SameContents DEF vars, Q!vars
<1> QED
  BY <1>2, <1>3, <1>4, <1>5, <1>6, <1>7 DEF Next, Q!Next

\* A new buffer is an empty queue.
LEMMA InitOfQueue ==
    ASSUME Init
    PROVE  TypeOK /\ Q!Init
<1>1. 0 \in Index
  BY CapacityAssumption DEF Index
<1>2. TypeOK
  BY <1>1 DEF Init, TypeOK
<1>3. circular_buf_size = 0
  BY DEF Init, circular_buf_size, circular_buf_full
<1> QED
  BY <1>2, <1>3, BufferFacts DEF Init, Returned, Q!Returned, Q!Init

----------------------------------------------------------------------------
(* Theorems. *)

(***************************************************************************)
(* advance_pointer and retreat_pointer keep both indices in the array, and *)
(* the flag full is set only where they meet.                              *)
(***************************************************************************)
THEOREM BufferType == Spec => []TypeOK
<1>1. Init => TypeOK
  BY InitOfQueue
<1>2. TypeOK /\ [Next]_vars => TypeOK'
  BY StepOfQueue
<1> QED
  BY <1>1, <1>2, PTL DEF Spec

(***************************************************************************)
(* The buffer is a bounded queue: every call is the same call on a         *)
(* first-in first-out queue, for every capacity.                           *)
(***************************************************************************)
THEOREM BufferIsAQueue == Spec => ImplementsQueue
<1>1. Init => Q!Init
  BY InitOfQueue
<1>2. TypeOK /\ [Next]_vars => [Q!Next]_(Q!vars)
  BY StepOfQueue
<1> QED
  BY <1>1, <1>2, BufferType, PTL DEF Spec, ImplementsQueue, Q!Spec
=============================================================================
