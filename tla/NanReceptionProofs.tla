-------------------------- MODULE NanReceptionProofs --------------------------
(***************************************************************************)
(* Reading never leaves the buffer, and what is read is what was sent: for *)
(* every set of messages, every way to cut and to mislabel a frame, and    *)
(* every number a read of other bytes may yield.                           *)
(*                                                                         *)
(* The first part bounds every reader.  The second says where in a frame   *)
(* each value lies that tx.c wrote, that a reader finds it there, and      *)
(* follows the parser through the frame with the invariant Parsing.        *)
(***************************************************************************)
EXTENDS NanReception, WellFoundedInduction, SequenceTheorems, TLAPS

----------------------------------------------------------------------------
(* Buffers. *)

\* A new buffer is read from its start (buf_new_const).
LEMMA NewInBounds ==
    ASSUME NEW data, NEW size \in Nat
    PROVE  /\ InBounds(buf_new_const(data, size))
           /\ buf_new_const(data, size).size = size
           /\ buf_new_const(data, size).end = size
           /\ buf_new_const(data, size).current = 0
BY DEF buf_new_const, InBounds

\* A buffer is a record of five fields: the records its updates give.
LEMMA Updates ==
    ASSUME NEW buf, InBounds(buf), NEW x
    PROVE  /\ [ buf EXCEPT !.error = x ] =
                  [ data |-> buf.data, size |-> buf.size, current |-> buf.current,
                    end |-> buf.end, error |-> x ]
           /\ [ buf EXCEPT !.current = x ] =
                  [ data |-> buf.data, size |-> buf.size, current |-> x,
                    end |-> buf.end, error |-> buf.error ]
           /\ [ buf EXCEPT !.end = x ] =
                  [ data |-> buf.data, size |-> buf.size, current |-> buf.current,
                    end |-> x, error |-> buf.error ]
<1>1. buf = [ data |-> buf.data, size |-> buf.size, current |-> buf.current,
              end |-> buf.end, error |-> buf.error ]
  BY DEF InBounds
<1> QED BY <1>1

\* A reader that does not fit only sets the error.
LEMMA FailsInBounds ==
    ASSUME NEW buf, InBounds(buf)
    PROVE  /\ InBounds(Fails(buf))
           /\ Fails(buf).error = TRUE
           /\ Fails(buf).current = buf.current
           /\ Fails(buf).end = buf.end
           /\ Fails(buf).size = buf.size
<1>1. Fails(buf) = [ data |-> buf.data, size |-> buf.size, current |-> buf.current,
                     end |-> buf.end, error |-> TRUE ]
  BY Updates DEF Fails
<1> QED BY <1>1 DEF InBounds

\* Reading on keeps the bounds, fit or not (buf_advance and the readers),
\* backwards too if so many bytes were read before.
LEMMA AdvanceInBounds ==
    ASSUME NEW buf, InBounds(buf), NEW length \in Int, buf.current + length >= 0
    PROVE  /\ InBounds(buf_advance(buf, length))
           /\ buf_advance(buf, length).end = buf.end
           /\ buf_advance(buf, length).size = buf.size
           /\ \/ /\ buf_advance(buf, length).error = TRUE
                 /\ buf_advance(buf, length).current = buf.current
                 /\ length > buf.end - buf.current
              \/ /\ buf_advance(buf, length).error = buf.error
                 /\ buf_advance(buf, length).current = buf.current + length
<1>1. CASE length > buf.end - buf.current
  <2>1. buf_advance(buf, length) = Fails(buf)
    BY <1>1 DEF buf_advance, buf_rest, buf_position
  <2> QED BY <1>1, <2>1, FailsInBounds
<1>2. CASE ~(length > buf.end - buf.current)
  <2>1. buf_advance(buf, length) = [ buf EXCEPT !.current = buf.current + length ]
    BY <1>2 DEF buf_advance, buf_rest, buf_position
  <2>2. [ buf EXCEPT !.current = buf.current + length ] =
            [ data |-> buf.data, size |-> buf.size, current |-> buf.current + length,
              end |-> buf.end, error |-> buf.error ]
    BY Updates
  <2>3. buf.current + length \in Nat /\ buf.current + length <= buf.end
    BY <1>2 DEF InBounds
  <2>4. /\ buf_advance(buf, length).current = buf.current + length
        /\ buf_advance(buf, length).size = buf.size
        /\ buf_advance(buf, length).end = buf.end
        /\ buf_advance(buf, length).error = buf.error
    BY <2>1, <2>2
  <2>5. InBounds(buf_advance(buf, length))
    BY <2>1, <2>2, <2>3 DEF InBounds
  <2> QED BY <2>4, <2>5
<1> QED BY <1>1, <1>2

\* A reader never goes backwards by a length that is no less than 0.
LEMMA ReadInBounds ==
    ASSUME NEW buf, InBounds(buf), NEW width \in Nat
    PROVE  /\ InBounds(read(buf, width))
           /\ read(buf, width).end = buf.end
           /\ read(buf, width).size = buf.size
           /\ read(buf, width).current >= buf.current
<1>1. buf.current + width >= 0 /\ width \in Int /\ buf.current \in Nat
  BY DEF InBounds
<1>2. /\ InBounds(buf_advance(buf, width))
      /\ buf_advance(buf, width).end = buf.end
      /\ buf_advance(buf, width).size = buf.size
      /\ \/ buf_advance(buf, width).current = buf.current
         \/ buf_advance(buf, width).current = buf.current + width
  BY <1>1, AdvanceInBounds
<1>3. buf_advance(buf, width).current >= buf.current
  BY <1>1, <1>2
<1> QED BY <1>2, <1>3 DEF read

\* The check sequence is taken off the end (buf_take).
LEMMA TakeInBounds ==
    ASSUME NEW buf, InBounds(buf)
    PROVE  InBounds(buf_take(buf, 4))
<1>1. CASE buf.end - buf.current < 4
  BY <1>1, FailsInBounds DEF buf_take, buf_rest, buf_position
<1>2. CASE ~(buf.end - buf.current < 4)
  <2>1. buf_take(buf, 4) = [ buf EXCEPT !.end = buf.end - 4 ]
    BY <1>2 DEF buf_take, buf_rest, buf_position
  <2>2. [ buf EXCEPT !.end = buf.end - 4 ] =
            [ data |-> buf.data, size |-> buf.size, current |-> buf.current,
              end |-> buf.end - 4, error |-> buf.error ]
    BY Updates
  <2> QED BY <1>2, <2>1, <2>2 DEF InBounds
<1> QED BY <1>1, <1>2

\* What a read yields is a number, from the wire or not.
LEMMA ValueIsNat ==
    ASSUME NEW buf, NEW offset, NEW width, NEW garbage \in Garbage
    PROVE  value_at(buf, offset, width, garbage) \in Nat
BY ReceptionAssumption DEF value_at, HasNumber

----------------------------------------------------------------------------
(* The parsers. *)

\* Skipping a counted part keeps the bounds (nan_parse_sda).
LEMMA SkipCountedInBounds ==
    ASSUME NEW buf, InBounds(buf), NEW garbage \in Garbage
    PROVE  InBounds(SkipCounted(buf, garbage))
<1>1. value_at(buf, 0, 1, garbage) \in Nat
  BY ValueIsNat
<1>2. InBounds(read(buf, 1))
  BY ReadInBounds
<1> QED BY <1>1, <1>2, ReadInBounds DEF SkipCounted, read

\* So does skipping any of the optional parts.
LEMMA SkipFiltersInBounds ==
    ASSUME NEW buf, InBounds(buf), NEW control, NEW garbage \in Garbage
    PROVE  InBounds(SkipFilters(buf, control, garbage))
<1>1. InBounds(buf_advance(buf, 2))
  BY ReadInBounds DEF read
<1> QED BY <1>1, SkipCountedInBounds DEF SkipFilters

\* So does a service descriptor (nan_parse_sda).
LEMMA SdaInBounds ==
    ASSUME NEW buf, InBounds(buf), NEW garbage \in Garbage
    PROVE  InBounds(nan_parse_sda(buf, garbage))
<1>1. InBounds(BeforeInfo(buf, garbage))
  BY ReadInBounds, SkipFiltersInBounds DEF BeforeInfo
<1>2. InfoLength(buf, garbage) \in Nat
  BY ValueIsNat DEF InfoLength
<1>3. InBounds(read(BeforeInfo(buf, garbage), 1))
  BY <1>1, ReadInBounds
<1>4. InBounds(read(read(BeforeInfo(buf, garbage), 1), InfoLength(buf, garbage)))
  BY <1>2, <1>3, ReadInBounds
<1> QED BY <1>1, <1>4 DEF nan_parse_sda

(***************************************************************************)
(* An extension steps back by at most the four bytes it takes off, after   *)
(* it has read two for their count, whatever that says (nan_parse_sdea).   *)
(***************************************************************************)
LEMMA SdeaInBounds ==
    ASSUME NEW buf, InBounds(buf), NEW length \in Nat,
           buf.size = length, buf.end = length, buf.current = 0, NEW garbage \in Garbage
    PROVE  InBounds(nan_parse_sdea(buf, length, garbage))
<1> DEFINE control == value_at(buf, 1, 2, garbage)
           fixed == read(buf, 3)
           range == IF Has(control, RANGE_LIMIT) THEN buf_advance(fixed, 4) ELSE fixed
           update == IF Has(control, UPDATE_INDICATOR) THEN read(range, 1) ELSE range
           count == value_at(update, 0, 2, garbage)
           counted == read(update, 2)
           skipped == read(read(counted, 3), 1)
<1>1. InBounds(fixed) /\ fixed.end = length
      /\ (length >= 3 => fixed.current = 3)
  <2> HIDE DEF control
  <2>1. buf.current + 3 >= 0 /\ 3 \in Int
    OBVIOUS
  <2>2. /\ InBounds(buf_advance(buf, 3))
        /\ buf_advance(buf, 3).end = length
        /\ \/ 3 > buf.end - buf.current
           \/ buf_advance(buf, 3).current = buf.current + 3
    BY <2>1, AdvanceInBounds
  <2>3. length >= 3 => buf_advance(buf, 3).current = 3
    BY <2>2
  <2>4. fixed = buf_advance(buf, 3)
    BY DEF read
  <2> HIDE DEF fixed
  <2> QED BY <2>2, <2>3, <2>4
<1> HIDE DEF control, fixed
<1>2. InBounds(range) /\ range.end = length /\ range.current >= fixed.current
  BY <1>1, ReadInBounds DEF read, InBounds
<1> HIDE DEF range
<1>3. InBounds(update) /\ update.end = length /\ update.current >= range.current
  BY <1>2, ReadInBounds DEF InBounds
<1> HIDE DEF update
<1>4. ASSUME update.current + 2 < length
      PROVE  InBounds(read(skipped, count - 4))
  <2>1. update.current \in Nat /\ range.current \in Nat /\ fixed.current \in Nat
    BY <1>1, <1>2, <1>3 DEF InBounds
  <2>2. update.current >= 3
    BY <1>1, <1>2, <1>3, <1>4, <2>1
  <2>3. counted.current = update.current + 2 /\ InBounds(counted)
    <3>1. update.current + 2 >= 0 /\ 2 \in Int /\ ~(2 > update.end - update.current)
      BY <1>3, <1>4, <2>1
    <3> QED BY <1>3, <3>1, AdvanceInBounds DEF read
  <2> HIDE DEF counted
  <2>4. InBounds(read(counted, 3)) /\ read(counted, 3).current >= counted.current
    BY <2>3, ReadInBounds
  <2>5. InBounds(skipped) /\ skipped.current >= read(counted, 3).current
    BY <2>4, ReadInBounds
  <2>6. skipped.current >= 5
    BY <2>1, <2>2, <2>3, <2>4, <2>5 DEF InBounds
  <2> HIDE DEF skipped
  <2>7. count \in Nat
    BY ValueIsNat
  <2> HIDE DEF count
  <2>8. count - 4 \in Int /\ skipped.current + (count - 4) >= 0
    BY <2>5, <2>6, <2>7 DEF InBounds
  <2> QED BY <2>5, <2>8, AdvanceInBounds DEF read
<1>5. nan_parse_sdea(buf, length, garbage) =
          IF update.current + 2 < length THEN read(skipped, count - 4) ELSE update
  BY DEF nan_parse_sdea, buf_position, control, fixed, range, update
<1> QED BY <1>3, <1>4, <1>5

----------------------------------------------------------------------------
(* The reachable states. *)

\* No buffer yet.
LEMMA NoBufInBounds == InBounds(NoBuf)
BY NewInBounds DEF NoBuf

\* The initial states have the types of TypeOK.
LEMMA InitType == Init => TypeOK
<1> SUFFICES ASSUME Init
             PROVE  TypeOK
  OBVIOUS
<1>1. InBounds(frame) /\ InBounds(attribute_buf)
  BY NoBufInBounds DEF Init
<1>2. stage = "idle" /\ stage \in Stage /\ result \in RX_RESULT
  BY DEF Init, Stage, RX_RESULT
<1>3. attribute_length \in Nat /\ in_beacon \in BOOLEAN
  BY DEF Init
<1> QED
  BY <1>1, <1>2, <1>3 DEF TypeOK

\* The results a parser ends with.
LEMMA Results ==
    /\ RX_OK \in RX_RESULT /\ RX_IGNORE \in RX_RESULT
    /\ RX_IGNORE_FROM_SELF \in RX_RESULT /\ RX_IGNORE_FAILED_CRC \in RX_RESULT
    /\ RX_IGNORE_OUI \in RX_RESULT /\ RX_TOO_SHORT \in RX_RESULT
    /\ RX_UNEXPECTED_FORMAT \in RX_RESULT /\ RX_UNEXPECTED_TYPE \in RX_RESULT
BY DEF RX_RESULT

\* The loop over the attributes ends with a result.
LEMMA EndOfLoopResult ==
    ASSUME NEW buf
    PROVE  EndOfLoop(buf) \in RX_RESULT
BY Results DEF EndOfLoop

\* The length an attribute's contents are read by is a number.
LEMMA LengthIsNat ==
    ASSUME TypeOK, NEW garbage \in Garbage
    PROVE  LengthRead(garbage) \in Nat
BY ValueIsNat DEF LengthRead, TypeOK

\* A parser that hands on a value or fails keeps the types.
LEMMA HandledType ==
    ASSUME TypeOK, NEW buf, attribute_buf' = buf, InBounds(buf), NEW value,
           Handled(buf, value)
    PROVE  TypeOK'
<1>1. stage' \in {"done", "next"} /\ result' \in RX_RESULT
  BY Results DEF Handled, Done
<1>2. UNCHANGED <<frame, in_beacon, attribute_length>>
  BY DEF Handled
<1> QED
  BY <1>1, <1>2 DEF TypeOK, Stage

\* Every step keeps the types: one case per action.
LEMMA NextType == TypeOK /\ [Next]_vars => TypeOK'
<1> SUFFICES ASSUME TypeOK, [Next]_vars
             PROVE  TypeOK'
  OBVIOUS
<1>0. InBounds(frame) /\ InBounds(attribute_buf) /\ attribute_length \in Nat
  BY DEF TypeOK
<1>1. CASE Receive
  <2>1. PICK m \in Messages, fcs \in BOOLEAN : \E cut \in 0 .. Len(Captured(m, fcs)) :
            frame' = buf_new_const(Captured(m, fcs), cut)
    BY <1>1 DEF Receive
  <2>2. PICK cut \in 0 .. Len(Captured(m, fcs)) :
            frame' = buf_new_const(Captured(m, fcs), cut)
    BY <2>1
  <2>3. cut \in Nat
    OBVIOUS
  <2>4. InBounds(frame')
    BY <2>2, <2>3, NewInBounds
  <2>5. stage' = "radiotap" /\ UNCHANGED <<result, in_beacon, attribute_length, attribute_buf>>
    BY <1>1 DEF Receive, KeepAttribute
  <2> QED
    BY <2>4, <2>5 DEF TypeOK, Stage
<1>2. CASE Free
  <2>1. InBounds(frame') /\ InBounds(attribute_buf')
    BY <1>2, NoBufInBounds DEF Free
  <2>2. stage' = "idle" /\ result' = RX_OK /\ in_beacon' = FALSE /\ attribute_length' = 0
    BY <1>2 DEF Free
  <2>3. in_beacon' \in BOOLEAN
    BY <2>2
  <2> QED
    BY <2>1, <2>2, <2>3, Results DEF TypeOK, Stage
<1>3. CASE ParseRadiotap
  <2>1. InBounds(frame')
    BY <1>0, <1>3, ReadInBounds, ReceptionAssumption DEF ParseRadiotap, read
  <2>2. stage' \in {"done", "fcs"} /\ result' \in RX_RESULT
    BY <1>3, Results DEF ParseRadiotap, Done, TypeOK
  <2>3. UNCHANGED <<in_beacon, attribute_length, attribute_buf>>
    BY <1>3 DEF ParseRadiotap, KeepAttribute
  <2> QED
    BY <2>1, <2>2, <2>3 DEF TypeOK, Stage
<1>4. CASE ParseFcs
  <2>1. InBounds(frame')
    BY <1>0, <1>4, TakeInBounds DEF ParseFcs
  <2>2. stage' \in {"done", "nan_rx"} /\ result' \in RX_RESULT
    BY <1>4, Results DEF ParseFcs, Done, TypeOK
  <2>3. UNCHANGED <<in_beacon, attribute_length, attribute_buf>>
    BY <1>4 DEF ParseFcs, KeepAttribute
  <2> QED
    BY <2>1, <2>2, <2>3 DEF TypeOK, Stage
<1>5. CASE ParseHeader
  <2>1. InBounds(buf_advance(frame, HdrSize))
    BY <1>0, ReadInBounds DEF read, HdrSize
  <2>2. InBounds(frame')
    BY <1>0, <1>5, <2>1 DEF ParseHeader
  <2>3. stage' \in {"done", "nan_rx_beacon", "nan_rx_action"} /\ result' \in RX_RESULT
    BY <1>5, Results DEF ParseHeader, Done, TypeOK
  <2>4. UNCHANGED <<in_beacon, attribute_length, attribute_buf>>
    BY <1>5 DEF ParseHeader, KeepAttribute
  <2> QED
    BY <2>2, <2>3, <2>4 DEF TypeOK, Stage
<1>6. CASE ParseBeaconHeader
  <2>1. InBounds(frame')
    BY <1>0, <1>6, ReadInBounds DEF ParseBeaconHeader, BeaconHeaderSize
  <2>2. /\ stage' \in {"done", "next"} /\ result' \in RX_RESULT
        /\ in_beacon' \in BOOLEAN /\ attribute_length' \in Nat
        /\ UNCHANGED attribute_buf
    BY <1>6, Results, ReceptionAssumption
       DEF ParseBeaconHeader, Done, Iterate, KeepAttribute, TypeOK
  <2> QED
    BY <1>0, <2>1, <2>2 DEF TypeOK, Stage
<1>7. CASE ParseActionHeader
  <2>1. /\ InBounds(buf_advance(frame, ActionFrameSize))
        /\ InBounds(buf_advance(frame, ActionFrameSize - 1))
    <3>1. ActionFrameSize \in Nat /\ ActionFrameSize - 1 \in Nat
      BY DEF ActionFrameSize
    <3> QED BY <1>0, <3>1, ReadInBounds DEF read
  <2>2. InBounds(frame')
    BY <1>0, <1>7, <2>1 DEF ParseActionHeader
  <2>3. /\ stage' \in {"done", "next"} /\ result' \in RX_RESULT
        /\ in_beacon' \in BOOLEAN /\ attribute_length' \in Nat
        /\ UNCHANGED attribute_buf
    BY <1>7, Results, ReceptionAssumption
       DEF ParseActionHeader, Done, Iterate, KeepAttribute, TypeOK
  <2> QED
    BY <1>0, <2>2, <2>3 DEF TypeOK, Stage
<1>8. CASE ReadNextAttribute
  <2>1. PICK garbage \in Garbage :
            /\ frame' = read(read(read(frame, 1), 2), LengthRead(garbage))
            /\ attribute_length' = LengthRead(garbage)
            /\ \/ Done(EndOfLoop(frame')) /\ UNCHANGED attribute_buf
               \/ /\ attribute_buf' =
                        buf_new_const(bytes_at(read(read(frame, 1), 2), 0, LengthRead(garbage)),
                                      LengthRead(garbage))
                  /\ stage' = "handle"
                  /\ UNCHANGED result
    BY <1>8, Zenon DEF ReadNextAttribute
  <2>2. LengthRead(garbage) \in Nat
    BY LengthIsNat
  <2>3. InBounds(frame')
    <3>1. InBounds(read(frame, 1))
      BY <1>0, ReadInBounds
    <3>2. InBounds(read(read(frame, 1), 2))
      BY <3>1, ReadInBounds
    <3> QED BY <2>1, <2>2, <3>2, ReadInBounds
  <2>4. UNCHANGED in_beacon
    BY <1>8 DEF ReadNextAttribute
  <2>5. CASE Done(EndOfLoop(frame')) /\ UNCHANGED attribute_buf
    <3>1. stage' = "done" /\ result' \in RX_RESULT
      BY <2>5, EndOfLoopResult DEF Done
    <3> QED
      BY <2>1, <2>2, <2>3, <2>4, <2>5, <3>1 DEF TypeOK, Stage
  <2>6. CASE /\ attribute_buf' =
                   buf_new_const(bytes_at(read(read(frame, 1), 2), 0, LengthRead(garbage)),
                                 LengthRead(garbage))
             /\ stage' = "handle"
             /\ UNCHANGED result
    <3>1. /\ InBounds(attribute_buf')
          /\ attribute_buf'.size = attribute_length'
          /\ attribute_buf'.end = attribute_length'
          /\ attribute_buf'.current = 0
      BY <2>1, <2>2, <2>6, NewInBounds
    <3> QED
      BY <2>1, <2>2, <2>3, <2>4, <2>6, <3>1 DEF TypeOK, Stage
  <2> QED
    BY <2>1, <2>5, <2>6
<1>9. CASE ParseMasterIndication
  <2>1. InBounds(attribute_buf')
    BY <1>0, <1>9, ReadInBounds DEF ParseMasterIndication
  <2> QED
    BY <1>9, <2>1, HandledType DEF ParseMasterIndication
<1>10. CASE ParseCluster
  <2>1. InBounds(attribute_buf')
    BY <1>0, <1>10, ReadInBounds DEF ParseCluster
  <2> QED
    BY <1>10, <2>1, HandledType DEF ParseCluster
<1>11. CASE ParseSda
  <2>1. PICK garbage \in Garbage :
            /\ attribute_buf' = nan_parse_sda(attribute_buf, garbage)
            /\ Handled(attribute_buf', Descriptor(attribute_buf, garbage))
    BY <1>11 DEF ParseSda
  <2>2. InBounds(attribute_buf')
    BY <1>0, <2>1, SdaInBounds
  <2> QED
    BY <2>1, <2>2, HandledType
<1>12. CASE ParseSdea
  <2>1. PICK garbage \in Garbage :
            attribute_buf' = nan_parse_sdea(attribute_buf, attribute_length, garbage)
    BY <1>12 DEF ParseSdea
  <2>2. InBounds(attribute_buf')
    <3>1. /\ attribute_buf.size = attribute_length
          /\ attribute_buf.end = attribute_length
          /\ attribute_buf.current = 0
      BY <1>12 DEF ParseSdea, TypeOK
    <3> QED BY <1>0, <2>1, <3>1, SdeaInBounds
  <2>3. stage' \in {"done", "next"} /\ result' \in RX_RESULT
    BY <1>12, Results DEF ParseSdea, Done
  <2>4. UNCHANGED <<frame, in_beacon, attribute_length>>
    BY <1>12 DEF ParseSdea
  <2> QED
    BY <2>2, <2>3, <2>4 DEF TypeOK, Stage
<1>13. CASE IgnoreAttribute
  <2>1. stage' = "next" /\ result' = RX_IGNORE
        /\ UNCHANGED <<frame, in_beacon, attribute_length, attribute_buf>>
    BY <1>13 DEF IgnoreAttribute, KeepAttribute
  <2> QED
    BY <2>1, Results DEF TypeOK, Stage
<1>14. CASE UNCHANGED vars
  BY <1>14 DEF vars, TypeOK
<1> QED
  BY <1>1, <1>2, <1>3, <1>4, <1>5, <1>6, <1>7, <1>8, <1>9, <1>10, <1>11, <1>12, <1>13, <1>14
     DEF Next

(***************************************************************************)
(* No reader of a received frame leaves its buffer, for every message, cut *)
(* and label.                                                              *)
(***************************************************************************)
THEOREM ReadersStayInBounds == Spec => []TypeOK
BY InitType, NextType, PTL DEF Spec

----------------------------------------------------------------------------
(* Sequences, and what lies where in one. *)

\* A sequence of whatever.
IsSeq(s) == s \in Seq(Range(s))

\* A sequence is a function on 1 .. Len.
LEMMA SeqFacts ==
    ASSUME NEW s, IsSeq(s)
    PROVE  /\ Len(s) \in Nat
           /\ DOMAIN s = 1 .. Len(s)
           /\ s = [ i \in 1 .. Len(s) |-> s[i] ]
BY DEF IsSeq

\* A sequence over some set is one.
LEMMA SeqOfAny ==
    ASSUME NEW S, NEW s \in Seq(S)
    PROVE  /\ IsSeq(s) /\ Len(s) \in Nat
           /\ s = [ i \in 1 .. Len(s) |-> s[i] ]
<1>1. Len(s) \in Nat /\ s \in [1 .. Len(s) -> S]
  OBVIOUS
<1>2. \A i \in 1 .. Len(s) : s[i] \in Range(s)
  BY <1>1 DEF Range
<1>3. s \in [1 .. Len(s) -> Range(s)]
  BY <1>1, <1>2
<1> QED
  BY <1>1, <1>3 DEF IsSeq

\* The other way round.
LEMMA MakeSeq ==
    ASSUME NEW n \in Nat, NEW s, s = [ i \in 1 .. n |-> s[i] ]
    PROVE  IsSeq(s) /\ Len(s) = n
<1>1. DOMAIN s = 1 .. n
  OBVIOUS
<1>2. \A i \in 1 .. n : s[i] \in Range(s)
  BY <1>1 DEF Range
<1>3. s \in [1 .. n -> Range(s)]
  BY <1>2
<1> QED
  BY <1>3 DEF IsSeq

\* Two sequences with the same items are equal.
LEMMA SameItems ==
    ASSUME NEW s, NEW t, IsSeq(s), IsSeq(t), Len(s) = Len(t),
           \A i \in 1 .. Len(s) : s[i] = t[i]
    PROVE  s = t
<1> DEFINE f == [ i \in 1 .. Len(s) |-> s[i] ]
           g == [ i \in 1 .. Len(t) |-> t[i] ]
<1>1. s = f /\ t = g
  BY SeqFacts
<1>2. f = g
  OBVIOUS
<1> HIDE DEF f, g
<1> QED
  BY <1>1, <1>2

\* s lies in data, behind the first pos items.
Holds(data, pos, s) == \A k \in 1 .. Len(s) : data[pos + k] = s[k]

\* A concatenation holds its parts, one behind the other.
LEMMA Concat ==
    ASSUME NEW a, NEW b, IsSeq(a), IsSeq(b)
    PROVE  /\ IsSeq(a \o b)
           /\ Len(a \o b) = Len(a) + Len(b)
           /\ Holds(a \o b, 0, a)
           /\ Holds(a \o b, Len(a), b)
<1> DEFINE S == Range(a) \cup Range(b)
<1>1. a \in Seq(S) /\ b \in Seq(S)
  <2>1. \A i \in 1 .. Len(a) : a[i] \in S
    BY SeqFacts DEF Range
  <2>2. \A i \in 1 .. Len(b) : b[i] \in S
    BY SeqFacts DEF Range
  <2>3. a \in [1 .. Len(a) -> S] /\ b \in [1 .. Len(b) -> S]
    BY <2>1, <2>2, SeqFacts
  <2> QED
    BY <2>3, SeqFacts
<1> HIDE DEF S
<1>2. /\ a \o b \in Seq(S)
      /\ Len(a \o b) = Len(a) + Len(b)
      /\ \A i \in 1 .. Len(a) + Len(b) :
            (a \o b)[i] = IF i <= Len(a) THEN a[i] ELSE b[i - Len(a)]
  BY <1>1
<1>3. Len(a) \in Nat /\ Len(b) \in Nat
  BY SeqFacts
<1> DEFINE c == a \o b
<1> HIDE DEF c
<1>4. c = [ i \in 1 .. Len(c) |-> c[i] ] /\ Len(c) \in Nat
  BY <1>2, SeqOfAny DEF c
<1>5. IsSeq(c)
  BY <1>2, SeqOfAny DEF c
<1>6. Holds(c, 0, a)
  <2> SUFFICES ASSUME NEW k \in 1 .. Len(a)
               PROVE  c[0 + k] = a[k]
    BY DEF Holds
  <2>1. 0 + k = k /\ k \in 1 .. Len(a) + Len(b) /\ k <= Len(a)
    BY <1>3
  <2> QED
    BY <1>2, <2>1 DEF c
<1>7. Holds(c, Len(a), b)
  <2> SUFFICES ASSUME NEW k \in 1 .. Len(b)
               PROVE  c[Len(a) + k] = b[k]
    BY DEF Holds
  <2>1. /\ Len(a) + k \in 1 .. Len(a) + Len(b) /\ ~(Len(a) + k <= Len(a))
        /\ Len(a) + k - Len(a) = k
    BY <1>3
  <2> QED
    BY <1>2, <2>1 DEF c
<1> QED
  BY <1>2, <1>5, <1>6, <1>7 DEF c

\* What lies in a part lies in the whole.
LEMMA HoldsWithin ==
    ASSUME NEW data, NEW p \in Int, NEW s, Holds(data, p, s),
           NEW q \in Nat, NEW t, IsSeq(t), Holds(s, q, t), IsSeq(s), q + Len(t) <= Len(s)
    PROVE  Holds(data, p + q, t)
<1> SUFFICES ASSUME NEW k \in 1 .. Len(t)
             PROVE  data[p + q + k] = t[k]
  BY DEF Holds
<1>1. Len(s) \in Nat /\ Len(t) \in Nat
  BY SeqFacts
<1>2. q + k \in 1 .. Len(s) /\ p + (q + k) = p + q + k
  BY <1>1
<1>3. data[p + (q + k)] = s[q + k]
  BY <1>2 DEF Holds
<1>4. s[q + k] = t[k]
  BY DEF Holds
<1> QED
  BY <1>2, <1>3, <1>4

\* So do the parts of a concatenation.
LEMMA HoldsParts ==
    ASSUME NEW data, NEW p \in Int, NEW a, NEW b, IsSeq(a), IsSeq(b),
           Holds(data, p, a \o b)
    PROVE  Holds(data, p, a) /\ Holds(data, p + Len(a), b)
<1> DEFINE c == a \o b
<1>1. /\ IsSeq(c) /\ Len(c) = Len(a) + Len(b)
      /\ Holds(c, 0, a) /\ Holds(c, Len(a), b)
  BY Concat
<1>2. Len(a) \in Nat /\ Len(b) \in Nat
  BY SeqFacts
<1>3. Holds(data, p, c)
  OBVIOUS
<1> HIDE DEF c
<1>4. 0 + Len(a) <= Len(c) /\ Len(a) + Len(b) <= Len(c) /\ 0 \in Nat /\ p + 0 = p
  BY <1>1, <1>2
<1>5. Holds(data, p + 0, a)
  BY <1>1, <1>3, <1>4, HoldsWithin
<1>6. Holds(data, p + Len(a), b)
  BY <1>1, <1>2, <1>3, <1>4, HoldsWithin
<1> QED
  BY <1>4, <1>5, <1>6

\* And what lies there can be cut out.
LEMMA CutOut ==
    ASSUME NEW data, IsSeq(data), NEW p \in Nat, NEW s, IsSeq(s),
           Holds(data, p, s), p + Len(s) <= Len(data)
    PROVE  SubSeq(data, p + 1, p + Len(s)) = s
<1> DEFINE t == SubSeq(data, p + 1, p + Len(s))
           n == Len(s)
<1>1. n \in Nat /\ Len(data) \in Nat
  BY SeqFacts
<1>2. t = [ i \in 1 .. n |-> data[p + i] ]
  <2>1. t = [ i \in 1 .. (1 + (p + n)) - (p + 1) |-> data[i + (p + 1) - 1] ]
    OBVIOUS
  <2>2. (1 + (p + n)) - (p + 1) = n
    BY <1>1
  <2>3. \A i \in 1 .. n : i + (p + 1) - 1 = p + i
    BY <1>1
  <2> QED
    BY <2>1, <2>2, <2>3
<1> HIDE DEF t
<1>3. \A i \in 1 .. n : t[i] = s[i]
  BY <1>2 DEF Holds
<1>4. t = [ i \in 1 .. n |-> t[i] ]
  BY <1>2
<1>5. IsSeq(t) /\ Len(t) = n
  BY <1>1, <1>4, MakeSeq
<1>6. t = s
  <2>1. Len(t) = Len(s) /\ \A i \in 1 .. Len(t) : t[i] = s[i]
    BY <1>3, <1>5
  <2> QED
    BY <1>5, <2>1, SameItems
<1> QED
  BY <1>6 DEF t

----------------------------------------------------------------------------
(* One sequence made of many. *)

\* A set of numbers has a least one.
LEMMA LeastNumber ==
    ASSUME NEW I \in SUBSET Nat, I # {}
    PROVE  \E x \in I : \A y \in I : x <= y
<1> DEFINE below == { p \in Nat \X Nat : p[1] < p[2] }
<1>1. IsWellFoundedOn(below, Nat)
  BY NatLessThanWellFounded, Zenon DEF OpToRel
<1> HIDE DEF below
<1>2. PICK x \in I : \A y \in I : ~ (<<y, x>> \in below)
  BY <1>1, WFMin
<1>3. ASSUME NEW y \in I PROVE x <= y
  <2>1. x \in Nat /\ y \in Nat
    OBVIOUS
  <2>2. y < x => <<y, x>> \in below
    BY <2>1 DEF below
  <2> QED
    BY <1>2, <2>1, <2>2
<1> QED
  BY <1>3

\* f[i] is what the first i of the sequences parts make together.
Joins(parts, f, n) ==
    \A i \in 1 .. n : f[i] = IF i = 1 THEN parts[i] ELSE f[i - 1] \o parts[i]

\* There is such a function, the one that FlattenSeq takes its result from.
LEMMA JoinsExists ==
    ASSUME NEW parts, NEW n \in Nat
    PROVE  \E f : f = [ i \in 1 .. n |-> f[i] ] /\ Joins(parts, f, n)
<1> DEFINE Exists(m) == \E f : f = [ i \in 1 .. m |-> f[i] ] /\ Joins(parts, f, m)
           I == { m \in Nat : ~Exists(m) }
<1>1. SUFFICES ASSUME I # {} PROVE FALSE
  OBVIOUS
<1>2. PICK m \in I : \A j \in I : m <= j
  BY <1>1, LeastNumber
<1>3. CASE m = 0
  <2> DEFINE f == [ i \in 1 .. 0 |-> parts[i] ]
  <2>1. f = [ i \in 1 .. 0 |-> f[i] ] /\ Joins(parts, f, 0)
    BY DEF Joins
  <2> HIDE DEF f
  <2> QED
    BY <1>2, <1>3, <2>1
<1>4. CASE m # 0
  <2>1. m \in Nat /\ m - 1 \in Nat /\ ~ (m <= m - 1)
    BY <1>2, <1>4
  <2>2. Exists(m - 1)
    BY <1>2, <2>1
  <2>3. PICK shorter : Joins(parts, shorter, m - 1)
    BY <2>2
  <2> DEFINE last == IF m = 1 THEN parts[m] ELSE shorter[m - 1] \o parts[m]
             f == [ i \in 1 .. m |-> IF i = m THEN last ELSE shorter[i] ]
  <2>4. f = [ i \in 1 .. m |-> f[i] ]
    OBVIOUS
  <2>5. \A i \in 1 .. m : f[i] = IF i = m THEN last ELSE shorter[i]
    OBVIOUS
  <2> HIDE DEF f
  <2>6. Joins(parts, f, m)
    <3> SUFFICES ASSUME NEW i \in 1 .. m
                 PROVE  f[i] = IF i = 1 THEN parts[i] ELSE f[i - 1] \o parts[i]
      BY DEF Joins
    <3>0. i # 1 => i - 1 \in 1 .. m /\ i - 1 # m
      BY <2>1
    <3>1. CASE i = m
      BY <2>5, <3>0, <3>1
    <3>2. CASE i # m
      <4>1. i \in 1 .. (m - 1)
        BY <2>1, <3>2
      <4>2. shorter[i] = IF i = 1 THEN parts[i] ELSE shorter[i - 1] \o parts[i]
        BY <2>3, <4>1 DEF Joins
      <4> QED
        BY <2>5, <3>0, <3>2, <4>2
    <3> QED
      BY <3>1, <3>2
  <2> QED
    BY <1>2, <2>4, <2>6
<1> QED
  BY <1>3, <1>4

\* off[i] is where the i-th part ends.
Offsets(parts, off) ==
    /\ off[0] = 0
    /\ \A i \in 0 .. Len(parts) : off[i] \in Nat
    /\ \A i \in 1 .. Len(parts) : off[i] = off[i - 1] + Len(parts[i])

(***************************************************************************)
(* FlattenSeq puts its parts one behind the other.                         *)
(***************************************************************************)
LEMMA Flattened ==
    ASSUME NEW parts, IsSeq(parts), \A i \in 1 .. Len(parts) : IsSeq(parts[i])
    PROVE  \E off :
              /\ Offsets(parts, off)
              /\ IsSeq(FlattenSeq(parts))
              /\ Len(FlattenSeq(parts)) = off[Len(parts)]
              /\ \A i \in 1 .. Len(parts) : Holds(FlattenSeq(parts), off[i - 1], parts[i])
<1> DEFINE n == Len(parts)
<1>0. n \in Nat
  BY SeqFacts
<1>1. CASE n = 0
  <2> DEFINE off == [ i \in 0 .. 0 |-> 0 ]
  <2>1. FlattenSeq(parts) = parts
    BY <1>1 DEF FlattenSeq
  <2>2. off[0] = 0 /\ Offsets(parts, off)
    BY <1>1 DEF Offsets
  <2> HIDE DEF off
  <2> QED
    BY <1>1, <2>1, <2>2
<1>2. CASE n # 0
  <2>1. PICK f : Joins(parts, f, n) /\ FlattenSeq(parts) = f[n]
    <3> DEFINE Step(g) == [ i \in 1 .. n |-> IF i = 1 THEN parts[i] ELSE g[i - 1] \o parts[i] ]
               f == CHOOSE g : g = Step(g)
    <3>1. FlattenSeq(parts) = f[n]
      BY <1>2, Zenon DEF FlattenSeq
    <3>2. \E g : g = Step(g)
      <4>1. PICK g : g = [ i \in 1 .. n |-> g[i] ] /\ Joins(parts, g, n)
        BY <1>0, JoinsExists
      <4>2. g = Step(g)
        BY <4>1 DEF Joins
      <4> QED
        BY <4>2
    <3>3. f = Step(f)
      BY <3>2, Zenon
    <3> HIDE DEF f
    <3>4. Joins(parts, f, n)
      BY <3>3 DEF Joins
    <3> QED
      BY <3>1, <3>4
  <2> DEFINE off == [ i \in 0 .. n |-> IF i = 0 THEN 0 ELSE Len(f[i]) ]
             Inside(m, i) == /\ off[i - 1] \in Nat
                             /\ off[i - 1] + Len(parts[i]) <= Len(f[m])
                             /\ Holds(f[m], off[i - 1], parts[i])
             Right(m) == /\ IsSeq(f[m])
                         /\ off[m] = off[m - 1] + Len(parts[m])
                         /\ \A i \in 1 .. m : Inside(m, i)
             I == { m \in 1 .. n : ~Right(m) }
  <2>2. off[0] = 0 /\ \A i \in 1 .. n : off[i] = Len(f[i])
    BY <1>0
  <2> HIDE DEF off
  <2>3. I = {}
    <3>1. SUFFICES ASSUME I # {} PROVE FALSE
      OBVIOUS
    <3>2. PICK m \in I : \A j \in I : m <= j
      <4>1. I \in SUBSET Nat
        BY <1>0
      <4> HIDE DEF I
      <4> QED
        BY <3>1, <4>1, LeastNumber
    <3>3. m \in 1 .. n /\ m \in Nat /\ m # 0
      BY <1>0
    <3>4. CASE m = 1
      <4>1. f[1] = parts[1] /\ off[1] = Len(parts[1]) /\ IsSeq(parts[1])
        BY <2>1, <2>2, <3>3, <3>4 DEF Joins
      <4>2. Len(parts[1]) \in Nat
        BY <4>1, SeqFacts
      <4>3. off[1] = off[0] + Len(parts[1])
        BY <2>2, <4>1, <4>2
      <4>4. Holds(f[1], off[0], parts[1])
        <5>1. \A k \in 1 .. Len(parts[1]) : 0 + k = k
          BY <4>2
        <5> QED
          BY <2>2, <4>1, <5>1 DEF Holds
      <4>5. Inside(1, 1)
        BY <2>2, <4>1, <4>2, <4>4
      <4>6. Right(1)
        <5>1. 1 - 1 = 0 /\ \A i \in 1 .. 1 : i = 1
          OBVIOUS
        <5> HIDE DEF Inside
        <5> QED
          BY <4>1, <4>3, <4>5, <5>1
      <4> QED
        BY <3>2, <3>4, <4>6
    <3>5. CASE m # 1
      <4>1. m - 1 \in 1 .. n /\ m - 1 \in Nat /\ ~(m <= m - 1)
        BY <1>0, <3>3, <3>5
      <4>2. Right(m - 1)
        BY <3>2, <4>1
      <4> DEFINE a == f[m - 1]
                 b == parts[m]
                 c == f[m]
      <4>3. c = a \o b
        BY <2>1, <3>3, <3>5 DEF Joins
      <4>4. IsSeq(a) /\ IsSeq(b) /\ Len(a) \in Nat /\ Len(b) \in Nat
        BY <3>3, <4>2, SeqFacts
      <4>5. off[m - 1] = Len(a) /\ off[m] = Len(c)
        BY <2>2, <3>3, <4>1
      <4>6. \A i \in 1 .. (m - 1) : Inside(m - 1, i)
        BY <4>2
      <4>7. /\ IsSeq(c) /\ Len(c) = Len(a) + Len(b)
            /\ Holds(c, 0, a) /\ Holds(c, Len(a), b)
        BY <4>3, <4>4, Concat
      <4>8. ASSUME NEW i \in 1 .. (m - 1)
            PROVE  Inside(m, i)
        <5>1. i \in 1 .. n /\ IsSeq(parts[i])
          BY <3>3
        <5>2. /\ off[i - 1] \in Nat /\ off[i - 1] + Len(parts[i]) <= Len(a)
              /\ Holds(a, off[i - 1], parts[i])
          BY <4>6
        <5>3. Len(parts[i]) \in Nat
          BY <5>1, SeqFacts
        <5> HIDE DEF a, b, c
        <5>4. Holds(c, 0 + off[i - 1], parts[i])
          BY <4>4, <4>7, <5>1, <5>2, HoldsWithin
        <5>5. 0 + off[i - 1] = off[i - 1] /\ off[i - 1] + Len(parts[i]) <= Len(c)
          BY <4>4, <4>7, <5>2, <5>3
        <5> QED
          BY <5>2, <5>4, <5>5 DEF c
      <4>9. Inside(m, m)
        <5> HIDE DEF a, b, c
        <5>1. off[m - 1] \in Nat /\ off[m - 1] + Len(b) <= Len(c) /\ Holds(c, off[m - 1], b)
          BY <4>4, <4>5, <4>7
        <5> QED
          BY <5>1 DEF b, c
      <4>10. off[m] = off[m - 1] + Len(parts[m])
        <5> HIDE DEF a, c
        <5> QED
          BY <4>5, <4>7
      <4>11. \A i \in 1 .. m : i = m \/ i \in 1 .. (m - 1)
        BY <3>3
      <4> HIDE DEF Inside
      <4>12. Right(m)
        BY <4>7, <4>8, <4>9, <4>10, <4>11
      <4> QED
        BY <3>2, <4>12
    <3> QED
      BY <3>4, <3>5
  <2>4. \A m \in 1 .. n : Right(m)
    BY <2>3
  <2>5. \A i \in 1 .. n : off[i] \in Nat
    BY <2>2, <2>4, SeqFacts
  <2>6. Offsets(parts, off)
    <3>1. \A i \in 0 .. n : i = 0 \/ i \in 1 .. n
      BY <1>0
    <3> QED
      BY <2>2, <2>4, <2>5, <3>1 DEF Offsets
  <2>7. n \in 1 .. n
    BY <1>0, <1>2
  <2>8. IsSeq(f[n]) /\ Len(f[n]) = off[n] /\ \A i \in 1 .. n : Holds(f[n], off[i - 1], parts[i])
    BY <2>2, <2>4, <2>7
  <2> QED
    BY <2>1, <2>6, <2>8
<1> QED
  BY <1>1, <1>2

\* The parts from the i-th on, put together, are what the others leave.
LEMMA RestLength ==
    ASSUME NEW parts, IsSeq(parts), \A i \in 1 .. Len(parts) : IsSeq(parts[i]),
           NEW off, Offsets(parts, off),
           NEW i \in 1 .. Len(parts) + 1
    PROVE  Len(FlattenSeq(SubSeq(parts, i, Len(parts)))) = off[Len(parts)] - off[i - 1]
<1> DEFINE n == Len(parts)
           m == n - (i - 1)
           rest == SubSeq(parts, i, n)
<1>0. n \in Nat /\ m \in Nat /\ i \in Nat /\ i - 1 \in Nat /\ i - 1 + m = n
  BY SeqFacts
<1>1. rest = [ j \in 1 .. m |-> parts[i - 1 + j] ]
  <2>1. rest = [ j \in 1 .. (1 + n) - i |-> parts[j + i - 1] ]
    OBVIOUS
  <2>2. (1 + n) - i = m /\ \A j \in 1 .. m : j + i - 1 = i - 1 + j
    BY <1>0
  <2> QED
    BY <2>1, <2>2
<1>2. IsSeq(rest) /\ Len(rest) = m
  <2>1. rest = [ j \in 1 .. m |-> rest[j] ]
    BY <1>1
  <2> HIDE DEF rest, m
  <2> QED
    BY <1>0, <2>1, MakeSeq
<1>3. \A j \in 1 .. m : rest[j] = parts[i - 1 + j]
  BY <1>1
<1> HIDE DEF rest, m
<1>4. \A j \in 1 .. m : i - 1 + j \in 1 .. n
  BY <1>0
<1>5. \A j \in 1 .. m : IsSeq(rest[j])
  BY <1>3, <1>4
<1>6. PICK o : Offsets(rest, o) /\ Len(FlattenSeq(rest)) = o[m]
  BY <1>2, <1>5, Flattened
<1> DEFINE I == { j \in 0 .. m : o[j] # off[i - 1 + j] - off[i - 1] }
<1>7. I = {}
  <2>1. SUFFICES ASSUME I # {} PROVE FALSE
    OBVIOUS
  <2>2. PICK j \in I : \A k \in I : j <= k
    <3>1. I \in SUBSET Nat
      BY <1>0
    <3> HIDE DEF I
    <3> QED
      BY <2>1, <3>1, LeastNumber
  <2>3. j \in 0 .. m /\ j \in Nat
    BY <1>0
  <2>4. CASE j = 0
    <3>1. i - 1 + 0 = i - 1 /\ i - 1 \in 0 .. n
      BY <1>0
    <3>2. off[i - 1] - off[i - 1] = 0
      BY <3>1 DEF Offsets
    <3> QED
      BY <1>6, <2>2, <2>4, <3>1, <3>2 DEF Offsets
  <2>5. CASE j # 0
    <3>1. /\ j - 1 \in 0 .. m /\ ~(j <= j - 1) /\ j \in 1 .. m
          /\ i - 1 + (j - 1) = (i - 1 + j) - 1
          /\ i - 1 \in 0 .. n /\ i - 1 + j \in 1 .. n /\ i - 1 + j \in 0 .. n
          /\ (i - 1 + j) - 1 \in 0 .. n
      BY <1>0, <2>3, <2>5
    <3>2. o[j - 1] = off[(i - 1 + j) - 1] - off[i - 1]
      BY <2>2, <3>1
    <3>3. o[j] = o[j - 1] + Len(rest[j])
      BY <1>2, <1>6, <3>1 DEF Offsets
    <3>4. off[i - 1 + j] = off[(i - 1 + j) - 1] + Len(parts[i - 1 + j])
      BY <3>1 DEF Offsets
    <3>5. Len(rest[j]) = Len(parts[i - 1 + j]) /\ Len(rest[j]) \in Nat
      BY <1>3, <1>5, <3>1, SeqFacts
    <3>6. off[i - 1] \in Nat /\ off[(i - 1 + j) - 1] \in Nat /\ off[i - 1 + j] \in Nat
      BY <3>1 DEF Offsets
    <3>7. o[j] = off[i - 1 + j] - off[i - 1]
      BY <3>2, <3>3, <3>4, <3>5, <3>6
    <3> QED
      BY <2>2, <3>7
  <2> QED
    BY <2>4, <2>5
<1>8. o[m] = off[i - 1 + m] - off[i - 1]
  <2>1. m \in 0 .. m
    BY <1>0
  <2> QED
    BY <1>7, <2>1
<1> QED
  BY <1>0, <1>6, <1>8 DEF rest

----------------------------------------------------------------------------
(* Values in bytes. *)

\* A value is as long as it is wide (Field).
LEMMA FieldSeq ==
    ASSUME NEW value, NEW width \in Nat
    PROVE  /\ IsSeq(Field(value, width))
           /\ Len(Field(value, width)) = width
           /\ \A i \in 1 .. width : Field(value, width)[i] = <<value, i, width>>
<1> DEFINE f == Field(value, width)
<1>1. f = [ i \in 1 .. width |-> <<value, i, width>> ]
  BY DEF Field
<1> HIDE DEF f
<1>2. f = [ i \in 1 .. width |-> f[i] ]
  BY <1>1
<1>3. IsSeq(f) /\ Len(f) = width
  BY <1>2, MakeSeq
<1> QED
  BY <1>1, <1>3 DEF f

\* c is a and then b.
Joined(c, a, b) == c = a \o b

\* A sequence of n items.
Size(s, n) == IsSeq(s) /\ Len(s) = n

\* A value is as long as it is wide.
LEMMA FieldSize ==
    ASSUME NEW value, NEW width \in Nat
    PROVE  Size(Field(value, width), width)
BY FieldSeq DEF Size

\* What is joined has the length of both parts.
LEMMA JoinedSize ==
    ASSUME NEW c, NEW a, NEW b, Joined(c, a, b),
           NEW k \in Nat, NEW n \in Nat, Size(a, k), Size(b, n)
    PROVE  Size(c, k + n)
BY Concat DEF Joined, Size

\* Where it lies, they lie.
LEMMA JoinedHolds ==
    ASSUME NEW c, NEW a, NEW b, Joined(c, a, b),
           NEW k \in Nat, NEW n \in Nat, Size(a, k), Size(b, n),
           NEW data, NEW p \in Int, Holds(data, p, c)
    PROVE  Holds(data, p, a) /\ Holds(data, p + k, b)
BY HoldsParts DEF Joined, Size

\* A number that lies whole in what is left to read is read (value_at).
LEMMA NumberRead ==
    ASSUME NEW buf, InBounds(buf), NEW offset \in Nat, NEW width \in Nat \ {0},
           NEW value \in Nat, NEW garbage,
           Holds(buf.data, buf.current + offset, Field(value, width)),
           offset + width <= buf.end - buf.current
    PROVE  value_at(buf, offset, width, garbage) = value
<1> DEFINE at == buf.current + offset
<1>1. \A i \in 1 .. width : buf.data[at + i] = <<value, i, width>>
  BY FieldSeq DEF Holds
<1>2. 1 \in 1 .. width
  OBVIOUS
<1>3. buf.data[at + 1] = <<value, 1, width>>
  BY <1>1, <1>2
<1>4. buf.data[at + 1][1] = value
  BY <1>3
<1> HIDE DEF at
<1>5. HasNumber(buf, offset, width)
  BY <1>1, <1>4 DEF HasNumber, buf_rest, buf_position, at
<1> QED
  BY <1>4, <1>5 DEF value_at, at

\* Bytes that lie in what is left are cut out (bytes_at).
LEMMA BytesRead ==
    ASSUME NEW buf, InBounds(buf), IsSeq(buf.data), buf.end <= Len(buf.data),
           NEW offset \in Nat, NEW s, IsSeq(s), Holds(buf.data, buf.current + offset, s),
           offset + Len(s) <= buf.end - buf.current
    PROVE  bytes_at(buf, offset, Len(s)) = s
<1>1. /\ buf.current + offset \in Nat /\ buf.current \in Nat /\ buf.end \in Nat
      /\ Len(s) \in Nat /\ Len(buf.data) \in Nat
  BY SeqFacts DEF InBounds
<1>2. buf.current + offset + Len(s) <= Len(buf.data)
  BY <1>1
<1> QED
  BY <1>1, <1>2, CutOut DEF bytes_at

----------------------------------------------------------------------------
(* Headers. *)

\* The header of every frame: its length, and where its values lie
\* (ieee80211_add_nan_header).
LEMMA NanHeader ==
    ASSUME NEW m, NEW type
    PROVE  LET h == ieee80211_add_nan_header(m, type) IN
           /\ Size(h, 24)
           /\ \A data : \A p \in Nat : Holds(data, p, h) =>
                 /\ Holds(data, p, Field(type, 2))
                 /\ Holds(data, p + 4, Field(m.dst, 6))
                 /\ Holds(data, p + 10, Field(m.src, 6))
                 /\ Holds(data, p + 16, Field(m.cluster_id, 6))
<1> DEFINE x1 == Field(type, 2)
           y2 == Field(0, 2)
           y3 == Field(m.dst, 6)
           y4 == Field(m.src, 6)
           y5 == Field(m.cluster_id, 6)
           y6 == Opaque(2)
           x2 == x1 \o y2
           x3 == x2 \o y3
           x4 == x3 \o y4
           x5 == x4 \o y5
           x6 == x5 \o y6
<1>1. /\ Size(x1, 2)
      /\ Size(y2, 2)
      /\ Size(y3, 6)
      /\ Size(y4, 6)
      /\ Size(y5, 6)
      /\ Size(y6, 2)
  BY FieldSize DEF Opaque
<1>2. /\ Joined(x2, x1, y2)
      /\ Joined(x3, x2, y3)
      /\ Joined(x4, x3, y4)
      /\ Joined(x5, x4, y5)
      /\ Joined(x6, x5, y6)
  BY DEF Joined
<1>3. ieee80211_add_nan_header(m, type) = x6
  BY DEF ieee80211_add_nan_header
<1> HIDE DEF x1, y2, y3, y4, y5, y6, x2, x3, x4, x5, x6
<1>4. Size(x2, 4)
  BY <1>1, <1>2, JoinedSize
<1>5. Size(x3, 10)
  BY <1>1, <1>2, <1>4, JoinedSize
<1>6. Size(x4, 16)
  BY <1>1, <1>2, <1>5, JoinedSize
<1>7. Size(x5, 22)
  BY <1>1, <1>2, <1>6, JoinedSize
<1>8. Size(x6, 24)
  BY <1>1, <1>2, <1>7, JoinedSize
<1>9. ASSUME NEW data, NEW p \in Nat, Holds(data, p, x6)
      PROVE  /\ Holds(data, p, x1)
             /\ Holds(data, p + 4, y3)
             /\ Holds(data, p + 10, y4)
             /\ Holds(data, p + 16, y5)
  <2>1. Holds(data, p, x5)
    BY <1>1, <1>2, <1>7, <1>9, JoinedHolds
  <2>2. Holds(data, p, x4) /\ Holds(data, p + 16, y5)
    BY <1>1, <1>2, <1>6, <2>1, JoinedHolds
  <2>3. Holds(data, p, x3) /\ Holds(data, p + 10, y4)
    BY <1>1, <1>2, <1>5, <2>2, JoinedHolds
  <2>4. Holds(data, p, x2) /\ Holds(data, p + 4, y3)
    BY <1>1, <1>2, <1>4, <2>3, JoinedHolds
  <2>5. Holds(data, p, x1)
    BY <1>1, <1>2, <2>4, JoinedHolds
  <2> QED
    BY <2>2, <2>3, <2>4, <2>5
<1> QED
  BY <1>3, <1>8, <1>9 DEF x1, y2, y3, y4, y5, y6

\* The header of a beacon (nan_add_beacon_header).
LEMMA BeaconHeader ==
    ASSUME NEW m, NEW length
    PROVE  LET h == nan_add_beacon_header(m, length) IN
           /\ Size(h, 42)
           /\ \A data : \A p \in Nat : Holds(data, p, h) =>
                 /\ Holds(data, p, ieee80211_add_nan_header(m, IEEE80211_STYPE_BEACON))
                 /\ Holds(data, p + 24, Field(m.timestamp, 8))
                 /\ Holds(data, p + 32, Field(IntervalOf(m.type), 2))
                 /\ Holds(data, p + 38, Field(m.oui, 3))
                 /\ Holds(data, p + 41, Field(NAN_OUI_TYPE_BEACON, 1))
<1> DEFINE x1 == ieee80211_add_nan_header(m, IEEE80211_STYPE_BEACON)
           y2 == Field(m.timestamp, 8)
           y3 == Field(IntervalOf(m.type), 2)
           y4 == Opaque(2)
           y5 == Opaque(1)
           y6 == Field(length, 1)
           y7 == Field(m.oui, 3)
           y8 == Field(NAN_OUI_TYPE_BEACON, 1)
           x2 == x1 \o y2
           x3 == x2 \o y3
           x4 == x3 \o y4
           x5 == x4 \o y5
           x6 == x5 \o y6
           x7 == x6 \o y7
           x8 == x7 \o y8
<1>1. /\ Size(x1, 24)
      /\ Size(y2, 8)
      /\ Size(y3, 2)
      /\ Size(y4, 2)
      /\ Size(y5, 1)
      /\ Size(y6, 1)
      /\ Size(y7, 3)
      /\ Size(y8, 1)
  BY FieldSize, NanHeader DEF Opaque
<1>2. /\ Joined(x2, x1, y2)
      /\ Joined(x3, x2, y3)
      /\ Joined(x4, x3, y4)
      /\ Joined(x5, x4, y5)
      /\ Joined(x6, x5, y6)
      /\ Joined(x7, x6, y7)
      /\ Joined(x8, x7, y8)
  BY DEF Joined
<1>3. nan_add_beacon_header(m, length) = x8
  BY DEF nan_add_beacon_header
<1> HIDE DEF x1, y2, y3, y4, y5, y6, y7, y8, x2, x3, x4, x5, x6, x7, x8
<1>4. Size(x2, 32)
  BY <1>1, <1>2, JoinedSize
<1>5. Size(x3, 34)
  BY <1>1, <1>2, <1>4, JoinedSize
<1>6. Size(x4, 36)
  BY <1>1, <1>2, <1>5, JoinedSize
<1>7. Size(x5, 37)
  BY <1>1, <1>2, <1>6, JoinedSize
<1>8. Size(x6, 38)
  BY <1>1, <1>2, <1>7, JoinedSize
<1>9. Size(x7, 41)
  BY <1>1, <1>2, <1>8, JoinedSize
<1>10. Size(x8, 42)
  BY <1>1, <1>2, <1>9, JoinedSize
<1>11. ASSUME NEW data, NEW p \in Nat, Holds(data, p, x8)
      PROVE  /\ Holds(data, p, x1)
             /\ Holds(data, p + 24, y2)
             /\ Holds(data, p + 32, y3)
             /\ Holds(data, p + 38, y7)
             /\ Holds(data, p + 41, y8)
  <2>1. Holds(data, p, x7) /\ Holds(data, p + 41, y8)
    BY <1>1, <1>2, <1>9, <1>11, JoinedHolds
  <2>2. Holds(data, p, x6) /\ Holds(data, p + 38, y7)
    BY <1>1, <1>2, <1>8, <2>1, JoinedHolds
  <2>3. Holds(data, p, x5)
    BY <1>1, <1>2, <1>7, <2>2, JoinedHolds
  <2>4. Holds(data, p, x4)
    BY <1>1, <1>2, <1>6, <2>3, JoinedHolds
  <2>5. Holds(data, p, x3)
    BY <1>1, <1>2, <1>5, <2>4, JoinedHolds
  <2>6. Holds(data, p, x2) /\ Holds(data, p + 32, y3)
    BY <1>1, <1>2, <1>4, <2>5, JoinedHolds
  <2>7. Holds(data, p, x1) /\ Holds(data, p + 24, y2)
    BY <1>1, <1>2, <2>6, JoinedHolds
  <2> QED
    BY <2>1, <2>2, <2>6, <2>7
<1> QED
  BY <1>3, <1>10, <1>11 DEF x1, y2, y3, y4, y5, y6, y7, y8

\* The header of a service discovery frame (nan_add_service_discovery_header).
LEMMA ServiceHeader ==
    ASSUME NEW m
    PROVE  LET h == nan_add_service_discovery_header(m) IN
           /\ Size(h, 30)
           /\ \A data : \A p \in Nat : Holds(data, p, h) =>
                 /\ Holds(data, p, ieee80211_add_nan_header(m, IEEE80211_STYPE_ACTION))
                 /\ Holds(data, p + 26, Field(m.oui, 3))
                 /\ Holds(data, p + 29, Field(NAN_OUT_TYPE_SERVICE_DISCOVERY, 1))
<1> DEFINE x1 == ieee80211_add_nan_header(m, IEEE80211_STYPE_ACTION)
           y2 == Opaque(1)
           y3 == Opaque(1)
           y4 == Field(m.oui, 3)
           y5 == Field(NAN_OUT_TYPE_SERVICE_DISCOVERY, 1)
           x2 == x1 \o y2
           x3 == x2 \o y3
           x4 == x3 \o y4
           x5 == x4 \o y5
<1>1. /\ Size(x1, 24)
      /\ Size(y2, 1)
      /\ Size(y3, 1)
      /\ Size(y4, 3)
      /\ Size(y5, 1)
  BY FieldSize, NanHeader DEF Opaque
<1>2. /\ Joined(x2, x1, y2)
      /\ Joined(x3, x2, y3)
      /\ Joined(x4, x3, y4)
      /\ Joined(x5, x4, y5)
  BY DEF Joined
<1>3. nan_add_service_discovery_header(m) = x5
  BY DEF nan_add_service_discovery_header
<1> HIDE DEF x1, y2, y3, y4, y5, x2, x3, x4, x5
<1>4. Size(x2, 25)
  BY <1>1, <1>2, JoinedSize
<1>5. Size(x3, 26)
  BY <1>1, <1>2, <1>4, JoinedSize
<1>6. Size(x4, 29)
  BY <1>1, <1>2, <1>5, JoinedSize
<1>7. Size(x5, 30)
  BY <1>1, <1>2, <1>6, JoinedSize
<1>8. ASSUME NEW data, NEW p \in Nat, Holds(data, p, x5)
      PROVE  /\ Holds(data, p, x1)
             /\ Holds(data, p + 26, y4)
             /\ Holds(data, p + 29, y5)
  <2>1. Holds(data, p, x4) /\ Holds(data, p + 29, y5)
    BY <1>1, <1>2, <1>6, <1>8, JoinedHolds
  <2>2. Holds(data, p, x3) /\ Holds(data, p + 26, y4)
    BY <1>1, <1>2, <1>5, <2>1, JoinedHolds
  <2>3. Holds(data, p, x2)
    BY <1>1, <1>2, <1>4, <2>2, JoinedHolds
  <2>4. Holds(data, p, x1)
    BY <1>1, <1>2, <2>3, JoinedHolds
  <2> QED
    BY <2>1, <2>2, <2>4
<1> QED
  BY <1>3, <1>7, <1>8 DEF x1, y2, y3, y4, y5

\* An action frame of another type, which is all header.
LEMMA ActionHeader ==
    ASSUME NEW m
    PROVE  LET h == ActionFrame(m) IN
           /\ Size(h, 31)
           /\ \A data : \A p \in Nat : Holds(data, p, h) =>
                 /\ Holds(data, p, ieee80211_add_nan_header(m, IEEE80211_STYPE_ACTION))
                 /\ Holds(data, p + 26, Field(m.oui, 3))
                 /\ Holds(data, p + 29, Field(m.oui_type, 1))
<1> DEFINE x1 == ieee80211_add_nan_header(m, IEEE80211_STYPE_ACTION)
           y2 == Opaque(2)
           y3 == Field(m.oui, 3)
           y4 == Field(m.oui_type, 1)
           y5 == Opaque(1)
           x2 == x1 \o y2
           x3 == x2 \o y3
           x4 == x3 \o y4
           x5 == x4 \o y5
<1>1. /\ Size(x1, 24)
      /\ Size(y2, 2)
      /\ Size(y3, 3)
      /\ Size(y4, 1)
      /\ Size(y5, 1)
  BY FieldSize, NanHeader DEF Opaque
<1>2. /\ Joined(x2, x1, y2)
      /\ Joined(x3, x2, y3)
      /\ Joined(x4, x3, y4)
      /\ Joined(x5, x4, y5)
  BY DEF Joined
<1>3. ActionFrame(m) = x5
  BY DEF ActionFrame
<1> HIDE DEF x1, y2, y3, y4, y5, x2, x3, x4, x5
<1>4. Size(x2, 26)
  BY <1>1, <1>2, JoinedSize
<1>5. Size(x3, 29)
  BY <1>1, <1>2, <1>4, JoinedSize
<1>6. Size(x4, 30)
  BY <1>1, <1>2, <1>5, JoinedSize
<1>7. Size(x5, 31)
  BY <1>1, <1>2, <1>6, JoinedSize
<1>8. ASSUME NEW data, NEW p \in Nat, Holds(data, p, x5)
      PROVE  /\ Holds(data, p, x1)
             /\ Holds(data, p + 26, y3)
             /\ Holds(data, p + 29, y4)
  <2>1. Holds(data, p, x4)
    BY <1>1, <1>2, <1>6, <1>8, JoinedHolds
  <2>2. Holds(data, p, x3) /\ Holds(data, p + 29, y4)
    BY <1>1, <1>2, <1>5, <2>1, JoinedHolds
  <2>3. Holds(data, p, x2) /\ Holds(data, p + 26, y3)
    BY <1>1, <1>2, <1>4, <2>2, JoinedHolds
  <2>4. Holds(data, p, x1)
    BY <1>1, <1>2, <2>3, JoinedHolds
  <2> QED
    BY <2>2, <2>3, <2>4
<1> QED
  BY <1>3, <1>7, <1>8 DEF x1, y2, y3, y4, y5

\* A data frame.
LEMMA DataHeader ==
    ASSUME NEW m
    PROVE  LET h == DataFrame(m) IN
           /\ Size(h, 26)
           /\ \A data : \A p \in Nat : Holds(data, p, h) =>
                 /\ Holds(data, p, ieee80211_add_nan_header(m, 8))
<1> DEFINE x1 == ieee80211_add_nan_header(m, 8)
           y2 == Opaque(2)
           x2 == x1 \o y2
<1>1. /\ Size(x1, 24)
      /\ Size(y2, 2)
  BY FieldSize, NanHeader DEF Opaque
<1>2. /\ Joined(x2, x1, y2)
  BY DEF Joined
<1>3. DataFrame(m) = x2
  BY DEF DataFrame
<1> HIDE DEF x1, y2, x2
<1>4. Size(x2, 26)
  BY <1>1, <1>2, JoinedSize
<1>5. ASSUME NEW data, NEW p \in Nat, Holds(data, p, x2)
      PROVE  /\ Holds(data, p, x1)
  <2>1. Holds(data, p, x1)
    BY <1>1, <1>2, <1>5, JoinedHolds
  <2> QED
    BY <2>1
<1> QED
  BY <1>3, <1>4, <1>5 DEF x1, y2

----------------------------------------------------------------------------
(* Attributes. *)

\* Nothing is a sequence of no items.
LEMMA EmptySize == Size(<<>>, 0)
<1>1. <<>> = [ i \in 1 .. 0 |-> <<>>[i] ]
  OBVIOUS
<1> QED
  BY <1>1, MakeSeq DEF Size

\* It does not matter which two of three are joined first.
LEMMA Associative ==
    ASSUME NEW a, NEW b, NEW c, IsSeq(a), IsSeq(b), IsSeq(c)
    PROVE  (a \o b) \o c = a \o (b \o c)
<1> DEFINE S == Range(a) \cup Range(b) \cup Range(c)
<1>1. ASSUME NEW s, IsSeq(s), Range(s) \subseteq S
      PROVE  s \in Seq(S)
  <2>1. \A i \in 1 .. Len(s) : s[i] \in S
    BY <1>1, SeqFacts DEF Range
  <2>2. s \in [1 .. Len(s) -> S]
    BY <1>1, <2>1, SeqFacts
  <2> HIDE DEF S
  <2> QED
    BY <1>1, <2>2, SeqFacts
<1>2. a \in Seq(S) /\ b \in Seq(S) /\ c \in Seq(S)
  BY <1>1
<1> HIDE DEF S
<1> QED
  BY <1>2, ConcatAssociative

\* An attribute's parts (Attribute).
LEMMA AttributeLies ==
    ASSUME NEW id, NEW n \in Nat, NEW c, Size(c, n)
    PROVE  /\ Size(Attribute(id, c), 3 + n)
           /\ \A data : \A p \in Nat : Holds(data, p, Attribute(id, c)) =>
                 /\ Holds(data, p, Field(id, 1))
                 /\ Holds(data, p + 1, Field(n, 2))
                 /\ Holds(data, p + 3, c)
<1> DEFINE x1 == Field(id, 1)
           y2 == Field(n, 2)
           x2 == x1 \o y2
           x3 == x2 \o c
<1>1. Size(x1, 1) /\ Size(y2, 2) /\ Size(c, n)
  BY FieldSize
<1>2. Joined(x2, x1, y2) /\ Joined(x3, x2, c)
  BY DEF Joined
<1>3. Attribute(id, c) = x3
  BY DEF Attribute, Size
<1> HIDE DEF x1, y2, x2, x3
<1>4. Size(x2, 3)
  BY <1>1, <1>2, JoinedSize
<1>5. Size(x3, 3 + n)
  BY <1>1, <1>2, <1>4, JoinedSize
<1>6. ASSUME NEW data, NEW p \in Nat, Holds(data, p, x3)
      PROVE  Holds(data, p, x1) /\ Holds(data, p + 1, y2) /\ Holds(data, p + 3, c)
  <2>1. Holds(data, p, x2) /\ Holds(data, p + 3, c)
    BY <1>1, <1>2, <1>4, <1>6, JoinedHolds
  <2>2. Holds(data, p, x1) /\ Holds(data, p + 1, y2)
    BY <1>1, <1>2, <2>1, JoinedHolds
  <2> QED
    BY <2>1, <2>2
<1> QED
  BY <1>3, <1>5, <1>6 DEF x1, y2

\* Everything lies at the start of itself.
LEMMA HoldsItself ==
    ASSUME NEW s, IsSeq(s)
    PROVE  Holds(s, 0, s)
BY SeqFacts DEF Holds

\* The contents of the attributes.
MasterContents(m) == Field(m.master_preference, 1) \o Field(m.random_factor, 1)

ClusterContents(m) ==
    Field(m.anchor_master_rank, 8) \o Field(m.hop_count, 1) \o Field(m.ambtt, 4)

SdaContents(s) ==
    Field(s.service_id, 6) \o Field(s.instance_id, 1)
        \o Field(s.requestor_instance_id, 1) \o Field(ControlOf(s), 1)
        \o Foreign(s)
        \o IF InfoFits(s) THEN InfoOf(s, 1) ELSE <<>>

SdeaContents(s) ==
    Field(s.instance_id, 1)
        \o Field(Bit(s.range, RANGE_LIMIT) + Bit(s.published, UPDATE_INDICATOR), 2)
        \o (IF s.range THEN Opaque(4) ELSE <<>>)
        \o (IF s.published THEN Field(s.update_indicator, 1) ELSE <<>>)
        \o (IF s.info >= InfoLimit THEN InfoOf(s, 2) ELSE <<>>)
        \o IF s.miscounted >= 0 THEN Field(s.miscounted, 2) \o Opaque(5) ELSE <<>>

\* A message's attributes, each with its length written for its contents.
LEMMA MasterAttribute ==
    ASSUME NEW m
    PROVE  /\ Size(MasterContents(m), 2)
           /\ nan_add_master_indication_attribute(m)
                  = Attribute(MASTER_INDICATION_ATTRIBUTE, MasterContents(m))
           /\ \A data : \A p \in Nat : Holds(data, p, MasterContents(m)) =>
                 /\ Holds(data, p, Field(m.master_preference, 1))
                 /\ Holds(data, p + 1, Field(m.random_factor, 1))
<1> DEFINE a == Field(MASTER_INDICATION_ATTRIBUTE, 1) \o Field(2, 2)
           b == Field(m.master_preference, 1)
           c == Field(m.random_factor, 1)
<1>1. Size(a, 3) /\ Size(b, 1) /\ Size(c, 1)
  <2>1. Joined(a, Field(MASTER_INDICATION_ATTRIBUTE, 1), Field(2, 2))
    BY DEF Joined
  <2> HIDE DEF a
  <2> QED
    BY <2>1, FieldSize, JoinedSize
<1>2. nan_add_master_indication_attribute(m) = (a \o b) \o c
  BY DEF nan_add_master_indication_attribute
<1>3. Joined(MasterContents(m), b, c)
  BY DEF Joined, MasterContents
<1>4. Attribute(MASTER_INDICATION_ATTRIBUTE, MasterContents(m))
          = Field(MASTER_INDICATION_ATTRIBUTE, 1) \o Field(Len(MasterContents(m)), 2)
                \o MasterContents(m)
  BY DEF Attribute
<1>5. Size(MasterContents(m), 2)
  <2> HIDE DEF a, b, c
  <2> QED
    BY <1>1, <1>3, JoinedSize
<1>6. Attribute(MASTER_INDICATION_ATTRIBUTE, MasterContents(m)) = a \o (b \o c)
  BY <1>4, <1>5 DEF MasterContents, Size
<1> HIDE DEF a, b, c
<1>7. (a \o b) \o c = a \o (b \o c)
  BY <1>1, Associative DEF Size
<1>8. ASSUME NEW data, NEW p \in Nat, Holds(data, p, MasterContents(m))
      PROVE  Holds(data, p, b) /\ Holds(data, p + 1, c)
  BY <1>1, <1>3, <1>8, JoinedHolds
<1> QED
  BY <1>2, <1>5, <1>6, <1>7, <1>8 DEF b, c

\* The second of a beacon (nan_add_cluster_attribute).
LEMMA ClusterAttribute ==
    ASSUME NEW m
    PROVE  /\ Size(ClusterContents(m), 13)
           /\ nan_add_cluster_attribute(m) = Attribute(CLUSTER_ATTRIBUTE, ClusterContents(m))
           /\ \A data : \A p \in Nat : Holds(data, p, ClusterContents(m)) =>
                 /\ Holds(data, p, Field(m.anchor_master_rank, 8))
                 /\ Holds(data, p + 8, Field(m.hop_count, 1))
                 /\ Holds(data, p + 9, Field(m.ambtt, 4))
<1> DEFINE a == Field(CLUSTER_ATTRIBUTE, 1) \o Field(13, 2)
           b == Field(m.anchor_master_rank, 8)
           c == Field(m.hop_count, 1)
           d == Field(m.ambtt, 4)
           e == b \o c
<1>1. Size(a, 3) /\ Size(b, 8) /\ Size(c, 1) /\ Size(d, 4)
  <2>1. Joined(a, Field(CLUSTER_ATTRIBUTE, 1), Field(13, 2))
    BY DEF Joined
  <2> HIDE DEF a
  <2> QED
    BY <2>1, FieldSize, JoinedSize
<1>2. nan_add_cluster_attribute(m) = ((a \o b) \o c) \o d
  BY DEF nan_add_cluster_attribute
<1>3. Joined(e, b, c) /\ Joined(ClusterContents(m), e, d) /\ ClusterContents(m) = e \o d
  BY DEF Joined, ClusterContents
<1>4. Attribute(CLUSTER_ATTRIBUTE, ClusterContents(m))
          = Field(CLUSTER_ATTRIBUTE, 1) \o Field(Len(ClusterContents(m)), 2)
                \o ClusterContents(m)
  BY DEF Attribute
<1>5. Size(e, 9)
  <2> HIDE DEF a, b, c, d, e
  <2> QED
    BY <1>1, <1>3, JoinedSize
<1>6. Size(ClusterContents(m), 13)
  <2> HIDE DEF a, b, c, d, e
  <2> QED
    BY <1>1, <1>3, <1>5, JoinedSize
<1>7. Attribute(CLUSTER_ATTRIBUTE, ClusterContents(m)) = a \o (e \o d)
  BY <1>3, <1>4, <1>6 DEF Size
<1> HIDE DEF a, b, c, d
<1>8. (a \o b) \o c = a \o e
  BY <1>1, Associative DEF Size
<1> HIDE DEF e
<1>9. (a \o e) \o d = a \o (e \o d)
  BY <1>1, <1>5, Associative DEF Size
<1>10. ASSUME NEW data, NEW p \in Nat, Holds(data, p, ClusterContents(m))
       PROVE  Holds(data, p, b) /\ Holds(data, p + 8, c) /\ Holds(data, p + 9, d)
  <2>1. Holds(data, p, e) /\ Holds(data, p + 9, d)
    BY <1>1, <1>3, <1>5, <1>10, JoinedHolds
  <2> QED
    BY <1>1, <1>3, <2>1, JoinedHolds
<1> QED
  BY <1>2, <1>6, <1>7, <1>8, <1>9, <1>10 DEF b, c, d

----------------------------------------------------------------------------
(* Service descriptors. *)

\* The bits of a control field are told apart.
LEMMA ControlBits ==
    ASSUME NEW t \in 0 .. 3, NEW a \in {0, 4}, NEW b \in {0, 8}, NEW c \in {0, 16},
           NEW d \in {0, 64}
    PROVE  LET x == t + a + b + c + d IN
           /\ x \in Nat /\ (x % 4) = t
           /\ ((x \div 4) % 2 = 1) <=> a = 4
           /\ ((x \div 8) % 2 = 1) <=> b = 8
           /\ ((x \div 16) % 2 = 1) <=> c = 16
           /\ ((x \div 64) % 2 = 1) <=> d = 64
<1>1. t \in {0, 1, 2, 3}
  OBVIOUS
<1> QED
  BY <1>1, SMTT(60)

\* The control field of a service descriptor says which parts it has.
LEMMA SdaControl ==
    ASSUME NEW s, IsService(s)
    PROVE  /\ ControlOf(s) \in Nat
           /\ (ControlOf(s) % 4) = s.control_type
           /\ Has(ControlOf(s), MATCHING_FILTER) <=> s.matching
           /\ Has(ControlOf(s), RESPONSE_FILTER) <=> s.response
           /\ Has(ControlOf(s), SERVICE_INFO) <=> InfoFits(s)
           /\ Has(ControlOf(s), BINDING_BITMAP) <=> s.binding
<1> DEFINE t == s.control_type
           a == Bit(s.matching, MATCHING_FILTER)
           b == Bit(s.response, RESPONSE_FILTER)
           c == Bit(InfoFits(s), SERVICE_INFO)
           d == Bit(s.binding, BINDING_BITMAP)
<1>1. t \in 0 .. 3
  BY DEF IsService
<1>2. /\ a \in {0, 4} /\ (a = 4 <=> s.matching)
      /\ b \in {0, 8} /\ (b = 8 <=> s.response)
      /\ c \in {0, 16} /\ (c = 16 <=> InfoFits(s))
      /\ d \in {0, 64} /\ (d = 64 <=> s.binding)
  BY DEF Bit, MATCHING_FILTER, RESPONSE_FILTER, SERVICE_INFO, BINDING_BITMAP
<1>3. ControlOf(s) = t + a + b + c + d
  BY DEF ControlOf
<1> HIDE DEF t, a, b, c, d
<1>4. /\ ControlOf(s) \in Nat /\ (ControlOf(s) % 4) = t
      /\ ((ControlOf(s) \div 4) % 2 = 1) <=> a = 4
      /\ ((ControlOf(s) \div 8) % 2 = 1) <=> b = 8
      /\ ((ControlOf(s) \div 16) % 2 = 1) <=> c = 16
      /\ ((ControlOf(s) \div 64) % 2 = 1) <=> d = 64
  BY <1>1, <1>2, <1>3, ControlBits
<1> QED
  BY <1>2, <1>4
     DEF Has, t, MATCHING_FILTER, RESPONSE_FILTER, SERVICE_INFO, BINDING_BITMAP

\* The lengths of the parts that may be missing.
BindingSize(s) == IF s.binding THEN 2 ELSE 0

MatchingSize(s) == IF s.matching THEN 2 ELSE 0

ResponseSize(s) == IF s.response THEN 3 ELSE 0

InfoSize(s) == IF InfoFits(s) THEN 1 + s.info ELSE 0

\* A filter is its length and that much (nan_parse_sda skips it).
LEMMA FilterLies ==
    ASSUME NEW length \in Nat
    PROVE  /\ Size(Filter(length), 1 + length)
           /\ \A data : \A p \in Nat :
                 Holds(data, p, Filter(length)) => Holds(data, p, Field(length, 1))
<1>1. Joined(Filter(length), Field(length, 1), Opaque(length))
  BY DEF Joined, Filter
<1>2. Size(Field(length, 1), 1) /\ Size(Opaque(length), length)
  BY FieldSize DEF Opaque
<1> QED
  BY <1>1, <1>2, JoinedSize, JoinedHolds

\* An info follows its length.
LEMMA InfoLies ==
    ASSUME NEW s, s.info \in Nat, NEW width \in Nat
    PROVE  /\ Size(InfoOf(s, width), width + s.info)
           /\ \A data : \A p \in Nat : Holds(data, p, InfoOf(s, width)) =>
                 /\ Holds(data, p, Field(s.info, width))
                 /\ Holds(data, p + width, Field(Info, s.info))
<1>1. Joined(InfoOf(s, width), Field(s.info, width), Field(Info, s.info))
  BY DEF Joined, InfoOf
<1>2. Size(Field(s.info, width), width) /\ Size(Field(Info, s.info), s.info)
  BY FieldSize
<1> QED
  BY <1>1, <1>2, JoinedSize, JoinedHolds

\* What may precede the info.
LEMMA ForeignLies ==
    ASSUME NEW s
    PROVE  LET b == BindingSize(s)
               n == b + MatchingSize(s) IN
           /\ b \in Nat /\ n \in Nat
           /\ Size(Foreign(s), n + ResponseSize(s))
           /\ \A data : \A p \in Nat : Holds(data, p, Foreign(s)) =>
                 /\ s.matching => Holds(data, p + b, Field(1, 1))
                 /\ s.response => Holds(data, p + n, Field(2, 1))
<1> DEFINE x1 == IF s.binding THEN Opaque(2) ELSE <<>>
           y2 == IF s.matching THEN Filter(1) ELSE <<>>
           y3 == IF s.response THEN Filter(2) ELSE <<>>
           x2 == x1 \o y2
           b == BindingSize(s)
           m == MatchingSize(s)
           r == ResponseSize(s)
<1>1. b \in Nat /\ m \in Nat /\ r \in Nat
  BY DEF BindingSize, MatchingSize, ResponseSize
<1>2. Size(x1, b)
  BY FieldSize, EmptySize DEF BindingSize, Opaque
<1>3. Size(y2, m)
  <2>1. Size(Filter(1), 1 + 1) /\ 1 + 1 = 2
    BY FilterLies
  <2> QED
    BY <2>1, EmptySize DEF MatchingSize
<1>4. Size(y3, r)
  <2>1. Size(Filter(2), 1 + 2) /\ 1 + 2 = 3
    BY FilterLies
  <2> QED
    BY <2>1, EmptySize DEF ResponseSize
<1>5. Joined(x2, x1, y2) /\ Joined(Foreign(s), x2, y3)
  BY DEF Joined, Foreign
<1>6. (s.matching => y2 = Filter(1)) /\ (s.response => y3 = Filter(2))
  OBVIOUS
<1> HIDE DEF x1, y2, y3, x2, b, m, r
<1>7. Size(x2, b + m) /\ b + m \in Nat
  BY <1>1, <1>2, <1>3, <1>5, JoinedSize
<1>8. Size(Foreign(s), b + m + r)
  BY <1>1, <1>4, <1>5, <1>7, JoinedSize
<1>9. ASSUME NEW data, NEW p \in Nat, Holds(data, p, Foreign(s))
      PROVE  /\ s.matching => Holds(data, p + b, Field(1, 1))
             /\ s.response => Holds(data, p + (b + m), Field(2, 1))
  <2>1. Holds(data, p, x2) /\ Holds(data, p + (b + m), y3)
    BY <1>1, <1>4, <1>5, <1>7, <1>9, JoinedHolds
  <2>2. Holds(data, p + b, y2)
    BY <1>1, <1>2, <1>3, <1>5, <2>1, JoinedHolds
  <2>3. p + b \in Nat /\ p + (b + m) \in Nat
    BY <1>1
  <2>4. s.matching => Holds(data, p + b, Field(1, 1))
    BY <1>6, <2>2, <2>3, FilterLies
  <2>5. s.response => Holds(data, p + (b + m), Field(2, 1))
    BY <1>6, <2>1, <2>3, FilterLies
  <2> QED
    BY <2>4, <2>5
<1> QED
  BY <1>1, <1>7, <1>8, <1>9 DEF b, m, r

\* Where the info of a service descriptor starts.
InfoStart(s) == 9 + BindingSize(s) + MatchingSize(s) + ResponseSize(s)

\* The parts of a service descriptor (nan_add_service_descriptor_attribute).
LEMMA SdaLies ==
    ASSUME NEW s, IsService(s)
    PROVE  /\ InfoStart(s) \in Nat /\ InfoSize(s) \in Nat
           /\ Size(SdaContents(s), InfoStart(s) + InfoSize(s))
           /\ \A data : Holds(data, 0, SdaContents(s)) =>
                 /\ Holds(data, 0, Field(s.service_id, 6))
                 /\ Holds(data, 6, Field(s.instance_id, 1))
                 /\ Holds(data, 7, Field(s.requestor_instance_id, 1))
                 /\ Holds(data, 8, Field(ControlOf(s), 1))
                 /\ s.matching => Holds(data, 9 + BindingSize(s), Field(1, 1))
                 /\ s.response =>
                        Holds(data, 9 + BindingSize(s) + MatchingSize(s), Field(2, 1))
                 /\ InfoFits(s) =>
                        /\ s.info \in Nat
                        /\ Holds(data, InfoStart(s), Field(s.info, 1))
                        /\ Holds(data, InfoStart(s) + 1, Field(Info, s.info))
<1> DEFINE x1 == Field(s.service_id, 6)
           y2 == Field(s.instance_id, 1)
           y3 == Field(s.requestor_instance_id, 1)
           y4 == Field(ControlOf(s), 1)
           y5 == Foreign(s)
           y6 == IF InfoFits(s) THEN InfoOf(s, 1) ELSE <<>>
           x2 == x1 \o y2
           x3 == x2 \o y3
           x4 == x3 \o y4
           x5 == x4 \o y5
           b == BindingSize(s)
           n == b + MatchingSize(s)
           f == n + ResponseSize(s)
           i == InfoSize(s)
<1>1. Size(x1, 6) /\ Size(y2, 1) /\ Size(y3, 1) /\ Size(y4, 1)
  BY FieldSize
<1>2. /\ b \in Nat /\ n \in Nat /\ f \in Nat
      /\ InfoStart(s) = 9 + f /\ 9 + b + MatchingSize(s) = 9 + n
  BY DEF BindingSize, MatchingSize, ResponseSize, InfoStart
<1>3. /\ Size(y5, f)
      /\ \A data : \A p \in Nat : Holds(data, p, y5) =>
             /\ s.matching => Holds(data, p + b, Field(1, 1))
             /\ s.response => Holds(data, p + n, Field(2, 1))
  BY ForeignLies
<1>4. InfoFits(s) => s.info \in Nat
  BY DEF IsService, InfoFits
<1>5. i \in Nat /\ Size(y6, i)
  <2>1. CASE InfoFits(s)
    BY <1>4, <2>1, InfoLies DEF InfoSize
  <2>2. CASE ~InfoFits(s)
    BY <2>2, EmptySize DEF InfoSize
  <2> QED
    BY <2>1, <2>2
<1>6. InfoFits(s) => y6 = InfoOf(s, 1)
  OBVIOUS
<1>7. /\ Joined(x2, x1, y2) /\ Joined(x3, x2, y3) /\ Joined(x4, x3, y4)
      /\ Joined(x5, x4, y5) /\ Joined(SdaContents(s), x5, y6)
  BY DEF Joined, SdaContents
<1> HIDE DEF x1, y2, y3, y4, y5, y6, x2, x3, x4, x5, b, n, f, i
<1>8. Size(x2, 7)
  BY <1>1, <1>7, JoinedSize
<1>9. Size(x3, 8)
  BY <1>1, <1>7, <1>8, JoinedSize
<1>10. Size(x4, 9)
  BY <1>1, <1>7, <1>9, JoinedSize
<1>11. Size(x5, 9 + f) /\ 9 + f \in Nat
  BY <1>2, <1>3, <1>7, <1>10, JoinedSize
<1>12. Size(SdaContents(s), 9 + f + i)
  BY <1>5, <1>7, <1>11, JoinedSize
<1>13. ASSUME NEW data, Holds(data, 0, SdaContents(s))
       PROVE  /\ Holds(data, 0, x1) /\ Holds(data, 6, y2) /\ Holds(data, 7, y3)
              /\ Holds(data, 8, y4)
              /\ s.matching => Holds(data, 9 + b, Field(1, 1))
              /\ s.response => Holds(data, 9 + n, Field(2, 1))
              /\ InfoFits(s) => /\ Holds(data, 9 + f, Field(s.info, 1))
                                /\ Holds(data, 9 + f + 1, Field(Info, s.info))
  <2>1. Holds(data, 0, x5) /\ Holds(data, 0 + (9 + f), y6)
    BY <1>5, <1>7, <1>11, <1>13, JoinedHolds
  <2>2. Holds(data, 0, x4) /\ Holds(data, 0 + 9, y5)
    BY <1>2, <1>3, <1>7, <1>10, <2>1, JoinedHolds
  <2>3. Holds(data, 0, x3) /\ Holds(data, 0 + 8, y4)
    BY <1>1, <1>7, <1>9, <2>2, JoinedHolds
  <2>4. Holds(data, 0, x2) /\ Holds(data, 0 + 7, y3)
    BY <1>1, <1>7, <1>8, <2>3, JoinedHolds
  <2>5. Holds(data, 0, x1) /\ Holds(data, 0 + 6, y2)
    BY <1>1, <1>7, <2>4, JoinedHolds
  <2>6. /\ s.matching => Holds(data, 9 + b, Field(1, 1))
        /\ s.response => Holds(data, 9 + n, Field(2, 1))
    BY <1>3, <2>2
  <2>7. InfoFits(s) => /\ Holds(data, 9 + f, Field(s.info, 1))
                       /\ Holds(data, 9 + f + 1, Field(Info, s.info))
    <3>1. 0 + (9 + f) = 9 + f
      BY <1>11
    <3> QED
      BY <1>4, <1>6, <1>11, <2>1, <3>1, InfoLies
  <2>8. 0 + 8 = 8 /\ 0 + 7 = 7 /\ 0 + 6 = 6
    OBVIOUS
  <2> QED
    BY <2>3, <2>4, <2>5, <2>6, <2>7, <2>8
<1>14. SdaContents(s) = SdaContents(s) /\ Size(SdaContents(s), InfoStart(s) + InfoSize(s))
  BY <1>2, <1>12 DEF i
<1> QED
  BY <1>2, <1>4, <1>5, <1>11, <1>13, <1>14 DEF x1, y2, y3, y4, b, n, i

----------------------------------------------------------------------------
(* Reading what was written. *)

\* A buffer of c, whose n items may be read, at a position.
Standing(c, n, pos) ==
    [ data |-> c, size |-> n, current |-> pos, end |-> n, error |-> FALSE ]

\* It starts so (buf_new_const).
LEMMA StandingNew ==
    ASSUME NEW c, NEW n
    PROVE  buf_new_const(c, n) = Standing(c, n, 0)
BY DEF buf_new_const, Standing

\* A reader for which enough is left moves on (buf_advance).
LEMMA StandingAdvance ==
    ASSUME NEW c, NEW n \in Nat, NEW pos \in Nat, NEW w \in Nat, pos + w <= n
    PROVE  /\ buf_advance(Standing(c, n, pos), w) = Standing(c, n, pos + w)
           /\ read(Standing(c, n, pos), w) = Standing(c, n, pos + w)
<1> DEFINE b == Standing(c, n, pos)
<1>1. b = [ data |-> c, size |-> n, current |-> pos, end |-> n, error |-> FALSE ]
  BY DEF Standing
<1>2. ~(w > buf_rest(b))
  BY <1>1 DEF buf_rest, buf_position
<1>3. buf_advance(b, w) = [ b EXCEPT !.current = pos + w ]
  BY <1>1, <1>2 DEF buf_advance
<1>4. InBounds(b)
  BY <1>1 DEF InBounds
<1> HIDE DEF b
<1>5. [ b EXCEPT !.current = pos + w ]
          = [ data |-> b.data, size |-> b.size, current |-> pos + w,
              end |-> b.end, error |-> b.error ]
  BY <1>4, Updates
<1>6. [ b EXCEPT !.current = pos + w ] = Standing(c, n, pos + w)
  BY <1>1, <1>5 DEF Standing
<1> QED
  BY <1>3, <1>6 DEF read, b

\* It is within bounds.
LEMMA StandingInBounds ==
    ASSUME NEW c, NEW n \in Nat, NEW pos \in Nat, pos <= n
    PROVE  /\ InBounds(Standing(c, n, pos))
           /\ Standing(c, n, pos).data = c /\ Standing(c, n, pos).current = pos
           /\ Standing(c, n, pos).end = n /\ Standing(c, n, pos).error = FALSE
BY DEF Standing, InBounds

\* It reads the numbers and the bytes that lie ahead.
LEMMA StandingRead ==
    ASSUME NEW c, NEW n \in Nat, Size(c, n), NEW pos \in Nat, NEW o \in Nat
    PROVE  /\ \A value \in Nat : \A w \in Nat \ {0} : \A garbage :
                 Holds(c, pos + o, Field(value, w)) /\ pos + o + w <= n
                     => value_at(Standing(c, n, pos), o, w, garbage) = value
           /\ \A value : \A w \in Nat :
                 Holds(c, pos + o, Field(value, w)) /\ pos + o + w <= n
                     => bytes_at(Standing(c, n, pos), o, w) = Field(value, w)
<1> DEFINE b == Standing(c, n, pos)
<1>0. pos <= n => InBounds(b) /\ b.data = c /\ b.current = pos /\ b.end = n
  <2> SUFFICES ASSUME pos <= n
               PROVE  InBounds(b) /\ b.data = c /\ b.current = pos /\ b.end = n
    OBVIOUS
  <2>1. n \in Nat /\ pos \in Nat
    OBVIOUS
  <2>2. InBounds(Standing(c, n, pos))
    BY <2>1, StandingInBounds
  <2>3. b.data = c /\ b.current = pos /\ b.end = n
    BY DEF Standing
  <2> QED
    BY <2>2, <2>3
<1>1. ASSUME NEW value \in Nat, NEW w \in Nat \ {0}, NEW garbage,
             Holds(c, pos + o, Field(value, w)), pos + o + w <= n
      PROVE  value_at(b, o, w, garbage) = value
  <2>1. pos <= n /\ o + w <= n - pos
    BY <1>1
  <2>2. InBounds(b) /\ b.data = c /\ b.current = pos /\ b.end = n
    BY <1>0, <2>1
  <2> HIDE DEF b
  <2> QED
    BY <1>1, <2>1, <2>2, NumberRead
<1>2. ASSUME NEW value, NEW w \in Nat, Holds(c, pos + o, Field(value, w)), pos + o + w <= n
      PROVE  bytes_at(b, o, w) = Field(value, w)
  <2>1. pos <= n /\ o + w <= n - pos
    BY <1>2
  <2>2. InBounds(b) /\ b.data = c /\ b.current = pos /\ b.end = n
    BY <1>0, <2>1
  <2>3. IsSeq(c) /\ Len(c) = n
    BY DEF Size
  <2>4. IsSeq(Field(value, w)) /\ Len(Field(value, w)) = w
    BY FieldSeq
  <2> DEFINE f == Field(value, w)
  <2>5. IsSeq(f) /\ Len(f) = w /\ Holds(c, pos + o, f)
    BY <1>2, <2>4
  <2> HIDE DEF b, f
  <2>6. bytes_at(b, o, Len(f)) = f
    <3>1. /\ IsSeq(b.data) /\ b.end <= Len(b.data) /\ Holds(b.data, b.current + o, f)
          /\ o + Len(f) <= b.end - b.current
      BY <2>1, <2>2, <2>3, <2>5
    <3> QED
      BY <2>2, <2>5, <3>1, BytesRead
  <2> QED
    BY <2>5, <2>6 DEF f
<1> QED
  BY <1>1, <1>2

(***************************************************************************)
(* A service descriptor is read to its end, and tells what was written     *)
(* (nan_parse_sda, nan_add_service_descriptor_attribute).                  *)
(***************************************************************************)
LEMMA SdaRead ==
    ASSUME NEW s, IsService(s), NEW n \in Nat, Size(SdaContents(s), n), NEW garbage
    PROVE  LET b == buf_new_const(SdaContents(s), n) IN
           /\ nan_parse_sda(b, garbage) = Standing(SdaContents(s), n, n)
           /\ Descriptor(b, garbage) = DescriptorValue(s)
<1> DEFINE c == SdaContents(s)
           b == buf_new_const(c, n)
           f1 == BindingSize(s)
           f2 == MatchingSize(s)
           f3 == ResponseSize(s)
           at(pos) == Standing(c, n, pos)
           control == ControlOf(s)
<1>1. b = at(0)
  BY StandingNew
<1>2. f1 \in Nat /\ f2 \in Nat /\ f3 \in Nat /\ InfoSize(s) \in Nat
  BY SdaLies DEF BindingSize, MatchingSize, ResponseSize
<1>3. n = 9 + f1 + f2 + f3 + InfoSize(s) /\ InfoStart(s) = 9 + f1 + f2 + f3
  BY SdaLies DEF Size, InfoStart
<1>4. Holds(c, 0, c) /\ IsSeq(c)
  BY HoldsItself DEF Size
<1>5. /\ Holds(c, 0, Field(s.service_id, 6))
      /\ Holds(c, 6, Field(s.instance_id, 1))
      /\ Holds(c, 7, Field(s.requestor_instance_id, 1))
      /\ Holds(c, 8, Field(ControlOf(s), 1))
      /\ s.matching => Holds(c, 9 + f1, Field(1, 1))
      /\ s.response => Holds(c, 9 + f1 + f2, Field(2, 1))
      /\ InfoFits(s) => /\ s.info \in Nat
                        /\ Holds(c, 9 + f1 + f2 + f3, Field(s.info, 1))
                        /\ Holds(c, 9 + f1 + f2 + f3 + 1, Field(Info, s.info))
  BY <1>3, <1>4, SdaLies
<1>6. /\ control \in Nat
      /\ (control % 4) = s.control_type
      /\ Has(control, MATCHING_FILTER) <=> s.matching
      /\ Has(control, RESPONSE_FILTER) <=> s.response
      /\ Has(control, SERVICE_INFO) <=> InfoFits(s)
      /\ Has(control, BINDING_BITMAP) <=> s.binding
  BY SdaControl
<1>7. s.instance_id \in Nat /\ s.requestor_instance_id \in Nat
  BY DEF IsService
<1>8. Size(c, n)
  OBVIOUS
<1>9. /\ f1 = (IF s.binding THEN 2 ELSE 0) /\ f2 = (IF s.matching THEN 2 ELSE 0)
      /\ f3 = (IF s.response THEN 3 ELSE 0)
      /\ InfoSize(s) = (IF InfoFits(s) THEN 1 + s.info ELSE 0)
  BY DEF BindingSize, MatchingSize, ResponseSize, InfoSize
<1> HIDE DEF c, f1, f2, f3, control
<1>10. /\ value_at(at(0), 8, 1, garbage) = control
       /\ value_at(at(0), 6, 1, garbage) = s.instance_id
       /\ value_at(at(0), 7, 1, garbage) = s.requestor_instance_id
       /\ bytes_at(at(0), 0, 6) = Field(s.service_id, 6)
  <2>1. 0 + 8 = 8 /\ 0 + 6 = 6 /\ 0 + 7 = 7 /\ 0 + 0 = 0
    OBVIOUS
  <2>2. 0 + 8 + 1 <= n /\ 0 + 6 + 1 <= n /\ 0 + 7 + 1 <= n /\ 0 + 0 + 6 <= n
    BY <1>2, <1>3
  <2>3. Holds(c, 0 + 8, Field(control, 1))
    BY <1>5, <2>1 DEF control
  <2>4. value_at(at(0), 8, 1, garbage) = control
    <3>1. control \in Nat
      BY <1>6
    <3> QED
      BY <1>8, <2>2, <2>3, <3>1, StandingRead
  <2>5. value_at(at(0), 6, 1, garbage) = s.instance_id
    BY <1>5, <1>7, <1>8, <2>1, <2>2, StandingRead
  <2>6. value_at(at(0), 7, 1, garbage) = s.requestor_instance_id
    BY <1>5, <1>7, <1>8, <2>1, <2>2, StandingRead
  <2>7. bytes_at(at(0), 0, 6) = Field(s.service_id, 6)
    BY <1>5, <1>8, <2>1, <2>2, StandingRead
  <2> QED
    BY <2>4, <2>5, <2>6, <2>7
<1>11. read(at(0), 9) = at(9)
  BY <1>2, <1>3, StandingAdvance
<1>12. (IF s.binding THEN buf_advance(at(9), 2) ELSE at(9)) = at(9 + f1)
  <2>1. CASE s.binding
    <3>1. f1 = 2 /\ 9 + 2 <= n
      BY <1>2, <1>3, <1>9, <2>1
    <3> QED
      BY <2>1, <3>1, StandingAdvance
  <2>2. CASE ~s.binding
    BY <1>9, <2>2
  <2> QED
    BY <2>1, <2>2
<1>13. (IF s.matching THEN SkipCounted(at(9 + f1), garbage) ELSE at(9 + f1)) = at(9 + f1 + f2)
  <2>1. CASE s.matching
    <3>1. f2 = 2 /\ 9 + f1 + 1 + 1 <= n /\ 9 + f1 \in Nat /\ 9 + f1 + 1 \in Nat
      BY <1>2, <1>3, <1>9, <2>1
    <3>2. value_at(at(9 + f1), 0, 1, garbage) = 1
      <4>1. 9 + f1 + 0 = 9 + f1 /\ 9 + f1 + 0 + 1 <= n
        BY <3>1
      <4> QED
        BY <1>5, <1>8, <2>1, <3>1, <4>1, StandingRead
    <3>3. read(at(9 + f1), 1) = at(9 + f1 + 1)
      BY <3>1, StandingAdvance
    <3>4. buf_advance(at(9 + f1 + 1), 1) = at(9 + f1 + 1 + 1)
      BY <3>1, StandingAdvance
    <3>5. 9 + f1 + 1 + 1 = 9 + f1 + f2
      BY <1>2, <3>1
    <3> QED
      BY <2>1, <3>2, <3>3, <3>4, <3>5 DEF SkipCounted
  <2>2. CASE ~s.matching
    BY <1>2, <1>9, <2>2
  <2> QED
    BY <2>1, <2>2
<1> DEFINE q == 9 + f1 + f2
<1>14. (IF s.response THEN SkipCounted(at(q), garbage) ELSE at(q)) = at(q + f3)
  <2>1. CASE s.response
    <3>1. f3 = 3 /\ q + 1 + 2 <= n /\ q \in Nat /\ q + 1 \in Nat
      BY <1>2, <1>3, <1>9, <2>1
    <3>2. Holds(c, q, Field(2, 1))
      BY <1>5, <2>1
    <3> HIDE DEF q
    <3>3. value_at(at(q), 0, 1, garbage) = 2
      <4>1. q + 0 = q /\ q + 0 + 1 <= n
        BY <3>1
      <4> QED
        BY <1>8, <3>1, <3>2, <4>1, StandingRead
    <3>4. read(at(q), 1) = at(q + 1)
      BY <3>1, StandingAdvance
    <3>5. buf_advance(at(q + 1), 2) = at(q + 1 + 2)
      BY <3>1, StandingAdvance
    <3>6. q + 1 + 2 = q + f3
      BY <3>1
    <3> QED
      BY <2>1, <3>3, <3>4, <3>5, <3>6 DEF SkipCounted
  <2>2. CASE ~s.response
    <3>1. q + f3 = q
      BY <1>2, <1>9, <2>2
    <3> HIDE DEF q
    <3> QED
      BY <2>2, <3>1
  <2> QED
    BY <2>1, <2>2
<1> DEFINE r == q + f3
<1>15. BeforeInfo(b, garbage) = at(r)
  <2>1. Control(b, garbage) = control
    BY <1>1, <1>10 DEF Control
  <2>2. SkipFilters(at(9), control, garbage) = at(r)
    BY <1>6, <1>12, <1>13, <1>14 DEF SkipFilters
  <2> QED
    BY <1>1, <1>11, <2>1, <2>2 DEF BeforeInfo
<1>16. /\ r \in Nat /\ n = r + InfoSize(s) /\ r = 9 + f1 + f2 + f3
       /\ InfoFits(s) => Holds(c, r, Field(s.info, 1)) /\ Holds(c, r + 1, Field(Info, s.info))
  BY <1>2, <1>3, <1>5
<1> HIDE DEF q, r
<1>17. ASSUME InfoFits(s)
       PROVE  /\ InfoLength(b, garbage) = s.info
              /\ bytes_at(at(r), 1, s.info) = Field(Info, s.info)
              /\ read(read(at(r), 1), s.info) = at(n)
  <2>1. s.info \in Nat /\ n = r + 1 + s.info /\ r + 1 <= n /\ r + 1 \in Nat
    BY <1>5, <1>9, <1>16, <1>17
  <2>2. value_at(at(r), 0, 1, garbage) = s.info
    <3>1. r + 0 = r /\ r + 0 + 1 <= n
      BY <1>16, <2>1
    <3> QED
      BY <1>8, <1>16, <1>17, <2>1, <3>1, StandingRead
  <2>3. bytes_at(at(r), 1, s.info) = Field(Info, s.info)
    BY <1>8, <1>16, <1>17, <2>1, StandingRead
  <2>4. read(at(r), 1) = at(r + 1)
    BY <1>16, <2>1, StandingAdvance
  <2>5. read(at(r + 1), s.info) = at(r + 1 + s.info)
    BY <2>1, StandingAdvance
  <2> QED
    BY <1>15, <2>1, <2>2, <2>3, <2>4, <2>5 DEF InfoLength
<1>18. nan_parse_sda(b, garbage) = at(n)
  <2>1. Control(b, garbage) = control
    BY <1>1, <1>10 DEF Control
  <2>2. CASE InfoFits(s)
    BY <1>6, <1>15, <1>17, <2>1, <2>2 DEF nan_parse_sda
  <2>3. CASE ~InfoFits(s)
    <3>1. n = r
      BY <1>9, <1>16, <2>3
    <3> QED
      BY <1>6, <1>15, <2>1, <2>3, <3>1 DEF nan_parse_sda
  <2> QED
    BY <2>2, <2>3
<1>19. Descriptor(b, garbage) = DescriptorValue(s)
  <2>1. Control(b, garbage) = control
    BY <1>1, <1>10 DEF Control
  <2>2. (IF Has(Control(b, garbage), SERVICE_INFO)
         THEN bytes_at(BeforeInfo(b, garbage), 1, InfoLength(b, garbage)) ELSE <<>>)
            = IF s.info >= 0 /\ s.info < InfoLimit THEN Field(Info, s.info) ELSE <<>>
    BY <1>6, <1>15, <1>17, <2>1 DEF InfoFits
  <2> HIDE DEF b
  <2> QED
    BY <1>1, <1>6, <1>10, <2>1, <2>2 DEF Descriptor, DescriptorValue
<1> QED
  BY <1>18, <1>19 DEF c

\* The lengths of the parts of an extension that may be missing.
RangeSize(s) == IF s.range THEN 4 ELSE 0

UpdateSize(s) == IF s.published THEN 1 ELSE 0

LongInfoSize(s) == IF s.info >= InfoLimit THEN 2 + s.info ELSE 0

MiscountedSize(s) == IF s.miscounted >= 0 THEN 7 ELSE 0

LongInfoStart(s) == 3 + RangeSize(s) + UpdateSize(s)

ExtensionControl(s) == Bit(s.range, RANGE_LIMIT) + Bit(s.published, UPDATE_INDICATOR)

\* The bits of an extension's control field are told apart.
LEMMA ExtensionBits ==
    ASSUME NEW s, IsService(s)
    PROVE  /\ ExtensionControl(s) \in Nat
           /\ Has(ExtensionControl(s), RANGE_LIMIT) <=> s.range
           /\ Has(ExtensionControl(s), UPDATE_INDICATOR) <=> s.published
<1>1. \A a \in {0, 256} : \A b \in {0, 512} :
          /\ a + b \in Nat
          /\ (((a + b) \div 256) % 2 = 1) <=> a = 256
          /\ (((a + b) \div 512) % 2 = 1) <=> b = 512
  BY SMT
<1> DEFINE a == Bit(s.range, RANGE_LIMIT)
           b == Bit(s.published, UPDATE_INDICATOR)
<1>2. /\ a \in {0, 256} /\ (a = 256 <=> s.range)
      /\ b \in {0, 512} /\ (b = 512 <=> s.published)
  BY DEF Bit, RANGE_LIMIT, UPDATE_INDICATOR
<1>3. ExtensionControl(s) = a + b
  BY DEF ExtensionControl
<1> HIDE DEF a, b
<1> QED
  BY <1>1, <1>2, <1>3 DEF Has, RANGE_LIMIT, UPDATE_INDICATOR

\* The parts of an extension (nan_add_service_descriptor_extension_attribute).
LEMMA SdeaLies ==
    ASSUME NEW s, IsService(s)
    PROVE  /\ LongInfoStart(s) \in Nat
           /\ LongInfoSize(s) \in Nat
           /\ Size(SdeaContents(s), LongInfoStart(s) + LongInfoSize(s) + MiscountedSize(s))
           /\ \A data : Holds(data, 0, SdeaContents(s)) =>
                 /\ Holds(data, 1, Field(ExtensionControl(s), 2))
                 /\ s.info >= InfoLimit => Holds(data, LongInfoStart(s), Field(s.info, 2))
<1> DEFINE x1 == Field(s.instance_id, 1)
           y2 == Field(ExtensionControl(s), 2)
           y3 == IF s.range THEN Opaque(4) ELSE <<>>
           y4 == IF s.published THEN Field(s.update_indicator, 1) ELSE <<>>
           y5 == IF s.info >= InfoLimit THEN InfoOf(s, 2) ELSE <<>>
           y6 == IF s.miscounted >= 0 THEN Field(s.miscounted, 2) \o Opaque(5) ELSE <<>>
           x2 == x1 \o y2
           x3 == x2 \o y3
           x4 == x3 \o y4
           x5 == x4 \o y5
           r == RangeSize(s)
           u == UpdateSize(s)
           i == LongInfoSize(s)
           w == MiscountedSize(s)
<1>1. Size(x1, 1) /\ Size(y2, 2)
  BY FieldSize
<1>2. Size(y3, r) /\ r \in Nat
  BY FieldSize, EmptySize DEF RangeSize, Opaque
<1>3. Size(y4, u) /\ u \in Nat
  BY FieldSize, EmptySize DEF UpdateSize
<1>4. s.info >= InfoLimit => s.info \in Nat /\ y5 = InfoOf(s, 2)
  BY FrameAssumption DEF IsService
<1>5. Size(y5, i) /\ i \in Nat
  <2>1. CASE s.info >= InfoLimit
    BY <1>4, <2>1, InfoLies DEF LongInfoSize
  <2>2. CASE ~(s.info >= InfoLimit)
    BY <2>2, EmptySize DEF LongInfoSize
  <2> QED
    BY <2>1, <2>2
<1>6. Size(y6, w) /\ w \in Nat
  <2>1. Joined(Field(s.miscounted, 2) \o Opaque(5), Field(s.miscounted, 2), Opaque(5))
    BY DEF Joined
  <2>2. Size(Field(s.miscounted, 2), 2) /\ Size(Opaque(5), 5)
    BY FieldSize DEF Opaque
  <2>3. Size(Field(s.miscounted, 2) \o Opaque(5), 7)
    BY <2>1, <2>2, JoinedSize
  <2> QED
    BY <2>3, EmptySize DEF MiscountedSize
<1>7. /\ Joined(x2, x1, y2) /\ Joined(x3, x2, y3) /\ Joined(x4, x3, y4)
      /\ Joined(x5, x4, y5) /\ Joined(SdeaContents(s), x5, y6)
  BY DEF Joined, SdeaContents, ExtensionControl
<1>8. LongInfoStart(s) = 3 + r + u
  BY DEF LongInfoStart
<1> HIDE DEF x1, y2, y3, y4, y5, y6, x2, x3, x4, x5, r, u, i, w
<1>9. Size(x2, 3)
  BY <1>1, <1>7, JoinedSize
<1>10. Size(x3, 3 + r) /\ 3 + r \in Nat
  BY <1>2, <1>7, <1>9, JoinedSize
<1>11. Size(x4, 3 + r + u) /\ 3 + r + u \in Nat
  BY <1>3, <1>7, <1>10, JoinedSize
<1>12. Size(x5, 3 + r + u + i) /\ 3 + r + u + i \in Nat
  BY <1>5, <1>7, <1>11, JoinedSize
<1>13. Size(SdeaContents(s), 3 + r + u + i + w)
  BY <1>6, <1>7, <1>12, JoinedSize
<1>14. ASSUME NEW data, Holds(data, 0, SdeaContents(s))
       PROVE  /\ Holds(data, 1, y2)
              /\ s.info >= InfoLimit => Holds(data, 3 + r + u, Field(s.info, 2))
  <2>1. Holds(data, 0, x5)
    BY <1>6, <1>7, <1>12, <1>14, JoinedHolds
  <2>2. Holds(data, 0, x4) /\ Holds(data, 0 + (3 + r + u), y5)
    BY <1>5, <1>7, <1>11, <2>1, JoinedHolds
  <2>3. Holds(data, 0, x3)
    BY <1>3, <1>7, <1>10, <2>2, JoinedHolds
  <2>4. Holds(data, 0, x2)
    BY <1>2, <1>7, <1>9, <2>3, JoinedHolds
  <2>5. Holds(data, 0 + 1, y2) /\ 0 + 1 = 1 /\ 0 + (3 + r + u) = 3 + r + u
    BY <1>1, <1>7, <1>11, <2>4, JoinedHolds
  <2> QED
    BY <1>4, <1>11, <2>2, <2>5, InfoLies
<1> QED
  BY <1>5, <1>8, <1>11, <1>13, <1>14 DEF y2, i, w

\* An extension that counts its info is read to its end (nan_parse_sdea).
LEMMA SdeaRead ==
    ASSUME NEW s, IsService(s), s.miscounted < 0,
           NEW n \in Nat, Size(SdeaContents(s), n), NEW garbage
    PROVE  nan_parse_sdea(buf_new_const(SdeaContents(s), n), n, garbage)
               = Standing(SdeaContents(s), n, n)
<1> DEFINE c == SdeaContents(s)
           b == buf_new_const(c, n)
           r == RangeSize(s)
           u == UpdateSize(s)
           i == LongInfoSize(s)
           q == 3 + r + u
           at(pos) == Standing(c, n, pos)
<1>1. b = at(0)
  BY StandingNew
<1>2. /\ r = (IF s.range THEN 4 ELSE 0) /\ u = (IF s.published THEN 1 ELSE 0)
      /\ i = (IF s.info >= InfoLimit THEN 2 + s.info ELSE 0)
      /\ r \in Nat /\ u \in Nat /\ i \in Nat
  BY SdeaLies DEF RangeSize, UpdateSize, LongInfoSize
<1>3. n = 3 + r + u + i
  <2>1. MiscountedSize(s) = 0
    BY DEF MiscountedSize, IsService
  <2>2. LongInfoStart(s) = 3 + r + u
    BY DEF LongInfoStart
  <2> QED
    BY <1>2, <2>1, <2>2, SdeaLies DEF Size
<1>4. Holds(c, 0, c)
  BY HoldsItself DEF Size
<1>5. /\ Holds(c, 1, Field(ExtensionControl(s), 2))
      /\ s.info >= InfoLimit => Holds(c, q, Field(s.info, 2))
  BY <1>4, SdeaLies DEF LongInfoStart
<1>6. Size(c, n)
  OBVIOUS
<1>7. s.info >= InfoLimit => s.info \in Nat /\ s.info - 4 \in Nat
  BY FrameAssumption DEF IsService
<1> HIDE DEF c, r, u, i
<1>8. value_at(at(0), 1, 2, garbage) = ExtensionControl(s)
  <2>1. 0 + 1 = 1 /\ 0 + 1 + 2 <= n /\ ExtensionControl(s) \in Nat
    BY <1>2, <1>3, ExtensionBits
  <2> QED
    BY <1>5, <1>6, <2>1, StandingRead
<1>9. read(at(0), 3) = at(3)
  BY <1>2, <1>3, StandingAdvance
<1>10. (IF s.range THEN buf_advance(at(3), 4) ELSE at(3)) = at(3 + r)
  <2>1. CASE s.range
    <3>1. r = 4 /\ 3 + 4 <= n
      BY <1>2, <1>3, <2>1
    <3> QED
      BY <2>1, <3>1, StandingAdvance
  <2>2. CASE ~s.range
    BY <1>2, <2>2
  <2> QED
    BY <2>1, <2>2
<1>11. (IF s.published THEN read(at(3 + r), 1) ELSE at(3 + r)) = at(q)
  <2>1. CASE s.published
    <3>1. u = 1 /\ 3 + r + 1 <= n /\ 3 + r \in Nat
      BY <1>2, <1>3, <2>1
    <3> QED
      BY <2>1, <3>1, StandingAdvance
  <2>2. CASE ~s.published
    BY <1>2, <2>2
  <2> QED
    BY <2>1, <2>2
<1>12. q \in Nat /\ n = q + i
  BY <1>2, <1>3
<1> HIDE DEF q
<1> DEFINE update == at(q)
<1>13. nan_parse_sdea(b, n, garbage) =
           IF buf_position(update) + 2 < n
           THEN read(read(read(read(update, 2), 3), 1), value_at(update, 0, 2, garbage) - 4)
           ELSE update
  BY <1>1, <1>8, <1>9, <1>10, <1>11, ExtensionBits DEF nan_parse_sdea
<1>14. buf_position(update) = q
  BY DEF buf_position, Standing
<1>15. CASE s.info >= InfoLimit
  <2> DEFINE k == s.info
  <2>1. /\ k \in Nat /\ k - 4 \in Nat /\ n = q + 2 + k /\ q + 2 < n
        /\ q + 0 = q /\ q + 0 + 2 <= n
    BY <1>2, <1>7, <1>12, <1>15
  <2>2. Holds(c, q, Field(k, 2))
    BY <1>5, <1>15
  <2> HIDE DEF k
  <2>3. value_at(at(q), 0, 2, garbage) = k
    BY <1>6, <1>12, <2>1, <2>2, StandingRead
  <2>4. read(at(q), 2) = at(q + 2)
    BY <1>12, <2>1, StandingAdvance
  <2>5. read(at(q + 2), 3) = at(q + 2 + 3)
    <3>1. q + 2 \in Nat /\ q + 2 + 3 <= n
      BY <1>12, <2>1
    <3> QED
      BY <3>1, StandingAdvance
  <2>6. read(at(q + 2 + 3), 1) = at(q + 2 + 3 + 1)
    <3>1. q + 2 + 3 \in Nat /\ q + 2 + 3 + 1 <= n
      BY <1>12, <2>1
    <3> QED
      BY <3>1, StandingAdvance
  <2>7. read(at(q + 2 + 3 + 1), k - 4) = at(q + 2 + 3 + 1 + (k - 4))
    <3>1. q + 2 + 3 + 1 \in Nat /\ q + 2 + 3 + 1 + (k - 4) <= n
      BY <1>12, <2>1
    <3> QED
      BY <2>1, <3>1, StandingAdvance
  <2>8. q + 2 + 3 + 1 + (k - 4) = n
    BY <1>12, <2>1
  <2> QED
    BY <1>13, <1>14, <2>1, <2>3, <2>4, <2>5, <2>6, <2>7, <2>8 DEF c
<1>16. CASE ~(s.info >= InfoLimit)
  <2>1. n = q /\ ~(q + 2 < n)
    BY <1>2, <1>12, <1>16
  <2> QED
    BY <1>13, <1>14, <2>1 DEF c
<1> QED
  BY <1>15, <1>16

\* The attributes of a beacon are read to their ends, and tell what was written.
LEMMA MasterRead ==
    ASSUME NEW m, NEW garbage, m.master_preference \in Nat, m.random_factor \in Nat
    PROVE  LET b == buf_new_const(MasterContents(m), 2) IN
           /\ read(b, 2).error = FALSE
           /\ value_at(b, 0, 1, garbage) = m.master_preference
           /\ value_at(b, 1, 1, garbage) = m.random_factor
<1> DEFINE c == MasterContents(m)
<1>1. buf_new_const(c, 2) = Standing(c, 2, 0)
  BY StandingNew
<1>2. Size(c, 2) /\ Holds(c, 0, c)
  BY MasterAttribute, HoldsItself DEF Size
<1>3. Holds(c, 0, Field(m.master_preference, 1)) /\ Holds(c, 0 + 1, Field(m.random_factor, 1))
  BY <1>2, MasterAttribute
<1> HIDE DEF c
<1>4. read(Standing(c, 2, 0), 2).error = FALSE
  <2>1. read(Standing(c, 2, 0), 2) = Standing(c, 2, 0 + 2)
    BY StandingAdvance
  <2> QED
    BY <2>1 DEF Standing
<1>5. value_at(Standing(c, 2, 0), 0, 1, garbage) = m.master_preference
  <2>1. 0 + 0 = 0 /\ 0 + 0 + 1 <= 2
    OBVIOUS
  <2> QED
    BY <1>2, <1>3, <2>1, StandingRead
<1>6. value_at(Standing(c, 2, 0), 1, 1, garbage) = m.random_factor
  <2>1. 0 + 1 + 1 <= 2
    OBVIOUS
  <2> QED
    BY <1>2, <1>3, <2>1, StandingRead
<1> QED
  BY <1>1, <1>4, <1>5, <1>6 DEF c

\* The second of them.
LEMMA ClusterRead ==
    ASSUME NEW m, NEW garbage,
           m.anchor_master_rank \in Nat, m.hop_count \in Nat, m.ambtt \in Nat
    PROVE  LET b == buf_new_const(ClusterContents(m), 13) IN
           /\ read(b, 13).error = FALSE
           /\ value_at(b, 0, 8, garbage) = m.anchor_master_rank
           /\ value_at(b, 8, 1, garbage) = m.hop_count
           /\ value_at(b, 9, 4, garbage) = m.ambtt
<1> DEFINE c == ClusterContents(m)
<1>1. buf_new_const(c, 13) = Standing(c, 13, 0)
  BY StandingNew
<1>2. Size(c, 13) /\ Holds(c, 0, c)
  BY ClusterAttribute, HoldsItself DEF Size
<1>3. /\ Holds(c, 0, Field(m.anchor_master_rank, 8))
      /\ Holds(c, 0 + 8, Field(m.hop_count, 1))
      /\ Holds(c, 0 + 9, Field(m.ambtt, 4))
  BY <1>2, ClusterAttribute
<1> HIDE DEF c
<1>4. read(Standing(c, 13, 0), 13).error = FALSE
  <2>1. read(Standing(c, 13, 0), 13) = Standing(c, 13, 0 + 13)
    BY StandingAdvance
  <2> QED
    BY <2>1 DEF Standing
<1>5. value_at(Standing(c, 13, 0), 0, 8, garbage) = m.anchor_master_rank
  <2>1. 0 + 0 = 0 /\ 0 + 0 + 8 <= 13
    OBVIOUS
  <2> QED
    BY <1>2, <1>3, <2>1, StandingRead
<1>6. value_at(Standing(c, 13, 0), 8, 1, garbage) = m.hop_count
  <2>1. 0 + 8 + 1 <= 13
    OBVIOUS
  <2> QED
    BY <1>2, <1>3, <2>1, StandingRead
<1>7. value_at(Standing(c, 13, 0), 9, 4, garbage) = m.ambtt
  <2>1. 0 + 9 + 4 <= 13
    OBVIOUS
  <2> QED
    BY <1>2, <1>3, <2>1, StandingRead
<1> QED
  BY <1>1, <1>4, <1>5, <1>6, <1>7 DEF c

----------------------------------------------------------------------------
(* What a message's frame is made of. *)

\* The messages whose frames are made of attributes.
Laid(m) == m \in Messages /\ m.kind \in {"beacon", "discovery", "follow_up"}

\* Attribute i of a message, by its id and its contents.
Slot(m, i, id, c) ==
    \/ m.kind = "beacon" /\ i = 1 /\ id = MASTER_INDICATION_ATTRIBUTE /\ c = MasterContents(m)
    \/ m.kind = "beacon" /\ i = 2 /\ id = CLUSTER_ATTRIBUTE /\ c = ClusterContents(m)
    \/ m.kind = "discovery" /\ i = 1 /\ id = DEVICE_CAPABILITY_ATTRIBUTE /\ c = Opaque(9)
    \/ m.kind = "discovery" /\ i = 2 /\ id = NAN_AVAILABILITY_ATTRIBUTE /\ c = Opaque(10)
    \/ /\ m.kind = "discovery" /\ id = SERVICE_DESCRIPTOR_ATTRIBUTE
       /\ \E j \in 1 .. Len(m.services) : i = 2 * j + 1 /\ c = SdaContents(m.services[j])
    \/ /\ m.kind = "discovery" /\ id = SERVICE_DESCRIPTOR_EXTENSION_ATTRIBUTE
       /\ \E j \in 1 .. Len(m.services) : i = 2 * j + 2 /\ c = SdeaContents(m.services[j])
    \/ /\ m.kind = "follow_up" /\ i = 1 /\ id = SERVICE_DESCRIPTOR_ATTRIBUTE
       /\ c = SdaContents(m.services[1])
    \/ /\ m.kind = "follow_up" /\ i = 2 /\ id = SERVICE_DESCRIPTOR_EXTENSION_ATTRIBUTE
       /\ c = SdeaContents(m.services[1])

\* A tuple is a sequence.
LEMMA PairSeq ==
    ASSUME NEW a, NEW b
    PROVE  Size(<<a, b>>, 2) /\ <<a, b>>[1] = a /\ <<a, b>>[2] = b
<1> DEFINE t == <<a, b>>
<1>1. t \in Seq({a, b}) /\ Len(t) = 2
  OBVIOUS
<1> HIDE DEF t
<1>2. IsSeq(t)
  BY <1>1, SeqOfAny
<1> QED
  BY <1>1, <1>2 DEF Size, t

\* So is one of one item.
LEMMA SingleSeq ==
    ASSUME NEW a
    PROVE  Size(<<a>>, 1) /\ <<a>>[1] = a
<1> DEFINE t == <<a>>
<1>1. t \in Seq({a}) /\ Len(t) = 1
  OBVIOUS
<1> HIDE DEF t
<1>2. IsSeq(t)
  BY <1>1, SeqOfAny
<1> QED
  BY <1>1, <1>2 DEF Size, t

\* Pairs put one behind the other (nan_build_service_discovery_frame).
LEMMA PairsFlattened ==
    ASSUME NEW parts, NEW n \in Nat, Size(parts, n), \A i \in 1 .. n : Size(parts[i], 2)
    PROVE  LET all == FlattenSeq(parts) IN
           /\ Size(all, 2 * n)
           /\ \A j \in 1 .. n : all[2 * j - 1] = parts[j][1] /\ all[2 * j] = parts[j][2]
<1>1. IsSeq(parts) /\ Len(parts) = n
  BY DEF Size
<1>3. PICK off : /\ Offsets(parts, off)
                 /\ IsSeq(FlattenSeq(parts))
                 /\ Len(FlattenSeq(parts)) = off[n]
                 /\ \A i \in 1 .. n : Holds(FlattenSeq(parts), off[i - 1], parts[i])
  BY <1>1, Flattened DEF Size
<1> DEFINE all == FlattenSeq(parts)
           I == { j \in 0 .. n : off[j] # 2 * j }
<1>4. I = {}
  <2>1. SUFFICES ASSUME I # {} PROVE FALSE
    OBVIOUS
  <2>2. PICK j \in I : \A k \in I : j <= k
    <3>1. I \in SUBSET Nat
      OBVIOUS
    <3> HIDE DEF I
    <3> QED
      BY <2>1, <3>1, LeastNumber
  <2>3. off[0] = 0
    BY <1>3 DEF Offsets
  <2>4. j # 0 /\ j \in 1 .. n /\ j - 1 \in 0 .. n /\ ~(j <= j - 1)
    BY <2>2, <2>3
  <2>5. off[j - 1] = 2 * (j - 1)
    BY <2>2, <2>4
  <2>6. off[j] = off[j - 1] + Len(parts[j]) /\ Len(parts[j]) = 2
    BY <1>1, <1>3, <2>4 DEF Offsets, Size
  <2>7. off[j] = 2 * j
    BY <2>4, <2>5, <2>6
  <2> QED
    BY <2>2, <2>7
<1>5. \A j \in 0 .. n : off[j] = 2 * j
  BY <1>4
<1> HIDE DEF I
<1>6. Size(all, 2 * n)
  BY <1>3, <1>5 DEF Size
<1>7. ASSUME NEW j \in 1 .. n
      PROVE  all[2 * j - 1] = parts[j][1] /\ all[2 * j] = parts[j][2]
  <2>1. /\ j - 1 \in 0 .. n /\ 2 * (j - 1) + 1 = 2 * j - 1 /\ 2 * (j - 1) + 2 = 2 * j
    OBVIOUS
  <2>2. off[j - 1] = 2 * (j - 1) /\ Holds(all, off[j - 1], parts[j])
    BY <1>3, <1>5, <2>1
  <2>3. Holds(all, 2 * (j - 1), parts[j])
    BY <2>2
  <2>4. Len(parts[j]) = 2 /\ 1 \in 1 .. 2 /\ 2 \in 1 .. 2
    BY DEF Size
  <2>5. all[2 * (j - 1) + 1] = parts[j][1] /\ all[2 * (j - 1) + 2] = parts[j][2]
    BY <2>3, <2>4 DEF Holds
  <2> QED
    BY <2>1, <2>5
<1> QED
  BY <1>6, <1>7

\* The services of a message are a sequence of services.
LEMMA ServicesOf ==
    ASSUME NEW m, m \in Messages, m.kind \in {"discovery", "follow_up"}
    PROVE  /\ IsSeq(m.services) /\ Len(m.services) \in Nat
           /\ DOMAIN m.services = 1 .. Len(m.services)
           /\ \A j \in 1 .. Len(m.services) : IsService(m.services[j])
           /\ m.kind = "follow_up" => Len(m.services) = 1
<1>1. IsMessage(m)
  BY ReceptionAssumption
<1>2. IsSeq(m.services) /\ \A j \in DOMAIN m.services : IsService(m.services[j])
  BY <1>1 DEF IsMessage, IsSeq
<1>3. m.kind = "follow_up" => Len(m.services) = 1
  BY <1>1 DEF IsMessage
<1> QED
  BY <1>2, <1>3, SeqFacts

\* The attributes of a beacon.
LEMMA BeaconSlots ==
    ASSUME NEW m, Laid(m), m.kind = "beacon"
    PROVE  /\ Size(AttributesOf(m), 2)
           /\ \A i \in 1 .. 2 : \E id, c :
                 Slot(m, i, id, c) /\ IsSeq(c) /\ AttributesOf(m)[i] = Attribute(id, c)
<1>1. AttributesOf(m) = << nan_add_master_indication_attribute(m), nan_add_cluster_attribute(m) >>
  BY DEF AttributesOf, BeaconAttributes
<1>2. /\ Size(AttributesOf(m), 2)
      /\ AttributesOf(m)[1] = Attribute(MASTER_INDICATION_ATTRIBUTE, MasterContents(m))
      /\ AttributesOf(m)[2] = Attribute(CLUSTER_ATTRIBUTE, ClusterContents(m))
  BY <1>1, PairSeq, MasterAttribute, ClusterAttribute
<1>3. IsSeq(MasterContents(m)) /\ IsSeq(ClusterContents(m))
  BY MasterAttribute, ClusterAttribute DEF Size
<1>4. /\ Slot(m, 1, MASTER_INDICATION_ATTRIBUTE, MasterContents(m))
      /\ Slot(m, 2, CLUSTER_ATTRIBUTE, ClusterContents(m))
  BY DEF Slot
<1>5. \A i \in 1 .. 2 : i = 1 \/ i = 2
  OBVIOUS
<1> QED
  BY <1>2, <1>3, <1>4, <1>5

\* The attributes of a service.
LEMMA Descriptors ==
    ASSUME NEW s, IsService(s)
    PROVE  /\ Size(DescriptorsOf(s), 2)
           /\ DescriptorsOf(s)[1] = Attribute(SERVICE_DESCRIPTOR_ATTRIBUTE, SdaContents(s))
           /\ DescriptorsOf(s)[2] =
                  Attribute(SERVICE_DESCRIPTOR_EXTENSION_ATTRIBUTE, SdeaContents(s))
           /\ IsSeq(SdaContents(s)) /\ IsSeq(SdeaContents(s))
<1>1. /\ nan_add_service_descriptor_attribute(s) =
             Attribute(SERVICE_DESCRIPTOR_ATTRIBUTE, SdaContents(s))
      /\ nan_add_service_descriptor_extension_attribute(s) =
             Attribute(SERVICE_DESCRIPTOR_EXTENSION_ATTRIBUTE, SdeaContents(s))
  BY DEF nan_add_service_descriptor_attribute, nan_add_service_descriptor_extension_attribute,
         SdaContents, SdeaContents
<1>2. IsSeq(SdaContents(s)) /\ IsSeq(SdeaContents(s))
  BY SdaLies, SdeaLies DEF Size
<1> QED
  BY <1>1, <1>2, PairSeq DEF DescriptorsOf

\* The attributes of a service discovery frame.
LEMMA DiscoverySlots ==
    ASSUME NEW m, Laid(m), m.kind = "discovery"
    PROVE  /\ Size(AttributesOf(m), 2 + 2 * Len(m.services))
           /\ \A i \in 1 .. 2 + 2 * Len(m.services) : \E id, c :
                 Slot(m, i, id, c) /\ IsSeq(c) /\ AttributesOf(m)[i] = Attribute(id, c)
<1> DEFINE n == Len(m.services)
           parts == [ i \in DOMAIN m.services |-> DescriptorsOf(m.services[i]) ]
           a == nan_add_device_capability_attribute
           b == nan_add_availability_attribute
           rest == FlattenSeq(parts)
           all == <<a, b>> \o rest
<1>1. /\ n \in Nat /\ DOMAIN m.services = 1 .. n
      /\ \A j \in 1 .. n : IsService(m.services[j])
  BY ServicesOf DEF Laid
<1>2. parts = [ i \in 1 .. n |-> DescriptorsOf(m.services[i]) ]
  BY <1>1
<1>3. Size(parts, n)
  <2>1. parts = [ i \in 1 .. n |-> parts[i] ]
    BY <1>2
  <2> HIDE DEF parts
  <2> QED
    BY <1>1, <2>1, MakeSeq DEF Size
<1>4. \A i \in 1 .. n : parts[i] = DescriptorsOf(m.services[i])
  BY <1>2
<1> HIDE DEF parts
<1>5. /\ Size(rest, 2 * n)
      /\ \A j \in 1 .. n : rest[2 * j - 1] = parts[j][1] /\ rest[2 * j] = parts[j][2]
  <2>1. \A i \in 1 .. n : Size(parts[i], 2)
    BY <1>1, <1>4, Descriptors
  <2> QED
    BY <1>1, <1>3, <2>1, PairsFlattened
<1>6. AttributesOf(m) = all
  BY DEF AttributesOf, DiscoveryAttributes, parts
<1>7. Size(<<a, b>>, 2) /\ <<a, b>>[1] = a /\ <<a, b>>[2] = b
  BY PairSeq
<1> DEFINE two == <<a, b>>
<1> HIDE DEF two, rest
<1>8. IsSeq(two \o rest) /\ Len(two \o rest) = 2 + 2 * n
      /\ Holds(two \o rest, 0, two) /\ Holds(two \o rest, 2, rest)
  <2>1. IsSeq(two) /\ Len(two) = 2
    BY <1>7 DEF Size, two
  <2>2. IsSeq(rest) /\ Len(rest) = 2 * n
    BY <1>5 DEF Size
  <2> QED
    BY <2>1, <2>2, Concat
<1>9. AttributesOf(m) = two \o rest
  BY <1>6 DEF two
<1>10. Size(AttributesOf(m), 2 + 2 * n)
  BY <1>8, <1>9 DEF Size
<1>11. AttributesOf(m)[1] = a /\ AttributesOf(m)[2] = b
  <2>1. Len(two) = 2 /\ two[1] = a /\ two[2] = b
    BY <1>7 DEF Size, two
  <2>2. 1 \in 1 .. 2 /\ 2 \in 1 .. 2 /\ 0 + 1 = 1 /\ 0 + 2 = 2
    OBVIOUS
  <2> QED
    BY <1>8, <1>9, <2>1, <2>2 DEF Holds
<1>12. \A j \in 1 .. n : /\ AttributesOf(m)[2 * j + 1] = DescriptorsOf(m.services[j])[1]
                         /\ AttributesOf(m)[2 * j + 2] = DescriptorsOf(m.services[j])[2]
  <2> TAKE j \in 1 .. n
  <2>1. /\ 2 * j - 1 \in 1 .. 2 * n /\ 2 * j \in 1 .. 2 * n
        /\ 2 + (2 * j - 1) = 2 * j + 1 /\ 2 + 2 * j = 2 * j + 2
    BY <1>1
  <2>2. Len(rest) = 2 * n
    BY <1>5 DEF Size
  <2>3. /\ (two \o rest)[2 + (2 * j - 1)] = rest[2 * j - 1]
        /\ (two \o rest)[2 + 2 * j] = rest[2 * j]
    BY <1>8, <2>1, <2>2 DEF Holds
  <2> QED
    BY <1>4, <1>5, <1>9, <2>1, <2>3
<1>13. /\ a = Attribute(DEVICE_CAPABILITY_ATTRIBUTE, Opaque(9)) /\ IsSeq(Opaque(9))
       /\ b = Attribute(NAN_AVAILABILITY_ATTRIBUTE, Opaque(10)) /\ IsSeq(Opaque(10))
  BY FieldSeq DEF nan_add_device_capability_attribute, nan_add_availability_attribute, Opaque
<1>14. ASSUME NEW i \in 1 .. 2 + 2 * n
       PROVE  \E id, c : Slot(m, i, id, c) /\ IsSeq(c) /\ AttributesOf(m)[i] = Attribute(id, c)
  <2>1. CASE i = 1
    <3>1. Slot(m, i, DEVICE_CAPABILITY_ATTRIBUTE, Opaque(9))
      BY <2>1 DEF Slot
    <3> QED
      BY <1>11, <1>13, <2>1, <3>1
  <2>2. CASE i = 2
    <3>1. Slot(m, i, NAN_AVAILABILITY_ATTRIBUTE, Opaque(10))
      BY <2>2 DEF Slot
    <3> QED
      BY <1>11, <1>13, <2>2, <3>1
  <2>3. ASSUME NEW j \in 1 .. n, i = 2 * j + 1
        PROVE  \E id, c : Slot(m, i, id, c) /\ IsSeq(c) /\ AttributesOf(m)[i] = Attribute(id, c)
    <3>1. Slot(m, i, SERVICE_DESCRIPTOR_ATTRIBUTE, SdaContents(m.services[j]))
      BY <2>3 DEF Slot
    <3>2. /\ AttributesOf(m)[i] =
                 Attribute(SERVICE_DESCRIPTOR_ATTRIBUTE, SdaContents(m.services[j]))
          /\ IsSeq(SdaContents(m.services[j]))
      BY <1>1, <1>12, <2>3, Descriptors
    <3> QED
      BY <3>1, <3>2
  <2>4. ASSUME NEW j \in 1 .. n, i = 2 * j + 2
        PROVE  \E id, c : Slot(m, i, id, c) /\ IsSeq(c) /\ AttributesOf(m)[i] = Attribute(id, c)
    <3>1. Slot(m, i, SERVICE_DESCRIPTOR_EXTENSION_ATTRIBUTE, SdeaContents(m.services[j]))
      BY <2>4 DEF Slot
    <3>2. /\ AttributesOf(m)[i] =
                 Attribute(SERVICE_DESCRIPTOR_EXTENSION_ATTRIBUTE, SdeaContents(m.services[j]))
          /\ IsSeq(SdeaContents(m.services[j]))
      BY <1>1, <1>12, <2>4, Descriptors
    <3> QED
      BY <3>1, <3>2
  <2>5. CASE i > 2
    <3>1. \E j \in 1 .. n : i = 2 * j + 1 \/ i = 2 * j + 2
      <4>1. PICK h \in Int : i = 2 * h \/ i = 2 * h + 1
        <5>1. i = 2 * (i \div 2) \/ i = 2 * (i \div 2) + 1
          BY <1>1
        <5>2. i \div 2 \in Int
          BY <1>1
        <5> QED
          BY <5>1, <5>2
      <4>2. CASE i = 2 * h
        <5>1. h - 1 \in 1 .. n /\ i = 2 * (h - 1) + 2
          BY <1>1, <2>5, <4>2
        <5> QED
          BY <5>1
      <4>3. CASE i = 2 * h + 1
        <5>1. h \in 1 .. n
          BY <1>1, <2>5, <4>3
        <5> QED
          BY <4>3, <5>1
      <4> QED
        BY <4>1, <4>2, <4>3
    <3> QED
      BY <2>3, <2>4, <3>1
  <2> QED
    BY <1>1, <2>1, <2>2, <2>5
<1> QED
  BY <1>10, <1>14

\* The attributes of a follow-up.
LEMMA FollowUpSlots ==
    ASSUME NEW m, Laid(m), m.kind = "follow_up"
    PROVE  \E n \in 1 .. 2 :
              /\ Size(AttributesOf(m), n)
              /\ \A i \in 1 .. n : \E id, c :
                    Slot(m, i, id, c) /\ IsSeq(c) /\ AttributesOf(m)[i] = Attribute(id, c)
<1> DEFINE s == m.services[1]
           d == DescriptorsOf(s)
<1>1. IsService(s)
  <2>1. Len(m.services) = 1 /\ \A j \in 1 .. Len(m.services) : IsService(m.services[j])
    BY ServicesOf DEF Laid
  <2>2. 1 \in 1 .. 1
    OBVIOUS
  <2> QED
    BY <2>1, <2>2
<1>2. /\ nan_add_service_descriptor_attribute(s) = d[1]
      /\ nan_add_service_descriptor_extension_attribute(s) = d[2]
  BY PairSeq DEF DescriptorsOf
<1>3. /\ d[1] = Attribute(SERVICE_DESCRIPTOR_ATTRIBUTE, SdaContents(s))
      /\ d[2] = Attribute(SERVICE_DESCRIPTOR_EXTENSION_ATTRIBUTE, SdeaContents(s))
      /\ IsSeq(SdaContents(s)) /\ IsSeq(SdeaContents(s))
  BY <1>1, Descriptors
<1>4. AttributesOf(m) = << d[1] >> \o IF s.info >= InfoLimit THEN << d[2] >> ELSE <<>>
  BY <1>2 DEF AttributesOf, FollowUpAttributes
<1>5. /\ Slot(m, 1, SERVICE_DESCRIPTOR_ATTRIBUTE, SdaContents(s))
      /\ Slot(m, 2, SERVICE_DESCRIPTOR_EXTENSION_ATTRIBUTE, SdeaContents(s))
  BY DEF Slot
<1> HIDE DEF d
<1> DEFINE a == << d[1] >>
           b == << d[2] >>
<1>6. Size(a, 1) /\ a[1] = d[1] /\ Size(b, 1) /\ b[1] = d[2]
  BY SingleSeq
<1>7. CASE s.info >= InfoLimit
  <2>1. AttributesOf(m) = a \o b
    BY <1>4, <1>7
  <2> HIDE DEF a, b
  <2>2. /\ IsSeq(a \o b) /\ Len(a \o b) = 1 + 1
        /\ Holds(a \o b, 0, a) /\ Holds(a \o b, 1, b)
    BY <1>6, Concat DEF Size
  <2>3. 1 \in 1 .. 1 /\ 0 + 1 = 1 /\ 1 + 1 = 2
    OBVIOUS
  <2>4. AttributesOf(m)[1] = d[1] /\ AttributesOf(m)[2] = d[2]
    BY <1>6, <2>1, <2>2, <2>3 DEF Holds, Size
  <2>5. Size(AttributesOf(m), 2) /\ 2 \in 1 .. 2 /\ \A i \in 1 .. 2 : i = 1 \/ i = 2
    BY <2>1, <2>2, <2>3 DEF Size
  <2> QED
    BY <1>3, <1>5, <2>4, <2>5
<1>8. CASE ~(s.info >= InfoLimit)
  <2>1. AttributesOf(m) = a \o <<>>
    BY <1>4, <1>8
  <2> HIDE DEF a, b
  <2>2. /\ IsSeq(a \o <<>>) /\ Len(a \o <<>>) = 1 + 0
        /\ Holds(a \o <<>>, 0, a)
    BY <1>6, EmptySize, Concat DEF Size
  <2>3. 1 \in 1 .. 1 /\ 0 + 1 = 1 /\ 1 + 0 = 1
    OBVIOUS
  <2>4. AttributesOf(m)[1] = d[1]
    BY <1>6, <2>1, <2>2, <2>3 DEF Holds, Size
  <2>5. Size(AttributesOf(m), 1) /\ 1 \in 1 .. 2 /\ \A i \in 1 .. 1 : i = 1
    BY <2>1, <2>2, <2>3 DEF Size
  <2> QED
    BY <1>3, <1>5, <2>4, <2>5
<1> QED
  BY <1>7, <1>8

\* The attributes of any message that has some.
LEMMA Slots ==
    ASSUME NEW m, Laid(m)
    PROVE  /\ IsSeq(AttributesOf(m)) /\ Len(AttributesOf(m)) \in Nat
           /\ \A i \in 1 .. Len(AttributesOf(m)) : \E id, c :
                 Slot(m, i, id, c) /\ IsSeq(c) /\ AttributesOf(m)[i] = Attribute(id, c)
<1>1. CASE m.kind = "beacon"
  BY <1>1, BeaconSlots DEF Size
<1>2. CASE m.kind = "discovery"
  <2>1. Len(m.services) \in Nat
    BY <1>2, ServicesOf DEF Laid
  <2>2. 2 + 2 * Len(m.services) \in Nat
    BY <2>1
  <2> DEFINE n == 2 + 2 * Len(m.services)
  <2>3. /\ Size(AttributesOf(m), n)
        /\ \A i \in 1 .. n : \E id, c :
              Slot(m, i, id, c) /\ IsSeq(c) /\ AttributesOf(m)[i] = Attribute(id, c)
    BY <1>2, DiscoverySlots
  <2> HIDE DEF n
  <2> QED
    BY <2>2, <2>3 DEF Size, n
<1>3. CASE m.kind = "follow_up"
  BY <1>3, FollowUpSlots DEF Size
<1> QED
  BY <1>1, <1>2, <1>3 DEF Laid

\* Where the attributes start within a frame.
HeaderSize(m) == IF m.kind = "beacon" THEN 42 ELSE 30

\* The header itself.
HeaderOf(m) ==
    IF m.kind = "beacon"
    THEN nan_add_beacon_header(m, 4 + Len(FlattenSeq(BeaconAttributes(m))))
    ELSE nan_add_service_discovery_header(m)

\* Where a frame ends, counted in the captured bytes.
FrameEnd(m) == RadiotapLength + Len(FrameOf(m))

\* Parts end one after the other.
LEMMA OffsetsGrow ==
    ASSUME NEW parts, NEW off, Offsets(parts, off), Len(parts) \in Nat,
           \A i \in 1 .. Len(parts) : Len(parts[i]) \in Nat,
           NEW n \in 0 .. Len(parts), NEW i \in 0 .. n
    PROVE  off[i] <= off[n]
<1> DEFINE I == { k \in 0 .. n : ~(off[n - k] <= off[n]) }
<1>0. \A j \in 0 .. n : off[j] \in Nat
  BY DEF Offsets
<1>1. I = {}
  <2>1. SUFFICES ASSUME I # {} PROVE FALSE
    OBVIOUS
  <2>2. PICK k \in I : \A j \in I : k <= j
    <3>1. I \in SUBSET Nat
      OBVIOUS
    <3> HIDE DEF I
    <3> QED
      BY <2>1, <3>1, LeastNumber
  <2>3. k # 0
    <3>1. off[n] <= off[n] /\ n - 0 = n
      BY <1>0
    <3> QED
      BY <2>2, <3>1
  <2>4. /\ k - 1 \in 0 .. n /\ ~(k <= k - 1) /\ n - (k - 1) \in 1 .. n
        /\ n - (k - 1) \in 0 .. n /\ n - k \in 0 .. n
        /\ (n - (k - 1)) - 1 = n - k
    BY <2>2, <2>3
  <2>5. off[n - (k - 1)] <= off[n]
    BY <2>2, <2>4
  <2>6. off[n - (k - 1)] = off[n - k] + Len(parts[n - (k - 1)])
    BY <2>4 DEF Offsets
  <2>7. Len(parts[n - (k - 1)]) \in Nat
    BY <2>4
  <2>8. off[n - k] <= off[n]
    BY <1>0, <2>4, <2>5, <2>6, <2>7
  <2> QED
    BY <2>2, <2>8
<1>2. n - i \in 0 .. n /\ n - (n - i) = i
  OBVIOUS
<1>3. n - i \notin I
  BY <1>1
<1> QED
  BY <1>2, <1>3

(***************************************************************************)
(* A frame is its header and its attributes, one behind the other.         *)
(***************************************************************************)
LEMMA Layout ==
    ASSUME NEW m, Laid(m)
    PROVE  LET n == Len(AttributesOf(m))
               A == AttributesOf(m) IN
           /\ IsSeq(FrameOf(m)) /\ Len(FrameOf(m)) \in Nat
           /\ Size(HeaderOf(m), HeaderSize(m)) /\ Holds(FrameOf(m), 0, HeaderOf(m))
           /\ HeaderSize(m) <= Len(FrameOf(m))
           /\ StartOf(m, 1) = RadiotapLength + HeaderSize(m)
           /\ StartOf(m, n + 1) = FrameEnd(m)
           /\ \A j \in 1 .. n + 1 : \A i \in 1 .. j : StartOf(m, i) <= StartOf(m, j)
           /\ \A i \in 1 .. n :
                 /\ StartOf(m, i) \in Nat
                 /\ StartOf(m, i + 1) = StartOf(m, i) + Len(A[i])
                 /\ StartOf(m, i + 1) <= FrameEnd(m)
                 /\ StartOf(m, i) >= RadiotapLength
                 /\ Holds(FrameOf(m), StartOf(m, i) - RadiotapLength, A[i])
<1> DEFINE A == AttributesOf(m)
           n == Len(A)
           h == HeaderOf(m)
           H == HeaderSize(m)
           all == FlattenSeq(A)
           F == FrameOf(m)
<1>1. IsSeq(A) /\ n \in Nat /\ \A i \in 1 .. n : IsSeq(A[i]) /\ Len(A[i]) \in Nat
  <2>1. \A id, c : IsSeq(c) => IsSeq(Attribute(id, c)) /\ Len(Attribute(id, c)) \in Nat
    <3> TAKE id, c
    <3> HAVE IsSeq(c)
    <3>1. Len(c) \in Nat /\ Size(c, Len(c))
      BY SeqFacts DEF Size
    <3>2. Size(Attribute(id, c), 3 + Len(c))
      BY <3>1, AttributeLies
    <3>3. 3 + Len(c) \in Nat
      BY <3>1
    <3> QED
      BY <3>2, <3>3 DEF Size
  <2> QED
    BY <2>1, Slots
<1>2. Size(h, H) /\ H \in Nat
  BY BeaconHeader, ServiceHeader DEF HeaderOf, HeaderSize
<1>3. F = h \o all
  BY DEF Laid, FrameOf, AttributesOf, HeaderOf, nan_build_beacon_frame,
         nan_build_service_discovery_frame, nan_transmit
<1>4. RadiotapLength \in Nat
  BY ReceptionAssumption
<1>5. \A i : StartOf(m, i) = RadiotapLength + Len(F) - Len(FlattenSeq(SubSeq(A, i, n)))
  BY DEF StartOf
<1>6. FrameEnd(m) = RadiotapLength + Len(F)
  BY DEF FrameEnd
<1> HIDE DEF A, n, h, H, F
<1>7. PICK off : /\ Offsets(A, off)
                 /\ IsSeq(all)
                 /\ Len(all) = off[n]
                 /\ \A i \in 1 .. n : Holds(all, off[i - 1], A[i])
  BY <1>1, Flattened DEF n
<1>8. \A i \in 1 .. n + 1 : Len(FlattenSeq(SubSeq(A, i, n))) = off[n] - off[i - 1]
  BY <1>1, <1>7, RestLength DEF n
<1> HIDE DEF all
<1>9. /\ IsSeq(F) /\ Len(F) = H + off[n]
      /\ Holds(F, 0, h) /\ Holds(F, H, all)
  BY <1>2, <1>3, <1>7, Concat DEF Size
<1>10. /\ off[0] = 0
       /\ \A i \in 0 .. n : off[i] \in Nat
       /\ \A i \in 1 .. n : off[i] = off[i - 1] + Len(A[i])
  BY <1>7 DEF Offsets, n
<1>11. off[n] \in Nat
  BY <1>1, <1>10
<1>12. \A i \in 1 .. n + 1 : off[i - 1] \in Nat
  <2> TAKE i \in 1 .. n + 1
  <2>1. i - 1 \in 0 .. n
    BY <1>1
  <2> QED
    BY <1>10, <2>1
<1>13. \A i \in 1 .. n + 1 : StartOf(m, i) = RadiotapLength + H + off[i - 1]
  <2> TAKE i \in 1 .. n + 1
  <2>1. StartOf(m, i) = RadiotapLength + (H + off[n]) - (off[n] - off[i - 1])
    BY <1>5, <1>8, <1>9
  <2>2. off[i - 1] \in Nat
    BY <1>12
  <2> QED
    BY <1>2, <1>4, <1>11, <2>1, <2>2
<1>14. StartOf(m, 1) = RadiotapLength + H
  <2>1. 1 \in 1 .. n + 1 /\ 1 - 1 = 0
    BY <1>1
  <2> QED
    BY <1>2, <1>4, <1>10, <1>13, <2>1
<1>15. StartOf(m, n + 1) = FrameEnd(m)
  <2>1. n + 1 \in 1 .. n + 1 /\ (n + 1) - 1 = n
    BY <1>1
  <2> QED
    BY <1>2, <1>4, <1>6, <1>9, <1>11, <1>13, <2>1
<1>16. ASSUME NEW i \in 1 .. n
       PROVE  /\ StartOf(m, i) \in Nat
              /\ StartOf(m, i + 1) = StartOf(m, i) + Len(A[i])
              /\ StartOf(m, i + 1) <= FrameEnd(m)
              /\ StartOf(m, i) >= RadiotapLength
              /\ Holds(F, StartOf(m, i) - RadiotapLength, A[i])
  <2>1. /\ i \in 1 .. n + 1 /\ i + 1 \in 1 .. n + 1 /\ (i + 1) - 1 = i /\ i \in 0 .. n
        /\ 1 <= i /\ i <= n /\ i \in Nat
    BY <1>1
  <2>2. StartOf(m, i) = RadiotapLength + H + off[i - 1]
    BY <1>13, <2>1
  <2>3. StartOf(m, i + 1) = RadiotapLength + H + off[i]
    BY <1>13, <2>1
  <2>4. off[i] = off[i - 1] + Len(A[i]) /\ off[i - 1] \in Nat /\ Len(A[i]) \in Nat
    BY <1>1, <1>10, <1>12, <2>1
  <2>5. off[i] <= off[n]
    <3>1. n \in 0 .. n
      BY <1>1
    <3> QED
      BY <1>1, <1>7, <2>1, <3>1, OffsetsGrow DEF n
  <2>6. H + off[i - 1] + Len(A[i]) <= Len(F)
    BY <1>2, <1>9, <1>11, <2>4, <2>5
  <2>7. Holds(F, H + off[i - 1], A[i])
    <3>1. Holds(all, off[i - 1], A[i]) /\ IsSeq(A[i])
      BY <1>1, <1>7
    <3>2. H \in Int /\ off[i - 1] + Len(A[i]) <= Len(all)
      BY <1>2, <1>7, <2>4, <2>5
    <3> QED
      BY <1>7, <1>9, <2>4, <3>1, <3>2, HoldsWithin
  <2>8. StartOf(m, i) - RadiotapLength = H + off[i - 1]
    BY <1>2, <1>4, <2>2, <2>4
  <2>10. FrameEnd(m) = RadiotapLength + (H + off[n])
    BY <1>6, <1>9
  <2>9. /\ StartOf(m, i) \in Nat /\ StartOf(m, i + 1) = StartOf(m, i) + Len(A[i])
        /\ StartOf(m, i + 1) <= FrameEnd(m) /\ StartOf(m, i) >= RadiotapLength
    BY <1>2, <1>4, <1>11, <2>2, <2>3, <2>4, <2>5, <2>10
  <2> QED
    BY <2>7, <2>8, <2>9
<1>17. Len(F) \in Nat /\ H <= Len(F)
  BY <1>2, <1>9, <1>11
<1>18. ASSUME NEW j \in 1 .. n + 1, NEW i \in 1 .. j
       PROVE  StartOf(m, i) <= StartOf(m, j)
  <2>1. /\ i \in 1 .. n + 1 /\ j - 1 \in 0 .. n /\ i - 1 \in 0 .. j - 1
    BY <1>1
  <2>2. off[i - 1] <= off[j - 1]
    BY <1>1, <1>7, <2>1, OffsetsGrow DEF n
  <2>3. /\ StartOf(m, i) = RadiotapLength + H + off[i - 1] /\ off[i - 1] \in Nat
        /\ StartOf(m, j) = RadiotapLength + H + off[j - 1] /\ off[j - 1] \in Nat
    BY <1>12, <1>13, <2>1
  <2> QED
    BY <1>2, <1>4, <2>2, <2>3
<1> QED
  BY <1>2, <1>9, <1>14, <1>15, <1>16, <1>17, <1>18 DEF A, n, h, H, F

----------------------------------------------------------------------------
(* What a message tells. *)

\* Before attribute i is dealt with, k values have been handed on.
Reached(m, i, k) ==
    \/ m.kind = "beacon" /\ k = i + 1
    \/ m.kind = "discovery" /\ \/ i = 1 /\ k = 1
                               \/ i = 2 * k
                               \/ k > 0 /\ i = 2 * k + 1
    \/ m.kind = "follow_up" /\ \/ i = 1 /\ k = 1
                               \/ i > 1 /\ k = 2

\* How many values a message tells.
ToldSize(m) ==
    IF m.kind = "beacon" THEN 4
    ELSE IF m.kind \in {"discovery", "follow_up"} THEN 1 + Len(m.services) ELSE 1

\* The values of a beacon (Told).
BeaconValues(m) ==
    << [ type |-> m.type, timestamp |-> m.timestamp ],
       [ master_preference |-> m.master_preference, random_factor |-> m.random_factor ],
       [ anchor_master_rank |-> m.anchor_master_rank, hop_count |-> m.hop_count,
         ambtt |-> m.ambtt ] >>

\* The values a message tells, in their order.
LEMMA ToldItems ==
    ASSUME NEW m \in Messages
    PROVE  /\ Size(Told(m), ToldSize(m)) /\ ToldSize(m) \in Nat /\ 1 <= ToldSize(m)
           /\ Told(m)[1] = Addresses(m)
           /\ m.kind = "beacon" =>
                 \A j \in 1 .. 3 : Told(m)[j + 1] = BeaconValues(m)[j]
           /\ m.kind \in {"discovery", "follow_up"} =>
                 \A j \in 1 .. Len(m.services) :
                    Told(m)[j + 1] = DescriptorValue(m.services[j])
<1> DEFINE a == << Addresses(m) >>
           d == [ i \in DOMAIN m.services |-> DescriptorValue(m.services[i]) ]
           b == BeaconValues(m)
<1>1. Size(a, 1) /\ a[1] = Addresses(m)
  BY SingleSeq
<1>2. /\ m.kind = "beacon" => Told(m) = a \o b
      /\ m.kind \in {"discovery", "follow_up"} => Told(m) = a \o d
      /\ m.kind \notin {"beacon", "discovery", "follow_up"} => Told(m) = a \o <<>>
  BY DEF Told, BeaconValues
<1>3. Size(b, 3)
  <2> DEFINE t == BeaconValues(m)
             S == {t[1], t[2], t[3]}
  <2>1. t \in Seq(S) /\ Len(t) = 3
    BY DEF BeaconValues
  <2> HIDE DEF t, S
  <2>2. IsSeq(t)
    BY <2>1, SeqOfAny
  <2> QED
    BY <2>1, <2>2 DEF Size, t
<1> HIDE DEF a, b
<1>4. \A v, n : n \in Nat /\ Size(v, n) =>
          /\ Size(a \o v, 1 + n) /\ (a \o v)[1] = Addresses(m)
          /\ \A j \in 1 .. n : (a \o v)[j + 1] = v[j]
  <2> TAKE v, n
  <2> HAVE n \in Nat /\ Size(v, n)
  <2>1. /\ IsSeq(a \o v) /\ Len(a \o v) = 1 + n
        /\ Holds(a \o v, 0, a) /\ Holds(a \o v, 1, v)
    BY <1>1, Concat DEF Size
  <2>2. 1 \in 1 .. 1 /\ 0 + 1 = 1 /\ Len(a) = 1 /\ Len(v) = n
    BY <1>1 DEF Size
  <2>3. (a \o v)[1] = Addresses(m)
    BY <1>1, <2>1, <2>2 DEF Holds
  <2>4. \A j \in 1 .. n : (a \o v)[j + 1] = v[j]
    <3> TAKE j \in 1 .. n
    <3>1. 1 + j = j + 1
      OBVIOUS
    <3>2. (a \o v)[1 + j] = v[j]
      BY <2>1, <2>2 DEF Holds
    <3> QED
      BY <3>1, <3>2
  <2> QED
    BY <2>1, <2>3, <2>4 DEF Size
<1>5. CASE m.kind = "beacon"
  <2>1. Told(m) = a \o b /\ ToldSize(m) = 1 + 3
    BY <1>2, <1>5 DEF ToldSize
  <2>2. m.kind \notin {"discovery", "follow_up"}
    BY <1>5
  <2>3. 3 \in Nat /\ 1 + 3 \in Nat /\ 1 <= 1 + 3
    OBVIOUS
  <2>4. /\ Size(a \o b, 1 + 3) /\ (a \o b)[1] = Addresses(m)
        /\ \A j \in 1 .. 3 : (a \o b)[j + 1] = b[j]
    BY <1>3, <1>4, <2>3
  <2>5. \A j \in 1 .. 3 : Told(m)[j + 1] = BeaconValues(m)[j]
    BY <2>1, <2>4 DEF b
  <2> QED
    BY <2>1, <2>2, <2>3, <2>4, <2>5
<1>6. CASE m.kind \in {"discovery", "follow_up"}
  <2>1. Told(m) = a \o d /\ ToldSize(m) = 1 + Len(m.services) /\ m.kind # "beacon"
    BY <1>2, <1>6 DEF ToldSize
  <2>2. Len(m.services) \in Nat /\ DOMAIN m.services = 1 .. Len(m.services)
    BY <1>6, ServicesOf
  <2>3. Size(d, Len(m.services))
    <3>1. d = [ i \in 1 .. Len(m.services) |-> d[i] ]
      BY <2>2
    <3> HIDE DEF d
    <3> QED
      BY <2>2, <3>1, MakeSeq DEF Size
  <2>4. \A j \in 1 .. Len(m.services) : d[j] = DescriptorValue(m.services[j])
    BY <2>2
  <2> DEFINE N == Len(m.services)
  <2> HIDE DEF d, N
  <2>5. N \in Nat /\ Size(d, N)
    BY <2>2, <2>3 DEF N
  <2>6. /\ Size(a \o d, 1 + N) /\ (a \o d)[1] = Addresses(m)
        /\ \A j \in 1 .. N : (a \o d)[j + 1] = d[j]
    BY <1>4, <2>5
  <2>7. 1 + N \in Nat /\ 1 <= 1 + N
    BY <2>5
  <2>8. \A j \in 1 .. N : Told(m)[j + 1] = DescriptorValue(m.services[j])
    BY <2>1, <2>4, <2>6 DEF N
  <2> QED
    BY <2>1, <2>6, <2>7, <2>8 DEF N
<1>7. CASE m.kind \notin {"beacon", "discovery", "follow_up"}
  <2>1. Told(m) = a \o <<>> /\ ToldSize(m) = 1 + 0
    BY <1>2, <1>7 DEF ToldSize
  <2>2. 0 \in Nat /\ 1 + 0 \in Nat /\ 1 <= 1 + 0
    OBVIOUS
  <2>3. Size(a \o <<>>, 1 + 0) /\ (a \o <<>>)[1] = Addresses(m)
    BY <1>4, <2>2, EmptySize
  <2> QED
    BY <1>7, <2>1, <2>2, <2>3
<1> QED
  BY <1>5, <1>6, <1>7

\* parsed is the first k of the values a message tells.
First(p, m, k) == k \in 0 .. ToldSize(m) /\ p = SubSeq(Told(m), 1, k)

\* One more of them.
LEMMA OneMore ==
    ASSUME NEW m \in Messages, NEW k \in Nat, NEW p, First(p, m, k), k < ToldSize(m),
           NEW v, v = Told(m)[k + 1]
    PROVE  First(Append(p, v), m, k + 1)
<1> DEFINE t == Told(m)
           n == ToldSize(m)
<1>1. Size(t, n) /\ n \in Nat
  BY ToldItems
<1> HIDE DEF t, n
<1>2. p = SubSeq(t, 1, k) /\ k < n /\ v = t[k + 1]
  BY DEF First, t, n
<1>3. t \in Seq(Range(t)) /\ Len(t) = n
  BY <1>1 DEF Size, IsSeq
<1>4. Append(SubSeq(t, 1, k), t[k + 1]) = SubSeq(t, 1, k + 1)
  <2> DEFINE S == Range(t)
             q == SubSeq(t, 1, k)
             r == SubSeq(t, 1, k + 1)
  <2>1. t \in Seq(S)
    BY <1>3
  <2> HIDE DEF S
  <2>2. q \in Seq(S) /\ Len(q) = k /\ \A i \in 1 .. k : q[i] = t[i]
    BY <1>1, <1>2, <1>3, <2>1
  <2>3. r \in Seq(S) /\ Len(r) = k + 1 /\ \A i \in 1 .. k + 1 : r[i] = t[i]
    BY <1>1, <1>2, <1>3, <2>1
  <2> HIDE DEF q, r
  <2>4. t[k + 1] \in S
    BY <1>1, <1>2, <1>3, <2>1
  <2>5. /\ Append(q, t[k + 1]) \in Seq(S) /\ Len(Append(q, t[k + 1])) = k + 1
        /\ \A i \in 1 .. k + 1 : Append(q, t[k + 1])[i] = t[i]
    BY <2>2, <2>4
  <2> DEFINE u == Append(q, t[k + 1])
  <2> HIDE DEF u
  <2>6. IsSeq(u) /\ IsSeq(r)
    BY <2>3, <2>5, SeqOfAny DEF u
  <2>7. u = r
    BY <2>3, <2>5, <2>6, SameItems DEF u
  <2> QED
    BY <2>7 DEF q, r, u
<1>5. k + 1 \in 0 .. n
  BY <1>1, <1>2
<1> QED
  BY <1>2, <1>4, <1>5 DEF First, t, n

\* The first values are a prefix; all of them are the whole.
LEMMA FirstIsPrefix ==
    ASSUME NEW m \in Messages, NEW k, NEW p, First(p, m, k)
    PROVE  /\ IsPrefix(p, Told(m))
           /\ k = ToldSize(m) => p = Told(m)
<1> DEFINE t == Told(m)
           n == ToldSize(m)
<1>1. Size(t, n) /\ n \in Nat
  BY ToldItems
<1> HIDE DEF t, n
<1>2. k \in 0 .. n /\ p = SubSeq(t, 1, k)
  BY DEF First, t, n
<1>3. t \in Seq(Range(t)) /\ Len(t) = n
  BY <1>1 DEF Size, IsSeq
<1> DEFINE S == Range(t)
<1>4. t \in Seq(S)
  BY <1>3
<1> HIDE DEF S
<1>5. p \in Seq(S) /\ Len(p) = k /\ \A i \in 1 .. k : p[i] = t[i]
  BY <1>1, <1>2, <1>3, <1>4
<1>6. SubSeq(p, 1, Len(p)) = p
  <2> DEFINE q == SubSeq(p, 1, k)
  <2>1. q \in Seq(S) /\ Len(q) = k /\ \A i \in 1 .. k : q[i] = p[i]
    BY <1>2, <1>5
  <2> HIDE DEF q
  <2>2. IsSeq(q) /\ IsSeq(p)
    BY <1>5, <2>1, SeqOfAny
  <2>3. q = p
    BY <1>5, <2>1, <2>2, SameItems
  <2> QED
    BY <1>5, <2>3 DEF q
<1>7. SubSeq(t, 1, Len(p)) = p
  BY <1>2, <1>5
<1>8. Len(p) <= Len(t)
  BY <1>2, <1>3, <1>5
<1>9. IsPrefix(p, t)
  BY <1>6, <1>7, <1>8 DEF IsPrefix
<1>10. ASSUME k = n PROVE p = t
  <2>1. IsSeq(p) /\ IsSeq(t)
    BY <1>4, <1>5, SeqOfAny
  <2>2. Len(p) = Len(t) /\ \A i \in 1 .. Len(p) : p[i] = t[i]
    BY <1>3, <1>5, <1>10
  <2> QED
    BY <2>1, <2>2, SameItems
<1> QED
  BY <1>9, <1>10 DEF t, n

\* A service of a message, with what its descriptor and its extension are.
ServiceIn(m, s) == IsService(s) /\ \E j \in DOMAIN m.services : s = m.services[j]

\* Before the first attribute, the header's values.
LEMMA ReachedStart ==
    ASSUME NEW m, Laid(m)
    PROVE  /\ m.kind = "beacon" => Reached(m, 1, 2)
           /\ m.kind # "beacon" => Reached(m, 1, 1)
BY DEF Laid, Reached

\* After the last, all of them.
LEMMA ReachedEnd ==
    ASSUME NEW m, Laid(m), NEW k \in Nat, Reached(m, Len(AttributesOf(m)) + 1, k)
    PROVE  k = ToldSize(m)
<1> DEFINE n == Len(AttributesOf(m))
<1>1. Reached(m, n + 1, k)
  OBVIOUS
<1> HIDE DEF n
<1>2. CASE m.kind = "beacon"
  <2>1. n = 2
    BY <1>2, BeaconSlots DEF Size, n
  <2>2. k = 4
    BY <1>1, <1>2, <2>1 DEF Reached
  <2> QED
    BY <1>2, <2>2 DEF ToldSize
<1>3. CASE m.kind = "discovery"
  <2> DEFINE N == Len(m.services)
  <2>1. n = 2 + 2 * N /\ N \in Nat
    BY <1>3, DiscoverySlots, ServicesOf DEF Size, n, Laid
  <2> HIDE DEF N
  <2>2. \/ n + 1 = 1
        \/ n + 1 = 2 * k
        \/ n + 1 = 2 * k + 1
    BY <1>1, <1>3 DEF Reached
  <2>3. k = 1 + N
    BY <2>1, <2>2
  <2> QED
    BY <1>3, <2>3 DEF ToldSize, N
<1>4. CASE m.kind = "follow_up"
  <2>1. n \in 1 .. 2
    BY <1>4, FollowUpSlots DEF Size, n
  <2>2. k = 2
    BY <1>1, <1>4, <2>1 DEF Reached
  <2>3. Len(m.services) = 1
    BY <1>4, ServicesOf DEF Laid
  <2> QED
    BY <1>4, <2>2, <2>3 DEF ToldSize
<1> QED
  BY <1>2, <1>3, <1>4 DEF Laid

\* What is handed on of a beacon's attribute is the next value it tells.
LEMMA BeaconStep ==
    ASSUME NEW m, Laid(m), m.kind = "beacon", NEW i \in Nat, NEW id, NEW c,
           Slot(m, i, id, c), NEW k \in Nat, Reached(m, i, k)
    PROVE  /\ k < ToldSize(m) /\ Reached(m, i + 1, k + 1)
           /\ \/ /\ id = MASTER_INDICATION_ATTRIBUTE /\ c = MasterContents(m)
                 /\ Told(m)[k + 1] = [ master_preference |-> m.master_preference,
                                       random_factor |-> m.random_factor ]
              \/ /\ id = CLUSTER_ATTRIBUTE /\ c = ClusterContents(m)
                 /\ Told(m)[k + 1] = [ anchor_master_rank |-> m.anchor_master_rank,
                                       hop_count |-> m.hop_count, ambtt |-> m.ambtt ]
<1>1. /\ \A j \in 1 .. 3 : Told(m)[j + 1] = BeaconValues(m)[j]
      /\ ToldSize(m) = 4
  BY ToldItems DEF Laid, ToldSize
<1>2. k = i + 1
  BY DEF Reached
<1>3. \/ i = 1 /\ id = MASTER_INDICATION_ATTRIBUTE /\ c = MasterContents(m)
      \/ i = 2 /\ id = CLUSTER_ATTRIBUTE /\ c = ClusterContents(m)
  BY DEF Slot
<1>4. CASE i = 1
  <2>1. k = 2 /\ 2 \in 1 .. 3 /\ i + 1 = 2 /\ k + 1 = 2 + 1
    BY <1>2, <1>4
  <2>2. Told(m)[k + 1] = BeaconValues(m)[2]
    BY <1>1, <2>1
  <2>3. BeaconValues(m)[2] = [ master_preference |-> m.master_preference,
                               random_factor |-> m.random_factor ]
    BY DEF BeaconValues
  <2>4. Reached(m, i + 1, k + 1)
    BY <2>1 DEF Reached
  <2> QED
    BY <1>1, <1>3, <1>4, <2>1, <2>2, <2>3, <2>4
<1>5. CASE i = 2
  <2>1. k = 3 /\ 3 \in 1 .. 3 /\ i + 1 = 3 /\ k + 1 = 3 + 1
    BY <1>2, <1>5
  <2>2. Told(m)[k + 1] = BeaconValues(m)[3]
    BY <1>1, <2>1
  <2>3. BeaconValues(m)[3] = [ anchor_master_rank |-> m.anchor_master_rank,
                               hop_count |-> m.hop_count, ambtt |-> m.ambtt ]
    BY DEF BeaconValues
  <2>4. Reached(m, i + 1, k + 1)
    BY <2>1 DEF Reached
  <2> QED
    BY <1>1, <1>3, <1>5, <2>1, <2>2, <2>3, <2>4
<1> QED
  BY <1>3, <1>4, <1>5

\* So is what is handed on of a descriptor; the others tell nothing.
LEMMA ServiceStep ==
    ASSUME NEW m, Laid(m), m.kind # "beacon", NEW i \in Nat, NEW id, NEW c, Slot(m, i, id, c),
           NEW k \in Nat, Reached(m, i, k)
    PROVE  \/ /\ id = SERVICE_DESCRIPTOR_ATTRIBUTE
              /\ \E s : /\ ServiceIn(m, s) /\ c = SdaContents(s)
                        /\ Told(m)[k + 1] = DescriptorValue(s)
              /\ k < ToldSize(m) /\ Reached(m, i + 1, k + 1)
           \/ /\ id = SERVICE_DESCRIPTOR_EXTENSION_ATTRIBUTE
              /\ \E s : ServiceIn(m, s) /\ c = SdeaContents(s)
              /\ Reached(m, i + 1, k)
           \/ /\ id \notin {SERVICE_DESCRIPTOR_ATTRIBUTE, SERVICE_DESCRIPTOR_EXTENSION_ATTRIBUTE}
              /\ Reached(m, i + 1, k)
<1> DEFINE N == Len(m.services)
<1>1. /\ N \in Nat /\ DOMAIN m.services = 1 .. N /\ ToldSize(m) = 1 + N
      /\ \A j \in 1 .. N : Told(m)[j + 1] = DescriptorValue(m.services[j])
      /\ \A j \in 1 .. N : ServiceIn(m, m.services[j])
      /\ m.kind = "follow_up" => N = 1
  BY ServicesOf, ToldItems DEF Laid, ToldSize, ServiceIn
<1> HIDE DEF N
<1>2. \/ m.kind = "discovery" /\ i = 1 /\ id = DEVICE_CAPABILITY_ATTRIBUTE
      \/ m.kind = "discovery" /\ i = 2 /\ id = NAN_AVAILABILITY_ATTRIBUTE
      \/ /\ m.kind = "discovery" /\ id = SERVICE_DESCRIPTOR_ATTRIBUTE
         /\ \E j \in 1 .. N : i = 2 * j + 1 /\ c = SdaContents(m.services[j])
      \/ /\ m.kind = "discovery" /\ id = SERVICE_DESCRIPTOR_EXTENSION_ATTRIBUTE
         /\ \E j \in 1 .. N : i = 2 * j + 2 /\ c = SdeaContents(m.services[j])
      \/ /\ m.kind = "follow_up" /\ i = 1 /\ id = SERVICE_DESCRIPTOR_ATTRIBUTE
         /\ c = SdaContents(m.services[1])
      \/ /\ m.kind = "follow_up" /\ i = 2 /\ id = SERVICE_DESCRIPTOR_EXTENSION_ATTRIBUTE
         /\ c = SdeaContents(m.services[1])
  BY DEF Slot, N
<1>3. CASE m.kind = "discovery" /\ i = 1 /\ id = DEVICE_CAPABILITY_ATTRIBUTE
  <2>1. k = 1
    BY <1>3 DEF Reached
  <2>2. Reached(m, i + 1, k)
    BY <1>3, <2>1 DEF Reached
  <2> QED
    BY <1>3, <2>2 DEF DEVICE_CAPABILITY_ATTRIBUTE, SERVICE_DESCRIPTOR_ATTRIBUTE,
       SERVICE_DESCRIPTOR_EXTENSION_ATTRIBUTE
<1>4. CASE m.kind = "discovery" /\ i = 2 /\ id = NAN_AVAILABILITY_ATTRIBUTE
  <2>1. k = 1
    BY <1>4 DEF Reached
  <2>2. Reached(m, i + 1, k)
    BY <1>4, <2>1 DEF Reached
  <2> QED
    BY <1>4, <2>2 DEF NAN_AVAILABILITY_ATTRIBUTE, SERVICE_DESCRIPTOR_ATTRIBUTE,
       SERVICE_DESCRIPTOR_EXTENSION_ATTRIBUTE
<1>5. CASE /\ m.kind = "discovery" /\ id = SERVICE_DESCRIPTOR_ATTRIBUTE
           /\ \E j \in 1 .. N : i = 2 * j + 1 /\ c = SdaContents(m.services[j])
  <2>1. PICK j \in 1 .. N : i = 2 * j + 1 /\ c = SdaContents(m.services[j])
    BY <1>5
  <2>2. i = 1 \/ i = 2 * k \/ i = 2 * k + 1
    BY <1>5 DEF Reached
  <2>3. k = j
    BY <2>1, <2>2
  <2>4. Reached(m, i + 1, k + 1)
    <3>1. i + 1 = 2 * (k + 1)
      BY <2>1, <2>3
    <3> QED
      BY <1>5, <3>1 DEF Reached
  <2>5. Told(m)[k + 1] = DescriptorValue(m.services[j]) /\ ServiceIn(m, m.services[j])
    BY <1>1, <2>3
  <2>6. k < ToldSize(m)
    BY <1>1, <2>3
  <2> QED
    BY <1>5, <2>1, <2>4, <2>5, <2>6
<1>6. CASE /\ m.kind = "discovery" /\ id = SERVICE_DESCRIPTOR_EXTENSION_ATTRIBUTE
           /\ \E j \in 1 .. N : i = 2 * j + 2 /\ c = SdeaContents(m.services[j])
  <2>1. PICK j \in 1 .. N : i = 2 * j + 2 /\ c = SdeaContents(m.services[j])
    BY <1>6
  <2>2. i = 1 \/ i = 2 * k \/ i = 2 * k + 1
    BY <1>6 DEF Reached
  <2>3. i = 2 * k
    BY <2>1, <2>2
  <2>4. Reached(m, i + 1, k)
    <3>1. i + 1 = 2 * k + 1 /\ k > 0
      BY <2>1, <2>3
    <3> QED
      BY <1>6, <3>1 DEF Reached
  <2> QED
    BY <1>1, <1>6, <2>1, <2>4
<1>7. CASE /\ m.kind = "follow_up" /\ i = 1 /\ id = SERVICE_DESCRIPTOR_ATTRIBUTE
           /\ c = SdaContents(m.services[1])
  <2>1. k = 1 /\ N = 1 /\ ToldSize(m) = 2 /\ 1 \in 1 .. 1
    BY <1>1, <1>7 DEF Reached
  <2>2. Told(m)[k + 1] = DescriptorValue(m.services[1]) /\ ServiceIn(m, m.services[1])
    BY <1>1, <2>1
  <2>3. Reached(m, i + 1, k + 1)
    BY <1>7, <2>1 DEF Reached
  <2> QED
    BY <1>7, <2>1, <2>2, <2>3
<1>8. CASE /\ m.kind = "follow_up" /\ i = 2 /\ id = SERVICE_DESCRIPTOR_EXTENSION_ATTRIBUTE
           /\ c = SdeaContents(m.services[1])
  <2>1. N = 1 /\ 1 \in 1 .. 1
    BY <1>1, <1>8
  <2>2. ServiceIn(m, m.services[1])
    BY <1>1, <2>1
  <2>3. Reached(m, i + 1, k)
    BY <1>8 DEF Reached
  <2> QED
    BY <1>8, <2>2, <2>3
<1> QED
  BY <1>2, <1>3, <1>4, <1>5, <1>6, <1>7, <1>8

----------------------------------------------------------------------------
(* What is captured of a frame. *)

\* What lies at the front of a part.
LEMMA HoldsFront ==
    ASSUME NEW data, NEW p \in Int, NEW s, Holds(data, p, s), IsSeq(s),
           NEW t, IsSeq(t), Holds(s, 0, t), Len(t) <= Len(s)
    PROVE  Holds(data, p, t)
<1> SUFFICES ASSUME NEW k \in 1 .. Len(t)
             PROVE  data[p + k] = t[k]
  BY DEF Holds
<1>1. Len(s) \in Nat /\ Len(t) \in Nat
  BY SeqFacts
<1>2. k \in 1 .. Len(s) /\ 0 + k = k
  BY <1>1
<1>3. data[p + k] = s[k] /\ s[0 + k] = t[k]
  BY <1>2 DEF Holds
<1> QED
  BY <1>2, <1>3

\* The frame control of a message's frame.
ControlType(m) ==
    IF m.kind = "beacon" THEN IEEE80211_STYPE_BEACON
    ELSE IF m.kind = "data" THEN 8 ELSE IEEE80211_STYPE_ACTION

\* Any frame starts with the header of its kind.
LEMMA FrameStarts ==
    ASSUME NEW m \in Messages
    PROVE  LET h == ieee80211_add_nan_header(m, ControlType(m)) IN
           /\ IsSeq(FrameOf(m)) /\ Len(FrameOf(m)) \in Nat /\ 24 <= Len(FrameOf(m))
           /\ Holds(FrameOf(m), 0, h) /\ Size(h, 24)
           /\ m.kind = "action" =>
                 /\ FrameOf(m) = ActionFrame(m)
                 /\ Len(FrameOf(m)) = 31
<1> DEFINE F == FrameOf(m)
           h == ieee80211_add_nan_header(m, ControlType(m))
<1>0. m.kind \in {"beacon", "discovery", "follow_up", "action", "data"}
  BY ReceptionAssumption DEF IsMessage
<1>1. Size(h, 24) /\ 0 \in Nat
  BY NanHeader
<1>2. CASE m.kind \in {"beacon", "discovery", "follow_up"}
  <2>1. Laid(m) /\ m.kind # "action"
    BY <1>2 DEF Laid
  <2>2. /\ IsSeq(F) /\ Len(F) \in Nat
        /\ Size(HeaderOf(m), HeaderSize(m)) /\ Holds(F, 0, HeaderOf(m))
        /\ HeaderSize(m) <= Len(F)
    BY <2>1, Layout
  <2>3. HeaderSize(m) \in {42, 30}
    BY DEF HeaderSize
  <2>4. Holds(F, 0, h)
    <3> HIDE DEF F
    <3>1. CASE m.kind = "beacon"
      BY <1>1, <2>2, <3>1, BeaconHeader DEF HeaderOf, ControlType
    <3>2. CASE m.kind \in {"discovery", "follow_up"}
      BY <1>1, <2>2, <3>2, ServiceHeader DEF HeaderOf, ControlType
    <3> QED
      BY <1>2, <3>1, <3>2
  <2>5. 24 <= Len(F)
    BY <2>2, <2>3
  <2> HIDE DEF F, h
  <2> QED
    BY <1>1, <2>1, <2>2, <2>4, <2>5 DEF F, h
<1>3. CASE m.kind = "action"
  <2>1. F = ActionFrame(m) /\ Size(F, 31)
    BY <1>3, ActionHeader DEF FrameOf
  <2>2. IsSeq(F) /\ Len(F) = 31
    BY <2>1 DEF Size
  <2>3. Holds(F, 0, F)
    BY <2>2, HoldsItself
  <2>4. Holds(F, 0, h)
    BY <1>1, <1>3, <2>1, <2>3, ActionHeader DEF ControlType
  <2>5. 31 \in Nat /\ 24 <= 31
    OBVIOUS
  <2> HIDE DEF F, h
  <2> QED
    BY <1>1, <2>1, <2>2, <2>4, <2>5 DEF F, h
<1>4. CASE m.kind = "data"
  <2>1. F = DataFrame(m) /\ Size(F, 26)
    BY <1>4, DataHeader DEF FrameOf
  <2>2. IsSeq(F) /\ Len(F) = 26
    BY <2>1 DEF Size
  <2>3. Holds(F, 0, F)
    BY <2>2, HoldsItself
  <2>4. Holds(F, 0, h)
    BY <1>1, <1>4, <2>1, <2>3, DataHeader DEF ControlType
  <2>5. 26 \in Nat /\ 24 <= 26 /\ m.kind # "action"
    BY <1>4
  <2> HIDE DEF F, h
  <2> QED
    BY <1>1, <2>1, <2>2, <2>4, <2>5 DEF F, h
<1> QED
  BY <1>0, <1>2, <1>3, <1>4

\* What is captured: the frame lies behind the radiotap header.
LEMMA CapturedLies ==
    ASSUME NEW m \in Messages, NEW fcs \in BOOLEAN
    PROVE  LET C == Captured(m, fcs) IN
           /\ IsSeq(C) /\ Len(C) \in Nat
           /\ Len(C) = FrameEnd(m) + (IF fcs THEN 4 ELSE 0)
           /\ Holds(C, RadiotapLength, FrameOf(m))
           /\ FrameEnd(m) \in Nat /\ RadiotapLength + 24 <= FrameEnd(m)
<1> DEFINE R == Opaque(RadiotapLength)
           F == FrameOf(m)
           G == IF fcs THEN ieee80211_add_fcs(F) ELSE F
           C == Captured(m, fcs)
<1>1. C = R \o G
  BY DEF Captured
<1>2. RadiotapLength \in Nat
  BY ReceptionAssumption
<1>3. IsSeq(R) /\ Len(R) = RadiotapLength
  BY <1>2, FieldSeq DEF Opaque
<1>4. IsSeq(F) /\ Len(F) \in Nat /\ 24 <= Len(F)
  BY FrameStarts
<1>5. FrameEnd(m) = RadiotapLength + Len(F)
  BY DEF FrameEnd
<1>6. IsSeq(G) /\ Len(G) = Len(F) + (IF fcs THEN 4 ELSE 0) /\ Holds(G, 0, F)
  <2>1. CASE fcs
    <3>1. G = F \o Field(Fcs, 4)
      BY <2>1 DEF ieee80211_add_fcs
    <3>2. IsSeq(Field(Fcs, 4)) /\ Len(Field(Fcs, 4)) = 4
      BY FieldSeq
    <3> HIDE DEF F, G
    <3>3. IsSeq(G) /\ Len(G) = Len(F) + 4 /\ Holds(G, 0, F)
      BY <1>4, <3>1, <3>2, Concat
    <3> QED
      BY <2>1, <3>3
  <2>2. CASE ~fcs
    <3>1. G = F
      BY <2>2
    <3> HIDE DEF F, G
    <3>2. Holds(G, 0, F)
      BY <1>4, <3>1, HoldsItself
    <3>3. Len(G) = Len(F) + 0
      BY <1>4, <3>1
    <3> QED
      BY <1>4, <2>2, <3>1, <3>2, <3>3
  <2> QED
    BY <2>1, <2>2
<1> HIDE DEF R, F, G, C
<1>7. IsSeq(C) /\ Len(C) = RadiotapLength + Len(G) /\ Holds(C, RadiotapLength, G)
  BY <1>1, <1>3, <1>6, Concat
<1>8. Len(G) \in Nat /\ 0 + Len(F) <= Len(G)
  BY <1>4, <1>6
<1>9. Holds(C, RadiotapLength + 0, F)
  BY <1>2, <1>4, <1>6, <1>7, <1>8, HoldsWithin
<1>10. RadiotapLength + 0 = RadiotapLength
  BY <1>2
<1>11. /\ Len(C) \in Nat /\ FrameEnd(m) \in Nat /\ RadiotapLength + 24 <= FrameEnd(m)
       /\ Len(C) = FrameEnd(m) + (IF fcs THEN 4 ELSE 0)
  BY <1>2, <1>4, <1>5, <1>6, <1>7
<1> QED
  BY <1>7, <1>9, <1>10, <1>11 DEF C, F

\* Where the values of the header are.
LEMMA CapturedHeader ==
    ASSUME NEW m \in Messages, NEW fcs \in BOOLEAN
    PROVE  LET C == Captured(m, fcs)
               R == RadiotapLength IN
           /\ Holds(C, R, Field(ControlType(m), 2))
           /\ Holds(C, R + 4, Field(m.dst, 6))
           /\ Holds(C, R + 10, Field(m.src, 6))
           /\ Holds(C, R + 16, Field(m.cluster_id, 6))
<1> DEFINE C == Captured(m, fcs)
           h == ieee80211_add_nan_header(m, ControlType(m))
           F == FrameOf(m)
           R == RadiotapLength
<1>1. R \in Nat /\ R + 0 = R
  BY ReceptionAssumption
<1>2. Holds(C, R, F)
  BY CapturedLies
<1>3. /\ IsSeq(F) /\ 24 <= Len(F) /\ Holds(F, 0, h) /\ IsSeq(h) /\ Len(h) = 24
  BY FrameStarts DEF Size
<1> HIDE DEF C, F, R
<1>4. Holds(C, R, h)
  <2> HIDE DEF h
  <2>1. Len(h) <= Len(F) /\ R \in Int
    BY <1>1, <1>3
  <2> QED
    BY <1>2, <1>3, <2>1, HoldsFront
<1> QED
  BY <1>1, <1>4, NanHeader DEF C, R

\* Where those of a beacon's header are.
LEMMA CapturedBeacon ==
    ASSUME NEW m \in Messages, m.kind = "beacon", NEW fcs \in BOOLEAN
    PROVE  LET C == Captured(m, fcs)
               R == RadiotapLength + 24 IN
           /\ Holds(C, R, Field(m.timestamp, 8))
           /\ Holds(C, R + 8, Field(IntervalOf(m.type), 2))
           /\ Holds(C, R + 14, Field(m.oui, 3))
           /\ Holds(C, R + 17, Field(NAN_OUI_TYPE_BEACON, 1))
           /\ RadiotapLength + 42 <= FrameEnd(m)
<1> DEFINE C == Captured(m, fcs)
           h == HeaderOf(m)
           F == FrameOf(m)
           R == RadiotapLength
<1>1. R \in Nat /\ R + 0 = R /\ R + 24 = R + 24 /\ (R + 24) + 8 = R + 32
      /\ (R + 24) + 14 = R + 38 /\ (R + 24) + 17 = R + 41
  BY ReceptionAssumption
<1>2. Holds(C, R, F) /\ FrameEnd(m) = R + Len(F)
  BY CapturedLies DEF FrameEnd
<1>3. IsSeq(F) /\ Len(F) \in Nat /\ 42 <= Len(F) /\ Holds(F, 0, h) /\ IsSeq(h) /\ Len(h) = 42
  <2>1. Laid(m) /\ HeaderSize(m) = 42
    BY DEF Laid, HeaderSize
  <2> QED
    BY <2>1, Layout DEF Size
<1>4. h = nan_add_beacon_header(m, 4 + Len(FlattenSeq(BeaconAttributes(m))))
  BY DEF HeaderOf
<1> HIDE DEF C, F, R, h
<1>5. Holds(C, R, h)
  <2>1. Len(h) <= Len(F) /\ R \in Int
    BY <1>1, <1>3
  <2> QED
    BY <1>2, <1>3, <2>1, HoldsFront
<1>6. /\ Holds(C, R + 24, Field(m.timestamp, 8))
      /\ Holds(C, R + 32, Field(IntervalOf(m.type), 2))
      /\ Holds(C, R + 38, Field(m.oui, 3))
      /\ Holds(C, R + 41, Field(NAN_OUI_TYPE_BEACON, 1))
  BY <1>1, <1>4, <1>5, BeaconHeader
<1>7. R + 42 <= FrameEnd(m)
  BY <1>1, <1>2, <1>3
<1> QED
  BY <1>1, <1>6, <1>7 DEF C, R

\* Where those of an action frame's header are.
LEMMA CapturedAction ==
    ASSUME NEW m \in Messages, m.kind \in {"discovery", "follow_up", "action"},
           NEW fcs \in BOOLEAN
    PROVE  LET C == Captured(m, fcs)
               R == RadiotapLength + 24 IN
           /\ Holds(C, R + 2, Field(m.oui, 3))
           /\ m.kind # "action" =>
                 /\ Holds(C, R + 5, Field(NAN_OUT_TYPE_SERVICE_DISCOVERY, 1))
                 /\ RadiotapLength + 30 <= FrameEnd(m)
           /\ m.kind = "action" => FrameEnd(m) = RadiotapLength + 31
<1> DEFINE C == Captured(m, fcs)
           F == FrameOf(m)
           R == RadiotapLength
<1>1. R \in Nat /\ R + 0 = R /\ (R + 24) + 2 = R + 26 /\ (R + 24) + 5 = R + 29
  BY ReceptionAssumption
<1>2. Holds(C, R, F) /\ FrameEnd(m) = R + Len(F)
  BY CapturedLies DEF FrameEnd
<1>3. CASE m.kind = "action"
  <2>1. F = ActionFrame(m) /\ Len(F) = 31
    BY <1>3, FrameStarts
  <2> HIDE DEF C, F, R
  <2>2. Holds(C, R + 26, Field(m.oui, 3))
    BY <1>1, <1>2, <2>1, ActionHeader
  <2> QED
    BY <1>1, <1>2, <1>3, <2>1, <2>2 DEF C, R
<1>4. CASE m.kind \in {"discovery", "follow_up"}
  <2> DEFINE h == HeaderOf(m)
  <2>1. /\ IsSeq(F) /\ Len(F) \in Nat /\ 30 <= Len(F)
        /\ Holds(F, 0, h) /\ IsSeq(h) /\ Len(h) = 30
    <3>1. Laid(m) /\ HeaderSize(m) = 30
      BY <1>4 DEF Laid, HeaderSize
    <3> QED
      BY <3>1, Layout DEF Size
  <2>2. h = nan_add_service_discovery_header(m)
    BY <1>4 DEF HeaderOf
  <2> HIDE DEF C, F, R, h
  <2>3. Holds(C, R, h)
    <3>1. Len(h) <= Len(F) /\ R \in Int
      BY <1>1, <2>1
    <3> QED
      BY <1>2, <2>1, <3>1, HoldsFront
  <2>4. /\ Holds(C, R + 26, Field(m.oui, 3))
        /\ Holds(C, R + 29, Field(NAN_OUT_TYPE_SERVICE_DISCOVERY, 1))
    BY <1>1, <2>2, <2>3, ServiceHeader
  <2>5. R + 30 <= FrameEnd(m)
    BY <1>1, <1>2, <2>1
  <2>6. m.kind # "action"
    BY <1>4
  <2> QED
    BY <1>1, <2>4, <2>5, <2>6 DEF C, R
<1> QED
  BY <1>3, <1>4

\* Where an attribute's id, its length and its contents are.
LEMMA CapturedAttribute ==
    ASSUME NEW m, Laid(m), NEW fcs \in BOOLEAN, NEW i \in 1 .. Len(AttributesOf(m)),
           NEW id, NEW c, IsSeq(c), AttributesOf(m)[i] = Attribute(id, c)
    PROVE  LET C == Captured(m, fcs)
               p == StartOf(m, i) IN
           /\ p \in Nat /\ Len(c) \in Nat
           /\ StartOf(m, i + 1) = p + 3 + Len(c)
           /\ Len(AttributesOf(m)[i]) = 3 + Len(c)
           /\ StartOf(m, i + 1) <= FrameEnd(m)
           /\ Holds(C, p, Field(id, 1))
           /\ Holds(C, p + 1, Field(Len(c), 2))
           /\ Holds(C, p + 3, c)
<1> DEFINE C == Captured(m, fcs)
           a == Attribute(id, c)
           p == StartOf(m, i)
           q == p - RadiotapLength
           F == FrameOf(m)
<1>1. Len(c) \in Nat /\ Size(c, Len(c))
  BY SeqFacts DEF Size
<1>2. Size(a, 3 + Len(c))
  BY <1>1, AttributeLies
<1>3. RadiotapLength \in Nat
  BY ReceptionAssumption
<1>4. /\ IsSeq(F) /\ Len(F) \in Nat
      /\ p \in Nat /\ StartOf(m, i + 1) = p + Len(a) /\ StartOf(m, i + 1) <= FrameEnd(m)
      /\ p >= RadiotapLength /\ Holds(F, q, a)
  BY Layout
<1>5. FrameEnd(m) = RadiotapLength + Len(F)
  BY DEF FrameEnd
<1>6. Holds(C, RadiotapLength, F)
  BY CapturedLies DEF Laid
<1> HIDE DEF F, C, a
<1>7. Len(a) = 3 + Len(c) /\ IsSeq(a)
  BY <1>2 DEF Size
<1>8. q \in Nat /\ q + Len(a) <= Len(F) /\ RadiotapLength + q = p
  BY <1>1, <1>3, <1>4, <1>5, <1>7
<1> HIDE DEF q
<1>9. Holds(C, RadiotapLength + q, a)
  BY <1>3, <1>4, <1>6, <1>7, <1>8, HoldsWithin
<1>10. Holds(C, p, a)
  BY <1>8, <1>9
<1>11. /\ Holds(C, p, Field(id, 1)) /\ Holds(C, p + 1, Field(Len(c), 2))
       /\ Holds(C, p + 3, c)
  BY <1>1, <1>4, <1>10, AttributeLies DEF a
<1>12. StartOf(m, i + 1) = p + 3 + Len(c)
  BY <1>1, <1>4, <1>7
<1>13. Len(AttributesOf(m)[i]) = 3 + Len(c)
  BY <1>7 DEF a
<1> QED
  BY <1>1, <1>4, <1>11, <1>12, <1>13 DEF C

----------------------------------------------------------------------------
(* Reading an attribute. *)

\* A reader either fits or only sets the error.
LEMMA ReadCases ==
    ASSUME NEW buf, InBounds(buf), NEW width \in Nat
    PROVE  LET r == read(buf, width) IN
           /\ InBounds(r) /\ r.data = buf.data /\ r.size = buf.size /\ r.end = buf.end
           /\ width <= buf.end - buf.current =>
                 r.current = buf.current + width /\ r.error = buf.error
           /\ width > buf.end - buf.current =>
                 r.current = buf.current /\ r.error = TRUE
<1> DEFINE r == read(buf, width)
<1>0. /\ buf.current \in Nat /\ buf.end \in Nat /\ buf.current <= buf.end
      /\ buf.end <= buf.size /\ buf.size \in Nat /\ buf.error \in BOOLEAN
  BY DEF InBounds
<1>1. InBounds(r)
  BY ReadInBounds
<1>2. CASE width > buf.end - buf.current
  <2>1. r = [ buf EXCEPT !.error = TRUE ]
    BY <1>2 DEF read, buf_advance, buf_rest, buf_position, Fails
  <2>2. r = [ data |-> buf.data, size |-> buf.size, current |-> buf.current,
              end |-> buf.end, error |-> TRUE ]
    BY <2>1, Updates
  <2> HIDE DEF r
  <2>3. /\ r.data = buf.data /\ r.size = buf.size /\ r.end = buf.end
        /\ r.current = buf.current /\ r.error = TRUE
    BY <2>2
  <2>4. ~(width <= buf.end - buf.current)
    BY <1>0, <1>2
  <2> QED
    BY <1>1, <2>3, <2>4 DEF r
<1>3. CASE ~(width > buf.end - buf.current)
  <2>1. r = [ buf EXCEPT !.current = buf.current + width ]
    BY <1>3 DEF read, buf_advance, buf_rest, buf_position
  <2>2. r = [ data |-> buf.data, size |-> buf.size, current |-> buf.current + width,
              end |-> buf.end, error |-> buf.error ]
    BY <2>1, Updates
  <2> HIDE DEF r
  <2>3. /\ r.data = buf.data /\ r.size = buf.size /\ r.end = buf.end
        /\ r.current = buf.current + width /\ r.error = buf.error
    BY <2>2
  <2> QED
    BY <1>1, <1>3, <2>3 DEF r
<1> QED
  BY <1>2, <1>3

\* What three reads in a row, of an id, a length and the contents, do
\* (nan_attribute_read_next).
LEMMA ThreeReads ==
    ASSUME NEW b, InBounds(b), b.error = FALSE, NEW L \in Nat
    PROVE  LET h == read(read(b, 1), 2)
               r == read(h, L) IN
           /\ InBounds(r) /\ r.data = b.data /\ r.size = b.size /\ r.end = b.end
           /\ b.current <= r.current
           /\ InBounds(h) /\ h.data = b.data /\ h.size = b.size /\ h.end = b.end
           /\ \/ /\ r.error = FALSE
                 /\ h.current = b.current + 3 /\ r.current = b.current + 3 + L
                 /\ b.current + 3 + L <= b.end
              \/ /\ r.error = TRUE
                 /\ b.end < b.current + 3 + L
                 /\ r.end - r.current <= 0 => b.end <= b.current + 3
<1> DEFINE a == read(b, 1)
           h == read(a, 2)
           r == read(h, L)
<1>0. b.current \in Nat /\ b.end \in Nat /\ b.current <= b.end
  BY DEF InBounds
<1>1. /\ InBounds(a) /\ a.data = b.data /\ a.size = b.size /\ a.end = b.end
      /\ 1 <= b.end - b.current => a.current = b.current + 1 /\ a.error = FALSE
      /\ 1 > b.end - b.current => a.current = b.current /\ a.error = TRUE
  BY ReadCases
<1> HIDE DEF a
<1>2. /\ InBounds(h) /\ h.data = a.data /\ h.size = a.size /\ h.end = a.end
      /\ 2 <= a.end - a.current => h.current = a.current + 2 /\ h.error = a.error
      /\ 2 > a.end - a.current => h.current = a.current /\ h.error = TRUE
  BY <1>1, ReadCases
<1> HIDE DEF h
<1>3. /\ InBounds(r) /\ r.data = h.data /\ r.size = h.size /\ r.end = h.end
      /\ L <= h.end - h.current => r.current = h.current + L /\ r.error = h.error
      /\ L > h.end - h.current => r.current = h.current /\ r.error = TRUE
  BY <1>2, ReadCases
<1> HIDE DEF r
<1>4. a.current \in Nat /\ h.current \in Nat /\ r.current \in Nat
  BY <1>1, <1>2, <1>3 DEF InBounds
<1>5. h.error = a.error \/ h.error = TRUE
  BY <1>0, <1>1, <1>2, <1>4
<1>6. CASE 1 > b.end - b.current
  <2>1. a.error = TRUE /\ a.current = b.current
    BY <1>1, <1>6
  <2>2. h.error = TRUE /\ b.current <= h.current
    BY <1>0, <1>1, <1>2, <1>4, <2>1
  <2>3. r.error = TRUE /\ b.current <= r.current
    BY <1>0, <1>1, <1>2, <1>3, <1>4, <2>2
  <2>4. b.end < b.current + 3 + L /\ b.end <= b.current + 3
    BY <1>0, <1>6
  <2> QED
    BY <1>1, <1>2, <1>3, <2>3, <2>4 DEF a, h, r
<1>7. CASE ~(1 > b.end - b.current) /\ 3 > b.end - b.current
  <2>1. a.current = b.current + 1
    BY <1>0, <1>1, <1>7
  <2>2. h.error = TRUE /\ h.current = a.current
    BY <1>0, <1>1, <1>2, <1>7, <2>1
  <2>3. r.error = TRUE /\ b.current <= r.current
    BY <1>0, <1>1, <1>2, <1>3, <1>4, <2>1, <2>2
  <2>4. b.end < b.current + 3 + L /\ b.end <= b.current + 3
    BY <1>0, <1>7
  <2> QED
    BY <1>1, <1>2, <1>3, <2>3, <2>4 DEF a, h, r
<1>8. CASE ~(3 > b.end - b.current)
  <2>1. a.current = b.current + 1 /\ a.error = FALSE
    BY <1>0, <1>1, <1>8
  <2>2. h.current = b.current + 3 /\ h.error = FALSE
    BY <1>0, <1>1, <1>2, <1>8, <2>1
  <2>3. CASE L <= h.end - h.current
    <3>1. /\ r.error = FALSE /\ r.current = b.current + 3 + L
          /\ b.current + 3 + L <= b.end /\ b.current <= r.current
      BY <1>0, <1>1, <1>2, <1>3, <2>2, <2>3
    <3> QED
      BY <1>1, <1>2, <1>3, <2>2, <3>1 DEF a, h, r
  <2>4. CASE ~(L <= h.end - h.current)
    <3>1. /\ r.error = TRUE /\ r.current = b.current + 3
          /\ b.end < b.current + 3 + L /\ b.current <= r.current
      BY <1>0, <1>1, <1>2, <1>3, <2>2, <2>4
    <3>2. r.end - r.current <= 0 => b.end <= b.current + 3
      BY <1>0, <1>1, <1>2, <1>3, <3>1
    <3> QED
      BY <1>1, <1>2, <1>3, <3>1, <3>2 DEF a, h, r
  <2> QED
    BY <2>3, <2>4
<1> QED
  BY <1>6, <1>7, <1>8

\* An id is a number.
LEMMA SlotId ==
    ASSUME NEW m, NEW i, NEW id, NEW c, Slot(m, i, id, c)
    PROVE  id \in Nat
BY DEF Slot, MASTER_INDICATION_ATTRIBUTE, CLUSTER_ATTRIBUTE, DEVICE_CAPABILITY_ATTRIBUTE,
       NAN_AVAILABILITY_ATTRIBUTE, SERVICE_DESCRIPTOR_ATTRIBUTE,
       SERVICE_DESCRIPTOR_EXTENSION_ATTRIBUTE

(***************************************************************************)
(* An attribute that is all there is read as it was written; one that is   *)
(* not is an error (nan_attribute_read_next).                              *)
(***************************************************************************)
LEMMA AttributeRead ==
    ASSUME InBounds(frame), frame.error = FALSE, sent \in Messages, has_fcs \in BOOLEAN,
           frame.data = Captured(sent, has_fcs), frame.size <= Len(frame.data),
           attribute_length \in Nat,
           Laid(sent), NEW i \in 1 .. Len(AttributesOf(sent)),
           frame.current = StartOf(sent, i),
           NEW id \in Nat, NEW c, IsSeq(c), AttributesOf(sent)[i] = Attribute(id, c),
           NEW garbage \in Garbage
    PROVE  LET L == LengthRead(garbage)
               h == read(read(frame, 1), 2)
               r == read(h, L) IN
           \/ /\ r.error = FALSE
              /\ L = Len(c) /\ bytes_at(h, 0, L) = c
              /\ ~(buf_rest(frame) < 1)
              /\ \A g \in Garbage : value_at(frame, 0, 1, g) = id
              /\ r.current = StartOf(sent, i + 1)
           \/ /\ r.error = TRUE
              /\ frame.end < StartOf(sent, i + 1)
<1> DEFINE L == LengthRead(garbage)
           a == read(frame, 1)
           h == read(a, 2)
           r == read(h, L)
           C == frame.data
           p == frame.current
<1>0. /\ p \in Nat /\ frame.end \in Nat /\ p <= frame.end /\ frame.end <= Len(C)
  <2>1. Len(frame.data) \in Nat
    BY CapturedLies
  <2> QED
    BY <2>1 DEF InBounds
<1>1. /\ Len(c) \in Nat /\ StartOf(sent, i + 1) = p + 3 + Len(c)
      /\ Holds(C, p, Field(id, 1))
      /\ Holds(C, p + 1, Field(Len(c), 2))
      /\ Holds(C, p + 3, c)
  BY CapturedAttribute
<1>2. IsSeq(C)
  BY CapturedLies
<1>3. LengthRead(garbage) \in Nat
  BY ValueIsNat DEF LengthRead
<1>4. ASSUME p + 3 <= frame.end PROVE L = Len(c)
  <2>1. /\ InBounds(a) /\ a.data = C /\ a.end = frame.end /\ a.current = p + 1
    <3>1. 1 <= frame.end - frame.current /\ 1 \in Nat
      BY <1>0, <1>4
    <3> QED
      BY <3>1, ReadCases
  <2>2. LengthRead(garbage) = IF buf_rest(a) < 2
                              THEN attribute_length ELSE value_at(a, 0, 2, garbage)
    BY DEF LengthRead
  <2> HIDE DEF a, C, p
  <2>3. ~(buf_rest(a) < 2)
    BY <1>0, <1>4, <2>1 DEF buf_rest, buf_position
  <2>4. p + 1 + 0 = p + 1 /\ 0 + 2 <= a.end - a.current /\ 0 \in Nat /\ 2 \in Nat \ {0}
    BY <1>0, <1>4, <2>1
  <2>5. Holds(a.data, a.current + 0, Field(Len(c), 2))
    BY <1>1, <2>1, <2>4
  <2>6. value_at(a, 0, 2, garbage) = Len(c)
    BY <1>1, <2>1, <2>4, <2>5, NumberRead
  <2> QED
    BY <2>2, <2>3, <2>6
<1>5. /\ InBounds(h) /\ h.data = C /\ h.end = frame.end
      /\ \/ /\ r.error = FALSE
            /\ h.current = p + 3 /\ r.current = p + 3 + L
            /\ p + 3 + L <= frame.end
         \/ /\ r.error = TRUE
            /\ frame.end < p + 3 + L
  BY <1>3, ThreeReads
<1>6. L \in Nat
  BY <1>3
<1>7. ASSUME r.error = TRUE PROVE frame.end < StartOf(sent, i + 1)
  <2> HIDE DEF L, r, h, p
  <2>1. frame.end < p + 3 + L
    BY <1>5, <1>7
  <2>2. CASE p + 3 <= frame.end
    BY <1>1, <1>4, <2>1, <2>2
  <2>3. CASE ~(p + 3 <= frame.end)
    BY <1>0, <1>1, <2>3
  <2> QED
    BY <2>2, <2>3
<1>8. ASSUME r.error = FALSE
      PROVE  /\ L = Len(c) /\ bytes_at(h, 0, L) = c
             /\ ~(buf_rest(frame) < 1)
             /\ \A g \in Garbage : value_at(frame, 0, 1, g) = id
             /\ r.current = StartOf(sent, i + 1)
  <2> HIDE DEF L, r, h
  <2>1. h.current = p + 3 /\ r.current = p + 3 + L /\ p + 3 + L <= frame.end
    BY <1>5, <1>8
  <2>2. p + 3 <= frame.end
    BY <1>0, <1>6, <2>1
  <2>3. L = Len(c)
    BY <1>4, <2>2
  <2>4. r.current = StartOf(sent, i + 1)
    BY <1>1, <2>1, <2>3
  <2>5. ~(buf_rest(frame) < 1)
    BY <1>0, <2>2 DEF buf_rest, buf_position
  <2>6. ASSUME NEW g \in Garbage PROVE value_at(frame, 0, 1, g) = id
    <3>1. p + 0 = p /\ 0 \in Nat /\ 1 \in Nat \ {0} /\ 0 + 1 <= frame.end - p
      BY <1>0, <2>2
    <3>2. Holds(frame.data, frame.current + 0, Field(id, 1))
      BY <1>1, <3>1
    <3> QED
      BY <3>1, <3>2, NumberRead
  <2>7. bytes_at(h, 0, Len(c)) = c
    <3> HIDE DEF C, p
    <3>1. IsSeq(h.data) /\ h.end <= Len(h.data)
      BY <1>0, <1>2, <1>5
    <3>2. h.current + 0 = p + 3 /\ 0 \in Nat
      BY <1>0, <2>1
    <3>3. Holds(h.data, h.current + 0, c)
      BY <1>1, <1>5, <3>2
    <3>4. 0 + Len(c) <= h.end - h.current
      BY <1>0, <1>1, <1>5, <2>1, <2>3
    <3> QED
      BY <1>5, <3>1, <3>2, <3>3, <3>4, BytesRead
  <2> QED
    BY <2>3, <2>4, <2>5, <2>6, <2>7
<1>9. r.error = TRUE \/ r.error = FALSE
  BY <1>5
<1> QED
  BY <1>7, <1>8, <1>9

----------------------------------------------------------------------------
(* The inductive invariant: what is known at each stage. *)

\* The frame being read is what was captured of the message sent.
Got ==
    /\ sent \in Messages /\ has_fcs \in BOOLEAN
    /\ frame.data = Captured(sent, has_fcs)
    /\ frame.size <= Len(frame.data)

\* A reader has not failed, and a frame that is whole ends where it was ended.
Reading ==
    /\ Got
    /\ frame.error = FALSE
    /\ Whole => frame.end = FrameEnd(sent)

\* What was handed on is the first of what the message tells.
SomeTold == \E k \in Nat : First(parsed, sent, k)

\* The check sequence is read as if it were an attribute, or the byte an
\* action frame of another type has for itself.
Beyond ==
    /\ ~Whole
    /\ FrameEnd(sent) - (IF sent.kind = "action" THEN 1 ELSE 0) <= frame.current
    /\ SomeTold

\* The loop is at the start of attribute i, or at the end.
AtAttribute(i) ==
    /\ frame.current = StartOf(sent, i)
    /\ \E k \in Nat : Reached(sent, i, k) /\ First(parsed, sent, k)

\* Attribute i is about to be parsed.
InAttribute(i) ==
    /\ frame.current = StartOf(sent, i + 1)
    /\ \E c : /\ IsSeq(c) /\ Slot(sent, i, attribute_id, c)
              /\ attribute_buf = buf_new_const(c, Len(c))
    /\ \E k \in Nat : Reached(sent, i, k) /\ First(parsed, sent, k)

AtIdle == parsed = <<>>

AtRadiotap ==
    /\ Got /\ frame.error = FALSE
    /\ frame.current = 0 /\ frame.end = frame.size
    /\ parsed = <<>>

AtFcs ==
    /\ Got /\ frame.error = FALSE
    /\ frame.current = RadiotapLength /\ frame.end = frame.size
    /\ parsed = <<>>

AtHeader ==
    /\ Reading
    /\ frame.current = RadiotapLength
    /\ parsed = <<>>

AtBody ==
    /\ Reading
    /\ frame.current = RadiotapLength + 24
    /\ First(parsed, sent, 1)

InLoop ==
    /\ Reading
    /\ in_beacon <=> sent.kind = "beacon"

AtNext ==
    /\ InLoop
    /\ \/ Beyond
       \/ Laid(sent) /\ \E i \in 1 .. Len(AttributesOf(sent)) + 1 : AtAttribute(i)

AtHandle ==
    /\ InLoop
    /\ \/ Beyond /\ attribute_length < IF in_beacon THEN 2 ELSE 9
       \/ Laid(sent) /\ \E i \in 1 .. Len(AttributesOf(sent)) : InAttribute(i)

\* What NoneCutWithinContents says of a frame that is accepted.
CutBetween ==
    \A i \in DOMAIN AttributesOf(sent) :
        frame.end > StartOf(sent, i) + 3
            => frame.end >= StartOf(sent, i) + Len(AttributesOf(sent)[i])

AtDone ==
    /\ SomeTold
    /\ Whole => result = RX_OK /\ parsed = Told(sent)
    /\ result = RX_OK => CutBetween

Parsing ==
    /\ sent \in Messages /\ has_fcs \in BOOLEAN
    /\ stage = "idle" => AtIdle
    /\ stage = "radiotap" => AtRadiotap
    /\ stage = "fcs" => AtFcs
    /\ stage = "nan_rx" => AtHeader
    /\ stage = "nan_rx_beacon" => AtBody /\ sent.kind = "beacon"
    /\ stage = "nan_rx_action" => AtBody /\ sent.kind \in {"discovery", "follow_up", "action"}
    /\ stage = "next" => AtNext
    /\ stage = "handle" => AtHandle
    /\ stage = "done" => AtDone

\* Nothing is the first none of the values.
LEMMA FirstNone ==
    ASSUME NEW m \in Messages
    PROVE  First(<<>>, m, 0)
<1> DEFINE t == Told(m)
           n == ToldSize(m)
           S == Range(t)
           q == SubSeq(t, 1, 0)
<1>1. Size(t, n) /\ n \in Nat
  BY ToldItems
<1> HIDE DEF t, n
<1>2. t \in Seq(S) /\ Len(t) = n
  BY <1>1 DEF Size, IsSeq
<1> HIDE DEF S
<1>3. q \in Seq(S) /\ Len(q) = 0
  BY <1>1, <1>2
<1> HIDE DEF q
<1>4. IsSeq(q) /\ IsSeq(<<>>) /\ Len(<<>>) = 0
  BY <1>3, SeqOfAny, EmptySize DEF Size
<1>5. q = <<>>
  BY <1>3, <1>4, SameItems
<1>6. 0 \in 0 .. n
  BY <1>1
<1> QED
  BY <1>5, <1>6 DEF First, q, t, n

\* The addresses are the first of them.
LEMMA FirstOne ==
    ASSUME NEW m \in Messages
    PROVE  First(<< Addresses(m) >>, m, 1)
<1>1. 0 < ToldSize(m) /\ Told(m)[1] = Addresses(m) /\ 0 + 1 = 1
  BY ToldItems
<1>2. First(Append(<<>>, Addresses(m)), m, 0 + 1)
  <2>1. Told(m)[0 + 1] = Addresses(m) /\ 0 \in Nat
    BY <1>1
  <2> QED
    BY <1>1, <2>1, FirstNone, OneMore
<1>3. Append(<<>>, Addresses(m)) = << Addresses(m) >>
  OBVIOUS
<1> QED
  BY <1>1, <1>2, <1>3

\* Taking the check sequence off either fits or only sets the error.
LEMMA TakeCases ==
    ASSUME NEW buf, InBounds(buf)
    PROVE  LET r == buf_take(buf, 4) IN
           /\ InBounds(r) /\ r.data = buf.data /\ r.size = buf.size
           /\ r.current = buf.current
           /\ 4 <= buf.end - buf.current => r.end = buf.end - 4 /\ r.error = buf.error
           /\ 4 > buf.end - buf.current => r.end = buf.end /\ r.error = TRUE
<1> DEFINE r == buf_take(buf, 4)
<1>0. buf.current \in Nat /\ buf.end \in Nat
  BY DEF InBounds
<1>1. InBounds(r)
  BY TakeInBounds
<1>2. CASE buf.end - buf.current < 4
  <2>1. r = [ buf EXCEPT !.error = TRUE ]
    BY <1>2 DEF buf_take, buf_rest, buf_position, Fails
  <2>2. r = [ data |-> buf.data, size |-> buf.size, current |-> buf.current,
              end |-> buf.end, error |-> TRUE ]
    BY <2>1, Updates
  <2> HIDE DEF r
  <2>3. /\ r.data = buf.data /\ r.size = buf.size /\ r.end = buf.end
        /\ r.current = buf.current /\ r.error = TRUE
    BY <2>2
  <2> QED
    BY <1>0, <1>1, <1>2, <2>3 DEF r
<1>3. CASE ~(buf.end - buf.current < 4)
  <2>1. r = [ buf EXCEPT !.end = buf.end - 4 ]
    BY <1>3 DEF buf_take, buf_rest, buf_position
  <2>2. r = [ data |-> buf.data, size |-> buf.size, current |-> buf.current,
              end |-> buf.end - 4, error |-> buf.error ]
    BY <2>1, Updates
  <2> HIDE DEF r
  <2>3. /\ r.data = buf.data /\ r.size = buf.size /\ r.end = buf.end - 4
        /\ r.current = buf.current /\ r.error = buf.error
    BY <2>2
  <2> QED
    BY <1>0, <1>1, <1>3, <2>3 DEF r
<1> QED
  BY <1>2, <1>3

\* Whether a frame is whole does not change while it is read.
LEMMA WholeKept ==
    ASSUME Keep, frame'.data = frame.data, frame'.size = frame.size
    PROVE  Whole' = Whole
BY DEF Keep, Whole

\* A message is whole only if it is one of those that tell something in
\* attributes.
LEMMA WholeLaid ==
    ASSUME sent \in Messages, Whole
    PROVE  Laid(sent)
BY DEF Whole, Laid

\* The initial states.
LEMMA InitParsing == Init => Parsing
BY DEF Init, Parsing, AtIdle

\* A frame arrives.
LEMMA ReceiveParsing ==
    ASSUME Parsing, Receive
    PROVE  Parsing'
<1>1. PICK m \in Messages, fcs \in BOOLEAN : \E cut \in 0 .. Len(Captured(m, fcs)) :
          /\ sent' = m /\ has_fcs' = fcs
          /\ frame' = buf_new_const(Captured(m, fcs), cut)
  BY DEF Receive
<1>2. PICK cut \in 0 .. Len(Captured(m, fcs)) :
          /\ sent' = m /\ has_fcs' = fcs
          /\ frame' = buf_new_const(Captured(m, fcs), cut)
  BY <1>1
<1>3. frame' = [ data |-> Captured(m, fcs), size |-> cut, current |-> 0, end |-> cut,
                 error |-> FALSE ]
  BY <1>2 DEF buf_new_const
<1>4. stage' = "radiotap" /\ parsed' = <<>>
  BY DEF Receive, Parsing, AtIdle
<1>5. /\ frame'.data = Captured(m, fcs) /\ frame'.size = cut /\ frame'.current = 0
      /\ frame'.end = cut /\ frame'.error = FALSE
  BY <1>3
<1>6. cut <= Len(Captured(m, fcs))
  <2>1. Len(Captured(m, fcs)) \in Nat
    BY CapturedLies
  <2> QED
    BY <2>1
<1>7. AtRadiotap'
  BY <1>2, <1>4, <1>5, <1>6 DEF AtRadiotap, Got
<1> QED
  BY <1>2, <1>4, <1>7 DEF Parsing

\* And is freed.
LEMMA FreeParsing ==
    ASSUME Parsing, Free
    PROVE  Parsing'
<1>1. stage' = "idle" /\ parsed' = <<>> /\ has_fcs' = FALSE /\ sent' = sent
  BY DEF Free
<1>2. AtIdle'
  BY <1>1 DEF AtIdle
<1>3. sent' \in Messages /\ has_fcs' \in BOOLEAN
  BY <1>1 DEF Parsing
<1> QED
  BY <1>1, <1>2, <1>3 DEF Parsing

\* A radiotap header is all there, unless the frame is cut.
LEMMA RadiotapParsing ==
    ASSUME TypeOK, Parsing, ParseRadiotap
    PROVE  Parsing'
<1>1. AtRadiotap /\ Got /\ sent \in Messages /\ has_fcs \in BOOLEAN
  BY DEF Parsing, ParseRadiotap, AtRadiotap
<1>2. InBounds(frame) /\ RadiotapLength \in Nat
  BY ReceptionAssumption DEF TypeOK
<1>3. /\ frame' = read(frame, RadiotapLength) /\ UNCHANGED parsed /\ Keep
      /\ \/ frame'.error = TRUE /\ Done(RX_UNEXPECTED_FORMAT)
         \/ ~frame'.error /\ stage' = "fcs"
  <2>1. read(frame, RadiotapLength).error \in BOOLEAN
    BY <1>2, ReadInBounds DEF InBounds
  <2> QED
    BY <2>1 DEF ParseRadiotap, read
<1>4. /\ frame'.data = frame.data /\ frame'.size = frame.size /\ frame'.end = frame.end
      /\ RadiotapLength <= frame.end - frame.current =>
             frame'.current = frame.current + RadiotapLength /\ frame'.error = frame.error
      /\ RadiotapLength > frame.end - frame.current => frame'.error = TRUE
  BY <1>2, <1>3, ReadCases
<1>5. Whole' = Whole
  BY <1>3, <1>4, WholeKept
<1>6. UNCHANGED <<sent, has_fcs>>
  BY <1>3 DEF Keep
<1>7. /\ frame.current = 0 /\ frame.end = frame.size /\ frame.error = FALSE /\ parsed = <<>>
      /\ frame.end \in Nat
  BY <1>1, <1>2 DEF AtRadiotap, InBounds
<1>8. CASE frame'.error = TRUE /\ Done(RX_UNEXPECTED_FORMAT)
  <2>1. stage' = "done" /\ result' # RX_OK
    BY <1>8 DEF Done, RX_UNEXPECTED_FORMAT, RX_OK
  <2>2. RadiotapLength > frame.end
    BY <1>2, <1>4, <1>7, <1>8
  <2>3. ~Whole
    <3>1. SUFFICES ASSUME Whole PROVE FALSE
      OBVIOUS
    <3>2. frame.size = Len(frame.data)
      BY <3>1 DEF Whole
    <3>3. /\ frame.data = Captured(sent, has_fcs)
          /\ Len(frame.data) = FrameEnd(sent) + (IF has_fcs THEN 4 ELSE 0)
          /\ FrameEnd(sent) \in Nat /\ RadiotapLength + 24 <= FrameEnd(sent)
      BY <1>1, CapturedLies DEF Got
    <3>4. frame.size >= FrameEnd(sent)
      BY <3>2, <3>3
    <3> QED
      BY <1>2, <1>7, <2>2, <3>3, <3>4
  <2>4. SomeTold'
    BY <1>1, <1>3, <1>6, <1>7, FirstNone DEF SomeTold
  <2>5. AtDone'
    BY <1>5, <2>1, <2>3, <2>4 DEF AtDone
  <2> QED
    BY <1>1, <1>6, <2>1, <2>5 DEF Parsing
<1>9. CASE ~frame'.error /\ stage' = "fcs"
  <2>1. RadiotapLength <= frame.end - frame.current
    BY <1>2, <1>4, <1>7, <1>9
  <2>2. frame'.current = RadiotapLength /\ frame'.error = FALSE
    BY <1>2, <1>4, <1>7, <2>1
  <2>3. AtFcs'
    BY <1>1, <1>3, <1>4, <1>6, <1>7, <2>2 DEF AtFcs, Got
  <2> QED
    BY <1>1, <1>6, <1>9, <2>3 DEF Parsing
<1> QED
  BY <1>3, <1>8, <1>9

\* The check sequence is taken off a frame that has one, if the flags say so.
LEMMA FcsParsing ==
    ASSUME TypeOK, Parsing, ParseFcs
    PROVE  Parsing'
<1>1. AtFcs /\ Got /\ sent \in Messages /\ has_fcs \in BOOLEAN
  BY DEF Parsing, ParseFcs, AtFcs
<1>2. InBounds(frame) /\ RadiotapLength \in Nat
  BY ReceptionAssumption DEF TypeOK
<1>3. /\ frame.current = RadiotapLength /\ frame.end = frame.size /\ frame.error = FALSE
      /\ parsed = <<>> /\ frame.end \in Nat
  BY <1>1, <1>2 DEF AtFcs, InBounds
<1>4. PICK known \in IF flags = "missing" THEN {"none", "F_FCS", "F_BADFCS"} ELSE {flags} :
          IF known = "F_BADFCS"
          THEN Done(RX_IGNORE_FAILED_CRC) /\ UNCHANGED frame
          ELSE /\ frame' = IF known = "F_FCS" THEN buf_take(frame, 4) ELSE frame
               /\ IF frame'.error
                  THEN Done(RX_IGNORE_FAILED_CRC)
                  ELSE stage' = "nan_rx" /\ UNCHANGED result
  BY DEF ParseFcs
<1>5. UNCHANGED <<parsed, sent, has_fcs>> /\ Keep
  BY DEF ParseFcs, Keep
<1>6. LET r == buf_take(frame, 4) IN
      /\ InBounds(r) /\ r.data = frame.data /\ r.size = frame.size
      /\ r.current = frame.current
      /\ 4 <= frame.end - frame.current => r.end = frame.end - 4 /\ r.error = frame.error
      /\ 4 > frame.end - frame.current => r.end = frame.end /\ r.error = TRUE
  BY <1>2, TakeCases
<1>7. frame'.data = frame.data /\ frame'.size = frame.size /\ frame'.current = frame.current
  BY <1>4, <1>6
<1>8. Whole' = Whole
  BY <1>5, <1>7, WholeKept
<1>9. /\ frame.data = Captured(sent, has_fcs)
      /\ Len(frame.data) = FrameEnd(sent) + (IF has_fcs THEN 4 ELSE 0)
      /\ FrameEnd(sent) \in Nat /\ RadiotapLength + 24 <= FrameEnd(sent)
  BY <1>1, CapturedLies DEF Got
<1>10. ASSUME Whole
       PROVE  stage' = "nan_rx" /\ frame'.end = FrameEnd(sent) /\ frame'.error = FALSE
  <2>1. frame.size = Len(frame.data) /\ flags = IF has_fcs THEN "F_FCS" ELSE "none"
    BY <1>10 DEF Whole
  <2>2. CASE has_fcs
    <3>1. known = "F_FCS" /\ frame' = buf_take(frame, 4)
      BY <1>4, <2>1, <2>2
    <3>2. frame.end = FrameEnd(sent) + 4
      BY <1>3, <1>9, <2>1, <2>2
    <3>3. 4 <= frame.end - frame.current /\ frame.end - 4 = FrameEnd(sent)
      BY <1>2, <1>3, <1>9, <3>2
    <3>4. frame'.end = FrameEnd(sent) /\ frame'.error = FALSE
      BY <1>3, <1>6, <3>1, <3>3
    <3> QED
      BY <1>4, <3>1, <3>4
  <2>3. CASE ~has_fcs
    <3>1. known = "none" /\ frame' = frame
      BY <1>4, <2>1, <2>3
    <3>2. frame.end = FrameEnd(sent)
      BY <1>3, <1>9, <2>1, <2>3
    <3> QED
      BY <1>3, <1>4, <3>1, <3>2
  <2> QED
    BY <2>2, <2>3
<1>11. \/ stage' = "done" /\ result' # RX_OK
       \/ stage' = "nan_rx" /\ frame'.error = FALSE
  <2>1. frame'.error \in BOOLEAN
    BY <1>2, <1>4, <1>6 DEF InBounds
  <2> QED
    BY <1>4, <2>1 DEF Done, RX_IGNORE_FAILED_CRC, RX_OK
<1>12. CASE stage' = "done" /\ result' # RX_OK
  <2>1. ~Whole
    BY <1>10, <1>12
  <2>2. SomeTold'
    BY <1>1, <1>3, <1>5, FirstNone DEF SomeTold
  <2>3. AtDone'
    BY <1>8, <1>12, <2>1, <2>2 DEF AtDone
  <2> QED
    BY <1>1, <1>5, <1>12, <2>3 DEF Parsing
<1>13. CASE stage' = "nan_rx" /\ frame'.error = FALSE
  <2>1. Got'
    BY <1>1, <1>5, <1>7 DEF Got
  <2>2. Whole' => frame'.end = FrameEnd(sent')
    BY <1>5, <1>8, <1>10
  <2>3. AtHeader'
    BY <1>3, <1>5, <1>7, <1>13, <2>1, <2>2 DEF AtHeader, Reading
  <2> QED
    BY <1>1, <1>5, <1>13, <2>3 DEF Parsing
<1> QED
  BY <1>11, <1>12, <1>13

\* A frame that is read: its positions, and that it holds what was captured.
LEMMA ReadingFacts ==
    ASSUME TypeOK, Got
    PROVE  /\ InBounds(frame) /\ frame.current \in Nat /\ frame.end \in Nat
           /\ frame.current <= frame.end
           /\ IsSeq(frame.data) /\ Len(frame.data) \in Nat /\ frame.end <= Len(frame.data)
           /\ frame.data = Captured(sent, has_fcs)
           /\ Len(frame.data) = FrameEnd(sent) + (IF has_fcs THEN 4 ELSE 0)
           /\ FrameEnd(sent) \in Nat /\ RadiotapLength + 24 <= FrameEnd(sent)
           /\ RadiotapLength \in Nat
<1>1. InBounds(frame)
  BY DEF TypeOK
<1>2. /\ IsSeq(frame.data) /\ Len(frame.data) \in Nat
      /\ frame.data = Captured(sent, has_fcs) /\ frame.size <= Len(frame.data)
      /\ Len(frame.data) = FrameEnd(sent) + (IF has_fcs THEN 4 ELSE 0)
      /\ FrameEnd(sent) \in Nat /\ RadiotapLength + 24 <= FrameEnd(sent)
  BY CapturedLies DEF Got
<1>3. /\ frame.current \in Nat /\ frame.end \in Nat /\ frame.current <= frame.end
      /\ frame.end <= frame.size /\ frame.size \in Nat
  BY <1>1 DEF InBounds
<1>4. frame.end <= Len(frame.data)
  BY <1>2, <1>3
<1> QED
  BY <1>1, <1>2, <1>3, <1>4, ReceptionAssumption

\* Numbers and bytes of the frame that are all there are read as written.
LEMMA FrameRead ==
    ASSUME TypeOK, Got, NEW offset \in Nat
    PROVE  /\ \A value \in Nat : \A w \in Nat \ {0} : \A g :
                 (/\ Holds(frame.data, frame.current + offset, Field(value, w))
                  /\ offset + w <= frame.end - frame.current)
                    => value_at(frame, offset, w, g) = value
           /\ \A value : \A w \in Nat :
                 (/\ Holds(frame.data, frame.current + offset, Field(value, w))
                  /\ offset + w <= frame.end - frame.current)
                    => bytes_at(frame, offset, w) = Field(value, w)
<1>1. /\ InBounds(frame) /\ IsSeq(frame.data) /\ frame.end <= Len(frame.data)
  BY ReadingFacts
<1>2. ASSUME NEW value \in Nat, NEW w \in Nat \ {0}, NEW g,
             Holds(frame.data, frame.current + offset, Field(value, w)),
             offset + w <= frame.end - frame.current
      PROVE  value_at(frame, offset, w, g) = value
  BY <1>1, <1>2, NumberRead
<1>3. ASSUME NEW value, NEW w \in Nat,
             Holds(frame.data, frame.current + offset, Field(value, w)),
             offset + w <= frame.end - frame.current
      PROVE  bytes_at(frame, offset, w) = Field(value, w)
  <2> DEFINE s == Field(value, w)
  <2>1. IsSeq(s) /\ Len(s) = w
    BY FieldSeq
  <2> HIDE DEF s
  <2>2. bytes_at(frame, offset, Len(s)) = s
    BY <1>1, <1>3, <2>1, BytesRead DEF s
  <2> QED
    BY <2>1, <2>2 DEF s
<1> QED
  BY <1>2, <1>3

\* The header tells the addresses and the kind of the message.
LEMMA HeaderParsing ==
    ASSUME TypeOK, Parsing, ParseHeader
    PROVE  Parsing'
<1>1. AtHeader /\ Reading /\ Got /\ sent \in Messages /\ has_fcs \in BOOLEAN
  BY DEF Parsing, ParseHeader, AtHeader, Reading
<1>2. /\ frame.current = RadiotapLength /\ frame.error = FALSE /\ parsed = <<>>
      /\ Whole => frame.end = FrameEnd(sent)
  BY <1>1 DEF AtHeader, Reading
<1>3. /\ InBounds(frame) /\ frame.end \in Nat /\ RadiotapLength \in Nat
      /\ FrameEnd(sent) \in Nat /\ RadiotapLength + 24 <= FrameEnd(sent)
      /\ frame.data = Captured(sent, has_fcs)
  BY <1>1, ReadingFacts
<1>4. UNCHANGED <<sent, has_fcs>> /\ Keep
  BY DEF ParseHeader, Keep
<1>5. /\ Holds(frame.data, frame.current, Field(ControlType(sent), 2))
      /\ Holds(frame.data, frame.current + 4, Field(sent.dst, 6))
      /\ Holds(frame.data, frame.current + 10, Field(sent.src, 6))
      /\ Holds(frame.data, frame.current + 16, Field(sent.cluster_id, 6))
  BY <1>1, <1>2, <1>3, CapturedHeader
<1>6. ASSUME ~(buf_rest(frame) < 24)
      PROVE  /\ Address(4) = Field(sent.dst, 6) /\ Address(10) = Field(sent.src, 6)
             /\ Address(16) = Field(sent.cluster_id, 6)
             /\ \A g \in Garbage : FrameControl(g) = ControlType(sent)
             /\ 24 <= frame.end - frame.current
  <2>1. 24 <= frame.end - frame.current
    BY <1>2, <1>3, <1>6 DEF buf_rest, buf_position
  <2>2. /\ 4 + 6 <= frame.end - frame.current /\ 10 + 6 <= frame.end - frame.current
        /\ 16 + 6 <= frame.end - frame.current /\ 0 + 2 <= frame.end - frame.current
        /\ frame.current + 0 = frame.current
    BY <1>2, <1>3, <2>1
  <2>3. Address(4) = Field(sent.dst, 6)
    BY <1>1, <1>5, <2>2, FrameRead DEF Address
  <2>4. Address(10) = Field(sent.src, 6)
    BY <1>1, <1>5, <2>2, FrameRead DEF Address
  <2>5. Address(16) = Field(sent.cluster_id, 6)
    BY <1>1, <1>5, <2>2, FrameRead DEF Address
  <2>6. ControlType(sent) \in Nat
    BY DEF ControlType, IEEE80211_STYPE_BEACON, IEEE80211_STYPE_ACTION
  <2>7. ASSUME NEW g \in Garbage PROVE FrameControl(g) = ControlType(sent)
    <3>1. Holds(frame.data, frame.current + 0, Field(ControlType(sent), 2))
      BY <1>5, <2>2
    <3> QED
      BY <1>1, <2>2, <2>6, <3>1, FrameRead DEF FrameControl
  <2> QED
    BY <2>1, <2>3, <2>4, <2>5, <2>7
<1>7. \/ /\ buf_rest(frame) < 24
         /\ Done(RX_TOO_SHORT) /\ UNCHANGED <<frame, parsed>>
      \/ /\ ~(buf_rest(frame) < 24) /\ Address(10) = Field(Self, 6)
         /\ Done(RX_IGNORE_FROM_SELF) /\ UNCHANGED <<frame, parsed>>
      \/ /\ ~(buf_rest(frame) < 24)
         /\ frame' = read(frame, 24)
         /\ parsed' = << [ dst |-> Address(4), src |-> Address(10), cluster_id |-> Address(16) ] >>
         /\ \E garbage \in Garbage :
               CASE FrameControl(garbage) = IEEE80211_STYPE_BEACON ->
                       stage' = "nan_rx_beacon" /\ UNCHANGED result
                 [] FrameControl(garbage) = IEEE80211_STYPE_ACTION ->
                       stage' = "nan_rx_action" /\ UNCHANGED result
                 [] OTHER -> Done(RX_UNEXPECTED_TYPE)
  BY DEF ParseHeader, HdrSize, read
<1>8. ASSUME ~Whole, frame' = frame, parsed' = parsed, stage' = "done", result' # RX_OK
      PROVE  Parsing'
  <2>1. Whole' = Whole
    BY <1>4, <1>8, WholeKept
  <2>2. SomeTold'
    BY <1>1, <1>2, <1>4, <1>8, FirstNone DEF SomeTold
  <2>3. AtDone'
    BY <1>8, <2>1, <2>2 DEF AtDone
  <2> QED
    BY <1>1, <1>4, <1>8, <2>3 DEF Parsing
<1>9. CASE buf_rest(frame) < 24 /\ Done(RX_TOO_SHORT) /\ UNCHANGED <<frame, parsed>>
  <2>1. ~Whole
    BY <1>2, <1>3, <1>9 DEF buf_rest, buf_position
  <2> QED
    BY <1>8, <1>9, <2>1 DEF Done, RX_TOO_SHORT, RX_OK
<1>10. CASE /\ ~(buf_rest(frame) < 24) /\ Address(10) = Field(Self, 6)
            /\ Done(RX_IGNORE_FROM_SELF) /\ UNCHANGED <<frame, parsed>>
  <2>1. Field(sent.src, 6) = Field(Self, 6)
    BY <1>6, <1>10
  <2>2. Field(sent.src, 6)[1] = <<sent.src, 1, 6>> /\ Field(Self, 6)[1] = <<Self, 1, 6>>
    BY FieldSeq
  <2>3. <<sent.src, 1, 6>> = <<Self, 1, 6>>
    BY <2>1, <2>2
  <2>4. sent.src = Self
    BY <2>3
  <2>5. ~Whole
    BY <2>4 DEF Whole
  <2> QED
    BY <1>8, <1>10, <2>5 DEF Done, RX_IGNORE_FROM_SELF, RX_OK
<1>11. CASE /\ ~(buf_rest(frame) < 24)
            /\ frame' = read(frame, 24)
            /\ parsed' = << [ dst |-> Address(4), src |-> Address(10), cluster_id |-> Address(16) ] >>
            /\ \E garbage \in Garbage :
                  CASE FrameControl(garbage) = IEEE80211_STYPE_BEACON ->
                          stage' = "nan_rx_beacon" /\ UNCHANGED result
                    [] FrameControl(garbage) = IEEE80211_STYPE_ACTION ->
                          stage' = "nan_rx_action" /\ UNCHANGED result
                    [] OTHER -> Done(RX_UNEXPECTED_TYPE)
  <2>1. parsed' = << Addresses(sent) >>
    BY <1>6, <1>11 DEF Addresses
  <2>2. First(parsed', sent', 1)
    BY <1>1, <1>4, <2>1, FirstOne
  <2>3. /\ frame'.data = frame.data /\ frame'.size = frame.size /\ frame'.end = frame.end
        /\ frame'.current = RadiotapLength + 24 /\ frame'.error = FALSE
    <3>1. frame' = read(frame, 24) /\ 24 <= frame.end - frame.current /\ 24 \in Nat
      BY <1>6, <1>11
    <3>2. LET r == read(frame, 24) IN
          /\ r.data = frame.data /\ r.size = frame.size /\ r.end = frame.end
          /\ r.current = frame.current + 24 /\ r.error = frame.error
      BY <1>3, <3>1, ReadCases
    <3> QED
      BY <1>2, <3>1, <3>2
  <2>4. Whole' = Whole
    BY <1>4, <2>3, WholeKept
  <2>5. Reading'
    BY <1>1, <1>2, <1>4, <2>3, <2>4 DEF Reading, Got
  <2>6. AtBody'
    BY <2>2, <2>3, <2>5 DEF AtBody
  <2>7. \/ ControlType(sent) = 128 /\ stage' = "nan_rx_beacon"
        \/ ControlType(sent) = 208 /\ stage' = "nan_rx_action"
        \/ /\ ControlType(sent) \notin {128, 208} /\ stage' = "done"
           /\ result' # RX_OK
    <3>1. PICK g \in Garbage :
               CASE FrameControl(g) = IEEE80211_STYPE_BEACON ->
                       stage' = "nan_rx_beacon" /\ UNCHANGED result
                 [] FrameControl(g) = IEEE80211_STYPE_ACTION ->
                       stage' = "nan_rx_action" /\ UNCHANGED result
                 [] OTHER -> Done(RX_UNEXPECTED_TYPE)
      BY <1>11
    <3>2. FrameControl(g) = ControlType(sent)
      BY <1>6, <1>11
    <3> QED
      BY <3>1, <3>2 DEF IEEE80211_STYPE_BEACON, IEEE80211_STYPE_ACTION, Done,
         RX_UNEXPECTED_TYPE, RX_OK
  <2>8. sent.kind \in {"beacon", "discovery", "follow_up", "action", "data"}
    BY <1>1, ReceptionAssumption DEF IsMessage
  <2>9. CASE ControlType(sent) = 128 /\ stage' = "nan_rx_beacon"
    <3>1. sent.kind = "beacon"
      BY <2>9 DEF ControlType, IEEE80211_STYPE_BEACON, IEEE80211_STYPE_ACTION
    <3> QED
      BY <1>1, <1>4, <2>6, <2>9, <3>1 DEF Parsing
  <2>10. CASE ControlType(sent) = 208 /\ stage' = "nan_rx_action"
    <3>1. sent.kind \in {"discovery", "follow_up", "action"}
      BY <2>8, <2>10 DEF ControlType, IEEE80211_STYPE_BEACON, IEEE80211_STYPE_ACTION
    <3> QED
      BY <1>1, <1>4, <2>6, <2>10, <3>1 DEF Parsing
  <2>11. CASE ControlType(sent) \notin {128, 208} /\ stage' = "done" /\ result' # RX_OK
    <3>1. sent.kind = "data"
      BY <2>8, <2>11 DEF ControlType, IEEE80211_STYPE_BEACON, IEEE80211_STYPE_ACTION
    <3>2. ~Whole
      BY <3>1 DEF Whole
    <3>3. SomeTold'
      BY <2>2 DEF SomeTold
    <3>4. AtDone'
      BY <2>4, <2>11, <3>2, <3>3 DEF AtDone
    <3> QED
      BY <1>1, <1>4, <2>11, <3>4 DEF Parsing
  <2> QED
    BY <2>7, <2>9, <2>10, <2>11
<1> QED
  BY <1>7, <1>9, <1>10, <1>11

\* The numbers of a beacon.
LEMMA BeaconNumbers ==
    ASSUME NEW m \in Messages, m.kind = "beacon"
    PROVE  /\ m.oui \in Nat /\ m.timestamp \in Nat
           /\ m.master_preference \in Nat /\ m.random_factor \in Nat
           /\ m.anchor_master_rank \in Nat /\ m.hop_count \in Nat /\ m.ambtt \in Nat
<1>1. IsMessage(m)
  BY ReceptionAssumption
<1>2. m.oui \in Nat
  BY <1>1 DEF IsMessage
<1>3. {m.timestamp, m.master_preference, m.random_factor, m.anchor_master_rank,
       m.hop_count, m.ambtt} \subseteq Nat
  BY <1>1 DEF IsMessage
<1> QED
  BY <1>2, <1>3

\* An interval is that of a discovery or a synchronisation beacon, or of none.
LEMMA Intervals ==
    ASSUME NEW type
    PROVE  /\ IntervalOf(type) \in Nat
           /\ BeaconType(IntervalOf(type)) =
                  IF type \in {"SYNC", "DISCOVERY"} THEN type ELSE "UNKNOWN"
<1>1. CASE type = "SYNC"
  <2>1. IntervalOf(type) = 512
    BY <1>1 DEF IntervalOf, NAN_SYNC_BEACON_INTERVAL_TU
  <2> QED
    BY <1>1, <2>1 DEF BeaconType, NAN_SYNC_BEACON_INTERVAL_TU,
       NAN_DISCOVERY_BEACON_INTERVAL_TU
<1>2. CASE type = "DISCOVERY"
  <2>1. IntervalOf(type) = 100
    BY <1>2 DEF IntervalOf, NAN_DISCOVERY_BEACON_INTERVAL_TU
  <2> QED
    BY <1>2, <2>1 DEF BeaconType, NAN_SYNC_BEACON_INTERVAL_TU,
       NAN_DISCOVERY_BEACON_INTERVAL_TU
<1>3. CASE type \notin {"SYNC", "DISCOVERY"}
  <2>1. IntervalOf(type) = 1
    BY <1>3 DEF IntervalOf
  <2> QED
    BY <1>3, <2>1 DEF BeaconType, NAN_SYNC_BEACON_INTERVAL_TU,
       NAN_DISCOVERY_BEACON_INTERVAL_TU
<1> QED
  BY <1>1, <1>2, <1>3

\* A beacon's header tells its type and time.
LEMMA BeaconParsing ==
    ASSUME TypeOK, Parsing, ParseBeaconHeader
    PROVE  Parsing'
<1>1. /\ AtBody /\ Reading /\ Got /\ sent \in Messages /\ has_fcs \in BOOLEAN
      /\ sent.kind = "beacon"
  BY DEF Parsing, ParseBeaconHeader, AtBody, Reading
<1>2. /\ frame.current = RadiotapLength + 24 /\ frame.error = FALSE
      /\ First(parsed, sent, 1)
      /\ Whole => frame.end = FrameEnd(sent)
  BY <1>1 DEF AtBody, Reading
<1>3. /\ InBounds(frame) /\ frame.end \in Nat /\ frame.current \in Nat /\ RadiotapLength \in Nat
      /\ FrameEnd(sent) \in Nat
      /\ frame.data = Captured(sent, has_fcs)
  BY <1>1, ReadingFacts
<1>4. UNCHANGED <<sent, has_fcs>> /\ Keep
  BY DEF ParseBeaconHeader, Keep
<1>5. /\ Holds(frame.data, frame.current, Field(sent.timestamp, 8))
      /\ Holds(frame.data, frame.current + 8, Field(IntervalOf(sent.type), 2))
      /\ Holds(frame.data, frame.current + 14, Field(sent.oui, 3))
      /\ Holds(frame.data, frame.current + 17, Field(NAN_OUI_TYPE_BEACON, 1))
      /\ RadiotapLength + 42 <= FrameEnd(sent)
  BY <1>1, <1>2, <1>3, CapturedBeacon
<1>6. PICK g \in Garbage :
          LET timestamp == value_at(frame, 0, 8, g)
              interval == value_at(frame, 8, 2, g)
              oui == value_at(frame, 14, 3, g)
              oui_type == value_at(frame, 17, 1, g) IN
          IF frame'.error
          THEN Done(RX_TOO_SHORT) /\ KeepAttribute /\ UNCHANGED parsed
          ELSE IF oui # NAN_OUI \/ oui_type # NAN_OUI_TYPE_BEACON
          THEN Done(RX_IGNORE_OUI) /\ KeepAttribute /\ UNCHANGED parsed
          ELSE IF BeaconType(interval) = "UNKNOWN"
          THEN Done(RX_UNEXPECTED_TYPE) /\ KeepAttribute /\ UNCHANGED parsed
          ELSE /\ Iterate
               /\ parsed' = Append(parsed, [ type |-> BeaconType(interval),
                                             timestamp |-> timestamp ])
  BY DEF ParseBeaconHeader
<1>7. /\ frame'.data = frame.data /\ frame'.size = frame.size /\ frame'.end = frame.end
      /\ frame'.error \in BOOLEAN
      /\ 18 <= frame.end - frame.current =>
            frame'.current = frame.current + 18 /\ frame'.error = FALSE
      /\ 18 > frame.end - frame.current => frame'.error = TRUE
  <2>1. frame' = read(frame, 18) /\ 18 \in Nat
    BY DEF ParseBeaconHeader, BeaconHeaderSize
  <2>2. LET r == read(frame, 18) IN
        /\ InBounds(r) /\ r.data = frame.data /\ r.size = frame.size /\ r.end = frame.end
        /\ 18 <= frame.end - frame.current =>
              r.current = frame.current + 18 /\ r.error = frame.error
        /\ 18 > frame.end - frame.current => r.current = frame.current /\ r.error = TRUE
    BY <1>3, <2>1, ReadCases
  <2>3. read(frame, 18).error \in BOOLEAN
    BY <2>2 DEF InBounds
  <2> QED
    BY <1>2, <2>1, <2>2, <2>3
<1>8. Whole' = Whole
  BY <1>4, <1>7, WholeKept
<1>9. ASSUME ~Whole, parsed' = parsed, stage' = "done", result' # RX_OK
      PROVE  Parsing'
  <2>1. First(parsed', sent', 1) /\ 1 \in Nat
    BY <1>2, <1>4, <1>9
  <2>2. SomeTold'
    BY <2>1 DEF SomeTold
  <2>3. AtDone'
    BY <1>8, <1>9, <2>2 DEF AtDone
  <2> QED
    BY <1>1, <1>4, <1>9, <2>3 DEF Parsing
<1>10. CASE frame'.error
  <2>1. ~Whole
    <3>1. SUFFICES ASSUME Whole PROVE FALSE
      OBVIOUS
    <3>2. 18 <= frame.end - frame.current
      BY <1>2, <1>3, <1>5, <3>1
    <3> QED
      BY <1>7, <1>10, <3>2
  <2>2. Done(RX_TOO_SHORT) /\ UNCHANGED parsed
    BY <1>6, <1>10
  <2> QED
    BY <1>9, <2>1, <2>2 DEF Done, RX_TOO_SHORT, RX_OK
<1>11. CASE ~frame'.error
  <2>0. 18 <= frame.end - frame.current
    BY <1>2, <1>3, <1>7, <1>11
  <2>1. /\ 0 + 8 <= frame.end - frame.current /\ 8 + 2 <= frame.end - frame.current
        /\ 14 + 3 <= frame.end - frame.current /\ 17 + 1 <= frame.end - frame.current
        /\ frame.current + 0 = frame.current
    BY <1>3, <2>0
  <2>2. /\ sent.oui \in Nat /\ sent.timestamp \in Nat /\ IntervalOf(sent.type) \in Nat
        /\ NAN_OUI_TYPE_BEACON \in Nat
    BY <1>1, BeaconNumbers, Intervals DEF NAN_OUI_TYPE_BEACON
  <2>3. value_at(frame, 0, 8, g) = sent.timestamp
    <3>1. Holds(frame.data, frame.current + 0, Field(sent.timestamp, 8))
      BY <1>5, <2>1
    <3> QED
      BY <1>1, <2>1, <2>2, <3>1, FrameRead
  <2>4. value_at(frame, 8, 2, g) = IntervalOf(sent.type)
    BY <1>1, <1>5, <2>1, <2>2, FrameRead
  <2>5. value_at(frame, 14, 3, g) = sent.oui
    BY <1>1, <1>5, <2>1, <2>2, FrameRead
  <2>6. value_at(frame, 17, 1, g) = NAN_OUI_TYPE_BEACON
    BY <1>1, <1>5, <2>1, <2>2, FrameRead
  <2>7. CASE sent.oui # NAN_OUI
    <3>1. Done(RX_IGNORE_OUI) /\ UNCHANGED parsed
      BY <1>6, <1>11, <2>5, <2>7
    <3>2. ~Whole
      BY <2>7 DEF Whole
    <3> QED
      BY <1>9, <3>1, <3>2 DEF Done, RX_IGNORE_OUI, RX_OK
  <2>8. CASE sent.oui = NAN_OUI /\ sent.type \notin {"SYNC", "DISCOVERY"}
    <3>1. BeaconType(IntervalOf(sent.type)) = "UNKNOWN"
      BY <2>8, Intervals
    <3>2. Done(RX_UNEXPECTED_TYPE) /\ UNCHANGED parsed
      BY <1>6, <1>11, <2>4, <2>5, <2>6, <2>8, <3>1
    <3>3. ~Whole
      BY <1>1, <2>8 DEF Whole
    <3> QED
      BY <1>9, <3>2, <3>3 DEF Done, RX_UNEXPECTED_TYPE, RX_OK
  <2>9. CASE sent.oui = NAN_OUI /\ sent.type \in {"SYNC", "DISCOVERY"}
    <3> DEFINE v == [ type |-> sent.type, timestamp |-> sent.timestamp ]
    <3>1. BeaconType(IntervalOf(sent.type)) = sent.type
      BY <2>9, Intervals
    <3>2. Iterate /\ parsed' = Append(parsed, v)
      BY <1>6, <1>11, <2>3, <2>4, <2>5, <2>6, <2>9, <3>1
    <3>3. Told(sent)[1 + 1] = v
      <4>1. \A j \in 1 .. 3 : Told(sent)[j + 1] = BeaconValues(sent)[j]
        BY <1>1, ToldItems
      <4>2. 1 \in 1 .. 3 /\ BeaconValues(sent)[1] = v
        BY DEF BeaconValues
      <4> QED
        BY <4>1, <4>2
    <3> HIDE DEF v
    <3>4. First(parsed', sent', 2)
      <4>1. 1 < ToldSize(sent) /\ 1 + 1 = 2 /\ 1 \in Nat
        BY <1>1 DEF ToldSize
      <4>2. First(Append(parsed, v), sent, 1 + 1)
        BY <1>1, <1>2, <3>3, <4>1, OneMore
      <4> QED
        BY <1>4, <3>2, <4>1, <4>2
    <3>5. stage' = "next" /\ in_beacon' = TRUE
      BY <3>2 DEF Iterate, ParseBeaconHeader
    <3>6. InLoop'
      <4>1. frame'.error = FALSE
        BY <1>7, <2>0
      <4>2. Got'
        BY <1>1, <1>4, <1>7 DEF Got
      <4>3. Whole' => frame'.end = FrameEnd(sent')
        BY <1>2, <1>4, <1>7, <1>8
      <4> QED
        BY <1>1, <1>4, <3>5, <4>1, <4>2, <4>3 DEF InLoop, Reading
    <3>7. Laid(sent)
      BY <1>1 DEF Laid
    <3>8. frame'.current = StartOf(sent, 1)
      <4>1. StartOf(sent, 1) = RadiotapLength + HeaderSize(sent)
        BY <3>7, Layout
      <4>2. HeaderSize(sent) = 42
        BY <1>1 DEF HeaderSize
      <4>3. frame'.current = RadiotapLength + 24 + 18
        BY <1>2, <1>7, <2>0
      <4> QED
        BY <1>3, <4>1, <4>2, <4>3
    <3>9. Reached(sent, 1, 2)
      BY <1>1, <3>7, ReachedStart
    <3>10. AtAttribute(1)'
      <4>1. 2 \in Nat /\ Reached(sent', 1, 2) /\ First(parsed', sent', 2)
        BY <1>4, <3>4, <3>9
      <4>2. frame'.current = StartOf(sent', 1)
        BY <1>4, <3>8
      <4> QED
        BY <4>1, <4>2 DEF AtAttribute
    <3>11. 1 \in 1 .. Len(AttributesOf(sent')) + 1 /\ Laid(sent')
      BY <1>4, <3>7, Slots
    <3>12. AtNext'
      BY <3>6, <3>10, <3>11 DEF AtNext
    <3> QED
      BY <1>1, <1>4, <3>5, <3>12 DEF Parsing
  <2> QED
    BY <2>7, <2>8, <2>9
<1> QED
  BY <1>7, <1>10, <1>11

\* A service discovery frame has an attribute.
LEMMA FirstFits ==
    ASSUME NEW m, Laid(m), m.kind # "beacon"
    PROVE  RadiotapLength + 30 + 3 <= FrameEnd(m)
<1> DEFINE n == Len(AttributesOf(m))
<1>1. n \in Nat /\ 1 <= n
  <2>1. CASE m.kind = "discovery"
    <3>1. Len(m.services) \in Nat /\ n = 2 + 2 * Len(m.services)
      BY <2>1, ServicesOf, DiscoverySlots DEF Laid, Size
    <3> HIDE DEF n
    <3> QED
      BY <3>1
  <2>2. CASE m.kind = "follow_up"
    BY <2>2, FollowUpSlots DEF Size
  <2> QED
    BY <2>1, <2>2 DEF Laid
<1>2. 1 \in 1 .. n
  BY <1>1
<1>3. PICK id, c : IsSeq(c) /\ AttributesOf(m)[1] = Attribute(id, c)
  BY <1>2, Slots
<1>4. /\ Len(c) \in Nat /\ StartOf(m, 1) \in Nat
      /\ StartOf(m, 1 + 1) = StartOf(m, 1) + (3 + Len(c))
      /\ StartOf(m, 1 + 1) <= FrameEnd(m)
  <2>1. Len(c) \in Nat /\ Size(c, Len(c))
    BY <1>3, SeqFacts DEF Size
  <2>2. Len(AttributesOf(m)[1]) = 3 + Len(c)
    BY <1>3, <2>1, AttributeLies DEF Size
  <2>3. /\ StartOf(m, 1) \in Nat
        /\ StartOf(m, 1 + 1) = StartOf(m, 1) + Len(AttributesOf(m)[1])
        /\ StartOf(m, 1 + 1) <= FrameEnd(m)
    BY <1>2, Layout
  <2> QED
    BY <2>1, <2>2, <2>3
<1>5. StartOf(m, 1) = RadiotapLength + 30
  BY Layout DEF HeaderSize
<1>6. RadiotapLength \in Nat /\ FrameEnd(m) \in Nat
  BY ReceptionAssumption, Layout DEF FrameEnd
<1> QED
  BY <1>4, <1>5, <1>6

\* The attributes of a service discovery frame follow its header; an action
\* frame of another type has none.
LEMMA ActionParsing ==
    ASSUME TypeOK, Parsing, ParseActionHeader
    PROVE  Parsing'
<1>1. /\ AtBody /\ Reading /\ Got /\ sent \in Messages /\ has_fcs \in BOOLEAN
      /\ sent.kind \in {"discovery", "follow_up", "action"}
  BY DEF Parsing, ParseActionHeader, AtBody, Reading
<1>2. /\ frame.current = RadiotapLength + 24 /\ frame.error = FALSE
      /\ First(parsed, sent, 1)
      /\ Whole => frame.end = FrameEnd(sent)
  BY <1>1 DEF AtBody, Reading
<1>3. /\ InBounds(frame) /\ frame.end \in Nat /\ frame.current \in Nat /\ RadiotapLength \in Nat
      /\ FrameEnd(sent) \in Nat
      /\ frame.data = Captured(sent, has_fcs)
  BY <1>1, ReadingFacts
<1>4. UNCHANGED <<sent, has_fcs, parsed>> /\ Keep
  BY DEF ParseActionHeader, Keep
<1>5. /\ Holds(frame.data, frame.current + 2, Field(sent.oui, 3))
      /\ sent.kind # "action" =>
            /\ Holds(frame.data, frame.current + 5, Field(NAN_OUT_TYPE_SERVICE_DISCOVERY, 1))
            /\ RadiotapLength + 30 <= FrameEnd(sent)
      /\ sent.kind = "action" => FrameEnd(sent) = RadiotapLength + 31
  BY <1>1, <1>2, <1>3, CapturedAction
<1>6. PICK g \in Garbage :
          LET oui == value_at(frame, 2, 3, g)
              oui_type == value_at(frame, 5, 1, g) IN
          IF buf_rest(frame) < ActionFrameSize
          THEN Done(RX_TOO_SHORT) /\ KeepAttribute /\ UNCHANGED frame
          ELSE IF oui # NAN_OUI
          THEN Done(RX_IGNORE_OUI) /\ KeepAttribute /\ UNCHANGED frame
          ELSE IF oui_type = NAN_OUT_TYPE_SERVICE_DISCOVERY
          THEN Iterate /\ frame' = buf_advance(frame, ActionFrameSize - 1)
          ELSE IF oui_type = NAN_OUI_TYPE_ACTION
          THEN Done(RX_OK) /\ KeepAttribute /\ frame' = buf_advance(frame, ActionFrameSize)
          ELSE Done(RX_IGNORE) /\ KeepAttribute /\ UNCHANGED frame
  BY DEF ParseActionHeader
<1>7. SomeTold'
  <2>1. First(parsed', sent', 1) /\ 1 \in Nat
    BY <1>2, <1>4
  <2> QED
    BY <2>1 DEF SomeTold
<1>8. ASSUME ~Whole, frame'.data = frame.data, frame'.size = frame.size, stage' = "done",
             result' # RX_OK \/ sent.kind = "action"
      PROVE  Parsing'
  <2>1. Whole' = Whole
    BY <1>4, <1>8, WholeKept
  <2>2. CASE result' # RX_OK
    <3>1. AtDone'
      BY <1>7, <1>8, <2>1, <2>2 DEF AtDone
    <3> QED
      BY <1>1, <1>4, <1>8, <3>1 DEF Parsing
  <2>3. CASE sent.kind = "action"
    <3>1. AttributesOf(sent) = <<>>
      BY <2>3 DEF AttributesOf
    <3>2. DOMAIN AttributesOf(sent') = {}
      BY <1>4, <3>1
    <3>3. CutBetween'
      BY <3>2 DEF CutBetween
    <3>4. AtDone'
      BY <1>7, <1>8, <2>1, <3>3 DEF AtDone
    <3> QED
      BY <1>1, <1>4, <1>8, <3>4 DEF Parsing
  <2> QED
    BY <1>8, <2>2, <2>3
<1>9. CASE buf_rest(frame) < 7
  <2>1. Done(RX_TOO_SHORT) /\ UNCHANGED frame
    BY <1>6, <1>9 DEF ActionFrameSize
  <2>2. ~Whole
    <3>1. SUFFICES ASSUME Whole PROVE FALSE
      OBVIOUS
    <3>2. Laid(sent) /\ sent.kind # "beacon"
      BY <1>1, <3>1, WholeLaid
    <3>3. RadiotapLength + 30 + 3 <= FrameEnd(sent)
      BY <3>2, FirstFits
    <3>4. frame.end = FrameEnd(sent)
      BY <1>2, <3>1
    <3>5. frame.end - frame.current < 7
      BY <1>9 DEF buf_rest, buf_position
    <3> QED
      BY <1>2, <1>3, <3>3, <3>4, <3>5
  <2> QED
    BY <1>8, <2>1, <2>2 DEF Done, RX_TOO_SHORT, RX_OK
<1>10. CASE ~(buf_rest(frame) < 7)
  <2>0. 7 <= frame.end - frame.current
    BY <1>3, <1>10 DEF buf_rest, buf_position
  <2>1. 2 + 3 <= frame.end - frame.current /\ 5 + 1 <= frame.end - frame.current
    BY <1>3, <2>0
  <2>2. sent.oui \in Nat /\ NAN_OUT_TYPE_SERVICE_DISCOVERY \in Nat
    BY <1>1, ReceptionAssumption DEF IsMessage, NAN_OUT_TYPE_SERVICE_DISCOVERY
  <2>3. value_at(frame, 2, 3, g) = sent.oui
    BY <1>1, <1>5, <2>1, <2>2, FrameRead
  <2>4. sent.kind # "action" => value_at(frame, 5, 1, g) = NAN_OUT_TYPE_SERVICE_DISCOVERY
    BY <1>1, <1>5, <2>1, <2>2, FrameRead
  <2>5. CASE sent.oui # NAN_OUI
    <3>1. Done(RX_IGNORE_OUI) /\ UNCHANGED frame
      BY <1>6, <1>10, <2>3, <2>5 DEF ActionFrameSize
    <3>2. ~Whole
      BY <2>5 DEF Whole
    <3> QED
      BY <1>8, <3>1, <3>2 DEF Done, RX_IGNORE_OUI, RX_OK
  <2>6. CASE /\ sent.oui = NAN_OUI
             /\ value_at(frame, 5, 1, g) # NAN_OUT_TYPE_SERVICE_DISCOVERY
    <3>1. sent.kind = "action"
      BY <2>4, <2>6
    <3>2. ~Whole
      BY <3>1 DEF Whole
    <3>3. stage' = "done" /\ (frame' = frame \/ frame' = read(frame, 7))
      BY <1>6, <1>10, <2>3, <2>6 DEF ActionFrameSize, Done, read
    <3>4. read(frame, 7).data = frame.data /\ read(frame, 7).size = frame.size
      <4>1. 7 \in Nat
        OBVIOUS
      <4> QED
        BY <1>3, <4>1, ReadCases
    <3> QED
      BY <1>8, <3>1, <3>2, <3>3, <3>4
  <2>7. CASE /\ sent.oui = NAN_OUI
             /\ value_at(frame, 5, 1, g) = NAN_OUT_TYPE_SERVICE_DISCOVERY
    <3>1. Iterate /\ frame' = read(frame, 6)
      BY <1>6, <1>10, <2>3, <2>7 DEF ActionFrameSize, read
    <3>2. /\ frame'.data = frame.data /\ frame'.size = frame.size /\ frame'.end = frame.end
          /\ frame'.current = RadiotapLength + 24 + 6 /\ frame'.error = FALSE
      <4>1. 6 <= frame.end - frame.current /\ 6 \in Nat
        BY <1>3, <2>0
      <4>2. LET r == read(frame, 6) IN
            /\ r.data = frame.data /\ r.size = frame.size /\ r.end = frame.end
            /\ r.current = frame.current + 6 /\ r.error = frame.error
        BY <1>3, <4>1, ReadCases
      <4> QED
        BY <1>2, <3>1, <4>2
    <3>3. Whole' = Whole
      BY <1>4, <3>2, WholeKept
    <3>4. stage' = "next" /\ in_beacon' = FALSE
      BY <3>1 DEF Iterate, ParseActionHeader
    <3>5. InLoop'
      <4>1. Got'
        BY <1>1, <1>4, <3>2 DEF Got
      <4>2. Whole' => frame'.end = FrameEnd(sent')
        BY <1>2, <1>4, <3>2, <3>3
      <4>3. sent'.kind # "beacon"
        BY <1>1, <1>4
      <4> QED
        BY <3>2, <3>4, <4>1, <4>2, <4>3 DEF InLoop, Reading
    <3>6. CASE sent.kind = "action"
      <4>1. ~Whole'
        BY <3>3, <3>6 DEF Whole
      <4>2. FrameEnd(sent') - (IF sent'.kind = "action" THEN 1 ELSE 0) <= frame'.current
        BY <1>3, <1>4, <1>5, <3>2, <3>6
      <4>3. Beyond'
        BY <1>7, <4>1, <4>2 DEF Beyond
      <4>4. AtNext'
        BY <3>5, <4>3 DEF AtNext
      <4> QED
        BY <1>1, <1>4, <3>4, <4>4 DEF Parsing
    <3>7. CASE sent.kind # "action"
      <4>1. Laid(sent) /\ sent.kind # "beacon"
        BY <1>1, <3>7 DEF Laid
      <4>2. StartOf(sent, 1) = RadiotapLength + HeaderSize(sent) /\ HeaderSize(sent) = 30
        BY <4>1, Layout DEF HeaderSize
      <4>3. frame'.current = StartOf(sent', 1)
        BY <1>3, <1>4, <3>2, <4>2
      <4>4. Reached(sent', 1, 1) /\ First(parsed', sent', 1) /\ 1 \in Nat
        BY <1>2, <1>4, <4>1, ReachedStart
      <4>5. AtAttribute(1)'
        BY <4>3, <4>4 DEF AtAttribute
      <4>6. 1 \in 1 .. Len(AttributesOf(sent')) + 1 /\ Laid(sent')
        BY <1>4, <4>1, Slots
      <4>7. AtNext'
        BY <3>5, <4>5, <4>6 DEF AtNext
      <4> QED
        BY <1>1, <1>4, <3>4, <4>7 DEF Parsing
    <3> QED
      BY <3>6, <3>7
  <2> QED
    BY <2>5, <2>6, <2>7
<1> QED
  BY <1>9, <1>10

\* An attribute has a length.
LEMMA SlotSize ==
    ASSUME NEW m, Laid(m), NEW i \in 1 .. Len(AttributesOf(m))
    PROVE  Len(AttributesOf(m)[i]) \in Nat
<1>1. PICK id, c : IsSeq(c) /\ AttributesOf(m)[i] = Attribute(id, c)
  BY Slots
<1>2. Len(c) \in Nat /\ Size(c, Len(c))
  BY <1>1, SeqFacts DEF Size
<1>3. Size(Attribute(id, c), 3 + Len(c))
  BY <1>2, AttributeLies
<1>4. Len(Attribute(id, c)) = 3 + Len(c)
  BY <1>3 DEF Size
<1> QED
  BY <1>1, <1>2, <1>4

\* In the loop nothing changes but what the step is about.
LEMMA LoopKept ==
    ASSUME InLoop, Keep, in_beacon' = in_beacon,
           frame'.data = frame.data, frame'.size = frame.size, frame'.end = frame.end,
           frame'.error = FALSE
    PROVE  InLoop' /\ Whole' = Whole
<1>1. Whole' = Whole
  BY WholeKept
<1>2. UNCHANGED <<sent, has_fcs>>
  BY DEF Keep
<1>3. Got'
  BY <1>2 DEF Got, InLoop, Reading
<1>4. Whole' => frame'.end = FrameEnd(sent')
  BY <1>1, <1>2 DEF InLoop, Reading
<1> QED
  BY <1>1, <1>2, <1>3, <1>4 DEF InLoop, Reading

\* An attribute has been dealt with, and the next one follows.
LEMMA NextFollows ==
    ASSUME Parsing, InLoop, Laid(sent), NEW i \in 1 .. Len(AttributesOf(sent)),
           frame.current = StartOf(sent, i + 1),
           Keep, frame' = frame, in_beacon' = in_beacon, stage' = "next",
           NEW k \in Nat, Reached(sent, i + 1, k), First(parsed', sent, k)
    PROVE  Parsing'
<1>1. UNCHANGED <<sent, has_fcs>>
  BY DEF Keep
<1>2. InLoop'
  BY LoopKept DEF InLoop, Reading
<1>3. i + 1 \in 1 .. Len(AttributesOf(sent')) + 1 /\ Laid(sent')
  BY <1>1, Slots
<1>4. AtAttribute(i + 1)'
  <2>1. frame'.current = StartOf(sent', i + 1) /\ Reached(sent', i + 1, k)
        /\ First(parsed', sent', k)
    BY <1>1
  <2> QED
    BY <2>1 DEF AtAttribute
<1>5. AtNext'
  BY <1>2, <1>3, <1>4 DEF AtNext
<1> QED
  BY <1>1, <1>5 DEF Parsing

\* What is read beyond the frame tells nothing.
LEMMA StillBeyond ==
    ASSUME Parsing, InLoop, Beyond, Keep, frame' = frame, in_beacon' = in_beacon,
           parsed' = parsed, stage' = "next"
    PROVE  Parsing'
<1>1. UNCHANGED <<sent, has_fcs>>
  BY DEF Keep
<1>2. InLoop' /\ Whole' = Whole
  BY LoopKept DEF InLoop, Reading
<1>3. SomeTold'
  BY <1>1 DEF Beyond, SomeTold
<1>4. Beyond'
  BY <1>1, <1>2, <1>3 DEF Beyond
<1>5. AtNext'
  BY <1>2, <1>4 DEF AtNext
<1> QED
  BY <1>1, <1>5 DEF Parsing

\* A frame that is not whole may be refused at any time.
LEMMA Refused ==
    ASSUME Parsing, ~Whole, SomeTold, Keep, frame' = frame, parsed' = parsed,
           stage' = "done", result' # RX_OK
    PROVE  Parsing'
<1>1. UNCHANGED <<sent, has_fcs>>
  BY DEF Keep
<1>2. Whole' = Whole
  BY WholeKept
<1>3. SomeTold'
  BY <1>1 DEF SomeTold
<1>4. AtDone'
  BY <1>2, <1>3 DEF AtDone
<1> QED
  BY <1>1, <1>4 DEF Parsing

\* A frame that ends behind its attributes was not cut within one.
LEMMA BehindAll ==
    ASSUME sent \in Messages, frame.end \in Int, Laid(sent) => FrameEnd(sent) <= frame.end
    PROVE  CutBetween
<1>1. CASE Laid(sent)
  <2>1. DOMAIN AttributesOf(sent) = 1 .. Len(AttributesOf(sent))
    BY <1>1, Slots, SeqFacts
  <2> SUFFICES ASSUME NEW j \in 1 .. Len(AttributesOf(sent))
               PROVE  frame.end >= StartOf(sent, j) + Len(AttributesOf(sent)[j])
    BY <2>1 DEF CutBetween
  <2>2. /\ StartOf(sent, j) \in Nat
        /\ StartOf(sent, j + 1) = StartOf(sent, j) + Len(AttributesOf(sent)[j])
        /\ StartOf(sent, j + 1) <= FrameEnd(sent)
    BY <1>1, Layout
  <2>3. FrameEnd(sent) \in Nat
    BY <1>1, Layout, ReceptionAssumption DEF FrameEnd
  <2>5. Len(AttributesOf(sent)[j]) \in Nat
    BY <1>1, SlotSize
  <2>6. FrameEnd(sent) <= frame.end
    BY <1>1
  <2> QED
    BY <2>2, <2>3, <2>5, <2>6
<1>2. CASE ~Laid(sent)
  <2>1. AttributesOf(sent) = <<>>
    BY <1>2 DEF Laid, AttributesOf
  <2>2. DOMAIN AttributesOf(sent) = {}
    BY <2>1
  <2> QED
    BY <2>2 DEF CutBetween
<1> QED
  BY <1>1, <1>2

\* One that ends within the id and length of attribute i was not either.
LEMMA WithinHeader ==
    ASSUME sent \in Messages, Laid(sent), NEW i \in 1 .. Len(AttributesOf(sent)),
           frame.end \in Nat, StartOf(sent, i) <= frame.end, frame.end <= StartOf(sent, i) + 3
    PROVE  CutBetween
<1> DEFINE n == Len(AttributesOf(sent))
<1>0. n \in Nat /\ DOMAIN AttributesOf(sent) = 1 .. n
  BY Slots, SeqFacts
<1> SUFFICES ASSUME NEW j \in 1 .. n, frame.end > StartOf(sent, j) + 3
             PROVE  frame.end >= StartOf(sent, j) + Len(AttributesOf(sent)[j])
  BY <1>0 DEF CutBetween
<1>1. /\ StartOf(sent, i) \in Nat /\ StartOf(sent, j) \in Nat
      /\ StartOf(sent, j + 1) = StartOf(sent, j) + Len(AttributesOf(sent)[j])
  BY Layout
<1>2. \A l \in 1 .. n + 1 : \A h \in 1 .. l : StartOf(sent, h) <= StartOf(sent, l)
  BY Layout
<1>3. ~(i <= j)
  <2>1. SUFFICES ASSUME i <= j PROVE FALSE
    OBVIOUS
  <2>2. i \in 1 .. j /\ j \in 1 .. n + 1
    BY <1>0, <2>1
  <2>3. StartOf(sent, i) <= StartOf(sent, j)
    BY <1>2, <2>2
  <2> QED
    BY <1>1, <2>3
<1>4. j + 1 \in 1 .. i /\ i \in 1 .. n + 1
  BY <1>0, <1>3
<1>5. StartOf(sent, j + 1) <= StartOf(sent, i)
  BY <1>2, <1>4
<1>6. Len(AttributesOf(sent)[j]) \in Nat
  BY SlotSize
<1> QED
  BY <1>1, <1>5, <1>6

\* The next attribute is read, or the loop ends.
LEMMA AttributeParsing ==
    ASSUME TypeOK, Parsing, ReadNextAttribute
    PROVE  Parsing'
<1>1. /\ AtNext /\ InLoop /\ Got /\ sent \in Messages /\ has_fcs \in BOOLEAN
      /\ frame.error = FALSE
      /\ (in_beacon <=> sent.kind = "beacon")
  BY DEF Parsing, ReadNextAttribute, AtNext, InLoop, Reading
<1>2. Whole => frame.end = FrameEnd(sent)
  BY <1>1 DEF InLoop, Reading
<1>3. /\ InBounds(frame) /\ frame.end \in Nat /\ frame.current \in Nat
      /\ frame.current <= frame.end /\ FrameEnd(sent) \in Nat
      /\ frame.end <= Len(frame.data)
      /\ Len(frame.data) = FrameEnd(sent) + (IF has_fcs THEN 4 ELSE 0)
  BY <1>1, ReadingFacts
<1>4. PICK gi \in Garbage, g \in Garbage :
          LET length == LengthRead(g)
              after_header == read(read(frame, 1), 2) IN
          /\ frame' = read(after_header, length)
          /\ attribute_id' = IF buf_rest(frame) < 1
                             THEN attribute_id
                             ELSE value_at(frame, 0, 1, gi)
          /\ attribute_length' = length
          /\ IF frame'.error
             THEN Done(EndOfLoop(frame')) /\ UNCHANGED attribute_buf
             ELSE /\ attribute_buf' = buf_new_const(bytes_at(after_header, 0, length), length)
                  /\ stage' = "handle"
                  /\ UNCHANGED result
  BY Zenon DEF ReadNextAttribute
<1>5. UNCHANGED <<in_beacon, parsed, sent, has_fcs>> /\ Keep
  BY DEF ReadNextAttribute, Keep
<1> DEFINE L == LengthRead(g)
           h == read(read(frame, 1), 2)
           r == read(h, L)
<1>6. L \in Nat /\ attribute_length \in Nat
  BY LengthIsNat DEF TypeOK
<1>7. /\ InBounds(r) /\ r.data = frame.data /\ r.size = frame.size /\ r.end = frame.end
      /\ frame.current <= r.current
      /\ \/ /\ r.error = FALSE
            /\ h.current = frame.current + 3 /\ r.current = frame.current + 3 + L
            /\ frame.current + 3 + L <= frame.end
         \/ /\ r.error = TRUE
            /\ frame.end < frame.current + 3 + L
            /\ r.end - r.current <= 0 => frame.end <= frame.current + 3
  BY <1>1, <1>3, <1>6, ThreeReads
<1>8. ASSUME Laid(sent), NEW i \in 1 .. Len(AttributesOf(sent)),
             frame.current = StartOf(sent, i)
      PROVE  \/ /\ r.error = FALSE
                /\ \E id, c : /\ IsSeq(c) /\ Slot(sent, i, id, c)
                              /\ L = Len(c) /\ bytes_at(h, 0, L) = c
                              /\ ~(buf_rest(frame) < 1)
                              /\ value_at(frame, 0, 1, gi) = id
                /\ r.current = StartOf(sent, i + 1)
             \/ /\ r.error = TRUE
                /\ frame.end < StartOf(sent, i + 1)
  <2>1. PICK id, c :
            Slot(sent, i, id, c) /\ IsSeq(c) /\ AttributesOf(sent)[i] = Attribute(id, c)
    BY <1>8, Slots
  <2>2. id \in Nat
    BY <2>1, SlotId
  <2>3. \/ /\ r.error = FALSE
           /\ L = Len(c) /\ bytes_at(h, 0, L) = c
           /\ ~(buf_rest(frame) < 1)
           /\ \A x \in Garbage : value_at(frame, 0, 1, x) = id
           /\ r.current = StartOf(sent, i + 1)
        \/ /\ r.error = TRUE
           /\ frame.end < StartOf(sent, i + 1)
    <3>1. frame.data = Captured(sent, has_fcs) /\ frame.size <= Len(frame.data)
      BY <1>1 DEF Got
    <3> QED
      BY <1>1, <1>3, <1>6, <1>8, <2>1, <2>2, <3>1, AttributeRead
  <2> HIDE DEF L, h, r
  <2> QED
    BY <2>1, <2>3
<1>9. frame' = r /\ attribute_length' = L
  BY <1>4
<1>10. /\ r.error = TRUE => Done(EndOfLoop(r))
       /\ r.error = FALSE =>
             /\ attribute_id' = IF buf_rest(frame) < 1
                                THEN attribute_id ELSE value_at(frame, 0, 1, gi)
             /\ attribute_buf' = buf_new_const(bytes_at(h, 0, L), L)
             /\ stage' = "handle"
  BY <1>4
<1> HIDE DEF L, h, r
<1>11. Whole' = Whole
  BY <1>5, <1>7, <1>9, WholeKept
<1>12. SomeTold /\ SomeTold'
  <2>1. SomeTold
    BY <1>1 DEF AtNext, Beyond, AtAttribute, SomeTold
  <2> QED
    BY <1>5, <2>1 DEF SomeTold
<1>13. CASE r.error = TRUE
  <2>1. stage' = "done" /\ result' = EndOfLoop(r)
    BY <1>10, <1>13 DEF Done
  <2>2. result' = RX_OK => r.end - r.current <= 0
    <3>1. r.end \in Nat /\ r.current \in Nat
      BY <1>7 DEF InBounds
    <3> QED
      BY <2>1, <3>1 DEF EndOfLoop, RX_UNEXPECTED_FORMAT, RX_OK, buf_rest, buf_position
  <2>3. result' = RX_OK => frame.end <= frame.current + 3
    BY <1>7, <1>13, <2>2
  <2>4. CutBetween' = CutBetween
    BY <1>5, <1>7, <1>9 DEF CutBetween
  <2>5. SUFFICES /\ Whole => result' = RX_OK /\ parsed = Told(sent)
                 /\ result' = RX_OK => CutBetween
    <3>1. AtDone'
      BY <1>5, <1>11, <1>12, <2>4, <2>5 DEF AtDone
    <3> QED
      BY <1>1, <1>5, <2>1, <3>1 DEF Parsing
  <2>6. CASE Beyond
    <3>1. ~Whole
      BY <2>6 DEF Beyond
    <3>2. Laid(sent) => FrameEnd(sent) <= frame.end
      <4>1. Laid(sent) => FrameEnd(sent) - 0 <= frame.current
        BY <2>6 DEF Beyond, Laid
      <4> QED
        BY <1>3, <4>1
    <3>3. CutBetween
      BY <1>1, <1>3, <3>2, BehindAll
    <3> QED
      BY <3>1, <3>3
  <2>7. ASSUME Laid(sent), AtAttribute(Len(AttributesOf(sent)) + 1)
        PROVE  /\ Whole => result' = RX_OK /\ parsed = Told(sent)
               /\ result' = RX_OK => CutBetween
    <3>1. frame.current = FrameEnd(sent)
      BY <2>7, Layout DEF AtAttribute
    <3>2. CutBetween
      BY <1>1, <1>3, <3>1, BehindAll
    <3>3. ASSUME Whole PROVE result' = RX_OK /\ parsed = Told(sent)
      <4>1. r.current <= r.end /\ r.current \in Nat /\ r.end \in Nat
        BY <1>7 DEF InBounds
      <4>2. ~(r.end - r.current > 0)
        BY <1>2, <1>3, <1>7, <3>1, <3>3, <4>1
      <4>3. result' = RX_OK
        BY <2>1, <4>2 DEF EndOfLoop, buf_rest, buf_position
      <4>4. PICK k \in Nat : /\ Reached(sent, Len(AttributesOf(sent)) + 1, k)
                             /\ First(parsed, sent, k)
        BY <2>7 DEF AtAttribute
      <4>5. k = ToldSize(sent)
        BY <2>7, <4>4, ReachedEnd
      <4> QED
        BY <1>1, <4>3, <4>4, <4>5, FirstIsPrefix
    <3> QED
      BY <3>2, <3>3
  <2>8. ASSUME Laid(sent), NEW i \in 1 .. Len(AttributesOf(sent)), AtAttribute(i)
        PROVE  /\ Whole => result' = RX_OK /\ parsed = Told(sent)
               /\ result' = RX_OK => CutBetween
    <3>1. frame.current = StartOf(sent, i)
      BY <2>8 DEF AtAttribute
    <3>2. frame.end < StartOf(sent, i + 1)
      BY <1>8, <1>13, <2>8, <3>1
    <3>3. ~Whole
      <4>1. StartOf(sent, i + 1) <= FrameEnd(sent) /\ StartOf(sent, i) \in Nat
            /\ StartOf(sent, i + 1) = StartOf(sent, i) + Len(AttributesOf(sent)[i])
        BY <2>8, Layout
      <4>2. StartOf(sent, i + 1) \in Int
        BY <2>8, <4>1, SlotSize
      <4> QED
        BY <1>2, <1>3, <3>2, <4>1, <4>2
    <3>4. ASSUME result' = RX_OK PROVE CutBetween
      <4>1. frame.end <= StartOf(sent, i) + 3 /\ StartOf(sent, i) <= frame.end
        BY <1>3, <2>3, <3>1, <3>4
      <4> QED
        BY <1>1, <1>3, <2>8, <4>1, WithinHeader
    <3> QED
      BY <3>3, <3>4
  <2>9. \/ Beyond
        \/ Laid(sent) /\ AtAttribute(Len(AttributesOf(sent)) + 1)
        \/ Laid(sent) /\ \E i \in 1 .. Len(AttributesOf(sent)) : AtAttribute(i)
    <3>1. Laid(sent) => Len(AttributesOf(sent)) \in Nat
      BY Slots
    <3>2. Laid(sent) => \A i \in 1 .. Len(AttributesOf(sent)) + 1 :
              i = Len(AttributesOf(sent)) + 1 \/ i \in 1 .. Len(AttributesOf(sent))
      BY <3>1
    <3> QED
      BY <1>1, <3>2 DEF AtNext
  <2> QED
    BY <2>6, <2>7, <2>8, <2>9
<1>14. CASE r.error = FALSE
  <2>1. stage' = "handle"
    BY <1>10, <1>14
  <2>2. InLoop'
    BY <1>1, <1>5, <1>7, <1>9, <1>14, LoopKept
  <2>3. SUFFICES AtHandle'
    BY <1>1, <1>5, <2>1 DEF Parsing
  <2>4. r.current = frame.current + 3 + L /\ frame.current + 3 + L <= frame.end
    BY <1>7, <1>14
  <2>5. ASSUME ~Whole,
               FrameEnd(sent) - (IF sent.kind = "action" THEN 1 ELSE 0) <= frame.current
        PROVE  AtHandle'
    <3>1. FrameEnd(sent') - (IF sent'.kind = "action" THEN 1 ELSE 0) <= frame'.current
      BY <1>3, <1>5, <1>6, <1>9, <2>4, <2>5
    <3>2. Beyond'
      BY <1>11, <1>12, <2>5, <3>1 DEF Beyond
    <3>3. L < IF in_beacon THEN 2 ELSE 9
      <4>1. frame.end <= FrameEnd(sent) + 4
        BY <1>3
      <4>2. CASE in_beacon
        <5>1. FrameEnd(sent) - 0 <= frame.current
          BY <1>1, <2>5, <4>2
        <5>2. L < 2
          BY <1>3, <1>6, <2>4, <4>1, <5>1
        <5> QED
          BY <4>2, <5>2
      <4>3. CASE ~in_beacon
        <5>1. FrameEnd(sent) - 1 <= frame.current
          BY <1>3, <2>5
        <5>2. L < 9
          BY <1>3, <1>6, <2>4, <4>1, <5>1
        <5> QED
          BY <4>3, <5>2
      <4> QED
        BY <4>2, <4>3
    <3>4. attribute_length' < IF in_beacon' THEN 2 ELSE 9
      BY <1>5, <1>9, <3>3
    <3> QED
      BY <2>2, <3>2, <3>4 DEF AtHandle
  <2>6. CASE Beyond
    BY <2>5, <2>6 DEF Beyond
  <2>7. ASSUME Laid(sent), AtAttribute(Len(AttributesOf(sent)) + 1)
        PROVE  AtHandle'
    <3>1. frame.current = FrameEnd(sent)
      BY <2>7, Layout DEF AtAttribute
    <3>2. ~Whole
      BY <1>2, <1>3, <1>6, <2>4, <3>1
    <3>3. FrameEnd(sent) - (IF sent.kind = "action" THEN 1 ELSE 0) <= frame.current
      BY <1>3, <3>1
    <3> QED
      BY <2>5, <3>2, <3>3
  <2>8. ASSUME Laid(sent), NEW i \in 1 .. Len(AttributesOf(sent)), AtAttribute(i)
        PROVE  AtHandle'
    <3>1. frame.current = StartOf(sent, i)
      BY <2>8 DEF AtAttribute
    <3>2. r.current = StartOf(sent, i + 1)
      BY <1>8, <1>14, <2>8, <3>1
    <3>3. PICK id, c : /\ IsSeq(c) /\ Slot(sent, i, id, c)
                       /\ L = Len(c) /\ bytes_at(h, 0, L) = c
                       /\ ~(buf_rest(frame) < 1)
                       /\ value_at(frame, 0, 1, gi) = id
      BY <1>8, <1>14, <2>8, <3>1
    <3>4. PICK k \in Nat : Reached(sent, i, k) /\ First(parsed, sent, k)
      BY <2>8 DEF AtAttribute
    <3>5. attribute_id' = id /\ attribute_buf' = buf_new_const(c, Len(c))
      BY <1>10, <1>14, <3>3
    <3>6. /\ Slot(sent', i, attribute_id', c) /\ IsSeq(c)
          /\ frame'.current = StartOf(sent', i + 1)
          /\ Reached(sent', i, k) /\ First(parsed', sent', k)
      BY <1>5, <1>9, <3>2, <3>3, <3>4, <3>5
    <3>7. InAttribute(i)'
      BY <3>5, <3>6 DEF InAttribute
    <3>8. Laid(sent') /\ i \in 1 .. Len(AttributesOf(sent'))
      BY <1>5, <2>8
    <3> QED
      BY <2>2, <3>7, <3>8 DEF AtHandle
  <2>9. \/ Beyond
        \/ Laid(sent) /\ AtAttribute(Len(AttributesOf(sent)) + 1)
        \/ Laid(sent) /\ \E i \in 1 .. Len(AttributesOf(sent)) : AtAttribute(i)
    <3>1. Laid(sent) => Len(AttributesOf(sent)) \in Nat
      BY Slots
    <3>2. Laid(sent) => \A i \in 1 .. Len(AttributesOf(sent)) + 1 :
              i = Len(AttributesOf(sent)) + 1 \/ i \in 1 .. Len(AttributesOf(sent))
      BY <3>1
    <3> QED
      BY <1>1, <3>2 DEF AtNext
  <2> QED
    BY <2>6, <2>7, <2>8, <2>9
<1> QED
  BY <1>7, <1>13, <1>14

\* A reader that has failed stays failed.
LEMMA StaysFailed ==
    ASSUME NEW buf, InBounds(buf), buf.error = TRUE, NEW length \in Nat
    PROVE  buf_advance(buf, length).error = TRUE /\ InBounds(buf_advance(buf, length))
<1>1. /\ InBounds(read(buf, length))
      /\ length <= buf.end - buf.current => read(buf, length).error = buf.error
      /\ length > buf.end - buf.current => read(buf, length).error = TRUE
  BY ReadCases
<1>2. buf.end - buf.current \in Int /\ length \in Int
  BY DEF InBounds
<1>3. length <= buf.end - buf.current \/ length > buf.end - buf.current
  BY <1>2
<1> QED
  BY <1>1, <1>3 DEF read

\* So does one that skips a counted part.
LEMMA SkipStaysFailed ==
    ASSUME NEW buf, InBounds(buf), buf.error = TRUE, NEW garbage \in Garbage
    PROVE  SkipCounted(buf, garbage).error = TRUE /\ InBounds(SkipCounted(buf, garbage))
<1>1. value_at(buf, 0, 1, garbage) \in Nat
  BY ValueIsNat
<1>2. read(buf, 1).error = TRUE /\ InBounds(read(buf, 1))
  BY StaysFailed DEF read
<1> QED
  BY <1>1, <1>2, StaysFailed DEF SkipCounted

\* A descriptor that is too short is an error (nan_parse_sda).
LEMMA SdaTooShort ==
    ASSUME NEW buf, InBounds(buf), buf.end - buf.current < 9, NEW garbage \in Garbage
    PROVE  nan_parse_sda(buf, garbage).error = TRUE
<1> DEFINE fixed == read(buf, 9)
           control == Control(buf, garbage)
           binding == IF Has(control, BINDING_BITMAP) THEN buf_advance(fixed, 2) ELSE fixed
           matching == IF Has(control, MATCHING_FILTER)
                       THEN SkipCounted(binding, garbage) ELSE binding
           before == BeforeInfo(buf, garbage)
<1>1. fixed.error = TRUE /\ InBounds(fixed)
  <2>1. 9 > buf.end - buf.current
    BY DEF InBounds
  <2> QED
    BY <2>1, ReadCases
<1> HIDE DEF fixed, control
<1>2. binding.error = TRUE /\ InBounds(binding)
  BY <1>1, StaysFailed
<1> HIDE DEF binding
<1>3. matching.error = TRUE /\ InBounds(matching)
  BY <1>2, SkipStaysFailed
<1>4. before = IF Has(control, RESPONSE_FILTER) THEN SkipCounted(matching, garbage) ELSE matching
  BY DEF BeforeInfo, SkipFilters, fixed, control, binding
<1> HIDE DEF matching, before
<1>5. before.error = TRUE /\ InBounds(before)
  BY <1>3, <1>4, SkipStaysFailed
<1>6. InfoLength(buf, garbage) \in Nat
  BY ValueIsNat DEF InfoLength
<1>7. read(before, 1).error = TRUE /\ InBounds(read(before, 1))
  BY <1>5, StaysFailed DEF read
<1>8. read(read(before, 1), InfoLength(buf, garbage)).error = TRUE
  BY <1>6, <1>7, StaysFailed DEF read
<1> QED
  BY <1>5, <1>8 DEF nan_parse_sda, before

\* What is known when an attribute is parsed.
LEMMA HandleFacts ==
    ASSUME TypeOK, Parsing, stage = "handle"
    PROVE  /\ AtHandle /\ InLoop /\ sent \in Messages
           /\ (in_beacon <=> sent.kind = "beacon")
           /\ InBounds(attribute_buf) /\ attribute_length \in Nat
           /\ attribute_buf.end = attribute_length /\ attribute_buf.size = attribute_length
           /\ attribute_buf.current = 0
           /\ SomeTold
<1>1. /\ AtHandle /\ sent \in Messages
  BY DEF Parsing
<1>2. InLoop /\ SomeTold
  BY <1>1 DEF AtHandle, Beyond, InAttribute, SomeTold
<1> QED
  BY <1>1, <1>2 DEF InLoop, TypeOK

\* A master indication is handed on as it was sent.
LEMMA MasterParsing ==
    ASSUME TypeOK, Parsing, ParseMasterIndication
    PROVE  Parsing'
<1>1. /\ stage = "handle" /\ in_beacon /\ attribute_id = MASTER_INDICATION_ATTRIBUTE
      /\ attribute_buf' = read(attribute_buf, 2)
  BY DEF ParseMasterIndication
<1>2. PICK g \in Garbage :
          Handled(attribute_buf',
                  [ master_preference |-> value_at(attribute_buf, 0, 1, g),
                    random_factor |-> value_at(attribute_buf, 1, 1, g) ])
  BY DEF ParseMasterIndication
<1>3. UNCHANGED <<frame, in_beacon>> /\ Keep
  BY <1>2 DEF Handled
<1>4. /\ AtHandle /\ InLoop /\ sent \in Messages /\ sent.kind = "beacon"
      /\ InBounds(attribute_buf) /\ attribute_length \in Nat
      /\ attribute_buf.end = attribute_length /\ attribute_buf.current = 0 /\ SomeTold
  BY <1>1, HandleFacts
<1>5. CASE Beyond /\ attribute_length < IF in_beacon THEN 2 ELSE 9
  <2>1. 2 > attribute_buf.end - attribute_buf.current
    BY <1>1, <1>4, <1>5
  <2>2. attribute_buf'.error = TRUE
    BY <1>1, <1>4, <2>1, ReadCases
  <2>3. stage' = "done" /\ result' # RX_OK /\ parsed' = parsed
    BY <1>2, <2>2 DEF Handled, Done, RX_TOO_SHORT, RX_OK
  <2> QED
    BY <1>3, <1>4, <1>5, <2>3, Refused DEF Beyond
<1>6. ASSUME Laid(sent), NEW i \in 1 .. Len(AttributesOf(sent)), InAttribute(i)
      PROVE  Parsing'
  <2>1. PICK c : /\ IsSeq(c) /\ Slot(sent, i, attribute_id, c)
                 /\ attribute_buf = buf_new_const(c, Len(c))
    BY <1>6 DEF InAttribute
  <2>2. PICK k \in Nat : Reached(sent, i, k) /\ First(parsed, sent, k)
    BY <1>6 DEF InAttribute
  <2>3. i \in Nat
    BY <1>6
  <2>4. sent.kind = "beacon"
    BY <1>4
  <2>5. /\ k < ToldSize(sent) /\ Reached(sent, i + 1, k + 1)
        /\ \/ /\ attribute_id = MASTER_INDICATION_ATTRIBUTE /\ c = MasterContents(sent)
              /\ Told(sent)[k + 1] = [ master_preference |-> sent.master_preference,
                                       random_factor |-> sent.random_factor ]
           \/ /\ attribute_id = CLUSTER_ATTRIBUTE /\ c = ClusterContents(sent)
              /\ Told(sent)[k + 1] = [ anchor_master_rank |-> sent.anchor_master_rank,
                                       hop_count |-> sent.hop_count, ambtt |-> sent.ambtt ]
    BY <1>6, <2>1, <2>2, <2>3, <2>4, BeaconStep
  <2>6. /\ k < ToldSize(sent) /\ Reached(sent, i + 1, k + 1)
        /\ c = MasterContents(sent)
        /\ Told(sent)[k + 1] = [ master_preference |-> sent.master_preference,
                                 random_factor |-> sent.random_factor ]
    BY <1>1, <2>5 DEF MASTER_INDICATION_ATTRIBUTE, CLUSTER_ATTRIBUTE
  <2>7. attribute_buf = buf_new_const(MasterContents(sent), 2)
    BY <2>1, <2>6, MasterAttribute DEF Size
  <2>8. sent.master_preference \in Nat /\ sent.random_factor \in Nat
    BY <1>4, BeaconNumbers
  <2>9. /\ read(attribute_buf, 2).error = FALSE
        /\ value_at(attribute_buf, 0, 1, g) = sent.master_preference
        /\ value_at(attribute_buf, 1, 1, g) = sent.random_factor
    BY <2>7, <2>8, MasterRead
  <2>10. stage' = "next" /\ parsed' = Append(parsed, Told(sent)[k + 1])
    BY <1>1, <1>2, <2>6, <2>9 DEF Handled
  <2>11. First(parsed', sent, k + 1)
    BY <1>4, <2>2, <2>6, <2>10, OneMore
  <2>12. frame.current = StartOf(sent, i + 1) /\ k + 1 \in Nat
    BY <1>6 DEF InAttribute
  <2> QED
    BY <1>3, <1>4, <1>6, <2>6, <2>10, <2>11, <2>12, NextFollows
<1> QED
  BY <1>4, <1>5, <1>6 DEF AtHandle

\* So is a cluster attribute.
LEMMA ClusterParsing ==
    ASSUME TypeOK, Parsing, ParseCluster
    PROVE  Parsing'
<1>1. /\ stage = "handle" /\ in_beacon /\ attribute_id = CLUSTER_ATTRIBUTE
      /\ attribute_buf' = read(attribute_buf, 13)
  BY DEF ParseCluster
<1>2. PICK g \in Garbage :
          Handled(attribute_buf',
                  [ anchor_master_rank |-> value_at(attribute_buf, 0, 8, g),
                    hop_count |-> value_at(attribute_buf, 8, 1, g),
                    ambtt |-> value_at(attribute_buf, 9, 4, g) ])
  BY DEF ParseCluster
<1>3. UNCHANGED <<frame, in_beacon>> /\ Keep
  BY <1>2 DEF Handled
<1>4. /\ AtHandle /\ InLoop /\ sent \in Messages /\ sent.kind = "beacon"
      /\ InBounds(attribute_buf) /\ attribute_length \in Nat
      /\ attribute_buf.end = attribute_length /\ attribute_buf.current = 0 /\ SomeTold
  BY <1>1, HandleFacts
<1>5. CASE Beyond /\ attribute_length < IF in_beacon THEN 2 ELSE 9
  <2>1. 13 > attribute_buf.end - attribute_buf.current
    BY <1>1, <1>4, <1>5
  <2>2. attribute_buf'.error = TRUE
    BY <1>1, <1>4, <2>1, ReadCases
  <2>3. stage' = "done" /\ result' # RX_OK /\ parsed' = parsed
    BY <1>2, <2>2 DEF Handled, Done, RX_TOO_SHORT, RX_OK
  <2> QED
    BY <1>3, <1>4, <1>5, <2>3, Refused DEF Beyond
<1>6. ASSUME Laid(sent), NEW i \in 1 .. Len(AttributesOf(sent)), InAttribute(i)
      PROVE  Parsing'
  <2>1. PICK c : /\ IsSeq(c) /\ Slot(sent, i, attribute_id, c)
                 /\ attribute_buf = buf_new_const(c, Len(c))
    BY <1>6 DEF InAttribute
  <2>2. PICK k \in Nat : Reached(sent, i, k) /\ First(parsed, sent, k)
    BY <1>6 DEF InAttribute
  <2>3. i \in Nat
    BY <1>6
  <2>4. sent.kind = "beacon"
    BY <1>4
  <2>5. /\ k < ToldSize(sent) /\ Reached(sent, i + 1, k + 1)
        /\ \/ /\ attribute_id = MASTER_INDICATION_ATTRIBUTE /\ c = MasterContents(sent)
              /\ Told(sent)[k + 1] = [ master_preference |-> sent.master_preference,
                                       random_factor |-> sent.random_factor ]
           \/ /\ attribute_id = CLUSTER_ATTRIBUTE /\ c = ClusterContents(sent)
              /\ Told(sent)[k + 1] = [ anchor_master_rank |-> sent.anchor_master_rank,
                                       hop_count |-> sent.hop_count, ambtt |-> sent.ambtt ]
    BY <1>6, <2>1, <2>2, <2>3, <2>4, BeaconStep
  <2>6. /\ k < ToldSize(sent) /\ Reached(sent, i + 1, k + 1)
        /\ c = ClusterContents(sent)
        /\ Told(sent)[k + 1] = [ anchor_master_rank |-> sent.anchor_master_rank,
                                 hop_count |-> sent.hop_count, ambtt |-> sent.ambtt ]
    BY <1>1, <2>5 DEF MASTER_INDICATION_ATTRIBUTE, CLUSTER_ATTRIBUTE
  <2>7. attribute_buf = buf_new_const(ClusterContents(sent), 13)
    BY <2>1, <2>6, ClusterAttribute DEF Size
  <2>8. sent.anchor_master_rank \in Nat /\ sent.hop_count \in Nat /\ sent.ambtt \in Nat
    BY <1>4, BeaconNumbers
  <2>9. /\ read(attribute_buf, 13).error = FALSE
        /\ value_at(attribute_buf, 0, 8, g) = sent.anchor_master_rank
        /\ value_at(attribute_buf, 8, 1, g) = sent.hop_count
        /\ value_at(attribute_buf, 9, 4, g) = sent.ambtt
    BY <2>7, <2>8, ClusterRead
  <2>10. stage' = "next" /\ parsed' = Append(parsed, Told(sent)[k + 1])
    BY <1>1, <1>2, <2>6, <2>9 DEF Handled
  <2>11. First(parsed', sent, k + 1)
    BY <1>4, <2>2, <2>6, <2>10, OneMore
  <2>12. frame.current = StartOf(sent, i + 1) /\ k + 1 \in Nat
    BY <1>6 DEF InAttribute
  <2> QED
    BY <1>3, <1>4, <1>6, <2>6, <2>10, <2>11, <2>12, NextFollows
<1> QED
  BY <1>4, <1>5, <1>6 DEF AtHandle

\* And a descriptor.
LEMMA SdaParsing ==
    ASSUME TypeOK, Parsing, ParseSda
    PROVE  Parsing'
<1>1. stage = "handle" /\ ~in_beacon /\ attribute_id = SERVICE_DESCRIPTOR_ATTRIBUTE
  BY DEF ParseSda
<1>2. PICK g \in Garbage :
          /\ attribute_buf' = nan_parse_sda(attribute_buf, g)
          /\ Handled(attribute_buf', Descriptor(attribute_buf, g))
  BY DEF ParseSda
<1>3. UNCHANGED <<frame, in_beacon>> /\ Keep
  BY <1>2 DEF Handled
<1>4. /\ AtHandle /\ InLoop /\ sent \in Messages /\ sent.kind # "beacon"
      /\ InBounds(attribute_buf) /\ attribute_length \in Nat
      /\ attribute_buf.end = attribute_length /\ attribute_buf.current = 0 /\ SomeTold
  BY <1>1, HandleFacts
<1>5. CASE Beyond /\ attribute_length < IF in_beacon THEN 2 ELSE 9
  <2>1. attribute_buf.end - attribute_buf.current < 9
    BY <1>1, <1>4, <1>5
  <2>2. attribute_buf'.error = TRUE
    BY <1>2, <1>4, <2>1, SdaTooShort
  <2>3. stage' = "done" /\ result' # RX_OK /\ parsed' = parsed
    BY <1>2, <2>2 DEF Handled, Done, RX_TOO_SHORT, RX_OK
  <2> QED
    BY <1>3, <1>4, <1>5, <2>3, Refused DEF Beyond
<1>6. ASSUME Laid(sent), NEW i \in 1 .. Len(AttributesOf(sent)), InAttribute(i)
      PROVE  Parsing'
  <2>1. PICK c : /\ IsSeq(c) /\ Slot(sent, i, attribute_id, c)
                 /\ attribute_buf = buf_new_const(c, Len(c))
    BY <1>6 DEF InAttribute
  <2>2. PICK k \in Nat : Reached(sent, i, k) /\ First(parsed, sent, k)
    BY <1>6 DEF InAttribute
  <2>3. /\ \E s : /\ ServiceIn(sent, s) /\ c = SdaContents(s)
                  /\ Told(sent)[k + 1] = DescriptorValue(s)
        /\ k < ToldSize(sent) /\ Reached(sent, i + 1, k + 1)
    <3>1. i \in Nat
      BY <1>6
    <3> QED
      BY <1>1, <1>4, <1>6, <2>1, <2>2, <3>1, ServiceStep
         DEF SERVICE_DESCRIPTOR_ATTRIBUTE, SERVICE_DESCRIPTOR_EXTENSION_ATTRIBUTE
  <2>4. PICK s : /\ ServiceIn(sent, s) /\ c = SdaContents(s)
                 /\ Told(sent)[k + 1] = DescriptorValue(s)
    BY <2>3
  <2>5. /\ nan_parse_sda(attribute_buf, g).error = FALSE
        /\ Descriptor(attribute_buf, g) = Told(sent)[k + 1]
    <3> DEFINE n == Len(c)
    <3>1. IsService(s) /\ n \in Nat /\ Size(SdaContents(s), n)
      BY <2>1, <2>4, SeqFacts DEF ServiceIn, Size
    <3>2. attribute_buf = buf_new_const(SdaContents(s), n)
      BY <2>1, <2>4
    <3> HIDE DEF n
    <3>3. /\ nan_parse_sda(attribute_buf, g) = Standing(SdaContents(s), n, n)
          /\ Descriptor(attribute_buf, g) = DescriptorValue(s)
      BY <3>1, <3>2, SdaRead
    <3> QED
      BY <2>4, <3>3 DEF Standing
  <2>7. stage' = "next" /\ parsed' = Append(parsed, Told(sent)[k + 1])
    BY <1>2, <2>5 DEF Handled
  <2>8. First(parsed', sent, k + 1)
    BY <1>4, <2>2, <2>3, <2>7, OneMore
  <2>9. frame.current = StartOf(sent, i + 1) /\ k + 1 \in Nat
    BY <1>6 DEF InAttribute
  <2> QED
    BY <1>3, <1>4, <1>6, <2>3, <2>7, <2>8, <2>9, NextFollows
<1> QED
  BY <1>4, <1>5, <1>6 DEF AtHandle

\* An extension tells nothing, and is no error if its count is right.
LEMMA SdeaParsing ==
    ASSUME TypeOK, Parsing, ParseSdea
    PROVE  Parsing'
<1>1. stage = "handle" /\ ~in_beacon /\ attribute_id = SERVICE_DESCRIPTOR_EXTENSION_ATTRIBUTE
  BY DEF ParseSdea
<1>2. PICK g \in Garbage :
          attribute_buf' = nan_parse_sdea(attribute_buf, attribute_length, g)
  BY DEF ParseSdea
<1>3. UNCHANGED <<frame, in_beacon, parsed>> /\ Keep
  BY DEF ParseSdea
<1>4. /\ AtHandle /\ InLoop /\ sent \in Messages /\ sent.kind # "beacon"
      /\ attribute_length \in Nat /\ attribute_buf.size = attribute_length /\ SomeTold
  BY <1>1, HandleFacts
<1>5. \/ attribute_buf'.error /\ stage' = "done" /\ result' # RX_OK
      \/ ~attribute_buf'.error /\ stage' = "next"
  BY DEF ParseSdea, Done, RX_TOO_SHORT, RX_OK
<1>6. CASE Beyond
  <2>1. ~Whole
    BY <1>6 DEF Beyond
  <2> QED
    BY <1>3, <1>4, <1>5, <1>6, <2>1, Refused, StillBeyond
<1>7. ASSUME Laid(sent), NEW i \in 1 .. Len(AttributesOf(sent)), InAttribute(i)
      PROVE  Parsing'
  <2>1. PICK c : /\ IsSeq(c) /\ Slot(sent, i, attribute_id, c)
                 /\ attribute_buf = buf_new_const(c, Len(c))
    BY <1>7 DEF InAttribute
  <2>2. PICK k \in Nat : Reached(sent, i, k) /\ First(parsed, sent, k)
    BY <1>7 DEF InAttribute
  <2>3. /\ \E s : ServiceIn(sent, s) /\ c = SdeaContents(s)
        /\ Reached(sent, i + 1, k)
    <3>1. i \in Nat
      BY <1>7
    <3> QED
      BY <1>1, <1>4, <1>7, <2>1, <2>2, <3>1, ServiceStep
         DEF SERVICE_DESCRIPTOR_ATTRIBUTE, SERVICE_DESCRIPTOR_EXTENSION_ATTRIBUTE
  <2>4. PICK s : ServiceIn(sent, s) /\ c = SdeaContents(s)
    BY <2>3
  <2>5. attribute_length = Len(c)
    BY <1>4, <2>1 DEF buf_new_const
  <2>6. Whole => ~attribute_buf'.error
    <3>1. SUFFICES ASSUME Whole PROVE attribute_buf'.error = FALSE
      OBVIOUS
    <3>2. s.miscounted < 0
      BY <1>4, <2>4, <3>1 DEF Whole, ServiceIn
    <3> DEFINE n == Len(c)
    <3>3. IsService(s) /\ n \in Nat /\ Size(SdeaContents(s), n)
      BY <2>1, <2>4, SeqFacts DEF ServiceIn, Size
    <3>4. attribute_buf' = nan_parse_sdea(buf_new_const(SdeaContents(s), n), n, g)
      BY <1>2, <2>1, <2>4, <2>5
    <3> HIDE DEF n
    <3>5. attribute_buf' = Standing(SdeaContents(s), n, n)
      BY <3>2, <3>3, <3>4, SdeaRead
    <3> QED
      BY <3>5 DEF Standing
  <2>7. CASE stage' = "next"
    <3>1. frame.current = StartOf(sent, i + 1) /\ First(parsed', sent, k)
      BY <1>3, <1>7, <2>2 DEF InAttribute
    <3> QED
      BY <1>3, <1>4, <1>7, <2>3, <2>7, <3>1, NextFollows
  <2>8. CASE attribute_buf'.error /\ stage' = "done" /\ result' # RX_OK
    BY <1>3, <1>4, <2>6, <2>8, Refused
  <2> QED
    BY <1>5, <2>7, <2>8
<1> QED
  BY <1>4, <1>6, <1>7 DEF AtHandle

\* The attributes that are ignored tell nothing.
LEMMA IgnoreParsing ==
    ASSUME TypeOK, Parsing, IgnoreAttribute
    PROVE  Parsing'
<1>1. /\ stage = "handle" /\ stage' = "next" /\ attribute_id \notin HandledIds
      /\ UNCHANGED <<frame, in_beacon, parsed>> /\ Keep
  BY DEF IgnoreAttribute, KeepAttribute
<1>2. /\ AtHandle /\ InLoop /\ sent \in Messages
      /\ (in_beacon <=> sent.kind = "beacon")
  BY <1>1, HandleFacts
<1>3. CASE Beyond
  BY <1>1, <1>2, <1>3, StillBeyond
<1>4. ASSUME Laid(sent), NEW i \in 1 .. Len(AttributesOf(sent)), InAttribute(i)
      PROVE  Parsing'
  <2>1. PICK c : IsSeq(c) /\ Slot(sent, i, attribute_id, c)
    BY <1>4 DEF InAttribute
  <2>2. PICK k \in Nat : Reached(sent, i, k) /\ First(parsed, sent, k)
    BY <1>4 DEF InAttribute
  <2>3. CASE sent.kind = "beacon"
    <3>1. attribute_id \in {MASTER_INDICATION_ATTRIBUTE, CLUSTER_ATTRIBUTE}
      <4>1. i \in Nat
        BY <1>4
      <4>2. \/ /\ attribute_id = MASTER_INDICATION_ATTRIBUTE /\ c = MasterContents(sent)
               /\ Told(sent)[k + 1] = [ master_preference |-> sent.master_preference,
                                        random_factor |-> sent.random_factor ]
            \/ /\ attribute_id = CLUSTER_ATTRIBUTE /\ c = ClusterContents(sent)
               /\ Told(sent)[k + 1] = [ anchor_master_rank |-> sent.anchor_master_rank,
                                        hop_count |-> sent.hop_count, ambtt |-> sent.ambtt ]
        BY <1>4, <2>1, <2>2, <2>3, <4>1, BeaconStep
      <4> QED
        BY <4>2
    <3> QED
      BY <1>1, <1>2, <2>3, <3>1 DEF HandledIds
  <2>4. CASE sent.kind # "beacon"
    <3>1. attribute_id \notin {SERVICE_DESCRIPTOR_ATTRIBUTE, SERVICE_DESCRIPTOR_EXTENSION_ATTRIBUTE}
      BY <1>1, <1>2, <2>4 DEF HandledIds
    <3>2. Reached(sent, i + 1, k)
      <4>1. i \in Nat
        BY <1>4
      <4> QED
        BY <1>4, <2>1, <2>2, <2>4, <3>1, <4>1, ServiceStep
    <3>3. frame.current = StartOf(sent, i + 1) /\ First(parsed', sent, k)
      BY <1>1, <1>4, <2>2 DEF InAttribute
    <3> QED
      BY <1>1, <1>2, <1>4, <3>2, <3>3, NextFollows
  <2> QED
    BY <2>3, <2>4
<1> QED
  BY <1>2, <1>3, <1>4 DEF AtHandle

\* No step changes it.
LEMMA StutterParsing ==
    ASSUME Parsing, UNCHANGED vars
    PROVE  Parsing'
BY DEF vars, Parsing, AtIdle, AtRadiotap, AtFcs, AtHeader, AtBody, AtNext, AtHandle, AtDone,
       InLoop, Reading, Got, Whole, Beyond, SomeTold, AtAttribute, InAttribute, CutBetween

\* Every step keeps what is known: one lemma per action.
LEMMA NextParsing == TypeOK /\ Parsing /\ [Next]_vars => Parsing'
<1> SUFFICES ASSUME TypeOK, Parsing, [Next]_vars
             PROVE  Parsing'
  OBVIOUS
<1> QED
  BY ReceiveParsing, FreeParsing, RadiotapParsing, FcsParsing, HeaderParsing, BeaconParsing,
     ActionParsing, AttributeParsing, MasterParsing, ClusterParsing, SdaParsing, SdeaParsing,
     IgnoreParsing, StutterParsing DEF Next

\* What is known holds of every reachable state.
LEMMA ParsingHolds == Spec => [](TypeOK /\ Parsing)
<1>1. Init => TypeOK /\ Parsing
  BY InitType, InitParsing
<1>2. TypeOK /\ Parsing /\ [Next]_vars => TypeOK' /\ Parsing'
  BY NextType, NextParsing
<1> QED
  BY <1>1, <1>2, PTL DEF Spec

\* What has been handed on is always the first of what the message tells.
LEMMA ParsingTold ==
    ASSUME TypeOK, Parsing
    PROVE  SomeTold /\ sent \in Messages
<1>1. stage \in Stage /\ sent \in Messages
  BY DEF TypeOK, Parsing
<1>2. CASE stage \in {"idle", "radiotap", "fcs", "nan_rx"}
  <2>1. parsed = <<>>
    BY <1>2 DEF Parsing, AtIdle, AtRadiotap, AtFcs, AtHeader
  <2> QED
    BY <1>1, <2>1, FirstNone DEF SomeTold
<1>3. CASE stage \in {"nan_rx_beacon", "nan_rx_action"}
  <2>1. First(parsed, sent, 1) /\ 1 \in Nat
    BY <1>3 DEF Parsing, AtBody
  <2> QED
    BY <1>1, <2>1 DEF SomeTold
<1>4. CASE stage = "next"
  <2>1. AtNext
    BY <1>4 DEF Parsing
  <2> QED
    BY <1>1, <2>1 DEF AtNext, Beyond, AtAttribute, SomeTold
<1>5. CASE stage = "handle"
  BY <1>1, <1>5, HandleFacts
<1>6. CASE stage = "done"
  BY <1>1, <1>6 DEF Parsing, AtDone
<1> QED
  BY <1>1, <1>2, <1>3, <1>4, <1>5, <1>6 DEF Stage

(***************************************************************************)
(* Whatever a parser hands on was sent, in the order it was sent, also of  *)
(* a frame that is cut, mislabelled or refused later (src/src/rx.c).       *)
(***************************************************************************)
THEOREM ValuesHandedOnAsSent == Spec => []HandedOnAsSent
<1>1. TypeOK /\ Parsing => HandedOnAsSent
  BY ParsingTold, FirstIsPrefix DEF SomeTold, HandedOnAsSent
<1> QED
  BY <1>1, ParsingHolds, PTL

(***************************************************************************)
(* A frame that arrives whole is read to its last attribute, and tells all *)
(* its message does: what src/src/tx.c builds is what src/src/rx.c reads.  *)
(***************************************************************************)
THEOREM WholeFramesReadToTheEnd == Spec => []WholeFramesAreRead
<1>1. TypeOK /\ Parsing => WholeFramesAreRead
  BY DEF Parsing, AtDone, WholeFramesAreRead
<1> QED
  BY <1>1, ParsingHolds, PTL

(***************************************************************************)
(* A frame that is cut within an attribute's contents is never accepted    *)
(* (NAN_ITERATE_ATTRIBUTES).                                               *)
(***************************************************************************)
THEOREM CutContentsRefused == Spec => []NoneCutWithinContents
<1>1. TypeOK /\ Parsing => NoneCutWithinContents
  BY DEF Parsing, AtDone, CutBetween, NoneCutWithinContents
<1> QED
  BY <1>1, ParsingHolds, PTL
===============================================================================
