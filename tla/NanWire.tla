-------------------------------- MODULE NanWire -------------------------------
(***************************************************************************)
(* The buffers frames are written to and read from (src/src/wire.c).       *)
(*                                                                         *)
(* Data is a sequence of bytes, and a byte says of which written value it  *)
(* is part: <<value, i, width>> is the i-th of the width bytes of value.   *)
(* A read that meets exactly the bytes of one value yields it; one that    *)
(* meets others, or a value that is no number, yields some number, which   *)
(* is up to the caller (garbage).  A reader that does not fit sets the     *)
(* buffer's error, for good, and leaves the caller's variable as it was;   *)
(* later reads go on from the same position and may fit.                   *)
(***************************************************************************)
EXTENDS Integers, Sequences

\* The bytes of a value, in the order of the wire.
Field(value, width) == [ i \in 1 .. width |-> <<value, i, width>> ]

\* struct buf, for reading: data and its size, the position and the end of
\* what may be read.
buf_new_const(data, size) ==
    [ data |-> data, size |-> size, current |-> 0, end |-> size, error |-> FALSE ]

InBounds(buf) ==
    /\ buf = [ data |-> buf.data, size |-> buf.size, current |-> buf.current,
               end |-> buf.end, error |-> buf.error ]
    /\ buf.size \in Nat /\ buf.current \in Nat /\ buf.end \in Nat
    /\ buf.current <= buf.end
    /\ buf.end <= buf.size
    /\ buf.error \in BOOLEAN

buf_position(buf) == buf.current

buf_rest(buf) == buf.end - buf_position(buf)

Fails(buf) == [ buf EXCEPT !.error = TRUE ]

\* Mutant: one byte too many is let through.
AdvanceOneMore(buf, length) ==
    IF length > buf_rest(buf) + 1
    THEN Fails(buf)
    ELSE [ buf EXCEPT !.current = @ + length ]

buf_advance(buf, length) ==
    IF length > buf_rest(buf)
    THEN Fails(buf)
    ELSE [ buf EXCEPT !.current = @ + length ]

buf_take(buf, length) ==
    IF buf_rest(buf) < length
    THEN Fails(buf)
    ELSE [ buf EXCEPT !.end = @ - length ]

\* read_u8, read_le16, ..., read_bytes and read_bytes_copy: the position.  (Of
\* reads in a row of which none is looked at before all are made, the sum.)
read(buf, width) == buf_advance(buf, width)

\* ... and the number, offset bytes ahead: whole if its bytes are there.
HasNumber(buf, offset, width) ==
    LET at == buf.current + offset IN
    /\ offset + width <= buf_rest(buf)
    /\ \A i \in 1 .. width : buf.data[at + i] = <<buf.data[at + 1][1], i, width>>
    /\ buf.data[at + 1][1] \in Nat

value_at(buf, offset, width, garbage) ==
    IF HasNumber(buf, offset, width) THEN buf.data[buf.current + offset + 1][1] ELSE garbage

\* The bytes themselves.
bytes_at(buf, offset, length) ==
    SubSeq(buf.data, buf.current + offset + 1, buf.current + offset + length)
=============================================================================
