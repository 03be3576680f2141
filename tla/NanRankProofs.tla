---------------------------- MODULE NanRankProofs ----------------------------
(***************************************************************************)
(* Master ranks are totally ordered, and the order is that of the 64-bit   *)
(* integers the program compares.                                          *)
(***************************************************************************)
EXTENDS NanRank, TLAPS

(***************************************************************************)
(* The fields of a rank are numbers, the two bytes below ByteMod.          *)
(***************************************************************************)
LEMMA RankFields ==
    ASSUME NEW r \in Rank
    PROVE  /\ r.mp \in Nat /\ r.mp < ByteMod
           /\ r.rf \in Nat /\ r.rf < ByteMod
           /\ r.addr \in Nat
<1>1. Addr \cup {0} \subseteq Nat
  BY AddrAssumption
<1>2. r.mp \in Byte /\ r.rf \in Byte /\ r.addr \in Addr \cup {0}
  BY DEF Rank
<1> QED
  BY <1>1, <1>2, ByteModAssumption DEF Byte

(***************************************************************************)
(* No rank is below itself: a device may be its own anchor master.         *)
(***************************************************************************)
LEMMA RankLessIrreflexive ==
    ASSUME NEW r \in Rank
    PROVE  ~RankLess(r, r)
BY RankFields DEF RankLess

(***************************************************************************)
(* RankLess is transitive.                                                 *)
(***************************************************************************)
LEMMA RankLessTransitive ==
    ASSUME NEW r1 \in Rank, NEW r2 \in Rank, NEW r3 \in Rank,
           RankLess(r1, r2), RankLess(r2, r3)
    PROVE  RankLess(r1, r3)
BY RankFields DEF RankLess

(***************************************************************************)
(* Two different ranks are ordered one way or the other.                   *)
(***************************************************************************)
LEMMA RankLessTotal ==
    ASSUME NEW r1 \in Rank, NEW r2 \in Rank
    PROVE  RankLess(r1, r2) \/ r1 = r2 \/ RankLess(r2, r1)
<1>1. /\ r1 = [mp |-> r1.mp, rf |-> r1.rf, addr |-> r1.addr]
      /\ r2 = [mp |-> r2.mp, rf |-> r2.rf, addr |-> r2.addr]
  BY DEF Rank
<1> QED
  BY <1>1, RankFields DEF RankLess

(***************************************************************************)
(* RankLeq is a preorder that contains RankLess.                           *)
(***************************************************************************)
LEMMA RankLeqReflexive ==
    ASSUME NEW r \in Rank
    PROVE  RankLeq(r, r)
BY RankLessIrreflexive DEF RankLeq

\* A rank below another is at most as high.
LEMMA RankLessImpliesLeq ==
    ASSUME NEW r1 \in Rank, NEW r2 \in Rank, RankLess(r1, r2)
    PROVE  RankLeq(r1, r2)
BY RankLessIrreflexive, RankLessTransitive DEF RankLeq

\* RankLeq is transitive.
LEMMA RankLeqTransitive ==
    ASSUME NEW r1 \in Rank, NEW r2 \in Rank, NEW r3 \in Rank,
           RankLeq(r1, r2), RankLeq(r2, r3)
    PROVE  RankLeq(r1, r3)
BY RankLessTransitive, RankLessTotal DEF RankLeq

\* The higher of two leading digits decides, whatever the digits below it.
LEMMA DigitOrder ==
    ASSUME NEW base \in Nat, NEW h1 \in Nat, NEW h2 \in Nat,
           NEW l1 \in 0 .. base - 1, NEW l2 \in 0 .. base - 1, h1 < h2
    PROVE  h1 * base + l1 < h2 * base + l2
<1>1. (h1 + 1) * base <= h2 * base
  <2>1. PICK k \in Nat : h2 = h1 + 1 + k
    <3>1. h2 - h1 - 1 \in Nat /\ h2 = h1 + 1 + (h2 - h1 - 1)
      OBVIOUS
    <3> QED
      BY <3>1
  <2>2. h2 * base = (h1 + 1) * base + k * base
    BY <2>1
  <2>3. k * base \in Nat
    OBVIOUS
  <2> QED
    BY <2>2, <2>3
<1>2. (h1 + 1) * base = h1 * base + base
  OBVIOUS
<1>3. h1 * base \in Nat /\ h2 * base \in Nat
  OBVIOUS
<1> QED
  BY <1>1, <1>2, <1>3

(***************************************************************************)
(* Comparing ranks field by field, preference first and address last, is   *)
(* comparing the 64-bit integers that the union of sync.c lays over them:  *)
(* the fields do not run into each other.                                  *)
(***************************************************************************)
THEOREM RankOrderIsIntegerOrder ==
    ASSUME NEW addrMod \in Nat, NEW r1 \in Rank, NEW r2 \in Rank,
           r1.addr < addrMod, r2.addr < addrMod
    PROVE  RankLess(r1, r2) <=> RankValue(r1, addrMod) < RankValue(r2, addrMod)
<1> DEFINE hi(r) == r.mp * ByteMod + r.rf
<1>1. /\ r1.mp \in Nat /\ r1.rf \in 0 .. ByteMod - 1 /\ r1.addr \in 0 .. addrMod - 1
      /\ r2.mp \in Nat /\ r2.rf \in 0 .. ByteMod - 1 /\ r2.addr \in 0 .. addrMod - 1
      /\ ByteMod \in Nat
  BY RankFields, ByteModAssumption
<1>2. hi(r1) \in Nat /\ hi(r2) \in Nat
  <2>1. r1.mp * ByteMod \in Nat /\ r2.mp * ByteMod \in Nat
    BY <1>1
  <2> QED
    BY <1>1, <2>1
<1>3. \A a, b \in {r1, r2} : RankLess(a, b) => RankValue(a, addrMod) < RankValue(b, addrMod)
  <2> SUFFICES ASSUME NEW a \in {r1, r2}, NEW b \in {r1, r2}, RankLess(a, b)
               PROVE  hi(a) * addrMod + a.addr < hi(b) * addrMod + b.addr
    BY DEF RankValue
  <2>1. CASE a.mp < b.mp
    <3>1. hi(a) < hi(b)
      BY <1>1, <2>1, DigitOrder
    <3> HIDE DEF hi
    <3> QED
      BY <1>1, <1>2, <3>1, DigitOrder
  <2>2. CASE a.mp = b.mp /\ a.rf < b.rf
    <3>1. a.mp * ByteMod \in Nat
      BY <1>1
    <3>2. hi(a) < hi(b)
      BY <1>1, <2>2, <3>1
    <3> HIDE DEF hi
    <3> QED
      BY <1>1, <1>2, <3>2, DigitOrder
  <2>3. CASE a.mp = b.mp /\ a.rf = b.rf /\ a.addr < b.addr
    <3>1. hi(a) = hi(b)
      BY <2>3
    <3>2. hi(a) * addrMod \in Nat
      <4> HIDE DEF hi
      <4> QED
        BY <1>2
    <3> HIDE DEF hi
    <3> QED
      BY <1>1, <2>3, <3>1, <3>2
  <2> QED
    BY <2>1, <2>2, <2>3 DEF RankLess
<1>4. RankValue(r1, addrMod) \in Nat /\ RankValue(r2, addrMod) \in Nat
  <2>1. hi(r1) * addrMod \in Nat /\ hi(r2) * addrMod \in Nat
    <3> HIDE DEF hi
    <3> QED
      BY <1>2
  <2> QED
    BY <1>1, <2>1 DEF RankValue
<1> HIDE DEF hi
<1> QED
  BY <1>3, <1>4, RankLessTotal
=============================================================================
