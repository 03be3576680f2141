------------------------------- MODULE NanRank -------------------------------
(***************************************************************************)
(* Master ranks (src/src/sync.c).  The program packs master preference,    *)
(* random factor and interface address into one 64-bit integer, preference *)
(* in the most significant byte, and compares ranks as integers.  A rank   *)
(* is a record here and the order is lexicographic; NanRankProofs shows    *)
(* that the two orders are the same.                                       *)
(***************************************************************************)
EXTENDS Integers

CONSTANTS
    ByteMod,    \* values of a uint8_t: 256 in the program
    Addr        \* interface addresses, as the integers their 48 bits encode

ASSUME ByteModAssumption == ByteMod \in Nat /\ ByteMod > 3
ASSUME AddrAssumption == Addr \subseteq Nat \ {0}

Byte == 0 .. ByteMod - 1

\* A rank read from a fresh peer entry, or from the air, may have address 0,
\* which no device has.
Rank == [mp : Byte, rf : Byte, addr : Addr \cup {0}]

ZeroRank == [mp |-> 0, rf |-> 0, addr |-> 0]

nan_calculate_master_rank(master_preference, random_factor, address) ==
    [mp |-> master_preference, rf |-> random_factor, addr |-> address]

\* rank1 < rank2 as uint64_t
RankLess(rank1, rank2) ==
    \/ rank1.mp < rank2.mp
    \/ rank1.mp = rank2.mp /\ rank1.rf < rank2.rf
    \/ rank1.mp = rank2.mp /\ rank1.rf = rank2.rf /\ rank1.addr < rank2.addr

RankLeq(rank1, rank2) == ~RankLess(rank2, rank1)

nan_is_master_rank_issuer(address, rank) == rank.addr = address

nan_is_same_master_rank_issuer(rank1, rank2) ==
    nan_is_master_rank_issuer(rank1.addr, rank2)

(***************************************************************************)
(* The integer the union nan_master_rank stores, for addresses below       *)
(* addrMod (2^48 in the program).                                          *)
(***************************************************************************)
RankValue(rank, addrMod) ==
    (rank.mp * ByteMod + rank.rf) * addrMod + rank.addr
=============================================================================
