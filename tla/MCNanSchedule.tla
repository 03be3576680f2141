---------------------------- MODULE MCNanSchedule ----------------------------
(***************************************************************************)
(* Windows of two (with the last one, three) in every six time units of    *)
(* two microseconds.  A timestamp may be off by 5, or by so much that as an *)
(* int it seems to be off by 3.                                            *)
(***************************************************************************)
EXTENDS NanSchedule

MCOffsets == {-5, IntRange + 3}

\* At the bound on the clock the loop rests: nowhere else may it get stuck.
Rest == now = MaxTime /\ UNCHANGED vars

MCNext == Next \/ Rest

MCSpec == Init /\ [][MCNext]_vars
=============================================================================
