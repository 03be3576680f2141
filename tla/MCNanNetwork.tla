----------------------------- MODULE MCNanNetwork -----------------------------
(***************************************************************************)
(* Two devices for TLC that started one tick apart in different clusters,  *)
(* on a lossy channel.  Both may change their rank, the first may restart.  *)
(***************************************************************************)
EXTENDS NanNetwork

MCDevice == {1, 2}
MCStart == [ n \in Device |-> 9 + n ]
MCInitialCluster == [ n \in Device |-> IF n = 1 THEN "c1" ELSE "c2" ]
=============================================================================
