--------------------------- MODULE MCNanConvergence ---------------------------
EXTENDS NanConvergence
MCDevice == {1, 2}
MCStart == [ n \in Device |-> 9 + n ]
MCInitialCluster == [ n \in Device |-> IF n = 1 THEN "c1" ELSE "c2" ]
=============================================================================
