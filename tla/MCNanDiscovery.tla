--------------------------- MODULE MCNanDiscovery ---------------------------
(***************************************************************************)
(* Names for TLC: one that another starts with, and one that differs from  *)
(* it in case only, which shares its hash.                                 *)
(***************************************************************************)
EXTENDS NanDiscovery

MCIdOf == [ x \in Name |-> IF x = "Print" THEN "print" ELSE x ]
MCStartsWith ==
    { <<x, y>> \in Name \X Name : x = y \/ (x = "printer" /\ y = "print") }

\* What the daemon's commands use
MCOffer == { <<"BOTH", -1>> }
MCWant == { <<"PASSIVE", -1>> }

\* What the interface offers besides
MCOffers == { <<"BOTH", 1>>, <<"SOLICITED", -1>> }
MCWants == { <<"PASSIVE", -1>>, <<"ACTIVE", 1>> }
\* An active subscriber announces itself for ever.
MCEitherWant == { <<"PASSIVE", -1>>, <<"ACTIVE", -1>> }

MCSymmetry == Permutations(Device)
=============================================================================
