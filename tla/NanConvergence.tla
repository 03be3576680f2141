---------------------------- MODULE NanConvergence ----------------------------
(***************************************************************************)
(* How soon the devices of NanNetwork agree on cluster, time and anchor    *)
(* master.  A history variable counts the discovery window intervals       *)
(* completed since the last disturbance: a lost frame, a restart, or a     *)
(* change of some device's rank.                                           *)
(***************************************************************************)
EXTENDS NanNetwork

VARIABLE calm

cvars == <<vars, calm>>

CInit == Init /\ calm = 0

Disturbed ==
    \/ \E n \in Device : Lose(n) \/ Restart(n)
    \/ \E n \in Device : dev'[n].sync.master_rank # dev[n].sync.master_rank

Count ==
    calm' = CASE Disturbed -> 0
              [] ~Disturbed /\ now' # now -> calm + 1
              [] OTHER -> calm

CNext == Next /\ Count

(***************************************************************************)
(* The timers of the event loop fire, and captured frames are handled.     *)
(* Nothing makes a discovery beacon due, frames get lost or a user type.   *)
(***************************************************************************)
Fairness ==
    /\ WF_cvars(NextInterval /\ Count)
    /\ \A n \in Device :
          /\ WF_cvars(OpenWindow(n) /\ Count)
          /\ WF_cvars(Receive(n) /\ Count)
          /\ WF_cvars(CloseWindow(n) /\ Count)

CSpec == CInit /\ [][CNext]_cvars /\ Fairness

----------------------------------------------------------------------------
(* Properties. *)

Best(n) ==
    \A m \in Device : RankLeq(dev[m].sync.master_rank, dev[n].sync.master_rank)

Agreed ==
    \A n, m \in Device :
        /\ dev[n].cluster_id = dev[m].cluster_id
        /\ dev[n].base_time = dev[m].base_time
        /\ Best(m) => dev[n].sync.anchor_master_rank = dev[m].sync.master_rank

(***************************************************************************)
(* Three intervals without a disturbance are enough: one for the clusters  *)
(* to merge (nan_rx_beacon), one for the first sync beacon of a known peer *)
(* to be selected from, one for a device that expired its anchor.          *)
(***************************************************************************)
AgreedAfterThreeIntervals == calm >= 3 => Agreed

(***************************************************************************)
(* Fair timers bring the devices to agree, and nothing the selection, the  *)
(* expiration or the peer cleaner does afterwards parts them again.        *)
(***************************************************************************)
AgreementIsReachedAndKept == <>[]Agreed
=============================================================================
