------------------------------ MODULE MCTimer ------------------------------
(***************************************************************************)
(* Model-checking instance of Timer with one history variable, and the     *)
(* refinement to the machine-cycle timer.                                  *)
(***************************************************************************)
EXTENDS Timer

NoHistory == -1

VARIABLE elapsed  \* cycles since a cycle made TIMA overflow, or NoHistory if
                  \* a register was written since (or it never did)

MCInit == Init /\ elapsed = NoHistory

Overflows == Step /\ reload' = ReloadDelay

MCNext ==
  /\ Next
  /\ elapsed' = IF Overflows THEN 0
                ELSE IF written' # {} \/ Reset THEN NoHistory
                ELSE IF Step /\ elapsed # NoHistory THEN elapsed + 1
                ELSE elapsed

MCSpec == MCInit /\ [][MCNext]_<<vars, elapsed>>

(***************************************************************************)
(* With no register write in between, two overflows of TIMA are exactly    *)
(* (TimaMax + 1 - TMA) full periods of the selected clock apart: the four  *)
(* cycles the reload waits are not added to the period, and the edges of   *)
(* the divider keep their phase across the reload.                         *)
(***************************************************************************)
ExactPeriod ==
  [][Overflows /\ elapsed # NoHistory
       => elapsed + 1 = (TimaMax + 1 - tma) * 2 * HalfPeriod(tac)]_<<vars, elapsed>>

Machine == INSTANCE MachineCycleTimer WITH
  cycle   <- divider \div 4,
  pending <- reload # 0

(***************************************************************************)
(* The cycle-by-cycle timer implements the timer that works in machine     *)
(* cycles: stepping the registers four times per machine cycle shows       *)
(* software nothing that one step per machine cycle would not.             *)
(***************************************************************************)
ImplementsMachineCycles == Machine!Spec

(***************************************************************************)
(* Edges and time agree: no edge is lost on the way to an overflow, and    *)
(* overflows are a period apart.                                           *)
(***************************************************************************)
EdgesCount == NoEdgeLost /\ ExactPeriod
=============================================================================
