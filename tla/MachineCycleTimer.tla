------------------------- MODULE MachineCycleTimer -------------------------
(***************************************************************************)
(* What the timer promises a program, in machine cycles of four clocks:    *)
(* a count that advances on the falling edges of a bit of the cycle count, *)
(* and an overflow that is pending for one machine cycle, in which a write *)
(* to TIMA cancels it and after which TIMA is reloaded and the interrupt   *)
(* requested.                                                              *)
(***************************************************************************)
EXTENDS Integers

CONSTANTS DividerSize, TimaMax

VARIABLES cycle, tima, tma, tac, pending, request

vars == <<cycle, tima, tma, tac, pending, request>>

\* Machine cycles for which the selected clock stays at one level.
HalfPeriod(t) == CASE t % 4 = 0 -> 128
                   [] t % 4 = 1 -> 2
                   [] t % 4 = 2 -> 8
                   [] t % 4 = 3 -> 32

High(c, t) == t >= 4 /\ (c \div HalfPeriod(t)) % 2 = 1

Init ==
  /\ cycle = 0 /\ tima = 0 /\ tma = 0 /\ tac = 0
  /\ pending = FALSE /\ request = FALSE

\* The clock input falls, or stays; the count moves with it and never while
\* an overflow is pending.
Count(falls, now) ==
  IF ~falls THEN tima' = now /\ pending' = FALSE
  ELSE /\ tima' = IF now = TimaMax THEN 0 ELSE now + 1
       /\ pending' = (now = TimaMax)

MachineCycle ==
  LET next == (cycle + 1) % (DividerSize \div 4)
  IN /\ cycle' = next
     /\ Count(High(cycle, tac) /\ ~High(next, tac), IF pending THEN tma ELSE tima)
     /\ request' = (request \/ pending)
     /\ UNCHANGED <<tma, tac>>

\* The two writes that can move the input; an overflow pending at the write
\* stays pending, and the input does not fall then.
MoveInput(c, t) ==
  /\ cycle' = c /\ tac' = t
  /\ IF pending THEN ~(High(cycle, tac) /\ ~High(c, t)) /\ UNCHANGED <<tima, pending>>
     ELSE Count(High(cycle, tac) /\ ~High(c, t), tima)
  /\ UNCHANGED <<tma, request>>

SetTIMA ==
  /\ tima' \in 0..TimaMax /\ pending' = FALSE
  /\ UNCHANGED <<cycle, tma, tac, request>>

SetTMA ==
  /\ tma' \in 0..TimaMax
  /\ UNCHANGED <<cycle, tima, tac, pending, request>>

Acknowledge ==
  /\ request' = FALSE
  /\ UNCHANGED <<cycle, tima, tma, tac, pending>>

Reset ==
  /\ cycle' = 0 /\ tima' = 0 /\ tma' = 0 /\ tac' = 0
  /\ pending' = FALSE /\ request' = FALSE

Next ==
  \/ MachineCycle
  \/ MoveInput(0, tac)
  \/ \E t \in 0..7 : MoveInput(cycle, t)
  \/ SetTIMA \/ SetTMA \/ Acknowledge \/ Reset

Spec == Init /\ [][Next]_vars
=============================================================================
