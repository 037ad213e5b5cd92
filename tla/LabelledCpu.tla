---------------------------- MODULE LabelledCpu ----------------------------
(***************************************************************************)
(* Cpu with two history variables, and the interrupt mask it implements.   *)
(***************************************************************************)
EXTENDS Cpu

VARIABLES
  last,   \* what the processor did last
  haltAt  \* address of the HALT it executed last and may still sleep in, or
          \* NoHalt

NoHalt == -1

vars == <<cpuVars, last, haltAt>>

LInit == Init /\ last = "reset" /\ haltAt = NoHalt

Labelled(label) == last' = label /\ haltAt' = NoHalt

LNext ==
  \/ Dispatch /\ Labelled("dispatch")
  \/ Sleep /\ last' = "sleep" /\ UNCHANGED haltAt
  \/ Ei /\ Labelled("EI")
  \/ Di /\ Labelled("DI")
  \/ Reti /\ Labelled("RETI")
  \/ /\ (\E n \in 1..3 : Ordinary(n)) \/ Jump \/ Stop \/ Undefined
     /\ Labelled("other")
  \/ Halt /\ last' = "other" /\ haltAt' = pc
  \/ (\E i \in Interrupts : Request(i)) /\ UNCHANGED <<last, haltAt>>
  \/ Reset /\ Labelled("reset")

LSpec == LInit /\ [][LNext]_vars

(***************************************************************************)
(* The program an interrupt breaks into is resumed where it must be.  The  *)
(* handler of a request that ends a HALT returns behind the HALT; one that *)
(* was pending at a HALT directly after EI returns to the HALT itself,     *)
(* which then waits for the next request.  No other HALT is interrupted    *)
(* before it sleeps, so the doubled fetch never happens in a handler.      *)
(***************************************************************************)
HaltReturnAddress ==
  [][Dispatch /\ haltAt # NoHalt
       => pc = IF halted THEN Wrap(haltAt + 1) ELSE haltAt]_vars

Mask == INSTANCE InterruptMask WITH
  mask <- IF ime THEN "open" ELSE IF imePending THEN "opening" ELSE "closed"

(***************************************************************************)
(* Every behaviour of the processor is one of the interrupt mask: through  *)
(* any sequence of EI, DI, RETI, HALT and wake-ups, a request is served    *)
(* only when the program has opened the mask, one instruction after the EI *)
(* that opened it, and never twice without opening it again.               *)
(***************************************************************************)
ImplementsMask == Mask!Spec
=============================================================================
