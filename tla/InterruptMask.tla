--------------------------- MODULE InterruptMask ---------------------------
(***************************************************************************)
(* What EI, DI, RETI and the dispatch promise a program about when it can  *)
(* be interrupted: EI opens the mask after the instruction that follows    *)
(* it, DI and a dispatch close it at once, RETI opens it at once.          *)
(***************************************************************************)
VARIABLES
  mask,  \* "closed", "opening" (the last instruction was an EI) or "open"
  last   \* what the processor did last

vars == <<mask, last>>

Init == mask = "closed" /\ last = "reset"

Does(label, m) == last' = label /\ mask' = m

\* The steps that open the mask: EI, and whatever follows an EI but DI.
Opened == IF mask = "closed" THEN "closed" ELSE "open"

Next ==
  \/ Does("EI", IF mask = "closed" THEN "opening" ELSE "open")
  \/ Does("DI", "closed")
  \/ Does("RETI", "open")
  \/ Does("other", Opened)
  \/ mask # "opening" /\ Does("sleep", mask)
  \/ mask = "open" /\ Does("dispatch", "closed")
  \/ Does("reset", "closed")

Spec == Init /\ [][Next]_vars
=============================================================================
