---------------------------- MODULE MCFrontend -----------------------------
(***************************************************************************)
(* The runs of the program that are checked: one that is only watched, at  *)
(* every speed, cycle step and checkpoint, and players who do one kind of  *)
(* thing at a time.                                                        *)
(***************************************************************************)
EXTENDS Frontend

Session(step, speed, checkpoint, events) ==
  [step |-> step, speed |-> speed, checkpoint |-> checkpoint, events |-> events]

MCSessions ==
  {Session(step, speed, checkpoint, {}) : step \in {1, 2, 6}, speed \in {1, 2}, checkpoint \in {1, 2}}
  \union {Session(2, 1, 2, InputEvents \union {"save", "load", "reset"}),
          Session(4, 1, 2, InputEvents \union {"save", "reload"}),
          Session(4, 1, 2, {"pause", "resume", "step", "save", "load"}),
          Session(5, 1, 2, {"pause", "step", "quit", "reload"})}
=============================================================================
