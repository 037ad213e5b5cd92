------------------------------- MODULE MCPpu -------------------------------
(***************************************************************************)
(* Model-checking instances of Ppu, with history variables: the dots since *)
(* the last VBlank entry, and whether the beam has jumped back since.      *)
(***************************************************************************)
EXTENDS Ppu

NoHistory == -1
FrameDots == TotalLines * LineDots

VARIABLES
  since,  \* dots since the last VBlank entry, at most FrameDots, or
          \* NoHistory if LY or bit 7 of LCDC was written since
  jumped  \* LY was written in VBlank, and no VBlank began since

mcVars == <<vars, since, jumped>>

MCInit == Init /\ since = NoHistory /\ jumped = FALSE

VBlankEntry == StepDot /\ EntersVBlank

\* Writes that move the beam.
MovesBeam == WriteLY \/ EnableLcd \/ DisableLcd \/ Reset

MCNext ==
  /\ Next
  /\ since' = IF VBlankEntry THEN 0
              ELSE IF MovesBeam THEN NoHistory
              ELSE IF StepDot /\ since \in 0..(FrameDots - 1) THEN since + 1
              ELSE since
  /\ jumped' = IF VBlankEntry \/ DisableLcd \/ Reset THEN FALSE
               ELSE jumped \/ (mode = 1 /\ WriteLY)

(***************************************************************************)
(* The emulation loop keeps executing instructions and every one of them   *)
(* is followed by at least one machine cycle of Ppu::step.                 *)
(***************************************************************************)
MCSpec == MCInit /\ [][MCNext]_mcVars /\ WF_vars(Step)

(***************************************************************************)
(* Two VBlank entries with no write that moves the beam between them are   *)
(* exactly TotalLines * LineDots dots apart, whichever other registers     *)
(* were written: the frame rate does not depend on the program.            *)
(***************************************************************************)
ExactFrame ==
  [][VBlankEntry /\ since # NoHistory
       => since + 1 = FrameDots]_mcVars

(***************************************************************************)
(* A frame that is announced is coherent unless LY was written in VBlank   *)
(* since the frame before; even then the frame after it is coherent again. *)
(***************************************************************************)
CoherentUnlessJumped ==
  [][mode # 1 /\ mode' = 1 /\ ~jumped => frameReady' /\ drawn = Visible]_mcVars

(***************************************************************************)
(* If the LCD stays on and the program stops writing LY, VBlank comes      *)
(* again and again, and so does the drawing of lines: the frontend, which  *)
(* waits for frames, never waits for ever.                                 *)
(***************************************************************************)
FramesKeepComing ==
  <>[]lcdOn /\ <>[][~WriteLY]_vars
    => []<>(mode = 1) /\ []<>(mode = 3)
=============================================================================
