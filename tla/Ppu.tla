-------------------------------- MODULE Ppu --------------------------------
(***************************************************************************)
(* The pixel unit of core/src/ppu.rs: the dot and line counters, the mode  *)
(* they imply, the coincidence flag, the STAT interrupt line, the VBlank   *)
(* interrupt and the frame that the frontend takes.                        *)
(*                                                                         *)
(* Pixels are abstracted to whether a line of the framebuffer was drawn    *)
(* since the last frame was announced.  A register write may come before   *)
(* any dot; in the program writes are two or four dots apart, and all the  *)
(* positions the code compares a dot with are multiples of four.           *)
(***************************************************************************)
EXTENDS Integers

CONSTANTS
  LineDots,      \* CYCLES_PER_SCANLINE, 456
  VisibleLines,  \* VISIBLE_SCANLINES, 144
  TotalLines,    \* TOTAL_SCANLINES, 154
  OamDots,       \* MODE2_CYCLES, 80
  TransferEnd,   \* first dot of mode 0: MODE0_CYCLES_END - 4, 248
  StartupDelay,  \* LCD_ENABLE_STARTUP_DELAY_DOTS, 16
  MaxLyc         \* largest value of LYC, 255

ASSUME PpuAssumption ==
  /\ {LineDots, VisibleLines, TotalLines, OamDots, TransferEnd, MaxLyc} \subseteq Nat
  /\ 0 < OamDots /\ OamDots < TransferEnd /\ TransferEnd < LineDots
  /\ 0 < VisibleLines /\ VisibleLines < TotalLines /\ TotalLines <= MaxLyc
  /\ StartupDelay \in Nat \ {0}

VARIABLES
  lcdOn,        \* bit 7 of LCDC
  sources,      \* the interrupt sources STAT enables
  mode,         \* STAT bits 0-1
  coincidence,  \* STAT bit 2
  ly, lyc,      \* current line, and the line to compare it with
  dot,          \* scanline_dot
  delay,        \* lcd_enable_delay_dots
  line,         \* stat_irq_line_high
  iflag,        \* VBLANK and STAT bits of the interrupt flag register
  frameReady,   \* frame_ready_pending
  drawn         \* lines of the framebuffer drawn since the last VBlank entry

vars == <<lcdOn, sources, mode, coincidence, ly, lyc, dot, delay, line, iflag,
          frameReady, drawn>>

Sources    == {"HBLANK", "VBLANK", "OAM", "LYC"}
Interrupts == {"VBLANK", "STAT"}
Visible    == 0..(VisibleLines - 1)

-----------------------------------------------------------------------------

\* The mode of a dot d on line l.
ModeAt(l, d) ==
  IF l >= VisibleLines THEN 1
  ELSE IF d < OamDots THEN 2
  ELSE IF d < TransferEnd THEN 3
  ELSE 0

ModeSource == [m \in {0, 1, 2} |->
                 CASE m = 0 -> "HBLANK" [] m = 1 -> "VBLANK" [] m = 2 -> "OAM"]

\* stat_irq_condition_active: the level the STAT interrupt line should have.
Condition ==
  \/ "LYC" \in sources /\ coincidence
  \/ lcdOn /\ mode \in {0, 1, 2} /\ ModeSource[mode] \in sources

\* A write to STAT acts for a moment as if it enabled every source.
Glitch == ~line /\ lcdOn /\ (mode # 3 \/ coincidence)

\* update_stat_irq_line, after everything else the operation changed; `bits`
\* are the interrupts the operation requests besides.
UpdateLine(bits) ==
  /\ line' = Condition'
  /\ iflag' = iflag \cup bits \cup {i \in {"STAT"} : ~line /\ Condition'}

\* Mutant of MayRequest: lines past the visible ones are forgotten.
MayRequestVisible(enabled) ==
  /\ lcdOn
  /\ \/ "VBLANK" \in enabled
     \/ /\ "STAT" \in enabled
        /\ \/ sources \cap {"HBLANK", "VBLANK", "OAM"} # {}
           \/ "LYC" \in sources /\ lyc < VisibleLines

\* may_request_interrupt: can ticks alone raise an interrupt that `enabled`
\* (the register IE) lets through?
MayRequest(enabled) ==
  /\ lcdOn
  /\ \/ "VBLANK" \in enabled
     \/ /\ "STAT" \in enabled
        /\ \/ sources \cap {"HBLANK", "VBLANK", "OAM"} # {}
           \/ "LYC" \in sources /\ lyc < TotalLines

-----------------------------------------------------------------------------

Init ==
  /\ lcdOn = FALSE /\ sources = {} /\ mode = 0 /\ coincidence = FALSE
  /\ ly = 0 /\ lyc = 0 /\ dot = 0 /\ delay = 0
  /\ line = FALSE /\ iflag = {}
  /\ frameReady = FALSE /\ drawn = {}

\* Ppu::step with the LCD off.
StepOff ==
  /\ ~lcdOn
  /\ dot' = 0 /\ ly' = 0 /\ delay' = 0 /\ mode' = 0
  /\ UNCHANGED <<lcdOn, sources, coincidence, lyc, frameReady, drawn>>
  /\ UpdateLine({})

\* Mutant of StepStartup: the delay does not run down.
StepStartupStuck ==
  /\ lcdOn /\ delay # 0
  /\ dot' = 0 /\ ly' = 0 /\ mode' = 0
  /\ coincidence' = (0 = lyc)
  /\ UNCHANGED <<lcdOn, sources, lyc, delay, frameReady, drawn>>
  /\ UpdateLine({})

\* Ppu::step while the LCD starts up.
StepStartup ==
  /\ lcdOn /\ delay # 0
  /\ delay' = delay - 1
  /\ dot' = 0 /\ ly' = 0 /\ mode' = 0
  /\ coincidence' = (0 = lyc)
  /\ UNCHANGED <<lcdOn, sources, lyc, frameReady, drawn>>
  /\ UpdateLine({})

\* Mutants of NextDot (one dot too many) and DrawsLine (the last visible line
\* left out).
NextDotLate    == IF dot + 1 > LineDots THEN 0 ELSE dot + 1
DrawsLineShort == mode = 3 /\ dot + 1 = TransferEnd /\ ly + 1 < VisibleLines

NextDot  == IF dot + 1 >= LineDots THEN 0 ELSE dot + 1
NextLine == IF dot + 1 >= LineDots THEN (IF ly + 1 = TotalLines THEN 0 ELSE ly + 1)
            ELSE ly

EntersVBlank == mode # 1 /\ ModeAt(NextLine, NextDot) = 1
DrawsLine    == mode = 3 /\ ModeAt(NextLine, NextDot) = 0

\* Ppu::step with the LCD running.
StepDot ==
  /\ lcdOn /\ delay = 0
  /\ dot' = NextDot /\ ly' = NextLine
  /\ mode' = ModeAt(NextLine, NextDot)
  /\ coincidence' = (NextLine = lyc)
  /\ drawn' = IF EntersVBlank THEN {}
              ELSE drawn \cup {l \in {NextLine} : DrawsLine}
  /\ frameReady' = (frameReady \/ EntersVBlank)
  /\ UNCHANGED <<lcdOn, sources, lyc, delay>>
  /\ UpdateLine({i \in {"VBLANK"} : EntersVBlank})

Step == StepOff \/ StepStartup \/ StepDot

(***************************************************************************)
(* Register writes.  A STAT edge caused by a write goes to IF before the   *)
(* write returns (Bus::write8_io takes stat_irq_pending).                  *)
(***************************************************************************)
EnableLcd ==
  /\ ~lcdOn
  /\ lcdOn' = TRUE
  /\ dot' = 0 /\ ly' = 0 /\ mode' = 0 /\ delay' = StartupDelay
  /\ coincidence' = (0 = lyc)
  /\ UNCHANGED <<sources, lyc, frameReady, drawn>>
  /\ UpdateLine({})

\* Mutant of DisableLcd: the STAT line is kept.
DisableLcdKeepsLine ==
  /\ lcdOn
  /\ lcdOn' = FALSE
  /\ dot' = 0 /\ ly' = 0 /\ mode' = 0 /\ delay' = 0
  /\ frameReady' = FALSE /\ drawn' = {}
  /\ UNCHANGED <<sources, coincidence, lyc, line, iflag>>

DisableLcd ==
  /\ lcdOn
  /\ lcdOn' = FALSE
  /\ dot' = 0 /\ ly' = 0 /\ mode' = 0 /\ delay' = 0
  /\ frameReady' = FALSE /\ drawn' = {}
  /\ UNCHANGED <<sources, coincidence, lyc>>
  /\ UpdateLine({})

\* A write to LCDC that leaves bit 7 as it is.
KeepLcd ==
  /\ UNCHANGED <<lcdOn, sources, mode, coincidence, ly, lyc, dot, delay, frameReady,
                 drawn>>
  /\ UpdateLine({})

\* The write stores the sources; the glitch and the new level may each
\* request the interrupt.
WriteSTAT(s) ==
  /\ sources' = s
  /\ UNCHANGED <<lcdOn, mode, coincidence, ly, lyc, dot, delay, frameReady, drawn>>
  /\ UpdateLine({i \in {"STAT"} : Glitch})

\* With the LCD off a write to LY or LYC leaves the coincidence flag alone.
Compare ==
  IF lcdOn THEN coincidence' = (ly' = lyc') /\ UpdateLine({})
  ELSE UNCHANGED <<coincidence, line, iflag>>

WriteLY ==
  /\ ly' = 0
  /\ lyc' = lyc
  /\ UNCHANGED <<lcdOn, sources, mode, dot, delay, frameReady, drawn>>
  /\ Compare

WriteLYC(v) ==
  /\ lyc' = v
  /\ ly' = ly
  /\ UNCHANGED <<lcdOn, sources, mode, dot, delay, frameReady, drawn>>
  /\ Compare

\* The processor clears interrupt requests, by dispatch or by a write to IF.
Acknowledge(i) ==
  /\ iflag' = iflag \ {i}
  /\ UNCHANGED <<lcdOn, sources, mode, coincidence, ly, lyc, dot, delay, line,
                 frameReady, drawn>>

\* The frontend asks for the frame.
TakeFrameReady ==
  /\ frameReady' = FALSE
  /\ UNCHANGED <<lcdOn, sources, mode, coincidence, ly, lyc, dot, delay, line,
                 iflag, drawn>>

\* Bus::reset replaces the unit by Ppu::default (or new_cgb) and zeroes IF.
Reset ==
  /\ lcdOn' = FALSE /\ sources' = {} /\ mode' = 0 /\ coincidence' = FALSE
  /\ ly' = 0 /\ lyc' = 0 /\ dot' = 0 /\ delay' = 0
  /\ line' = FALSE /\ iflag' = {}
  /\ frameReady' = FALSE /\ drawn' = {}

Next ==
  \/ Step
  \/ EnableLcd \/ DisableLcd \/ KeepLcd
  \/ \E s \in SUBSET Sources : WriteSTAT(s)
  \/ WriteLY
  \/ \E v \in 0..MaxLyc : WriteLYC(v)
  \/ \E i \in Interrupts : Acknowledge(i)
  \/ TakeFrameReady
  \/ Reset

Spec == Init /\ [][Next]_vars

-----------------------------------------------------------------------------

TypeOK ==
  /\ lcdOn \in BOOLEAN
  /\ sources \subseteq Sources
  /\ mode \in 0..3
  /\ coincidence \in BOOLEAN
  /\ ly \in 0..(TotalLines - 1)
  /\ lyc \in 0..MaxLyc
  /\ dot \in 0..(LineDots - 1)
  /\ delay \in 0..StartupDelay
  /\ line \in BOOLEAN
  /\ iflag \subseteq Interrupts
  /\ frameReady \in BOOLEAN
  /\ drawn \subseteq Visible

(***************************************************************************)
(* The stored STAT line is the level of its condition after every          *)
(* operation, whichever registers were written while the LCD was off, so   *)
(* that no later step sees an edge that did not happen or misses one.      *)
(***************************************************************************)
LineTracksCondition == line = Condition

(***************************************************************************)
(* With the LCD on, the coincidence flag is the comparison of LY and LYC   *)
(* whatever was written, and whatever was latched while it was off.        *)
(***************************************************************************)
CoincidenceTracksLines == lcdOn => (coincidence <=> ly = lyc)

(***************************************************************************)
(* The fast path for a halted processor asks may_request_interrupt once    *)
(* and then runs any number of dots without looking at IF.  A step taken   *)
(* while the answer is no for the enabled interrupts requests none of them *)
(* and leaves the answer no.                                               *)
(***************************************************************************)
QuietStaysQuiet ==
  [][Step => \A enabled \in SUBSET Interrupts :
               ~MayRequest(enabled)
                 => /\ ~MayRequest(enabled)'
                    /\ iflag' \cap enabled = iflag \cap enabled]_vars

(***************************************************************************)
(* When VBlank begins and the frame is announced, the framebuffer is a     *)
(* coherent full frame: every visible line was drawn since the VBlank      *)
(* before.                                                                 *)
(***************************************************************************)
PulseMeansCoherentFrame ==
  [][mode # 1 /\ mode' = 1 => frameReady' /\ drawn = Visible]_vars

(***************************************************************************)
(* Switching the LCD off clears the framebuffer.  It also withdraws a      *)
(* frame that was announced and not yet taken, and none is announced while *)
(* it stays off, so the frontend never presents the blank buffer as a      *)
(* frame, and after switching on the frame starts at its first line.       *)
(***************************************************************************)
NoFrameWhileOff == ~lcdOn => ~frameReady /\ drawn = {} /\ ly = 0 /\ mode = 0

(***************************************************************************)
(* What the unit derives from its registers is never stale: the interrupt  *)
(* line, the coincidence flag and the frame announced, whatever is written *)
(* in which order.                                                         *)
(***************************************************************************)
DerivedStateIsFresh == TypeOK /\ LineTracksCondition /\ CoincidenceTracksLines /\ NoFrameWhileOff
=============================================================================
