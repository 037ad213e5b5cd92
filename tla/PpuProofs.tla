----------------------------- MODULE PpuProofs -----------------------------
(***************************************************************************)
(* What Ppu.tla promises for every geometry of the screen: the STAT line   *)
(* and the coincidence flag are never stale, a quiet unit stays quiet, and *)
(* a program that leaves LY alone during VBlank gets coherent frames.      *)
(***************************************************************************)
EXTENDS MCPpu, TLAPS

\* The assumptions on the constants, one by one.
LEMMA Constants ==
  /\ LineDots \in Nat /\ VisibleLines \in Nat /\ TotalLines \in Nat
  /\ OamDots \in Nat /\ TransferEnd \in Nat /\ MaxLyc \in Nat
  /\ 0 < OamDots /\ OamDots < TransferEnd /\ TransferEnd < LineDots
  /\ 0 < VisibleLines /\ VisibleLines < TotalLines /\ TotalLines <= MaxLyc
  /\ StartupDelay \in Nat /\ 0 < StartupDelay
BY PpuAssumption

\* The values an operation assigns by name are in their ranges.
LEMMA Ranges ==
  /\ 0 \in 0..3 /\ 0 \in 0..(TotalLines - 1) /\ 0 \in 0..MaxLyc
  /\ 0 \in 0..(LineDots - 1) /\ 0 \in 0..StartupDelay
  /\ StartupDelay \in 0..StartupDelay
BY Constants

\* The inductive invariant of every behaviour.
IInv ==
  /\ TypeOK
  /\ LineTracksCondition
  /\ CoincidenceTracksLines
  /\ NoFrameWhileOff

\* The next dot and the next line are on the screen.
LEMMA Beam ==
  ASSUME TypeOK
  PROVE  NextDot \in 0..(LineDots - 1) /\ NextLine \in 0..(TotalLines - 1)
BY Constants DEF TypeOK, NextDot, NextLine

\* A mode is one of four.
LEMMA Modes ==
  ASSUME NEW l \in Nat, NEW d \in Nat
  PROVE  /\ ModeAt(l, d) \in 0..3
         /\ ModeAt(l, d) = 0 => l < VisibleLines
BY Constants DEF ModeAt

\* The interrupt flag keeps its type when the line is updated.
LEMMA UpdateLineType ==
  ASSUME NEW bits, bits \subseteq Interrupts, iflag \subseteq Interrupts, UpdateLine(bits)
  PROVE  line' \in BOOLEAN /\ iflag' \subseteq Interrupts /\ LineTracksCondition'
<1>1. Condition' \in BOOLEAN
  BY DEF Condition
<1>2. line' = Condition'
  BY DEF UpdateLine
<1>3. iflag' \subseteq Interrupts
  BY DEF UpdateLine, Interrupts
<1>4. LineTracksCondition'
  BY <1>2 DEF LineTracksCondition
<1> QED
  BY <1>1, <1>2, <1>3, <1>4

\* The invariant holds when the unit is switched on.
LEMMA InitIInv ==
  Init => IInv
<1> SUFFICES ASSUME Init PROVE IInv
  OBVIOUS
<1>1. TypeOK
  BY Ranges, Zenon DEF Init, TypeOK
<1>2. LineTracksCondition
  BY DEF Init, LineTracksCondition, Condition
<1>3. CoincidenceTracksLines /\ NoFrameWhileOff
  BY DEF Init, CoincidenceTracksLines, NoFrameWhileOff
<1> QED
  BY <1>1, <1>2, <1>3 DEF IInv

\* A dot keeps the invariant.
LEMMA StepIInv ==
  ASSUME IInv, Step
  PROVE  IInv'
<1> USE DEF IInv
<1>t. iflag \subseteq Interrupts /\ {} \subseteq Interrupts
  BY DEF TypeOK
<1>1. CASE StepOff
  <2>1. UpdateLine({})
    BY <1>1 DEF StepOff
  <2>2. line' \in BOOLEAN /\ iflag' \subseteq Interrupts /\ LineTracksCondition'
    BY <2>1, <1>t, UpdateLineType
  <2>3. TypeOK'
    BY <1>1, <2>2, Constants DEF StepOff, TypeOK
  <2>4. CoincidenceTracksLines' /\ NoFrameWhileOff'
    BY <1>1 DEF StepOff, CoincidenceTracksLines, NoFrameWhileOff
  <2> QED
    BY <2>2, <2>3, <2>4
<1>2. CASE StepStartup
  <2>1. UpdateLine({})
    BY <1>2 DEF StepStartup
  <2>2. line' \in BOOLEAN /\ iflag' \subseteq Interrupts /\ LineTracksCondition'
    BY <2>1, <1>t, UpdateLineType
  <2>3. delay - 1 \in 0..StartupDelay
    BY <1>2, Constants DEF StepStartup, TypeOK
  <2>4. TypeOK'
    BY <1>2, <2>2, <2>3, Constants DEF StepStartup, TypeOK
  <2>5. CoincidenceTracksLines' /\ NoFrameWhileOff'
    BY <1>2 DEF StepStartup, CoincidenceTracksLines, NoFrameWhileOff
  <2> QED
    BY <2>2, <2>4, <2>5
<1>3. CASE StepDot
  <2>1. UpdateLine({i \in {"VBLANK"} : EntersVBlank})
    BY <1>3 DEF StepDot
  <2>2. line' \in BOOLEAN /\ iflag' \subseteq Interrupts /\ LineTracksCondition'
    <3>1. {i \in {"VBLANK"} : EntersVBlank} \subseteq Interrupts
      BY DEF Interrupts
    <3> QED
      BY <2>1, <3>1, <1>t, UpdateLineType
  <2>3. NextDot \in 0..(LineDots - 1) /\ NextLine \in 0..(TotalLines - 1)
    BY Beam
  <2>4. /\ ModeAt(NextLine, NextDot) \in 0..3
        /\ ModeAt(NextLine, NextDot) = 0 => NextLine < VisibleLines
    BY <2>3, Modes, Constants
  <2>5. drawn' \subseteq Visible
    <3>1. {l \in {NextLine} : DrawsLine} \subseteq Visible
      BY <2>3, <2>4, Constants DEF DrawsLine, Visible
    <3> QED
      BY <1>3, <3>1 DEF StepDot, TypeOK
  <2>6. TypeOK'
    <3>1. frameReady' \in BOOLEAN
      BY <1>3 DEF StepDot, TypeOK
    <3> QED
      BY <1>3, <2>2, <2>3, <2>4, <2>5, <3>1 DEF StepDot, TypeOK
  <2>7. CoincidenceTracksLines' /\ NoFrameWhileOff'
    BY <1>3 DEF StepDot, CoincidenceTracksLines, NoFrameWhileOff
  <2> QED
    BY <2>2, <2>6, <2>7
<1> QED
  BY <1>1, <1>2, <1>3 DEF Step

\* A write to LCDC keeps the invariant.
LEMMA LcdcIInv ==
  ASSUME IInv, EnableLcd \/ DisableLcd \/ KeepLcd
  PROVE  IInv'
<1> USE DEF IInv
<1>1. UpdateLine({})
  BY DEF EnableLcd, DisableLcd, KeepLcd
<1>2. line' \in BOOLEAN /\ iflag' \subseteq Interrupts /\ LineTracksCondition'
  BY <1>1, UpdateLineType DEF TypeOK
<1>3. CASE EnableLcd
  <2>1. coincidence' \in BOOLEAN /\ CoincidenceTracksLines' /\ NoFrameWhileOff'
    BY <1>3 DEF EnableLcd, CoincidenceTracksLines, NoFrameWhileOff
  <2>2. TypeOK'
    BY <1>2, <1>3, <2>1, Ranges DEF EnableLcd, TypeOK
  <2> QED
    BY <1>2, <2>1, <2>2
<1>4. CASE DisableLcd
  <2>1. CoincidenceTracksLines' /\ NoFrameWhileOff'
    BY <1>4 DEF DisableLcd, CoincidenceTracksLines, NoFrameWhileOff
  <2>2. TypeOK'
    BY <1>2, <1>4, Ranges, Zenon DEF DisableLcd, TypeOK
  <2> QED
    BY <1>2, <2>1, <2>2
<1>5. CASE KeepLcd
  BY <1>2, <1>5 DEF KeepLcd, TypeOK, CoincidenceTracksLines, NoFrameWhileOff
<1> QED
  BY <1>3, <1>4, <1>5

\* A write to STAT keeps the invariant.
LEMMA StatIInv ==
  ASSUME IInv, NEW s \in SUBSET Sources, WriteSTAT(s)
  PROVE  IInv'
<1> USE DEF IInv
<1>1. UpdateLine({i \in {"STAT"} : Glitch}) /\ {i \in {"STAT"} : Glitch} \subseteq Interrupts
  BY DEF WriteSTAT, Interrupts
<1>2. line' \in BOOLEAN /\ iflag' \subseteq Interrupts /\ LineTracksCondition'
  BY <1>1, UpdateLineType DEF TypeOK
<1> QED
  BY <1>2 DEF WriteSTAT, TypeOK, CoincidenceTracksLines, NoFrameWhileOff

\* A write to LY or LYC keeps the invariant.
LEMMA CompareIInv ==
  ASSUME IInv, WriteLY \/ \E v \in 0..MaxLyc : WriteLYC(v)
  PROVE  IInv'
<1> USE DEF IInv
<1>1. /\ UNCHANGED <<lcdOn, sources, mode, dot, delay, frameReady, drawn>>
      /\ Compare
      /\ ly' \in 0..(TotalLines - 1) /\ lyc' \in 0..MaxLyc
      /\ ly' = 0 \/ ly' = ly
  BY Constants DEF WriteLY, WriteLYC, TypeOK
<1>2. CASE lcdOn
  <2>1. coincidence' = (ly' = lyc') /\ UpdateLine({})
    BY <1>1, <1>2 DEF Compare
  <2>2. line' \in BOOLEAN /\ iflag' \subseteq Interrupts /\ LineTracksCondition'
    BY <2>1, UpdateLineType DEF TypeOK
  <2> QED
    BY <1>1, <1>2, <2>1, <2>2 DEF TypeOK, CoincidenceTracksLines, NoFrameWhileOff
<1>3. CASE ~lcdOn
  <2>1. UNCHANGED <<coincidence, line, iflag>>
    BY <1>1, <1>3 DEF Compare
  <2>2. LineTracksCondition'
    BY <1>1, <2>1 DEF LineTracksCondition, Condition
  <2> QED
    BY <1>1, <1>3, <2>1, <2>2 DEF TypeOK, CoincidenceTracksLines, NoFrameWhileOff
<1> QED
  BY <1>2, <1>3

\* Acknowledging, taking the frame, reset and stuttering keep the invariant.
LEMMA OtherIInv ==
  ASSUME IInv,
         (\E i \in Interrupts : Acknowledge(i)) \/ TakeFrameReady \/ Reset \/ UNCHANGED vars
  PROVE  IInv'
<1> USE DEF IInv
<1>1. CASE (\E i \in Interrupts : Acknowledge(i)) \/ TakeFrameReady \/ UNCHANGED vars
  <2>1. /\ UNCHANGED <<lcdOn, sources, mode, coincidence, ly, lyc, dot, delay, line, drawn>>
        /\ iflag' \subseteq iflag
        /\ frameReady' = frameReady \/ frameReady' = FALSE
    BY <1>1 DEF Acknowledge, TakeFrameReady, vars
  <2>2. LineTracksCondition'
    BY <2>1 DEF LineTracksCondition, Condition
  <2>3. TypeOK'
    BY <2>1 DEF TypeOK
  <2>4. CoincidenceTracksLines' /\ NoFrameWhileOff'
    BY <2>1 DEF CoincidenceTracksLines, NoFrameWhileOff
  <2> QED
    BY <2>2, <2>3, <2>4
<1>2. CASE Reset
  <2>1. TypeOK'
    BY <1>2, Ranges, Zenon DEF Reset, TypeOK
  <2>2. LineTracksCondition'
    BY <1>2 DEF Reset, LineTracksCondition, Condition
  <2>3. CoincidenceTracksLines' /\ NoFrameWhileOff'
    BY <1>2 DEF Reset, CoincidenceTracksLines, NoFrameWhileOff
  <2> QED
    BY <2>1, <2>2, <2>3
<1> QED
  BY <1>1, <1>2

\* Every step keeps the invariant.
LEMMA NextIInv ==
  IInv /\ [Next]_vars => IInv'
BY StepIInv, LcdcIInv, StatIInv, CompareIInv, OtherIInv DEF Next

(***************************************************************************)
(* The invariant holds in every state of every behaviour.                  *)
(***************************************************************************)
THEOREM Invariance == Spec => []IInv
<1>1. Init => IInv
  BY InitIInv
<1>2. IInv /\ [Next]_vars => IInv'
  BY NextIInv
<1> QED
  BY <1>1, <1>2, PTL DEF Spec

(***************************************************************************)
(* Every variable keeps its type.                                          *)
(***************************************************************************)
THEOREM TypeCorrect == Spec => []TypeOK
BY Invariance, PTL DEF IInv

(***************************************************************************)
(* The stored STAT line equals its condition after every operation, for    *)
(* every geometry of the screen: it is never stale.                        *)
(***************************************************************************)
THEOREM StatNeverStale == Spec => []LineTracksCondition
BY Invariance, PTL DEF IInv

(***************************************************************************)
(* The coincidence flag equals the comparison after every operation.       *)
(***************************************************************************)
THEOREM CoincidenceNeverStale == Spec => []CoincidenceTracksLines
BY Invariance, PTL DEF IInv

(***************************************************************************)
(* While the LCD is off no frame is announced and none waits.              *)
(***************************************************************************)
THEOREM OffMeansNoFrame == Spec => []NoFrameWhileOff
BY Invariance, PTL DEF IInv

\* A dot taken while only the LYC source could raise STAT, and does not for
\* want of such a line, finds the condition low and leaves it low.
LEMMA QuietDot ==
  ASSUME IInv, Step, NEW enabled \in SUBSET Interrupts, ~MayRequest(enabled)
  PROVE  ~MayRequest(enabled)' /\ iflag' \cap enabled = iflag \cap enabled
<1> USE DEF IInv
<1>1. UNCHANGED <<lcdOn, sources, lyc>>
  BY DEF Step, StepOff, StepStartup, StepDot
<1>2. ~MayRequest(enabled)'
  BY <1>1 DEF MayRequest
<1>3. CASE ~lcdOn
  <2>1. UNCHANGED <<coincidence, mode>> /\ UpdateLine({})
    BY <1>3 DEF Step, StepOff, StepStartup, StepDot, NoFrameWhileOff
  <2>2. Condition' <=> Condition
    BY <1>1, <1>3, <2>1 DEF Condition
  <2>3. ~line => ~Condition'
    BY <2>2 DEF LineTracksCondition, TypeOK
  <2>4. iflag' = iflag
    BY <2>1, <2>3 DEF UpdateLine
  <2> QED
    BY <1>2, <2>4
<1>4. CASE lcdOn
  <2>1. "VBLANK" \notin enabled
    BY <1>4 DEF MayRequest
  <2>2. CASE "STAT" \notin enabled
    <3>1. enabled = {}
      BY <2>1, <2>2 DEF Interrupts
    <3> QED
      BY <1>2, <3>1
  <2>3. CASE "STAT" \in enabled
    <3>1. /\ sources \cap {"HBLANK", "VBLANK", "OAM"} = {}
          /\ ~("LYC" \in sources /\ lyc < TotalLines)
      BY <1>4, <2>3 DEF MayRequest
    <3>2. coincidence' = (ly' = lyc)
      BY <1>4 DEF Step, StepOff, StepStartup, StepDot
    <3>3. ly' \in 0..(TotalLines - 1)
      <4>1. IInv'
        BY StepIInv
      <4> QED
        BY <4>1 DEF TypeOK
    <3>4. "LYC" \in sources => ly' # lyc
      BY <3>1, <3>3, Constants DEF TypeOK
    <3>5. ~("LYC" \in sources' /\ coincidence')
      BY <1>1, <3>2, <3>4
    <3>6. ~(mode' \in {0, 1, 2} /\ ModeSource[mode'] \in sources')
      <4>1. ModeSource[0] = "HBLANK" /\ ModeSource[1] = "VBLANK" /\ ModeSource[2] = "OAM"
        BY DEF ModeSource
      <4> QED
        BY <1>1, <3>1, <4>1
    <3>7. ~Condition'
      BY <3>5, <3>6 DEF Condition
    <3>8. \E bits \in SUBSET {"VBLANK"} : UpdateLine(bits)
      BY DEF Step, StepOff, StepStartup, StepDot
    <3>9. iflag' \subseteq iflag \cup {"VBLANK"} /\ iflag \subseteq iflag'
      BY <3>7, <3>8 DEF UpdateLine
    <3> QED
      BY <1>2, <2>1, <3>9
  <2> QED
    BY <2>2, <2>3
<1> QED
  BY <1>3, <1>4

(***************************************************************************)
(* The answer of may_request_interrupt stays valid for any number of dots, *)
(* for every geometry of the screen and every set of enabled interrupts.   *)
(***************************************************************************)
THEOREM QuietUnit == Spec => QuietStaysQuiet
<1> DEFINE Quiet == Step => \A enabled \in SUBSET Interrupts :
                      ~MayRequest(enabled)
                        => /\ ~MayRequest(enabled)'
                           /\ iflag' \cap enabled = iflag \cap enabled
<1>1. IInv => Quiet
  BY QuietDot
<1>2. Spec => []IInv
  BY Invariance
<1>3. Spec => [][Quiet]_vars
  BY <1>1, <1>2, PTL
<1> QED
  BY <1>3 DEF QuietStaysQuiet

-----------------------------------------------------------------------------

(***************************************************************************)
(* What a program that leaves LY alone during VBlank keeps true: the mode  *)
(* is the mode of the beam's position (or the LCD is about to show its     *)
(* first dot), and the lines the beam has passed are drawn.                *)
(***************************************************************************)
AtFirstDot == ly = 0 /\ dot = 0 /\ mode = 0

FrameInv ==
  /\ IInv
  /\ delay # 0 => AtFirstDot
  /\ lcdOn => mode = ModeAt(ly, dot) \/ AtFirstDot
  /\ lcdOn /\ ly < VisibleLines =>
       /\ 0..(ly - 1) \subseteq drawn
       /\ dot >= TransferEnd => ly \in drawn

\* The steps of a program that leaves LY alone during VBlank.
OrderlyNext == Next /\ ~(mode = 1 /\ WriteLY)

LEMMA InitFrame ==
  Init => FrameInv
BY InitIInv DEF Init, FrameInv, AtFirstDot

\* The beam and the modes along one dot, as facts about numbers.
LEMMA NextBeam ==
  ASSUME TypeOK
  PROVE  \/ /\ dot + 1 < LineDots
            /\ NextDot = dot + 1 /\ NextLine = ly
         \/ /\ dot = LineDots - 1 /\ ly + 1 < TotalLines
            /\ NextDot = 0 /\ NextLine = ly + 1
         \/ /\ dot = LineDots - 1 /\ ly = TotalLines - 1
            /\ NextDot = 0 /\ NextLine = 0
BY Constants DEF TypeOK, NextDot, NextLine

\* A step of the beam along a visible line: the mode moves on by at most one
\* stage, and the line is drawn by the time its transfer is over.
LEMMA AlongLine ==
  ASSUME FrameInv, StepDot, dot + 1 < LineDots, NextDot = dot + 1, NextLine = ly,
         ly < VisibleLines
  PROVE  ~EntersVBlank /\ (dot + 1 >= TransferEnd => ly \in drawn')
<1> USE DEF FrameInv, IInv
<1>0. lcdOn /\ ly \in Nat /\ dot \in Nat
  BY Constants DEF StepDot, TypeOK
<1>1. ModeAt(ly, dot + 1) # 1
  BY <1>0, Constants DEF ModeAt
<1>2. ~EntersVBlank
  BY <1>1 DEF EntersVBlank
<1>3. drawn' = drawn \cup {l \in {ly} : DrawsLine}
  BY <1>2 DEF StepDot
<1>4. ASSUME dot + 1 >= TransferEnd PROVE ly \in drawn'
  <2>1. CASE dot >= TransferEnd
    BY <1>0, <1>3, <2>1
  <2>2. CASE dot < TransferEnd
    <3>1. dot # 0 /\ dot >= OamDots
      BY <1>0, <1>4, Constants
    <3>2. mode = ModeAt(ly, dot)
      BY <1>0, <3>1 DEF AtFirstDot
    <3>3. ModeAt(ly, dot) = 3 /\ ModeAt(ly, dot + 1) = 0
      BY <1>0, <1>4, <2>2, <3>1, Constants DEF ModeAt
    <3>4. DrawsLine
      BY <3>2, <3>3 DEF DrawsLine
    <3> QED
      BY <1>3, <3>4
  <2> QED
    BY <1>0, <2>1, <2>2, Constants
<1> QED
  BY <1>2, <1>4

\* VBlank begins when the beam leaves the last visible line, and all the
\* lines are drawn.
LEMMA AtVBlank ==
  ASSUME FrameInv, StepDot, mode # 1, mode' = 1
  PROVE  EntersVBlank /\ drawn = Visible
<1> USE DEF FrameInv, IInv
<1>0. lcdOn /\ ly \in Nat /\ dot \in Nat /\ mode' = ModeAt(NextLine, NextDot)
  BY Constants DEF StepDot, TypeOK
<1>1. EntersVBlank
  BY <1>0 DEF EntersVBlank
<1>2. NextLine >= VisibleLines
  <2>1. NextLine \in Nat /\ NextDot \in Nat
    BY Beam, Constants
  <2> QED
    BY <1>0, <2>1 DEF ModeAt
<1>3. ly < VisibleLines
  <2>1. SUFFICES ASSUME ly >= VisibleLines PROVE FALSE
    BY <1>0, Constants
  <2>2. ~AtFirstDot
    BY <2>1, Constants DEF AtFirstDot
  <2>3. ModeAt(ly, dot) = 1
    BY <2>1 DEF ModeAt
  <2> QED
    BY <1>0, <2>2, <2>3
<1>4. dot = LineDots - 1 /\ ly = VisibleLines - 1
  BY <1>0, <1>2, <1>3, NextBeam, Constants
<1>5. 0..(ly - 1) \subseteq drawn /\ ly \in drawn
  BY <1>0, <1>3, <1>4, Constants
<1>6. 0..(VisibleLines - 1) = 0..(ly - 1) \cup {ly}
  BY <1>0, <1>4, Constants
<1> QED
  BY <1>1, <1>5, <1>6 DEF TypeOK, Visible

\* A dot keeps the frame invariant.
LEMMA DotFrame ==
  ASSUME FrameInv, StepDot
  PROVE  FrameInv'
<1> USE DEF FrameInv
<1>1. IInv'
  BY StepIInv DEF Step
<1>2. lcdOn /\ lcdOn' /\ delay = 0 /\ delay' = 0 /\ ly' = NextLine /\ dot' = NextDot
      /\ mode' = ModeAt(NextLine, NextDot)
  BY DEF StepDot
<1>3. delay' # 0 => AtFirstDot'
  BY <1>2
<1>4. mode' = ModeAt(ly', dot')
  BY <1>2
<1>5. ASSUME NextLine < VisibleLines
      PROVE  0..(NextLine - 1) \subseteq drawn' /\ (NextDot >= TransferEnd => NextLine \in drawn')
  <2>0. ly \in Nat /\ dot \in Nat
    BY Constants DEF IInv, TypeOK
  <2>1. ~EntersVBlank /\ drawn \subseteq drawn'
    <3>1. ModeAt(NextLine, NextDot) # 1
      BY <1>5, Beam, Constants DEF IInv, ModeAt
    <3> QED
      BY <3>1 DEF EntersVBlank, StepDot
  <2>2. CASE dot + 1 < LineDots /\ NextDot = dot + 1 /\ NextLine = ly
    BY <1>2, <1>5, <2>1, <2>2, AlongLine
  <2>3. CASE dot = LineDots - 1 /\ ly + 1 < TotalLines /\ NextDot = 0 /\ NextLine = ly + 1
    <3>1. 0..(ly - 1) \subseteq drawn /\ ly \in drawn
      BY <1>2, <1>5, <2>0, <2>3, Constants
    <3>2. 0..(NextLine - 1) = 0..(ly - 1) \cup {ly}
      BY <2>0, <2>3
    <3> QED
      BY <2>1, <2>3, <3>1, <3>2, Constants
  <2>4. CASE dot = LineDots - 1 /\ ly = TotalLines - 1 /\ NextDot = 0 /\ NextLine = 0
    BY <2>4, Constants
  <2> QED
    BY <2>2, <2>3, <2>4, NextBeam DEF IInv
<1> QED
  BY <1>1, <1>2, <1>3, <1>4, <1>5

\* Every step of an orderly program keeps the frame invariant.
LEMMA OrderlyFrame ==
  ASSUME FrameInv, [OrderlyNext]_vars
  PROVE  FrameInv'
<1> USE DEF FrameInv
<1>1. IInv'
  BY NextIInv DEF OrderlyNext
<1>2. CASE StepDot
  BY <1>2, DotFrame
<1>3. CASE StepOff \/ StepStartup \/ EnableLcd \/ DisableLcd \/ Reset
  <2>1. AtFirstDot'
    BY <1>3 DEF StepOff, StepStartup, EnableLcd, DisableLcd, Reset, AtFirstDot
  <2>2. 0..(ly' - 1) = {} /\ ~(dot' >= TransferEnd)
    BY <2>1, Constants DEF AtFirstDot
  <2> QED
    BY <1>1, <2>1, <2>2
<1>4. CASE KeepLcd \/ (\E s \in SUBSET Sources : WriteSTAT(s))
           \/ (\E v \in 0..MaxLyc : WriteLYC(v)) \/ (\E i \in Interrupts : Acknowledge(i))
           \/ TakeFrameReady \/ UNCHANGED vars
  <2>1. UNCHANGED <<lcdOn, mode, ly, dot, delay, drawn>>
    BY <1>4 DEF KeepLcd, WriteSTAT, WriteLYC, Acknowledge, TakeFrameReady, vars
  <2> QED
    BY <1>1, <2>1 DEF AtFirstDot
<1>5. CASE WriteLY /\ mode # 1
  <2>0. ly \in Nat /\ dot \in Nat
    BY Constants DEF IInv, TypeOK
  <2>1. ly' = 0 /\ UNCHANGED <<lcdOn, mode, dot, delay, drawn>>
    BY <1>5 DEF WriteLY
  <2>2. CASE lcdOn
    <3>1. ly < VisibleLines
      <4>1. SUFFICES ASSUME ly >= VisibleLines PROVE FALSE
        BY <2>0, Constants
      <4>2. ModeAt(ly, dot) = 1 /\ ~AtFirstDot
        BY <4>1, Constants DEF ModeAt, AtFirstDot
      <4> QED
        BY <1>5, <2>2, <4>2
    <3>2. ModeAt(0, dot) = ModeAt(ly, dot)
      BY <2>0, <3>1, Constants DEF ModeAt
    <3>3. dot >= TransferEnd => 0 \in drawn
      BY <2>0, <2>2, <3>1, Constants
    <3>4. 0..(ly' - 1) = {}
      BY <2>1
    <3>5. AtFirstDot => AtFirstDot'
      BY <2>1 DEF AtFirstDot
    <3> QED
      BY <1>1, <2>1, <2>2, <3>2, <3>3, <3>4, <3>5
  <2>3. CASE ~lcdOn
    <3>1. AtFirstDot => AtFirstDot'
      BY <2>1 DEF AtFirstDot
    <3> QED
      BY <1>1, <2>1, <2>3, <3>1
  <2> QED
    BY <2>2, <2>3
<1> QED
  BY <1>2, <1>3, <1>4, <1>5 DEF OrderlyNext, Next, Step

\* Only a dot leads into VBlank.
LEMMA OnlyDotsEnterVBlank ==
  ASSUME [Next]_vars, mode # 1, mode' = 1
  PROVE  StepDot
BY DEF Next, Step, StepOff, StepStartup, EnableLcd, DisableLcd, KeepLcd,
       WriteSTAT, WriteLY, WriteLYC, Acknowledge, TakeFrameReady, Reset, vars

\* Where VBlank begins, and where the LCD is switched off, the frame
\* invariant holds whatever happened before.
LEMMA FrameStarts ==
  ASSUME IInv, [Next]_vars, VBlankEntry \/ DisableLcd \/ Reset
  PROVE  FrameInv'
<1>1. IInv'
  BY NextIInv
<1>2. CASE DisableLcd \/ Reset
  BY <1>1, <1>2 DEF DisableLcd, Reset, FrameInv, AtFirstDot
<1>3. CASE VBlankEntry
  <2>1. mode' = 1 /\ mode' = ModeAt(ly', dot') /\ delay' = 0
    BY <1>3 DEF VBlankEntry, EntersVBlank, StepDot
  <2>2. ly' >= VisibleLines
    BY <2>1 DEF ModeAt
  <2>3. ly' \in Nat
    BY <1>1, Constants DEF IInv, TypeOK
  <2>4. ~(ly' < VisibleLines)
    BY <2>2, <2>3, Constants
  <2> QED
    BY <1>1, <2>1, <2>4 DEF FrameInv
<1> QED
  BY <1>2, <1>3

(***************************************************************************)
(* Every announced frame is coherent, for every geometry of the screen and *)
(* whatever is written to LCDC, STAT, LYC and LY, unless LY was written in *)
(* VBlank since the frame before.                                          *)
(***************************************************************************)
THEOREM CoherentFrames == MCSpec => CoherentUnlessJumped
<1> DEFINE Coherent == mode # 1 /\ mode' = 1 /\ ~jumped => frameReady' /\ drawn = Visible
<1> DEFINE J == IInv /\ (~jumped => FrameInv)
<1>1. MCInit => J
  BY InitIInv, InitFrame DEF MCInit
<1>2. J /\ [MCNext]_mcVars => J'
  <2> SUFFICES ASSUME J, [MCNext]_mcVars PROVE J'
    OBVIOUS
  <2>1. [Next]_vars
    BY DEF MCNext, mcVars
  <2>2. IInv'
    BY <2>1, NextIInv
  <2>3. CASE VBlankEntry \/ DisableLcd \/ Reset
    BY <2>1, <2>2, <2>3, FrameStarts
  <2>4. CASE ~(VBlankEntry \/ DisableLcd \/ Reset)
    <3> SUFFICES ASSUME ~jumped' PROVE FrameInv'
      BY <2>2
    <3>1. ~jumped /\ [OrderlyNext]_vars
      <4>1. CASE UNCHANGED mcVars
        BY <4>1 DEF mcVars
      <4>2. CASE MCNext
        <5>1. jumped' = (jumped \/ (mode = 1 /\ WriteLY))
          BY <2>4, <4>2, Zenon DEF MCNext
        <5>2. ~jumped /\ ~(mode = 1 /\ WriteLY)
          BY <5>1, Zenon
        <5> QED
          BY <4>2, <5>2, Zenon DEF MCNext, OrderlyNext
      <4> QED
        BY <4>1, <4>2
    <3> QED
      BY <3>1, OrderlyFrame
  <2> QED
    BY <2>3, <2>4
<1>3. J /\ [MCNext]_mcVars => [Coherent]_mcVars
  <2> SUFFICES ASSUME J, MCNext, mode # 1, mode' = 1, ~jumped
               PROVE  frameReady' /\ drawn = Visible
    BY DEF mcVars, vars
  <2>1. FrameInv /\ [Next]_vars
    BY DEF MCNext
  <2>2. StepDot
    BY <2>1, OnlyDotsEnterVBlank
  <2>3. EntersVBlank /\ drawn = Visible
    BY <2>1, <2>2, AtVBlank
  <2> QED
    BY <2>2, <2>3 DEF StepDot
<1>4. MCSpec => [][Coherent]_mcVars
  BY <1>1, <1>2, <1>3, PTL DEF MCSpec
<1> QED
  BY <1>4 DEF CoherentUnlessJumped

-----------------------------------------------------------------------------
(* The length of a frame. *)

\* Lines since VBlank began, and dots since then.
Row(l) == IF l >= VisibleLines THEN l - VisibleLines ELSE l + TotalLines - VisibleLines

BeamAt(l, d) == Row(l) * LineDots + d

LEMMA Rows ==
  ASSUME NEW l \in 0..(TotalLines - 1)
  PROVE  /\ Row(l) \in 0..(TotalLines - 1)
         /\ l + 1 # VisibleLines /\ l + 1 # TotalLines => Row(l + 1) = Row(l) + 1
         /\ l + 1 # VisibleLines /\ l + 1 = TotalLines => Row(0) = Row(l) + 1
BY Constants DEF Row

LEMMA NextProduct ==
  ASSUME NEW n \in Nat, NEW k \in Nat
  PROVE  (n + 1) * k = n * k + k
OBVIOUS

LEMMA LargerProduct ==
  ASSUME NEW m \in Nat, NEW n \in 0..m, NEW k \in Nat
  PROVE  n * k \in Nat /\ n * k <= m * k
<1>1. PICK d \in Nat : m = n + d
  <2>1. m - n \in Nat /\ m = n + (m - n)
    OBVIOUS
  <2> QED
    BY <2>1
<1>2. n * k \in Nat /\ d * k \in Nat
  OBVIOUS
<1>3. (n + d) * k = n * k + d * k
  OBVIOUS
<1> QED
  BY <1>1, <1>2, <1>3

\* Every dot of the screen is less than a frame away from VBlank.
LEMMA BeamInFrame ==
  ASSUME NEW l \in 0..(TotalLines - 1), NEW d \in 0..(LineDots - 1)
  PROVE  BeamAt(l, d) \in 0..(FrameDots - 1)
<1>1. TotalLines - 1 \in Nat /\ LineDots \in Nat /\ TotalLines \in Nat
  BY Constants
<1>2. Row(l) * LineDots \in Nat /\ Row(l) * LineDots <= (TotalLines - 1) * LineDots
  BY <1>1, Rows, LargerProduct
<1>3. ((TotalLines - 1) + 1) * LineDots = (TotalLines - 1) * LineDots + LineDots
  BY <1>1, NextProduct
<1>4. FrameDots = (TotalLines - 1) * LineDots + LineDots
  BY <1>1, <1>3 DEF FrameDots
<1>5. (TotalLines - 1) * LineDots \in Nat
  BY <1>1
<1> QED
  BY <1>1, <1>2, <1>4, <1>5 DEF BeamAt

\* A dot that does not enter VBlank is one dot further from it.
LEMMA BeamAdvances ==
  ASSUME TypeOK, ~(ly + 1 = VisibleLines /\ dot + 1 = LineDots)
  PROVE  BeamAt(NextLine, NextDot) = BeamAt(ly, dot) + 1
<1>1. /\ ly \in 0..(TotalLines - 1) /\ dot \in 0..(LineDots - 1) /\ LineDots \in Nat
      /\ Row(ly) \in Nat
  BY Constants, Rows DEF TypeOK
<1>2. Row(ly) * LineDots \in Nat
  BY <1>1
<1>3. CASE dot + 1 < LineDots
  <2>1. NextLine = ly /\ NextDot = dot + 1
    BY <1>1, <1>3 DEF NextLine, NextDot
  <2> QED
    BY <1>1, <1>2, <2>1 DEF BeamAt
<1>4. CASE dot + 1 = LineDots
  <2>1. NextDot = 0 /\ Row(NextLine) = Row(ly) + 1
    BY <1>1, <1>4, Rows DEF NextLine, NextDot
  <2>2. (Row(ly) + 1) * LineDots = Row(ly) * LineDots + LineDots
    BY <1>1, NextProduct
  <2> QED
    BY <1>1, <1>2, <1>4, <2>1, <2>2 DEF BeamAt
<1> QED
  BY <1>1, <1>3, <1>4

\* VBlank is entered from the last dot of the last visible line.
LEMMA BeamEnters ==
  ASSUME TypeOK, ly < VisibleLines, EntersVBlank
  PROVE  /\ BeamAt(ly, dot) + 1 = FrameDots
         /\ BeamAt(NextLine, NextDot) = 0
<1>1. ly \in Nat /\ dot \in Nat /\ ly <= TotalLines - 1 /\ dot <= LineDots - 1
  BY Constants DEF TypeOK
<1>2. NextLine >= VisibleLines
  BY DEF EntersVBlank, ModeAt
<1>3. ly + 1 = VisibleLines /\ dot + 1 = LineDots /\ NextLine = VisibleLines /\ NextDot = 0
  BY <1>1, <1>2, Constants DEF NextLine, NextDot
<1>4. Row(ly) = TotalLines - 1 /\ Row(VisibleLines) = 0
  BY <1>1, <1>3, Constants DEF Row
<1>5. TotalLines - 1 \in Nat /\ LineDots \in Nat /\ (TotalLines - 1) * LineDots \in Nat
  BY Constants
<1>6. ((TotalLines - 1) + 1) * LineDots = (TotalLines - 1) * LineDots + LineDots
  BY <1>5, NextProduct
<1>7. FrameDots = (TotalLines - 1) * LineDots + LineDots
  BY <1>5, <1>6, Constants DEF FrameDots
<1>8. 0 * LineDots + 0 = 0
  BY <1>5
<1> QED
  BY <1>1, <1>3, <1>4, <1>5, <1>7, <1>8 DEF BeamAt

\* The history tells where the beam is; a unit outside VBlank shows a
\* visible line.
BeamInv ==
  /\ mode # 1 => ly < VisibleLines
  /\ since # NoHistory =>
       /\ lcdOn /\ delay = 0 /\ mode = ModeAt(ly, dot)
       /\ since = BeamAt(ly, dot)

\* A dot outside VBlank is on a visible line.
LEMMA VisibleStep ==
  ASSUME TypeOK, mode # 1 => ly < VisibleLines, [Next]_vars
  PROVE  mode' # 1 => ly' < VisibleLines
<1>1. CASE StepDot
  <2>1. NextLine \in 0..(TotalLines - 1)
    BY Beam
  <2>2. ModeAt(NextLine, NextDot) # 1 => NextLine < VisibleLines
    BY <2>1, Constants DEF ModeAt
  <2> QED
    BY <1>1, <2>2 DEF StepDot
<1>2. CASE ly' = 0
  BY <1>2, Constants
<1>3. CASE mode' = mode /\ ly' = ly
  BY <1>3
<1> QED
  BY <1>1, <1>2, <1>3
  DEF Next, Step, StepOff, StepStartup, EnableLcd, DisableLcd, KeepLcd, WriteSTAT,
      WriteLY, WriteLYC, Acknowledge, TakeFrameReady, Reset, vars

LEMMA BeamStep ==
  ASSUME TypeOK, BeamInv, [MCNext]_mcVars
  PROVE  BeamInv'
<1>1. mode' # 1 => ly' < VisibleLines
  BY VisibleStep DEF BeamInv, MCNext, mcVars
<1>2. CASE since' = NoHistory
  BY <1>1, <1>2 DEF BeamInv
<1>3. CASE MCNext /\ VBlankEntry
  <2>1. since' = 0
    BY <1>3 DEF MCNext
  <2>2. /\ lcdOn' /\ delay' = 0 /\ ly' = NextLine /\ dot' = NextDot
        /\ mode' = ModeAt(NextLine, NextDot)
    BY <1>3 DEF VBlankEntry, StepDot
  <2>3. BeamAt(NextLine, NextDot) = 0
    BY <1>3, BeamEnters DEF VBlankEntry, EntersVBlank, BeamInv
  <2>4. BeamAt(ly', dot') = 0 /\ mode' = ModeAt(ly', dot')
    BY <2>2, <2>3
  <2> QED
    BY <1>1, <2>1, <2>2, <2>4 DEF BeamInv, BeamAt, Row, ModeAt
<1>4. CASE MCNext /\ StepDot /\ ~VBlankEntry /\ since' # NoHistory
  <2>1. ~MovesBeam
    BY <1>4 DEF MCNext
  <2>2. since # NoHistory
    <3>1. NoHistory \notin 0..(FrameDots - 1)
      BY DEF NoHistory
    <3> QED
      BY <1>4, <2>1, <3>1, Zenon DEF MCNext
  <2>3. lcdOn /\ delay = 0 /\ mode = ModeAt(ly, dot) /\ since = BeamAt(ly, dot)
    BY <2>2 DEF BeamInv
  <2>4. ~(ly + 1 = VisibleLines /\ dot + 1 = LineDots)
    <3> SUFFICES ASSUME ly + 1 = VisibleLines, dot + 1 = LineDots PROVE FALSE
      OBVIOUS
    <3>1. ly \in Nat /\ NextLine = VisibleLines
      BY Constants DEF TypeOK, NextLine
    <3>2. ModeAt(NextLine, NextDot) = 1
      BY <3>1, Constants DEF ModeAt
    <3>3. ModeAt(ly, dot) # 1
      BY <3>1, Constants DEF ModeAt
    <3> QED
      BY <1>4, <2>3, <3>2, <3>3 DEF VBlankEntry, EntersVBlank
  <2>5. BeamAt(NextLine, NextDot) = since + 1
    BY <2>3, <2>4, BeamAdvances
  <2>6. since \in 0..(FrameDots - 1)
    BY <2>3, BeamInFrame DEF TypeOK
  <2>7. since' = since + 1
    BY <1>4, <2>1, <2>6, Zenon DEF MCNext
  <2>8. /\ lcdOn' /\ delay' = 0 /\ ly' = NextLine /\ dot' = NextDot
        /\ mode' = ModeAt(NextLine, NextDot)
    BY <1>4, <2>3 DEF StepDot
  <2>9. BeamAt(ly', dot') = since' /\ mode' = ModeAt(ly', dot')
    BY <2>5, <2>7, <2>8
  <2> QED
    BY <1>1, <2>8, <2>9 DEF BeamInv, BeamAt, Row, ModeAt
<1>5. CASE MCNext /\ ~StepDot /\ since' # NoHistory
  <2>1. ~MovesBeam /\ ~VBlankEntry /\ since' = since
    BY <1>5, Zenon DEF MCNext, VBlankEntry
  <2>2. lcdOn /\ delay = 0 /\ mode = ModeAt(ly, dot) /\ since = BeamAt(ly, dot)
    BY <1>5, <2>1 DEF BeamInv
  <2>3. ly' = ly /\ dot' = dot /\ mode' = mode /\ delay' = delay /\ lcdOn' = lcdOn
    BY <1>5, <2>1, <2>2
    DEF MCNext, MovesBeam, Next, Step, StepOff, StepStartup, KeepLcd, WriteSTAT, WriteLYC,
        Acknowledge, TakeFrameReady
  <2> QED
    BY <1>1, <2>1, <2>2, <2>3 DEF BeamInv, BeamAt, Row, ModeAt
<1>6. CASE UNCHANGED mcVars
  BY <1>6 DEF mcVars, vars, BeamInv, BeamAt, Row, ModeAt
<1> QED
  BY <1>2, <1>3, <1>4, <1>5, <1>6

(***************************************************************************)
(* Two VBlank entries with no write that moves the beam between them are   *)
(* exactly one frame apart, for every geometry of the screen and whatever  *)
(* is written to the other registers.                                      *)
(***************************************************************************)
THEOREM FramesAreExact == MCSpec => ExactFrame
<1> DEFINE Exact == VBlankEntry /\ since # NoHistory => since + 1 = FrameDots
<1> DEFINE J == IInv /\ BeamInv
<1>1. MCInit => J
  <2>1. MCInit => IInv
    BY InitIInv DEF MCInit
  <2>2. MCInit => BeamInv
    BY Constants DEF MCInit, Init, BeamInv
  <2> QED
    BY <2>1, <2>2
<1>2. J /\ [MCNext]_mcVars => J'
  <2> SUFFICES ASSUME J, [MCNext]_mcVars PROVE J'
    OBVIOUS
  <2>1. IInv'
    BY NextIInv DEF MCNext, mcVars
  <2>2. BeamInv'
    BY BeamStep DEF IInv
  <2> QED
    BY <2>1, <2>2
<1>3. J /\ [MCNext]_mcVars => [Exact]_mcVars
  <2> SUFFICES ASSUME J, VBlankEntry, since # NoHistory PROVE since + 1 = FrameDots
    OBVIOUS
  <2>1. since = BeamAt(ly, dot) /\ ly < VisibleLines /\ EntersVBlank
    BY DEF BeamInv, VBlankEntry, EntersVBlank
  <2> QED
    BY <2>1, BeamEnters DEF IInv
<1>4. MCSpec => [][Exact]_mcVars
  BY <1>1, <1>2, <1>3, PTL DEF MCSpec
<1> QED
  BY <1>4 DEF ExactFrame

(***************************************************************************)
(* Nothing that is derived from the registers is stale, for every          *)
(* geometry.                                                               *)
(***************************************************************************)
THEOREM NothingStale == Spec => []DerivedStateIsFresh
BY TypeCorrect, StatNeverStale, CoincidenceNeverStale, OffMeansNoFrame, PTL
   DEF DerivedStateIsFresh
=============================================================================
