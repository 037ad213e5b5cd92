------------------------------- MODULE Timer -------------------------------
(***************************************************************************)
(* The programmable timer of core/src/timer.rs (registers DIV, TIMA, TMA   *)
(* and TAC) as the bus drives it: the processor executes one instruction,  *)
(* whose register writes land at once, and then Bus::tick steps the timer  *)
(* once for every clock cycle the instruction lasted.                      *)
(***************************************************************************)
EXTENDS Integers

CONSTANTS
  DividerSize,        \* size of the 16-bit divider, 65536 in the code
  TimaMax,            \* largest value of TIMA and TMA, 255 in the code
  InstructionLengths  \* cycles one Cpu::step may last

(***************************************************************************)
(* 1024 is twice the half period of the slowest clock select, so the       *)
(* divider's wrap-around is a falling edge of every select.  Every cycle   *)
(* count of core/build.rs is a multiple of 4.                              *)
(***************************************************************************)
ASSUME TimerAssumption ==
  /\ DividerSize \in Nat /\ DividerSize > 0 /\ DividerSize % 1024 = 0
  /\ TimaMax \in Nat \ {0}
  /\ InstructionLengths \subseteq {4 * m : m \in 1..6}
  /\ InstructionLengths # {}

VARIABLES
  divider,   \* the system counter whose high byte is DIV
  tima,      \* timer counter
  tma,       \* timer modulo
  tac,       \* timer control: bit 2 enables, bits 0-1 select the clock
  reload,    \* overflow_reload_delay, with None as 0
  request,   \* the timer's bit of the interrupt flag register IF
  ticks,     \* cycles of the current instruction Bus::tick has still to run
  written    \* timer registers the current instruction wrote so far

timerVars == <<divider, tima, tma, tac, reload>>
vars == <<divider, tima, tma, tac, reload, request, ticks, written>>

Registers == {"DIV", "TIMA", "TMA", "TAC"}
Address   == [DIV |-> 0, TIMA |-> 1, TMA |-> 2, TAC |-> 3]

\* Mutant of ReloadDelay.
ReloadDelayTriple == 12

ReloadDelay == 4

-----------------------------------------------------------------------------

(***************************************************************************)
(* Number of cycles the divider bit that TAC value t selects stays at one  *)
(* level: two to the number of the bit (9, 3, 5 or 7).                     *)
(***************************************************************************)
HalfPeriod(t) == CASE t % 4 = 0 -> 512
                   [] t % 4 = 1 -> 8
                   [] t % 4 = 2 -> 32
                   [] t % 4 = 3 -> 128

Enabled(t) == t >= 4

\* The level the edge detector sees for divider value d and TAC value t.
Input(d, t) == Enabled(t) /\ (d \div HalfPeriod(t)) % 2 = 1

\* Mutant of MayGenerateInterrupt: a reload under way is forgotten.
MayGenerateByEdges == Enabled(tac)

MayGenerateInterrupt == Enabled(tac) \/ reload # 0

(***************************************************************************)
(* TIMA and the reload countdown as one record, because an edge and the    *)
(* countdown change them together.                                         *)
(***************************************************************************)
Counter == [tima |-> tima, reload |-> reload]

Increment(c) ==
  IF c.reload # 0 THEN c
  ELSE IF c.tima = TimaMax THEN [tima |-> 0, reload |-> ReloadDelay]
  ELSE [tima |-> c.tima + 1, reload |-> 0]

\* The counter c after the input moved from level `before` to level `after`.
ApplyEdge(c, before, after) ==
  IF before /\ ~after THEN Increment(c) ELSE c

\* One cycle of the countdown; TMA is copied when it runs out.
AdvanceReload == [tima   |-> IF reload = 1 THEN tma ELSE tima,
                  reload |-> IF reload = 0 THEN 0 ELSE reload - 1]

SetCounter(c) == tima' = c.tima /\ reload' = c.reload

\* wrapping_add(1) on the divider.
Succ(d) == IF d = DividerSize - 1 THEN 0 ELSE d + 1

-----------------------------------------------------------------------------

Init ==
  /\ divider = 0 /\ tima = 0 /\ tma = 0 /\ tac = 0 /\ reload = 0
  /\ request = FALSE
  /\ ticks = 0
  /\ written = {}

\* Mutant of Step: the edge is applied before the countdown advances.
StepEdgeFirst ==
  LET edge == ApplyEdge(Counter, Input(divider, tac), Input(Succ(divider), tac))
  IN /\ ticks > 0
     /\ divider' = Succ(divider)
     /\ SetCounter([tima   |-> IF edge.reload = 1 THEN tma ELSE edge.tima,
                    reload |-> IF edge.reload = 0 THEN 0 ELSE edge.reload - 1])
     /\ request' = (request \/ edge.reload = 1)
     /\ ticks' = ticks - 1
     /\ UNCHANGED <<tma, tac, written>>

(***************************************************************************)
(* Timer::step, once per cycle inside Bus::tick: first the countdown, then *)
(* the divider, then the edge detector.                                    *)
(***************************************************************************)
Step ==
  /\ ticks > 0
  /\ divider' = Succ(divider)
  /\ SetCounter(ApplyEdge(AdvanceReload,
                          Input(divider, tac), Input(Succ(divider), tac)))
  /\ request' = (request \/ reload = 1)
  /\ ticks' = ticks - 1
  /\ UNCHANGED <<tma, tac, written>>

(***************************************************************************)
(* An instruction writes memory at most twice, and two writes are to       *)
(* neighbouring addresses in either order (LD (a16),SP upwards; PUSH,      *)
(* CALL, RST and the interrupt dispatch downwards).                        *)
(***************************************************************************)
MayWrite(r) ==
  /\ ticks = 0
  /\ \A s \in written : written = {s} /\ Address[s] - Address[r] \in {-1, 1}

Written(r) ==
  /\ written' = written \cup {r}
  /\ UNCHANGED <<request, ticks>>

\* Mutant of WriteDIV: clearing the divider is no edge.
WriteDIVNoEdge ==
  /\ MayWrite("DIV") /\ Written("DIV")
  /\ divider' = 0
  /\ UNCHANGED <<tima, tma, tac, reload>>

WriteDIV ==
  /\ MayWrite("DIV") /\ Written("DIV")
  /\ divider' = 0
  /\ SetCounter(ApplyEdge(Counter, Input(divider, tac), Input(0, tac)))
  /\ UNCHANGED <<tma, tac>>

WriteTIMA(v) ==
  /\ MayWrite("TIMA") /\ Written("TIMA")
  /\ tima' = v
  /\ reload' = 0
  /\ UNCHANGED <<divider, tma, tac>>

WriteTMA(v) ==
  /\ MayWrite("TMA") /\ Written("TMA")
  /\ tma' = v
  /\ UNCHANGED <<divider, tima, tac, reload>>

\* t is the written value with its five unused bits masked off.
WriteTAC(t) ==
  /\ MayWrite("TAC") /\ Written("TAC")
  /\ tac' = t
  /\ SetCounter(ApplyEdge(Counter, Input(divider, tac), Input(divider, t)))
  /\ UNCHANGED <<divider, tma>>

(***************************************************************************)
(* The instruction is over: n cycles are due.  It may have cleared the     *)
(* request, by writing IF or because it was the dispatch of the interrupt. *)
(***************************************************************************)
FinishInstruction(n, clear) ==
  /\ ticks = 0
  /\ ticks' = n
  /\ written' = {}
  /\ request' = (request /\ ~clear)
  /\ UNCHANGED timerVars

\* Emulator::reset between two instructions: Timer::default, IF zeroed.
Reset ==
  /\ ticks = 0 /\ written = {}
  /\ divider' = 0 /\ tima' = 0 /\ tma' = 0 /\ tac' = 0 /\ reload' = 0
  /\ request' = FALSE
  /\ UNCHANGED <<ticks, written>>

Write ==
  \/ WriteDIV
  \/ \E v \in 0..TimaMax : WriteTIMA(v) \/ WriteTMA(v)
  \/ \E t \in 0..7 : WriteTAC(t)

Next ==
  \/ Step
  \/ Write
  \/ \E n \in InstructionLengths, clear \in BOOLEAN : FinishInstruction(n, clear)
  \/ Reset

Spec == Init /\ [][Next]_vars

-----------------------------------------------------------------------------

TypeOK ==
  /\ divider \in 0..(DividerSize - 1)
  /\ tima \in 0..TimaMax
  /\ tma \in 0..TimaMax
  /\ tac \in 0..7
  /\ reload \in 0..ReloadDelay
  /\ request \in BOOLEAN
  /\ ticks \in 0..24
  /\ written \subseteq Registers

(***************************************************************************)
(* An instruction that finds a reload pending finds it exactly one machine *)
(* cycle away.  TIMA writes cancel a reload at any countdown value; that   *)
(* software sees one and only one machine cycle in which it can do so      *)
(* follows from the order inside Timer::step, the delay of 4 and the       *)
(* instruction lengths together.                                           *)
(***************************************************************************)
CancelWindow ==
  ticks = 0 /\ reload # 0 => reload = ReloadDelay

(***************************************************************************)
(* While a reload is pending TIMA reads zero, so a program that polls TIMA *)
(* never sees a count that the reload then throws away.                    *)
(***************************************************************************)
PendingReadsZero ==
  reload # 0 => tima = 0

(***************************************************************************)
(* increment_tima returns early while a reload is pending.  That return is *)
(* never taken: whatever the program writes to DIV and TAC, and whichever  *)
(* way the clock select moves, every falling edge of the selected divider  *)
(* bit either advances TIMA by one or overflows it and starts a new        *)
(* countdown.  No timer tick is lost.                                      *)
(***************************************************************************)
EdgeFalls == Input(divider, tac) /\ ~Input(divider, tac)'

EdgeCounts ==
  /\ reload <= 1
  /\ \/ reload' = 0 /\ tima' = AdvanceReload.tima + 1
     \/ reload' = ReloadDelay /\ AdvanceReload.tima = TimaMax

NoEdgeLost == [][(Step \/ Write) /\ EdgeFalls => EdgeCounts]_vars

(***************************************************************************)
(* The fast path for a halted processor skips the interrupt check for as   *)
(* long as timer_may_generate_interrupt is false.  A step taken while it   *)
(* is false neither requests the interrupt nor makes it true.              *)
(***************************************************************************)
QuietStaysQuiet ==
  [][Step /\ ~MayGenerateInterrupt
       => ~MayGenerateInterrupt' /\ UNCHANGED <<request, tima>>]_vars

(***************************************************************************)
(* What software relies on around a reload: the registers in their ranges, *)
(* the machine cycle in which it can be cancelled, and the zero it reads   *)
(* meanwhile.                                                              *)
(***************************************************************************)
ReloadIsKept == TypeOK /\ CancelWindow /\ PendingReadsZero
=============================================================================
