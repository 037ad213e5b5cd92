------------------------------ MODULE Emulator ------------------------------
(***************************************************************************)
(* Emulator::step_cycles_with_observer of core/src/lib.rs: the frontend    *)
(* asks for a number of cycles, the loop executes whole instructions until *)
(* they are used up and carries the rest into the next call, an observer   *)
(* may stop it between two instructions, and a processor asleep with quiet *)
(* devices is not stepped but fast-forwarded to the end of the call.       *)
(***************************************************************************)
EXTENDS Machine

CONSTANT Requests  \* numbers of cycles the frontend asks for

ASSUME EmulatorAssumption == Requests \subseteq Nat

VARIABLES
  phase,      \* "idle" between two calls, "loop" or "fast" inside one
  target,     \* cycles asked for
  available,  \* cycles executed in this call, and carried into it
  carry,      \* cycle_carry
  advance,    \* halted_advance of the fast-forward under way
  left,       \* the part of it that the devices have still to run
  ahead       \* history: cycles the devices ran beyond total_cycles

loopVars == <<phase, target, available, carry, advance, left, ahead>>
emulatorVars == <<machineVars, loopVars>>

MaxLength == 24

RoundUp(n) == ((n + 3) \div 4) * 4

\* Mutants of CanFastForward: the devices, or the requests, are not asked.
SleepsUnwatched == halted /\ (Pending = {} \/ locked)
SleepsDeaf      == halted /\ armed = {}

\* The condition of the fast path.
CanFastForward ==
  /\ halted
  /\ Pending = {} \/ locked  \* locked: not halted_is_interrupt_wakeable
  /\ armed = {}

-----------------------------------------------------------------------------

EmulatorInit ==
  /\ MachineInit
  /\ phase = "idle" /\ target = 0 /\ available = 0 /\ carry = 0
  /\ advance = 0 /\ left = 0 /\ ahead = 0

Begin(n) ==
  /\ phase = "idle"
  /\ phase' = "loop" /\ target' = n /\ available' = carry
  /\ UNCHANGED <<machineVars, carry, advance, left, ahead>>

Running == phase = "loop" /\ due = 0 /\ available < target

ExecuteOne ==
  /\ Running /\ ~CanFastForward
  /\ Instruct
  /\ UNCHANGED loopVars

\* The devices run for the instruction, and its cycles are accounted.
TickInstruction ==
  /\ phase = "loop"
  /\ Tick
  /\ available' = available + due
  /\ ahead' = ahead + due
  /\ UNCHANGED <<phase, target, carry, advance, left>>

FastForward ==
  /\ Running /\ CanFastForward
  /\ phase' = "fast"
  /\ advance' = RoundUp(target - available) /\ left' = advance'
  /\ UNCHANGED <<machineVars, target, available, carry, ahead>>

\* tick_bus_cycles_for_cpu_cycles(halted_advance), in portions of four cycles:
\* the processor is not looked at between them.
FastPortion ==
  /\ phase = "fast" /\ due = 0 /\ left # 0
  /\ due' = 4 /\ left' = left - 4
  /\ UNCHANGED <<cpuVars, armed, phase, target, available, carry, advance, ahead>>

TickPortion ==
  /\ phase = "fast"
  /\ Tick
  /\ ahead' = ahead + due
  /\ UNCHANGED <<phase, target, available, carry, advance, left>>

\* Mutant of FastDone: what the fast path ran beyond the target is forgotten.
FastDoneShort ==
  /\ phase = "fast" /\ due = 0 /\ left = 0
  /\ phase' = "loop"
  /\ available' = target /\ advance' = 0
  /\ UNCHANGED <<machineVars, target, carry, left, ahead>>

FastDone ==
  /\ phase = "fast" /\ due = 0 /\ left = 0
  /\ phase' = "loop"
  /\ available' = available + advance /\ advance' = 0
  /\ UNCHANGED <<machineVars, target, carry, left, ahead>>

\* The observer stops the loop, or the cycles are used up.
Finish(stopped) ==
  /\ phase = "loop" /\ due = 0
  /\ stopped \/ available >= target
  /\ LET consumed == IF stopped THEN available ELSE target
     IN carry' = available - consumed /\ ahead' = ahead - consumed
  /\ phase' = "idle" /\ target' = 0 /\ available' = 0
  /\ UNCHANGED <<machineVars, advance, left>>

\* Between two calls the frontend may press a button or reset the emulator.
PressIdle(i) == phase = "idle" /\ Press(i) /\ UNCHANGED loopVars

ResetIdle ==
  /\ phase = "idle"
  /\ MachineReset
  /\ carry' = 0 /\ ahead' = 0
  /\ UNCHANGED <<phase, target, available, advance, left>>

Inside ==
  \/ ExecuteOne \/ TickInstruction
  \/ FastForward \/ FastPortion \/ TickPortion \/ FastDone
  \/ Finish(FALSE)

Outside ==
  \/ \E n \in Requests : Begin(n)
  \/ \E i \in Interrupts \ TickInterrupts : PressIdle(i)
  \/ ResetIdle

EmulatorNext == Inside \/ Outside \/ Finish(TRUE)

EmulatorSpec == EmulatorInit /\ [][EmulatorNext]_emulatorVars

(***************************************************************************)
(* A call that was begun proceeds: it is one thread.                       *)
(***************************************************************************)
FairSpec == EmulatorSpec /\ WF_emulatorVars(Inside)

(***************************************************************************)
(* The frontend keeps asking for cycles, and from some time on no observer *)
(* takes back what it asked for; step_cycles passes one that never does.   *)
(***************************************************************************)
StopsEarly == available < target /\ Finish(TRUE)

KeepsAsking == []<>(target # 0) /\ <>[][~StopsEarly]_emulatorVars

-----------------------------------------------------------------------------

LoopTypeOK ==
  /\ TypeOK
  /\ armed \subseteq TickInterrupts
  /\ due \in {0, 20} \cup Lengths \cup {4}
  /\ phase \in {"idle", "loop", "fast"}
  /\ target \in Requests \cup {0}
  /\ {available, carry, advance, left, ahead} \subseteq Nat

(***************************************************************************)
(* Between two calls the devices have run exactly cycle_carry cycles more  *)
(* than the emulator has accounted for, and that is less than the longest  *)
(* instruction, whatever was asked for and wherever an observer stopped:   *)
(* time is neither lost nor counted twice, and never drifts.               *)
(***************************************************************************)
CarryIsExact == phase = "idle" => carry = ahead /\ carry < MaxLength

(***************************************************************************)
(* The fast path cannot be observed: every behaviour of the emulator is    *)
(* one of the plain machine, in which the processor is stepped for every   *)
(* four cycles it sleeps.  No request that a device raises while the       *)
(* devices are fast-forwarded would have woken it.                         *)
(***************************************************************************)
ImplementsMachine == MachineSpec

(***************************************************************************)
(* If the frontend keeps asking, a processor that stays asleep while an    *)
(* enabled request is pending wakes, again and again: it executes (an      *)
(* instruction that puts it back to sleep, if it still sleeps), in spite   *)
(* of the fast path and of calls that the carry uses up.                   *)
(***************************************************************************)
SleepersWake ==
  KeepsAsking /\ <>[](halted /\ ~locked /\ Pending # {})
    => []<><<Dispatch \/ Instruction>>_emulatorVars

(***************************************************************************)
(* If the frontend keeps asking, a request that the processor is free to   *)
(* serve is served.                                                        *)
(***************************************************************************)
RequestsAreServed == KeepsAsking => (Services ~> ~Services)

(***************************************************************************)
(* The accounting of the loop: every number keeps its range, also inside a *)
(* call, and between two calls they add up.                                *)
(***************************************************************************)
CyclesAddUp == LoopTypeOK /\ CarryIsExact
=============================================================================
