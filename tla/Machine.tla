------------------------------ MODULE Machine ------------------------------
(***************************************************************************)
(* The machine the emulator stands for: the processor takes one step, the  *)
(* devices run for the clock cycles it took, and so on for ever.  There    *)
(* are no calls, no budget of cycles and no shortcut for a sleeping        *)
(* processor: this is the loop of core/src/lib.rs without its fast path.   *)
(*                                                                         *)
(* Of the devices only their promise to the processor is kept, that of     *)
(* timer_may_generate_interrupt and ppu_may_generate_interrupt: while the  *)
(* answer is no, time alone raises no enabled interrupt and leaves the     *)
(* answer no.  Timer and Ppu keep it (their QuietStaysQuiet).              *)
(***************************************************************************)
EXTENDS Cpu

CONSTANTS
  TickInterrupts,  \* interrupts that devices raise as time passes
  Lengths          \* cycles an instruction may last

ASSUME MachineAssumption ==
  /\ TickInterrupts \subseteq Interrupts
  /\ Lengths \subseteq {4 * m : m \in 1..6} /\ Lengths # {}

VARIABLES
  armed,  \* interrupts that passing time may raise while they are enabled
  due     \* cycles of the last step the devices have still to run

machineVars == <<cpuVars, armed, due>>

MachineInit == Init /\ armed = {} /\ due = 0

(***************************************************************************)
(* Cpu::step and the number of cycles it returns.  What an instruction or  *)
(* the push of a dispatch stores may reprogram the devices.                *)
(***************************************************************************)
Instruct ==
  /\ due = 0
  /\ \/ Dispatch /\ due' = 20 /\ armed' \in SUBSET TickInterrupts
     \/ Sleep /\ due' = 4 /\ UNCHANGED armed
     \/ (Halt \/ Undefined) /\ due' = 4 /\ UNCHANGED armed
     \/ (Ei \/ Di) /\ due' = 4 /\ UNCHANGED armed
     \/ /\ (\E n \in 1..3 : Ordinary(n)) \/ Jump \/ Reti \/ Stop
        /\ due' \in Lengths
        /\ armed' \in SUBSET TickInterrupts

\* Bus::tick for the cycles due.
Tick ==
  /\ due # 0 /\ due' = 0
  /\ armed' \in SUBSET armed
  /\ \E raised \in SUBSET TickInterrupts :
       /\ raised \cap enabled \subseteq armed
       /\ iflag' = iflag \cup raised
  /\ UNCHANGED <<pc, halted, locked, ime, imePending, haltBug, enabled>>

\* A button is pressed between two steps.
Press(i) ==
  /\ due = 0
  /\ Request(i)
  /\ UNCHANGED <<armed, due>>

MachineReset == due = 0 /\ Reset /\ armed' = {} /\ UNCHANGED due

MachineNext ==
  \/ Instruct
  \/ Tick
  \/ \E i \in Interrupts \ TickInterrupts : Press(i)
  \/ MachineReset

MachineSpec == MachineInit /\ [][MachineNext]_machineVars
=============================================================================
