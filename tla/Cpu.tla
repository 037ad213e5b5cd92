-------------------------------- MODULE Cpu --------------------------------
(***************************************************************************)
(* The control part of the processor of core/src/cpu.rs: when Cpu::step    *)
(* dispatches an interrupt, sleeps or executes, and what EI, DI, RETI,     *)
(* HALT, STOP and an undefined opcode do to it.                            *)
(*                                                                         *)
(* The program is the environment: a step executes any instruction, of     *)
(* which only the bytes it fetches and its effect on this state are kept.  *)
(* A jump, call or return ends at any address.                             *)
(***************************************************************************)
EXTENDS Integers

CONSTANTS
  AddressSpace,    \* 65536
  Interrupts,      \* the interrupt sources by number, 0..4
  FirstVector,     \* VECTORS[0], 64
  VectorSpacing,   \* distance of two entries of VECTORS, 8
  StartAddresses   \* where Cpu::new and its no-boot variants start

Address == 0..(AddressSpace - 1)

ASSUME CpuAssumption ==
  /\ AddressSpace \in Nat \ {0}
  /\ Interrupts \subseteq Nat
  /\ \A i \in Interrupts : FirstVector + VectorSpacing * i \in Address
  /\ StartAddresses \subseteq Address /\ StartAddresses # {}

VARIABLES
  pc,
  halted,      \* asleep by HALT, by STOP or by an undefined opcode
  locked,      \* halted_by_unimplemented_opcode
  ime,         \* interrupt master enable
  imePending,  \* ime_enable_pending: EI was the last instruction
  haltBug,     \* halt_bug_active: the next fetch does not advance pc
  iflag,       \* IF
  enabled      \* IE

cpuVars == <<pc, halted, locked, ime, imePending, haltBug, iflag, enabled>>

-----------------------------------------------------------------------------

\* pending_interrupts
Pending == iflag \cap enabled

Wrap(a) == a % AddressSpace

\* Where pc stands after n calls of fetch8.
Fetched(n) == Wrap(IF haltBug THEN pc + n - 1 ELSE pc + n)

\* What Cpu::step decides before it fetches an opcode.
Services == Pending # {} /\ ~locked /\ ime
Wakes    == Pending # {} /\ ~locked /\ ~ime
Executes == Wakes \/ (~halted /\ ~Services)

(***************************************************************************)
(* A store may hit IF (which stands at f) or IE, and so may a push if the  *)
(* stack pointer is there.  A store to a device register may also raise    *)
(* its bit of IF.                                                          *)
(***************************************************************************)
Stores(f) ==
  \/ iflag' \in SUBSET Interrupts /\ UNCHANGED enabled
  \/ enabled' \in SUBSET Interrupts /\ iflag' = f

\* Interrupt enabling at the end of every instruction but DI and RETI.
Enable == ime' = (ime \/ imePending)

-----------------------------------------------------------------------------

Init ==
  /\ pc \in StartAddresses
  /\ halted = FALSE /\ locked = FALSE
  /\ ime = FALSE /\ imePending = FALSE /\ haltBug = FALSE
  /\ iflag = {} /\ enabled = {}

\* service_interrupt, for the pending request of the lowest number.  It ends a
\* sleep first, and pushes pc after it has cleared the request.
Dispatch ==
  /\ Services
  /\ \E i \in Pending :
       /\ \A j \in Pending : i <= j
       /\ Stores(iflag \ {i})
       /\ pc' = FirstVector + VectorSpacing * i
  /\ halted' = FALSE
  /\ ime' = FALSE /\ imePending' = FALSE
  /\ UNCHANGED <<locked, haltBug>>

\* The early return of a processor that stays asleep.
Sleep ==
  /\ halted /\ ~Services /\ ~Wakes
  /\ UNCHANGED cpuVars

\* What all instructions but HALT, STOP and the undefined ones have in common.
Completes ==
  /\ Executes
  /\ halted' = FALSE /\ haltBug' = FALSE
  /\ UNCHANGED locked

\* An instruction of n bytes without a part of its own in this module.
Ordinary(n) ==
  /\ Completes /\ Enable
  /\ imePending' = FALSE
  /\ pc' = Fetched(n)
  /\ Stores(iflag)

\* JR, JP, CALL, RST and RET, taken.
Jump ==
  /\ Completes /\ Enable
  /\ imePending' = FALSE
  /\ pc' \in Address
  /\ Stores(iflag)

Ei ==
  /\ Completes /\ Enable
  /\ imePending' = TRUE
  /\ pc' = Fetched(1)
  /\ UNCHANGED <<iflag, enabled>>

\* Mutant of Di: the EI before it still opens the mask.
DiTooLate ==
  /\ Completes /\ Enable
  /\ imePending' = FALSE
  /\ pc' = Fetched(1)
  /\ UNCHANGED <<iflag, enabled>>

Di ==
  /\ Completes
  /\ ime' = FALSE /\ imePending' = FALSE
  /\ pc' = Fetched(1)
  /\ UNCHANGED <<iflag, enabled>>

Reti ==
  /\ Completes
  /\ ime' = TRUE /\ imePending' = FALSE
  /\ pc' \in Address
  /\ UNCHANGED <<iflag, enabled>>

\* Mutants of HaltFallsThrough: an EI just before is not looked at, or pc is
\* not moved back.
HaltBugAlways ==
  /\ Executes /\ ~ime /\ Pending # {}
  /\ Enable /\ imePending' = FALSE
  /\ pc' = Fetched(1) /\ haltBug' = TRUE
  /\ halted' = FALSE
  /\ UNCHANGED <<locked, iflag, enabled>>

HaltNotRepeated ==
  /\ Executes /\ ~ime /\ Pending # {}
  /\ Enable /\ imePending' = FALSE
  /\ pc' = Fetched(1) /\ haltBug' = ~imePending
  /\ halted' = FALSE
  /\ UNCHANGED <<locked, iflag, enabled>>

\* execute_halt with a request pending and ime still off: HALT does not sleep.
\* Directly after EI it is executed again when the handler returns, otherwise
\* the byte after it is fetched twice.
HaltFallsThrough ==
  /\ Executes /\ ~ime /\ Pending # {}
  /\ Enable /\ imePending' = FALSE
  /\ IF imePending THEN pc' = Wrap(Fetched(1) - 1) /\ haltBug' = FALSE
     ELSE pc' = Fetched(1) /\ haltBug' = TRUE
  /\ halted' = FALSE
  /\ UNCHANGED <<locked, iflag, enabled>>

\* Mutant of HaltSleeps: the pending requests are not looked at.
HaltSleepsAnyway ==
  /\ Executes
  /\ Enable /\ imePending' = FALSE
  /\ pc' = Fetched(1) /\ haltBug' = FALSE
  /\ halted' = TRUE
  /\ UNCHANGED <<locked, iflag, enabled>>

HaltSleeps ==
  /\ Executes /\ ~(~ime /\ Pending # {})
  /\ Enable /\ imePending' = FALSE
  /\ pc' = Fetched(1) /\ haltBug' = FALSE
  /\ halted' = TRUE
  /\ UNCHANGED <<locked, iflag, enabled>>

Halt == HaltFallsThrough \/ HaltSleeps

\* STOP sleeps unless the program has prepared a speed switch (KEY1).
Stop ==
  /\ Executes
  /\ Enable /\ imePending' = FALSE
  /\ pc' = Fetched(2) /\ haltBug' = FALSE
  /\ halted' \in BOOLEAN
  /\ locked' = FALSE
  /\ UNCHANGED <<iflag, enabled>>

\* handle_unimplemented_opcode
Undefined ==
  /\ Executes
  /\ Enable /\ imePending' = FALSE
  /\ pc' = Fetched(1) /\ haltBug' = FALSE
  /\ halted' = TRUE /\ locked' = TRUE
  /\ UNCHANGED <<iflag, enabled>>

Instruction ==
  \/ \E n \in 1..3 : Ordinary(n)
  \/ Jump \/ Ei \/ Di \/ Reti \/ Halt \/ Stop \/ Undefined

\* Cpu::step
Step == Dispatch \/ Sleep \/ Instruction

\* A device requests an interrupt between two steps.
Request(i) ==
  /\ iflag' = iflag \cup {i}
  /\ UNCHANGED <<pc, halted, locked, ime, imePending, haltBug, enabled>>

Reset ==
  /\ pc' \in StartAddresses
  /\ halted' = FALSE /\ locked' = FALSE
  /\ ime' = FALSE /\ imePending' = FALSE /\ haltBug' = FALSE
  /\ iflag' = {} /\ enabled' = {}

Next == Step \/ (\E i \in Interrupts : Request(i)) \/ Reset

Spec == Init /\ [][Next]_cpuVars

-----------------------------------------------------------------------------

TypeOK ==
  /\ pc \in Address
  /\ {halted, locked, ime, imePending, haltBug} \subseteq BOOLEAN
  /\ iflag \subseteq Interrupts
  /\ enabled \subseteq Interrupts

(***************************************************************************)
(* The flags that act on a later step never meet.  The halt bug waits only *)
(* in a processor that is awake and masked, so no dispatch can come        *)
(* between HALT and the fetch it spoils; nothing waits in a sleeping one.  *)
(***************************************************************************)
OneDelayedEffect ==
  /\ haltBug => ~ime /\ ~imePending /\ ~halted
  /\ halted => ~imePending
  /\ locked => halted

(***************************************************************************)
(* While the machine runs, only a reset ends a lock-up: no request wakes   *)
(* the processor and STOP, which clears halted_by_unimplemented_opcode, is *)
(* out of its reach.  (The host may also put a saved state in place of the *)
(* machine; the slots are in Session and Frontend.)                        *)
(***************************************************************************)
LockUpIsFinal ==
  [][locked => \/ UNCHANGED <<pc, halted, locked, ime, imePending, haltBug, enabled>>
               \/ Reset]_cpuVars

(***************************************************************************)
(* HALT decides with the requests read before its fetch.  Whatever the     *)
(* state of ime and of an EI just before, the processor goes to sleep only *)
(* if none is pending, and so never sleeps through one.                    *)
(***************************************************************************)
HaltHeedsRequests ==
  [][Halt /\ halted' /\ ~halted => Pending = {}]_cpuVars

(***************************************************************************)
(* The delayed effects of EI and HALT never meet, and every register keeps *)
(* its range while they overlap.                                           *)
(***************************************************************************)
EffectsAreOrdered == TypeOK /\ OneDelayedEffect

(***************************************************************************)
(* The processor stops for the right reasons only: it sleeps while nothing *)
(* is requested, and is locked up until a reset as long as it runs.        *)
(***************************************************************************)
SleepsRightly == HaltHeedsRequests /\ LockUpIsFinal
=============================================================================
