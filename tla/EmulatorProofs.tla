--------------------------- MODULE EmulatorProofs ---------------------------
(***************************************************************************)
(* What Cpu promises for every address space and every set of interrupts,  *)
(* and that it implements InterruptMask; and that the loop of step_cycles  *)
(* implements the plain machine and accounts for every cycle, for every set*)
(* of instruction lengths and of requested numbers of cycles.              *)
(***************************************************************************)
EXTENDS Emulator, LabelledCpu, TLAPS

-----------------------------------------------------------------------------
(* The processor *)

\* The inductive invariant: types, and the delayed effects that exclude one
\* another.
IInv == TypeOK /\ OneDelayedEffect

\* Addresses that a fetch computes are addresses.
LEMMA Addresses ==
  ASSUME pc \in Address, NEW n \in 1..3
  PROVE  Fetched(n) \in Address /\ Wrap(Fetched(n) - 1) \in Address
<1>1. AddressSpace \in Nat /\ AddressSpace > 0
  BY CpuAssumption
<1>2. pc + n \in Int /\ pc + n - 1 \in Int
  BY <1>1 DEF Address
<1>3. \A a \in Int : a % AddressSpace \in Address
  BY <1>1 DEF Address
<1>4. Fetched(n) \in Address
  BY <1>2, <1>3 DEF Fetched, Wrap
<1>5. Fetched(n) - 1 \in Int
  BY <1>1, <1>4 DEF Address
<1> QED
  BY <1>3, <1>4, <1>5 DEF Wrap

\* The invariant holds after a reset.
LEMMA InitIInv ==
  Init => IInv
BY CpuAssumption DEF Init, IInv, TypeOK, OneDelayedEffect

\* A store leaves the interrupt registers well typed.
LEMMA StoresType ==
  ASSUME NEW f \in SUBSET Interrupts, enabled \subseteq Interrupts, Stores(f)
  PROVE  iflag' \subseteq Interrupts /\ enabled' \subseteq Interrupts
BY DEF Stores

\* A dispatch keeps the invariant: it needs ime, so no halt bug waits.
LEMMA DispatchIInv ==
  ASSUME IInv, Dispatch
  PROVE  IInv'
<1> USE DEF IInv
<1>1. PICK i \in Pending : Stores(iflag \ {i}) /\ pc' = FirstVector + VectorSpacing * i
  BY DEF Dispatch
<1>2. i \in Interrupts
  BY DEF Pending, TypeOK
<1>3. pc' \in Address
  BY <1>1, <1>2, CpuAssumption
<1>4. iflag' \subseteq Interrupts /\ enabled' \subseteq Interrupts
  BY <1>1, StoresType DEF TypeOK
<1>5. ~haltBug /\ ~locked
  BY DEF Dispatch, Services, OneDelayedEffect
<1>6. ~halted' /\ ~ime' /\ ~imePending' /\ haltBug' = haltBug /\ locked' = locked
  BY DEF Dispatch
<1>7. {halted', locked', ime', imePending', haltBug'} \subseteq BOOLEAN
  BY <1>6 DEF Dispatch, TypeOK
<1> QED
  BY <1>3, <1>4, <1>5, <1>6, <1>7 DEF TypeOK, OneDelayedEffect

\* An instruction keeps the invariant.
LEMMA InstructionIInv ==
  ASSUME IInv, Instruction
  PROVE  IInv'
<1> USE DEF IInv
<1>0. ~locked
  BY DEF Instruction, Ordinary, Jump, Ei, Di, Reti, Halt, HaltSleeps, HaltFallsThrough,
         Stop, Undefined, Completes, Executes, Wakes, OneDelayedEffect
<1>a. /\ \A n \in 1..3 : Fetched(n) \in Address
      /\ Fetched(1) \in Address /\ Fetched(2) \in Address
      /\ Wrap(Fetched(1) - 1) \in Address
  BY Addresses DEF TypeOK
<1>b. /\ ime \in BOOLEAN /\ imePending \in BOOLEAN /\ haltBug \in BOOLEAN
      /\ locked \in BOOLEAN /\ halted \in BOOLEAN
      /\ iflag \subseteq Interrupts /\ enabled \subseteq Interrupts
  BY DEF TypeOK
<1>1. ASSUME NEW n \in 1..3, Ordinary(n) PROVE IInv'
  <2>1. iflag' \subseteq Interrupts /\ enabled' \subseteq Interrupts
    BY <1>1, <1>b, StoresType DEF Ordinary
  <2> QED
    BY <1>0, <1>1, <1>a, <1>b, <2>1
       DEF Ordinary, Completes, Enable, TypeOK, OneDelayedEffect
<1>2. ASSUME Jump PROVE IInv'
  <2>1. iflag' \subseteq Interrupts /\ enabled' \subseteq Interrupts
    BY <1>2, <1>b, StoresType DEF Jump
  <2> QED
    BY <1>0, <1>2, <1>b, <2>1 DEF Jump, Completes, Enable, TypeOK, OneDelayedEffect
<1>3. ASSUME Ei PROVE IInv'
  BY <1>0, <1>3, <1>a, <1>b DEF Ei, Completes, Enable, TypeOK, OneDelayedEffect
<1>4. ASSUME Di PROVE IInv'
  BY <1>0, <1>4, <1>a, <1>b DEF Di, Completes, TypeOK, OneDelayedEffect
<1>5. ASSUME Reti PROVE IInv'
  BY <1>0, <1>5, <1>b DEF Reti, Completes, TypeOK, OneDelayedEffect
<1>6. ASSUME HaltFallsThrough PROVE IInv'
  BY <1>0, <1>6, <1>a, <1>b DEF HaltFallsThrough, Enable, TypeOK, OneDelayedEffect
<1>7. ASSUME HaltSleeps PROVE IInv'
  BY <1>0, <1>7, <1>a, <1>b DEF HaltSleeps, Enable, TypeOK, OneDelayedEffect
<1>8. ASSUME Stop PROVE IInv'
  BY <1>0, <1>8, <1>a, <1>b DEF Stop, Enable, TypeOK, OneDelayedEffect
<1>9. ASSUME Undefined PROVE IInv'
  BY <1>0, <1>9, <1>a, <1>b DEF Undefined, Enable, TypeOK, OneDelayedEffect
<1> QED
  BY <1>1, <1>2, <1>3, <1>4, <1>5, <1>6, <1>7, <1>8, <1>9 DEF Instruction, Halt

\* Every step keeps the invariant.
LEMMA NextIInv ==
  ASSUME IInv, [Next]_cpuVars
  PROVE  IInv'
<1> USE DEF IInv
<1>1. CASE Sleep \/ UNCHANGED cpuVars
  BY <1>1 DEF Sleep, cpuVars, TypeOK, OneDelayedEffect
<1>2. ASSUME NEW i \in Interrupts, Request(i) PROVE IInv'
  BY <1>2 DEF Request, TypeOK, OneDelayedEffect
<1>3. CASE Reset
  BY <1>3, CpuAssumption DEF Reset, TypeOK, OneDelayedEffect
<1> QED
  BY <1>1, <1>2, <1>3, DispatchIInv, InstructionIInv DEF Next, Step

(***************************************************************************)
(* The invariant holds in every state of every behaviour.                  *)
(***************************************************************************)
THEOREM Invariance == Spec => []IInv
<1>1. Init => IInv
  BY InitIInv
<1>2. IInv /\ [Next]_cpuVars => IInv'
  BY NextIInv
<1> QED
  BY <1>1, <1>2, PTL DEF Spec

(***************************************************************************)
(* Every variable keeps its type.                                          *)
(***************************************************************************)
THEOREM TypeCorrect == Spec => []TypeOK
BY Invariance, PTL DEF IInv

(***************************************************************************)
(* The flags of cpu.rs that act on a later step never meet.                *)
(***************************************************************************)
THEOREM DelayedEffectsExclude == Spec => []OneDelayedEffect
BY Invariance, PTL DEF IInv

(***************************************************************************)
(* Only a reset ends a lock-up.                                            *)
(***************************************************************************)
THEOREM LockedForGood == Spec => LockUpIsFinal
<1> DEFINE Final == locked => \/ UNCHANGED <<pc, halted, locked, ime, imePending, haltBug,
                                            enabled>>
                              \/ Reset
<1>1. IInv /\ [Next]_cpuVars => Final
  <2> SUFFICES ASSUME IInv, locked, [Next]_cpuVars PROVE Final
    OBVIOUS
  <2>1. halted /\ ~Services /\ ~Wakes
    BY DEF IInv, OneDelayedEffect, Services, Wakes
  <2>2. ~Dispatch
    BY <2>1 DEF Dispatch
  <2>3. ~Instruction
    BY <2>1 DEF Instruction, Ordinary, Jump, Ei, Di, Reti, Halt, HaltSleeps,
                HaltFallsThrough, Stop, Undefined, Completes, Executes
  <2>4. CASE Sleep \/ UNCHANGED cpuVars
    BY <2>4 DEF Sleep, cpuVars
  <2>5. CASE \E i \in Interrupts : Request(i)
    BY <2>5 DEF Request
  <2> QED
    BY <2>2, <2>3, <2>4, <2>5 DEF Next, Step
<1>2. Spec => [][Final]_cpuVars
  BY <1>1, Invariance, PTL DEF Spec
<1> QED
  BY <1>2 DEF LockUpIsFinal

(***************************************************************************)
(* HALT never puts the processor to sleep with a request pending.          *)
(***************************************************************************)
THEOREM NoSleepThroughRequests == Spec => HaltHeedsRequests
<1> DEFINE Heeds == Halt /\ halted' /\ ~halted => Pending = {}
<1>1. IInv => Heeds
  <2> SUFFICES ASSUME IInv, Halt, halted', ~halted PROVE Pending = {}
    OBVIOUS
  <2>1. HaltSleeps
    BY DEF Halt, HaltFallsThrough
  <2>2. ~locked
    BY DEF IInv, OneDelayedEffect
  <2> QED
    BY <2>1, <2>2 DEF HaltSleeps, Executes, Services, Wakes
<1>2. Spec => [][Heeds]_cpuVars
  BY <1>1, Invariance, PTL
<1> QED
  BY <1>2 DEF HaltHeedsRequests

-----------------------------------------------------------------------------

\* A labelled step is a step of the processor.
LEMMA LabelledIsStep ==
  ASSUME [LNext]_vars
  PROVE  [Next]_cpuVars
BY DEF LNext, Next, Step, Instruction, Halt, vars

\* The invariant holds with labels too.
LEMMA LabelledIInv == LSpec => []IInv
<1>1. LInit => IInv
  BY InitIInv DEF LInit
<1>2. IInv /\ [LNext]_vars => IInv'
  BY NextIInv, LabelledIsStep
<1> QED
  BY <1>1, <1>2, PTL DEF LSpec

\* The value of the refinement mapping for the mask.
MaskNow == IF ime THEN "open" ELSE IF imePending THEN "opening" ELSE "closed"

\* Every instruction changes the mask as InterruptMask says.
LEMMA MaskStep ==
  ASSUME IInv, LNext
  PROVE  Mask!Next \/ UNCHANGED <<MaskNow, last>>
<1>b. ime \in BOOLEAN /\ imePending \in BOOLEAN
  BY DEF IInv, TypeOK
<1>1. CASE Dispatch /\ Labelled("dispatch")
  <2>1. ime /\ ~ime' /\ ~imePending' /\ last' = "dispatch"
    BY <1>1 DEF Dispatch, Services, Labelled
  <2> QED
    BY <2>1 DEF Mask!Next, Mask!Does
<1>2. CASE Sleep /\ last' = "sleep" /\ UNCHANGED haltAt
  <2>1. ~imePending /\ UNCHANGED <<ime, imePending>> /\ last' = "sleep"
    BY <1>2 DEF Sleep, cpuVars, IInv, OneDelayedEffect
  <2> QED
    BY <2>1 DEF Mask!Next, Mask!Does
<1>3. CASE Ei /\ Labelled("EI")
  <2>1. ime' = (ime \/ imePending) /\ imePending' = TRUE /\ last' = "EI"
    BY <1>3 DEF Ei, Enable, Labelled
  <2> QED
    BY <2>1, <1>b DEF Mask!Next, Mask!Does
<1>4. CASE Di /\ Labelled("DI")
  <2>1. ~ime' /\ ~imePending' /\ last' = "DI"
    BY <1>4 DEF Di, Labelled
  <2> QED
    BY <2>1 DEF Mask!Next, Mask!Does
<1>5. CASE Reti /\ Labelled("RETI")
  <2>1. ime' /\ last' = "RETI"
    BY <1>5 DEF Reti, Labelled
  <2> QED
    BY <2>1 DEF Mask!Next, Mask!Does
<1>6. CASE /\ (\E n \in 1..3 : Ordinary(n)) \/ Jump \/ Stop \/ Undefined \/ Halt
           /\ last' = "other"
  <2>1. ime' = (ime \/ imePending) /\ imePending' = FALSE /\ last' = "other"
    BY <1>6 DEF Ordinary, Jump, Stop, Undefined, Halt, HaltSleeps, HaltFallsThrough, Enable
  <2> QED
    BY <2>1, <1>b DEF Mask!Next, Mask!Does, Mask!Opened
<1>7. CASE (\E i \in Interrupts : Request(i)) /\ UNCHANGED <<last, haltAt>>
  BY <1>7 DEF Request, MaskNow
<1>8. CASE Reset /\ Labelled("reset")
  <2>1. ~ime' /\ ~imePending' /\ last' = "reset"
    BY <1>8 DEF Reset, Labelled
  <2> QED
    BY <2>1 DEF Mask!Next, Mask!Does
<1> QED
  BY <1>1, <1>2, <1>3, <1>4, <1>5, <1>6, <1>7, <1>8 DEF LNext, Labelled

(***************************************************************************)
(* The processor of cpu.rs implements the interrupt mask.                  *)
(***************************************************************************)
THEOREM Masking == LSpec => ImplementsMask
<1>1. LInit => Mask!Init
  BY DEF LInit, Init, Mask!Init
<1>2. IInv /\ [LNext]_vars => [Mask!Next]_(Mask!vars)
  <2> SUFFICES ASSUME IInv, [LNext]_vars PROVE [Mask!Next]_(Mask!vars)
    OBVIOUS
  <2>1. CASE LNext
    BY <2>1, MaskStep DEF Mask!vars, MaskNow
  <2>2. CASE UNCHANGED vars
    BY <2>2 DEF vars, cpuVars, Mask!vars
  <2> QED
    BY <2>1, <2>2
<1> QED
  BY <1>1, <1>2, LabelledIInv, PTL DEF LSpec, ImplementsMask, Mask!Spec

-----------------------------------------------------------------------------

\* What makes the return address right: a HALT that may be interrupted has left
\* pc behind it if it sleeps and at it if it fell through after EI.
ReturnInv ==
  /\ haltBug => Pending # {}
  /\ haltAt # NoHalt =>
       IF halted THEN pc = Wrap(haltAt + 1) ELSE pc = haltAt \/ haltBug

\* Moving on by one and back again is moving nowhere.
LEMMA BackAgain ==
  ASSUME pc \in Address, ~haltBug
  PROVE  Wrap(Fetched(1) - 1) = pc
<1>1. AddressSpace \in Nat /\ AddressSpace > 0
  BY CpuAssumption
<1>2. Fetched(1) = (pc + 1) % AddressSpace
  BY DEF Fetched, Wrap
<1>3. CASE pc + 1 < AddressSpace
  <2>1. (pc + 1) % AddressSpace = pc + 1 /\ pc % AddressSpace = pc
    BY <1>1, <1>3 DEF Address
  <2> QED
    BY <1>1, <1>2, <2>1 DEF Wrap, Address
<1>4. CASE pc + 1 = AddressSpace
  <2>1. (pc + 1) % AddressSpace = 0 /\ (-1) % AddressSpace = AddressSpace - 1
    BY <1>1, <1>4
  <2> QED
    BY <1>1, <1>2, <1>4, <2>1 DEF Wrap, Address
<1> QED
  BY <1>1, <1>3, <1>4 DEF Address

\* Every step keeps it.
LEMMA ReturnStep ==
  ASSUME IInv, ReturnInv, [LNext]_vars
  PROVE  ReturnInv'
<1> USE DEF ReturnInv
<1>1. CASE Dispatch /\ Labelled("dispatch")
  BY <1>1 DEF Dispatch, Services, IInv, OneDelayedEffect, Labelled
<1>2. CASE \/ Sleep /\ UNCHANGED haltAt
           \/ UNCHANGED vars
  <2>1. UNCHANGED <<pc, halted, haltBug, iflag, enabled, haltAt>>
    BY <1>2 DEF Sleep, vars, cpuVars
  <2> QED
    BY <2>1 DEF Pending
<1>3. CASE haltAt' = NoHalt /\ haltBug' = FALSE
  BY <1>3
<1>4. CASE Halt /\ haltAt' = pc
  <2>1. UNCHANGED <<iflag, enabled>>
    BY <1>4 DEF Halt, HaltSleeps, HaltFallsThrough
  <2>2. CASE HaltSleeps
    <3>1. ~haltBug
      BY <2>2 DEF HaltSleeps, IInv, OneDelayedEffect
    <3>2. pc' = Wrap(pc + 1)
      BY <2>2, <3>1 DEF HaltSleeps, Fetched
    <3> QED
      BY <1>4, <2>2, <3>2 DEF HaltSleeps
  <2>3. CASE HaltFallsThrough /\ imePending
    <3>1. ~haltBug /\ pc \in Address
      BY <2>3 DEF IInv, OneDelayedEffect, TypeOK
    <3>2. pc' = pc
      BY <2>3, <3>1, BackAgain DEF HaltFallsThrough
    <3> QED
      BY <1>4, <2>3, <3>2 DEF HaltFallsThrough
  <2>4. CASE HaltFallsThrough /\ ~imePending
    BY <2>1, <2>4 DEF HaltFallsThrough, Pending
  <2> QED
    BY <1>4, <2>2, <2>3, <2>4 DEF Halt
<1>5. CASE (\E i \in Interrupts : Request(i)) /\ UNCHANGED <<last, haltAt>>
  BY <1>5 DEF Request, Pending
<1>6. CASE \/ Ei /\ Labelled("EI")
           \/ Di /\ Labelled("DI")
           \/ Reti /\ Labelled("RETI")
           \/ /\ (\E n \in 1..3 : Ordinary(n)) \/ Jump \/ Stop \/ Undefined
              /\ Labelled("other")
           \/ Reset /\ Labelled("reset")
  <2>1. haltAt' = NoHalt /\ haltBug' = FALSE
    BY <1>6 DEF Ei, Di, Reti, Ordinary, Jump, Stop, Undefined, Reset, Completes, Labelled
  <2> QED
    BY <1>3, <2>1
<1> QED
  BY <1>1, <1>2, <1>4, <1>5, <1>6 DEF LNext

(***************************************************************************)
(* A handler that interrupts a HALT returns behind it, and one that        *)
(* interrupts the HALT after an EI before it sleeps returns to it.         *)
(***************************************************************************)
THEOREM HaltReturns == LSpec => HaltReturnAddress
<1> DEFINE Returns == Dispatch /\ haltAt # NoHalt
                        => pc = IF halted THEN Wrap(haltAt + 1) ELSE haltAt
<1>1. LInit => ReturnInv
  BY DEF LInit, Init, ReturnInv
<1>2. IInv /\ ReturnInv /\ [LNext]_vars => ReturnInv'
  BY ReturnStep
<1>3. IInv /\ ReturnInv => Returns
  BY DEF IInv, OneDelayedEffect, ReturnInv, Dispatch, Services
<1>4. LSpec => [][Returns]_vars
  BY <1>1, <1>2, <1>3, LabelledIInv, PTL DEF LSpec
<1> QED
  BY <1>4 DEF HaltReturnAddress

(***************************************************************************)
(* Delayed effects never meet.                                             *)
(***************************************************************************)
THEOREM OrderedEffects == Spec => []EffectsAreOrdered
BY TypeCorrect, DelayedEffectsExclude, PTL DEF EffectsAreOrdered

(***************************************************************************)
(* The processor sleeps only when nothing is requested, and stays locked   *)
(* up until a reset.                                                       *)
(***************************************************************************)
THEOREM RightSleep == Spec => SleepsRightly
BY NoSleepThroughRequests, LockedForGood DEF SleepsRightly

-----------------------------------------------------------------------------
(* The loop *)

(***************************************************************************)
(* The fast path is taken only in states in which the processor would stay *)
(* asleep, and time leads from one such state to another.                  *)
(***************************************************************************)
FastInv ==
  /\ phase \in {"idle", "loop", "fast"}
  /\ phase = "fast" => CanFastForward

\* A sleeping processor that may be fast-forwarded has nothing to wake for.
LEMMA StaysAsleep ==
  ASSUME CanFastForward
  PROVE  halted /\ ~Services /\ ~Wakes
BY DEF CanFastForward, Services, Wakes

\* Running quiet devices raises no request that is enabled.
LEMMA QuietTick ==
  ASSUME CanFastForward, Tick
  PROVE  CanFastForward'
<1>1. PICK raised \in SUBSET TickInterrupts :
        raised \cap enabled \subseteq armed /\ iflag' = iflag \cup raised
  BY DEF Tick
<1>2. armed = {} /\ armed' = {} /\ UNCHANGED <<halted, locked, enabled>>
  BY DEF Tick, CanFastForward
<1>3. Pending' = Pending
  BY <1>1, <1>2 DEF Pending
<1> QED
  BY <1>2, <1>3 DEF CanFastForward

\* Every step keeps FastInv.
LEMMA FastStep ==
  ASSUME FastInv, [EmulatorNext]_emulatorVars
  PROVE  FastInv'
<1> USE DEF FastInv
<1>1. CASE \/ \E n \in Requests : Begin(n)
           \/ ExecuteOne \/ TickInstruction \/ FastDone
           \/ Finish(TRUE) \/ Finish(FALSE)
           \/ (\E i \in Interrupts \ TickInterrupts : PressIdle(i)) \/ ResetIdle
  <2>1. phase' \in {"idle", "loop"}
    BY <1>1 DEF Begin, ExecuteOne, Running, TickInstruction, FastDone, Finish, PressIdle,
                ResetIdle, loopVars
  <2> QED
    BY <2>1
<1>2. CASE FastForward
  BY <1>2 DEF FastForward, Running, CanFastForward, Pending, machineVars, cpuVars
<1>3. CASE FastPortion
  BY <1>3 DEF FastPortion, CanFastForward, Pending, cpuVars
<1>4. CASE TickPortion
  BY <1>4, QuietTick DEF TickPortion
<1>5. CASE UNCHANGED emulatorVars
  BY <1>5 DEF emulatorVars, machineVars, cpuVars, loopVars, CanFastForward, Pending
<1> QED
  BY <1>1, <1>2, <1>3, <1>4, <1>5 DEF EmulatorNext, Inside, Outside

\* Every step of the loop is a step of the machine or leaves it alone.
LEMMA LoopStep ==
  ASSUME FastInv, [EmulatorNext]_emulatorVars
  PROVE  [MachineNext]_machineVars
<1>1. CASE ExecuteOne \/ TickInstruction \/ TickPortion
  BY <1>1 DEF ExecuteOne, TickInstruction, TickPortion, MachineNext
<1>2. CASE FastPortion
  <2>1. CanFastForward
    BY <1>2 DEF FastPortion, FastInv
  <2>2. Sleep
    BY <1>2, <2>1, StaysAsleep DEF FastPortion, Sleep
  <2> QED
    BY <1>2, <2>2 DEF FastPortion, MachineNext, Instruct
<1>3. CASE \/ \E n \in Requests : Begin(n)
           \/ FastForward \/ FastDone \/ Finish(TRUE) \/ Finish(FALSE)
           \/ UNCHANGED emulatorVars
  BY <1>3 DEF Begin, FastForward, FastDone, Finish, emulatorVars
<1>4. CASE (\E i \in Interrupts \ TickInterrupts : PressIdle(i)) \/ ResetIdle
  BY <1>4 DEF PressIdle, ResetIdle, MachineNext
<1> QED
  BY <1>1, <1>2, <1>3, <1>4 DEF EmulatorNext, Inside, Outside

(***************************************************************************)
(* The fast path cannot be observed: the emulator implements the machine   *)
(* that steps its processor for every instruction time.                    *)
(***************************************************************************)
THEOREM FastPathUnobservable == EmulatorSpec => ImplementsMachine
<1>1. EmulatorInit => MachineInit /\ FastInv
  BY DEF EmulatorInit, FastInv
<1>2. FastInv /\ [EmulatorNext]_emulatorVars => FastInv'
  BY FastStep
<1>3. FastInv /\ [EmulatorNext]_emulatorVars => [MachineNext]_machineVars
  BY LoopStep
<1> QED
  BY <1>1, <1>2, <1>3, PTL DEF EmulatorSpec, ImplementsMachine, MachineSpec

-----------------------------------------------------------------------------

\* The sums that the loop keeps: what the devices ran is what is accounted for,
\* and only the last instruction or portion may exceed what was asked for.
Numbers ==
  /\ target \in Nat /\ available \in Nat /\ carry \in Nat
  /\ advance \in Nat /\ left \in Int /\ ahead \in Int /\ due \in 0..MaxLength

Sums ==
  /\ phase \in {"idle", "loop", "fast"}
  /\ Numbers
  /\ phase = "idle" => ahead = carry /\ carry < MaxLength /\ due = 0
  /\ phase = "loop" =>
       /\ ahead = available
       /\ available < target + MaxLength
       /\ due # 0 => available < target
  /\ phase = "fast" =>
       /\ ahead + due + left = available + advance
       /\ available + advance < target + 4

\* Rounding up to a multiple of four adds less than four.
LEMMA Rounding ==
  ASSUME NEW n \in Nat
  PROVE  RoundUp(n) \in Nat /\ n <= RoundUp(n) /\ RoundUp(n) < n + 4
BY DEF RoundUp

\* An instruction lasts at most MaxLength cycles.
LEMMA Durations ==
  ASSUME Instruct
  PROVE  due' \in 0..MaxLength
<1>1. Lengths \subseteq 0..MaxLength
  BY MachineAssumption DEF MaxLength
<1>2. 20 \in 0..MaxLength /\ 4 \in 0..MaxLength
  BY DEF MaxLength
<1> QED
  BY <1>1, <1>2 DEF Instruct

\* The sums are right at the start.
LEMMA InitSums ==
  EmulatorInit => Sums
BY DEF EmulatorInit, MachineInit, Sums, Numbers, MaxLength

\* Every step keeps the sums right.
LEMMA SumsStep ==
  ASSUME Sums, [EmulatorNext]_emulatorVars
  PROVE  Sums'
<1> USE DEF Sums, Numbers
<1>n. MaxLength = 24 /\ EmulatorAssumption
  BY EmulatorAssumption DEF MaxLength
<1>1. ASSUME NEW n \in Requests, Begin(n) PROVE Sums'
  <2>1. n \in Nat
    BY EmulatorAssumption
  <2>2. due' = due
    BY <1>1 DEF Begin, machineVars
  <2>3. carry < n + MaxLength /\ due = 0
    BY <1>1, <1>n, <2>1 DEF Begin
  <2> QED
    BY <1>1, <2>1, <2>2, <2>3 DEF Begin
<1>2. CASE ExecuteOne
  <2>1. due' \in 0..MaxLength
    BY <1>2, Durations DEF ExecuteOne
  <2> QED
    BY <1>2, <2>1 DEF ExecuteOne, Running, loopVars
<1>3. CASE TickInstruction
  <2>1. due' = 0 /\ due # 0 /\ 0 \in 0..MaxLength
    BY <1>3, <1>n DEF TickInstruction, Tick
  <2>2. available + due \in Nat /\ ahead + due \in Int
    BY <1>n
  <2>3. available + due < target + MaxLength
    BY <1>3, <1>n, <2>1 DEF TickInstruction
  <2>4. ahead + due = available + due
    BY <1>3 DEF TickInstruction
  <2> QED
    BY <1>3, <2>1, <2>2, <2>3, <2>4 DEF TickInstruction
<1>4. CASE FastForward
  <2>1. /\ phase = "loop" /\ due = 0 /\ available < target
        /\ phase' = "fast" /\ advance' = RoundUp(target - available) /\ left' = advance'
        /\ UNCHANGED <<due, target, available, carry, ahead>>
    BY <1>4 DEF FastForward, Running, machineVars
  <2>2. target - available \in Nat
    BY <2>1
  <2>3. RoundUp(target - available) \in Nat /\ RoundUp(target - available) < (target - available) + 4
    BY <2>2, Rounding
  <2>4. ahead + due + RoundUp(target - available) = available + RoundUp(target - available)
    BY <2>1, <2>3
  <2>5. available + RoundUp(target - available) < target + 4
    BY <2>3
  <2> QED
    BY <2>1, <2>3, <2>4, <2>5
<1>5. CASE FastPortion
  <2>1. /\ phase = "fast" /\ due = 0 /\ due' = 4 /\ left' = left - 4
        /\ UNCHANGED <<phase, target, available, carry, advance, ahead>>
    BY <1>5 DEF FastPortion
  <2>2. left - 4 \in Int /\ 4 \in 0..MaxLength /\ ahead + 4 + (left - 4) = ahead + due + left
    BY <1>n, <2>1
  <2> QED
    BY <2>1, <2>2
<1>6. CASE TickPortion
  <2>1. /\ phase = "fast" /\ due' = 0 /\ ahead' = ahead + due
        /\ UNCHANGED <<phase, target, available, carry, advance, left>>
    BY <1>6 DEF TickPortion, Tick
  <2>2. ahead + due \in Int /\ 0 \in 0..MaxLength /\ (ahead + due) + 0 + left = ahead + due + left
    BY <1>n
  <2> QED
    BY <2>1, <2>2
<1>7. CASE FastDone
  <2>1. /\ phase = "fast" /\ due = 0 /\ left = 0 /\ phase' = "loop"
        /\ available' = available + advance /\ advance' = 0
        /\ UNCHANGED <<due, target, carry, left, ahead>>
    BY <1>7 DEF FastDone, machineVars
  <2>2. available + advance \in Nat /\ ahead = available + advance
    BY <2>1
  <2>3. available + advance < target + MaxLength
    BY <1>n, <2>1
  <2> QED
    BY <2>1, <2>2, <2>3
<1>8. ASSUME NEW stopped \in BOOLEAN, Finish(stopped) PROVE Sums'
  <2> DEFINE consumed == IF stopped THEN available ELSE target
  <2>1. /\ phase = "loop" /\ due = 0 /\ phase' = "idle" /\ target' = 0 /\ available' = 0
        /\ carry' = available - consumed /\ ahead' = ahead - consumed
        /\ UNCHANGED <<due, advance, left>>
    BY <1>8 DEF Finish, machineVars
  <2>2. stopped \/ available >= target
    BY <1>8 DEF Finish
  <2>3. /\ available - consumed \in Nat
        /\ ahead - consumed = available - consumed
        /\ available - consumed < MaxLength
    BY <1>n, <2>1, <2>2
  <2> QED
    BY <2>1, <2>3
<1>9. CASE (\E i \in Interrupts \ TickInterrupts : PressIdle(i)) \/ UNCHANGED emulatorVars
  <2>1. UNCHANGED <<phase, target, available, carry, advance, left, ahead, due>>
    BY <1>9 DEF PressIdle, Press, emulatorVars, machineVars, loopVars
  <2> QED
    BY <2>1
<1>10. CASE ResetIdle
  <2>1. /\ phase = "idle" /\ carry' = 0 /\ ahead' = 0
        /\ UNCHANGED <<phase, target, available, advance, left, due>>
    BY <1>10 DEF ResetIdle, MachineReset
  <2> QED
    BY <1>n, <2>1
<1> QED
  BY <1>1, <1>2, <1>3, <1>4, <1>5, <1>6, <1>7, <1>8, <1>9, <1>10
     DEF EmulatorNext, Inside, Outside

(***************************************************************************)
(* Between two calls cycle_carry is exactly what was executed and not yet  *)
(* accounted for, and less than one instruction.                           *)
(***************************************************************************)
THEOREM CarryExact == EmulatorSpec => []CarryIsExact
<1>1. EmulatorInit => Sums
  BY InitSums
<1>2. Sums /\ [EmulatorNext]_emulatorVars => Sums'
  BY SumsStep
<1>3. Sums => CarryIsExact
  BY DEF Sums, CarryIsExact
<1> QED
  BY <1>1, <1>2, <1>3, PTL DEF EmulatorSpec

-----------------------------------------------------------------------------

\* What types need beyond the sums: portions of four cycles use up what the
\* fast path has to run, and never more.
Portions ==
  /\ armed \subseteq TickInterrupts
  /\ target \in Requests \cup {0}
  /\ due \in {0, 4, 20} \cup Lengths
  /\ left \in Nat /\ left % 4 = 0
  /\ phase = "fast" => left + due <= advance

\* The processor keeps its invariant inside the loop: the devices only request.
LEMMA LoopKeepsCpu ==
  ASSUME IInv, [EmulatorNext]_emulatorVars
  PROVE  IInv'
<1>1. CASE Instruct
  BY <1>1, NextIInv DEF Instruct, Next, Step, Instruction
<1>2. CASE Tick
  <2>1. iflag' \subseteq Interrupts
    BY <1>2, MachineAssumption DEF Tick, IInv, TypeOK
  <2> QED
    BY <1>2, <2>1 DEF Tick, IInv, TypeOK, OneDelayedEffect
<1>3. CASE (\E i \in Interrupts : Request(i)) \/ Reset
  BY <1>3, NextIInv DEF Next
<1>4. CASE UNCHANGED cpuVars
  BY <1>4, NextIInv
<1>5. Instruct \/ Tick \/ (\E i \in Interrupts : Request(i)) \/ Reset \/ UNCHANGED cpuVars
  BY DEF EmulatorNext, Inside, Outside, Begin, ExecuteOne, TickInstruction, FastForward,
         FastPortion, TickPortion, FastDone, Finish, PressIdle, Press, ResetIdle, MachineReset,
         emulatorVars, machineVars
<1> QED
  BY <1>1, <1>2, <1>3, <1>4, <1>5

\* Rounding up gives whole portions.
LEMMA WholePortions ==
  ASSUME NEW n \in Nat
  PROVE  RoundUp(n) \in Nat /\ RoundUp(n) % 4 = 0
BY DEF RoundUp

\* Every step keeps the portions whole and within what is to be run.
LEMMA PortionsStep ==
  ASSUME Sums, Portions, [EmulatorNext]_emulatorVars
  PROVE  Portions'
<1> USE DEF Portions
<1>0. left \in Nat /\ advance \in Nat /\ target \in Nat /\ available \in Nat
  BY DEF Sums, Numbers
<1>1. ASSUME NEW n \in Requests, Begin(n) PROVE Portions'
  BY <1>1 DEF Begin, machineVars
<1>2. CASE ExecuteOne
  <2>1. /\ phase' = "loop" /\ left' = left /\ target' = target
    BY <1>2 DEF ExecuteOne, Running, loopVars
  <2>2. armed' \subseteq TickInterrupts /\ due' \in {0, 4, 20} \cup Lengths
    BY <1>2 DEF ExecuteOne, Instruct
  <2> QED
    BY <2>1, <2>2
<1>3. CASE TickInstruction
  BY <1>3 DEF TickInstruction, Tick
<1>4. CASE FastForward
  <2>1. /\ phase = "loop" /\ due = 0 /\ available < target
        /\ phase' = "fast" /\ advance' = RoundUp(target - available) /\ left' = advance'
        /\ UNCHANGED <<due, armed, target>>
    BY <1>4 DEF FastForward, Running, machineVars
  <2>2. target - available \in Nat
    BY <1>0, <2>1
  <2>3. RoundUp(target - available) \in Nat /\ RoundUp(target - available) % 4 = 0
    BY <2>2, WholePortions
  <2> QED
    BY <2>1, <2>3
<1>5. CASE FastPortion
  <2>1. /\ phase = "fast" /\ due = 0 /\ left # 0 /\ due' = 4 /\ left' = left - 4
        /\ UNCHANGED <<phase, armed, target, advance>>
    BY <1>5 DEF FastPortion
  <2>2. left - 4 \in Nat /\ (left - 4) % 4 = 0 /\ (left - 4) + 4 = left + due
    BY <1>0, <2>1
  <2> QED
    BY <2>1, <2>2
<1>6. CASE TickPortion
  <2>1. /\ phase = "fast" /\ due' = 0 /\ armed' \subseteq TickInterrupts
        /\ UNCHANGED <<phase, target, advance, left>>
    BY <1>6 DEF TickPortion, Tick
  <2>2. left + 0 <= advance
    BY <1>0, <2>1, MachineAssumption
  <2> QED
    BY <2>1, <2>2
<1>7. CASE FastDone
  BY <1>7 DEF FastDone, machineVars
<1>8. ASSUME NEW stopped \in BOOLEAN, Finish(stopped) PROVE Portions'
  BY <1>8 DEF Finish, machineVars
<1>9. CASE (\E i \in Interrupts \ TickInterrupts : PressIdle(i)) \/ UNCHANGED emulatorVars
  <2>1. UNCHANGED <<phase, target, advance, left, due, armed>>
    BY <1>9 DEF PressIdle, Press, emulatorVars, machineVars, loopVars
  <2> QED
    BY <2>1
<1>10. CASE ResetIdle
  BY <1>10 DEF ResetIdle, MachineReset
<1> QED
  BY <1>1, <1>2, <1>3, <1>4, <1>5, <1>6, <1>7, <1>8, <1>9, <1>10
     DEF EmulatorNext, Inside, Outside

(***************************************************************************)
(* The accounting holds in every state, for every set of lengths and of    *)
(* requested numbers of cycles: no number leaves its range, and what the   *)
(* devices ran is accounted for.                                           *)
(***************************************************************************)
THEOREM CyclesAccounted == EmulatorSpec => []CyclesAddUp
<1> DEFINE J == IInv /\ Sums /\ Portions
<1>1. EmulatorInit => J
  BY InitIInv, InitSums DEF EmulatorInit, MachineInit, Portions
<1>2. J /\ [EmulatorNext]_emulatorVars => J'
  BY LoopKeepsCpu, SumsStep, PortionsStep
<1>3. J => CyclesAddUp
  <2> SUFFICES ASSUME J PROVE CyclesAddUp
    OBVIOUS
  <2>1. CarryIsExact
    BY DEF Sums, CarryIsExact
  <2>2. {available, carry, advance, left} \subseteq Nat
    BY DEF Sums, Numbers, Portions
  <2>3. ahead \in Nat
    <3>1. CASE phase = "fast"
      <4>1. due \in Nat /\ ahead \in Int
        BY DEF Sums, Numbers
      <4>2. ahead + due + left = available + advance /\ left + due <= advance
        BY <3>1 DEF Sums, Portions
      <4> QED
        BY <2>2, <4>1, <4>2
    <3>2. CASE phase # "fast"
      BY <3>2 DEF Sums, Numbers
    <3> QED
      BY <3>1, <3>2
  <2> QED
    BY <2>1, <2>2, <2>3 DEF CyclesAddUp, LoopTypeOK, Sums, Portions, IInv
<1> QED
  BY <1>1, <1>2, <1>3, PTL DEF EmulatorSpec
=============================================================================
