---------------------------- MODULE TimerProofs ----------------------------
(***************************************************************************)
(* Proofs about Timer, for every divider size, TIMA width and set of       *)
(* instruction lengths its assumption allows; with MCTimer, that its       *)
(* period is exact and that it implements MachineCycleTimer.               *)
(***************************************************************************)
EXTENDS MCTimer, TLAPS

(***************************************************************************)
(* Instructions last whole machine cycles and DIV is only ever cleared, so *)
(* the divider, the cycles still to run and a pending reload stay in step. *)
(***************************************************************************)
Aligned ==
  /\ (divider + ticks) % 4 = 0
  /\ reload # 0 => (reload - ticks) % 4 = 0
  /\ written # {} => ticks = 0

(***************************************************************************)
(* The input cannot fall before a pending reload is through: the overflow  *)
(* was a multiple of 16 cycles ago less the countdown (the divider's own   *)
(* edge, or a write to DIV), or it was a write to TAC that left the timer  *)
(* stopped or its input low.                                               *)
(***************************************************************************)
Shielded ==
  reload # 0 =>
    \/ divider % 16 = ReloadDelay - reload
    \/ ~Enabled(tac)
    \/ divider % (2 * HalfPeriod(tac)) < HalfPeriod(tac) + ReloadDelay - reload

(***************************************************************************)
(* An instruction that finds a reload pending finds the divider at the     *)
(* edge that caused it, hence the input low until it writes TAC.           *)
(***************************************************************************)
LowAtWrite ==
  reload # 0 /\ ticks = 0 /\ "TAC" \notin written
    => divider % 16 = 0 /\ ~Input(divider, tac)

IInv == TypeOK /\ Aligned /\ PendingReadsZero /\ Shielded /\ LowAtWrite

-----------------------------------------------------------------------------

(***************************************************************************)
(* The four half periods, and that each divides the size of the divider.   *)
(***************************************************************************)
LEMMA HalfPeriods ==
  ASSUME NEW t \in 0..7
  PROVE  /\ HalfPeriod(t) \in {8, 32, 128, 512}
         /\ t % 4 \in 0..3
BY DEF HalfPeriod

(***************************************************************************)
(* One cycle later the divider is one more, except that it wraps from a    *)
(* value whose low ten bits are all ones.                                  *)
(***************************************************************************)
LEMMA SuccFacts ==
  ASSUME NEW d \in 0..(DividerSize - 1)
  PROVE  /\ Succ(d) \in 0..(DividerSize - 1)
         /\ Succ(d) = d + 1 \/ (Succ(d) = 0 /\ d % 1024 = 1023)
BY TimerAssumption DEF Succ

(***************************************************************************)
(* A falling input puts a multiple of 16 into the divider, and only such a *)
(* step of the divider makes the input fall.                               *)
(***************************************************************************)
LEMMA FallAtMultiple ==
  ASSUME NEW d \in 0..(DividerSize - 1), NEW t \in 0..7,
         Input(d, t), ~Input(Succ(d), t)
  PROVE  /\ Succ(d) % 16 = 0
         /\ Enabled(t)
         /\ d % (2 * HalfPeriod(t)) = 2 * HalfPeriod(t) - 1
<1>1. PICK h \in {8, 32, 128, 512} : h = HalfPeriod(t)
  BY HalfPeriods
<1>2. Enabled(t) /\ (d \div h) % 2 = 1 /\ ~((Succ(d) \div h) % 2 = 1)
  BY <1>1 DEF Input
<1>3. /\ d \in Nat /\ Succ(d) \in Nat
      /\ Succ(d) = d + 1 \/ (Succ(d) = 0 /\ d % 1024 = 1023)
  BY SuccFacts, TimerAssumption
<1>4. Succ(d) % 16 = 0 /\ d % (2 * h) = 2 * h - 1
  <2>1. CASE h = 8
    <3>1. (d \div 8) % 2 = 1 /\ (Succ(d) \div 8) % 2 # 1  BY <2>1, <1>2
    <3>2. Succ(d) % 16 = 0 /\ d % 16 = 15  BY <3>1, <1>3
    <3>3. QED BY <2>1, <3>2
  <2>2. CASE h = 32
    <3>1. (d \div 32) % 2 = 1 /\ (Succ(d) \div 32) % 2 # 1  BY <2>2, <1>2
    <3>2. Succ(d) % 16 = 0 /\ d % 64 = 63  BY <3>1, <1>3
    <3>3. QED BY <2>2, <3>2
  <2>3. CASE h = 128
    <3>1. (d \div 128) % 2 = 1 /\ (Succ(d) \div 128) % 2 # 1  BY <2>3, <1>2
    <3>2. Succ(d) % 16 = 0 /\ d % 256 = 255  BY <3>1, <1>3
    <3>3. QED BY <2>3, <3>2
  <2>4. CASE h = 512
    <3>1. (d \div 512) % 2 = 1 /\ (Succ(d) \div 512) % 2 # 1  BY <2>4, <1>2
    <3>2. Succ(d) % 16 = 0 /\ d % 1024 = 1023  BY <3>1, <1>3
    <3>3. QED BY <2>4, <3>2
  <2>5. QED BY <1>1, <2>1, <2>2, <2>3, <2>4
<1>5. QED BY <1>1, <1>2, <1>4

(***************************************************************************)
(* The input is low exactly in the first half of the selected period.      *)
(***************************************************************************)
LEMMA LowHalf ==
  ASSUME NEW d \in 0..(DividerSize - 1), NEW t \in 0..7
  PROVE  Input(d, t) <=> Enabled(t) /\ d % (2 * HalfPeriod(t)) >= HalfPeriod(t)
<1>1. PICK h \in {8, 32, 128, 512} : h = HalfPeriod(t)
  BY HalfPeriods
<1>2. (d \div h) % 2 = 1 <=> d % (2 * h) >= h
  <2>1. CASE h = 8    BY <2>1
  <2>2. CASE h = 32   BY <2>2
  <2>3. CASE h = 128  BY <2>3
  <2>4. CASE h = 512  BY <2>4
  <2>5. QED BY <1>1, <2>1, <2>2, <2>3, <2>4
<1>3. QED BY <1>1, <1>2 DEF Input

(***************************************************************************)
(* While a reload is pending and does not expire in this cycle, the input  *)
(* does not fall in this cycle.                                            *)
(***************************************************************************)
LEMMA ShieldedStep ==
  ASSUME TypeOK, Aligned, Shielded, reload \in 2..ReloadDelay
  PROVE  ~(Input(divider, tac) /\ ~Input(Succ(divider), tac))
<1> SUFFICES ASSUME Input(divider, tac), ~Input(Succ(divider), tac)
             PROVE  FALSE
  OBVIOUS
<1>1. /\ Succ(divider) % 16 = 0
      /\ Enabled(tac)
      /\ divider % (2 * HalfPeriod(tac)) = 2 * HalfPeriod(tac) - 1
  BY FallAtMultiple DEF TypeOK
<1>2. HalfPeriod(tac) \in {8, 32, 128, 512}
  BY HalfPeriods DEF TypeOK
<1>3. divider % 16 = 15
  BY <1>1, SuccFacts DEF TypeOK
<1>4. QED BY <1>1, <1>2, <1>3 DEF Shielded, ReloadDelay, TypeOK
(***************************************************************************)
(* A write to DIV or TAC never meets a pending reload and a high input at  *)
(* once, so the edge it may cause is counted.                              *)
(***************************************************************************)
LEMMA ShieldedWrite ==
  ASSUME IInv, MayWrite("DIV") \/ MayWrite("TAC"), Input(divider, tac)
  PROVE  reload = 0
<1>1. ticks = 0 /\ "TAC" \notin written
  BY DEF MayWrite, Address
<1>2. QED BY <1>1 DEF IInv, LowAtWrite

-----------------------------------------------------------------------------

\* Facts about multiples of four, to be instantiated with primed variables.
LEMMA MultipleOfFour ==
  ASSUME NEW d \in Nat, NEW t \in Nat, d % 16 = 0, (d + t) % 4 = 0
  PROVE  (4 - t) % 4 = 0
OBVIOUS

\* The only multiple of four between one and four is four.
LEMMA OnlyFour ==
  ASSUME NEW r \in 1..4, (r - 0) % 4 = 0
  PROVE  r = 4
OBVIOUS

\* The invariant holds after power-on.
LEMMA InitIInv == Init => IInv
<1> SUFFICES ASSUME Init PROVE IInv
  OBVIOUS
<1>1. TypeOK
  <2>1. 0 \in 0..(DividerSize - 1) /\ 0 \in 0..TimaMax
    BY TimerAssumption
  <2>2. /\ divider \in 0..(DividerSize - 1) /\ tima \in 0..TimaMax
        /\ tma \in 0..TimaMax
    BY <2>1 DEF Init
  <2>3. tac \in 0..7 /\ reload \in 0..ReloadDelay /\ ticks \in 0..24
    BY DEF Init, ReloadDelay
  <2>4. request \in BOOLEAN /\ written \subseteq Registers
    BY DEF Init
  <2>5. QED BY <2>2, <2>3, <2>4 DEF TypeOK
<1>2. Aligned /\ PendingReadsZero /\ Shielded /\ LowAtWrite
  BY DEF Init, Aligned, PendingReadsZero, Shielded, LowAtWrite
<1>3. QED BY <1>1, <1>2 DEF IInv

\* What one cycle does to TIMA and the countdown, case by case.
LEMMA StepCases ==
  ASSUME IInv, Step
  PROVE  \/ reload \in 2..ReloadDelay /\ tima' = tima /\ reload' = reload - 1
         \/ reload <= 1 /\ reload' = 0 /\ tima' \in {AdvanceReload.tima}
         \/ /\ reload <= 1 /\ Input(divider, tac) /\ ~Input(divider', tac)
            /\ reload' = 0 /\ tima' = AdvanceReload.tima + 1
            /\ AdvanceReload.tima # TimaMax
         \/ /\ reload <= 1 /\ Input(divider, tac) /\ ~Input(divider', tac)
            /\ reload' = ReloadDelay /\ tima' = 0
            /\ AdvanceReload.tima = TimaMax
<1>1. CASE reload \in 2..ReloadDelay
  <2>1. ~(Input(divider, tac) /\ ~Input(Succ(divider), tac))
    BY <1>1, ShieldedStep DEF IInv
  <2>2. QED BY <1>1, <2>1 DEF Step, SetCounter, ApplyEdge, AdvanceReload, ReloadDelay
<1>2. CASE reload \in {0, 1}
  <2>1. AdvanceReload.reload = 0
    BY <1>2 DEF AdvanceReload
  <2>2. QED BY <1>2, <2>1 DEF Step, SetCounter, ApplyEdge, Increment
<1>3. QED BY <1>1, <1>2 DEF IInv, TypeOK, ReloadDelay

\* One cycle keeps the invariant.
LEMMA StepIInv == ASSUME IInv, Step PROVE IInv'
<1>1. /\ AdvanceReload.tima \in 0..TimaMax
      /\ divider' = Succ(divider) /\ divider' \in 0..(DividerSize - 1)
      /\ ticks \in 1..24 /\ ticks' = ticks - 1
      /\ written' = written /\ tma' = tma /\ tac' = tac
      /\ tac \in 0..7 /\ divider \in 0..(DividerSize - 1)
      /\ reload \in 0..4
  BY SuccFacts, TimerAssumption DEF IInv, TypeOK, Step, AdvanceReload, ReloadDelay
<1>2. divider' = divider + 1 \/ (divider' = 0 /\ divider % 1024 = 1023)
  BY <1>1, SuccFacts
<1>3. TypeOK'
  <2>1. tima' \in 0..TimaMax /\ reload' \in 0..ReloadDelay
    BY <1>1, StepCases, TimerAssumption DEF IInv, TypeOK, ReloadDelay
  <2>2. request' \in BOOLEAN
    BY DEF Step, IInv, TypeOK
  <2>3. QED BY <1>1, <2>1, <2>2 DEF IInv, TypeOK
<1>4. reload' \in 0..4 /\ ticks' \in 0..23 /\ divider' \in Nat
  <2>1. reload' \in 0..4
    BY <1>3 DEF TypeOK, ReloadDelay
  <2>2. divider' \in Nat
    BY <1>1
  <2>3. QED BY <1>1, <2>1, <2>2
<1>5. reload' # 0 => reload' = reload - 1 \/ (reload' = 4 /\ divider' % 16 = 0
                                            /\ ~Input(divider', tac))
  <2>1. Input(divider, tac) /\ ~Input(divider', tac) => divider' % 16 = 0
    BY <1>1, FallAtMultiple
  <2>2. QED BY <2>1, StepCases DEF ReloadDelay
<1>6. Aligned'
  <2>1. (divider' + ticks') % 4 = 0
    <3>1. (divider + ticks) % 4 = 0
      BY DEF IInv, Aligned
    <3>2. CASE divider' = divider + 1  BY <3>1, <3>2, <1>1
    <3>3. CASE divider' = 0 /\ divider % 1024 = 1023
      <4>1. divider % 4 = 3  BY <3>3, <1>1
      <4>2. QED BY <3>1, <3>3, <4>1, <1>1
    <3>4. QED BY <1>2, <3>2, <3>3
  <2>2. reload' # 0 => (reload' - ticks') % 4 = 0
    <3>1. CASE reload' = reload - 1 /\ reload # 0
      <4>1. (reload - ticks) % 4 = 0
        BY <3>1 DEF IInv, Aligned
      <4>2. reload' - ticks' = reload - ticks
        BY <3>1, <1>1
      <4>3. QED BY <4>1, <4>2
    <3>2. CASE reload' = 4 /\ divider' % 16 = 0
      <4>1. divider' \in Nat  BY <1>4
      <4>2. ticks' \in Nat  BY <1>4
      <4>3. divider' % 16 = 0  BY <3>2
      <4>4. (4 - ticks') % 4 = 0
        BY <2>1, <4>1, <4>2, <4>3, MultipleOfFour, Zenon
      <4>5. QED BY <3>2, <4>4
    <3>3. reload' # 0 => reload # 0 \/ reload' # reload - 1
      BY <1>1, <1>3 DEF TypeOK, ReloadDelay
    <3>4. QED BY <3>1, <3>2, <3>3, <1>5
  <2>3. written' = {}
    BY <1>1 DEF IInv, Aligned
  <2>4. QED BY <2>1, <2>2, <2>3 DEF Aligned
<1>7. PendingReadsZero'
  BY StepCases, <1>1 DEF IInv, PendingReadsZero, ReloadDelay
<1>8. Shielded'
  <2> SUFFICES ASSUME reload' # 0 PROVE Shielded'
    BY DEF Shielded
  <2>1. CASE reload' = 4 /\ divider' % 16 = 0
    BY <2>1 DEF Shielded, ReloadDelay
  <2>2. CASE reload' = reload - 1 /\ reload # 0
    <3>1. PICK h \in {8, 32, 128, 512} : h = HalfPeriod(tac)
      BY HalfPeriods, <1>1
    <3>2. \/ divider % 16 = 4 - reload
          \/ ~Enabled(tac)
          \/ divider % (2 * h) < h + 4 - reload
      BY <2>2, <3>1 DEF IInv, Shielded, ReloadDelay
    <3>3. HalfPeriod(tac') = h /\ Enabled(tac') = Enabled(tac) /\ reload \in 2..4
      BY <1>1, <2>2, <3>1 DEF Enabled
    <3>4. CASE ~Enabled(tac)
      BY <3>3, <3>4 DEF Shielded
    <3>5. CASE divider % 16 = 4 - reload
      <4>1. divider' % 16 = 4 - reload'
        BY <1>1, <1>2, <2>2, <3>3, <3>5
      <4>2. QED BY <4>1 DEF Shielded, ReloadDelay
    <3>6. CASE divider % (2 * h) < h + 4 - reload
      <4>1. divider' % (2 * h) < h + 4 - reload'
        <5>1. CASE h = 8    BY <5>1, <1>1, <1>2, <2>2, <3>3, <3>6
        <5>2. CASE h = 32   BY <5>2, <1>1, <1>2, <2>2, <3>3, <3>6
        <5>3. CASE h = 128  BY <5>3, <1>1, <1>2, <2>2, <3>3, <3>6
        <5>4. CASE h = 512  BY <5>4, <1>1, <1>2, <2>2, <3>3, <3>6
        <5>5. QED BY <3>1, <5>1, <5>2, <5>3, <5>4
      <4>2. QED BY <3>3, <4>1 DEF Shielded, ReloadDelay
    <3>7. QED BY <3>2, <3>4, <3>5, <3>6
  <2>3. QED BY <1>1, <1>3, <1>5, <2>1, <2>2 DEF TypeOK
<1>9. LowAtWrite'
  <2>1. ticks' = 0 /\ reload' # 0
          => reload' = 4 /\ divider' % 16 = 0 /\ ~Input(divider', tac)
    <3>1. ASSUME ticks' = 0, reload' # 0
          PROVE  reload' = 4 /\ reload' # reload - 1
      <4>1. (reload' - 0) % 4 = 0
        BY <3>1, <1>6 DEF Aligned
      <4>2. reload' \in 1..4  BY <3>1, <1>4
      <4>3. reload' = 4
        BY <4>1, <4>2, OnlyFour, Zenon
      <4>4. QED BY <4>3, <1>1
    <3>2. QED BY <1>5, <3>1
  <2>2. QED BY <1>1, <2>1 DEF LowAtWrite
<1>10. QED BY <1>3, <1>6, <1>7, <1>8, <1>9 DEF IInv

(***************************************************************************)
(* The writes.  A write to DIV or TAC finds the input low or no reload     *)
(* pending (ShieldedWrite), so its edge is counted from a clean countdown. *)
(***************************************************************************)
LEMMA EdgeCases ==
  ASSUME IInv, NEW high \in BOOLEAN, NEW low \in BOOLEAN,
         SetCounter(ApplyEdge(Counter, high, low)), high => reload = 0
  PROVE  /\ tima' \in 0..TimaMax /\ reload' \in 0..ReloadDelay
         /\ reload' # 0 => tima' = 0
         /\ reload' # 0 => \/ reload' = reload /\ (high => low)
                           \/ reload' = ReloadDelay /\ high /\ ~low
<1>1. CASE high /\ ~low
  <2>1. reload = 0
    BY <1>1
  <2>2. SetCounter(Increment(Counter))
    BY <1>1 DEF ApplyEdge
  <2>3. \/ tima = TimaMax /\ tima' = 0 /\ reload' = ReloadDelay
        \/ tima # TimaMax /\ tima' = tima + 1 /\ reload' = 0
    BY <2>1, <2>2 DEF SetCounter, Increment, Counter
  <2>4. tima \in 0..TimaMax /\ TimaMax \in Nat
    BY TimerAssumption DEF IInv, TypeOK
  <2>5. QED BY <1>1, <2>3, <2>4 DEF ReloadDelay
<1>2. CASE ~(high /\ ~low)
  <2>1. SetCounter(Counter)
    BY <1>2 DEF ApplyEdge
  <2>2. tima' = tima /\ reload' = reload
    BY <2>1 DEF SetCounter, Counter
  <2>3. QED BY <1>2, <2>2 DEF IInv, TypeOK, PendingReadsZero
<1>3. QED BY <1>1, <1>2

\* A write to DIV keeps the invariant: the edge it causes starts a countdown of
\* its own or finds none.
LEMMA WriteDIVIInv == ASSUME IInv, WriteDIV PROVE IInv'
<1>1. /\ ticks = 0 /\ "TAC" \notin written
      /\ divider' = 0 /\ ticks' = 0 /\ tac' = tac /\ tma' = tma
      /\ written' = written \cup {"DIV"}
  BY DEF WriteDIV, MayWrite, Written, Address
<1>2. /\ tima' \in 0..TimaMax /\ reload' \in 0..ReloadDelay
      /\ reload' # 0 => tima' = 0
      /\ reload' # 0 => reload' = ReloadDelay
  <2>1. Input(divider, tac) => reload = 0
    BY ShieldedWrite DEF WriteDIV
  <2>2. Input(divider, tac) \in BOOLEAN /\ Input(0, tac) \in BOOLEAN
    BY DEF Input
  <2>3. SetCounter(ApplyEdge(Counter, Input(divider, tac), Input(0, tac)))
    BY DEF WriteDIV
  <2>4. reload # 0 => reload = ReloadDelay
    <3>1. reload # 0 => (reload - 0) % 4 = 0
      BY <1>1 DEF IInv, Aligned
    <3>2. reload \in 0..4
      BY DEF IInv, TypeOK, ReloadDelay
    <3>3. QED BY <3>1, <3>2 DEF ReloadDelay
  <2>5. QED BY <2>1, <2>2, <2>3, <2>4, EdgeCases, Zenon
<1>3. TypeOK'
  <2>1. request' \in BOOLEAN
    BY DEF WriteDIV, Written, IInv, TypeOK
  <2>2. divider' \in 0..(DividerSize - 1)
    BY <1>1, TimerAssumption
  <2>3. QED BY <1>1, <1>2, <2>1, <2>2 DEF IInv, TypeOK, Registers
<1>4. Aligned'
  <2>1. (0 + 0) % 4 = 0 /\ (4 - 0) % 4 = 0
    OBVIOUS
  <2>2. QED BY <1>1, <1>2, <2>1 DEF Aligned, ReloadDelay
<1>5. PendingReadsZero' /\ Shielded'
  <2>1. 0 % 16 = 4 - 4
    OBVIOUS
  <2>2. QED BY <1>1, <1>2, <2>1 DEF PendingReadsZero, Shielded, ReloadDelay
<1>6. LowAtWrite'
  <2>1. ~Input(0, tac)
    <3>1. PICK h \in {8, 32, 128, 512} : h = HalfPeriod(tac)
      BY HalfPeriods DEF IInv, TypeOK
    <3>2. QED BY <3>1 DEF Input
  <2>2. QED BY <1>1, <2>1 DEF LowAtWrite
<1>7. QED BY <1>3, <1>4, <1>5, <1>6 DEF IInv

\* A write to TIMA keeps the invariant: it ends the countdown.
LEMMA WriteTIMAIInv ==
  ASSUME IInv, NEW v \in 0..TimaMax, WriteTIMA(v) PROVE IInv'
<1>1. /\ tima' = v /\ reload' = 0 /\ ticks = 0
      /\ UNCHANGED <<divider, tma, tac, request, ticks>>
      /\ written' = written \cup {"TIMA"}
  BY DEF WriteTIMA, MayWrite, Written
<1>2. TypeOK'
  BY <1>1 DEF IInv, TypeOK, Registers, ReloadDelay
<1>3. Aligned' /\ PendingReadsZero' /\ Shielded' /\ LowAtWrite'
  BY <1>1 DEF IInv, Aligned, PendingReadsZero, Shielded, LowAtWrite
<1>4. QED BY <1>2, <1>3 DEF IInv

\* A write to TMA keeps the invariant.
LEMMA WriteTMAIInv ==
  ASSUME IInv, NEW v \in 0..TimaMax, WriteTMA(v) PROVE IInv'
<1>1. /\ tma' = v /\ ticks = 0
      /\ UNCHANGED <<divider, tima, tac, reload, request, ticks>>
      /\ written' = written \cup {"TMA"}
  BY DEF WriteTMA, MayWrite, Written
<1>2. TypeOK'
  BY <1>1 DEF IInv, TypeOK, Registers
<1>3. Aligned' /\ PendingReadsZero' /\ Shielded' /\ LowAtWrite'
  BY <1>1 DEF IInv, Aligned, PendingReadsZero, Shielded, LowAtWrite
<1>4. QED BY <1>2, <1>3 DEF IInv

\* A write to TAC keeps the invariant: the input it moves may fall.
LEMMA WriteTACIInv ==
  ASSUME IInv, NEW t \in 0..7, WriteTAC(t) PROVE IInv'
<1>1. /\ ticks = 0 /\ "TAC" \notin written
      /\ divider' = divider /\ ticks' = 0 /\ tac' = t /\ tma' = tma
      /\ written' = written \cup {"TAC"}
      /\ divider \in 0..(DividerSize - 1)
  BY DEF WriteTAC, MayWrite, Written, Address, IInv, TypeOK
<1>2. reload # 0 => reload = ReloadDelay
  <2>1. reload # 0 => (reload - 0) % 4 = 0
    BY <1>1 DEF IInv, Aligned
  <2>2. reload \in 0..4
    BY DEF IInv, TypeOK, ReloadDelay
  <2>3. QED BY <2>1, <2>2 DEF ReloadDelay
<1>3. /\ tima' \in 0..TimaMax /\ reload' \in 0..ReloadDelay
      /\ reload' # 0 => tima' = 0
      /\ reload' # 0 => \/ reload' = reload
                        \/ reload' = ReloadDelay /\ ~Input(divider, t)
  <2>1. Input(divider, tac) => reload = 0
    BY ShieldedWrite DEF WriteTAC
  <2>2. Input(divider, tac) \in BOOLEAN /\ Input(divider, t) \in BOOLEAN
    BY DEF Input
  <2>3. SetCounter(ApplyEdge(Counter, Input(divider, tac), Input(divider, t)))
    BY DEF WriteTAC
  <2>4. QED BY <2>1, <2>2, <2>3, EdgeCases, Zenon
<1>4. TypeOK'
  <2>1. request' \in BOOLEAN
    BY DEF WriteTAC, Written, IInv, TypeOK
  <2>2. QED BY <1>1, <1>3, <2>1 DEF IInv, TypeOK, Registers
<1>5. Aligned'
  <2>1. (4 - 0) % 4 = 0
    OBVIOUS
  <2>2. (divider + 0) % 4 = 0
    BY <1>1 DEF IInv, Aligned
  <2>3. reload' # 0 => reload' = 4
    BY <1>2, <1>3 DEF ReloadDelay
  <2>4. QED BY <1>1, <2>1, <2>2, <2>3 DEF Aligned
<1>6. PendingReadsZero'
  BY <1>3 DEF PendingReadsZero
<1>7. Shielded'
  <2> SUFFICES ASSUME reload' # 0 PROVE Shielded'
    BY DEF Shielded
  <2>1. CASE reload' = reload /\ reload # 0
    <3>1. divider % 16 = 0
      BY <1>1, <2>1 DEF IInv, LowAtWrite
    <3>2. QED BY <1>1, <1>2, <2>1, <3>1 DEF Shielded, ReloadDelay
  <2>2. CASE reload' = ReloadDelay /\ ~Input(divider, t)
    <3>1. PICK h \in {8, 32, 128, 512} : h = HalfPeriod(t)
      BY HalfPeriods
    <3>2. ~Enabled(t) \/ divider % (2 * h) < h
      <4>1. divider % (2 * h) \in Int
        BY <3>1, <1>1
      <4>2. QED BY <2>2, <3>1, <1>1, <4>1, LowHalf
    <3>3. QED BY <1>1, <2>2, <3>1, <3>2 DEF Shielded, ReloadDelay
  <2>3. QED BY <1>3, <2>1, <2>2
<1>8. LowAtWrite'
  BY <1>1 DEF LowAtWrite
<1>9. QED BY <1>4, <1>5, <1>6, <1>7, <1>8 DEF IInv

\* The end of an instruction, a reset and stuttering keep the invariant.
LEMMA OtherIInv ==
  ASSUME IInv, \/ \E n \in InstructionLengths, clear \in BOOLEAN :
                    FinishInstruction(n, clear)
               \/ Reset
               \/ UNCHANGED vars
  PROVE  IInv'
<1>1. ASSUME NEW n \in InstructionLengths, NEW clear \in BOOLEAN,
             FinishInstruction(n, clear)
      PROVE  IInv'
  <2>1. n \in 4..24 /\ n % 4 = 0
    <3>1. PICK m \in 1..6 : n = 4 * m
      BY TimerAssumption
    <3>2. QED BY <3>1
  <2>2. /\ ticks = 0 /\ ticks' = n /\ written' = {}
        /\ UNCHANGED <<divider, tima, tma, tac, reload>>
    BY <1>1 DEF FinishInstruction, timerVars
  <2>3. TypeOK'
    <3>1. request' \in BOOLEAN
      BY <1>1 DEF FinishInstruction, IInv, TypeOK
    <3>2. QED BY <2>1, <2>2, <3>1 DEF IInv, TypeOK
  <2>4. Aligned'
    <3>1. (divider + n) % 4 = 0
      <4>1. (divider + 0) % 4 = 0 /\ divider \in Nat
        BY <2>2, TimerAssumption DEF IInv, Aligned, TypeOK
      <4>2. n \in Nat
        BY <2>1
      <4>3. QED BY <4>1, <4>2, <2>1
    <3>2. reload # 0 => (reload - n) % 4 = 0
      <4>1. reload # 0 => (reload - 0) % 4 = 0
        BY <2>2 DEF IInv, Aligned
      <4>2. reload \in Nat /\ n \in Nat
        BY <2>1 DEF IInv, TypeOK, ReloadDelay
      <4>3. QED BY <4>1, <4>2, <2>1
    <3>3. QED BY <2>2, <3>1, <3>2 DEF Aligned
  <2>5. PendingReadsZero' /\ Shielded'
    BY <2>2 DEF IInv, PendingReadsZero, Shielded
  <2>6. LowAtWrite'
    BY <2>1, <2>2 DEF LowAtWrite
  <2>7. QED BY <2>3, <2>4, <2>5, <2>6 DEF IInv
<1>2. CASE Reset
  <2>1. Init'
    BY <1>2 DEF Reset, Init
  <2>2. QED BY <2>1, InitIInv, PTL
<1>3. CASE UNCHANGED vars
  BY <1>3 DEF vars, IInv, TypeOK, Aligned, PendingReadsZero, Shielded, LowAtWrite
<1>4. QED BY <1>1, <1>2, <1>3

-----------------------------------------------------------------------------

LEMMA NextIInv ==
  ASSUME IInv, [Next]_vars
  PROVE  IInv'
<1>1. CASE Step
  BY <1>1, StepIInv
<1>2. CASE WriteDIV
  BY <1>2, WriteDIVIInv
<1>3. ASSUME NEW v \in 0..TimaMax, WriteTIMA(v) \/ WriteTMA(v) PROVE IInv'
  BY <1>3, WriteTIMAIInv, WriteTMAIInv
<1>4. ASSUME NEW t \in 0..7, WriteTAC(t) PROVE IInv'
  BY <1>4, WriteTACIInv
<1>5. CASE \/ \E n \in InstructionLengths, clear \in BOOLEAN :
                FinishInstruction(n, clear)
           \/ Reset
           \/ UNCHANGED vars
  BY <1>5, OtherIInv
<1>6. QED BY <1>1, <1>2, <1>3, <1>4, <1>5 DEF Next, Write

(***************************************************************************)
(* The inductive invariant holds throughout: instructions and cycles keep  *)
(* the divider, the cycles due and a pending reload aligned, and shield a  *)
(* pending reload from another edge.                                       *)
(***************************************************************************)
THEOREM Invariance == Spec => []IInv
<1>1. IInv /\ [Next]_vars => IInv'
  BY NextIInv
<1>2. QED BY InitIInv, <1>1, PTL DEF Spec

\* Every register keeps its range, and the countdown its bound.
THEOREM TypeCorrect == Spec => []TypeOK
BY Invariance, PTL DEF IInv

\* TIMA reads as zero while a reload is pending.
THEOREM ZeroUntilReload == Spec => []PendingReadsZero
BY Invariance, PTL DEF IInv

(***************************************************************************)
(* Software has exactly one machine cycle in which it can cancel a reload. *)
(***************************************************************************)
THEOREM ReloadWindow == Spec => []CancelWindow
<1>1. IInv => CancelWindow
  <2> SUFFICES ASSUME IInv PROVE CancelWindow
    BY DEF IInv
  <2> SUFFICES ASSUME ticks = 0, reload # 0 PROVE reload = ReloadDelay
    BY DEF CancelWindow
  <2>1. (reload - 0) % 4 = 0 /\ reload \in 0..4
    BY DEF IInv, Aligned, TypeOK, ReloadDelay
  <2>2. QED BY <2>1 DEF ReloadDelay
<1>2. QED BY <1>1, Invariance, PTL

(***************************************************************************)
(* No falling edge of the timer input is ever swallowed by a pending       *)
(* reload, whatever the program writes and whenever it writes it.          *)
(***************************************************************************)
THEOREM EveryEdgeCounts == Spec => NoEdgeLost
<1>1. IInv /\ [Next]_vars => [(Step \/ Write) /\ EdgeFalls => EdgeCounts]_vars
  <2> SUFFICES ASSUME IInv, Step \/ Write, EdgeFalls PROVE EdgeCounts
    OBVIOUS
  <2>0. TimaMax \in Nat \ {0} /\ tima \in 0..TimaMax
    BY TimerAssumption DEF IInv, TypeOK
  <2>1. CASE Step
    <3>1. Input(divider, tac) /\ ~Input(divider', tac) /\ divider' = Succ(divider)
      BY <2>1 DEF EdgeFalls, Step
    <3>2. reload \in {0, 1}
      BY <2>1, <3>1, ShieldedStep DEF IInv, TypeOK, ReloadDelay
    <3>3. SetCounter(Increment(AdvanceReload)) /\ AdvanceReload.reload = 0
      BY <2>1, <3>1, <3>2 DEF Step, ApplyEdge, AdvanceReload
    <3>4. QED BY <3>2, <3>3 DEF EdgeCounts, SetCounter, Increment
  <2>2. CASE WriteDIV \/ \E t \in 0..7 : WriteTAC(t)
    <3>1. reload = 0
      BY <2>2, ShieldedWrite DEF EdgeFalls, WriteDIV, WriteTAC
    <3>2. SetCounter(Increment(Counter))
      BY <2>2, <3>1 DEF EdgeFalls, WriteDIV, WriteTAC, ApplyEdge
    <3>3. QED BY <3>1, <3>2 DEF EdgeCounts, SetCounter, Increment, Counter,
                                AdvanceReload
  <2>3. CASE \E v \in 0..TimaMax : WriteTIMA(v) \/ WriteTMA(v)
    BY <2>3 DEF EdgeFalls, WriteTIMA, WriteTMA
  <2>4. QED BY <2>1, <2>2, <2>3 DEF Write
<1>2. QED BY <1>1, Invariance, PTL DEF Spec, NoEdgeLost

(***************************************************************************)
(* The answer of timer_may_generate_interrupt stays valid: a timer that    *)
(* may not raise its interrupt does not, for any number of cycles.         *)
(***************************************************************************)
THEOREM QuietTimer == Spec => QuietStaysQuiet
<1> DEFINE Quiet == Step /\ ~MayGenerateInterrupt
                      => ~MayGenerateInterrupt' /\ UNCHANGED <<request, tima>>
<1>1. ASSUME TypeOK, Step, ~MayGenerateInterrupt
      PROVE  ~MayGenerateInterrupt' /\ UNCHANGED <<request, tima>>
  <2>1. ~Enabled(tac) /\ reload = 0
    BY <1>1 DEF MayGenerateInterrupt
  <2>2. ~Input(divider, tac)
    BY <2>1 DEF Input
  <2>3. SetCounter(AdvanceReload)
    BY <1>1, <2>2 DEF Step, ApplyEdge
  <2>4. tima' = tima /\ reload' = 0
    BY <2>1, <2>3 DEF SetCounter, AdvanceReload
  <2>5. tac' = tac
    BY <1>1 DEF Step
  <2>6. request' = request
    <3>1. request' = (request \/ reload = 1) /\ request \in BOOLEAN
      BY <1>1 DEF Step, TypeOK
    <3>2. (reload = 1) = FALSE
      BY <2>1
    <3> QED
      BY <3>1, <3>2
  <2> QED
    BY <2>1, <2>4, <2>5, <2>6 DEF MayGenerateInterrupt
<1>2. TypeOK => Quiet
  BY <1>1
<1>3. Spec => [][Quiet]_vars
  BY <1>2, TypeCorrect, PTL
<1> QED
  BY <1>3 DEF QuietStaysQuiet

-----------------------------------------------------------------------------
(* The timer in machine cycles. *)

\* Every half period is a whole number of machine cycles, so the clock input
\* depends on the number of the machine cycle only.
LEMMA SameInput ==
  ASSUME NEW d \in 0..(DividerSize - 1), NEW t \in 0..7
  PROVE  Input(d, t) <=> Machine!High(d \div 4, t)
<1>1. d \in Nat
  BY TimerAssumption
<1>2. /\ d \div 512 = (d \div 4) \div 128 /\ d \div 8 = (d \div 4) \div 2
      /\ d \div 32 = (d \div 4) \div 8 /\ d \div 128 = (d \div 4) \div 32
  BY <1>1
<1>3. t % 4 \in 0..3
  OBVIOUS
<1> QED
  BY <1>2, <1>3 DEF Input, Enabled, HalfPeriod, Machine!High, Machine!HalfPeriod

\* The divider has a whole number of periods of every clock.
KiloCycles == DividerSize \div 1024

LEMMA DividerSizes == KiloCycles \in Nat \ {0} /\ DividerSize = 1024 * KiloCycles
<1>1. DividerSize \in Nat /\ DividerSize > 0 /\ DividerSize % 1024 = 0
  BY TimerAssumption
<1>2. DividerSize = 1024 * (DividerSize \div 1024)
  BY <1>1
<1>3. DividerSize \div 1024 \in Nat \ {0}
  BY <1>1, <1>2
<1> QED
  BY <1>2, <1>3 DEF KiloCycles

\* Within a machine cycle its number stays; after the last clock it is the next.
LEMMA NextCycle ==
  ASSUME NEW d \in 0..(DividerSize - 1)
  PROVE  /\ d % 4 # 3 => Succ(d) \div 4 = d \div 4 /\ Succ(d) % 16 # 0
         /\ d % 4 = 3 => Succ(d) \div 4 = ((d \div 4) + 1) % (DividerSize \div 4)
<1>1. KiloCycles \in Nat \ {0} /\ DividerSize = 1024 * KiloCycles
  BY DividerSizes
<1>2. DividerSize \div 4 = 256 * KiloCycles /\ d \in Nat /\ d <= 1024 * KiloCycles - 1
  BY <1>1
<1>3. CASE d % 4 # 3
  <2>1. d # 1024 * KiloCycles - 1
    BY <1>1, <1>2, <1>3
  <2>2. Succ(d) = d + 1
    BY <1>1, <2>1 DEF Succ
  <2>3. (d + 1) \div 4 = d \div 4 /\ (d + 1) % 16 # 0
    BY <1>1, <1>2, <1>3
  <2> QED
    BY <1>3, <2>2, <2>3
<1>4. CASE d % 4 = 3 /\ d = 1024 * KiloCycles - 1
  <2>1. (d \div 4) + 1 = 256 * KiloCycles
    BY <1>1, <1>2, <1>4
  <2>3. (256 * KiloCycles) % (256 * KiloCycles) = 0
    <3>1. \A k \in Nat \ {0} : k % k = 0
      OBVIOUS
    <3>2. 256 * KiloCycles \in Nat \ {0}
      BY <1>1
    <3> QED
      BY <3>1, <3>2
  <2>2. Succ(d) = 0
    BY <1>1, <1>4 DEF Succ
  <2> QED
    BY <1>2, <1>4, <2>1, <2>2, <2>3
<1>5. CASE d % 4 = 3 /\ d # 1024 * KiloCycles - 1
  <2>1. Succ(d) = d + 1
    BY <1>1, <1>5 DEF Succ
  <2>2. (d + 1) \div 4 = (d \div 4) + 1 /\ (d \div 4) + 1 \in 0..(256 * KiloCycles - 1)
    BY <1>1, <1>2, <1>5
  <2>3. ((d \div 4) + 1) % (256 * KiloCycles) = (d \div 4) + 1
    <3>1. \A k \in Nat \ {0} : \A x \in 0..(k - 1) : x % k = x
      OBVIOUS
    <3>2. 256 * KiloCycles \in Nat \ {0}
      BY <1>1
    <3> QED
      BY <2>2, <3>1, <3>2
  <2> QED
    BY <1>2, <1>5, <2>1, <2>2, <2>3
<1> QED
  BY <1>3, <1>4, <1>5

\* A pending reload runs out in the last clock of a machine cycle.
LEMMA CountdownAligned ==
  ASSUME NEW d \in Nat, NEW t \in Nat, NEW c \in 1..4, (d + t) % 4 = 0, (c - t) % 4 = 0
  PROVE  c = 1 <=> d % 4 = 3
OBVIOUS

LEMMA ClockRefines ==
  ASSUME IInv, Step
  PROVE  [Machine!Next]_(Machine!vars)
<1>1. /\ divider \in 0..(DividerSize - 1) /\ divider \in Nat /\ ticks \in Nat
      /\ reload \in 0..4 /\ tac \in 0..7 /\ request \in BOOLEAN
  BY TimerAssumption DEF IInv, TypeOK, ReloadDelay
<1>2. /\ divider' = Succ(divider) /\ tma' = tma /\ tac' = tac
      /\ request' = (request \/ reload = 1)
      /\ SetCounter(ApplyEdge(AdvanceReload, Input(divider, tac), Input(Succ(divider), tac)))
  BY DEF Step
<1>3. reload # 0 => (reload = 1 <=> divider % 4 = 3)
  BY <1>1, CountdownAligned DEF IInv, Aligned
<1>4. CASE divider % 4 # 3
  <2>1. reload # 1
    BY <1>3, <1>4
  <2>2. ~(Input(divider, tac) /\ ~Input(Succ(divider), tac))
    BY <1>1, <1>4, NextCycle, FallAtMultiple
  <2>3. SetCounter(AdvanceReload)
    BY <1>2, <2>2 DEF ApplyEdge
  <2>4. tima' = tima
    BY <2>1, <2>3 DEF SetCounter, AdvanceReload
  <2>5. reload' = IF reload = 0 THEN 0 ELSE reload - 1
    BY <2>3 DEF SetCounter, AdvanceReload
  <2>6. (reload' # 0) = (reload # 0)
    BY <1>1, <2>1, <2>5
  <2>7. request' = request
    <3>1. (reload = 1) = FALSE
      BY <2>1
    <3> QED
      BY <1>1, <1>2, <3>1, Zenon
  <2>8. divider' \div 4 = divider \div 4
    BY <1>1, <1>2, <1>4, NextCycle
  <2> QED
    BY <1>2, <2>4, <2>6, <2>7, <2>8 DEF Machine!vars
<1>5. CASE divider % 4 = 3
  <2>1. reload \in {0, 1}
    BY <1>1, <1>3, <1>5
  <2> DEFINE now == IF reload # 0 THEN tma ELSE tima
             falls == Machine!High(divider \div 4, tac)
                        /\ ~Machine!High(((divider \div 4) + 1) % (DividerSize \div 4), tac)
  <2>2. divider' \div 4 = ((divider \div 4) + 1) % (DividerSize \div 4)
    BY <1>1, <1>2, <1>5, NextCycle
  <2>3. falls <=> Input(divider, tac) /\ ~Input(Succ(divider), tac)
    <3>1. Succ(divider) \div 4 = ((divider \div 4) + 1) % (DividerSize \div 4)
      BY <1>1, <1>5, NextCycle
    <3>2. Succ(divider) \in 0..(DividerSize - 1)
      BY <1>1, SuccFacts
    <3>3. Input(Succ(divider), tac) <=> Machine!High(Succ(divider) \div 4, tac)
      BY <1>1, <3>2, SameInput
    <3>4. Input(divider, tac) <=> Machine!High(divider \div 4, tac)
      BY <1>1, SameInput
    <3> QED
      BY <3>1, <3>3, <3>4
  <2>4. AdvanceReload = [tima |-> now, reload |-> 0]
    BY <2>1 DEF AdvanceReload
  <2>5. Machine!Count(falls, now)
    <3>1. CASE ~falls
      <4>1. SetCounter([tima |-> now, reload |-> 0])
        BY <1>2, <2>3, <2>4, <3>1 DEF ApplyEdge
      <4>2. tima' = now /\ reload' = 0
        BY <4>1 DEF SetCounter
      <4>3. (reload' # 0) = FALSE
        BY <4>2
      <4> QED
        BY <3>1, <4>2, <4>3 DEF Machine!Count
    <3>2. CASE falls
      <4>1. SetCounter(Increment([tima |-> now, reload |-> 0]))
        BY <1>2, <2>3, <2>4, <3>2 DEF ApplyEdge
      <4>2. /\ now = TimaMax => tima' = 0 /\ reload' = 4
            /\ now # TimaMax => tima' = now + 1 /\ reload' = 0
        BY <4>1 DEF SetCounter, Increment, ReloadDelay
      <4>3. (reload' # 0) = (now = TimaMax)
        BY <4>2
      <4> QED
        BY <3>2, <4>2, <4>3 DEF Machine!Count
    <3> QED
      BY <3>1, <3>2
  <2>6. request' = (request \/ reload # 0)
    <3>1. (reload = 1) = (reload # 0)
      BY <2>1
    <3> QED
      BY <1>2, <3>1
  <2>7. Machine!MachineCycle
    BY <1>2, <2>2, <2>5, <2>6 DEF Machine!MachineCycle
  <2> QED
    BY <2>7 DEF Machine!Next
<1> QED
  BY <1>4, <1>5

LEMMA WritesRefine ==
  ASSUME IInv, Write
  PROVE  [Machine!Next]_(Machine!vars)
<1>1. /\ divider \in 0..(DividerSize - 1) /\ 0 \in 0..(DividerSize - 1) /\ tac \in 0..7
      /\ tima \in 0..TimaMax /\ request' = request
  BY TimerAssumption DEF IInv, TypeOK, Write, WriteDIV, WriteTIMA, WriteTMA, WriteTAC, Written
<1>2. ASSUME NEW d \in 0..(DividerSize - 1), NEW t \in 0..7,
             divider' = d, tac' = t, tma' = tma,
             Input(divider, tac) => reload = 0,
             SetCounter(ApplyEdge(Counter, Input(divider, tac), Input(d, t)))
      PROVE  Machine!MoveInput(d \div 4, t)
  <2>1. /\ Input(divider, tac) <=> Machine!High(divider \div 4, tac)
        /\ Input(d, t) <=> Machine!High(d \div 4, t)
    BY <1>1, <1>2, SameInput
  <2>2. CASE ~(Input(divider, tac) /\ ~Input(d, t))
    <3>1. tima' = tima /\ reload' = reload
      BY <1>2, <2>2 DEF ApplyEdge, SetCounter, Counter
    <3>2. (reload' # 0) = (reload # 0)
      BY <3>1
    <3>3. reload = 0 => (reload' # 0) = FALSE
      BY <3>1
    <3> QED
      BY <1>1, <1>2, <2>1, <2>2, <3>1, <3>2, <3>3 DEF Machine!MoveInput, Machine!Count
  <2>3. CASE Input(divider, tac) /\ ~Input(d, t)
    <3>1. reload = 0 /\ SetCounter(Increment(Counter))
      BY <1>2, <2>3 DEF ApplyEdge
    <3>2. /\ tima = TimaMax => tima' = 0 /\ reload' = 4
          /\ tima # TimaMax => tima' = tima + 1 /\ reload' = 0
      BY <3>1 DEF SetCounter, Increment, ReloadDelay, Counter
    <3>3. (reload' # 0) = (tima = TimaMax)
      BY <3>2
    <3> QED
      BY <1>1, <1>2, <2>1, <2>3, <3>1, <3>2, <3>3 DEF Machine!MoveInput, Machine!Count
  <2> QED
    BY <2>2, <2>3
<1>3. CASE WriteDIV
  <2>1. Input(divider, tac) => reload = 0
    BY <1>3, ShieldedWrite DEF WriteDIV
  <2>2. /\ divider' = 0 /\ tac' = tac /\ tma' = tma
        /\ SetCounter(ApplyEdge(Counter, Input(divider, tac), Input(0, tac)))
    BY <1>3 DEF WriteDIV
  <2>3. Machine!MoveInput(0 \div 4, tac) /\ 0 \div 4 = 0
    BY <1>1, <1>2, <2>1, <2>2
  <2> QED
    BY <2>3 DEF Machine!Next
<1>4. ASSUME NEW t \in 0..7, WriteTAC(t)
      PROVE  Machine!Next
  <2>1. Input(divider, tac) => reload = 0
    BY <1>4, ShieldedWrite DEF WriteTAC
  <2>2. /\ divider' = divider /\ tac' = t /\ tma' = tma
        /\ SetCounter(ApplyEdge(Counter, Input(divider, tac), Input(divider, t)))
    BY <1>4 DEF WriteTAC
  <2>3. Machine!MoveInput(divider \div 4, t)
    BY <1>1, <1>2, <2>1, <2>2
  <2> QED
    BY <2>3 DEF Machine!Next
<1>5. ASSUME NEW v \in 0..TimaMax, WriteTIMA(v) PROVE Machine!Next
  <2>1. tima' \in 0..TimaMax /\ reload' = 0 /\ UNCHANGED <<divider, tma, tac, request>>
    BY <1>1, <1>5 DEF WriteTIMA
  <2>2. (reload' # 0) = FALSE
    BY <2>1
  <2> QED
    BY <2>1, <2>2 DEF Machine!Next, Machine!SetTIMA
<1>6. ASSUME NEW v \in 0..TimaMax, WriteTMA(v) PROVE Machine!Next
  BY <1>1, <1>6 DEF WriteTMA, Machine!Next, Machine!SetTMA
<1> QED
  BY <1>3, <1>4, <1>5, <1>6 DEF Write

LEMMA OthersRefine ==
  ASSUME IInv, \/ \E n \in InstructionLengths, clear \in BOOLEAN : FinishInstruction(n, clear)
               \/ Reset
               \/ UNCHANGED vars
  PROVE  [Machine!Next]_(Machine!vars)
<1>1. ASSUME NEW n \in InstructionLengths, NEW clear \in BOOLEAN, FinishInstruction(n, clear)
      PROVE  [Machine!Next]_(Machine!vars)
  <2>1. UNCHANGED <<divider, tima, tma, tac, reload>> /\ request' = (request /\ ~clear)
    BY <1>1 DEF FinishInstruction, timerVars
  <2>2. CASE clear
    <3>1. request' = FALSE
      BY <2>1, <2>2
    <3> QED
      BY <2>1, <3>1 DEF Machine!Next, Machine!Acknowledge
  <2>3. CASE ~clear
    <3>1. request' = request
      BY <2>1, <2>3 DEF IInv, TypeOK
    <3> QED
      BY <2>1, <3>1 DEF Machine!vars
  <2> QED
    BY <1>1, <2>2, <2>3
<1>2. CASE Reset
  <2>1. /\ divider' \div 4 = 0 /\ tima' = 0 /\ tma' = 0 /\ tac' = 0 /\ request' = FALSE
        /\ (reload' # 0) = FALSE
    BY <1>2 DEF Reset
  <2> QED
    BY <2>1 DEF Machine!Next, Machine!Reset
<1>3. CASE UNCHANGED vars
  BY <1>3 DEF vars, Machine!vars
<1> QED
  BY <1>1, <1>2, <1>3

(***************************************************************************)
(* The cycle-by-cycle timer implements the timer in machine cycles, for    *)
(* every size of the divider and of TIMA.                                  *)
(***************************************************************************)
THEOREM MachineCycles == MCSpec => ImplementsMachineCycles
<1>1. MCInit => IInv /\ Machine!Init
  <2>1. MCInit => IInv
    BY InitIInv DEF MCInit
  <2>2. MCInit => Machine!Init
    BY DEF MCInit, Init, Machine!Init
  <2> QED
    BY <2>1, <2>2
<1>2. IInv /\ [MCNext]_<<vars, elapsed>> => [Next]_vars
  BY DEF MCNext
<1>3. IInv /\ [Next]_vars => [Machine!Next]_(Machine!vars)
  BY ClockRefines, WritesRefine, OthersRefine DEF Next
<1>4. IInv /\ [Next]_vars => IInv'
  BY NextIInv
<1> QED
  BY <1>1, <1>2, <1>3, <1>4, PTL DEF MCSpec, ImplementsMachineCycles, Machine!Spec

-----------------------------------------------------------------------------
(* The period of the timer. *)

\* Where the divider stands in the selected period, clock by clock.
LEMMA Phases ==
  ASSUME NEW d \in 0..(DividerSize - 1), NEW t \in 0..7, Enabled(t),
         NEW p \in {16, 64, 256, 1024}, p = 2 * HalfPeriod(t)
  PROVE  /\ Input(d, t) /\ ~Input(Succ(d), t) => d % p = p - 1
         /\ d % p = p - 1 => Input(d, t) /\ ~Input(Succ(d), t)
         /\ d % p = p - 1 => Succ(d) % p = 0
         /\ d % p # p - 1 => Succ(d) % p = (d % p) + 1
         /\ d % p \in 0..(p - 1)
<1>1. /\ d \in Nat /\ Succ(d) \in 0..(DividerSize - 1)
      /\ Succ(d) = d + 1 \/ (Succ(d) = 0 /\ d % 1024 = 1023)
  BY SuccFacts, TimerAssumption
<1>2. /\ Input(d, t) <=> d % (2 * HalfPeriod(t)) >= HalfPeriod(t)
      /\ Input(Succ(d), t) <=> Succ(d) % (2 * HalfPeriod(t)) >= HalfPeriod(t)
  BY <1>1, LowHalf
<1>3. CASE p = 16
  <2>1. HalfPeriod(t) = 8
    BY <1>3, HalfPeriods
  <2>2. /\ d % 16 = 15 => Succ(d) % 16 = 0
        /\ d % 16 # 15 => Succ(d) % 16 = (d % 16) + 1
        /\ d % 16 \in 0..15
    BY <1>1
  <2> QED
    BY <1>2, <1>3, <2>1, <2>2
<1>4. CASE p = 64
  <2>1. HalfPeriod(t) = 32
    BY <1>4, HalfPeriods
  <2>2. /\ d % 64 = 63 => Succ(d) % 64 = 0
        /\ d % 64 # 63 => Succ(d) % 64 = (d % 64) + 1
        /\ d % 64 \in 0..63
    BY <1>1
  <2> QED
    BY <1>2, <1>4, <2>1, <2>2
<1>5. CASE p = 256
  <2>1. HalfPeriod(t) = 128
    BY <1>5, HalfPeriods
  <2>2. /\ d % 256 = 255 => Succ(d) % 256 = 0
        /\ d % 256 # 255 => Succ(d) % 256 = (d % 256) + 1
        /\ d % 256 \in 0..255
    BY <1>1
  <2> QED
    BY <1>2, <1>5, <2>1, <2>2
<1>6. CASE p = 1024
  <2>1. HalfPeriod(t) = 512
    BY <1>6, HalfPeriods
  <2>2. /\ d % 1024 = 1023 => Succ(d) % 1024 = 0
        /\ d % 1024 # 1023 => Succ(d) % 1024 = (d % 1024) + 1
        /\ d % 1024 \in 0..1023
    BY <1>1
  <2> QED
    BY <1>2, <1>6, <2>1, <2>2
<1> QED
  BY <1>3, <1>4, <1>5, <1>6

\* Since the last overflow: the cycles count up while the reload waits, then
\* they are the periods TIMA has counted and the place in the current one.
PeriodInv ==
  elapsed # NoHistory =>
    /\ Enabled(tac) /\ written = {}
    /\ reload # 0 => elapsed = ReloadDelay - reload /\ elapsed = divider % (2 * HalfPeriod(tac))
    /\ reload = 0 =>
         /\ tima \in tma..TimaMax
         /\ elapsed = (tima - tma) * (2 * HalfPeriod(tac)) + (divider % (2 * HalfPeriod(tac)))

\* One more period.
LEMMA NextPeriod ==
  ASSUME NEW n \in Int, NEW p \in {16, 64, 256, 1024}
  PROVE  (n + 1) * p = n * p + p /\ 0 * p = 0 /\ n * p \in Int
OBVIOUS

\* A clock that makes TIMA overflow ends a whole number of periods.
LEMMA OverflowFacts ==
  ASSUME IInv, PeriodInv, Overflows
  PROVE  /\ Enabled(tac) /\ divider' % (2 * HalfPeriod(tac)) = 0 /\ tac' = tac
         /\ elapsed # NoHistory
              => elapsed + 1 = (TimaMax + 1 - tma) * (2 * HalfPeriod(tac))
<1>1. /\ divider \in 0..(DividerSize - 1) /\ reload \in 0..4 /\ tac \in 0..7
      /\ tma \in Nat /\ tima \in Nat /\ TimaMax \in Nat
  BY TimerAssumption DEF IInv, TypeOK, ReloadDelay
<1>2. /\ divider' = Succ(divider) /\ tac' = tac /\ reload' = 4
      /\ SetCounter(ApplyEdge(AdvanceReload, Input(divider, tac), Input(Succ(divider), tac)))
  BY DEF Overflows, Step, ReloadDelay
<1>3. Input(divider, tac) /\ ~Input(Succ(divider), tac)
  <2> SUFFICES ASSUME ~(Input(divider, tac) /\ ~Input(Succ(divider), tac)) PROVE FALSE
    OBVIOUS
  <2>1. reload' = AdvanceReload.reload
    BY <1>2 DEF ApplyEdge, SetCounter
  <2> QED
    BY <1>1, <1>2, <2>1 DEF AdvanceReload
<1>4. reload \in {0, 1}
  BY <1>1, <1>3, ShieldedStep DEF IInv, ReloadDelay
<1>5. SetCounter(Increment([tima |-> IF reload = 1 THEN tma ELSE tima, reload |-> 0]))
  BY <1>2, <1>3, <1>4 DEF ApplyEdge, AdvanceReload
<1>6. (IF reload = 1 THEN tma ELSE tima) = TimaMax
  BY <1>2, <1>5 DEF SetCounter, Increment
<1>7. Enabled(tac)
  BY <1>3 DEF Input
<1>8. PICK p \in {16, 64, 256, 1024} : p = 2 * HalfPeriod(tac)
  <2>1. HalfPeriod(tac) \in {8, 32, 128, 512}
    BY <1>1, HalfPeriods
  <2> QED
    BY <2>1
<1>9. divider % p = p - 1 /\ Succ(divider) % p = 0
  BY <1>1, <1>3, <1>7, <1>8, Phases
<1>10. ASSUME elapsed # NoHistory
       PROVE  elapsed + 1 = (TimaMax + 1 - tma) * p
  <2>1. reload = 0
    <3>1. reload # 0 => elapsed = 4 - reload /\ elapsed = divider % p
      BY <1>8, <1>10 DEF PeriodInv, ReloadDelay
    <3> QED
      BY <1>4, <1>9, <3>1
  <2>2. tima = TimaMax
    BY <1>6, <2>1
  <2>3. elapsed = (tima - tma) * p + (divider % p)
    BY <1>8, <1>10, <2>1 DEF PeriodInv
  <2>4. ((TimaMax - tma) + 1) * p = (TimaMax - tma) * p + p /\ (TimaMax - tma) * p \in Int
    BY <1>1, NextPeriod
  <2> QED
    BY <1>1, <1>9, <2>2, <2>3, <2>4
<1> QED
  BY <1>2, <1>7, <1>8, <1>9, <1>10

\* What the clocks between two overflows do.
LEMMA ClockKeepsPeriod ==
  ASSUME IInv, PeriodInv, Step, ~Overflows, elapsed # NoHistory, elapsed' = elapsed + 1
  PROVE  PeriodInv'
<1>1. /\ divider \in 0..(DividerSize - 1) /\ reload \in 0..4 /\ tac \in 0..7
      /\ tma \in Nat /\ tima \in Nat /\ TimaMax \in Nat /\ tma <= TimaMax
  BY TimerAssumption DEF IInv, TypeOK, ReloadDelay
<1>2. /\ divider' = Succ(divider) /\ tac' = tac /\ tma' = tma /\ written' = written
      /\ SetCounter(ApplyEdge(AdvanceReload, Input(divider, tac), Input(Succ(divider), tac)))
      /\ reload' # 4
  BY DEF Step, Overflows, ReloadDelay
<1>3. Enabled(tac) /\ written = {}
  BY DEF PeriodInv
<1>4. PICK p \in {16, 64, 256, 1024} : p = 2 * HalfPeriod(tac)
  <2>1. HalfPeriod(tac) \in {8, 32, 128, 512}
    BY <1>1, HalfPeriods
  <2> QED
    BY <2>1
<1>5. /\ Input(divider, tac) /\ ~Input(Succ(divider), tac) => divider % p = p - 1
      /\ divider % p = p - 1 => Input(divider, tac) /\ ~Input(Succ(divider), tac)
      /\ divider % p = p - 1 => Succ(divider) % p = 0
      /\ divider % p # p - 1 => Succ(divider) % p = (divider % p) + 1
      /\ divider % p \in 0..(p - 1)
  <2>1. p \in {16, 64, 256, 1024} /\ p = 2 * HalfPeriod(tac)
    BY <1>4
  <2>2. Enabled(tac) /\ divider \in 0..(DividerSize - 1) /\ tac \in 0..7
    BY <1>1, <1>3
  <2> QED
    BY <2>1, <2>2, Phases
<1>6. CASE reload # 0
  <2>1. elapsed = 4 - reload /\ elapsed = divider % p
    BY <1>4, <1>6 DEF PeriodInv, ReloadDelay
  <2>2. divider % p # p - 1
    BY <1>1, <1>4, <1>6, <2>1
  <2>3. ~(Input(divider, tac) /\ ~Input(Succ(divider), tac))
    BY <1>5, <2>2
  <2>4. /\ tima' = (IF reload = 1 THEN tma ELSE tima)
        /\ reload' = reload - 1
    BY <1>2, <1>6, <2>3 DEF ApplyEdge, SetCounter, AdvanceReload
  <2>5. elapsed' = Succ(divider) % p /\ elapsed' = 4 - (reload - 1)
    BY <1>1, <1>5, <2>1, <2>2
  <2>6. reload = 1 => tima' = tma /\ tima' \in tma..TimaMax
                        /\ elapsed' = (tima' - tma) * p + (Succ(divider) % p)
    <3>1. tma \in tma..TimaMax /\ Succ(divider) % p \in Nat /\ (tma - tma) * p = 0
      BY <1>1, <1>5, <2>2
    <3>2. elapsed' = (tma - tma) * p + (Succ(divider) % p)
      BY <2>5, <3>1
    <3> QED
      BY <2>4, <3>1, <3>2
  <2>7. reload' = 0 <=> reload = 1
    BY <1>1, <2>4
  <2>8. p = 2 * HalfPeriod(tac') /\ Enabled(tac') /\ written' = {}
    BY <1>2, <1>3, <1>4
  <2> QED
    BY <1>2, <2>4, <2>5, <2>6, <2>7, <2>8 DEF PeriodInv, ReloadDelay
<1>7. CASE reload = 0
  <2>1. tima \in tma..TimaMax /\ elapsed = (tima - tma) * p + (divider % p)
    BY <1>4, <1>7 DEF PeriodInv
  <2>2. (tima - tma) * p \in Int /\ ((tima - tma) + 1) * p = (tima - tma) * p + p
    BY <1>1, NextPeriod
  <2>3. p = 2 * HalfPeriod(tac') /\ Enabled(tac') /\ written' = {}
    BY <1>2, <1>3, <1>4
  <2>4. CASE divider % p = p - 1
    <3>1. SetCounter(Increment([tima |-> tima, reload |-> 0]))
      BY <1>2, <1>5, <1>7, <2>4 DEF ApplyEdge, AdvanceReload
    <3>2. tima' = tima + 1 /\ reload' = 0 /\ tima # TimaMax
      BY <1>2, <3>1 DEF SetCounter, Increment, ReloadDelay
    <3>3. tima + 1 \in tma..TimaMax
      BY <1>1, <2>1, <3>2
    <3>4. elapsed + 1 = ((tima + 1) - tma) * p + 0
      BY <1>1, <1>4, <2>1, <2>2, <2>4
    <3>5. Succ(divider) % p = 0
      BY <1>5, <2>4
    <3> QED
      BY <1>2, <2>3, <3>2, <3>3, <3>4, <3>5 DEF PeriodInv
  <2>5. CASE divider % p # p - 1
    <3>1. SetCounter(AdvanceReload)
      BY <1>2, <1>5, <2>5 DEF ApplyEdge
    <3>2. tima' = tima /\ reload' = 0
      BY <1>7, <3>1 DEF SetCounter, AdvanceReload
    <3>3. elapsed + 1 = (tima - tma) * p + (Succ(divider) % p)
      BY <1>1, <1>5, <2>1, <2>2, <2>5
    <3> QED
      BY <1>2, <2>1, <2>3, <3>2, <3>3 DEF PeriodInv
  <2> QED
    BY <2>4, <2>5
<1> QED
  BY <1>6, <1>7

LEMMA PeriodStep ==
  ASSUME IInv, PeriodInv, [MCNext]_<<vars, elapsed>>
  PROVE  PeriodInv'
<1>1. CASE elapsed' = NoHistory
  BY <1>1 DEF PeriodInv
<1>2. CASE MCNext /\ Overflows
  <2>1. /\ elapsed' = 0 /\ reload' = ReloadDelay /\ written' = written /\ ticks > 0
    BY <1>2 DEF MCNext, Overflows, Step
  <2>2. written = {}
    BY <2>1 DEF IInv, Aligned
  <2>3. Enabled(tac) /\ divider' % (2 * HalfPeriod(tac)) = 0 /\ tac' = tac
    BY <1>2, OverflowFacts
  <2>4. Enabled(tac') /\ divider' % (2 * HalfPeriod(tac')) = 0
    BY <2>3
  <2> QED
    BY <2>1, <2>2, <2>4 DEF PeriodInv, ReloadDelay
<1>3. CASE MCNext /\ ~Overflows /\ Step /\ elapsed' # NoHistory
  <2>1. written' = {} /\ elapsed # NoHistory
    BY <1>3, Zenon DEF MCNext
  <2>2. ~Reset
    BY <1>3 DEF Reset, Step, IInv, TypeOK
  <2>3. elapsed' = elapsed + 1
    BY <1>3, <2>1, <2>2, Zenon DEF MCNext
  <2> QED
    BY <1>3, <2>1, <2>3, ClockKeepsPeriod
<1>4. CASE MCNext /\ ~Step /\ elapsed' # NoHistory
  <2>1. written' = {} /\ ~Reset /\ elapsed' = elapsed
    BY <1>4, Zenon DEF MCNext, Overflows
  <2>2. UNCHANGED <<divider, tima, tma, tac, reload>>
    <3>1. ~Write
      BY <2>1 DEF Write, WriteDIV, WriteTIMA, WriteTMA, WriteTAC, Written
    <3> QED
      BY <1>4, <2>1, <3>1 DEF MCNext, Next, FinishInstruction, timerVars
  <2> QED
    BY <2>1, <2>2 DEF PeriodInv
<1>5. CASE UNCHANGED <<vars, elapsed>>
  BY <1>5 DEF vars, PeriodInv
<1> QED
  BY <1>1, <1>2, <1>3, <1>4, <1>5

(***************************************************************************)
(* With no write in between, two overflows are exactly TimaMax + 1 - TMA   *)
(* periods apart, for every size of the divider and of TIMA.               *)
(***************************************************************************)
THEOREM PeriodIsExact == MCSpec => ExactPeriod
<1> DEFINE Exact == Overflows /\ elapsed # NoHistory
                      => elapsed + 1 = (TimaMax + 1 - tma) * 2 * HalfPeriod(tac)
<1> DEFINE J == IInv /\ PeriodInv
<1>1. MCInit => J
  BY InitIInv DEF MCInit, PeriodInv
<1>2. J /\ [MCNext]_<<vars, elapsed>> => J'
  <2> SUFFICES ASSUME J, [MCNext]_<<vars, elapsed>> PROVE J'
    OBVIOUS
  <2>1. IInv'
    BY NextIInv DEF MCNext
  <2> QED
    BY <2>1, PeriodStep
<1>3. J /\ [MCNext]_<<vars, elapsed>> => [Exact]_<<vars, elapsed>>
  <2> SUFFICES ASSUME J, Overflows, elapsed # NoHistory
               PROVE  elapsed + 1 = (TimaMax + 1 - tma) * 2 * HalfPeriod(tac)
    OBVIOUS
  <2>1. elapsed + 1 = (TimaMax + 1 - tma) * (2 * HalfPeriod(tac))
    BY OverflowFacts
  <2>2. HalfPeriod(tac) \in {8, 32, 128, 512} /\ TimaMax + 1 - tma \in Int
    BY HalfPeriods, TimerAssumption DEF IInv, TypeOK
  <2> QED
    BY <2>1, <2>2
<1>4. MCSpec => [][Exact]_<<vars, elapsed>>
  BY <1>1, <1>2, <1>3, PTL DEF MCSpec
<1> QED
  BY <1>4 DEF ExactPeriod

(***************************************************************************)
(* Around a reload, software can rely on the registers' ranges, on one     *)
(* machine cycle to cancel it, and on reading zero.                        *)
(***************************************************************************)
THEOREM ReloadKept == Spec => []ReloadIsKept
BY TypeCorrect, ReloadWindow, ZeroUntilReload, PTL DEF ReloadIsKept

\* The history variable does not restrict the timer.
LEMMA HistoryOnly == MCSpec => Spec
<1>1. MCInit => Init
  BY DEF MCInit
<1>2. [MCNext]_<<vars, elapsed>> => [Next]_vars
  BY DEF MCNext
<1> QED
  BY <1>1, <1>2, PTL DEF MCSpec, Spec

(***************************************************************************)
(* Every edge counts, and so overflows are whole periods apart.            *)
(***************************************************************************)
THEOREM AllEdgesCount == MCSpec => EdgesCount
BY HistoryOnly, EveryEdgeCounts, PeriodIsExact DEF EdgesCount
=============================================================================
