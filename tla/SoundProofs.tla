---------------------------- MODULE SoundProofs -----------------------------
(***************************************************************************)
(* The sound unit, for every size of its registers, every rate, every      *)
(* queue, wave memory and pitch and any samples: the channels obey their   *)
(* registers, the sequencer and the sweep keep to their clock, the samples *)
(* come at their rate and in their order, the generators stay in step and  *)
(* the mixer is fair.                                                      *)
(***************************************************************************)
EXTENDS MCSound, SequenceTheorems, FiniteSetTheorems, TLAPS

-----------------------------------------------------------------------------
(* The channels *)

\* Shifting by a field of four bits is a division by a positive number, and
\* by more than one unless the field is zero.
LEMMA Powers ==
  ASSUME NEW s \in 0..15
  PROVE  /\ 2 ^ s \in Nat \ {0}
         /\ s # 0 => 2 ^ s >= 2
  <1>0. s = 0 => 2 ^ s = 1
    OBVIOUS
  <1>1. s = 1 => 2 ^ s = 2
    OBVIOUS
  <1>2. s = 2 => 2 ^ s = 4
    OBVIOUS
  <1>3. s = 3 => 2 ^ s = 8
    OBVIOUS
  <1>4. s = 4 => 2 ^ s = 16
    OBVIOUS
  <1>5. s = 5 => 2 ^ s = 32
    OBVIOUS
  <1>6. s = 6 => 2 ^ s = 64
    OBVIOUS
  <1>7. s = 7 => 2 ^ s = 128
    OBVIOUS
  <1>8. s = 8 => 2 ^ s = 256
    OBVIOUS
  <1>9. s = 9 => 2 ^ s = 512
    OBVIOUS
  <1>10. s = 10 => 2 ^ s = 1024
    OBVIOUS
  <1>11. s = 11 => 2 ^ s = 2048
    OBVIOUS
  <1>12. s = 12 => 2 ^ s = 4096
    OBVIOUS
  <1>13. s = 13 => 2 ^ s = 8192
    OBVIOUS
  <1>14. s = 14 => 2 ^ s = 16384
    OBVIOUS
  <1>15. s = 15 => 2 ^ s = 32768
    OBVIOUS
  <1>16. \/ s = 0 \/ s = 1 \/ s = 2 \/ s = 3 \/ s = 4 \/ s = 5 \/ s = 6 \/ s = 7
         \/ s = 8 \/ s = 9 \/ s = 10 \/ s = 11 \/ s = 12 \/ s = 13 \/ s = 14 \/ s = 15
    OBVIOUS
  <1> QED
    BY <1>0, <1>1, <1>2, <1>3, <1>4, <1>5, <1>6, <1>7, <1>8, <1>9, <1>10, <1>11, <1>12,
       <1>13, <1>14, <1>15, <1>16

\* A quotient is a natural number, and at most half of what is divided by
\* two or more.
LEMMA Quotients ==
  ASSUME NEW a \in Nat, NEW d \in Nat \ {0}
  PROVE  /\ a \div d \in Nat /\ a \div d <= a
         /\ d >= 2 => 2 * (a \div d) <= a
  <1> DEFINE q == a \div d
  <1>1. q \in Nat
    OBVIOUS
  <1>2. d * q <= a
    OBVIOUS
  <1>3. ASSUME NEW x \in Nat, d * x <= a
        PROVE  x <= a /\ (d >= 2 => 2 * x <= a)
    <2>1. (d - 1) * x >= 0
      OBVIOUS
    <2>2. d >= 2 => (d - 2) * x >= 0
      OBVIOUS
    <2> QED
      BY <1>3, <2>1, <2>2
  <1> QED
    BY <1>1, <1>2, <1>3

LEMMA ClampRange ==
  ASSUME NEW f \in Int
  PROVE  Clamp(f) \in 1..MaxHz
  BY ApuAssumption DEF Clamp

LEMMA NoiseShiftRange ==
  ASSUME NEW p \in Nat
  PROVE  NoiseShift(p) \in 0..15
  BY DEF NoiseShift

\* Whatever the registers hold, a channel has a frequency.
LEMMA FrequencyRange ==
  ASSUME NEW c \in Channels, NEW p \in PeriodValues
  PROVE  Frequency(c, p) \in 1..MaxHz
  <1>1. p \in Nat /\ Periods - p \in Nat \ {0}
    BY ApuAssumption
  <1>2. /\ SquareBase \div (Periods - p) \in Int
        /\ SquareBase \div 2 \in Nat
        /\ (SquareBase \div 2) \div (Periods - p) \in Int
    BY <1>1, ApuAssumption, Quotients
  <1>3. NoiseDivisor(p % 8) \in Nat \ {0}
    BY <1>1 DEF NoiseDivisor
  <1>4. 2 ^ NoiseShift(p) \in Nat \ {0}
    BY <1>1, NoiseShiftRange, Powers
  <1>5. (NoiseBase \div NoiseDivisor(p % 8)) \div 2 ^ NoiseShift(p) \in Int
    BY <1>3, <1>4, ApuAssumption, Quotients
  <1>6. c \in {1, 2} \/ c = 3 \/ c = 4
    BY ApuAssumption
  <1> QED
    BY <1>2, <1>5, <1>6, ClampRange DEF Frequency

-----------------------------------------------------------------------------

\* One more cycle of the sequencer, modulo a round.
LEMMA OneMoreCycle ==
  ASSUME NEW C \in Nat \ {0}, NEW F \in Nat \ {0}, NEW f \in 0..(F - 1), NEW y \in 0..(C - 1)
  PROVE  /\ y + 1 # C => f * C + (y + 1) = (f * C + y + 1) % (C * F)
         /\ y + 1 = C => ((f + 1) % F) * C + 0 = (f * C + y + 1) % (C * F)
         /\ (f * C + y + 1) % (C * F) \in 0..(C * F - 1)
  <1> DEFINE e == f * C + y + 1
             R == C * F
  <1>1. /\ e \in Nat /\ R \in Nat \ {0} /\ f * C \in Nat
        /\ f * C + C <= R
    <2>1. (F - 1 - f) * C >= 0 /\ f * C >= 0 /\ C * F >= C /\ f * C \in Int
      OBVIOUS
    <2>2. (F - 1 - f) * C = F * C - C - f * C
      OBVIOUS
    <2> QED
      BY <2>1, <2>2
  <1>2. ASSUME NEW x \in Nat, NEW m \in Nat \ {0}
        PROVE  /\ x < m => x % m = x
               /\ x = m => x % m = 0
               /\ x % m \in 0..(m - 1)
    OBVIOUS
  <1>3. e % R \in 0..(R - 1)
    BY <1>1, <1>2
  <1>4. ASSUME y + 1 # C
        PROVE  f * C + (y + 1) = e % R
    <2>1. e < R
      BY <1>1, <1>4
    <2>2. e % R = e
      BY <2>1, <1>1, <1>2
    <2>3. e = f * C + (y + 1)
      BY <1>1
    <2> QED
      BY <2>2, <2>3
  <1>5. ASSUME y + 1 = C
        PROVE  ((f + 1) % F) * C + 0 = e % R
    <2>1. e = f * C + C
      BY <1>1, <1>5
    <2>2. CASE f + 1 < F
      <3>1. (f + 1) % F = f + 1
        BY <2>2
      <3>2. (f + 1) * C + 0 = f * C + C /\ (f + 2) * C = f * C + C + C
        OBVIOUS
      <3>3. (F - 2 - f) * C >= 0 /\ (F - 2 - f) * C = F * C - (f + 2) * C
        BY <2>2
      <3>4. e < R
        BY <2>1, <3>2, <3>3, <1>1
      <3> QED
        BY <3>1, <3>2, <3>4, <2>1, <1>1, <1>2
    <2>3. CASE f + 1 = F
      <3>1. (f + 1) % F = 0 /\ 0 * C + 0 = 0
        BY <2>3
      <3>2. (f + 1) * C = f * C + C
        OBVIOUS
      <3>3. e = R
        BY <2>1, <2>3, <3>2, <1>1
      <3> QED
        BY <3>1, <3>3, <1>1, <1>2
    <2> QED
      BY <2>2, <2>3
  <1> QED
    BY <1>3, <1>4, <1>5

-----------------------------------------------------------------------------

\* The inductive invariant of the channels.
ChannelInv == ApuTypeOK /\ SoundsAsProgrammed /\ OffStaysReset /\ SequencerRestarts

LEMMA NoSweepType ==
  NoSweep \in [period : SweepSteps, shift : SweepShifts, negate : BOOLEAN, ticks : 0..7]
  BY ApuAssumption DEF NoSweep

LEMMA ConstantTypes ==
  /\ Envelopes \in Nat /\ StartEnvelope \in 0..Envelopes /\ MaxHz \in Nat \ {0}
  /\ StepCycles \in Nat \ {0} /\ FrameSteps \in Nat \ {0}
  /\ 0 \in 0..(StepCycles - 1) /\ 0 \in 0..(FrameSteps - 1)
  /\ 0 \in 0..(StepCycles * FrameSteps - 1)
  /\ 0 \in PeriodValues /\ StartPeriod \in PeriodValues
  <1>1. /\ Envelopes \in Nat /\ StartEnvelope \in 0..Envelopes /\ MaxHz \in Nat \ {0}
        /\ StepCycles \in Nat \ {0} /\ FrameSteps \in Nat \ {0}
        /\ 0 \in PeriodValues /\ StartPeriod \in PeriodValues
    BY ApuAssumption
  <1>2. StepCycles * FrameSteps \in Nat /\ StepCycles * FrameSteps >= 1
    BY <1>1
  <1> QED
    BY <1>1, <1>2

LEMMA FreshTypes ==
  /\ [c \in Channels |-> IF c = 1 THEN StartEnvelope ELSE 0] \in [Channels -> 0..Envelopes]
  /\ [c \in Channels |-> 0] \in [Channels -> 0..Envelopes]
  /\ [c \in Channels |-> IF c = 4 THEN 0 ELSE StartPeriod] \in [Channels -> PeriodValues]
  /\ [c \in Channels |-> 0] \in [Channels -> PeriodValues]
  /\ [c \in Channels |-> 0] \in [Channels -> Nat]
  /\ [c \in Channels |-> IF c = 4 THEN 0 ELSE 1] \in [Channels -> Nat]
  /\ Silent \in [Channels -> BOOLEAN]
  /\ DefaultHz \in [Channels -> 1..MaxHz]
  <1>1. DefaultHz \in [Channels -> 1..MaxHz]
    BY ApuAssumption
  <1> QED
    BY <1>1, ConstantTypes DEF Silent

\* A unit that was just made, at the start or by a reset.
LEMMA FreshUnit ==
  ASSUME ApuInit
  PROVE  ChannelInv
  <1>1. ApuTypeOK
    BY FreshTypes, ConstantTypes, NoSweepType DEF ApuInit, ApuTypeOK
  <1>2. SoundsAsProgrammed /\ OffStaysReset
    BY DEF ApuInit, SoundsAsProgrammed, OffStaysReset, Silent
  <1>3. SequencerRestarts
    BY ApuAssumption DEF ApuInit, SequencerRestarts
  <1> QED
    BY <1>1, <1>2, <1>3 DEF ChannelInv

LEMMA ResetKeeps ==
  ASSUME ApuReset
  PROVE  ChannelInv'
  <1>1. ApuTypeOK'
    BY FreshTypes, ConstantTypes, NoSweepType DEF ApuReset, ApuTypeOK
  <1>2. SoundsAsProgrammed' /\ OffStaysReset'
    BY DEF ApuReset, SoundsAsProgrammed, OffStaysReset, Silent
  <1>3. SequencerRestarts'
    BY ApuAssumption DEF ApuReset, SequencerRestarts
  <1> QED
    BY <1>1, <1>2, <1>3 DEF ChannelInv

LEMMA PowerKeeps ==
  ASSUME ChannelInv, PowerOff \/ PowerOn
  PROVE  ChannelInv'
  <1>1. CASE PowerOff
    <2>1. ApuTypeOK'
      BY <1>1, FreshTypes, ConstantTypes, NoSweepType
      DEF ChannelInv, PowerOff, sequencer, ApuTypeOK
    <2>2. SoundsAsProgrammed' /\ OffStaysReset'
      BY <1>1 DEF PowerOff, SoundsAsProgrammed, OffStaysReset, Silent, Status
    <2>3. SequencerRestarts'
      BY <1>1 DEF ChannelInv, PowerOff, sequencer, SequencerRestarts
    <2> QED
      BY <2>1, <2>2, <2>3 DEF ChannelInv
  <1>2. CASE PowerOn
    <2>1. ApuTypeOK'
      BY <1>2, ApuAssumption DEF ChannelInv, PowerOn, registers, channels, ApuTypeOK
    <2>2. SoundsAsProgrammed' /\ OffStaysReset'
      BY <1>2 DEF ChannelInv, PowerOn, registers, channels, SoundsAsProgrammed, OffStaysReset, Silent
    <2>3. SequencerRestarts'
      BY <1>2, ApuAssumption DEF PowerOn, SequencerRestarts
    <2> QED
      BY <2>1, <2>2, <2>3 DEF ChannelInv
  <1> QED
    BY <1>1, <1>2

\* The writes of the registers.
LEMMA EnvelopeKeeps ==
  ASSUME ChannelInv, NEW c \in Channels, NEW e \in 0..Envelopes, WriteEnvelope(c, e)
  PROVE  ChannelInv'
  <1>1. c \in 1..4 /\ Volume(c, e) \in Nat
    BY ApuAssumption, Quotients DEF Volume
  <1>2. ApuTypeOK'
    BY <1>1 DEF ChannelInv, WriteEnvelope, sequencer, ApuTypeOK
  <1>3. SoundsAsProgrammed'
    BY <1>1 DEF ChannelInv, WriteEnvelope, ApuTypeOK, SoundsAsProgrammed, DacOn, Volume
  <1>4. OffStaysReset'
    BY DEF WriteEnvelope, Writable, OffStaysReset
  <1>5. SequencerRestarts'
    BY DEF ChannelInv, WriteEnvelope, sequencer, SequencerRestarts
  <1> QED
    BY <1>2, <1>3, <1>4, <1>5 DEF ChannelInv

LEMMA PeriodKeeps ==
  ASSUME ChannelInv, NEW c \in Channels, NEW p \in PeriodValues, WritePeriod(c, p)
  PROVE  ChannelInv'
  <1>1. Frequency(c, p) \in 1..MaxHz
    BY FrequencyRange
  <1>2. ApuTypeOK'
    BY <1>1 DEF ChannelInv, WritePeriod, sequencer, ApuTypeOK
  <1>3. SoundsAsProgrammed'
    BY DEF ChannelInv, WritePeriod, ApuTypeOK, SoundsAsProgrammed
  <1>4. OffStaysReset'
    BY DEF WritePeriod, Writable, OffStaysReset
  <1>5. SequencerRestarts'
    BY DEF ChannelInv, WritePeriod, sequencer, SequencerRestarts
  <1> QED
    BY <1>2, <1>3, <1>4, <1>5 DEF ChannelInv

LEMMA RetriggerKeeps ==
  ASSUME ChannelInv, NEW c \in Channels, Retrigger(c)
  PROVE  ChannelInv'
  <1>1. /\ period[c] \in PeriodValues /\ env[c] \in 0..Envelopes
        /\ Frequency(c, period[c]) \in 1..MaxHz
    BY FrequencyRange DEF ChannelInv, ApuTypeOK
  <1>2. Volume(c, env[c]) \in Nat /\ DacOn(env[c]) \in BOOLEAN
    BY <1>1, Quotients, ApuAssumption DEF Volume, DacOn
  <1>3. ApuTypeOK'
    BY <1>1, <1>2 DEF ChannelInv, Retrigger, sequencer, registers, ApuTypeOK
  <1>4. SoundsAsProgrammed'
    BY DEF ChannelInv, Retrigger, registers, ApuTypeOK, SoundsAsProgrammed
  <1>5. OffStaysReset'
    BY DEF Retrigger, Writable, OffStaysReset
  <1>6. SequencerRestarts'
    BY DEF ChannelInv, Retrigger, sequencer, SequencerRestarts
  <1> QED
    BY <1>3, <1>4, <1>5, <1>6 DEF ChannelInv

LEMMA SweepWriteKeeps ==
  ASSUME ChannelInv, NEW p \in SweepSteps, NEW s \in SweepShifts, NEW n \in BOOLEAN,
         WriteSweep(p, s, n)
  PROVE  ChannelInv'
  <1>1. ApuTypeOK'
    BY DEF ChannelInv, WriteSweep, sequencer, registers, channels, ApuTypeOK
  <1>2. SoundsAsProgrammed'
    BY DEF ChannelInv, WriteSweep, registers, channels, SoundsAsProgrammed
  <1>3. OffStaysReset'
    BY DEF WriteSweep, Writable, OffStaysReset
  <1>4. SequencerRestarts'
    BY DEF ChannelInv, WriteSweep, sequencer, SequencerRestarts
  <1> QED
    BY <1>1, <1>2, <1>3, <1>4 DEF ChannelInv

\* What a clock of the sweep does to the pitch.
LEMMA SweepMoves ==
  ASSUME NEW h \in 1..MaxHz, NEW x \in 0..h, NEW n \in BOOLEAN, 2 * x <= h
  PROVE  LET k == Clamp(IF n THEN h - x ELSE h + x)
         IN  /\ k \in 1..MaxHz
             /\ IF n THEN h \in k..(2 * k + 1) ELSE k \in h..(2 * h)
  <1>1. MaxHz \in Nat \ {0} /\ h \in Nat /\ x \in Nat /\ h <= MaxHz /\ h >= 1
    BY ConstantTypes
  <1>2. CASE n
    <2>1. Clamp(h - x) = h - x
      BY <1>1 DEF Clamp
    <2> QED
      BY <1>1, <1>2, <2>1
  <1>3. CASE ~n
    <2>1. Clamp(h + x) = IF h + x > MaxHz THEN MaxHz ELSE h + x
      BY <1>1 DEF Clamp
    <2> QED
      BY <1>1, <1>3, <2>1
  <1> QED
    BY <1>2, <1>3

LEMMA SweptRange ==
  ASSUME ChannelInv
  PROVE  /\ SweptHz \in 1..MaxHz
         /\ sweep.shift # 0 =>
              IF sweep.negate THEN hz[1] \in SweptHz..(2 * SweptHz + 1)
                              ELSE SweptHz \in hz[1]..(2 * hz[1])
  <1> DEFINE h == hz[1]
             s == sweep.shift
             x == h \div 2 ^ s
  <1>1. /\ h \in 1..MaxHz /\ h \in Nat /\ s \in 0..15 /\ sweep.negate \in BOOLEAN
        /\ SweptHz = Clamp(IF sweep.negate THEN h - x ELSE h + x)
    <2>1. hz \in [Channels -> 1..MaxHz] /\ 1 \in Channels /\ MaxHz \in Nat
      BY ApuAssumption DEF ChannelInv, ApuTypeOK
    <2>2. s \in SweepShifts /\ SweepShifts \subseteq 0..7 /\ sweep.negate \in BOOLEAN
      BY ApuAssumption DEF ChannelInv, ApuTypeOK
    <2>3. h \in 1..MaxHz /\ s \in 0..7
      BY <2>1, <2>2, Zenon
    <2>4. SweptHz = Clamp(IF sweep.negate THEN h - x ELSE h + x)
      BY DEF SweptHz
    <2> QED
      BY <2>1, <2>2, <2>3, <2>4
  <1>2. 2 ^ s \in Nat \ {0} /\ (s # 0 => 2 ^ s >= 2)
    BY <1>1, Powers
  <1>3. x \in 0..h /\ (s # 0 => 2 * x <= h)
    BY <1>1, <1>2, Quotients
  <1>4. SweptHz \in 1..MaxHz
    BY <1>1, <1>3, ClampRange
  <1>5. ASSUME s # 0
        PROVE  IF sweep.negate THEN h \in SweptHz..(2 * SweptHz + 1)
                               ELSE SweptHz \in h..(2 * h)
    BY <1>1, <1>3, <1>5, SweepMoves
  <1> QED
    BY <1>4, <1>5

LEMMA ClockKeepsTypes ==
  ASSUME ChannelInv, ClockSweep
  PROVE  /\ swept' \in BOOLEAN
         /\ hz' \in [Channels -> 1..MaxHz]
         /\ sweep' \in [period : SweepSteps, shift : SweepShifts, negate : BOOLEAN, ticks : 0..7]
  <1>1. /\ sweep \in [period : SweepSteps, shift : SweepShifts, negate : BOOLEAN, ticks : 0..7]
        /\ hz \in [Channels -> 1..MaxHz] /\ swept \in BOOLEAN
    BY DEF ChannelInv, ApuTypeOK
  <1>2. EffectivePeriod \in 1..8
    <2>1. sweep.period \in SweepSteps /\ SweepSteps \subseteq 0..7
      BY <1>1, ApuAssumption
    <2>2. sweep.period \in 0..7
      BY <2>1, Zenon
    <2> QED
      BY <2>2 DEF EffectivePeriod
  <1>3. SweptHz \in 1..MaxHz
    BY SweptRange
  <1>4. CASE sweep.shift = 0
    BY <1>1, <1>4 DEF ClockSweep
  <1>5. CASE sweep.shift # 0 /\ sweep.ticks + 1 < EffectivePeriod
    <2>1. sweep.ticks + 1 \in 0..7
      BY <1>1, <1>2, <1>5
    <2> QED
      BY <1>1, <1>5, <2>1 DEF ClockSweep
  <1>6. CASE sweep.shift # 0 /\ ~(sweep.ticks + 1 < EffectivePeriod)
    BY <1>1, <1>3, <1>6 DEF ClockSweep
  <1> QED
    BY <1>4, <1>5, <1>6

\* A channel the sweep does not touch keeps its pitch, and one it moves is
\* marked.
LEMMA ClockMarks ==
  ASSUME ChannelInv, ClockSweep
  PROVE  /\ \A c \in Channels : c # 1 => hz'[c] = hz[c]
         /\ hz' = hz \/ swept'
         /\ swept => swept'
         /\ sweep = NoSweep => UNCHANGED <<hz, sweep, swept>>
  BY DEF ChannelInv, ApuTypeOK, ClockSweep, NoSweep

LEMMA TickKeeps ==
  ASSUME ChannelInv, Tick
  PROVE  ChannelInv'
  <1>1. ClockSweep \/ UNCHANGED <<hz, sweep, swept>>
    BY DEF Tick
  <1>2. UNCHANGED <<powered, registers, on, volume>>
    BY DEF Tick
  <1>3. /\ swept' \in BOOLEAN
        /\ hz' \in [Channels -> 1..MaxHz]
        /\ sweep' \in [period : SweepSteps, shift : SweepShifts, negate : BOOLEAN, ticks : 0..7]
    <2>1. CASE ClockSweep
      BY <2>1, ClockKeepsTypes
    <2>2. CASE UNCHANGED <<hz, sweep, swept>>
      BY <2>2 DEF ChannelInv, ApuTypeOK
    <2> QED
      BY <1>1, <2>1, <2>2
  <1>4. /\ \A c \in Channels : c # 1 => hz'[c] = hz[c]
        /\ hz' = hz \/ swept'
        /\ swept => swept'
        /\ sweep = NoSweep => UNCHANGED <<hz, sweep, swept>>
    BY <1>1, ClockMarks
  <1>5. /\ frameStep' * StepCycles + cycles' = elapsed'
        /\ frameStep' \in 0..(FrameSteps - 1) /\ cycles' \in 0..(StepCycles - 1)
        /\ elapsed' \in 0..(StepCycles * FrameSteps - 1)
    <2>1. /\ frameStep \in 0..(FrameSteps - 1) /\ cycles \in 0..(StepCycles - 1)
          /\ elapsed = frameStep * StepCycles + cycles
          /\ StepCycles \in Nat \ {0} /\ FrameSteps \in Nat \ {0}
      BY ApuAssumption DEF ChannelInv, ApuTypeOK, SequencerRestarts
    <2>2. elapsed' = (frameStep * StepCycles + cycles + 1) % (StepCycles * FrameSteps)
      BY <2>1 DEF Tick
    <2>3. elapsed' \in 0..(StepCycles * FrameSteps - 1)
      BY <2>1, <2>2, OneMoreCycle
    <2>4. CASE cycles + 1 = StepCycles
      <3>1. cycles' = 0 /\ frameStep' = (frameStep + 1) % FrameSteps
        BY <2>4 DEF Tick
      <3>2. frameStep' * StepCycles + cycles' = elapsed'
        BY <2>1, <2>2, <2>4, <3>1, OneMoreCycle
      <3>3. frameStep' \in 0..(FrameSteps - 1) /\ cycles' \in 0..(StepCycles - 1)
        BY <2>1, <3>1
      <3> QED
        BY <2>3, <3>2, <3>3
    <2>5. CASE cycles + 1 # StepCycles
      <3>1. cycles' = cycles + 1 /\ frameStep' = frameStep
        BY <2>5 DEF Tick
      <3>2. frameStep' * StepCycles + cycles' = elapsed'
        BY <2>1, <2>2, <2>5, <3>1, OneMoreCycle
      <3>3. frameStep' \in 0..(FrameSteps - 1) /\ cycles' \in 0..(StepCycles - 1)
        BY <2>1, <2>5, <3>1
      <3> QED
        BY <2>3, <3>2, <3>3
    <2> QED
      BY <2>4, <2>5
  <1>6. ApuTypeOK'
    BY <1>2, <1>3, <1>5 DEF ChannelInv, ApuTypeOK, registers
  <1>7. SoundsAsProgrammed'
    BY <1>2, <1>4 DEF ChannelInv, SoundsAsProgrammed, registers
  <1>8. OffStaysReset'
    BY <1>2, <1>4 DEF ChannelInv, OffStaysReset, registers, Status
  <1> QED
    BY <1>5, <1>6, <1>7, <1>8 DEF ChannelInv, SequencerRestarts

LEMMA ChannelStep ==
  ASSUME ChannelInv, [ApuNext(Channels)]_apuVars
  PROVE  ChannelInv'
  <1>1. CASE Tick
    BY <1>1, TickKeeps
  <1>2. CASE PowerOff \/ PowerOn
    BY <1>2, PowerKeeps
  <1>3. ASSUME NEW c \in Channels, NEW e \in 0..Envelopes, WriteEnvelope(c, e)
        PROVE  ChannelInv'
    BY <1>3, EnvelopeKeeps
  <1>4. ASSUME NEW c \in Channels, NEW p \in PeriodValues, WritePeriod(c, p)
        PROVE  ChannelInv'
    BY <1>4, PeriodKeeps
  <1>5. ASSUME NEW c \in Channels, Retrigger(c)
        PROVE  ChannelInv'
    BY <1>5, RetriggerKeeps
  <1>6. ASSUME NEW p \in SweepSteps, NEW s \in SweepShifts, NEW n \in BOOLEAN, WriteSweep(p, s, n)
        PROVE  ChannelInv'
    BY <1>6, SweepWriteKeeps
  <1>7. CASE ApuReset
    BY <1>7, ResetKeeps
  <1>8. CASE UNCHANGED apuVars
    BY <1>8 DEF apuVars, sequencer, registers, channels, ChannelInv, ApuTypeOK,
                SoundsAsProgrammed, OffStaysReset, SequencerRestarts, Status
  <1> QED
    BY <1>1, <1>2, <1>3, <1>4, <1>5, <1>6, <1>7, <1>8 DEF ApuNext

LEMMA GentleStep ==
  ASSUME ChannelInv, Tick, hz'[1] # hz[1]
  PROVE  /\ sweep.shift # 0
         /\ IF sweep.negate THEN hz[1] \in hz'[1]..(2 * hz'[1] + 1)
                            ELSE hz'[1] \in hz[1]..(2 * hz[1])
  <1>1. ClockSweep /\ hz' # hz
    BY DEF Tick
  <1>2. sweep.shift # 0 /\ hz' = [hz EXCEPT ![1] = SweptHz]
    BY <1>1 DEF ClockSweep
  <1>3. hz'[1] = SweptHz
    BY <1>2, ApuAssumption DEF ChannelInv, ApuTypeOK
  <1> QED
    BY <1>2, <1>3, SweptRange

(***************************************************************************)
(* The channels of core/src/apu.rs sound as their registers say, stay      *)
(* reset while the power is off, restart the sequencer with it and are     *)
(* swept by an octave at most: for every width of the registers, every     *)
(* length of a frame step and every program.                               *)
(***************************************************************************)
THEOREM ChannelsAlwaysObey == ApuSpec => ChannelsObey
  <1>1. ApuInit => ChannelInv
    BY FreshUnit
  <1>2. ChannelInv /\ [ApuNext(Channels)]_apuVars => ChannelInv'
    BY ChannelStep
  <1>3. ChannelInv => ApuTypeOK /\ SoundsAsProgrammed /\ OffStaysReset /\ SequencerRestarts
    BY DEF ChannelInv
  <1>4. ChannelInv =>
          [Tick /\ hz'[1] # hz[1] =>
            /\ sweep.shift # 0
            /\ IF sweep.negate THEN hz[1] \in hz'[1]..(2 * hz'[1] + 1)
                               ELSE hz'[1] \in hz[1]..(2 * hz[1])]_apuVars
    BY GentleStep
  <1> QED
    BY <1>1, <1>2, <1>3, <1>4, PTL DEF ApuSpec, ChannelsObey, SweepIsGentle

-----------------------------------------------------------------------------
(* The queue *)

LEMMA Division ==
  ASSUME NEW a \in Int, NEW m \in Nat \ {0}
  PROVE  /\ a \div m \in Int /\ a % m \in 0..(m - 1)
         /\ a = (a \div m) * m + (a % m)
  BY SMT

\* Adding a multiple of the modulus, or reducing a summand, changes nothing.
LEMMA SameRemainder ==
  ASSUME NEW m \in Nat \ {0}, NEW a \in Int, NEW b \in Int, NEW k \in Int, a = b + k * m
  PROVE  a % m = b % m
  <1> DEFINE q == a \div m
             p == b \div m
  <1>1. /\ q \in Int /\ a % m \in 0..(m - 1) /\ a = q * m + (a % m)
        /\ p \in Int /\ b % m \in 0..(m - 1) /\ b = p * m + (b % m)
    BY Division
  <1> HIDE DEF q, p
  <1>2. q * m + (a % m) = (p + k) * m + (b % m)
    <2>1. (p + k) * m = p * m + k * m
      BY <1>1
    <2> QED
      BY <1>1, <2>1
  <1>3. p + k \in Int
    BY <1>1
  <1>4. q \in Int /\ a % m \in 0..(m - 1) /\ b % m \in 0..(m - 1)
    BY <1>1
  <1> DEFINE r == a % m
             s == b % m
             d == q - (p + k)
  <1> HIDE DEF r, s
  <1>5. d * m = s - r /\ d \in Int
    <2>1. d * m = q * m - (p + k) * m
      BY <1>3, <1>4
    <2> QED
      BY <1>2, <1>3, <1>4, <2>1 DEF r, s
  <1>6. r \in 0..(m - 1) /\ s \in 0..(m - 1)
    BY <1>4 DEF r, s
  <1> HIDE DEF d
  <1>7. ~(d >= 1)
    <2>1. d >= 1 => (d - 1) * m >= 0 /\ (d - 1) * m = d * m - m
      BY <1>5
    <2> QED
      BY <1>5, <1>6, <2>1
  <1>8. ~(d <= -1)
    <2>1. d <= -1 => (d + 1) * m <= 0 /\ (d + 1) * m = d * m + m
      BY <1>5
    <2> QED
      BY <1>5, <1>6, <2>1
  <1>9. d = 0 /\ 0 * m = 0
    BY <1>5, <1>7, <1>8
  <1>10. s - r = 0
    BY <1>5, <1>9
  <1> QED
    BY <1>6, <1>10 DEF r, s

-----------------------------------------------------------------------------

\* Cycles in the unit of cycles times samples: what a chunk of t cycles more
\* does to phase p, a cycles and m samples, at C cycles and R samples in each
\* of L seconds.
ExactChunk(C, R, L, p, a, m, t) ==
  LET n == (p + t * R) \div C
      b == (a + t) % (L * C)
      k == (m + n) % (L * R)
  IN  /\ n \in Nat /\ (p + t * R) % C \in 0..(C - 1)
      /\ b \in 0..(L * C - 1) /\ k \in 0..(L * R - 1)
      /\ k * C + ((p + t * R) % C) = b * R

LEMMA ChunkIsExact ==
  ASSUME NEW C \in Nat \ {0}, NEW R \in Nat \ {0}, NEW L \in Nat \ {0},
         NEW p \in 0..(C - 1), NEW a \in 0..(L * C - 1), NEW m \in 0..(L * R - 1), NEW t \in Nat,
         m * C + p = a * R
  PROVE  ExactChunk(C, R, L, p, a, m, t)
  <1> DEFINE x == p + t * R
             n == x \div C
             y == x % C
             N == m + n
             T == a + t
             i == N \div (L * R)
             j == T \div (L * C)
             k == N % (L * R)
             b == T % (L * C)
             W == L * R * C
  <1>1. /\ x \in Nat /\ T \in Nat /\ W \in Nat \ {0}
        /\ L * C \in Nat \ {0} /\ L * R \in Nat \ {0}
    BY SMT
  <1>2. n \in Int /\ y \in 0..(C - 1) /\ x = n * C + y
    BY <1>1, Division
  <1>3. n \in Nat
    BY <1>1, SMT
  <1>4. N \in Int /\ T \in Int
    BY <1>1, <1>3
  <1> HIDE DEF x, n, y
  <1>5. i \in Int /\ k \in 0..(L * R - 1) /\ N = i * (L * R) + k
    BY <1>1, <1>4, Division, Zenon
  <1>6. j \in Int /\ b \in 0..(L * C - 1) /\ T = j * (L * C) + b
    BY <1>1, <1>4, Division, Zenon
  <1>7. N * C + y = T * R
    <2>1. N * C = m * C + n * C /\ T * R = a * R + t * R /\ x = p + t * R
      BY <1>2 DEF x
    <2> QED
      BY <2>1, <1>2
  <1> HIDE DEF N, T, i, j, k, b
  <1>8. k * C + y \in 0..(W - 1)
    <2>1. k * C >= 0 /\ (L * R - 1 - k) * C >= 0
      BY <1>1, <1>5
    <2>2. (L * R - 1 - k) * C = W - C - k * C
      BY <1>1, <1>5
    <2> QED
      BY <2>1, <2>2, <1>1, <1>2, <1>5
  <1>9. b * R \in 0..(W - 1)
    <2>1. b * R >= 0 /\ (L * C - 1 - b) * R >= 0
      BY <1>1, <1>6
    <2>2. (L * C - 1 - b) * R = W - R - b * R
      BY <1>1, <1>6
    <2> QED
      BY <2>1, <2>2, <1>1, <1>6
  <1>10. i * W + (k * C + y) = j * W + b * R
    <2>1. N * C = i * W + k * C
      BY <1>1, <1>5
    <2>2. T * R = j * W + b * R
      BY <1>1, <1>6
    <2> QED
      BY <2>1, <2>2, <1>1, <1>2, <1>5, <1>6, <1>7
  <1> DEFINE d == i - j
             u == k * C + y
             v == b * R
  <1>11. d * W = v - u /\ d \in Int
    BY <1>1, <1>5, <1>6, <1>8, <1>9, <1>10
  <1>12. u \in 0..(W - 1) /\ v \in 0..(W - 1)
    BY <1>8, <1>9
  <1> HIDE DEF d, u, v, W
  <1>13. ~(d >= 1)
    <2>1. d >= 1 => (d - 1) * W >= 0 /\ (d - 1) * W = d * W - W
      BY <1>1, <1>11
    <2> QED
      BY <1>1, <1>11, <1>12, <2>1
  <1>14. ~(d <= -1)
    <2>1. d <= -1 => (d + 1) * W <= 0 /\ (d + 1) * W = d * W + W
      BY <1>1, <1>11
    <2> QED
      BY <1>1, <1>11, <1>12, <2>1
  <1>15. d = 0 /\ 0 * W = 0
    BY <1>1, <1>11, <1>13, <1>14
  <1>16. k * C + y = b * R
    BY <1>11, <1>12, <1>15 DEF u, v
  <1> QED
    BY <1>2, <1>3, <1>5, <1>6, <1>16 DEF x, n, y, N, T, k, b, ExactChunk

-----------------------------------------------------------------------------

LEMMA QueueConstants ==
  /\ ClockHz \in Nat \ {0} /\ SampleRate \in Nat \ {0} /\ Laps \in Nat \ {0}
  /\ QueueMax \in Nat \ {0} /\ QueueTarget \in Nat \ {0}
  /\ Laps * SampleRate \in Nat \ {0} /\ Laps * ClockHz \in Nat \ {0}
  <1>1. /\ ClockHz \in Nat \ {0} /\ SampleRate \in Nat \ {0} /\ Laps \in Nat \ {0}
        /\ QueueMax \in Nat \ {0} /\ QueueTarget \in Nat \ {0}
    BY QueueAssumption
  <1> QED
    BY <1>1

\* What Newest keeps of a sequence: its end.
LEMMA NewestKeeps ==
  ASSUME NEW S, NEW s \in Seq(S), NEW n \in Nat
  PROVE  /\ Newest(s, n) \in Seq(S)
         /\ Len(Newest(s, n)) = Shorter(Len(s), n)
         /\ \A i \in 1..Len(Newest(s, n)) :
              Newest(s, n)[i] = s[Len(s) - Len(Newest(s, n)) + i]
  <1> DEFINE d == Longer(Len(s) - n, 0)
  <1>1. /\ Len(s) \in Nat /\ d \in 0..Len(s) /\ Len(s) - d = Shorter(Len(s), n)
        /\ \A i \in (d + 1)..Len(s) : s[i] \in S
    <2>1. Len(s) \in Nat /\ \A i \in 1..Len(s) : s[i] \in S
      BY LenProperties
    <2>2. ASSUME NEW l \in Nat
          PROVE  Longer(l - n, 0) \in 0..l /\ l - Longer(l - n, 0) = Shorter(l, n)
      BY DEF Longer, Shorter
    <2> QED
      BY <2>1, <2>2
  <1> HIDE DEF d
  <1>2. /\ SubSeq(s, d + 1, Len(s)) \in Seq(S)
        /\ Len(SubSeq(s, d + 1, Len(s))) = Len(s) - d
        /\ \A i \in 1..(Len(s) - d) : SubSeq(s, d + 1, Len(s))[i] = s[d + i]
    BY <1>1, SubSeqProperties
  <1>3. Newest(s, n) = SubSeq(s, d + 1, Len(s))
    BY DEF Newest, d
  <1>4. Len(s) - (Len(s) - d) = d
    BY <1>1
  <1> QED
    BY <1>1, <1>2, <1>3, <1>4

\* The samples of q are the newest of m samples without a gap.
Waiting(q, m) ==
  \A i \in 1..Len(q) : q[i] = Stamp(m - (Len(q) - i) + Laps * SampleRate)

\* What NewestKept says, with the type of the queue.
QueueHolds(q, m) == q \in Seq(Nat) /\ Len(q) <= QueueMax /\ Waiting(q, m)

\* The end of a queue of the newest samples is one, too.
LEMMA EndOfQueue ==
  ASSUME NEW q \in Seq(Nat), NEW e \in Seq(Nat), NEW m \in Int, Waiting(q, m), Len(e) <= Len(q),
         \A i \in 1..Len(e) : e[i] = q[Len(q) - Len(e) + i]
  PROVE  Waiting(e, m)
  <1>1. Len(q) \in Nat /\ Len(e) \in Nat
    BY LenProperties
  <1>2. ASSUME NEW i \in 1..Len(e)
        PROVE  e[i] = Stamp(m - (Len(e) - i) + Laps * SampleRate)
    <2> DEFINE k == Len(q) - Len(e) + i
    <2>1. k \in 1..Len(q) /\ Len(q) - k = Len(e) - i
      BY <1>1
    <2>2. q[k] = Stamp(m - (Len(q) - k) + Laps * SampleRate)
      BY <2>1 DEF Waiting
    <2> QED
      BY <2>1, <2>2
  <1> QED
    BY <1>2 DEF Waiting

\* So is a queue that gets the next n samples.
Following(m, n) == [i \in 1..n |-> Stamp(m + i)]

LEMMA MoreSamples ==
  ASSUME NEW q \in Seq(Nat), NEW m \in Nat, NEW n \in Nat, Waiting(q, m)
  PROVE  q \o Following(m, n) \in Seq(Nat) /\ Waiting(q \o Following(m, n), Stamp(m + n))
  <1> DEFINE M == Laps * SampleRate
             f == Following(m, n)
             both == q \o f
  <1>1. M \in Nat \ {0} /\ Len(q) \in Nat
    BY QueueConstants, LenProperties
  <1>2. f \in Seq(Nat) /\ Len(f) = n /\ \A i \in 1..n : f[i] = Stamp(m + i)
    <2>1. \A i \in 1..n : Stamp(m + i) \in Nat
      BY <1>1 DEF Stamp
    <2> QED
      BY <2>1 DEF Following
  <1> HIDE DEF f
  <1>3. /\ both \in Seq(Nat) /\ Len(both) = Len(q) + n
        /\ \A i \in 1..(Len(q) + n) : both[i] = IF i <= Len(q) THEN q[i] ELSE f[i - Len(q)]
    BY <1>2, ConcatProperties
  <1> HIDE DEF both
  <1>4. \A x : Stamp(x) = x % M
    BY DEF Stamp
  <1> HIDE DEF M
  <1>5. ASSUME NEW i \in 1..Len(both)
        PROVE  both[i] = Stamp(Stamp(m + n) - (Len(both) - i) + M)
    <2> DEFINE t == m + n
               x == Len(both) - i
               a == t - x + M
               k == t \div M
               b == Stamp(t) - x + M
               one == 1
               c == m + (i - Len(q))
    <2>1. /\ t \in Int /\ k \in Int /\ Stamp(t) \in Int /\ t = k * M + Stamp(t)
          /\ x \in Int /\ a \in Int /\ b \in Int /\ c \in Int
      <3>1. t \in Int /\ x \in Int
        BY <1>3
      <3>2. k \in Int /\ t % M \in 0..(M - 1) /\ t = k * M + (t % M)
        BY <3>1, <1>1, Division, Zenon
      <3>3. t % M \in Int
        BY <3>2, <1>1
      <3>4. c \in Int
        BY <1>3
      <3> HIDE DEF t, k, x
      <3>5. Stamp(t) = t % M
        BY <3>1, <1>4
      <3>6. a \in Int /\ b \in Int
        BY <3>1, <3>3, <3>5, <1>1
      <3> QED
        BY <3>1, <3>2, <3>3, <3>4, <3>5, <3>6
    <2>2. a = c + one * M
      BY <1>1, <1>3
    <2> HIDE DEF t, k, x
    <2>3. a = b + k * M
      <3> DEFINE v == Stamp(t)
                 w == k * M
      <3>1. w \in Int /\ v \in Int /\ t = w + v /\ t \in Int /\ x \in Int /\ M \in Int
        BY <2>1, <1>1
      <3> HIDE DEF v, w
      <3>2. t - x + M = (v - x + M) + w
        BY <3>1
      <3> QED
        BY <3>2 DEF v, w
    <2>5. one \in Int
      OBVIOUS
    <2> HIDE DEF a, b, c, one
    <2>4. a % M = b % M
      BY <2>1, <2>3, <1>1, SameRemainder, Zenon
    <2>6. a % M = c % M
      BY <2>1, <2>2, <2>5, <1>1, SameRemainder, Zenon
    <2>7. CASE i <= Len(q)
      <3>1. both[i] = Stamp(m - (Len(q) - i) + M)
        BY <2>7, <1>1, <1>3 DEF Waiting, M
      <3>2. m - (Len(q) - i) + M = a
        BY <1>1, <1>3 DEF a, t, x
      <3> QED
        BY <3>1, <3>2, <2>4, <1>4 DEF b, t, x
    <2>8. CASE i > Len(q)
      <3>1. i - Len(q) \in 1..n /\ both[i] = f[i - Len(q)]
        BY <2>8, <1>1, <1>3
      <3>2. both[i] = Stamp(c)
        BY <3>1, <1>2 DEF c
      <3> QED
        BY <3>2, <2>4, <2>6, <1>4 DEF b, t, x
    <2> QED
      BY <2>7, <2>8, <1>1
  <1>6. Waiting(both, Stamp(m + n))
    BY <1>5 DEF Waiting, M
  <1> QED
    BY <1>3, <1>6 DEF both, f

-----------------------------------------------------------------------------

\* The inductive invariant of the queue.
QueueTypeOK ==
  /\ samplePhase \in 0..(ClockHz - 1)
  /\ queue \in Seq(Nat)
  /\ total \in 0..(Laps * ClockHz - 1)
  /\ made \in 0..(Laps * SampleRate - 1)

QueueInv == QueueTypeOK /\ ExactRate /\ NewestKept

LEMMA NewestKeptIsWaiting ==
  ASSUME QueueTypeOK
  PROVE  NewestKept <=> QueueHolds(queue, made)
  <1>1. DOMAIN queue = 1..Len(queue)
    BY LenProperties DEF QueueTypeOK
  <1> QED
    BY <1>1 DEF QueueTypeOK, NewestKept, QueueHolds, Waiting

LEMMA EmptyQueue ==
  ASSUME NEW m
  PROVE  QueueHolds(<<>>, m)
  BY QueueConstants DEF QueueHolds, Waiting

\* What a full queue keeps.
LEMMA KeepHolds ==
  ASSUME NEW q \in Seq(Nat), NEW m \in Int, Waiting(q, m)
  PROVE  QueueHolds(Keep(q), m)
  <1> DEFINE k == Newest(q, QueueMax)
  <1>1. /\ k \in Seq(Nat) /\ Len(k) = Shorter(Len(q), QueueMax)
        /\ \A i \in 1..Len(k) : k[i] = q[Len(q) - Len(k) + i]
    BY QueueConstants, NewestKeeps
  <1> HIDE DEF k
  <1>2. Len(k) <= QueueMax /\ Len(k) <= Len(q)
    BY <1>1, QueueConstants, LenProperties DEF Shorter
  <1> QED
    BY <1>1, <1>2, EndOfQueue DEF QueueHolds, Keep, k

LEMMA EmitKeeps ==
  ASSUME QueueInv, NEW t \in Chunks, Emit(t)
  PROVE  QueueInv'
  <1> DEFINE count == (samplePhase + t * SampleRate) \div ClockHz
             both  == queue \o Following(made, count)
             next  == Stamp(made + count)
  <1>1. /\ samplePhase \in 0..(ClockHz - 1) /\ total \in 0..(Laps * ClockHz - 1)
        /\ made \in 0..(Laps * SampleRate - 1) /\ made \in Nat /\ t \in Nat /\ queue \in Seq(Nat)
        /\ made * ClockHz + samplePhase = total * SampleRate
    BY QueueConstants, QueueAssumption DEF QueueInv, QueueTypeOK, ExactRate
  <1>2. /\ samplePhase' = (samplePhase + t * SampleRate) % ClockHz
        /\ queue' = Keep(both) /\ total' = (total + t) % (Laps * ClockHz) /\ made' = next
    BY DEF Emit, Following
  <1>3. /\ count \in Nat
        /\ samplePhase' \in 0..(ClockHz - 1) /\ total' \in 0..(Laps * ClockHz - 1)
        /\ made' \in 0..(Laps * SampleRate - 1)
        /\ made' * ClockHz + samplePhase' = total' * SampleRate
    <2>1. ExactChunk(ClockHz, SampleRate, Laps, samplePhase, total, made, t)
      BY <1>1, QueueConstants, ChunkIsExact
    <2> QED
      BY <2>1, <1>2 DEF ExactChunk, Stamp
  <1>4. Waiting(queue, made)
    BY NewestKeptIsWaiting DEF QueueInv, QueueHolds
  <1> HIDE DEF count
  <1>5. both \in Seq(Nat) /\ Waiting(both, next)
    BY <1>1, <1>2, <1>3, <1>4, MoreSamples
  <1>6. next \in Int
    BY <1>2, <1>3, QueueConstants
  <1> HIDE DEF both, next
  <1>7. QueueHolds(queue', made')
    BY <1>2, <1>5, <1>6, KeepHolds
  <1>8. QueueTypeOK' /\ ExactRate'
    BY <1>3, <1>7, QueueConstants DEF QueueTypeOK, ExactRate, QueueHolds
  <1>9. NewestKept'
    <2>1. DOMAIN queue' = 1..Len(queue')
      BY <1>8, LenProperties DEF QueueTypeOK
    <2> QED
      BY <2>1, <1>7 DEF NewestKept, QueueHolds, Waiting
  <1> QED
    BY <1>8, <1>9 DEF QueueInv

\* The end of a sequence that is left when its first n are taken.
LEMMA AfterTaking ==
  ASSUME NEW S, NEW s \in Seq(S), NEW n \in 0..Len(s)
  PROVE  LET first == SubSeq(s, 1, n)
             rest  == SubSeq(s, n + 1, Len(s))
         IN  /\ first \in Seq(S) /\ Len(first) = n /\ \A i \in 1..n : first[i] = s[i]
             /\ rest \in Seq(S) /\ Len(rest) = Len(s) - n
             /\ \A i \in 1..Len(rest) : rest[i] = s[Len(s) - Len(rest) + i]
             /\ first \o rest = s
  <1>1. /\ Len(s) \in Nat /\ n \in Nat /\ n + 1 \in Int /\ n <= Len(s) /\ 1 \in Int
        /\ \A i \in 1..n : s[i] \in S
        /\ \A i \in (n + 1)..Len(s) : s[i] \in S
    BY LenProperties
  <1>2. /\ SubSeq(s, 1, n) \in Seq(S) /\ Len(SubSeq(s, 1, n)) = n
        /\ \A i \in 1..n : SubSeq(s, 1, n)[i] = s[i]
    BY <1>1, SubSeqProperties
  <1>3. /\ SubSeq(s, n + 1, Len(s)) \in Seq(S) /\ Len(SubSeq(s, n + 1, Len(s))) = Len(s) - n
        /\ \A i \in 1..(Len(s) - n) : SubSeq(s, n + 1, Len(s))[i] = s[n + i]
    BY <1>1, SubSeqProperties
  <1>4. SubSeq(s, 1, n) \o SubSeq(s, n + 1, Len(s)) = SubSeq(s, 1, Len(s))
    <2>1. 1 \in 1..(Len(s) + 1) /\ n \in (1 - 1)..Len(s) /\ Len(s) \in n..Len(s)
      BY <1>1
    <2> QED
      BY <2>1, ConcatAdjacentSubSeq
  <1>5. SubSeq(s, 1, Len(s)) = s
    BY SubSeqFull
  <1>6. Len(s) - (Len(s) - n) = n
    BY <1>1
  <1> QED
    BY <1>2, <1>3, <1>4, <1>5, <1>6

\* The part of the queue that pull_output_samples keeps, and what it serves.
LEMMA TrimmedQueue ==
  ASSUME QueueInv, NEW r \in Nat
  PROVE  LET kept == Trimmed(r)
         IN  /\ kept \in Seq(Nat) /\ Waiting(kept, made) /\ Len(kept) <= Len(queue)
             /\ \A i \in 1..Len(kept) : kept[i] = queue[Len(queue) - Len(kept) + i]
             /\ Shorter(r, Len(kept)) = Shorter(r, Len(queue))
             /\ Len(kept) - Shorter(r, Len(kept)) <= Longer(QueueTarget - r, 0)
  <1> DEFINE kept == Trimmed(r)
             n == Longer(QueueTarget, r)
  <1>1. queue \in Seq(Nat) /\ Len(queue) \in Nat /\ Waiting(queue, made) /\ made \in Int
    BY NewestKeptIsWaiting, QueueConstants, LenProperties DEF QueueInv, QueueTypeOK, QueueHolds
  <1>2. n \in Nat /\ QueueTarget \in Nat
    BY QueueConstants DEF Longer
  <1>3. /\ kept \in Seq(Nat)
        /\ Len(kept) = IF Len(queue) > QueueTarget THEN Shorter(Len(queue), n) ELSE Len(queue)
        /\ \A i \in 1..Len(kept) : kept[i] = queue[Len(queue) - Len(kept) + i]
    <2>1. CASE Len(queue) > QueueTarget
      <3>1. kept = Newest(queue, n)
        BY <2>1 DEF Trimmed
      <3>2. /\ Newest(queue, n) \in Seq(Nat)
            /\ Len(Newest(queue, n)) = Shorter(Len(queue), n)
            /\ \A i \in 1..Len(Newest(queue, n)) :
                 Newest(queue, n)[i] = queue[Len(queue) - Len(Newest(queue, n)) + i]
        BY <1>1, <1>2, NewestKeeps
      <3> QED
        BY <2>1, <3>1, <3>2
    <2>2. CASE ~(Len(queue) > QueueTarget)
      <3>1. kept = queue /\ Len(queue) - Len(queue) = 0
        BY <2>2, <1>1 DEF Trimmed
      <3> QED
        BY <2>2, <3>1, <1>1
    <2> QED
      BY <2>1, <2>2
  <1> HIDE DEF kept
  <1>4. /\ Len(kept) <= Len(queue)
        /\ Shorter(r, Len(kept)) = Shorter(r, Len(queue))
        /\ Len(kept) - Shorter(r, Len(kept)) <= Longer(QueueTarget - r, 0)
    <2>1. ASSUME NEW l \in Nat, NEW T \in Nat,
                 NEW k \in Nat, k = IF l > T THEN Shorter(l, Longer(T, r)) ELSE l
          PROVE  /\ k <= l /\ Shorter(r, k) = Shorter(r, l)
                 /\ k - Shorter(r, k) <= Longer(T - r, 0)
      BY <2>1 DEF Shorter, Longer
    <2>2. Len(kept) \in Nat
      BY <1>3, LenProperties
    <2> QED
      BY <2>1, <2>2, <1>1, <1>2, <1>3
  <1>5. Waiting(kept, made)
    BY <1>1, <1>3, <1>4, EndOfQueue
  <1> QED
    BY <1>3, <1>4, <1>5 DEF kept

\* Samples followed by n times silence.
LEMMA ThenSilence ==
  ASSUME NEW s \in Seq(Nat), NEW n \in Nat
  PROVE  LET out == s \o [i \in 1..n |-> Silence]
         IN  /\ Len(out) = Len(s) + n
             /\ \A i \in 1..Len(out) : /\ i <= Len(s) => out[i] = s[i] /\ out[i] # Silence
                                       /\ i > Len(s) => out[i] = Silence
             /\ SubSeq(out, 1, Len(s)) = s
  <1> DEFINE quiet == [i \in 1..n |-> Silence]
             out   == s \o quiet
  <1>1. /\ s \in Seq(Int) /\ Len(s) \in Nat /\ \A i \in 1..Len(s) : s[i] \in Nat
        /\ quiet \in Seq(Int) /\ Len(quiet) = n /\ \A i \in 1..n : quiet[i] = Silence
    BY LenProperties DEF Silence
  <1> HIDE DEF quiet
  <1>2. /\ out \in Seq(Int) /\ Len(out) = Len(s) + n
        /\ \A i \in 1..(Len(s) + n) : out[i] = IF i <= Len(s) THEN s[i] ELSE quiet[i - Len(s)]
    BY <1>1, ConcatProperties
  <1> HIDE DEF out
  <1>3. ASSUME NEW i \in 1..Len(out)
        PROVE  /\ i <= Len(s) => out[i] = s[i] /\ out[i] # Silence
               /\ i > Len(s) => out[i] = Silence
    <2>1. CASE i <= Len(s)
      <3>1. i \in 1..Len(s) /\ out[i] = s[i]
        BY <2>1, <1>1, <1>2
      <3> QED
        BY <2>1, <3>1, <1>1 DEF Silence
    <2>2. CASE i > Len(s)
      <3>1. i - Len(s) \in 1..n /\ out[i] = quiet[i - Len(s)]
        BY <2>2, <1>1, <1>2
      <3> QED
        BY <2>2, <3>1, <1>1
    <2> QED
      BY <2>1, <2>2, <1>1
  <1>4. SubSeq(out, 1, Len(s)) = s
    <2> DEFINE front == SubSeq(out, 1, Len(s))
    <2>1. \A i \in 1..Len(s) : out[i] \in Nat
      BY <1>1, <1>2, <1>3
    <2>2. /\ front \in Seq(Nat) /\ Len(front) = Len(s)
          /\ \A i \in 1..Len(s) : front[i] = out[i]
      BY <1>1, <2>1, SubSeqProperties
    <2> HIDE DEF front
    <2>3. \A i \in 1..Len(front) : front[i] = s[i]
      BY <1>1, <1>2, <1>3, <2>2
    <2>4. front = s
      BY <2>2, <2>3, SeqEqual
    <2> QED
      BY <2>4 DEF front
  <1> QED
    BY <1>2, <1>3, <1>4 DEF out, quiet

\* A sequence that is the end of another is a suffix of it.
LEMMA EndIsSuffix ==
  ASSUME NEW s \in Seq(Nat), NEW t \in Seq(Nat), Len(s) <= Len(t),
         \A i \in 1..Len(s) : s[i] = t[Len(t) - Len(s) + i]
  PROVE  IsSuffix(s, t)
  <1> DEFINE u == Reverse(s)
             v == Reverse(t)
  <1>1. /\ Len(s) \in Nat /\ Len(t) \in Nat
        /\ \A i \in 1..Len(s) : s[i] \in Nat
        /\ \A i \in 1..Len(t) : t[i] \in Nat
    BY LenProperties
  <1>2. /\ u \in Seq(Nat) /\ Len(u) = Len(s) /\ \A i \in 1..Len(s) : u[i] = s[Len(s) - i + 1]
        /\ v \in Seq(Nat) /\ Len(v) = Len(t) /\ \A i \in 1..Len(t) : v[i] = t[Len(t) - i + 1]
    BY <1>1 DEF Reverse
  <1> HIDE DEF u, v
  <1>3. ASSUME NEW i \in 1..Len(s)
        PROVE  u[i] = v[i]
    <2> DEFINE k == Len(s) - i + 1
    <2>1. k \in 1..Len(s) /\ Len(t) - Len(s) + k = Len(t) - i + 1
      BY <1>1
    <2>2. i \in 1..Len(t)
      BY <1>1
    <2>3. u[i] = s[k] /\ v[i] = t[Len(t) - i + 1]
      BY <2>2, <1>2
    <2> QED
      BY <2>1, <2>3
  <1>4. /\ SubSeq(u, 1, Len(u)) \in Seq(Nat) /\ Len(SubSeq(u, 1, Len(u))) = Len(s)
        /\ \A i \in 1..Len(s) : SubSeq(u, 1, Len(u))[i] = u[i]
        /\ SubSeq(v, 1, Len(u)) \in Seq(Nat) /\ Len(SubSeq(v, 1, Len(u))) = Len(s)
        /\ \A i \in 1..Len(s) : SubSeq(v, 1, Len(u))[i] = v[i]
    <2>1. \A i \in 1..Len(u) : u[i] \in Nat /\ v[i] \in Nat
      <3>1. \A i \in 1..Len(v) : v[i] \in Nat
        BY <1>2, LenProperties
      <3>2. \A i \in 1..Len(u) : u[i] \in Nat
        BY <1>2, LenProperties
      <3>3. 1..Len(u) \subseteq 1..Len(v)
        BY <1>1, <1>2
      <3> QED
        BY <3>1, <3>2, <3>3
    <2> QED
      BY <1>1, <1>2, <2>1, SubSeqProperties
  <1>5. SubSeq(u, 1, Len(u)) = SubSeq(v, 1, Len(u))
    BY <1>3, <1>4, SeqEqual
  <1> QED
    BY <1>2, <1>5 DEF IsSuffix, IsPrefix, u, v

LEMMA PullKeeps ==
  ASSUME QueueInv, NEW r \in Requests, Pull(r)
  PROVE  /\ QueueInv'
         /\ Len(output') = r
         /\ \A i \in 1..r : output'[i] = Silence <=> i > Shorter(r, Len(queue))
         /\ IsSuffix(SubSeq(output', 1, Shorter(r, Len(queue))) \o queue', queue)
         /\ Len(queue') <= Longer(QueueTarget - r, 0)
  <1> DEFINE kept  == Trimmed(r)
             n     == Shorter(r, Len(kept))
             first == SubSeq(kept, 1, n)
             rest  == SubSeq(kept, n + 1, Len(kept))
  <1>1. r \in Nat /\ queue \in Seq(Nat)
    BY QueueAssumption DEF QueueInv, QueueTypeOK
  <1>2. /\ kept \in Seq(Nat) /\ Waiting(kept, made) /\ Len(kept) <= Len(queue)
        /\ \A i \in 1..Len(kept) : kept[i] = queue[Len(queue) - Len(kept) + i]
        /\ n = Shorter(r, Len(queue))
        /\ Len(kept) - n <= Longer(QueueTarget - r, 0)
    BY <1>1, TrimmedQueue
  <1>3. /\ output' = first \o [i \in 1..(r - n) |-> Silence]
        /\ queue' = rest /\ UNCHANGED <<samplePhase, total, made>>
    BY DEF Pull
  <1>4. n \in 0..Len(kept) /\ r - n \in Nat /\ Len(kept) \in Nat
    BY <1>1, <1>2, LenProperties DEF Shorter
  <1> HIDE DEF kept, n
  <1>5. /\ first \in Seq(Nat) /\ Len(first) = n
        /\ rest \in Seq(Nat) /\ Len(rest) = Len(kept) - n
        /\ \A i \in 1..Len(rest) : rest[i] = kept[Len(kept) - Len(rest) + i]
        /\ first \o rest = kept
    BY <1>2, <1>4, AfterTaking
  <1> HIDE DEF first, rest
  <1>6. /\ Len(output') = n + (r - n)
        /\ \A i \in 1..Len(output') : /\ i <= n => output'[i] # Silence
                                      /\ i > n => output'[i] = Silence
        /\ SubSeq(output', 1, n) = first
    BY <1>3, <1>4, <1>5, ThenSilence
  <1>7. Len(output') = r /\ \A i \in 1..r : output'[i] = Silence <=> i > n
    BY <1>1, <1>4, <1>6
  <1>8. IsSuffix(first \o queue', queue)
    BY <1>1, <1>2, <1>3, <1>5, EndIsSuffix
  <1>9. Len(queue') <= Longer(QueueTarget - r, 0)
    BY <1>2, <1>3, <1>5
  <1>10. QueueInv'
    <2>1. QueueTypeOK' /\ ExactRate' /\ made' = made
      BY <1>3, <1>5 DEF QueueInv, QueueTypeOK, ExactRate
    <2>2. Len(rest) <= Len(kept) /\ Len(rest) <= Len(queue) /\ Len(queue) <= QueueMax
      BY <1>1, <1>2, <1>4, <1>5, LenProperties DEF QueueInv, NewestKept
    <2>3. Waiting(rest, made)
      <3>1. made \in Int
        BY QueueConstants DEF QueueInv, QueueTypeOK
      <3> QED
        BY <1>2, <1>5, <2>2, <3>1, EndOfQueue
    <2>4. Len(rest) <= QueueMax
      BY <2>2, <1>1, <1>5, LenProperties, QueueConstants
    <2>5. DOMAIN queue' = 1..Len(queue')
      BY <1>3, <1>5, LenProperties
    <2> QED
      BY <2>1, <2>3, <2>4, <2>5, <1>3 DEF QueueInv, NewestKept, Waiting
  <1> QED
    BY <1>2, <1>6, <1>7, <1>8, <1>9, <1>10

LEMMA DrainKeeps ==
  ASSUME QueueInv, Drain
  PROVE  QueueInv'
  <1>1. queue' = <<>> /\ UNCHANGED <<samplePhase, total, made>>
    BY DEF Drain
  <1> QED
    BY <1>1, QueueConstants DEF QueueInv, QueueTypeOK, ExactRate, NewestKept

LEMMA QueueStep ==
  ASSUME QueueInv, [QueueNext]_queueVars
  PROVE  QueueInv'
  <1>1. ASSUME NEW t \in Chunks, Emit(t)
        PROVE  QueueInv'
    BY <1>1, EmitKeeps
  <1>2. ASSUME NEW r \in Requests, Pull(r)
        PROVE  QueueInv'
    BY <1>2, PullKeeps
  <1>3. CASE Drain
    BY <1>3, DrainKeeps
  <1>4. CASE UNCHANGED queueVars
    BY <1>4 DEF queueVars, QueueInv, QueueTypeOK, ExactRate, NewestKept
  <1> QED
    BY <1>1, <1>2, <1>3, <1>4 DEF QueueNext

(***************************************************************************)
(* The queue of core/src/apu.rs makes samples at exactly the rate of the   *)
(* device, keeps the newest and serves every request in order and in time: *)
(* for every clock, rate, capacity and target and every size of chunk.     *)
(***************************************************************************)
THEOREM SamplesAlwaysInOrder == QueueSpec => SamplesInOrder
  <1>1. QueueInit => QueueInv
    BY QueueConstants DEF QueueInit, QueueInv, QueueTypeOK, ExactRate, NewestKept
  <1>2. QueueInv /\ [QueueNext]_queueVars => QueueInv'
    BY QueueStep
  <1>3. QueueInv => ExactRate /\ NewestKept
    BY DEF QueueInv
  <1>4. QueueInv =>
          [\A r \in Requests : Pull(r) =>
             LET served == Shorter(r, Len(queue))
             IN /\ Len(output') = r
                /\ \A i \in 1..r : output'[i] = Silence <=> i > served
                /\ IsSuffix(SubSeq(output', 1, served) \o queue', queue)
                /\ Len(queue') <= Longer(QueueTarget - r, 0)]_queueVars
    BY PullKeeps
  <1> QED
    BY <1>1, <1>2, <1>3, <1>4, PTL DEF QueueSpec, SamplesInOrder, PullServes

-----------------------------------------------------------------------------
(* The generators and the mixer *)

LEMMA WaveConstants ==
  /\ OutputRate \in Nat \ {0} /\ WaveSteps \in Nat \ {0} /\ StepWidth \in Nat \ {0}
  /\ OutputRate = WaveSteps * StepWidth
  /\ LfsrSeed \in Nat \ {0} /\ FullNoise \in Nat \ {0}
  /\ Pitches \subseteq 1..(OutputRate - 1)
  <1>1. /\ OutputRate \in Nat \ {0} /\ WaveSteps \in Nat \ {0} /\ OutputRate % WaveSteps = 0
        /\ LfsrWidth \in 0..15 /\ LfsrWidth # 0 /\ Pitches \subseteq 1..(OutputRate - 1)
    BY WavesAssumption
  <1>2. StepWidth \in Int /\ OutputRate = StepWidth * WaveSteps + 0
    <2>0. OutputRate \in Int
      BY <1>1
    <2>1. /\ OutputRate \div WaveSteps \in Int
          /\ OutputRate = (OutputRate \div WaveSteps) * WaveSteps + (OutputRate % WaveSteps)
      BY <1>1, <2>0, Division, Zenon
    <2> QED
      BY <1>1, <2>1 DEF StepWidth
  <1>3. StepWidth \in Nat \ {0}
    BY <1>1 DEF StepWidth
  <1>4. OutputRate = WaveSteps * StepWidth
    BY <1>1, <1>2
  <1>5. LfsrSeed \in Nat \ {0}
    <2>1. 2 ^ LfsrWidth \in Nat \ {0} /\ 2 ^ LfsrWidth >= 2
      BY <1>1, Powers, Zenon
    <2> QED
      BY <2>1 DEF LfsrSeed
  <1>6. FullNoise \in Nat \ {0}
    BY <1>1, <1>5 DEF FullNoise
  <1> QED
    BY <1>1, <1>3, <1>4, <1>5, <1>6

\* x is q times m and a remainder r.
Splits(x, m, q, r) == x = q * m + r /\ q \in Int /\ r \in 0..(m - 1)

\* In one way only.
LEMMA OneSplit ==
  ASSUME NEW x \in Int, NEW m \in Nat \ {0}, NEW q, NEW r, Splits(x, m, q, r)
  PROVE  x \div m = q /\ x % m = r
  <1> DEFINE k == x \div m
             s == x % m
             d == q - k
  <1>1. /\ k \in Int /\ s \in 0..(m - 1) /\ x = k * m + s
        /\ q \in Int /\ r \in 0..(m - 1) /\ x = q * m + r
    BY Division DEF Splits
  <1> HIDE DEF k, s
  <1>2. d * m = s - r /\ d \in Int
    <2>1. d * m = q * m - k * m
      BY <1>1
    <2> QED
      BY <1>1, <2>1
  <1> HIDE DEF d
  <1>3. ~(d >= 1)
    <2>1. d >= 1 => (d - 1) * m >= 0 /\ (d - 1) * m = d * m - m
      BY <1>2
    <2> QED
      BY <1>1, <1>2, <2>1
  <1>4. ~(d <= -1)
    <2>1. d <= -1 => (d + 1) * m <= 0 /\ (d + 1) * m = d * m + m
      BY <1>2
    <2> QED
      BY <1>1, <1>2, <2>1
  <1>5. d = 0 /\ 0 * m = 0
    BY <1>2, <1>3, <1>4
  <1>6. k = q /\ s = r
    BY <1>1, <1>2, <1>5 DEF d
  <1> QED
    BY <1>6 DEF k, s

\* A sample of the wave memory: the position in the wave advances by the
\* pitch.  N steps of W make a wave, i is the index, p the phase, t the
\* position, h the pitch.
Advanced(N, W, i, p, t, h) ==
  LET next == (p + h) % (N * W)
      k    == (i + next \div W) % N
      r    == next % W
  IN  /\ k \in Nat /\ r \in 0..(W - 1)
      /\ ((k - 1) % N) * W + r = (t + h) % (N * W)

LEMMA WaveAdvances ==
  ASSUME NEW N \in Nat \ {0}, NEW W \in Nat \ {0}, NEW i \in Nat, NEW p \in 0..(W - 1),
         NEW t \in Nat, NEW h \in Nat, ((i - 1) % N) * W + p = t
  PROVE  Advanced(N, W, i, p, t, h)
  <1> DEFINE R == N * W
             x == p + h
             next == x % R
             b == x \div R
             g == next \div W
             r == next % W
             a == i - 1
             j == a % N
             c == a \div N
             y == i + g
             k == y % N
             e == y \div N
             n == j + g
             l == n % N
             f == n \div N
             u == l * W + r
  <1>1. R \in Nat \ {0} /\ x \in Int /\ a \in Int
    BY SMT
  <1>2. b \in Int /\ next \in 0..(R - 1) /\ x = b * R + next
    BY <1>1, Division, Zenon
  <1> HIDE DEF x, next, b
  <1>3. next \in Int
    BY <1>1, <1>2
  <1>4. g \in Int /\ r \in 0..(W - 1) /\ next = g * W + r
    BY <1>3, Division, Zenon
  <1>5. c \in Int /\ j \in 0..(N - 1) /\ a = c * N + j
    BY <1>1, Division, Zenon
  <1> HIDE DEF g, r, a, j, c
  <1>6. y \in Int /\ n \in Int /\ r \in Int /\ j \in Int
    BY <1>4, <1>5
  <1> HIDE DEF y, n
  <1>7. e \in Int /\ k \in 0..(N - 1) /\ y = e * N + k
    BY <1>6, Division, Zenon
  <1>8. f \in Int /\ l \in 0..(N - 1) /\ n = f * N + l
    BY <1>6, Division, Zenon
  <1> HIDE DEF k, e, l, f, R
  <1>9. (k - 1) % N = l
    <2> DEFINE d == f + c - e
    <2>1. k - 1 = n + (c - e) * N
      <3>1. (c - e) * N = c * N - e * N
        BY <1>5, <1>7
      <3> QED
        BY <1>4, <1>5, <1>6, <1>7, <3>1 DEF y, n, a
    <2>2. c - e \in Int /\ k - 1 \in Int
      BY <1>5, <1>7
    <2>3. (k - 1) % N = n % N
      BY <1>6, <2>1, <2>2, SameRemainder, Zenon
    <2> QED
      BY <2>3 DEF l
  <1>10. u \in 0..(R - 1)
    <2>1. l * W >= 0 /\ (N - 1 - l) * W >= 0 /\ (N - 1 - l) * W = R - W - l * W /\ l * W \in Int
      BY <1>8 DEF R
    <2> QED
      BY <1>1, <1>4, <1>6, <2>1
  <1>11. t + h = u + (f + b) * R
    <2>1. /\ (j + g) * W = j * W + g * W
          /\ n * W = f * R + l * W
      BY <1>4, <1>6, <1>8 DEF R
    <2>2. (f + b) * R = f * R + b * R
      BY <1>1, <1>2, <1>8
    <2>3. /\ j * W \in Int /\ g * W \in Int /\ l * W \in Int /\ f * R \in Int /\ b * R \in Int
      BY <1>1, <1>2, <1>4, <1>5, <1>8
    <2>4. j * W + p = t
      BY DEF j, a
    <2>5. n * W = (j + g) * W
      BY DEF n
    <2>6. j * W + g * W = f * R + l * W
      BY <2>1, <2>5
    <2>7. t + h = j * W + b * R + g * W + r
      BY <1>2, <1>4, <1>6, <2>3, <2>4 DEF x
    <2>8. t + h = l * W + r + (f * R + b * R)
      <3> DEFINE jW == j * W
                 gW == g * W
                 lW == l * W
                 fR == f * R
                 bR == b * R
      <3>1. /\ jW \in Int /\ gW \in Int /\ lW \in Int /\ fR \in Int /\ bR \in Int
            /\ jW + gW = fR + lW /\ t + h = jW + bR + gW + r
        BY <2>3, <2>6, <2>7
      <3> HIDE DEF jW, gW, lW, fR, bR
      <3>2. t + h = lW + r + (fR + bR)
        BY <1>6, <3>1
      <3> QED
        BY <3>2 DEF lW, fR, bR
    <2> QED
      BY <2>2, <2>8
  <1> HIDE DEF u
  <1>12. (t + h) % R = u
    <2>1. t + h \in Int /\ f + b \in Int /\ u \in Int
      BY <1>1, <1>2, <1>8, <1>10
    <2>2. (t + h) % R = u % R
      BY <1>1, <1>11, <2>1, SameRemainder, Zenon
    <2>3. u % R = u
      BY <1>1, <1>10
    <2> QED
      BY <2>2, <2>3
  <1>13. k \in Nat
    BY <1>7
  <1> QED
    BY <1>4, <1>9, <1>12, <1>13 DEF Advanced, R, x, next, g, r, y, k, u

-----------------------------------------------------------------------------

\* The noise generator of this width has the full period: g lists the values
\* it takes, all of 1..LfsrSeed, from the seed and back to it.
FullPeriod(g) ==
  /\ g \in [0..(LfsrSeed - 1) -> 1..LfsrSeed]
  /\ \A n \in 0..(LfsrSeed - 1) : /\ g[n] = LfsrSeed <=> n = 0
                                  /\ Shift(g[n]) = g[(n + 1) % LfsrSeed]

\* The inductive invariant of the generators.
WaveInv(g) ==
  /\ kind \in {1, 3, 4} /\ sounding \in BOOLEAN /\ pitch \in 1..(OutputRate - 1)
  /\ index \in Nat /\ travelled \in 0..(Round - 1)
  /\ phase \in 0..((IF kind = 3 THEN StepWidth ELSE OutputRate) - 1)
  /\ kind # 3 => phase = travelled % OutputRate
  /\ kind = 3 /\ sounding => ((index - 1) % WaveSteps) * StepWidth + phase = travelled
  /\ kind = 4 => lfsr = g[travelled \div OutputRate]

LEMMA RoundPositive == Round \in Nat \ {0}
  BY WaveConstants DEF Round

\* A start from the seed, at the first or the second sample.
LEMMA StartsOver ==
  ASSUME NEW g, FullPeriod(g), WaveInv(g), kind' = kind, sounding' \in BOOLEAN, pitch' \in Pitches,
         phase' = 0, lfsr' = LfsrSeed, travelled' = 0,
         index' = 1 \/ (index' = 0 /\ sounding' = FALSE)
  PROVE  WaveInv(g)'
  <1>1. /\ 0 % OutputRate = 0 /\ 0 \div OutputRate = 0
        /\ (1 - 1) % WaveSteps = 0 /\ 0 * StepWidth + 0 = 0
        /\ 0 \in 0..(Round - 1) /\ 0 \in 0..(StepWidth - 1) /\ 0 \in 0..(OutputRate - 1)
    BY WaveConstants, RoundPositive
  <1>2. g[0] = LfsrSeed
    BY WaveConstants DEF FullPeriod
  <1>3. Round' = Round /\ pitch' \in 1..(OutputRate - 1)
    BY WaveConstants DEF Round
  <1>4. kind' = 3 /\ sounding' => ((index' - 1) % WaveSteps) * StepWidth + phase' = travelled'
    BY <1>1
  <1> QED
    BY <1>1, <1>2, <1>3, <1>4 DEF WaveInv

LEMMA WaveStarts ==
  ASSUME NEW g, FullPeriod(g), WaveInit
  PROVE  WaveInv(g)
  <1>1. /\ 0 % OutputRate = 0 /\ 0 \div OutputRate = 0
        /\ 0 \in 0..(Round - 1) /\ 0 \in 0..(StepWidth - 1) /\ 0 \in 0..(OutputRate - 1)
    BY WaveConstants, RoundPositive
  <1>2. g[0] = LfsrSeed
    BY WaveConstants DEF FullPeriod
  <1>3. pitch \in 1..(OutputRate - 1)
    BY WaveConstants DEF WaveInit
  <1> QED
    BY <1>1, <1>2, <1>3 DEF WaveInit, WaveInv

LEMMA SquareKeeps ==
  ASSUME NEW g, FullPeriod(g), WaveInv(g), Sample, kind = 1
  PROVE  WaveInv(g)'
  <1>1. /\ phase' = (phase + pitch) % OutputRate /\ UNCHANGED <<index, lfsr, kind, sounding, pitch>>
        /\ travelled' = (travelled + pitch) % OutputRate
    BY DEF Sample, SampleSquare, Round
  <1>2. phase \in 0..(OutputRate - 1) /\ phase = travelled /\ pitch \in Nat /\ Round = OutputRate
    BY WaveConstants DEF WaveInv, Round
  <1>3. (phase + pitch) % OutputRate \in 0..(OutputRate - 1)
    BY <1>2, WaveConstants
  <1>4. travelled' = phase' /\ phase' \in 0..(OutputRate - 1)
    BY <1>1, <1>2, <1>3
  <1>5. phase' = phase' % OutputRate
    <2>1. \A x \in 0..(OutputRate - 1) : x = x % OutputRate
      BY WaveConstants
    <2> QED
      BY <1>4, <2>1
  <1>6. Round' = OutputRate
    BY <1>1 DEF Round
  <1> QED
    BY <1>1, <1>4, <1>5, <1>6 DEF WaveInv

LEMMA WaveMemoryKeeps ==
  ASSUME NEW g, FullPeriod(g), WaveInv(g), Sample, kind = 3
  PROVE  WaveInv(g)'
  <1> DEFINE next == (phase + pitch) % OutputRate
  <1>1. /\ index' = (index + next \div StepWidth) % WaveSteps /\ phase' = next % StepWidth
        /\ UNCHANGED <<lfsr, kind, sounding, pitch>> /\ sounding
        /\ travelled' = (travelled + pitch) % OutputRate
    BY DEF Sample, SampleWave, Round
  <1>2. /\ phase \in 0..(StepWidth - 1) /\ index \in Nat /\ pitch \in Nat /\ travelled \in Nat
        /\ ((index - 1) % WaveSteps) * StepWidth + phase = travelled
    BY <1>1, WaveConstants, RoundPositive DEF WaveInv
  <1>3. Advanced(WaveSteps, StepWidth, index, phase, travelled, pitch)
    BY <1>2, WaveConstants, WaveAdvances
  <1>4. /\ index' \in Nat /\ phase' \in 0..(StepWidth - 1)
        /\ ((index' - 1) % WaveSteps) * StepWidth + phase' = travelled'
    BY <1>1, <1>3, WaveConstants DEF Advanced
  <1>5. travelled' \in 0..(OutputRate - 1)
    BY <1>1, <1>2, WaveConstants
  <1>6. Round' = OutputRate
    BY <1>1 DEF Round
  <1> QED
    BY <1>1, <1>4, <1>5, <1>6 DEF WaveInv

LEMMA NoiseKeeps ==
  ASSUME NEW g, FullPeriod(g), WaveInv(g), Sample, kind = 4
  PROVE  WaveInv(g)'
  <1> DEFINE R == OutputRate
             S == LfsrSeed
             q == travelled \div R
             t == travelled + pitch
             next == phase + pitch
  <1>1. /\ lfsr' = IF next >= R THEN Shift(lfsr) ELSE lfsr
        /\ phase' = next % R /\ UNCHANGED <<index, kind, sounding, pitch>>
        /\ travelled' = t % FullNoise
    BY DEF Sample, SampleNoise, Round
  <1>2. /\ R \in Nat \ {0} /\ S \in Nat \ {0} /\ FullNoise = R * S /\ FullNoise \in Nat \ {0}
        /\ pitch \in 1..(R - 1) /\ phase \in 0..(R - 1) /\ travelled \in 0..(FullNoise - 1)
        /\ phase = travelled % R /\ lfsr = g[q] /\ index \in Nat
    BY WaveConstants DEF WaveInv, Round, FullNoise
  <1>3. q \in Int /\ travelled = q * R + phase
    <2>1. travelled \in Int
      BY <1>2
    <2> QED
      BY <2>1, <1>2, Division
  <1> HIDE DEF q, R, S
  <1>4. q \in 0..(S - 1)
    <2>1. q >= 0
      <3>1. q <= -1 => (q + 1) * R <= 0 /\ (q + 1) * R = q * R + R
        BY <1>2, <1>3
      <3> QED
        BY <1>2, <1>3, <3>1
    <2>2. q <= S - 1
      <3>1. q >= S => (q - S) * R >= 0 /\ (q - S) * R = q * R - R * S
        BY <1>2, <1>3
      <3> QED
        BY <1>2, <1>3, <3>1
    <2> QED
      BY <2>1, <2>2, <1>2, <1>3
  <1>5. /\ g[q] \in 1..S
        /\ Shift(g[q]) = g[(q + 1) % S]
    BY <1>4 DEF FullPeriod, S
  <1>6. /\ lfsr' = g[travelled' \div R] /\ phase' = travelled' % R
        /\ travelled' \in 0..(FullNoise - 1) /\ phase' \in 0..(R - 1)
    <2>1. CASE next < R
      <3>1. (S - 1 - q) * R >= 0 /\ (S - 1 - q) * R = R * S - R - q * R
        BY <1>2, <1>4
      <3>2. t \in 0..(FullNoise - 1) /\ t = q * R + next
        BY <1>2, <1>3, <1>4, <2>1, <3>1
      <3>3. t % FullNoise = t
        BY <1>2, <3>2
      <3>4. Splits(t, R, q, next)
        BY <1>2, <1>3, <2>1, <3>2 DEF Splits
      <3>5. t \in Int
        BY <3>2, <1>2
      <3>6. t \div R = q /\ t % R = next
        BY <1>2, <3>4, <3>5, OneSplit
      <3>7. next % R = next /\ next \in 0..(R - 1)
        BY <1>2, <2>1
      <3>8. lfsr' = g[q]
        BY <1>1, <1>2, <2>1
      <3> QED
        BY <1>1, <3>2, <3>3, <3>6, <3>7, <3>8
    <2>2. CASE next >= R
      <3> DEFINE r == next - R
      <3>1. r \in 0..(R - 1) /\ next = 1 * R + r
        BY <1>2, <2>2
      <3>2. next % R = r
        <4>1. Splits(next, R, 1, r) /\ next \in Int
          BY <1>2, <3>1 DEF Splits
        <4> QED
          BY <4>1, <1>2, OneSplit
      <3>3. t = (q + 1) * R + r
        BY <1>2, <1>3
      <3>4. lfsr' = g[(q + 1) % S]
        BY <1>1, <1>2, <1>5, <2>2
      <3>5. CASE q + 1 < S
        <4>1. (S - 2 - q) * R >= 0 /\ (S - 2 - q) * R = R * S - R - (q + 1) * R
          BY <1>2, <1>4, <3>5
        <4>2. (q + 1) * R >= 0 /\ (q + 1) * R \in Int
          BY <1>2, <1>4
        <4>3. t \in 0..(FullNoise - 1)
          BY <1>2, <3>1, <3>3, <4>1, <4>2
        <4>4. t % FullNoise = t /\ (q + 1) % S = q + 1
          BY <1>2, <1>4, <3>5, <4>3
        <4>5. Splits(t, R, q + 1, r) /\ t \in Int
          BY <1>2, <1>3, <3>1, <3>3, <4>3 DEF Splits
        <4>6. t \div R = q + 1 /\ t % R = r
          BY <1>2, <4>5, OneSplit
        <4> QED
          BY <1>1, <3>1, <3>2, <3>4, <4>3, <4>4, <4>6
      <3>6. CASE q + 1 = S
        <4>1. t = 1 * FullNoise + r
          BY <1>2, <3>3, <3>6
        <4>2. r \in 0..(FullNoise - 1)
          <5>1. (S - 1) * R >= 0 /\ (S - 1) * R = R * S - R
            BY <1>2
          <5> QED
            BY <1>2, <3>1, <5>1
        <4>3. Splits(t, FullNoise, 1, r) /\ t \in Int
          BY <1>2, <4>1, <4>2 DEF Splits
        <4>4. t % FullNoise = r
          BY <1>2, <4>3, OneSplit
        <4>5. Splits(r, R, 0, r) /\ r \in Int
          BY <1>2, <3>1 DEF Splits
        <4>6. r \div R = 0 /\ r % R = r
          BY <1>2, <4>5, OneSplit
        <4>7. (q + 1) % S = 0
          BY <1>2, <3>6
        <4> QED
          BY <1>1, <3>1, <3>2, <3>4, <4>2, <4>4, <4>6, <4>7
      <3> QED
        BY <1>2, <1>4, <3>5, <3>6
    <2> QED
      BY <1>2, <2>1, <2>2
  <1>7. Round' = FullNoise
    BY <1>1 DEF Round
  <1> QED
    BY <1>1, <1>2, <1>6, <1>7 DEF WaveInv, R

LEMMA WaveStep ==
  ASSUME NEW g, FullPeriod(g), WaveInv(g), [WaveNext]_waveVars
  PROVE  WaveInv(g)'
  <1>1. CASE Sample
    <2>1. kind = 1 \/ kind = 3 \/ kind = 4
      BY DEF WaveInv
    <2>2. CASE kind = 1
      BY <1>1, <2>2, SquareKeeps
    <2>3. CASE kind = 3
      BY <1>1, <2>3, WaveMemoryKeeps
    <2>4. CASE kind = 4
      BY <1>1, <2>4, NoiseKeeps
    <2> QED
      BY <2>1, <2>2, <2>3, <2>4
  <1>2. CASE Trigger
    <2>1. /\ kind' = kind /\ sounding' \in BOOLEAN /\ pitch' \in Pitches
          /\ phase' = 0 /\ lfsr' = LfsrSeed /\ travelled' = 0 /\ index' = 1
      BY <1>2 DEF Trigger
    <2>2. index' = 1 \/ (index' = 0 /\ sounding' = FALSE)
      BY <2>1, Zenon
    <2> QED
      BY <2>1, <2>2, StartsOver, Zenon
  <1>3. CASE PowerDown
    <2>1. /\ kind' = kind /\ sounding' = FALSE /\ sounding' \in BOOLEAN /\ pitch' \in Pitches
          /\ phase' = 0 /\ lfsr' = LfsrSeed /\ travelled' = 0 /\ index' = 0
      BY <1>3 DEF PowerDown
    <2> QED
      BY <2>1, StartsOver, Zenon
  <1>4. CASE Retune
    <2>1. UNCHANGED <<kind, sounding, phase, index, lfsr, travelled>> /\ pitch' \in 1..(OutputRate - 1)
      BY <1>4, WaveConstants DEF Retune
    <2> QED
      BY <2>1 DEF WaveInv, Round
  <1>5. CASE SwitchOff
    <2>1. UNCHANGED <<kind, pitch, phase, index, lfsr, travelled>> /\ sounding' = FALSE
      BY <1>5 DEF SwitchOff
    <2> QED
      BY <2>1 DEF WaveInv, Round
  <1>6. CASE UNCHANGED waveVars
    <2>1. UNCHANGED <<kind, sounding, pitch, phase, index, lfsr, travelled>>
      BY <1>6 DEF waveVars
    <2> QED
      BY <2>1 DEF WaveInv, Round
  <1> QED
    BY <1>1, <1>2, <1>3, <1>4, <1>5, <1>6 DEF WaveNext

LEMMA InvMeans ==
  ASSUME NEW g, FullPeriod(g), WaveInv(g)
  PROVE  InStep /\ NoiseIsLong
  <1>1. InStep
    <2>1. CASE kind = 3
      <3>1. travelled \in 0..(OutputRate - 1)
        BY <2>1 DEF WaveInv, Round
      <3>2. \A x \in 0..(OutputRate - 1) : x = x % OutputRate
        BY WaveConstants
      <3> QED
        BY <2>1, <3>1, <3>2 DEF WaveInv, InStep
    <2>2. CASE kind # 3
      BY <2>2 DEF WaveInv, InStep
    <2> QED
      BY <2>1, <2>2
  <1>2. NoiseIsLong
    <2> DEFINE q == travelled \div OutputRate
    <2> SUFFICES ASSUME kind = 4
                 PROVE  lfsr # 0 /\ (lfsr = LfsrSeed <=> q = 0)
      BY DEF NoiseIsLong
    <2>1. /\ OutputRate \in Nat \ {0} /\ LfsrSeed \in Nat \ {0} /\ FullNoise = OutputRate * LfsrSeed
          /\ travelled \in 0..(FullNoise - 1) /\ FullNoise \in Nat /\ travelled \in Int /\ lfsr = g[q]
      BY WaveConstants DEF WaveInv, Round, FullNoise
    <2>2. q \in 0..(LfsrSeed - 1)
      <3> DEFINE r == travelled % OutputRate
      <3>1. q \in Int /\ r \in 0..(OutputRate - 1) /\ travelled = q * OutputRate + r
        BY <2>1, Division, Zenon
      <3> HIDE DEF q, r
      <3>2. q <= -1 => (q + 1) * OutputRate <= 0 /\ (q + 1) * OutputRate = q * OutputRate + OutputRate
        BY <2>1, <3>1
      <3>3. q >= LfsrSeed => /\ (q - LfsrSeed) * OutputRate >= 0
                             /\ (q - LfsrSeed) * OutputRate = q * OutputRate - FullNoise
        BY <2>1, <3>1
      <3>4. q * OutputRate \in Int
        BY <2>1, <3>1
      <3> QED
        BY <2>1, <3>1, <3>2, <3>3, <3>4
    <2> HIDE DEF q
    <2>3. g[q] \in 1..LfsrSeed /\ (g[q] = LfsrSeed <=> q = 0)
      BY <2>2 DEF FullPeriod
    <2>4. g[q] # 0
      BY <2>1, <2>3
    <2> QED
      BY <2>1, <2>3, <2>4
  <1> QED
    BY <1>1, <1>2

(***************************************************************************)
(* The generators of core/src/apu.rs lose no phase, and the noise returns  *)
(* to its seed after all its values and not before: for every rate and     *)
(* wave memory and every register write, trigger and power cycle, given    *)
(* that the feedback of this width has the full period, as g shows.        *)
(***************************************************************************)
THEOREM WavesStayInStep ==
  ASSUME NEW g, FullPeriod(g)
  PROVE  WaveSpec => [](InStep /\ NoiseIsLong)
  <1>1. WaveInit => WaveInv(g)
    BY WaveStarts
  <1>2. WaveInv(g) /\ [WaveNext]_waveVars => WaveInv(g)'
    BY WaveStep
  <1>3. WaveInv(g) => InStep /\ NoiseIsLong
    BY InvMeans
  <1> QED
    BY <1>1, <1>2, <1>3, PTL DEF WaveSpec

-----------------------------------------------------------------------------

\* The division of Rust is symmetric, and no larger than what its arguments
\* allow.
LEMMA Halves ==
  ASSUME NEW a \in Int, NEW d \in Nat \ {0}
  PROVE  /\ Quotient(a, d) \in Int
         /\ Quotient(-a, d) = -Quotient(a, d)
         /\ \A k \in Nat : Size(a) <= k * d => Size(Quotient(a, d)) <= k
         /\ \A k \in Int : a = k * d => Quotient(a, d) = k
  <1>1. ASSUME NEW b \in Nat
        PROVE  /\ b \div d \in Nat
               /\ \A k \in Nat : b <= k * d => b \div d <= k
               /\ \A k \in Nat : b = k * d => b \div d = k
    <2> DEFINE q == b \div d
               r == b % d
    <2>1. q \in Int /\ r \in 0..(d - 1) /\ b = q * d + r
      BY Division
    <2>2. q \in Nat
      OBVIOUS
    <2> HIDE DEF q, r
    <2>3. ASSUME NEW k \in Nat, b <= k * d
          PROVE  q <= k
      <3>1. q >= k + 1 => (q - k - 1) * d >= 0 /\ (q - k - 1) * d = q * d - k * d - d
        BY <2>2
      <3> QED
        BY <2>1, <2>2, <2>3, <3>1
    <2>4. ASSUME NEW k \in Nat, b = k * d
          PROVE  q = k
      <3>1. q <= k
        BY <2>3, <2>4
      <3>2. q <= k - 1 => (k - 1 - q) * d >= 0 /\ (k - 1 - q) * d = k * d - d - q * d
        BY <2>2
      <3> QED
        BY <2>1, <2>2, <2>4, <3>1, <3>2
    <2> QED
      BY <2>2, <2>3, <2>4 DEF q
  <1>2. CASE a >= 0
    <2>1. a \in Nat /\ Quotient(a, d) = a \div d /\ Size(a) = a
      BY <1>2 DEF Quotient, Size
    <2>2. Quotient(-a, d) = -(a \div d)
      <3>1. CASE a <= 0
        <4>1. -a = a /\ -(-a) = a
          BY <1>2, <3>1
        <4>2. a \div d = -(a \div d)
          <5>1. a \div d \in Nat /\ a \div d <= 0
            BY <1>1, <1>2, <3>1
          <5> QED
            BY <5>1
        <4> QED
          BY <2>1, <4>1, <4>2
      <3>2. CASE ~(a <= 0)
        <4>1. ~(-a >= 0) /\ -(-a) = a
          BY <1>2, <3>2
        <4> QED
          BY <4>1 DEF Quotient
      <3> QED
        BY <3>1, <3>2
    <2>3. \A k \in Int : a = k * d => k \in Nat
      <3> SUFFICES ASSUME NEW k \in Int, a = k * d, k <= -1
                   PROVE  FALSE
        OBVIOUS
      <3>1. (k + 1) * d <= 0 /\ (k + 1) * d = k * d + d
        OBVIOUS
      <3> QED
        BY <1>2, <3>1
    <2> QED
      BY <1>1, <2>1, <2>2, <2>3 DEF Size
  <1>3. CASE a < 0
    <2>1. -a \in Nat /\ Quotient(a, d) = -((-a) \div d) /\ Size(a) = -a
      BY <1>3 DEF Quotient, Size
    <2>2. Quotient(-a, d) = (-a) \div d
      BY <1>3 DEF Quotient
    <2>3. ASSUME NEW k \in Int, a = k * d
          PROVE  -k \in Nat /\ -a = (-k) * d
      <3>1. k >= 1 => (k - 1) * d >= 0 /\ (k - 1) * d = k * d - d
        OBVIOUS
      <3>2. (-k) * d = -(k * d)
        OBVIOUS
      <3> QED
        BY <1>3, <2>3, <3>1, <3>2
    <2>4. ASSUME NEW k \in Int, a = k * d
          PROVE  Quotient(a, d) = k
      <3>1. (-a) \div d = -k
        BY <1>1, <2>1, <2>3, <2>4
      <3> QED
        BY <2>1, <3>1
    <2>5. (-a) \div d \in Nat
      BY <1>1, <2>1
    <2> QED
      BY <1>1, <2>1, <2>2, <2>4, <2>5 DEF Size
  <1> QED
    BY <1>2, <1>3

One(cs, c) == IF c \in cs THEN 1 ELSE 0

LEMMA Counting ==
  ASSUME NEW cs \in SUBSET (1..4)
  PROVE  Cardinality(cs) = One(cs, 1) + One(cs, 2) + One(cs, 3) + One(cs, 4)
  <1> DEFINE A(k) == cs \intersect 1..k
  <1>1. A(0) = {}
    OBVIOUS
  <1>2. IsFiniteSet(A(0)) /\ Cardinality(A(0)) = 0
    BY <1>1, FS_EmptySet
  <1>3. ASSUME NEW k \in 0..3, IsFiniteSet(A(k)), Cardinality(A(k)) \in Nat
        PROVE  IsFiniteSet(A(k + 1)) /\ Cardinality(A(k + 1)) = Cardinality(A(k)) + One(cs, k + 1)
    <2>1. CASE k + 1 \in cs
      <3>1. A(k + 1) = A(k) \union {k + 1} /\ k + 1 \notin A(k)
        BY <2>1
      <3> QED
        BY <1>3, <2>1, <3>1, FS_AddElement DEF One
    <2>2. CASE k + 1 \notin cs
      <3>1. A(k + 1) = A(k)
        BY <2>2
      <3> QED
        BY <1>3, <2>2, <3>1 DEF One
    <2> QED
      BY <2>1, <2>2
  <1> HIDE DEF A
  <1>4. \A c : One(cs, c) \in Nat
    BY DEF One
  <1>5. IsFiniteSet(A(1)) /\ Cardinality(A(1)) = One(cs, 1)
    <2>1. 0 \in 0..3 /\ 0 + 1 = 1 /\ 0 \in Nat
      OBVIOUS
    <2>2. IsFiniteSet(A(0 + 1)) /\ Cardinality(A(0 + 1)) = Cardinality(A(0)) + One(cs, 0 + 1)
      BY <1>2, <1>3, <2>1
    <2> QED
      BY <1>2, <1>4, <2>1, <2>2
  <1>6. IsFiniteSet(A(2)) /\ Cardinality(A(2)) = One(cs, 1) + One(cs, 2)
    BY <1>3, <1>4, <1>5
  <1>7. IsFiniteSet(A(3)) /\ Cardinality(A(3)) = One(cs, 1) + One(cs, 2) + One(cs, 3)
    BY <1>3, <1>4, <1>6
  <1>8. Cardinality(A(4)) = One(cs, 1) + One(cs, 2) + One(cs, 3) + One(cs, 4)
    BY <1>3, <1>4, <1>7
  <1>9. A(4) = cs
    BY DEF A
  <1> QED
    BY <1>8, <1>9

\* The share of the channels cs, of samples no louder than m.
LEMMA ShareIsFair ==
  ASSUME NEW s \in [1..4 -> Int], NEW cs \in SUBSET (1..4), NEW m \in Nat,
         \A c \in cs : Size(s[c]) <= m
  PROVE  /\ Share(s, cs) \in Int /\ Size(Share(s, cs)) <= m
         /\ Share(Negated(s), cs) = -Share(s, cs)
         /\ cs = {} => Share(s, cs) = 0
         /\ \A v \in Int : cs # {} /\ (\A c \in cs : s[c] = v) => Share(s, cs) = v
  <1> DEFINE n == Cardinality(cs)
             t == Total(s, cs)
             P(c) == Part(s, cs, c)
             I(c) == One(cs, c)
  <1>1. n = I(1) + I(2) + I(3) + I(4) /\ t = P(1) + P(2) + P(3) + P(4)
    BY Counting DEF Total
  <1>2. ASSUME NEW c \in 1..4
        PROVE  /\ P(c) \in Int /\ I(c) \in 0..1 /\ -(I(c) * m) <= P(c) /\ P(c) <= I(c) * m
               /\ Part(Negated(s), cs, c) = -P(c)
               /\ \A v \in Int : s[c] = v \/ c \notin cs => P(c) = I(c) * v
    <2>1. CASE c \in cs
      <3>1. /\ P(c) = s[c] /\ I(c) = 1 /\ Part(Negated(s), cs, c) = -s[c]
            /\ s[c] \in Int /\ Size(s[c]) <= m
        BY <2>1 DEF Part, One, Negated
      <3>2. -m <= s[c] /\ s[c] <= m
        BY <3>1 DEF Size
      <3>3. \A v \in Int : 1 * v = v
        OBVIOUS
      <3> HIDE DEF P, I
      <3>4. I(c) * m = m /\ \A v \in Int : s[c] = v => P(c) = I(c) * v
        BY <3>1, <3>3
      <3>5. P(c) \in Int /\ I(c) \in 0..1 /\ -(I(c) * m) <= P(c) /\ P(c) <= I(c) * m
        BY <3>1, <3>2, <3>4
      <3>6. Part(Negated(s), cs, c) = -P(c)
        BY <3>1
      <3> QED
        BY <2>1, <3>4, <3>5, <3>6
    <2>2. CASE c \notin cs
      <3>1. P(c) = 0 /\ I(c) = 0 /\ Part(Negated(s), cs, c) = 0
        BY <2>2 DEF Part, One, Negated
      <3>2. \A v \in Int : 0 * v = 0
        OBVIOUS
      <3> HIDE DEF P, I
      <3>3. I(c) * m = 0 /\ \A v \in Int : P(c) = I(c) * v
        BY <3>1, <3>2
      <3>4. P(c) \in Int /\ I(c) \in 0..1 /\ -(I(c) * m) <= P(c) /\ P(c) <= I(c) * m
        BY <3>1, <3>3
      <3>5. P(c) <= 0 /\ P(c) >= 0 /\ P(c) \in Int
        BY <3>1
      <3>6. P(c) = -P(c)
        BY <3>5
      <3>7. Part(Negated(s), cs, c) = -P(c)
        BY <3>1, <3>6
      <3> QED
        BY <3>3, <3>4, <3>7
    <2> QED
      BY <2>1, <2>2
  <1>3. /\ P(1) \in Int /\ P(2) \in Int /\ P(3) \in Int /\ P(4) \in Int
        /\ I(1) \in 0..1 /\ I(2) \in 0..1 /\ I(3) \in 0..1 /\ I(4) \in 0..1
        /\ -(I(1) * m) <= P(1) /\ P(1) <= I(1) * m
        /\ -(I(2) * m) <= P(2) /\ P(2) <= I(2) * m
        /\ -(I(3) * m) <= P(3) /\ P(3) <= I(3) * m
        /\ -(I(4) * m) <= P(4) /\ P(4) <= I(4) * m
    BY <1>2
  <1>4. Total(Negated(s), cs) = -t
    <2>1. /\ Part(Negated(s), cs, 1) = -P(1) /\ Part(Negated(s), cs, 2) = -P(2)
          /\ Part(Negated(s), cs, 3) = -P(3) /\ Part(Negated(s), cs, 4) = -P(4)
      BY <1>2
    <2> HIDE DEF P
    <2>2. Total(Negated(s), cs) = -P(1) + (-P(2)) + (-P(3)) + (-P(4))
      BY <2>1 DEF Total
    <2> QED
      BY <1>1, <1>3, <2>2
  <1>5. \A v \in Int : (\A c \in cs : s[c] = v) => t = n * v
    <2> SUFFICES ASSUME NEW v \in Int, \A c \in cs : s[c] = v
                 PROVE  t = n * v
      OBVIOUS
    <2>0. ASSUME NEW c \in 1..4
          PROVE  P(c) = I(c) * v
      <3>1. s[c] = v \/ c \notin cs
        OBVIOUS
      <3> HIDE DEF P, I
      <3> QED
        BY <1>2, <3>1
    <2> HIDE DEF P, I
    <2>1. P(1) = I(1) * v /\ P(2) = I(2) * v /\ P(3) = I(3) * v /\ P(4) = I(4) * v
      BY <2>0
    <2> HIDE DEF P, I, t, n
    <2>2. n * v = I(1) * v + I(2) * v + I(3) * v + I(4) * v
      BY <1>1, <1>3
    <2> QED
      BY <1>1, <1>3, <2>1, <2>2
  <1> HIDE DEF P, I, t, n
  <1>6. n \in Nat /\ t \in Int /\ -(n * m) <= t /\ t <= n * m
    <2>1. n \in Nat /\ n * m = I(1) * m + I(2) * m + I(3) * m + I(4) * m
      BY <1>1, <1>3
    <2> QED
      BY <1>1, <1>3, <2>1
  <1>7. CASE cs = {}
    <2>1. Share(s, cs) = 0 /\ Share(Negated(s), cs) = 0
      BY <1>7 DEF Share
    <2> QED
      BY <1>7, <2>1 DEF Size
  <1>8. CASE cs # {}
    <2>1. n # 0
      <3>1. PICK c \in cs : TRUE
        BY <1>8
      <3>2. I(c) = 1 /\ (c = 1 \/ c = 2 \/ c = 3 \/ c = 4)
        BY <3>1 DEF I, One
      <3> QED
        BY <1>1, <1>3, <3>2
    <2>2. Share(s, cs) = Quotient(t, n) /\ Share(Negated(s), cs) = Quotient(-t, n)
      BY <1>4, <1>8 DEF Share, t, n
    <2>3. Size(t) <= m * n
      BY <1>6 DEF Size
    <2>4. /\ Quotient(t, n) \in Int /\ Quotient(-t, n) = -Quotient(t, n)
          /\ Size(Quotient(t, n)) <= m
      BY <1>6, <2>1, <2>3, Halves
    <2>5. ASSUME NEW v \in Int, \A c \in cs : s[c] = v
          PROVE  Share(s, cs) = v
      <3>1. t = v * n
        BY <1>5, <1>6, <2>5
      <3> QED
        BY <1>6, <2>1, <2>2, <3>1, Halves
    <2> QED
      BY <1>8, <2>2, <2>4, <2>5
  <1> QED
    BY <1>7, <1>8

\* One side, at a volume.
LEMMA SideIsFair ==
  ASSUME NEW s \in [1..4 -> Int], NEW routed \in SUBSET (1..4), NEW vol \in 0..7, NEW m \in Nat,
         \A c \in Active(s, routed) : Size(s[c]) <= m
  PROVE  /\ Side(s, routed, vol) \in Int /\ Size(Side(s, routed, vol)) <= m
         /\ Side(Negated(s), routed, vol) = -Side(s, routed, vol)
         /\ Active(s, routed) = {} => Side(s, routed, vol) = 0
         /\ \A v \in Int : vol = 7 /\ Active(s, routed) # {} /\ (\A c \in Active(s, routed) : s[c] = v) =>
              Side(s, routed, vol) = v
  <1> DEFINE cs == Active(s, routed)
             x == Share(s, cs)
             y == x * (vol + 1)
  <1>1. cs \in SUBSET (1..4)
    BY DEF Active
  <1>2. Active(Negated(s), routed) = cs
    <2>1. ASSUME NEW c \in 1..4
          PROVE  Negated(s)[c] # 0 <=> s[c] # 0
      <3> DEFINE z == s[c]
      <3>1. Negated(s)[c] = -z /\ z \in Int
        BY DEF Negated
      <3> HIDE DEF z
      <3>2. z = 0 => z <= 0 /\ z >= 0
        BY <3>1
      <3>3. z <= 0 /\ z >= 0 => -z <= 0 /\ -z >= 0
        BY <3>1
      <3>4. -z = 0 => z = 0
        BY <3>1
      <3>5. -z <= 0 /\ -z >= 0 /\ -z \in Int => -z = 0
        BY <3>1
      <3>6. -z \in Int
        BY <3>1
      <3>7. -z = 0 <=> z = 0
        BY <3>2, <3>3, <3>4, <3>5, <3>6
      <3> QED
        BY <3>1, <3>7 DEF z
    <2> QED
      BY <2>1 DEF Active
  <1> HIDE DEF cs
  <1>3. /\ x \in Int /\ Size(x) <= m /\ Share(Negated(s), cs) = -x
        /\ cs = {} => x = 0
        /\ \A v \in Int : cs # {} /\ (\A c \in cs : s[c] = v) => x = v
    BY <1>1, ShareIsFair DEF cs
  <1>4. Side(s, routed, vol) = Quotient(y, 8)
    BY DEF Side, cs
  <1>5. Side(Negated(s), routed, vol) = Quotient(Share(Negated(s), cs) * (vol + 1), 8)
    BY <1>2 DEF Side
  <1> HIDE DEF x
  <1>6. y \in Int /\ Share(Negated(s), cs) * (vol + 1) = -y
    BY <1>3
  <1>7. Size(y) <= m * 8
    <2>1. \A v \in 0..7 : v = 0 \/ v = 1 \/ v = 2 \/ v = 3 \/ v = 4 \/ v = 5 \/ v = 6 \/ v = 7
      OBVIOUS
    <2> QED
      BY <1>3, <2>1 DEF Size
  <1>8. vol = 7 => y = x * 8
    OBVIOUS
  <1>9. x = 0 => y = 0 * 8
    BY <1>3
  <1> HIDE DEF y
  <1>10. /\ Quotient(y, 8) \in Int /\ Quotient(-y, 8) = -Quotient(y, 8)
         /\ Size(Quotient(y, 8)) <= m
         /\ vol = 7 => Quotient(y, 8) = x
         /\ x = 0 => Quotient(y, 8) = 0
    <2>1. PICK d \in Nat \ {0} : d = 8
      OBVIOUS
    <2>2. /\ Quotient(y, d) \in Int /\ Quotient(-y, d) = -Quotient(y, d)
          /\ \A k \in Nat : Size(y) <= k * d => Size(Quotient(y, d)) <= k
          /\ \A k \in Int : y = k * d => Quotient(y, d) = k
      BY <1>6, Halves
    <2>3. Size(Quotient(y, 8)) <= m
      BY <1>7, <2>1, <2>2
    <2>4. vol = 7 => Quotient(y, 8) = x
      BY <1>3, <1>8, <2>1, <2>2
    <2>5. x = 0 => Quotient(y, 8) = 0
      <3>1. 0 \in Int
        OBVIOUS
      <3> QED
        BY <1>9, <2>1, <2>2, <3>1
    <2> QED
      BY <2>1, <2>2, <2>3, <2>4, <2>5
  <1>11. Side(Negated(s), routed, vol) = -Side(s, routed, vol)
    BY <1>4, <1>5, <1>6, <1>10
  <1> QED
    BY <1>3, <1>4, <1>10, <1>11 DEF cs

\* A channel that is as loud as any.
LEMMA Loudest ==
  ASSUME NEW s \in [1..4 -> Int], NEW cs \in SUBSET (1..4), cs # {}
  PROVE  \E c \in cs : \A d \in cs : Size(s[d]) <= Size(s[c])
  <1> DEFINE L(k) == \A c \in cs : c <= k => \E e \in cs : \A d \in cs : d <= k => Size(s[d]) <= Size(s[e])
  <1>1. \A c \in 1..4 : Size(s[c]) \in Nat
    BY DEF Size
  <1>2. L(0)
    OBVIOUS
  <1>3. ASSUME NEW k \in 0..3, L(k)
        PROVE  L(k + 1)
    <2>1. CASE k + 1 \notin cs
      <3>1. \A d \in cs : d <= k + 1 => d <= k
        BY <2>1
      <3> QED
        BY <1>3, <3>1
    <2>2. CASE k + 1 \in cs
      <3>1. \A d \in cs : d <= k + 1 => d <= k \/ d = k + 1
        OBVIOUS
      <3>2. CASE \A d \in cs : d <= k => Size(s[d]) <= Size(s[k + 1])
        BY <1>1, <2>2, <3>1, <3>2
      <3>3. ASSUME NEW b \in cs, b <= k, ~(Size(s[b]) <= Size(s[k + 1]))
            PROVE  L(k + 1)
        <4>1. PICK e \in cs : \A d \in cs : d <= k => Size(s[d]) <= Size(s[e])
          BY <1>3, <3>3
        <4>2. Size(s[b]) <= Size(s[e])
          BY <3>3, <4>1
        <4>3. Size(s[k + 1]) <= Size(s[e])
          BY <1>1, <3>3, <4>2
        <4> QED
          BY <3>1, <4>1, <4>3
      <3> QED
        BY <3>2, <3>3
    <2> QED
      BY <2>1, <2>2
  <1>4. L(4)
    <2> HIDE DEF L
    <2>1. L(1)
      BY <1>2, <1>3
    <2>2. L(2)
      BY <1>3, <2>1
    <2>3. L(3)
      BY <1>3, <2>2
    <2> QED
      BY <1>3, <2>3
  <1>5. \A c \in cs : c \in 1..4 /\ c <= 4
    OBVIOUS
  <1>6. PICK b \in cs : TRUE
    OBVIOUS
  <1>7. \E e \in cs : \A d \in cs : d <= 4 => Size(s[d]) <= Size(s[e])
    BY <1>4, <1>5, <1>6
  <1> QED
    BY <1>5, <1>7

(***************************************************************************)
(* mix_stereo_side and next_mixed_sample, for any samples of the four      *)
(* channels, any routing and any volumes: the mix is no louder than the    *)
(* loudest channel that is heard, has no offset, and leaves a single       *)
(* signal at full volume alone.                                            *)
(***************************************************************************)
THEOREM MixingIsFair ==
  ASSUME NEW s \in [1..4 -> Int], NEW left \in SUBSET (1..4), NEW right \in SUBSET (1..4),
         NEW lv \in 0..7, NEW rv \in 0..7
  PROVE  MixIsFair(s, left, right, lv, rv)
  <1> DEFINE heard == Active(s, left \union right)
             a == Side(s, left, lv)
             b == Side(s, right, rv)
             mixed == Mixed(s, left, right, lv, rv)
  <1>1. /\ Active(s, left) \subseteq heard /\ Active(s, right) \subseteq heard
        /\ heard \in SUBSET (1..4)
        /\ left = right => heard = Active(s, left)
    BY DEF Active
  <1>2. ASSUME NEW m \in Nat, \A c \in heard : Size(s[c]) <= m
        PROVE  /\ a \in Int /\ Size(a) <= m /\ Side(Negated(s), left, lv) = -a
               /\ b \in Int /\ Size(b) <= m /\ Side(Negated(s), right, rv) = -b
    <2>1. /\ \A c \in Active(s, left) : Size(s[c]) <= m
          /\ \A c \in Active(s, right) : Size(s[c]) <= m
      BY <1>1, <1>2
    <2> QED
      BY <2>1, SideIsFair
  <1>3. ASSUME NEW m \in Nat, \A c \in heard : Size(s[c]) <= m
        PROVE  /\ mixed \in Int /\ Size(mixed) <= m
               /\ mixed = -Mixed(Negated(s), left, right, lv, rv)
    <2>1. /\ mixed = Quotient(a + b, 2)
          /\ Mixed(Negated(s), left, right, lv, rv) = Quotient(-a + (-b), 2)
      BY <1>2, <1>3 DEF Mixed
    <2>2. a \in Int /\ b \in Int /\ Size(a) <= m /\ Size(b) <= m
      BY <1>2, <1>3
    <2> HIDE DEF a, b, mixed
    <2>3. -a + (-b) = -(a + b) /\ a + b \in Int /\ Size(a + b) <= m * 2
      BY <2>2 DEF Size
    <2>4. /\ Quotient(a + b, 2) \in Int /\ Size(Quotient(a + b, 2)) <= m
          /\ Quotient(-(a + b), 2) = -Quotient(a + b, 2)
      BY <2>3, Halves
    <2>5. mixed \in Int /\ Mixed(Negated(s), left, right, lv, rv) = -mixed
      BY <2>1, <2>3, <2>4
    <2> QED
      BY <2>1, <2>4, <2>5
  <1>4. CASE heard = {}
    <2>1. \A c \in heard : Size(s[c]) <= 0
      BY <1>4
    <2>2. mixed \in Int /\ Size(mixed) <= 0 /\ mixed = -Mixed(Negated(s), left, right, lv, rv)
      BY <1>3, <2>1
    <2>3. mixed = 0
      <3> HIDE DEF mixed
      <3> QED
        BY <2>2 DEF Size
    <2> QED
      BY <1>4, <2>2, <2>3 DEF MixIsFair
  <1>5. CASE heard # {}
    <2>1. PICK c \in heard : \A d \in heard : Size(s[d]) <= Size(s[c])
      <3> HIDE DEF heard
      <3> QED
        BY <1>1, <1>5, Loudest
    <2>2. Size(s[c]) \in Nat
      <3>1. c \in 1..4
        BY <1>1
      <3>2. s[c] \in Int
        BY <3>1
      <3> QED
        BY <3>2 DEF Size
    <2>3. /\ mixed \in Int /\ Size(mixed) <= Size(s[c])
          /\ mixed = -Mixed(Negated(s), left, right, lv, rv)
      BY <1>3, <2>1, <2>2
    <2>4. ASSUME lv = 7, rv = 7, left = right, NEW e \in heard, \A d \in heard : s[d] = s[e]
          PROVE  mixed = s[e]
      <3>1. s[e] \in Int /\ heard = Active(s, left)
        <4>1. e \in 1..4
          BY <1>1, <2>4
        <4>2. heard = Active(s, left)
          <5> HIDE DEF heard
          <5> QED
            BY <1>1, <2>4
        <4> QED
          BY <4>1, <4>2
      <3>2. a = s[e] /\ b = s[e]
        <4>1. /\ \A d \in Active(s, left) : Size(s[d]) <= Size(s[c])
              /\ Active(s, left) # {} /\ \A d \in Active(s, left) : s[d] = s[e]
          BY <1>5, <2>1, <2>4, <3>1
        <4>2. \A v \in Int : (\A d \in Active(s, left) : s[d] = v) => Side(s, left, 7) = v
          BY <2>2, <2>4, <4>1, SideIsFair
        <4>3. Side(s, left, 7) = s[e]
          BY <3>1, <4>1, <4>2
        <4> QED
          BY <2>4, <4>3
      <3>3. a + b = s[e] * 2
        <4> HIDE DEF a, b
        <4> QED
          BY <3>1, <3>2
      <3>4. Quotient(s[e] * 2, 2) = s[e]
        <4> DEFINE x == s[e]
                   y == x * 2
        <4>1. x \in Int
          BY <3>1
        <4> HIDE DEF x
        <4>2. PICK d \in Nat \ {0} : d = 2
          OBVIOUS
        <4>3. y \in Int /\ y = x * d
          BY <4>1, <4>2
        <4> HIDE DEF y
        <4>4. Quotient(y, d) = x
          BY <4>1, <4>3, Halves
        <4> QED
          BY <4>2, <4>4 DEF x, y
      <3> QED
        BY <3>3, <3>4 DEF Mixed
    <2> HIDE DEF mixed, heard
    <2> QED
      BY <1>5, <2>1, <2>3, <2>4 DEF MixIsFair, mixed, heard
  <1> QED
    BY <1>4, <1>5

-----------------------------------------------------------------------------

LEMMA WaveSampleWhole ==
  ASSUME NEW v \in WaveValues, NEW l \in 0..3
  PROVE  WaveSample(v, l, 8) \in Int
  <1>1. v - 8 \in Int
    BY WavesAssumption
  <1>2. Quotient(v - 8, 2) \in Int /\ Quotient(v - 8, 4) \in Int
    BY <1>1 DEF Quotient
  <1>3. \A z \in Int : z * (8 \div 8) \in Int
    OBVIOUS
  <1>4. 0 \in Int /\ (l = 0 \/ l = 1 \/ l = 2 \/ l = 3)
    OBVIOUS
  <1>5. CASE l = 0
    BY <1>3, <1>4, <1>5 DEF WaveSample
  <1>6. CASE l = 1
    BY <1>1, <1>3, <1>6 DEF WaveSample
  <1>7. CASE l = 2
    BY <1>2, <1>3, <1>7 DEF WaveSample
  <1>8. CASE l = 3
    BY <1>2, <1>3, <1>8 DEF WaveSample
  <1> QED
    BY <1>4, <1>5, <1>6, <1>7, <1>8

LEMMA SamplesWhole == Samples \subseteq [1..4 -> Int]
  <1>1. SquareSamples \subseteq Int
    BY WavesAssumption DEF SquareSamples, SquareSample
  <1>2. WaveSamples \subseteq Int
    BY WaveSampleWhole DEF WaveSamples
  <1>3. NoiseSamples \subseteq Int
    BY WavesAssumption DEF NoiseSamples, NoiseSample
  <1>4. ASSUME NEW a \in Int, NEW b \in Int, NEW c \in Int, NEW d \in Int
        PROVE  <<a, b, c, d>> \in [1..4 -> Int]
    OBVIOUS
  <1> QED
    BY <1>1, <1>2, <1>3, <1>4 DEF Samples

MixerOK == mixer \in MixerInputs \union {NoInput}

LEMMA MixerFair ==
  ASSUME MixerOK
  PROVE  FairMix
  <1>1. <<0, 0, 0, 0>> \in [1..4 -> Int]
    OBVIOUS
  <1>2. /\ mixer.samples \in [1..4 -> Int] /\ mixer.left \in SUBSET (1..4)
        /\ mixer.right \in SUBSET (1..4) /\ mixer.lv \in 0..7 /\ mixer.rv \in 0..7
    <2>1. CASE mixer \in MixerInputs
      <3>1. /\ mixer.samples \in Samples /\ mixer.left \in SUBSET (1..4)
            /\ mixer.right \in {{}, {1}, {2, 3}, 1..4} /\ mixer.lv \in Volumes /\ mixer.rv \in {7}
        BY <2>1 DEF MixerInputs
      <3>2. \A r \in {{}, {1}, {2, 3}, 1..4} : r \in SUBSET (1..4)
        OBVIOUS
      <3>3. mixer.samples \in [1..4 -> Int]
        BY <3>1, SamplesWhole, Zenon
      <3>4. mixer.right \in SUBSET (1..4)
        BY <3>1, <3>2, Zenon
      <3>5. mixer.lv \in 0..7 /\ mixer.rv \in 0..7
        <4>1. Volumes \subseteq 0..7
          BY WavesAssumption
        <4>2. mixer.lv \in 0..7
          BY <3>1, <4>1, Zenon
        <4> QED
          BY <3>1, <4>2
      <3> QED
        BY <3>1, <3>3, <3>4, <3>5
    <2>2. CASE mixer = NoInput
      BY <1>1, <2>2 DEF NoInput
    <2> QED
      BY <2>1, <2>2 DEF MixerOK
  <1> QED
    BY <1>2, MixingIsFair DEF FairMix

(***************************************************************************)
(* The form of the waves from the generators to the mix, with the parts in *)
(* the same machine.                                                       *)
(***************************************************************************)
THEOREM WavesAlwaysTrue ==
  ASSUME NEW g, FullPeriod(g)
  PROVE  MCSpec => []WavesAreTrue
  <1>1. MCInit => WaveInv(g) /\ MixerOK
    <2>1. MCInit => MixerOK
      BY DEF MCInit, MixerOK
    <2>2. MCInit => WaveInit
      BY DEF MCInit
    <2> QED
      BY <2>1, <2>2, WaveStarts
  <1>2. WaveInv(g) /\ MixerOK /\ [MCNext]_mcVars => (WaveInv(g) /\ MixerOK)'
    <2> SUFFICES ASSUME WaveInv(g), MixerOK, [MCNext]_mcVars
                 PROVE  WaveInv(g)' /\ MixerOK'
      OBVIOUS
    <2>1. [WaveNext]_waveVars /\ UNCHANGED mixer
      BY DEF MCNext, mcVars
    <2> QED
      BY <2>1, WaveStep DEF MixerOK, MixerInputs, NoInput
  <1>3. WaveInv(g) /\ MixerOK => WavesAreTrue
    BY InvMeans, MixerFair DEF WavesAreTrue
  <1> QED
    BY <1>1, <1>2, <1>3, PTL DEF MCSpec
=============================================================================
