-------------------------------- MODULE Apu --------------------------------
(***************************************************************************)
(* The sound unit of core/src/apu.rs: its power switch, the registers and  *)
(* the state of its channels, the frame sequencer and the frequency sweep. *)
(* What the channels make audible is in Waves, how it is buffered in       *)
(* SampleQueue.                                                            *)
(*                                                                         *)
(* Of an envelope register the five bits that matter are one number (zero  *)
(* is a converter that is switched off, half of it the volume), of a       *)
(* channel's two period registers their eleven bits.                       *)
(***************************************************************************)
EXTENDS Integers

CONSTANTS
  Channels,      \* 1 and 2 are square waves, 3 the wave memory, 4 noise
  Envelopes,     \* largest value of an envelope register, 31
  StartEnvelope, \* what NR12 holds after a reset, 30
  Periods,       \* number of values of the period registers, 2048
  PeriodValues,  \* those a program writes
  SquareBase,    \* 131072
  NoiseBase,     \* 524288
  MaxHz,         \* 20000
  DefaultHz,     \* frequency of every channel before it was triggered, by channel
  SweepShifts,   \* 0..7
  SweepSteps,    \* sweep periods a program writes, 0..7
  StepCycles,    \* FRAME_SEQUENCER_PERIOD_T_CYCLES, 8192
  FrameSteps,    \* FRAME_SEQUENCER_STEPS, 8
  SweepClocks,   \* frame steps that clock the sweep, 2 and 6
  StartPeriod    \* what the period registers hold after a reset

ASSUME ApuAssumption ==
  /\ Channels \subseteq 1..4 /\ 1 \in Channels
  /\ {Envelopes, SquareBase, NoiseBase} \subseteq Nat /\ StartEnvelope \in 0..Envelopes
  /\ {Periods, MaxHz, StepCycles, FrameSteps} \subseteq Nat \ {0}
  /\ PeriodValues \subseteq 0..(Periods - 1) /\ {0, StartPeriod} \subseteq PeriodValues
  /\ DefaultHz \in [Channels -> 1..MaxHz]
  /\ SweepShifts \subseteq 0..7 /\ 0 \in SweepShifts
  /\ SweepSteps \subseteq 0..7 /\ 0 \in SweepSteps
  /\ SweepClocks \subseteq 0..(FrameSteps - 1)

VARIABLES
  powered,    \* bit 7 of NR52
  frameStep,  \* frame_step
  cycles,     \* t_cycle_counter
  env,        \* NR12, NR22, NR30 and NR42
  period,     \* NR13 and NR14, NR23 and NR24, NR33 and NR34, NR43
  on,         \* enabled
  hz,         \* frequency_hz
  volume,     \* amplitude
  sweep,      \* the sweep fields of channel 1
  elapsed,    \* history: cycles since power on, modulo a round of the sequencer
  swept       \* history: the sweep moved channel 1 since hz was computed

registers == <<env, period>>
channels  == <<on, hz, volume>>
sequencer == <<frameStep, cycles, elapsed>>
apuVars   == <<powered, sequencer, registers, channels, sweep, swept>>

NoSweep == [period |-> 0, shift |-> 0, negate |-> FALSE, ticks |-> 0]
Silent  == [c \in Channels |-> FALSE]

-----------------------------------------------------------------------------

Clamp(f) == IF f < 1 THEN 1 ELSE IF f > MaxHz THEN MaxHz ELSE f

\* Frequency of a channel whose period registers hold p.
NoiseDivisor(code) == IF code = 0 THEN 8 ELSE code * 16
NoiseShift(p) == IF p \div 16 > 15 THEN 15 ELSE p \div 16

Frequency(c, p) ==
  CASE c \in {1, 2} -> Clamp(SquareBase \div (Periods - p))
    [] c = 3        -> Clamp((SquareBase \div 2) \div (Periods - p))
    [] c = 4        -> Clamp((NoiseBase \div NoiseDivisor(p % 8)) \div 2 ^ NoiseShift(p))

DacOn(e) == e # 0

\* Channel 3 has no envelope: its amplitude is fixed.
Volume(c, e) == IF c = 3 THEN 1 ELSE e \div 2

ApuInit ==
  /\ powered = TRUE
  /\ frameStep = 0 /\ cycles = 0 /\ elapsed = 0
  /\ env = [c \in Channels |-> IF c = 1 THEN StartEnvelope ELSE 0]
  /\ period = [c \in Channels |-> IF c = 4 THEN 0 ELSE StartPeriod]
  /\ on = Silent /\ hz = DefaultHz /\ volume = [c \in Channels |-> 0]
  /\ sweep = NoSweep /\ swept = FALSE

\* A write with the power off reaches only NR52 (and the wave memory, which
\* has no influence on what is modelled here).
Writable == powered

\* NR52, bit 7 cleared: power_off_reset.  The sequencer keeps running.
PowerOff ==
  /\ powered
  /\ powered' = FALSE
  /\ env' = [c \in Channels |-> 0] /\ period' = [c \in Channels |-> 0]
  /\ on' = Silent /\ hz' = DefaultHz
  /\ volume' = [c \in Channels |-> IF c = 4 THEN 0 ELSE 1]
  /\ sweep' = NoSweep /\ swept' = FALSE
  /\ UNCHANGED sequencer

\* NR52, bit 7 set again: the sequencer starts from the beginning.
PowerOn ==
  /\ ~powered
  /\ powered' = TRUE
  /\ frameStep' = 0 /\ cycles' = 0 /\ elapsed' = 0
  /\ UNCHANGED <<registers, channels, sweep, swept>>

\* Mutant of WriteEnvelope: a converter that is switched off leaves its
\* channel on.
WriteEnvelopeOnly(c, e) ==
  /\ Writable
  /\ env' = [env EXCEPT ![c] = e]
  /\ volume' = [volume EXCEPT ![c] = IF c = 3 THEN @ ELSE Volume(c, e)]
  /\ UNCHANGED <<powered, sequencer, period, on, hz, sweep, swept>>

\* NR12, NR22, NR30, NR42.  NR30 leaves the amplitude alone.
WriteEnvelope(c, e) ==
  /\ Writable
  /\ env' = [env EXCEPT ![c] = e]
  /\ volume' = [volume EXCEPT ![c] = IF c = 3 THEN @ ELSE Volume(c, e)]
  /\ on' = [on EXCEPT ![c] = @ /\ DacOn(e)]
  /\ UNCHANGED <<powered, sequencer, period, hz, sweep, swept>>

\* NR13 to NR34 without the trigger bit: a channel that is on follows.  NR43
\* acts on the next trigger only.
WritePeriod(c, p) ==
  /\ Writable
  /\ period' = [period EXCEPT ![c] = p]
  /\ IF on[c] /\ c # 4
     THEN hz' = [hz EXCEPT ![c] = Frequency(c, p)] /\ swept' = (swept /\ c # 1)
     ELSE UNCHANGED <<hz, swept>>
  /\ UNCHANGED <<powered, sequencer, env, on, volume, sweep>>

\* NRx4 with the trigger bit; its low bits are a WritePeriod just before.
Retrigger(c) ==
  /\ Writable
  /\ hz' = [hz EXCEPT ![c] = Frequency(c, period[c])]
  /\ volume' = [volume EXCEPT ![c] = Volume(c, env[c])]
  /\ on' = [on EXCEPT ![c] = DacOn(env[c])]
  /\ sweep' = IF c = 1 THEN [sweep EXCEPT !.ticks = 0] ELSE sweep
  /\ swept' = (swept /\ c # 1)
  /\ UNCHANGED <<powered, sequencer, registers>>

\* NR10.
WriteSweep(p, s, n) ==
  /\ Writable
  /\ sweep' = [sweep EXCEPT !.period = p, !.shift = s, !.negate = n]
  /\ UNCHANGED <<powered, sequencer, registers, channels, swept>>

\* apply_ch1_sweep_on_frame_step.
EffectivePeriod == IF sweep.period = 0 THEN 8 ELSE sweep.period

SweptHz ==
  LET delta == hz[1] \div 2 ^ sweep.shift
  IN Clamp(IF sweep.negate THEN hz[1] - delta ELSE hz[1] + delta)

ClockSweep ==
  IF sweep.shift = 0 THEN UNCHANGED <<hz, sweep, swept>>
  ELSE IF sweep.ticks + 1 < EffectivePeriod
  THEN /\ sweep' = [sweep EXCEPT !.ticks = @ + 1]
       /\ UNCHANGED <<hz, swept>>
  ELSE /\ sweep' = [sweep EXCEPT !.ticks = 0]
       /\ hz' = [hz EXCEPT ![1] = SweptHz]
       /\ swept' = TRUE

\* Apu::tick for one cycle, powered or not.
Tick ==
  /\ elapsed' = (elapsed + 1) % (StepCycles * FrameSteps)
  /\ IF cycles + 1 = StepCycles
     THEN /\ cycles' = 0
          /\ frameStep' = (frameStep + 1) % FrameSteps
          /\ IF frameStep' \in SweepClocks THEN ClockSweep
             ELSE UNCHANGED <<hz, sweep, swept>>
     ELSE /\ cycles' = cycles + 1
          /\ UNCHANGED <<frameStep, hz, sweep, swept>>
  /\ UNCHANGED <<powered, registers, on, volume>>

\* Bus::reset makes a new unit.
ApuReset ==
  /\ powered' = TRUE
  /\ frameStep' = 0 /\ cycles' = 0 /\ elapsed' = 0
  /\ env' = [c \in Channels |-> IF c = 1 THEN StartEnvelope ELSE 0]
  /\ period' = [c \in Channels |-> IF c = 4 THEN 0 ELSE StartPeriod]
  /\ on' = Silent /\ hz' = DefaultHz /\ volume' = [c \in Channels |-> 0]
  /\ sweep' = NoSweep /\ swept' = FALSE

\* What NR52 reads: the channels that are on, and none with the power off.
Status == IF powered THEN {c \in Channels : on[c]} ELSE {}

\* Programs write the registers of the channels cs.
ApuNext(cs) ==
  \/ Tick
  \/ PowerOff \/ PowerOn
  \/ \E c \in cs :
       \/ \E e \in 0..Envelopes : WriteEnvelope(c, e)
       \/ \E p \in PeriodValues : WritePeriod(c, p)
       \/ Retrigger(c)
  \/ 1 \in cs /\ \E p \in SweepSteps, s \in SweepShifts, n \in BOOLEAN : WriteSweep(p, s, n)
  \/ ApuReset

ApuSpec == ApuInit /\ [][ApuNext(Channels)]_apuVars

-----------------------------------------------------------------------------

ApuTypeOK ==
  /\ {powered, swept} \subseteq BOOLEAN
  /\ frameStep \in 0..(FrameSteps - 1)
  /\ cycles \in 0..(StepCycles - 1)
  /\ elapsed \in 0..(StepCycles * FrameSteps - 1)
  /\ env \in [Channels -> 0..Envelopes]
  /\ period \in [Channels -> PeriodValues]
  /\ on \in [Channels -> BOOLEAN]
  /\ hz \in [Channels -> 1..MaxHz]
  /\ volume \in [Channels -> Nat]
  /\ sweep \in [period : SweepSteps, shift : SweepShifts, negate : BOOLEAN, ticks : 0..7]

(***************************************************************************)
(* A channel that sounds does so as its registers say, whatever order they *)
(* were written in, before or after the trigger and across power cycles:   *)
(* its converter is on, it has the volume of the envelope, and the         *)
(* frequency of the period registers unless the sweep has moved it or the  *)
(* channel is the one that reads them at a trigger only.                   *)
(***************************************************************************)
SoundsAsProgrammed ==
  \A c \in Channels : on[c] =>
    /\ DacOn(env[c])
    /\ volume[c] = Volume(c, env[c])
    /\ c = 4 \/ (c = 1 /\ swept) \/ hz[c] = Frequency(c, period[c])

(***************************************************************************)
(* While the power is off the unit stays as the power-off reset left it,   *)
(* although the sequencer runs on, clocks the sweep without asking, and    *)
(* programs keep writing: nothing of the old life is heard after power on. *)
(***************************************************************************)
OffStaysReset ==
  ~powered => /\ Status = {} /\ on = Silent /\ hz = DefaultHz
              /\ env = [c \in Channels |-> 0] /\ period = [c \in Channels |-> 0]
              /\ sweep = NoSweep

(***************************************************************************)
(* The sequencer counts the cycles since the power was switched on, not    *)
(* those of an earlier life: step and counter together are their number,   *)
(* as section 7 of docs/architecture-decisions.md asks.                    *)
(***************************************************************************)
SequencerRestarts == frameStep * StepCycles + cycles = elapsed

(***************************************************************************)
(* A clock of the sweep moves the pitch the way NR10 says and by an octave *)
(* at most, whatever its period and shift were changed to since the last   *)
(* one; a shift of zero does not move it at all.                           *)
(***************************************************************************)
SweepIsGentle ==
  [][Tick /\ hz'[1] # hz[1] =>
       /\ sweep.shift # 0
       /\ IF sweep.negate THEN hz[1] \in hz'[1]..(2 * hz'[1] + 1)
                          ELSE hz'[1] \in hz[1]..(2 * hz[1])]_apuVars

(***************************************************************************)
(* Whatever is written to the sound registers in whatever order, with the  *)
(* power on or off, the channels sound as programmed, start over with the  *)
(* power, and are swept gently; no counter leaves its range.               *)
(***************************************************************************)
ChannelsObey ==
  [](ApuTypeOK /\ SoundsAsProgrammed /\ OffStaysReset /\ SequencerRestarts) /\ SweepIsGentle
=============================================================================
