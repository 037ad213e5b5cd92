------------------------------- MODULE Waves -------------------------------
(***************************************************************************)
(* The wave generators of core/src/apu.rs, one channel at a time, and the  *)
(* mixing of what they give.  When a channel is triggered, retuned or      *)
(* switched off is decided by Apu; here it happens at any time.            *)
(***************************************************************************)
EXTENDS Integers, FiniteSets

CONSTANTS
  OutputRate,   \* OUTPUT_SAMPLE_RATE_HZ, 48000
  WaveSteps,    \* samples in the wave memory, 32
  LfsrWidth,    \* bits of the noise generator, 15
  Pitches,      \* values of frequency_hz, at most 20000
  Amplitudes,   \* of an envelope
  WaveValues,   \* 0..15, in the wave memory
  Volumes       \* 0..7, the volume of a side

ASSUME WavesAssumption ==
  /\ {OutputRate, WaveSteps} \subseteq Nat \ {0} /\ OutputRate % WaveSteps = 0
  /\ LfsrWidth \in 2..15
  /\ \A p \in Pitches : p \in 1..(OutputRate - 1)
  /\ Amplitudes \subseteq Nat /\ WaveValues \subseteq 0..15 /\ Volumes \subseteq 0..7

VARIABLES
  kind,      \* the channel: 1 (or 2), 3 or 4
  sounding,  \* enabled
  pitch,     \* frequency_hz
  phase,     \* chN_phase_accumulator
  index,     \* ch3_wave_index
  lfsr,      \* ch4_lfsr
  travelled  \* history: sum of the pitches of all samples since the trigger,
             \* modulo a period of the wave or of the noise generator

waveVars == <<kind, sounding, pitch, phase, index, lfsr, travelled>>

StepWidth == OutputRate \div WaveSteps
LfsrSeed  == 2 ^ LfsrWidth - 1
FullNoise == OutputRate * LfsrSeed
Round     == IF kind = 4 THEN FullNoise ELSE OutputRate

Feedback(l) == (l + l \div 2) % 2
Shift(l) == l \div 2 + Feedback(l) * 2 ^ (LfsrWidth - 1)

WaveInit ==
  /\ kind \in {1, 3, 4} /\ sounding = FALSE
  /\ pitch \in Pitches
  /\ phase = 0 /\ index = 0 /\ lfsr = LfsrSeed /\ travelled = 0

\* A trigger starts the wave memory at its second sample.
Trigger ==
  /\ sounding' \in BOOLEAN
  /\ pitch' \in Pitches
  /\ phase' = 0 /\ index' = 1 /\ lfsr' = LfsrSeed /\ travelled' = 0
  /\ UNCHANGED kind

\* A register write or the sweep: the phase goes on from where it is.
Retune ==
  /\ pitch' \in Pitches
  /\ UNCHANGED <<kind, sounding, phase, index, lfsr, travelled>>

\* The converter goes off; only a trigger starts the channel again.
SwitchOff ==
  /\ sounding' = FALSE
  /\ UNCHANGED <<kind, pitch, phase, index, lfsr, travelled>>

\* The power goes off.
PowerDown ==
  /\ sounding' = FALSE
  /\ pitch' \in Pitches
  /\ phase' = 0 /\ index' = 0 /\ lfsr' = LfsrSeed /\ travelled' = 0
  /\ UNCHANGED kind

\* Mutant of SampleWave: at most one step of the wave memory per sample.
SampleWaveOnce ==
  LET next == phase + pitch
  IN /\ index' = IF next >= StepWidth THEN (index + 1) % WaveSteps ELSE index
     /\ phase' = next % StepWidth
     /\ UNCHANGED lfsr

\* next_ch3_sample.
SampleWave ==
  LET next == (phase + pitch) % OutputRate
  IN /\ index' = (index + next \div StepWidth) % WaveSteps
     /\ phase' = next % StepWidth
     /\ UNCHANGED lfsr

\* next_ch1_sample and next_ch2_sample.
SampleSquare == phase' = (phase + pitch) % OutputRate /\ UNCHANGED <<index, lfsr>>

\* next_ch4_sample.
SampleNoise ==
  LET next == phase + pitch
  IN /\ lfsr' = IF next >= OutputRate THEN Shift(lfsr) ELSE lfsr
     /\ phase' = next % OutputRate
     /\ UNCHANGED index

Sample ==
  /\ sounding
  /\ CASE kind = 1 -> SampleSquare
       [] kind = 3 -> SampleWave
       [] kind = 4 -> SampleNoise
  /\ travelled' = (travelled + pitch) % Round
  /\ UNCHANGED <<kind, sounding, pitch>>

WaveNext == Sample \/ Trigger \/ Retune \/ SwitchOff \/ PowerDown
WaveSpec == WaveInit /\ [][WaveNext]_waveVars

-----------------------------------------------------------------------------

\* The square wave at phase p, for a duty of so many eighths.
SquareSample(p, eighths, amplitude) ==
  IF p < eighths * (OutputRate \div 8) THEN amplitude ELSE -amplitude

\* Division of Rust, toward zero.
Quotient(a, b) == IF a >= 0 THEN a \div b ELSE -((-a) \div b)

\* The wave memory's sample v at an output level, for an amplitude of the
\* trigger.
WaveSample(v, level, amplitude) ==
  (CASE level = 0 -> 0
     [] level = 1 -> v - 8
     [] level = 2 -> Quotient(v - 8, 2)
     [] level = 3 -> Quotient(v - 8, 4)) * (amplitude \div 8)

NoiseSample(l, amplitude) == IF l % 2 = 0 THEN amplitude ELSE -amplitude

\* What the channels can give to the mixer.
SquareSamples ==
  {SquareSample(p, e, a) : p \in 0..(OutputRate - 1), e \in {1, 2, 4, 6}, a \in Amplitudes}
WaveSamples  == {WaveSample(v, l, 8) : v \in WaveValues, l \in 0..3}
NoiseSamples == {NoiseSample(l, a) : l \in 1..LfsrSeed, a \in Amplitudes}
Samples ==
  {<<a, b, c, d>> : a \in SquareSamples, b \in SquareSamples, c \in WaveSamples, d \in NoiseSamples}

\* mix_stereo_side for the routed channels and one volume.  A sample is at
\* most 15 * 180 = 2700 in the code, so the sum of four stays within its
\* sixteen bits.
Active(samples, routed) == {c \in routed : samples[c] # 0}
Part(samples, cs, c) == IF c \in cs THEN samples[c] ELSE 0
Total(samples, cs) ==
  Part(samples, cs, 1) + Part(samples, cs, 2) + Part(samples, cs, 3) + Part(samples, cs, 4)

Share(samples, active) ==
  IF active = {} THEN 0 ELSE Quotient(Total(samples, active), Cardinality(active))

Side(samples, routed, volume) ==
  Quotient(Share(samples, Active(samples, routed)) * (volume + 1), 8)

\* next_mixed_sample with the power on.
Mixed(samples, left, right, lv, rv) ==
  Quotient(Side(samples, left, lv) + Side(samples, right, rv), 2)

-----------------------------------------------------------------------------

(***************************************************************************)
(* Every channel is where its pitches have led it since the trigger: a     *)
(* change of pitch makes no jump, a fast wave skips no more and no fewer   *)
(* samples than it should, and the generator forgets no fraction.          *)
(***************************************************************************)
InStep ==
  sounding =>
  IF kind = 3
  THEN ((index - 1) % WaveSteps) * StepWidth + phase = travelled % OutputRate
  ELSE phase = travelled % OutputRate

(***************************************************************************)
(* The noise generator, which would be silent for ever at zero, never gets *)
(* there, and returns to its seed only after all 2^LfsrWidth - 1 shifts.   *)
(***************************************************************************)
NoiseIsLong ==
  kind = 4 => /\ lfsr # 0
              /\ lfsr = LfsrSeed <=> travelled \div OutputRate = 0

(***************************************************************************)
(* Mixing never clips: the result is no louder than the loudest routed     *)
(* channel, at any routing and volume, without an offset (the negated      *)
(* samples give the negated mix), and channels that agree are not changed  *)
(* at full volume.                                                         *)
(***************************************************************************)
Size(a) == IF a < 0 THEN -a ELSE a
Negated(samples) == [c \in DOMAIN samples |-> -samples[c]]

MixIsFair(samples, left, right, lv, rv) ==
  LET mixed == Mixed(samples, left, right, lv, rv)
      heard == Active(samples, left \union right)
  IN /\ heard = {} => mixed = 0
     /\ heard # {} => \E c \in heard : Size(mixed) <= Size(samples[c])
     /\ mixed = -Mixed(Negated(samples), left, right, lv, rv)
     /\ (lv = 7 /\ rv = 7 /\ heard # {} /\ left = right) =>
          \A c \in heard : (\A d \in heard : samples[d] = samples[c]) => mixed = samples[c]
=============================================================================
