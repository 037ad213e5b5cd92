---------------------------- MODULE SampleQueue ----------------------------
(***************************************************************************)
(* The queue between the sound unit and the audio device: one sample for   *)
(* every DMG_CLOCK_HZ / OUTPUT_SAMPLE_RATE_HZ cycles, counted exactly with *)
(* a remainder, dropped when too many wait.  A sample is the number of the *)
(* sample, Silence what the device is given when there is none.            *)
(***************************************************************************)
EXTENDS Integers, SequencesExt

CONSTANTS
  ClockHz,      \* DMG_CLOCK_HZ, 4194304
  SampleRate,   \* OUTPUT_SAMPLE_RATE_HZ, 48000
  QueueMax,     \* OUTPUT_QUEUE_MAX_SAMPLES, 4096
  QueueTarget,  \* OUTPUT_QUEUE_TARGET_SAMPLES, 2048
  Chunks,       \* cycles of a call of tick, between two frame steps
  Requests,     \* samples the device may ask for
  Laps          \* after so many seconds the histories start again

ASSUME QueueAssumption ==
  /\ {ClockHz, SampleRate, QueueMax, QueueTarget, Laps} \subseteq Nat \ {0}
  /\ QueueTarget <= QueueMax /\ QueueMax < Laps * SampleRate
  /\ Chunks \subseteq Nat \ {0} /\ Requests \subseteq Nat

VARIABLES
  samplePhase,  \* sample_phase
  queue,        \* sample_buffer
  output,       \* what the device was given last
  total,        \* history: cycles, modulo Laps seconds
  made          \* history: samples, modulo Laps seconds

queueVars == <<samplePhase, queue, output, total, made>>

Silence == -1
Stamp(n) == n % (Laps * SampleRate)
Shorter(a, b) == IF a <= b THEN a ELSE b
Longer(a, b) == IF a >= b THEN a ELSE b

\* The newest n of a sequence, all of it if it is shorter.
Newest(s, n) == SubSeq(s, Longer(Len(s) - n, 0) + 1, Len(s))

QueueInit == samplePhase = 0 /\ queue = <<>> /\ output = <<>> /\ total = 0 /\ made = 0

-----------------------------------------------------------------------------

\* Mutant of Keep: a full queue refuses what is new.
KeepOldest(s) == SubSeq(s, 1, Shorter(Len(s), QueueMax))

Keep(s) == Newest(s, QueueMax)

\* emit_ch1_samples_for_t_cycles.
Emit(t) ==
  LET count == (samplePhase + t * SampleRate) \div ClockHz
  IN /\ samplePhase' = (samplePhase + t * SampleRate) % ClockHz
     /\ queue' = Keep(queue \o [i \in 1..count |-> Stamp(made + i)])
     /\ total' = (total + t) % (Laps * ClockHz)
     /\ made' = Stamp(made + count)
     /\ UNCHANGED output

\* What pull_output_samples keeps before it serves r samples.
Trimmed(r) ==
  IF Len(queue) > QueueTarget THEN Newest(queue, Longer(QueueTarget, r)) ELSE queue

Pull(r) ==
  LET kept  == Trimmed(r)
      count == Shorter(r, Len(kept))
  IN /\ output' = SubSeq(kept, 1, count) \o [i \in 1..(r - count) |-> Silence]
     /\ queue' = SubSeq(kept, count + 1, Len(kept))
     /\ UNCHANGED <<samplePhase, total, made>>

\* drain_samples takes everything, as a frontend without sound may do.
Drain ==
  /\ output' = queue /\ queue' = <<>>
  /\ UNCHANGED <<samplePhase, total, made>>

QueueNext == (\E t \in Chunks : Emit(t)) \/ (\E r \in Requests : Pull(r)) \/ Drain

QueueSpec == QueueInit /\ [][QueueNext]_queueVars

-----------------------------------------------------------------------------

(***************************************************************************)
(* Samples come at exactly the rate of the device: however the cycles are  *)
(* cut into chunks, none is lost or made twice in the long run.            *)
(***************************************************************************)
ExactRate == made * ClockHz + samplePhase = total * SampleRate /\ samplePhase < ClockHz

(***************************************************************************)
(* Whatever is dropped, when the queue overflows or when it is trimmed,    *)
(* what waits are the newest samples without a gap, at most QueueMax.      *)
(***************************************************************************)
NewestKept ==
  /\ Len(queue) <= QueueMax
  /\ \A i \in DOMAIN queue :
       queue[i] = Stamp(made - (Len(queue) - i) + Laps * SampleRate)

(***************************************************************************)
(* The device gets what it asked for, silence only for samples that were   *)
(* not there, in the order they were made and just before those that stay, *)
(* and the delay of those is within the target.                            *)
(***************************************************************************)
PullServes ==
  [][\A r \in Requests : Pull(r) =>
       LET served == Shorter(r, Len(queue))
       IN /\ Len(output') = r
          /\ \A i \in 1..r : output'[i] = Silence <=> i > served
          /\ IsSuffix(SubSeq(output', 1, served) \o queue', queue)
          /\ Len(queue') <= Longer(QueueTarget - r, 0)]_queueVars

(***************************************************************************)
(* The device hears the sound at its own rate and in order: samples are    *)
(* made exactly, the newest are kept, and every request is served.         *)
(***************************************************************************)
SamplesInOrder == [](ExactRate /\ NewestKept) /\ PullServes
=============================================================================
