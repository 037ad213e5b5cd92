------------------------------ MODULE MCSound ------------------------------
(***************************************************************************)
(* The parts of the sound unit, each by itself: what one of them does      *)
(* never depends on the state of another except through the operations     *)
(* that are checked here in any order.  A behaviour is about one part; the *)
(* others keep their initial state.                                        *)
(***************************************************************************)
EXTENDS Apu, SampleQueue, Waves

MCDefaultHz == [c \in Channels |-> IF c = 4 THEN 3 ELSE 2]

VARIABLES
  part,       \* what the behaviour is about
  programmed, \* the channels whose registers the program writes
  mixer       \* samples, routings and volumes of the mixer

mcVars == <<part, programmed, mixer, apuVars, queueVars, waveVars>>

MixerInputs ==
  [samples : Samples, left : SUBSET (1..4),
   right : {{}, {1}, {2, 3}, 1..4}, lv : Volumes, rv : {7}]

NoInput == [samples |-> <<0, 0, 0, 0>>, left |-> {}, right |-> {}, lv |-> 0, rv |-> 7]

MCInit ==
  /\ part \in {"channels", "queue", "mixer", "waves"}
  /\ ApuInit /\ QueueInit /\ WaveInit
  /\ programmed \in (IF part = "channels" THEN {{1}, {3}, {4}, {3, 4}} ELSE {{}})
  /\ mixer \in (IF part = "mixer" THEN MixerInputs ELSE {NoInput})
  /\ part # "waves" => kind = 1 /\ pitch = 1

MCNext ==
  /\ \/ part = "channels" /\ ApuNext(programmed) /\ UNCHANGED <<queueVars, waveVars>>
     \/ part = "queue" /\ QueueNext /\ UNCHANGED <<apuVars, waveVars>>
     \/ part = "waves" /\ WaveNext /\ UNCHANGED <<apuVars, queueVars>>
     \/ part = "mixer" /\ UNCHANGED <<apuVars, queueVars, waveVars>>
  /\ UNCHANGED <<part, programmed, mixer>>

MCSpec == MCInit /\ [][MCNext]_mcVars

(***************************************************************************)
(* Every mix of the inputs is fair: MixIsFair of Waves.                    *)
(***************************************************************************)
FairMix == MixIsFair(mixer.samples, mixer.left, mixer.right, mixer.lv, mixer.rv)

(***************************************************************************)
(* The form of the waves, from the generators to the mix: no phase is      *)
(* lost, the noise is as long as it can be, and the mixer adds nothing.    *)
(***************************************************************************)
WavesAreTrue == InStep /\ NoiseIsLong /\ FairMix
=============================================================================
