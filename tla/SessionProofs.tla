--------------------------- MODULE SessionProofs ---------------------------
(***************************************************************************)
(* Proofs about Session, for any cartridges, RAM contents and slots.       *)
(***************************************************************************)
EXTENDS Session, TLAPS

-----------------------------------------------------------------------------

(***************************************************************************)
(* The inductive invariant: a write under way carries the RAM of a         *)
(* cartridge that has some, and the gate of SaveOnDrop is closed only for  *)
(* a refused save or a cartridge without battery-backed RAM.               *)
(***************************************************************************)
Writing == pc = "write" => temp = ram /\ ram.size # 0
DropGate == IF onDrop THEN ~rejected ELSE rejected \/ ram.size = 0
IInv == TypeOK /\ StatesFit /\ Writing /\ DropGate

\* The sizes are numbers above zero, and a file that is absent is no image.
LEMMA Constants ==
  /\ \A n \in Sizes : n # 0 /\ n # -1 /\ n # BadRom
  /\ NoFile \notin Images /\ NoFile.size = -1
BY SessionAssumption DEF NoFile, Images, BadRom

LEMMA InitIInv == Init => IInv
<1> SUFFICES ASSUME Init PROVE IInv
  OBVIOUS
<1>1. TypeOK
  BY SessionAssumption DEF Init, TypeOK, Places, NoRam, NoFile, NoStats, NoState
<1>2. StatesFit
  BY DEF Init, StatesFit, NoState
<1>3. Writing /\ DropGate
  BY DEF Init, Writing, DropGate, NoRam
<1> QED
  BY <1>1, <1>2, <1>3 DEF IInv

\* A load, at the start or after a hot reload, makes everything fit again.
LEMMA LoadIInv ==
  ASSUME IInv, NEW status \in LoadOutcomes(rom), rom # BadRom, Load(status)
  PROVE  /\ ram' \in [size : Sizes \cup {0}, data : Data]
         /\ onDrop' \in BOOLEAN /\ rejected' \in BOOLEAN /\ failed' \in BOOLEAN
         /\ states' \in [Slots -> [size : Sizes \cup {0, -1}, data : Data]]
         /\ stats' \in [frames : BOOLEAN, resets : BOOLEAN, reloads : BOOLEAN]
         /\ StatesFit' /\ DropGate'
<1>1. rom \in Sizes \cup {0} /\ file \in Images \cup {NoFile}
  BY DEF IInv, TypeOK
<1>2. ram' \in [size : Sizes \cup {0}, data : Data]
  <2>1. CASE status = "Loaded"
    <3>1. file # NoFile
      BY <2>1 DEF LoadOutcomes
    <3> QED
      BY <1>1, <2>1, <3>1 DEF Load, Images
  <2>2. CASE status # "Loaded"
    BY <1>1, <2>2, SessionAssumption DEF Load
  <2> QED
    BY <2>1, <2>2
<1>3. onDrop' \in BOOLEAN /\ rejected' \in BOOLEAN /\ failed' \in BOOLEAN
  <2>1. \A S : (status \in S) \in BOOLEAN
    OBVIOUS
  <2> QED
    BY <2>1 DEF Load, ShouldPersist
<1>4. /\ states' \in [Slots -> [size : Sizes \cup {0, -1}, data : Data]]
      /\ StatesFit'
  BY SessionAssumption DEF Load, NoState, NoFile, StatesFit
<1>5. stats' \in [frames : BOOLEAN, resets : BOOLEAN, reloads : BOOLEAN]
  BY DEF Load, NoStats
<1>6. DropGate'
  <2>1. status \in {"NotBatteryBacked", "NotFound", "Loaded", "InvalidData", "ReadError"}
    BY DEF LoadOutcomes
  <2>2. status = "NotBatteryBacked" => ram'.size = 0
    BY DEF LoadOutcomes, Load
  <2> QED
    BY <2>1, <2>2 DEF DropGate, Load, ShouldPersist
<1> QED
  BY <1>2, <1>3, <1>4, <1>5, <1>6

LEMMA LoadsIInv ==
  ASSUME IInv, NEW status \in Statuses, Start(status) \/ Reload(status)
  PROVE  IInv'
<1>1. Load(status) /\ rom # BadRom /\ status \in LoadOutcomes(rom)
  BY DEF Start, Reload
<1>2. persist' \in BOOLEAN
  BY <1>1, LoadIInv DEF Start, Reload, IInv, TypeOK
<1>3. UNCHANGED <<disk, after, temp>> /\ pc' = "top"
  BY DEF Start, Reload
<1> QED
  BY <1>1, <1>2, <1>3, LoadIInv DEF IInv, TypeOK, Writing, Places, disk

\* The events inside the emulation loop.
LEMMA InLoopIInv ==
  ASSUME IInv, InLoop
  PROVE  IInv'
<1> USE DEF IInv, disk, gates, history
<1>1. ASSUME NEW d \in Data, NEW frame \in BOOLEAN, Play(d, frame)
      PROVE  IInv'
  <2>1. ram' \in [size : Sizes \cup {0}, data : Data] /\ ram'.size = ram.size
    BY <1>1 DEF Play, TypeOK
  <2>2. stats' \in [frames : BOOLEAN, resets : BOOLEAN, reloads : BOOLEAN]
    BY <1>1 DEF Play, TypeOK
  <2> QED
    BY <1>1, <2>1, <2>2 DEF Play, TypeOK, StatesFit, Writing, DropGate, Runs
<1>2. CASE ResetEvent \/ ReloadEvent
  <2>1. stats' \in [frames : BOOLEAN, resets : BOOLEAN, reloads : BOOLEAN]
    BY <1>2 DEF ResetEvent, ReloadEvent, TypeOK
  <2> QED
    BY <1>2, <2>1 DEF ResetEvent, ReloadEvent, TypeOK, StatesFit, Writing, DropGate
<1>3. ASSUME NEW s \in Slots, SaveState(s)
      PROVE  IInv'
  <2>1. /\ states' \in [Slots -> [size : Sizes \cup {0, -1}, data : Data]]
        /\ \A t \in Slots : states'[t] = states[t] \/ states'[t] = ram
    BY <1>3 DEF SaveState, TypeOK
  <2> QED
    BY <1>3, <2>1 DEF SaveState, TypeOK, StatesFit, Writing, DropGate
<1>4. ASSUME NEW s \in Slots, LoadState(s)
      PROVE  IInv'
  <2>1. ram' = states[s] /\ ram'.size = ram.size
    BY <1>4 DEF LoadState, StatesFit
  <2>2. ram' \in [size : Sizes \cup {0}, data : Data]
    BY <2>1 DEF TypeOK
  <2> QED
    BY <1>4, <2>1, <2>2 DEF LoadState, TypeOK, StatesFit, Writing, DropGate
<1>5. CASE LeaveLoop
  BY <1>5 DEF LeaveLoop, TypeOK, StatesFit, Writing, DropGate, Places
<1> QED
  BY <1>1, <1>2, <1>3, <1>4, <1>5 DEF InLoop

\* The steps of main between two runs of the loop, writes included.
LEMMA MainIInv ==
  ASSUME IInv,
         \/ RunLoop \/ AfterResets \/ BeforeReload \/ ReloadFails \/ NoReload
         \/ Checkpoint \/ Exit \/ Commit \/ WriteFails \/ Crash \/ ReplaceRom
  PROVE  IInv'
<1> USE DEF IInv, disk, gates, history
<1>1. CASE RunLoop
  <2>1. stats' \in [frames : BOOLEAN, resets : BOOLEAN, reloads : BOOLEAN]
    <3>1. NoStats \in [frames : BOOLEAN, resets : BOOLEAN, reloads : BOOLEAN]
      BY DEF NoStats
    <3> QED
      BY <1>1, <3>1 DEF RunLoop, TypeOK
  <2> QED
    BY <1>1, <2>1 DEF RunLoop, TypeOK, StatesFit, Writing, DropGate, Places
<1>2. ASSUME NEW gate, NEW next \in Places \ {"write"}, Persist(gate, next),
             UNCHANGED <<disk, ram, gates, states, stats, history>>
      PROVE  IInv'
  <2>1. pc' \in Places /\ after' \in Places \ {"write"}
    BY <1>2 DEF Persist, TypeOK, Places
  <2>2. temp' \in Images \cup {NoFile}
    BY <1>2 DEF Persist, TypeOK, Images
  <2>3. Writing'
    BY <1>2 DEF Persist, Writing
  <2> QED
    BY <1>2, <2>1, <2>2, <2>3 DEF TypeOK, StatesFit, DropGate
<1>3. CASE AfterResets \/ BeforeReload \/ Checkpoint \/ Exit
  <2>1. CASE AfterResets
    BY <1>2, <2>1 DEF AfterResets, Places
  <2>2. CASE BeforeReload
    BY <1>2, <2>2 DEF BeforeReload, Places
  <2>3. CASE Exit
    BY <1>2, <2>3 DEF Exit, Places
  <2>4. CASE Checkpoint /\ stats.frames
    BY <1>2, <2>4 DEF Checkpoint, Places
  <2>5. CASE Checkpoint /\ ~stats.frames
    BY <2>5 DEF Checkpoint, TypeOK, StatesFit, Writing, DropGate, Places
  <2> QED
    BY <1>3, <2>1, <2>2, <2>3, <2>4, <2>5
<1>4. CASE ReloadFails \/ NoReload \/ Crash
  BY <1>4 DEF ReloadFails, NoReload, Crash, TypeOK, StatesFit, Writing, DropGate, Places
<1>5. CASE Commit \/ WriteFails
  <2>1. after # "write" /\ after \in Places
    BY DEF TypeOK
  <2>2. failed' \in BOOLEAN /\ {file', temp'} \subseteq Images \cup {NoFile}
    BY <1>5 DEF Commit, WriteFails, TypeOK
  <2> QED
    BY <1>5, <2>1, <2>2 DEF Commit, WriteFails, TypeOK, StatesFit, Writing, DropGate
<1>6. CASE ReplaceRom
  BY <1>6 DEF ReplaceRom, TypeOK, StatesFit, Writing, DropGate
<1> QED
  BY <1>1, <1>3, <1>4, <1>5, <1>6

\* Every step keeps the invariant.
LEMMA NextIInv == IInv /\ [Next]_vars => IInv'
<1> SUFFICES ASSUME IInv, [Next]_vars PROVE IInv'
  OBVIOUS
<1>1. CASE UNCHANGED vars
  BY <1>1 DEF vars, disk, gates, history, IInv, TypeOK, StatesFit, Writing, DropGate
<1> QED
  BY <1>1, LoadsIInv, InLoopIInv, MainIInv DEF Next

(***************************************************************************)
(* The invariant holds in every state of every session.                    *)
(***************************************************************************)
THEOREM Invariance == Spec => []IInv
BY InitIInv, NextIInv, PTL DEF Spec

(***************************************************************************)
(* Every variable keeps its type.                                          *)
(***************************************************************************)
THEOREM TypeCorrect == Spec => []TypeOK
BY Invariance, PTL DEF IInv

(***************************************************************************)
(* The slots never hold a state of another cartridge.                      *)
(***************************************************************************)
THEOREM OnlyOwnStates == Spec => []StatesFit
BY Invariance, PTL DEF IInv

(***************************************************************************)
(* The save file only ever changes to the whole RAM of the running game,   *)
(* wherever the program crashes.                                           *)
(***************************************************************************)
THEOREM WholeSaves == Spec => SavesAreWhole
<1>1. IInv /\ [Next]_vars => [file' # file => file' = ram]_vars
  <2> SUFFICES ASSUME IInv, Next, file' # file PROVE file' = ram
    BY DEF vars, disk
  <2>1. Commit
    BY DEF Next, Start, RunLoop, InLoop, Play, ResetEvent, ReloadEvent, SaveState, LoadState,
           LeaveLoop, AfterResets, BeforeReload, ReloadFails, Reload, NoReload, Checkpoint,
           Exit, WriteFails, Crash, ReplaceRom, disk
  <2> QED
    BY <2>1 DEF Commit, IInv, Writing
<1> QED
  BY <1>1, Invariance, PTL DEF Spec, SavesAreWhole

(***************************************************************************)
(* A program that ends without a crash leaves the RAM of its game on disk, *)
(* unless it must not or could not write it.                               *)
(***************************************************************************)
THEOREM NormalExits == Spec => ExitSaves
<1> DEFINE Ends == pc # "off" /\ pc' = "off"
                     => rejected \/ failed' \/ ram.size = 0 \/ file' = ram
<1>1. IInv /\ [Next]_vars => [Ends]_vars
  <2> SUFFICES ASSUME IInv, Next, pc # "off", pc' = "off"
               PROVE  rejected \/ failed' \/ ram.size = 0 \/ file' = ram
    BY DEF vars
  <2>1. Exit \/ Commit \/ WriteFails
    BY DEF Next, Start, RunLoop, InLoop, Play, ResetEvent, ReloadEvent, SaveState, LoadState,
           LeaveLoop, AfterResets, BeforeReload, ReloadFails, Reload, NoReload, Checkpoint,
           Crash, ReplaceRom, Persist
  <2> QED
    BY <2>1 DEF Exit, Commit, WriteFails, Persist, IInv, Writing, DropGate
<1> QED
  BY <1>1, Invariance, PTL DEF Spec, ExitSaves

-----------------------------------------------------------------------------

(***************************************************************************)
(* While main's flag and that of SaveOnDrop agree, no write is under way   *)
(* that the flag forbids.                                                  *)
(***************************************************************************)
AgreedInv ==
  /\ IInv
  /\ pc = "write" /\ Agree => onDrop
  /\ CheckpointsSave

LEMMA AgreedStep == AgreedInv /\ [Next]_vars => AgreedInv'
<1> SUFFICES ASSUME AgreedInv, [Next]_vars PROVE AgreedInv'
  OBVIOUS
<1>1. IInv'
  BY NextIInv DEF AgreedInv
<1>2. CASE UNCHANGED vars
  BY <1>1, <1>2 DEF vars, disk, gates, history, AgreedInv, Agree, CheckpointsSave
<1>3. CASE Next
  <2> USE <1>3 DEF AgreedInv, Agree
  <2>1. (pc = "write" /\ Agree => onDrop)'
    BY DEF Next, Start, RunLoop, InLoop, Play, ResetEvent, ReloadEvent, SaveState, LoadState,
           LeaveLoop, AfterResets, BeforeReload, ReloadFails, Reload, NoReload, Checkpoint,
           Exit, Commit, WriteFails, Crash, ReplaceRom, Persist, gates, IInv, TypeOK
  <2>2. CheckpointsSave'
    <3>1. CASE Commit
      BY <3>1 DEF Commit, IInv, Writing, CheckpointsSave
    <3>2. CASE Checkpoint
      <4>1. CASE stats.frames /\ persist /\ ram.size # 0
        BY <3>2, <4>1 DEF Checkpoint, Persist, CheckpointsSave
      <4>2. CASE stats.frames /\ ~persist /\ ram.size # 0
        BY <3>2, <4>2 DEF Checkpoint, Persist, history, CheckpointsSave, gates, IInv, DropGate
      <4>3. CASE ram.size = 0 \/ ~stats.frames
        BY <3>2, <4>3 DEF Checkpoint, Persist, CheckpointsSave
      <4> QED
        BY <4>1, <4>2, <4>3
    <3>3. CASE \E status \in Statuses : Start(status) \/ Reload(status)
      BY <3>3 DEF Start, Reload, Load, NoStats, CheckpointsSave
    <3>4. CASE ReplaceRom
      BY <3>4 DEF ReplaceRom, gates, history, CheckpointsSave
    <3>5. CASE WriteFails
      BY <3>5 DEF WriteFails, CheckpointsSave
    <3>6. CASE RunLoop \/ AfterResets \/ BeforeReload \/ ReloadFails \/ NoReload \/ Exit \/ Crash
      <4>1. pc' # "top"
        BY <3>6 DEF RunLoop, AfterResets, BeforeReload, ReloadFails, NoReload, Exit, Crash, Persist
      <4> QED
        BY <4>1 DEF CheckpointsSave
    <3>7. CASE InLoop
      <4>1. pc' # "top"
        BY <3>7 DEF InLoop, Play, ResetEvent, ReloadEvent, SaveState, LoadState, LeaveLoop, Runs
      <4> QED
        BY <4>1 DEF CheckpointsSave
    <3> QED
      BY <3>1, <3>2, <3>3, <3>4, <3>5, <3>6, <3>7 DEF Next
  <2> QED
    BY <1>1, <2>1, <2>2
<1> QED
  BY <1>2, <1>3

THEOREM AgreedInvariance == Spec => []AgreedInv
<1>1. Init => AgreedInv
  BY InitIInv DEF Init, AgreedInv, Agree, CheckpointsSave
<1> QED
  BY <1>1, AgreedStep, PTL DEF Spec

(***************************************************************************)
(* While the two copies of the flag agree, a save that was refused is      *)
(* never written over.                                                     *)
(***************************************************************************)
THEOREM RefusedSavesStay == Spec => AgreedSaveKept
<1>1. AgreedInv /\ [Next]_vars => [Agree /\ rejected /\ file # NoFile => file' = file]_vars
  <2> SUFFICES ASSUME AgreedInv, Next, Agree, rejected PROVE file' = file
    BY DEF vars
  <2>1. pc # "write"
    BY DEF AgreedInv, IInv, DropGate
  <2> QED
    BY <2>1 DEF Next, Start, RunLoop, InLoop, Play, ResetEvent, ReloadEvent, SaveState,
       LoadState, LeaveLoop, AfterResets, BeforeReload, ReloadFails, Reload, NoReload, Checkpoint,
       Exit, Commit, WriteFails, Crash, ReplaceRom, disk
<1> QED
  BY <1>1, AgreedInvariance, PTL DEF Spec, AgreedSaveKept

(***************************************************************************)
(* While the two copies of the flag agree, a run of the loop that          *)
(* presented frames leaves the RAM of the game on disk.                    *)
(***************************************************************************)
THEOREM CheckpointsHold == Spec => []CheckpointsSave
BY AgreedInvariance, PTL DEF AgreedInv

(***************************************************************************)
(* RAM, file and saved states are those of the running cartridge.          *)
(***************************************************************************)
THEOREM OwnStates == Spec => []StatesAreOwn
BY TypeCorrect, OnlyOwnStates, PTL DEF StatesAreOwn
=============================================================================
