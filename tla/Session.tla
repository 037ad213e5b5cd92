------------------------------ MODULE Session ------------------------------
(***************************************************************************)
(* The life of a save file: main of platform/desktop/src/main.rs with      *)
(* savefile.rs.  The program loads the save when it starts and after a hot *)
(* reload of the ROM, runs the emulation loop, and writes the cartridge's  *)
(* battery-backed RAM back after resets, before reloads, at checkpoints    *)
(* and when it ends (SaveOnDrop).  It may crash at any point, and reading  *)
(* and writing may fail.                                                   *)
(*                                                                         *)
(* A RAM image is its size and one of a few contents.  ROM and save lie on *)
(* a disk that outlives the program; between two loads the ROM may be      *)
(* replaced, which is what hot reload is for.                              *)
(***************************************************************************)
EXTENDS Integers

CONSTANTS
  Sizes,  \* sizes of battery-backed RAM
  Data,   \* contents of such RAM
  Blank,  \* zeroed RAM
  Slots   \* save-state slots

ASSUME SessionAssumption == Sizes \subseteq Nat \ {0} /\ Blank \in Data

VARIABLES
  rom,       \* size of the battery-backed RAM of the ROM on disk, 0 if it has
             \* none, or BadRom
  file,      \* the save file
  pc,        \* where main is
  after,     \* where it goes after the write under way
  temp,      \* image the write under way will put in place
  ram,       \* battery-backed RAM of the running cartridge
  persist,   \* main's local persist_enabled
  onDrop,    \* runtime.persist_enabled
  states,    \* save_state_slots
  stats,     \* what the last run of the emulation loop reported
  rejected,  \* history: the last load refused the file or failed to read it
  failed     \* history: the last write failed

disk    == <<rom, file>>
gates   == <<persist, onDrop>>
history == <<rejected, failed>>
vars    == <<disk, pc, after, temp, ram, gates, states, stats, history>>

BadRom == -1
NoFile == [size |-> -1, data |-> Blank]
NoRam  == [size |-> 0, data |-> Blank]

Images   == [size : Sizes, data : Data]
Statuses == {"NotBatteryBacked", "NotFound", "Loaded", "InvalidData", "ReadError"}
Places   == {"off", "crashed", "top", "loop", "back", "reloading", "load",
             "checkpoint", "exit", "write"}

NoStats == [frames |-> FALSE, resets |-> FALSE, reloads |-> FALSE]
NoState == [s \in Slots |-> NoFile]

\* There is a process, and its main is running.
Alive == pc \notin {"off", "crashed"}

-----------------------------------------------------------------------------

\* Mutant of ShouldPersist: any outcome but a mismatch opens the gate.
ShouldPersistUnlessInvalid(status) == status # "InvalidData"

ShouldPersist(status) == status \in {"Loaded", "NotFound"}

\* load_save_data_if_available for a ROM with RAM size n: the outcomes it can
\* have.  Without RAM the header may name a battery all the same.
LoadOutcomes(n) ==
  (IF n = 0 THEN {"NotBatteryBacked"} ELSE {})
  \cup {"ReadError", IF file = NoFile THEN "NotFound"
                     ELSE IF n # 0 /\ file.size = n THEN "Loaded" ELSE "InvalidData"}

\* A cartridge is made of the ROM and the save loaded into it.
Load(status) ==
  /\ ram' = IF status = "Loaded" THEN file ELSE [size |-> rom, data |-> Blank]
  /\ onDrop' = ShouldPersist(status)
  /\ rejected' = (status \in {"InvalidData", "ReadError"})
  /\ failed' = FALSE
  /\ states' = NoState
  /\ stats' = NoStats

Init ==
  /\ rom \in Sizes \cup {0, BadRom}
  /\ file \in Images \cup {NoFile}
  /\ pc = "off" /\ after = "off" /\ temp = NoFile
  /\ ram = NoRam /\ persist = FALSE /\ onDrop = FALSE
  /\ states = NoState /\ stats = NoStats
  /\ rejected = FALSE /\ failed = FALSE

\* The program starts.
Start(status) ==
  /\ ~Alive /\ rom # BadRom
  /\ status \in LoadOutcomes(rom)
  /\ Load(status)
  /\ persist' = onDrop'
  /\ pc' = "top"
  /\ UNCHANGED <<disk, after, temp>>

\* The main loop runs the emulation loop, unless its budget is used up or the
\* window closed.
RunLoop ==
  /\ pc = "top"
  /\ \/ pc' = "loop" /\ stats' = NoStats
     \/ pc' = "exit" /\ UNCHANGED stats
  /\ UNCHANGED <<disk, after, temp, ram, gates, states, history>>

-----------------------------------------------------------------------------

(***************************************************************************)
(* Inside run_emulation_loop.  A requested reload ends it before the game  *)
(* runs on; events of the same poll are still applied.                     *)
(***************************************************************************)
Runs == pc = "loop" /\ ~stats.reloads

\* The game runs: it may write its RAM, and a frame may be presented.
Play(d, frame) ==
  /\ Runs
  /\ ram' = IF ram.size = 0 THEN ram ELSE [ram EXCEPT !.data = d]
  /\ stats' = [stats EXCEPT !.frames = @ \/ frame]
  /\ UNCHANGED <<disk, pc, after, temp, gates, states, history>>

\* Emulator::reset leaves the RAM of the cartridge alone.
ResetEvent ==
  /\ pc = "loop"
  /\ stats' = [stats EXCEPT !.resets = TRUE]
  /\ UNCHANGED <<disk, pc, after, temp, ram, gates, states, history>>

ReloadEvent ==
  /\ pc = "loop"
  /\ stats' = [stats EXCEPT !.reloads = TRUE]
  /\ UNCHANGED <<disk, pc, after, temp, ram, gates, states, history>>

\* A state is the whole emulator, the cartridge and its RAM included.
SaveState(s) ==
  /\ pc = "loop"
  /\ states' = [states EXCEPT ![s] = ram]
  /\ UNCHANGED <<disk, pc, after, temp, ram, gates, stats, history>>

LoadState(s) ==
  /\ pc = "loop" /\ states[s] # NoFile
  /\ ram' = states[s]
  /\ UNCHANGED <<disk, pc, after, temp, gates, states, stats, history>>

\* The loop returns, or fails and main with it.
LeaveLoop ==
  /\ pc = "loop"
  /\ pc' \in {"back", "exit"}
  /\ UNCHANGED <<disk, after, temp, ram, gates, states, stats, history>>

-----------------------------------------------------------------------------

(***************************************************************************)
(* persist_save_data, if the gate is open: write_atomic fills a temporary  *)
(* file, and its commit puts the file in the place of the old one.         *)
(***************************************************************************)
Persist(gate, next) ==
  IF gate /\ ram.size # 0
  THEN pc' = "write" /\ after' = next /\ temp' = ram
  ELSE pc' = next /\ UNCHANGED <<after, temp>>

\* Mutant of Commit: the old file is overwritten piece by piece.
CommitInPlace ==
  /\ pc = "write"
  /\ \/ file' = [temp EXCEPT !.data = Blank] /\ UNCHANGED <<pc, temp, failed>>
     \/ file' = temp /\ pc' = after /\ temp' = NoFile /\ failed' = FALSE
  /\ UNCHANGED <<rom, after, ram, gates, states, stats, rejected>>

Commit ==
  /\ pc = "write"
  /\ file' = temp
  /\ pc' = after /\ temp' = NoFile /\ failed' = FALSE
  /\ UNCHANGED <<rom, after, ram, gates, states, stats, rejected>>

\* Any step of write_atomic fails; the program goes on with a warning.
WriteFails ==
  /\ pc = "write"
  /\ pc' = after /\ temp' = NoFile /\ failed' = TRUE
  /\ UNCHANGED <<disk, after, ram, gates, states, stats, rejected>>

AfterResets ==
  /\ pc = "back"
  /\ Persist(persist /\ stats.resets, "reloading")
  /\ UNCHANGED <<disk, ram, gates, states, stats, history>>

BeforeReload ==
  /\ pc = "reloading" /\ stats.reloads
  /\ Persist(persist, "load")
  /\ UNCHANGED <<disk, ram, gates, states, stats, history>>

\* The ROM cannot be read or parsed any more: main fails.
ReloadFails ==
  /\ pc = "load" /\ rom = BadRom
  /\ pc' = "exit"
  /\ UNCHANGED <<disk, after, temp, ram, gates, states, stats, history>>

\* Mutant of Reload: the states of the old cartridge stay.
ReloadKeepsStates(status) ==
  /\ pc = "load" /\ rom # BadRom
  /\ status \in LoadOutcomes(rom)
  /\ ram' = IF status = "Loaded" THEN file ELSE [size |-> rom, data |-> Blank]
  /\ onDrop' = ShouldPersist(status)
  /\ rejected' = (status \in {"InvalidData", "ReadError"})
  /\ failed' = FALSE
  /\ stats' = NoStats
  /\ pc' = "top"
  /\ UNCHANGED <<disk, after, temp, persist, states>>

\* The new cartridge; main's local persist_enabled is not written.
Reload(status) ==
  /\ pc = "load" /\ rom # BadRom
  /\ status \in LoadOutcomes(rom)
  /\ Load(status)
  /\ pc' = "top"
  /\ UNCHANGED <<disk, after, temp, persist>>

NoReload ==
  /\ pc = "reloading" /\ ~stats.reloads
  /\ pc' = "checkpoint"
  /\ UNCHANGED <<disk, after, temp, ram, gates, states, stats, history>>

\* Mutant of Checkpoint: only after resets.
CheckpointAfterResets ==
  /\ pc = "checkpoint"
  /\ IF stats.frames THEN Persist(persist /\ stats.resets, "top")
     ELSE pc' = "exit" /\ UNCHANGED <<after, temp>>
  /\ UNCHANGED <<disk, ram, gates, states, stats, history>>

\* A loop that presented no frame is the last one.
Checkpoint ==
  /\ pc = "checkpoint"
  /\ IF stats.frames THEN Persist(persist, "top")
     ELSE pc' = "exit" /\ UNCHANGED <<after, temp>>
  /\ UNCHANGED <<disk, ram, gates, states, stats, history>>

\* Mutant of Exit: the flag the loop used decides.
ExitByLocal ==
  /\ pc = "exit"
  /\ Persist(persist, "off")
  /\ UNCHANGED <<disk, ram, gates, states, stats, history>>

\* main returns and drops the runtime.
Exit ==
  /\ pc = "exit"
  /\ Persist(onDrop, "off")
  /\ UNCHANGED <<disk, ram, gates, states, stats, history>>

\* The process dies; a temporary file it leaves is never looked at.
Crash ==
  /\ Alive
  /\ pc' = "crashed" /\ temp' = NoFile
  /\ UNCHANGED <<disk, after, ram, gates, states, stats, history>>

\* Somebody builds another version of the ROM.
ReplaceRom ==
  /\ rom' \in Sizes \cup {0, BadRom}
  /\ UNCHANGED <<file, pc, after, temp, ram, gates, states, stats, history>>

InLoop ==
  \/ \E d \in Data, frame \in BOOLEAN : Play(d, frame)
  \/ ResetEvent \/ ReloadEvent
  \/ \E s \in Slots : SaveState(s) \/ LoadState(s)
  \/ LeaveLoop

Next ==
  \/ \E status \in Statuses : Start(status) \/ Reload(status)
  \/ RunLoop \/ InLoop
  \/ AfterResets \/ BeforeReload \/ ReloadFails \/ NoReload \/ Checkpoint \/ Exit
  \/ Commit \/ WriteFails
  \/ Crash
  \/ ReplaceRom

Spec == Init /\ [][Next]_vars

-----------------------------------------------------------------------------

TypeOK ==
  /\ rom \in Sizes \cup {0, BadRom}
  /\ {file, temp} \subseteq Images \cup {NoFile}
  /\ pc \in Places /\ after \in Places \ {"write"}
  /\ ram \in [size : Sizes \cup {0}, data : Data]
  /\ {persist, onDrop, rejected, failed} \subseteq BOOLEAN
  /\ states \in [Slots -> [size : Sizes \cup {0, -1}, data : Data]]
  /\ stats \in [frames : BOOLEAN, resets : BOOLEAN, reloads : BOOLEAN]

(***************************************************************************)
(* A save file that could not be accepted, because it is damaged, belongs  *)
(* to another cartridge or could not be read, is not written over: neither *)
(* by a checkpoint nor after a reset nor when the program ends.            *)
(***************************************************************************)
RejectedSaveKept == [][rejected /\ file # NoFile => file' = file]_vars

(***************************************************************************)
(* The two copies of persist_enabled agree, as they do until a hot reload  *)
(* has another outcome than the first load.                                *)
(***************************************************************************)
Agree == persist = onDrop

(***************************************************************************)
(* The same while the two copies of the flag agree: there is no other way  *)
(* to lose a refused save than the stale copy.                             *)
(***************************************************************************)
AgreedSaveKept == [][Agree /\ rejected /\ file # NoFile => file' = file]_vars

(***************************************************************************)
(* The save file changes only from one whole image of the RAM to another,  *)
(* at a moment when it is the RAM of the running game: a crash or a failed *)
(* write at any point leaves the old save.                                 *)
(***************************************************************************)
SavesAreWhole == [][file' # file => file' = ram]_vars

(***************************************************************************)
(* After a run of the emulation loop that presented a frame, what the game *)
(* has saved is on disk, unless the save was refused, a write failed or    *)
(* the two copies of the flag disagree.                                    *)
(***************************************************************************)
CheckpointsSave ==
  pc = "top" /\ stats.frames /\ Agree /\ ~rejected /\ ~failed /\ ram.size # 0
    => file = ram

(***************************************************************************)
(* When the program ends without a crash, what the game has saved is on    *)
(* disk, unless the save was refused or a write failed.                    *)
(***************************************************************************)
ExitSaves ==
  [][pc # "off" /\ pc' = "off"
       => rejected \/ failed' \/ ram.size = 0 \/ file' = ram]_vars

(***************************************************************************)
(* No state of another cartridge can be loaded: after any sequence of      *)
(* saves, loads and hot reloads the RAM has the size the cartridge needs,  *)
(* so the next load accepts what is written.                               *)
(***************************************************************************)
StatesFit == \A s \in Slots : states[s] # NoFile => states[s].size = ram.size

(***************************************************************************)
(* Memory, file and saved states fit the running cartridge wherever main   *)
(* is, and after every sequence of reloads, failures and crashes.          *)
(***************************************************************************)
StatesAreOwn == TypeOK /\ StatesFit
=============================================================================
