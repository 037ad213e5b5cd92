----------------------------- MODULE Frontend ------------------------------
(***************************************************************************)
(* The desktop program in time: main of platform/desktop/src/main.rs calls *)
(* run_emulation_loop of lib.rs for some frames at a time; the loop polls  *)
(* the player's events, presents finished frames, and runs the emulator in *)
(* chunks short enough that no more than one frame is finished in each.    *)
(* What main does with save files is in Session.                           *)
(*                                                                         *)
(* The emulator is reduced to the beam, which finishes a frame every       *)
(* FrameCycles dots, to the cycles step_cycles ran too far, the samples    *)
(* that wait and one button; all eight are treated alike.  The game may    *)
(* switch the LCD off; it does not write to LY (see Ppu).                  *)
(***************************************************************************)
EXTENDS Integers, SequencesExt

CONSTANTS
  FrameCycles,   \* DMG_FRAME_CYCLES, 70224
  StartBeam,     \* dots since VBlank where the beam starts, 4560
  MaxInstr,      \* MAX_CPU_INSTRUCTION_CYCLES, 24
  PullSamples,   \* AUDIO_PULL_SAMPLES, 1024, in cycles: a sample takes 87
  FrameBudget,   \* frames to present, LATCHBOY_DESKTOP_MAX_FRAMES
  Sessions,      \* runs of the program: cycle step, speed of the game (1, or 2
                 \* for double speed), frames between two checkpoints, and the
                 \* events of the player
  MaxActs        \* bound on events of the player and switchings of the LCD

RuntimeEvents == {"reset", "reload", "save", "load", "pause", "resume", "step"}
InputEvents   == {"press", "release"}
PlayerEvents  == RuntimeEvents \union InputEvents \union {"quit"}

ASSUME FrontendAssumption ==
  /\ {FrameCycles, MaxInstr, PullSamples, FrameBudget} \subseteq Nat \ {0}
  /\ StartBeam \in 0..(FrameCycles - 1)
  /\ MaxInstr < FrameCycles /\ FrameCycles + MaxInstr <= PullSamples
  /\ \A s \in Sessions : /\ {s.step, s.checkpoint} \subseteq Nat \ {0}
                         /\ s.speed \in {1, 2}
                         /\ s.events \subseteq PlayerEvents
  /\ MaxActs \in Nat

VARIABLES
  session,    \* which run of the program it is
  emu,        \* the emulator
  rt,         \* runtime_session_state
  os,         \* key and window events not polled yet
  closed,     \* close_requested
  shown,      \* presented_frames of the presenter
  pc,         \* where main and the loop are
  limit,      \* frame_limit of this run of the loop
  stats,      \* its frames, iterations and reloads
  left,       \* cycles_remaining
  presented,  \* frames_presented of main
  budget,     \* remaining_iteration_budget
  acts,       \* how often the player or the LCD switch acted
  held,       \* history: the button is down
  forgotten,  \* history: a reset or reload came since the button moved
  pulses,     \* history: frames finished since the last one was presented
  disturbed   \* history: the player or the LCD switch moved the beam

loop    == <<pc, limit, stats, left>>
counts  == <<presented, budget>>
frontVars == <<session, emu, rt, os, closed, shown, loop, counts,
               acts, held, forgotten, pulses, disturbed>>

\* Everything but pc.
rest == <<session, emu, rt, os, closed, shown, limit, stats, left, counts,
          acts, held, forgotten, pulses, disturbed>>

MaxChunk == FrameCycles - MaxInstr
Fresh    == [beam |-> StartBeam * session.speed, ready |-> FALSE, carry |-> 0, queued |-> 0, button |-> FALSE]
Idle     == [paused |-> FALSE, steps |-> 0, pressed |-> FALSE, reload |-> FALSE, slot |-> <<>>]
NoStats  == [frames |-> 0, iterations |-> 0, reloads |-> 0]

Less(a, b) == IF a <= b THEN a ELSE b
CeilDiv(a, b) == (a + b - 1) \div b

\* iteration_budget_for_frames.
IterationBudget(step) == FrameBudget * (2 * CeilDiv(FrameCycles, step))

IsOpen(c, s) == ~c /\ s < FrameBudget

Init ==
  /\ session \in Sessions
  /\ emu = Fresh /\ rt = Idle
  /\ os = <<>> /\ closed = FALSE /\ shown = 0
  /\ pc = "main" /\ limit = 0 /\ stats = NoStats /\ left = 0
  /\ presented = 0 /\ budget = IterationBudget(session.step)
  /\ acts = 0 /\ held = FALSE /\ forgotten = FALSE /\ pulses = 0 /\ disturbed = FALSE

-----------------------------------------------------------------------------
(* The player. *)

Player(event) ==
  /\ pc \notin {"done", "failed"} /\ acts < MaxActs
  /\ event = "press" => ~held
  /\ event = "release" => held
  /\ held' = (event = "press" \/ (held /\ event # "release"))
  /\ os' = Append(os, event)
  /\ acts' = acts + 1
  /\ UNCHANGED <<session, emu, rt, closed, shown, loop, counts, forgotten, pulses, disturbed>>

-----------------------------------------------------------------------------
(* RuntimeController::poll_and_apply on a state s of emulator, session and *)
(* history.                                                                *)

\* Mutant of LoadState: the buttons stay as they were saved.
LoadStateAsSaved(s) ==
  IF s.rt.slot = <<>> THEN s
  ELSE [s EXCEPT !.emu = Head(s.rt.slot), !.pulses = IF Head(s.rt.slot).ready THEN 1 ELSE 0, !.disturbed = TRUE]

LoadState(s) ==
  IF s.rt.slot = <<>> THEN s
  ELSE [s EXCEPT !.emu = [Head(s.rt.slot) EXCEPT !.button = s.rt.pressed],
                  !.pulses = IF Head(s.rt.slot).ready THEN 1 ELSE 0, !.disturbed = TRUE]

ApplyRuntime(s, event) ==
  CASE event = "reset"  -> [s EXCEPT !.emu = Fresh, !.pulses = 0, !.forgotten = TRUE, !.disturbed = TRUE]
    [] event = "reload" -> [s EXCEPT !.rt.reload = TRUE, !.reloads = @ + 1]
    [] event = "save"   -> [s EXCEPT !.rt.slot = <<s.emu>>]
    [] event = "load"   -> LoadState(s)
    [] event = "pause"  -> [s EXCEPT !.rt.paused = TRUE]
    [] event = "resume" -> [s EXCEPT !.rt.paused = FALSE, !.rt.steps = 0]
    [] event = "step"   -> IF s.rt.paused THEN [s EXCEPT !.rt.steps = @ + 1] ELSE s

ApplyInput(s, event) ==
  [s EXCEPT !.rt.pressed = (event = "press"), !.emu.button = (event = "press"),
            !.forgotten = FALSE]

\* Of some events, those of one kind, one after the other.
Apply(kind, s, event) ==
  IF event \notin kind THEN s
  ELSE IF kind = RuntimeEvents THEN ApplyRuntime(s, event) ELSE ApplyInput(s, event)

Through(kind, s, events) ==
  LET state[n \in 0..Len(events)] == IF n = 0 THEN s ELSE Apply(kind, state[n - 1], events[n])
  IN state[Len(events)]

\* poll_events stops at a request to quit and leaves what comes after it.
Quits    == Contains(os, "quit")
Taken    == IF Quits THEN SubSeq(os, 1, SelectInSeq(os, LAMBDA e : e = "quit") - 1) ELSE os
NotTaken == IF Quits THEN SubSeq(os, Len(Taken) + 2, Len(os)) ELSE <<>>

\* Runtime events come before all input events, whatever their order was.
Polled ==
  LET polled == [emu |-> emu, rt |-> rt, reloads |-> stats.reloads,
                 forgotten |-> forgotten, pulses |-> pulses, disturbed |-> disturbed]
  IN Through(InputEvents, Through(RuntimeEvents, polled, Taken), Taken)

\* What every poll does to the variables that no branch after it changes.
Poll(p) ==
  /\ os' = NotTaken
  /\ closed' = (closed \/ Quits)
  /\ forgotten' = p.forgotten
  /\ UNCHANGED <<session, counts, held, limit>>

Waits(p) == p.rt.paused /\ p.rt.steps = 0
Stops(p) == p.rt.reload \/ ~IsOpen(closed', shown)

-----------------------------------------------------------------------------
(* run_emulation_loop *)

Quiet(p) ==
  /\ emu' = p.emu /\ rt' = p.rt /\ pulses' = p.pulses /\ disturbed' = p.disturbed
  /\ stats' = [stats EXCEPT !.reloads = p.reloads]
  /\ UNCHANGED shown

Leave(p) == Stops(p) /\ Quiet(p) /\ pc' = "after" /\ UNCHANGED <<left, acts>>

Sleep(p) == ~Stops(p) /\ Waits(p) /\ Quiet(p) /\ UNCHANGED <<pc, left, acts>>

\* Mutant of Present: a frame in a pause does not use up the step.
PresentForFree(p) ==
  /\ ~Stops(p) /\ ~Waits(p) /\ p.emu.ready
  /\ emu' = [p.emu EXCEPT !.ready = FALSE]
  /\ rt' = p.rt
  /\ shown' = shown + 1
  /\ stats' = [stats EXCEPT !.frames = @ + 1, !.reloads = p.reloads]
  /\ pulses' = 0 /\ disturbed' = p.disturbed
  /\ UNCHANGED <<pc, left, acts>>

Present(p) ==
  /\ ~Stops(p) /\ ~Waits(p) /\ p.emu.ready
  /\ emu' = [p.emu EXCEPT !.ready = FALSE]
  /\ rt' = IF p.rt.paused THEN [p.rt EXCEPT !.steps = @ - 1] ELSE p.rt
  /\ shown' = shown + 1
  /\ stats' = [stats EXCEPT !.frames = @ + 1, !.reloads = p.reloads]
  /\ pulses' = 0 /\ disturbed' = p.disturbed
  /\ UNCHANGED <<pc, left, acts>>

Proceeds(p) == ~Stops(p) /\ ~Waits(p) /\ ~p.emu.ready

\* Mutant of Chunk: no headroom for the last instruction.
ChunkOfAFrame == Less(left, FrameCycles)

Chunk == Less(left, MaxChunk)

\* Emulator::step_cycles, running `over` cycles too far.
Executed(e, over) == IF e.carry >= Chunk THEN 0 ELSE Chunk + over - e.carry
NewCarry(e, over) == IF e.carry >= Chunk THEN e.carry - Chunk ELSE over

\* The audio sink takes what waits, as much as one request may be.
Pulled(queued) == Less(queued, PullSamples)

\* Where a chunk takes the beam, if it does not wrap.  Switching the LCD off
\* drops a finished frame and puts the beam at the start, from where it runs
\* on as soon as the LCD is on again, at any time before the end of the chunk.
Beams(e, over, off) ==
  IF off THEN {StartBeam * session.speed + since : since \in 0..Executed(e, over)}
         ELSE {e.beam + Executed(e, over)}

Step(p, over, off) ==
  \E beam \in Beams(p.emu, over, off) :
    LET ends   == beam \div (FrameCycles * session.speed)
        queued == p.emu.queued + Executed(p.emu, over)
    IN /\ emu' = [beam |-> beam % (FrameCycles * session.speed),
                  ready |-> ends > 0,
                  carry |-> NewCarry(p.emu, over),
                  queued |-> queued - Pulled(queued),
                  button |-> p.emu.button]
       /\ pulses' = IF off THEN ends ELSE p.pulses + ends
       /\ off => acts < MaxActs /\ Executed(p.emu, over) > 0
       /\ acts' = IF off THEN acts + 1 ELSE acts
       /\ disturbed' = (p.disturbed \/ off)
       /\ rt' = p.rt
       /\ stats' = [stats EXCEPT !.iterations = @ + 1, !.reloads = p.reloads]
       /\ left' = left - Chunk
       /\ UNCHANGED <<pc, shown>>

\* The presenter or the audio device reports an error: the program ends.
Abort(p) ==
  /\ ~Stops(p) /\ ~Waits(p) /\ acts < MaxActs
  /\ pc' = "failed" /\ acts' = acts + 1
  /\ Quiet(p) /\ UNCHANGED left

Outer ==
  /\ pc = "outer"
  /\ IF ~IsOpen(closed, shown) \/ stats.frames >= limit
     THEN pc' = "after" /\ UNCHANGED rest
     ELSE LET p == Polled
          IN /\ Poll(p)
             /\ \/ Leave(p) \/ Sleep(p) \/ Present(p) \/ Abort(p)
                \/ /\ Proceeds(p) /\ Quiet(p)
                   /\ pc' = "inner" /\ left' = session.step /\ UNCHANGED acts

Inner ==
  /\ pc = "inner"
  /\ IF left = 0 \/ ~IsOpen(closed, shown)
     THEN pc' = "outer" /\ UNCHANGED rest
     ELSE IF stats.iterations >= budget \/ stats.frames >= limit
     THEN pc' = "after" /\ UNCHANGED rest
     ELSE LET p == Polled
          IN /\ Poll(p)
             /\ \/ Leave(p) \/ Sleep(p) \/ Present(p) \/ Abort(p)
                \/ /\ Proceeds(p)
                   /\ \E over \in 0..(MaxInstr - 1), off \in BOOLEAN : Step(p, over, off)

-----------------------------------------------------------------------------
(* main *)

Remaining == FrameBudget - Less(FrameBudget, presented)

Start ==
  /\ pc = "main"
  /\ IF Remaining = 0 \/ ~IsOpen(closed, shown)
     THEN pc' = "done" /\ UNCHANGED <<limit, stats>>
     ELSE pc' = "outer" /\ limit' = Less(Remaining, session.checkpoint) /\ stats' = NoStats
  /\ UNCHANGED <<session, emu, rt, os, closed, shown, left, counts,
                 acts, held, forgotten, pulses, disturbed>>

\* Mutant of After: a run of the loop without a frame is repeated.
AfterAgain ==
  /\ pc = "after"
  /\ presented' = presented + stats.frames
  /\ budget' = budget - Less(budget, stats.iterations)
  /\ IF stats.reloads # 0
     THEN /\ pc' \in {"main", "failed"}
          /\ emu' = Fresh /\ rt' = Idle /\ pulses' = 0
          /\ forgotten' = TRUE /\ disturbed' = TRUE
     ELSE /\ pc' = "main"
          /\ UNCHANGED <<emu, rt, forgotten, pulses, disturbed>>
  /\ UNCHANGED <<session, os, closed, shown, limit, stats, left, acts, held>>

\* The new cartridge starts with no state, no held buttons and no slots; if
\* it cannot be loaded the program ends.
After ==
  /\ pc = "after"
  /\ presented' = presented + stats.frames
  /\ budget' = budget - Less(budget, stats.iterations)
  /\ IF stats.reloads # 0
     THEN /\ pc' \in {"main", "failed"}
          /\ emu' = Fresh /\ rt' = Idle /\ pulses' = 0
          /\ forgotten' = TRUE /\ disturbed' = TRUE
     ELSE /\ pc' = IF stats.frames = 0 THEN "done" ELSE "main"
          /\ UNCHANGED <<emu, rt, forgotten, pulses, disturbed>>
  /\ UNCHANGED <<session, os, closed, shown, limit, stats, left, acts, held>>

Loop == Start \/ Outer \/ Inner \/ After

Next == Loop \/ \E event \in session.events : Player(event)

(***************************************************************************)
(* The thread of main is scheduled; the player need not do anything.       *)
(***************************************************************************)
Spec == Init /\ [][Next]_frontVars /\ WF_frontVars(Loop)

-----------------------------------------------------------------------------

Emulators ==
  [beam : 0..(FrameCycles * session.speed - 1), ready : BOOLEAN, carry : 0..(MaxInstr - 1),
   queued : 0..(MaxChunk + MaxInstr), button : BOOLEAN]

TypeOK ==
  /\ emu \in Emulators
  /\ rt \in [paused : BOOLEAN, steps : 0..MaxActs, pressed : BOOLEAN, reload : BOOLEAN,
             slot : Seq(Emulators)]
  /\ pc \in {"main", "outer", "inner", "after", "done", "failed"}
  /\ stats.frames <= limit
  /\ pc \in {"outer", "inner"} => stats.iterations <= budget
  /\ shown \in 0..FrameBudget /\ presented \in 0..FrameBudget
  /\ left \in 0..session.step

(***************************************************************************)
(* No frame is lost between two polls: when a frame is finished, the one   *)
(* before it was presented.                                                *)
(***************************************************************************)
NoFrameLost == pulses = IF emu.ready THEN 1 ELSE 0

(***************************************************************************)
(* When all events are taken, the game sees the button as the player holds *)
(* it, also after a saved state was loaded; after a reset or a reload it   *)
(* may miss a button that is still held, but no button is ever stuck.      *)
(***************************************************************************)
ButtonsFollow ==
  os = <<>> => /\ (emu.button \/ rt.pressed) => held
               /\ ~forgotten => emu.button = held

(***************************************************************************)
(* The sound of a chunk is handed over before the next one: the emulator's *)
(* queue, which drops samples when it fills, is empty at every poll.       *)
(***************************************************************************)
SoundHandedOver == emu.queued = 0

(***************************************************************************)
(* main, the loop and the presenter agree on the number of frames.         *)
(***************************************************************************)
FramesAgree ==
  pc # "failed" =>
    shown = presented + (IF pc \in {"outer", "inner", "after"} THEN stats.frames ELSE 0)

(***************************************************************************)
(* In a pause exactly one frame is shown for every step that is asked for. *)
(***************************************************************************)
StepsIn(s) == Cardinality({i \in DOMAIN s : s[i] = "step"})

StepsShowFrames ==
  [][rt.paused /\ rt'.paused /\ acts' = acts /\ ~Contains(os, "resume") =>
       shown' + rt'.steps =
         shown + rt.steps + (IF os' = os THEN 0 ELSE StepsIn(Taken))]_frontVars

(***************************************************************************)
(* An undisturbed run presents all its frames although the iterations are  *)
(* limited too, even at double speed, if a cycle step is one chunk.        *)
(***************************************************************************)
BudgetSuffices ==
  pc = "done" /\ ~closed /\ ~disturbed /\ session.step <= MaxChunk =>
    presented = FrameBudget

(***************************************************************************)
(* The program ends by itself unless the player keeps it paused: no mix of *)
(* resets, steps and loaded states makes the loop run for ever.            *)
(***************************************************************************)
Ends == <>[](~rt.paused) => <>(pc \in {"done", "failed"})

(***************************************************************************)
(* Frames and sound from the emulator to the user: none is lost between    *)
(* two polls, none is counted twice, none piles up, and the budgets        *)
(* suffice for all of them.                                                *)
(***************************************************************************)
OutputArrives ==
  TypeOK /\ NoFrameLost /\ FramesAgree /\ SoundHandedOver /\ BudgetSuffices
=============================================================================
