# Latchboy, specified

Latchboy is a Game Boy and Game Boy Color emulator: a deterministic core (`core/`) that
executes cartridges cycle by cycle, and a desktop frontend (`platform/desktop/`) that shows
frames, plays samples and keeps save files. This directory specifies it in TLA+: models of
its components translated from the Rust source, TLC configurations that check them on small
instances, and TLAPS proofs of what holds for every instance.

Paths below are relative to `src/`.

## 1. Inventory

| component | state | operations | who calls it |
|---|---|---|---|
| timer (`core/src/timer.rs`) | divider, TIMA, TMA, TAC, reload countdown | a cycle, four register writes | `Bus::tick_components` (cycles), `Bus::write8_io` (writes) |
| pixel unit (`core/src/ppu.rs`) | dot, line, mode, coincidence, STAT line, start-up delay, frame flag, framebuffer, VRAM, OAM, palettes | a dot, register writes, `take_frame_ready` | the same, and the frontend |
| processor (`core/src/cpu.rs`) | registers, `ime`, `ime_enable_pending`, `halted`, `halted_by_unimplemented_opcode`, `halt_bug_active` | `step`: a dispatch, a sleeping cycle or one instruction | the emulation loop |
| emulation loop (`core/src/lib.rs`) | `cycle_carry`, `total_cycles` | `step_cycles(_with_observer)`, `set_button_pressed`, `reset` | the frontend |
| bus (`core/src/bus.rs`, `memory.rs`) | boot ROM mapping, KEY0, KEY1, SVBK, interrupt flag and enable, OAM DMA | reads, writes, `tick` | processor and loop |
| joypad (`input.rs`), serial port (`serial.rs`) | lines, latches, transfer | writes, poll or cycle | bus |
| sound (`core/src/apu.rs`) | frame sequencer, four channels, sample queue | a cycle, register writes, `pull_output_samples` | bus, frontend |
| cartridge (`core/src/cartridge/`) | bank registers, RAM gate, RAM | reads, writes, export and import of save data | bus, frontend |
| save files (`platform/desktop/src/savefile.rs`) | a file, a temporary file | load, persist | frontend |
| frontend (`platform/desktop/src/main.rs`, `lib.rs`) | the session's cartridge and save path, pause and step requests, budgets, presented frame | controller poll, chunks of cycles, presentation, hot reload, checkpoint, drop | user |
| trace tool (`platform/desktop/src/bin/trace_rom.rs`) | total steps and cycles, held-back steps, the loop being counted | a batch of cycles, an observed step | user |
| observability (`core/src/observability.rs`) | a ring of records | record, drain | loop |

**How they interact.** Everything in the core is one thread and one call tree. The frontend asks
`step_cycles` for cycles. The loop calls `Cpu::step`, whose reads and writes reach the devices
through the bus *at once*, and then `Bus::tick` runs every device for the cycles the instruction
took. Interrupts go the other way, through the interrupt flag register: devices set bits, the
processor looks at them before its next step. The frontend polls for a frame after each chunk of
cycles, pulls samples, presses buttons between two calls, and writes save files.

**What is hard.** Nothing runs in parallel, but much is interleaved: any instruction may write any
register between any two machine cycles, and the components keep *derived* state (the edge
detector's input, the STAT line, the coincidence flag, the answer of the fast path, the carry) that
such writes can make stale. Effects are delayed by one step (EI, the halt bug, the TIMA reload),
and the delays can overlap. A sleeping processor is not stepped at all but fast-forwarded. Counters
wrap. And a save file must survive a crash, a rejected load and a hot reload.

`PROJECT.json` lists the hazards with the line where each bites, and the properties that cover it.

### What makes each component correct

- *timer*: no clock edge is lost, the period is exact, an overflow can be cancelled for exactly one
  machine cycle, and the "may interrupt" answer used by the fast path stays true.
- *pixel unit*: the derived interrupt line and flag are never stale; the frame rate does not depend
  on the program; a frame is announced only when all its lines are drawn; frames keep coming; what
  is drawn is what the memories say, and the memories keep what was accepted.
- *processor*: requests are served exactly when the program allows; delayed effects do not meet;
  HALT never sleeps through a request, and its handler returns to the right place; routines of
  several instructions compute what they are written for.
- *loop*: the fast path is unobservable, cycles are neither lost nor counted twice, sleepers wake.
- *bus*: a disabled boot ROM never returns, a DMA blocks for exactly its length, every address has
  one place.
- *joypad and serial port*: every press is heard, nothing else requests; bytes pass once, in order.
- *cartridge and save files*: programs see their image and all of it, RAM survives whatever hides
  it; a save that was not accepted is never overwritten, an old or a new save survives a crash.
- *sound*: a channel sounds as its registers say; samples come at the exact rate, and the newest are
  kept; the generators lose no phase.
- *frontend*: no frame is lost, buttons follow the player, a step shows one frame, the program ends.
- *trace tool*: compressed or not, a trace has every step once and in its place; the tool ends.

## 2. Modules

| module | role |
|---|---|
| `Timer` | the timer, clock by clock |
| `MachineCycleTimer` | abstract: what it promises in machine cycles |
| `MCTimer` | instance with a history variable; refinement of the abstract timer |
| `TimerProofs` | theorems about `Timer` and `MCTimer` |
| `Ppu` | timing, STAT, VBlank and frames of the pixel unit |
| `MCPpu` | instance with history variables and fairness |
| `PpuProofs` | theorems about `Ppu` and `MCPpu` |
| `VideoMemory` | VRAM, OAM and palettes behind the mode of the screen |
| `Drawing` | what a pixel shows: background, window, sprites, colors |
| `Cpu` | control of the processor |
| `InterruptMask` | abstract: when a program can be interrupted |
| `LabelledCpu` | `Cpu` with history variables; refinement of the mask |
| `Alu` | registers, flags, stack and all computing instructions |
| `AluProofs` | theorems about `Alu` |
| `Opcodes` | the generated table of opcodes against the executor that uses it |
| `Machine` | abstract: processor and devices in lock step, no fast path |
| `Emulator` | `step_cycles_with_observer`; refines `Machine` |
| `EmulatorProofs` | theorems about `Cpu`, `LabelledCpu`, that refinement and the accounting |
| `Bus` | boot ROM, mode, speed and bank registers, OAM DMA |
| `MemoryMap` | where every access of the processor ends up |
| `Joypad`, `Serial` | the two ports |
| `Ports` | both side by side |
| `Header` | what the header of an image means, and which images are rejected |
| `Cartridge` | mappers, banks and RAM |
| `Memories` | cartridge, map of addresses and memories of the pixel unit side by side |
| `PartProofs` | theorems about `Ports`, `Memories` and `Bus` |
| `Apu` | registers, channels, frame sequencer and sweep of the sound unit |
| `Waves` | its generators and the mixer |
| `SampleQueue` | its sample clock and the queue to the audio device |
| `MCSound` | instance of the three |
| `SoundProofs` | theorems about the three |
| `Session` | the life of a save file: `main.rs` with `savefile.rs`, reloads, crashes |
| `SessionProofs` | theorems about `Session` |
| `Frontend` | `main` and the emulation loop in time: events, chunks, frames, budgets |
| `MCFrontend` | the players and settings it is checked with |
| `FrontendProofs` | theorems about `Frontend` and `Drawing` |
| `Trace` | the tool `trace_rom` |
| `MCParts` | instance of `Trace`, `Memories`, `Ports`, `Drawing`, `Alu` and `Opcodes` |

**How they are composed.** `Emulator` composes processor, devices and loop, and rests on what
`Timer` and `Ppu` promise (`QuietStaysQuiet`). `Bus` composes the mode registers of bus and pixel
unit with DMA. `Frontend` composes `main`, the loop, the emulator's beam, samples and buttons, and
the player; `Session` is the same `main` with the file system in place of time. The other parts do
not act on one another except through the operations that their own modules offer in any order. So
`MCParts` and `MCSound` check them side by side: a variable `part` says which part a behaviour is
about, and the others keep one quiet initial state.

Definitions with the comment *Mutant of X* are deliberately wrong versions of `X`; no specification
uses them. Each stands for a plausible bug and shows that a property would notice it.

### `Timer`

A behaviour alternates between an instruction, whose register writes land while `ticks = 0`, and
the clock cycles of that instruction, which `Step` counts down. `Step` is `Timer::step`: countdown,
divider, edge detector, in this order. The writes are the four arms of `Timer::write`. `MayWrite`
keeps to what an instruction can store: at most two bytes, at neighbouring addresses. The state is
the struct's; `reload` is `overflow_reload_delay` with `None` as 0.

### `Ppu`

Every branch of `Ppu::step` is an action (`StepOff`, `StepStartup`, `StepDot`), every register that
touches timing or interrupts has its write, and every action ends in `UpdateLine`, as the code's
handlers end in `update_stat_irq_line`. Pixels are reduced to *which lines of the framebuffer were
drawn since the last frame was announced*; this is what "a coherent frame" needs. The geometry is
five constants, with the numbers of the code in their comments.

### `Cpu`, `InterruptMask`, `LabelledCpu`

`Cpu!Step` is `Cpu::step`: wake, dispatch, sleep or execute. Instructions that touch control state
(EI, DI, RETI, HALT, STOP, undefined opcodes) are actions; the others are classed by how many bytes
they fetch and whether they jump. What an instruction stores may reach IF or IE, so an ordinary
instruction may change both (`Stores`). `LabelledCpu` remembers what the processor did last and
which HALT it is in.

### `Machine`, `Emulator`

`Machine` is the loop one would write without optimisation. The devices are reduced to their
promise to the processor: while `*_may_generate_interrupt` is false, time alone raises no enabled
interrupt and leaves it false (`QuietStaysQuiet`, checked and proved for timer and pixel unit).
`Emulator` adds what `step_cycles_with_observer` really does: a target, the carry, the early stop,
and `FastForward` with its rounding. `ahead` is a history variable: cycles the devices have run and
`total_cycles` does not count yet.

### `Bus`

An address is reduced to its page, a page's contents to one value, and what the cartridge shows to
one value that any write to it may change. Every register of `bus.rs` that has state has its write, guarded by
`Blocked` as `write8` is by `is_cpu_bus_access_blocked_by_oam_dma`; `SwitchSpeed` is what STOP does and
is no access. `Content` is `read8_routed` with the bypass DMA has, through the banks and the boot
ROM mapping of the moment. `Tick` counts DMA down; `ran` is a history variable, the cycles the
timer ran meanwhile. The pixel unit's part in it is its mode flag and bank, which the bus must keep in
step with its own.

### `Session`

`pc` is where `main` is: at the top of its loop, in `run_emulation_loop`, or at one of the places
where it may write the save file; `Persist` goes through `write`, which `Commit` or `WriteFails`
leaves. `persist` is the local of `main`, `onDrop` the field of `SaveOnDrop`; the code has both, and
the model keeps them apart. Inside the loop the game writes its RAM (`Play`), and the events of the
controller reset, request a reload, save and load states. The ROM on disk may be replaced between two loads, reading and
writing may fail, and `Crash` ends the process at any point, after which `Start` finds what is on
disk. A RAM image is its size and one of a few contents.

### `VideoMemory`, `Drawing`

The memories are one cell for a bank of VRAM and one for OAM, as the accesses differ only in what
closes them: mode 3 for VRAM and palettes, modes 2 and 3 for OAM, and nothing for DMA, whose write
bypasses the check. Palettes are modelled in full, with their index and its step. `Drawing` has no
steps but four that change the *scene* (two scroll registers, two flips); it is `render_scanline` and what it calls as
functions of registers, maps and tiles: the coordinates in the map, signed and unsigned tile
numbers, the window at WX - 7, the ten (here two) sprites of a line and who covers whom, and the two
outputs, a shade and a color.

### `Alu`, `Opcodes`

`Alu` executes *routines*, the few instructions with which programs add words, correct decimal
numbers, shift words, or exchange registers through the stack; its properties say what a routine
must have computed, without mentioning flags. So a flag that is wrong after one instruction shows in
the result of the next, as it would in a program. `Opcodes` is `metadata_for` of `build.rs`, row by
row, and what `execute_metadata` unwraps of it.

### `MemoryMap`, `Joypad`, `Serial`

`MemoryMap` has no steps: it is the table of ranges of `memory.rs`, the registers each device
answers to, and the cell behind each address, for every bank and mode: `CellNow` of a read,
`CellWritten` of a write, which differ where the boot ROM is mapped, as its writes go to the mapper. `Joypad` and `Serial` have an
action for each operation of program and host; the history variables of `Serial` record what was
sent, offered and taken.

### `Header`, `Cartridge`

An image is its header and its number of banks. `Header` says what its codes mean and when an image
is refused; `Cartridge` starts with an accepted image and has the registers of the four mappers, the
RAM behind its gate, reset, export and import. `Shown` is the set of banks a program can see. The
history `latest` judges by itself, from the registers and the header (`Expected`, `Possible`,
`BanksOfRam`), what the program should find, and not by the guards of the RAM.

### `Apu`, `Waves`, `SampleQueue`

The struct of `apu.rs` in three parts that meet at few values: `Apu` decides when a channel is
triggered, retuned or switched off; `Waves` generates one channel with those events at any time;
`SampleQueue` counts and buffers the samples. Frequencies are numbers of hertz, integer division and
clamping included.

### `Frontend`

`pc` is where `main` and `run_emulation_loop` are. `os` holds the events the player made and the
program has not polled. The emulator is reduced to the beam, the carry of `step_cycles`, the samples
that wait and one button. Switching the LCD off restarts the beam at any time inside a chunk
(`Beams`). `MCSessions` are runs that are only watched, at several speeds, cycle
steps and checkpoints, and players who do one kind of thing: press, save and load; reload; pause and
step; quit.

### `Trace`

An instruction is a kind and a cost, one of two for a conditional jump to the next instruction, whose
signature does not tell whether it is taken. `OnEvents` is the observer's handler, with the
buffer of held-back steps, the search for a repeated window, the loop that is counted, and the lines
that are written; `Main` is the loop of batches with its limits, `Run` an instruction inside one.
`WriteError` ends the tool and loses the held-back steps, as in the code.

## 3. Runs

| run | bounds | shows |
|---|---|---|
| `timer` | divider 1024, TIMA 0..1, instructions of 4 or 8 cycles | `ReloadIsKept`: types, cancel window, zero while a reload is pending; `EdgesCount`: no lost edge, exact period; fast-path answer; refinement of the machine-cycle timer |
| `ppu` | 4 lines of 5 dots, 2 visible, delay 2, LYC 0..4 | `DerivedStateIsFresh`: types, STAT line, coincidence, no frame while off; fast-path answer, exact frame length, coherent frames unless LY was written in VBlank, frames keep coming |
| `ppu_any_write` | the same | *violation*: one write to LY in VBlank and an incoherent frame is announced |
| `cpu` | 6 addresses, 2 interrupts | `EffectsAreOrdered`, `SleepsRightly` (with the lock-up), return addresses, the interrupt mask |
| `emulator` | calls of 0, 1 or 13 cycles, instructions of 4 or 24 | `CyclesAddUp`; the fast path is unobservable; sleepers wake; requests are served |
| `bus` | 6 pages (two of ROM, video, cartridge and work RAM, high), 2 contents, 2 banks, DMA of 8 cycles | `ModeIsSettled`; copying at once is unobservable; DMA's length; DMA ends |
| `bus_dma_page` | as `bus` | *violation*: DMA from cartridge RAM copies video RAM |
| `session` | RAM sizes 0, 1, 2 and an unreadable ROM, 2 contents, 1 slot | `StatesAreOwn`; the file is always one whole save; a normal end saves; while the two copies of the flag agree, checkpoints save and a refused save is kept |
| `session_rejected` | the same | *violation*: after a hot reload a refused save is written over |
| `sound` | 3 channels, envelopes 0..2 (starting at 2 for the code's 30), periods 0..31, 4 steps of the sequencer; queue of 5 with target 3, clock to sample rate 7:3; 4 wave samples, the generator of 15 bits of the code, two pitches | `ChannelsObey`, `SamplesInOrder`, `WavesAreTrue` |
| `frontend` | frames of 4 dots, instructions of 1 or 2, 2 frames, at most 3 acts of the player | `OutputArrives`: no frame lost or counted twice, sound handed over, budgets suffice; `ButtonsFollow`, `StepsShowFrames`, `Ends` |
| `parts` | see below | `TraceIsFaithful`, `BanksHold`, `PortsHold`, `MemoryHolds`, `PicturesAreRight`, `RoutinesCompute`, `TableFitsExecutor` |

A property with such a name is the conjunction of the named invariants of its module, with its type
invariant; each conjunct is stated and explained beside the code it is about.

**Why the bounds are enough.** *Timer*: 1024 is the shortest divider for which every clock select
has a falling edge at the wrap-around; one step of TIMA separates "advance" from "overflow"; two
instruction lengths give every alignment of a write to a countdown. *Pixel unit*: every mode has at
least one dot and one has two, there are two visible lines and two of VBlank, and LYC can match a
visible line, a VBlank line or none: every comparison of the code has both outcomes, with a dot to
spare. *Processor*: six addresses make a wrap-around, two vectors and a HALT at the edge possible;
two interrupts make priority matter. *Loop*: 0 is a call that does nothing, 1 one that the carry of
an earlier instruction can pay for, 13 is no multiple of four, so the fast path must round; 24 is
the longest instruction. *Bus*: the pages have a
representative for each region and for each effect of the mask; two contents tell whether a copy is
stale; bank 2 differs from 0 and from 1, which 0 stands for. *Session*: two sizes are a mismatch, two contents an old and a new save;
the slots are independent of each other; nothing counts. *Sound*: the channels are the one with the sweep,
the wave channel and the noise channel, which reads its frequency at a trigger only; two clocks of the sequencer lie between two of the
sweep; the queue overflows, is trimmed and runs dry within a few chunks, and 7:3 leaves every
remainder; a sample moves the wave by none, one or several positions. *Frontend*: chunks are
shorter than, equal to and longer than what is left of a cycle step, frames end inside and at the
end of chunks, a reload may come before and after the first frame.

*Parts.* Trace: windows of 2 to 4 steps with 3 preferred (2, 8 and 3 in the code) and LY of 5
lines; traces of up to 9 steps or 33 cycles hold a loop, one inside a window and one cut off.
Cartridge: images of 1 to 512 banks, numbers of banks that are no power of two, every mapper, RAM of
0 to 4 banks, bytes at the edges of every register. Ports: two lines with a button in either row;
two bytes, three values. Map: both sides of every boundary and the whole I/O page, banks 0, 1, 2 and
7. Video memory: palettes of two bytes, three stores. Drawing: tiles of 2 by 2 pixels in maps of 4 by 4,
a screen of 5 by 4, two sprites on a line out of three. Routines: words and bytes at all edges of
half and full bytes, all pairs of decimal digits that matter to DAA. Opcodes: all 512.

**Fairness.** `MCSpec` of `MCPpu` assumes weak fairness of `Step`: each instruction is followed by
at least four cycles, whatever it writes. `FairSpec` of `Bus` assumes the same
of `Tick`. `FairSpec` of `Emulator` assumes that a call that was begun proceeds: it is one thread. That the
frontend keeps calling, and its observer does not for ever stop the loop, is the premise
`KeepsAsking` of the two liveness properties. `Spec` of `Frontend` assumes weak fairness of the
loop, and `MCParts` of the tool's loop and the instructions it runs: each is one thread, too. No
fairness is assumed of players, buttons, resets or of what programs do.

**Deadlock.** `frontend` and `parts` turn the check off: the desktop program and the tool end, and a
picture, a routine or an opcode is looked at once.

**Findings.** *Frames.* `docs/architecture-decisions.md:109` promises exactly one pulse per completed frame.
A write to LY (`ppu.rs:729`) sets the line to 0 at any dot; in VBlank the beam then continues on
line 0 with the mode still 1, and if the dot is past mode 3 the line is not drawn before the
next pulse. `ppu_any_write` shows it; `CoherentUnlessJumped` and the theorem `CoherentFrames`, that
nothing else does it.

*DMA.* `start_oam_dma` masks the source page with 0xDF (`bus.rs:527`). That maps 0xE0-0xFF to
0xC0-0xDF, as the test `bus.rs:1389` asks, but clears bit 5 of the other pages too: DMA from cartridge
RAM (0xA0-0xBF) copies video RAM, and half of the ROM pages read 8 KiB lower, though the test
`bus.rs:1369` is named for preserving valid source pages. `bus_dma_page` shows it; that the mask is needed
all the same shows the mutant of `Source`, without which DMA could read high RAM while the program
writes it.

*Saves.* `main` decides by a local `persist_enabled`, taken from the first load (`main.rs:599`). A hot
reload writes `runtime.persist_enabled` (`main.rs:739`), which only `SaveOnDrop` reads. So after a
reload that refuses the save, because the rebuilt ROM has another RAM size or the file could not be
read, the next reset or checkpoint writes zeroed RAM over it (`session_rejected`); and after one
that accepts what the first load refused, resets and checkpoints save nothing until the program
ends. `AgreedSaveKept` and `CheckpointsSave` say what holds: both work while the two copies of the
flag agree, as the theorems `RefusedSavesStay` and `CheckpointsHold` show in general.

## 4. Proofs

TLC agrees with each formula on the instance above before it is proved. Assumptions are the named
`ASSUME`s of the modules: they say that constants are naturals in the order the code has them, and of
`Alu` that a routine has the code of its name, any first registers and flags, and packed decimals
where it corrects decimal numbers.

- **Timer.** `CancelWindow` and `NoEdgeLost` are not inductive: a pending reload is safe from a second
  edge only because of where the divider stands. `IInv` adds that `divider + ticks` and
  `reload - ticks` are multiples of four (`Aligned`); that while a reload is pending the selected
  input cannot fall, because it fell at a multiple of sixteen or because the write that made the
  edge left it low (`Shielded`); and where the divider stands when an instruction writes
  (`LowAtWrite`). From it: `ReloadKept`, `EveryEdgeCounts`, `QuietTimer`. `MachineCycles` is the refinement
  of `MachineCycleTimer`: three of four clock cycles stutter, the fourth is a machine cycle.
  `PeriodIsExact` needs `PeriodInv`: since the last overflow, the time is the periods TIMA counted
  and the phase of the divider, or, while the reload waits, its countdown. `AllEdgesCount` joins the two.
- **Pixel unit.** `IInv` relates mode to line and dot, and the line to its condition (`NothingStale`).
  `CoherentFrames` needs `FrameInv` as well: on the way down the screen, every visible line above the
  beam that has passed mode 3 is in `drawn`. `FramesAreExact` needs `BeamInv`: the time since VBlank is
  where the beam stands. The screen's geometry is arbitrary.
- **Processor.** `IInv` is type correctness with `OneDelayedEffect`; `ReturnInv` says where pc stands
  while the last HALT matters. `Masking` is the refinement of `InterruptMask`.
- **Loop.** `FastInv` says that in the fast path the condition it was entered under still holds; with it
  each portion maps to a sleep and a tick of `Machine`. `Sums` relates `available`, `carry`, `due` and
  `ahead`; `Portions` says that the fast path runs whole portions and no more than it announced. With
  the processor's `IInv` they give `CyclesAccounted`. The numbers of cycles asked for are arbitrary.
- **Arithmetic.** `RoutinesCompute` speaks of the registers after certain instructions, so it is not
  inductive: `AluInv` says what each routine holds after every one of them (`AddRun`, `ShiftRun`,
  `ExchangeRun` and so on), the registers it has not touched included. A step is one
  instruction of one routine, and the facts under it are arithmetic with quotients and remainders:
  a sum of bytes with its carry is a sum of words (`Total`, `LowOver`), DAA maps the binary sum of two packed
  bytes to the decimal one, nine rotations through the carry return a byte. The bitwise operations are
  those of eight bits, written as sums of powers of two. All operands, all flags and every place of the
  stack pointer are covered, where the run has only the edges.
- **Bus.** `BusInv` adds `Chosen`: once locked, KEY0 is the mode, and before, the machine is; `FinalMode`
  follows from it step by step. `AtOnceIsEnough` rests on `SourceRegion`, that the mask leaves only pages
  whose contents depend on nothing a blocked processor reaches (`SameContent`).
- **Session.** `IInv` adds to the types and `StatesFit` that a write under way carries the RAM of the
  running cartridge (`Writing`) and that the gate of `SaveOnDrop` is closed only for a refused save or
  a cartridge without RAM (`DropGate`). `AgreedInv` adds what holds while the two flags agree.
  Sizes, contents and slots are arbitrary.
- **Sound.** `ChannelInv` and `QueueInv` are type correctness with the properties themselves, which are
  inductive; the types carry the work, as they bound the sweep and the clocks. Sizes of the queue, both
  clocks and the channels are arbitrary. `WaveInv` says where phase, position and noise register stand
  after the time travelled since the trigger. One fact about the data is a hypothesis of
  `WavesAlwaysTrue`: that from its seed the noise generator runs through all values and back
  (`FullPeriod`). The run `sound` follows the code's generator of 15 bits through its whole period.
  `MixingIsFair` needs no invariant: it holds of any samples and any routing.
- **Frontend.** `FInv` adds to the types how many steps the player still owes (`Steps`), what the loop
  has counted (`Counts`), what a pending reload implies (`Reloads`) and `Accounted`: while nothing
  disturbs a run, the iterations done so far ask for exactly the cycles the beam has moved, up to what
  `step_cycles` ran too far (`CyclesAgree`), and this leaves no room for a second frame before
  the next poll, nor for a budget that ends too early. `BInv` says that the last event that waits decides how
  the player holds the button, and that without one emulator and session know. Between two polls
  there may be any number of events, so the proofs go by induction over the sequence; as the library's
  theorems on induction cannot be used, by a smallest counterexample, which exists because the order
  of the naturals is well-founded (`NatLessThanWellFounded`, `WFMin`). Lengths of frames, chunks and
  instructions and the number of acts are arbitrary.
- **Drawing.** The scene keeps its type, and the rest holds of every scene. `LineHoldsTheFirst` says that
  the loop over the sprites lists exactly those with fewer than the limit before them on the line
  (`Chosen`), `CandidateLeads` that the loop over that list ends with the first in the order of
  priority (`Leader`), which is linear in both modes (`SpritesInOrder`). Both loops are recursive functions;
  that these have their equations follows from the same induction as the frontend's (`Chain`).
  Scrolling is arithmetic around the end of the map (`AroundTheMap`). Sizes of tiles, maps and the screen,
  the limit and the number of sprites are arbitrary.
- **Ports.** `SerialInv` relates what was offered, received and still waits, and what was sent, taken
  and is in the log; the joypad's properties follow from its steps and its types. Lines, bytes and
  the number of transfers are arbitrary.
- **Cartridge.** `CartTypeOK` is inductive with the widths of the registers of each mapper;
  `BanksAreSafe` follows from it by arithmetic with remainders. The number of banks is arbitrary.
- **Memories.** RAM equals its history because what the mapper selects is what the registers mean (`ModeTimes`),
and a file is accepted exactly if it has the banks of the header, which the RAM keeps. That a bad
  byte of the header shows: a changed byte changes the sum, and a changed sum stays changed through every
  byte behind it (`ByteShows`, `SumShows`). The ten spans of the map part the addresses (`OneEntry`), and
  two work RAM addresses meet only as `WramSame` says; this holds of all 65536 addresses and eight banks,
  of which the run looks at the boundaries. `VideoInv` adds the types of an upload to `PaletteUpload`,
  which rests on arithmetic around the end of the palette (`StepRound`, `PlacesDiffer`); its size is
  arbitrary, and so is the number of writes.

Only model-checked: the liveness properties (`FramesKeepComing`, `SleepersWake`, `RequestsAreServed`,
`DmaEnds`, `Ends`, and that the tool ends), as fairness is out of the prover's reach; `Trace`, of which
`TraceIsFaithful` includes such a property, and whose safety, about sequences that several recursive
definitions build, has no proof yet; and `Opcodes`, a finite table without constants, which the run goes through completely.

## 5. Not modelled

- *Observability and watch points* (`observability.rs`, the events of `lib.rs` and `bus.rs`): records
  of what happened, without influence on it. What a consumer with a state of its own makes of them is
  `Trace`.
- *The other tools* (`milestone4_smoke.rs`, `tile_oam_debug_view.rs`, `debug_harness.rs`): scripts around
  the same calls. Of `trace_rom`, argument parsing, the format of lines, and the length of instructions
  it computes for them; a trace without limits, which runs until an error. The cycles of a loop are
  computed from its first repetition. They are exact only if its repetitions last equally long, which a
  conditional jump to the next instruction breaks; `Trace` has such a jump, and `SpansExact`
  leaves out the end of the loops that contain one, and nothing else.
- *Loading a saved state, in the modules of the parts*: it replaces the whole state of processor, ports
  or devices by one reached before; the slots are in `Session` and `Frontend`. What holds of every state
  holds after a load, too. Properties of steps and histories (only a reset ends a lock-up, bytes
  pass once) speak of a machine between two loads.
- *The frontend's shell*: windows, audio devices, image capture, arguments, messages.
- *Texts of the cartridge header*, and the clock of MBC3, which the code does not have: its registers
  hide the RAM, which is modelled.
- *Registers that only store a byte*, among them wave duty and most read-backs of the sound unit.
- *The double-speed divisor* of `tick_components`: it changes how many dots a cycle makes and not what
  they do, and as all costs are multiples of four (`CostsCoverAccesses`) it has no remainder.
- *STOP and the prefix CB* in `CostsCoverAccesses`: STOP is charged four cycles for two bytes fetched,
  and the prefix is charged with the opcode behind it.
