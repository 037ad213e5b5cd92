------------------------------- MODULE Trace -------------------------------
(***************************************************************************)
(* The tool trace_rom: main runs the emulator in batches until a limit or  *)
(* an exit condition, and a TraceCollector observes every instruction.     *)
(* The collector holds the latest steps back, replaces repeated windows of *)
(* steps by one line with a count, and writes everything else as it is.    *)
(*                                                                         *)
(* An instruction is reduced to its signature, which tells a taken jump    *)
(* from another unless it leads to the next instruction, and its cost; LY  *)
(* moves on with every event.  A trace without limits runs for ever, so    *)
(* all configurations have one.                                            *)
(***************************************************************************)
EXTENDS Integers, SequencesExt

CONSTANTS
  WindowMin, WindowMax, WindowPreferred,  \* LOOP_WINDOW_*: 2, 8, 3
  Costs,           \* the cycles a kind of instruction may take, mostly one number;
                   \* two for a conditional jump to the next instruction
  EntryKinds,      \* interrupt_entry
  WatchKinds,      \* accesses a watched register
  LyReadKinds, CompareKinds, BackJumpKinds,  \* what summarize_wait_loop looks for
  ExitKinds,       \* JR -2, the breakpoint, an unimplemented opcode
  LyLines,         \* 154
  TraceConfigs     \* cycle step, limits (a sequence of at most one number), whether
                   \* waits are summarized, and the kinds the program has

ASSUME TraceAssumption ==
  /\ {WindowMin, WindowMax, WindowPreferred, LyLines} \subseteq Nat \ {0}
  /\ WindowMin <= WindowPreferred /\ WindowPreferred <= WindowMax
  /\ \A k \in DOMAIN Costs : Costs[k] # {} /\ \A n \in Costs[k] : n \in Nat /\ n >= 4
  /\ \A c \in TraceConfigs : /\ c.step > 0 /\ Len(c.steps) + Len(c.cycles) > 0
                             /\ c.kinds \subseteq DOMAIN Costs \union {"halt"}

VARIABLES
  config,  \* CliConfig
  ran,     \* history: everything the emulator did, with its time and LY
  col,     \* the TraceCollector
  total,   \* total_cycles of the emulator
  carry,   \* its cycle_carry
  avail,   \* `available` of the batch that runs
  target,  \* the batch
  tpc      \* where main is

traceVars == <<config, ran, col, total, carry, avail, target, tpc>>

NewCollector == [out |-> <<>>, pending |-> <<>>, loop |-> <<>>, steps |-> 0, budget |-> 0, exit |-> "none"]

Reached(limit, n) == limit # <<>> /\ n >= limit[1]

Lesser(a, b)  == IF a <= b THEN a ELSE b
Greater(a, b) == IF a <= b THEN b ELSE a

-----------------------------------------------------------------------------
(* Lines of the trace: a step, a repeated window, a wait, a halt, or an    *)
(* access.                                                                 *)

Line(type, body, n, from, to, ly) ==
  [type |-> type, body |-> body, n |-> n, from |-> from, to |-> to, ly |-> ly]

Kinds(steps) == [i \in DOMAIN steps |-> steps[i].kind]

StepLines(steps) ==
  [i \in DOMAIN steps |-> Line("step", <<steps[i].kind>>, 1, steps[i].from, steps[i].to, <<>>)]

LyRange(steps) ==
  LET seen == UNION {{steps[i].before, steps[i].after} : i \in DOMAIN steps}
  IN <<Min(seen), Max(seen), Last(steps).after>>

MergeRange(a, b) == <<Lesser(a[1], b[1]), Greater(a[2], b[2]), b[3]>>

\* summarize_wait_loop: reads LY, compares it, and jumps back.
IsWait(window) ==
  \A kinds \in {LyReadKinds, CompareKinds, BackJumpKinds} :
    \E i \in DOMAIN window : window[i].kind \in kinds

LoopLine(l) ==
  LET from == l.window[1].from
      once == Last(l.window).to - from
  IN Line(IF config.summarize /\ IsWait(l.window) THEN "wait" ELSE "loop",
          Kinds(l.window), l.n, from, from + once * l.n, l.ly)

Before(l, steps) == SelectSeq(steps, LAMBDA s : s.index < l.window[1].index)
Since(l, steps)  == SelectSeq(steps, LAMBDA s : s.index >= l.window[1].index)

FlushLoop(c) ==
  IF c.loop = <<>> THEN c
  ELSE LET l == Head(c.loop)
       IN [c EXCEPT !.out = @ \o StepLines(Before(l, c.pending)) \o <<LoopLine(l)>>,
                    !.pending = Since(l, @), !.loop = <<>>]

FlushAll(c) ==
  LET f == FlushLoop(c) IN [f EXCEPT !.out = @ \o StepLines(f.pending), !.pending = <<>>]

-----------------------------------------------------------------------------
(* update_loop_compression *)

Tail2(s, n) == SubSeq(s, Len(s) - n + 1, Len(s))

Repeats(a, b) ==
  \A i \in DOMAIN a : a[i].kind = b[i].kind /\ b[i].kind \notin EntryKinds

Fits(p, size) ==
  /\ WindowMin <= size /\ 2 * size <= Len(p)
  /\ Repeats(SubSeq(p, Len(p) - 2 * size + 1, Len(p) - size), Tail2(p, size))

WindowSizes(p) == {size \in WindowMin..WindowMax : Fits(p, size)}

ChosenSize(p) ==
  LET preferred == Lesser(WindowPreferred, Len(p) \div 2)
  IN IF preferred \in WindowSizes(p) THEN preferred ELSE Max(WindowSizes(p))

\* Looks for a window that was just repeated; else lets the oldest step go.
Search(c) ==
  LET p == c.pending
  IN IF WindowSizes(p) # {}
     THEN LET size == ChosenSize(p)
              b == Tail2(p, size)
              a == SubSeq(p, Len(p) - 2 * size + 1, Len(p) - size)
          IN [c EXCEPT !.pending = SubSeq(p, 1, Len(p) - 2 * size),
                       !.loop = <<[window |-> a, n |-> 2, ly |-> MergeRange(LyRange(a), LyRange(b))]>>]
     ELSE IF Len(p) > 2 * WindowMax
     THEN [c EXCEPT !.out = @ \o StepLines(<<Head(p)>>), !.pending = Tail(p)]
     ELSE c

Extend(c, tail) ==
  [c EXCEPT !.loop = <<[c.loop[1] EXCEPT !.n = @ + 1, !.ly = MergeRange(@, LyRange(tail))]>>,
            !.pending = SubSeq(@, 1, Len(@) - Len(tail))]

\* Mutant of Compress: steps held back from before the loop count as well.
CompressEager(c) ==
  IF c.loop = <<>> THEN Search(c)
  ELSE LET window == c.loop[1].window
           tail   == Tail2(c.pending, Len(window))
       IN IF Len(c.pending) < Len(window) THEN c
          ELSE IF Repeats(window, tail) THEN Extend(c, tail)
          ELSE Search(FlushLoop(c))

Compress(c) ==
  IF c.loop = <<>> THEN Search(c)
  ELSE LET window == c.loop[1].window
           tail   == Tail2(c.pending, Len(window))
       IN IF Len(c.pending) < Len(window) \/ tail[1].index < window[1].index THEN c
          ELSE IF Repeats(window, tail) THEN Extend(c, tail)
          ELSE Search(FlushLoop(c))

-----------------------------------------------------------------------------
(* TraceCollector::on_event *)

OnWatchIo(c, e) ==
  LET f == FlushAll(c) IN [f EXCEPT !.out = Append(@, Line("watch", <<>>, 0, e.from, e.from, <<>>))]

ExitOf(e) ==
  IF e.kind \in ExitKinds THEN "condition"
  ELSE IF Reached(config.cycles, e.to) THEN "cycles" ELSE "none"

OnCpuStep(c, e) ==
  IF c.exit # "none" THEN c
  ELSE IF Reached(config.steps, c.budget) THEN [c EXCEPT !.exit = "steps"]
  ELSE LET held == [c EXCEPT !.pending = Append(@, [index |-> c.steps] @@ e)]
       IN [Compress(held) EXCEPT !.steps = @ + 1, !.budget = @ + 1, !.exit = ExitOf(e)]

OnHalt(c, e) ==
  LET f == FlushAll(c)
  IN IF Reached(config.steps, c.budget) THEN [f EXCEPT !.exit = "steps"]
     ELSE [f EXCEPT !.out = Append(@, Line("halt", <<"halt">>, 1, e.from, e.to, <<>>)),
                    !.budget = @ + 1, !.exit = ExitOf(e)]

\* The registers an instruction watches are reported before the instruction.
OnEvents(c, e) ==
  CASE e.kind = "halt" -> OnHalt(c, e)
    [] e.kind \in WatchKinds -> OnCpuStep(OnWatchIo(c, e), e)
    [] OTHER -> OnCpuStep(c, e)

-----------------------------------------------------------------------------
(* main *)

TraceInit ==
  /\ config \in TraceConfigs
  /\ ran = <<>> /\ col = NewCollector
  /\ total = 0 /\ carry = 0 /\ avail = 0 /\ target = 0 /\ tpc = "main"

\* cycle_batch_target: no instruction takes fewer than four cycles.
Batch ==
  LET bySteps  == IF config.steps = <<>> THEN config.step
                  ELSE Lesser(config.step, 4 * (config.steps[1] - col.budget))
      byCycles == IF config.cycles = <<>> THEN bySteps
                  ELSE Lesser(bySteps, config.cycles[1] - total)
  IN Greater(byCycles, 1)

\* step_cycles when what ran too far before covers all that is asked for.
Covered ==
  /\ carry >= Batch
  /\ total' = total + Batch /\ carry' = carry - Batch
  /\ UNCHANGED <<tpc, avail, target>>

StartBatch ==
  /\ carry < Batch
  /\ target' = Batch /\ avail' = carry /\ tpc' = "run"
  /\ UNCHANGED <<total, carry>>

Stop(reason) ==
  /\ col' = [FlushAll(col) EXCEPT !.exit = reason]
  /\ tpc' = "done"
  /\ UNCHANGED <<config, ran, total, carry, avail, target>>

Main ==
  /\ tpc = "main"
  /\ IF col.exit # "none" THEN Stop(col.exit)
     ELSE IF Reached(config.steps, col.budget) THEN Stop("steps")
     ELSE IF Reached(config.cycles, total) THEN Stop("cycles")
     ELSE (Covered \/ StartBatch) /\ UNCHANGED <<config, ran, col>>

\* One round of step_cycles_with_observer: an instruction, or the rest of
\* the batch in one leap if the processor waits.
RunFor(kind, cost) ==
  LET e    == [kind |-> kind, from |-> total + avail, to |-> total + avail + cost,
               before |-> Len(ran) % LyLines, after |-> (Len(ran) + 1) % LyLines]
      now  == avail + cost
      used == IF col'.exit # "none" THEN now ELSE target
  IN /\ ran' = Append(ran, e)
     /\ col' = OnEvents(col, e)
     /\ IF col'.exit # "none" \/ now >= target
        THEN /\ tpc' = "main" /\ total' = total + used /\ carry' = now - used
             /\ avail' = 0 /\ target' = 0
        ELSE /\ avail' = now /\ UNCHANGED <<tpc, total, carry, target>>
     /\ UNCHANGED config

Run(kind) ==
  /\ tpc = "run"
  /\ \E cost \in IF kind = "halt" THEN {((target - avail + 3) \div 4) * 4} ELSE Costs[kind] :
       RunFor(kind, cost)

\* Writing fails: the tool gives up, and what it held back is lost.
WriteError ==
  /\ tpc = "run" /\ col.pending # <<>>
  /\ tpc' = "failed" /\ UNCHANGED <<config, ran, col, total, carry, avail, target>>

TraceNext == Main \/ WriteError \/ \E kind \in config.kinds : Run(kind)

TraceFairness == WF_traceVars(Main \/ \E kind \in config.kinds : Run(kind))

TraceSpec == TraceInit /\ [][TraceNext]_traceVars /\ TraceFairness

-----------------------------------------------------------------------------

TraceTypeOK ==
  /\ tpc \in {"main", "run", "done", "failed"}
  /\ Len(col.pending) <= 2 * WindowMax
  /\ col.loop # <<>> => col.loop[1].n >= 2 /\ Len(col.loop[1].window) \in WindowMin..WindowMax
  /\ {total, carry, avail, target} \subseteq Nat /\ avail <= target

(***************************************************************************)
(* Nothing is lost, repeated or put out of order by the compression: the   *)
(* lines written, with every loop unrolled, and what is held back are what *)
(* the emulator did.                                                       *)
(***************************************************************************)
Unrolled(body, n) == [i \in 1..(n * Len(body)) |-> body[((i - 1) % Len(body)) + 1]]

\* What the first i lines stand for.
Written ==
  LET upTo[i \in 0..Len(col.out)] ==
        IF i = 0 THEN <<>> ELSE upTo[i - 1] \o Unrolled(col.out[i].body, col.out[i].n)
  IN upTo

Held ==
  IF col.loop = <<>> THEN Kinds(col.pending)
  ELSE LET l == Head(col.loop)
       IN Kinds(Before(l, col.pending)) \o Unrolled(Kinds(l.window), l.n) \o Kinds(Since(l, col.pending))

TraceComplete == Written[Len(col.out)] \o Held = Kinds(ran)

(***************************************************************************)
(* Every line of a finished trace names the cycles and the lines of the    *)
(* screen of exactly the steps it stands for.  The end of a loop is        *)
(* computed from its first repetition, so it is exact if the others lasted *)
(* as long, which all do whose instructions have one cost.                 *)
(***************************************************************************)
Regular(kinds) == \A i \in DOMAIN kinds : kinds[i] \in DOMAIN Costs => Cardinality(Costs[kinds[i]]) = 1

SpansExact ==
  tpc = "done" =>
    \A i \in DOMAIN col.out :
      LET line  == col.out[i]
          first == Len(Written[i - 1]) + 1
          steps == SubSeq(ran, first, first + Len(line.body) * line.n - 1)
      IN line.n > 0 => /\ line.from = steps[1].from
                       /\ line.n = 1 \/ Regular(line.body) => line.to = Last(steps).to
                       /\ line.ly # <<>> => line.ly = LyRange(steps)

(***************************************************************************)
(* Nothing is executed beyond a limit, although the emulator runs in       *)
(* batches: the trace describes all the program did.                       *)
(***************************************************************************)
WithinLimits ==
  /\ config.steps # <<>> => Len(ran) <= config.steps[1]
  /\ \A i \in DOMAIN ran : ~Reached(config.cycles, ran[i].from)

(***************************************************************************)
(* The tool ends when it has a limit, whatever the program does.           *)
(***************************************************************************)
TraceEnds == <>(tpc \in {"done", "failed"})
=============================================================================
