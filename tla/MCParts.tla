------------------------------ MODULE MCParts ------------------------------
(***************************************************************************)
(* The smaller parts of the system, each by itself: a behaviour is about   *)
(* one part, and the others keep one initial state.  What they do together *)
(* is in Bus, Emulator and Frontend; here it is what each does with any    *)
(* inputs.                                                                 *)
(***************************************************************************)
EXTENDS Trace, Memories, Ports, Drawing, Alu, Opcodes

CONSTANT Parts \* the parts looked at

VARIABLE part  \* what the behaviour is about

-----------------------------------------------------------------------------
(* Programs that are traced: long and short cycle steps, limits of steps   *)
(* and of cycles, waits, interrupts, halts and watched registers.          *)

MCCosts ==
  [k \in {"a", "b", "in", "exit", "w", "ly", "cp", "jr", "next"} |->
     CASE k \in {"b", "jr"} -> {12} [] k = "next" -> {8, 12} [] OTHER -> {4}]

Traced(step, steps, cycles, summarize, kinds) ==
  [step |-> step, steps |-> steps, cycles |-> cycles, summarize |-> summarize, kinds |-> kinds]

QuietTrace == Traced(1, <<1>>, <<>>, FALSE, {"a"})

MCConfigs ==
  {QuietTrace,
   Traced(60, <<9>>, <<>>, FALSE, {"a", "b"}),
   Traced(9, <<6>>, <<>>, TRUE, {"ly", "cp", "jr"}),
   Traced(9, <<4>>, <<>>, FALSE, {"a", "in", "halt", "w"}),
   Traced(9, <<6>>, <<>>, FALSE, {"a", "next"}),
   Traced(1, <<>>, <<33>>, TRUE, {"b", "exit", "halt"}),
   Traced(50, <<6>>, <<33>>, TRUE, {"a", "b", "halt"})}

-----------------------------------------------------------------------------
(* Cartridges: every mapper, with images of one to all banks it reaches,   *)
(* numbers of banks that are no power of two, and RAM of none to four.     *)

Image(len, type, rom, rm) ==
  [len |-> len, title |-> 0, cgb |-> 0, type |-> type, rom |-> rom, ram |-> rm, dest |-> 0, checksum |-> 0]

QuietImage == Image(1, 0, 99, 0)

MCImages ==
  {QuietImage, Image(2, 1, 99, 0), Image(16, 1, 99, 0), Image(72, 1, 99, 0), Image(128, 1, 99, 0),
   Image(1, 1, 99, 0), Image(4, 3, 1, 3), Image(4, 9, 1, 2), Image(4, 19, 1, 3), Image(4, 3, 1, 0),
   Image(4, 2, 1, 2), Image(4, 30, 1, 2), Image(512, 25, 8, 0), Image(3, 17, 8, 0), Image(128, 17, 6, 0),
   Image(128, 30, 6, 0)}

MCBytes == {0, 1, 3, 127, 128, 192, 255}

-----------------------------------------------------------------------------
(* Addresses: both sides of every boundary, and all of the I/O page. *)

MCAddresses ==
  UNION {{a - 1, a, a + 1} : a \in {\h100, \h150, \h200, \h900, \h8000, \hA000, \hC000, \hD000, \hE000,
                                    \hF000, \hFE00, \hFEA0, \hFF80}}
  \union (\hFEFF..\hFFFF) \union {0, \h120, \hC234, \hE234, \hD234, \hF234}

-----------------------------------------------------------------------------
(* Scenes: the background with and without a window, and three sprites out *)
(* of five that overlap.                                                   *)

Shades(a, b, c, d) == [i \in 0..3 |-> <<a, b, c, d>>[i + 1]]

Scene(cgb, lcdc, wx, wy, sprites) ==
  [cgb |-> cgb, lcdc |-> lcdc, scx |-> 0, scy |-> 0, wx |-> wx, wy |-> wy, sprites |-> sprites,
   bgp |-> Shades(3, 1, 2, 0), obp0 |-> Shades(0, 3, 1, 2), obp1 |-> Shades(0, 2, 2, 1)]

Sprite(x, y, tile, behind) ==
  [x |-> x, y |-> y, tile |-> tile, behind |-> behind, bank |-> tile % 2, obp1 |-> (x % 2 = 1),
   palette |-> 1, xflip |-> FALSE, yflip |-> FALSE]

MCSprites == {Sprite(1, 4, 0, FALSE), Sprite(2, 3, 1, TRUE), Sprite(3, 5, 2, FALSE),
              Sprite(2, 5, 3, FALSE), Sprite(0, 4, 1, TRUE)}

QuietScene == Scene(TRUE, {}, 0, 0, <<>>)

MCScenes ==
  {QuietScene}
  \union {Scene(cgb, flags \union {"lcd", "bg"}, wx, wy, <<>>) :
     cgb \in BOOLEAN, wx \in {0, 3, 6}, wy \in {0, 2},
     flags \in {{}, {"unsigned", "bgMap"}, {"window", "windowMap"}, {"window", "unsigned"}}}
  \union {Scene(cgb, flags \union {"lcd", "obj", "unsigned"}, 0, 0, sprites) :
     cgb \in BOOLEAN, flags \in {{"bg"}, {"tall"}, {"tall", "bg"}}, sprites \in [1..3 -> MCSprites]}
  \union {Scene(FALSE, {"bg"}, 0, 0, <<>>)}

-----------------------------------------------------------------------------
(* Routines of the processor, by their opcodes, over numbers at the edges  *)
(* and, for decimal numbers, all digits.                                   *)

Registers(a, bc, de, hl) ==
  [i \in 0..7 |-> IF i = 7 THEN a ELSE IF i = 6 THEN 0
                  ELSE LET pair == <<bc, de, hl>>[(i \div 2) + 1]
                       IN IF i % 2 = 0 THEN pair \div 256 ELSE pair % 256]

Routine(name, regs, flags) == [name |-> name, code |-> Code(name, regs), regs |-> regs, flags |-> flags]

Words  == {0, 1, 255, 256, 4095, 4096, 32767, 32768, 65280, 65535}
Octets == {0, 1, 15, 16, 85, 127, 128, 170, 240, 255}
AnyCarry == {{}, {"c"}}
Packed(tens, ones) == {16 * h + l : h \in tens, l \in ones}

QuietRoutine == Routine("none", Registers(0, 0, 0, 0), {})

ChainRoutines ==
  {Routine(name, Registers(0, y, 0, x), {}) : name \in {"add", "subtract"}, x, y \in Words}
  \union {Routine("compare", Registers(x, 256 * y, 0, 0), {}) : x, y \in Octets}
  \union {Routine("count", Registers(0, 0, 0, x), c) : x \in Words, c \in AnyCarry}

DecimalRoutines ==
  {Routine(name, Registers(x, 256 * y, 0, 0), c) :
     name \in {"decimalSum", "decimalDifference"}, c \in AnyCarry,
     x \in Packed(0..9, 0..9), y \in Packed({0, 4, 9}, {0, 1, 6, 9})}

BitRoutines ==
  {Routine("shift", Registers(0, 0, 0, x), c) : x \in Words, c \in AnyCarry}
  \union {Routine("turn", Registers(x, 256 * x, 0, 0), c) : x \in Octets, c \in AnyCarry}
  \union {Routine("split", Registers(0, 256 * x + m, 0, 0), {}) : x, m \in Octets}
  \union {Routine("writeBits", Registers(0, m, 0, 256 * x), {"c"}) : x, m \in Octets}

StackRoutines ==
  {Routine("exchange", Registers(x, y, 0, 0), c) : x \in Octets, y \in Words, c \in {{}, {"z"}, {"z", "c"}}}
  \union {Routine("frame", Registers(0, 0, e, 0), {}) : e \in Octets}

MCRoutines == {QuietRoutine} \union ChainRoutines \union DecimalRoutines \union BitRoutines \union StackRoutines

-----------------------------------------------------------------------------

Quiet ==
  /\ part # "trace" => config = QuietTrace
  /\ part # "cartridge" => image = QuietImage
  /\ part # "map" => address = 0 /\ isCgb = FALSE /\ svbkNow = 0 /\ booting = FALSE
  /\ part # "video" => color = FALSE
  /\ part # "drawing" => scene = QuietScene
  /\ part # "processor" => routine = QuietRoutine
  /\ part # "opcodes" => opcode = 211 /\ holds = FALSE

MCInit ==
  /\ part \in Parts
  /\ Quiet
  /\ part = "map" => MapInit
  /\ part = "drawing" => DrawInit
  /\ part = "processor" => routine \in Routines
  /\ part = "opcodes" => opcode \in 0..511 /\ holds \in BOOLEAN
  /\ TraceInit /\ CartInit /\ JoypadInit /\ SerialInit /\ VideoInit /\ AluStart

OthersThan(p) ==
  /\ UNCHANGED <<part, mapVars, opcodeVars>>
  /\ p # "trace"     => UNCHANGED traceVars
  /\ p # "cartridge" => UNCHANGED cartVars
  /\ p # "joypad"    => UNCHANGED joypadVars
  /\ p # "serial"    => UNCHANGED serialVars
  /\ p # "video"     => UNCHANGED videoVars
  /\ p # "drawing"   => UNCHANGED scene
  /\ p # "processor" => UNCHANGED aluVars

MCNext ==
  /\ \/ part = "trace" /\ TraceNext
     \/ part = "cartridge" /\ CartNext
     \/ part = "joypad" /\ JoypadNext
     \/ part = "serial" /\ SerialNext
     \/ part = "video" /\ VideoNext
     \/ part = "drawing" /\ DrawNext
     \/ part = "processor" /\ AluNext
  /\ OthersThan(part)

mcVars == <<part, traceVars, cartVars, joypadVars, serialVars, mapVars, videoVars, scene, aluVars, opcodeVars>>

Traces == Main \/ \E kind \in config.kinds : Run(kind)

MCSpec == MCInit /\ [][MCNext]_mcVars /\ WF_traceVars(part = "trace" /\ Traces /\ OthersThan("trace"))

(***************************************************************************)
(* A trace tells what was executed: compressed or not, no step is lost,    *)
(* moved or counted twice, the spans are right, the limits are kept, and   *)
(* the tool ends.                                                          *)
(***************************************************************************)
TraceIsFaithful ==
  /\ [](TraceTypeOK /\ TraceComplete /\ SpansExact /\ WithinLimits)
  /\ part = "trace" => TraceEnds

(***************************************************************************)
(* The table of opcodes fits what the executor does: the operands it       *)
(* expects are there, and the cycles cover the accesses.                   *)
(***************************************************************************)
TableFitsExecutor == ExecutorFindsOperands /\ CostsCoverAccesses
=============================================================================
