------------------------------ MODULE Opcodes ------------------------------
(***************************************************************************)
(* The table of opcodes that build.rs generates, against the executor that *)
(* takes operands and costs out of it: execute_metadata unwraps what the   *)
(* table is expected to have, and the table gives the time of the accesses *)
(* that only the executor knows.                                           *)
(***************************************************************************)
EXTENDS Integers, FiniteSets

\* A row of metadata_for: the opcodes, what they do, where their operands
\* and condition come from ("none" where there is none), and their cycles.
Row(codes, does, op8, op16, cond, cost) ==
  [codes |-> codes, does |-> does, op8 |-> op8, op16 |-> op16, cond |-> cond, cost |-> cost]

Fixed4(codes, does, n) == Row(codes, does, "none", "none", "none", <<"fixed", n>>)

Every8(from, to)  == {c \in from..to : (c - from) % 8 = 0}
Every16(from, to) == {c \in from..to : (c - from) % 16 = 0}

\* Bits 3-5 and 0-2 of an opcode; 6 stands for the byte at HL.
Target(code) == (code \div 8) % 8
Source(code) == code % 8

\* ld_rr
LoadCost(code) == <<"fixed", IF 6 \in {Target(code), Source(code)} THEN 8 ELSE 4>>

\* Mutant of StackRows: PUSH at the cost of POP.
StackRowsEqual ==
  {Row(Every16(193, 241), "Pop", "none", "stack", "none", <<"fixed", 12>>),
   Row(Every16(197, 245), "Push", "none", "stack", "none", <<"fixed", 12>>)}

StackRows ==
  {Row(Every16(193, 241), "Pop", "none", "stack", "none", <<"fixed", 12>>),
   Row(Every16(197, 245), "Push", "none", "stack", "none", <<"fixed", 16>>)}

\* metadata_for
ImpliedRows ==
  {Fixed4({0}, "Nop", 4), Fixed4({7}, "Rlca", 4), Fixed4({15}, "Rrca", 4), Fixed4({23}, "Rla", 4),
   Fixed4({31}, "Rra", 4), Fixed4({39}, "Daa", 4), Fixed4({47}, "Cpl", 4), Fixed4({55}, "Scf", 4),
   Fixed4({63}, "Ccf", 4), Fixed4({118}, "Halt", 4), Fixed4({243}, "Di", 4), Fixed4({251}, "Ei", 4),
   Fixed4({34}, "LdHliFromA", 8), Fixed4({42}, "LdAFromHli", 8), Fixed4({50}, "LdHldFromA", 8),
   Fixed4({58}, "LdAFromHld", 8), Fixed4({226}, "LdhCFromA", 8), Fixed4({242}, "LdhAFromC", 8),
   Fixed4({249}, "LdSpHl", 8), Fixed4({233}, "JpHl", 4), Fixed4({201}, "Ret", 16), Fixed4({217}, "Reti", 16)}

WideRows ==
  {Row({8}, "LdSpToImm16Addr", "none", "imm16", "none", <<"fixed", 20>>),
   Row(Every16(2, 18), "LdMemFromA", "none", "r16", "none", <<"fixed", 8>>),
   Row(Every16(10, 26), "LdAFromMem", "none", "r16", "none", <<"fixed", 8>>),
   Row(Every16(3, 51), "Inc16", "none", "r16", "none", <<"fixed", 8>>),
   Row(Every16(11, 59), "Dec16", "none", "r16", "none", <<"fixed", 8>>),
   Row(Every16(1, 49), "Ld16Imm", "none", "r16", "none", <<"fixed", 12>>),
   Row(Every16(9, 57), "AddHl", "none", "r16", "none", <<"fixed", 8>>),
   Row({234}, "LdImm16FromA", "none", "imm16", "none", <<"fixed", 16>>),
   Row({250}, "LdAFromImm16", "none", "imm16", "none", <<"fixed", 16>>),
   Row({232}, "AddSpE8", "signed", "none", "none", <<"fixed", 16>>),
   Row({248}, "LdHlSpPlusE8", "signed", "none", "none", <<"fixed", 12>>)} \union StackRows

ByteRows ==
  {Row(Every8(6, 62), "Ld8Imm", "target", "none", "none", <<"memory", 8, 12>>),
   Row(Every8(4, 60), "Inc8", "target", "none", "none", <<"memory", 4, 12>>),
   Row(Every8(5, 61), "Dec8", "target", "none", "none", <<"memory", 4, 12>>),
   Row(128..191, "Alu8", "source", "none", "none", <<"memory", 4, 8>>),
   Row(Every8(198, 254), "AluImm8", "imm8", "none", "none", <<"fixed", 8>>),
   Row({224}, "LdhImmFromA", "imm8", "none", "none", <<"fixed", 12>>),
   Row({240}, "LdhAFromImm", "imm8", "none", "none", <<"fixed", 12>>),
   Row({16}, "Stop", "imm8", "none", "none", <<"fixed", 4>>)}
  \union {Row({c}, "Ld8", "target", "source", "none", LoadCost(c)) : c \in (64..127) \ {118}}

JumpRows ==
  {Row({24}, "Jr", "relative", "none", "none", <<"fixed", 12>>),
   Row(Every8(32, 56), "JrCond", "relative", "none", "cc", <<"branch", 12, 8>>),
   Row({195}, "Jp", "none", "imm16", "none", <<"fixed", 16>>),
   Row(Every8(194, 218), "JpCond", "none", "imm16", "cc", <<"branch", 16, 12>>),
   Row({205}, "Call", "none", "imm16", "none", <<"fixed", 24>>),
   Row(Every8(196, 220), "CallCond", "none", "imm16", "cc", <<"branch", 24, 12>>),
   Row(Every8(192, 216), "RetCond", "none", "none", "cc", <<"branch", 20, 8>>),
   Row(Every8(199, 255), "Rst", "vector", "none", "none", <<"fixed", 16>>)}

\* cb_metadata_for; the opcodes after the prefix are 256..511 here.
CbCost(code) == IF Source(code) # 6 THEN 8 ELSE IF code \in 320..383 THEN 12 ELSE 16

CbRows ==
  {Row({c}, CASE c < 320 -> "CbRotate" [] c < 384 -> "CbBit" [] c < 448 -> "CbRes" [] OTHER -> "CbSet",
       "source", "bit", "none", <<"fixed", CbCost(c)>>) : c \in 256..511}

\* OPCODES and CB_OPCODES; the prefix has the cost of what follows it.
Table == ImpliedRows \union WideRows \union ByteRows \union JumpRows \union CbRows
         \union {Row({203}, "PrefixCb", "cb", "none", "none", <<"fixed", 0>>)}

Undefined == {211, 219, 221, 227, 228, 235, 236, 237, 244, 252, 253}

-----------------------------------------------------------------------------
(* The executor.                                                           *)

\* Kinds of operands that fetch_operand8 and its like can use; the others
\* are unreachable!() there.
Usable8(does) ==
  CASE does \in {"Ld8Imm", "Inc8", "Dec8", "Ld8", "CbRotate", "CbBit", "CbRes", "CbSet"} -> {"target", "source"}
    [] does = "Rst"                                               -> {"vector"}
    [] does \in {"Stop", "Jr", "JrCond", "Alu8", "AluImm8", "AddSpE8", "LdHlSpPlusE8", "LdhImmFromA",
                 "LdhAFromImm", "PrefixCb"}  -> {"imm8", "signed", "relative", "cb", "target", "source", "vector"}
    [] OTHER -> {"none"}

Usable16(does) ==
  CASE does \in {"LdMemFromA", "LdAFromMem", "Inc16", "Dec16", "Ld16Imm", "AddHl"} -> {"r16", "stack"}
    [] does \in {"LdSpToImm16Addr", "LdImm16FromA", "LdAFromImm16", "Jp", "JpCond", "Call", "CallCond"}
                                             -> {"imm16", "r16", "stack"}
    [] does \in {"Push", "Pop"}              -> {"stack"}
    [] does = "Ld8"                          -> {"source"}
    [] does \in {"CbRotate", "CbBit", "CbRes", "CbSet"} -> {"bit"}
    [] OTHER -> {"none"}

UsableCond(does) == IF does \in {"JrCond", "JpCond", "CallCond", "RetCond"} THEN {"cc"} ELSE {"none"}

\* for_operand8 or for_branch: the kinds of cost they accept.
UsableCost(does) == IF does \in {"Ld8Imm", "Inc8", "Dec8", "Alu8"} THEN {"fixed", "memory"} ELSE {"fixed", "branch"}

\* Bytes an instruction fetches, its opcode included.
FetchedBytes(row) ==
  1 + (IF row.op8 \in {"imm8", "signed", "relative", "cb"} THEN 1 ELSE 0)
    + (IF row.op16 = "imm16" THEN 2 ELSE 0)
    + (IF row.does = "Ld8Imm" THEN 1 ELSE IF row.does = "Ld16Imm" THEN 2 ELSE 0)
    + (IF row \in CbRows THEN 1 ELSE 0)

\* Bytes it reads and writes besides, of a conditional
\* instruction only if its condition holds.
DataBytes(row, code, holds) ==
  LET at(i) == IF i = 6 THEN 1 ELSE 0
  IN CASE row.does \in {"LdMemFromA", "LdAFromMem", "LdHliFromA", "LdAFromHli", "LdHldFromA", "LdAFromHld",
                        "LdhImmFromA", "LdhCFromA", "LdImm16FromA", "LdhAFromImm", "LdhAFromC", "LdAFromImm16"} -> 1
       [] row.does \in {"LdSpToImm16Addr", "Push", "Pop", "Rst", "Ret", "Reti", "Call"} -> 2
       [] row.does \in {"CallCond", "RetCond"}           -> IF holds THEN 2 ELSE 0
       [] row.does = "Ld8Imm"                            -> at(Target(code))
       [] row.does = "Ld8"                               -> at(Target(code)) + at(Source(code))
       [] row.does \in {"Inc8", "Dec8"}                  -> 2 * at(Target(code))
       [] row.does \in {"Alu8", "CbBit"}                 -> at(Source(code))
       [] row.does \in {"CbRotate", "CbRes", "CbSet"}    -> 2 * at(Source(code))
       [] OTHER                                          -> 0

\* The cost of a row, as for_branch and for_operand8 take it.
CostOf(row, code, holds) ==
  LET register == IF row.op8 = "target" THEN Target(code) ELSE Source(code)
  IN CASE row.cost[1] = "fixed"  -> row.cost[2]
       [] row.cost[1] = "branch" -> IF holds THEN row.cost[2] ELSE row.cost[3]
       [] row.cost[1] = "memory" -> IF register = 6 THEN row.cost[3] ELSE row.cost[2]

VARIABLES opcode, holds  \* the opcode looked at, and whether its condition holds

opcodeVars == <<opcode, holds>>

RowOf(code) == CHOOSE row \in Table : code \in row.codes

\* Every opcode that runs has one row, and the executor finds in it the
\* operands, the condition and the kind of cost it takes out: no expect()
\* fails and no unreachable!() is reached, whatever a program runs.
ExecutorFindsOperands ==
  opcode \in Undefined \/
  /\ Cardinality({row \in Table : opcode \in row.codes}) = 1
  /\ LET row == RowOf(opcode)
     IN /\ row.op8 \in Usable8(row.does) /\ row.op16 \in Usable16(row.does)
        /\ row.cond \in UsableCond(row.does) /\ row.cost[1] \in UsableCost(row.does)

\* The processor takes four cycles for every byte it fetches, reads or
\* writes.  The table charges exactly these, and one or two machine cycles
\* more only where a 16-bit value is computed or the program counter loaded.
WorksInside(row) ==
  CASE row.does \in {"Inc16", "Dec16", "AddHl", "LdSpHl", "LdHlSpPlusE8", "Push", "Jr", "Jp", "Call",
                     "Rst", "Ret", "Reti"}    -> 1
    [] row.does = "AddSpE8"                   -> 2
    [] row.does \in {"JrCond", "JpCond", "CallCond"} -> IF holds THEN 1 ELSE 0
    [] row.does = "RetCond"                   -> IF holds THEN 2 ELSE 1
    [] OTHER                                  -> 0

CostsCoverAccesses ==
  opcode \in Undefined \union {16, 203} \/
  LET row == RowOf(opcode)
  IN CostOf(row, opcode, holds) = 4 * (FetchedBytes(row) + DataBytes(row, opcode, holds) + WorksInside(row))
=============================================================================
