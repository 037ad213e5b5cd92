-------------------------------- MODULE Alu --------------------------------
(***************************************************************************)
(* The arithmetic of the processor: registers, flags, stack and the        *)
(* instructions that compute.  A routine, a few opcodes that programs use  *)
(* to do one thing, runs one instruction per step; what it must have       *)
(* computed in the end is known without the flags.  Jumps and the fetching *)
(* of opcodes are in Cpu, the operands of opcodes in Opcodes.              *)
(***************************************************************************)
EXTENDS Integers, Sequences

CONSTANTS
  Routines,  \* records: the name, the code and the first registers of a routine
  StackTop   \* the stack pointer it starts with

VARIABLES
  routine, \* what runs
  done,    \* how much of it did
  r,       \* the registers 0..7 of read_r8: B C D E H L (HL) A; the byte at HL
           \* is a cell like the others, for no routine moves HL and uses it
  f,       \* CpuFlags
  sp,
  stack    \* the bytes written; the rest of the memory is zero

aluVars == <<routine, done, r, f, sp, stack>>

Bytes8 == 0..255
IsAddress(a) == a \in Nat /\ a <= 65535
FlagNames == {"z", "n", "h", "c"}
Bit(x, i) == (x \div 2^i) % 2

-----------------------------------------------------------------------------
(* The routines.                                                           *)

\* SET and RES of the bits of H, from bit 0 to bit 7, as the mask says.
Setting(mask) == [i \in 1..8 |-> 256 + (IF Bit(mask, i - 1) = 1 THEN 192 ELSE 128) + 8 * (i - 1) + 4]

Code(name, regs) ==
  CASE name = "add"                 -> <<125, 129, 95, 124, 136, 87, 9>>
    [] name = "subtract"            -> <<125, 145, 111, 124, 152, 103, 9>>
    [] name = "compare"             -> <<184>>
    [] name = "count"               -> <<35, 43, 44, 45>>
    [] name = "decimalSum"          -> <<136, 39>>
    [] name = "decimalDifference"   -> <<152, 39>>
    [] name = "shift"               -> <<293, 276, 316, 285, 63, 55, 63>>
    [] name = "turn"                -> <<23, 23, 23, 23, 23, 23, 23, 23, 23, 256, 256, 256, 256, 304>>
    [] name = "split"               -> <<121, 47, 160, 87, 121, 160, 178, 168>>
    [] name = "writeBits"           -> Setting(regs[1])
    [] name = "exchange"            -> <<245, 197, 241, 193, 245, 209>>
    [] name = "frame"               -> <<248, 249, 232>>
    [] OTHER                        -> <<>>

IsPacked(x) == x \div 16 < 10 /\ x % 16 < 10

ASSUME AluAssumption ==
  /\ IsAddress(StackTop)
  /\ \A t \in Routines :
       /\ t.regs \in [0..7 -> Bytes8] /\ t.flags \subseteq FlagNames
       /\ t.code = Code(t.name, t.regs)
       /\ t.name \in {"decimalSum", "decimalDifference"} => IsPacked(t.regs[7]) /\ IsPacked(t.regs[0])

-----------------------------------------------------------------------------
(* Registers and flags.                                                    *)

Word(hi, lo) == 256 * hi + lo
HL == 2
SP == 3
Pair(regs, i) == Word(regs[2 * i], regs[2 * i + 1])
SetPair(regs, i, v) == [regs EXCEPT ![2 * i] = v \div 256, ![2 * i + 1] = v % 256]

A == 7
With(flags, set) == {x \in flags : x \notin DOMAIN set \/ set[x]} \union {x \in DOMAIN set : set[x]}
Carry(flags) == IF "c" \in flags THEN 1 ELSE 0

\* All four flags, as nearly every instruction sets them.
Flags(z, n, h, c) == {x \in FlagNames : [z |-> z, n |-> n, h |-> h, c |-> c][x]}

\* The byte of eight bits, and the operations of the language on the bits of two.
Byte8(b) == b[0] + 2 * b[1] + 4 * b[2] + 8 * b[3] + 16 * b[4] + 32 * b[5] + 64 * b[6] + 128 * b[7]
BitAnd(a, v) == Byte8([i \in 0..7 |-> IF Bit(a, i) = 1 THEN Bit(v, i) ELSE 0])
BitOr(a, v)  == Byte8([i \in 0..7 |-> IF Bit(a, i) = 1 THEN 1 ELSE Bit(v, i)])
BitXor(a, v) == Byte8([i \in 0..7 |-> IF Bit(a, i) = Bit(v, i) THEN 0 ELSE 1])

-----------------------------------------------------------------------------
(* execute_alu_value: the value of A and the flags after each operation.   *)

\* Mutant of Sum: the half carry of ADC ignores the carry.
SumHalfPlain(a, v, c) ==
  LET x == (a + v + c) % 256
  IN <<x, Flags(x = 0, FALSE, (a % 16) + (v % 16) > 15, a + v + c > 255)>>

\* add_to_a and adc_to_a
Sum(a, v, c) ==
  LET x == (a + v + c) % 256
  IN <<x, Flags(x = 0, FALSE, (a % 16) + (v % 16) + c > 15, a + v + c > 255)>>

\* sub_from_a, sbc_from_a and compare_a
Difference(a, v, c) ==
  LET x == (a - v - c) % 256
  IN <<x, Flags(x = 0, TRUE, a % 16 < (v % 16) + c, a < v + c)>>

\* The operation in bits 3-5 of an opcode.
Operation(op, a, v, flags) ==
  CASE op = 0 -> Sum(a, v, 0)
    [] op = 1 -> Sum(a, v, Carry(flags))
    [] op = 2 -> Difference(a, v, 0)
    [] op = 3 -> Difference(a, v, Carry(flags))
    [] op = 4 -> <<BitAnd(a, v), Flags(BitAnd(a, v) = 0, FALSE, TRUE, FALSE)>>
    [] op = 5 -> <<BitXor(a, v), Flags(BitXor(a, v) = 0, FALSE, FALSE, FALSE)>>
    [] op = 6 -> <<BitOr(a, v), Flags(BitOr(a, v) = 0, FALSE, FALSE, FALSE)>>
    [] op = 7 -> <<a, Difference(a, v, 0)[2]>>

\* Mutant of Adjusted: after a sum, only the digit that overflowed counts.
AdjustedByFlags(a, flags) ==
  LET six   == IF "h" \in flags THEN 6 ELSE 0
      sixty == IF "c" \in flags THEN 96 ELSE 0
      x == IF "n" \in flags THEN (a - six - sixty) % 256 ELSE (a + six + sixty) % 256
  IN <<x, Flags(x = 0, "n" \in flags, FALSE, "c" \in flags)>>

\* daa
Adjusted(a, flags) ==
  LET plus  == "n" \notin flags
      six   == IF "h" \in flags \/ (plus /\ a % 16 > 9) THEN 6 ELSE 0
      high  == "c" \in flags \/ (plus /\ a > 153)
      sixty == IF high THEN 96 ELSE 0
      x == IF plus THEN (a + six + sixty) % 256 ELSE (a - six - sixty) % 256
  IN <<x, Flags(x = 0, ~plus, FALSE, high)>>

\* execute_cb_rotate: RLC RRC RL RR SLA SRA SWAP SRL, and the bit carried out.
Shifted(op, x, c) ==
  CASE op = 0 -> <<((2 * x) % 256) + Bit(x, 7), Bit(x, 7)>>
    [] op = 1 -> <<x \div 2 + 128 * Bit(x, 0), Bit(x, 0)>>
    [] op = 2 -> <<((2 * x) % 256) + c, Bit(x, 7)>>
    [] op = 3 -> <<x \div 2 + 128 * c, Bit(x, 0)>>
    [] op = 4 -> <<(2 * x) % 256, Bit(x, 7)>>
    [] op = 5 -> <<x \div 2 + 128 * Bit(x, 7), Bit(x, 0)>>
    [] op = 6 -> <<16 * (x % 16) + (x \div 16), 0>>
    [] op = 7 -> <<x \div 2, Bit(x, 0)>>

-----------------------------------------------------------------------------
(* The instructions; op is the opcode, or 256 and the one after 0xCB, e    *)
(* the operand byte that follows.                                          *)

Computes(x, flags) == r' = [r EXCEPT ![A] = x] /\ f' = flags
Aside == UNCHANGED <<sp, stack>>

\* execute_alu_metadata
AluStep(op) ==
  /\ op \in 128..191
  /\ LET res == Operation((op \div 8) % 8, r[A], r[op % 8], f) IN Computes(res[1], res[2])
  /\ Aside

\* execute_inc8, execute_dec8: the carry stays.
CountStep(op) ==
  /\ op < 64 /\ op % 8 \in {4, 5}
  /\ LET i == (op \div 8) % 8
         x == IF op % 8 = 4 THEN (r[i] + 1) % 256 ELSE (r[i] - 1) % 256
     IN /\ r' = [r EXCEPT ![i] = x]
        /\ f' = With(f, [z |-> x = 0, n |-> op % 8 = 5,
                         h |-> IF op % 8 = 4 THEN r[i] % 16 = 15 ELSE r[i] % 16 = 0])
  /\ Aside

\* LD r,r'
LoadStep(op) ==
  /\ op \in (64..127) \ {118}
  /\ r' = [r EXCEPT ![(op \div 8) % 8] = r[op % 8]]
  /\ UNCHANGED f /\ Aside

\* rlca, rrca, rla, rra: a rotation of A that clears Z; then DAA, CPL, SCF, CCF.
AccumulatorStep(op) ==
  /\ op < 64 /\ op % 8 = 7
  /\ LET k == op \div 8
         turned == Shifted(k, r[A], Carry(f))
         adjusted == Adjusted(r[A], f)
     IN CASE k < 4 -> Computes(turned[1], Flags(FALSE, FALSE, FALSE, turned[2] = 1))
          [] k = 4 -> Computes(adjusted[1], adjusted[2])
          [] k = 5 -> Computes(255 - r[A], f \union {"n", "h"})
          [] k = 6 -> Computes(r[A], With(f, [n |-> FALSE, h |-> FALSE, c |-> TRUE]))
          [] k = 7 -> Computes(r[A], With(f, [n |-> FALSE, h |-> FALSE, c |-> "c" \notin f]))
  /\ Aside

\* ADD HL,rr; INC rr; DEC rr
WideStep(op) ==
  LET i == op \div 16
      v == IF i = SP THEN sp ELSE Pair(r, i)
      hl == Pair(r, HL)
      moved == IF op % 16 = 3 THEN (v + 1) % 65536 ELSE (v - 1) % 65536
  IN /\ op < 64 /\ op % 16 \in {3, 9, 11}
     /\ IF op % 16 = 9
        THEN /\ r' = SetPair(r, HL, (hl + v) % 65536)
             /\ f' = With(f, [n |-> FALSE, h |-> (hl % 4096) + (v % 4096) > 4095, c |-> hl + v > 65535])
             /\ UNCHANGED sp
        ELSE /\ IF i = SP THEN sp' = moved /\ UNCHANGED r ELSE r' = SetPair(r, i, moved) /\ UNCHANGED sp
             /\ UNCHANGED f
     /\ UNCHANGED stack

\* RES; SET is its counterpart.
Reset(x, bit) == IF Bit(x, bit) = 1 THEN x - 2^bit ELSE x

\* execute_cb_metadata: rotations, BIT, RES, SET.
PrefixedStep(op) ==
  /\ op \in 256..511
  /\ LET i == op % 8
         bit == (op \div 8) % 8
         turned == Shifted(bit, r[i], Carry(f))
         on == Bit(r[i], bit) = 1
     IN CASE op < 320 -> /\ r' = [r EXCEPT ![i] = turned[1]]
                         /\ f' = Flags(turned[1] = 0, FALSE, FALSE, turned[2] = 1)
          [] op \in 320..383 -> /\ f' = With(f, [z |-> ~on, n |-> FALSE, h |-> TRUE])
                                /\ UNCHANGED r
          [] op \in 384..447 -> r' = [r EXCEPT ![i] = Reset(@, bit)] /\ UNCHANGED f
          [] OTHER           -> r' = [r EXCEPT ![i] = IF on THEN @ ELSE @ + 2^bit] /\ UNCHANGED f
  /\ Aside

-----------------------------------------------------------------------------
(* The stack.                                                              *)

FlagByte(flags) == 128 * (IF "z" \in flags THEN 1 ELSE 0) + 64 * (IF "n" \in flags THEN 1 ELSE 0)
               + 32 * (IF "h" \in flags THEN 1 ELSE 0) + 16 * Carry(flags)

Stored(mem, a, x) == [b \in DOMAIN mem \union {a} |-> IF b = a THEN x ELSE mem[b]]
At(mem, a) == IF a \in DOMAIN mem THEN mem[a] ELSE 0

\* push_stack16
PushStep(op) ==
  /\ op >= 192 /\ op % 16 = 5 /\ op < 256
  /\ LET i == (op \div 16) % 4
         hi == IF i = 3 THEN r[A] ELSE r[2 * i]
         lo == IF i = 3 THEN FlagByte(f) ELSE r[2 * i + 1]
     IN stack' = Stored(Stored(stack, (sp - 1) % 65536, hi), (sp - 2) % 65536, lo)
  /\ sp' = (sp - 2) % 65536
  /\ UNCHANGED <<r, f>>

\* write_bits: the low nibble is dropped.
FromFlagByte(x) == {n \in FlagNames : Bit(x, [z |-> 7, n |-> 6, h |-> 5, c |-> 4][n]) = 1}

\* pop_stack16
PopStep(op) ==
  /\ op >= 192 /\ op % 16 = 1 /\ op < 256
  /\ LET i == (op \div 16) % 4
         lo == At(stack, sp)
         hi == At(stack, (sp + 1) % 65536)
     IN IF i = 3 THEN r' = [r EXCEPT ![A] = hi] /\ f' = FromFlagByte(lo)
                 ELSE r' = SetPair(r, i, Word(hi, lo)) /\ UNCHANGED f
  /\ sp' = (sp + 2) % 65536
  /\ UNCHANGED stack

\* add_signed_to_sp: the sum is signed, its flags are those of the low bytes.
Offset(s, e) ==
  <<(s + (IF e > 127 THEN e - 256 ELSE e)) % 65536,
    Flags(FALSE, FALSE, (s % 16) + (e % 16) > 15, (s % 256) + e > 255)>>

\* ADD SP,e8; LD HL,SP+e8; LD SP,HL.  The operand is in E of the routine.
PointerStep(op) ==
  /\ op \in {232, 248, 249}
  /\ LET res == Offset(sp, routine.regs[3])
     IN CASE op = 232 -> sp' = res[1] /\ f' = res[2] /\ UNCHANGED r
          [] op = 248 -> r' = SetPair(r, HL, res[1]) /\ f' = res[2] /\ UNCHANGED sp
          [] op = 249 -> sp' = Pair(r, HL) /\ UNCHANGED <<r, f>>
  /\ UNCHANGED stack

-----------------------------------------------------------------------------

\* A routine starts.
AluStart ==
  /\ done = 0
  /\ r = routine.regs /\ f = routine.flags
  /\ sp = StackTop
  /\ stack = <<>>

AluInit == routine \in Routines /\ AluStart

AluNext ==
  /\ done < Len(routine.code)
  /\ done' = done + 1
  /\ UNCHANGED routine
  /\ LET op == routine.code[done + 1]
     IN \/ AluStep(op) \/ CountStep(op) \/ LoadStep(op) \/ AccumulatorStep(op) \/ WideStep(op)
        \/ PrefixedStep(op) \/ PushStep(op) \/ PopStep(op) \/ PointerStep(op)

AluSpec == AluInit /\ [][AluNext]_aluVars

AluTypeOK ==
  /\ done \in 0..Len(routine.code)
  /\ r \in [0..7 -> Bytes8] /\ f \subseteq FlagNames
  /\ IsAddress(sp)
  /\ \A a \in DOMAIN stack : IsAddress(a) /\ stack[a] \in Bytes8

-----------------------------------------------------------------------------
(* Properties.                                                             *)

After(name, n) == routine.name = name /\ done = n
Regs == routine.regs

\* Adding and subtracting 16-bit numbers byte by byte, with ADD/ADC and
\* SUB/SBC and the loads between them that keep the carry, gives the sum and
\* the carry that ADD HL,rr computes at once; CP orders two bytes, and INC and
\* DEC of a byte or a pair take each other back and leave the carry to the sum.
WideSums ==
  LET x == Pair(Regs, HL)
      y == Pair(Regs, 0)
  IN /\ After("add", 6) => Pair(r, 1) = (x + y) % 65536 /\ ("c" \in f <=> x + y > 65535)
     /\ After("add", 7) => Pair(r, HL) = Pair(r, 1) /\ ("c" \in f <=> x + y > 65535)
     /\ After("subtract", 6) => Pair(r, HL) = (x - y) % 65536 /\ ("c" \in f <=> x < y)
     /\ After("subtract", 7) => Pair(r, HL) = x
     /\ After("compare", 1) => /\ r = Regs
                               /\ "z" \in f <=> r[A] = r[0]
                               /\ "c" \in f <=> r[A] < r[0]
     /\ After("count", 2) => Pair(r, HL) = x
     /\ After("count", 3) => r[5] = (x + 1) % 256 /\ ("z" \in f <=> r[5] = 0)
     /\ After("count", 4) => r = Regs /\ Carry(f) = Carry(routine.flags)

Decimal(x) == 10 * (x \div 16) + (x % 16)
Signed(e) == IF e > 127 THEN e - 256 ELSE e

\* DAA after ADC or SBC of two packed decimal bytes leaves the two digits of
\* the decimal result, and the carry or borrow for the next byte.
DecimalSums ==
  LET carry == Carry(routine.flags)
      sum == Decimal(Regs[A]) + Decimal(Regs[0]) + carry
      difference == Decimal(Regs[A]) - Decimal(Regs[0]) - carry
  IN /\ After("decimalSum", 2) => /\ Decimal(r[A]) = sum % 100 /\ r[A] % 16 < 10
                                  /\ "c" \in f <=> sum > 99
     /\ After("decimalDifference", 2) => /\ Decimal(r[A]) = difference % 100 /\ r[A] % 16 < 10
                                         /\ "c" \in f <=> difference < 0

\* SLA L and RL H double HL, SRL H and RR L halve it, the carry holding the
\* bit that left; nine turns through the carry bring A and the carry back,
\* and four without it are a SWAP.
ShiftsCompose ==
  LET x == Pair(Regs, HL)
  IN /\ After("shift", 2) => Pair(r, HL) = (2 * x) % 65536 /\ ("c" \in f <=> x > 32767)
     /\ After("shift", 4) => Pair(r, HL) = x % 32768 /\ "c" \notin f
     /\ After("shift", 7) => Pair(r, HL) = x % 32768 /\ "c" \notin f
     /\ After("turn", 9)  => r[A] = Regs[A] /\ Carry(f) = Carry(routine.flags)
     /\ After("turn", 14) => r = Regs

\* What is pushed is popped again, the last first, whatever the pairs and
\* wherever the stack wraps around the address space; of F only the four
\* flags survive, so that AF reads back with a low digit of zero.
StackKeeps ==
  /\ After("exchange", 4) => /\ sp = StackTop
                             /\ Pair(r, 0) = Word(Regs[A], FlagByte(routine.flags))
                             /\ r[A] = Regs[0]
                             /\ f = {n \in FlagNames : Bit(Regs[1], [z |-> 7, n |-> 6, h |-> 5, c |-> 4][n]) = 1}
  /\ After("exchange", 6) => Pair(r, 1) % 16 = 0 /\ Pair(r, 1) \div 16 = Word(Regs[0], Regs[1]) \div 16

\* Moving the stack pointer by a signed byte and computing HL as the stack
\* pointer moved agree, in both directions and across the ends of the
\* address space, and the carry is that of the low bytes.
PointersMove ==
  LET e == Regs[3]
      moved == (StackTop + Signed(e)) % 65536
  IN /\ After("frame", 1) => Pair(r, HL) = moved /\ sp = StackTop
     /\ After("frame", 2) => sp = moved /\ ("c" \in f <=> (StackTop % 256) + e > 255)
     /\ After("frame", 3) => sp = (moved + Signed(e)) % 65536

\* AND with a mask and with its complement split a byte; OR joins it again,
\* and XOR shows that nothing is left.  SET and RES write the bits of a mask
\* one by one, each leaving the others alone.
MasksSplit ==
  /\ After("split", 8) => r[A] = 0 /\ f = {"z"}
  /\ After("writeBits", 8) => r[4] = Regs[1] /\ f = routine.flags

(***************************************************************************)
(* Routines of several instructions compute what they are written for, the *)
(* flags handed from one to the next: sums and differences of words,       *)
(* decimal numbers, shifts of words, the stack, pointers and masks.        *)
(***************************************************************************)
RoutinesCompute ==
  AluTypeOK /\ WideSums /\ DecimalSums /\ ShiftsCompose /\ StackKeeps /\ PointersMove /\ MasksSplit
=============================================================================
