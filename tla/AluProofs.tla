----------------------------- MODULE AluProofs -----------------------------
(***************************************************************************)
(* Proofs about Alu: the routines compute what they should from any        *)
(* registers and flags, and wherever the stack is.                         *)
(***************************************************************************)
EXTENDS Alu, SequenceTheorems, TLAPS

-----------------------------------------------------------------------------
(* Bytes, bits and flags.                                                  *)

LEMMA Powers ==
  /\ 2 ^ 0 = 1 /\ 2 ^ 1 = 2 /\ 2 ^ 2 = 4 /\ 2 ^ 3 = 8
  /\ 2 ^ 4 = 16 /\ 2 ^ 5 = 32 /\ 2 ^ 6 = 64 /\ 2 ^ 7 = 128
OBVIOUS

LEMMA EveryBit ==
  ASSUME NEW x \in Bytes8
  PROVE  /\ Bit(x, 0) = x % 2         /\ Bit(x, 1) = (x \div 2) % 2
         /\ Bit(x, 2) = (x \div 4) % 2  /\ Bit(x, 3) = (x \div 8) % 2
         /\ Bit(x, 4) = (x \div 16) % 2 /\ Bit(x, 5) = (x \div 32) % 2
         /\ Bit(x, 6) = (x \div 64) % 2 /\ Bit(x, 7) = (x \div 128)
BY Powers DEF Bit, Bytes8

LEMMA BitType ==
  ASSUME NEW x \in Bytes8, NEW i \in 0..7
  PROVE  Bit(x, i) \in {0, 1}
BY EveryBit DEF Bytes8

\* A flag is set as it is told.
LEMMA FlagsHave ==
  ASSUME NEW z \in BOOLEAN, NEW n \in BOOLEAN, NEW h \in BOOLEAN, NEW c \in BOOLEAN
  PROVE  /\ "z" \in Flags(z, n, h, c) <=> z
         /\ "n" \in Flags(z, n, h, c) <=> n
         /\ "h" \in Flags(z, n, h, c) <=> h
         /\ "c" \in Flags(z, n, h, c) <=> c
         /\ Flags(z, n, h, c) \subseteq FlagNames
BY Zenon DEF Flags, FlagNames

LEMMA WithHas ==
  ASSUME NEW flags, NEW set, NEW x \in DOMAIN set
  PROVE  x \in With(flags, set) <=> set[x]
BY Zenon DEF With

LEMMA WithKeeps ==
  ASSUME NEW flags, NEW set, NEW x, x \notin DOMAIN set
  PROVE  x \in With(flags, set) <=> x \in flags
BY Zenon DEF With

\* The byte and the flags of a sum.
SumIs(a, v, c) ==
  /\ Sum(a, v, c)[1] = (a + v + c) % 256
  /\ "c" \in Sum(a, v, c)[2] <=> a + v + c > 255
  /\ "h" \in Sum(a, v, c)[2] <=> (a % 16) + (v % 16) + c > 15
  /\ "n" \notin Sum(a, v, c)[2]
  /\ "z" \in Sum(a, v, c)[2] <=> (a + v + c) % 256 = 0
  /\ Sum(a, v, c)[2] \subseteq FlagNames

LEMMA SumFlags ==
  ASSUME NEW a \in Bytes8, NEW v \in Bytes8, NEW c \in {0, 1}
  PROVE  SumIs(a, v, c)
<1> DEFINE z == (a + v + c) % 256 = 0
           h == (a % 16) + (v % 16) + c > 15
           k == a + v + c > 255
<1>1. Sum(a, v, c)[1] = (a + v + c) % 256 /\ Sum(a, v, c)[2] = Flags(z, FALSE, h, k)
  BY DEF Sum
<1>2. z \in BOOLEAN /\ h \in BOOLEAN /\ k \in BOOLEAN /\ FALSE \in BOOLEAN
  OBVIOUS
<1> HIDE DEF z, h, k
<1>3. /\ "z" \in Flags(z, FALSE, h, k) <=> z
      /\ "n" \notin Flags(z, FALSE, h, k)
      /\ "h" \in Flags(z, FALSE, h, k) <=> h
      /\ "c" \in Flags(z, FALSE, h, k) <=> k
      /\ Flags(z, FALSE, h, k) \subseteq FlagNames
  BY <1>2, FlagsHave, Zenon
<1> DEFINE g == Sum(a, v, c)[2]
<1>4. /\ "z" \in g <=> z
      /\ "n" \notin g
      /\ "h" \in g <=> h
      /\ "c" \in g <=> k
      /\ g \subseteq FlagNames
  BY <1>1, <1>3, ZenonT(30)
<1>5. /\ Sum(a, v, c)[1] = (a + v + c) % 256
      /\ "c" \in Sum(a, v, c)[2] <=> a + v + c > 255
      /\ "h" \in Sum(a, v, c)[2] <=> (a % 16) + (v % 16) + c > 15
      /\ "n" \notin Sum(a, v, c)[2]
      /\ "z" \in Sum(a, v, c)[2] <=> (a + v + c) % 256 = 0
      /\ Sum(a, v, c)[2] \subseteq FlagNames
  BY <1>1, <1>4, Zenon DEF z, h, k
<1> QED
  BY <1>5 DEF SumIs

\* The byte and the flags of a difference.
DifferenceIs(a, v, c) ==
  /\ Difference(a, v, c)[1] = (a - v - c) % 256
  /\ "c" \in Difference(a, v, c)[2] <=> a < v + c
  /\ "h" \in Difference(a, v, c)[2] <=> a % 16 < (v % 16) + c
  /\ "n" \in Difference(a, v, c)[2]
  /\ "z" \in Difference(a, v, c)[2] <=> (a - v - c) % 256 = 0
  /\ Difference(a, v, c)[2] \subseteq FlagNames

LEMMA DifferenceFlags ==
  ASSUME NEW a \in Bytes8, NEW v \in Bytes8, NEW c \in {0, 1}
  PROVE  DifferenceIs(a, v, c)
<1> DEFINE z == (a - v - c) % 256 = 0
           h == a % 16 < (v % 16) + c
           k == a < v + c
           g == Difference(a, v, c)[2]
<1>1. Difference(a, v, c)[1] = (a - v - c) % 256 /\ g = Flags(z, TRUE, h, k)
  BY DEF Difference
<1>2. z \in BOOLEAN /\ h \in BOOLEAN /\ k \in BOOLEAN /\ TRUE \in BOOLEAN
  OBVIOUS
<1> HIDE DEF z, h, k, g
<1>3. /\ "z" \in Flags(z, TRUE, h, k) <=> z
      /\ "n" \in Flags(z, TRUE, h, k)
      /\ "h" \in Flags(z, TRUE, h, k) <=> h
      /\ "c" \in Flags(z, TRUE, h, k) <=> k
      /\ Flags(z, TRUE, h, k) \subseteq FlagNames
  BY <1>2, FlagsHave, Zenon
<1>4. /\ "z" \in g <=> z
      /\ "n" \in g
      /\ "h" \in g <=> h
      /\ "c" \in g <=> k
      /\ g \subseteq FlagNames
  BY <1>1, <1>3
<1>5. /\ Difference(a, v, c)[1] = (a - v - c) % 256
      /\ "c" \in Difference(a, v, c)[2] <=> a < v + c
      /\ "h" \in Difference(a, v, c)[2] <=> a % 16 < (v % 16) + c
      /\ "n" \in Difference(a, v, c)[2]
      /\ "z" \in Difference(a, v, c)[2] <=> (a - v - c) % 256 = 0
      /\ Difference(a, v, c)[2] \subseteq FlagNames
  BY <1>1, <1>4, Zenon DEF z, h, k, g
<1> QED
  BY <1>5 DEF DifferenceIs

-----------------------------------------------------------------------------
(* Which instruction an opcode is.                                         *)

Opcode == routine.code[done + 1]

LEMMA Instructions ==
  ASSUME AluNext
  PROVE  /\ done' = done + 1 /\ routine' = routine /\ done < Len(routine.code)
         /\ \/ Opcode \in 128..191 /\ AluStep(Opcode)
            \/ Opcode < 64 /\ Opcode % 8 \in {4, 5} /\ CountStep(Opcode)
            \/ Opcode \in (64..127) \ {118} /\ LoadStep(Opcode)
            \/ Opcode < 64 /\ Opcode % 8 = 7 /\ AccumulatorStep(Opcode)
            \/ Opcode < 64 /\ Opcode % 16 \in {3, 9, 11} /\ WideStep(Opcode)
            \/ Opcode \in 256..511 /\ PrefixedStep(Opcode)
            \/ Opcode >= 192 /\ Opcode % 16 = 5 /\ Opcode < 256 /\ PushStep(Opcode)
            \/ Opcode >= 192 /\ Opcode % 16 = 1 /\ Opcode < 256 /\ PopStep(Opcode)
            \/ Opcode \in {232, 248, 249} /\ PointerStep(Opcode)
<1> DEFINE op == Opcode
<1>1. /\ done' = done + 1 /\ routine' = routine /\ done < Len(routine.code)
      /\ \/ AluStep(op) \/ CountStep(op) \/ LoadStep(op) \/ AccumulatorStep(op) \/ WideStep(op)
         \/ PrefixedStep(op) \/ PushStep(op) \/ PopStep(op) \/ PointerStep(op)
  BY DEF AluNext, Opcode
<1> HIDE DEF op
<1>2. AluStep(op) => op \in 128..191
  BY DEF AluStep
<1>3. CountStep(op) => op < 64 /\ op % 8 \in {4, 5}
  BY DEF CountStep
<1>4. LoadStep(op) => op \in (64..127) \ {118}
  BY DEF LoadStep
<1>5. AccumulatorStep(op) => op < 64 /\ op % 8 = 7
  BY DEF AccumulatorStep
<1>6. WideStep(op) => op < 64 /\ op % 16 \in {3, 9, 11}
  BY DEF WideStep
<1>7. PrefixedStep(op) => op \in 256..511
  BY DEF PrefixedStep
<1>8. PushStep(op) => op >= 192 /\ op % 16 = 5 /\ op < 256
  BY DEF PushStep
<1>9. PopStep(op) => op >= 192 /\ op % 16 = 1 /\ op < 256
  BY DEF PopStep
<1>10. PointerStep(op) => op \in {232, 248, 249}
  BY DEF PointerStep
<1> QED
  BY <1>1, <1>2, <1>3, <1>4, <1>5, <1>6, <1>7, <1>8, <1>9, <1>10, SMT DEF op

Sets(i, x) == r' = [r EXCEPT ![i] = x]

LEMMA Loads ==
  ASSUME AluNext
  PROVE  /\ Opcode = 125 => Sets(7, r[5]) /\ UNCHANGED <<f, sp, stack>>
         /\ Opcode = 124 => Sets(7, r[4]) /\ UNCHANGED <<f, sp, stack>>
         /\ Opcode = 121 => Sets(7, r[1]) /\ UNCHANGED <<f, sp, stack>>
         /\ Opcode = 111 => Sets(5, r[7]) /\ UNCHANGED <<f, sp, stack>>
         /\ Opcode = 103 => Sets(4, r[7]) /\ UNCHANGED <<f, sp, stack>>
         /\ Opcode = 95  => Sets(3, r[7]) /\ UNCHANGED <<f, sp, stack>>
         /\ Opcode = 87  => Sets(2, r[7]) /\ UNCHANGED <<f, sp, stack>>
<1>1. ASSUME NEW op, op = Opcode, op \in {125, 124, 121, 111, 103, 95, 87}
      PROVE  LoadStep(op)
  BY <1>1, Instructions
<1> QED
  BY <1>1 DEF LoadStep, Sets, Aside

LEMMA Sums ==
  ASSUME AluTypeOK, AluNext, Opcode \in {129, 136}
  PROVE  LET v == IF Opcode = 129 THEN r[1] ELSE r[0]
             c == IF Opcode = 129 THEN 0 ELSE Carry(f)
         IN /\ Sets(7, Sum(r[7], v, c)[1]) /\ f' = Sum(r[7], v, c)[2]
            /\ UNCHANGED <<sp, stack>>
<1>1. AluStep(Opcode)
  BY Instructions
<1>2. CASE Opcode = 129
  BY <1>1, <1>2 DEF AluStep, Operation, Computes, A, Aside, Sets
<1>3. CASE Opcode = 136
  BY <1>1, <1>3 DEF AluStep, Operation, Computes, A, Aside, Sets
<1> QED
  BY <1>2, <1>3

LEMMA Differences ==
  ASSUME AluTypeOK, AluNext, Opcode \in {145, 152, 184}
  PROVE  LET v == IF Opcode = 145 THEN r[1] ELSE r[0]
             c == IF Opcode = 152 THEN Carry(f) ELSE 0
         IN /\ IF Opcode = 184 THEN r' = r ELSE Sets(7, Difference(r[7], v, c)[1])
            /\ f' = Difference(r[7], v, c)[2] /\ UNCHANGED <<sp, stack>>
<1>1. AluStep(Opcode)
  BY Instructions
<1>2. CASE Opcode = 145
  BY <1>1, <1>2 DEF AluStep, Operation, Computes, A, Aside, Sets
<1>3. CASE Opcode = 152
  BY <1>1, <1>3 DEF AluStep, Operation, Computes, A, Aside, Sets
<1>4. CASE Opcode = 184
  BY <1>1, <1>4 DEF AluStep, Operation, Computes, A, Aside, AluTypeOK
<1> QED
  BY <1>2, <1>3, <1>4

LEMMA Masks ==
  ASSUME AluTypeOK, AluNext
  PROVE  /\ Opcode = 160 => Sets(7, BitAnd(r[7], r[0])) /\ UNCHANGED <<sp, stack>>
         /\ Opcode = 178 => Sets(7, BitOr(r[7], r[2])) /\ UNCHANGED <<sp, stack>>
         /\ Opcode = 168 => /\ Sets(7, BitXor(r[7], r[0])) /\ UNCHANGED <<sp, stack>>
                            /\ f' = Flags(BitXor(r[7], r[0]) = 0, FALSE, FALSE, FALSE)
<1>1. Opcode \in {160, 178, 168} => AluStep(Opcode)
  BY Instructions
<1>2. CASE Opcode = 160
  BY <1>1, <1>2 DEF AluStep, Operation, Computes, A, Aside, Sets
<1>3. CASE Opcode = 178
  BY <1>1, <1>3 DEF AluStep, Operation, Computes, A, Aside, Sets
<1>4. CASE Opcode = 168
  BY <1>1, <1>4 DEF AluStep, Operation, Computes, A, Aside, Sets
<1> QED
  BY <1>2, <1>3, <1>4

LEMMA Counts ==
  ASSUME AluTypeOK, AluNext, Opcode \in {44, 45}
  PROVE  LET x == IF Opcode = 44 THEN (r[5] + 1) % 256 ELSE (r[5] - 1) % 256
         IN /\ Sets(5, x) /\ UNCHANGED <<sp, stack>>
            /\ "c" \in f' <=> "c" \in f
            /\ "z" \in f' <=> x = 0
<1>1. CountStep(Opcode)
  BY Instructions
<1> DEFINE x == IF Opcode = 44 THEN (r[5] + 1) % 256 ELSE (r[5] - 1) % 256
           set == [z |-> x = 0, n |-> Opcode % 8 = 5,
                   h |-> IF Opcode % 8 = 4 THEN r[5] % 16 = 15 ELSE r[5] % 16 = 0]
<1>2. Sets(5, x) /\ f' = With(f, set) /\ UNCHANGED <<sp, stack>>
  <2>1. CASE Opcode = 44
    BY <1>1, <2>1 DEF CountStep, Sets, Aside
  <2>2. CASE Opcode = 45
    BY <1>1, <2>2 DEF CountStep, Sets, Aside
  <2> QED
    BY <2>1, <2>2
<1>3. "z" \in DOMAIN set /\ "c" \notin DOMAIN set /\ (set["z"] <=> x = 0)
  OBVIOUS
<1> HIDE DEF x, set
<1>4. ("z" \in f' <=> set["z"]) /\ ("c" \in f' <=> "c" \in f)
  BY <1>2, <1>3, WithHas, WithKeeps
<1>5. Sets(5, x) /\ UNCHANGED <<sp, stack>> /\ ("c" \in f' <=> "c" \in f) /\ ("z" \in f' <=> x = 0)
  BY <1>2, <1>3, <1>4
<1> QED
  BY <1>5 DEF x

\* RLA
LEMMA TurnsLeft ==
  ASSUME AluTypeOK, AluNext, Opcode = 23
  PROVE  /\ Sets(7, ((2 * r[7]) % 256) + Carry(f)) /\ UNCHANGED <<sp, stack>>
         /\ "c" \in f' <=> r[7] > 127
<1>1. AccumulatorStep(23)
  BY Instructions
<1> DEFINE k == Bit(r[7], 7) = 1
<1>2. Sets(7, ((2 * r[7]) % 256) + Carry(f)) /\ f' = Flags(FALSE, FALSE, FALSE, k) /\ UNCHANGED <<sp, stack>>
  BY <1>1 DEF AccumulatorStep, Shifted, Computes, A, Aside, Sets
<1>3. k \in BOOLEAN /\ FALSE \in BOOLEAN /\ (k <=> r[7] > 127)
  <2>1. r[7] \in Bytes8
    BY DEF AluTypeOK
  <2>2. Bit(r[7], 7) = r[7] \div 128
    BY <2>1, EveryBit
  <2> QED
    BY <2>1, <2>2 DEF Bytes8
<1> HIDE DEF k
<1>4. "c" \in f' <=> k
  BY <1>2, <1>3, FlagsHave, Zenon
<1> QED
  BY <1>2, <1>3, <1>4

LEMMA Carries ==
  ASSUME AluTypeOK, AluNext
  PROVE  /\ Opcode = 55 => r' = r /\ "c" \in f' /\ UNCHANGED <<sp, stack>>
         /\ Opcode = 63 => r' = r /\ ("c" \in f' <=> "c" \notin f) /\ UNCHANGED <<sp, stack>>
         /\ Opcode = 47 => Sets(7, 255 - r[7]) /\ UNCHANGED <<sp, stack>>
<1>1. Opcode \in {55, 63, 47} => AccumulatorStep(Opcode)
  BY Instructions
<1>2. CASE Opcode = 55
  <2> DEFINE set == [n |-> FALSE, h |-> FALSE, c |-> TRUE]
  <2>1. r' = r /\ f' = With(f, set) /\ UNCHANGED <<sp, stack>>
    BY <1>1, <1>2 DEF AccumulatorStep, Computes, A, Aside, AluTypeOK
  <2>2. "c" \in DOMAIN set /\ set["c"]
    OBVIOUS
  <2> HIDE DEF set
  <2> QED
    BY <1>2, <2>1, <2>2, WithHas
<1>3. CASE Opcode = 63
  <2> DEFINE set == [n |-> FALSE, h |-> FALSE, c |-> "c" \notin f]
  <2>1. r' = r /\ f' = With(f, set) /\ UNCHANGED <<sp, stack>>
    BY <1>1, <1>3 DEF AccumulatorStep, Computes, A, Aside, AluTypeOK
  <2>2. "c" \in DOMAIN set /\ (set["c"] <=> "c" \notin f)
    OBVIOUS
  <2> HIDE DEF set
  <2> QED
    BY <1>3, <2>1, <2>2, WithHas
<1>4. CASE Opcode = 47
  BY <1>1, <1>4 DEF AccumulatorStep, Computes, A, Aside, Sets
<1> QED
  BY <1>2, <1>3, <1>4

LEMMA Wides ==
  ASSUME AluTypeOK, AluNext, Opcode \in {9, 35, 43}
  PROVE  LET x == CASE Opcode = 9 -> (Pair(r, 2) + Pair(r, 0)) % 65536
                    [] Opcode = 35 -> (Pair(r, 2) + 1) % 65536
                    [] Opcode = 43 -> (Pair(r, 2) - 1) % 65536
         IN /\ r' = SetPair(r, 2, x) /\ UNCHANGED <<sp, stack>>
            /\ "c" \in f' <=> IF Opcode = 9 THEN Pair(r, 2) + Pair(r, 0) > 65535 ELSE "c" \in f
<1>1. WideStep(Opcode)
  BY Instructions
<1>2. CASE Opcode = 9
  <2> DEFINE hl == Pair(r, 2)
             v == Pair(r, 0)
             h == (hl % 4096) + (v % 4096) > 4095
             over == hl + v > 65535
             set == [n |-> FALSE, h |-> h, c |-> over]
  <2>1. r' = SetPair(r, 2, (hl + v) % 65536) /\ f' = With(f, set) /\ UNCHANGED <<sp, stack>>
    BY <1>1, <1>2 DEF WideStep, HL, SP
  <2> HIDE DEF h, over
  <2>2. "c" \in DOMAIN set /\ (set["c"] <=> over)
    BY Zenon
  <2> HIDE DEF set
  <2>3. "c" \in f' <=> over
    BY <2>1, <2>2, WithHas
  <2> QED
    BY <1>2, <2>1, <2>3 DEF over
<1>3. CASE Opcode = 35
  BY <1>1, <1>3 DEF WideStep, HL, SP
<1>4. CASE Opcode = 43
  BY <1>1, <1>4 DEF WideStep, HL, SP
<1> QED
  BY <1>2, <1>3, <1>4

\* DAA
LEMMA Adjusts ==
  ASSUME AluTypeOK, AluNext, Opcode = 39
  PROVE  /\ Sets(7, Adjusted(r[7], f)[1]) /\ UNCHANGED <<sp, stack>>
         /\ "c" \in f' <=> "c" \in f \/ ("n" \notin f /\ r[7] > 153)
<1>1. AccumulatorStep(39)
  BY Instructions
<1>2. Sets(7, Adjusted(r[7], f)[1]) /\ f' = Adjusted(r[7], f)[2] /\ UNCHANGED <<sp, stack>>
  BY <1>1 DEF AccumulatorStep, Computes, A, Aside, Sets
<1> DEFINE high == "c" \in f \/ ("n" \notin f /\ r[7] > 153)
           z == Adjusted(r[7], f)[1] = 0
           n == "n" \in f
<1>3. Adjusted(r[7], f)[2] = Flags(z, n, FALSE, high)
  BY DEF Adjusted
<1>4. high \in BOOLEAN /\ z \in BOOLEAN /\ n \in BOOLEAN /\ FALSE \in BOOLEAN
  OBVIOUS
<1> HIDE DEF high, z, n
<1>5. "c" \in Flags(z, n, FALSE, high) <=> high
  BY <1>4, FlagsHave, Zenon
<1> QED
  BY <1>2, <1>3, <1>5 DEF high

LEMMA PrefixedParts ==
  ASSUME NEW op, PrefixedStep(op), op \notin 320..383, op \notin 384..447
  PROVE  LET i == op % 8
             bit == (op \div 8) % 8
             turned == Shifted(bit, r[i], Carry(f))
         IN /\ UNCHANGED <<sp, stack>>
            /\ op < 320 => /\ r' = [r EXCEPT ![i] = turned[1]]
                           /\ f' = Flags(turned[1] = 0, FALSE, FALSE, turned[2] = 1)
            /\ ~(op < 320) => /\ r' = [r EXCEPT ![i] = IF Bit(r[i], bit) = 1 THEN r[i] ELSE r[i] + 2 ^ bit]
                              /\ UNCHANGED f
<1>1. ASSUME op < 320
      PROVE  r' = [r EXCEPT ![op % 8] = Shifted((op \div 8) % 8, r[op % 8], Carry(f))[1]]
  BY <1>1, SMT DEF PrefixedStep
<1>2. ASSUME op < 320
      PROVE  f' = Flags(Shifted((op \div 8) % 8, r[op % 8], Carry(f))[1] = 0, FALSE, FALSE,
                        Shifted((op \div 8) % 8, r[op % 8], Carry(f))[2] = 1)
  BY <1>2, SMT DEF PrefixedStep
<1>3. ASSUME ~(op < 320)
      PROVE  r' = [r EXCEPT ![op % 8] = IF Bit(r[op % 8], (op \div 8) % 8) = 1 THEN r[op % 8]
                                        ELSE r[op % 8] + 2 ^ ((op \div 8) % 8)]
  BY <1>3, SMT DEF PrefixedStep
<1>4. ASSUME ~(op < 320)
      PROVE  UNCHANGED f
  BY <1>4, SMT DEF PrefixedStep
<1>5. UNCHANGED <<sp, stack>>
  BY DEF PrefixedStep, Aside
<1> QED
  BY <1>1, <1>2, <1>3, <1>4, <1>5, Zenon

\* Rotations and shifts set the register and all flags.
LEMMA Rotates ==
  ASSUME AluTypeOK, AluNext, NEW i \in 0..7, NEW k \in 0..7, Opcode = 256 + 8 * k + i
  PROVE  /\ Sets(i, Shifted(k, r[i], Carry(f))[1]) /\ UNCHANGED <<sp, stack>>
         /\ "c" \in f' <=> Shifted(k, r[i], Carry(f))[2] = 1
<1>1. PrefixedStep(Opcode) /\ Opcode \in 256..319 /\ Opcode % 8 = i /\ (Opcode \div 8) % 8 = k
  BY Instructions
<1> DEFINE t == Shifted(k, r[i], Carry(f))
           z == t[1] = 0
           c == t[2] = 1
<1> HIDE DEF t
<1>2. Sets(i, t[1]) /\ f' = Flags(z, FALSE, FALSE, c) /\ UNCHANGED <<sp, stack>>
  <2> DEFINE op == Opcode
             u == Shifted((op \div 8) % 8, r[op % 8], Carry(f))
  <2>1. op < 320 /\ op \notin 320..383 /\ op \notin 384..447 /\ u = t
    BY <1>1 DEF t
  <2>2. PrefixedStep(op)
    BY <1>1
  <2> HIDE DEF op
  <2>3. /\ r' = [r EXCEPT ![op % 8] = u[1]]
        /\ f' = Flags(u[1] = 0, FALSE, FALSE, u[2] = 1)
        /\ UNCHANGED <<sp, stack>>
    BY <2>1, <2>2, PrefixedParts, Zenon
  <2> HIDE DEF u
  <2>4. op % 8 = i
    BY <1>1 DEF op
  <2> QED
    BY <2>1, <2>3, <2>4, Zenon DEF Sets
<1>3. z \in BOOLEAN /\ c \in BOOLEAN /\ FALSE \in BOOLEAN
  OBVIOUS
<1> HIDE DEF z, c
<1>4. "c" \in f' <=> c
  BY <1>2, <1>3, FlagsHave, Zenon
<1> QED
  BY <1>2, <1>4 DEF c, t

\* What SET and RES make of a byte.
Written(x, k, on) == IF on = 1 THEN IF Bit(x, k) = 1 THEN x ELSE x + 2 ^ k ELSE Reset(x, k)

\* SET and RES write one bit.
LEMMA WritesBit ==
  ASSUME AluTypeOK, AluNext, NEW k \in 0..7, NEW on \in {0, 1},
         Opcode = 256 + (IF on = 1 THEN 192 ELSE 128) + 8 * k + 4
  PROVE  Sets(4, Written(r[4], k, on)) /\ UNCHANGED <<f, sp, stack>>
<1>1. PrefixedStep(Opcode) /\ Opcode % 8 = 4 /\ (Opcode \div 8) % 8 = k /\ Opcode \in 384..511
  BY Instructions
<1>2. CASE on = 0
  <2>1. Opcode \in 384..447
    BY <1>2
  <2> QED
    BY <1>1, <1>2, <2>1 DEF PrefixedStep, Aside, Sets, Written
<1>3. CASE on = 1
  <2> DEFINE op == Opcode
             j == op % 8
             bit == (op \div 8) % 8
  <2>1. /\ PrefixedStep(op) /\ j = 4 /\ bit = k
        /\ ~(op < 320) /\ op \notin 320..383 /\ op \notin 384..447
    BY <1>1, <1>3
  <2> HIDE DEF op
  <2>2. /\ r' = [r EXCEPT ![j] = IF Bit(r[j], bit) = 1 THEN r[j] ELSE r[j] + 2 ^ bit]
        /\ UNCHANGED <<f, sp, stack>>
    BY <2>1, PrefixedParts, ZenonT(30)
  <2> HIDE DEF j, bit
  <2> QED
    BY <1>3, <2>1, <2>2 DEF Sets, Written
<1> QED
  BY <1>2, <1>3

LEMMA Pushes ==
  ASSUME AluTypeOK, AluNext, Opcode \in {245, 197}
  PROVE  LET hi == IF Opcode = 245 THEN r[7] ELSE r[0]
             lo == IF Opcode = 245 THEN FlagByte(f) ELSE r[1]
         IN /\ stack' = Stored(Stored(stack, (sp - 1) % 65536, hi), (sp - 2) % 65536, lo)
            /\ sp' = (sp - 2) % 65536 /\ UNCHANGED <<r, f>>
<1>1. PushStep(Opcode)
  BY Instructions
<1>2. CASE Opcode = 245
  BY <1>1, <1>2 DEF PushStep, A
<1>3. CASE Opcode = 197
  BY <1>1, <1>3 DEF PushStep, A
<1> QED
  BY <1>2, <1>3

LEMMA Pops ==
  ASSUME AluTypeOK, AluNext, Opcode \in {241, 193, 209}
  PROVE  LET lo == At(stack, sp)
             hi == At(stack, (sp + 1) % 65536)
         IN /\ IF Opcode = 241 THEN Sets(7, hi) /\ f' = FromFlagByte(lo)
               ELSE r' = SetPair(r, IF Opcode = 193 THEN 0 ELSE 1, Word(hi, lo)) /\ UNCHANGED f
            /\ sp' = (sp + 2) % 65536 /\ UNCHANGED stack
<1>1. PopStep(Opcode)
  BY Instructions
<1>2. CASE Opcode = 241
  BY <1>1, <1>2 DEF PopStep, A, Sets
<1>3. CASE Opcode = 193
  BY <1>1, <1>3 DEF PopStep
<1>4. CASE Opcode = 209
  BY <1>1, <1>4 DEF PopStep
<1> QED
  BY <1>2, <1>3, <1>4

LEMMA Pointers ==
  ASSUME AluNext, Opcode \in {232, 248, 249}
  PROVE  LET res == Offset(sp, routine.regs[3])
         IN /\ Opcode = 248 => r' = SetPair(r, 2, res[1]) /\ f' = res[2] /\ UNCHANGED sp
            /\ Opcode = 249 => sp' = Pair(r, 2) /\ UNCHANGED <<r, f>>
            /\ Opcode = 232 => sp' = res[1] /\ f' = res[2] /\ UNCHANGED r
            /\ UNCHANGED stack
<1>1. PointerStep(Opcode)
  BY Instructions
<1>2. CASE Opcode = 232
  BY <1>1, <1>2 DEF PointerStep, HL
<1>3. CASE Opcode = 248
  BY <1>1, <1>3 DEF PointerStep, HL
<1>4. CASE Opcode = 249
  BY <1>1, <1>4 DEF PointerStep, HL
<1> QED
  BY <1>2, <1>3, <1>4

-----------------------------------------------------------------------------
(* Types: whatever opcodes run.                                            *)

LEMMA ByteOfBits ==
  ASSUME NEW b \in [0..7 -> {0, 1}]
  PROVE  Byte8(b) \in Bytes8
<1>1. /\ b[0] \in 0..1 /\ b[1] \in 0..1 /\ b[2] \in 0..1 /\ b[3] \in 0..1
      /\ b[4] \in 0..1 /\ b[5] \in 0..1 /\ b[6] \in 0..1 /\ b[7] \in 0..1
  OBVIOUS
<1> QED
  BY <1>1 DEF Byte8, Bytes8

\* A byte is known by its bits.
LEMMA BitsOfByte ==
  ASSUME NEW b \in [0..7 -> {0, 1}]
  PROVE  \A i \in 0..7 : Bit(Byte8(b), i) = b[i]
<1> DEFINE x == Byte8(b)
           b0 == b[0]
           b1 == b[1]
           b2 == b[2]
           b3 == b[3]
           b4 == b[4]
           b5 == b[5]
           b6 == b[6]
           b7 == b[7]
<1>1. /\ b0 \in 0..1 /\ b1 \in 0..1 /\ b2 \in 0..1 /\ b3 \in 0..1
      /\ b4 \in 0..1 /\ b5 \in 0..1 /\ b6 \in 0..1 /\ b7 \in 0..1
  OBVIOUS
<1>2. x = b0 + 2 * b1 + 4 * b2 + 8 * b3 + 16 * b4 + 32 * b5 + 64 * b6 + 128 * b7
  BY DEF Byte8
<1>3. x \in Bytes8 /\ x \in Nat
  BY ByteOfBits DEF Bytes8
<1> HIDE DEF x, b0, b1, b2, b3, b4, b5, b6, b7
<1>4. x \div 128 = b7
  BY <1>1, <1>2, <1>3
<1>5. x \div 64 = b6 + 2 * b7
  BY <1>1, <1>2, <1>3
<1>6. x \div 32 = b5 + 2 * b6 + 4 * b7
  BY <1>1, <1>2, <1>3
<1>7. x \div 16 = b4 + 2 * b5 + 4 * b6 + 8 * b7
  BY <1>1, <1>2, <1>3
<1>8. x \div 8 = b3 + 2 * b4 + 4 * b5 + 8 * b6 + 16 * b7
  BY <1>1, <1>2, <1>3
<1>9. x \div 4 = b2 + 2 * b3 + 4 * b4 + 8 * b5 + 16 * b6 + 32 * b7
  BY <1>1, <1>2, <1>3
<1>10. x \div 2 = b1 + 2 * b2 + 4 * b3 + 8 * b4 + 16 * b5 + 32 * b6 + 64 * b7
  BY <1>1, <1>2, <1>3
<1>11. (x \div 64) % 2 = b6 /\ (x \div 32) % 2 = b5
  BY <1>1, <1>5, <1>6
<1>12. (x \div 16) % 2 = b4 /\ (x \div 8) % 2 = b3
  BY <1>1, <1>7, <1>8
<1>13. (x \div 4) % 2 = b2 /\ (x \div 2) % 2 = b1
  BY <1>1, <1>9, <1>10
<1>14. x % 2 = b0
  BY <1>1, <1>2, <1>3
<1>15. /\ Bit(x, 0) = b0 /\ Bit(x, 1) = b1 /\ Bit(x, 2) = b2 /\ Bit(x, 3) = b3
       /\ Bit(x, 4) = b4 /\ Bit(x, 5) = b5 /\ Bit(x, 6) = b6 /\ Bit(x, 7) = b7
  BY <1>3, <1>4, <1>11, <1>12, <1>13, <1>14, EveryBit
<1>16. ASSUME NEW i \in 0..7
       PROVE  i = 0 \/ i = 1 \/ i = 2 \/ i = 3 \/ i = 4 \/ i = 5 \/ i = 6 \/ i = 7
  OBVIOUS
<1> QED
  BY <1>15, <1>16 DEF x, b0, b1, b2, b3, b4, b5, b6, b7

LEMMA ByteHasBits ==
  ASSUME NEW x \in Bytes8
  PROVE  x = Byte8([i \in 0..7 |-> Bit(x, i)])
BY EveryBit DEF Byte8, Bytes8

LEMMA MaskTypes ==
  ASSUME NEW a \in Bytes8, NEW v \in Bytes8
  PROVE  BitAnd(a, v) \in Bytes8 /\ BitOr(a, v) \in Bytes8 /\ BitXor(a, v) \in Bytes8
<1>1. \A i \in 0..7 : Bit(a, i) \in {0, 1} /\ Bit(v, i) \in {0, 1}
  BY BitType
<1>2. [i \in 0..7 |-> IF Bit(a, i) = 1 THEN Bit(v, i) ELSE 0] \in [0..7 -> {0, 1}]
  BY <1>1
<1>3. [i \in 0..7 |-> IF Bit(a, i) = 1 THEN 1 ELSE Bit(v, i)] \in [0..7 -> {0, 1}]
  BY <1>1
<1>4. [i \in 0..7 |-> IF Bit(a, i) = Bit(v, i) THEN 0 ELSE 1] \in [0..7 -> {0, 1}]
  BY <1>1
<1> QED
  BY <1>2, <1>3, <1>4, ByteOfBits DEF BitAnd, BitOr, BitXor

LEMMA FlagsType ==
  ASSUME NEW z, NEW n, NEW h, NEW c
  PROVE  Flags(z, n, h, c) \subseteq FlagNames
BY Zenon DEF Flags

LEMMA WithType ==
  ASSUME NEW flags \in SUBSET FlagNames, NEW set, DOMAIN set \subseteq FlagNames
  PROVE  With(flags, set) \subseteq FlagNames
BY DEF With

LEMMA CarryType == Carry(f) \in {0, 1}
BY DEF Carry

LEMMA OperationType ==
  ASSUME NEW k \in 0..7, NEW a \in Bytes8, NEW v \in Bytes8
  PROVE  Operation(k, a, v, f)[1] \in Bytes8 /\ Operation(k, a, v, f)[2] \subseteq FlagNames
<1>1. ASSUME NEW c \in {0, 1}
      PROVE  Sum(a, v, c)[1] \in Bytes8 /\ Difference(a, v, c)[1] \in Bytes8
  <2>1. Sum(a, v, c)[1] = (a + v + c) % 256 /\ Difference(a, v, c)[1] = (a - v - c) % 256
    BY SumFlags, DifferenceFlags DEF SumIs, DifferenceIs
  <2> QED
    BY <2>1 DEF Bytes8
<1>2. ASSUME NEW c \in {0, 1}
      PROVE  Sum(a, v, c)[2] \subseteq FlagNames /\ Difference(a, v, c)[2] \subseteq FlagNames
  BY SumFlags, DifferenceFlags DEF SumIs, DifferenceIs
<1>3. k = 0 \/ k = 1 \/ k = 2 \/ k = 3 \/ k = 4 \/ k = 5 \/ k = 6 \/ k = 7
  OBVIOUS
<1> QED
  BY <1>1, <1>2, <1>3, CarryType, FlagsType, MaskTypes DEF Operation

LEMMA ShiftedType ==
  ASSUME NEW k \in 0..7, NEW x \in Bytes8, NEW c \in {0, 1}
  PROVE  Shifted(k, x, c)[1] \in Bytes8
<1>1. Bit(x, 0) = x % 2 /\ Bit(x, 7) = x \div 128
  BY EveryBit
<1>2. k = 0 \/ k = 1 \/ k = 2 \/ k = 3 \/ k = 4 \/ k = 5 \/ k = 6 \/ k = 7
  OBVIOUS
<1> QED
  BY <1>1, <1>2 DEF Shifted, Bytes8

LEMMA AdjustedType ==
  ASSUME NEW x \in Bytes8
  PROVE  Adjusted(x, f)[1] \in Bytes8 /\ Adjusted(x, f)[2] \subseteq FlagNames
<1>1. Adjusted(x, f)[1] \in Bytes8
  BY DEF Adjusted, Bytes8
<1> QED
  BY <1>1, FlagsType, ZenonT(30) DEF Adjusted

LEMMA SetPairType ==
  ASSUME NEW regs \in [0..7 -> Bytes8], NEW i \in 0..2, NEW v, IsAddress(v)
  PROVE  SetPair(regs, i, v) \in [0..7 -> Bytes8]
<1>1. v \div 256 \in Bytes8 /\ v % 256 \in Bytes8
  BY DEF IsAddress, Bytes8
<1> QED
  BY <1>1 DEF SetPair

LEMMA PairType ==
  ASSUME NEW regs \in [0..7 -> Bytes8], NEW i \in 0..2
  PROVE  IsAddress(Pair(regs, i))
<1>1. 2 * i \in 0..7 /\ 2 * i + 1 \in 0..7
  OBVIOUS
<1> DEFINE hi == regs[2 * i]
           lo == regs[2 * i + 1]
<1>2. hi \in 0..255 /\ lo \in 0..255 /\ Pair(regs, i) = 256 * hi + lo
  BY <1>1 DEF Bytes8, Pair, Word
<1> HIDE DEF hi, lo
<1> QED
  BY <1>2 DEF IsAddress

LEMMA RoundType ==
  ASSUME NEW v \in Int
  PROVE  IsAddress(v % 65536)
BY DEF IsAddress

LEMMA StoredType ==
  ASSUME NEW mem, NEW a, NEW x \in Bytes8, IsAddress(a),
         \A b \in DOMAIN mem : IsAddress(b) /\ mem[b] \in Bytes8
  PROVE  \A b \in DOMAIN Stored(mem, a, x) : IsAddress(b) /\ Stored(mem, a, x)[b] \in Bytes8
BY DEF Stored

LEMMA StoredAt ==
  ASSUME NEW mem, NEW a, NEW x, NEW b
  PROVE  At(Stored(mem, a, x), b) = IF b = a THEN x ELSE At(mem, b)
BY DEF Stored, At

LEMMA AtType ==
  ASSUME AluTypeOK, NEW a
  PROVE  At(stack, a) \in Bytes8
BY DEF AluTypeOK, At, Bytes8

LEMMA FlagByteType ==
  ASSUME NEW flags
  PROVE  FlagByte(flags) \in Bytes8
BY DEF FlagByte, Carry, Bytes8

\* SET and RES write one bit and leave the others.
LEMMA WrittenBit ==
  ASSUME NEW x \in Bytes8, NEW k \in 0..7, NEW on \in {0, 1}
  PROVE  /\ Written(x, k, on) \in Bytes8 /\ Bit(Written(x, k, on), k) = on
         /\ \A i \in 0..7 \ {k} : Bit(Written(x, k, on), i) = Bit(x, i)
<1> DEFINE y == Written(x, k, on)
<1>1. k = 0 \/ k = 1 \/ k = 2 \/ k = 3 \/ k = 4 \/ k = 5 \/ k = 6 \/ k = 7
  OBVIOUS
<1> DEFINE b == [i \in 0..7 |-> Bit(x, i)]
           c == [b EXCEPT ![k] = on]
<1>2. b \in [0..7 -> {0, 1}] /\ c \in [0..7 -> {0, 1}] /\ x = Byte8(b)
  BY BitType, ByteHasBits
<1>3. /\ c[k] = on /\ Bit(x, k) = b[k]
      /\ \A i \in 0..7 \ {k} : c[i] = b[i] /\ Bit(x, i) = b[i]
  BY <1>2
<1>4. y = IF on = 1 THEN IF b[k] = 1 THEN x ELSE x + 2 ^ k ELSE IF b[k] = 1 THEN x - 2 ^ k ELSE x
  BY DEF Reset, Written
<1> HIDE DEF b, c, y
<1>5. b[k] \in {0, 1}
  BY <1>2
<1>6. /\ b[0] \in Int /\ b[1] \in Int /\ b[2] \in Int /\ b[3] \in Int
      /\ b[4] \in Int /\ b[5] \in Int /\ b[6] \in Int /\ b[7] \in Int
  BY <1>2
<1>7. y = Byte8(c)
  <2> DEFINE p == 2 ^ k
  <2>1. Byte8(c) = x + IF b[k] = on THEN 0 ELSE IF on = 1 THEN p ELSE 0 - p
    <3> DEFINE b0 == b[0]
               b1 == b[1]
               b2 == b[2]
               b3 == b[3]
               b4 == b[4]
               b5 == b[5]
               b6 == b[6]
               b7 == b[7]
    <3>a. x = b0 + 2 * b1 + 4 * b2 + 8 * b3 + 16 * b4 + 32 * b5 + 64 * b6 + 128 * b7
      BY <1>2 DEF Byte8
    <3>b. /\ b0 \in Int /\ b1 \in Int /\ b2 \in Int /\ b3 \in Int
          /\ b4 \in Int /\ b5 \in Int /\ b6 \in Int /\ b7 \in Int
      BY <1>6
    <3>1. CASE k = 0
      <4>1. Byte8(c) = on + 2 * b1 + 4 * b2 + 8 * b3 + 16 * b4 + 32 * b5 + 64 * b6 + 128 * b7
        BY <1>3, <3>1 DEF Byte8
      <4>2. p = 1 /\ b[k] = b0
        BY <3>1, Powers
      <4> HIDE DEF p, b0, b1, b2, b3, b4, b5, b6, b7
      <4> QED
        BY <1>5, <3>a, <3>b, <4>1, <4>2
    <3>2. CASE k = 1
      <4>1. Byte8(c) = b0 + 2 * on + 4 * b2 + 8 * b3 + 16 * b4 + 32 * b5 + 64 * b6 + 128 * b7
        BY <1>3, <3>2 DEF Byte8
      <4>2. p = 2 /\ b[k] = b1
        BY <3>2, Powers
      <4> HIDE DEF p, b0, b1, b2, b3, b4, b5, b6, b7
      <4> QED
        BY <1>5, <3>a, <3>b, <4>1, <4>2
    <3>3. CASE k = 2
      <4>1. Byte8(c) = b0 + 2 * b1 + 4 * on + 8 * b3 + 16 * b4 + 32 * b5 + 64 * b6 + 128 * b7
        BY <1>3, <3>3 DEF Byte8
      <4>2. p = 4 /\ b[k] = b2
        BY <3>3, Powers
      <4> HIDE DEF p, b0, b1, b2, b3, b4, b5, b6, b7
      <4> QED
        BY <1>5, <3>a, <3>b, <4>1, <4>2
    <3>4. CASE k = 3
      <4>1. Byte8(c) = b0 + 2 * b1 + 4 * b2 + 8 * on + 16 * b4 + 32 * b5 + 64 * b6 + 128 * b7
        BY <1>3, <3>4 DEF Byte8
      <4>2. p = 8 /\ b[k] = b3
        BY <3>4, Powers
      <4> HIDE DEF p, b0, b1, b2, b3, b4, b5, b6, b7
      <4> QED
        BY <1>5, <3>a, <3>b, <4>1, <4>2
    <3>5. CASE k = 4
      <4>1. Byte8(c) = b0 + 2 * b1 + 4 * b2 + 8 * b3 + 16 * on + 32 * b5 + 64 * b6 + 128 * b7
        BY <1>3, <3>5 DEF Byte8
      <4>2. p = 16 /\ b[k] = b4
        BY <3>5, Powers
      <4> HIDE DEF p, b0, b1, b2, b3, b4, b5, b6, b7
      <4> QED
        BY <1>5, <3>a, <3>b, <4>1, <4>2
    <3>6. CASE k = 5
      <4>1. Byte8(c) = b0 + 2 * b1 + 4 * b2 + 8 * b3 + 16 * b4 + 32 * on + 64 * b6 + 128 * b7
        BY <1>3, <3>6 DEF Byte8
      <4>2. p = 32 /\ b[k] = b5
        BY <3>6, Powers
      <4> HIDE DEF p, b0, b1, b2, b3, b4, b5, b6, b7
      <4> QED
        BY <1>5, <3>a, <3>b, <4>1, <4>2
    <3>7. CASE k = 6
      <4>1. Byte8(c) = b0 + 2 * b1 + 4 * b2 + 8 * b3 + 16 * b4 + 32 * b5 + 64 * on + 128 * b7
        BY <1>3, <3>7 DEF Byte8
      <4>2. p = 64 /\ b[k] = b6
        BY <3>7, Powers
      <4> HIDE DEF p, b0, b1, b2, b3, b4, b5, b6, b7
      <4> QED
        BY <1>5, <3>a, <3>b, <4>1, <4>2
    <3>8. CASE k = 7
      <4>1. Byte8(c) = b0 + 2 * b1 + 4 * b2 + 8 * b3 + 16 * b4 + 32 * b5 + 64 * b6 + 128 * on
        BY <1>3, <3>8 DEF Byte8
      <4>2. p = 128 /\ b[k] = b7
        BY <3>8, Powers
      <4> HIDE DEF p, b0, b1, b2, b3, b4, b5, b6, b7
      <4> QED
        BY <1>5, <3>a, <3>b, <4>1, <4>2
    <3> QED
      BY <1>1, <3>1, <3>2, <3>3, <3>4, <3>5, <3>6, <3>7, <3>8
  <2>2. p \in Int
    BY <1>1, Powers
  <2> HIDE DEF p
  <2>3. y = IF on = 1 THEN IF b[k] = 1 THEN x ELSE x + p ELSE IF b[k] = 1 THEN x - p ELSE x
    BY <1>4 DEF p
  <2>4. x \in Int
    BY DEF Bytes8
  <2> QED
    BY <1>5, <2>1, <2>2, <2>3, <2>4
<1>8. /\ y \in Bytes8 /\ Bit(y, k) = on
      /\ \A i \in 0..7 \ {k} : Bit(y, i) = Bit(x, i)
  BY <1>2, <1>3, <1>7, ByteOfBits, BitsOfByte
<1> QED
  BY <1>8 DEF y

LEMMA OneBit ==
  ASSUME NEW x \in Bytes8, NEW k \in 0..7
  PROVE  Reset(x, k) \in Bytes8 /\ (IF Bit(x, k) = 1 THEN x ELSE x + 2 ^ k) \in Bytes8
<1>1. Written(x, k, 0) \in Bytes8 /\ Written(x, k, 1) \in Bytes8
  BY WrittenBit
<1> QED
  BY <1>1 DEF Written

LEMMA AccumulatorParts ==
  ASSUME NEW op, AccumulatorStep(op), op \div 8 \in 0..7
  PROVE  LET k == op \div 8
             turned == Shifted(k, r[7], Carry(f))
             adjusted == Adjusted(r[7], f)
         IN /\ k < 4 => Computes(turned[1], Flags(FALSE, FALSE, FALSE, turned[2] = 1))
            /\ k = 4 => Computes(adjusted[1], adjusted[2])
            /\ k = 5 => Computes(255 - r[7], f \union {"n", "h"})
            /\ k = 6 => Computes(r[7], With(f, [n |-> FALSE, h |-> FALSE, c |-> TRUE]))
            /\ k = 7 => Computes(r[7], With(f, [n |-> FALSE, h |-> FALSE, c |-> "c" \notin f]))
<1> DEFINE k == op \div 8
<1>1. LET turned == Shifted(k, r[7], Carry(f))
          adjusted == Adjusted(r[7], f)
      IN CASE k < 4 -> Computes(turned[1], Flags(FALSE, FALSE, FALSE, turned[2] = 1))
           [] k = 4 -> Computes(adjusted[1], adjusted[2])
           [] k = 5 -> Computes(255 - r[7], f \union {"n", "h"})
           [] k = 6 -> Computes(r[7], With(f, [n |-> FALSE, h |-> FALSE, c |-> TRUE]))
           [] k = 7 -> Computes(r[7], With(f, [n |-> FALSE, h |-> FALSE, c |-> "c" \notin f]))
  BY DEF AccumulatorStep, A
<1>2. /\ k < 4 => k # 4 /\ k # 5 /\ k # 6 /\ k # 7
      /\ k = 4 => ~(k < 4) /\ k # 5 /\ k # 6 /\ k # 7
      /\ k = 5 => ~(k < 4) /\ k # 4 /\ k # 6 /\ k # 7
      /\ k = 6 => ~(k < 4) /\ k # 4 /\ k # 5 /\ k # 7
      /\ k = 7 => ~(k < 4) /\ k # 4 /\ k # 5 /\ k # 6
  OBVIOUS
<1> HIDE DEF k
<1>3. k < 4 => Computes(Shifted(k, r[7], Carry(f))[1], Flags(FALSE, FALSE, FALSE, Shifted(k, r[7], Carry(f))[2] = 1))
  BY <1>1, <1>2, Zenon
<1>4. k = 4 => Computes(Adjusted(r[7], f)[1], Adjusted(r[7], f)[2])
  BY <1>1, <1>2, Zenon
<1>5. k = 5 => Computes(255 - r[7], f \union {"n", "h"})
  BY <1>1, <1>2, Zenon
<1>6. k = 6 => Computes(r[7], With(f, [n |-> FALSE, h |-> FALSE, c |-> TRUE]))
  BY <1>1, <1>2, Zenon
<1>7. k = 7 => Computes(r[7], With(f, [n |-> FALSE, h |-> FALSE, c |-> "c" \notin f]))
  BY <1>1, <1>2, Zenon
<1> QED
  BY <1>3, <1>4, <1>5, <1>6, <1>7, Zenon DEF k

\* What the assumption says of the routine that runs.
RoutineOK ==
  /\ routine.regs \in [0..7 -> Bytes8] /\ routine.flags \subseteq FlagNames
  /\ routine.code \in Seq(Nat)

LEMMA CodeType ==
  ASSUME NEW name, NEW regs \in [0..7 -> Bytes8]
  PROVE  Code(name, regs) \in Seq(Nat)
<1>1. Setting(regs[1]) \in Seq(Nat)
  <2>1. \A i \in 1..8 : Setting(regs[1])[i] \in Nat
    BY DEF Setting
  <2>2. Setting(regs[1]) \in [1..8 -> Nat]
    BY <2>1 DEF Setting
  <2>3. 8 \in Nat
    OBVIOUS
  <2> HIDE DEF Setting
  <2> QED
    <3> DEFINE S == Setting(regs[1])
    <3>1. [1..8 -> Nat] \in {[1..n -> Nat] : n \in Nat}
      BY <2>3
    <3>2. S \in UNION {[1..n -> Nat] : n \in Nat}
      <4> HIDE DEF S
      <4>1. S \in [1..8 -> Nat]
        BY <2>2 DEF S
      <4> QED
        BY <3>1, <4>1, Zenon
    <3> QED
      BY <3>2, SeqDef, Zenon
<1>2. <<>> \in Seq(Nat)
  OBVIOUS
<1>3. CASE name = "add"
  BY <1>3 DEF Code
<1>4. CASE name = "subtract"
  BY <1>4 DEF Code
<1>5. CASE name = "compare"
  BY <1>5 DEF Code
<1>6. CASE name = "count"
  BY <1>6 DEF Code
<1>7. CASE name = "decimalSum"
  <2>1. Code(name, regs) = <<136, 39>>
    BY <1>7 DEF Code
  <2> QED
    BY <2>1
<1>8. CASE name = "decimalDifference"
  <2>1. Code(name, regs) = <<152, 39>>
    BY <1>8 DEF Code
  <2> QED
    BY <2>1
<1>9. CASE name = "shift"
  BY <1>9 DEF Code
<1>10. CASE name = "turn"
  BY <1>10 DEF Code
<1>11. CASE name = "split"
  BY <1>11 DEF Code
<1>12. CASE name = "exchange"
  BY <1>12 DEF Code
<1>13. CASE name = "frame"
  BY <1>13 DEF Code
<1>14. CASE name = "writeBits"
  BY <1>1, <1>14 DEF Code
<1>15. CASE /\ name # "add" /\ name # "subtract" /\ name # "compare" /\ name # "count" /\ name # "decimalSum"
           /\ name # "decimalDifference" /\ name # "shift" /\ name # "turn" /\ name # "split"
           /\ name # "writeBits" /\ name # "exchange" /\ name # "frame"
  <2>1. Code(name, regs) = <<>>
    BY <1>15, Zenon DEF Code
  <2> QED
    BY <1>2, <2>1
<1> QED
  BY <1>3, <1>4, <1>5, <1>6, <1>7, <1>8, <1>9, <1>10, <1>11, <1>12, <1>13, <1>14, <1>15

LEMMA RoutineFits ==
  ASSUME routine \in Routines
  PROVE  RoutineOK
BY AluAssumption, CodeType DEF RoutineOK

LEMMA TypeKept ==
  ASSUME RoutineOK, AluTypeOK, AluNext
  PROVE  AluTypeOK'
<1> DEFINE op == Opcode
<1>1. op \in Nat /\ done' \in 0..Len(routine.code) /\ routine' = routine
  <2>1. done \in 0..Len(routine.code) /\ done < Len(routine.code) /\ Len(routine.code) \in Nat
    BY Instructions DEF RoutineOK, AluTypeOK
  <2>2. done + 1 \in 1..Len(routine.code)
    BY <2>1
  <2>3. Opcode \in Nat
    BY <2>2 DEF Opcode, RoutineOK
  <2> QED
    BY <2>1, <2>2, <2>3, Instructions
<1> HIDE DEF op
<1> DEFINE ROK == r' \in [0..7 -> Bytes8]
           FOK == f' \subseteq FlagNames
           SOK == IsAddress(sp')
           MOK == \A a \in DOMAIN stack' : IsAddress(a) /\ stack'[a] \in Bytes8
<1>2. /\ r \in [0..7 -> Bytes8] /\ f \subseteq FlagNames /\ IsAddress(sp)
      /\ \A a \in DOMAIN stack : IsAddress(a) /\ stack[a] \in Bytes8
  BY DEF AluTypeOK
<1>3. UNCHANGED <<sp, stack>> => SOK /\ MOK
  BY <1>2
<1>4. UNCHANGED r => ROK
  BY <1>2
<1>5. UNCHANGED f => FOK
  BY <1>2
<1>6. ASSUME NEW i \in 0..7, NEW x \in Bytes8
      PROVE  [r EXCEPT ![i] = x] \in [0..7 -> Bytes8]
  BY <1>2
<1>7. op % 8 \in 0..7 /\ (op \div 8) % 8 \in 0..7
  BY <1>1
<1>8. \A i \in 0..7 : r[i] \in Bytes8
  BY <1>2
<1> SUFFICES ROK /\ FOK /\ SOK /\ MOK
  BY <1>1 DEF AluTypeOK
<1> HIDE DEF ROK, FOK, SOK, MOK
<1>9. CASE AluStep(op)
  <2> DEFINE res == Operation((op \div 8) % 8, r[7], r[op % 8], f)
  <2>1. res[1] \in Bytes8 /\ res[2] \subseteq FlagNames
    BY <1>7, <1>8, OperationType
  <2>2. r' = [r EXCEPT ![7] = res[1]] /\ f' = res[2] /\ UNCHANGED <<sp, stack>>
    BY <1>9 DEF AluStep, Computes, A, Aside
  <2> HIDE DEF res
  <2> QED
    BY <1>3, <1>6, <2>1, <2>2 DEF ROK, FOK
<1>10. CASE CountStep(op)
  <2> DEFINE i == (op \div 8) % 8
             x == IF op % 8 = 4 THEN (r[i] + 1) % 256 ELSE (r[i] - 1) % 256
             set == [z |-> x = 0, n |-> op % 8 = 5,
                     h |-> IF op % 8 = 4 THEN r[i] % 16 = 15 ELSE r[i] % 16 = 0]
  <2>1. r' = [r EXCEPT ![i] = x] /\ f' = With(f, set) /\ UNCHANGED <<sp, stack>>
    BY <1>10 DEF CountStep, Aside
  <2>2. i \in 0..7 /\ x \in Bytes8
    <3>1. i \in 0..7 /\ r[i] \in 0..255
      BY <1>7, <1>8 DEF Bytes8
    <3> HIDE DEF i
    <3> QED
      BY <3>1 DEF Bytes8
  <2>3. DOMAIN set \subseteq FlagNames
    BY DEF FlagNames
  <2> HIDE DEF i, x, set
  <2> QED
    BY <1>2, <1>3, <1>6, <2>1, <2>2, <2>3, WithType DEF ROK, FOK
<1>11. CASE LoadStep(op)
  BY <1>3, <1>5, <1>6, <1>7, <1>8, <1>11 DEF LoadStep, Aside, ROK
<1>12. CASE AccumulatorStep(op)
  <2> DEFINE k == op \div 8
             turned == Shifted(k, r[7], Carry(f))
             adjusted == Adjusted(r[7], f)
  <2>1. k \in 0..7
    BY <1>1, <1>12 DEF AccumulatorStep
  <2>2. turned[1] \in Bytes8 /\ adjusted[1] \in Bytes8 /\ adjusted[2] \subseteq FlagNames
    BY <1>8, <2>1, CarryType, ShiftedType, AdjustedType
  <2>3. UNCHANGED <<sp, stack>>
    BY <1>12 DEF AccumulatorStep, Aside
  <2> DEFINE b == turned[1]
             out == turned[2] = 1
  <2>4. CASE k < 4
    <3>1. r' = [r EXCEPT ![7] = b] /\ f' = Flags(FALSE, FALSE, FALSE, out)
      BY <1>12, <2>1, <2>4, AccumulatorParts, Zenon DEF Computes, A
    <3>2. f' \subseteq FlagNames
      BY <3>1, Zenon DEF Flags
    <3>3. b \in Bytes8
      BY <2>2
    <3>4. r' = [r EXCEPT ![7] = b]
      BY <3>1
    <3> HIDE DEF b
    <3>5. ROK
      BY <1>6, <3>3, <3>4 DEF ROK
    <3> QED
      BY <1>3, <2>3, <3>2, <3>5 DEF FOK
  <2>5. CASE k = 4
    <3>1. r' = [r EXCEPT ![7] = adjusted[1]] /\ f' = adjusted[2]
      BY <1>12, <2>1, <2>5, AccumulatorParts, Zenon DEF Computes, A
    <3> QED
      BY <1>3, <1>6, <2>2, <2>3, <3>1 DEF ROK, FOK
  <2>6. CASE k = 5
    <3>1. r' = [r EXCEPT ![7] = 255 - r[7]] /\ f' = f \union {"n", "h"}
      BY <1>12, <2>1, <2>6, AccumulatorParts, Zenon DEF Computes, A
    <3>2. 255 - r[7] \in Bytes8 /\ f' \subseteq FlagNames
      BY <1>2, <1>8, <3>1 DEF Bytes8, FlagNames
    <3> QED
      BY <1>3, <1>6, <2>3, <3>1, <3>2 DEF ROK, FOK
  <2>7. CASE k = 6
    <3> DEFINE set == [n |-> FALSE, h |-> FALSE, c |-> TRUE]
    <3>0. DOMAIN set \subseteq FlagNames
      BY DEF FlagNames
    <3>1. r' = [r EXCEPT ![7] = r[7]] /\ f' = With(f, set)
      BY <1>12, <2>1, <2>7, AccumulatorParts, Zenon DEF Computes, A
    <3> HIDE DEF set
    <3> QED
      BY <1>2, <1>3, <1>6, <1>8, <2>3, <3>0, <3>1, WithType DEF ROK, FOK
  <2>8. CASE k = 7
    <3> DEFINE set == [n |-> FALSE, h |-> FALSE, c |-> "c" \notin f]
    <3>0. DOMAIN set \subseteq FlagNames
      BY DEF FlagNames
    <3>1. r' = [r EXCEPT ![7] = r[7]] /\ f' = With(f, set)
      BY <1>12, <2>1, <2>8, AccumulatorParts, Zenon DEF Computes, A
    <3> HIDE DEF set
    <3> QED
      BY <1>2, <1>3, <1>6, <1>8, <2>3, <3>0, <3>1, WithType DEF ROK, FOK
  <2> HIDE DEF k
  <2> QED
    BY <2>1, <2>4, <2>5, <2>6, <2>7, <2>8
<1>13. CASE WideStep(op)
  <2> DEFINE i == op \div 16
             v == IF i = SP THEN sp ELSE Pair(r, i)
             hl == Pair(r, HL)
             moved == IF op % 16 = 3 THEN (v + 1) % 65536 ELSE (v - 1) % 65536
             set == [n |-> FALSE, h |-> (hl % 4096) + (v % 4096) > 4095, c |-> hl + v > 65535]
  <2>1. i \in 0..3 /\ (i # SP => i \in 0..2) /\ HL \in 0..2
    BY <1>1, <1>13 DEF WideStep, SP, HL
  <2>2. IsAddress(v) /\ IsAddress(hl)
    BY <1>2, <2>1, PairType
  <2>3. /\ UNCHANGED stack
        /\ \/ r' = SetPair(r, HL, (hl + v) % 65536) /\ f' = With(f, set) /\ UNCHANGED sp
           \/ i = SP /\ sp' = moved /\ UNCHANGED <<r, f>>
           \/ i # SP /\ r' = SetPair(r, i, moved) /\ UNCHANGED <<sp, f>>
    BY <1>13 DEF WideStep
  <2>4. DOMAIN set \subseteq FlagNames
    BY DEF FlagNames
  <2> HIDE DEF v, hl, set
  <2>5. v \in Int /\ hl \in Int
    BY <2>2 DEF IsAddress
  <2>6. IsAddress(moved) /\ IsAddress((hl + v) % 65536)
    BY <2>5, RoundType
  <2> DEFINE total == (hl + v) % 65536
  <2> HIDE DEF moved, i
  <2>7. CASE r' = SetPair(r, HL, total) /\ f' = With(f, set) /\ UNCHANGED sp
    <3>1. IsAddress(total)
      BY <2>6
    <3> HIDE DEF total
    <3>2. SetPair(r, HL, total) \in [0..7 -> Bytes8] /\ With(f, set) \subseteq FlagNames
      BY <1>2, <2>1, <2>4, <3>1, SetPairType, WithType
    <3> QED
      BY <1>3, <2>3, <2>7, <3>2 DEF ROK, FOK
  <2>8. CASE i = SP /\ sp' = moved /\ UNCHANGED <<r, f>>
    BY <1>2, <1>4, <1>5, <2>3, <2>6, <2>8 DEF SOK, MOK
  <2>9. CASE i # SP /\ r' = SetPair(r, i, moved) /\ UNCHANGED <<sp, f>>
    <3>0. i \in 0..2 /\ IsAddress(moved)
      BY <2>1, <2>6, <2>9
    <3>1. SetPair(r, i, moved) \in [0..7 -> Bytes8]
      BY <1>2, <3>0, SetPairType
    <3> QED
      BY <1>3, <1>5, <2>3, <2>9, <3>1 DEF ROK
  <2> QED
    BY <2>3, <2>7, <2>8, <2>9
<1>14. CASE PrefixedStep(op)
  <2> DEFINE i == op % 8
             bit == (op \div 8) % 8
             turned == Shifted(bit, r[i], Carry(f))
             on == Bit(r[i], bit) = 1
  <2>1. UNCHANGED <<sp, stack>>
    BY <1>14 DEF PrefixedStep, Aside
  <2>2. turned[1] \in Bytes8
    BY <1>7, <1>8, CarryType, ShiftedType
  <2>3. CASE op \in 320..383
    <3> DEFINE set == [z |-> ~on, n |-> FALSE, h |-> TRUE]
    <3>1. f' = With(f, set) /\ UNCHANGED r
      BY <1>14, <2>3 DEF PrefixedStep
    <3>2. DOMAIN set \subseteq FlagNames
      BY DEF FlagNames
    <3> HIDE DEF set
    <3> QED
      BY <1>2, <1>3, <1>4, <2>1, <3>1, <3>2, WithType DEF FOK
  <2>4. CASE op \in 384..447
    <3>1. r' = [r EXCEPT ![i] = Reset(r[i], bit)] /\ UNCHANGED f
      BY <1>14, <2>4 DEF PrefixedStep
    <3>2. Reset(r[i], bit) \in Bytes8
      BY <1>7, <1>8, OneBit
    <3> QED
      BY <1>3, <1>5, <1>6, <1>7, <2>1, <3>1, <3>2 DEF ROK
  <2>5. CASE op \notin 320..383 /\ op \notin 384..447 /\ op < 320
    <3>1. r' = [r EXCEPT ![i] = turned[1]] /\ f' = Flags(turned[1] = 0, FALSE, FALSE, turned[2] = 1)
      BY <1>14, <2>5, PrefixedParts, Zenon
    <3>2. f' \subseteq FlagNames
      BY <3>1, Zenon DEF Flags
    <3> QED
      BY <1>3, <1>6, <1>7, <2>1, <2>2, <3>1, <3>2 DEF ROK, FOK
  <2>6. CASE op \notin 320..383 /\ op \notin 384..447 /\ ~(op < 320)
    <3> DEFINE x == IF Bit(r[i], bit) = 1 THEN r[i] ELSE r[i] + 2 ^ bit
    <3>1. r' = [r EXCEPT ![i] = x] /\ UNCHANGED f
      BY <1>14, <2>6, PrefixedParts, Zenon
    <3>2. x \in Bytes8
      BY <1>7, <1>8, OneBit
    <3> HIDE DEF x
    <3> QED
      BY <1>3, <1>5, <1>6, <1>7, <2>1, <3>1, <3>2 DEF ROK
  <2> QED
    BY <2>3, <2>4, <2>5, <2>6
<1>15. CASE PushStep(op)
  <2> DEFINE i == (op \div 16) % 4
             hi == IF i = 3 THEN r[7] ELSE r[2 * i]
             lo == IF i = 3 THEN FlagByte(f) ELSE r[2 * i + 1]
             top == (sp - 1) % 65536
             next == (sp - 2) % 65536
  <2>1. stack' = Stored(Stored(stack, top, hi), next, lo) /\ sp' = next /\ UNCHANGED <<r, f>>
    BY <1>15 DEF PushStep, A
  <2>2. IsAddress(top) /\ IsAddress(next)
    BY <1>2 DEF IsAddress
  <2>3. hi \in Bytes8 /\ lo \in Bytes8
    <3>1. i \in 0..3
      BY <1>1
    <3> HIDE DEF i
    <3>2. i # 3 => 2 * i \in 0..7 /\ 2 * i + 1 \in 0..7
      BY <3>1
    <3> QED
      BY <1>8, <3>2, FlagByteType
  <2> HIDE DEF hi, lo, top, next
  <2> DEFINE mem == Stored(stack, top, hi)
  <2>4. \A a \in DOMAIN mem : IsAddress(a) /\ mem[a] \in Bytes8
    BY <1>2, <2>2, <2>3, StoredType
  <2>5. \A a \in DOMAIN Stored(mem, next, lo) : IsAddress(a) /\ Stored(mem, next, lo)[a] \in Bytes8
    <3> HIDE DEF mem
    <3> QED
      BY <2>2, <2>3, <2>4, StoredType
  <2> QED
    BY <1>4, <1>5, <2>1, <2>2, <2>5 DEF SOK, MOK
<1>16. CASE PopStep(op)
  <2> DEFINE i == (op \div 16) % 4
             lo == At(stack, sp)
             hi == At(stack, (sp + 1) % 65536)
  <2>1. lo \in Bytes8 /\ hi \in Bytes8
    BY AtType
  <2>2. /\ IF i = 3 THEN r' = [r EXCEPT ![7] = hi] /\ f' = FromFlagByte(lo)
           ELSE r' = SetPair(r, i, Word(hi, lo)) /\ UNCHANGED f
        /\ sp' = (sp + 2) % 65536 /\ UNCHANGED stack
    BY <1>16 DEF PopStep, A
  <2>3. i \in 0..3
    BY <1>1
  <2> HIDE DEF i, lo, hi
  <2>4. IsAddress(Word(hi, lo))
    BY <2>1 DEF Word, Bytes8, IsAddress
  <2>5. IsAddress((sp + 2) % 65536) /\ FromFlagByte(lo) \subseteq FlagNames
    BY <1>2 DEF IsAddress, FromFlagByte
  <2>6. SOK /\ MOK
    BY <1>2, <2>2, <2>5 DEF SOK, MOK
  <2>7. CASE i = 3
    BY <1>6, <2>1, <2>2, <2>5, <2>6, <2>7 DEF ROK, FOK
  <2>8. CASE i # 3
    <3> DEFINE w == Word(hi, lo)
    <3>1. IsAddress(w) /\ i \in 0..2 /\ r' = SetPair(r, i, w)
      BY <2>2, <2>3, <2>4, <2>8
    <3> HIDE DEF w
    <3>2. r' \in [0..7 -> Bytes8]
      BY <1>2, <3>1, SetPairType
    <3> QED
      BY <1>5, <2>2, <2>6, <2>8, <3>2 DEF ROK
  <2> QED
    BY <2>7, <2>8
<1>17. CASE PointerStep(op)
  <2> DEFINE e == routine.regs[3]
             res == Offset(sp, e)
  <2>1. e \in Bytes8
    BY DEF RoutineOK
  <2>2. IsAddress(res[1])
    BY <1>2, <2>1, SMTT(30) DEF Offset, IsAddress, Bytes8
  <2>3. res[2] \subseteq FlagNames
    <3> DEFINE h == (sp % 16) + (e % 16) > 15
               c == (sp % 256) + e > 255
    <3>1. res[2] = Flags(FALSE, FALSE, h, c)
      BY DEF Offset
    <3> QED
      BY <3>1, Zenon DEF Flags
  <2>4. /\ UNCHANGED stack
        /\ \/ sp' = res[1] /\ f' = res[2] /\ UNCHANGED r
           \/ r' = SetPair(r, 2, res[1]) /\ f' = res[2] /\ UNCHANGED sp
           \/ sp' = Pair(r, 2) /\ UNCHANGED <<r, f>>
    BY <1>17 DEF PointerStep, HL
  <2> HIDE DEF res
  <2>5. MOK
    BY <1>2, <2>4 DEF MOK
  <2> QED
    <3> DEFINE v == res[1]
               flags == res[2]
    <3> HIDE DEF v, flags
    <3>1. CASE sp' = v /\ f' = flags /\ UNCHANGED r
      BY <1>4, <2>2, <2>3, <2>5, <3>1 DEF FOK, SOK, v, flags
    <3>2. CASE r' = SetPair(r, 2, v) /\ f' = flags /\ UNCHANGED sp
      <4>1. SetPair(r, 2, v) \in [0..7 -> Bytes8]
        BY <1>2, <2>2, SetPairType DEF v
      <4> QED
        BY <1>2, <2>3, <2>5, <3>2, <4>1 DEF ROK, FOK, SOK, flags
    <3>3. CASE sp' = Pair(r, 2) /\ UNCHANGED <<r, f>>
      BY <1>2, <1>4, <1>5, <2>5, <3>3, PairType DEF SOK
    <3> QED
      BY <2>4, <3>1, <3>2, <3>3 DEF v, flags
<1> QED
  BY <1>9, <1>10, <1>11, <1>12, <1>13, <1>14, <1>15, <1>16, <1>17, Instructions DEF op

-----------------------------------------------------------------------------
(* The routines.  Each has an invariant that says what the registers hold  *)
(* on the way, and a lemma that every instruction keeps it.                *)

\* What every step of a routine has in common.
LEMMA RoutineRuns ==
  ASSUME routine \in Routines, AluTypeOK, AluNext
  PROVE  /\ done \in Nat /\ done < Len(routine.code) /\ done' = done + 1
         /\ routine' = routine /\ Regs' = Regs
         /\ Regs \in [0..7 -> 0..255] /\ r \in [0..7 -> 0..255] /\ r' \in [0..7 -> 0..255]
         /\ routine.code = Code(routine.name, Regs)
<1>1. /\ done \in Nat /\ done < Len(routine.code) /\ done' = done + 1 /\ routine' = routine
      /\ r \in [0..7 -> 0..255]
  BY Instructions DEF AluTypeOK, Bytes8
<1>2. Regs \in [0..7 -> 0..255] /\ routine.code = Code(routine.name, Regs)
  BY AluAssumption DEF Regs, Bytes8
<1>3. r' \in [0..7 -> 0..255]
  <2>1. AluTypeOK'
    BY RoutineFits, TypeKept
  <2> QED
    BY <2>1 DEF AluTypeOK, Bytes8
<1> QED
  BY <1>1, <1>2, <1>3 DEF Regs

LEMMA RegsWords ==
  ASSUME routine \in Routines
  PROVE  IsAddress(Pair(Regs, 0)) /\ IsAddress(Pair(Regs, 1)) /\ IsAddress(Pair(Regs, 2))
<1>1. Regs \in [0..7 -> Bytes8]
  BY AluAssumption DEF Regs
<1>2. 0 \in 0..2 /\ 1 \in 0..2 /\ 2 \in 0..2
  OBVIOUS
<1> QED
  BY <1>1, <1>2, PairType

LEMMA RegsBytes ==
  ASSUME routine \in Routines
  PROVE  \A i \in 0..7 : Regs[i] \in 0..255
<1>1. Regs \in [0..7 -> Bytes8]
  BY AluAssumption DEF Regs
<1>2. Regs \in [0..7 -> 0..255]
  BY <1>1 DEF Bytes8
<1> QED
  BY <1>2

LEMMA ByteMinus ==
  ASSUME NEW d \in Int, d >= -256, d <= 255
  PROVE  d % 256 = IF d < 0 THEN d + 256 ELSE d
OBVIOUS

\* At first everything is as the routine has it.
AtStart == done = 0 => r = Regs /\ f = routine.flags /\ sp = StackTop /\ stack = <<>>

LEMMA PairSet ==
  ASSUME NEW regs \in [0..7 -> 0..255], NEW i \in 0..2, NEW v, IsAddress(v)
  PROVE  /\ Pair(SetPair(regs, i, v), i) = v
         /\ SetPair(regs, i, v)[2 * i] = v \div 256 /\ SetPair(regs, i, v)[2 * i + 1] = v % 256
         /\ \A j \in 0..7 \ {2 * i, 2 * i + 1} : SetPair(regs, i, v)[j] = regs[j]
<1> DEFINE new == SetPair(regs, i, v)
<1>1. /\ new[2 * i] = v \div 256 /\ new[2 * i + 1] = v % 256
      /\ \A j \in 0..7 \ {2 * i, 2 * i + 1} : new[j] = regs[j]
  BY DEF SetPair
<1>2. v = 256 * (v \div 256) + (v % 256)
  BY DEF IsAddress
<1> HIDE DEF new
<1>3. Pair(new, i) = v
  BY <1>1, <1>2 DEF Pair, Word
<1> QED
  BY <1>1, <1>3 DEF new

OthersKept(i, j) == \A k \in 0..7 \ {i, j} : r'[k] = r[k]

LEMMA WidesAre ==
  ASSUME AluTypeOK, AluNext, Opcode \in {9, 35, 43}
  PROVE  LET x == CASE Opcode = 9 -> (Pair(r, 2) + Pair(r, 0)) % 65536
                    [] Opcode = 35 -> (Pair(r, 2) + 1) % 65536
                    [] Opcode = 43 -> (Pair(r, 2) - 1) % 65536
         IN /\ Pair(r', 2) = x /\ r'[4] = x \div 256 /\ r'[5] = x % 256 /\ OthersKept(4, 5)
            /\ "c" \in f' <=> IF Opcode = 9 THEN Pair(r, 2) + Pair(r, 0) > 65535 ELSE "c" \in f
<1> DEFINE x == CASE Opcode = 9 -> (Pair(r, 2) + Pair(r, 0)) % 65536
                  [] Opcode = 35 -> (Pair(r, 2) + 1) % 65536
                  [] Opcode = 43 -> (Pair(r, 2) - 1) % 65536
<1>1. r \in [0..7 -> 0..255] /\ Pair(r, 2) \in Int /\ Pair(r, 0) \in Int
  BY PairType DEF AluTypeOK, Bytes8, IsAddress
<1>2. r' = SetPair(r, 2, x)
  BY Wides
<1>3. "c" \in f' <=> IF Opcode = 9 THEN Pair(r, 2) + Pair(r, 0) > 65535 ELSE "c" \in f
  BY Wides
<1>4. IsAddress(x)
  BY <1>1, RoundType
<1> HIDE DEF x
<1>5. /\ Pair(r', 2) = x /\ r'[2 * 2] = x \div 256 /\ r'[2 * 2 + 1] = x % 256
      /\ \A j \in 0..7 \ {2 * 2, 2 * 2 + 1} : r'[j] = r[j]
  <2>1. 2 \in 0..2
    OBVIOUS
  <2> QED
    BY <1>1, <1>2, <1>4, <2>1, PairSet
<1>6. Pair(r', 2) = x /\ r'[4] = x \div 256 /\ r'[5] = x % 256 /\ OthersKept(4, 5)
  BY <1>5 DEF OthersKept
<1> QED
  BY <1>3, <1>6 DEF x

LEMMA AddsAre ==
  ASSUME AluTypeOK, AluNext
  PROVE  /\ Opcode = 129 => /\ Sets(7, (r[7] + r[1]) % 256)
                            /\ "c" \in f' <=> r[7] + r[1] > 255
         /\ Opcode = 136 => /\ Sets(7, (r[7] + r[0] + Carry(f)) % 256)
                            /\ "c" \in f' <=> r[7] + r[0] + Carry(f) > 255
                            /\ "h" \in f' <=> (r[7] % 16) + (r[0] % 16) + Carry(f) > 15
                            /\ "n" \notin f'
<1>1. r[7] \in Bytes8 /\ r[1] \in Bytes8 /\ r[0] \in Bytes8 /\ 0 \in {0, 1} /\ Carry(f) \in {0, 1}
  BY CarryType DEF AluTypeOK
<1>2. CASE Opcode = 129
  <2> DEFINE a == r[7]
             v == r[1]
  <2>1. Sets(7, Sum(a, v, 0)[1]) /\ f' = Sum(a, v, 0)[2]
    BY <1>2, Sums
  <2>2. a \in Bytes8 /\ v \in Bytes8 /\ 0 \in {0, 1}
    BY <1>1
  <2> HIDE DEF a, v
  <2>a. SumIs(a, v, 0)
    BY <2>2, SumFlags
  <2>3. /\ Sum(a, v, 0)[1] = (a + v + 0) % 256
        /\ "c" \in Sum(a, v, 0)[2] <=> a + v + 0 > 255
    BY <2>a DEF SumIs
  <2>4. a + v + 0 = a + v
    BY <2>2 DEF Bytes8
  <2>5. Sets(7, (a + v) % 256) /\ ("c" \in f' <=> a + v > 255)
    BY <2>1, <2>3, <2>4
  <2> QED
    BY <1>2, <2>5 DEF a, v
<1>3. CASE Opcode = 136
  <2> DEFINE a == r[7]
             v == r[0]
             c == Carry(f)
  <2>1. Sets(7, Sum(a, v, c)[1]) /\ f' = Sum(a, v, c)[2]
    BY <1>3, Sums
  <2>2. a \in Bytes8 /\ v \in Bytes8 /\ c \in {0, 1}
    BY <1>1
  <2> HIDE DEF a, v, c
  <2>a. SumIs(a, v, c)
    BY <2>2, SumFlags
  <2>3. /\ Sum(a, v, c)[1] = (a + v + c) % 256
        /\ "c" \in Sum(a, v, c)[2] <=> a + v + c > 255
        /\ "h" \in Sum(a, v, c)[2] <=> (a % 16) + (v % 16) + c > 15
        /\ "n" \notin Sum(a, v, c)[2]
    BY <2>a DEF SumIs
  <2>4. /\ Sets(7, (a + v + c) % 256)
        /\ "c" \in f' <=> a + v + c > 255
        /\ "h" \in f' <=> (a % 16) + (v % 16) + c > 15
        /\ "n" \notin f'
    BY <2>1, <2>3
  <2> QED
    BY <1>3, <2>4 DEF a, v, c
<1>4. CASE Opcode # 129 /\ Opcode # 136
  BY <1>4
<1> QED
  BY <1>2, <1>3, <1>4

LEMMA SubtractsAre ==
  ASSUME AluTypeOK, AluNext
  PROVE  /\ Opcode = 145 => /\ Sets(7, (r[7] - r[1]) % 256)
                            /\ "c" \in f' <=> r[7] < r[1]
         /\ Opcode = 152 => /\ Sets(7, (r[7] - r[0] - Carry(f)) % 256)
                            /\ "c" \in f' <=> r[7] < r[0] + Carry(f)
                            /\ "h" \in f' <=> r[7] % 16 < (r[0] % 16) + Carry(f)
                            /\ "n" \in f'
         /\ Opcode = 184 => /\ r' = r
                            /\ "c" \in f' <=> r[7] < r[0]
                            /\ "z" \in f' <=> r[7] = r[0]
<1>1. r[7] \in Bytes8 /\ r[1] \in Bytes8 /\ r[0] \in Bytes8 /\ 0 \in {0, 1} /\ Carry(f) \in {0, 1}
  BY CarryType DEF AluTypeOK
<1>2. CASE Opcode = 145
  <2> DEFINE a == r[7]
             v == r[1]
  <2>1. Sets(7, Difference(a, v, 0)[1]) /\ f' = Difference(a, v, 0)[2]
    BY <1>2, Differences
  <2>2. a \in Bytes8 /\ v \in Bytes8 /\ 0 \in {0, 1}
    BY <1>1
  <2> HIDE DEF a, v
  <2>a. DifferenceIs(a, v, 0)
    BY <2>2, DifferenceFlags
  <2>3. "c" \in Difference(a, v, 0)[2] <=> a < v + 0
    BY <2>a DEF DifferenceIs
  <2>6. Difference(a, v, 0)[1] = (a - v - 0) % 256
    BY DEF Difference
  <2>4. a - v - 0 = a - v /\ v + 0 = v
    BY <2>2 DEF Bytes8
  <2>5. Sets(7, (a - v) % 256) /\ ("c" \in f' <=> a < v)
    BY <2>1, <2>3, <2>4, <2>6
  <2> QED
    BY <1>2, <2>5 DEF a, v
<1>3. CASE Opcode = 152
  <2> DEFINE a == r[7]
             v == r[0]
             c == Carry(f)
  <2>1. Sets(7, Difference(a, v, c)[1]) /\ f' = Difference(a, v, c)[2]
    BY <1>3, Differences
  <2>2. a \in Bytes8 /\ v \in Bytes8 /\ c \in {0, 1}
    BY <1>1
  <2> HIDE DEF a, v, c
  <2>a. DifferenceIs(a, v, c)
    BY <2>2, DifferenceFlags
  <2>3. /\ "c" \in Difference(a, v, c)[2] <=> a < v + c
        /\ "h" \in Difference(a, v, c)[2] <=> a % 16 < (v % 16) + c
        /\ "n" \in Difference(a, v, c)[2]
    BY <2>a DEF DifferenceIs
  <2>5. Difference(a, v, c)[1] = (a - v - c) % 256
    BY DEF Difference
  <2>4. /\ Sets(7, (a - v - c) % 256)
        /\ "c" \in f' <=> a < v + c
        /\ "h" \in f' <=> a % 16 < (v % 16) + c
        /\ "n" \in f'
    BY <2>1, <2>3, <2>5
  <2> QED
    BY <1>3, <2>4 DEF a, v, c
<1>4. CASE Opcode = 184
  <2> DEFINE a == r[7]
             v == r[0]
  <2>1. r' = r /\ f' = Difference(a, v, 0)[2]
    BY <1>4, Differences
  <2>2. a \in Bytes8 /\ v \in Bytes8 /\ 0 \in {0, 1}
    BY <1>1
  <2> HIDE DEF a, v
  <2>a. DifferenceIs(a, v, 0)
    BY <2>2, DifferenceFlags
  <2>3. /\ "c" \in Difference(a, v, 0)[2] <=> a < v + 0
        /\ "z" \in Difference(a, v, 0)[2] <=> (a - v - 0) % 256 = 0
    BY <2>a DEF DifferenceIs
  <2>4. v + 0 = v /\ ((a - v - 0) % 256 = 0 <=> a = v)
    <3>1. v + 0 = v /\ a - v - 0 = a - v /\ a - v \in -255..255
      BY <2>2 DEF Bytes8
    <3>2. ASSUME NEW d \in -255..255
          PROVE  d % 256 = IF d < 0 THEN d + 256 ELSE d
      OBVIOUS
    <3>3. (a - v) % 256 = IF a - v < 0 THEN a - v + 256 ELSE a - v
      BY <3>1, <3>2
    <3> QED
      BY <2>2, <3>1, <3>3 DEF Bytes8
  <2>5. ("c" \in f' <=> a < v) /\ ("z" \in f' <=> a = v)
    BY <2>1, <2>3, <2>4
  <2> QED
    BY <1>4, <2>1, <2>5 DEF a, v
<1>5. CASE Opcode # 145 /\ Opcode # 152 /\ Opcode # 184
  BY <1>5
<1> QED
  BY <1>2, <1>3, <1>4, <1>5

\* The same with the carry as a number.
LEMMA CarryMoves ==
  ASSUME AluTypeOK, AluNext
  PROVE  /\ Opcode = 129 => Carry(f') = IF r[7] + r[1] > 255 THEN 1 ELSE 0
         /\ Opcode = 136 => Carry(f') = IF r[7] + r[0] + Carry(f) > 255 THEN 1 ELSE 0
         /\ Opcode = 145 => Carry(f') = IF r[7] < r[1] THEN 1 ELSE 0
         /\ Opcode = 152 => Carry(f') = IF r[7] < r[0] + Carry(f) THEN 1 ELSE 0
         /\ Opcode = 9 => Carry(f') = IF Pair(r, 2) + Pair(r, 0) > 65535 THEN 1 ELSE 0
<1> DEFINE c == Carry(f)
<1>1. /\ Opcode = 129 => ("c" \in f' <=> r[7] + r[1] > 255)
      /\ Opcode = 136 => ("c" \in f' <=> r[7] + r[0] + c > 255)
  BY AddsAre
<1>2. /\ Opcode = 145 => ("c" \in f' <=> r[7] < r[1])
      /\ Opcode = 152 => ("c" \in f' <=> r[7] < r[0] + c)
  BY SubtractsAre
<1>3. Opcode = 9 => ("c" \in f' <=> Pair(r, 2) + Pair(r, 0) > 65535)
  BY WidesAre
<1> HIDE DEF c
<1>4. /\ Opcode = 129 => Carry(f') = IF r[7] + r[1] > 255 THEN 1 ELSE 0
      /\ Opcode = 136 => Carry(f') = IF r[7] + r[0] + c > 255 THEN 1 ELSE 0
      /\ Opcode = 145 => Carry(f') = IF r[7] < r[1] THEN 1 ELSE 0
      /\ Opcode = 152 => Carry(f') = IF r[7] < r[0] + c THEN 1 ELSE 0
      /\ Opcode = 9 => Carry(f') = IF Pair(r, 2) + Pair(r, 0) > 65535 THEN 1 ELSE 0
  BY <1>1, <1>2, <1>3 DEF Carry
<1> QED
  BY <1>4 DEF c

LEMMA CarryStays ==
  ASSUME AluTypeOK, AluNext
  PROVE  /\ Opcode \in {35, 43, 44, 45} => Carry(f') = Carry(f)
         /\ Opcode = 23 => Carry(f') = r[7] \div 128
         /\ Opcode = 55 => Carry(f') = 1
         /\ Opcode = 63 => Carry(f') = 1 - Carry(f)
<1>1. Opcode \in {35, 43} => ("c" \in f' <=> "c" \in f)
  BY WidesAre
<1>2. Opcode \in {44, 45} => ("c" \in f' <=> "c" \in f)
  BY Counts
<1>3. Opcode = 23 => ("c" \in f' <=> r[7] > 127)
  BY TurnsLeft
<1>4. (Opcode = 55 => "c" \in f') /\ (Opcode = 63 => ("c" \in f' <=> "c" \notin f))
  BY Carries
<1>5. r[7] \in 0..255
  BY DEF AluTypeOK, Bytes8
<1>6. r[7] \div 128 = IF r[7] > 127 THEN 1 ELSE 0
  BY <1>5
<1> QED
  BY <1>1, <1>2, <1>3, <1>4, <1>6 DEF Carry

\* Rotations and shifts in numbers.
LEMMA RotatesAre ==
  ASSUME AluTypeOK, AluNext
  PROVE  /\ Opcode = 293 => Sets(5, (2 * r[5]) % 256) /\ Carry(f') = r[5] \div 128
         /\ Opcode = 276 => Sets(4, ((2 * r[4]) % 256) + Carry(f)) /\ Carry(f') = r[4] \div 128
         /\ Opcode = 316 => Sets(4, r[4] \div 2) /\ Carry(f') = r[4] % 2
         /\ Opcode = 285 => Sets(5, (r[5] \div 2) + 128 * Carry(f)) /\ Carry(f') = r[5] % 2
         /\ Opcode = 256 => Sets(0, ((2 * r[0]) % 256) + (r[0] \div 128))
         /\ Opcode = 304 => Sets(0, 16 * (r[0] % 16) + (r[0] \div 16))
<1>1. r[5] \in Bytes8 /\ r[4] \in Bytes8 /\ r[0] \in Bytes8
  BY DEF AluTypeOK
<1>2. /\ Bit(r[5], 7) = r[5] \div 128 /\ Bit(r[4], 7) = r[4] \div 128 /\ Bit(r[0], 7) = r[0] \div 128
      /\ Bit(r[5], 0) = r[5] % 2 /\ Bit(r[4], 0) = r[4] % 2
  BY <1>1, EveryBit
<1>3. ASSUME NEW x \in 0..1, "c" \in f' <=> x = 1
      PROVE  Carry(f') = x
  BY <1>3 DEF Carry
<1>4. ASSUME Opcode = 293 PROVE Sets(5, (2 * r[5]) % 256) /\ Carry(f') = r[5] \div 128
  <2>1. Shifted(4, r[5], Carry(f)) = <<(2 * r[5]) % 256, Bit(r[5], 7)>>
    BY DEF Shifted
  <2>2. Sets(5, Shifted(4, r[5], Carry(f))[1]) /\ ("c" \in f' <=> Shifted(4, r[5], Carry(f))[2] = 1)
    <3>1. 5 \in 0..7 /\ 4 \in 0..7 /\ Opcode = 256 + 8 * 4 + 5
      BY <1>4
    <3> QED
      BY <3>1, Rotates
  <2>3. r[5] \div 128 \in 0..1
    BY <1>1 DEF Bytes8
  <2> QED
    BY <1>2, <1>3, <2>1, <2>2, <2>3
<1>5. ASSUME Opcode = 276 PROVE Sets(4, ((2 * r[4]) % 256) + Carry(f)) /\ Carry(f') = r[4] \div 128
  <2>1. Shifted(2, r[4], Carry(f)) = <<((2 * r[4]) % 256) + Carry(f), Bit(r[4], 7)>>
    BY DEF Shifted
  <2>2. Sets(4, Shifted(2, r[4], Carry(f))[1]) /\ ("c" \in f' <=> Shifted(2, r[4], Carry(f))[2] = 1)
    <3>1. 4 \in 0..7 /\ 2 \in 0..7 /\ Opcode = 256 + 8 * 2 + 4
      BY <1>5
    <3> QED
      BY <3>1, Rotates
  <2>3. r[4] \div 128 \in 0..1
    BY <1>1 DEF Bytes8
  <2> QED
    BY <1>2, <1>3, <2>1, <2>2, <2>3
<1>6. ASSUME Opcode = 316 PROVE Sets(4, r[4] \div 2) /\ Carry(f') = r[4] % 2
  <2>1. Shifted(7, r[4], Carry(f)) = <<r[4] \div 2, Bit(r[4], 0)>>
    BY DEF Shifted
  <2>2. Sets(4, Shifted(7, r[4], Carry(f))[1]) /\ ("c" \in f' <=> Shifted(7, r[4], Carry(f))[2] = 1)
    <3>1. 4 \in 0..7 /\ 7 \in 0..7 /\ Opcode = 256 + 8 * 7 + 4
      BY <1>6
    <3> QED
      BY <3>1, Rotates
  <2>3. r[4] % 2 \in 0..1
    BY <1>1 DEF Bytes8
  <2> QED
    BY <1>2, <1>3, <2>1, <2>2, <2>3
<1>7. ASSUME Opcode = 285 PROVE Sets(5, (r[5] \div 2) + 128 * Carry(f)) /\ Carry(f') = r[5] % 2
  <2>1. Shifted(3, r[5], Carry(f)) = <<(r[5] \div 2) + 128 * Carry(f), Bit(r[5], 0)>>
    BY DEF Shifted
  <2>2. Sets(5, Shifted(3, r[5], Carry(f))[1]) /\ ("c" \in f' <=> Shifted(3, r[5], Carry(f))[2] = 1)
    <3>1. 5 \in 0..7 /\ 3 \in 0..7 /\ Opcode = 256 + 8 * 3 + 5
      BY <1>7
    <3> QED
      BY <3>1, Rotates
  <2>3. r[5] % 2 \in 0..1
    BY <1>1 DEF Bytes8
  <2> QED
    BY <1>2, <1>3, <2>1, <2>2, <2>3
<1>8. ASSUME Opcode = 256 PROVE Sets(0, ((2 * r[0]) % 256) + (r[0] \div 128))
  <2>1. Shifted(0, r[0], Carry(f)) = <<((2 * r[0]) % 256) + Bit(r[0], 7), Bit(r[0], 7)>>
    BY DEF Shifted
  <2>2. Sets(0, Shifted(0, r[0], Carry(f))[1])
    <3>1. 0 \in 0..7 /\ Opcode = 256 + 8 * 0 + 0
      BY <1>8
    <3> QED
      BY <3>1, Rotates
  <2> QED
    BY <1>2, <2>1, <2>2
<1>9. ASSUME Opcode = 304 PROVE Sets(0, 16 * (r[0] % 16) + (r[0] \div 16))
  <2>1. Shifted(6, r[0], Carry(f)) = <<16 * (r[0] % 16) + (r[0] \div 16), 0>>
    BY DEF Shifted
  <2>2. Sets(0, Shifted(6, r[0], Carry(f))[1])
    <3>1. 0 \in 0..7 /\ 6 \in 0..7 /\ Opcode = 256 + 8 * 6 + 0
      BY <1>9
    <3> QED
      BY <3>1, Rotates
  <2> QED
    BY <2>1, <2>2
<1> QED
  BY <1>4, <1>5, <1>6, <1>7, <1>8, <1>9

\* The two words the routines start with, and their parts added.
WordX == Pair(Regs, 2)
WordY == Pair(Regs, 0)
Total == IF WordX + WordY > 65535 THEN WordX + WordY - 65536 ELSE WordX + WordY
Over == IF WordX + WordY > 65535 THEN 1 ELSE 0
LowTotal == (Regs[5] + Regs[1]) % 256
LowOver == IF Regs[5] + Regs[1] > 255 THEN 1 ELSE 0
Rest == IF WordX < WordY THEN WordX - WordY + 65536 ELSE WordX - WordY
Borrow == IF WordX < WordY THEN 1 ELSE 0
LowRest == (Regs[5] - Regs[1]) % 256
LowBorrow == IF Regs[5] < Regs[1] THEN 1 ELSE 0

LEMMA WordsOfRegs ==
  ASSUME routine \in Routines
  PROVE  /\ WordX = 256 * Regs[4] + Regs[5] /\ WordY = 256 * Regs[0] + Regs[1]
         /\ IsAddress(WordX) /\ IsAddress(WordY)
         /\ Total = (WordX + WordY) % 65536 /\ Rest = (WordX - WordY) % 65536
         /\ (Rest + WordY) % 65536 = WordX
<1>1. IsAddress(WordX) /\ IsAddress(WordY)
  BY RegsWords DEF WordX, WordY
<1>2. WordX = 256 * Regs[4] + Regs[5] /\ WordY = 256 * Regs[0] + Regs[1]
  BY DEF WordX, WordY, Pair, Word
<1>3. Total = (WordX + WordY) % 65536 /\ Rest = (WordX - WordY) % 65536
  BY <1>1 DEF Total, Rest, IsAddress
<1>4. (Rest + WordY) % 65536 = WordX
  BY <1>1 DEF Rest, IsAddress
<1> QED
  BY <1>1, <1>2, <1>3, <1>4

\* Words are added and subtracted by their bytes.
LEMMA RegsByBytes ==
  ASSUME routine \in Routines
  PROVE  /\ 256 * ((Regs[4] + Regs[0] + LowOver) % 256) + LowTotal = Total
         /\ (IF Regs[4] + Regs[0] + LowOver > 255 THEN 1 ELSE 0) = Over
         /\ 256 * ((Regs[4] - Regs[0] - LowBorrow) % 256) + LowRest = Rest
         /\ (IF Regs[4] < Regs[0] + LowBorrow THEN 1 ELSE 0) = Borrow
<1> DEFINE h == Regs[4]
           l == Regs[5]
           b == Regs[0]
           c == Regs[1]
           x == WordX
           y == WordY
           k == LowOver
           m == LowBorrow
           t == Total
           e == Rest
<1>1. h \in 0..255 /\ l \in 0..255 /\ b \in 0..255 /\ c \in 0..255
  <2>1. Regs \in [0..7 -> Bytes8]
    BY AluAssumption DEF Regs
  <2>2. Regs \in [0..7 -> 0..255]
    BY <2>1 DEF Bytes8
  <2> QED
    BY <2>2
<1>2. x = 256 * h + l /\ y = 256 * b + c
  BY WordsOfRegs
<1>3. (k = IF l + c > 255 THEN 1 ELSE 0) /\ LowTotal = (l + c) % 256
  BY DEF LowOver, LowTotal
<1>4. (m = IF l < c THEN 1 ELSE 0) /\ LowRest = (l - c) % 256
  BY DEF LowBorrow, LowRest
<1>5. (t = IF x + y > 65535 THEN x + y - 65536 ELSE x + y) /\ Over = IF x + y > 65535 THEN 1 ELSE 0
  BY DEF Total, Over
<1>6. (e = IF x < y THEN x - y + 65536 ELSE x - y) /\ Borrow = IF x < y THEN 1 ELSE 0
  BY DEF Rest, Borrow
<1> HIDE DEF h, l, b, c, x, y, k, m, t, e
<1>7. /\ 256 * ((h + b + k) % 256) + ((l + c) % 256) = t
      /\ (IF h + b + k > 255 THEN 1 ELSE 0) = (IF x + y > 65535 THEN 1 ELSE 0)
  <2>1. (l + c) % 256 = IF l + c > 255 THEN l + c - 256 ELSE l + c
    BY <1>1
  <2>2. k \in 0..1
    BY <1>3
  <2>3. (h + b + k) % 256 = IF h + b + k > 255 THEN h + b + k - 256 ELSE h + b + k
    BY <1>1, <2>2
  <2>4. 256 * ((h + b + k) % 256) + ((l + c) % 256) = t
    BY <1>1, <1>2, <1>3, <1>5, <2>1, <2>3
  <2>5. (IF h + b + k > 255 THEN 1 ELSE 0) = (IF x + y > 65535 THEN 1 ELSE 0)
    BY <1>1, <1>2, <1>3
  <2> QED
    BY <2>4, <2>5
<1>8. /\ 256 * ((h - b - m) % 256) + ((l - c) % 256) = e
      /\ (IF h < b + m THEN 1 ELSE 0) = (IF x < y THEN 1 ELSE 0)
  <2>1. (l - c) % 256 = IF l < c THEN l - c + 256 ELSE l - c
    BY <1>1, ByteMinus
  <2>2. m \in 0..1
    BY <1>4
  <2>3. (h - b - m) % 256 = IF h < b + m THEN h - b - m + 256 ELSE h - b - m
    BY <1>1, <2>2, ByteMinus
  <2>4. 256 * ((h - b - m) % 256) + ((l - c) % 256) = e
    BY <1>1, <1>2, <1>4, <1>6, <2>1, <2>3
  <2>5. (IF h < b + m THEN 1 ELSE 0) = (IF x < y THEN 1 ELSE 0)
    BY <1>1, <1>2, <1>4
  <2> QED
    BY <2>4, <2>5
<1>9. /\ 256 * ((h + b + k) % 256) + LowTotal = t
      /\ (IF h + b + k > 255 THEN 1 ELSE 0) = Over
  BY <1>3, <1>5, <1>7
<1>10. /\ 256 * ((h - b - m) % 256) + LowRest = e
       /\ (IF h < b + m THEN 1 ELSE 0) = Borrow
  BY <1>4, <1>6, <1>8
<1> QED
  BY <1>9, <1>10 DEF h, l, b, c, k, m, t, e

LEMMA AddCode ==
  ASSUME routine \in Routines, AluTypeOK, AluNext, routine.name = "add"
  PROVE  /\ Len(routine.code) = 7
         /\ routine.code[1] = 125
         /\ routine.code[2] = 129
         /\ routine.code[3] = 95
         /\ routine.code[4] = 124
         /\ routine.code[5] = 136
         /\ routine.code[6] = 87
         /\ routine.code[7] = 9
<1>1. routine.code = <<125, 129, 95, 124, 136, 87, 9>>
  BY RoutineRuns DEF Code
<1> QED
  BY <1>1

(***************************************************************************)
(* The low bytes are added to E and the high bytes to D, and the carry     *)
(* between them survives the loads.                                        *)
(***************************************************************************)
AddRun ==
  routine.name = "add" =>
    /\ done = 1 => /\ r[0] = Regs[0]
                   /\ r[1] = Regs[1]
                   /\ r[4] = Regs[4]
                   /\ r[5] = Regs[5]
                   /\ r[7] = Regs[5]
    /\ done = 2 => /\ r[0] = Regs[0]
                   /\ r[1] = Regs[1]
                   /\ r[4] = Regs[4]
                   /\ r[5] = Regs[5]
                   /\ r[7] = LowTotal
                   /\ Carry(f) = LowOver
    /\ done = 3 => /\ r[0] = Regs[0]
                   /\ r[1] = Regs[1]
                   /\ r[4] = Regs[4]
                   /\ r[5] = Regs[5]
                   /\ r[3] = LowTotal
                   /\ Carry(f) = LowOver
    /\ done = 4 => /\ r[0] = Regs[0]
                   /\ r[1] = Regs[1]
                   /\ r[4] = Regs[4]
                   /\ r[5] = Regs[5]
                   /\ r[7] = Regs[4]
                   /\ r[3] = LowTotal
                   /\ Carry(f) = LowOver
    /\ done = 5 => /\ r[0] = Regs[0]
                   /\ r[1] = Regs[1]
                   /\ r[4] = Regs[4]
                   /\ r[5] = Regs[5]
                   /\ 256 * r[7] + LowTotal = Total
                   /\ r[3] = LowTotal
                   /\ Carry(f) = Over
    /\ done = 6 => /\ r[0] = Regs[0]
                   /\ r[1] = Regs[1]
                   /\ r[4] = Regs[4]
                   /\ r[5] = Regs[5]
                   /\ Pair(r, 1) = Total
                   /\ Carry(f) = Over
    /\ done = 7 => /\ Pair(r, 1) = Total
                   /\ Pair(r, 2) = Total
                   /\ Carry(f) = Over

LEMMA AddKept ==
  ASSUME routine \in Routines, AluTypeOK, AluNext, AtStart, AddRun
  PROVE  AddRun'
<1> SUFFICES ASSUME routine.name = "add" PROVE AddRun'
  BY RoutineRuns DEF AddRun
<1>a. /\ done' = done + 1 /\ routine' = routine
      /\ Regs \in [0..7 -> 0..255] /\ r \in [0..7 -> 0..255] /\ r' \in [0..7 -> 0..255]
  BY RoutineRuns
<1>b. done \in 0..6
  <2>1. Len(routine.code) = 7
    BY AddCode
  <2>2. done \in Nat /\ done < Len(routine.code)
    BY RoutineRuns
  <2> QED
    BY <2>1, <2>2
<1>c. /\ Total' = Total /\ Over' = Over /\ LowTotal' = LowTotal /\ LowOver' = LowOver
  BY <1>a DEF Total, WordX, WordY, Over, LowTotal, LowOver, Regs
<1>1. CASE done = 0
  <2>1. r = Regs /\ f = routine.flags /\ sp = StackTop /\ stack = <<>>
    BY <1>1 DEF AtStart
  <2>2. Sets(7, r[5]) /\ UNCHANGED f
    <3>1. Opcode = 125
      BY <1>1, AddCode DEF Opcode
    <3> QED
      BY <3>1, Loads
  <2>3. /\ r'[0] = Regs[0]
        /\ r'[1] = Regs[1]
        /\ r'[4] = Regs[4]
        /\ r'[5] = Regs[5]
        /\ r'[7] = Regs[5]
    BY <1>a, <2>1, <2>2 DEF Sets, OthersKept, LowTotal, LowOver
  <2> QED
    BY <1>a, <1>c, <1>1, <2>3 DEF AddRun, Regs
<1>2. CASE done = 1
  <2>1. /\ r[0] = Regs[0]
        /\ r[1] = Regs[1]
        /\ r[4] = Regs[4]
        /\ r[5] = Regs[5]
        /\ r[7] = Regs[5]
    BY <1>2 DEF AddRun
  <2>2. Sets(7, (r[7] + r[1]) % 256) /\ Carry(f') = IF r[7] + r[1] > 255 THEN 1 ELSE 0
    <3>1. Opcode = 129
      BY <1>2, AddCode DEF Opcode
    <3> QED
      BY <3>1, AddsAre, CarryMoves
  <2>3. /\ r'[0] = Regs[0]
        /\ r'[1] = Regs[1]
        /\ r'[4] = Regs[4]
        /\ r'[5] = Regs[5]
        /\ r'[7] = LowTotal
        /\ Carry(f') = LowOver
    BY <1>a, <2>1, <2>2 DEF Sets, OthersKept, LowTotal, LowOver
  <2> QED
    BY <1>a, <1>c, <1>2, <2>3 DEF AddRun, Regs
<1>3. CASE done = 2
  <2>1. /\ r[0] = Regs[0]
        /\ r[1] = Regs[1]
        /\ r[4] = Regs[4]
        /\ r[5] = Regs[5]
        /\ r[7] = LowTotal
        /\ Carry(f) = LowOver
    BY <1>3 DEF AddRun
  <2>2. Sets(3, r[7]) /\ UNCHANGED f
    <3>1. Opcode = 95
      BY <1>3, AddCode DEF Opcode
    <3> QED
      BY <3>1, Loads
  <2>3. /\ r'[0] = Regs[0]
        /\ r'[1] = Regs[1]
        /\ r'[4] = Regs[4]
        /\ r'[5] = Regs[5]
        /\ r'[3] = LowTotal
        /\ Carry(f') = LowOver
    BY <1>a, <2>1, <2>2 DEF Sets, OthersKept, LowTotal, LowOver
  <2> QED
    BY <1>a, <1>c, <1>3, <2>3 DEF AddRun, Regs
<1>4. CASE done = 3
  <2>1. /\ r[0] = Regs[0]
        /\ r[1] = Regs[1]
        /\ r[4] = Regs[4]
        /\ r[5] = Regs[5]
        /\ r[3] = LowTotal
        /\ Carry(f) = LowOver
    BY <1>4 DEF AddRun
  <2>2. Sets(7, r[4]) /\ UNCHANGED f
    <3>1. Opcode = 124
      BY <1>4, AddCode DEF Opcode
    <3> QED
      BY <3>1, Loads
  <2>3. /\ r'[0] = Regs[0]
        /\ r'[1] = Regs[1]
        /\ r'[4] = Regs[4]
        /\ r'[5] = Regs[5]
        /\ r'[7] = Regs[4]
        /\ r'[3] = LowTotal
        /\ Carry(f') = LowOver
    BY <1>a, <2>1, <2>2 DEF Sets, OthersKept, LowTotal, LowOver
  <2> QED
    BY <1>a, <1>c, <1>4, <2>3 DEF AddRun, Regs
<1>5. CASE done = 4
  <2>1. /\ r[0] = Regs[0]
        /\ r[1] = Regs[1]
        /\ r[4] = Regs[4]
        /\ r[5] = Regs[5]
        /\ r[7] = Regs[4]
        /\ r[3] = LowTotal
        /\ Carry(f) = LowOver
    BY <1>5 DEF AddRun
  <2>2. Sets(7, (r[7] + r[0] + Carry(f)) % 256) /\ Carry(f') = IF r[7] + r[0] + Carry(f) > 255 THEN 1 ELSE 0
    <3>1. Opcode = 136
      BY <1>5, AddCode DEF Opcode
    <3> QED
      BY <3>1, AddsAre, CarryMoves
  <2>3. /\ r'[0] = Regs[0]
        /\ r'[1] = Regs[1]
        /\ r'[4] = Regs[4]
        /\ r'[5] = Regs[5]
        /\ 256 * r'[7] + LowTotal = Total
        /\ r'[3] = LowTotal
        /\ Carry(f') = Over
    <3> DEFINE k == Carry(f)
    <3>1. r'[7] = (Regs[4] + Regs[0] + k) % 256 /\ Carry(f') = IF Regs[4] + Regs[0] + k > 255 THEN 1 ELSE 0
      BY <1>a, <2>1, <2>2 DEF Sets
    <3>2. k = LowOver
      BY <2>1
    <3> HIDE DEF k
    <3>3. 256 * r'[7] + LowTotal = Total /\ Carry(f') = Over
      BY <3>1, <3>2, RegsByBytes
    <3>4. r'[0] = r[0] /\ r'[1] = r[1] /\ r'[4] = r[4] /\ r'[5] = r[5] /\ r'[3] = r[3]
      BY <1>a, <2>2 DEF Sets
    <3> QED
      BY <2>1, <3>3, <3>4
  <2> QED
    BY <1>a, <1>c, <1>5, <2>3 DEF AddRun, Regs
<1>6. CASE done = 5
  <2>1. /\ r[0] = Regs[0]
        /\ r[1] = Regs[1]
        /\ r[4] = Regs[4]
        /\ r[5] = Regs[5]
        /\ 256 * r[7] + LowTotal = Total
        /\ r[3] = LowTotal
        /\ Carry(f) = Over
    BY <1>6 DEF AddRun
  <2>2. Sets(2, r[7]) /\ UNCHANGED f
    <3>1. Opcode = 87
      BY <1>6, AddCode DEF Opcode
    <3> QED
      BY <3>1, Loads
  <2>3. /\ r'[0] = Regs[0]
        /\ r'[1] = Regs[1]
        /\ r'[4] = Regs[4]
        /\ r'[5] = Regs[5]
        /\ Pair(r', 1) = Total
        /\ Carry(f') = Over
    <3>1. r'[2] = r[7] /\ r'[3] = r[3] /\ r'[0] = r[0] /\ r'[1] = r[1] /\ r'[4] = r[4] /\ r'[5] = r[5]
      BY <1>a, <2>2 DEF Sets
    <3>2. Pair(r', 1) = 256 * r'[2] + r'[3]
      BY DEF Pair, Word
    <3> QED
      BY <2>1, <2>2, <3>1, <3>2
  <2> QED
    BY <1>a, <1>c, <1>6, <2>3 DEF AddRun, Regs
<1>7. CASE done = 6
  <2>1. /\ r[0] = Regs[0]
        /\ r[1] = Regs[1]
        /\ r[4] = Regs[4]
        /\ r[5] = Regs[5]
        /\ Pair(r, 1) = Total
        /\ Carry(f) = Over
    BY <1>7 DEF AddRun
  <2>2. Pair(r', 2) = (Pair(r, 2) + Pair(r, 0)) % 65536 /\ OthersKept(4, 5) /\ Carry(f') = IF Pair(r, 2) + Pair(r, 0) > 65535 THEN 1 ELSE 0
    <3>1. Opcode = 9
      BY <1>7, AddCode DEF Opcode
    <3> QED
      BY <3>1, WidesAre, CarryMoves
  <2>3. /\ Pair(r', 1) = Total
        /\ Pair(r', 2) = Total
        /\ Carry(f') = Over
    <3>1. Pair(r, 2) = WordX /\ Pair(r, 0) = WordY /\ Pair(r', 1) = Pair(r, 1)
      BY <2>1, <2>2 DEF OthersKept, WordX, WordY, Pair, Word
    <3> QED
      BY <2>1, <2>2, <3>1, WordsOfRegs DEF Over
  <2> QED
    BY <1>a, <1>c, <1>7, <2>3 DEF AddRun, Regs
<1> QED
  BY <1>b, <1>1, <1>2, <1>3, <1>4, <1>5, <1>6, <1>7

LEMMA SubtractCode ==
  ASSUME routine \in Routines, AluTypeOK, AluNext, routine.name = "subtract"
  PROVE  /\ Len(routine.code) = 7
         /\ routine.code[1] = 125
         /\ routine.code[2] = 145
         /\ routine.code[3] = 111
         /\ routine.code[4] = 124
         /\ routine.code[5] = 152
         /\ routine.code[6] = 103
         /\ routine.code[7] = 9
<1>1. routine.code = <<125, 145, 111, 124, 152, 103, 9>>
  BY RoutineRuns DEF Code
<1> QED
  BY <1>1

(***************************************************************************)
(* HL becomes the difference byte by byte, and the sum takes it back.      *)
(***************************************************************************)
SubtractRun ==
  routine.name = "subtract" =>
    /\ done = 1 => /\ r[0] = Regs[0]
                   /\ r[1] = Regs[1]
                   /\ r[4] = Regs[4]
                   /\ r[5] = Regs[5]
                   /\ r[7] = Regs[5]
    /\ done = 2 => /\ r[0] = Regs[0]
                   /\ r[1] = Regs[1]
                   /\ r[4] = Regs[4]
                   /\ r[5] = Regs[5]
                   /\ r[7] = LowRest
                   /\ Carry(f) = LowBorrow
    /\ done = 3 => /\ r[0] = Regs[0]
                   /\ r[1] = Regs[1]
                   /\ r[4] = Regs[4]
                   /\ r[5] = LowRest
                   /\ Carry(f) = LowBorrow
    /\ done = 4 => /\ r[0] = Regs[0]
                   /\ r[1] = Regs[1]
                   /\ r[4] = Regs[4]
                   /\ r[7] = Regs[4]
                   /\ r[5] = LowRest
                   /\ Carry(f) = LowBorrow
    /\ done = 5 => /\ r[0] = Regs[0]
                   /\ r[1] = Regs[1]
                   /\ r[4] = Regs[4]
                   /\ 256 * r[7] + LowRest = Rest
                   /\ r[5] = LowRest
                   /\ Carry(f) = Borrow
    /\ done = 6 => /\ r[0] = Regs[0]
                   /\ r[1] = Regs[1]
                   /\ Pair(r, 2) = Rest
                   /\ Carry(f) = Borrow
    /\ done = 7 => Pair(r, 2) = WordX

LEMMA SubtractKept ==
  ASSUME routine \in Routines, AluTypeOK, AluNext, AtStart, SubtractRun
  PROVE  SubtractRun'
<1> SUFFICES ASSUME routine.name = "subtract" PROVE SubtractRun'
  BY RoutineRuns DEF SubtractRun
<1>a. /\ done' = done + 1 /\ routine' = routine
      /\ Regs \in [0..7 -> 0..255] /\ r \in [0..7 -> 0..255] /\ r' \in [0..7 -> 0..255]
  BY RoutineRuns
<1>b. done \in 0..6
  <2>1. Len(routine.code) = 7
    BY SubtractCode
  <2>2. done \in Nat /\ done < Len(routine.code)
    BY RoutineRuns
  <2> QED
    BY <2>1, <2>2
<1>c. /\ WordX' = WordX /\ Rest' = Rest /\ Borrow' = Borrow /\ LowRest' = LowRest
      /\ LowBorrow' = LowBorrow
  BY <1>a DEF WordX, Rest, WordY, Borrow, LowRest, LowBorrow, Regs
<1>1. CASE done = 0
  <2>1. r = Regs /\ f = routine.flags /\ sp = StackTop /\ stack = <<>>
    BY <1>1 DEF AtStart
  <2>2. Sets(7, r[5]) /\ UNCHANGED f
    <3>1. Opcode = 125
      BY <1>1, SubtractCode DEF Opcode
    <3> QED
      BY <3>1, Loads
  <2>3. /\ r'[0] = Regs[0]
        /\ r'[1] = Regs[1]
        /\ r'[4] = Regs[4]
        /\ r'[5] = Regs[5]
        /\ r'[7] = Regs[5]
    BY <1>a, <2>1, <2>2 DEF Sets, OthersKept, LowRest, LowBorrow
  <2> QED
    BY <1>a, <1>c, <1>1, <2>3 DEF SubtractRun, Regs
<1>2. CASE done = 1
  <2>1. /\ r[0] = Regs[0]
        /\ r[1] = Regs[1]
        /\ r[4] = Regs[4]
        /\ r[5] = Regs[5]
        /\ r[7] = Regs[5]
    BY <1>2 DEF SubtractRun
  <2>2. Sets(7, (r[7] - r[1]) % 256) /\ Carry(f') = IF r[7] < r[1] THEN 1 ELSE 0
    <3>1. Opcode = 145
      BY <1>2, SubtractCode DEF Opcode
    <3> QED
      BY <3>1, SubtractsAre, CarryMoves
  <2>3. /\ r'[0] = Regs[0]
        /\ r'[1] = Regs[1]
        /\ r'[4] = Regs[4]
        /\ r'[5] = Regs[5]
        /\ r'[7] = LowRest
        /\ Carry(f') = LowBorrow
    BY <1>a, <2>1, <2>2 DEF Sets, OthersKept, LowRest, LowBorrow
  <2> QED
    BY <1>a, <1>c, <1>2, <2>3 DEF SubtractRun, Regs
<1>3. CASE done = 2
  <2>1. /\ r[0] = Regs[0]
        /\ r[1] = Regs[1]
        /\ r[4] = Regs[4]
        /\ r[5] = Regs[5]
        /\ r[7] = LowRest
        /\ Carry(f) = LowBorrow
    BY <1>3 DEF SubtractRun
  <2>2. Sets(5, r[7]) /\ UNCHANGED f
    <3>1. Opcode = 111
      BY <1>3, SubtractCode DEF Opcode
    <3> QED
      BY <3>1, Loads
  <2>3. /\ r'[0] = Regs[0]
        /\ r'[1] = Regs[1]
        /\ r'[4] = Regs[4]
        /\ r'[5] = LowRest
        /\ Carry(f') = LowBorrow
    BY <1>a, <2>1, <2>2 DEF Sets, OthersKept, LowRest, LowBorrow
  <2> QED
    BY <1>a, <1>c, <1>3, <2>3 DEF SubtractRun, Regs
<1>4. CASE done = 3
  <2>1. /\ r[0] = Regs[0]
        /\ r[1] = Regs[1]
        /\ r[4] = Regs[4]
        /\ r[5] = LowRest
        /\ Carry(f) = LowBorrow
    BY <1>4 DEF SubtractRun
  <2>2. Sets(7, r[4]) /\ UNCHANGED f
    <3>1. Opcode = 124
      BY <1>4, SubtractCode DEF Opcode
    <3> QED
      BY <3>1, Loads
  <2>3. /\ r'[0] = Regs[0]
        /\ r'[1] = Regs[1]
        /\ r'[4] = Regs[4]
        /\ r'[7] = Regs[4]
        /\ r'[5] = LowRest
        /\ Carry(f') = LowBorrow
    BY <1>a, <2>1, <2>2 DEF Sets, OthersKept, LowRest, LowBorrow
  <2> QED
    BY <1>a, <1>c, <1>4, <2>3 DEF SubtractRun, Regs
<1>5. CASE done = 4
  <2>1. /\ r[0] = Regs[0]
        /\ r[1] = Regs[1]
        /\ r[4] = Regs[4]
        /\ r[7] = Regs[4]
        /\ r[5] = LowRest
        /\ Carry(f) = LowBorrow
    BY <1>5 DEF SubtractRun
  <2>2. Sets(7, (r[7] - r[0] - Carry(f)) % 256) /\ Carry(f') = IF r[7] < r[0] + Carry(f) THEN 1 ELSE 0
    <3>1. Opcode = 152
      BY <1>5, SubtractCode DEF Opcode
    <3> QED
      BY <3>1, SubtractsAre, CarryMoves
  <2>3. /\ r'[0] = Regs[0]
        /\ r'[1] = Regs[1]
        /\ r'[4] = Regs[4]
        /\ 256 * r'[7] + LowRest = Rest
        /\ r'[5] = LowRest
        /\ Carry(f') = Borrow
    <3> DEFINE m == Carry(f)
    <3>1. r'[7] = (Regs[4] - Regs[0] - m) % 256 /\ Carry(f') = IF Regs[4] < Regs[0] + m THEN 1 ELSE 0
      BY <1>a, <2>1, <2>2 DEF Sets
    <3>2. m = LowBorrow
      BY <2>1
    <3> HIDE DEF m
    <3>3. 256 * r'[7] + LowRest = Rest /\ Carry(f') = Borrow
      BY <3>1, <3>2, RegsByBytes
    <3>4. r'[0] = r[0] /\ r'[1] = r[1] /\ r'[4] = r[4] /\ r'[5] = r[5]
      BY <1>a, <2>2 DEF Sets
    <3> QED
      BY <2>1, <3>3, <3>4
  <2> QED
    BY <1>a, <1>c, <1>5, <2>3 DEF SubtractRun, Regs
<1>6. CASE done = 5
  <2>1. /\ r[0] = Regs[0]
        /\ r[1] = Regs[1]
        /\ r[4] = Regs[4]
        /\ 256 * r[7] + LowRest = Rest
        /\ r[5] = LowRest
        /\ Carry(f) = Borrow
    BY <1>6 DEF SubtractRun
  <2>2. Sets(4, r[7]) /\ UNCHANGED f
    <3>1. Opcode = 103
      BY <1>6, SubtractCode DEF Opcode
    <3> QED
      BY <3>1, Loads
  <2>3. /\ r'[0] = Regs[0]
        /\ r'[1] = Regs[1]
        /\ Pair(r', 2) = Rest
        /\ Carry(f') = Borrow
    <3>1. r'[4] = r[7] /\ r'[5] = r[5] /\ r'[0] = r[0] /\ r'[1] = r[1]
      BY <1>a, <2>2 DEF Sets
    <3>2. Pair(r', 2) = 256 * r'[4] + r'[5]
      BY DEF Pair, Word
    <3> QED
      BY <2>1, <2>2, <3>1, <3>2
  <2> QED
    BY <1>a, <1>c, <1>6, <2>3 DEF SubtractRun, Regs
<1>7. CASE done = 6
  <2>1. /\ r[0] = Regs[0]
        /\ r[1] = Regs[1]
        /\ Pair(r, 2) = Rest
        /\ Carry(f) = Borrow
    BY <1>7 DEF SubtractRun
  <2>2. Pair(r', 2) = (Pair(r, 2) + Pair(r, 0)) % 65536 /\ OthersKept(4, 5) /\ Carry(f') = IF Pair(r, 2) + Pair(r, 0) > 65535 THEN 1 ELSE 0
    <3>1. Opcode = 9
      BY <1>7, SubtractCode DEF Opcode
    <3> QED
      BY <3>1, WidesAre, CarryMoves
  <2>3. Pair(r', 2) = WordX
    <3>1. Pair(r, 0) = WordY
      BY <2>1 DEF WordY, Pair, Word
    <3> QED
      BY <2>1, <2>2, <3>1, WordsOfRegs
  <2> QED
    BY <1>a, <1>c, <1>7, <2>3 DEF SubtractRun, Regs
<1> QED
  BY <1>b, <1>1, <1>2, <1>3, <1>4, <1>5, <1>6, <1>7

LEMMA CompareCode ==
  ASSUME routine \in Routines, AluTypeOK, AluNext, routine.name = "compare"
  PROVE  /\ Len(routine.code) = 1
         /\ routine.code[1] = 184
<1>1. routine.code = <<184>>
  BY RoutineRuns DEF Code
<1> QED
  BY <1>1

(***************************************************************************)
(* CP leaves the registers.                                                *)
(***************************************************************************)
CompareRun ==
  routine.name = "compare" =>
    /\ done = 1 => /\ r = Regs
                   /\ "z" \in f <=> r[7] = r[0]
                   /\ "c" \in f <=> r[7] < r[0]

LEMMA CompareKept ==
  ASSUME routine \in Routines, AluTypeOK, AluNext, AtStart, CompareRun
  PROVE  CompareRun'
<1> SUFFICES ASSUME routine.name = "compare" PROVE CompareRun'
  BY RoutineRuns DEF CompareRun
<1>a. /\ done' = done + 1 /\ routine' = routine
      /\ Regs \in [0..7 -> 0..255] /\ r \in [0..7 -> 0..255] /\ r' \in [0..7 -> 0..255]
  BY RoutineRuns
<1>b. done \in 0..0
  <2>1. Len(routine.code) = 1
    BY CompareCode
  <2>2. done \in Nat /\ done < Len(routine.code)
    BY RoutineRuns
  <2> QED
    BY <2>1, <2>2
<1>1. CASE done = 0
  <2>1. r = Regs /\ f = routine.flags /\ sp = StackTop /\ stack = <<>>
    BY <1>1 DEF AtStart
  <2>2. r' = r /\ ("c" \in f' <=> r[7] < r[0]) /\ ("z" \in f' <=> r[7] = r[0])
    <3>1. Opcode = 184
      BY <1>1, CompareCode DEF Opcode
    <3> QED
      BY <3>1, SubtractsAre
  <2>3. /\ r' = Regs
        /\ "z" \in f' <=> r'[7] = r'[0]
        /\ "c" \in f' <=> r'[7] < r'[0]
    BY <2>1, <2>2
  <2> QED
    BY <1>a, <1>1, <2>3 DEF CompareRun, Regs
<1> QED
  BY <1>b, <1>1

LEMMA CountCode ==
  ASSUME routine \in Routines, AluTypeOK, AluNext, routine.name = "count"
  PROVE  /\ Len(routine.code) = 4
         /\ routine.code[1] = 35
         /\ routine.code[2] = 43
         /\ routine.code[3] = 44
         /\ routine.code[4] = 45
<1>1. routine.code = <<35, 43, 44, 45>>
  BY RoutineRuns DEF Code
<1> QED
  BY <1>1

(***************************************************************************)
(* INC and DEC of HL and of L take each other back and leave the carry.    *)
(***************************************************************************)
CountRun ==
  routine.name = "count" =>
    /\ done = 1 => /\ \A j \in 0..7 \ {4, 5} : r[j] = Regs[j]
                   /\ Pair(r, 2) = (WordX + 1) % 65536
                   /\ Carry(f) = Carry(routine.flags)
    /\ done = 2 => /\ r = Regs
                   /\ Carry(f) = Carry(routine.flags)
    /\ done = 3 => /\ \A j \in 0..7 \ {5} : r[j] = Regs[j]
                   /\ r[5] = (Regs[5] + 1) % 256
                   /\ "z" \in f <=> r[5] = 0
                   /\ Carry(f) = Carry(routine.flags)
    /\ done = 4 => /\ r = Regs
                   /\ Carry(f) = Carry(routine.flags)

LEMMA CountKept ==
  ASSUME routine \in Routines, AluTypeOK, AluNext, AtStart, CountRun
  PROVE  CountRun'
<1> SUFFICES ASSUME routine.name = "count" PROVE CountRun'
  BY RoutineRuns DEF CountRun
<1>a. /\ done' = done + 1 /\ routine' = routine
      /\ Regs \in [0..7 -> 0..255] /\ r \in [0..7 -> 0..255] /\ r' \in [0..7 -> 0..255]
  BY RoutineRuns
<1>b. done \in 0..3
  <2>1. Len(routine.code) = 4
    BY CountCode
  <2>2. done \in Nat /\ done < Len(routine.code)
    BY RoutineRuns
  <2> QED
    BY <2>1, <2>2
<1>c. /\ WordX' = WordX
  BY <1>a DEF WordX, Regs
<1>1. CASE done = 0
  <2>1. r = Regs /\ f = routine.flags /\ sp = StackTop /\ stack = <<>>
    BY <1>1 DEF AtStart
  <2>2. Pair(r', 2) = (Pair(r, 2) + 1) % 65536 /\ OthersKept(4, 5) /\ Carry(f') = Carry(f)
    <3>1. Opcode = 35
      BY <1>1, CountCode DEF Opcode
    <3> QED
      BY <3>1, WidesAre, CarryStays
  <2>3. /\ \A j \in 0..7 \ {4, 5} : r'[j] = Regs[j]
        /\ Pair(r', 2) = (WordX + 1) % 65536
        /\ Carry(f') = Carry(routine.flags)
    <3>1. Pair(r, 2) = WordX
      BY <2>1 DEF WordX
    <3> QED
      BY <2>1, <2>2, <3>1 DEF OthersKept
  <2> QED
    BY <1>a, <1>c, <1>1, <2>3 DEF CountRun, Regs
<1>2. CASE done = 1
  <2>1. /\ \A j \in 0..7 \ {4, 5} : r[j] = Regs[j]
        /\ Pair(r, 2) = (WordX + 1) % 65536
        /\ Carry(f) = Carry(routine.flags)
    BY <1>2 DEF CountRun
  <2>2. r'[4] = ((Pair(r, 2) - 1) % 65536) \div 256 /\ r'[5] = ((Pair(r, 2) - 1) % 65536) % 256 /\ OthersKept(4, 5) /\ Carry(f') = Carry(f)
    <3>1. Opcode = 43
      BY <1>2, CountCode DEF Opcode
    <3> QED
      BY <3>1, WidesAre, CarryStays
  <2>3. /\ r' = Regs
        /\ Carry(f') = Carry(routine.flags)
    <3>1. (((WordX + 1) % 65536) - 1) % 65536 = WordX
      BY WordsOfRegs DEF IsAddress
    <3>2. WordX \div 256 = Regs[4] /\ WordX % 256 = Regs[5]
      <4> DEFINE h == Regs[4]
                 l == Regs[5]
      <4>1. h \in 0..255 /\ l \in 0..255 /\ WordX = 256 * h + l
        BY <1>a, WordsOfRegs
      <4> HIDE DEF h, l
      <4>2. WordX \div 256 = h /\ WordX % 256 = l
        BY <4>1
      <4> QED
        BY <4>2 DEF h, l
    <3>3. r'[4] = Regs[4] /\ r'[5] = Regs[5]
      BY <2>1, <2>2, <3>1, <3>2
    <3>4. \A j \in 0..7 : r'[j] = Regs[j]
      BY <2>1, <2>2, <3>3 DEF OthersKept
    <3>5. r' = Regs
      BY <1>a, <3>4
    <3> QED
      BY <2>1, <2>2, <3>5
  <2> QED
    BY <1>a, <1>c, <1>2, <2>3, SMTT(30) DEF CountRun, Regs
<1>3. CASE done = 2
  <2>1. /\ r = Regs
        /\ Carry(f) = Carry(routine.flags)
    BY <1>3 DEF CountRun
  <2>2. Sets(5, (r[5] + 1) % 256) /\ ("z" \in f' <=> (r[5] + 1) % 256 = 0) /\ Carry(f') = Carry(f)
    <3>1. Opcode = 44
      BY <1>3, CountCode DEF Opcode
    <3> QED
      BY <3>1, Counts, CarryStays
  <2>3. /\ \A j \in 0..7 \ {5} : r'[j] = Regs[j]
        /\ r'[5] = (Regs[5] + 1) % 256
        /\ "z" \in f' <=> r'[5] = 0
        /\ Carry(f') = Carry(routine.flags)
    BY <1>a, <2>1, <2>2 DEF Sets
  <2> QED
    BY <1>a, <1>c, <1>3, <2>3 DEF CountRun, Regs
<1>4. CASE done = 3
  <2>1. /\ \A j \in 0..7 \ {5} : r[j] = Regs[j]
        /\ r[5] = (Regs[5] + 1) % 256
        /\ "z" \in f <=> r[5] = 0
        /\ Carry(f) = Carry(routine.flags)
    BY <1>4 DEF CountRun
  <2>2. Sets(5, (r[5] - 1) % 256) /\ Carry(f') = Carry(f)
    <3>1. Opcode = 45
      BY <1>4, CountCode DEF Opcode
    <3> QED
      BY <3>1, Counts, CarryStays
  <2>3. /\ r' = Regs
        /\ Carry(f') = Carry(routine.flags)
    <3> DEFINE l == Regs[5]
    <3>1. l \in 0..255 /\ r'[5] = (((l + 1) % 256) - 1) % 256
      BY <1>a, <2>1, <2>2, SMTT(30) DEF Sets
    <3> HIDE DEF l
    <3>2. (((l + 1) % 256) - 1) % 256 = l
      BY <3>1
    <3>3. \A j \in 0..7 : r'[j] = Regs[j]
      BY <1>a, <2>1, <2>2, <3>1, <3>2, SMTT(30) DEF Sets, l
    <3>4. r' = Regs
      BY <1>a, <3>3
    <3> QED
      BY <2>1, <2>2, <3>4
  <2> QED
    BY <1>a, <1>c, <1>4, <2>3, SMTT(30) DEF CountRun, Regs
<1> QED
  BY <1>b, <1>1, <1>2, <1>3, <1>4

LEMMA ShiftCode ==
  ASSUME routine \in Routines, AluTypeOK, AluNext, routine.name = "shift"
  PROVE  /\ Len(routine.code) = 7
         /\ routine.code[1] = 293
         /\ routine.code[2] = 276
         /\ routine.code[3] = 316
         /\ routine.code[4] = 285
         /\ routine.code[5] = 63
         /\ routine.code[6] = 55
         /\ routine.code[7] = 63
<1>1. routine.code = <<293, 276, 316, 285, 63, 55, 63>>
  BY RoutineRuns DEF Code
<1> QED
  BY <1>1

(***************************************************************************)
(* HL is doubled and halved again; its highest bit is lost with the carry. *)
(***************************************************************************)
ShiftRun ==
  routine.name = "shift" =>
    /\ done = 1 => /\ r[4] = Regs[4]
                   /\ r[5] = (2 * Regs[5]) % 256
                   /\ Carry(f) = Regs[5] \div 128
    /\ done = 2 => /\ r[4] = ((2 * Regs[4]) % 256) + (Regs[5] \div 128)
                   /\ r[5] = (2 * Regs[5]) % 256
                   /\ Carry(f) = Regs[4] \div 128
    /\ done = 3 => /\ r[4] = Regs[4] % 128
                   /\ r[5] = (2 * Regs[5]) % 256
                   /\ Carry(f) = Regs[5] \div 128
    /\ done = 4 => /\ r[4] = Regs[4] % 128
                   /\ r[5] = Regs[5]
                   /\ Carry(f) = 0
    /\ done = 5 => /\ r[4] = Regs[4] % 128
                   /\ r[5] = Regs[5]
                   /\ Carry(f) = 1
    /\ done = 6 => /\ r[4] = Regs[4] % 128
                   /\ r[5] = Regs[5]
                   /\ Carry(f) = 1
    /\ done = 7 => /\ r[4] = Regs[4] % 128
                   /\ r[5] = Regs[5]
                   /\ Carry(f) = 0

LEMMA ShiftKept ==
  ASSUME routine \in Routines, AluTypeOK, AluNext, AtStart, ShiftRun
  PROVE  ShiftRun'
<1> SUFFICES ASSUME routine.name = "shift" PROVE ShiftRun'
  BY RoutineRuns DEF ShiftRun
<1>a. /\ done' = done + 1 /\ routine' = routine
      /\ Regs \in [0..7 -> 0..255] /\ r \in [0..7 -> 0..255] /\ r' \in [0..7 -> 0..255]
  BY RoutineRuns
<1>b. done \in 0..6
  <2>1. Len(routine.code) = 7
    BY ShiftCode
  <2>2. done \in Nat /\ done < Len(routine.code)
    BY RoutineRuns
  <2> QED
    BY <2>1, <2>2
<1>1. CASE done = 0
  <2>1. r = Regs /\ f = routine.flags /\ sp = StackTop /\ stack = <<>>
    BY <1>1 DEF AtStart
  <2>2. Sets(5, (2 * r[5]) % 256) /\ Carry(f') = r[5] \div 128
    <3>1. Opcode = 293
      BY <1>1, ShiftCode DEF Opcode
    <3> QED
      BY <3>1, RotatesAre
  <2>3. /\ r'[4] = Regs[4]
        /\ r'[5] = (2 * Regs[5]) % 256
        /\ Carry(f') = Regs[5] \div 128
    BY <1>a, <2>1, <2>2 DEF Sets, OthersKept
  <2> QED
    BY <1>a, <1>1, <2>3 DEF ShiftRun, Regs
<1>2. CASE done = 1
  <2>1. /\ r[4] = Regs[4]
        /\ r[5] = (2 * Regs[5]) % 256
        /\ Carry(f) = Regs[5] \div 128
    BY <1>2 DEF ShiftRun
  <2>2. Sets(4, ((2 * r[4]) % 256) + Carry(f)) /\ Carry(f') = r[4] \div 128
    <3>1. Opcode = 276
      BY <1>2, ShiftCode DEF Opcode
    <3> QED
      BY <3>1, RotatesAre
  <2>3. /\ r'[4] = ((2 * Regs[4]) % 256) + (Regs[5] \div 128)
        /\ r'[5] = (2 * Regs[5]) % 256
        /\ Carry(f') = Regs[4] \div 128
    BY <1>a, <2>1, <2>2 DEF Sets, OthersKept
  <2> QED
    BY <1>a, <1>2, <2>3 DEF ShiftRun, Regs
<1>3. CASE done = 2
  <2>1. /\ r[4] = ((2 * Regs[4]) % 256) + (Regs[5] \div 128)
        /\ r[5] = (2 * Regs[5]) % 256
        /\ Carry(f) = Regs[4] \div 128
    BY <1>3 DEF ShiftRun
  <2>2. Sets(4, r[4] \div 2) /\ Carry(f') = r[4] % 2
    <3>1. Opcode = 316
      BY <1>3, ShiftCode DEF Opcode
    <3> QED
      BY <3>1, RotatesAre
  <2>3. /\ r'[4] = Regs[4] % 128
        /\ r'[5] = (2 * Regs[5]) % 256
        /\ Carry(f') = Regs[5] \div 128
    <3> DEFINE h == Regs[4]
               l == Regs[5]
    <3>1. h \in 0..255 /\ l \in 0..255
      BY <1>a
    <3>2. /\ r'[4] = (((2 * h) % 256) + (l \div 128)) \div 2
          /\ r'[5] = (2 * l) % 256
          /\ Carry(f') = (((2 * h) % 256) + (l \div 128)) % 2
      BY <1>a, <2>1, <2>2, SMTT(30) DEF Sets
    <3> HIDE DEF h, l
    <3>3. (((2 * h) % 256) + (l \div 128)) \div 2 = h % 128
      BY <3>1
    <3>4. (((2 * h) % 256) + (l \div 128)) % 2 = l \div 128
      BY <3>1
    <3>5. r'[4] = h % 128 /\ r'[5] = (2 * l) % 256 /\ Carry(f') = l \div 128
      BY <3>2, <3>3, <3>4
    <3> QED
      BY <3>5 DEF h, l
  <2> QED
    BY <1>a, <1>3, <2>3 DEF ShiftRun, Regs
<1>4. CASE done = 3
  <2>1. /\ r[4] = Regs[4] % 128
        /\ r[5] = (2 * Regs[5]) % 256
        /\ Carry(f) = Regs[5] \div 128
    BY <1>4 DEF ShiftRun
  <2>2. Sets(5, (r[5] \div 2) + 128 * Carry(f)) /\ Carry(f') = r[5] % 2
    <3>1. Opcode = 285
      BY <1>4, ShiftCode DEF Opcode
    <3> QED
      BY <3>1, RotatesAre
  <2>3. /\ r'[4] = Regs[4] % 128
        /\ r'[5] = Regs[5]
        /\ Carry(f') = 0
    <3> DEFINE l == Regs[5]
    <3>1. l \in 0..255
      BY <1>a
    <3>2. /\ r'[5] = (((2 * l) % 256) \div 2) + 128 * (l \div 128)
          /\ r'[4] = Regs[4] % 128 /\ Carry(f') = ((2 * l) % 256) % 2
      BY <1>a, <2>1, <2>2, SMTT(30) DEF Sets
    <3> HIDE DEF l
    <3>3. (((2 * l) % 256) \div 2) + 128 * (l \div 128) = l /\ ((2 * l) % 256) % 2 = 0
      BY <3>1
    <3>4. r'[4] = Regs[4] % 128 /\ r'[5] = l /\ Carry(f') = 0
      BY <3>2, <3>3
    <3> QED
      BY <3>4 DEF l
  <2> QED
    BY <1>a, <1>4, <2>3 DEF ShiftRun, Regs
<1>5. CASE done = 4
  <2>1. /\ r[4] = Regs[4] % 128
        /\ r[5] = Regs[5]
        /\ Carry(f) = 0
    BY <1>5 DEF ShiftRun
  <2>2. r' = r /\ Carry(f') = 1 - Carry(f)
    <3>1. Opcode = 63
      BY <1>5, ShiftCode DEF Opcode
    <3> QED
      BY <3>1, Carries, CarryStays
  <2>3. /\ r'[4] = Regs[4] % 128
        /\ r'[5] = Regs[5]
        /\ Carry(f') = 1
    BY <1>a, <2>1, <2>2 DEF Sets, OthersKept
  <2> QED
    BY <1>a, <1>5, <2>3 DEF ShiftRun, Regs
<1>6. CASE done = 5
  <2>1. /\ r[4] = Regs[4] % 128
        /\ r[5] = Regs[5]
        /\ Carry(f) = 1
    BY <1>6 DEF ShiftRun
  <2>2. r' = r /\ Carry(f') = 1
    <3>1. Opcode = 55
      BY <1>6, ShiftCode DEF Opcode
    <3> QED
      BY <3>1, Carries, CarryStays
  <2>3. /\ r'[4] = Regs[4] % 128
        /\ r'[5] = Regs[5]
        /\ Carry(f') = 1
    BY <1>a, <2>1, <2>2 DEF Sets, OthersKept
  <2> QED
    BY <1>a, <1>6, <2>3 DEF ShiftRun, Regs
<1>7. CASE done = 6
  <2>1. /\ r[4] = Regs[4] % 128
        /\ r[5] = Regs[5]
        /\ Carry(f) = 1
    BY <1>7 DEF ShiftRun
  <2>2. r' = r /\ Carry(f') = 1 - Carry(f)
    <3>1. Opcode = 63
      BY <1>7, ShiftCode DEF Opcode
    <3> QED
      BY <3>1, Carries, CarryStays
  <2>3. /\ r'[4] = Regs[4] % 128
        /\ r'[5] = Regs[5]
        /\ Carry(f') = 0
    BY <1>a, <2>1, <2>2 DEF Sets, OthersKept
  <2> QED
    BY <1>a, <1>7, <2>3 DEF ShiftRun, Regs
<1> QED
  BY <1>b, <1>1, <1>2, <1>3, <1>4, <1>5, <1>6, <1>7

LEMMA TurnCode ==
  ASSUME routine \in Routines, AluTypeOK, AluNext, routine.name = "turn"
  PROVE  /\ Len(routine.code) = 14
         /\ routine.code[1] = 23
         /\ routine.code[2] = 23
         /\ routine.code[3] = 23
         /\ routine.code[4] = 23
         /\ routine.code[5] = 23
         /\ routine.code[6] = 23
         /\ routine.code[7] = 23
         /\ routine.code[8] = 23
         /\ routine.code[9] = 23
         /\ routine.code[10] = 256
         /\ routine.code[11] = 256
         /\ routine.code[12] = 256
         /\ routine.code[13] = 256
         /\ routine.code[14] = 304
<1>1. routine.code = <<23, 23, 23, 23, 23, 23, 23, 23, 23, 256, 256, 256, 256, 304>>
  BY RoutineRuns DEF Code
<1> QED
  BY <1>1

\* A and the carry as nine bits, and they and B turned, as 2^k times says.
Nine == Regs[7] + 256 * Carry(routine.flags)
Around(x, m) == (x % m) + (x \div m)
Turned(p) == Around(p * Nine, 512)
Rolled(p) == Around(p * Regs[0], 256)

LEMMA NineType ==
  ASSUME routine \in Routines
  PROVE  Nine \in 0..511
<1> DEFINE a == Regs[7]
           c == Carry(routine.flags)
<1>1. Regs \in [0..7 -> Bytes8]
  BY AluAssumption DEF Regs
<1>2. a \in 0..255 /\ c \in 0..1
  BY <1>1 DEF Bytes8, Carry
<1> HIDE DEF a, c
<1>3. a + 256 * c \in 0..511
  BY <1>2
<1> QED
  BY <1>3 DEF a, c, Nine

\* A rotation left doubles what the register and the bit beside it hold.
NineDoubles(a, c) ==
  /\ a + 256 * c = Turned(1) => 2 * a + c = Turned(2)
  /\ a + 256 * c = Turned(2) => 2 * a + c = Turned(4)
  /\ a + 256 * c = Turned(4) => 2 * a + c = Turned(8)
  /\ a + 256 * c = Turned(8) => 2 * a + c = Turned(16)
  /\ a + 256 * c = Turned(16) => 2 * a + c = Turned(32)
  /\ a + 256 * c = Turned(32) => 2 * a + c = Turned(64)
  /\ a + 256 * c = Turned(64) => 2 * a + c = Turned(128)
  /\ a + 256 * c = Turned(128) => 2 * a + c = Turned(256)
  /\ a + 256 * c = Turned(256) => 2 * a + c = Turned(512)

EightDoubles(a, c) ==
  /\ a + 128 * c = Rolled(1) => 2 * a + c = Rolled(2)
  /\ a + 128 * c = Rolled(2) => 2 * a + c = Rolled(4)
  /\ a + 128 * c = Rolled(4) => 2 * a + c = Rolled(8)
  /\ a + 128 * c = Rolled(8) => 2 * a + c = Rolled(16)

\* As many turns as there are bits, and none, change nothing.
LEMMA WholeTurns ==
  ASSUME routine \in Routines
  PROVE  Turned(1) = Nine /\ Turned(512) = Nine /\ Rolled(1) = Regs[0]
<1>1. Nine \in 0..511
  BY NineType
<1>2. Regs[0] \in 0..255
  <2>1. Regs \in [0..7 -> Bytes8]
    BY AluAssumption DEF Regs
  <2> QED
    BY <2>1 DEF Bytes8
<1>3. \A n \in 0..511 : Around(1 * n, 512) = n /\ Around(512 * n, 512) = n
  BY DEF Around
<1>4. \A n \in 0..255 : Around(1 * n, 256) = n
  BY DEF Around
<1> QED
  BY <1>1, <1>2, <1>3, <1>4 DEF Turned, Rolled

\* One turn more, of a number of nine bits.
LEMMA NineTurn ==
  ASSUME routine \in Routines, NEW a \in 0..255, NEW c \in 0..1
  PROVE  NineDoubles(a, c)
<1> DEFINE n == Nine
<1>0. n \in 0..511
  BY NineType
<1> HIDE DEF n
<1>1. a + 256 * c = Around(1 * n, 512) => 2 * a + c = Around(2 * n, 512)
  <2> DEFINE w == n \div 256
             m == n % 256
  <2>1. n = 256 * w + m /\ w \in 0..1 /\ m \in 0..255
    BY <1>0
  <2> HIDE DEF w, m
  <2>2. Around(2 * n, 512) = 2 * m + w
    <3>1. 2 * n = 512 * w + 2 * m /\ 2 * m \in 0..511
      BY <2>1
    <3>2. (2 * n) % 512 = 2 * m /\ (2 * n) \div 512 = w
      BY <2>1, <3>1
    <3> QED
      BY <3>2 DEF Around
  <2>3. PICK v \in 0..0, b \in 0..1 : w = 2 * v + b
    <3>1. w \div 2 \in 0..0 /\ w % 2 \in 0..1 /\ w = 2 * (w \div 2) + (w % 2)
      BY <2>1
    <3> QED
      BY <3>1
  <2>4. Around(1 * n, 512) = 256 * b + 1 * m + v
    <3>1. 1 * n = 512 * v + (256 * b + 1 * m) /\ 256 * b + 1 * m \in 0..511
      BY <2>1, <2>3
    <3>2. (1 * n) % 512 = 256 * b + 1 * m /\ (1 * n) \div 512 = v
      BY <2>1, <2>3, <3>1
    <3> QED
      BY <3>2 DEF Around
  <2>5. 1 * m + v \in 0..255
    BY <2>1, <2>3
  <2> QED
    BY <2>1, <2>2, <2>3, <2>4, <2>5
<1>2. a + 256 * c = Around(2 * n, 512) => 2 * a + c = Around(4 * n, 512)
  <2> DEFINE w == n \div 128
             m == n % 128
  <2>1. n = 128 * w + m /\ w \in 0..3 /\ m \in 0..127
    BY <1>0
  <2> HIDE DEF w, m
  <2>2. Around(4 * n, 512) = 4 * m + w
    <3>1. 4 * n = 512 * w + 4 * m /\ 4 * m \in 0..511
      BY <2>1
    <3>2. (4 * n) % 512 = 4 * m /\ (4 * n) \div 512 = w
      BY <2>1, <3>1
    <3> QED
      BY <3>2 DEF Around
  <2>3. PICK v \in 0..1, b \in 0..1 : w = 2 * v + b
    <3>1. w \div 2 \in 0..1 /\ w % 2 \in 0..1 /\ w = 2 * (w \div 2) + (w % 2)
      BY <2>1
    <3> QED
      BY <3>1
  <2>4. Around(2 * n, 512) = 256 * b + 2 * m + v
    <3>1. 2 * n = 512 * v + (256 * b + 2 * m) /\ 256 * b + 2 * m \in 0..511
      BY <2>1, <2>3
    <3>2. (2 * n) % 512 = 256 * b + 2 * m /\ (2 * n) \div 512 = v
      BY <2>1, <2>3, <3>1
    <3> QED
      BY <3>2 DEF Around
  <2>5. 2 * m + v \in 0..255
    BY <2>1, <2>3
  <2> QED
    BY <2>1, <2>2, <2>3, <2>4, <2>5
<1>3. a + 256 * c = Around(4 * n, 512) => 2 * a + c = Around(8 * n, 512)
  <2> DEFINE w == n \div 64
             m == n % 64
  <2>1. n = 64 * w + m /\ w \in 0..7 /\ m \in 0..63
    BY <1>0
  <2> HIDE DEF w, m
  <2>2. Around(8 * n, 512) = 8 * m + w
    <3>1. 8 * n = 512 * w + 8 * m /\ 8 * m \in 0..511
      BY <2>1
    <3>2. (8 * n) % 512 = 8 * m /\ (8 * n) \div 512 = w
      BY <2>1, <3>1
    <3> QED
      BY <3>2 DEF Around
  <2>3. PICK v \in 0..3, b \in 0..1 : w = 2 * v + b
    <3>1. w \div 2 \in 0..3 /\ w % 2 \in 0..1 /\ w = 2 * (w \div 2) + (w % 2)
      BY <2>1
    <3> QED
      BY <3>1
  <2>4. Around(4 * n, 512) = 256 * b + 4 * m + v
    <3>1. 4 * n = 512 * v + (256 * b + 4 * m) /\ 256 * b + 4 * m \in 0..511
      BY <2>1, <2>3
    <3>2. (4 * n) % 512 = 256 * b + 4 * m /\ (4 * n) \div 512 = v
      BY <2>1, <2>3, <3>1
    <3> QED
      BY <3>2 DEF Around
  <2>5. 4 * m + v \in 0..255
    BY <2>1, <2>3
  <2> QED
    BY <2>1, <2>2, <2>3, <2>4, <2>5
<1>4. a + 256 * c = Around(8 * n, 512) => 2 * a + c = Around(16 * n, 512)
  <2> DEFINE w == n \div 32
             m == n % 32
  <2>1. n = 32 * w + m /\ w \in 0..15 /\ m \in 0..31
    BY <1>0
  <2> HIDE DEF w, m
  <2>2. Around(16 * n, 512) = 16 * m + w
    <3>1. 16 * n = 512 * w + 16 * m /\ 16 * m \in 0..511
      BY <2>1
    <3>2. (16 * n) % 512 = 16 * m /\ (16 * n) \div 512 = w
      BY <2>1, <3>1
    <3> QED
      BY <3>2 DEF Around
  <2>3. PICK v \in 0..7, b \in 0..1 : w = 2 * v + b
    <3>1. w \div 2 \in 0..7 /\ w % 2 \in 0..1 /\ w = 2 * (w \div 2) + (w % 2)
      BY <2>1
    <3> QED
      BY <3>1
  <2>4. Around(8 * n, 512) = 256 * b + 8 * m + v
    <3>1. 8 * n = 512 * v + (256 * b + 8 * m) /\ 256 * b + 8 * m \in 0..511
      BY <2>1, <2>3
    <3>2. (8 * n) % 512 = 256 * b + 8 * m /\ (8 * n) \div 512 = v
      BY <2>1, <2>3, <3>1
    <3> QED
      BY <3>2 DEF Around
  <2>5. 8 * m + v \in 0..255
    BY <2>1, <2>3
  <2> QED
    BY <2>1, <2>2, <2>3, <2>4, <2>5
<1>5. a + 256 * c = Around(16 * n, 512) => 2 * a + c = Around(32 * n, 512)
  <2> DEFINE w == n \div 16
             m == n % 16
  <2>1. n = 16 * w + m /\ w \in 0..31 /\ m \in 0..15
    BY <1>0
  <2> HIDE DEF w, m
  <2>2. Around(32 * n, 512) = 32 * m + w
    <3>1. 32 * n = 512 * w + 32 * m /\ 32 * m \in 0..511
      BY <2>1
    <3>2. (32 * n) % 512 = 32 * m /\ (32 * n) \div 512 = w
      BY <2>1, <3>1
    <3> QED
      BY <3>2 DEF Around
  <2>3. PICK v \in 0..15, b \in 0..1 : w = 2 * v + b
    <3>1. w \div 2 \in 0..15 /\ w % 2 \in 0..1 /\ w = 2 * (w \div 2) + (w % 2)
      BY <2>1
    <3> QED
      BY <3>1
  <2>4. Around(16 * n, 512) = 256 * b + 16 * m + v
    <3>1. 16 * n = 512 * v + (256 * b + 16 * m) /\ 256 * b + 16 * m \in 0..511
      BY <2>1, <2>3
    <3>2. (16 * n) % 512 = 256 * b + 16 * m /\ (16 * n) \div 512 = v
      BY <2>1, <2>3, <3>1
    <3> QED
      BY <3>2 DEF Around
  <2>5. 16 * m + v \in 0..255
    BY <2>1, <2>3
  <2> QED
    BY <2>1, <2>2, <2>3, <2>4, <2>5
<1>6. a + 256 * c = Around(32 * n, 512) => 2 * a + c = Around(64 * n, 512)
  <2> DEFINE w == n \div 8
             m == n % 8
  <2>1. n = 8 * w + m /\ w \in 0..63 /\ m \in 0..7
    BY <1>0
  <2> HIDE DEF w, m
  <2>2. Around(64 * n, 512) = 64 * m + w
    <3>1. 64 * n = 512 * w + 64 * m /\ 64 * m \in 0..511
      BY <2>1
    <3>2. (64 * n) % 512 = 64 * m /\ (64 * n) \div 512 = w
      BY <2>1, <3>1
    <3> QED
      BY <3>2 DEF Around
  <2>3. PICK v \in 0..31, b \in 0..1 : w = 2 * v + b
    <3>1. w \div 2 \in 0..31 /\ w % 2 \in 0..1 /\ w = 2 * (w \div 2) + (w % 2)
      BY <2>1
    <3> QED
      BY <3>1
  <2>4. Around(32 * n, 512) = 256 * b + 32 * m + v
    <3>1. 32 * n = 512 * v + (256 * b + 32 * m) /\ 256 * b + 32 * m \in 0..511
      BY <2>1, <2>3
    <3>2. (32 * n) % 512 = 256 * b + 32 * m /\ (32 * n) \div 512 = v
      BY <2>1, <2>3, <3>1
    <3> QED
      BY <3>2 DEF Around
  <2>5. 32 * m + v \in 0..255
    BY <2>1, <2>3
  <2> QED
    BY <2>1, <2>2, <2>3, <2>4, <2>5
<1>7. a + 256 * c = Around(64 * n, 512) => 2 * a + c = Around(128 * n, 512)
  <2> DEFINE w == n \div 4
             m == n % 4
  <2>1. n = 4 * w + m /\ w \in 0..127 /\ m \in 0..3
    BY <1>0
  <2> HIDE DEF w, m
  <2>2. Around(128 * n, 512) = 128 * m + w
    <3>1. 128 * n = 512 * w + 128 * m /\ 128 * m \in 0..511
      BY <2>1
    <3>2. (128 * n) % 512 = 128 * m /\ (128 * n) \div 512 = w
      BY <2>1, <3>1
    <3> QED
      BY <3>2 DEF Around
  <2>3. PICK v \in 0..63, b \in 0..1 : w = 2 * v + b
    <3>1. w \div 2 \in 0..63 /\ w % 2 \in 0..1 /\ w = 2 * (w \div 2) + (w % 2)
      BY <2>1
    <3> QED
      BY <3>1
  <2>4. Around(64 * n, 512) = 256 * b + 64 * m + v
    <3>1. 64 * n = 512 * v + (256 * b + 64 * m) /\ 256 * b + 64 * m \in 0..511
      BY <2>1, <2>3
    <3>2. (64 * n) % 512 = 256 * b + 64 * m /\ (64 * n) \div 512 = v
      BY <2>1, <2>3, <3>1
    <3> QED
      BY <3>2 DEF Around
  <2>5. 64 * m + v \in 0..255
    BY <2>1, <2>3
  <2> QED
    BY <2>1, <2>2, <2>3, <2>4, <2>5
<1>8. a + 256 * c = Around(128 * n, 512) => 2 * a + c = Around(256 * n, 512)
  <2> DEFINE w == n \div 2
             m == n % 2
  <2>1. n = 2 * w + m /\ w \in 0..255 /\ m \in 0..1
    BY <1>0
  <2> HIDE DEF w, m
  <2>2. Around(256 * n, 512) = 256 * m + w
    <3>1. 256 * n = 512 * w + 256 * m /\ 256 * m \in 0..511
      BY <2>1
    <3>2. (256 * n) % 512 = 256 * m /\ (256 * n) \div 512 = w
      BY <2>1, <3>1
    <3> QED
      BY <3>2 DEF Around
  <2>3. PICK v \in 0..127, b \in 0..1 : w = 2 * v + b
    <3>1. w \div 2 \in 0..127 /\ w % 2 \in 0..1 /\ w = 2 * (w \div 2) + (w % 2)
      BY <2>1
    <3> QED
      BY <3>1
  <2>4. Around(128 * n, 512) = 256 * b + 128 * m + v
    <3>1. 128 * n = 512 * v + (256 * b + 128 * m) /\ 256 * b + 128 * m \in 0..511
      BY <2>1, <2>3
    <3>2. (128 * n) % 512 = 256 * b + 128 * m /\ (128 * n) \div 512 = v
      BY <2>1, <2>3, <3>1
    <3> QED
      BY <3>2 DEF Around
  <2>5. 128 * m + v \in 0..255
    BY <2>1, <2>3
  <2> QED
    BY <2>1, <2>2, <2>3, <2>4, <2>5
<1>9. a + 256 * c = Around(256 * n, 512) => 2 * a + c = Around(512 * n, 512)
  <2> DEFINE w == n \div 1
             m == n % 1
  <2>1. n = 1 * w + m /\ w \in 0..511 /\ m \in 0..0
    BY <1>0
  <2> HIDE DEF w, m
  <2>2. Around(512 * n, 512) = 512 * m + w
    <3>1. 512 * n = 512 * w + 512 * m /\ 512 * m \in 0..511
      BY <2>1
    <3>2. (512 * n) % 512 = 512 * m /\ (512 * n) \div 512 = w
      BY <2>1, <3>1
    <3> QED
      BY <3>2 DEF Around
  <2>3. PICK v \in 0..255, b \in 0..1 : w = 2 * v + b
    <3>1. w \div 2 \in 0..255 /\ w % 2 \in 0..1 /\ w = 2 * (w \div 2) + (w % 2)
      BY <2>1
    <3> QED
      BY <3>1
  <2>4. Around(256 * n, 512) = 256 * b + 256 * m + v
    <3>1. 256 * n = 512 * v + (256 * b + 256 * m) /\ 256 * b + 256 * m \in 0..511
      BY <2>1, <2>3
    <3>2. (256 * n) % 512 = 256 * b + 256 * m /\ (256 * n) \div 512 = v
      BY <2>1, <2>3, <3>1
    <3> QED
      BY <3>2 DEF Around
  <2>5. 256 * m + v \in 0..255
    BY <2>1, <2>3
  <2> QED
    BY <2>1, <2>2, <2>3, <2>4, <2>5
<1> QED
  BY <1>1, <1>2, <1>3, <1>4, <1>5, <1>6, <1>7, <1>8, <1>9 DEF n, Turned, NineDoubles

\* And of eight.
LEMMA EightTurn ==
  ASSUME routine \in Routines, NEW a \in 0..127, NEW c \in 0..1
  PROVE  EightDoubles(a, c)
<1> DEFINE n == Regs[0]
<1>0. n \in 0..255
  <2>1. Regs \in [0..7 -> Bytes8]
    BY AluAssumption DEF Regs
  <2> QED
    BY <2>1 DEF Bytes8
<1> HIDE DEF n
<1>1. a + 128 * c = Around(1 * n, 256) => 2 * a + c = Around(2 * n, 256)
  <2> DEFINE w == n \div 128
             m == n % 128
  <2>1. n = 128 * w + m /\ w \in 0..1 /\ m \in 0..127
    BY <1>0
  <2> HIDE DEF w, m
  <2>2. Around(2 * n, 256) = 2 * m + w
    <3>1. 2 * n = 256 * w + 2 * m /\ 2 * m \in 0..255
      BY <2>1
    <3>2. (2 * n) % 256 = 2 * m /\ (2 * n) \div 256 = w
      BY <2>1, <3>1
    <3> QED
      BY <3>2 DEF Around
  <2>3. PICK v \in 0..0, b \in 0..1 : w = 2 * v + b
    <3>1. w \div 2 \in 0..0 /\ w % 2 \in 0..1 /\ w = 2 * (w \div 2) + (w % 2)
      BY <2>1
    <3> QED
      BY <3>1
  <2>4. Around(1 * n, 256) = 128 * b + 1 * m + v
    <3>1. 1 * n = 256 * v + (128 * b + 1 * m) /\ 128 * b + 1 * m \in 0..255
      BY <2>1, <2>3
    <3>2. (1 * n) % 256 = 128 * b + 1 * m /\ (1 * n) \div 256 = v
      BY <2>1, <2>3, <3>1
    <3> QED
      BY <3>2 DEF Around
  <2>5. 1 * m + v \in 0..127
    BY <2>1, <2>3
  <2> QED
    BY <2>1, <2>2, <2>3, <2>4, <2>5
<1>2. a + 128 * c = Around(2 * n, 256) => 2 * a + c = Around(4 * n, 256)
  <2> DEFINE w == n \div 64
             m == n % 64
  <2>1. n = 64 * w + m /\ w \in 0..3 /\ m \in 0..63
    BY <1>0
  <2> HIDE DEF w, m
  <2>2. Around(4 * n, 256) = 4 * m + w
    <3>1. 4 * n = 256 * w + 4 * m /\ 4 * m \in 0..255
      BY <2>1
    <3>2. (4 * n) % 256 = 4 * m /\ (4 * n) \div 256 = w
      BY <2>1, <3>1
    <3> QED
      BY <3>2 DEF Around
  <2>3. PICK v \in 0..1, b \in 0..1 : w = 2 * v + b
    <3>1. w \div 2 \in 0..1 /\ w % 2 \in 0..1 /\ w = 2 * (w \div 2) + (w % 2)
      BY <2>1
    <3> QED
      BY <3>1
  <2>4. Around(2 * n, 256) = 128 * b + 2 * m + v
    <3>1. 2 * n = 256 * v + (128 * b + 2 * m) /\ 128 * b + 2 * m \in 0..255
      BY <2>1, <2>3
    <3>2. (2 * n) % 256 = 128 * b + 2 * m /\ (2 * n) \div 256 = v
      BY <2>1, <2>3, <3>1
    <3> QED
      BY <3>2 DEF Around
  <2>5. 2 * m + v \in 0..127
    BY <2>1, <2>3
  <2> QED
    BY <2>1, <2>2, <2>3, <2>4, <2>5
<1>3. a + 128 * c = Around(4 * n, 256) => 2 * a + c = Around(8 * n, 256)
  <2> DEFINE w == n \div 32
             m == n % 32
  <2>1. n = 32 * w + m /\ w \in 0..7 /\ m \in 0..31
    BY <1>0
  <2> HIDE DEF w, m
  <2>2. Around(8 * n, 256) = 8 * m + w
    <3>1. 8 * n = 256 * w + 8 * m /\ 8 * m \in 0..255
      BY <2>1
    <3>2. (8 * n) % 256 = 8 * m /\ (8 * n) \div 256 = w
      BY <2>1, <3>1
    <3> QED
      BY <3>2 DEF Around
  <2>3. PICK v \in 0..3, b \in 0..1 : w = 2 * v + b
    <3>1. w \div 2 \in 0..3 /\ w % 2 \in 0..1 /\ w = 2 * (w \div 2) + (w % 2)
      BY <2>1
    <3> QED
      BY <3>1
  <2>4. Around(4 * n, 256) = 128 * b + 4 * m + v
    <3>1. 4 * n = 256 * v + (128 * b + 4 * m) /\ 128 * b + 4 * m \in 0..255
      BY <2>1, <2>3
    <3>2. (4 * n) % 256 = 128 * b + 4 * m /\ (4 * n) \div 256 = v
      BY <2>1, <2>3, <3>1
    <3> QED
      BY <3>2 DEF Around
  <2>5. 4 * m + v \in 0..127
    BY <2>1, <2>3
  <2> QED
    BY <2>1, <2>2, <2>3, <2>4, <2>5
<1>4. a + 128 * c = Around(8 * n, 256) => 2 * a + c = Around(16 * n, 256)
  <2> DEFINE w == n \div 16
             m == n % 16
  <2>1. n = 16 * w + m /\ w \in 0..15 /\ m \in 0..15
    BY <1>0
  <2> HIDE DEF w, m
  <2>2. Around(16 * n, 256) = 16 * m + w
    <3>1. 16 * n = 256 * w + 16 * m /\ 16 * m \in 0..255
      BY <2>1
    <3>2. (16 * n) % 256 = 16 * m /\ (16 * n) \div 256 = w
      BY <2>1, <3>1
    <3> QED
      BY <3>2 DEF Around
  <2>3. PICK v \in 0..7, b \in 0..1 : w = 2 * v + b
    <3>1. w \div 2 \in 0..7 /\ w % 2 \in 0..1 /\ w = 2 * (w \div 2) + (w % 2)
      BY <2>1
    <3> QED
      BY <3>1
  <2>4. Around(8 * n, 256) = 128 * b + 8 * m + v
    <3>1. 8 * n = 256 * v + (128 * b + 8 * m) /\ 128 * b + 8 * m \in 0..255
      BY <2>1, <2>3
    <3>2. (8 * n) % 256 = 128 * b + 8 * m /\ (8 * n) \div 256 = v
      BY <2>1, <2>3, <3>1
    <3> QED
      BY <3>2 DEF Around
  <2>5. 8 * m + v \in 0..127
    BY <2>1, <2>3
  <2> QED
    BY <2>1, <2>2, <2>3, <2>4, <2>5
<1> QED
  BY <1>1, <1>2, <1>3, <1>4 DEF n, Rolled, EightDoubles

(***************************************************************************)
(* A and the carry turn as nine bits, once around, and B turns four times. *)
(***************************************************************************)
TurnRun ==
  routine.name = "turn" =>
    /\ done = 1 => /\ \A j \in 0..7 \ {7} : r[j] = Regs[j]
                   /\ r[7] + 256 * Carry(f) = Turned(2)
    /\ done = 2 => /\ \A j \in 0..7 \ {7} : r[j] = Regs[j]
                   /\ r[7] + 256 * Carry(f) = Turned(4)
    /\ done = 3 => /\ \A j \in 0..7 \ {7} : r[j] = Regs[j]
                   /\ r[7] + 256 * Carry(f) = Turned(8)
    /\ done = 4 => /\ \A j \in 0..7 \ {7} : r[j] = Regs[j]
                   /\ r[7] + 256 * Carry(f) = Turned(16)
    /\ done = 5 => /\ \A j \in 0..7 \ {7} : r[j] = Regs[j]
                   /\ r[7] + 256 * Carry(f) = Turned(32)
    /\ done = 6 => /\ \A j \in 0..7 \ {7} : r[j] = Regs[j]
                   /\ r[7] + 256 * Carry(f) = Turned(64)
    /\ done = 7 => /\ \A j \in 0..7 \ {7} : r[j] = Regs[j]
                   /\ r[7] + 256 * Carry(f) = Turned(128)
    /\ done = 8 => /\ \A j \in 0..7 \ {7} : r[j] = Regs[j]
                   /\ r[7] + 256 * Carry(f) = Turned(256)
    /\ done = 9 => /\ r = Regs
                   /\ Carry(f) = Carry(routine.flags)
    /\ done = 10 => /\ \A j \in 0..7 \ {0} : r[j] = Regs[j]
                    /\ r[0] = Rolled(2)
    /\ done = 11 => /\ \A j \in 0..7 \ {0} : r[j] = Regs[j]
                    /\ r[0] = Rolled(4)
    /\ done = 12 => /\ \A j \in 0..7 \ {0} : r[j] = Regs[j]
                    /\ r[0] = Rolled(8)
    /\ done = 13 => /\ \A j \in 0..7 \ {0} : r[j] = Regs[j]
                    /\ r[0] = Rolled(16)
    /\ done = 14 => r = Regs

LEMMA TurnKept ==
  ASSUME routine \in Routines, AluTypeOK, AluNext, AtStart, TurnRun
  PROVE  TurnRun'
<1> SUFFICES ASSUME routine.name = "turn" PROVE TurnRun'
  BY RoutineRuns DEF TurnRun
<1>a. /\ done' = done + 1 /\ routine' = routine
      /\ Regs \in [0..7 -> 0..255] /\ r \in [0..7 -> 0..255] /\ r' \in [0..7 -> 0..255]
  BY RoutineRuns
<1>b. done \in 0..13
  <2>1. Len(routine.code) = 14
    BY TurnCode
  <2>2. done \in Nat /\ done < Len(routine.code)
    BY RoutineRuns
  <2> QED
    BY <2>1, <2>2
<1>c. /\ Turned(2)' = Turned(2) /\ Turned(4)' = Turned(4) /\ Turned(8)' = Turned(8) /\ Turned(16)' = Turned(16)
      /\ Turned(32)' = Turned(32) /\ Turned(64)' = Turned(64) /\ Turned(128)' = Turned(128) /\ Turned(256)' = Turned(256)
      /\ Rolled(2)' = Rolled(2) /\ Rolled(4)' = Rolled(4) /\ Rolled(8)' = Rolled(8) /\ Rolled(16)' = Rolled(16)
  BY <1>a DEF Turned, Nine, Rolled, Regs
<1>1. CASE done = 0
  <2>1. r = Regs /\ f = routine.flags /\ sp = StackTop /\ stack = <<>>
    BY <1>1 DEF AtStart
  <2>2. Sets(7, ((2 * r[7]) % 256) + Carry(f)) /\ Carry(f') = r[7] \div 128
    <3>1. Opcode = 23
      BY <1>1, TurnCode DEF Opcode
    <3> QED
      BY <3>1, TurnsLeft, CarryStays
  <2>3. /\ \A j \in 0..7 \ {7} : r'[j] = Regs[j]
        /\ r'[7] + 256 * Carry(f') = Turned(2)
    <3> DEFINE n == Nine
               a == r[7]
               c == Carry(f)
    <3>1. n \in 0..511 /\ a \in 0..255 /\ c \in 0..1 /\ n = Nine
      BY <1>a, NineType, CarryType DEF n
    <3>2. a + 256 * c = n
      BY <2>1 DEF Nine
    <3>3. r'[7] = ((2 * a) % 256) + c /\ Carry(f') = a \div 128 /\ \A j \in 0..6 : r'[j] = r[j]
      BY <1>a, <2>2 DEF Sets
    <3> HIDE DEF n, a, c
    <3>4. r'[7] + 256 * Carry(f') = 2 * a + c
      BY <3>1, <3>3
    <3>5. 2 * a + c = Turned(2)
      <4>1. NineDoubles(a, c)
        BY <3>1, NineTurn
      <4> QED
        BY <3>1, <3>2, <4>1, WholeTurns DEF NineDoubles
    <3> QED
      BY <2>1, <3>3, <3>4, <3>5
  <2> QED
    BY <1>a, <1>c, <1>1, <2>3 DEF TurnRun, Regs
<1>2. CASE done = 1
  <2>1. /\ \A j \in 0..7 \ {7} : r[j] = Regs[j]
        /\ r[7] + 256 * Carry(f) = Turned(2)
    BY <1>2 DEF TurnRun
  <2>2. Sets(7, ((2 * r[7]) % 256) + Carry(f)) /\ Carry(f') = r[7] \div 128
    <3>1. Opcode = 23
      BY <1>2, TurnCode DEF Opcode
    <3> QED
      BY <3>1, TurnsLeft, CarryStays
  <2>3. /\ \A j \in 0..7 \ {7} : r'[j] = Regs[j]
        /\ r'[7] + 256 * Carry(f') = Turned(4)
    <3> DEFINE n == Nine
               a == r[7]
               c == Carry(f)
    <3>1. n \in 0..511 /\ a \in 0..255 /\ c \in 0..1 /\ n = Nine
      BY <1>a, NineType, CarryType DEF n
    <3>2. a + 256 * c = Turned(2)
      BY <2>1
    <3>3. r'[7] = ((2 * a) % 256) + c /\ Carry(f') = a \div 128 /\ \A j \in 0..6 : r'[j] = r[j]
      BY <1>a, <2>2 DEF Sets
    <3> HIDE DEF n, a, c
    <3>4. r'[7] + 256 * Carry(f') = 2 * a + c
      BY <3>1, <3>3
    <3>5. 2 * a + c = Turned(4)
      <4>1. NineDoubles(a, c)
        BY <3>1, NineTurn
      <4> QED
        BY <3>2, <4>1 DEF NineDoubles
    <3> QED
      BY <2>1, <3>3, <3>4, <3>5
  <2> QED
    BY <1>a, <1>c, <1>2, <2>3 DEF TurnRun, Regs
<1>3. CASE done = 2
  <2>1. /\ \A j \in 0..7 \ {7} : r[j] = Regs[j]
        /\ r[7] + 256 * Carry(f) = Turned(4)
    BY <1>3 DEF TurnRun
  <2>2. Sets(7, ((2 * r[7]) % 256) + Carry(f)) /\ Carry(f') = r[7] \div 128
    <3>1. Opcode = 23
      BY <1>3, TurnCode DEF Opcode
    <3> QED
      BY <3>1, TurnsLeft, CarryStays
  <2>3. /\ \A j \in 0..7 \ {7} : r'[j] = Regs[j]
        /\ r'[7] + 256 * Carry(f') = Turned(8)
    <3> DEFINE n == Nine
               a == r[7]
               c == Carry(f)
    <3>1. n \in 0..511 /\ a \in 0..255 /\ c \in 0..1 /\ n = Nine
      BY <1>a, NineType, CarryType DEF n
    <3>2. a + 256 * c = Turned(4)
      BY <2>1
    <3>3. r'[7] = ((2 * a) % 256) + c /\ Carry(f') = a \div 128 /\ \A j \in 0..6 : r'[j] = r[j]
      BY <1>a, <2>2 DEF Sets
    <3> HIDE DEF n, a, c
    <3>4. r'[7] + 256 * Carry(f') = 2 * a + c
      BY <3>1, <3>3
    <3>5. 2 * a + c = Turned(8)
      <4>1. NineDoubles(a, c)
        BY <3>1, NineTurn
      <4> QED
        BY <3>2, <4>1 DEF NineDoubles
    <3> QED
      BY <2>1, <3>3, <3>4, <3>5
  <2> QED
    BY <1>a, <1>c, <1>3, <2>3 DEF TurnRun, Regs
<1>4. CASE done = 3
  <2>1. /\ \A j \in 0..7 \ {7} : r[j] = Regs[j]
        /\ r[7] + 256 * Carry(f) = Turned(8)
    BY <1>4 DEF TurnRun
  <2>2. Sets(7, ((2 * r[7]) % 256) + Carry(f)) /\ Carry(f') = r[7] \div 128
    <3>1. Opcode = 23
      BY <1>4, TurnCode DEF Opcode
    <3> QED
      BY <3>1, TurnsLeft, CarryStays
  <2>3. /\ \A j \in 0..7 \ {7} : r'[j] = Regs[j]
        /\ r'[7] + 256 * Carry(f') = Turned(16)
    <3> DEFINE n == Nine
               a == r[7]
               c == Carry(f)
    <3>1. n \in 0..511 /\ a \in 0..255 /\ c \in 0..1 /\ n = Nine
      BY <1>a, NineType, CarryType DEF n
    <3>2. a + 256 * c = Turned(8)
      BY <2>1
    <3>3. r'[7] = ((2 * a) % 256) + c /\ Carry(f') = a \div 128 /\ \A j \in 0..6 : r'[j] = r[j]
      BY <1>a, <2>2 DEF Sets
    <3> HIDE DEF n, a, c
    <3>4. r'[7] + 256 * Carry(f') = 2 * a + c
      BY <3>1, <3>3
    <3>5. 2 * a + c = Turned(16)
      <4>1. NineDoubles(a, c)
        BY <3>1, NineTurn
      <4> QED
        BY <3>2, <4>1 DEF NineDoubles
    <3> QED
      BY <2>1, <3>3, <3>4, <3>5
  <2> QED
    BY <1>a, <1>c, <1>4, <2>3 DEF TurnRun, Regs
<1>5. CASE done = 4
  <2>1. /\ \A j \in 0..7 \ {7} : r[j] = Regs[j]
        /\ r[7] + 256 * Carry(f) = Turned(16)
    BY <1>5 DEF TurnRun
  <2>2. Sets(7, ((2 * r[7]) % 256) + Carry(f)) /\ Carry(f') = r[7] \div 128
    <3>1. Opcode = 23
      BY <1>5, TurnCode DEF Opcode
    <3> QED
      BY <3>1, TurnsLeft, CarryStays
  <2>3. /\ \A j \in 0..7 \ {7} : r'[j] = Regs[j]
        /\ r'[7] + 256 * Carry(f') = Turned(32)
    <3> DEFINE n == Nine
               a == r[7]
               c == Carry(f)
    <3>1. n \in 0..511 /\ a \in 0..255 /\ c \in 0..1 /\ n = Nine
      BY <1>a, NineType, CarryType DEF n
    <3>2. a + 256 * c = Turned(16)
      BY <2>1
    <3>3. r'[7] = ((2 * a) % 256) + c /\ Carry(f') = a \div 128 /\ \A j \in 0..6 : r'[j] = r[j]
      BY <1>a, <2>2 DEF Sets
    <3> HIDE DEF n, a, c
    <3>4. r'[7] + 256 * Carry(f') = 2 * a + c
      BY <3>1, <3>3
    <3>5. 2 * a + c = Turned(32)
      <4>1. NineDoubles(a, c)
        BY <3>1, NineTurn
      <4> QED
        BY <3>2, <4>1 DEF NineDoubles
    <3> QED
      BY <2>1, <3>3, <3>4, <3>5
  <2> QED
    BY <1>a, <1>c, <1>5, <2>3 DEF TurnRun, Regs
<1>6. CASE done = 5
  <2>1. /\ \A j \in 0..7 \ {7} : r[j] = Regs[j]
        /\ r[7] + 256 * Carry(f) = Turned(32)
    BY <1>6 DEF TurnRun
  <2>2. Sets(7, ((2 * r[7]) % 256) + Carry(f)) /\ Carry(f') = r[7] \div 128
    <3>1. Opcode = 23
      BY <1>6, TurnCode DEF Opcode
    <3> QED
      BY <3>1, TurnsLeft, CarryStays
  <2>3. /\ \A j \in 0..7 \ {7} : r'[j] = Regs[j]
        /\ r'[7] + 256 * Carry(f') = Turned(64)
    <3> DEFINE n == Nine
               a == r[7]
               c == Carry(f)
    <3>1. n \in 0..511 /\ a \in 0..255 /\ c \in 0..1 /\ n = Nine
      BY <1>a, NineType, CarryType DEF n
    <3>2. a + 256 * c = Turned(32)
      BY <2>1
    <3>3. r'[7] = ((2 * a) % 256) + c /\ Carry(f') = a \div 128 /\ \A j \in 0..6 : r'[j] = r[j]
      BY <1>a, <2>2 DEF Sets
    <3> HIDE DEF n, a, c
    <3>4. r'[7] + 256 * Carry(f') = 2 * a + c
      BY <3>1, <3>3
    <3>5. 2 * a + c = Turned(64)
      <4>1. NineDoubles(a, c)
        BY <3>1, NineTurn
      <4> QED
        BY <3>2, <4>1 DEF NineDoubles
    <3> QED
      BY <2>1, <3>3, <3>4, <3>5
  <2> QED
    BY <1>a, <1>c, <1>6, <2>3 DEF TurnRun, Regs
<1>7. CASE done = 6
  <2>1. /\ \A j \in 0..7 \ {7} : r[j] = Regs[j]
        /\ r[7] + 256 * Carry(f) = Turned(64)
    BY <1>7 DEF TurnRun
  <2>2. Sets(7, ((2 * r[7]) % 256) + Carry(f)) /\ Carry(f') = r[7] \div 128
    <3>1. Opcode = 23
      BY <1>7, TurnCode DEF Opcode
    <3> QED
      BY <3>1, TurnsLeft, CarryStays
  <2>3. /\ \A j \in 0..7 \ {7} : r'[j] = Regs[j]
        /\ r'[7] + 256 * Carry(f') = Turned(128)
    <3> DEFINE n == Nine
               a == r[7]
               c == Carry(f)
    <3>1. n \in 0..511 /\ a \in 0..255 /\ c \in 0..1 /\ n = Nine
      BY <1>a, NineType, CarryType DEF n
    <3>2. a + 256 * c = Turned(64)
      BY <2>1
    <3>3. r'[7] = ((2 * a) % 256) + c /\ Carry(f') = a \div 128 /\ \A j \in 0..6 : r'[j] = r[j]
      BY <1>a, <2>2 DEF Sets
    <3> HIDE DEF n, a, c
    <3>4. r'[7] + 256 * Carry(f') = 2 * a + c
      BY <3>1, <3>3
    <3>5. 2 * a + c = Turned(128)
      <4>1. NineDoubles(a, c)
        BY <3>1, NineTurn
      <4> QED
        BY <3>2, <4>1 DEF NineDoubles
    <3> QED
      BY <2>1, <3>3, <3>4, <3>5
  <2> QED
    BY <1>a, <1>c, <1>7, <2>3 DEF TurnRun, Regs
<1>8. CASE done = 7
  <2>1. /\ \A j \in 0..7 \ {7} : r[j] = Regs[j]
        /\ r[7] + 256 * Carry(f) = Turned(128)
    BY <1>8 DEF TurnRun
  <2>2. Sets(7, ((2 * r[7]) % 256) + Carry(f)) /\ Carry(f') = r[7] \div 128
    <3>1. Opcode = 23
      BY <1>8, TurnCode DEF Opcode
    <3> QED
      BY <3>1, TurnsLeft, CarryStays
  <2>3. /\ \A j \in 0..7 \ {7} : r'[j] = Regs[j]
        /\ r'[7] + 256 * Carry(f') = Turned(256)
    <3> DEFINE n == Nine
               a == r[7]
               c == Carry(f)
    <3>1. n \in 0..511 /\ a \in 0..255 /\ c \in 0..1 /\ n = Nine
      BY <1>a, NineType, CarryType DEF n
    <3>2. a + 256 * c = Turned(128)
      BY <2>1
    <3>3. r'[7] = ((2 * a) % 256) + c /\ Carry(f') = a \div 128 /\ \A j \in 0..6 : r'[j] = r[j]
      BY <1>a, <2>2 DEF Sets
    <3> HIDE DEF n, a, c
    <3>4. r'[7] + 256 * Carry(f') = 2 * a + c
      BY <3>1, <3>3
    <3>5. 2 * a + c = Turned(256)
      <4>1. NineDoubles(a, c)
        BY <3>1, NineTurn
      <4> QED
        BY <3>2, <4>1 DEF NineDoubles
    <3> QED
      BY <2>1, <3>3, <3>4, <3>5
  <2> QED
    BY <1>a, <1>c, <1>8, <2>3 DEF TurnRun, Regs
<1>9. CASE done = 8
  <2>1. /\ \A j \in 0..7 \ {7} : r[j] = Regs[j]
        /\ r[7] + 256 * Carry(f) = Turned(256)
    BY <1>9 DEF TurnRun
  <2>2. Sets(7, ((2 * r[7]) % 256) + Carry(f)) /\ Carry(f') = r[7] \div 128
    <3>1. Opcode = 23
      BY <1>9, TurnCode DEF Opcode
    <3> QED
      BY <3>1, TurnsLeft, CarryStays
  <2>3. /\ r' = Regs
        /\ Carry(f') = Carry(routine.flags)
    <3> DEFINE n == Nine
               a == r[7]
               c == Carry(f)
    <3>1. n \in 0..511 /\ a \in 0..255 /\ c \in 0..1 /\ n = Nine
      BY <1>a, NineType, CarryType DEF n
    <3>2. a + 256 * c = Turned(256)
      BY <2>1
    <3>3. r'[7] = ((2 * a) % 256) + c /\ Carry(f') = a \div 128 /\ \A j \in 0..6 : r'[j] = r[j]
      BY <1>a, <2>2 DEF Sets
    <3> HIDE DEF n, a, c
    <3>4. r'[7] + 256 * Carry(f') = 2 * a + c
      BY <3>1, <3>3
    <3>5. 2 * a + c = Turned(512)
      <4>1. NineDoubles(a, c)
        BY <3>1, NineTurn
      <4> QED
        BY <3>2, <4>1 DEF NineDoubles
    <3>6. Turned(512) = n
      BY <3>1, WholeTurns
    <3>7. r'[7] + 256 * Carry(f') = n /\ r'[7] \in 0..255 /\ Carry(f') \in 0..1
      BY <1>a, <3>4, <3>5, <3>6 DEF Carry
    <3>8. r'[7] = Regs[7] /\ Carry(f') = Carry(routine.flags)
      <4> DEFINE a0 == Regs[7]
                 c0 == Carry(routine.flags)
                 a1 == r'[7]
                 c1 == Carry(f')
      <4>1. a0 \in 0..255 /\ c0 \in 0..1 /\ n = a0 + 256 * c0
        BY <1>a, <3>1 DEF Nine, Carry
      <4>2. a1 \in 0..255 /\ c1 \in 0..1 /\ n = a1 + 256 * c1
        BY <3>7
      <4> HIDE DEF a0, c0, a1, c1
      <4>3. a1 = a0 /\ c1 = c0
        BY <4>1, <4>2
      <4> QED
        BY <4>3 DEF a0, c0, a1, c1
    <3>9. \A j \in 0..7 : r'[j] = Regs[j]
      BY <2>1, <3>3, <3>8
    <3>10. r' = Regs
      BY <1>a, <3>9
    <3> QED
      BY <3>8, <3>10
  <2> QED
    BY <1>a, <1>c, <1>9, <2>3, SMTT(30) DEF TurnRun, Regs
<1>10. CASE done = 9
  <2>1. /\ r = Regs
        /\ Carry(f) = Carry(routine.flags)
    BY <1>10 DEF TurnRun
  <2>2. Sets(0, ((2 * r[0]) % 256) + (r[0] \div 128))
    <3>1. Opcode = 256
      BY <1>10, TurnCode DEF Opcode
    <3> QED
      BY <3>1, RotatesAre
  <2>3. /\ \A j \in 0..7 \ {0} : r'[j] = Regs[j]
        /\ r'[0] = Rolled(2)
    <3> DEFINE n == Regs[0]
               a == r[0] % 128
               c == r[0] \div 128
    <3>1. /\ n \in 0..255 /\ a \in 0..127 /\ c \in 0..1 /\ n = Regs[0]
          /\ r[0] = a + 128 * c /\ (2 * r[0]) % 256 = 2 * a
      BY <1>a DEF n
    <3>2. /\ r'[0] = ((2 * r[0]) % 256) + c
          /\ \A i \in 1..7 : r'[i] = r[i]
      BY <1>a, <2>2 DEF Sets
    <3> HIDE DEF n, a, c
    <3>3. a + 128 * c = Rolled(1)
      BY <2>1, <3>1, WholeTurns
    <3>4. 2 * a + c = Rolled(2)
      <4>1. EightDoubles(a, c)
        BY <3>1, EightTurn
      <4> QED
        BY <3>3, <4>1 DEF EightDoubles
    <3>5. r'[0] = 2 * a + c
      BY <3>1, <3>2
    <3> QED
      BY <2>1, <3>2, <3>4, <3>5
  <2> QED
    BY <1>a, <1>c, <1>10, <2>3 DEF TurnRun, Regs
<1>11. CASE done = 10
  <2>1. /\ \A j \in 0..7 \ {0} : r[j] = Regs[j]
        /\ r[0] = Rolled(2)
    BY <1>11 DEF TurnRun
  <2>2. Sets(0, ((2 * r[0]) % 256) + (r[0] \div 128))
    <3>1. Opcode = 256
      BY <1>11, TurnCode DEF Opcode
    <3> QED
      BY <3>1, RotatesAre
  <2>3. /\ \A j \in 0..7 \ {0} : r'[j] = Regs[j]
        /\ r'[0] = Rolled(4)
    <3> DEFINE n == Regs[0]
               a == r[0] % 128
               c == r[0] \div 128
    <3>1. /\ n \in 0..255 /\ a \in 0..127 /\ c \in 0..1 /\ n = Regs[0]
          /\ r[0] = a + 128 * c /\ (2 * r[0]) % 256 = 2 * a
      BY <1>a DEF n
    <3>2. /\ r'[0] = ((2 * r[0]) % 256) + c
          /\ \A i \in 1..7 : r'[i] = r[i]
      BY <1>a, <2>2 DEF Sets
    <3> HIDE DEF n, a, c
    <3>3. a + 128 * c = Rolled(2)
      BY <2>1, <3>1
    <3>4. 2 * a + c = Rolled(4)
      <4>1. EightDoubles(a, c)
        BY <3>1, EightTurn
      <4> QED
        BY <3>3, <4>1 DEF EightDoubles
    <3>5. r'[0] = 2 * a + c
      BY <3>1, <3>2
    <3> QED
      BY <2>1, <3>2, <3>4, <3>5
  <2> QED
    BY <1>a, <1>c, <1>11, <2>3 DEF TurnRun, Regs
<1>12. CASE done = 11
  <2>1. /\ \A j \in 0..7 \ {0} : r[j] = Regs[j]
        /\ r[0] = Rolled(4)
    BY <1>12 DEF TurnRun
  <2>2. Sets(0, ((2 * r[0]) % 256) + (r[0] \div 128))
    <3>1. Opcode = 256
      BY <1>12, TurnCode DEF Opcode
    <3> QED
      BY <3>1, RotatesAre
  <2>3. /\ \A j \in 0..7 \ {0} : r'[j] = Regs[j]
        /\ r'[0] = Rolled(8)
    <3> DEFINE n == Regs[0]
               a == r[0] % 128
               c == r[0] \div 128
    <3>1. /\ n \in 0..255 /\ a \in 0..127 /\ c \in 0..1 /\ n = Regs[0]
          /\ r[0] = a + 128 * c /\ (2 * r[0]) % 256 = 2 * a
      BY <1>a DEF n
    <3>2. /\ r'[0] = ((2 * r[0]) % 256) + c
          /\ \A i \in 1..7 : r'[i] = r[i]
      BY <1>a, <2>2 DEF Sets
    <3> HIDE DEF n, a, c
    <3>3. a + 128 * c = Rolled(4)
      BY <2>1, <3>1
    <3>4. 2 * a + c = Rolled(8)
      <4>1. EightDoubles(a, c)
        BY <3>1, EightTurn
      <4> QED
        BY <3>3, <4>1 DEF EightDoubles
    <3>5. r'[0] = 2 * a + c
      BY <3>1, <3>2
    <3> QED
      BY <2>1, <3>2, <3>4, <3>5
  <2> QED
    BY <1>a, <1>c, <1>12, <2>3 DEF TurnRun, Regs
<1>13. CASE done = 12
  <2>1. /\ \A j \in 0..7 \ {0} : r[j] = Regs[j]
        /\ r[0] = Rolled(8)
    BY <1>13 DEF TurnRun
  <2>2. Sets(0, ((2 * r[0]) % 256) + (r[0] \div 128))
    <3>1. Opcode = 256
      BY <1>13, TurnCode DEF Opcode
    <3> QED
      BY <3>1, RotatesAre
  <2>3. /\ \A j \in 0..7 \ {0} : r'[j] = Regs[j]
        /\ r'[0] = Rolled(16)
    <3> DEFINE n == Regs[0]
               a == r[0] % 128
               c == r[0] \div 128
    <3>1. /\ n \in 0..255 /\ a \in 0..127 /\ c \in 0..1 /\ n = Regs[0]
          /\ r[0] = a + 128 * c /\ (2 * r[0]) % 256 = 2 * a
      BY <1>a DEF n
    <3>2. /\ r'[0] = ((2 * r[0]) % 256) + c
          /\ \A i \in 1..7 : r'[i] = r[i]
      BY <1>a, <2>2 DEF Sets
    <3> HIDE DEF n, a, c
    <3>3. a + 128 * c = Rolled(8)
      BY <2>1, <3>1
    <3>4. 2 * a + c = Rolled(16)
      <4>1. EightDoubles(a, c)
        BY <3>1, EightTurn
      <4> QED
        BY <3>3, <4>1 DEF EightDoubles
    <3>5. r'[0] = 2 * a + c
      BY <3>1, <3>2
    <3> QED
      BY <2>1, <3>2, <3>4, <3>5
  <2> QED
    BY <1>a, <1>c, <1>13, <2>3 DEF TurnRun, Regs
<1>14. CASE done = 13
  <2>1. /\ \A j \in 0..7 \ {0} : r[j] = Regs[j]
        /\ r[0] = Rolled(16)
    BY <1>14 DEF TurnRun
  <2>2. Sets(0, 16 * (r[0] % 16) + (r[0] \div 16))
    <3>1. Opcode = 304
      BY <1>14, TurnCode DEF Opcode
    <3> QED
      BY <3>1, RotatesAre
  <2>3. r' = Regs
    <3> DEFINE b == Regs[0]
               x == r[0]
    <3>1. b \in 0..255 /\ x = Around(16 * b, 256)
      BY <1>a, <2>1 DEF Rolled
    <3>2. r'[0] = 16 * (x % 16) + (x \div 16) /\ \A i \in 1..7 : r'[i] = r[i]
      BY <1>a, <2>2 DEF Sets
    <3> HIDE DEF b, x
    <3>3. 16 * (x % 16) + (x \div 16) = b
      <4> DEFINE h == b \div 16
                 l == b % 16
      <4>1. b = 16 * h + l /\ h \in 0..15 /\ l \in 0..15
        BY <3>1
      <4> HIDE DEF h, l
      <4>2. 16 * b = 256 * h + 16 * l
        BY <4>1
      <4>3. (16 * b) % 256 = 16 * l /\ (16 * b) \div 256 = h
        BY <4>1, <4>2
      <4>4. x = 16 * l + h
        BY <3>1, <4>3 DEF Around
      <4>5. x % 16 = h /\ x \div 16 = l
        BY <4>1, <4>4
      <4> QED
        BY <4>1, <4>5
    <3>4. \A j \in 0..7 : r'[j] = Regs[j]
      BY <2>1, <3>2, <3>3 DEF b
    <3> QED
      BY <1>a, <3>4
  <2> QED
    BY <1>a, <1>c, <1>14, <2>3 DEF TurnRun, Regs
<1> QED
  BY <1>b, <1>1, <1>2, <1>3, <1>4, <1>5, <1>6, <1>7, <1>8, <1>9, <1>10, <1>11, <1>12, <1>13, <1>14

LEMMA SplitCode ==
  ASSUME routine \in Routines, AluTypeOK, AluNext, routine.name = "split"
  PROVE  /\ Len(routine.code) = 8
         /\ routine.code[1] = 121
         /\ routine.code[2] = 47
         /\ routine.code[3] = 160
         /\ routine.code[4] = 87
         /\ routine.code[5] = 121
         /\ routine.code[6] = 160
         /\ routine.code[7] = 178
         /\ routine.code[8] = 168
<1>1. routine.code = <<121, 47, 160, 87, 121, 160, 178, 168>>
  BY RoutineRuns DEF Code
<1> QED
  BY <1>1

\* B without the bits of C, and the bits of C in B.
Outside == BitAnd(255 - Regs[1], Regs[0])
Inside == BitAnd(Regs[1], Regs[0])

LEMMA BitsOf ==
  ASSUME NEW a \in Bytes8, NEW v \in Bytes8, NEW i \in 0..7
  PROVE  /\ Bit(BitAnd(a, v), i) = IF Bit(a, i) = 1 THEN Bit(v, i) ELSE 0
         /\ Bit(BitOr(a, v), i) = IF Bit(a, i) = 1 THEN 1 ELSE Bit(v, i)
         /\ Bit(BitXor(a, v), i) = IF Bit(a, i) = Bit(v, i) THEN 0 ELSE 1
<1> DEFINE x == [j \in 0..7 |-> IF Bit(a, j) = 1 THEN Bit(v, j) ELSE 0]
           y == [j \in 0..7 |-> IF Bit(a, j) = 1 THEN 1 ELSE Bit(v, j)]
           z == [j \in 0..7 |-> IF Bit(a, j) = Bit(v, j) THEN 0 ELSE 1]
<1>1. \A j \in 0..7 : Bit(a, j) \in {0, 1} /\ Bit(v, j) \in {0, 1}
  BY BitType
<1>2. x \in [0..7 -> {0, 1}] /\ y \in [0..7 -> {0, 1}] /\ z \in [0..7 -> {0, 1}]
  BY <1>1
<1>3. /\ x[i] = IF Bit(a, i) = 1 THEN Bit(v, i) ELSE 0
      /\ y[i] = IF Bit(a, i) = 1 THEN 1 ELSE Bit(v, i)
      /\ z[i] = IF Bit(a, i) = Bit(v, i) THEN 0 ELSE 1
  OBVIOUS
<1>4. BitAnd(a, v) = Byte8(x) /\ BitOr(a, v) = Byte8(y) /\ BitXor(a, v) = Byte8(z)
  BY DEF BitAnd, BitOr, BitXor
<1> HIDE DEF x, y, z
<1>5. Bit(Byte8(x), i) = x[i] /\ Bit(Byte8(y), i) = y[i] /\ Bit(Byte8(z), i) = z[i]
  BY <1>2, BitsOfByte
<1> QED
  BY <1>3, <1>4, <1>5

\* Two bytes are the same when their bits are.
LEMMA SameBits ==
  ASSUME NEW x \in Bytes8, NEW y \in Bytes8, \A i \in 0..7 : Bit(x, i) = Bit(y, i)
  PROVE  x = y
<1>1. [i \in 0..7 |-> Bit(x, i)] = [i \in 0..7 |-> Bit(y, i)]
  OBVIOUS
<1> QED
  BY <1>1, ByteHasBits

LEMMA Complement ==
  ASSUME NEW x \in Bytes8, NEW i \in 0..7
  PROVE  255 - x \in Bytes8 /\ Bit(255 - x, i) = 1 - Bit(x, i)
<1>1. 255 - x \in Bytes8
  BY DEF Bytes8
<1> DEFINE b == [j \in 0..7 |-> 1 - Bit(x, j)]
<1>2. b \in [0..7 -> {0, 1}]
  BY BitType
<1>3. Byte8(b) = 255 - Byte8([j \in 0..7 |-> Bit(x, j)])
  <2>1. /\ Bit(x, 0) \in {0, 1} /\ Bit(x, 1) \in {0, 1} /\ Bit(x, 2) \in {0, 1} /\ Bit(x, 3) \in {0, 1}
        /\ Bit(x, 4) \in {0, 1} /\ Bit(x, 5) \in {0, 1} /\ Bit(x, 6) \in {0, 1} /\ Bit(x, 7) \in {0, 1}
    BY BitType
  <2> QED
    BY <2>1 DEF Byte8
<1>4. Byte8(b) = 255 - x
  BY <1>3, ByteHasBits
<1>5. b[i] = 1 - Bit(x, i)
  OBVIOUS
<1> HIDE DEF b
<1>6. Bit(Byte8(b), i) = b[i]
  BY <1>2, BitsOfByte
<1> QED
  BY <1>1, <1>4, <1>5, <1>6

LEMMA SplitJoins ==
  ASSUME NEW m \in Bytes8, NEW x \in Bytes8
  PROVE  BitOr(BitAnd(m, x), BitAnd(255 - m, x)) = x /\ BitXor(x, x) = 0
<1> DEFINE p == BitAnd(m, x)
           q == BitAnd(255 - m, x)
           j == BitOr(p, q)
           z == BitXor(x, x)
<1>1. 255 - m \in Bytes8 /\ 0 \in Bytes8
  BY DEF Bytes8
<1>2. p \in Bytes8 /\ q \in Bytes8 /\ z \in Bytes8
  BY <1>1, MaskTypes
<1>3. j \in Bytes8
  BY <1>2, MaskTypes
<1>4. ASSUME NEW i \in 0..7 PROVE Bit(j, i) = Bit(x, i) /\ Bit(z, i) = Bit(0, i)
  <2>1. Bit(p, i) = IF Bit(m, i) = 1 THEN Bit(x, i) ELSE 0
    BY <1>4, BitsOf
  <2>2. Bit(q, i) = IF 1 - Bit(m, i) = 1 THEN Bit(x, i) ELSE 0
    BY <1>1, <1>4, BitsOf, Complement
  <2> HIDE DEF p, q
  <2>3. Bit(j, i) = IF Bit(p, i) = 1 THEN 1 ELSE Bit(q, i)
    BY <1>2, <1>4, BitsOf
  <2>4. Bit(z, i) = 0
    BY <1>4, BitsOf
  <2>5. Bit(0, i) = 0
    <3>1. 0 % 2 = 0 /\ 0 \div 2 = 0 /\ 0 \div 4 = 0 /\ 0 \div 8 = 0 /\ 0 \div 16 = 0
          /\ 0 \div 32 = 0 /\ 0 \div 64 = 0 /\ 0 \div 128 = 0
      OBVIOUS
    <3>2. /\ Bit(0, 0) = 0 /\ Bit(0, 1) = 0 /\ Bit(0, 2) = 0 /\ Bit(0, 3) = 0
          /\ Bit(0, 4) = 0 /\ Bit(0, 5) = 0 /\ Bit(0, 6) = 0 /\ Bit(0, 7) = 0
      BY <1>1, <3>1, EveryBit
    <3> QED
      BY <1>4, <3>2
  <2>6. Bit(m, i) \in {0, 1} /\ Bit(x, i) \in {0, 1}
    BY <1>4, BitType
  <2> HIDE DEF j, z
  <2> QED
    BY <2>1, <2>2, <2>3, <2>4, <2>5, <2>6
<1> HIDE DEF p, q, j, z
<1>5. j = x
  BY <1>3, <1>4, SameBits
<1>6. z = 0
  BY <1>1, <1>2, <1>4, SameBits
<1> QED
  BY <1>5, <1>6 DEF p, q, j, z

(***************************************************************************)
(* The bits of B that C does not have, and those it has, are B again.      *)
(***************************************************************************)
SplitRun ==
  routine.name = "split" =>
    /\ done = 1 => /\ r[0] = Regs[0]
                   /\ r[1] = Regs[1]
                   /\ r[7] = Regs[1]
    /\ done = 2 => /\ r[0] = Regs[0]
                   /\ r[1] = Regs[1]
                   /\ r[7] = 255 - Regs[1]
    /\ done = 3 => /\ r[0] = Regs[0]
                   /\ r[1] = Regs[1]
                   /\ r[7] = Outside
    /\ done = 4 => /\ r[0] = Regs[0]
                   /\ r[1] = Regs[1]
                   /\ r[2] = Outside
    /\ done = 5 => /\ r[0] = Regs[0]
                   /\ r[2] = Outside
                   /\ r[7] = Regs[1]
    /\ done = 6 => /\ r[0] = Regs[0]
                   /\ r[2] = Outside
                   /\ r[7] = Inside
    /\ done = 7 => /\ r[0] = Regs[0]
                   /\ r[7] = Regs[0]
    /\ done = 8 => /\ r[7] = 0
                   /\ f = {"z"}

LEMMA SplitKept ==
  ASSUME routine \in Routines, AluTypeOK, AluNext, AtStart, SplitRun
  PROVE  SplitRun'
<1> SUFFICES ASSUME routine.name = "split" PROVE SplitRun'
  BY RoutineRuns DEF SplitRun
<1>a. /\ done' = done + 1 /\ routine' = routine
      /\ Regs \in [0..7 -> 0..255] /\ r \in [0..7 -> 0..255] /\ r' \in [0..7 -> 0..255]
  BY RoutineRuns
<1>b. done \in 0..7
  <2>1. Len(routine.code) = 8
    BY SplitCode
  <2>2. done \in Nat /\ done < Len(routine.code)
    BY RoutineRuns
  <2> QED
    BY <2>1, <2>2
<1>c. /\ Outside' = Outside /\ Inside' = Inside
  BY <1>a DEF Outside, Inside, Regs
<1>1. CASE done = 0
  <2>1. r = Regs /\ f = routine.flags /\ sp = StackTop /\ stack = <<>>
    BY <1>1 DEF AtStart
  <2>2. Sets(7, r[1])
    <3>1. Opcode = 121
      BY <1>1, SplitCode DEF Opcode
    <3> QED
      BY <3>1, Loads
  <2>3. /\ r'[0] = Regs[0]
        /\ r'[1] = Regs[1]
        /\ r'[7] = Regs[1]
    BY <1>a, <2>1, <2>2 DEF Sets, OthersKept, Outside, Inside
  <2> QED
    BY <1>a, <1>c, <1>1, <2>3 DEF SplitRun, Regs
<1>2. CASE done = 1
  <2>1. /\ r[0] = Regs[0]
        /\ r[1] = Regs[1]
        /\ r[7] = Regs[1]
    BY <1>2 DEF SplitRun
  <2>2. Sets(7, 255 - r[7])
    <3>1. Opcode = 47
      BY <1>2, SplitCode DEF Opcode
    <3> QED
      BY <3>1, Carries
  <2>3. /\ r'[0] = Regs[0]
        /\ r'[1] = Regs[1]
        /\ r'[7] = 255 - Regs[1]
    BY <1>a, <2>1, <2>2 DEF Sets, OthersKept, Outside, Inside
  <2> QED
    BY <1>a, <1>c, <1>2, <2>3 DEF SplitRun, Regs
<1>3. CASE done = 2
  <2>1. /\ r[0] = Regs[0]
        /\ r[1] = Regs[1]
        /\ r[7] = 255 - Regs[1]
    BY <1>3 DEF SplitRun
  <2>2. Sets(7, BitAnd(r[7], r[0]))
    <3>1. Opcode = 160
      BY <1>3, SplitCode DEF Opcode
    <3> QED
      BY <3>1, Masks
  <2>3. /\ r'[0] = Regs[0]
        /\ r'[1] = Regs[1]
        /\ r'[7] = Outside
    BY <1>a, <2>1, <2>2 DEF Sets, OthersKept, Outside, Inside
  <2> QED
    BY <1>a, <1>c, <1>3, <2>3 DEF SplitRun, Regs
<1>4. CASE done = 3
  <2>1. /\ r[0] = Regs[0]
        /\ r[1] = Regs[1]
        /\ r[7] = Outside
    BY <1>4 DEF SplitRun
  <2>2. Sets(2, r[7])
    <3>1. Opcode = 87
      BY <1>4, SplitCode DEF Opcode
    <3> QED
      BY <3>1, Loads
  <2>3. /\ r'[0] = Regs[0]
        /\ r'[1] = Regs[1]
        /\ r'[2] = Outside
    BY <1>a, <2>1, <2>2 DEF Sets, OthersKept, Outside, Inside
  <2> QED
    BY <1>a, <1>c, <1>4, <2>3 DEF SplitRun, Regs
<1>5. CASE done = 4
  <2>1. /\ r[0] = Regs[0]
        /\ r[1] = Regs[1]
        /\ r[2] = Outside
    BY <1>5 DEF SplitRun
  <2>2. Sets(7, r[1])
    <3>1. Opcode = 121
      BY <1>5, SplitCode DEF Opcode
    <3> QED
      BY <3>1, Loads
  <2>3. /\ r'[0] = Regs[0]
        /\ r'[2] = Outside
        /\ r'[7] = Regs[1]
    BY <1>a, <2>1, <2>2 DEF Sets, OthersKept, Outside, Inside
  <2> QED
    BY <1>a, <1>c, <1>5, <2>3 DEF SplitRun, Regs
<1>6. CASE done = 5
  <2>1. /\ r[0] = Regs[0]
        /\ r[2] = Outside
        /\ r[7] = Regs[1]
    BY <1>6 DEF SplitRun
  <2>2. Sets(7, BitAnd(r[7], r[0]))
    <3>1. Opcode = 160
      BY <1>6, SplitCode DEF Opcode
    <3> QED
      BY <3>1, Masks
  <2>3. /\ r'[0] = Regs[0]
        /\ r'[2] = Outside
        /\ r'[7] = Inside
    BY <1>a, <2>1, <2>2 DEF Sets, OthersKept, Outside, Inside
  <2> QED
    BY <1>a, <1>c, <1>6, <2>3 DEF SplitRun, Regs
<1>7. CASE done = 6
  <2>1. /\ r[0] = Regs[0]
        /\ r[2] = Outside
        /\ r[7] = Inside
    BY <1>7 DEF SplitRun
  <2>2. Sets(7, BitOr(r[7], r[2]))
    <3>1. Opcode = 178
      BY <1>7, SplitCode DEF Opcode
    <3> QED
      BY <3>1, Masks
  <2>3. /\ r'[0] = Regs[0]
        /\ r'[7] = Regs[0]
    <3>1. Regs[1] \in Bytes8 /\ Regs[0] \in Bytes8
      BY <1>a DEF Bytes8
    <3>2. BitOr(Inside, Outside) = Regs[0]
      BY <3>1, SplitJoins DEF Inside, Outside
    <3> QED
      BY <1>a, <2>1, <2>2, <3>2 DEF Sets
  <2> QED
    BY <1>a, <1>c, <1>7, <2>3 DEF SplitRun, Regs
<1>8. CASE done = 7
  <2>1. /\ r[0] = Regs[0]
        /\ r[7] = Regs[0]
    BY <1>8 DEF SplitRun
  <2>2. Sets(7, BitXor(r[7], r[0])) /\ f' = Flags(BitXor(r[7], r[0]) = 0, FALSE, FALSE, FALSE)
    <3>1. Opcode = 168
      BY <1>8, SplitCode DEF Opcode
    <3> QED
      BY <3>1, Masks
  <2>3. /\ r'[7] = 0
        /\ f' = {"z"}
    <3>1. Regs[0] \in Bytes8
      BY <1>a DEF Bytes8
    <3>2. BitXor(Regs[0], Regs[0]) = 0
      BY <3>1, SplitJoins
    <3>3. BitXor(r[7], r[0]) = 0
      BY <2>1, <3>2
    <3>4. r'[7] = 0
      BY <1>a, <2>2, <3>3 DEF Sets
    <3> DEFINE z == BitXor(r[7], r[0]) = 0
    <3>5. z /\ z \in BOOLEAN /\ FALSE \in BOOLEAN /\ f' = Flags(z, FALSE, FALSE, FALSE)
      BY <2>2, <3>3, Zenon
    <3> HIDE DEF z
    <3>6. "z" \in f' /\ "n" \notin f' /\ "h" \notin f' /\ "c" \notin f' /\ f' \subseteq FlagNames
      BY <3>5, FlagsHave, Zenon
    <3>7. f' = {"z"}
      BY <3>6 DEF FlagNames
    <3> QED
      BY <3>4, <3>7
  <2> QED
    BY <1>a, <1>c, <1>8, <2>3 DEF SplitRun, Regs
<1> QED
  BY <1>b, <1>1, <1>2, <1>3, <1>4, <1>5, <1>6, <1>7, <1>8

LEMMA FrameCode ==
  ASSUME routine \in Routines, AluTypeOK, AluNext, routine.name = "frame"
  PROVE  /\ Len(routine.code) = 3
         /\ routine.code[1] = 248
         /\ routine.code[2] = 249
         /\ routine.code[3] = 232
<1>1. routine.code = <<248, 249, 232>>
  BY RoutineRuns DEF Code
<1> QED
  BY <1>1

\* Where a pointer goes, and the carry of its low byte.
Moved(s, e) == (s + Signed(e)) % 65536
Spills(s, e) == IF (s % 256) + e > 255 THEN 1 ELSE 0

LEMMA OffsetIs ==
  ASSUME NEW s, NEW e, IsAddress(s), e \in 0..255
  PROVE  Offset(s, e)[1] = Moved(s, e) /\ Carry(Offset(s, e)[2]) = Spills(s, e) /\ IsAddress(Moved(s, e))
<1> DEFINE h == (s % 16) + (e % 16) > 15
           c == (s % 256) + e > 255
           g == Offset(s, e)[2]
<1>1. g = Flags(FALSE, FALSE, h, c)
  BY DEF Offset
<1>2. FALSE \in BOOLEAN /\ h \in BOOLEAN /\ c \in BOOLEAN
  OBVIOUS
<1> HIDE DEF h, c, g
<1>3. "c" \in Flags(FALSE, FALSE, h, c) <=> c
  BY <1>2, FlagsHave, Zenon
<1>4. "c" \in g <=> c
  BY <1>1, <1>3, Zenon
<1>5. Carry(g) = Spills(s, e)
  BY <1>4, SMT DEF c, Carry, Spills
<1>6. IsAddress(Moved(s, e))
  <2>1. s + Signed(e) \in Int
    BY SMT DEF Signed, IsAddress
  <2> QED
    BY <2>1, RoundType, SMT DEF Moved
<1>7. Offset(s, e)[1] = Moved(s, e)
  BY SMT DEF Offset, Signed, Moved
<1> QED
  BY <1>5, <1>6, <1>7, SMT DEF g

LEMMA TopType == IsAddress(StackTop)
BY AluAssumption, Zenon

(***************************************************************************)
(* HL and SP move by the byte, and the flags stay on the way to SP.        *)
(***************************************************************************)
FrameRun ==
  routine.name = "frame" =>
    /\ done = 1 => /\ Pair(r, 2) = Moved(StackTop, Regs[3])
                   /\ sp = StackTop
                   /\ Carry(f) = Spills(StackTop, Regs[3])
    /\ done = 2 => /\ sp = Moved(StackTop, Regs[3])
                   /\ Carry(f) = Spills(StackTop, Regs[3])
    /\ done = 3 => sp = Moved(Moved(StackTop, Regs[3]), Regs[3])

LEMMA FrameKept ==
  ASSUME routine \in Routines, AluTypeOK, AluNext, AtStart, FrameRun
  PROVE  FrameRun'
<1> SUFFICES ASSUME routine.name = "frame" PROVE FrameRun'
  BY RoutineRuns DEF FrameRun
<1>a. /\ done' = done + 1 /\ routine' = routine
      /\ Regs \in [0..7 -> 0..255] /\ r \in [0..7 -> 0..255] /\ r' \in [0..7 -> 0..255]
  BY RoutineRuns
<1>b. done \in 0..2
  <2>1. Len(routine.code) = 3
    BY FrameCode
  <2>2. done \in Nat /\ done < Len(routine.code)
    BY RoutineRuns
  <2> QED
    BY <2>1, <2>2
<1>1. CASE done = 0
  <2>1. r = Regs /\ f = routine.flags /\ sp = StackTop /\ stack = <<>>
    BY <1>1 DEF AtStart
  <2>2. r' = SetPair(r, 2, Offset(sp, Regs[3])[1]) /\ f' = Offset(sp, Regs[3])[2] /\ UNCHANGED sp
    <3>1. Opcode = 248
      BY <1>1, FrameCode DEF Opcode
    <3> QED
      BY <3>1, Pointers DEF Regs
  <2>3. /\ Pair(r', 2) = Moved(StackTop, Regs[3])
        /\ sp' = StackTop
        /\ Carry(f') = Spills(StackTop, Regs[3])
    <3> DEFINE e == Regs[3]
               s == StackTop
    <3>1. e \in 0..255 /\ IsAddress(s)
      BY <1>a, TopType, SMT
    <3>2. r' = SetPair(r, 2, Offset(s, e)[1]) /\ f' = Offset(s, e)[2] /\ sp' = s
      BY <2>1, <2>2, SMT
    <3> HIDE DEF e, s
    <3>3. Offset(s, e)[1] = Moved(s, e) /\ Carry(Offset(s, e)[2]) = Spills(s, e) /\ IsAddress(Moved(s, e))
      BY <3>1, OffsetIs, SMT
    <3>4. Pair(SetPair(r, 2, Moved(s, e)), 2) = Moved(s, e)
      <4>1. 2 \in 0..2
        OBVIOUS
      <4> QED
        BY <1>a, <3>3, <4>1, PairSet, SMT
    <3>5. Pair(r', 2) = Moved(s, e) /\ sp' = s /\ Carry(f') = Spills(s, e)
      BY <3>2, <3>3, <3>4, SMT
    <3> QED
      BY <3>5, SMT DEF e, s
  <2> QED
    BY <1>a, <1>1, <2>3 DEF FrameRun, Regs
<1>2. CASE done = 1
  <2>1. /\ Pair(r, 2) = Moved(StackTop, Regs[3])
        /\ sp = StackTop
        /\ Carry(f) = Spills(StackTop, Regs[3])
    BY <1>2 DEF FrameRun
  <2>2. sp' = Pair(r, 2) /\ UNCHANGED f
    <3>1. Opcode = 249
      BY <1>2, FrameCode DEF Opcode
    <3> QED
      BY <3>1, Pointers
  <2>3. /\ sp' = Moved(StackTop, Regs[3])
        /\ Carry(f') = Spills(StackTop, Regs[3])
    BY <1>a, <2>1, <2>2 DEF Sets, OthersKept
  <2> QED
    BY <1>a, <1>2, <2>3 DEF FrameRun, Regs
<1>3. CASE done = 2
  <2>1. /\ sp = Moved(StackTop, Regs[3])
        /\ Carry(f) = Spills(StackTop, Regs[3])
    BY <1>3 DEF FrameRun
  <2>2. sp' = Offset(sp, Regs[3])[1]
    <3>1. Opcode = 232
      BY <1>3, FrameCode DEF Opcode
    <3> QED
      BY <3>1, Pointers DEF Regs
  <2>3. sp' = Moved(Moved(StackTop, Regs[3]), Regs[3])
    <3> DEFINE e == Regs[3]
               s == Moved(StackTop, e)
    <3>1. e \in 0..255
      BY <1>a
    <3>2. IsAddress(s)
      <4> HIDE DEF e
      <4> QED
        BY TopType, <3>1, OffsetIs, SMT
    <3>3. sp' = Offset(s, e)[1]
      BY <2>1, <2>2, SMT
    <3> HIDE DEF e, s
    <3>4. sp' = Moved(s, e)
      BY <3>1, <3>2, <3>3, OffsetIs, SMT
    <3> QED
      BY <3>4, SMT DEF e, s
  <2> QED
    BY <1>a, <1>3, <2>3 DEF FrameRun, Regs
<1> QED
  BY <1>b, <1>1, <1>2, <1>3

LEMMA ExchangeCode ==
  ASSUME routine \in Routines, AluTypeOK, AluNext, routine.name = "exchange"
  PROVE  /\ Len(routine.code) = 6
         /\ routine.code[1] = 245
         /\ routine.code[2] = 197
         /\ routine.code[3] = 241
         /\ routine.code[4] = 193
         /\ routine.code[5] = 245
         /\ routine.code[6] = 209
<1>1. routine.code = <<245, 197, 241, 193, 245, 209>>
  BY RoutineRuns DEF Code
<1> QED
  BY <1>1

\* The bytes below the top of the stack.
Below(k) == (StackTop - k) % 65536
FlagsIn == FlagByte(routine.flags)
FlagsOut == FromFlagByte(Regs[1])

LEMMA BelowTop ==
  /\ (StackTop - 1) % 65536 = Below(1) /\ (StackTop - 2) % 65536 = Below(2)
  /\ (Below(2) - 1) % 65536 = Below(3) /\ (Below(2) - 2) % 65536 = Below(4)
  /\ (Below(4) + 1) % 65536 = Below(3) /\ (Below(4) + 2) % 65536 = Below(2)
  /\ (Below(2) + 1) % 65536 = Below(1) /\ (Below(2) + 2) % 65536 = StackTop
  /\ Below(1) # Below(2) /\ Below(1) # Below(3) /\ Below(1) # Below(4)
  /\ Below(2) # Below(3) /\ Below(2) # Below(4) /\ Below(3) # Below(4)
<1> DEFINE s == StackTop
           b1 == Below(1)
           b2 == Below(2)
           b3 == Below(3)
           b4 == Below(4)
<1>1. s \in Nat /\ s <= 65535
  BY TopType, SMT DEF IsAddress
<1>2. /\ b1 = (s - 1) % 65536 /\ b2 = (s - 2) % 65536 /\ b3 = (s - 3) % 65536 /\ b4 = (s - 4) % 65536
  BY SMT DEF Below
<1> HIDE DEF s, b1, b2, b3, b4
<1>3. /\ (s - 1) % 65536 = (IF s < 1 THEN s - 1 + 65536 ELSE s - 1)
      /\ (s - 2) % 65536 = (IF s < 2 THEN s - 2 + 65536 ELSE s - 2)
      /\ (s - 3) % 65536 = (IF s < 3 THEN s - 3 + 65536 ELSE s - 3)
      /\ (s - 4) % 65536 = (IF s < 4 THEN s - 4 + 65536 ELSE s - 4)
  BY <1>1, SMT
<1>4. /\ b1 = (IF s < 1 THEN s - 1 + 65536 ELSE s - 1) /\ b2 = (IF s < 2 THEN s - 2 + 65536 ELSE s - 2)
      /\ b3 = (IF s < 3 THEN s - 3 + 65536 ELSE s - 3) /\ b4 = (IF s < 4 THEN s - 4 + 65536 ELSE s - 4)
  BY <1>2, <1>3, SMT
<1>5. /\ (s - 1) % 65536 = b1 /\ (s - 2) % 65536 = b2
      /\ b1 # b2 /\ b1 # b3 /\ b1 # b4 /\ b2 # b3 /\ b2 # b4 /\ b3 # b4
  BY <1>1, <1>2, <1>4, SMT
<1>6. (b2 - 1) % 65536 = b3 /\ (b2 - 2) % 65536 = b4
  BY <1>1, <1>4, SMT
<1>7. (b4 + 1) % 65536 = b3 /\ (b4 + 2) % 65536 = b2
  BY <1>1, <1>4, SMT
<1>8. (b2 + 1) % 65536 = b1 /\ (b2 + 2) % 65536 = s
  BY <1>1, <1>4, SMT
<1> QED
  BY <1>5, <1>6, <1>7, <1>8, SMT DEF s, b1, b2, b3, b4

\* What is written below a pointer is read there, and what was there stays elsewhere.
LEMMA PushedAt ==
  ASSUME NEW mem, NEW a, NEW b, a # b, NEW hi, NEW lo
  PROVE  LET now == Stored(Stored(mem, a, hi), b, lo)
         IN At(now, a) = hi /\ At(now, b) = lo /\ \A d : d # a /\ d # b => At(now, d) = At(mem, d)
BY StoredAt, SMT

\* The flags that come out of a byte are its high digit.
LEMMA FlagsBack ==
  ASSUME NEW x \in Bytes8
  PROVE  FlagByte(FromFlagByte(x)) = 16 * (x \div 16)
<1> DEFINE g == FromFlagByte(x)
<1>1. /\ "z" \in g <=> Bit(x, 7) = 1
      /\ "n" \in g <=> Bit(x, 6) = 1
      /\ "h" \in g <=> Bit(x, 5) = 1
      /\ "c" \in g <=> Bit(x, 4) = 1
  BY DEF FromFlagByte, FlagNames
<1>2. /\ Bit(x, 4) = (x \div 16) % 2 /\ Bit(x, 5) = (x \div 32) % 2
      /\ Bit(x, 6) = (x \div 64) % 2 /\ Bit(x, 7) = x \div 128
  BY EveryBit
<1> HIDE DEF g
<1>3. FlagByte(g) = 128 * (x \div 128) + 64 * ((x \div 64) % 2) + 32 * ((x \div 32) % 2) + 16 * ((x \div 16) % 2)
  BY <1>1, <1>2 DEF FlagByte, Carry, Bytes8
<1>4. 16 * (x \div 16) = 128 * (x \div 128) + 64 * ((x \div 64) % 2) + 32 * ((x \div 32) % 2) + 16 * ((x \div 16) % 2)
  BY DEF Bytes8
<1> QED
  BY <1>3, <1>4 DEF g

LEMMA PopsPair ==
  ASSUME AluTypeOK, NEW i \in 0..2, NEW a, NEW b
  PROVE  LET now == SetPair(r, i, Word(At(stack, a), At(stack, b)))
         IN /\ now[2 * i] = At(stack, a) /\ now[2 * i + 1] = At(stack, b)
            /\ \A j \in 0..7 \ {2 * i, 2 * i + 1} : now[j] = r[j]
<1> DEFINE hi == At(stack, a)
           lo == At(stack, b)
           v == Word(hi, lo)
<1>1. hi \in 0..255 /\ lo \in 0..255 /\ r \in [0..7 -> 0..255]
  BY AtType DEF AluTypeOK, Bytes8
<1> HIDE DEF hi, lo
<1>2. IsAddress(v) /\ v \div 256 = hi /\ v % 256 = lo
  BY <1>1 DEF Word, IsAddress
<1> HIDE DEF v
<1>3. /\ SetPair(r, i, v)[2 * i] = hi /\ SetPair(r, i, v)[2 * i + 1] = lo
      /\ \A j \in 0..7 \ {2 * i, 2 * i + 1} : SetPair(r, i, v)[j] = r[j]
  BY <1>1, <1>2, PairSet
<1> QED
  BY <1>3 DEF hi, lo, v

(***************************************************************************)
(* AF and BC go through the stack and come back exchanged, then AF into DE. *)
(***************************************************************************)
ExchangeRun ==
  routine.name = "exchange" =>
    /\ done = 1 => /\ r = Regs
                   /\ f = routine.flags
                   /\ sp = Below(2)
                   /\ At(stack, Below(1)) = Regs[7]
                   /\ At(stack, Below(2)) = FlagsIn
    /\ done = 2 => /\ sp = Below(4)
                   /\ At(stack, Below(1)) = Regs[7]
                   /\ At(stack, Below(2)) = FlagsIn
                   /\ At(stack, Below(3)) = Regs[0]
                   /\ At(stack, Below(4)) = Regs[1]
    /\ done = 3 => /\ sp = Below(2)
                   /\ At(stack, Below(1)) = Regs[7]
                   /\ At(stack, Below(2)) = FlagsIn
                   /\ r[7] = Regs[0]
                   /\ f = FlagsOut
    /\ done = 4 => /\ sp = StackTop
                   /\ r[0] = Regs[7]
                   /\ r[1] = FlagsIn
                   /\ r[7] = Regs[0]
                   /\ f = FlagsOut
    /\ done = 5 => /\ sp = Below(2)
                   /\ At(stack, Below(1)) = Regs[0]
                   /\ At(stack, Below(2)) = FlagByte(FlagsOut)
    /\ done = 6 => /\ r[2] = Regs[0]
                   /\ r[3] = FlagByte(FlagsOut)

LEMMA ExchangeKept ==
  ASSUME routine \in Routines, AluTypeOK, AluNext, AtStart, ExchangeRun
  PROVE  ExchangeRun'
<1> SUFFICES ASSUME routine.name = "exchange" PROVE ExchangeRun'
  BY RoutineRuns DEF ExchangeRun
<1>a. /\ done' = done + 1 /\ routine' = routine
      /\ Regs \in [0..7 -> 0..255] /\ r \in [0..7 -> 0..255] /\ r' \in [0..7 -> 0..255]
  BY RoutineRuns
<1>b. done \in 0..5
  <2>1. Len(routine.code) = 6
    BY ExchangeCode
  <2>2. done \in Nat /\ done < Len(routine.code)
    BY RoutineRuns
  <2> QED
    BY <2>1, <2>2
<1>c. /\ FlagsIn' = FlagsIn /\ FlagsOut' = FlagsOut
  BY <1>a DEF FlagsIn, FlagsOut, Regs
<1>1. CASE done = 0
  <2>1. r = Regs /\ f = routine.flags /\ sp = StackTop /\ stack = <<>>
    BY <1>1 DEF AtStart
  <2>2. stack' = Stored(Stored(stack, (sp - 1) % 65536, r[7]), (sp - 2) % 65536, FlagByte(f)) /\ sp' = (sp - 2) % 65536 /\ UNCHANGED <<r, f>>
    <3>1. Opcode = 245
      BY <1>1, ExchangeCode DEF Opcode
    <3> QED
      BY <3>1, Pushes, SMT
  <2>3. /\ r' = Regs
        /\ f' = routine.flags
        /\ sp' = Below(2)
        /\ At(stack', Below(1)) = Regs[7]
        /\ At(stack', Below(2)) = FlagsIn
    <3>1. stack' = Stored(Stored(stack, Below(1), r[7]), Below(2), FlagByte(f)) /\ sp' = Below(2)
      BY <2>1, <2>2, BelowTop, SMT
    <3>2. At(stack', Below(1)) = r[7] /\ At(stack', Below(2)) = FlagByte(f)
      BY <3>1, BelowTop, PushedAt, SMT
    <3> QED
      BY <2>1, <2>2, <3>1, <3>2, SMT DEF FlagsIn
  <2> QED
    BY <1>a, <1>c, <1>1, <2>3 DEF ExchangeRun, Regs
<1>2. CASE done = 1
  <2>1. /\ r = Regs
        /\ f = routine.flags
        /\ sp = Below(2)
        /\ At(stack, Below(1)) = Regs[7]
        /\ At(stack, Below(2)) = FlagsIn
    BY <1>2 DEF ExchangeRun
  <2>2. stack' = Stored(Stored(stack, (sp - 1) % 65536, r[0]), (sp - 2) % 65536, r[1]) /\ sp' = (sp - 2) % 65536
    <3>1. Opcode = 197
      BY <1>2, ExchangeCode DEF Opcode
    <3> QED
      BY <3>1, Pushes, SMT
  <2>3. /\ sp' = Below(4)
        /\ At(stack', Below(1)) = Regs[7]
        /\ At(stack', Below(2)) = FlagsIn
        /\ At(stack', Below(3)) = Regs[0]
        /\ At(stack', Below(4)) = Regs[1]
    <3>1. stack' = Stored(Stored(stack, Below(3), r[0]), Below(4), r[1]) /\ sp' = Below(4)
      BY <2>1, <2>2, BelowTop, SMT
    <3>2. /\ At(stack', Below(3)) = r[0] /\ At(stack', Below(4)) = r[1]
          /\ At(stack', Below(1)) = At(stack, Below(1)) /\ At(stack', Below(2)) = At(stack, Below(2))
      BY <3>1, BelowTop, PushedAt, SMT
    <3> QED
      BY <2>1, <3>1, <3>2, SMT
  <2> QED
    BY <1>a, <1>c, <1>2, <2>3 DEF ExchangeRun, Regs
<1>3. CASE done = 2
  <2>1. /\ sp = Below(4)
        /\ At(stack, Below(1)) = Regs[7]
        /\ At(stack, Below(2)) = FlagsIn
        /\ At(stack, Below(3)) = Regs[0]
        /\ At(stack, Below(4)) = Regs[1]
    BY <1>3 DEF ExchangeRun
  <2>2. Sets(7, At(stack, (sp + 1) % 65536)) /\ f' = FromFlagByte(At(stack, sp)) /\ sp' = (sp + 2) % 65536 /\ UNCHANGED stack
    <3>1. Opcode = 241
      BY <1>3, ExchangeCode DEF Opcode
    <3> QED
      BY <3>1, Pops, SMT
  <2>3. /\ sp' = Below(2)
        /\ At(stack', Below(1)) = Regs[7]
        /\ At(stack', Below(2)) = FlagsIn
        /\ r'[7] = Regs[0]
        /\ f' = FlagsOut
    <3>1. r'[7] = At(stack, Below(3)) /\ f' = FromFlagByte(At(stack, Below(4))) /\ sp' = Below(2)
      BY <1>a, <2>1, <2>2, BelowTop, SMT DEF Sets
    <3> QED
      BY <2>1, <2>2, <3>1, SMT DEF FlagsOut
  <2> QED
    BY <1>a, <1>c, <1>3, <2>3 DEF ExchangeRun, Regs
<1>4. CASE done = 3
  <2>1. /\ sp = Below(2)
        /\ At(stack, Below(1)) = Regs[7]
        /\ At(stack, Below(2)) = FlagsIn
        /\ r[7] = Regs[0]
        /\ f = FlagsOut
    BY <1>4 DEF ExchangeRun
  <2>2. r' = SetPair(r, 0, Word(At(stack, (sp + 1) % 65536), At(stack, sp))) /\ sp' = (sp + 2) % 65536 /\ UNCHANGED f
    <3>1. Opcode = 193
      BY <1>4, ExchangeCode DEF Opcode
    <3> QED
      BY <3>1, Pops, SMT
  <2>3. /\ sp' = StackTop
        /\ r'[0] = Regs[7]
        /\ r'[1] = FlagsIn
        /\ r'[7] = Regs[0]
        /\ f' = FlagsOut
    <3>1. r' = SetPair(r, 0, Word(At(stack, Below(1)), At(stack, Below(2)))) /\ sp' = StackTop
      BY <2>1, <2>2, BelowTop, SMT
    <3>2. /\ r'[2 * 0] = At(stack, Below(1)) /\ r'[2 * 0 + 1] = At(stack, Below(2))
          /\ \A j \in 0..7 \ {2 * 0, 2 * 0 + 1} : r'[j] = r[j]
      <4>1. 0 \in 0..2
        OBVIOUS
      <4> QED
        BY <3>1, <4>1, PopsPair, SMT
    <3>3. r'[0] = At(stack, Below(1)) /\ r'[1] = At(stack, Below(2)) /\ r'[7] = r[7]
      BY <3>2
    <3> QED
      BY <2>1, <2>2, <3>1, <3>3, SMT
  <2> QED
    BY <1>a, <1>c, <1>4, <2>3 DEF ExchangeRun, Regs
<1>5. CASE done = 4
  <2>1. /\ sp = StackTop
        /\ r[0] = Regs[7]
        /\ r[1] = FlagsIn
        /\ r[7] = Regs[0]
        /\ f = FlagsOut
    BY <1>5 DEF ExchangeRun
  <2>2. stack' = Stored(Stored(stack, (sp - 1) % 65536, r[7]), (sp - 2) % 65536, FlagByte(f)) /\ sp' = (sp - 2) % 65536
    <3>1. Opcode = 245
      BY <1>5, ExchangeCode DEF Opcode
    <3> QED
      BY <3>1, Pushes, SMT
  <2>3. /\ sp' = Below(2)
        /\ At(stack', Below(1)) = Regs[0]
        /\ At(stack', Below(2)) = FlagByte(FlagsOut)
    <3>1. stack' = Stored(Stored(stack, Below(1), r[7]), Below(2), FlagByte(f)) /\ sp' = Below(2)
      BY <2>1, <2>2, BelowTop, SMT
    <3>2. At(stack', Below(1)) = r[7] /\ At(stack', Below(2)) = FlagByte(f)
      BY <3>1, BelowTop, PushedAt, SMT
    <3> QED
      BY <2>1, <3>1, <3>2, SMT
  <2> QED
    BY <1>a, <1>c, <1>5, <2>3 DEF ExchangeRun, Regs
<1>6. CASE done = 5
  <2>1. /\ sp = Below(2)
        /\ At(stack, Below(1)) = Regs[0]
        /\ At(stack, Below(2)) = FlagByte(FlagsOut)
    BY <1>6 DEF ExchangeRun
  <2>2. r' = SetPair(r, 1, Word(At(stack, (sp + 1) % 65536), At(stack, sp)))
    <3>1. Opcode = 209
      BY <1>6, ExchangeCode DEF Opcode
    <3> QED
      BY <3>1, Pops, SMT
  <2>3. /\ r'[2] = Regs[0]
        /\ r'[3] = FlagByte(FlagsOut)
    <3>1. r' = SetPair(r, 1, Word(At(stack, Below(1)), At(stack, Below(2))))
      BY <2>1, <2>2, BelowTop, SMT
    <3>2. r'[2 * 1] = At(stack, Below(1)) /\ r'[2 * 1 + 1] = At(stack, Below(2))
      <4>1. 1 \in 0..2
        OBVIOUS
      <4> QED
        BY <3>1, <4>1, PopsPair, SMT
    <3>3. r'[2] = At(stack, Below(1)) /\ r'[3] = At(stack, Below(2))
      BY <3>2
    <3> QED
      BY <2>1, <3>3, SMT
  <2> QED
    BY <1>a, <1>c, <1>6, <2>3 DEF ExchangeRun, Regs
<1> QED
  BY <1>b, <1>1, <1>2, <1>3, <1>4, <1>5, <1>6

\* A sum of packed bytes with its flags, and what DAA makes of it.
IsSum(a, b, c, x, flags) ==
  /\ IsPacked(a) /\ IsPacked(b) /\ x = (a + b + c) % 256 /\ "n" \notin flags
  /\ "h" \in flags <=> (a % 16) + (b % 16) + c > 15
  /\ "c" \in flags <=> a + b + c > 255
DecimalSumOf(a, b, c, x, flags) ==
  /\ Decimal(Adjusted(x, flags)[1]) = (Decimal(a) + Decimal(b) + c) % 100
  /\ Adjusted(x, flags)[1] % 16 < 10
  /\ "c" \in flags \/ x > 153 <=> Decimal(a) + Decimal(b) + c > 99

LEMMA DecimalSum ==
  ASSUME NEW a \in 0..255, NEW b \in 0..255, NEW c \in 0..1, NEW flags, NEW x,
         IsSum(a, b, c, x, flags)
  PROVE  DecimalSumOf(a, b, c, x, flags)
<1>0. /\ IsPacked(a) /\ IsPacked(b) /\ x = (a + b + c) % 256 /\ "n" \notin flags
      /\ "h" \in flags <=> (a % 16) + (b % 16) + c > 15
      /\ "c" \in flags <=> a + b + c > 255
  BY DEF IsSum
<1> DEFINE a1 == a \div 16
           a0 == a % 16
           b1 == b \div 16
           b0 == b % 16
<1>1. /\ a = 16 * a1 + a0 /\ a1 \in 0..9 /\ a0 \in 0..9
      /\ b = 16 * b1 + b0 /\ b1 \in 0..9 /\ b0 \in 0..9
  BY <1>0, SMT DEF IsPacked
<1>2. "h" \in flags <=> a0 + b0 + c > 15
  BY <1>0
<1>3. Decimal(a) = 10 * a1 + a0 /\ Decimal(b) = 10 * b1 + b0
  BY DEF Decimal
<1> HIDE DEF a1, a0, b1, b0
<1> DEFINE s1 == a1 + b1
           s0 == a0 + b0 + c
           over == IF s0 > 9 THEN 1 ELSE 0
           spill == IF s1 + over > 9 THEN 1 ELSE 0
           d1 == s1 + over - 10 * spill
           d0 == s0 - 10 * over
           t == 16 * s1 + s0
<1>4. s1 \in 0..18 /\ s0 \in 0..19 /\ a + b + c = t /\ Decimal(a) + Decimal(b) + c = 10 * s1 + s0
  <2>1. s1 \in 0..18 /\ s0 \in 0..19
    BY <1>1
  <2>2. a + b + c = t
    BY <1>1
  <2>3. Decimal(a) + Decimal(b) + c = 10 * s1 + s0
    BY <1>1, <1>3
  <2> QED
    BY <2>1, <2>2, <2>3
<1>5. "h" \in flags <=> s0 > 15
  BY <1>2
<1> HIDE DEF s1, s0
<1>6. d1 \in 0..9 /\ d0 \in 0..9 /\ over \in 0..1 /\ spill \in 0..1 /\ t \in 0..307
  BY <1>4
<1>7. x = IF t > 255 THEN t - 256 ELSE t
  BY <1>0, <1>4, <1>6
<1>8. x % 16 = IF s0 > 15 THEN s0 - 16 ELSE s0
  BY <1>4, <1>7
<1>9. ("h" \in flags \/ x % 16 > 9) <=> s0 > 9
  BY <1>4, <1>5, <1>8
<1>10. ("c" \in flags \/ x > 153) <=> s1 + over > 9
  BY <1>0, <1>4, <1>6, <1>7
<1> DEFINE y == (x + 6 * over + 96 * spill) % 256
<1>11. Adjusted(x, flags)[1] = y
  <2> DEFINE six == IF "h" \in flags \/ x % 16 > 9 THEN 6 ELSE 0
             sixty == IF "c" \in flags \/ x > 153 THEN 96 ELSE 0
  <2>1. Adjusted(x, flags)[1] = (x + six + sixty) % 256
    BY <1>0 DEF Adjusted
  <2>2. six = 6 * over /\ sixty = 96 * spill
    BY <1>9, <1>10, <1>4
  <2> QED
    BY <2>1, <2>2
<1>12. y = 16 * d1 + d0
  <2>1. t + 6 * over + 96 * spill = 16 * d1 + d0 + 256 * spill
    BY <1>4, <1>6
  <2>2. (16 * d1 + d0) % 256 = 16 * d1 + d0 /\ 16 * d1 + d0 \in 0..255
    BY <1>6
  <2>3. x + 6 * over + 96 * spill = 16 * d1 + d0 \/ x + 6 * over + 96 * spill = 16 * d1 + d0 + 256
    BY <1>4, <1>6, <1>7, <2>1
  <2> HIDE DEF d1, d0, over, spill
  <2>4. \A n \in Nat : n \in 0..255 => (n + 256) % 256 = n
    OBVIOUS
  <2> QED
    BY <1>6, <2>2, <2>3, <2>4
<1>13. (10 * s1 + s0) % 100 = 10 * d1 + d0
  BY <1>4, <1>6
<1>14. 10 * s1 + s0 > 99 <=> s1 + over > 9
  BY <1>4
<1> HIDE DEF d1, d0, over, spill, y
<1>15. Decimal(y) = 10 * d1 + d0 /\ y % 16 < 10
  <2>1. y \div 16 = d1 /\ y % 16 = d0
    BY <1>6, <1>12
  <2> QED
    BY <1>6, <2>1 DEF Decimal
<1> QED
  BY <1>4, <1>10, <1>11, <1>13, <1>14, <1>15 DEF DecimalSumOf

\* A difference of packed bytes with its flags, and what DAA makes of it.
IsDifference(a, b, c, x, flags) ==
  /\ IsPacked(a) /\ IsPacked(b) /\ x = (a - b - c) % 256 /\ "n" \in flags
  /\ "h" \in flags <=> a % 16 < (b % 16) + c
  /\ "c" \in flags <=> a < b + c
DecimalDifferenceOf(a, b, c, x, flags) ==
  /\ Decimal(Adjusted(x, flags)[1]) = (Decimal(a) - Decimal(b) - c) % 100
  /\ Adjusted(x, flags)[1] % 16 < 10
  /\ "c" \in flags <=> Decimal(a) - Decimal(b) - c < 0

LEMMA DecimalDifference ==
  ASSUME NEW a \in 0..255, NEW b \in 0..255, NEW c \in 0..1, NEW flags, NEW x,
         IsDifference(a, b, c, x, flags)
  PROVE  DecimalDifferenceOf(a, b, c, x, flags)
<1>0. /\ IsPacked(a) /\ IsPacked(b) /\ x = (a - b - c) % 256 /\ "n" \in flags
      /\ "h" \in flags <=> a % 16 < (b % 16) + c
      /\ "c" \in flags <=> a < b + c
  BY DEF IsDifference
<1> DEFINE a1 == a \div 16
           a0 == a % 16
           b1 == b \div 16
           b0 == b % 16
<1>1. /\ a = 16 * a1 + a0 /\ a1 \in 0..9 /\ a0 \in 0..9
      /\ b = 16 * b1 + b0 /\ b1 \in 0..9 /\ b0 \in 0..9
  BY <1>0, SMT DEF IsPacked
<1>2. "h" \in flags <=> a0 < b0 + c
  BY <1>0
<1>3. Decimal(a) = 10 * a1 + a0 /\ Decimal(b) = 10 * b1 + b0
  BY DEF Decimal
<1> HIDE DEF a1, a0, b1, b0
<1> DEFINE s1 == a1 - b1
           s0 == a0 - b0 - c
           under == IF s0 < 0 THEN 1 ELSE 0
           short == IF s1 - under < 0 THEN 1 ELSE 0
           d1 == s1 - under + 10 * short
           d0 == s0 + 10 * under
           t == 16 * s1 + s0
<1>4. s1 \in -9..9 /\ s0 \in -10..9 /\ a - b - c = t /\ Decimal(a) - Decimal(b) - c = 10 * s1 + s0
  <2>1. s1 \in -9..9 /\ s0 \in -10..9
    BY <1>1
  <2>2. a - b - c = t
    BY <1>1
  <2>3. Decimal(a) - Decimal(b) - c = 10 * s1 + s0
    BY <1>1, <1>3
  <2> QED
    BY <2>1, <2>2, <2>3
<1>5. ("h" \in flags <=> s0 < 0) /\ ("c" \in flags <=> t < 0)
  BY <1>0, <1>1, <1>2, <1>4
<1> HIDE DEF s1, s0
<1>6. d1 \in 0..9 /\ d0 \in 0..9 /\ under \in 0..1 /\ short \in 0..1 /\ t \in -154..153
  BY <1>4
<1>7. x = IF t < 0 THEN t + 256 ELSE t
  BY <1>0, <1>4, <1>6
<1>8. t < 0 <=> s1 - under < 0
  BY <1>4
<1> DEFINE y == (x - 6 * under - 96 * short) % 256
<1>9. Adjusted(x, flags)[1] = y
  <2> DEFINE six == IF "h" \in flags THEN 6 ELSE 0
             sixty == IF "c" \in flags THEN 96 ELSE 0
  <2>1. Adjusted(x, flags)[1] = (x - six - sixty) % 256
    BY <1>0 DEF Adjusted
  <2>2. six = 6 * under /\ sixty = 96 * short
    BY <1>4, <1>5, <1>8
  <2> QED
    BY <2>1, <2>2
<1>10. x - 6 * under - 96 * short = 16 * d1 + d0
  BY <1>4, <1>6, <1>7, <1>8
<1>11. (10 * s1 + s0) % 100 = 10 * d1 + d0
  <2>1. 10 * s1 + s0 = 10 * d1 + d0 - 100 * short
    BY <1>4, <1>6
  <2> HIDE DEF d1, d0, short
  <2>2. 10 * d1 + d0 \in 0..99
    BY <1>6
  <2> QED
    BY <1>6, <2>1, <2>2
<1>12. 10 * s1 + s0 < 0 <=> s1 - under < 0
  BY <1>4
<1> HIDE DEF d1, d0, under, short
<1>13. y = 16 * d1 + d0
  BY <1>6, <1>10
<1> HIDE DEF y
<1>14. Decimal(y) = 10 * d1 + d0 /\ y % 16 < 10
  <2>1. y \div 16 = d1 /\ y % 16 = d0
    BY <1>6, <1>13
  <2> QED
    BY <1>6, <2>1 DEF Decimal
<1> QED
  BY <1>4, <1>5, <1>8, <1>9, <1>11, <1>12, <1>14 DEF DecimalDifferenceOf

\* The operands of the decimal routines.
CarryIn == Carry(routine.flags)

LEMMA DecimalOperands ==
  ASSUME routine \in Routines, routine.name \in {"decimalSum", "decimalDifference"}
  PROVE  IsPacked(Regs[7]) /\ IsPacked(Regs[0])
BY AluAssumption DEF Regs

LEMMA SumDecimalCode ==
  ASSUME routine \in Routines, AluTypeOK, AluNext, routine.name = "decimalSum"
  PROVE  /\ Len(routine.code) = 2
         /\ routine.code[1] = 136
         /\ routine.code[2] = 39
<1>1. routine.code = <<136, 39>>
  BY RoutineRuns DEF Code
<1> QED
  BY <1>1

(***************************************************************************)
(* The sum of two packed bytes, before and after DAA.                      *)
(***************************************************************************)
SumDecimalRun ==
  routine.name = "decimalSum" =>
    /\ done = 1 => /\ r[7] = (Regs[7] + Regs[0] + CarryIn) % 256
                   /\ "n" \notin f
                   /\ "h" \in f <=> (Regs[7] % 16) + (Regs[0] % 16) + CarryIn > 15
                   /\ "c" \in f <=> Regs[7] + Regs[0] + CarryIn > 255
    /\ done = 2 => /\ Decimal(r[7]) = (Decimal(Regs[7]) + Decimal(Regs[0]) + CarryIn) % 100
                   /\ r[7] % 16 < 10
                   /\ "c" \in f <=> Decimal(Regs[7]) + Decimal(Regs[0]) + CarryIn > 99

LEMMA SumDecimalKept ==
  ASSUME routine \in Routines, AluTypeOK, AluNext, AtStart, SumDecimalRun
  PROVE  SumDecimalRun'
<1> SUFFICES ASSUME routine.name = "decimalSum" PROVE SumDecimalRun'
  BY RoutineRuns DEF SumDecimalRun
<1>a. /\ done' = done + 1 /\ routine' = routine
      /\ Regs \in [0..7 -> 0..255] /\ r \in [0..7 -> 0..255] /\ r' \in [0..7 -> 0..255]
  BY RoutineRuns
<1>b. done \in 0..1
  <2>1. Len(routine.code) = 2
    BY SumDecimalCode
  <2>2. done \in Nat /\ done < Len(routine.code)
    BY RoutineRuns
  <2> QED
    BY <2>1, <2>2
<1>c. /\ CarryIn' = CarryIn
  BY <1>a DEF CarryIn, Regs
<1>1. CASE done = 0
  <2>1. r = Regs /\ f = routine.flags /\ sp = StackTop /\ stack = <<>>
    BY <1>1 DEF AtStart
  <2>2. Sets(7, (r[7] + r[0] + Carry(f)) % 256) /\ "n" \notin f' /\ ("h" \in f' <=> (r[7] % 16) + (r[0] % 16) + Carry(f) > 15) /\ ("c" \in f' <=> r[7] + r[0] + Carry(f) > 255)
    <3>1. Opcode = 136
      BY <1>1, SumDecimalCode DEF Opcode
    <3> QED
      BY <3>1, AddsAre
  <2>3. /\ r'[7] = (Regs[7] + Regs[0] + CarryIn) % 256
        /\ "n" \notin f'
        /\ "h" \in f' <=> (Regs[7] % 16) + (Regs[0] % 16) + CarryIn > 15
        /\ "c" \in f' <=> Regs[7] + Regs[0] + CarryIn > 255
    <3>1. r = Regs /\ Carry(f) = CarryIn
      BY <2>1 DEF CarryIn
    <3>2. r'[7] = (r[7] + r[0] + Carry(f)) % 256
      BY <1>a, <2>2 DEF Sets
    <3> QED
      BY <2>2, <3>1, <3>2
  <2> QED
    BY <1>a, <1>c, <1>1, <2>3 DEF SumDecimalRun, Regs
<1>2. CASE done = 1
  <2>1. /\ r[7] = (Regs[7] + Regs[0] + CarryIn) % 256
        /\ "n" \notin f
        /\ "h" \in f <=> (Regs[7] % 16) + (Regs[0] % 16) + CarryIn > 15
        /\ "c" \in f <=> Regs[7] + Regs[0] + CarryIn > 255
    BY <1>2 DEF SumDecimalRun
  <2>2. Sets(7, Adjusted(r[7], f)[1]) /\ ("c" \in f' <=> "c" \in f \/ ("n" \notin f /\ r[7] > 153))
    <3>1. Opcode = 39
      BY <1>2, SumDecimalCode DEF Opcode
    <3> QED
      BY <3>1, Adjusts
  <2>3. /\ Decimal(r'[7]) = (Decimal(Regs[7]) + Decimal(Regs[0]) + CarryIn) % 100
        /\ r'[7] % 16 < 10
        /\ "c" \in f' <=> Decimal(Regs[7]) + Decimal(Regs[0]) + CarryIn > 99
    <3> DEFINE a == Regs[7]
               b == Regs[0]
               c == CarryIn
               x == r[7]
    <3>1. /\ a \in 0..255 /\ b \in 0..255 /\ c \in 0..1 /\ IsPacked(a) /\ IsPacked(b)
          /\ x = (a + b + c) % 256
      BY <1>a, <2>1, DecimalOperands DEF CarryIn, Carry
    <3>2. "n" \notin f /\ ("h" \in f <=> (a % 16) + (b % 16) + c > 15) /\ ("c" \in f <=> a + b + c > 255)
      BY <2>1
    <3>3. r'[7] = Adjusted(x, f)[1] /\ ("c" \in f' <=> "c" \in f \/ x > 153)
      BY <1>a, <2>1, <2>2, SMTT(30) DEF Sets
    <3> HIDE DEF a, b, c, x
    <3>a. IsSum(a, b, c, x, f)
      BY <3>1, <3>2 DEF IsSum
    <3>b. DecimalSumOf(a, b, c, x, f)
      BY <3>1, <3>a, DecimalSum
    <3>4. /\ Decimal(Adjusted(x, f)[1]) = (Decimal(a) + Decimal(b) + c) % 100
          /\ Adjusted(x, f)[1] % 16 < 10
          /\ "c" \in f \/ x > 153 <=> Decimal(a) + Decimal(b) + c > 99
      BY <3>b DEF DecimalSumOf
    <3>5. /\ Decimal(r'[7]) = (Decimal(a) + Decimal(b) + c) % 100
          /\ r'[7] % 16 < 10
          /\ "c" \in f' <=> Decimal(a) + Decimal(b) + c > 99
      BY <3>3, <3>4
    <3> QED
      BY <3>5 DEF a, b, c
  <2> QED
    BY <1>a, <1>c, <1>2, <2>3 DEF SumDecimalRun, Regs
<1> QED
  BY <1>b, <1>1, <1>2

LEMMA TakeDecimalCode ==
  ASSUME routine \in Routines, AluTypeOK, AluNext, routine.name = "decimalDifference"
  PROVE  /\ Len(routine.code) = 2
         /\ routine.code[1] = 152
         /\ routine.code[2] = 39
<1>1. routine.code = <<152, 39>>
  BY RoutineRuns DEF Code
<1> QED
  BY <1>1

(***************************************************************************)
(* The difference of two packed bytes, before and after DAA.               *)
(***************************************************************************)
TakeDecimalRun ==
  routine.name = "decimalDifference" =>
    /\ done = 1 => /\ r[7] = (Regs[7] - Regs[0] - CarryIn) % 256
                   /\ "n" \in f
                   /\ "h" \in f <=> Regs[7] % 16 < (Regs[0] % 16) + CarryIn
                   /\ "c" \in f <=> Regs[7] < Regs[0] + CarryIn
    /\ done = 2 => /\ Decimal(r[7]) = (Decimal(Regs[7]) - Decimal(Regs[0]) - CarryIn) % 100
                   /\ r[7] % 16 < 10
                   /\ "c" \in f <=> Decimal(Regs[7]) - Decimal(Regs[0]) - CarryIn < 0

LEMMA TakeDecimalKept ==
  ASSUME routine \in Routines, AluTypeOK, AluNext, AtStart, TakeDecimalRun
  PROVE  TakeDecimalRun'
<1> SUFFICES ASSUME routine.name = "decimalDifference" PROVE TakeDecimalRun'
  BY RoutineRuns DEF TakeDecimalRun
<1>a. /\ done' = done + 1 /\ routine' = routine
      /\ Regs \in [0..7 -> 0..255] /\ r \in [0..7 -> 0..255] /\ r' \in [0..7 -> 0..255]
  BY RoutineRuns
<1>b. done \in 0..1
  <2>1. Len(routine.code) = 2
    BY TakeDecimalCode
  <2>2. done \in Nat /\ done < Len(routine.code)
    BY RoutineRuns
  <2> QED
    BY <2>1, <2>2
<1>c. /\ CarryIn' = CarryIn
  BY <1>a DEF CarryIn, Regs
<1>1. CASE done = 0
  <2>1. r = Regs /\ f = routine.flags /\ sp = StackTop /\ stack = <<>>
    BY <1>1 DEF AtStart
  <2>2. Sets(7, (r[7] - r[0] - Carry(f)) % 256) /\ "n" \in f' /\ ("h" \in f' <=> r[7] % 16 < (r[0] % 16) + Carry(f)) /\ ("c" \in f' <=> r[7] < r[0] + Carry(f))
    <3>1. Opcode = 152
      BY <1>1, TakeDecimalCode DEF Opcode
    <3> QED
      BY <3>1, SubtractsAre
  <2>3. /\ r'[7] = (Regs[7] - Regs[0] - CarryIn) % 256
        /\ "n" \in f'
        /\ "h" \in f' <=> Regs[7] % 16 < (Regs[0] % 16) + CarryIn
        /\ "c" \in f' <=> Regs[7] < Regs[0] + CarryIn
    <3>1. r = Regs /\ Carry(f) = CarryIn
      BY <2>1 DEF CarryIn
    <3>2. r'[7] = (r[7] - r[0] - Carry(f)) % 256
      BY <1>a, <2>2 DEF Sets
    <3> QED
      BY <2>2, <3>1, <3>2
  <2> QED
    BY <1>a, <1>c, <1>1, <2>3 DEF TakeDecimalRun, Regs
<1>2. CASE done = 1
  <2>1. /\ r[7] = (Regs[7] - Regs[0] - CarryIn) % 256
        /\ "n" \in f
        /\ "h" \in f <=> Regs[7] % 16 < (Regs[0] % 16) + CarryIn
        /\ "c" \in f <=> Regs[7] < Regs[0] + CarryIn
    BY <1>2 DEF TakeDecimalRun
  <2>2. Sets(7, Adjusted(r[7], f)[1]) /\ ("c" \in f' <=> "c" \in f \/ ("n" \notin f /\ r[7] > 153))
    <3>1. Opcode = 39
      BY <1>2, TakeDecimalCode DEF Opcode
    <3> QED
      BY <3>1, Adjusts
  <2>3. /\ Decimal(r'[7]) = (Decimal(Regs[7]) - Decimal(Regs[0]) - CarryIn) % 100
        /\ r'[7] % 16 < 10
        /\ "c" \in f' <=> Decimal(Regs[7]) - Decimal(Regs[0]) - CarryIn < 0
    <3> DEFINE a == Regs[7]
               b == Regs[0]
               c == CarryIn
               x == r[7]
    <3>1. /\ a \in 0..255 /\ b \in 0..255 /\ c \in 0..1 /\ IsPacked(a) /\ IsPacked(b)
          /\ x = (a - b - c) % 256
      BY <1>a, <2>1, DecimalOperands DEF CarryIn, Carry
    <3>2. "n" \in f /\ ("h" \in f <=> a % 16 < (b % 16) + c) /\ ("c" \in f <=> a < b + c)
      BY <2>1
    <3>3. r'[7] = Adjusted(x, f)[1] /\ ("c" \in f' <=> "c" \in f)
      BY <1>a, <2>1, <2>2, SMTT(30) DEF Sets
    <3> HIDE DEF a, b, c, x
    <3>a. IsDifference(a, b, c, x, f)
      BY <3>1, <3>2 DEF IsDifference
    <3>b. DecimalDifferenceOf(a, b, c, x, f)
      BY <3>1, <3>a, DecimalDifference
    <3>4. /\ Decimal(Adjusted(x, f)[1]) = (Decimal(a) - Decimal(b) - c) % 100
          /\ Adjusted(x, f)[1] % 16 < 10
          /\ "c" \in f <=> Decimal(a) - Decimal(b) - c < 0
      BY <3>b DEF DecimalDifferenceOf
    <3>5. /\ Decimal(r'[7]) = (Decimal(a) - Decimal(b) - c) % 100
          /\ r'[7] % 16 < 10
          /\ "c" \in f' <=> Decimal(a) - Decimal(b) - c < 0
      BY <3>3, <3>4
    <3> QED
      BY <3>5 DEF a, b, c
  <2> QED
    BY <1>a, <1>c, <1>2, <2>3 DEF TakeDecimalRun, Regs
<1> QED
  BY <1>b, <1>1, <1>2

(***************************************************************************)
(* The bits of H up to the one in turn are those of the mask.              *)
(***************************************************************************)
BitsRun ==
  routine.name = "writeBits" =>
    f = routine.flags /\ \A i \in 0..7 : i < done => Bit(r[4], i) = Bit(Regs[1], i)

LEMMA BitsCode ==
  ASSUME routine \in Routines, AluTypeOK, AluNext, routine.name = "writeBits"
  PROVE  /\ Len(routine.code) = 8 /\ done \in 0..7
         /\ Opcode = 256 + (IF Bit(Regs[1], done) = 1 THEN 192 ELSE 128) + 8 * done + 4
<1>1. routine.code = Setting(Regs[1])
  BY RoutineRuns DEF Code
<1> DEFINE g(i) == 256 + (IF Bit(Regs[1], i - 1) = 1 THEN 192 ELSE 128) + 8 * (i - 1) + 4
<1>2. Setting(Regs[1]) = [i \in 1..8 |-> g(i)]
  BY DEF Setting
<1> HIDE DEF g
<1>3. Len(routine.code) = 8
  BY <1>1, <1>2
<1>4. done \in 0..7
  <2>1. done \in Nat /\ done < Len(routine.code)
    BY RoutineRuns
  <2> QED
    BY <1>3, <2>1
<1>5. Opcode = g(done + 1)
  BY <1>1, <1>2, <1>4 DEF Opcode
<1>6. done + 1 - 1 = done
  BY <1>4
<1> QED
  BY <1>3, <1>4, <1>5, <1>6 DEF g

LEMMA BitsKept ==
  ASSUME routine \in Routines, AluTypeOK, AluNext, AtStart, BitsRun
  PROVE  BitsRun'
<1> SUFFICES ASSUME routine.name = "writeBits" PROVE BitsRun'
  BY RoutineRuns DEF BitsRun
<1>a. /\ done' = done + 1 /\ routine' = routine /\ Regs' = Regs
      /\ Regs \in [0..7 -> 0..255] /\ r \in [0..7 -> 0..255]
  BY RoutineRuns
<1>b. done \in 0..7
  BY BitsCode
<1> DEFINE k == done
           on == Bit(Regs[1], k)
           x == r[4]
           y == Written(x, k, on)
<1>1. k \in 0..7 /\ on \in {0, 1} /\ x \in Bytes8
  <2>1. Regs[1] \in Bytes8 /\ r[4] \in Bytes8
    BY <1>a DEF Bytes8
  <2> QED
    BY <1>b, <2>1, BitType
<1>2. Opcode = 256 + (IF on = 1 THEN 192 ELSE 128) + 8 * k + 4
  BY BitsCode
<1>3. on = Bit(Regs[1], k)
  OBVIOUS
<1>4. x = r[4]
  OBVIOUS
<1> HIDE DEF k, on, x
<1>5. Sets(4, Written(r[4], k, on)) /\ UNCHANGED <<f, sp, stack>>
  BY <1>1, <1>2, WritesBit
<1>6. Sets(4, y) /\ UNCHANGED f
  BY <1>4, <1>5
<1>7. Bit(y, k) = on /\ \A i \in 0..7 \ {k} : Bit(y, i) = Bit(x, i)
  BY <1>1, WrittenBit
<1> HIDE DEF y
<1>8. r'[4] = y /\ f' = f
  BY <1>a, <1>6 DEF Sets
<1>9. f = routine.flags /\ \A i \in 0..7 : i < k => Bit(x, i) = Bit(Regs[1], i)
  <2>1. CASE done = 0
    BY <2>1 DEF AtStart, BitsRun, k, x
  <2>2. CASE done # 0
    BY <2>2 DEF BitsRun, k, x
  <2> QED
    BY <2>1, <2>2
<1>10. ASSUME NEW i \in 0..7, i < k + 1
       PROVE  Bit(y, i) = Bit(Regs[1], i)
  <2>1. CASE i = k
    BY <1>3, <1>7, <2>1
  <2>2. CASE i < k
    BY <1>1, <1>7, <1>9, <2>2
  <2> QED
    BY <1>1, <1>10, <2>1, <2>2
<1> QED
  BY <1>a, <1>8, <1>9, <1>10 DEF BitsRun, k

-----------------------------------------------------------------------------
(* What the routines compute in the end.                                   *)

(***************************************************************************)
(* The inductive invariant: the types, how a routine starts, and what each *)
(* routine holds after each of its instructions.                           *)
(***************************************************************************)
AluInv ==
  /\ routine \in Routines /\ AluTypeOK /\ AtStart
  /\ AddRun /\ SubtractRun /\ CompareRun /\ CountRun
  /\ SumDecimalRun /\ TakeDecimalRun
  /\ ShiftRun /\ TurnRun
  /\ SplitRun /\ BitsRun
  /\ ExchangeRun /\ FrameRun

LEMMA InvStarts == AluInit => AluInv
<1> SUFFICES ASSUME AluInit PROVE AluInv
  OBVIOUS
<1>1. /\ routine \in Routines /\ done = 0 /\ r = routine.regs /\ f = routine.flags /\ sp = StackTop /\ stack = <<>>
  BY DEF AluInit, AluStart
<1>2. AtStart
  BY <1>1 DEF AtStart, Regs
<1>3. AluTypeOK
  <2>1. routine.regs \in [0..7 -> Bytes8] /\ routine.flags \subseteq FlagNames /\ Len(routine.code) \in Nat
    BY <1>1, RoutineFits DEF RoutineOK
  <2>2. done \in 0..Len(routine.code)
    BY <1>1, <2>1
  <2>3. IsAddress(sp)
    BY <1>1, TopType
  <2>4. \A a \in DOMAIN stack : IsAddress(a) /\ stack[a] \in Bytes8
    BY <1>1
  <2> QED
    BY <1>1, <2>1, <2>2, <2>3, <2>4 DEF AluTypeOK
<1>4. AddRun /\ SubtractRun /\ CompareRun /\ CountRun
  BY <1>1 DEF AddRun, SubtractRun, CompareRun, CountRun
<1>5. SumDecimalRun /\ TakeDecimalRun /\ ShiftRun /\ TurnRun
  BY <1>1 DEF SumDecimalRun, TakeDecimalRun, ShiftRun, TurnRun
<1>6. SplitRun /\ ExchangeRun /\ FrameRun
  BY <1>1 DEF SplitRun, ExchangeRun, FrameRun
<1>7. BitsRun
  BY <1>1 DEF BitsRun
<1> QED
  BY <1>1, <1>2, <1>3, <1>4, <1>5, <1>6, <1>7 DEF AluInv

LEMMA InvKept == AluInv /\ [AluNext]_aluVars => AluInv'
<1> SUFFICES ASSUME AluInv, [AluNext]_aluVars PROVE AluInv'
  OBVIOUS
<1>a. /\ routine \in Routines /\ AluTypeOK /\ AtStart
  BY DEF AluInv
<1>1. CASE AluNext
  <2>1. routine' \in Routines /\ AtStart'
    <3>1. routine' = routine /\ done' = done + 1 /\ done \in Nat
      BY <1>1, <1>a, RoutineRuns
    <3> QED
      BY <1>a, <3>1 DEF AtStart
  <2>2. AluTypeOK'
    BY <1>1, <1>a, RoutineFits, TypeKept
  <2>3. AddRun' /\ SubtractRun' /\ CompareRun' /\ CountRun'
    BY <1>1, <1>a, AddKept, SubtractKept, CompareKept, CountKept DEF AluInv
  <2>4. SumDecimalRun' /\ TakeDecimalRun' /\ ShiftRun' /\ TurnRun'
    BY <1>1, <1>a, SumDecimalKept, TakeDecimalKept, ShiftKept, TurnKept DEF AluInv
  <2>5. SplitRun' /\ BitsRun' /\ ExchangeRun' /\ FrameRun'
    BY <1>1, <1>a, SplitKept, BitsKept, ExchangeKept, FrameKept DEF AluInv
  <2> QED
    BY <2>1, <2>2, <2>3, <2>4, <2>5 DEF AluInv
<1>2. CASE UNCHANGED aluVars
  <2> USE <1>2 DEF aluVars
  <2>1. routine' \in Routines /\ AluTypeOK' /\ AtStart'
    BY <1>a DEF AluTypeOK, AtStart, Regs
  <2>2. AddRun' /\ SubtractRun'
    BY DEF AluInv, AddRun, SubtractRun, Regs, Total, Over, LowTotal, LowOver, Rest, Borrow, LowRest, LowBorrow,
           WordX, WordY
  <2>3. CompareRun' /\ CountRun' /\ ShiftRun'
    BY DEF AluInv, CompareRun, CountRun, ShiftRun, Regs, WordX
  <2>4. SumDecimalRun' /\ TakeDecimalRun'
    BY DEF AluInv, SumDecimalRun, TakeDecimalRun, Regs, CarryIn
  <2>5. TurnRun'
    BY DEF AluInv, TurnRun, Regs, Turned, Nine, Rolled
  <2>6. SplitRun' /\ BitsRun'
    BY DEF AluInv, SplitRun, BitsRun, Regs, Inside, Outside
  <2>7. ExchangeRun' /\ FrameRun'
    BY DEF AluInv, ExchangeRun, FrameRun, Regs, FlagsIn, FlagsOut
  <2> QED
    BY <2>1, <2>2, <2>3, <2>4, <2>5, <2>6, <2>7 DEF AluInv
<1> QED
  BY <1>1, <1>2

LEMMA InvWideSums ==
  ASSUME AluInv
  PROVE  WideSums
<1>1. routine \in Routines /\ AddRun /\ SubtractRun /\ CompareRun /\ CountRun
  BY DEF AluInv
<1>2. WordX = Pair(Regs, HL) /\ WordY = Pair(Regs, 0)
  BY DEF WordX, WordY, HL
<1>3. /\ Total = (WordX + WordY) % 65536 /\ Rest = (WordX - WordY) % 65536
      /\ IsAddress(WordX) /\ IsAddress(WordY)
  BY <1>1, WordsOfRegs
<1>4. /\ Carry(f) = Over => ("c" \in f <=> WordX + WordY > 65535)
      /\ Carry(f) = Borrow => ("c" \in f <=> WordX < WordY)
  BY DEF Carry, Over, Borrow
<1>5. After("add", 6) => Pair(r, 1) = (WordX + WordY) % 65536 /\ ("c" \in f <=> WordX + WordY > 65535)
  BY <1>1, <1>3, <1>4 DEF AddRun, After
<1>6. After("add", 7) => Pair(r, HL) = Pair(r, 1) /\ ("c" \in f <=> WordX + WordY > 65535)
  BY <1>1, <1>3, <1>4 DEF AddRun, After, HL
<1>7. After("subtract", 6) => Pair(r, HL) = (WordX - WordY) % 65536 /\ ("c" \in f <=> WordX < WordY)
  BY <1>1, <1>3, <1>4 DEF SubtractRun, After, HL
<1>8. After("subtract", 7) => Pair(r, HL) = WordX
  BY <1>1 DEF SubtractRun, After, HL
<1>9. After("compare", 1) => /\ r = Regs
                             /\ "z" \in f <=> r[A] = r[0]
                             /\ "c" \in f <=> r[A] < r[0]
  BY <1>1 DEF CompareRun, After, A
<1>10. After("count", 2) => Pair(r, HL) = WordX
  BY <1>1, <1>2 DEF CountRun, After
<1>11. After("count", 3) => r[5] = (WordX + 1) % 256 /\ ("z" \in f <=> r[5] = 0)
  <2> DEFINE h == Regs[4]
             l == Regs[5]
             x == WordX
  <2>1. h \in 0..255 /\ l \in 0..255
    BY <1>1, RegsBytes
  <2>2. x = 256 * h + l
    BY <1>1, WordsOfRegs
  <2>3. After("count", 3) => r[5] = (l + 1) % 256 /\ ("z" \in f <=> r[5] = 0)
    BY <1>1 DEF CountRun, After
  <2> HIDE DEF h, l, x
  <2>4. (x + 1) % 256 = (l + 1) % 256
    BY <2>1, <2>2
  <2> QED
    <3>1. After("count", 3) => r[5] = (x + 1) % 256 /\ ("z" \in f <=> r[5] = 0)
      BY <2>3, <2>4
    <3> QED
      BY <3>1 DEF x
<1>12. After("count", 4) => r = Regs /\ Carry(f) = Carry(routine.flags)
  BY <1>1 DEF CountRun, After
<1> QED
  BY <1>2, <1>5, <1>6, <1>7, <1>8, <1>9, <1>10, <1>11, <1>12 DEF WideSums

LEMMA InvDecimalSums ==
  ASSUME AluInv
  PROVE  DecimalSums
<1>1. SumDecimalRun /\ TakeDecimalRun
  BY DEF AluInv
<1> DEFINE sum == Decimal(Regs[A]) + Decimal(Regs[0]) + Carry(routine.flags)
           difference == Decimal(Regs[A]) - Decimal(Regs[0]) - Carry(routine.flags)
<1>2. After("decimalSum", 2) => /\ Decimal(r[A]) = sum % 100 /\ r[A] % 16 < 10
                                /\ "c" \in f <=> sum > 99
  BY <1>1 DEF SumDecimalRun, After, A, CarryIn
<1>3. After("decimalDifference", 2) => /\ Decimal(r[A]) = difference % 100 /\ r[A] % 16 < 10
                                       /\ "c" \in f <=> difference < 0
  BY <1>1 DEF TakeDecimalRun, After, A, CarryIn
<1> QED
  BY <1>2, <1>3, Zenon DEF DecimalSums

LEMMA InvShiftsCompose ==
  ASSUME AluInv
  PROVE  ShiftsCompose
<1>1. routine \in Routines /\ ShiftRun /\ TurnRun
  BY DEF AluInv
<1> DEFINE h == Regs[4]
           l == Regs[5]
           x == Pair(Regs, HL)
           p == Pair(r, HL)
<1>2. h \in 0..255 /\ l \in 0..255 /\ x = 256 * h + l /\ p = 256 * r[4] + r[5]
  BY <1>1, RegsBytes DEF Pair, Word, HL
<1>3. After("shift", 2) =>
        r[4] = ((2 * h) % 256) + (l \div 128) /\ r[5] = (2 * l) % 256 /\ Carry(f) = h \div 128
  BY <1>1 DEF ShiftRun, After
<1>4. After("shift", 4) => r[4] = h % 128 /\ r[5] = l /\ Carry(f) = 0
  BY <1>1 DEF ShiftRun, After
<1>5. After("shift", 7) => r[4] = h % 128 /\ r[5] = l /\ Carry(f) = 0
  BY <1>1 DEF ShiftRun, After
<1> HIDE DEF h, l, x, p
<1>6. 256 * (((2 * h) % 256) + (l \div 128)) + ((2 * l) % 256) = (2 * x) % 65536
  BY <1>2
<1>7. (h \div 128 = 1 <=> x > 32767) /\ h \div 128 \in 0..1
  BY <1>2
<1>8. 256 * (h % 128) + l = x % 32768
  BY <1>2
<1>9. (Carry(f) = 1 <=> "c" \in f) /\ (Carry(f) = 0 => "c" \notin f)
  BY DEF Carry
<1> DEFINE half == x % 32768
<1>a. r[4] = h % 128 /\ r[5] = l => p = half
  BY <1>2, <1>8
<1> HIDE DEF half
<1>10. After("shift", 2) => p = (2 * x) % 65536 /\ ("c" \in f <=> x > 32767)
  BY <1>2, <1>3, <1>6, <1>7, <1>9
<1>11. After("shift", 4) => p = half /\ "c" \notin f
  BY <1>4, <1>9, <1>a, Zenon
<1>12. After("shift", 7) => p = half /\ "c" \notin f
  BY <1>5, <1>9, <1>a, Zenon
<1>13. After("turn", 9)  => r[A] = Regs[A] /\ Carry(f) = Carry(routine.flags)
  BY <1>1 DEF TurnRun, After
<1>14. After("turn", 14) => r = Regs
  BY <1>1 DEF TurnRun, After
<1> QED
  BY <1>10, <1>11, <1>12, <1>13, <1>14 DEF ShiftsCompose, x, p, half

LEMMA InvStackKeeps ==
  ASSUME AluInv
  PROVE  StackKeeps
<1>1. routine \in Routines /\ ExchangeRun
  BY DEF AluInv
<1> DEFINE out == {n \in FlagNames : Bit(Regs[1], [z |-> 7, n |-> 6, h |-> 5, c |-> 4][n]) = 1}
<1>2. FlagsOut = out
  BY Zenon DEF FlagsOut, FromFlagByte
<1>3. Pair(r, 0) = Word(r[0], r[1])
  BY DEF Pair
<1> HIDE DEF out
<1>4. After("exchange", 4) => /\ sp = StackTop
                              /\ Pair(r, 0) = Word(Regs[A], FlagByte(routine.flags))
                              /\ r[A] = Regs[0]
                              /\ f = out
  BY <1>1, <1>2, <1>3 DEF ExchangeRun, After, A, FlagsIn
<1>5. After("exchange", 6) => Pair(r, 1) % 16 = 0 /\ Pair(r, 1) \div 16 = Word(Regs[0], Regs[1]) \div 16
  <2> DEFINE h == Regs[0]
             l == Regs[1]
             p == Pair(r, 1)
             w == Word(Regs[0], Regs[1])
  <2>1. h \in 0..255 /\ l \in 0..255 /\ w = 256 * h + l /\ p = 256 * r[2] + r[3]
    BY <1>1, RegsBytes DEF Pair, Word
  <2>2. FlagByte(FlagsOut) = 16 * (l \div 16)
    BY <2>1, FlagsBack DEF FlagsOut, Bytes8
  <2>3. After("exchange", 6) => r[2] = h /\ r[3] = 16 * (l \div 16)
    BY <1>1, <2>2 DEF ExchangeRun, After
  <2> HIDE DEF h, l, p, w
  <2>4. ASSUME NEW q, q = 256 * h + 16 * (l \div 16)
        PROVE  q % 16 = 0 /\ q \div 16 = w \div 16
    BY <2>1, <2>4
  <2>5. After("exchange", 6) => p % 16 = 0 /\ p \div 16 = w \div 16
    BY <2>1, <2>3, <2>4
  <2> QED
    BY <2>5 DEF p, w
<1> QED
  BY <1>4, <1>5, Zenon DEF StackKeeps, out

LEMMA InvPointersMove ==
  ASSUME AluInv
  PROVE  PointersMove
<1>1. FrameRun
  BY DEF AluInv
<1> DEFINE e == Regs[3]
           moved == (StackTop + Signed(e)) % 65536
           over == (StackTop % 256) + e > 255
<1>2. moved = Moved(StackTop, Regs[3]) /\ (moved + Signed(e)) % 65536 = Moved(moved, Regs[3])
  BY DEF Moved
<1>3. Carry(f) = Spills(StackTop, Regs[3]) => ("c" \in f <=> over)
  BY DEF Carry, Spills
<1>4. After("frame", 1) => Pair(r, HL) = Moved(StackTop, Regs[3]) /\ sp = StackTop
  BY <1>1 DEF FrameRun, After, HL
<1>5. After("frame", 2) => sp = Moved(StackTop, Regs[3]) /\ Carry(f) = Spills(StackTop, Regs[3])
  BY <1>1 DEF FrameRun, After
<1>6. After("frame", 3) => sp = Moved(Moved(StackTop, Regs[3]), Regs[3])
  BY <1>1 DEF FrameRun, After
<1> DEFINE back == (moved + Signed(e)) % 65536
<1> HIDE DEF moved, over, back
<1>7. /\ After("frame", 1) => Pair(r, HL) = moved /\ sp = StackTop
      /\ After("frame", 2) => sp = moved /\ ("c" \in f <=> over)
      /\ After("frame", 3) => sp = back
  BY <1>2, <1>3, <1>4, <1>5, <1>6 DEF back
<1> QED
  BY <1>7 DEF PointersMove, moved, over, back

LEMMA InvMasksSplit ==
  ASSUME AluInv
  PROVE  MasksSplit
<1>1. routine \in Routines /\ AluTypeOK /\ SplitRun /\ BitsRun
  BY DEF AluInv
<1>2. After("split", 8) => r[A] = 0 /\ f = {"z"}
  BY <1>1 DEF SplitRun, After, A
<1>3. ASSUME After("writeBits", 8)
      PROVE  r[4] = Regs[1] /\ f = routine.flags
  <2>1. r[4] \in Bytes8 /\ Regs[1] \in Bytes8
    BY <1>1, RegsBytes DEF AluTypeOK, Bytes8
  <2>2. f = routine.flags /\ \A i \in 0..7 : Bit(r[4], i) = Bit(Regs[1], i)
    BY <1>1, <1>3 DEF BitsRun, After
  <2> QED
    BY <2>1, <2>2, SameBits
<1> QED
  BY <1>2, <1>3 DEF MasksSplit

\* The arithmetic keeps to bytes, the four flags and 16-bit addresses: no
\* instruction of a routine leaves a register, the stack pointer or a byte of
\* the stack out of its width, whatever the operands.
THEOREM ArithmeticTyped == AluSpec => []AluTypeOK
<1>1. AluInv => AluTypeOK
  BY DEF AluInv
<1> QED
  BY <1>1, InvStarts, InvKept, PTL DEF AluSpec

\* Every routine computes what it is written for from any registers and flags
\* and wherever the stack is: multi-byte sums and differences, comparisons,
\* DAA, shifts and rotations, pushes and pops, moves of the stack pointer and
\* masks, each with the flags that the next instruction reads.
THEOREM RoutinesAlwaysCompute == AluSpec => []RoutinesCompute
<1>1. AluInv => RoutinesCompute
  <2>1. AluInv => AluTypeOK
    BY DEF AluInv
  <2> QED
    BY <2>1, InvWideSums, InvDecimalSums, InvShiftsCompose, InvStackKeeps, InvPointersMove, InvMasksSplit
       DEF RoutinesCompute
<1> QED
  BY <1>1, InvStarts, InvKept, PTL DEF AluSpec
=============================================================================
