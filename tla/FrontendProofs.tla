--------------------------- MODULE FrontendProofs ---------------------------
(***************************************************************************)
(* Proofs about Frontend, for any length of a frame, any number of frames  *)
(* and any settings and events of a player, and about the pictures it      *)
(* shows: Drawing, for any sizes of tiles, maps and the screen and any     *)
(* registers and sprites.  Both go by induction over sequences.            *)
(***************************************************************************)
EXTENDS Frontend, Drawing, WellFoundedInduction, FiniteSetTheorems, SequenceTheorems, TLAPS

-----------------------------------------------------------------------------
(* Induction, in a form about sets *)

LEMMA Induction ==
  ASSUME NEW T \in SUBSET Nat, 0 \in T, \A n \in T : n + 1 \in T
  PROVE  T = Nat
  <1> DEFINE B == Nat \ T
             R == OpToRel(<, Nat)
  <1>1. \A x, y \in Nat : y < x => <<y, x>> \in R
    BY DEF OpToRel
  <1> SUFFICES ASSUME B # {}
               PROVE  FALSE
    OBVIOUS
  <1>2. PICK x \in B : \A y \in B : ~(<<y, x>> \in R)
    <2>1. IsWellFoundedOn(R, Nat) /\ B \subseteq Nat
      BY NatLessThanWellFounded, Zenon
    <2> HIDE DEF R, B
    <2> QED
      BY <2>1, WFMin
  <1> HIDE DEF R
  <1>3. x \in Nat /\ x # 0 /\ x \notin T
    OBVIOUS
  <1>4. x - 1 \in Nat /\ x - 1 < x /\ x - 1 + 1 = x
    BY <1>3
  <1>5. x - 1 \in T
    BY <1>1, <1>2, <1>3, <1>4
  <1> QED
    BY <1>3, <1>4, <1>5

\* What holds at zero, and at each number up to N if at the one before it.
LEMMA UpTo ==
  ASSUME NEW N \in Nat, NEW T, 0 \in T, \A n \in 1..N : n - 1 \in T => n \in T
  PROVE  N \in T /\ \A n \in 0..N : n \in T
  <1> DEFINE U == {n \in Nat : n <= N => n \in T}
  <1>1. 0 \in U
    OBVIOUS
  <1>2. ASSUME NEW n \in U
        PROVE  n + 1 \in U
    <2>1. CASE n + 1 <= N
      <3>1. n \in T /\ n + 1 \in 1..N /\ n + 1 - 1 = n
        BY <2>1
      <3> QED
        BY <3>1
    <2> QED
      BY <2>1
  <1>3. U = Nat
    <2> HIDE DEF U
    <2>1. U \in SUBSET Nat
      BY DEF U
    <2> QED
      BY <1>1, <1>2, <2>1, Induction
  <1> QED
    BY <1>3

\* States that follow one another by a function of place and state.
Leads(f, s, F, N) == f[0] = s /\ \A n \in 1..N : f[n] = F[<<n, f[n - 1]>>]

LEMMA Chain ==
  ASSUME NEW S, NEW s \in S, NEW N \in Nat, NEW F \in [(1..N) \X S -> S]
  PROVE  \E f \in [0..N -> S] : Leads(f, s, F, N)
  <1> DEFINE T == {m \in 0..N : \E f \in [0..m -> S] : Leads(f, s, F, m)}
  <1>1. 0 \in T
    <2>1. [i \in 0..0 |-> s] \in [0..0 -> S] /\ Leads([i \in 0..0 |-> s], s, F, 0)
      BY DEF Leads
    <2> QED
      BY <2>1
  <1>2. ASSUME NEW n \in 1..N, n - 1 \in T
        PROVE  n \in T
    <2>1. PICK f \in [0..(n - 1) -> S] : Leads(f, s, F, n - 1)
      BY <1>2
    <2> DEFINE g == [i \in 0..n |-> IF i = n THEN F[<<n, f[n - 1]>>] ELSE f[i]]
    <2>2. g \in [0..n -> S]
      <3>1. f[n - 1] \in S
        BY <2>1
      <3>2. <<n, f[n - 1]>> \in (1..N) \X S
        BY <3>1
      <3>3. F[<<n, f[n - 1]>>] \in S
        BY <3>2
      <3>4. \A i \in 0..n : i # n => i \in 0..(n - 1)
        OBVIOUS
      <3> QED
        BY <3>3, <3>4
    <2>3. Leads(g, s, F, n)
      <3>1. g[0] = s
        BY <2>1 DEF Leads
      <3>2. ASSUME NEW i \in 1..n
            PROVE  g[i] = F[<<i, g[i - 1]>>]
        <4>1. i - 1 \in 0..n /\ i - 1 # n /\ i \in 0..n
          OBVIOUS
        <4>2. g[i - 1] = f[i - 1]
          BY <4>1
        <4>3. CASE i = n
          BY <4>1, <4>2, <4>3
        <4>4. CASE i # n
          <5>1. i \in 1..(n - 1)
            BY <4>4
          <5>2. f[i] = F[<<i, f[i - 1]>>]
            BY <2>1, <5>1 DEF Leads
          <5>3. g[i] = f[i]
            BY <4>1, <4>4
          <5> QED
            BY <4>2, <5>2, <5>3
        <4> QED
          BY <4>3, <4>4
      <3> QED
        BY <3>1, <3>2 DEF Leads
    <2> HIDE DEF g
    <2> QED
      BY <2>2, <2>3
  <1>3. N \in T
    <2> HIDE DEF T
    <2> QED
      BY <1>1, <1>2, UpTo
  <1> QED
    BY <1>3

\* The states on the way of the events of one kind.
Way(kind, f, s, events) ==
  /\ f[0] = s
  /\ \A n \in 1..Len(events) : f[n] = Apply(kind, f[n - 1], events[n])
  /\ Through(kind, s, events) = f[Len(events)]

LEMMA OnTheWay ==
  ASSUME NEW kind, NEW S, NEW s \in S, NEW events \in Seq(PlayerEvents),
         \A x \in S, e \in PlayerEvents : Apply(kind, x, e) \in S
  PROVE  \E f \in [0..Len(events) -> S] : Way(kind, f, s, events)
  <1> DEFINE N == Len(events)
             F == [x \in (1..N) \X S |-> Apply(kind, x[2], events[x[1]])]
             Fits(g) == g = [n \in 0..N |-> IF n = 0 THEN s ELSE Apply(kind, g[n - 1], events[n])]
             st == CHOOSE g : Fits(g)
  <1>1. N \in Nat /\ \A n \in 1..N : events[n] \in PlayerEvents
    OBVIOUS
  <1>2. F \in [(1..N) \X S -> S]
    BY <1>1
  <1>3. PICK f \in [0..N -> S] : Leads(f, s, F, N)
    <2> HIDE DEF F, N
    <2> QED
      BY <1>1, <1>2, Chain
  <1>4. Fits(f)
    <2>1. ASSUME NEW n \in 1..N
          PROVE  f[n] = Apply(kind, f[n - 1], events[n])
      <3>1. f[n] = F[<<n, f[n - 1]>>]
        BY <1>3 DEF Leads
      <3>2. <<n, f[n - 1]>> \in (1..N) \X S
        <4>1. n - 1 \in 0..N
          BY <1>1
        <4>2. f[n - 1] \in S
          BY <1>3, <4>1
        <4> QED
          BY <4>2
      <3> QED
        BY <3>1, <3>2
    <2>2. f[0] = s
      BY <1>3 DEF Leads
    <2>3. ASSUME NEW n \in 0..N
          PROVE  f[n] = IF n = 0 THEN s ELSE Apply(kind, f[n - 1], events[n])
      <3>1. n # 0 => n \in 1..N
        OBVIOUS
      <3> QED
        BY <2>1, <2>2, <3>1
    <2> QED
      BY <1>3, <2>3
  <1>5. Fits(st)
    <2> HIDE DEF Fits
    <2> QED
      BY <1>4
  <1>6. Through(kind, s, events) = st[N]
    BY DEF Through
  <1> HIDE DEF st
  <1>7. st[0] = s /\ \A n \in 1..N : st[n] = Apply(kind, st[n - 1], events[n])
    <2>1. \A n \in 1..N : n \in 0..N /\ n # 0
      OBVIOUS
    <2>2. 0 \in 0..N
      BY <1>1
    <2>3. \A n \in 0..N : st[n] = IF n = 0 THEN s ELSE Apply(kind, st[n - 1], events[n])
      BY <1>5, Zenon
    <2> QED
      BY <2>1, <2>2, <2>3, Zenon
  <1>8. st \in [0..N -> S]
    <2> DEFINE T == {n \in 0..N : st[n] \in S}
    <2>1. 0 \in T
      BY <1>1, <1>7
    <2>2. ASSUME NEW n \in 1..N, n - 1 \in T
          PROVE  n \in T
      <3>1. st[n - 1] \in S /\ n \in 0..N /\ events[n] \in PlayerEvents
        BY <2>2, <1>1
      <3> QED
        BY <1>7, <3>1
    <2>3. \A n \in 0..N : n \in T
      <3> HIDE DEF T, N
      <3> QED
        BY <1>1, <2>1, <2>2, UpTo
    <2>4. \A n \in 0..N : st[n] \in S
      BY <2>3
    <2>5. st = [n \in 0..N |-> st[n]]
      BY <1>5
    <2> QED
      BY <2>4, <2>5
  <1> QED
    BY <1>6, <1>7, <1>8 DEF Way

-----------------------------------------------------------------------------
(* What a poll makes of the emulator and the session *)

\* An emulator between two polls: its samples were handed over.
Emus ==
  [beam : 0..(FrameCycles * session.speed - 1), ready : BOOLEAN, carry : 0..(MaxInstr - 1),
   queued : {0}, button : BOOLEAN]

Rts == [paused : BOOLEAN, steps : Nat, pressed : BOOLEAN, reload : BOOLEAN, slot : Seq(Emus)]

Polls ==
  [emu : Emus, rt : Rts, reloads : Nat, forgotten : BOOLEAN, pulses : Nat, disturbed : BOOLEAN]

\* What holds of a state x of a poll that began with s.
Since(s) ==
  {x \in Polls :
     /\ x.pulses = IF x.emu.ready THEN 1 ELSE 0
     /\ x.rt.reload => x.reloads # 0
     /\ ~x.disturbed => /\ ~s.disturbed /\ x.pulses = s.pulses
                        /\ x.emu.beam = s.emu.beam /\ x.emu.carry = s.emu.carry}

LEMMA Constants ==
  /\ FrameCycles \in Nat \ {0} /\ MaxInstr \in Nat \ {0} /\ PullSamples \in Nat \ {0}
  /\ FrameBudget \in Nat \ {0} /\ StartBeam \in 0..(FrameCycles - 1) /\ MaxActs \in Nat
  /\ MaxInstr < FrameCycles /\ FrameCycles + MaxInstr <= PullSamples
  /\ MaxChunk \in Nat \ {0} /\ MaxChunk = FrameCycles - MaxInstr
  BY FrontendAssumption DEF MaxChunk

LEMMA SessionFacts ==
  ASSUME session \in Sessions
  PROVE  /\ session.step \in Nat \ {0} /\ session.checkpoint \in Nat \ {0}
         /\ session.speed = 1 \/ session.speed = 2
         /\ FrameCycles * session.speed \in Nat /\ FrameCycles * session.speed >= FrameCycles
         /\ FrameCycles * session.speed <= 2 * FrameCycles
         /\ StartBeam * session.speed \in 0..(FrameCycles * session.speed - 1)
         /\ session.events \subseteq PlayerEvents
  <1>1. /\ session.step \in Nat \ {0} /\ session.checkpoint \in Nat \ {0}
        /\ session.speed = 1 \/ session.speed = 2
        /\ session.events \subseteq PlayerEvents
    BY FrontendAssumption
  <1>2. CASE session.speed = 1
    BY <1>1, <1>2, Constants
  <1>3. CASE session.speed = 2
    BY <1>1, <1>3, Constants
  <1> QED
    BY <1>1, <1>2, <1>3

LEMMA FreshIsGood ==
  ASSUME session \in Sessions
  PROVE  Fresh \in Emus /\ ~Fresh.ready
  BY SessionFacts, Constants DEF Fresh, Emus

\* Changes of the state of the session that keep its type.
LEMMA RtsUpdates ==
  ASSUME NEW q \in Rts, NEW e \in Emus
  PROVE  /\ [q EXCEPT !.slot = <<e>>] \in Rts
         /\ [q EXCEPT !.paused = TRUE] \in Rts
         /\ [q EXCEPT !.paused = FALSE, !.steps = 0] \in Rts
         /\ [q EXCEPT !.steps = @ + 1] \in Rts
  <1> DEFINE Z == Seq(Emus)
  <1>1. <<e>> \in Z
    OBVIOUS
  <1> HIDE DEF Z
  <1>2. Rts = [paused : BOOLEAN, steps : Nat, pressed : BOOLEAN, reload : BOOLEAN, slot : Z]
    BY DEF Rts, Z
  <1>3. [q EXCEPT !.slot = <<e>>] \in Rts
    BY <1>1, <1>2
  <1>4. [q EXCEPT !.paused = TRUE] \in Rts
    BY <1>2
  <1>5. [q EXCEPT !.paused = FALSE, !.steps = 0] \in Rts
    BY <1>2
  <1>6. [q EXCEPT !.steps = @ + 1] \in Rts
    BY <1>2
  <1> QED
    BY <1>3, <1>4, <1>5, <1>6

LEMMA RuntimeKeeps ==
  ASSUME session \in Sessions, NEW s, NEW x \in Since(s), NEW e \in RuntimeEvents
  PROVE  /\ ApplyRuntime(x, e) \in Since(s)
         /\ ApplyRuntime(x, e).rt.steps <= x.rt.steps + 1
  <1> DEFINE y == ApplyRuntime(x, e)
             q == x.rt
  <1> SUFFICES y \in Since(s) /\ y.rt.steps <= x.rt.steps + 1
    OBVIOUS
  <1> HIDE DEF y, q
  <1>0. ASSUME NEW r \in Rts, NEW n \in Nat, y = [x EXCEPT !.rt = r, !.reloads = n]
        PROVE  /\ y \in Polls /\ y.rt = r /\ y.emu = x.emu /\ y.reloads = n
               /\ y.pulses = x.pulses /\ y.disturbed = x.disturbed
    <2>1. x \in Polls
      BY DEF Since
    <2> QED
      BY <1>0, <2>1 DEF Polls
  <1>1. /\ x \in Polls /\ x.emu \in Emus /\ x.rt \in Rts /\ x.rt.steps \in Nat /\ x.rt.slot \in Seq(Emus)
        /\ x.pulses = IF x.emu.ready THEN 1 ELSE 0
        /\ x.rt.reload => x.reloads # 0
        /\ q \in Rts /\ q = x.rt
    BY DEF Since, Polls, Rts, q
  <1>2. CASE e = "reset"
    <2>1. y = [x EXCEPT !.emu = Fresh, !.pulses = 0, !.forgotten = TRUE, !.disturbed = TRUE]
      BY <1>2 DEF ApplyRuntime, y, q
    <2>2. y \in Polls /\ y.rt = x.rt /\ y.reloads = x.reloads /\ y.emu = Fresh /\ y.pulses = 0 /\ y.disturbed
      <3>1. y.rt = x.rt /\ y.reloads = x.reloads /\ y.emu = Fresh /\ y.pulses = 0 /\ y.disturbed = TRUE
        BY <1>1, <2>1 DEF Polls
      <3>2. y \in Polls
        BY <1>1, <2>1, FreshIsGood DEF Polls
      <3> QED
        BY <3>1, <3>2
    <2> QED
      BY <1>1, <2>2, FreshIsGood DEF Since
  <1>3. CASE e = "reload"
    <2> DEFINE r == [q EXCEPT !.reload = TRUE]
    <2>1. y = [x EXCEPT !.rt = r, !.reloads = x.reloads + 1]
      BY <1>3 DEF ApplyRuntime, y, q
    <2>2. r \in Rts /\ r.steps = q.steps
      BY <1>1 DEF Rts
    <2>3. x.reloads + 1 \in Nat /\ x.reloads + 1 # 0
      BY <1>1 DEF Polls
    <2> HIDE DEF r
    <2> QED
      <3>1. /\ y \in Polls /\ y.rt = r /\ y.emu = x.emu /\ y.reloads = x.reloads + 1
            /\ y.pulses = x.pulses /\ y.disturbed = x.disturbed
        BY <1>0, <2>1, <2>2, <2>3
      <3> QED
        BY <1>1, <2>2, <2>3, <3>1 DEF Since
  <1>6. ASSUME NEW r \in Rts, r.steps <= q.steps + 1, r.reload = q.reload, y = [x EXCEPT !.rt = r]
        PROVE  y \in Since(s) /\ y.rt.steps <= x.rt.steps + 1
    <2>1. y = [x EXCEPT !.rt = r, !.reloads = x.reloads] /\ x.reloads \in Nat
      BY <1>1, <1>6 DEF Polls
    <2> QED
      <3>1. /\ y \in Polls /\ y.rt = r /\ y.emu = x.emu /\ y.reloads = x.reloads
            /\ y.pulses = x.pulses /\ y.disturbed = x.disturbed
        BY <1>0, <1>6, <2>1
      <3> QED
        BY <1>1, <1>6, <3>1 DEF Since
  <1>4. CASE e = "save"
    <2> DEFINE r == [q EXCEPT !.slot = <<x.emu>>]
    <2>1. y = [x EXCEPT !.rt = r]
      BY <1>4 DEF ApplyRuntime, y, q
    <2>2. r \in Rts /\ r.steps <= q.steps + 1 /\ r.reload = q.reload
      <3>1. r \in Rts
        BY <1>1, RtsUpdates
      <3>2. q.steps \in Nat /\ r.steps = q.steps /\ r.reload = q.reload
        BY <1>1 DEF Rts
      <3> QED
        BY <3>1, <3>2
    <2> HIDE DEF r
    <2> QED
      BY <1>6, <2>1, <2>2
  <1>5. CASE e = "load"
    <2>1. y = LoadState(x)
      BY <1>5 DEF ApplyRuntime, y, q
    <2>2. CASE x.rt.slot = <<>>
      BY <1>1, <2>1, <2>2 DEF LoadState
    <2>3. CASE x.rt.slot # <<>>
      <3> DEFINE h == Head(x.rt.slot)
                 g == [h EXCEPT !.button = x.rt.pressed]
      <3>1. h \in Emus
        BY <1>1, <2>3
      <3>2. g \in Emus /\ g.ready = h.ready
        BY <1>1, <3>1 DEF Emus, Rts
      <3>3. y = [x EXCEPT !.emu = g, !.pulses = IF h.ready THEN 1 ELSE 0, !.disturbed = TRUE]
        BY <2>1, <2>3 DEF LoadState
      <3> HIDE DEF h, g
      <3>4. /\ y \in Polls /\ y.rt = x.rt /\ y.reloads = x.reloads /\ y.emu = g
            /\ y.pulses = (IF h.ready THEN 1 ELSE 0) /\ y.disturbed
        BY <1>1, <3>2, <3>3 DEF Polls
      <3> QED
        BY <1>1, <3>2, <3>4 DEF Since
    <2> QED
      BY <2>2, <2>3
  <1>7. CASE e = "pause"
    <2> DEFINE r == [q EXCEPT !.paused = TRUE]
    <2>1. y = [x EXCEPT !.rt = r]
      BY <1>7 DEF ApplyRuntime, y, q
    <2>2. r \in Rts /\ r.steps <= q.steps + 1 /\ r.reload = q.reload
      <3>1. r \in Rts
        BY <1>1, RtsUpdates
      <3>2. q.steps \in Nat /\ r.steps = q.steps /\ r.reload = q.reload
        BY <1>1 DEF Rts
      <3> QED
        BY <3>1, <3>2
    <2> HIDE DEF r
    <2> QED
      BY <1>6, <2>1, <2>2
  <1>8. CASE e = "resume"
    <2> DEFINE r == [q EXCEPT !.paused = FALSE, !.steps = 0]
    <2>1. y = [x EXCEPT !.rt = r]
      <3>1. y = [x EXCEPT !.rt.paused = FALSE, !.rt.steps = 0]
        BY <1>8 DEF ApplyRuntime, y, q
      <3> QED
        BY <1>1, <3>1 DEF Polls, Rts, q
    <2>2. r \in Rts /\ r.steps <= q.steps + 1 /\ r.reload = q.reload
      <3>1. r \in Rts
        BY <1>1, RtsUpdates
      <3>2. q.steps \in Nat /\ r.steps = 0 /\ r.reload = q.reload
        BY <1>1 DEF Rts
      <3> QED
        BY <3>1, <3>2
    <2> HIDE DEF r
    <2> QED
      BY <1>6, <2>1, <2>2
  <1>9. CASE e = "step"
    <2> DEFINE r == IF q.paused THEN [q EXCEPT !.steps = @ + 1] ELSE q
    <2>1. y = [x EXCEPT !.rt = r]
      <3>1. x = [x EXCEPT !.rt = q]
        BY <1>1 DEF Polls, q
      <3>2. y = IF x.rt.paused THEN [x EXCEPT !.rt.steps = @ + 1] ELSE x
        BY <1>9 DEF ApplyRuntime, y, q
      <3> QED
        BY <3>1, <3>2
    <2>2. r \in Rts /\ r.steps <= q.steps + 1 /\ r.reload = q.reload
      <3>1. r \in Rts
        BY <1>1, RtsUpdates
      <3>2. q.steps \in Nat /\ (r.steps = q.steps \/ r.steps = q.steps + 1) /\ r.reload = q.reload
        BY <1>1 DEF Rts
      <3> QED
        BY <3>1, <3>2
    <2> HIDE DEF r
    <2> QED
      BY <1>6, <2>1, <2>2
  <1> QED
    BY <1>2, <1>3, <1>4, <1>5, <1>7, <1>8, <1>9 DEF RuntimeEvents

LEMMA InputKeeps ==
  ASSUME NEW s, NEW x \in Since(s), NEW e \in InputEvents
  PROVE  /\ ApplyInput(x, e) \in Since(s)
         /\ ApplyInput(x, e).rt.steps = x.rt.steps
  <1> DEFINE y == ApplyInput(x, e)
  <1>1. x \in Polls /\ x.emu \in Emus /\ x.rt \in Rts
    BY DEF Since, Polls
  <1>2. /\ y \in Polls /\ y.rt.steps = x.rt.steps /\ y.rt.reload = x.rt.reload
        /\ y.reloads = x.reloads /\ y.emu.ready = x.emu.ready /\ y.emu.beam = x.emu.beam
        /\ y.emu.carry = x.emu.carry /\ y.pulses = x.pulses /\ y.disturbed = x.disturbed
    BY <1>1 DEF ApplyInput, Polls, Rts, Emus
  <1> QED
    BY <1>1, <1>2 DEF Since

LEMMA Kinds == RuntimeEvents # InputEvents
  <1>1. "press" \in InputEvents /\ "press" \notin RuntimeEvents
    BY DEF RuntimeEvents, InputEvents
  <1> QED
    BY <1>1

LEMMA ApplyKeeps ==
  ASSUME session \in Sessions, NEW s, NEW x \in Since(s), NEW e \in PlayerEvents,
         NEW kind \in {RuntimeEvents, InputEvents}
  PROVE  /\ Apply(kind, x, e) \in Since(s)
         /\ Apply(kind, x, e).rt.steps <= x.rt.steps + 1
         /\ kind = InputEvents => Apply(kind, x, e).rt.steps = x.rt.steps
  <1>1. x.rt.steps \in Nat
    BY DEF Since, Polls, Rts
  <1>2. CASE e \notin kind
    BY <1>1, <1>2 DEF Apply
  <1>3. CASE e \in kind /\ kind = RuntimeEvents
    <2>1. Apply(kind, x, e) = ApplyRuntime(x, e) /\ kind # InputEvents
      BY <1>3, Kinds DEF Apply
    <2> QED
      BY <1>3, <2>1, RuntimeKeeps
  <1>4. CASE e \in kind /\ kind = InputEvents
    <2>1. Apply(kind, x, e) = ApplyInput(x, e)
      BY <1>4, Kinds DEF Apply
    <2>2. ApplyInput(x, e) \in Since(s) /\ ApplyInput(x, e).rt.steps = x.rt.steps
      BY <1>4, InputKeeps
    <2> QED
      BY <1>1, <2>1, <2>2
  <1> QED
    BY <1>2, <1>3, <1>4

LEMMA ThroughKeeps ==
  ASSUME session \in Sessions, NEW s, NEW x \in Since(s), NEW events \in Seq(PlayerEvents),
         NEW kind \in {RuntimeEvents, InputEvents}
  PROVE  /\ Through(kind, x, events) \in Since(s)
         /\ Through(kind, x, events).rt.steps <= x.rt.steps + Len(events)
         /\ kind = InputEvents => Through(kind, x, events).rt.steps = x.rt.steps
  <1> DEFINE S == Since(s)
             N == Len(events)
  <1>1. \A y \in S, e \in PlayerEvents : Apply(kind, y, e) \in S
    BY ApplyKeeps
  <1>2. PICK f \in [0..N -> S] : Way(kind, f, x, events)
    <2> HIDE DEF S
    <2>1. x \in S
      BY DEF S
    <2> QED
      BY <1>1, <2>1, OnTheWay
  <1>3. N \in Nat /\ \A n \in 1..N : events[n] \in PlayerEvents
    OBVIOUS
  <1>4. \A y \in S : y.rt.steps \in Nat
    BY DEF Since, Polls, Rts
  <1> DEFINE T == {n \in 0..N : /\ f[n].rt.steps <= x.rt.steps + n
                                /\ kind = InputEvents => f[n].rt.steps = x.rt.steps}
  <1>5. 0 \in T
    BY <1>2, <1>3, <1>4 DEF Way
  <1>6. ASSUME NEW n \in 1..N, n - 1 \in T
        PROVE  n \in T
    <2>1. n - 1 \in 0..N /\ n \in 0..N /\ n \in 1..Len(events)
      BY <1>3
    <2>2. /\ f[n] = Apply(kind, f[n - 1], events[n]) /\ f[n - 1] \in Since(s) /\ f[n] \in Since(s)
          /\ events[n] \in PlayerEvents
      BY <1>2, <1>3, <2>1 DEF Way
    <2>3. /\ f[n].rt.steps <= f[n - 1].rt.steps + 1
          /\ kind = InputEvents => f[n].rt.steps = f[n - 1].rt.steps
      <3>1. \A y \in Since(s), e \in PlayerEvents :
              /\ Apply(kind, y, e).rt.steps <= y.rt.steps + 1
              /\ kind = InputEvents => Apply(kind, y, e).rt.steps = y.rt.steps
        BY ApplyKeeps
      <3> QED
        BY <2>2, <3>1, Zenon
    <2>4. x.rt.steps \in Nat /\ f[n].rt.steps \in Nat /\ f[n - 1].rt.steps \in Nat
      BY <1>4, <2>2
    <2>5. /\ f[n - 1].rt.steps <= x.rt.steps + (n - 1)
          /\ kind = InputEvents => f[n - 1].rt.steps = x.rt.steps
      BY <1>6
    <2>6. f[n].rt.steps <= x.rt.steps + n
      BY <2>3, <2>4, <2>5, SMTT(30)
    <2> QED
      BY <2>1, <2>3, <2>5, <2>6
  <1>7. N \in T
    <2> HIDE DEF T, N
    <2> QED
      BY <1>3, <1>5, <1>6, UpTo
  <1>8. Through(kind, x, events) = f[N] /\ f[N] \in S
    BY <1>2, <1>3 DEF Way
  <1> QED
    BY <1>7, <1>8

-----------------------------------------------------------------------------
(* What a poll takes *)

LEMMA Least ==
  ASSUME NEW I \in SUBSET Nat, I # {}
  PROVE  Min(I) \in I /\ \A j \in I : Min(I) <= j
  <1> DEFINE R == OpToRel(<, Nat)
  <1>1. \A x, y \in Nat : y < x => <<y, x>> \in R
    BY DEF OpToRel
  <1>2. PICK x \in I : \A y \in I : ~(<<y, x>> \in R)
    <2>1. IsWellFoundedOn(R, Nat)
      BY NatLessThanWellFounded, Zenon
    <2> HIDE DEF R
    <2> QED
      BY <2>1, WFMin
  <1> HIDE DEF R
  <1>3. ASSUME NEW y \in I
        PROVE  x <= y
    <2>1. x \in Nat /\ y \in Nat
      BY <1>2
    <2>2. ~(y < x)
      BY <1>1, <1>2, <2>1
    <2> QED
      BY <2>1, <2>2
  <1> QED
    BY <1>3 DEF Min

LEMMA Halves ==
  ASSUME os \in Seq(PlayerEvents)
  PROVE  /\ Taken \in Seq(PlayerEvents) /\ NotTaken \in Seq(PlayerEvents)
         /\ Len(Taken) + Len(NotTaken) <= Len(os)
         /\ \A i \in 1..Len(Taken) : i \in 1..Len(os) /\ Taken[i] = os[i]
         /\ ~Quits => Taken = os /\ NotTaken = <<>>
         /\ Quits => /\ Len(os) = Len(Taken) + 1 + Len(NotTaken)
                     /\ os[Len(Taken) + 1] = "quit"
                     /\ \A i \in 1..Len(NotTaken) : NotTaken[i] = os[Len(Taken) + 1 + i]
  <1>1. CASE ~Quits
    BY <1>1 DEF Taken, NotTaken
  <1>2. CASE Quits
    <2> DEFINE I == {i \in 1..Len(os) : os[i] = "quit"}
               q == Min(I)
    <2>1. I # {} /\ I \in SUBSET Nat
      BY <1>2 DEF Quits, Contains
    <2>2. q \in I
      <3> HIDE DEF I
      <3> QED
        BY <2>1, Least
    <2>3. SelectInSeq(os, LAMBDA e : e = "quit") = q
      BY <2>1 DEF SelectInSeq
    <2>4. Taken = SubSeq(os, 1, q - 1)
      BY <1>2, <2>3 DEF Taken
    <2>5. q \in 1..Len(os) /\ os[q] = "quit"
      BY <2>2
    <2> HIDE DEF q
    <2>6. Len(os) \in Nat
      OBVIOUS
    <2>7. /\ Taken \in Seq(PlayerEvents) /\ Len(Taken) = q - 1
          /\ \A i \in 1..(q - 1) : Taken[i] = os[i]
      BY <2>4, <2>5, <2>6
    <2>8. NotTaken = SubSeq(os, q + 1, Len(os))
      BY <1>2, <2>5, <2>7 DEF NotTaken
    <2>9. /\ NotTaken \in Seq(PlayerEvents) /\ Len(NotTaken) = Len(os) - q
          /\ \A i \in 1..(Len(os) - q) : NotTaken[i] = os[q + i]
      BY <2>5, <2>6, <2>8
    <2> QED
      BY <1>2, <2>5, <2>6, <2>7, <2>9
  <1> QED
    BY <1>1, <1>2

-----------------------------------------------------------------------------
(* The inductive invariant *)

Working == pc \in {"outer", "inner", "after"}

Types ==
  /\ session \in Sessions /\ emu \in Emus /\ rt \in Rts /\ os \in Seq(PlayerEvents)
  /\ closed \in BOOLEAN /\ held \in BOOLEAN /\ forgotten \in BOOLEAN /\ disturbed \in BOOLEAN
  /\ shown \in 0..FrameBudget /\ presented \in 0..FrameBudget
  /\ pc \in {"main", "outer", "inner", "after", "done", "failed"}
  /\ limit \in Nat /\ budget \in Nat /\ pulses \in Nat
  /\ stats \in [frames : Nat, iterations : Nat, reloads : Nat]
  /\ left \in 0..session.step
  /\ acts \in 0..MaxActs

\* Every step of a pause was asked for by an event.
Steps == rt.steps + Len(os) <= acts

Counts ==
  /\ stats.frames <= limit
  /\ Working => limit # 0 /\ stats.iterations <= budget
  /\ FramesAgree

Reloads == rt.reload => stats.reloads # 0 /\ (Working \/ pc = "failed")

\* Iterations since the program began.
Used == IterationBudget(session.step) - budget + (IF Working THEN stats.iterations ELSE 0)

\* The beam passed as many dots as the iterations were to run, and the
\* cycles step_cycles ran too far.
CyclesAgree ==
  (shown + pulses) * (FrameCycles * session.speed) + emu.beam =
    StartBeam * session.speed + session.step * Used + emu.carry

Undisturbed == ~disturbed /\ pc # "failed" /\ session.step <= MaxChunk

OneChunk == pc = "inner" /\ left # 0 => ~emu.ready /\ left = session.step

\* The loop leaves without a frame only when there is nothing left to do.
LeavesInTime == pc = "after" /\ ~closed /\ stats.reloads = 0 => stats.frames # 0 \/ shown = FrameBudget

DoneInTime == pc = "done" /\ ~closed => presented = FrameBudget

Accounted == Undisturbed => CyclesAgree /\ OneChunk /\ LeavesInTime /\ DoneInTime

FInv == Types /\ Steps /\ Counts /\ Reloads /\ NoFrameLost /\ Accounted

LEMMA SameCycles ==
  ASSUME CyclesAgree, session' = session, shown' + pulses' = shown + pulses, Used' = Used,
         emu'.beam = emu.beam, emu'.carry = emu.carry
  PROVE  CyclesAgree'
  BY DEF CyclesAgree

LEMMA BudgetIsNat ==
  ASSUME session \in Sessions
  PROVE  IterationBudget(session.step) \in Nat /\ CeilDiv(FrameCycles, session.step) \in Nat
  <1>1. CeilDiv(FrameCycles, session.step) \in Nat
    BY SessionFacts, Constants DEF CeilDiv
  <1> DEFINE c == CeilDiv(FrameCycles, session.step)
  <1> HIDE DEF c
  <1>2. FrameBudget * (2 * c) \in Nat
    BY <1>1, Constants DEF c
  <1> QED
    BY <1>1, <1>2 DEF IterationBudget, c

THEOREM FrontendBegins == Init => FInv
  <1> SUFFICES ASSUME Init
               PROVE  FInv
    OBVIOUS
  <1>1. session \in Sessions
    BY DEF Init
  <1>2. Idle \in Rts /\ Idle.steps = 0 /\ ~Idle.reload
    <2>1. <<>> \in Seq(Emus)
      OBVIOUS
    <2> QED
      BY <2>1 DEF Idle, Rts
  <1>3. Types
    <2>1. emu \in Emus /\ rt \in Rts /\ budget \in Nat /\ limit \in Nat
      BY <1>1, <1>2, FreshIsGood, BudgetIsNat DEF Init
    <2>2. shown \in 0..FrameBudget /\ presented \in 0..FrameBudget /\ acts \in 0..MaxActs
      BY Constants DEF Init
    <2>3. left \in 0..session.step
      BY <1>1, SessionFacts DEF Init
    <2>4. stats \in [frames : Nat, iterations : Nat, reloads : Nat] /\ os \in Seq(PlayerEvents)
      BY DEF Init, NoStats
    <2> QED
      BY <1>1, <2>1, <2>2, <2>3, <2>4 DEF Init, Types
  <1>4. Steps
    BY <1>2 DEF Init, Steps
  <1>5. Counts
    BY DEF Init, Counts, FramesAgree, Working, NoStats
  <1>6. Reloads
    BY <1>2 DEF Init, Reloads
  <1>7. NoFrameLost
    BY <1>1, FreshIsGood DEF Init, NoFrameLost
  <1>8. Accounted
    <2>1. Used = 0
      BY <1>1, BudgetIsNat DEF Init, Used, Working
    <2>2. session.step * Used = 0 /\ 0 * (FrameCycles * session.speed) = 0
      BY <1>1, <2>1, SessionFacts
    <2>3. shown + pulses = 0 /\ emu.beam = StartBeam * session.speed /\ emu.carry = 0
      BY DEF Init, Fresh
    <2>4. CyclesAgree
      BY <1>1, <2>2, <2>3, SessionFacts DEF CyclesAgree
    <2> QED
      BY <2>4 DEF Accounted, OneChunk, LeavesInTime, DoneInTime, Init
  <1> QED
    BY <1>3, <1>4, <1>5, <1>6, <1>7, <1>8 DEF FInv

LEMMA PlayerKeeps ==
  ASSUME FInv, NEW event \in session.events, Player(event)
  PROVE  FInv'
  <1>1. event \in PlayerEvents
    BY SessionFacts DEF FInv, Types
  <1>2. Types'
    <2>1. Append(os, event) \in Seq(PlayerEvents)
      BY <1>1 DEF FInv, Types
    <2>2. acts + 1 \in 0..MaxActs
      BY Constants DEF FInv, Types, Player
    <2>3. Emus' = Emus /\ Rts' = Rts
      BY DEF Player, Emus, Rts
    <2> QED
      BY <2>1, <2>2, <2>3 DEF FInv, Types, Player, loop, counts
  <1>3. Steps'
    <2>1. Len(Append(os, event)) = Len(os) + 1 /\ Len(os) \in Nat
      BY <1>1 DEF FInv, Types
    <2>2. rt.steps \in Nat /\ acts \in Nat
      BY Constants DEF FInv, Types, Rts
    <2> QED
      BY <2>1, <2>2 DEF FInv, Steps, Player
  <1>4. Counts' /\ Reloads'
    BY DEF FInv, Counts, Reloads, FramesAgree, Working, Player, loop, counts
  <1>5. NoFrameLost'
    BY DEF FInv, NoFrameLost, Player
  <1>6. Accounted'
    <2>1. Used' = Used
      BY DEF Used, Working, Player, loop, counts
    <2> QED
      BY <2>1 DEF FInv, Accounted, Undisturbed, CyclesAgree, OneChunk, LeavesInTime, DoneInTime,
                  Player, loop, counts
  <1> QED
    BY <1>2, <1>3, <1>4, <1>5, <1>6 DEF FInv

LEMMA StartKeeps ==
  ASSUME FInv, Start
  PROVE  FInv'
  <1>1. Remaining = FrameBudget - presented /\ Remaining \in Nat
    BY Constants DEF FInv, Types, Remaining, Less
  <1>2. Less(Remaining, session.checkpoint) \in Nat
    BY <1>1, SessionFacts DEF FInv, Types, Less
  <1>3. Remaining # 0 => Less(Remaining, session.checkpoint) # 0
    BY <1>1, SessionFacts DEF FInv, Types, Less
  <1>4. ~Working /\ pc = "main" /\ pc' \in {"done", "outer"}
    BY DEF Start, Working
  <1>5. shown = presented /\ ~rt.reload
    BY <1>4 DEF FInv, Types, Counts, FramesAgree, Reloads
  <1>6. Types'
    <2>1. Emus' = Emus /\ Rts' = Rts
      BY DEF Start, Emus, Rts
    <2>2. limit' \in Nat /\ stats' \in [frames : Nat, iterations : Nat, reloads : Nat]
      BY <1>2 DEF FInv, Types, Start, NoStats
    <2> QED
      BY <1>4, <2>1, <2>2 DEF FInv, Types, Start, counts
  <1>7. Steps' /\ NoFrameLost'
    BY DEF FInv, Steps, NoFrameLost, Start
  <1>8. Counts'
    <2>1. CASE pc' = "done"
      BY <1>4, <1>5, <2>1 DEF FInv, Counts, FramesAgree, Working, Start, counts
    <2>2. CASE pc' = "outer"
      BY <1>2, <1>3, <1>4, <1>5, <2>2 DEF FInv, Types, Counts, FramesAgree, Working, Start, counts, NoStats
    <2> QED
      BY <1>4, <2>1, <2>2
  <1>9. Reloads'
    BY <1>5 DEF Reloads, Start
  <1>10. Accounted'
    <2> SUFFICES ASSUME Undisturbed'
                 PROVE  CyclesAgree' /\ OneChunk' /\ LeavesInTime' /\ DoneInTime'
      BY DEF Accounted
    <2>1. Used' = Used
      <3>1. CASE pc' = "done"
        BY <1>4, <3>1 DEF Used, Working, Start, counts
      <3>2. CASE pc' = "outer"
        BY <1>4, <3>2 DEF Used, Working, Start, counts, NoStats
      <3> QED
        BY <1>4, <3>1, <3>2
    <2>2. Undisturbed
      BY <1>4 DEF Undisturbed, Start
    <2>3. CyclesAgree'
      BY <2>1, <2>2, SameCycles DEF FInv, Accounted, Start
    <2>4. OneChunk' /\ LeavesInTime'
      BY <1>4 DEF OneChunk, LeavesInTime
    <2>5. DoneInTime'
      BY <1>1, <1>5, Constants DEF FInv, Types, DoneInTime, Start, IsOpen, counts
    <2> QED
      BY <2>3, <2>4, <2>5
  <1> QED
    BY <1>6, <1>7, <1>8, <1>9, <1>10 DEF FInv

LEMMA AfterKeeps ==
  ASSUME FInv, After
  PROVE  FInv'
  <1>1. /\ pc = "after" /\ Working /\ ~Working' /\ pc' \in {"main", "done", "failed"}
        /\ stats.iterations \in Nat /\ stats.frames \in Nat /\ budget \in Nat /\ stats.iterations <= budget
        /\ shown = presented + stats.frames /\ session \in Sessions /\ session' = session
        /\ shown' = shown /\ os' = os /\ acts' = acts /\ stats' = stats /\ limit' = limit /\ closed' = closed
    BY DEF After, Working, FInv, Types, Counts, FramesAgree
  <1>2. budget' = budget - stats.iterations /\ presented' = shown
    BY <1>1 DEF After, Less
  <1>3. Emus' = Emus /\ Rts' = Rts /\ Fresh \in Emus /\ ~Fresh.ready /\ rt.steps \in Nat /\ Len(os) \in Nat
    BY <1>1, FreshIsGood DEF Emus, Rts, FInv, Types
  <1>4. Idle \in Rts /\ Idle.steps = 0 /\ ~Idle.reload
    <2>1. <<>> \in Seq(Emus)
      OBVIOUS
    <2> QED
      BY <2>1 DEF Idle, Rts
  <1>5. CASE stats.reloads # 0
    <2>1. emu' = Fresh /\ rt' = Idle /\ pulses' = 0 /\ forgotten' = TRUE /\ disturbed' = TRUE
      BY <1>5 DEF After
    <2>2. Types'
      BY <1>1, <1>2, <1>3, <1>4, <2>1 DEF FInv, Types, After
    <2>3. Steps'
      <3>1. rt'.steps = 0 /\ os' = os /\ acts' = acts /\ acts \in Nat
        BY <1>1, <1>4, <2>1, Constants DEF FInv, Types
      <3> QED
        BY <1>3, <3>1 DEF FInv, Steps
    <2>4. Counts'
      BY <1>1, <1>2 DEF FInv, Counts, FramesAgree, Working
    <2>5. Reloads' /\ NoFrameLost' /\ Accounted'
      BY <1>3, <1>4, <2>1 DEF Reloads, NoFrameLost, Accounted, Undisturbed
    <2> QED
      BY <2>2, <2>3, <2>4, <2>5 DEF FInv
  <1>6. CASE stats.reloads = 0
    <2>1. /\ pc' = IF stats.frames = 0 THEN "done" ELSE "main"
          /\ UNCHANGED <<emu, rt, forgotten, pulses, disturbed>>
      BY <1>6 DEF After
    <2>2. Types'
      BY <1>1, <1>2, <1>3, <2>1 DEF FInv, Types, After
    <2>3. Steps' /\ NoFrameLost'
      BY <1>1, <2>1 DEF FInv, Steps, NoFrameLost
    <2>4. Counts'
      BY <1>1, <1>2, <2>1 DEF FInv, Counts, FramesAgree, Working
    <2>5. Reloads'
      BY <1>1, <1>6, <2>1 DEF FInv, Reloads
    <2>6. Accounted'
      <3> SUFFICES ASSUME Undisturbed'
                   PROVE  CyclesAgree' /\ OneChunk' /\ LeavesInTime' /\ DoneInTime'
        BY DEF Accounted
      <3>1. Undisturbed
        BY <1>1, <2>1 DEF Undisturbed
      <3>2. Used' = Used
        BY <1>1, <1>2, BudgetIsNat DEF Used
      <3>3. CyclesAgree'
        BY <1>1, <2>1, <3>1, <3>2, SameCycles DEF FInv, Accounted
      <3>4. DoneInTime'
        BY <1>1, <1>2, <1>6, <2>1, <3>1 DEF FInv, Accounted, LeavesInTime, DoneInTime
      <3> QED
        BY <1>1, <3>3, <3>4 DEF OneChunk, LeavesInTime
    <2> QED
      BY <2>2, <2>3, <2>4, <2>5, <2>6 DEF FInv
  <1> QED
    BY <1>1, <1>5, <1>6 DEF FInv, Types

-----------------------------------------------------------------------------
(* Polls *)

Unpolled ==
  [emu |-> emu, rt |-> rt, reloads |-> stats.reloads,
   forgotten |-> forgotten, pulses |-> pulses, disturbed |-> disturbed]

LEMMA PolledKeeps ==
  ASSUME FInv, Working
  PROVE  Polled \in Since(Unpolled) /\ Polled.rt.steps + Len(NotTaken) <= acts
  <1>1. session \in Sessions /\ Taken \in Seq(PlayerEvents) /\ Len(Taken) \in Nat /\ Len(NotTaken) \in Nat
    BY Halves DEF FInv, Types
  <1>2. /\ Unpolled \in Polls /\ Unpolled.pulses = (IF Unpolled.emu.ready THEN 1 ELSE 0)
        /\ Unpolled.rt.reload => Unpolled.reloads # 0
        /\ Unpolled.rt.steps = rt.steps
    BY DEF FInv, Types, NoFrameLost, Reloads, Working, Unpolled, Polls
  <1>3. Unpolled \in Since(Unpolled)
    BY <1>2 DEF Since
  <1> DEFINE u == Unpolled
             y == Through(RuntimeEvents, u, Taken)
  <1>4. Polled = Through(InputEvents, y, Taken)
    BY DEF Polled, Unpolled
  <1> HIDE DEF u
  <1>5. y \in Since(Unpolled) /\ y.rt.steps <= u.rt.steps + Len(Taken)
    BY <1>1, <1>3, ThroughKeeps DEF u
  <1> HIDE DEF y
  <1>6. Polled \in Since(Unpolled) /\ Polled.rt.steps = y.rt.steps
    BY <1>1, <1>4, <1>5, ThroughKeeps
  <1>7. rt.steps \in Nat /\ y.rt.steps \in Nat /\ acts \in Nat /\ Len(os) \in Nat
    BY <1>5, Constants DEF FInv, Types, Rts, Since, Polls
  <1>8. rt.steps + Len(os) <= acts /\ Len(Taken) + Len(NotTaken) <= Len(os) /\ u.rt.steps = rt.steps
    BY <1>2, Halves DEF FInv, Types, Steps, u
  <1> QED
    BY <1>1, <1>5, <1>6, <1>7, <1>8

\* What the branches after a poll rely on.
PollFacts(p) ==
  /\ p.emu \in Emus /\ p.rt \in Rts /\ p.reloads \in Nat /\ p.pulses \in Nat
  /\ p.forgotten \in BOOLEAN /\ p.disturbed \in BOOLEAN
  /\ p.rt.steps \in Nat /\ p.rt.steps + Len(NotTaken) <= acts
  /\ NotTaken \in Seq(PlayerEvents) /\ Len(NotTaken) \in Nat
  /\ p.pulses = IF p.emu.ready THEN 1 ELSE 0
  /\ p.rt.reload => p.reloads # 0
  /\ ~p.disturbed => /\ ~disturbed /\ p.pulses = pulses /\ p.emu.ready = emu.ready
                     /\ p.emu.beam = emu.beam /\ p.emu.carry = emu.carry

LEMMA PolledFacts ==
  ASSUME FInv, Working
  PROVE  PollFacts(Polled)
  <1> DEFINE p == Polled
  <1>1. p \in Since(Unpolled) /\ p.rt.steps + Len(NotTaken) <= acts
    BY PolledKeeps
  <1>2. NotTaken \in Seq(PlayerEvents) /\ Len(NotTaken) \in Nat
    BY Halves DEF FInv, Types
  <1> HIDE DEF p
  <1>3. /\ p \in Polls
        /\ p.pulses = IF p.emu.ready THEN 1 ELSE 0
        /\ p.rt.reload => p.reloads # 0
    BY <1>1 DEF Since
  <1>4. ~p.disturbed => /\ ~disturbed /\ p.pulses = pulses
                        /\ p.emu.beam = emu.beam /\ p.emu.carry = emu.carry
    BY <1>1 DEF Since, Unpolled
  <1>5. /\ p.emu \in Emus /\ p.rt \in Rts /\ p.reloads \in Nat /\ p.pulses \in Nat
        /\ p.forgotten \in BOOLEAN /\ p.disturbed \in BOOLEAN
        /\ p.rt.steps \in Nat
    BY <1>3 DEF Polls, Rts
  <1>6. p.emu.ready \in BOOLEAN /\ emu.ready \in BOOLEAN
    BY <1>5 DEF Emus, FInv, Types
  <1>7. p.pulses = pulses => p.emu.ready = emu.ready
    BY <1>3, <1>6 DEF FInv, NoFrameLost
  <1>8. PollFacts(p)
    BY <1>1, <1>2, <1>3, <1>4, <1>5, <1>7 DEF PollFacts
  <1> QED
    BY <1>8 DEF p

\* A poll after which the emulator does not run and nothing is shown.
LEMMA QuietKeeps ==
  ASSUME FInv, Working, NEW p, PollFacts(p), Poll(p), Quiet(p),
         acts' \in acts..MaxActs, left' \in 0..session.step,
         pc' \in {"outer", "inner", "after", "failed"}
  PROVE  /\ Types' /\ Steps' /\ Counts' /\ Reloads' /\ NoFrameLost'
         /\ Undisturbed' => /\ Undisturbed /\ CyclesAgree' /\ pc' # "failed"
                            /\ emu'.ready = emu.ready
         /\ DoneInTime'
  <1>1. /\ emu' = p.emu /\ rt' = p.rt /\ pulses' = p.pulses /\ disturbed' = p.disturbed
        /\ stats' = [stats EXCEPT !.reloads = p.reloads] /\ shown' = shown
        /\ os' = NotTaken /\ closed' = (closed \/ Quits) /\ forgotten' = p.forgotten
        /\ session' = session /\ presented' = presented /\ budget' = budget /\ held' = held /\ limit' = limit
    BY DEF Quiet, Poll, counts
  <1>2. /\ stats' \in [frames : Nat, iterations : Nat, reloads : Nat]
        /\ stats'.frames = stats.frames /\ stats'.iterations = stats.iterations /\ stats'.reloads = p.reloads
    BY <1>1 DEF FInv, Types, PollFacts
  <1>3. Emus' = Emus /\ Rts' = Rts /\ acts \in Nat /\ MaxActs \in Nat
    BY <1>1, Constants DEF Emus, Rts, FInv, Types
  <1>4. Types'
    <2>1. closed' \in BOOLEAN /\ acts' \in 0..MaxActs
      BY <1>1, <1>3 DEF FInv, Types
    <2>2. pc' \in {"main", "outer", "inner", "after", "done", "failed"}
      OBVIOUS
    <2> QED
      BY <1>1, <1>2, <1>3, <2>1, <2>2 DEF FInv, Types, PollFacts
  <1>5. Steps'
    <2>1. acts' \in Nat /\ acts <= acts'
      BY <1>3
    <2> QED
      BY <1>1, <1>3, <2>1 DEF Steps, PollFacts
  <1>6. Counts'
    BY <1>1, <1>2 DEF FInv, Counts, FramesAgree, Working
  <1>7. Reloads'
    BY <1>1, <1>2 DEF Reloads, Working, PollFacts
  <1>8. NoFrameLost'
    BY <1>1 DEF NoFrameLost, PollFacts
  <1>9. ASSUME Undisturbed'
        PROVE  Undisturbed /\ CyclesAgree' /\ pc' # "failed" /\ emu'.ready = emu.ready
    <2>1. ~p.disturbed /\ pc' # "failed" /\ Working'
      BY <1>1, <1>9 DEF Undisturbed, Working
    <2>2. Undisturbed
      BY <1>1, <1>9, <2>1 DEF Undisturbed, Working, PollFacts
    <2>3. /\ emu'.ready = emu.ready /\ pulses' = pulses
          /\ emu'.beam = emu.beam /\ emu'.carry = emu.carry
      BY <1>1, <2>1 DEF PollFacts
    <2>4. Used' = Used
      BY <1>1, <1>2, <2>1 DEF Used
    <2>5. CyclesAgree'
      BY <1>1, <2>2, <2>3, <2>4, SameCycles DEF FInv, Accounted
    <2> QED
      BY <2>1, <2>2, <2>3, <2>5
  <1>10. DoneInTime'
    BY DEF DoneInTime
  <1> QED
    BY <1>4, <1>5, <1>6, <1>7, <1>8, <1>9, <1>10

LEMMA LeaveKeeps ==
  ASSUME FInv, Working, NEW p, PollFacts(p), Poll(p), Leave(p)
  PROVE  FInv'
  <1>1. Quiet(p) /\ pc' = "after" /\ left' = left /\ acts' = acts /\ acts' \in acts..MaxActs
    BY Constants DEF Leave, FInv, Types
  <1>2. /\ Types' /\ Steps' /\ Counts' /\ Reloads' /\ NoFrameLost' /\ DoneInTime'
        /\ Undisturbed' => CyclesAgree'
    BY <1>1, QuietKeeps DEF FInv, Types
  <1>3. LeavesInTime'
    <2>1. p.rt.reload => stats'.reloads # 0
      BY <1>1 DEF Quiet, PollFacts, FInv, Types
    <2>2. p.rt.reload \/ closed' \/ shown >= FrameBudget
      BY Constants DEF Leave, Stops, IsOpen, FInv, Types
    <2>3. shown' = shown /\ shown \in 0..FrameBudget
      BY <1>1 DEF Quiet, FInv, Types
    <2>4. stats'.reloads = p.reloads
      BY <1>1 DEF Quiet, FInv, Types
    <2>5. shown >= FrameBudget => shown' = FrameBudget
      BY <2>3, Constants
    <2> QED
      BY <2>1, <2>2, <2>5 DEF LeavesInTime
  <1>4. OneChunk'
    BY <1>1 DEF OneChunk
  <1> QED
    BY <1>2, <1>3, <1>4 DEF FInv, Accounted

LEMMA SleepKeeps ==
  ASSUME FInv, Working, pc # "after", NEW p, PollFacts(p), Poll(p), Sleep(p)
  PROVE  FInv'
  <1>1. /\ Quiet(p) /\ pc' = pc /\ left' = left /\ acts' = acts /\ acts' \in acts..MaxActs
        /\ pc' \in {"outer", "inner"} /\ session' = session
    BY Constants DEF Sleep, FInv, Types, Working, Poll
  <1>2. /\ Types' /\ Steps' /\ Counts' /\ Reloads' /\ NoFrameLost' /\ DoneInTime'
        /\ Undisturbed' => Undisturbed /\ CyclesAgree' /\ emu'.ready = emu.ready
    BY <1>1, QuietKeeps DEF FInv, Types
  <1>3. LeavesInTime'
    BY <1>1 DEF LeavesInTime
  <1>4. Undisturbed' => OneChunk'
    BY <1>1, <1>2 DEF OneChunk, FInv, Accounted
  <1> QED
    BY <1>2, <1>3, <1>4 DEF FInv, Accounted

LEMMA AbortKeeps ==
  ASSUME FInv, Working, NEW p, PollFacts(p), Poll(p), Abort(p)
  PROVE  FInv'
  <1>1. Quiet(p) /\ pc' = "failed" /\ left' = left /\ acts' \in acts..MaxActs
    BY Constants DEF Abort, FInv, Types
  <1>2. /\ Types' /\ Steps' /\ Counts' /\ Reloads' /\ NoFrameLost'
    BY <1>1, QuietKeeps DEF FInv, Types
  <1>3. ~Undisturbed'
    BY <1>1 DEF Undisturbed
  <1> QED
    BY <1>2, <1>3 DEF FInv, Accounted

LEMMA ProceedsKeeps ==
  ASSUME FInv, Working, NEW p, PollFacts(p), Poll(p), Proceeds(p), Quiet(p),
         pc' = "inner", left' = session.step, acts' = acts
  PROVE  FInv'
  <1>1. left' \in 0..session.step /\ acts' \in acts..MaxActs /\ session' = session
    BY Constants, SessionFacts DEF FInv, Types, Poll
  <1>2. /\ Types' /\ Steps' /\ Counts' /\ Reloads' /\ NoFrameLost' /\ DoneInTime'
        /\ Undisturbed' => CyclesAgree'
    BY <1>1, QuietKeeps DEF FInv, Types
  <1>3. LeavesInTime'
    BY DEF LeavesInTime
  <1>4. OneChunk'
    BY <1>1 DEF OneChunk, Proceeds, Quiet
  <1> QED
    BY <1>2, <1>3, <1>4 DEF FInv, Accounted

LEMMA PresentKeeps ==
  ASSUME FInv, pc \in {"outer", "inner"}, stats.frames < limit,
         NEW p, PollFacts(p), Poll(p), Present(p)
  PROVE  FInv'
  <1>1. /\ session' = session /\ os' = NotTaken /\ forgotten' = p.forgotten /\ held' = held /\ limit' = limit
        /\ presented' = presented /\ budget' = budget /\ closed' = (closed \/ Quits)
        /\ pc' = pc /\ left' = left /\ acts' = acts /\ shown' = shown + 1 /\ pulses' = 0
        /\ disturbed' = p.disturbed /\ emu' = [p.emu EXCEPT !.ready = FALSE]
    BY DEF Poll, Present, counts
  <1>2. /\ stats' \in [frames : Nat, iterations : Nat, reloads : Nat]
        /\ stats'.frames = stats.frames + 1 /\ stats'.iterations = stats.iterations /\ stats'.reloads = p.reloads
    <2>1. stats' = [stats EXCEPT !.frames = @ + 1, !.reloads = p.reloads]
      BY DEF Present
    <2> DEFINE y == stats
               n == y.frames + 1
               m == p.reloads
    <2>2. y \in [frames : Nat, iterations : Nat, reloads : Nat] /\ n \in Nat /\ m \in Nat
      BY DEF FInv, Types, PollFacts
    <2>3. stats' = [y EXCEPT !.frames = n, !.reloads = m] /\ n = stats.frames + 1 /\ y = stats /\ m = p.reloads
      BY <2>1
    <2> HIDE DEF y, n, m
    <2>4. stats' \in [frames : Nat, iterations : Nat, reloads : Nat]
      BY <2>2, <2>3
    <2>5. stats'.frames = n /\ stats'.iterations = y.iterations /\ stats'.reloads = m
      BY <2>2, <2>3
    <2> QED
      BY <2>3, <2>4, <2>5
  <1>3. Emus' = Emus /\ Rts' = Rts /\ acts \in Nat /\ MaxActs \in Nat /\ Working /\ Working'
    BY <1>1, Constants DEF Emus, Rts, FInv, Types, Working
  <1>4. /\ emu' \in Emus /\ ~emu'.ready /\ emu'.beam = p.emu.beam /\ emu'.carry = p.emu.carry
    BY <1>1 DEF PollFacts, Emus
  <1>5. ~p.rt.reload /\ shown < FrameBudget /\ p.emu.ready /\ p.pulses = 1
    BY Constants DEF Present, Stops, IsOpen, FInv, Types, PollFacts
  <1>6. rt' \in Rts /\ rt'.steps <= p.rt.steps /\ rt'.steps \in Nat /\ ~rt'.reload
    <2>1. CASE p.rt.paused
      <3> DEFINE q == p.rt
                 Z == Seq(Emus)
      <3>1. rt' = [q EXCEPT !.steps = @ - 1]
        BY <2>1 DEF Present
      <3>2. q \in Rts /\ q.steps \in Nat /\ q.steps # 0 /\ ~q.reload
        BY <1>5, <2>1 DEF PollFacts, Present, Waits
      <3> HIDE DEF q, Z
      <3>3. Rts = [paused : BOOLEAN, steps : Nat, pressed : BOOLEAN, reload : BOOLEAN, slot : Z]
        BY DEF Rts, Z
      <3>4. rt' \in Rts /\ rt'.steps = q.steps - 1 /\ rt'.reload = q.reload
        BY <3>1, <3>2, <3>3
      <3>5. q.steps - 1 \in Nat /\ q.steps - 1 <= q.steps
        BY <3>2
      <3> QED
        BY <3>2, <3>4, <3>5 DEF q
    <2>2. CASE ~p.rt.paused
      <3>1. rt' = p.rt
        BY <2>2 DEF Present
      <3> QED
        BY <1>5, <3>1 DEF PollFacts
    <2> QED
      BY <2>1, <2>2
  <1>7. Types'
    <2>1. shown \in 0..FrameBudget /\ acts \in 0..MaxActs /\ closed \in BOOLEAN
      BY DEF FInv, Types
    <2>2. shown + 1 \in 0..FrameBudget
      BY <1>5, <2>1, Constants
    <2>3. shown' \in 0..FrameBudget /\ acts' \in 0..MaxActs /\ closed' \in BOOLEAN
      BY <1>1, <2>1, <2>2
    <2> QED
      BY <1>1, <1>2, <1>3, <1>4, <1>6, <2>3 DEF FInv, Types, PollFacts
  <1>8. Steps'
    BY <1>1, <1>3, <1>6 DEF Steps, PollFacts
  <1>9. Counts'
    <2>1. stats.frames + 1 <= limit /\ stats.frames \in Nat /\ presented \in Nat /\ shown \in Nat
      BY Constants DEF FInv, Types
    <2> QED
      BY <1>1, <1>2, <1>3, <2>1 DEF FInv, Counts, FramesAgree, Working
  <1>10. Reloads' /\ NoFrameLost'
    BY <1>1, <1>4, <1>6 DEF Reloads, NoFrameLost
  <1>11. Accounted'
    <2> SUFFICES ASSUME Undisturbed'
                 PROVE  CyclesAgree' /\ OneChunk' /\ LeavesInTime' /\ DoneInTime'
      BY DEF Accounted
    <2>1. ~p.disturbed /\ Undisturbed
      BY <1>1 DEF Undisturbed, PollFacts
    <2>2. emu'.beam = emu.beam /\ emu'.carry = emu.carry /\ pulses = 1 /\ emu.ready
      BY <1>4, <1>5, <2>1 DEF PollFacts
    <2>3. Used' = Used
      BY <1>1, <1>2 DEF Used, Working
    <2>4. shown' + pulses' = shown + pulses
      BY <1>1, <2>2, Constants DEF FInv, Types
    <2>5. CyclesAgree'
      BY <1>1, <2>1, <2>2, <2>3, <2>4, SameCycles DEF FInv, Accounted
    <2>6. OneChunk'
      BY <1>1, <2>1, <2>2 DEF FInv, Accounted, OneChunk
    <2> QED
      BY <1>1, <2>5, <2>6 DEF LeavesInTime, DoneInTime
  <1> QED
    BY <1>7, <1>8, <1>9, <1>10, <1>11 DEF FInv

\* The beam passes the end of a frame at most once in a chunk.
LEMMA OnceAround ==
  ASSUME NEW L \in Nat \ {0}, NEW b \in Nat, b < 2 * L
  PROVE  /\ b \div L \in {0, 1} /\ b % L \in 0..(L - 1)
         /\ b = (b \div L) * L + (b % L)
  <1>1. b % L \in 0..(L - 1) /\ b \div L \in Int /\ b = L * (b \div L) + (b % L)
    OBVIOUS
  <1> DEFINE q == b \div L
             r == b % L
  <1> HIDE DEF q, r
  <1>2. r \in 0..(L - 1) /\ q \in Int /\ b = L * q + r
    BY <1>1 DEF q, r
  <1>3. q >= 0
    <2>1. CASE q <= -1
      <3>1. L * q <= L * (-1)
        BY <1>2, <2>1
      <3> QED
        BY <1>2, <3>1
    <2> QED
      BY <1>2, <2>1
  <1>4. q <= 1
    <2>1. CASE q >= 2
      <3>1. L * q >= L * 2
        BY <1>2, <2>1
      <3> QED
        BY <1>2, <3>1
    <2> QED
      BY <1>2, <2>1
  <1>5. q \in {0, 1} /\ r \in 0..(L - 1) /\ b = q * L + r
    BY <1>2, <1>3, <1>4
  <1> QED
    BY <1>5 DEF q, r

\* What a chunk runs and what it leaves for the next add up.
LEMMA ChunkFacts ==
  ASSUME FInv, left # 0, NEW e \in Emus, NEW over \in 0..(MaxInstr - 1)
  PROVE  /\ Chunk \in 1..left /\ left - Chunk \in 0..session.step
         /\ left <= MaxChunk => Chunk = left
         /\ Executed(e, over) \in 0..(FrameCycles - 1)
         /\ NewCarry(e, over) \in 0..(MaxInstr - 1)
         /\ Executed(e, over) + e.carry = Chunk + NewCarry(e, over)
  <1>1. left \in 0..session.step /\ session.step \in Nat /\ left \in Nat \ {0}
    BY SessionFacts DEF FInv, Types
  <1>2. Chunk \in 1..left /\ Chunk <= MaxChunk /\ (left <= MaxChunk => Chunk = left)
    BY <1>1, Constants DEF Chunk, Less
  <1>3. e.carry \in 0..(MaxInstr - 1)
    BY DEF Emus
  <1> DEFINE c == Chunk
             k == e.carry
  <1>4. /\ Executed(e, over) = IF k >= c THEN 0 ELSE c + over - k
        /\ NewCarry(e, over) = IF k >= c THEN k - c ELSE over
    BY DEF Executed, NewCarry
  <1> HIDE DEF c, k
  <1>5. c \in 1..left /\ c <= FrameCycles - MaxInstr /\ k \in 0..(MaxInstr - 1)
    BY <1>2, <1>3, Constants DEF c, k
  <1>6. /\ Executed(e, over) \in 0..(FrameCycles - 1)
        /\ NewCarry(e, over) \in 0..(MaxInstr - 1)
        /\ Executed(e, over) + k = c + NewCarry(e, over)
    <2>1. CASE k >= c
      BY <1>1, <1>4, <1>5, <2>1, Constants
    <2>2. CASE k < c
      BY <1>1, <1>4, <1>5, <2>2, Constants
    <2> QED
      BY <1>1, <1>5, <2>1, <2>2
  <1> QED
    BY <1>1, <1>2, <1>6 DEF c, k

LEMMA StepKeeps ==
  ASSUME FInv, pc = "inner", left # 0, stats.iterations < budget,
         NEW p, PollFacts(p), Poll(p), Proceeds(p),
         NEW over \in 0..(MaxInstr - 1), NEW off \in BOOLEAN, Step(p, over, off)
  PROVE  FInv'
  <1> DEFINE L == FrameCycles * session.speed
             x == Executed(p.emu, over)
             k == NewCarry(p.emu, over)
  <1>20. PICK b \in Beams(p.emu, over, off) :
          /\ emu' = [beam |-> b % L, ready |-> (b \div L) > 0, carry |-> k,
                     queued |-> (p.emu.queued + x) - Pulled(p.emu.queued + x), button |-> p.emu.button]
          /\ pulses' = (IF off THEN b \div L ELSE p.pulses + (b \div L))
    BY Zenon DEF Step
  <1> DEFINE ends == b \div L
  <1>1. /\ session' = session /\ os' = NotTaken /\ forgotten' = p.forgotten /\ held' = held /\ limit' = limit
        /\ presented' = presented /\ budget' = budget /\ closed' = (closed \/ Quits)
        /\ pc' = pc /\ shown' = shown /\ rt' = p.rt /\ disturbed' = (p.disturbed \/ off)
        /\ left' = left - Chunk /\ acts' = (IF off THEN acts + 1 ELSE acts)
        /\ off => acts < MaxActs
    BY DEF Poll, Step, counts
  <1>2. emu' = [beam |-> b % L, ready |-> ends > 0, carry |-> k,
                queued |-> (p.emu.queued + x) - Pulled(p.emu.queued + x), button |-> p.emu.button]
    BY <1>20
  <1>3. /\ p.emu \in Emus /\ p.emu.beam \in 0..(L - 1) /\ p.emu.queued = 0 /\ p.emu.button \in BOOLEAN
        /\ p.emu.carry \in 0..(MaxInstr - 1)
        /\ ~p.emu.ready /\ p.pulses = 0 /\ ~p.rt.reload
    BY DEF PollFacts, Emus, Proceeds, Stops
  <1>4. /\ Chunk \in 1..left /\ left' \in 0..session.step
        /\ left <= MaxChunk => Chunk = left
        /\ x \in 0..(FrameCycles - 1) /\ k \in 0..(MaxInstr - 1)
        /\ x + p.emu.carry = Chunk + k
    BY <1>1, <1>3, ChunkFacts
  <1>5. /\ L \in Nat \ {0} /\ FrameCycles <= L
        /\ session.step \in Nat \ {0} /\ StartBeam * session.speed \in 0..(L - 1)
    BY SessionFacts, Constants, SMTT(30) DEF FInv, Types
  <1>6. (p.emu.queued + x) - Pulled(p.emu.queued + x) = 0
    BY <1>3, <1>4, Constants DEF Pulled, Less
  <1>21. ~off => b = p.emu.beam + x
    BY <1>20 DEF Beams
  <1>22. off => \E since \in 0..x : b = StartBeam * session.speed + since
    BY <1>20 DEF Beams
  <1> HIDE DEF L, x, k
  <1>7. b \in Nat /\ b < 2 * L
    BY <1>3, <1>4, <1>5, <1>21, <1>22, Constants
  <1>8. ends \in {0, 1} /\ b % L \in 0..(L - 1) /\ b = ends * L + (b % L)
    BY <1>5, <1>7, OnceAround
  <1>23. pulses' = ends
    BY <1>20, <1>3, <1>8
  <1> HIDE DEF ends
  <1>9. Emus' = Emus /\ Rts' = Rts /\ acts \in 0..MaxActs /\ MaxActs \in Nat /\ Working /\ Working'
    BY <1>1, Constants DEF Emus, Rts, FInv, Types, Working
  <1>10. /\ emu' \in Emus /\ emu'.carry = k
         /\ emu'.beam = b % L
         /\ ends = 1 => emu'.ready = TRUE
         /\ ends = 0 => emu'.ready = FALSE
    <2> DEFINE z == b % L
               r == ends > 0
    <2>1. z \in 0..(L - 1) /\ r \in BOOLEAN
      BY <1>5, <1>8
    <2>2. emu' = [beam |-> z, ready |-> r, carry |-> k, queued |-> 0, button |-> p.emu.button]
      BY <1>2, <1>6 DEF ends
    <2>3. Emus = [beam : 0..(L - 1), ready : BOOLEAN, carry : 0..(MaxInstr - 1), queued : {0}, button : BOOLEAN]
      BY DEF Emus, L
    <2>4. z = b % L
      OBVIOUS
    <2>5. (ends = 1 => r = TRUE) /\ (ends = 0 => r = FALSE)
      OBVIOUS
    <2> HIDE DEF z, r
    <2>6. emu' \in Emus /\ emu'.carry = k /\ emu'.ready = r /\ emu'.beam = z
      BY <1>3, <1>4, <2>1, <2>2, <2>3
    <2> QED
      BY <2>4, <2>5, <2>6
  <1>11. /\ stats' \in [frames : Nat, iterations : Nat, reloads : Nat]
         /\ stats'.frames = stats.frames /\ stats'.iterations = stats.iterations + 1
    <2> DEFINE y == stats
               n == y.iterations + 1
               m == p.reloads
    <2>1. y \in [frames : Nat, iterations : Nat, reloads : Nat] /\ n \in Nat /\ m \in Nat
      BY DEF FInv, Types, PollFacts
    <2>2. stats' = [y EXCEPT !.iterations = n, !.reloads = m]
      BY DEF Step
    <2>3. n = stats.iterations + 1 /\ y = stats
      OBVIOUS
    <2> HIDE DEF y, n, m
    <2>4. stats' \in [frames : Nat, iterations : Nat, reloads : Nat]
      BY <2>1, <2>2
    <2>5. stats'.frames = y.frames /\ stats'.iterations = n
      BY <2>1, <2>2
    <2> QED
      BY <2>3, <2>4, <2>5
  <1>12. acts' \in 0..MaxActs /\ acts <= acts' /\ acts' \in Nat /\ pulses' \in Nat
    BY <1>1, <1>8, <1>9, <1>23
  <1>13. Types'
    <2>1. closed' \in BOOLEAN
      BY <1>1 DEF FInv, Types
    <2> QED
      BY <1>1, <1>4, <1>9, <1>10, <1>11, <1>12, <2>1 DEF FInv, Types, PollFacts
  <1>14. Steps'
    BY <1>1, <1>9, <1>12 DEF Steps, PollFacts
  <1>15. Counts'
    <2>1. stats.iterations + 1 <= budget
      BY DEF FInv, Types
    <2> QED
      BY <1>1, <1>9, <1>11, <2>1 DEF FInv, Counts, FramesAgree, Working
  <1>16. Reloads'
    BY <1>1, <1>3 DEF Reloads
  <1>17. NoFrameLost'
    <2>1. CASE ends = 0
      BY <1>10, <1>23, <2>1 DEF NoFrameLost
    <2>2. CASE ends = 1
      BY <1>10, <1>23, <2>2 DEF NoFrameLost
    <2> QED
      BY <1>8, <2>1, <2>2
  <1>18. Accounted'
    <2> SUFFICES ASSUME Undisturbed'
                 PROVE  CyclesAgree' /\ OneChunk' /\ LeavesInTime' /\ DoneInTime'
      BY DEF Accounted
    <2>1. /\ ~off /\ ~p.disturbed /\ Undisturbed /\ pulses = 0 /\ pulses' = ends
          /\ emu'.beam = b % L /\ emu.beam = p.emu.beam /\ emu.carry = p.emu.carry
      <3>1. ~off /\ ~p.disturbed /\ pc # "failed" /\ session.step <= MaxChunk
        BY <1>1 DEF Undisturbed
      <3> QED
        BY <1>1, <1>3, <1>8, <1>10, <1>23, <3>1 DEF Undisturbed, PollFacts
    <2>2. CyclesAgree /\ left = session.step /\ session.step <= MaxChunk
      BY <2>1 DEF FInv, Accounted, OneChunk, Undisturbed
    <2>3. Chunk = session.step /\ left' = 0
      BY <1>1, <1>4, <1>5, <2>2
    <2>4. Used \in Int /\ Used' = Used + 1
      <3>1. IterationBudget(session.step) \in Nat /\ budget \in Nat /\ stats.iterations \in Nat
        BY BudgetIsNat DEF FInv, Types
      <3> QED
        BY <1>1, <1>9, <1>11, <3>1 DEF Used
    <2>5. session.step * (Used + 1) = session.step * Used + session.step /\ session.step * Used \in Int
      BY <1>5, <2>4
    <2>6. shown \in Nat /\ (shown + 0) * L = shown * L /\ shown * L \in Nat /\ ends * L \in Nat
      <3>1. shown \in Nat
        BY Constants DEF FInv, Types
      <3> QED
        BY <1>5, <1>8, <3>1
    <2>7. (shown + ends) * L = shown * L + ends * L
      BY <1>5, <1>8, <2>6
    <2>8. shown * L + p.emu.beam = StartBeam * session.speed + session.step * Used + p.emu.carry
      BY <2>1, <2>2, <2>6 DEF CyclesAgree, L
    <2>9. (shown + ends) * L + (b % L) =
            StartBeam * session.speed + session.step * (Used + 1) + k
      <3> DEFINE A == shown * L
                 E == ends * L
                 U == session.step * Used
                 B == StartBeam * session.speed
                 r == b % L
                 m == p.emu.beam
                 c == p.emu.carry
                 s == session.step
      <3>1. /\ A \in Nat /\ E \in Nat /\ U \in Int /\ B \in Nat
            /\ r \in Nat /\ m \in Nat /\ c \in Nat /\ s \in Nat /\ x \in Nat /\ k \in Nat
        BY <1>3, <1>4, <1>5, <1>8, <2>5, <2>6
      <3>2. A + m = B + U + c
        BY <2>8
      <3>3. m + x = E + r /\ x + c = s + k
        BY <1>4, <1>8, <1>21, <2>1, <2>3
      <3>4. (shown + ends) * L = A + E /\ session.step * (Used + 1) = U + s
        BY <2>5, <2>7
      <3> HIDE DEF A, E, U, B, r, m, c, s
      <3>5. A + E + r = B + (U + s) + k
        BY <3>1, <3>2, <3>3
      <3> QED
        BY <3>4, <3>5 DEF B, r
    <2>10. CyclesAgree'
      BY <1>1, <1>10, <2>1, <2>4, <2>9 DEF CyclesAgree, L
    <2>11. OneChunk' /\ LeavesInTime' /\ DoneInTime'
      BY <1>1, <2>3 DEF OneChunk, LeavesInTime, DoneInTime
    <2> QED
      BY <2>10, <2>11
  <1> QED
    BY <1>13, <1>14, <1>15, <1>16, <1>17, <1>18 DEF FInv

-----------------------------------------------------------------------------
(* The budget of iterations *)

LEMMA BudgetIsEnough ==
  ASSUME session \in Sessions
  PROVE  session.step * IterationBudget(session.step) >= FrameBudget * (FrameCycles * session.speed)
  <1> DEFINE s == session.step
             F == FrameCycles
             B == FrameBudget
             a == F + s - 1
             c == a \div s
             r == a % s
             L == FrameCycles * session.speed
  <1>1. /\ s \in Nat \ {0} /\ F \in Nat \ {0} /\ B \in Nat \ {0} /\ a \in Nat
        /\ L \in Nat /\ L <= 2 * F /\ a = F + s - 1
    BY SessionFacts, Constants
  <1>2. IterationBudget(session.step) = B * (2 * c)
    BY DEF IterationBudget, CeilDiv
  <1> HIDE DEF a
  <1>3. c \in Int /\ r \in 0..(s - 1) /\ a = s * c + r
    <2> HIDE DEF s
    <2> QED
      BY <1>1
  <1> HIDE DEF c, r, F, B, s, L
  <1> DEFINE m == s * c
  <1>4. m \in Int /\ m >= F
    BY <1>1, <1>3
  <1>5. s * (B * (2 * c)) = B * (2 * m)
    BY <1>1, <1>3
  <1> HIDE DEF m
  <1>6. B * (2 * m) >= B * L
    <2>1. 2 * m \in Int /\ 2 * m >= L
      BY <1>1, <1>4
    <2> DEFINE w == 2 * m
    <2> HIDE DEF w
    <2>2. B * w >= B * L
      BY <1>1, <2>1 DEF w
    <2> QED
      BY <2>2 DEF w
  <1>7. s * IterationBudget(session.step) >= B * L
    BY <1>2, <1>5, <1>6
  <1> QED
    BY <1>7 DEF s, B, L

LEMMA BudgetSpent ==
  ASSUME FInv, Undisturbed, pc = "inner", left # 0, stats.iterations >= budget
  PROVE  shown = FrameBudget
  <1> DEFINE L == FrameCycles * session.speed
             P == session.step * IterationBudget(session.step)
             S == StartBeam * session.speed
  <1>1. /\ CyclesAgree /\ ~emu.ready /\ pulses = 0 /\ Working
        /\ emu.beam \in 0..(L - 1) /\ emu.carry \in Nat /\ shown \in 0..FrameBudget
        /\ S \in Nat /\ L \in Nat
    BY SessionFacts, Constants DEF FInv, Types, Accounted, OneChunk, NoFrameLost, Emus, Working
  <1>2. Used = IterationBudget(session.step)
    <2>1. stats.iterations = budget /\ budget \in Nat
      BY <1>1 DEF FInv, Types, Counts
    <2>2. IterationBudget(session.step) \in Nat
      BY BudgetIsNat DEF FInv, Types
    <2> QED
      BY <1>1, <2>1, <2>2 DEF Used
  <1>3. P >= FrameBudget * L /\ P \in Nat
    <2>1. session \in Sessions
      BY DEF FInv, Types
    <2>2. IterationBudget(session.step) \in Nat /\ session.step \in Nat
      BY <2>1, BudgetIsNat, SessionFacts
    <2> QED
      BY <2>1, <2>2, BudgetIsEnough
  <1>4. (shown + 0) * L + emu.beam = S + P + emu.carry
    BY <1>1, <1>2 DEF CyclesAgree
  <1> HIDE DEF L, P, S
  <1>5. ASSUME shown # FrameBudget
        PROVE  FALSE
    <2>1. shown + 1 <= FrameBudget /\ shown \in Nat /\ FrameBudget \in Nat
      BY <1>1, <1>5, Constants
    <2>2. (shown + 1) * L <= FrameBudget * L
      BY <1>1, <2>1
    <2>3. (shown + 1) * L = shown * L + L /\ shown * L \in Nat /\ (shown + 0) * L = shown * L
      BY <1>1, <2>1
    <2> DEFINE x == shown * L
               y == FrameBudget * L
    <2>4. x \in Nat /\ y \in Nat /\ x + L <= y /\ P >= y /\ x + emu.beam = S + P + emu.carry
      <3>1. y \in Nat
        BY <1>1, <2>1
      <3> QED
        BY <1>3, <1>4, <2>2, <2>3, <3>1
    <2> HIDE DEF x, y
    <2> QED
      BY <1>1, <1>3, <2>4
  <1> QED
    BY <1>5

-----------------------------------------------------------------------------
(* Steps of the loop *)

LEMMA OuterKeeps ==
  ASSUME FInv, Outer
  PROVE  FInv'
  <1>0. pc = "outer" /\ Working
    BY DEF Outer, Working
  <1>1. CASE ~IsOpen(closed, shown) \/ stats.frames >= limit
    <2>1. pc' = "after" /\ UNCHANGED rest /\ Working'
      BY <1>1 DEF Outer, Working
    <2>2. Emus' = Emus /\ Rts' = Rts
      BY <2>1 DEF Emus, Rts, rest
    <2>3. Types' /\ Steps' /\ NoFrameLost'
      BY <2>1, <2>2 DEF FInv, Types, Steps, NoFrameLost, rest, counts
    <2>4. Counts' /\ Reloads'
      BY <1>0, <2>1 DEF FInv, Counts, FramesAgree, Reloads, Working, rest, counts
    <2>5. Undisturbed' => CyclesAgree' /\ OneChunk' /\ DoneInTime'
      <3>1. Used' = Used
        BY <1>0, <2>1 DEF Used, rest, counts
      <3>2. Undisturbed' => Undisturbed
        BY <1>0, <2>1 DEF Undisturbed, rest
      <3>3. Undisturbed' => CyclesAgree'
        BY <2>1, <3>1, <3>2, SameCycles DEF FInv, Accounted, rest
      <3> QED
        BY <2>1, <3>3 DEF OneChunk, DoneInTime
    <2>6. LeavesInTime'
      <3>1. shown \in 0..FrameBudget /\ limit # 0 /\ limit \in Nat /\ stats.frames \in Nat
        BY <1>0 DEF FInv, Types, Counts
      <3>2. closed' = closed /\ shown' = shown /\ stats' = stats
        BY <2>1 DEF rest
      <3>3. closed \/ shown = FrameBudget \/ stats.frames # 0
        BY <1>1, <3>1, Constants DEF IsOpen
      <3> QED
        BY <3>2, <3>3 DEF LeavesInTime
    <2> QED
      BY <2>3, <2>4, <2>5, <2>6 DEF FInv, Accounted
  <1>2. CASE ~(~IsOpen(closed, shown) \/ stats.frames >= limit)
    <2> DEFINE p == Polled
    <2>1. PollFacts(p)
      BY <1>0, PolledFacts
    <2>2. /\ Poll(p)
          /\ \/ Leave(p) \/ Sleep(p) \/ Present(p) \/ Abort(p)
             \/ /\ Proceeds(p) /\ Quiet(p)
                /\ pc' = "inner" /\ left' = session.step /\ UNCHANGED acts
      BY <1>2 DEF Outer
    <2> HIDE DEF p
    <2>3. stats.frames < limit
      BY <1>2 DEF FInv, Types
    <2>4. CASE Leave(p)
      BY <1>0, <2>1, <2>2, <2>4, LeaveKeeps
    <2>5. CASE Sleep(p)
      BY <1>0, <2>1, <2>2, <2>5, SleepKeeps
    <2>6. CASE Present(p)
      BY <1>0, <2>1, <2>2, <2>3, <2>6, PresentKeeps
    <2>7. CASE Abort(p)
      BY <1>0, <2>1, <2>2, <2>7, AbortKeeps
    <2>8. CASE /\ Proceeds(p) /\ Quiet(p)
               /\ pc' = "inner" /\ left' = session.step /\ UNCHANGED acts
      BY <1>0, <2>1, <2>2, <2>8, ProceedsKeeps
    <2> QED
      BY <2>2, <2>4, <2>5, <2>6, <2>7, <2>8
  <1> QED
    BY <1>1, <1>2

LEMMA InnerKeeps ==
  ASSUME FInv, Inner
  PROVE  FInv'
  <1>0. pc = "inner" /\ Working
    BY DEF Inner, Working
  <1> DEFINE Spent == left = 0 \/ ~IsOpen(closed, shown)
             Ended == stats.iterations >= budget \/ stats.frames >= limit
  <1>a. ASSUME UNCHANGED rest, pc' \in {"outer", "after"}
        PROVE  /\ Types' /\ Steps' /\ NoFrameLost' /\ Counts' /\ Reloads'
               /\ Undisturbed' => Undisturbed /\ CyclesAgree' /\ OneChunk' /\ DoneInTime'
    <2>1. Working'
      BY <1>a DEF Working
    <2>2. Emus' = Emus /\ Rts' = Rts
      BY <1>a DEF Emus, Rts, rest
    <2>3. Types' /\ Steps' /\ NoFrameLost'
      BY <1>a, <2>2 DEF FInv, Types, Steps, NoFrameLost, rest, counts
    <2>4. Counts' /\ Reloads'
      BY <1>0, <1>a, <2>1 DEF FInv, Counts, FramesAgree, Reloads, Working, rest, counts
    <2>5. Used' = Used
      BY <1>0, <1>a, <2>1 DEF Used, rest, counts
    <2>6. Undisturbed' => Undisturbed
      BY <1>0, <1>a DEF Undisturbed, rest
    <2>7. Undisturbed' => CyclesAgree'
      BY <1>a, <2>5, <2>6, SameCycles DEF FInv, Accounted, rest
    <2> QED
      BY <1>a, <2>3, <2>4, <2>6, <2>7 DEF OneChunk, DoneInTime
  <1>1. CASE Spent
    <2>1. pc' = "outer" /\ UNCHANGED rest
      BY <1>1 DEF Inner
    <2>2. LeavesInTime'
      BY <2>1 DEF LeavesInTime
    <2> QED
      BY <1>a, <2>1, <2>2 DEF FInv, Accounted
  <1>2. CASE ~Spent /\ Ended
    <2>1. pc' = "after" /\ UNCHANGED rest
      BY <1>2 DEF Inner
    <2>2. Undisturbed' => LeavesInTime'
      <3>1. Undisturbed' => Undisturbed
        BY <1>a, <2>1
      <3>2. stats.iterations >= budget /\ Undisturbed => shown = FrameBudget
        BY <1>0, <1>2, BudgetSpent
      <3>3. stats.frames >= limit => stats.frames # 0
        BY <1>0 DEF FInv, Types, Counts
      <3>4. shown' = shown /\ stats' = stats
        BY <2>1 DEF rest
      <3> QED
        BY <1>2, <3>1, <3>2, <3>3, <3>4 DEF LeavesInTime
    <2> QED
      BY <1>a, <2>1, <2>2 DEF FInv, Accounted
  <1>3. CASE ~Spent /\ ~Ended
    <2> DEFINE p == Polled
    <2>1. PollFacts(p)
      BY <1>0, PolledFacts
    <2>2. /\ Poll(p)
          /\ \/ Leave(p) \/ Sleep(p) \/ Present(p) \/ Abort(p)
             \/ /\ Proceeds(p)
                /\ \E over \in 0..(MaxInstr - 1), off \in BOOLEAN : Step(p, over, off)
      BY <1>3 DEF Inner
    <2> HIDE DEF p
    <2>3. stats.frames < limit /\ stats.iterations < budget /\ left # 0
      BY <1>3 DEF FInv, Types
    <2>4. CASE Leave(p)
      BY <1>0, <2>1, <2>2, <2>4, LeaveKeeps
    <2>5. CASE Sleep(p)
      BY <1>0, <2>1, <2>2, <2>5, SleepKeeps
    <2>6. CASE Present(p)
      BY <1>0, <2>1, <2>2, <2>3, <2>6, PresentKeeps
    <2>7. CASE Abort(p)
      BY <1>0, <2>1, <2>2, <2>7, AbortKeeps
    <2>8. CASE /\ Proceeds(p)
               /\ \E over \in 0..(MaxInstr - 1), off \in BOOLEAN : Step(p, over, off)
      <3>1. PICK over \in 0..(MaxInstr - 1), off \in BOOLEAN : Step(p, over, off)
        BY <2>8
      <3> QED
        BY <1>0, <2>1, <2>2, <2>3, <2>8, <3>1, StepKeeps
    <2> QED
      BY <2>2, <2>4, <2>5, <2>6, <2>7, <2>8
  <1> QED
    BY <1>1, <1>2, <1>3

THEOREM FrontendKeeps == FInv /\ [Next]_frontVars => FInv'
  <1> SUFFICES ASSUME FInv, [Next]_frontVars
               PROVE  FInv'
    OBVIOUS
  <1>1. ASSUME NEW event \in session.events, Player(event)
        PROVE  FInv'
    BY <1>1, PlayerKeeps
  <1>2. CASE Start
    BY <1>2, StartKeeps
  <1>3. CASE Outer
    BY <1>3, OuterKeeps
  <1>4. CASE Inner
    BY <1>4, InnerKeeps
  <1>5. CASE After
    BY <1>5, AfterKeeps
  <1>6. CASE UNCHANGED frontVars
    <2>1. UNCHANGED <<session, emu, rt, os, closed, shown, pc, limit, stats, left, presented, budget,
                      acts, held, forgotten, pulses, disturbed>>
      BY <1>6 DEF frontVars, loop, counts
    <2>2. Emus' = Emus /\ Rts' = Rts
      BY <2>1 DEF Emus, Rts
    <2>3. Types' /\ Steps' /\ NoFrameLost' /\ Counts' /\ Reloads'
      BY <2>1, <2>2 DEF FInv, Types, Steps, NoFrameLost, Counts, FramesAgree, Reloads, Working
    <2>4. Used' = Used
      BY <2>1 DEF Used, Working
    <2>5. Accounted'
      BY <2>1, <2>4 DEF FInv, Accounted, Undisturbed, CyclesAgree, OneChunk, LeavesInTime, DoneInTime
    <2> QED
      BY <2>3, <2>5 DEF FInv
  <1> QED
    BY <1>1, <1>2, <1>3, <1>4, <1>5, <1>6 DEF Next, Loop

LEMMA OutputFollows == FInv => OutputArrives
  <1> SUFFICES ASSUME FInv
               PROVE  OutputArrives
    OBVIOUS
  <1>1. TypeOK
    <2>1. Emus \subseteq Emulators
      <3>1. 0 \in 0..(MaxChunk + MaxInstr)
        BY Constants
      <3> QED
        BY <3>1 DEF Emus, Emulators
    <2>2. rt.slot \in Seq(Emulators)
      <3>1. rt.slot \in Seq(Emus)
        BY DEF FInv, Types, Rts
      <3> QED
        BY <2>1, <3>1
    <2>3. rt.steps \in 0..MaxActs
      <3>1. rt.steps \in Nat /\ Len(os) \in Nat /\ acts \in 0..MaxActs
        BY DEF FInv, Types, Rts
      <3> QED
        BY <3>1, Constants DEF FInv, Steps
    <2>4. rt \in [paused : BOOLEAN, steps : 0..MaxActs, pressed : BOOLEAN, reload : BOOLEAN,
                  slot : Seq(Emulators)]
      <3> DEFINE Z == Seq(Emus)
                 Y == Seq(Emulators)
                 M == 0..MaxActs
      <3>1. rt \in [paused : BOOLEAN, steps : Nat, pressed : BOOLEAN, reload : BOOLEAN, slot : Z]
        BY DEF FInv, Types, Rts
      <3>2. rt.slot \in Y /\ rt.steps \in M
        BY <2>2, <2>3
      <3> HIDE DEF Z, Y, M
      <3>3. rt \in [paused : BOOLEAN, steps : M, pressed : BOOLEAN, reload : BOOLEAN, slot : Y]
        BY <3>1, <3>2
      <3> QED
        BY <3>3 DEF Y, M
    <2>5. emu \in Emulators
      BY <2>1 DEF FInv, Types
    <2>6. stats.frames <= limit /\ (pc \in {"outer", "inner"} => stats.iterations <= budget)
      BY DEF FInv, Counts, Working
    <2> QED
      BY <2>4, <2>5, <2>6 DEF FInv, Types, TypeOK
  <1>2. NoFrameLost /\ FramesAgree
    BY DEF FInv, Counts
  <1>3. SoundHandedOver
    BY DEF FInv, Types, Emus, SoundHandedOver
  <1>4. BudgetSuffices
    BY DEF FInv, Accounted, Undisturbed, DoneInTime, BudgetSuffices
  <1> QED
    BY <1>1, <1>2, <1>3, <1>4 DEF OutputArrives

\* No frame is lost between two polls or counted twice, no sound piles up,
\* and an undisturbed program shows all its frames within its budget of
\* iterations, for any length of a frame, number of frames and settings.
THEOREM OutputAlwaysArrives == Spec => []OutputArrives
  <1>1. Init => FInv
    BY FrontendBegins
  <1>2. FInv /\ [Next]_frontVars => FInv'
    BY FrontendKeeps
  <1>3. FInv => OutputArrives
    BY OutputFollows
  <1> QED
    BY <1>1, <1>2, <1>3, PTL DEF Spec

-----------------------------------------------------------------------------
(* Buttons and steps: what each event does to them *)

\* Event e turned x into y: a pause goes on and only a request adds a step.
PauseGoesOn(x, e, y) ==
  x.rt.paused /\ e # "resume" =>
    y.rt.paused /\ y.rt.steps = x.rt.steps + (IF e = "step" THEN 1 ELSE 0)

LEMMA RuntimeFields ==
  ASSUME session \in Sessions, NEW x \in Polls, NEW e \in RuntimeEvents, NEW y, y = ApplyRuntime(x, e)
  PROVE  /\ y.rt.pressed = x.rt.pressed
         /\ \/ y.emu.button = x.emu.button /\ y.forgotten = x.forgotten
            \/ y.emu.button = x.rt.pressed /\ y.forgotten = x.forgotten
            \/ y.emu.button = FALSE /\ y.forgotten = TRUE
         /\ PauseGoesOn(x, e, y)
  <1> DEFINE q == x.rt
  <1> USE DEF PauseGoesOn
  <1> HIDE DEF q
  <1>1. /\ q \in Rts /\ q.steps \in Nat /\ q = x.rt /\ x.emu \in Emus /\ x.rt.slot \in Seq(Emus)
        /\ x = [x EXCEPT !.rt = q]
    BY DEF Polls, Rts, q
  <1>2. CASE e = "reset"
    <2>1. y = [x EXCEPT !.emu = Fresh, !.pulses = 0, !.forgotten = TRUE, !.disturbed = TRUE]
      BY <1>2 DEF ApplyRuntime
    <2>2. y.rt = q /\ y.emu = Fresh /\ y.forgotten = TRUE
      BY <1>1, <2>1 DEF Polls
    <2>3. y.emu.button = FALSE
      BY <2>2 DEF Fresh
    <2> QED
      BY <1>1, <1>2, <2>2, <2>3
  <1>3. ASSUME NEW r, NEW n, y = [x EXCEPT !.rt = r, !.reloads = n]
        PROVE  y.rt = r /\ y.emu = x.emu /\ y.forgotten = x.forgotten
    BY <1>3 DEF Polls
  <1>4. CASE e = "reload"
    <2> DEFINE r == [q EXCEPT !.reload = TRUE]
               n == x.reloads + 1
    <2>1. y = [x EXCEPT !.rt = r, !.reloads = n]
      BY <1>4 DEF ApplyRuntime, q
    <2>2. r.steps = q.steps /\ r.pressed = q.pressed /\ r.paused = q.paused
      BY <1>1 DEF Rts
    <2> HIDE DEF r, n
    <2>3. y.rt = r /\ y.emu = x.emu /\ y.forgotten = x.forgotten
      BY <1>3, <2>1
    <2> QED
      BY <1>1, <1>4, <2>2, <2>3
  <1>5. ASSUME NEW r, y = [x EXCEPT !.rt = r]
        PROVE  y.rt = r /\ y.emu = x.emu /\ y.forgotten = x.forgotten
    BY <1>5 DEF Polls
  <1>6. CASE e = "save"
    <2> DEFINE r == [q EXCEPT !.slot = <<x.emu>>]
    <2>1. y = [x EXCEPT !.rt = r]
      BY <1>6 DEF ApplyRuntime, q
    <2>2. r.steps = q.steps /\ r.pressed = q.pressed /\ r.paused = q.paused
      BY <1>1 DEF Rts
    <2> HIDE DEF r
    <2>3. y.rt = r /\ y.emu = x.emu /\ y.forgotten = x.forgotten
      BY <1>5, <2>1
    <2> QED
      BY <1>1, <1>6, <2>2, <2>3
  <1>7. CASE e = "load"
    <2>1. y = LoadState(x)
      BY <1>7 DEF ApplyRuntime
    <2>2. CASE x.rt.slot = <<>>
      BY <1>1, <1>7, <2>1, <2>2 DEF LoadState
    <2>3. CASE x.rt.slot # <<>>
      <3> DEFINE h == Head(x.rt.slot)
                 g == [h EXCEPT !.button = x.rt.pressed]
      <3>1. h \in Emus
        BY <1>1, <2>3
      <3>2. g.button = x.rt.pressed
        BY <3>1 DEF Emus
      <3>3. y = [x EXCEPT !.emu = g, !.pulses = IF h.ready THEN 1 ELSE 0, !.disturbed = TRUE]
        BY <2>1, <2>3 DEF LoadState
      <3> HIDE DEF h, g
      <3>4. y.rt = q /\ y.emu = g /\ y.forgotten = x.forgotten
        BY <1>1, <3>3 DEF Polls
      <3> QED
        BY <1>1, <1>7, <3>2, <3>4
    <2> QED
      BY <2>2, <2>3
  <1>8. CASE e = "pause"
    <2> DEFINE r == [q EXCEPT !.paused = TRUE]
    <2>1. y = [x EXCEPT !.rt = r]
      BY <1>8 DEF ApplyRuntime, q
    <2>2. r.steps = q.steps /\ r.pressed = q.pressed /\ r.paused = TRUE
      BY <1>1 DEF Rts
    <2> HIDE DEF r
    <2>3. y.rt = r /\ y.emu = x.emu /\ y.forgotten = x.forgotten
      BY <1>5, <2>1
    <2> QED
      BY <1>1, <1>8, <2>2, <2>3
  <1>9. CASE e = "resume"
    <2> DEFINE r == [q EXCEPT !.paused = FALSE, !.steps = 0]
    <2>1. y = [x EXCEPT !.rt = r]
      <3>1. y = [x EXCEPT !.rt.paused = FALSE, !.rt.steps = 0]
        BY <1>9 DEF ApplyRuntime
      <3> QED
        BY <3>1 DEF Polls, Rts, q
    <2>2. r.pressed = q.pressed
      BY <1>1 DEF Rts
    <2> HIDE DEF r
    <2>3. y.rt = r /\ y.emu = x.emu /\ y.forgotten = x.forgotten
      BY <1>5, <2>1
    <2> QED
      BY <1>1, <1>9, <2>2, <2>3
  <1>10. CASE e = "step"
    <2> DEFINE r == IF q.paused THEN [q EXCEPT !.steps = @ + 1] ELSE q
    <2>1. y = [x EXCEPT !.rt = r]
      <3>1. y = IF x.rt.paused THEN [x EXCEPT !.rt.steps = @ + 1] ELSE x
        BY <1>10 DEF ApplyRuntime
      <3> QED
        BY <1>1, <3>1
    <2>2. r.pressed = q.pressed /\ r.paused = q.paused /\ (q.paused => r.steps = q.steps + 1)
      BY <1>1 DEF Rts
    <2> HIDE DEF r
    <2>3. y.rt = r /\ y.emu = x.emu /\ y.forgotten = x.forgotten
      BY <1>5, <2>1
    <2> QED
      BY <1>1, <1>10, <2>2, <2>3
  <1> QED
    BY <1>2, <1>4, <1>6, <1>7, <1>8, <1>9, <1>10 DEF RuntimeEvents

LEMMA InputFields ==
  ASSUME NEW x \in Polls, NEW e \in InputEvents, NEW y, y = ApplyInput(x, e)
  PROVE  /\ y.rt.pressed = (e = "press") /\ y.emu.button = (e = "press") /\ y.forgotten = FALSE
         /\ y.rt.paused = x.rt.paused /\ y.rt.steps = x.rt.steps
  BY DEF ApplyInput, Polls, Rts, Emus

LEMMA WaysAreThere ==
  ASSUME session \in Sessions, NEW s, NEW x \in Since(s), NEW events \in Seq(PlayerEvents),
         NEW kind \in {RuntimeEvents, InputEvents}
  PROVE  \E f \in [0..Len(events) -> Since(s)] : Way(kind, f, x, events)
  <1> DEFINE S == Since(s)
  <1>1. \A y \in S, e \in PlayerEvents : Apply(kind, y, e) \in S
    BY ApplyKeeps
  <1>2. x \in S
    OBVIOUS
  <1> HIDE DEF S
  <1>3. \E f \in [0..Len(events) -> S] : Way(kind, f, x, events)
    BY <1>1, <1>2, OnTheWay
  <1> QED
    BY <1>3 DEF S

\* What is known of the button of y when x had it.
ButtonFrom(x, y) ==
  /\ y.rt.pressed = x.rt.pressed
  /\ y.emu.button => x.emu.button \/ x.rt.pressed
  /\ ~y.forgotten => ~x.forgotten /\ (x.emu.button = x.rt.pressed => y.emu.button = x.emu.button)

LEMMA ButtonsAreBooleans ==
  ASSUME NEW x \in Polls
  PROVE  /\ x.emu.button \in BOOLEAN /\ x.rt.pressed \in BOOLEAN /\ x.forgotten \in BOOLEAN
         /\ x.rt.paused \in BOOLEAN /\ x.rt.steps \in Nat
  BY DEF Polls, Rts, Emus

LEMMA RuntimeKeepsButton ==
  ASSUME session \in Sessions, NEW s, NEW x \in Since(s), NEW events \in Seq(PlayerEvents)
  PROVE  ButtonFrom(x, Through(RuntimeEvents, x, events))
  <1> DEFINE N == Len(events)
             S == Since(s)
  <1>1. PICK f \in [0..N -> S] : Way(RuntimeEvents, f, x, events)
    BY WaysAreThere
  <1>2. N \in Nat /\ x \in Polls /\ \A n \in 0..N : f[n] \in Polls
    BY DEF Since
  <1> DEFINE T == {n \in 0..N : ButtonFrom(x, f[n])}
  <1>3. 0 \in T
    <2>1. f[0] = x /\ 0 \in 0..N
      BY <1>1, <1>2 DEF Way
    <2> QED
      BY <2>1, <1>2, ButtonsAreBooleans DEF ButtonFrom
  <1>4. ASSUME NEW n \in 1..N, n - 1 \in T
        PROVE  n \in T
    <2>1. n - 1 \in 0..N /\ n \in 0..N /\ n \in 1..Len(events)
      BY <1>2
    <2> DEFINE a == f[n - 1]
               b == f[n]
               e == events[n]
    <2>2. /\ b = Apply(RuntimeEvents, a, e) /\ a \in Polls /\ b \in Polls
          /\ e \in PlayerEvents /\ ButtonFrom(x, a)
      BY <1>1, <1>2, <1>4, <2>1 DEF Way
    <2> HIDE DEF a, b, e
    <2>3. ButtonFrom(x, b)
      <3>1. CASE e \notin RuntimeEvents
        BY <2>2, <3>1 DEF Apply
      <3>2. CASE e \in RuntimeEvents
        <4>1. b = ApplyRuntime(a, e)
          BY <2>2, <3>2 DEF Apply
        <4>2. /\ b.rt.pressed = a.rt.pressed
              /\ \/ b.emu.button = a.emu.button /\ b.forgotten = a.forgotten
                 \/ b.emu.button = a.rt.pressed /\ b.forgotten = a.forgotten
                 \/ b.emu.button = FALSE /\ b.forgotten = TRUE
          BY <2>2, <3>2, <4>1, RuntimeFields
        <4>3. /\ a.emu.button \in BOOLEAN /\ a.rt.pressed \in BOOLEAN /\ a.forgotten \in BOOLEAN
              /\ b.emu.button \in BOOLEAN /\ b.forgotten \in BOOLEAN
              /\ x.emu.button \in BOOLEAN /\ x.rt.pressed \in BOOLEAN
          BY <1>2, <2>2, ButtonsAreBooleans
        <4> QED
          BY <2>2, <4>2, <4>3 DEF ButtonFrom
      <3> QED
        BY <3>1, <3>2
    <2> QED
      BY <2>1, <2>3 DEF b
  <1>5. N \in T
    <2> HIDE DEF T, N
    <2> QED
      BY <1>2, <1>3, <1>4, UpTo
  <1>6. Through(RuntimeEvents, x, events) = f[N]
    BY <1>1 DEF Way
  <1> QED
    BY <1>5, <1>6

\* Events that press or release, and the one that decides.
HasInput(events) == \E i \in 1..Len(events) : events[i] \in InputEvents

Decides(events, e) ==
  \E i \in 1..Len(events) : /\ events[i] = e
                            /\ \A j \in 1..Len(events) : j > i => events[j] \notin InputEvents

ButtonIs(y, e) == y.rt.pressed = (e = "press") /\ y.emu.button = (e = "press") /\ y.forgotten = FALSE

LEMMA LastInputDecides ==
  ASSUME session \in Sessions, NEW s, NEW x \in Since(s), NEW events \in Seq(PlayerEvents),
         NEW e \in InputEvents, Decides(events, e)
  PROVE  ButtonIs(Through(InputEvents, x, events), e)
  <1> DEFINE N == Len(events)
             S == Since(s)
  <1>1. PICK f \in [0..N -> S] : Way(InputEvents, f, x, events)
    BY WaysAreThere
  <1>2. N \in Nat /\ \A n \in 0..N : f[n] \in Polls
    BY DEF Since
  <1>3. PICK i \in 1..N : events[i] = e /\ \A j \in 1..N : j > i => events[j] \notin InputEvents
    BY DEF Decides
  <1> DEFINE T == {n \in 0..N : n >= i => ButtonIs(f[n], e)}
  <1>4. 0 \in T
    BY <1>2
  <1>5. ASSUME NEW n \in 1..N, n - 1 \in T
        PROVE  n \in T
    <2>1. n - 1 \in 0..N /\ n \in 0..N /\ n \in 1..Len(events)
      BY <1>2
    <2>2. f[n] = Apply(InputEvents, f[n - 1], events[n]) /\ f[n - 1] \in Polls
      BY <1>1, <1>2, <2>1 DEF Way
    <2>3. CASE n = i
      <3> DEFINE a == f[n - 1]
      <3>1. f[n] = ApplyInput(a, e) /\ a \in Polls
        BY <1>3, <2>2, <2>3, Kinds DEF Apply
      <3> HIDE DEF a
      <3>2. ButtonIs(f[n], e)
        BY <3>1, InputFields DEF ButtonIs
      <3> QED
        BY <2>1, <3>2
    <2>4. CASE n > i
      <3>1. events[n] \notin InputEvents
        BY <1>3, <2>1, <2>4
      <3>2. f[n] = f[n - 1]
        BY <2>2, <3>1 DEF Apply
      <3>3. ButtonIs(f[n - 1], e)
        BY <1>5, <2>1, <2>4
      <3> QED
        BY <2>1, <3>2, <3>3
    <2>5. CASE n < i
      BY <2>1, <2>5
    <2> QED
      BY <2>3, <2>4, <2>5
  <1>6. N \in T
    <2> HIDE DEF T, N
    <2> QED
      BY <1>2, <1>4, <1>5, UpTo
  <1>7. Through(InputEvents, x, events) = f[N]
    BY <1>1 DEF Way
  <1>8. N >= i
    BY <1>2
  <1> QED
    BY <1>6, <1>7, <1>8

LEMMA NoInputNoChange ==
  ASSUME session \in Sessions, NEW s, NEW x \in Since(s), NEW events \in Seq(PlayerEvents),
         ~HasInput(events)
  PROVE  Through(InputEvents, x, events) = x
  <1> DEFINE N == Len(events)
             S == Since(s)
  <1>1. PICK f \in [0..N -> S] : Way(InputEvents, f, x, events)
    BY WaysAreThere
  <1>2. N \in Nat
    OBVIOUS
  <1> DEFINE T == {n \in 0..N : f[n] = x}
  <1>3. 0 \in T
    BY <1>1, <1>2 DEF Way
  <1>4. ASSUME NEW n \in 1..N, n - 1 \in T
        PROVE  n \in T
    <2>1. n - 1 \in 0..N /\ n \in 0..N /\ n \in 1..Len(events)
      BY <1>2
    <2>2. f[n] = Apply(InputEvents, f[n - 1], events[n]) /\ f[n - 1] = x
      BY <1>1, <1>4, <2>1 DEF Way
    <2>3. events[n] \notin InputEvents
      BY <2>1 DEF HasInput
    <2> QED
      BY <2>1, <2>2, <2>3 DEF Apply
  <1>5. N \in T
    <2> HIDE DEF T, N
    <2> QED
      BY <1>2, <1>3, <1>4, UpTo
  <1>6. Through(InputEvents, x, events) = f[N]
    BY <1>1 DEF Way
  <1> QED
    BY <1>5, <1>6

LEMMA SomeInputDecides ==
  ASSUME NEW events \in Seq(PlayerEvents), HasInput(events)
  PROVE  \E e \in InputEvents : Decides(events, e)
  <1> DEFINE N == Len(events)
             K == {k \in Nat : N - k \in 1..N /\ events[N - k] \in InputEvents}
             m == Min(K)
  <1>1. N \in Nat
    OBVIOUS
  <1>2. PICK i \in 1..N : events[i] \in InputEvents
    BY DEF HasInput
  <1>3. N - i \in K
    <2>1. N - i \in Nat /\ N - (N - i) = i
      BY <1>1
    <2> QED
      BY <1>2, <2>1
  <1>4. m \in K /\ \A k \in K : m <= k
    <2> HIDE DEF K
    <2>1. K \in SUBSET Nat
      BY DEF K
    <2> QED
      BY <1>3, <2>1, Least
  <1> HIDE DEF m
  <1>5. m \in Nat /\ N - m \in 1..N /\ events[N - m] \in InputEvents
    BY <1>4
  <1>6. ASSUME NEW j \in 1..N, j > N - m, events[j] \in InputEvents
        PROVE  FALSE
    <2>1. N - j \in Nat /\ N - (N - j) = j
      BY <1>1
    <2>2. N - j \in K
      BY <1>6, <2>1
    <2>3. m <= N - j
      BY <1>4, <2>2
    <2> QED
      BY <1>1, <1>5, <1>6, <2>3
  <1>7. Decides(events, events[N - m])
    BY <1>5, <1>6 DEF Decides
  <1> QED
    BY <1>5, <1>7

-----------------------------------------------------------------------------
(* The player's button *)

\* The player holds the button as the last event that waits says; when none
\* waits the emulator and the session know.
Buttons ==
  IF HasInput(os) THEN Decides(os, IF held THEN "press" ELSE "release")
  ELSE /\ emu.button \/ rt.pressed => held
       /\ ~forgotten => emu.button = held

Known == ~forgotten => emu.button = rt.pressed

BInv == Buttons /\ Known

LEMMA PollKeepsButtons ==
  ASSUME FInv, BInv, Working, os' = NotTaken, held' = held, forgotten' = Polled.forgotten,
         emu'.button = Polled.emu.button, rt'.pressed = Polled.rt.pressed
  PROVE  BInv'
  <1> DEFINE u == Unpolled
             y == Through(RuntimeEvents, u, Taken)
             p == Polled
             k == Len(Taken)
  <1>1. /\ session \in Sessions /\ Taken \in Seq(PlayerEvents) /\ NotTaken \in Seq(PlayerEvents)
        /\ Len(os) \in Nat /\ k \in Nat /\ Len(NotTaken) \in Nat
    BY Halves DEF FInv, Types
  <1>2. u \in Since(u) /\ u.emu = emu /\ u.rt = rt /\ u.forgotten = forgotten
    <2>1. /\ Unpolled \in Polls /\ Unpolled.pulses = (IF Unpolled.emu.ready THEN 1 ELSE 0)
          /\ Unpolled.rt.reload => Unpolled.reloads # 0
      BY DEF FInv, Types, NoFrameLost, Reloads, Working, Unpolled, Polls
    <2> QED
      BY <2>1 DEF Since, Unpolled
  <1>3. p = Through(InputEvents, y, Taken)
    BY DEF Polled, Unpolled
  <1> HIDE DEF u, p
  <1>4. y \in Since(u) /\ ButtonFrom(u, y)
    BY <1>1, <1>2, ThroughKeeps, RuntimeKeepsButton
  <1> HIDE DEF y
  <1>5. /\ u.emu.button \in BOOLEAN /\ u.rt.pressed \in BOOLEAN /\ u.forgotten \in BOOLEAN
        /\ y.emu.button \in BOOLEAN /\ y.rt.pressed \in BOOLEAN /\ y.forgotten \in BOOLEAN
        /\ held \in BOOLEAN
    BY <1>2, <1>4, ButtonsAreBooleans DEF Since, FInv, Types
  <1>6. ASSUME NEW e \in InputEvents, Decides(Taken, e)
        PROVE  ButtonIs(p, e)
    BY <1>1, <1>3, <1>4, <1>6, LastInputDecides
  <1>7. ~HasInput(Taken) => p = y
    BY <1>1, <1>3, <1>4, NoInputNoChange
  <1>8. ~p.forgotten => p.emu.button = p.rt.pressed
    <2>1. CASE HasInput(Taken)
      <3>1. PICK e \in InputEvents : Decides(Taken, e)
        BY <1>1, <2>1, SomeInputDecides
      <3> QED
        BY <1>6, <3>1 DEF ButtonIs
    <2>2. CASE ~HasInput(Taken)
      BY <1>2, <1>4, <1>5, <1>7, <2>2 DEF BInv, Known, ButtonFrom
    <2> QED
      BY <2>1, <2>2
  <1>9. Known'
    BY <1>8 DEF Known, p
  <1> DEFINE e == IF held THEN "press" ELSE "release"
  <1>10. e \in InputEvents
    BY DEF InputEvents
  <1>11. Buttons'
    <2>1. /\ Quits => Len(os) = k + 1 + Len(NotTaken) /\ os[k + 1] = "quit"
          /\ Quits => \A i \in 1..Len(NotTaken) : NotTaken[i] = os[k + 1 + i]
          /\ \A i \in 1..k : i \in 1..Len(os) /\ Taken[i] = os[i]
          /\ ~Quits => Taken = os /\ NotTaken = <<>>
          /\ "quit" \notin InputEvents
      <3>1. "quit" \notin InputEvents
        BY DEF InputEvents
      <3> QED
        BY <3>1, Halves DEF FInv, Types
    <2>2. CASE HasInput(NotTaken)
      <3>1. PICK j \in 1..Len(NotTaken) : NotTaken[j] \in InputEvents
        BY <2>2 DEF HasInput
      <3>2. Quits
        BY <2>1, <3>1
      <3>3. k + 1 + j \in 1..Len(os) /\ os[k + 1 + j] \in InputEvents
        BY <1>1, <2>1, <3>1, <3>2
      <3>4. HasInput(os)
        BY <3>3 DEF HasInput
      <3>5. PICK i \in 1..Len(os) : os[i] = e /\ \A l \in 1..Len(os) : l > i => os[l] \notin InputEvents
        BY <3>4 DEF BInv, Buttons, Decides
      <3>6. i >= k + 1 + j
        BY <1>1, <3>3, <3>5
      <3> DEFINE n == i - (k + 1)
      <3>7. n \in 1..Len(NotTaken) /\ k + 1 + n = i
        BY <1>1, <2>1, <3>2, <3>6
      <3> HIDE DEF n
      <3>8. NotTaken[n] = e
        BY <2>1, <3>2, <3>5, <3>7
      <3>9. ASSUME NEW l \in 1..Len(NotTaken), l > n
            PROVE  NotTaken[l] \notin InputEvents
        <4>1. k + 1 + l \in 1..Len(os) /\ k + 1 + l > i
          BY <1>1, <2>1, <3>2, <3>7, <3>9
        <4> QED
          BY <2>1, <3>2, <3>5, <4>1
      <3>10. Decides(NotTaken, e)
        BY <3>7, <3>8, <3>9 DEF Decides
      <3> QED
        BY <2>2, <3>10 DEF Buttons, HasInput, Decides
    <2>3. CASE ~HasInput(NotTaken) /\ HasInput(os)
      <3>1. PICK i \in 1..Len(os) : os[i] = e /\ \A l \in 1..Len(os) : l > i => os[l] \notin InputEvents
        BY <2>3 DEF BInv, Buttons, Decides
      <3>2. i \in 1..k
        <4>1. CASE ~Quits
          BY <2>1, <4>1
        <4>2. CASE Quits
          <5>1. i # k + 1
            BY <1>10, <2>1, <3>1, <4>2
          <5>2. ASSUME i > k + 1
                PROVE  FALSE
            <6> DEFINE n == i - (k + 1)
            <6>1. n \in 1..Len(NotTaken) /\ k + 1 + n = i
              BY <1>1, <2>1, <4>2, <5>2
            <6> HIDE DEF n
            <6>2. NotTaken[n] \in InputEvents
              BY <1>10, <2>1, <3>1, <4>2, <6>1
            <6> QED
              BY <2>3, <6>1, <6>2 DEF HasInput
          <5> QED
            BY <1>1, <5>1, <5>2
        <4> QED
          BY <4>1, <4>2
      <3>3. Decides(Taken, e)
        <4>1. Taken[i] = e
          BY <2>1, <3>1, <3>2
        <4>2. \A l \in 1..k : l > i => Taken[l] \notin InputEvents
          BY <2>1, <3>1
        <4> QED
          BY <3>2, <4>1, <4>2 DEF Decides
      <3>4. ButtonIs(p, e)
        BY <1>6, <1>10, <3>3
      <3>5. p.rt.pressed = held /\ p.emu.button = held
        BY <1>5, <3>4 DEF ButtonIs
      <3> QED
        BY <2>3, <3>5 DEF Buttons, HasInput, p
    <2>4. CASE ~HasInput(os)
      <3>1. ~HasInput(Taken)
        BY <2>1, <2>4 DEF HasInput
      <3>2. ~HasInput(NotTaken)
        <4>1. ASSUME NEW j \in 1..Len(NotTaken), NotTaken[j] \in InputEvents
              PROVE  FALSE
          <5>1. Quits
            BY <2>1, <4>1
          <5>2. k + 1 + j \in 1..Len(os) /\ os[k + 1 + j] \in InputEvents
            BY <1>1, <2>1, <4>1, <5>1
          <5> QED
            BY <2>4, <5>2 DEF HasInput
        <4> QED
          BY <4>1 DEF HasInput
      <3>3. p = y
        BY <1>7, <3>1
      <3>4. /\ emu.button \/ rt.pressed => held
            /\ ~forgotten => emu.button = held /\ emu.button = rt.pressed
        BY <2>4 DEF BInv, Buttons, Known
      <3>5. p.emu.button \/ p.rt.pressed => held
        BY <1>2, <1>4, <1>5, <3>3, <3>4 DEF ButtonFrom
      <3>6. ~p.forgotten => p.emu.button = held
        BY <1>2, <1>4, <1>5, <3>3, <3>4 DEF ButtonFrom
      <3> QED
        BY <3>2, <3>5, <3>6 DEF Buttons, HasInput, p
    <2> QED
      BY <2>2, <2>3, <2>4
  <1> QED
    BY <1>9, <1>11 DEF BInv

LEMMA PlayerKeepsButtons ==
  ASSUME FInv, BInv, NEW event \in session.events, Player(event)
  PROVE  BInv'
  <1> DEFINE n == Len(os)
  <1>1. /\ event \in PlayerEvents /\ os \in Seq(PlayerEvents) /\ n \in Nat /\ held \in BOOLEAN
        /\ os' = Append(os, event) /\ emu' = emu /\ rt' = rt /\ forgotten' = forgotten
        /\ held' = (event = "press" \/ (held /\ event # "release"))
    BY SessionFacts, SMTT(30) DEF FInv, Types, Player
  <1>2. /\ Len(os') = n + 1 /\ os'[n + 1] = event
        /\ \A i \in 1..n : i \in 1..(n + 1) /\ os'[i] = os[i]
    BY <1>1
  <1>3. Known'
    BY <1>1 DEF BInv, Known
  <1>4. Buttons'
    <2>1. CASE event \in InputEvents
      <3>1. event = (IF held' THEN "press" ELSE "release")
        BY <1>1, <2>1 DEF InputEvents
      <3>2. n + 1 \in 1..Len(os') /\ \A j \in 1..Len(os') : ~(j > n + 1)
        BY <1>1, <1>2
      <3> QED
        BY <1>2, <2>1, <3>1, <3>2 DEF Buttons, HasInput, Decides
    <2>2. CASE event \notin InputEvents
      <3>1. held' = held
        BY <1>1, <2>2 DEF InputEvents
      <3>2. \A j \in 1..(n + 1) : j # n + 1 => j \in 1..n
        BY <1>1
      <3>3. HasInput(os)' <=> HasInput(os)
        BY <1>2, <2>2, <3>2 DEF HasInput
      <3>4. CASE HasInput(os)
        <4> DEFINE e == IF held THEN "press" ELSE "release"
        <4>1. PICK i \in 1..n : os[i] = e /\ \A j \in 1..n : j > i => os[j] \notin InputEvents
          BY <3>4 DEF BInv, Buttons, Decides
        <4>2. i \in 1..Len(os') /\ os'[i] = e
          BY <1>2, <4>1
        <4>3. \A j \in 1..Len(os') : j > i => os'[j] \notin InputEvents
          BY <1>2, <2>2, <3>2, <4>1
        <4> QED
          BY <3>1, <3>3, <3>4, <4>2, <4>3 DEF Buttons, Decides
      <3>5. CASE ~HasInput(os)
        BY <1>1, <3>1, <3>3, <3>5 DEF BInv, Buttons
      <3> QED
        BY <3>4, <3>5
    <2> QED
      BY <2>1, <2>2
  <1> QED
    BY <1>3, <1>4 DEF BInv

LEMMA ButtonsUnchanged ==
  ASSUME BInv, UNCHANGED <<os, emu, rt, held, forgotten>>
  PROVE  BInv'
  BY DEF BInv, Buttons, Known, HasInput, Decides

LEMMA AfterKeepsButtons ==
  ASSUME FInv, BInv, After
  PROVE  BInv'
  <1>1. CASE stats.reloads # 0
    <2>1. emu' = Fresh /\ rt' = Idle /\ forgotten' = TRUE /\ os' = os /\ held' = held
      BY <1>1 DEF After
    <2>2. emu'.button = FALSE /\ rt'.pressed = FALSE
      BY <2>1 DEF Fresh, Idle
    <2> QED
      BY <2>1, <2>2 DEF BInv, Buttons, Known, HasInput, Decides
  <1>2. CASE stats.reloads = 0
    BY <1>2, ButtonsUnchanged DEF After
  <1> QED
    BY <1>1, <1>2

\* Whatever follows a poll leaves the button as the poll set it.
LEMMA BranchesKeepButton ==
  ASSUME NEW p, PollFacts(p), Poll(p),
         \/ Quiet(p) \/ Present(p)
         \/ \E over \in 0..(MaxInstr - 1), off \in BOOLEAN : Step(p, over, off)
  PROVE  /\ os' = NotTaken /\ held' = held /\ forgotten' = p.forgotten
         /\ emu'.button = p.emu.button /\ rt'.pressed = p.rt.pressed
  <1>1. os' = NotTaken /\ held' = held /\ forgotten' = p.forgotten
    BY DEF Poll
  <1>2. p.emu \in Emus /\ p.rt \in Rts
    BY DEF PollFacts
  <1>3. CASE Quiet(p)
    BY <1>1, <1>3 DEF Quiet
  <1>4. CASE Present(p)
    <2>1. emu'.button = p.emu.button
      BY <1>2, <1>4 DEF Present, Emus
    <2>2. rt'.pressed = p.rt.pressed
      BY <1>2, <1>4 DEF Present, Rts
    <2> QED
      BY <1>1, <2>1, <2>2
  <1>5. CASE \E over \in 0..(MaxInstr - 1), off \in BOOLEAN : Step(p, over, off)
    <2>1. PICK over \in 0..(MaxInstr - 1), off \in BOOLEAN : Step(p, over, off)
      BY <1>5
    <2>2. rt' = p.rt /\ emu'.button = p.emu.button
      BY <2>1 DEF Step
    <2> QED
      BY <1>1, <2>2
  <1> QED
    BY <1>3, <1>4, <1>5

\* What a step of the loop is: a poll and a branch, or nothing but a new place.
LEMMA LoopSteps ==
  ASSUME FInv, Outer \/ Inner
  PROVE  \/ UNCHANGED rest
         \/ /\ Working /\ PollFacts(Polled) /\ Poll(Polled)
            /\ \/ Quiet(Polled) \/ Present(Polled)
               \/ \E over \in 0..(MaxInstr - 1), off \in BOOLEAN : Step(Polled, over, off)
  <1>1. Working /\ PollFacts(Polled)
    <2>1. Working
      BY DEF Outer, Inner, Working
    <2> QED
      BY <2>1, PolledFacts
  <1>2. CASE Outer
    BY <1>1, <1>2 DEF Outer, Leave, Sleep, Abort
  <1>3. CASE Inner
    BY <1>1, <1>3 DEF Inner, Leave, Sleep, Abort
  <1> QED
    BY <1>2, <1>3

THEOREM ButtonsKeep == FInv /\ BInv /\ [Next]_frontVars => BInv'
  <1> SUFFICES ASSUME FInv, BInv, [Next]_frontVars
               PROVE  BInv'
    OBVIOUS
  <1>1. ASSUME NEW event \in session.events, Player(event)
        PROVE  BInv'
    BY <1>1, PlayerKeepsButtons
  <1>2. CASE Start
    BY <1>2, ButtonsUnchanged DEF Start
  <1>3. CASE Outer \/ Inner
    <2>1. CASE UNCHANGED rest
      BY <2>1, ButtonsUnchanged DEF rest
    <2>2. CASE ~UNCHANGED rest
      <3> DEFINE p == Polled
      <3>1. /\ Working /\ PollFacts(p) /\ Poll(p)
            /\ \/ Quiet(p) \/ Present(p)
               \/ \E over \in 0..(MaxInstr - 1), off \in BOOLEAN : Step(p, over, off)
        BY <1>3, <2>2, LoopSteps
      <3>2. /\ os' = NotTaken /\ held' = held /\ forgotten' = p.forgotten
            /\ emu'.button = p.emu.button /\ rt'.pressed = p.rt.pressed
        <4> HIDE DEF p
        <4> QED
          BY <3>1, BranchesKeepButton
      <3> QED
        BY <3>1, <3>2, PollKeepsButtons
    <2> QED
      BY <2>1, <2>2
  <1>4. CASE After
    BY <1>4, AfterKeepsButtons
  <1>5. CASE UNCHANGED frontVars
    BY <1>5, ButtonsUnchanged DEF frontVars
  <1> QED
    BY <1>1, <1>2, <1>3, <1>4, <1>5 DEF Next, Loop

\* When all events are taken the game sees the button as the player holds
\* it; after a reset or a reload it may miss it, but never keeps it down.
THEOREM ButtonsAlwaysFollow == Spec => []ButtonsFollow
  <1>1. Init => FInv /\ BInv
    <2>1. Init => BInv
      <3> SUFFICES ASSUME Init
                   PROVE  BInv
        OBVIOUS
      <3>1. emu = Fresh /\ rt = Idle /\ os = <<>> /\ held = FALSE
        BY DEF Init
      <3>2. emu.button = FALSE /\ rt.pressed = FALSE
        BY <3>1 DEF Fresh, Idle
      <3>3. ~HasInput(os)
        BY <3>1 DEF HasInput
      <3> QED
        BY <3>1, <3>2, <3>3 DEF BInv, Buttons, Known
    <2> QED
      BY <2>1, FrontendBegins
  <1>2. FInv /\ BInv /\ [Next]_frontVars => (FInv /\ BInv)'
    BY FrontendKeeps, ButtonsKeep
  <1>3. FInv /\ BInv => ButtonsFollow
    <2> SUFFICES ASSUME BInv, os = <<>>
                 PROVE  /\ emu.button \/ rt.pressed => held
                        /\ ~forgotten => emu.button = held
      BY DEF ButtonsFollow
    <2>1. ~HasInput(os)
      BY DEF HasInput
    <2> QED
      BY <2>1 DEF BInv, Buttons
  <1> QED
    BY <1>1, <1>2, <1>3, PTL DEF Spec

-----------------------------------------------------------------------------
(* Steps of a pause *)

StepsUpTo(events, n) == Cardinality({i \in 1..n : events[i] = "step"})

LEMMA CountsOn ==
  ASSUME NEW events, NEW n \in Nat \ {0}
  PROVE  /\ StepsUpTo(events, 0) = 0 /\ StepsUpTo(events, n - 1) \in Nat
         /\ StepsUpTo(events, n) =
              StepsUpTo(events, n - 1) + (IF events[n] = "step" THEN 1 ELSE 0)
  <1> DEFINE A == {i \in 1..(n - 1) : events[i] = "step"}
             B == {i \in 1..n : events[i] = "step"}
  <1>1. StepsUpTo(events, 0) = 0
    <2>1. {i \in 1..0 : events[i] = "step"} = {}
      OBVIOUS
    <2> QED
      BY <2>1, FS_EmptySet DEF StepsUpTo
  <1>2. IsFiniteSet(A)
    <2>1. IsFiniteSet(1..(n - 1))
      BY FS_Interval
    <2>2. A \subseteq 1..(n - 1)
      OBVIOUS
    <2> HIDE DEF A
    <2> QED
      BY <2>1, <2>2, FS_Subset
  <1>3. n \notin A
    OBVIOUS
  <1>4. CASE events[n] = "step"
    <2>1. B = A \cup {n}
      BY <1>4
    <2> HIDE DEF A, B
    <2>2. Cardinality(B) = Cardinality(A) + 1 /\ Cardinality(A) \in Nat
      BY <1>2, <1>3, <2>1, FS_AddElement, FS_CardinalityType
    <2> QED
      BY <1>1, <1>4, <2>2 DEF A, B, StepsUpTo
  <1>5. CASE events[n] # "step"
    <2>1. B = A
      BY <1>5
    <2> HIDE DEF A, B
    <2>2. Cardinality(B) = Cardinality(A) /\ Cardinality(A) \in Nat
      BY <1>2, <2>1, FS_CardinalityType
    <2> QED
      BY <1>1, <1>5, <2>2 DEF A, B, StepsUpTo
  <1> QED
    BY <1>4, <1>5

LEMMA RuntimeCountsSteps ==
  ASSUME session \in Sessions, NEW s, NEW x \in Since(s), NEW events \in Seq(PlayerEvents),
         x.rt.paused, \A i \in 1..Len(events) : events[i] # "resume"
  PROVE  /\ Through(RuntimeEvents, x, events).rt.paused
         /\ Through(RuntimeEvents, x, events).rt.steps = x.rt.steps + StepsUpTo(events, Len(events))
  <1> DEFINE N == Len(events)
             S == Since(s)
  <1>1. PICK f \in [0..N -> S] : Way(RuntimeEvents, f, x, events)
    BY WaysAreThere
  <1>2. N \in Nat /\ x \in Polls /\ x.rt.steps \in Nat /\ \A n \in 0..N : f[n] \in Polls
    BY DEF Since, Polls, Rts
  <1> DEFINE Good(n) == f[n].rt.paused /\ f[n].rt.steps = x.rt.steps + StepsUpTo(events, n)
             T == {n \in 0..N : Good(n)}
  <1>3. 0 \in T
    <2>1. f[0] = x /\ 0 \in 0..N /\ StepsUpTo(events, 0) = 0
      <3>1. 1 \in Nat \ {0}
        OBVIOUS
      <3> QED
        BY <1>1, <1>2, <3>1, CountsOn DEF Way
    <2> QED
      BY <1>2, <2>1
  <1>4. ASSUME NEW n \in 1..N, n - 1 \in T
        PROVE  n \in T
    <2>1. n - 1 \in 0..N /\ n \in 0..N /\ n \in 1..Len(events) /\ n \in Nat \ {0}
      BY <1>2
    <2> DEFINE a == f[n - 1]
               b == f[n]
               e == events[n]
               c == StepsUpTo(events, n - 1)
    <2>2. /\ b = Apply(RuntimeEvents, a, e) /\ a \in Polls
          /\ e \in PlayerEvents /\ e # "resume" /\ a.rt.paused /\ a.rt.steps = x.rt.steps + c
          /\ a.rt.paused \in BOOLEAN
      <3>1. a \in Polls /\ a.rt.paused \in BOOLEAN
        BY <1>2, <2>1, ButtonsAreBooleans
      <3>2. Good(n - 1)
        BY <1>4
      <3> QED
        BY <1>1, <2>1, <3>1, <3>2 DEF Way
    <2>3. StepsUpTo(events, n) = c + (IF e = "step" THEN 1 ELSE 0) /\ c \in Nat
      BY <2>1, CountsOn
    <2> HIDE DEF a, b, c
    <2>4. b.rt.paused /\ b.rt.steps = a.rt.steps + (IF e = "step" THEN 1 ELSE 0)
      <3> HIDE DEF e
      <3>1. CASE e \notin RuntimeEvents
        <4>1. b = a /\ e # "step"
          BY <2>2, <3>1 DEF Apply, RuntimeEvents
        <4>2. a.rt.steps + 0 = a.rt.steps
          BY <1>2, <2>2, <2>3
        <4> QED
          BY <2>2, <4>1, <4>2
      <3>2. CASE e \in RuntimeEvents
        <4>1. b = ApplyRuntime(a, e)
          BY <2>2, <3>2 DEF Apply
        <4>2. PauseGoesOn(a, e, b)
          BY <2>2, <3>2, <4>1, RuntimeFields
        <4> QED
          BY <2>2, <4>2 DEF PauseGoesOn
      <3> QED
        BY <3>1, <3>2
    <2>5. b.rt.steps = x.rt.steps + StepsUpTo(events, n)
      <3> DEFINE d == IF e = "step" THEN 1 ELSE 0
      <3>1. d \in Nat
        OBVIOUS
      <3>2. b.rt.steps = (x.rt.steps + c) + d /\ StepsUpTo(events, n) = c + d
        BY <2>2, <2>3, <2>4
      <3> HIDE DEF d
      <3> QED
        BY <1>2, <2>3, <3>1, <3>2
    <2>6. Good(n)
      BY <2>4, <2>5 DEF b
    <2> QED
      BY <2>1, <2>6
  <1>5. N \in T
    <2> HIDE DEF T, N
    <2> QED
      BY <1>2, <1>3, <1>4, UpTo
  <1>6. Through(RuntimeEvents, x, events) = f[N]
    BY <1>1 DEF Way
  <1> QED
    BY <1>5, <1>6

LEMMA InputsKeepPause ==
  ASSUME session \in Sessions, NEW s, NEW x \in Since(s), NEW events \in Seq(PlayerEvents)
  PROVE  /\ Through(InputEvents, x, events).rt.paused = x.rt.paused
         /\ Through(InputEvents, x, events).rt.steps = x.rt.steps
  <1> DEFINE N == Len(events)
             S == Since(s)
  <1>1. PICK f \in [0..N -> S] : Way(InputEvents, f, x, events)
    BY WaysAreThere
  <1>2. N \in Nat /\ \A n \in 0..N : f[n] \in Polls
    BY DEF Since
  <1> DEFINE T == {n \in 0..N : f[n].rt.paused = x.rt.paused /\ f[n].rt.steps = x.rt.steps}
  <1>3. 0 \in T
    BY <1>1, <1>2 DEF Way
  <1>4. ASSUME NEW n \in 1..N, n - 1 \in T
        PROVE  n \in T
    <2>1. n - 1 \in 0..N /\ n \in 0..N /\ n \in 1..Len(events)
      BY <1>2
    <2> DEFINE a == f[n - 1]
               b == f[n]
               e == events[n]
    <2>2. b = Apply(InputEvents, a, e) /\ a \in Polls
      BY <1>1, <1>2, <2>1 DEF Way
    <2>3. a.rt.paused = x.rt.paused /\ a.rt.steps = x.rt.steps
      BY <1>4
    <2> HIDE DEF a, b, e
    <2>4. b.rt.paused = a.rt.paused /\ b.rt.steps = a.rt.steps
      <3>1. CASE e \notin InputEvents
        BY <2>2, <3>1 DEF Apply
      <3>2. CASE e \in InputEvents
        <4>1. b = ApplyInput(a, e)
          BY <2>2, <3>2, Kinds DEF Apply
        <4> QED
          BY <2>2, <3>2, <4>1, InputFields
      <3> QED
        BY <3>1, <3>2
    <2> QED
      BY <2>1, <2>3, <2>4 DEF b
  <1>5. N \in T
    <2> HIDE DEF T, N
    <2> QED
      BY <1>2, <1>3, <1>4, UpTo
  <1>6. Through(InputEvents, x, events) = f[N]
    BY <1>1 DEF Way
  <1> QED
    BY <1>5, <1>6

LEMMA PollCountsSteps ==
  ASSUME FInv, Working, rt.paused, ~Contains(os, "resume")
  PROVE  /\ Polled.rt.paused /\ Polled.rt.steps = rt.steps + StepsIn(Taken)
         /\ NotTaken = os => StepsIn(Taken) = 0
         /\ StepsIn(Taken) \in Nat
  <1> DEFINE u == Unpolled
             y == Through(RuntimeEvents, u, Taken)
  <1>1. /\ session \in Sessions /\ Taken \in Seq(PlayerEvents) /\ Len(Taken) \in Nat
        /\ os \in Seq(PlayerEvents)
    BY Halves DEF FInv, Types
  <1>2. u \in Since(u) /\ u.rt = rt
    <2>1. /\ Unpolled \in Polls /\ Unpolled.pulses = (IF Unpolled.emu.ready THEN 1 ELSE 0)
          /\ Unpolled.rt.reload => Unpolled.reloads # 0
      BY DEF FInv, Types, NoFrameLost, Reloads, Working, Unpolled, Polls
    <2> QED
      BY <2>1 DEF Since, Unpolled
  <1>3. Polled = Through(InputEvents, y, Taken)
    BY DEF Polled, Unpolled
  <1> HIDE DEF u
  <1>4. \A i \in 1..Len(Taken) : Taken[i] # "resume"
    <2>1. \A i \in 1..Len(os) : os[i] # "resume"
      BY DEF Contains
    <2> QED
      BY <1>1, <2>1, Halves
  <1>5. y.rt.paused /\ y.rt.steps = rt.steps + StepsUpTo(Taken, Len(Taken)) /\ y \in Since(u)
    <2>1. u.rt.paused
      BY <1>2
    <2> QED
      BY <1>1, <1>2, <1>4, <2>1, RuntimeCountsSteps, ThroughKeeps
  <1> HIDE DEF y
  <1>6. Polled.rt.paused /\ Polled.rt.steps = rt.steps + StepsUpTo(Taken, Len(Taken))
    BY <1>1, <1>3, <1>5, InputsKeepPause
  <1>7. StepsIn(Taken) = StepsUpTo(Taken, Len(Taken))
    <2>1. DOMAIN Taken = 1..Len(Taken)
      BY <1>1
    <2> QED
      BY <2>1 DEF StepsIn, StepsUpTo
  <1>8. NotTaken = os => Len(Taken) = 0
    BY <1>1, Halves
  <1>9. StepsUpTo(Taken, 0) = 0 /\ StepsUpTo(Taken, Len(Taken)) \in Nat
    <2>1. Len(Taken) + 1 \in Nat \ {0} /\ Len(Taken) + 1 - 1 = Len(Taken)
      BY <1>1
    <2> DEFINE n == Len(Taken) + 1
    <2>2. StepsUpTo(Taken, 0) = 0 /\ StepsUpTo(Taken, n - 1) \in Nat
      <3> HIDE DEF n
      <3> QED
        BY <2>1, CountsOn DEF n
    <2> QED
      BY <2>1, <2>2
  <1> QED
    BY <1>6, <1>7, <1>8, <1>9

\* In a pause every step that is asked for shows one frame, and no other
\* frame is shown.
THEOREM StepsAlwaysShowFrames == Spec => StepsShowFrames
  <1> DEFINE Counted == rt.paused /\ rt'.paused /\ acts' = acts /\ ~Contains(os, "resume") =>
                          shown' + rt'.steps =
                            shown + rt.steps + (IF os' = os THEN 0 ELSE StepsIn(Taken))
  <1>1. FInv /\ [Next]_frontVars => [Counted]_frontVars
    <2> SUFFICES ASSUME FInv, Next, rt.paused, rt'.paused, acts' = acts, ~Contains(os, "resume")
                 PROVE  shown' + rt'.steps =
                          shown + rt.steps + (IF os' = os THEN 0 ELSE StepsIn(Taken))
      OBVIOUS
    <2>1. shown \in Nat /\ rt.steps \in Nat /\ acts \in Nat
      BY Constants DEF FInv, Types, Rts
    <2>2. ASSUME shown' = shown, rt' = rt, os' = os
          PROVE  shown' + rt'.steps =
                   shown + rt.steps + (IF os' = os THEN 0 ELSE StepsIn(Taken))
      BY <2>1, <2>2
    <2>3. CASE \E event \in session.events : Player(event)
      <3>1. acts' = acts + 1
        BY <2>3 DEF Player
      <3> QED
        BY <2>1, <3>1
    <2>4. CASE Start
      BY <2>2, <2>4 DEF Start
    <2>5. CASE After
      <3>1. CASE stats.reloads # 0
        <4>1. ~rt'.paused
          BY <2>5, <3>1 DEF After, Idle
        <4> QED
          BY <4>1
      <3>2. CASE stats.reloads = 0
        BY <2>2, <2>5, <3>2 DEF After
      <3> QED
        BY <3>1, <3>2
    <2>6. CASE Outer \/ Inner
      <3>1. CASE UNCHANGED rest
        BY <2>2, <3>1 DEF rest
      <3>2. CASE ~UNCHANGED rest
        <4> DEFINE p == Polled
                   c == StepsIn(Taken)
        <4>1. /\ Working /\ PollFacts(p) /\ Poll(p)
              /\ \/ Quiet(p) \/ Present(p)
                 \/ \E over \in 0..(MaxInstr - 1), off \in BOOLEAN : Step(p, over, off)
          BY <2>6, <3>2, LoopSteps
        <4>2. p.rt.paused /\ p.rt.steps = rt.steps + c /\ c \in Nat
              /\ (NotTaken = os => c = 0)
          BY <4>1, PollCountsSteps
        <4> HIDE DEF p, c
        <4>3. os' = NotTaken /\ p.rt \in Rts /\ p.rt.steps \in Nat
          BY <4>1 DEF Poll, PollFacts
        <4>4. shown' + rt'.steps = shown + p.rt.steps
          <5>1. CASE Quiet(p)
            BY <2>1, <4>3, <5>1 DEF Quiet
          <5>2. CASE Present(p)
            <6> DEFINE q == p.rt
            <6>1. rt' = [q EXCEPT !.steps = @ - 1] /\ shown' = shown + 1
              BY <4>2, <5>2 DEF Present
            <6>2. q \in Rts
              BY <4>3
            <6> HIDE DEF q
            <6>3. rt'.steps = q.steps - 1
              BY <6>1, <6>2 DEF Rts
            <6> QED
              BY <2>1, <4>3, <6>1, <6>3 DEF q
          <5>3. CASE \E over \in 0..(MaxInstr - 1), off \in BOOLEAN : Step(p, over, off)
            BY <2>1, <4>3, <5>3 DEF Step
          <5> QED
            BY <4>1, <5>1, <5>2, <5>3
        <4>5. shown' + rt'.steps = shown + rt.steps + (IF os' = os THEN 0 ELSE c)
          <5>1. CASE os' = os
            BY <2>1, <4>2, <4>3, <4>4, <5>1
          <5>2. CASE os' # os
            BY <2>1, <4>2, <4>4, <5>2
          <5> QED
            BY <5>1, <5>2
        <4> QED
          BY <4>5 DEF c
      <3> QED
        BY <3>1, <3>2
    <2> QED
      BY <2>3, <2>4, <2>5, <2>6 DEF Next, Loop
  <1>2. Init => FInv
    BY FrontendBegins
  <1>3. FInv /\ [Next]_frontVars => FInv'
    BY FrontendKeeps
  <1> QED
    BY <1>1, <1>2, <1>3, PTL DEF Spec, StepsShowFrames

-----------------------------------------------------------------------------
(* Pictures.  Drawing has a specification of its own; the sizes of tiles,  *)
(* maps and the screen and the scenes are arbitrary.                       *)

LEMMA Sizes ==
  /\ TileSize \in Nat \ {0} /\ MapWidth \in Nat \ {0} /\ SpritesOnLine \in Nat \ {0}
  /\ Byte \in Nat /\ Byte > 1
  /\ \A x \in Columns : x \in 0..(Byte - 1)
  /\ \A y \in Scanlines : y \in 0..(Byte - 1)
<1>1. /\ TileSize \in Nat \ {0} /\ MapWidth \in Nat \ {0} /\ SpritesOnLine \in Nat \ {0}
      /\ ScreenWidth \in Nat \ {0} /\ ScreenHeight \in Nat \ {0}
      /\ ScreenWidth < Byte /\ ScreenHeight < Byte
  BY DrawingAssumption
<1>2. Byte \in Nat
  BY <1>1 DEF Byte
<1> QED
  BY <1>1, <1>2 DEF Columns, Scanlines

\* What the proofs use of a scene.
LEMMA SceneFields ==
  ASSUME DrawTypeOK
  PROVE  /\ scene.cgb \in BOOLEAN
         /\ scene.scx \in Coordinates /\ scene.scy \in Coordinates
         /\ scene.wx \in Coordinates /\ scene.wy \in Coordinates
         /\ scene.sprites \in Seq(SpriteType)
BY DEF DrawTypeOK, SceneType

LEMMA SpriteFields ==
  ASSUME NEW s \in SpriteType
  PROVE  /\ s.x \in Int /\ s.y \in Int
         /\ s.xflip \in BOOLEAN /\ s.yflip \in BOOLEAN
<1>1. Byte \in Nat
  BY Sizes
<1> QED
  BY <1>1 DEF SpriteType, Coordinates

LEMMA NextCoordinate ==
  ASSUME NEW v \in Coordinates
  PROVE  /\ (v + 1) % Byte \in Coordinates
         /\ (v + 1) % Byte = IF v + 1 = Byte THEN 0 ELSE v + 1
BY Sizes DEF Coordinates

-----------------------------------------------------------------------------
(* Types *)

\* A flipped sprite is one sprite, and the others stay.
LEMMA OneFlips ==
  ASSUME DrawTypeOK, scene.sprites # <<>>, FlipX \/ FlipY
  PROVE  /\ scene' \in SceneType
         /\ scene' = [scene EXCEPT !.sprites = scene'.sprites]
         /\ Len(scene'.sprites) = Len(scene.sprites)
         /\ \/ scene'.sprites[1] = [scene.sprites[1] EXCEPT !.xflip = ~@]
            \/ scene'.sprites[1] = [scene.sprites[1] EXCEPT !.yflip = ~@]
<1> DEFINE ss == scene.sprites
<1>1. ss \in Seq(SpriteType) /\ 1 \in 1..Len(ss) /\ ss[1] \in SpriteType
  BY SceneFields
<1>2. ASSUME NEW t \in SpriteType
      PROVE  [ss EXCEPT ![1] = t] \in Seq(SpriteType) /\ Len([ss EXCEPT ![1] = t]) = Len(ss)
             /\ [ss EXCEPT ![1] = t][1] = t
  BY <1>1
<1>3. [ss[1] EXCEPT !.xflip = ~@] \in SpriteType /\ [ss[1] EXCEPT !.yflip = ~@] \in SpriteType
  BY <1>1 DEF SpriteType
<1>4. PICK t \in SpriteType : /\ scene' = [scene EXCEPT !.sprites = [ss EXCEPT ![1] = t]]
                              /\ \/ t = [ss[1] EXCEPT !.xflip = ~@]
                                 \/ t = [ss[1] EXCEPT !.yflip = ~@]
  <2>1. CASE FlipX
    <3>1. scene' = [scene EXCEPT !.sprites = [ss EXCEPT ![1] = [ss[1] EXCEPT !.xflip = ~@]]]
      BY <2>1, <1>1 DEF FlipX, DrawTypeOK, SceneType
    <3> QED
      BY <1>3, <3>1
  <2>2. CASE FlipY
    <3>1. scene' = [scene EXCEPT !.sprites = [ss EXCEPT ![1] = [ss[1] EXCEPT !.yflip = ~@]]]
      BY <2>2, <1>1 DEF FlipY, DrawTypeOK, SceneType
    <3> QED
      BY <1>3, <3>1
  <2> QED
    BY <2>1, <2>2
<1>5. scene'.sprites = [ss EXCEPT ![1] = t]
  BY <1>4 DEF DrawTypeOK, SceneType
<1> HIDE DEF ss
<1>6. scene' \in SceneType /\ scene' = [scene EXCEPT !.sprites = scene'.sprites]
  BY <1>2, <1>4, <1>5 DEF DrawTypeOK, SceneType
<1> QED
  BY <1>2, <1>4, <1>5, <1>6 DEF ss

\* What the other steps do.
LEMMA Scrolls ==
  ASSUME DrawTypeOK, DrawNext, scene.sprites = <<>>
  PROVE  \/ scene' = [scene EXCEPT !.scx = (scene.scx + 1) % Byte]
         \/ scene' = [scene EXCEPT !.scy = (scene.scy + 1) % Byte]
BY DEF DrawNext, WriteScx, WriteScy, FlipX, FlipY

LEMMA SceneKeeps ==
  ASSUME DrawTypeOK, [DrawNext]_scene
  PROVE  DrawTypeOK'
<1>1. CASE UNCHANGED scene
  BY <1>1 DEF DrawTypeOK
<1>2. CASE DrawNext /\ scene.sprites = <<>>
  BY <1>2, Scrolls, SceneFields, NextCoordinate DEF DrawTypeOK, SceneType
<1>3. CASE DrawNext /\ scene.sprites # <<>>
  <2>1. FlipX \/ FlipY
    BY <1>3 DEF DrawNext
  <2> QED
    BY <1>3, <2>1, OneFlips DEF DrawTypeOK
<1> QED
  BY <1>1, <1>2, <1>3

-----------------------------------------------------------------------------
(* Scrolling and flipping *)

\* Coordinates add up around the end of the map.
LEMMA AroundTheMap ==
  ASSUME NEW a \in Coordinates, NEW b \in 0..(Byte - 1), b + 1 \in 0..(Byte - 1)
  PROVE  (b + ((a + 1) % Byte)) % Byte = (b + 1 + a) % Byte
<1>1. Byte \in Nat /\ Byte > 1
  BY Sizes
<1>2. a + 1 < Byte => (a + 1) % Byte = a + 1
  BY NextCoordinate, <1>1 DEF Coordinates
<1>3. a + 1 = Byte => (a + 1) % Byte = 0
  BY NextCoordinate, <1>1 DEF Coordinates
<1>4. CASE a + 1 < Byte
  <2>1. b + (a + 1) = b + 1 + a
    BY <1>1 DEF Coordinates
  <2> QED
    BY <1>2, <1>4, <2>1
<1>5. CASE a + 1 = Byte
  <2>1. (b + 0) % Byte = b
    BY <1>1
  <2>2. (b + Byte) % Byte = b
    BY <1>1
  <2>3. b + 1 + a = b + Byte
    BY <1>1, <1>5 DEF Coordinates
  <2> QED
    BY <1>3, <1>5, <2>1, <2>2, <2>3
<1> QED
  BY <1>1, <1>4, <1>5 DEF Coordinates

LEMMA ScrollsRight ==
  ASSUME DrawTypeOK, [DrawNext]_scene, scene' # scene,
         NEW x \in Columns, NEW y \in Scanlines
  PROVE  IF WindowVisible(x, y) THEN BackgroundPixel(x, y)' = BackgroundPixel(x, y)
         ELSE /\ (scene'.scx = (scene.scx + 1) % Byte /\ x + 1 \in Columns /\ ~WindowVisible(x + 1, y))
                   => BackgroundPixel(x, y)' = BackgroundPixel(x + 1, y)
              /\ (scene'.scy = (scene.scy + 1) % Byte /\ y + 1 \in Scanlines /\ ~WindowVisible(x, y + 1))
                   => BackgroundPixel(x, y)' = BackgroundPixel(x, y + 1)
<1>1. /\ scene.scx \in Coordinates /\ scene.scy \in Coordinates
      /\ scene.scx # (scene.scx + 1) % Byte /\ scene.scy # (scene.scy + 1) % Byte
  <2>1. ASSUME NEW v \in Coordinates
        PROVE  v # (v + 1) % Byte
    <3>1. (v + 1) % Byte = IF v + 1 = Byte THEN 0 ELSE v + 1
      BY NextCoordinate
    <3> QED
      BY <3>1, Sizes DEF Coordinates
  <2> QED
    BY <2>1, SceneFields
<1>2. /\ scene'.cgb = scene.cgb /\ scene'.lcdc = scene.lcdc
      /\ scene'.wx = scene.wx /\ scene'.wy = scene.wy
      /\ \/ scene'.scx = scene.scx /\ scene'.scy = scene.scy
         \/ scene'.scx = (scene.scx + 1) % Byte /\ scene'.scy = scene.scy
         \/ scene'.scx = scene.scx /\ scene'.scy = (scene.scy + 1) % Byte
  <2>1. CASE scene.sprites = <<>>
    BY <2>1, Scrolls DEF DrawTypeOK, SceneType
  <2>2. CASE scene.sprites # <<>>
    <3>1. FlipX \/ FlipY
      BY <2>2 DEF DrawNext
    <3> QED
      BY <2>2, <3>1, OneFlips DEF DrawTypeOK, SceneType
  <2> QED
    BY <2>1, <2>2
\* The pixel depends on the place in the map, the machine and the flags.
<1>3. ASSUME NEW u, NEW v, Fetch(x, y)' = Fetch(u, v)
      PROVE  BackgroundPixel(x, y)' = BackgroundPixel(u, v)
  BY <1>2, <1>3, SMTT(30) DEF BackgroundPixel, TileSlot, On, Texel, MapTile, MapAttrs, NoAttrs, BlankPixel, Flipped
<1>4. \A u, v : WindowVisible(u, v)' = WindowVisible(u, v) /\ WindowAt(u, v)' = WindowAt(u, v)
  BY <1>2 DEF WindowVisible, WindowAt, On, MapSelected
<1>5. CASE WindowVisible(x, y)
  <2>1. Fetch(x, y)' = Fetch(x, y)
    BY <1>4, <1>5 DEF Fetch
  <2> QED
    BY <1>3, <1>5, <2>1
<1>6. CASE ~WindowVisible(x, y)
  <2>1. ASSUME scene'.scx = (scene.scx + 1) % Byte, x + 1 \in Columns, ~WindowVisible(x + 1, y)
        PROVE  BackgroundPixel(x, y)' = BackgroundPixel(x + 1, y)
    <3>1. scene'.scy = scene.scy
      BY <1>1, <1>2, <2>1
    <3>2. (x + scene'.scx) % Byte = (x + 1 + scene.scx) % Byte
      BY <1>1, <2>1, Sizes, AroundTheMap
    <3>3. Fetch(x, y)' = Fetch(x + 1, y)
      BY <1>2, <1>4, <1>6, <2>1, <3>1, <3>2 DEF Fetch, ScrolledAt, MapSelected, On
    <3> QED
      BY <1>3, <3>3
  <2>2. ASSUME scene'.scy = (scene.scy + 1) % Byte, y + 1 \in Scanlines, ~WindowVisible(x, y + 1)
        PROVE  BackgroundPixel(x, y)' = BackgroundPixel(x, y + 1)
    <3>1. scene'.scx = scene.scx
      BY <1>1, <1>2, <2>2
    <3>2. (y + scene'.scy) % Byte = (y + 1 + scene.scy) % Byte
      BY <1>1, <2>2, Sizes, AroundTheMap
    <3>3. Fetch(x, y)' = Fetch(x, y + 1)
      BY <1>2, <1>4, <1>6, <2>2, <3>1, <3>2 DEF Fetch, ScrolledAt, MapSelected, On
    <3> QED
      BY <1>3, <3>3
  <2> QED
    BY <1>6, <2>1, <2>2
<1> QED
  BY <1>5, <1>6

LEMMA FlippedTwice ==
  ASSUME NEW size \in Nat, NEW n \in 0..(size - 1), NEW a \in BOOLEAN, NEW b \in BOOLEAN, a # b
  PROVE  Flipped(a, size - 1 - n, size) = Flipped(b, n, size)
BY DEF Flipped

LEMMA FlipsRight ==
  ASSUME DrawTypeOK, [DrawNext]_scene, scene' # scene, scene.sprites # <<>>,
         NEW c \in 0..(TileSize - 1), NEW r \in 0..(SpriteHeight - 1)
  PROVE  LET s == scene.sprites[1]
             t == scene'.sprites[1]
             at(sprite, col, row) == SpriteTexel(sprite, Left(s) + col, Top(s) + row)
         IN /\ t.xflip # s.xflip => at(t, TileSize - 1 - c, r) = at(s, c, r)
            /\ t.yflip # s.yflip => at(t, c, SpriteHeight - 1 - r) = at(s, c, r)
<1> DEFINE s == scene.sprites[1]
           t == scene'.sprites[1]
<1>1. s \in SpriteType
  BY SceneFields
<1>2. /\ s.x \in Int /\ s.y \in Int /\ s.xflip \in BOOLEAN /\ s.yflip \in BOOLEAN
  BY <1>1, SpriteFields
<1>3. \/ t = [s EXCEPT !.xflip = ~@]
      \/ t = [s EXCEPT !.yflip = ~@]
  <2>1. FlipX \/ FlipY
    BY DEF DrawNext
  <2> QED
    BY <2>1, OneFlips
<1>4. /\ t.x = s.x /\ t.y = s.y /\ t.tile = s.tile /\ t.bank = s.bank
      /\ \/ t.xflip = ~s.xflip /\ t.yflip = s.yflip
         \/ t.yflip = ~s.yflip /\ t.xflip = s.xflip
  BY <1>1, <1>3 DEF SpriteType
<1>5. TileSize \in Nat /\ SpriteHeight \in Nat
  BY Sizes DEF SpriteHeight
<1> HIDE DEF s, t
<1>6. /\ Left(s) \in Int /\ Top(s) \in Int /\ Left(t) = Left(s) /\ Top(t) = Top(s)
  BY <1>2, <1>4, <1>5 DEF Left, Top
<1>7. \A i \in Int : (Left(s) + i) - Left(s) = i /\ (Top(s) + i) - Top(s) = i
  BY <1>6
\* The color is that of a row and a column of the tile.
<1>8. ASSUME NEW i \in Int, NEW j \in Int, NEW k \in Int, NEW l \in Int,
             Flipped(t.xflip, i, TileSize) = Flipped(s.xflip, k, TileSize),
             Flipped(t.yflip, j, SpriteHeight) = Flipped(s.yflip, l, SpriteHeight)
      PROVE  SpriteTexel(t, Left(s) + i, Top(s) + j) = SpriteTexel(s, Left(s) + k, Top(s) + l)
  <2>1. /\ (Left(s) + i) - Left(t) = i /\ (Top(s) + j) - Top(t) = j
        /\ (Left(s) + k) - Left(s) = k /\ (Top(s) + l) - Top(s) = l
    BY <1>6, <1>7
  <2> QED
    BY <1>4, <1>8, <2>1, Zenon DEF SpriteTexel
<1>9. ASSUME t.xflip # s.xflip
      PROVE  SpriteTexel(t, Left(s) + (TileSize - 1 - c), Top(s) + r) = SpriteTexel(s, Left(s) + c, Top(s) + r)
  <2>1. Flipped(t.xflip, TileSize - 1 - c, TileSize) = Flipped(s.xflip, c, TileSize)
    BY <1>2, <1>4, <1>5, <1>9, FlippedTwice
  <2>2. t.yflip = s.yflip /\ c \in Int /\ r \in Int /\ TileSize - 1 - c \in Int
    BY <1>4, <1>5, <1>9
  <2> QED
    BY <1>8, <2>1, <2>2
<1>10. ASSUME t.yflip # s.yflip
       PROVE  SpriteTexel(t, Left(s) + c, Top(s) + (SpriteHeight - 1 - r)) = SpriteTexel(s, Left(s) + c, Top(s) + r)
  <2>1. Flipped(t.yflip, SpriteHeight - 1 - r, SpriteHeight) = Flipped(s.yflip, r, SpriteHeight)
    BY <1>2, <1>4, <1>5, <1>10, FlippedTwice
  <2>2. t.xflip = s.xflip /\ c \in Int /\ r \in Int /\ SpriteHeight - 1 - r \in Int
    BY <1>4, <1>5, <1>10
  <2> QED
    BY <1>8, <2>1, <2>2
<1> QED
  BY <1>9, <1>10 DEF s, t

-----------------------------------------------------------------------------
(* Shades and colors *)

LEMMA OutputsAgree == FramesMirror
<1> SUFFICES ASSUME ~scene.cgb, NEW x, NEW y
             PROVE  Color(x, y) = DmgColor(Shade(x, y))
  BY DEF FramesMirror
<1> DEFINE bg == BackgroundPixel(x, y)
           s == SpriteAt(x, y, bg.id)
           p == IF scene.sprites[s].obp1 THEN scene.obp1 ELSE scene.obp0
           texel == SpriteTexel(scene.sprites[s], x, y)
<1>1. Shade(x, y) = IF ~On("lcd") THEN 0 ELSE IF s # 0 THEN p[texel] ELSE IF ~On("bg") THEN 0 ELSE scene.bgp[bg.id]
  BY DEF Shade
<1>2. Color(x, y) = IF ~On("lcd") THEN DmgColor(0) ELSE IF s = 0 THEN BackgroundColor(bg)
                    ELSE SpriteColor(scene.sprites[s], texel)
  BY DEF Color, White
<1>3. BackgroundColor(bg) = IF ~On("bg") THEN DmgColor(0) ELSE DmgColor(scene.bgp[bg.id])
  BY DEF BackgroundColor
<1>4. SpriteColor(scene.sprites[s], texel) = DmgColor(p[texel])
  BY DEF SpriteColor
<1> HIDE DEF bg, s, p, texel
<1>5. CASE ~On("lcd")
  BY <1>1, <1>2, <1>5
<1>6. CASE On("lcd") /\ s # 0
  BY <1>1, <1>2, <1>4, <1>6
<1>7. CASE On("lcd") /\ s = 0
  BY <1>1, <1>2, <1>3, <1>7
<1> QED
  BY <1>5, <1>6, <1>7

-----------------------------------------------------------------------------
(* The sprites of a line *)

Numbers == 1..Len(scene.sprites)

\* The sprites on a line, up to one, and those of them that the limit lets through.
Here(y, n) == {j \in 1..n : OnLine(scene.sprites[j], y)}
Chosen(y, n) == {i \in 1..n : OnLine(scene.sprites[i], y) /\ Cardinality(Here(y, i - 1)) < SpritesOnLine}

Members(seq) == {seq[k] : k \in 1..Len(seq)}

LEMMA NumberOfSprites ==
  ASSUME DrawTypeOK
  PROVE  Len(scene.sprites) \in Nat /\ \A i \in Numbers : scene.sprites[i] \in SpriteType
BY SceneFields DEF Numbers

LEMMA OneMoreHere ==
  ASSUME NEW y, NEW n \in Nat \ {0}
  PROVE  /\ IsFiniteSet(Here(y, n - 1)) /\ Cardinality(Here(y, n - 1)) \in Nat
         /\ Cardinality(Here(y, n)) = IF OnLine(scene.sprites[n], y) THEN Cardinality(Here(y, n - 1)) + 1
                                      ELSE Cardinality(Here(y, n - 1))
<1>1. IsFiniteSet(1..(n - 1))
  BY FS_Interval
<1>2. IsFiniteSet(Here(y, n - 1)) /\ n \notin Here(y, n - 1)
  BY <1>1, FS_Subset DEF Here
<1>3. Cardinality(Here(y, n - 1)) \in Nat
  BY <1>2, FS_CardinalityType
<1>4. Here(y, n) = IF OnLine(scene.sprites[n], y) THEN Here(y, n - 1) \union {n} ELSE Here(y, n - 1)
  BY DEF Here
<1>5. Cardinality(Here(y, n - 1) \union {n}) = Cardinality(Here(y, n - 1)) + 1
  BY <1>2, FS_AddElement
<1> QED
  BY <1>2, <1>3, <1>4, <1>5

\* The loop that fills the line.
Filled(first, y) ==
  /\ first[0] = <<>>
  /\ \A i \in Numbers :
       first[i] = IF OnLine(scene.sprites[i], y) /\ Len(first[i - 1]) < Limit THEN Append(first[i - 1], i)
                  ELSE first[i - 1]
  /\ LineSprites(y) = first[Len(scene.sprites)]

LEMMA LineIsFilled ==
  ASSUME DrawTypeOK, NEW y
  PROVE  \E first : Filled(first, y)
  <1> DEFINE N == Len(scene.sprites)
             S == Seq(1..N)
             F == [x \in (1..N) \X S |->
                     IF OnLine(scene.sprites[x[1]], y) /\ Len(x[2]) < Limit THEN Append(x[2], x[1]) ELSE x[2]]
             Fits(g) == g = [i \in 0..N |->
                               IF i = 0 THEN <<>>
                               ELSE IF OnLine(scene.sprites[i], y) /\ Len(g[i - 1]) < Limit THEN Append(g[i - 1], i)
                               ELSE g[i - 1]]
             st == CHOOSE g : Fits(g)
  <1>1. N \in Nat
    BY NumberOfSprites
  <1>2. F \in [(1..N) \X S -> S]
    <2> SUFFICES ASSUME NEW i \in 1..N, NEW seq \in S
                 PROVE  Append(seq, i) \in S
      OBVIOUS
    <2> QED
      BY AppendProperties
  <1>3. <<>> \in S
    OBVIOUS
  <1>4. PICK f \in [0..N -> S] : Leads(f, <<>>, F, N)
    <2> HIDE DEF F, N, S
    <2> QED
      BY <1>1, <1>2, <1>3, Chain
  <1>5. Fits(f)
    <2>1. ASSUME NEW i \in 1..N
          PROVE  f[i] = IF OnLine(scene.sprites[i], y) /\ Len(f[i - 1]) < Limit THEN Append(f[i - 1], i) ELSE f[i - 1]
      <3>1. f[i] = F[<<i, f[i - 1]>>]
        BY <1>4 DEF Leads
      <3>2. f[i - 1] \in S
        <4>1. i - 1 \in 0..N
          BY <1>1
        <4> HIDE DEF S
        <4> QED
          BY <1>4, <4>1
      <3> HIDE DEF S
      <3>3. <<i, f[i - 1]>> \in (1..N) \X S
        BY <3>2
      <3> QED
        BY <3>1, <3>3
    <2>2. f[0] = <<>>
      BY <1>4 DEF Leads
    <2>3. f = [i \in 0..N |-> f[i]]
      <3> HIDE DEF S, N
      <3> QED
        BY <1>4
    <2>4. \A i \in 0..N : i # 0 => i \in 1..N
      BY <1>1
    <2> HIDE DEF N, S
    <2> QED
      BY <2>1, <2>2, <2>3, <2>4
  <1>6. Fits(st)
    <2> HIDE DEF Fits
    <2> QED
      BY <1>5
  <1>7. LineSprites(y) = st[N]
    BY DEF LineSprites
  <1> HIDE DEF st
  <1>8. st[0] = <<>> /\ \A i \in 1..N : st[i] = IF OnLine(scene.sprites[i], y) /\ Len(st[i - 1]) < Limit
                                                THEN Append(st[i - 1], i) ELSE st[i - 1]
    <2>1. \A i \in 1..N : i \in 0..N /\ i # 0
      BY <1>1
    <2>2. 0 \in 0..N
      BY <1>1
    <2> HIDE DEF N
    <2> QED
      BY <1>6, <2>1, <2>2, Zenon
  <1> QED
    BY <1>7, <1>8 DEF Filled, Numbers

\* It holds the first sprites that are on the line, as many as the limit.
LEMMA LineHoldsTheFirst ==
  ASSUME DrawTypeOK, NEW y
  PROVE  LineSprites(y) \in Seq(Numbers) /\ Members(LineSprites(y)) = Chosen(y, Len(scene.sprites))
  <1> DEFINE N == Len(scene.sprites)
             count(n) == Cardinality(Here(y, n))
  <1>1. N \in Nat /\ Numbers = 1..N
    BY NumberOfSprites DEF Numbers
  <1>2. PICK first : Filled(first, y)
    BY LineIsFilled
  <1> DEFINE T == {n \in 0..N : /\ first[n] \in Seq(Numbers)
                                /\ Len(first[n]) = (IF count(n) < SpritesOnLine THEN count(n) ELSE SpritesOnLine)
                                /\ Members(first[n]) = Chosen(y, n)}
  <1>3. 0 \in T
    <2>1. Here(y, 0) = {} /\ Chosen(y, 0) = {} /\ Members(<<>>) = {}
      BY DEF Here, Chosen, Members
    <2>2. count(0) = 0
      BY <2>1, FS_EmptySet
    <2>3. first[0] = <<>>
      BY <1>2 DEF Filled
    <2>4. <<>> \in Seq(Numbers) /\ Len(<<>>) = 0 /\ 0 \in 0..N
      BY <1>1
    <2>5. 0 < SpritesOnLine
      BY Sizes
    <2> QED
      BY <2>1, <2>2, <2>3, <2>4, <2>5
  <1>4. ASSUME NEW n \in 1..N, n - 1 \in T
        PROVE  n \in T
    <2> DEFINE s == first[n - 1]
               on == OnLine(scene.sprites[n], y)
    <2>1. /\ s \in Seq(Numbers) /\ Members(s) = Chosen(y, n - 1)
          /\ Len(s) = (IF count(n - 1) < SpritesOnLine THEN count(n - 1) ELSE SpritesOnLine)
      BY <1>4
    <2>2. first[n] = IF on /\ Len(s) < SpritesOnLine THEN Append(s, n) ELSE s
      BY <1>1, <1>2 DEF Filled, Limit
    <2>3. count(n - 1) \in Nat /\ count(n) = IF on THEN count(n - 1) + 1 ELSE count(n - 1)
      <3>1. n \in Nat \ {0}
        BY <1>1
      <3> QED
        BY <3>1, OneMoreHere
    <2>4. Chosen(y, n) = IF on /\ count(n - 1) < SpritesOnLine THEN Chosen(y, n - 1) \union {n} ELSE Chosen(y, n - 1)
      <3>1. 1..n = (1..(n - 1)) \union {n}
        BY <1>1
      <3> QED
        BY <3>1 DEF Chosen
    <2>5. SpritesOnLine \in Nat /\ n \in Numbers /\ n \in 0..N
      BY <1>1, Sizes
    <2> HIDE DEF s, on, count
    <2>6. CASE on /\ Len(s) < SpritesOnLine
      <3>1. first[n] = Append(s, n)
        BY <2>2, <2>6
      <3>2. /\ Append(s, n) \in Seq(Numbers) /\ Len(Append(s, n)) = Len(s) + 1
            /\ Append(s, n)[Len(s) + 1] = n
            /\ \A i \in 1..Len(s) : Append(s, n)[i] = s[i]
        BY <2>1, <2>5, AppendProperties
      <3>3. Len(s) \in Nat /\ 1..(Len(s) + 1) = (1..Len(s)) \union {Len(s) + 1}
        BY <2>1
      <3>4. Members(Append(s, n)) = Members(s) \union {n}
        BY <3>2, <3>3 DEF Members
      <3>5. count(n - 1) < SpritesOnLine /\ Len(s) = count(n - 1) /\ count(n) = count(n - 1) + 1
        BY <2>1, <2>3, <2>5, <2>6
      <3>6. Len(Append(s, n)) = (IF count(n) < SpritesOnLine THEN count(n) ELSE SpritesOnLine)
        BY <2>3, <2>5, <3>2, <3>5
      <3>7. Members(Append(s, n)) = Chosen(y, n)
        BY <2>1, <2>4, <2>6, <3>4, <3>5
      <3> QED
        BY <2>5, <3>1, <3>2, <3>6, <3>7
    <2>7. CASE ~on
      BY <2>1, <2>2, <2>3, <2>4, <2>7
    <2>8. CASE on /\ ~(Len(s) < SpritesOnLine)
      <3>1. ~(count(n - 1) < SpritesOnLine) /\ count(n) = count(n - 1) + 1
        BY <2>1, <2>3, <2>5, <2>8
      <3>2. ~(count(n) < SpritesOnLine)
        BY <2>3, <2>5, <3>1
      <3>3. first[n] = s /\ Chosen(y, n) = Chosen(y, n - 1)
        BY <2>2, <2>4, <2>8, <3>1
      <3> QED
        BY <2>1, <3>1, <3>2, <3>3
    <2> QED
      BY <2>6, <2>7, <2>8
  <1>5. N \in T
    <2> HIDE DEF T, N
    <2> QED
      BY <1>1, <1>3, <1>4, UpTo
  <1> QED
    BY <1>2, <1>5 DEF Filled

-----------------------------------------------------------------------------
(* The sprite that shows *)

Before(i, j) ==
  IF scene.cgb \/ scene.sprites[i].x = scene.sprites[j].x THEN i < j
  ELSE scene.sprites[i].x < scene.sprites[j].x

\* The order of the sprites is linear, and it is the one the loop decides by.
LEMMA SpritesInOrder ==
  ASSUME DrawTypeOK, NEW i \in Numbers, NEW j \in Numbers, NEW k \in Numbers
  PROVE  /\ Beats(i, j) <=> Before(i, j)
         /\ i = j \/ Before(i, j) \/ Before(j, i)
         /\ Before(i, j) /\ Before(j, k) => Before(i, k)
<1>1. /\ i \in Int /\ j \in Int /\ k \in Int
      /\ scene.sprites[i].x \in Int /\ scene.sprites[j].x \in Int /\ scene.sprites[k].x \in Int
  BY NumberOfSprites, SpriteFields DEF Numbers
<1>2. scene.cgb \in BOOLEAN
  BY SceneFields
<1> DEFINE a == scene.sprites[i].x
           b == scene.sprites[j].x
           c == scene.sprites[k].x
<1>3. Beats(i, j) <=> IF scene.cgb THEN i < j ELSE a < b \/ (a = b /\ i < j)
  BY DEF Beats
<1>4. /\ Before(i, j) <=> IF scene.cgb \/ a = b THEN i < j ELSE a < b
      /\ Before(j, i) <=> IF scene.cgb \/ b = a THEN j < i ELSE b < a
      /\ Before(j, k) <=> IF scene.cgb \/ b = c THEN j < k ELSE b < c
      /\ Before(i, k) <=> IF scene.cgb \/ a = c THEN i < k ELSE a < c
  BY DEF Before
<1>5. a \in Int /\ b \in Int /\ c \in Int
  BY <1>1
<1> HIDE DEF a, b, c
<1>6. CASE scene.cgb
  BY <1>1, <1>3, <1>4, <1>6
<1>7. CASE ~scene.cgb
  BY <1>1, <1>3, <1>4, <1>5, <1>7
<1> QED
  BY <1>2, <1>6, <1>7

\* Of the first n sprites of a line, b is the one that shows; 0 if none does.
Leader(line, n, b, x, y) ==
  IF b = 0 THEN \A k \in 1..n : ~Shows(line[k], x, y)
  ELSE /\ \E k \in 1..n : line[k] = b /\ Shows(b, x, y)
       /\ \A k \in 1..n : Shows(line[k], x, y) => line[k] = b \/ Before(b, line[k])

\* What the loop makes of the next sprite.
Better(line, n, b, x, y) ==
  IF Shows(line[n], x, y) /\ (b = 0 \/ Beats(line[n], b)) THEN line[n] ELSE b

LEMMA LeaderChanges ==
  ASSUME DrawTypeOK, NEW line \in Seq(Numbers), NEW n \in 1..Len(line), NEW b, NEW x, NEW y,
         Leader(line, n - 1, b, x, y)
  PROVE  Leader(line, n, Better(line, n, b, x, y), x, y)
<1>1. \A k \in 1..n : line[k] \in Numbers /\ line[k] # 0 /\ (k \in 1..(n - 1) \/ k = n)
  BY DEF Numbers
<1>2. \A k \in 1..(n - 1) : k \in 1..n
  OBVIOUS
<1>3. n \in 1..n
  OBVIOUS
<1>4. b # 0 => b \in Numbers
  BY <1>1, <1>2 DEF Leader
<1>5. CASE ~Shows(line[n], x, y)
  <2>1. Better(line, n, b, x, y) = b
    BY <1>5 DEF Better
  <2> QED
    BY <1>1, <1>2, <1>5, <2>1 DEF Leader
<1>6. CASE Shows(line[n], x, y) /\ b = 0
  <2>1. Better(line, n, b, x, y) = line[n]
    BY <1>6 DEF Better
  <2>2. \A k \in 1..n : Shows(line[k], x, y) => line[k] = line[n]
    BY <1>1, <1>6 DEF Leader
  <2> QED
    BY <1>1, <1>3, <1>6, <2>1, <2>2 DEF Leader
<1>7. CASE Shows(line[n], x, y) /\ b # 0 /\ Beats(line[n], b)
  <2>1. Better(line, n, b, x, y) = line[n]
    BY <1>7 DEF Better
  <2>2. Before(line[n], b)
    BY <1>1, <1>3, <1>4, <1>7, SpritesInOrder
  <2>3. ASSUME NEW k \in 1..n, Shows(line[k], x, y)
        PROVE  line[k] = line[n] \/ Before(line[n], line[k])
    <3>1. CASE k = n
      BY <3>1
    <3>2. CASE k \in 1..(n - 1)
      <4>1. line[k] = b \/ Before(b, line[k])
        BY <1>7, <2>3, <3>2 DEF Leader
      <4> QED
        BY <1>1, <1>3, <1>4, <1>7, <2>2, <4>1, SpritesInOrder
    <3> QED
      BY <1>1, <3>1, <3>2
  <2> QED
    BY <1>1, <1>3, <1>7, <2>1, <2>3 DEF Leader
<1>8. CASE Shows(line[n], x, y) /\ b # 0 /\ ~Beats(line[n], b)
  <2>1. Better(line, n, b, x, y) = b
    BY <1>8 DEF Better
  <2>2. line[n] = b \/ Before(b, line[n])
    BY <1>1, <1>3, <1>4, <1>8, SpritesInOrder
  <2>3. ASSUME NEW k \in 1..n, Shows(line[k], x, y)
        PROVE  line[k] = b \/ Before(b, line[k])
    <3>1. CASE k = n
      BY <2>2, <3>1
    <3>2. CASE k \in 1..(n - 1)
      BY <1>8, <2>3, <3>2 DEF Leader
    <3> QED
      BY <1>1, <3>1, <3>2
  <2>4. \E k \in 1..n : line[k] = b /\ Shows(b, x, y)
    BY <1>2, <1>8 DEF Leader
  <2> QED
    BY <1>8, <2>1, <2>3, <2>4 DEF Leader
<1> QED
  BY <1>5, <1>6, <1>7, <1>8

\* The loop over the line.
Searched(best, x, y) ==
  LET line == LineSprites(y)
  IN /\ best[0] = 0
     /\ \A n \in 1..Len(line) : best[n] = Better(line, n, best[n - 1], x, y)
     /\ On("obj") => Candidate(x, y) = best[Len(line)]

LEMMA LineIsSearched ==
  ASSUME DrawTypeOK, NEW x, NEW y
  PROVE  \E best : Searched(best, x, y)
  <1> DEFINE line == LineSprites(y)
             N == Len(line)
             S == Numbers \union {0}
             F == [p \in (1..N) \X S |-> Better(line, p[1], p[2], x, y)]
             Fits(g) == g = [n \in 0..N |->
                               IF n = 0 THEN 0
                               ELSE IF Shows(line[n], x, y) /\ (g[n - 1] = 0 \/ Beats(line[n], g[n - 1])) THEN line[n]
                               ELSE g[n - 1]]
             st == CHOOSE g : Fits(g)
  <1>1. line \in Seq(Numbers) /\ N \in Nat
    <2>1. line \in Seq(Numbers)
      BY LineHoldsTheFirst
    <2> HIDE DEF line
    <2> QED
      BY <2>1
  <1>2. F \in [(1..N) \X S -> S]
    <2> SUFFICES ASSUME NEW n \in 1..N, NEW b \in S
                 PROVE  Better(line, n, b, x, y) \in S
      OBVIOUS
    <2> HIDE DEF line
    <2>1. line[n] \in Numbers
      BY <1>1
    <2> QED
      BY <2>1 DEF Better
  <1>3. 0 \in S
    OBVIOUS
  <1>4. PICK f \in [0..N -> S] : Leads(f, 0, F, N)
    <2> HIDE DEF F, N, S
    <2> QED
      BY <1>1, <1>2, <1>3, Chain
  <1>5. Fits(f)
    <2>1. ASSUME NEW n \in 1..N
          PROVE  f[n] = Better(line, n, f[n - 1], x, y)
      <3>1. f[n] = F[<<n, f[n - 1]>>]
        BY <1>4 DEF Leads
      <3>2. f[n - 1] \in S
        <4>1. n - 1 \in 0..N
          BY <1>1
        <4> HIDE DEF S, N
        <4> QED
          BY <1>4, <4>1
      <3> HIDE DEF S, line
      <3>3. <<n, f[n - 1]>> \in (1..N) \X S
        BY <3>2
      <3> QED
        BY <3>1, <3>3
    <2>2. f[0] = 0
      BY <1>4 DEF Leads
    <2>3. f = [n \in 0..N |-> f[n]]
      <3> HIDE DEF S, N
      <3> QED
        BY <1>4
    <2>4. \A n \in 0..N : n # 0 => n \in 1..N
      BY <1>1
    <2> HIDE DEF N, S, line
    <2> QED
      BY <2>1, <2>2, <2>3, <2>4 DEF Better
  <1>6. Fits(st)
    <2> HIDE DEF Fits
    <2> QED
      BY <1>5
  <1>7. On("obj") => Candidate(x, y) = st[N]
    BY DEF Candidate
  <1> HIDE DEF st
  <1>8. st[0] = 0 /\ \A n \in 1..N : st[n] = Better(line, n, st[n - 1], x, y)
    <2>1. \A n \in 1..N : n \in 0..N /\ n # 0
      BY <1>1
    <2>2. 0 \in 0..N
      BY <1>1
    <2> HIDE DEF N, line
    <2> QED
      BY <1>6, <2>1, <2>2, Zenon DEF Better
  <1> QED
    BY <1>7, <1>8 DEF Searched

LEMMA CandidateLeads ==
  ASSUME DrawTypeOK, NEW x, NEW y, On("obj")
  PROVE  Leader(LineSprites(y), Len(LineSprites(y)), Candidate(x, y), x, y)
  <1> DEFINE line == LineSprites(y)
             N == Len(line)
  <1>1. line \in Seq(Numbers)
    BY LineHoldsTheFirst
  <1>2. PICK best : Searched(best, x, y)
    BY LineIsSearched
  <1>3. /\ best[0] = 0 /\ Candidate(x, y) = best[N]
        /\ \A n \in 1..N : best[n] = Better(line, n, best[n - 1], x, y)
    BY <1>2 DEF Searched
  <1> HIDE DEF line
  <1> DEFINE T == {n \in 0..N : Leader(line, n, best[n], x, y)}
  <1>4. N \in Nat
    BY <1>1
  <1>5. 0 \in T
    BY <1>3, <1>4 DEF Leader
  <1>6. ASSUME NEW n \in 1..N, n - 1 \in T
        PROVE  n \in T
    <2>1. Leader(line, n, Better(line, n, best[n - 1], x, y), x, y)
      BY <1>1, <1>6, LeaderChanges
    <2>2. n \in 0..N
      BY <1>4
    <2> QED
      BY <1>3, <2>1, <2>2
  <1>7. N \in T
    <2> HIDE DEF T, N
    <2> QED
      BY <1>4, <1>5, <1>6, UpTo
  <1> QED
    BY <1>3, <1>7 DEF line

LEMMA SpritesAreOrdered ==
  ASSUME DrawTypeOK
  PROVE  SpritesAsOrdered
<1> SUFFICES ASSUME NEW x \in Columns, NEW y \in Scanlines, On("obj")
             PROVE  LET all      == DOMAIN scene.sprites
                        eligible == {i \in all : /\ OnLine(scene.sprites[i], y)
                                                 /\ Cardinality({j \in all : j < i /\ OnLine(scene.sprites[j], y)}) < SpritesOnLine}
                        showing  == {i \in eligible : Shows(i, x, y)}
                        before(i, j) == IF scene.cgb \/ scene.sprites[i].x = scene.sprites[j].x THEN i < j
                                        ELSE scene.sprites[i].x < scene.sprites[j].x
                    IN IF showing = {} THEN Candidate(x, y) = 0
                       ELSE Candidate(x, y) \in showing
                            /\ \A j \in showing \ {Candidate(x, y)} : before(Candidate(x, y), j)
  BY DEF SpritesAsOrdered
<1> DEFINE all == DOMAIN scene.sprites
           eligible == {i \in all : /\ OnLine(scene.sprites[i], y)
                                    /\ Cardinality({j \in all : j < i /\ OnLine(scene.sprites[j], y)}) < SpritesOnLine}
           showing == {i \in eligible : Shows(i, x, y)}
           line == LineSprites(y)
           c == Candidate(x, y)
<1>1. Len(scene.sprites) \in Nat /\ all = Numbers
  BY SceneFields DEF Numbers
<1>2. ASSUME NEW i \in Numbers
      PROVE  {j \in all : j < i /\ OnLine(scene.sprites[j], y)} = Here(y, i - 1)
  <2>1. \A j \in Numbers : j < i <=> j \in 1..(i - 1)
    BY <1>1 DEF Numbers
  <2>2. \A j \in 1..(i - 1) : j \in Numbers
    BY <1>1 DEF Numbers
  <2> QED
    BY <1>1, <2>1, <2>2 DEF Here
<1>3. eligible = Members(line)
  <2>1. Members(line) = Chosen(y, Len(scene.sprites))
    BY LineHoldsTheFirst
  <2> HIDE DEF line
  <2>2. eligible = {i \in Numbers : OnLine(scene.sprites[i], y) /\ Cardinality(Here(y, i - 1)) < SpritesOnLine}
    BY <1>1, <1>2
  <2> QED
    BY <2>1, <2>2 DEF Chosen, Numbers
<1>4. Leader(line, Len(line), c, x, y) /\ line \in Seq(Numbers)
  BY CandidateLeads, LineHoldsTheFirst
<1> HIDE DEF eligible, line, c, all
<1>5. \A k \in 1..Len(line) : line[k] \in eligible /\ line[k] # 0
  BY <1>3, <1>4 DEF Members, Numbers
<1>6. CASE c = 0
  <2>1. \A k \in 1..Len(line) : ~Shows(line[k], x, y)
    BY <1>4, <1>6 DEF Leader
  <2>2. showing = {}
    BY <1>3, <2>1 DEF Members
  <2> QED
    BY <1>6, <2>2 DEF c, eligible, all
<1>7. CASE c # 0
  <2>1. /\ \E k \in 1..Len(line) : line[k] = c /\ Shows(c, x, y)
        /\ \A k \in 1..Len(line) : Shows(line[k], x, y) => line[k] = c \/ Before(c, line[k])
    BY <1>4, <1>7 DEF Leader
  <2>2. c \in showing
    BY <1>5, <2>1
  <2>3. \A j \in showing \ {c} : Before(c, j)
    BY <1>3, <2>1 DEF Members
  <2> HIDE DEF showing
  <2>4. showing # {}
    BY <2>2
  <2> QED
    BY <2>2, <2>3, <2>4 DEF c, showing, eligible, all, Before
<1> QED
  BY <1>6, <1>7

-----------------------------------------------------------------------------

(***************************************************************************)
(* Whatever is on the screen, the sprite that shows is the first in the    *)
(* order among those the line has room for, both frames agree without      *)
(* colors, scrolling moves the picture by one and flipping mirrors a       *)
(* sprite.                                                                 *)
(***************************************************************************)
THEOREM PicturesAlwaysRight == DrawSpec => PicturesAreRight
<1>1. DrawInit => DrawTypeOK
  BY DrawingAssumption DEF DrawInit, DrawTypeOK
<1>2. DrawTypeOK /\ [DrawNext]_scene => DrawTypeOK'
  BY SceneKeeps
<1>3. DrawTypeOK => SpritesAsOrdered /\ FramesMirror
  BY SpritesAreOrdered, OutputsAgree
<1>4. DrawTypeOK /\ [DrawNext]_scene =>
        [ scene' # scene => \A x \in Columns, y \in Scanlines :
            IF WindowVisible(x, y) THEN BackgroundPixel(x, y)' = BackgroundPixel(x, y)
            ELSE /\ (scene'.scx = (scene.scx + 1) % Byte /\ x + 1 \in Columns /\ ~WindowVisible(x + 1, y))
                      => BackgroundPixel(x, y)' = BackgroundPixel(x + 1, y)
                 /\ (scene'.scy = (scene.scy + 1) % Byte /\ y + 1 \in Scanlines /\ ~WindowVisible(x, y + 1))
                      => BackgroundPixel(x, y)' = BackgroundPixel(x, y + 1) ]_scene
  BY ScrollsRight
<1>5. DrawTypeOK /\ [DrawNext]_scene =>
        [ scene' # scene => \A c \in 0..(TileSize - 1), r \in 0..(SpriteHeight - 1) :
            LET s == scene.sprites[1]
                t == scene'.sprites[1]
                at(sprite, col, row) == SpriteTexel(sprite, Left(s) + col, Top(s) + row)
            IN scene.sprites # <<>> =>
                 /\ t.xflip # s.xflip => at(t, TileSize - 1 - c, r) = at(s, c, r)
                 /\ t.yflip # s.yflip => at(t, c, SpriteHeight - 1 - r) = at(s, c, r) ]_scene
  BY FlipsRight
<1> QED
  BY <1>1, <1>2, <1>3, <1>4, <1>5, PTL DEF DrawSpec, PicturesAreRight, ScrollMoves, FlipsMirror
=============================================================================
