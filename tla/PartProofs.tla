----------------------------- MODULE PartProofs -----------------------------
(***************************************************************************)
(* Proofs about Joypad, for any number of lines, about Serial, for any     *)
(* bytes and any number of transfers, about Cartridge, for any images, any *)
(* size of a bank and anything a program writes to the registers, about    *)
(* the memories of Memories: every address and bank of the map, and        *)
(* palettes of any size, and about Bus, for any pages, contents, banks and *)
(* length of DMA.                                                          *)
(***************************************************************************)
EXTENDS Ports, Memories, Bus, FiniteSetTheorems, TLAPS

-----------------------------------------------------------------------------
(* The joypad *)

\* More rows and more buttons pull down more lines.
LEMMA DownGrows ==
  ASSUME NEW rows, NEW more, rows \subseteq more,
         NEW held, NEW others, held \subseteq others
  PROVE  Down(rows, held) \subseteq Down(more, others)
BY DEF Down

\* A line that falls is down afterwards, and something was added.
LEMMA FallAdds ==
  ASSUME NEW rows, NEW more, NEW held, NEW others,
         Falls(Down(rows, held), Down(more, others))
  PROVE  /\ Down(more, others) # {}
         /\ ~(more \subseteq rows /\ others \subseteq held)
<1>1. Down(more, others) # {}
  BY DEF Falls
<1>2. ASSUME more \subseteq rows, others \subseteq held PROVE FALSE
  BY <1>2, DownGrows DEF Falls
<1> QED
  BY <1>1, <1>2

\* The variables of the joypad keep their types.
THEOREM JoypadTypes == JoypadSpec => []JoypadTypeOK
<1>1. JoypadInit => JoypadTypeOK
  BY DEF JoypadInit, JoypadTypeOK
<1>2. JoypadTypeOK /\ [JoypadNext]_joypadVars => JoypadTypeOK'
  <2> SUFFICES ASSUME JoypadTypeOK, [JoypadNext]_joypadVars PROVE JoypadTypeOK'
    OBVIOUS
  <2> USE DEF JoypadTypeOK
  <2>1. ASSUME NEW rows \in SUBSET Rows, WriteP1(rows) PROVE JoypadTypeOK'
    BY <2>1 DEF WriteP1
  <2>2. ASSUME NEW b \in Buttons, NEW down \in BOOLEAN, SetButton(b, down) PROVE JoypadTypeOK'
    BY <2>2 DEF SetButton
  <2>3. CASE Acknowledge
    BY <2>3 DEF Acknowledge
  <2>4. CASE JoypadReset
    BY <2>4 DEF JoypadReset
  <2>5. CASE UNCHANGED joypadVars
    BY <2>5 DEF joypadVars
  <2> QED
    BY <2>1, <2>2, <2>3, <2>4, <2>5 DEF JoypadNext
<1> QED
  BY <1>1, <1>2, PTL DEF JoypadSpec

\* A line of one selected row is down only for the button of that row.
LEMMA OwnLine ==
  ASSUME NEW b \in Buttons, NEW held \in SUBSET Buttons, b \notin held
  PROVE  b[2] \notin Down({b[1]}, held)
<1>1. ASSUME NEW c \in held, c[1] = b[1], c[2] = b[2] PROVE FALSE
  <2>1. c = b
    BY <1>1 DEF Buttons
  <2> QED
    BY <2>1
<1> QED
  BY <1>1 DEF Down

\* The step that presses a button of the one selected row requests the interrupt.
LEMMA PressStep ==
  ASSUME JoypadTypeOK, JoypadNext, NEW b \in Buttons,
         lastPad' = <<"press", b>>, b \notin pressed, selected = {b[1]}
  PROVE  joypIf'
<1>1. ASSUME NEW rows \in SUBSET Rows, WriteP1(rows) PROVE FALSE
  BY <1>1 DEF WriteP1
<1>2. ASSUME Acknowledge \/ JoypadReset PROVE FALSE
  BY <1>2 DEF Acknowledge, JoypadReset
<1>3. ASSUME NEW d \in Buttons, NEW down \in BOOLEAN, SetButton(d, down) PROVE joypIf'
  <2>1. down /\ d = b
    BY <1>3 DEF SetButton
  <2>2. b[2] \notin Down(selected, pressed)
    BY OwnLine DEF JoypadTypeOK
  <2>3. b[2] \in Down(selected, pressed \union {b})
    BY DEF Down
  <2>4. Falls(Down(selected, pressed), Down(selected, pressed \union {b}))
    BY <2>2, <2>3 DEF Falls
  <2> QED
    BY <1>3, <2>1, <2>4 DEF SetButton
<1> QED
  BY <1>1, <1>2, <1>3 DEF JoypadNext

\* With one row selected every press in it is heard.
THEOREM EveryPressIsHeard == JoypadSpec => PressHeard
<1>1. JoypadTypeOK /\ [JoypadNext]_joypadVars =>
        [\A b \in Buttons :
           (lastPad' = <<"press", b>> /\ b \notin pressed /\ selected = {b[1]}) => joypIf']_joypadVars
  BY PressStep
<1> QED
  BY <1>1, JoypadTypes, PTL DEF JoypadSpec, PressHeard

\* Only what newly pulls a line down requests the interrupt.
LEMMA RequestStep ==
  ASSUME JoypadNext, ~joypIf, joypIf'
  PROVE  /\ Down(selected', pressed') # {}
         /\ lastPad'[1] # "release" /\ ~(selected' \subseteq selected /\ pressed' \subseteq pressed)
<1>1. ASSUME NEW rows \in SUBSET Rows, WriteP1(rows)
      PROVE  /\ Falls(Down(selected, pressed), Down(selected', pressed'))
             /\ lastPad'[1] # "release"
  BY <1>1 DEF WriteP1
<1>2. ASSUME Acknowledge \/ JoypadReset PROVE FALSE
  BY <1>2 DEF Acknowledge, JoypadReset
<1>3. ASSUME NEW b \in Buttons, NEW down \in BOOLEAN, SetButton(b, down)
      PROVE  /\ Falls(Down(selected, pressed), Down(selected', pressed'))
             /\ lastPad'[1] # "release"
  <2>1. Falls(Down(selected, pressed), Down(selected', pressed'))
    BY <1>3 DEF SetButton
  <2>2. ~(selected' \subseteq selected /\ pressed' \subseteq pressed)
    BY <2>1, FallAdds
  <2>3. down
    BY <1>3, <2>2 DEF SetButton
  <2> QED
    BY <1>3, <2>1, <2>3 DEF SetButton
<1> QED
  BY <1>1, <1>2, <1>3, FallAdds DEF JoypadNext

\* Releases and deselection never request the interrupt.
THEOREM NoRequestIsIdle == JoypadSpec => NoIdleRequest
<1>1. [JoypadNext]_joypadVars =>
        [(~joypIf /\ joypIf') =>
           /\ Down(selected', pressed') # {}
           /\ lastPad'[1] # "release" /\ ~(selected' \subseteq selected /\ pressed' \subseteq pressed)
        ]_joypadVars
  BY RequestStep
<1> QED
  BY <1>1, PTL DEF JoypadSpec, NoIdleRequest

-----------------------------------------------------------------------------
(* The serial port *)

\* What is sent, offered or received is bytes.
AllBytes == Bytes \union {0}

SerialInv == SerialTypeOK /\ PeerInOrder /\ LogIsExact

\* Bytes taken from the front of one sequence may be counted to the other.
LEMMA MoveOne ==
  ASSUME NEW got \in Seq(AllBytes), NEW rest \in Seq(AllBytes), rest # <<>>
  PROVE  Append(got, Head(rest)) \o Tail(rest) = got \o rest
OBVIOUS

LEMMA AppendLater ==
  ASSUME NEW got \in Seq(AllBytes), NEW rest \in Seq(AllBytes), NEW x \in AllBytes
  PROVE  got \o Append(rest, x) = Append(got \o rest, x)
OBVIOUS

LEMMA JoinLater ==
  ASSUME NEW got \in Seq(AllBytes), NEW rest \in Seq(AllBytes), NEW more \in Seq(AllBytes)
  PROVE  got \o (rest \o more) = (got \o rest) \o more
OBVIOUS

\* A queue of offered bytes is a sequence of them.
LEMMA OfferedBytes ==
  ASSUME NEW bytes \in SeqOf(Bytes, 2)
  PROVE  bytes \in Seq(AllBytes)
<1>1. PICK m \in 0..2 : bytes \in [1..m -> Bytes]
  BY DEF SeqOf
<1> QED
  BY <1>1 DEF AllBytes

\* A transfer moves the front of the queue to what was received, or takes an
\* idle byte or its own.
LEMMA TransferKeeps ==
  ASSUME SerialInv, Transfer
  PROVE  /\ sb' \in AllBytes /\ sc' \subseteq {"start", "internal"}
         /\ {log', queue', sent', received'} \subseteq Seq(AllBytes)
         /\ received' \o queue' = received \o queue
         /\ taken \o log' = Append(taken \o log, sb) /\ sent' = Append(sent, sb)
<1> USE DEF SerialInv, SerialTypeOK, AllBytes
<1>1. log' = Append(log, sb) /\ sent' = Append(sent, sb) /\ sc' = {"internal"}
  BY DEF Transfer
<1>2. taken \o log' = Append(taken \o log, sb)
  BY <1>1, AppendLater
<1>3. CASE peer = "NetworkedPeer" /\ queue # <<>>
  <2>1. Answer = <<Head(queue), Tail(queue)>>
    BY <1>3 DEF Answer
  <2>2. sb' = Head(queue) /\ queue' = Tail(queue) /\ received' = Append(received, Head(queue))
    BY <1>3, <2>1 DEF Transfer
  <2>3. received' \o queue' = received \o queue
    BY <1>3, <2>2, MoveOne
  <2>4. Head(queue) \in AllBytes /\ Tail(queue) \in Seq(AllBytes)
    BY <1>3
  <2>5. Append(received, Head(queue)) \in Seq(AllBytes)
    BY <2>4
  <2>6. Append(log, sb) \in Seq(AllBytes) /\ Append(sent, sb) \in Seq(AllBytes)
    OBVIOUS
  <2> QED
    BY <1>1, <1>2, <2>2, <2>3, <2>4, <2>5, <2>6
<1>4. CASE ~(peer = "NetworkedPeer" /\ queue # <<>>)
  <2>1. Answer[2] = queue /\ Answer[1] \in {Idle, sb}
    BY <1>4 DEF Answer, Modes
  <2>2. queue' = queue /\ received' = received /\ sb' \in AllBytes
    BY <1>4, <2>1, SerialAssumption DEF Transfer
  <2> QED
    BY <1>1, <1>2, <2>2
<1> QED
  BY <1>3, <1>4

\* The program gets what the remote peer offers in order, and the host what
\* the program sent: SerialInv is inductive.
THEOREM SerialExact == SerialSpec => []SerialInv
<1>1. SerialInit => SerialInv
  BY DEF SerialInit, SerialInv, SerialTypeOK, PeerInOrder, LogIsExact, Modes
<1>2. SerialInv /\ [SerialNext]_serialVars => SerialInv'
  <2> SUFFICES ASSUME SerialInv, [SerialNext]_serialVars PROVE SerialInv'
    OBVIOUS
  <2> USE DEF SerialInv, SerialTypeOK, PeerInOrder, LogIsExact, AllBytes
  <2>1. ASSUME NEW byte \in Bytes, WriteSb(byte) PROVE SerialInv'
    BY <2>1 DEF WriteSb
  <2>2. ASSUME NEW bits \in SUBSET {"start", "internal"}, WriteSc(bits) PROVE SerialInv'
    <3>1. CASE Transfer
      BY <2>2, <3>1, TransferKeeps DEF WriteSc
    <3>2. CASE sc' = bits /\ UNCHANGED <<sb, log, queue, sent, received>>
      BY <2>2, <3>2 DEF WriteSc
    <3> QED
      BY <2>2, <3>1, <3>2 DEF WriteSc
  <2>3. ASSUME NEW m \in Modes, SetMode(m) PROVE SerialInv'
    <3>1. CASE m # peer
      BY <2>3, <3>1 DEF SetMode
    <3>2. CASE m = peer
      BY <2>3, <3>2 DEF SetMode
    <3> QED
      BY <3>1, <3>2
  <2>4. ASSUME NEW bytes \in SeqOf(Bytes, 2), Enqueue(bytes) PROVE SerialInv'
    <3>1. bytes \in Seq(AllBytes)
      BY OfferedBytes
    <3>2. queue' = queue \o bytes /\ offered' = offered \o bytes /\ received' = received
      BY <2>4 DEF Enqueue
    <3>3. queue' \in Seq(AllBytes) /\ offered' \in Seq(AllBytes)
      BY <3>1, <3>2
    <3>4. received \in Seq(AllBytes) /\ queue \in Seq(AllBytes) /\ received \o queue = offered
      OBVIOUS
    <3>5. received \o (queue \o bytes) = (received \o queue) \o bytes
      <4> HIDE DEF AllBytes
      <4> QED
        BY <3>1, <3>4, JoinLater
    <3>6. received' \o queue' = offered'
      BY <3>2, <3>4, <3>5
    <3> QED
      BY <2>4, <3>3, <3>6 DEF Enqueue
  <2>5. CASE TakeLog
    <3>1. taken' = taken \o log /\ log' = <<>> /\ sent' = sent
      BY <2>5 DEF TakeLog
    <3>2. taken' \in Seq(AllBytes) /\ taken' \o log' = sent'
      BY <3>1
    <3> QED
      BY <2>5, <3>1, <3>2 DEF TakeLog
  <2>6. CASE SerialReset
    <3>1. taken \o <<>> = taken
      OBVIOUS
    <3> QED
      BY <2>6, <3>1 DEF SerialReset
  <2>7. CASE UNCHANGED serialVars
    BY <2>7 DEF serialVars
  <2> QED
    BY <2>1, <2>2, <2>3, <2>4, <2>5, <2>6, <2>7 DEF SerialNext
<1> QED
  BY <1>1, <1>2, PTL DEF SerialSpec

\* PeerInOrder of Serial, for any bytes and any number of transfers.
THEOREM PeerBytesInOrder == SerialSpec => []PeerInOrder
<1>1. SerialInv => PeerInOrder
  BY DEF SerialInv
<1> QED
  BY <1>1, SerialExact, PTL

\* LogIsExact of Serial, likewise.
THEOREM HostSeesEveryByte == SerialSpec => []LogIsExact
<1>1. SerialInv => LogIsExact
  BY DEF SerialInv
<1> QED
  BY <1>1, SerialExact, PTL

(***************************************************************************)
(* Both ports keep their promises, for any lines, bytes and transfers.     *)
(***************************************************************************)
THEOREM PortsExact == JoypadSpec /\ SerialSpec => PortsHold
<1>1. SerialInv => SerialTypeOK /\ PeerInOrder /\ LogIsExact
  BY DEF SerialInv
<1> QED
  BY <1>1, JoypadTypes, SerialExact, EveryPressIsHeard, NoRequestIsIdle, PTL DEF PortsHold

-----------------------------------------------------------------------------
(* The cartridge *)

-----------------------------------------------------------------------------
(* Arithmetic *)

LEMMA Remainder ==
  ASSUME NEW x \in Nat, NEW n \in Nat \ {0}
  PROVE  x % n \in 0..(n - 1)
OBVIOUS

LEMMA SmallRemainder ==
  ASSUME NEW n \in Nat \ {0}, NEW x \in 0..(n - 1)
  PROVE  x % n = x
OBVIOUS

LEMMA Quotients ==
  ASSUME NEW x \in Nat, NEW n \in Nat \ {0}
  PROVE  x \div n \in Nat
OBVIOUS

-----------------------------------------------------------------------------
(* What never changes: the image, its mapper and its number of banks. *)

LEMMA ImageStays ==
  ASSUME [CartNext]_cartVars
  PROVE  image' = image
BY DEF CartNext, cartVars, WriteControl, WriteRam, SaveData, LoadSaveData, CartReset

LEMMA CountIsNat ==
  ASSUME CartTypeOK
  PROVE  romCount \in Nat
<1>1. image.len \in Nat /\ BankSize \in Nat \ {0}
  BY CartridgeAssumption, HeaderAssumption DEF CartTypeOK
<1> QED
  BY <1>1, Quotients DEF romCount

\* The registers keep the widths the mappers give them.
THEOREM CartTypes == CartSpec => []CartTypeOK
<1>1. CartInit => CartTypeOK
  <2> SUFFICES ASSUME CartInit PROVE CartTypeOK
    OBVIOUS
  <2>1. image \in Images /\ FromRom(image) = "ok"
    BY DEF CartInit
  <2>2. ramOn \in BOOLEAN /\ mode = 0 /\ high = 0 /\ low = 1 /\ ramSel = 0
    BY DEF CartInit
  <2>3. mode \in 0..1 /\ high \in 0..3 /\ low \in 0..255 /\ ramSel \in 0..15 /\ low \in 1..127
    BY <2>2
  <2> QED
    BY <2>1, <2>2, <2>3 DEF CartTypeOK
<1>2. CartTypeOK /\ [CartNext]_cartVars => CartTypeOK'
  <2> SUFFICES ASSUME CartTypeOK, [CartNext]_cartVars PROVE CartTypeOK'
    OBVIOUS
  <2>1. image' = image /\ mapper' = mapper
    BY ImageStays DEF mapper
  <2>2. ASSUME NEW block \in 0..7, NEW v \in ControlValues, WriteControl(block, v) PROVE CartTypeOK'
    <3>1. v \in 0..255
      BY CartridgeAssumption
    <3>2. v % 32 \in 0..31 /\ v % 4 \in 0..3 /\ v % 2 \in 0..1 /\ v % 128 \in 0..127 /\ v % 16 \in 0..15
      BY <3>1
    <3>3. LowBits(v) \in 0..255 /\ (mapper \in {"mbc1", "mbc3"} => LowBits(v) \in 1..127)
      BY <3>1, <3>2 DEF LowBits, NonZero
    <3>4. Gate(v) \in BOOLEAN
      BY DEF Gate
    <3>5. CASE mapper = "mbc1"
      BY <2>1, <2>2, <3>2, <3>3, <3>4, <3>5 DEF CartTypeOK, WriteControl, ControlMbc1
    <3>6. CASE mapper = "mbc3"
      BY <2>1, <2>2, <3>2, <3>3, <3>4, <3>6 DEF CartTypeOK, WriteControl, ControlMbc3
    <3>7. CASE mapper = "mbc5"
      BY <2>1, <2>2, <3>2, <3>3, <3>4, <3>7 DEF CartTypeOK, WriteControl, ControlMbc5
    <3>8. CASE mapper \notin {"mbc1", "mbc3", "mbc5"}
      BY <2>1, <2>2, <3>8 DEF CartTypeOK, WriteControl
    <3> QED
      BY <3>5, <3>6, <3>7, <3>8
  <2>3. ASSUME NEW v \in Data, WriteRam(v) PROVE CartTypeOK'
    BY <2>1, <2>3 DEF CartTypeOK, WriteRam
  <2>4. CASE SaveData
    BY <2>1, <2>4 DEF CartTypeOK, SaveData
  <2>5. ASSUME NEW data \in Files, LoadSaveData(data) PROVE CartTypeOK'
    BY <2>1, <2>5 DEF CartTypeOK, LoadSaveData
  <2>6. CASE CartReset
    <3>1. ramOn' \in BOOLEAN /\ mode' = 0 /\ high' = 0 /\ low' = 1 /\ ramSel' = 0
      BY <2>6 DEF CartReset
    <3>2. mode' \in 0..1 /\ high' \in 0..3 /\ low' \in 0..255 /\ ramSel' \in 0..15 /\ low' \in 1..127
      BY <3>1
    <3> QED
      BY <2>1, <3>1, <3>2 DEF CartTypeOK
  <2>7. CASE UNCHANGED cartVars
    BY <2>1, <2>7 DEF CartTypeOK, cartVars
  <2> QED
    BY <2>2, <2>3, <2>4, <2>5, <2>6, <2>7 DEF CartNext
<1> QED
  BY <1>1, <1>2, PTL DEF CartSpec

-----------------------------------------------------------------------------
(* Banks shown are banks of the image. *)

LEMMA ShownBanks ==
  ASSUME CartTypeOK, romCount >= 2
  PROVE  /\ FixedBank \in 0..(romCount - 1) /\ WindowBank \in 0..(romCount - 1)
         /\ mapper # "mbc5" => WindowBank # 0
<1>1. romCount \in Nat \ {0} /\ romCount >= 2
  BY CountIsNat
<1>2. high * 32 \in Nat /\ high * 32 + low \in Nat /\ low \in Nat /\ high * 256 + low \in Nat
  BY DEF CartTypeOK
<1>3. /\ (high * 32) % romCount \in 0..(romCount - 1)
      /\ (high * 32 + low) % romCount \in 0..(romCount - 1)
      /\ low % romCount \in 0..(romCount - 1)
      /\ (high * 256 + low) % romCount \in 0..(romCount - 1)
  BY <1>1, <1>2, Remainder
<1>4. FixedBank \in 0..(romCount - 1)
  BY <1>1, <1>3 DEF FixedBank, Fixed
<1>5. ASSUME NEW x \in 0..(romCount - 1)
      PROVE  NonZero(x) \in 1..(romCount - 1)
  BY <1>1, <1>5 DEF NonZero
<1>6. CASE mapper = "mbc1"
  BY <1>3, <1>4, <1>5, <1>6 DEF WindowBank, Window, WindowMbc1
<1>7. CASE mapper = "mbc3"
  BY <1>3, <1>4, <1>5, <1>7 DEF WindowBank, Window, WindowMbc3
<1>8. CASE mapper = "mbc5"
  BY <1>3, <1>4, <1>8 DEF WindowBank, Window, WindowMbc5
<1>9. CASE mapper \notin {"mbc1", "mbc3", "mbc5"}
  <2>1. WindowBank = 1
    BY <1>9 DEF WindowBank, Window
  <2> QED
    BY <1>1, <1>4, <2>1
<1> QED
  BY <1>6, <1>7, <1>8, <1>9

\* RomInImage of Cartridge, for any image.
THEOREM ProgramsSeeTheirImage == CartSpec => []RomInImage
<1>1. CartTypeOK => RomInImage
  BY ShownBanks DEF RomInImage
<1> QED
  BY <1>1, CartTypes, PTL

-----------------------------------------------------------------------------
(* Every bank can be shown. *)

LEMMA ShownAtFixed ==
  ASSUME NEW m \in 0..1, NEW h \in 0..3
  PROVE  Fixed(m, h) \in Shown
BY DEF Shown

LEMMA ShownAtWindow ==
  ASSUME NEW v \in 0..255, NEW h \in 0..1
  PROVE  Window(LowBits(v), h) \in Shown
<1>1. h \in 0..3 /\ h \in (IF mapper = "mbc1" THEN 0..3 ELSE 0..1)
  OBVIOUS
<1> QED
  BY <1>1 DEF Shown

LEMMA ShownAtWindowMbc1 ==
  ASSUME mapper = "mbc1", NEW v \in 0..255, NEW h \in 0..3
  PROVE  Window(LowBits(v), h) \in Shown
BY DEF Shown

\* MBC1 shows the banks whose low five bits are zero at 0000 and the others
\* at 4000.
LEMMA ShowsMbc1 ==
  ASSUME mapper = "mbc1", romCount \in 2..128, NEW b \in 0..(romCount - 1)
  PROVE  b \in Shown
<1>1. PICK h \in 0..3, l \in 0..31 : h * 32 + l = b
  <2>1. b \div 32 \in 0..3 /\ b % 32 \in 0..31 /\ (b \div 32) * 32 + (b % 32) = b
    OBVIOUS
  <2> QED
    BY <2>1
<1>2. b % romCount = b
  BY SmallRemainder
<1>3. CASE l = 0
  <2>1. Fixed(1, h) = b
    BY <1>1, <1>2, <1>3 DEF Fixed
  <2> QED
    BY <2>1, ShownAtFixed
<1>4. CASE l # 0
  <2>1. l \in 0..255 /\ l % 32 = l /\ b # 0
    BY <1>1, <1>4
  <2>2. LowBits(l) = l
    BY <1>4, <2>1 DEF LowBits, NonZero
  <2>3. Window(l, h) = b
    BY <1>1, <1>2, <2>1 DEF Window, WindowMbc1, NonZero
  <2>4. Window(LowBits(l), h) \in Shown
    BY <2>1, ShownAtWindowMbc1
  <2> QED
    BY <2>2, <2>3, <2>4
<1> QED
  BY <1>3, <1>4

\* MBC3 shows bank 0 at 0000 and the others at 4000.
LEMMA ShowsMbc3 ==
  ASSUME mapper = "mbc3", romCount \in 2..128, NEW b \in 0..(romCount - 1)
  PROVE  b \in Shown
<1>1. b \in 0..127 /\ b % romCount = b
  BY SmallRemainder
<1>2. CASE b = 0
  <2>1. Fixed(0, 0) = 0
    BY DEF Fixed
  <2> QED
    BY <1>2, <2>1, ShownAtFixed
<1>3. CASE b # 0
  <2>1. b \in 0..255 /\ b % 128 = b
    BY <1>1
  <2>2. LowBits(b) = b /\ Window(b, 0) = b
    BY <1>1, <1>3, <2>1 DEF LowBits, NonZero, Window, WindowMbc3
  <2>3. Window(LowBits(b), 0) \in Shown
    BY <2>1, ShownAtWindow
  <2> QED
    BY <2>2, <2>3
<1> QED
  BY <1>2, <1>3

\* MBC5 shows every bank at 4000.
LEMMA ShowsMbc5 ==
  ASSUME mapper = "mbc5", romCount \in 2..512, NEW b \in 0..(romCount - 1)
  PROVE  b \in Shown
<1>1. PICK h \in 0..1, l \in 0..255 : h * 256 + l = b
  <2>1. b \div 256 \in 0..1 /\ b % 256 \in 0..255 /\ (b \div 256) * 256 + (b % 256) = b
    OBVIOUS
  <2> QED
    BY <2>1
<1>2. b % romCount = b
  BY SmallRemainder
<1>3. LowBits(l) = l /\ Window(l, h) = b
  BY <1>1, <1>2 DEF LowBits, Window, WindowMbc5
<1>4. Window(LowBits(l), h) \in Shown
  BY ShownAtWindow
<1> QED
  BY <1>3, <1>4

\* EveryBankShows of Cartridge, for images of any number of banks: the
\* replacement of zero hides no bank that the mapper reaches.
THEOREM NoBankIsHidden == CartSpec => []EveryBankShows
<1>1. ASSUME CartTypeOK, romCount \in 2..Reach, NEW b \in 0..(romCount - 1)
      PROVE  b \in Shown
  <2>1. CASE mapper = "mbc1"
    BY <1>1, <2>1, ShowsMbc1 DEF Reach
  <2>2. CASE mapper = "mbc3"
    BY <1>1, <2>2, ShowsMbc3 DEF Reach
  <2>3. CASE mapper = "mbc5"
    BY <1>1, <2>3, ShowsMbc5 DEF Reach
  <2>4. CASE mapper \notin {"mbc1", "mbc3", "mbc5"}
    <3>1. b \in {0, 1}
      BY <1>1, <2>4 DEF Reach
    <3>2. Fixed(0, 0) = 0 /\ Fixed(0, 0) \in Shown
      BY <2>4, ShownAtFixed DEF Fixed
    <3>3. Window(LowBits(0), 0) = 1 /\ Window(LowBits(0), 0) \in Shown
      BY <2>4, ShownAtWindow DEF Window
    <3> QED
      BY <3>1, <3>2, <3>3
  <2> QED
    BY <2>1, <2>2, <2>3, <2>4
<1>2. EveryBankShows <=> (Fresh /\ romCount \in 2..Reach => 0..(romCount - 1) \subseteq Shown)
  BY DEF EveryBankShows
<1>3. CartTypeOK => EveryBankShows
  BY <1>1, <1>2
<1> QED
  BY <1>3, CartTypes, PTL

-----------------------------------------------------------------------------
(* The registers that switch the RAM of MBC1 leave small images alone. *)

LEMMA UpperBitsVanish ==
  ASSUME NEW n \in {2, 4, 8, 16, 32}, NEW h \in 0..3, NEW l \in 0..255
  PROVE  (h * 32) % n = 0 /\ (h * 32 + l) % n = l % n
<1>1. h = 0 \/ h = 1 \/ h = 2 \/ h = 3
  OBVIOUS
<1> QED
  BY <1>1

LEMMA SmallImages ==
  ASSUME mapper = "mbc1", romCount \in {2, 4, 8, 16, 32},
         NEW m, NEW h \in 0..3, NEW l \in 0..255
  PROVE  Fixed(m, h) = 0 /\ Window(l, h) = NonZero(l % romCount)
BY UpperBitsVanish DEF Fixed, Window, WindowMbc1

\* RamBankingKeepsRom of Cartridge, for any images of these sizes.
THEOREM RamBankingIsSafe == CartSpec => RamBankingKeepsRom
<1>1. CartTypeOK /\ CartTypeOK' /\ [CartNext]_cartVars =>
        [ (mapper = "mbc1" /\ romCount \in {2, 4, 8, 16, 32} /\ low' = low)
            => /\ FixedBank' = FixedBank /\ WindowBank' = WindowBank ]_cartVars
  <2> SUFFICES ASSUME CartTypeOK, CartTypeOK', [CartNext]_cartVars,
                      mapper = "mbc1", romCount \in {2, 4, 8, 16, 32}, low' = low
               PROVE  FixedBank' = FixedBank /\ WindowBank' = WindowBank
    OBVIOUS
  <2>1. image' = image /\ mapper' = mapper /\ romCount' = romCount
    BY ImageStays DEF mapper, romCount
  <2>2. FixedBank = 0 /\ WindowBank = NonZero(low % romCount)
    BY SmallImages DEF FixedBank, WindowBank, CartTypeOK
  <2>3. high' \in 0..3 /\ low' \in 0..255
    BY DEF CartTypeOK
  <2>4. FixedBank' = Fixed(mode', high') /\ WindowBank' = Window(low', high')
    BY <2>1 DEF FixedBank, WindowBank, Fixed, Window, WindowMbc1
  <2>5. Fixed(mode', high') = 0 /\ Window(low', high') = NonZero(low' % romCount)
    BY <2>3, SmallImages
  <2> QED
    BY <2>2, <2>4, <2>5
<1> QED
  BY <1>1, CartTypes, PTL DEF CartSpec, RamBankingKeepsRom

(***************************************************************************)
(* Programs see all of their image and nothing else, for any number of     *)
(* banks.                                                                  *)
(***************************************************************************)
THEOREM BanksAreSafe == CartSpec => BanksHold
BY ProgramsSeeTheirImage, NoBankIsHidden, RamBankingIsSafe, PTL DEF BanksHold

-----------------------------------------------------------------------------
(* RAM and header of the cartridge *)

LEMMA ModeTimes ==
  ASSUME NEW m \in 0..1, NEW h \in 0..3 PROVE m * h = IF m = 0 THEN 0 ELSE h
<1>1. m = 0 \/ m = 1
  OBVIOUS
<1> QED
  BY <1>1

\* RamRemembers of Cartridge: RAM holds what was written last.
THEOREM RamAlwaysRemembers == CartSpec => []RamRemembers
<1>1. CartInit => RamRemembers
  BY DEF CartInit, RamRemembers, BanksOfRam
<1>2. RamRemembers /\ CartTypeOK /\ [CartNext]_cartVars => RamRemembers'
  <2> SUFFICES ASSUME RamRemembers, CartTypeOK, [CartNext]_cartVars PROVE RamRemembers'
    OBVIOUS
  <2> USE DEF RamRemembers
  <2>1. BanksOfRam' = BanksOfRam
    BY ImageStays DEF BanksOfRam, Blank
  <2>2. ASSUME NEW v \in Data, WriteRam(v) PROVE RamRemembers'
    <3>1. Expected = Selection
      BY ModeTimes DEF CartTypeOK, Expected, Selection
    <3>2. mapper = "mbc3" => Selection = ramSel
      BY DEF Selection
    <3>3. RamOpen <=> Possible
      BY <3>1, <3>2 DEF RamOpen, Possible
    <3>4. CASE RamOpen
      BY <2>1, <2>2, <3>1, <3>3, <3>4 DEF WriteRam, RamBank
    <3>5. CASE ~RamOpen
      BY <2>1, <2>2, <3>3, <3>5 DEF WriteRam
    <3> QED
      BY <3>4, <3>5
  <2>3. ASSUME NEW data \in Files, LoadSaveData(data) PROVE RamRemembers'
    <3>1. Accepts(data) <=> battery /\ hasRam /\ DOMAIN data = BanksOfRam
      BY DEF Accepts
    <3>2. CASE Accepts(data)
      BY <2>1, <2>3, <3>1, <3>2 DEF LoadSaveData
    <3>3. CASE ~Accepts(data)
      BY <2>1, <2>3, <3>1, <3>3 DEF LoadSaveData
    <3> QED
      BY <3>2, <3>3
  <2>4. CASE UNCHANGED <<ram, latest>>
    BY <2>1, <2>4
  <2> QED
    BY <2>2, <2>3, <2>4 DEF CartNext, cartVars, WriteControl, SaveData, CartReset
<1> QED
  BY <1>1, <1>2, CartTypes, PTL DEF CartSpec

-----------------------------------------------------------------------------
(* The header *)

\* The checksum of six bytes, one after the other.
LEMMA SumOfSix ==
  ASSUME NEW i, DOMAIN HeaderBytes(i) = 1..6, Len(HeaderBytes(i)) = 6
  PROVE  Checksum(i) =
           Subtracted(Subtracted(Subtracted(Subtracted(Subtracted(Subtracted(0,
             i.title), i.cgb), i.type), i.rom), i.ram), i.dest)
<1> DEFINE bytes == HeaderBytes(i)
           Fits(g) == g = [n \in 0..Len(bytes) |-> IF n = 0 THEN 0 ELSE Subtracted(g[n - 1], bytes[n])]
           st == CHOOSE g : Fits(g)
           s1 == Subtracted(0, bytes[1])
           s2 == Subtracted(s1, bytes[2])
           s3 == Subtracted(s2, bytes[3])
           s4 == Subtracted(s3, bytes[4])
           s5 == Subtracted(s4, bytes[5])
           s6 == Subtracted(s5, bytes[6])
           f == [n \in 0..6 |-> CASE n = 0 -> 0 [] n = 1 -> s1 [] n = 2 -> s2 [] n = 3 -> s3
                                  [] n = 4 -> s4 [] n = 5 -> s5 [] n = 6 -> s6]
<1>1. Checksum(i) = st[Len(bytes)]
  BY DEF Checksum
<1>2. Fits(f)
  <2> DEFINE G(n) == IF n = 0 THEN 0 ELSE Subtracted(f[n - 1], bytes[n])
  <2>1. f[0] = 0 /\ f[1] = s1 /\ f[2] = s2 /\ f[3] = s3 /\ f[4] = s4 /\ f[5] = s5 /\ f[6] = s6
    <3> HIDE DEF s1, s2, s3, s4, s5, s6
    <3> QED
      OBVIOUS
  <2> HIDE DEF f
  <2>2. \A n \in 0..6 : f[n] = G(n)
    <3>1. G(0) = f[0] /\ G(1) = f[1] /\ G(2) = f[2] /\ G(3) = f[3] /\ G(4) = f[4] /\ G(5) = f[5] /\ G(6) = f[6]
      BY <2>1
    <3>2. ASSUME NEW n \in 0..6
          PROVE  n = 0 \/ n = 1 \/ n = 2 \/ n = 3 \/ n = 4 \/ n = 5 \/ n = 6
      OBVIOUS
    <3> HIDE DEF G
    <3> QED
      BY <3>1, <3>2
  <2>3. f = [n \in 0..6 |-> f[n]]
    BY DEF f
  <2>4. f = [n \in 0..6 |-> G(n)]
    <3> HIDE DEF G
    <3> QED
      BY <2>2, <2>3
  <2> QED
    BY <2>4
<1>3. Fits(st)
  <2> HIDE DEF Fits
  <2> QED
    BY <1>2
<1>4. /\ st[0] = 0 /\ st[1] = Subtracted(st[0], bytes[1]) /\ st[2] = Subtracted(st[1], bytes[2])
      /\ st[3] = Subtracted(st[2], bytes[3]) /\ st[4] = Subtracted(st[3], bytes[4])
      /\ st[5] = Subtracted(st[4], bytes[5]) /\ st[6] = Subtracted(st[5], bytes[6])
  <2> DEFINE G(n) == IF n = 0 THEN 0 ELSE Subtracted(st[n - 1], bytes[n])
  <2>1. \A n \in 0..6 : st[n] = G(n)
    BY <1>3
  <2>2. st[0] = G(0) /\ st[1] = G(1) /\ st[2] = G(2) /\ st[3] = G(3) /\ st[4] = G(4) /\ st[5] = G(5) /\ st[6] = G(6)
    <3> HIDE DEF G, st
    <3> QED
      BY <2>1
  <2> HIDE DEF st
  <2>3. /\ G(0) = 0 /\ G(1) = Subtracted(st[0], bytes[1]) /\ G(2) = Subtracted(st[1], bytes[2])
        /\ G(3) = Subtracted(st[2], bytes[3]) /\ G(4) = Subtracted(st[3], bytes[4])
        /\ G(5) = Subtracted(st[4], bytes[5]) /\ G(6) = Subtracted(st[5], bytes[6])
    OBVIOUS
  <2> QED
    BY <2>2, <2>3
<1> HIDE DEF st
<1>5. /\ bytes[1] = i.title /\ bytes[2] = i.cgb /\ bytes[3] = i.type /\ bytes[4] = i.rom
      /\ bytes[5] = i.ram /\ bytes[6] = i.dest
  BY DEF HeaderBytes
<1> QED
  BY <1>1, <1>4, <1>5

\* A changed byte, or a changed sum before it, changes the sum.
LEMMA SubtractedRange ==
  ASSUME NEW a \in 0..255, NEW x \in 0..255
  PROVE  Subtracted(a, x) \in 0..255
BY DEF Subtracted

LEMMA SumShows ==
  ASSUME NEW a \in 0..255, NEW b \in 0..255, NEW x \in 0..255,
         Subtracted(a, x) = Subtracted(b, x)
  PROVE  a = b
<1>1. (a - x - 1) \in -256..254 /\ (b - x - 1) \in -256..254
  OBVIOUS
<1>2. ASSUME NEW d \in -256..254 PROVE d % 256 = IF d < 0 THEN d + 256 ELSE d
  OBVIOUS
<1>3. (a - x - 1) % 256 = (b - x - 1) % 256
  BY DEF Subtracted
<1>4. CASE a - x - 1 < 0 /\ b - x - 1 >= 0
  BY <1>1, <1>2, <1>3, <1>4
<1>5. CASE a - x - 1 >= 0 /\ b - x - 1 < 0
  BY <1>1, <1>2, <1>3, <1>5
<1> QED
  BY <1>1, <1>2, <1>3, <1>4, <1>5

LEMMA ByteShows ==
  ASSUME NEW a \in 0..255, NEW x \in 0..255, NEW y \in 0..255, x # y
  PROVE  Subtracted(a, x) # Subtracted(a, y)
BY DEF Subtracted

\* Six bytes that differ in one place leave different sums.
LEMMA DamageShows ==
  ASSUME NEW a \in [1..6 -> 0..255], NEW b \in [1..6 -> 0..255], NEW f \in 1..6,
         a[f] # b[f], \A g \in 1..6 : g # f => a[g] = b[g]
  PROVE  Subtracted(Subtracted(Subtracted(Subtracted(Subtracted(Subtracted(0,
           a[1]), a[2]), a[3]), a[4]), a[5]), a[6])
       # Subtracted(Subtracted(Subtracted(Subtracted(Subtracted(Subtracted(0,
           b[1]), b[2]), b[3]), b[4]), b[5]), b[6])
<1> DEFINE s1 == Subtracted(0, a[1])
           s2 == Subtracted(s1, a[2])
           s3 == Subtracted(s2, a[3])
           s4 == Subtracted(s3, a[4])
           s5 == Subtracted(s4, a[5])
           s6 == Subtracted(s5, a[6])
           t1 == Subtracted(0, b[1])
           t2 == Subtracted(t1, b[2])
           t3 == Subtracted(t2, b[3])
           t4 == Subtracted(t3, b[4])
           t5 == Subtracted(t4, b[5])
           t6 == Subtracted(t5, b[6])
           Apart(s, t, k) == /\ s \in 0..255 /\ t \in 0..255
                             /\ IF k < f THEN s = t ELSE s # t
<1>1. ASSUME NEW s, NEW t, NEW k \in 0..5, Apart(s, t, k)
      PROVE  Apart(Subtracted(s, a[k + 1]), Subtracted(t, b[k + 1]), k + 1)
  <2> DEFINE x == a[k + 1]
             y == b[k + 1]
  <2>1. k + 1 \in 1..6 /\ x \in 0..255 /\ y \in 0..255
    OBVIOUS
  <2>2. k + 1 = f => x # y
    OBVIOUS
  <2>3. k + 1 # f => x = y
    BY <2>1
  <2> HIDE DEF x, y
  <2>4. s \in 0..255 /\ t \in 0..255
    BY <1>1
  <2>5. Subtracted(s, x) \in 0..255 /\ Subtracted(t, y) \in 0..255
    BY <2>1, <2>4, SubtractedRange
  <2>9. Apart(Subtracted(s, x), Subtracted(t, y), k + 1)
    <3>1. CASE k + 1 < f
      <4>1. s = t /\ x = y
        BY <1>1, <2>3, <3>1
      <4> QED
        BY <2>5, <3>1, <4>1
    <3>2. CASE k + 1 = f
      <4>1. s = t /\ x # y
        BY <1>1, <2>2, <3>2
      <4>2. Subtracted(s, x) # Subtracted(s, y)
        BY <2>1, <2>4, <4>1, ByteShows
      <4> QED
        BY <2>5, <3>2, <4>1, <4>2
    <3>3. CASE k + 1 > f
      <4>1. s # t /\ x = y
        BY <1>1, <2>3, <3>3
      <4>2. Subtracted(s, x) # Subtracted(t, x)
        <5>1. Subtracted(s, x) = Subtracted(t, x) => s = t
          BY <2>1, <2>4, SumShows
        <5> QED
          BY <4>1, <5>1
      <4> QED
        BY <2>5, <3>3, <4>1, <4>2
    <3> QED
      BY <3>1, <3>2, <3>3
  <2> QED
    BY <2>9 DEF x, y
<1>2. Apart(0, 0, 0)
  OBVIOUS
<1> HIDE DEF Apart
<1>3. 0 + 1 = 1 /\ 1 + 1 = 2 /\ 2 + 1 = 3 /\ 3 + 1 = 4 /\ 4 + 1 = 5 /\ 5 + 1 = 6
  OBVIOUS
<1>4. 0 \in 0..5 /\ 1 \in 0..5 /\ 2 \in 0..5 /\ 3 \in 0..5 /\ 4 \in 0..5 /\ 5 \in 0..5
  OBVIOUS
<1>5. Apart(s1, t1, 1)
  <2>1. Apart(Subtracted(0, a[0 + 1]), Subtracted(0, b[0 + 1]), 0 + 1)
    BY <1>1, <1>2, <1>4
  <2> QED
    BY <1>3, <2>1
<1> HIDE DEF s1, t1
<1>6. Apart(s2, t2, 2)
  <2>1. Apart(Subtracted(s1, a[1 + 1]), Subtracted(t1, b[1 + 1]), 1 + 1)
    BY <1>1, <1>5, <1>4
  <2> QED
    BY <1>3, <2>1
<1> HIDE DEF s2, t2
<1>7. Apart(s3, t3, 3)
  <2>1. Apart(Subtracted(s2, a[2 + 1]), Subtracted(t2, b[2 + 1]), 2 + 1)
    BY <1>1, <1>6, <1>4
  <2> QED
    BY <1>3, <2>1
<1> HIDE DEF s3, t3
<1>8. Apart(s4, t4, 4)
  <2>1. Apart(Subtracted(s3, a[3 + 1]), Subtracted(t3, b[3 + 1]), 3 + 1)
    BY <1>1, <1>7, <1>4
  <2> QED
    BY <1>3, <2>1
<1> HIDE DEF s4, t4
<1>9. Apart(s5, t5, 5)
  <2>1. Apart(Subtracted(s4, a[4 + 1]), Subtracted(t4, b[4 + 1]), 4 + 1)
    BY <1>1, <1>8, <1>4
  <2> QED
    BY <1>3, <2>1
<1> HIDE DEF s5, t5
<1>10. Apart(s6, t6, 6)
  <2>1. Apart(Subtracted(s5, a[5 + 1]), Subtracted(t5, b[5 + 1]), 5 + 1)
    BY <1>1, <1>9, <1>4
  <2> QED
    BY <1>3, <2>1
<1>11. s6 # t6
  <2> HIDE DEF s6, t6
  <2> QED
    BY <1>10 DEF Apart
<1> QED
  BY <1>11 DEF s1, s2, s3, s4, s5, s6, t1, t2, t3, t4, t5, t6

\* The bytes of the header the checksum is taken of.
HeaderFields == {"title", "cgb", "type", "rom", "ram", "dest"}

\* Two headers with the same sum do not differ in one byte only.
LEMMA HeadersDiffer ==
  ASSUME NEW i, NEW j, NEW field \in HeaderFields,
         \A f \in HeaderFields : i[f] \in 0..255 /\ j[f] \in 0..255,
         i[field] # j[field],
         \A f \in HeaderFields : f # field => i[f] = j[f]
  PROVE  Checksum(i) # Checksum(j)
<1> DEFINE a == HeaderBytes(i)
           b == HeaderBytes(j)
<1>1. /\ DOMAIN a = 1..6 /\ Len(a) = 6 /\ DOMAIN b = 1..6 /\ Len(b) = 6
      /\ a[1] = i.title /\ a[2] = i.cgb /\ a[3] = i.type /\ a[4] = i.rom /\ a[5] = i.ram /\ a[6] = i.dest
      /\ b[1] = j.title /\ b[2] = j.cgb /\ b[3] = j.type /\ b[4] = j.rom /\ b[5] = j.ram /\ b[6] = j.dest
  BY DEF HeaderBytes
<1>2. /\ {i.title, i.cgb, i.type, i.rom, i.ram, i.dest} \subseteq 0..255
      /\ {j.title, j.cgb, j.type, j.rom, j.ram, j.dest} \subseteq 0..255
  BY DEF HeaderFields
<1>3. a \in [1..6 -> 0..255] /\ b \in [1..6 -> 0..255]
  BY <1>2 DEF HeaderBytes
<1>4. PICK f \in 1..6 : a[f] # b[f] /\ \A g \in 1..6 : g # f => a[g] = b[g]
  <2> HIDE DEF a, b
  <2>1. CASE field = "title"
    BY <1>1, <2>1 DEF HeaderFields
  <2>2. CASE field = "cgb"
    BY <1>1, <2>2 DEF HeaderFields
  <2>3. CASE field = "type"
    BY <1>1, <2>3 DEF HeaderFields
  <2>4. CASE field = "rom"
    BY <1>1, <2>4 DEF HeaderFields
  <2>5. CASE field = "ram"
    BY <1>1, <2>5 DEF HeaderFields
  <2>6. CASE field = "dest"
    BY <1>1, <2>6 DEF HeaderFields
  <2> QED
    BY <2>1, <2>2, <2>3, <2>4, <2>5, <2>6 DEF HeaderFields
<1>5. Subtracted(Subtracted(Subtracted(Subtracted(Subtracted(Subtracted(0,
        a[1]), a[2]), a[3]), a[4]), a[5]), a[6])
    # Subtracted(Subtracted(Subtracted(Subtracted(Subtracted(Subtracted(0,
        b[1]), b[2]), b[3]), b[4]), b[5]), b[6])
  <2> HIDE DEF a, b
  <2> QED
    BY <1>3, <1>4, DamageShows
<1> QED
  <2>1. /\ Checksum(i) = Subtracted(Subtracted(Subtracted(Subtracted(Subtracted(Subtracted(0,
             i.title), i.cgb), i.type), i.rom), i.ram), i.dest)
        /\ Checksum(j) = Subtracted(Subtracted(Subtracted(Subtracted(Subtracted(Subtracted(0,
             j.title), j.cgb), j.type), j.rom), j.ram), j.dest)
    BY <1>1, SumOfSix
  <2> HIDE DEF a, b
  <2> QED
    BY <1>1, <1>5, <2>1

\* ChecksumCatches of Header: a byte that went bad shows.
THEOREM DamageIsNoticed == CartSpec => []ChecksumCatches(image, HeaderValues)
<1>1. CartTypeOK => ChecksumCatches(image, HeaderValues)
  <2> SUFFICES ASSUME CartTypeOK PROVE ChecksumCatches(image, HeaderValues)
    OBVIOUS
  <2> DEFINE sound == [image EXCEPT !.checksum = Checksum(image)]
             Damaged(field, byte) == [sound EXCEPT ![field] = byte]
  <2>1. image \in [len : Nat, title : 0..255, cgb : 0..255, type : 0..255, rom : 0..255,
                   ram : 0..255, dest : 0..255, checksum : 0..255]
    BY CartridgeAssumption DEF CartTypeOK
  <2>2. DOMAIN image = {"len", "title", "cgb", "type", "rom", "ram", "dest", "checksum"}
    BY <2>1
  <2>3. \A f \in HeaderFields : image[f] \in 0..255 /\ f \in DOMAIN image /\ f # "checksum"
    BY <2>1, <2>2 DEF HeaderFields
  <2>4. /\ DOMAIN sound = DOMAIN image /\ sound.checksum = Checksum(image)
        /\ \A f \in HeaderFields : sound[f] = image[f]
    BY <2>2, <2>3
  <2>5. ASSUME NEW field \in HeaderFields \union {"checksum"}, NEW byte \in HeaderValues,
               byte # sound[field]
        PROVE  Damaged(field, byte).checksum # Checksum(Damaged(field, byte))
    <3> DEFINE d == Damaged(field, byte)
    <3>1. byte \in 0..255
      BY MemoriesAssumption
    <3>2. d[field] = byte /\ \A f \in DOMAIN image : f # field => d[f] = sound[f]
      BY <2>2, <2>3, <2>4
    <3>3. CASE field = "checksum"
      <4>1. \A f \in HeaderFields : d[f] = image[f]
        BY <2>3, <2>4, <3>2, <3>3
      <4>2. HeaderBytes(d) = HeaderBytes(image)
        <5> HIDE DEF d
        <5> QED
          BY <4>1 DEF HeaderBytes, HeaderFields
      <4>3. Checksum(d) = Checksum(image)
        <5> HIDE DEF d
        <5> QED
          BY <4>2 DEF Checksum
      <4> QED
        BY <2>4, <2>5, <3>2, <3>3, <4>3
    <3>4. CASE field \in HeaderFields
      <4>1. d.checksum = Checksum(image)
        BY <2>2, <2>3, <2>4, <3>2, <3>4
      <4>2. \A f \in HeaderFields : d[f] \in 0..255
        BY <2>3, <2>4, <3>1, <3>2
      <4>3. image[field] # d[field] /\ \A f \in HeaderFields : f # field => image[f] = d[f]
        BY <2>3, <2>4, <2>5, <3>2, <3>4
      <4>4. Checksum(image) # Checksum(d)
        <5> HIDE DEF d
        <5> QED
          BY <2>3, <3>4, <4>2, <4>3, HeadersDiffer
      <4> QED
        BY <4>1, <4>4
    <3> QED
      BY <3>3, <3>4
  <2>6. ASSUME NEW field \in {"title", "cgb", "type", "rom", "ram", "dest", "checksum"},
               NEW byte \in HeaderValues, byte # sound[field]
        PROVE  "checksum" \in Warnings(Damaged(field, byte))
    <3>1. field \in HeaderFields \union {"checksum"}
      BY DEF HeaderFields
    <3>2. Damaged(field, byte).checksum # Checksum(Damaged(field, byte))
      BY <2>5, <2>6, <3>1
    <3> HIDE DEF sound, Damaged
    <3> QED
      BY <3>2 DEF Warnings
  <2> QED
    BY <2>6 DEF ChecksumCatches
<1>2. CartSpec => []CartTypeOK
  BY CartTypes
<1> QED
  BY <1>1, <1>2, PTL

-----------------------------------------------------------------------------
(* The map of addresses *)

\* The place of an address in the table.
Place(a) ==
  IF a < 32768 THEN 1 ELSE IF a < 40960 THEN 2 ELSE IF a < 49152 THEN 3 ELSE IF a < 57344 THEN 4
  ELSE IF a < 65024 THEN 5 ELSE IF a < 65184 THEN 6 ELSE IF a < 65280 THEN 7 ELSE IF a < 65408 THEN 8
  ELSE IF a < 65535 THEN 9 ELSE 10

Targets == <<"rom", "vram", "sram", "wram", "echo", "oam", "unusable", "io", "hram", "ie">>

LEMMA TenPlaces ==
  ASSUME NEW i \in 1..10
  PROVE  i = 1 \/ i = 2 \/ i = 3 \/ i = 4 \/ i = 5 \/ i = 6 \/ i = 7 \/ i = 8 \/ i = 9 \/ i = 10
OBVIOUS

LEMMA RouteTable ==
  /\ DOMAIN BusRoutes = 1..10
  /\ BusRoutes[1] = Entry(0, 32767, "rom") /\ BusRoutes[2] = Entry(32768, 40959, "vram")
  /\ BusRoutes[3] = Entry(40960, 49151, "sram") /\ BusRoutes[4] = Entry(49152, 57343, "wram")
  /\ BusRoutes[5] = Entry(57344, 65023, "echo") /\ BusRoutes[6] = Entry(65024, 65183, "oam")
  /\ BusRoutes[7] = Entry(65184, 65279, "unusable") /\ BusRoutes[8] = Entry(65280, 65407, "io")
  /\ BusRoutes[9] = Entry(65408, 65534, "hram") /\ BusRoutes[10] = Entry(65535, 65535, "ie")
BY DEF BusRoutes

LEMMA Entries ==
  ASSUME NEW from \in Nat, NEW to \in Nat, NEW target, NEW a \in Nat
  PROVE  /\ a \in Entry(from, to, target).span <=> from <= a /\ a <= to
         /\ Entry(from, to, target).target = target
BY DEF Entry

\* No two entries share an address, and together they have all.
LEMMA OneEntry ==
  ASSUME NEW a \in Nat, a <= 65535, NEW i \in 1..10
  PROVE  a \in BusRoutes[i].span <=> i = Place(a)
<1>1. CASE i = 1
  <2>1. a \in BusRoutes[i].span <=> 0 <= a /\ a <= 32767
    BY <1>1, RouteTable, Entries
  <2>2. 0 <= a /\ a <= 32767 <=> Place(a) = 1
    BY DEF Place
  <2> QED
    BY <1>1, <2>1, <2>2
<1>2. CASE i = 2
  <2>1. a \in BusRoutes[i].span <=> 32768 <= a /\ a <= 40959
    BY <1>2, RouteTable, Entries
  <2>2. 32768 <= a /\ a <= 40959 <=> Place(a) = 2
    BY DEF Place
  <2> QED
    BY <1>2, <2>1, <2>2
<1>3. CASE i = 3
  <2>1. a \in BusRoutes[i].span <=> 40960 <= a /\ a <= 49151
    BY <1>3, RouteTable, Entries
  <2>2. 40960 <= a /\ a <= 49151 <=> Place(a) = 3
    BY DEF Place
  <2> QED
    BY <1>3, <2>1, <2>2
<1>4. CASE i = 4
  <2>1. a \in BusRoutes[i].span <=> 49152 <= a /\ a <= 57343
    BY <1>4, RouteTable, Entries
  <2>2. 49152 <= a /\ a <= 57343 <=> Place(a) = 4
    BY DEF Place
  <2> QED
    BY <1>4, <2>1, <2>2
<1>5. CASE i = 5
  <2>1. a \in BusRoutes[i].span <=> 57344 <= a /\ a <= 65023
    BY <1>5, RouteTable, Entries
  <2>2. 57344 <= a /\ a <= 65023 <=> Place(a) = 5
    BY DEF Place
  <2> QED
    BY <1>5, <2>1, <2>2
<1>6. CASE i = 6
  <2>1. a \in BusRoutes[i].span <=> 65024 <= a /\ a <= 65183
    BY <1>6, RouteTable, Entries
  <2>2. 65024 <= a /\ a <= 65183 <=> Place(a) = 6
    BY DEF Place
  <2> QED
    BY <1>6, <2>1, <2>2
<1>7. CASE i = 7
  <2>1. a \in BusRoutes[i].span <=> 65184 <= a /\ a <= 65279
    BY <1>7, RouteTable, Entries
  <2>2. 65184 <= a /\ a <= 65279 <=> Place(a) = 7
    BY DEF Place
  <2> QED
    BY <1>7, <2>1, <2>2
<1>8. CASE i = 8
  <2>1. a \in BusRoutes[i].span <=> 65280 <= a /\ a <= 65407
    BY <1>8, RouteTable, Entries
  <2>2. 65280 <= a /\ a <= 65407 <=> Place(a) = 8
    BY DEF Place
  <2> QED
    BY <1>8, <2>1, <2>2
<1>9. CASE i = 9
  <2>1. a \in BusRoutes[i].span <=> 65408 <= a /\ a <= 65534
    BY <1>9, RouteTable, Entries
  <2>2. 65408 <= a /\ a <= 65534 <=> Place(a) = 9
    BY DEF Place
  <2> QED
    BY <1>9, <2>1, <2>2
<1>10. CASE i = 10
  <2>1. a \in BusRoutes[i].span <=> 65535 <= a /\ a <= 65535
    BY <1>10, RouteTable, Entries
  <2>2. 65535 <= a /\ a <= 65535 <=> Place(a) = 10
    BY DEF Place
  <2> QED
    BY <1>10, <2>1, <2>2
<1> QED
  BY <1>1, <1>2, <1>3, <1>4, <1>5, <1>6, <1>7, <1>8, <1>9, <1>10, TenPlaces

LEMMA EntryTargets ==
  ASSUME NEW i \in 1..10
  PROVE  BusRoutes[i].target = Targets[i]
<1>1. CASE i = 1
  BY <1>1, RouteTable, Entries DEF Targets
<1>2. CASE i = 2
  BY <1>2, RouteTable, Entries DEF Targets
<1>3. CASE i = 3
  BY <1>3, RouteTable, Entries DEF Targets
<1>4. CASE i = 4
  BY <1>4, RouteTable, Entries DEF Targets
<1>5. CASE i = 5
  BY <1>5, RouteTable, Entries DEF Targets
<1>6. CASE i = 6
  BY <1>6, RouteTable, Entries DEF Targets
<1>7. CASE i = 7
  BY <1>7, RouteTable, Entries DEF Targets
<1>8. CASE i = 8
  BY <1>8, RouteTable, Entries DEF Targets
<1>9. CASE i = 9
  BY <1>9, RouteTable, Entries DEF Targets
<1>10. CASE i = 10
  BY <1>10, RouteTable, Entries DEF Targets
<1> QED
  BY <1>1, <1>2, <1>3, <1>4, <1>5, <1>6, <1>7, <1>8, <1>9, <1>10, TenPlaces

\* RouteAddress finds the one entry.
LEMMA RouteFound ==
  ASSUME NEW a \in Nat, a <= 65535
  PROVE  /\ {k \in DOMAIN BusRoutes : a \in BusRoutes[k].span} = {Place(a)}
         /\ RouteAddress(a) = Targets[Place(a)]
<1> DEFINE i == Place(a)
           hits == {k \in DOMAIN BusRoutes : a \in BusRoutes[k].span}
<1>1. i \in 1..10
  BY DEF Place
<1>2. hits = {i}
  <2> HIDE DEF i
  <2> QED
    BY <1>1, OneEntry, RouteTable DEF i
<1> DEFINE Least(S) == CHOOSE k \in S : \A j \in S : k <= j
<1>3. Least(hits) = i
  <2> HIDE DEF hits, i
  <2> QED
    BY <1>1, <1>2
<1>4. RouteAddress(a) = BusRoutes[i].target
  <2>1. RouteAddress(a) = BusRoutes[Least(hits)].target
    BY DEF RouteAddress
  <2> HIDE DEF i, hits, Least
  <2> QED
    BY <1>3, <2>1
<1> QED
  BY <1>1, <1>2, <1>4, EntryTargets

LEMMA Routes ==
  ASSUME NEW a \in Nat, a <= 65535
  PROVE  /\ 0 <= a /\ a <= 32767 <=> RouteAddress(a) = "rom"
         /\ 32768 <= a /\ a <= 40959 <=> RouteAddress(a) = "vram"
         /\ 40960 <= a /\ a <= 49151 <=> RouteAddress(a) = "sram"
         /\ 49152 <= a /\ a <= 57343 <=> RouteAddress(a) = "wram"
         /\ 57344 <= a /\ a <= 65023 <=> RouteAddress(a) = "echo"
         /\ 65024 <= a /\ a <= 65183 <=> RouteAddress(a) = "oam"
         /\ 65184 <= a /\ a <= 65279 <=> RouteAddress(a) = "unusable"
         /\ 65280 <= a /\ a <= 65407 <=> RouteAddress(a) = "io"
         /\ 65408 <= a /\ a <= 65534 <=> RouteAddress(a) = "hram"
         /\ a = 65535 <=> RouteAddress(a) = "ie"
<1>1. RouteAddress(a) = Targets[Place(a)]
  BY RouteFound
<1>2. /\ Targets[1] = "rom" /\ Targets[2] = "vram" /\ Targets[3] = "sram" /\ Targets[4] = "wram"
      /\ Targets[5] = "echo" /\ Targets[6] = "oam" /\ Targets[7] = "unusable" /\ Targets[8] = "io"
      /\ Targets[9] = "hram" /\ Targets[10] = "ie"
  BY DEF Targets
<1>3. Place(a) \in 1..10
  BY DEF Place
<1>4. /\ 0 <= a /\ a <= 32767 <=> Place(a) = 1
      /\ 32768 <= a /\ a <= 40959 <=> Place(a) = 2
      /\ 40960 <= a /\ a <= 49151 <=> Place(a) = 3
      /\ 49152 <= a /\ a <= 57343 <=> Place(a) = 4
      /\ 57344 <= a /\ a <= 65023 <=> Place(a) = 5
      /\ 65024 <= a /\ a <= 65183 <=> Place(a) = 6
      /\ 65184 <= a /\ a <= 65279 <=> Place(a) = 7
      /\ 65280 <= a /\ a <= 65407 <=> Place(a) = 8
      /\ 65408 <= a /\ a <= 65534 <=> Place(a) = 9
      /\ a = 65535 <=> Place(a) = 10
  <2>1. 0 <= a /\ a <= 32767 <=> Place(a) = 1
    BY DEF Place
  <2>2. 32768 <= a /\ a <= 40959 <=> Place(a) = 2
    BY DEF Place
  <2>3. 40960 <= a /\ a <= 49151 <=> Place(a) = 3
    BY DEF Place
  <2>4. 49152 <= a /\ a <= 57343 <=> Place(a) = 4
    BY DEF Place
  <2>5. 57344 <= a /\ a <= 65023 <=> Place(a) = 5
    BY DEF Place
  <2>6. 65024 <= a /\ a <= 65183 <=> Place(a) = 6
    BY DEF Place
  <2>7. 65184 <= a /\ a <= 65279 <=> Place(a) = 7
    BY DEF Place
  <2>8. 65280 <= a /\ a <= 65407 <=> Place(a) = 8
    BY DEF Place
  <2>9. 65408 <= a /\ a <= 65534 <=> Place(a) = 9
    BY DEF Place
  <2>10. a = 65535 <=> Place(a) = 10
    BY DEF Place
  <2> QED
    BY <2>1, <2>2, <2>3, <2>4, <2>5, <2>6, <2>7, <2>8, <2>9, <2>10
<1> HIDE DEF Targets, Place
<1>5. \/ Place(a) = 1 \/ Place(a) = 2 \/ Place(a) = 3 \/ Place(a) = 4 \/ Place(a) = 5
      \/ Place(a) = 6 \/ Place(a) = 7 \/ Place(a) = 8 \/ Place(a) = 9 \/ Place(a) = 10
  BY <1>3
<1> QED
  BY <1>1, <1>2, <1>4, <1>5

-----------------------------------------------------------------------------

\* Any address, mode and bank.
MapTypeOK ==
  /\ address \in Nat /\ address <= 65535 /\ isCgb \in BOOLEAN /\ booting \in BOOLEAN /\ svbkNow \in 0..7

LEMMA AddressRange ==
  ASSUME NEW a \in Addresses
  PROVE  a \in Nat /\ a <= 65535
BY MapAssumption

LEMMA MapTypes == MapInit => MapTypeOK /\ address \in Addresses
<1> SUFFICES ASSUME MapInit PROVE MapTypeOK /\ address \in Addresses
  OBVIOUS
<1>1. address \in Addresses /\ isCgb \in BOOLEAN /\ booting \in BOOLEAN
  BY DEF MapInit
<1>2. svbkNow \in 0..7
  <2>1. svbkNow \in MapBanks \/ svbkNow = 0
    BY DEF MapInit
  <2>2. MapBanks \subseteq 0..7
    BY MapAssumption
  <2>3. CASE svbkNow \in MapBanks
    BY <2>2, <2>3
  <2>4. CASE svbkNow = 0
    BY <2>4
  <2> QED
    BY <2>1, <2>3, <2>4
<1> QED
  BY <1>1, <1>2, AddressRange DEF MapTypeOK

\* A work RAM address and its echo, by bank.
LEMMA WramRange ==
  ASSUME NEW p \in Nat, 49152 <= p, p <= 57343, NEW isColor \in BOOLEAN, NEW s \in 0..7
  PROVE  /\ WramIndex(p, isColor, s) \in Nat /\ WramIndex(p, isColor, s) <= 32767
         /\ (~isColor \/ p < 53248) => WramIndex(p, isColor, s) = p - 49152
         /\ isColor /\ p >= 53248 =>
              WramIndex(p, isColor, s) = (IF s = 0 THEN 1 ELSE s) * 4096 + (p - 53248)
BY DEF WramIndex, ActiveBank

\* Two selections of SVBK show the same bank at q.
SameBank(isColor, q, s, t) == (isColor /\ q >= 53248) => (t = s \/ {t, s} = {0, 1})

LEMMA WramSame ==
  ASSUME NEW p \in Nat, 49152 <= p, p <= 57343, NEW q \in Nat, 49152 <= q, q <= 57343, NEW isColor \in BOOLEAN,
         NEW s \in 0..7, NEW t \in 0..7
  PROVE  WramIndex(p, isColor, s) = WramIndex(q, isColor, t) <=>
           p = q /\ SameBank(isColor, q, s, t)
<1> DEFINE S == IF s = 0 THEN 1 ELSE s
           T == IF t = 0 THEN 1 ELSE t
           Low(x) == ~isColor \/ x < 53248
<1>1. S \in 1..7 /\ T \in 1..7 /\ (SameBank(isColor, q, s, t) <=> Low(q) \/ S = T)
  <2>1. {t, s} = {0, 1} <=> (t = 0 /\ s = 1) \/ (t = 1 /\ s = 0)
    OBVIOUS
  <2>2. S = T <=> t = s \/ {t, s} = {0, 1}
    BY <2>1
  <2> QED
    BY <2>2 DEF SameBank
<1>2. /\ Low(p) => WramIndex(p, isColor, s) = p - 49152
      /\ ~Low(p) => WramIndex(p, isColor, s) = S * 4096 + (p - 53248)
      /\ Low(q) => WramIndex(q, isColor, t) = q - 49152
      /\ ~Low(q) => WramIndex(q, isColor, t) = T * 4096 + (q - 53248)
  BY WramRange
<1> HIDE DEF S, T, Low
<1>3. Low(p) <=> ~isColor \/ p < 53248
  BY DEF Low
<1>4. Low(q) <=> ~isColor \/ q < 53248
  BY DEF Low
<1>5. CASE Low(p) /\ Low(q)
  BY <1>1, <1>2, <1>5
<1>6. CASE Low(p) /\ ~Low(q)
  BY <1>1, <1>2, <1>3, <1>4, <1>6
<1>7. CASE ~Low(p) /\ Low(q)
  BY <1>1, <1>2, <1>3, <1>4, <1>7
<1>8. CASE ~Low(p) /\ ~Low(q)
  BY <1>1, <1>2, <1>3, <1>4, <1>8
<1> QED
  BY <1>5, <1>6, <1>7, <1>8

\* Whether the boot ROM is mapped or not.
LEMMA CellInside ==
  ASSUME MapTypeOK, NEW mapped \in BOOLEAN,
         CellOf(address, isCgb, svbkNow, mapped)[1] \in DOMAIN CellSizes
  PROVE  CellOf(address, isCgb, svbkNow, mapped)[2] \in
           0..(CellSizes[CellOf(address, isCgb, svbkNow, mapped)[1]] - 1)
<1> DEFINE cell == CellOf(address, isCgb, svbkNow, mapped)
           a == address
<1>1. /\ DOMAIN CellSizes = {"vram", "wram", "oam", "hram", "generic", "boot"}
      /\ CellSizes["vram"] = 8192 /\ CellSizes["wram"] = 32768 /\ CellSizes["oam"] = 160
      /\ CellSizes["hram"] = 127 /\ CellSizes["generic"] = 128
      /\ CellSizes["boot"] = IF isCgb THEN 2304 ELSE 256
  BY DEF CellSizes
<1>2. a \in Nat /\ a <= 65535 /\ isCgb \in BOOLEAN /\ svbkNow \in 0..7
  BY DEF MapTypeOK
<1> DEFINE route == RouteAddress(a)
<1>3. CASE route = "rom"
  <2>1. CASE mapped /\ BootIndex(a, isCgb) # <<>>
    <3>1. cell = <<"boot", a>>
      BY <1>3, <2>1 DEF CellOf
    <3>2. a <= 255 \/ (isCgb /\ a <= 2303)
      BY <2>1 DEF BootIndex
    <3> QED
      BY <1>1, <1>2, <3>1, <3>2
  <2>2. CASE ~(mapped /\ BootIndex(a, isCgb) # <<>>)
    <3>1. cell = <<"cartridge", a>>
      BY <1>3, <2>2 DEF CellOf
    <3> QED
      BY <1>1, <3>1
  <2> QED
    BY <2>1, <2>2
<1>4. CASE route = "sram"
  <2>1. cell = <<"cartridge", a>>
    BY <1>4 DEF CellOf
  <2> QED
    BY <1>1, <2>1
<1>5. CASE route = "vram"
  <2>1. cell = <<"vram", a - 32768>>
    BY <1>5 DEF CellOf
  <2> QED
    BY <1>1, <1>2, <1>5, <2>1, Routes
<1>6. CASE route = "wram"
  <2>1. cell = <<"wram", WramIndex(a, isCgb, svbkNow)>>
    BY <1>6 DEF CellOf
  <2>2. WramIndex(a, isCgb, svbkNow) \in Nat /\ WramIndex(a, isCgb, svbkNow) <= 32767
    BY <1>2, <1>6, Routes, WramRange
  <2> QED
    BY <1>1, <2>1, <2>2
<1>7. CASE route = "echo"
  <2>1. cell = <<"wram", WramIndex(a - 8192, isCgb, svbkNow)>>
    BY <1>7 DEF CellOf
  <2>2. a - 8192 \in Nat /\ 49152 <= a - 8192 /\ a - 8192 <= 57343
    BY <1>2, <1>7, Routes
  <2>3. WramIndex(a - 8192, isCgb, svbkNow) \in Nat /\ WramIndex(a - 8192, isCgb, svbkNow) <= 32767
    BY <1>2, <2>2, WramRange
  <2> QED
    BY <1>1, <2>1, <2>3
<1>8. CASE route = "oam"
  <2>1. cell = <<"oam", a - 65024>>
    BY <1>8 DEF CellOf
  <2> QED
    BY <1>1, <1>2, <1>8, <2>1, Routes
<1>9. CASE route = "io"
  <2>1. cell = <<RouteIo(a), a - 65280>>
    BY <1>9 DEF CellOf
  <2>2. a - 65280 \in Nat /\ a - 65280 <= 127
    BY <1>2, <1>9, Routes
  <2>3. RouteIo(a) \in {"generic", "boot", "key0", "key1", "svbk", "joypad", "apu", "serial", "timer", "ppu"}
    BY DEF RouteIo
  <2> QED
    BY <1>1, <2>1, <2>2, <2>3
<1>10. CASE route = "hram"
  <2>1. cell = <<"hram", a - 65408>>
    BY <1>10 DEF CellOf
  <2> QED
    BY <1>1, <1>2, <1>10, <2>1, Routes
<1>11. CASE route \in {"unusable", "ie"}
  <2>1. cell = <<route, 0>>
    BY <1>11 DEF CellOf
  <2> QED
    BY <1>1, <1>11, <2>1
<1>12. route \in {"rom", "vram", "sram", "wram", "echo", "oam", "unusable", "io", "hram", "ie"}
  <2>1. route = Targets[Place(a)] /\ Place(a) \in 1..10
    BY <1>2, RouteFound DEF Place
  <2> QED
    BY <2>1, TenPlaces DEF Targets
<1> QED
  BY <1>3, <1>4, <1>5, <1>6, <1>7, <1>8, <1>9, <1>10, <1>11, <1>12

LEMMA MapExact ==
  ASSUME MapTypeOK PROVE MapIsExact
<1> DEFINE hits == {i \in DOMAIN BusRoutes : address \in BusRoutes[i].span}
<1>1. hits = {Place(address)}
  BY RouteFound DEF MapTypeOK
<1>2. Cardinality(hits) = 1
  BY <1>1, FS_Singleton
<1>3. /\ CellNow(address) = CellOf(address, isCgb, svbkNow, booting)
      /\ CellWritten(address) = CellOf(address, isCgb, svbkNow, FALSE)
      /\ booting \in BOOLEAN
  BY DEF CellNow, CellWritten, MapTypeOK
<1> QED
  BY <1>2, <1>3, CellInside DEF MapIsExact

LEMMA EchoAlone ==
  ASSUME MapTypeOK PROVE EchoOnly
<1> SUFFICES ASSUME RouteAddress(address) \in {"wram", "echo"},
                    NEW b \in Addresses, RouteAddress(b) \in {"wram", "echo"},
                    NEW shown \in MapBanks
             PROVE  CellNow(address) = CellOf(b, isCgb, shown, booting) <=>
                      Plain(address) = Plain(b) /\ SameBank(isCgb, Plain(b), svbkNow, shown)
  BY DEF EchoOnly, SameBank
<1>1. b \in Nat /\ b <= 65535 /\ shown \in 0..7 /\ address \in Nat /\ address <= 65535 /\ svbkNow \in 0..7 /\ isCgb \in BOOLEAN
  BY MapAssumption, AddressRange DEF MapTypeOK
<1>2. ASSUME NEW a \in Nat, a <= 65535, RouteAddress(a) \in {"wram", "echo"}, NEW s \in 0..7
      PROVE  /\ Plain(a) \in Nat /\ 49152 <= Plain(a) /\ Plain(a) <= 57343
             /\ CellOf(a, isCgb, s, booting) = <<"wram", WramIndex(Plain(a), isCgb, s)>>
  <2>1. CASE RouteAddress(a) = "wram"
    <3>1. Plain(a) = a /\ 49152 <= a /\ a <= 57343
      BY <1>2, <2>1, Routes DEF Plain
    <3>2. CellOf(a, isCgb, s, booting) = <<"wram", WramIndex(a, isCgb, s)>>
      BY <2>1 DEF CellOf
    <3> QED
      BY <3>1, <3>2
  <2>2. CASE RouteAddress(a) = "echo"
    <3>1. Plain(a) = a - 8192 /\ 57344 <= a /\ a <= 65023
      BY <1>2, <2>2, Routes DEF Plain
    <3>2. CellOf(a, isCgb, s, booting) = <<"wram", WramIndex(a - 8192, isCgb, s)>>
      BY <2>2 DEF CellOf
    <3> QED
      BY <3>1, <3>2
  <2> QED
    BY <1>2, <2>1, <2>2
<1> DEFINE p == Plain(address)
           q == Plain(b)
<1>3. p \in Nat /\ 49152 <= p /\ p <= 57343 /\ q \in Nat /\ 49152 <= q /\ q <= 57343
  BY <1>1, <1>2
<1>4. /\ CellNow(address) = <<"wram", WramIndex(p, isCgb, svbkNow)>>
      /\ CellOf(b, isCgb, shown, booting) = <<"wram", WramIndex(q, isCgb, shown)>>
  BY <1>1, <1>2 DEF CellNow
<1>5. CellNow(address) = CellOf(b, isCgb, shown, booting) <=>
        WramIndex(p, isCgb, svbkNow) = WramIndex(q, isCgb, shown)
  BY <1>4
<1>6. WramIndex(p, isCgb, svbkNow) = WramIndex(q, isCgb, shown) <=>
        p = q /\ SameBank(isCgb, q, svbkNow, shown)
  <2> HIDE DEF p, q
  <2> QED
    BY <1>1, <1>3, WramSame
<1> QED
  BY <1>5, <1>6

LEMMA HeaderSeen ==
  ASSUME MapTypeOK PROVE HeaderVisible
<1> SUFFICES ASSUME address \in Nat, 256 <= address, address <= 335 PROVE CellNow(address) = <<"cartridge", address>>
  BY DEF HeaderVisible
<1>1. RouteAddress(address) = "rom"
  BY Routes
<1>2. BootIndex(address, isCgb) = <<>>
  BY DEF BootIndex
<1> QED
  BY <1>1, <1>2 DEF CellNow, CellOf

LEMMA DevicesHear ==
  ASSUME MapTypeOK PROVE DevicesAnswer
<1> SUFFICES ASSUME address \in Nat /\ address <= 65535
             PROVE  /\ DeviceOf(address) # "none" => RouteIo(address) = DeviceOf(address)
                    /\ (RouteIo(address) \in {"apu", "ppu", "serial", "timer"} /\ address \notin ApuHoles)
                          => DeviceOf(address) = RouteIo(address)
  BY DEF DevicesAnswer, MapTypeOK
<1> QED
  BY DEF DeviceOf, RouteIo, ApuHoles, ApuKnows, PpuReads, SerialKnows, TimerKnows, ApuRegisters,
         SerialRegisters, TimerRegisters, PpuRegisters

(***************************************************************************)
(* The map is right at every address, in every mode and for every bank.    *)
(***************************************************************************)
THEOREM MapAlwaysRight ==
  MapSpec => [](MapIsExact /\ EchoOnly /\ HeaderVisible /\ DevicesAnswer)
<1>1. MapInit => MapTypeOK
  BY MapTypes
<1>2. MapTypeOK /\ [FALSE]_mapVars => MapTypeOK'
  BY DEF MapTypeOK, mapVars
<1>3. MapTypeOK => MapIsExact /\ EchoOnly /\ HeaderVisible /\ DevicesAnswer
  BY MapExact, EchoAlone, HeaderSeen, DevicesHear
<1> QED
  BY <1>1, <1>2, <1>3, PTL DEF MapSpec

-----------------------------------------------------------------------------
(* The memories of the pixel unit *)

\* A quotient and a remainder are the only ones.
LEMMA OnlyQuotient ==
  ASSUME NEW n \in Nat \ {0}, NEW q \in Int, NEW p \in Int,
         NEW r \in 0..(n - 1), NEW s \in 0..(n - 1), n * q + r = n * p + s
  PROVE  q = p /\ r = s
<1>1. n * (q - p) = s - r
  OBVIOUS
<1>2. CASE q - p >= 1
  <2>1. n * (q - p) >= n
    BY <1>2
  <2> QED
    BY <1>1, <2>1
<1>3. CASE p - q >= 1
  <2>1. n * (p - q) >= n
    BY <1>3
  <2>2. n * (p - q) = r - s
    BY <1>1
  <2> QED
    BY <2>1, <2>2
<1> QED
  BY <1>2, <1>3

LEMMA Division ==
  ASSUME NEW x \in Nat, NEW n \in Nat \ {0}
  PROVE  x = n * (x \div n) + (x % n) /\ x \div n \in Int /\ x % n \in 0..(n - 1)
OBVIOUS

\* One step further round a palette.
LEMMA StepRound ==
  ASSUME NEW x \in Nat, NEW n \in Nat \ {0}
  PROVE  ((x % n) + 1) % n = (x + 1) % n
<1> DEFINE q == x \div n
           r == x % n
           p == (x + 1) \div n
           s == (x + 1) % n
<1>1. x = n * q + r /\ q \in Int /\ r \in 0..(n - 1)
  BY Division
<1>2. x + 1 = n * p + s /\ p \in Int /\ s \in 0..(n - 1)
  <2>1. x + 1 \in Nat
    OBVIOUS
  <2> QED
    BY <2>1, Division
<1> HIDE DEF q, r, p, s
<1>3. CASE r + 1 < n
  <2>1. r + 1 \in 0..(n - 1) /\ n * q + (r + 1) = n * p + s
    BY <1>1, <1>2, <1>3
  <2>2. s = r + 1
    BY <1>1, <1>2, <2>1, OnlyQuotient
  <2>3. (r + 1) % n = r + 1
    BY <2>1, SmallRemainder
  <2> QED
    BY <2>2, <2>3 DEF r, s
<1>4. CASE r + 1 = n
  <2>1. n * (q + 1) = n * q + n /\ q + 1 \in Int
    BY <1>1
  <2> DEFINE w == q + 1
             z == 0
  <2>2. n * w + z = n * p + s /\ z \in 0..(n - 1) /\ w \in Int
    BY <1>1, <1>2, <1>4, <2>1
  <2>3. s = 0
    <3> HIDE DEF w, z
    <3>1. s = z
      BY <1>2, <2>2, OnlyQuotient
    <3> QED
      BY <3>1 DEF z
  <2>4. n % n = 0
    OBVIOUS
  <2> QED
    BY <1>4, <2>3, <2>4 DEF r, s
<1> QED
  BY <1>1, <1>3, <1>4

\* Places less than one round apart differ.
LEMMA PlacesDiffer ==
  ASSUME NEW x \in Nat, NEW y \in Nat, NEW n \in Nat \ {0}, x < y, y < x + n
  PROVE  x % n # y % n
<1> SUFFICES ASSUME x % n = y % n PROVE FALSE
  OBVIOUS
<1> DEFINE q == x \div n
           r == x % n
           p == y \div n
<1>1. x = n * q + r /\ q \in Int /\ r \in 0..(n - 1)
  BY Division
<1>2. y = n * p + r /\ p \in Int
  BY Division
<1> HIDE DEF q, r, p
<1>3. y - x = n * (p - q)
  BY <1>1, <1>2
<1>4. CASE p - q <= 0
  <2>1. n * (p - q) <= 0
    BY <1>1, <1>2, <1>4
  <2> QED
    BY <1>3, <2>1
<1>5. CASE p - q >= 1
  <2>1. n * (p - q) >= n
    BY <1>1, <1>2, <1>5
  <2> QED
    BY <1>3, <2>1
<1> QED
  BY <1>1, <1>2, <1>4, <1>5

-----------------------------------------------------------------------------

\* The history variables of an upload, and the invariant with them.
UploadTypes ==
  /\ begun \in [Palettes -> 0..(PaletteSize - 1)]
  /\ upload \in [Palettes -> Seq(Colors)]

VideoInv == VideoTypeOK /\ UploadTypes /\ PaletteUpload

\* What PaletteUpload says of one palette.
At(p, k) == IF auto[p] THEN (begun[p] + k - 1) % PaletteSize ELSE begun[p]
Over(p)  == IF auto[p] THEN PaletteSize ELSE 1

Uploaded(p) ==
  /\ index[p] = At(p, Len(upload[p]) + 1)
  /\ \A k \in 1..Len(upload[p]) :
       k + Over(p) > Len(upload[p]) => palette[p][At(p, k)] = upload[p][k]

LEMMA UploadedIs == PaletteUpload <=> \A p \in Palettes : Uploaded(p)
BY DEF PaletteUpload, Uploaded, At, Over

LEMMA UploadedNext == PaletteUpload' <=> \A p \in Palettes : Uploaded(p)'
BY DEF PaletteUpload, Uploaded, At, Over

LEMMA VideoStart == VideoInit => VideoInv
<1> SUFFICES ASSUME VideoInit PROVE VideoInv
  OBVIOUS
<1>1. PaletteSize \in Nat \ {0} /\ 0 \in Colors /\ 0 \in 0..(PaletteSize - 1)
  BY VideoAssumption
<1>2. VideoTypeOK
  BY <1>1 DEF VideoInit, VideoTypeOK
<1>3. UploadTypes
  BY <1>1 DEF VideoInit, UploadTypes
<1>4. ASSUME NEW p \in Palettes PROVE Uploaded(p)
  <2>1. auto[p] = FALSE /\ upload[p] = <<>> /\ begun[p] = 0 /\ index[p] = 0
    BY DEF VideoInit
  <2>2. Len(upload[p]) = 0
    BY <2>1
  <2> QED
    BY <2>1, <2>2 DEF Uploaded, At
<1> QED
  BY <1>2, <1>3, <1>4, UploadedIs DEF VideoInv

LEMMA IndexStep ==
  ASSUME VideoInv, NEW p \in Palettes, NEW i \in 0..(PaletteSize - 1), NEW step \in BOOLEAN,
         WriteIndex(p, i, step)
  PROVE  VideoInv'
<1>0. PaletteSize \in Nat \ {0}
  BY VideoAssumption
<1>1. VideoTypeOK'
  BY DEF VideoInv, VideoTypeOK, WriteIndex
<1>2. UploadTypes'
  <2>1. begun \in [Palettes -> 0..(PaletteSize - 1)] /\ upload \in [Palettes -> Seq(Colors)]
    BY DEF VideoInv, UploadTypes
  <2>2. <<>> \in Seq(Colors)
    OBVIOUS
  <2>3. begun' \in [Palettes -> 0..(PaletteSize - 1)]
    BY <2>1 DEF WriteIndex
  <2>4. upload' \in [Palettes -> Seq(Colors)]
    BY <2>1, <2>2 DEF WriteIndex
  <2> QED
    BY <2>3, <2>4 DEF UploadTypes
<1>3. ASSUME NEW o \in Palettes PROVE Uploaded(o)'
  <2>1. Uploaded(o) /\ palette' = palette
    BY UploadedIs DEF VideoInv, WriteIndex
  <2>2. CASE color /\ o = p
    <3>1. index'[o] = i /\ begun'[o] = i /\ upload'[o] = <<>> /\ auto'[o] = step
      BY <2>2 DEF VideoInv, VideoTypeOK, UploadTypes, WriteIndex
    <3>2. Len(upload'[o]) = 0
      BY <3>1
    <3>3. i + 1 - 1 = i /\ i % PaletteSize = i
      BY <1>0, SmallRemainder
    <3> QED
      BY <3>1, <3>2, <3>3 DEF Uploaded, At
  <2>3. CASE ~(color /\ o = p)
    <3>1. index'[o] = index[o] /\ begun'[o] = begun[o] /\ upload'[o] = upload[o] /\ auto'[o] = auto[o]
      BY <2>3 DEF VideoInv, VideoTypeOK, UploadTypes, WriteIndex
    <3> QED
      BY <2>1, <3>1 DEF Uploaded, At, Over
  <2> QED
    BY <2>2, <2>3
<1> QED
  BY <1>1, <1>2, <1>3, UploadedNext DEF VideoInv

LEMMA DataStep ==
  ASSUME VideoInv, NEW p \in Palettes, NEW v \in Colors, WriteData(p, v)
  PROVE  VideoInv'
<1>0. PaletteSize \in Nat \ {0}
  BY VideoAssumption
<1>1. CASE ~(color /\ PaletteAccessible)
  <2>1. UNCHANGED <<screen, color, bank, index, auto, palette, vramAt, oamAt, begun, upload>>
    BY <1>1 DEF WriteData
  <2> QED
    BY <2>1 DEF VideoInv, VideoTypeOK, UploadTypes, PaletteUpload
<1>2. CASE color /\ PaletteAccessible
  <2> DEFINE x == index[p]
             u == upload[p]
             n == Len(upload[p])
  <2>1. x \in 0..(PaletteSize - 1) /\ u \in Seq(Colors) /\ n \in Nat /\ begun[p] \in 0..(PaletteSize - 1)
        /\ auto[p] \in BOOLEAN
    BY DEF VideoInv, VideoTypeOK, UploadTypes
  <2>2. /\ palette' = [palette EXCEPT ![p][index[p]] = v]
        /\ index' = [index EXCEPT ![p] = Stepped(p)]
        /\ upload' = [upload EXCEPT ![p] = Append(@, v)]
        /\ UNCHANGED <<screen, color, bank, auto, vramAt, oamAt, begun>>
    BY <1>2 DEF WriteData
  <2>3. Stepped(p) \in 0..(PaletteSize - 1)
    <3>1. x + 1 \in Nat
      BY <2>1
    <3>2. (x + 1) % PaletteSize \in 0..(PaletteSize - 1)
      BY <1>0, <3>1, Remainder
    <3> QED
      BY <2>1, <3>2 DEF Stepped
  <2>4. Append(u, v) \in Seq(Colors) /\ Len(Append(u, v)) = n + 1 /\ Append(u, v)[n + 1] = v
        /\ \A k \in 1..n : Append(u, v)[k] = u[k]
    BY <2>1
  <2>5. /\ upload' \in [Palettes -> Seq(Colors)] /\ upload'[p] = Append(u, v)
        /\ index' \in [Palettes -> 0..(PaletteSize - 1)] /\ index'[p] = Stepped(p)
        /\ palette' \in [Palettes -> [0..(PaletteSize - 1) -> Colors]]
        /\ palette'[p] = [palette[p] EXCEPT ![x] = v]
        /\ \A o \in Palettes \ {p} :
             upload'[o] = upload[o] /\ index'[o] = index[o] /\ palette'[o] = palette[o]
    <3>1. /\ upload \in [Palettes -> Seq(Colors)] /\ index \in [Palettes -> 0..(PaletteSize - 1)]
          /\ palette \in [Palettes -> [0..(PaletteSize - 1) -> Colors]]
      BY DEF VideoInv, VideoTypeOK, UploadTypes
    <3>2. upload' \in [Palettes -> Seq(Colors)] /\ upload'[p] = Append(u, v)
      BY <2>2, <2>4, <3>1
    <3>3. index' \in [Palettes -> 0..(PaletteSize - 1)] /\ index'[p] = Stepped(p)
      BY <2>2, <2>3, <3>1
    <3>4. /\ palette' \in [Palettes -> [0..(PaletteSize - 1) -> Colors]]
          /\ palette'[p] = [palette[p] EXCEPT ![x] = v]
      <4>1. palette[p] \in [0..(PaletteSize - 1) -> Colors]
        BY <3>1
      <4>2. [palette[p] EXCEPT ![x] = v] \in [0..(PaletteSize - 1) -> Colors]
        BY <4>1
      <4>3. palette' = [palette EXCEPT ![p] = [palette[p] EXCEPT ![x] = v]]
        BY <2>2
      <4> QED
        BY <3>1, <4>2, <4>3
    <3>5. ASSUME NEW o \in Palettes \ {p}
          PROVE  upload'[o] = upload[o] /\ index'[o] = index[o] /\ palette'[o] = palette[o]
      BY <2>2, <3>1
    <3> QED
      BY <3>2, <3>3, <3>4, <3>5
  <2>6. VideoTypeOK'
    BY <2>2, <2>5 DEF VideoInv, VideoTypeOK
  <2>7. UploadTypes'
    BY <2>2, <2>5 DEF VideoInv, UploadTypes
  <2>8. ASSUME NEW o \in Palettes \ {p} PROVE Uploaded(o)'
    BY <2>2, <2>5, UploadedIs DEF VideoInv, Uploaded, At, Over
  <2>9. Uploaded(p)'
    <3>1. auto'[p] = auto[p] /\ begun'[p] = begun[p] /\ Len(upload'[p]) = n + 1
      BY <2>2, <2>4, <2>5
    <3>2. x = At(p, n + 1) /\ \A k \in 1..n : k + Over(p) > n => palette[p][At(p, k)] = u[k]
      BY UploadedIs DEF VideoInv, Uploaded
    <3>3. palette[p] \in [0..(PaletteSize - 1) -> Colors]
      BY DEF VideoInv, VideoTypeOK
    <3> DEFINE b == begun[p]
               S == PaletteSize
    <3>4. CASE auto[p]
      <4>1. /\ \A k : At(p, k) = (b + k - 1) % S /\ At(p, k)' = (b + k - 1) % S
            /\ Over(p) = S /\ Over(p)' = S
        BY <3>1, <3>4 DEF At, Over
      <4>2. b + n + 1 - 1 = b + n /\ b + n \in Nat /\ b + (n + 1) - 1 = b + n
        BY <2>1
      <4>3. x = (b + n) % S
        BY <3>2, <4>1, <4>2
      <4>4. index'[p] = (b + n + 1) % S
        <5>1. index'[p] = (x + 1) % S
          BY <2>5, <3>4 DEF Stepped
        <5>2. (((b + n) % S) + 1) % S = (b + n + 1) % S
          BY <1>0, <4>2, StepRound
        <5> QED
          BY <4>3, <5>1, <5>2
      <4>5. ASSUME NEW k \in 1..(n + 1), k + S > n + 1
            PROVE  palette'[p][(b + k - 1) % S] = upload'[p][k]
        <5>1. CASE k = n + 1
          <6>1. (b + k - 1) % S = x
            BY <4>2, <4>3, <5>1
          <6>2. palette'[p][x] = v
            BY <2>1, <2>5, <3>3
          <6> QED
            BY <2>4, <2>5, <5>1, <6>1, <6>2
        <5>2. CASE k # n + 1
          <6>1. k \in 1..n /\ k + S > n
            BY <1>0, <2>1, <4>5, <5>2
          <6>2. /\ b + k - 1 \in Nat /\ b + k - 1 < b + n /\ b + n < (b + k - 1) + S
            BY <1>0, <2>1, <4>5, <6>1
          <6>3. (b + k - 1) % S # (b + n) % S /\ (b + k - 1) % S \in 0..(S - 1)
            <7> DEFINE y == b + k - 1
                       z == b + n
            <7>1. y \in Nat /\ z \in Nat /\ y < z /\ z < y + S
              BY <4>2, <6>2
            <7> HIDE DEF y, z
            <7>2. y % S # z % S /\ y % S \in 0..(S - 1)
              BY <1>0, <7>1, PlacesDiffer, Remainder
            <7> QED
              BY <7>2 DEF y, z
          <6>4. palette[p][(b + k - 1) % S] = u[k]
            BY <3>2, <4>1, <6>1
          <6>5. palette'[p][(b + k - 1) % S] = palette[p][(b + k - 1) % S]
            BY <2>5, <3>3, <4>3, <6>3
          <6> QED
            BY <2>4, <2>5, <6>1, <6>4, <6>5
        <5> QED
          BY <5>1, <5>2
      <4>6. b + (n + 1) + 1 - 1 = b + n + 1 /\ b + ((n + 1) + 1) - 1 = b + n + 1
        BY <2>1
      <4> QED
        BY <3>1, <4>1, <4>4, <4>5, <4>6 DEF Uploaded
    <3>5. CASE ~auto[p]
      <4>1. (\A k : At(p, k) = b /\ At(p, k)' = b) /\ Over(p)' = 1
        BY <3>1, <3>5 DEF At, Over
      <4>2. index'[p] = b
        BY <2>5, <3>2, <3>5, <4>1 DEF Stepped
      <4>3. ASSUME NEW k \in 1..(n + 1), k + 1 > n + 1 PROVE palette'[p][b] = upload'[p][k]
        <5>1. k = n + 1 /\ x = b
          BY <2>1, <3>2, <4>1, <4>3
        <5>2. palette'[p][x] = v
          BY <2>1, <2>5, <3>3
        <5> QED
          BY <2>4, <2>5, <5>1, <5>2
      <4> QED
        BY <3>1, <4>1, <4>2, <4>3 DEF Uploaded
    <3> QED
      BY <3>4, <3>5
  <2> QED
    BY <2>6, <2>7, <2>8, <2>9, UploadedNext DEF VideoInv
<1> QED
  BY <1>1, <1>2

LEMMA VideoStep == VideoInv /\ [VideoNext]_videoVars => VideoInv'
<1> SUFFICES ASSUME VideoInv, [VideoNext]_videoVars PROVE VideoInv'
  OBVIOUS
<1>1. ASSUME UNCHANGED <<index, auto, palette, begun, upload>>, VideoTypeOK' PROVE VideoInv'
  BY <1>1 DEF VideoInv, UploadTypes, PaletteUpload
<1>2. ASSUME NEW m \in 0..3, VideoMode(m) PROVE VideoInv'
  BY <1>1, <1>2 DEF VideoInv, VideoTypeOK, VideoMode
<1>3. ASSUME NEW b \in 0..1, SelectBank(b) PROVE VideoInv'
  BY <1>1, <1>3 DEF VideoInv, VideoTypeOK, SelectBank
<1>4. ASSUME NEW v \in Colors, WriteVram(v) PROVE VideoInv'
  BY <1>1, <1>4 DEF VideoInv, VideoTypeOK, WriteVram
<1>5. ASSUME NEW v \in Colors, WriteOam(v) PROVE VideoInv'
  BY <1>1, <1>5 DEF VideoInv, VideoTypeOK, WriteOam
<1>6. CASE DmaWriteOam
  BY <1>1, <1>6 DEF VideoInv, VideoTypeOK, DmaWriteOam
<1>7. CASE LeaveColor
  <2>1. color' \in BOOLEAN /\ bank' = 0
    BY <1>7 DEF LeaveColor
  <2>2. VideoTypeOK'
    BY <1>7, <2>1 DEF VideoInv, VideoTypeOK, LeaveColor
  <2> QED
    BY <1>1, <1>7, <2>2 DEF LeaveColor
<1>8. CASE UNCHANGED videoVars
  BY <1>1, <1>8 DEF VideoInv, VideoTypeOK, videoVars
<1> QED
  BY <1>2, <1>3, <1>4, <1>5, <1>6, <1>7, <1>8, IndexStep, DataStep DEF VideoNext

\* PaletteUpload of VideoMemory: colors end up where the program put them.
THEOREM PalettesAlwaysUpload == VideoSpec => [](VideoTypeOK /\ PaletteUpload)
<1>1. VideoInv => VideoTypeOK /\ PaletteUpload
  BY DEF VideoInv
<1> QED
  BY <1>1, VideoStart, VideoStep, PTL DEF VideoSpec

LEMMA DrawnStep ==
  [VideoNext]_videoVars =>
    [ /\ screen = 3 => vramAt' = vramAt /\ palette' = palette
      /\ screen \in {2, 3} /\ ~DmaWriteOam => oamAt' = oamAt ]_videoVars
BY DEF VideoNext, videoVars, VideoMode, SelectBank, WriteVram, WriteOam, LeaveColor, WriteIndex, WriteData,
       DmaWriteOam, VramAccessible, OamAccessible, PaletteAccessible

\* DrawnUndisturbed of VideoMemory: what is drawn from does not change.
THEOREM LinesStayAsDrawn == VideoSpec => DrawnUndisturbed
BY DrawnStep, PTL DEF VideoSpec, DrawnUndisturbed

(***************************************************************************)
(* Every memory keeps what is put into it, whatever hides it meanwhile.    *)
(***************************************************************************)
THEOREM MemoriesHold == CartSpec /\ MapSpec /\ VideoSpec => MemoryHolds
BY CartTypes, RamAlwaysRemembers, DamageIsNoticed, MapAlwaysRight, PalettesAlwaysUpload,
   LinesStayAsDrawn, PTL DEF MemoryHolds

-----------------------------------------------------------------------------
(* The bus; Init, Next and Spec are its own. *)

(***************************************************************************)
(* How the mode came about: locked, it is what KEY0 says; until then it is *)
(* the machine's own.                                                      *)
(***************************************************************************)
Chosen ==
  /\ locked => hw /\ ~boot /\ cgb = ~compat
  /\ ~locked => cgb = hw

BusInv == TypeOK /\ ModesAgree /\ Chosen /\ SourceHolds /\ DmaLength

\* The mask keeps DMA away from OAM and from what is behind it.
LEMMA SourceRange ==
  ASSUME NEW p \in 0..255
  PROVE  Source(p) \in 0..223
BY DEF Source

LEMMA SourceRegion ==
  ASSUME NEW p \in 0..255
  PROVE  Region(Source(p)) \in {"rom", "vram", "sram", "wram"}
<1>1. ASSUME NEW q \in 0..223
      PROVE  Region(q) \in {"rom", "vram", "sram", "wram"}
  <2>1. q < 128 \/ q \in 128..159 \/ q \in 160..191 \/ q \in 192..253
    OBVIOUS
  <2> QED
    BY <2>1 DEF Region
<1> QED
  BY <1>1, SourceRange

\* A page DMA reads depends on what the processor cannot reach while it runs.
LEMMA SameContent ==
  ASSUME NEW p \in 0..255,
         UNCHANGED <<boot, cgb, svbk, vbk, cart, vram, wram>>
  PROVE  Content(Source(p))' = Content(Source(p))
<1>1. Source(p)' = Source(p) /\ Region(Source(p))' = Region(Source(p))
  BY DEF Source, Region
<1>2. InBootRom(Source(p))' = InBootRom(Source(p))
  BY DEF InBootRom, Source
<1>3. WramBank(Source(p))' = WramBank(Source(p))
  BY DEF WramBank, Source
<1> QED
  BY <1>1, <1>2, <1>3, SourceRegion DEF Content

LEMMA BankRange ==
  ASSUME TypeOK, NEW p
  PROVE  WramBank(p) \in 0..Banks
BY BusAssumption DEF TypeOK, WramBank

LEMMA ContentType ==
  ASSUME TypeOK, NEW p
  PROVE  Content(p) \in Contents
BY BusAssumption, BankRange DEF TypeOK, Content

LEMMA BusStarts == Init => BusInv
<1> SUFFICES ASSUME Init PROVE BusInv
  OBVIOUS
<1>1. {hw, hasBoot, boot, compat, locked, cgb, ppuCgb, double, prepare} \subseteq BOOLEAN
  BY DEF Init
<1>2. {cart, oam, hram} \subseteq Contents /\ vram \in [0..1 -> Contents] /\ wram \in [0..Banks -> Contents]
  BY BusAssumption DEF Init
<1>3. TypeOK
  BY <1>1, <1>2, BusAssumption DEF Init, TypeOK
<1>4. ModesAgree /\ Chosen /\ SourceHolds /\ DmaLength
  BY DEF Init, ModesAgree, Chosen, SourceHolds, DmaLength
<1> QED
  BY <1>3, <1>4 DEF BusInv

LEMMA ResetKeeps == BusInv /\ Reset => BusInv'
<1> SUFFICES ASSUME BusInv, Reset PROVE BusInv'
  OBVIOUS
<1>1. TypeOK'
  <2>1. {hw, hasBoot, boot, compat, locked, cgb, ppuCgb, double, prepare}' \subseteq BOOLEAN
    BY DEF BusInv, Reset, TypeOK, machine
  <2>2. ({cart, oam, hram} \subseteq Contents /\ vram \in [0..1 -> Contents] /\ wram \in [0..Banks -> Contents])'
    BY BusAssumption DEF Reset
  <2> QED
    BY <2>1, <2>2, BusAssumption DEF Reset, TypeOK
<1>2. (ModesAgree /\ Chosen /\ SourceHolds /\ DmaLength)'
  BY DEF BusInv, Reset, ModesAgree, Chosen, SourceHolds, DmaLength, machine
<1> QED
  BY <1>1, <1>2 DEF BusInv

\* A write to memory: outside high RAM only while no transfer runs.
LEMMA StoreKeeps ==
  ASSUME BusInv, NEW p \in Pages, NEW d \in Contents, WriteMemory(p, d)
  PROVE  BusInv'
<1> USE DEF BusInv, machine, modes, speed, banks, copying
<1>1. WramBank(p) \in 0..Banks
  BY BankRange
<1>2. /\ cart' \in Contents /\ oam' \in Contents /\ hram' \in Contents
      /\ vram' \in [0..1 -> Contents] /\ wram' \in [0..Banks -> Contents]
  <2>1. CASE Region(p) \in {"rom", "sram"}
    BY <2>1 DEF WriteMemory, TypeOK
  <2>2. CASE Region(p) = "vram"
    BY <2>2 DEF WriteMemory, TypeOK
  <2>3. CASE Region(p) = "wram"
    BY <2>3, <1>1 DEF WriteMemory, TypeOK
  <2>4. CASE Region(p) = "oam"
    BY <2>4 DEF WriteMemory, TypeOK
  <2>5. CASE Region(p) \notin {"rom", "sram", "vram", "wram", "oam"}
    BY <2>5 DEF WriteMemory, TypeOK
  <2> QED
    BY <2>1, <2>2, <2>3, <2>4, <2>5
<1>3. TypeOK'
  BY <1>2 DEF WriteMemory, TypeOK
<1>4. (ModesAgree /\ Chosen /\ DmaLength)'
  BY DEF WriteMemory, ModesAgree, Chosen, DmaLength
<1>5. SourceHolds'
  <2> SUFFICES ASSUME dma # 0 PROVE oam' = Content(Source(dmaReg))'
    BY DEF WriteMemory, SourceHolds
  <2>1. UNCHANGED <<boot, cgb, svbk, vbk, cart, vram, wram, oam, dmaReg>>
    BY DEF WriteMemory, Blocked
  <2>2. Content(Source(dmaReg))' = Content(Source(dmaReg))
    <3>1. \A q \in 0..255 : Content(Source(q))' = Content(Source(q))
      BY <2>1, SameContent
    <3> QED
      BY <2>1, <3>1 DEF TypeOK
  <2> QED
    BY <2>1, <2>2 DEF SourceHolds
<1> QED
  BY <1>3, <1>4, <1>5

LEMMA StartKeeps ==
  ASSUME BusInv, NEW p \in Pages, StartDma(p)
  PROVE  BusInv'
<1> USE DEF BusInv, machine, modes, speed, banks
<1>1. Content(Source(p)) \in Contents /\ p \in 0..255
  BY ContentType, BusAssumption
<1>2. TypeOK'
  BY <1>1, BusAssumption DEF StartDma, TypeOK
<1>3. (ModesAgree /\ Chosen)'
  BY DEF StartDma, ModesAgree, Chosen
<1>4. SourceHolds'
  BY <1>1, SameContent DEF StartDma, SourceHolds
<1>5. DmaLength'
  BY BusAssumption DEF StartDma, DmaLength
<1> QED
  BY <1>2, <1>3, <1>4, <1>5

\* The registers of the bus: only while no transfer runs.
LEMMA RegisterKeeps ==
  ASSUME BusInv,
         \/ LeaveBootRom
         \/ \E on \in BOOLEAN : WriteKey0(on) \/ WriteKey1(on)
         \/ \E b \in 0..Banks : WriteSvbk(b)
         \/ \E b \in 0..1 : WriteVbk(b)
  PROVE  BusInv'
<1> USE DEF BusInv, machine, modes, speed, banks, memory, copying
<1>1. dma = 0 /\ UNCHANGED <<memory, copying, machine>>
  BY DEF LeaveBootRom, WriteKey0, WriteKey1, WriteSvbk, WriteVbk, Blocked
<1>2. /\ {boot', compat', locked', cgb', ppuCgb', double', prepare'} \subseteq BOOLEAN
      /\ svbk' \in 0..Banks /\ vbk' \in 0..1
  <2>1. CASE LeaveBootRom
    <3>1. locked' \in BOOLEAN /\ boot' \in BOOLEAN
      BY <2>1 DEF LeaveBootRom, TypeOK
    <3>2. CASE hw /\ compat
      <4>1. svbk' = 0 /\ vbk' = 0 /\ 0 \in 0..Banks
        BY <2>1, <3>2, BusAssumption DEF LeaveBootRom
      <4>2. cgb' = FALSE /\ ppuCgb' = FALSE /\ double' = FALSE /\ prepare' = FALSE /\ compat' = compat
        BY <2>1, <3>2 DEF LeaveBootRom
      <4> QED
        <5>1. {boot', compat', locked', cgb', ppuCgb', double', prepare'} \subseteq BOOLEAN
          BY <3>1, <4>2 DEF TypeOK
        <5>2. svbk' \in 0..Banks /\ vbk' \in 0..1
          BY <4>1
        <5> QED
          BY <5>1, <5>2
    <3>3. CASE ~(hw /\ compat)
      BY <2>1, <3>1, <3>3 DEF LeaveBootRom, TypeOK
    <3> QED
      BY <3>2, <3>3
  <2>2. ASSUME NEW on \in BOOLEAN, WriteKey0(on) \/ WriteKey1(on)
        PROVE  /\ {boot', compat', locked', cgb', ppuCgb', double', prepare'} \subseteq BOOLEAN
               /\ svbk' \in 0..Banks /\ vbk' \in 0..1
    BY <2>2 DEF WriteKey0, WriteKey1, TypeOK
  <2>3. ASSUME NEW b, (b \in 0..Banks /\ WriteSvbk(b)) \/ (b \in 0..1 /\ WriteVbk(b))
        PROVE  /\ {boot', compat', locked', cgb', ppuCgb', double', prepare'} \subseteq BOOLEAN
               /\ svbk' \in 0..Banks /\ vbk' \in 0..1
    BY <2>3 DEF WriteSvbk, WriteVbk, TypeOK
  <2> QED
    BY <2>1, <2>2, <2>3
<1>3. TypeOK'
  BY <1>1, <1>2 DEF TypeOK
<1>4. (SourceHolds /\ DmaLength)'
  BY <1>1 DEF SourceHolds, DmaLength
<1>5. (ModesAgree /\ Chosen)'
  <2>1. CASE LeaveBootRom
    <3>1. {hw, compat, cgb} \subseteq BOOLEAN
      BY DEF TypeOK
    <3>2. ~locked /\ cgb = hw
      BY <2>1, <3>1 DEF LeaveBootRom, Chosen
    <3>3. CASE hw /\ compat
      BY <2>1, <3>2, <3>3 DEF LeaveBootRom, ModesAgree, Chosen
    <3>4. CASE ~(hw /\ compat)
      BY <2>1, <3>1, <3>2, <3>4 DEF LeaveBootRom, ModesAgree, Chosen
    <3> QED
      BY <3>3, <3>4
  <2>2. CASE \E on \in BOOLEAN : WriteKey0(on) \/ WriteKey1(on)
    BY <2>2 DEF WriteKey0, WriteKey1, ModesAgree, Chosen
  <2>3. CASE (\E b \in 0..Banks : WriteSvbk(b)) \/ (\E b \in 0..1 : WriteVbk(b))
    BY <2>3 DEF WriteSvbk, WriteVbk, ModesAgree, Chosen
  <2> QED
    BY <2>1, <2>2, <2>3
<1> QED
  BY <1>3, <1>4, <1>5

\* A speed switch and time may pass in the middle of a transfer.
LEMMA TimeKeeps ==
  ASSUME BusInv, SwitchSpeed \/ \E n \in Chunks : Tick(n)
  PROVE  BusInv'
<1> USE DEF BusInv, machine, modes, speed, banks, memory, copying
<1>1. UNCHANGED <<machine, modes, banks, memory, dmaReg>>
  BY DEF SwitchSpeed, Tick
<1>2. dma' \in 0..DmaCycles /\ ran' \in Nat /\ (dma' # 0 => dma' + ran' = DmaCycles)
  <2>1. CASE SwitchSpeed
    BY <2>1 DEF SwitchSpeed, TypeOK, DmaLength
  <2>2. ASSUME NEW n \in Chunks, Tick(n)
        PROVE  dma' \in 0..DmaCycles /\ ran' \in Nat /\ (dma' # 0 => dma' + ran' = DmaCycles)
    <3>1. n \in Nat /\ n # 0 /\ dma \in 0..DmaCycles /\ ran \in Nat /\ DmaCycles \in Nat
      BY BusAssumption DEF TypeOK
    <3>2. CASE dma <= n
      BY <2>2, <3>1, <3>2 DEF Tick, CountDown
    <3>3. CASE dma > n
      <4>1. dma' = dma - n /\ ran' = ran + n
        BY <2>2, <3>1, <3>3 DEF Tick, CountDown
      <4> QED
        BY <3>1, <3>3, <4>1 DEF DmaLength
    <3> QED
      BY <3>1, <3>2, <3>3
  <2> QED
    BY <2>1, <2>2
<1>3. dma' # 0 => dma # 0
  BY BusAssumption DEF SwitchSpeed, Tick, CountDown, TypeOK
<1>4. {double', prepare'} \subseteq BOOLEAN /\ (~cgb => UNCHANGED <<double, prepare>>)
  BY DEF SwitchSpeed, Tick, TypeOK
<1>5. TypeOK'
  BY <1>1, <1>2, <1>4 DEF TypeOK
<1>6. (ModesAgree /\ Chosen /\ DmaLength)'
  BY <1>1, <1>2, <1>4 DEF ModesAgree, Chosen, DmaLength
<1>7. SourceHolds'
  <2>1. \A q \in 0..255 : Content(Source(q))' = Content(Source(q))
    BY <1>1, SameContent
  <2> QED
    BY <1>1, <1>3, <2>1 DEF SourceHolds, TypeOK
<1> QED
  BY <1>5, <1>6, <1>7

LEMMA BusKept == BusInv /\ [Next]_vars => BusInv'
<1> SUFFICES ASSUME BusInv, [Next]_vars PROVE BusInv'
  OBVIOUS
<1>1. CASE UNCHANGED vars
  BY <1>1 DEF vars, machine, modes, speed, banks, memory, copying, BusInv, TypeOK, ModesAgree,
              Chosen, SourceHolds, DmaLength, Content, Source, Region, InBootRom, WramBank
<1>2. CASE Next
  BY <1>2, ResetKeeps, StoreKeeps, StartKeeps, RegisterKeeps, TimeKeeps DEF Next, Write
<1> QED
  BY <1>1, <1>2

THEOREM BusInvariance == Spec => []BusInv
BY BusStarts, BusKept, PTL DEF Spec

(***************************************************************************)
(* The registers and memories of the bus keep their types.                 *)
(***************************************************************************)
THEOREM BusTypes == Spec => []TypeOK
BY BusInvariance, PTL DEF BusInv

(***************************************************************************)
(* Bus and pixel unit agree on the mode, and outside the color mode no     *)
(* register of it is left with an effect.                                  *)
(***************************************************************************)
THEOREM OneMode == Spec => []ModesAgree
BY BusInvariance, PTL DEF BusInv

(***************************************************************************)
(* Copying a page at once cannot be told from copying it byte by byte.     *)
(***************************************************************************)
THEOREM AtOnceIsEnough == Spec => []SourceHolds
BY BusInvariance, PTL DEF BusInv

(***************************************************************************)
(* DMA shuts the processor out for DmaCycles of its own cycles.            *)
(***************************************************************************)
THEOREM DmaTakes == Spec => []DmaLength
BY BusInvariance, PTL DEF BusInv

(***************************************************************************)
(* The boot ROM, KEY0 and the mode change only in one direction.           *)
(***************************************************************************)
THEOREM FinalMode == Spec => ModeIsFinal
<1> DEFINE Final == Reset \/ /\ boot' => boot
                             /\ locked => locked' /\ compat' = compat /\ cgb' = cgb
                             /\ locked' => (cgb' <=> ~compat')
<1>1. BusInv /\ BusInv' /\ [Next]_vars => [Final]_vars
  <2> SUFFICES ASSUME BusInv, BusInv', Next PROVE Final
    BY DEF vars
  <2>1. locked' => (cgb' <=> ~compat')
    BY DEF BusInv, Chosen, TypeOK
  <2>2. Reset \/ /\ boot' => boot
                 /\ locked => locked' /\ compat' = compat /\ cgb' = cgb
    BY DEF Next, Write, WriteMemory, StartDma, LeaveBootRom, WriteKey0, WriteKey1, SwitchSpeed,
           WriteSvbk, WriteVbk, Tick, modes, BusInv, Chosen
  <2> QED
    BY <2>1, <2>2
<1> QED
  BY <1>1, BusInvariance, PTL DEF Spec, ModeIsFinal

(***************************************************************************)
(* Bus and pixel unit agree on the mode, and it is final once it is        *)
(* locked.                                                                 *)
(***************************************************************************)
THEOREM SettledMode == Spec => ModeIsSettled
BY BusTypes, OneMode, FinalMode, PTL DEF ModeIsSettled
=============================================================================
