-------------------------------- MODULE Bus --------------------------------
(***************************************************************************)
(* The bus: core/src/bus.rs with the routes of memory.rs.  It maps the     *)
(* boot ROM over the cartridge, keeps the Game Boy Color's mode, speed and *)
(* bank registers, and runs OAM DMA, which copies a page at once and then  *)
(* shuts the processor out of everything but high RAM for as long as the   *)
(* hardware would copy.                                                    *)
(*                                                                         *)
(* A page is the high byte of an address, and its contents one value.      *)
(* What the cartridge shows is one value too, which any write to it may    *)
(* change: that is the mappers' business.                                  *)
(***************************************************************************)
EXTENDS Integers

CONSTANTS
  Pages,      \* pages a program reads and writes
  Contents,   \* contents of a page
  Zero,       \* zeroed memory
  BootRom,    \* contents of the boot ROM
  Banks,      \* highest bank of work RAM, 7
  DmaCycles,  \* OAM_DMA_CPU_BLOCK_CYCLES, 640
  Chunks      \* processor cycles the bus is ticked for at a time

ASSUME BusAssumption ==
  /\ Pages \subseteq 0..255
  /\ {Zero, BootRom} \subseteq Contents
  /\ Banks \in Nat \ {0} /\ DmaCycles \in Nat \ {0}
  /\ Chunks \subseteq Nat \ {0}

VARIABLES
  hw,       \* cgb_hardware_enabled: the machine is a Game Boy Color
  hasBoot,  \* a boot ROM was given
  boot,     \* boot_rom_enabled
  compat,   \* key0_dmg_compatibility_mode
  locked,   \* key0_locked
  cgb,      \* cgb_mode_enabled
  ppuCgb,   \* the pixel unit's cgb_mode_enabled
  double,   \* cgb_double_speed
  prepare,  \* cgb_prepare_speed_switch
  svbk,     \* cgb_selected_wram_bank
  vbk,      \* the pixel unit's selected_vram_bank
  dmaReg,   \* the DMA register
  dma,      \* oam_dma_cycles_remaining
  cart, vram, wram, oam, hram,  \* the memories
  ran       \* history: processor cycles the timer ran since the DMA started

machine == <<hw, hasBoot>>
modes   == <<boot, compat, locked, cgb, ppuCgb>>
speed   == <<double, prepare>>
banks   == <<svbk, vbk>>
memory  == <<cart, vram, wram, oam, hram>>
copying == <<dmaReg, dma, ran>>
vars    == <<machine, modes, speed, banks, memory, copying>>

-----------------------------------------------------------------------------

\* route_address, by page.
Region(p) ==
  CASE p < 128 -> "rom"
    [] p \in 128..159 -> "vram"
    [] p \in 160..191 -> "sram"
    [] p \in 192..253 -> "wram"  \* and its echo
    [] p = 254 -> "oam"
    [] OTHER -> "high"

\* boot_rom_index: the window of the boot ROM.
InBootRom(p) == p = 0 \/ (cgb /\ p \in 2..8)

\* wram_index: bank 0 and the switchable bank, twice.
WramBank(p) == IF p % 32 < 16 THEN 0 ELSE IF cgb /\ svbk # 0 THEN svbk ELSE 1

\* What DMA reads in a page: read8_routed, whatever the pixel unit is doing.
Content(p) ==
  CASE Region(p) = "rom" -> IF boot /\ InBootRom(p) THEN BootRom ELSE cart
    [] Region(p) = "vram" -> vram[vbk]
    [] Region(p) = "sram" -> cart
    [] Region(p) = "wram" -> wram[WramBank(p)]
    [] Region(p) = "oam" -> oam
    [] OTHER -> hram

\* Mutant of Source: no mask.
SourceUnmasked(p) == p

\* The page DMA reads for a value of its register: value & 0xDF.
Source(p) == IF p % 64 >= 32 THEN p - 32 ELSE p

\* The processor's accesses outside high RAM are lost.
Blocked == dma # 0

-----------------------------------------------------------------------------

Init ==
  /\ hw \in BOOLEAN /\ hasBoot \in BOOLEAN
  /\ boot = hasBoot /\ compat = FALSE /\ locked = FALSE
  /\ cgb = hw /\ ppuCgb = hw
  /\ double = FALSE /\ prepare = FALSE /\ svbk = 0 /\ vbk = 0
  /\ dmaReg = 0 /\ dma = 0 /\ ran = 0
  /\ vram = [b \in 0..1 |-> Zero] /\ wram = [b \in 0..Banks |-> Zero]
  /\ oam = Zero /\ hram = Zero
  /\ cart \in Contents

\* The cartridge stays; its bank registers do not.
Reset ==
  /\ boot' = hasBoot /\ compat' = FALSE /\ locked' = FALSE
  /\ cgb' = hw /\ ppuCgb' = hw
  /\ double' = FALSE /\ prepare' = FALSE /\ svbk' = 0 /\ vbk' = 0
  /\ dmaReg' = 0 /\ dma' = 0 /\ ran' = 0
  /\ vram' = [b \in 0..1 |-> Zero] /\ wram' = [b \in 0..Banks |-> Zero]
  /\ oam' = Zero /\ hram' = Zero
  /\ cart' \in Contents
  /\ UNCHANGED machine

\* A write to memory.  The pixel unit may refuse one to its memories, and a
\* cartridge does with one what it likes.
WriteMemory(p, d) ==
  /\ Region(p) = "high" \/ ~Blocked
  /\ CASE Region(p) \in {"rom", "sram"} ->
            cart' \in Contents /\ UNCHANGED <<vram, wram, oam, hram>>
       [] Region(p) = "vram" ->
            vram' \in {vram, [vram EXCEPT ![vbk] = d]} /\ UNCHANGED <<cart, wram, oam, hram>>
       [] Region(p) = "wram" ->
            wram' = [wram EXCEPT ![WramBank(p)] = d] /\ UNCHANGED <<cart, vram, oam, hram>>
       [] Region(p) = "oam" ->
            oam' \in {oam, d} /\ UNCHANGED <<cart, vram, wram, hram>>
       [] OTHER -> hram' = d /\ UNCHANGED <<cart, vram, wram, oam>>
  /\ UNCHANGED <<machine, modes, speed, banks, copying>>

\* Mutant of StartDma: a transfer can be started again while one runs.
RestartDma(p) ==
  /\ dmaReg' = p /\ oam' = Content(Source(p))
  /\ dma' = DmaCycles /\ ran' = 0
  /\ UNCHANGED <<machine, modes, speed, banks, cart, vram, wram, hram>>

\* start_oam_dma.
StartDma(p) ==
  /\ ~Blocked
  /\ dmaReg' = p /\ oam' = Content(Source(p))
  /\ dma' = DmaCycles /\ ran' = 0
  /\ UNCHANGED <<machine, modes, speed, banks, cart, vram, wram, hram>>

\* Mutant of LeaveBootRom: KEY0 decides, and the registers stay.
LeaveBootRomOnly ==
  /\ ~Blocked /\ boot /\ boot' = FALSE
  /\ locked' = hw
  /\ cgb' = (hw /\ ~compat) /\ ppuCgb' = cgb'
  /\ UNCHANGED <<machine, compat, speed, banks, memory, copying>>

\* write_boot_rom_disable with a value other than 0: the boot ROM goes, and
\* what it left in KEY0 becomes final.
LeaveBootRom ==
  /\ ~Blocked /\ boot /\ boot' = FALSE
  /\ IF hw /\ compat
     THEN /\ cgb' = FALSE /\ ppuCgb' = FALSE
          /\ double' = FALSE /\ prepare' = FALSE /\ svbk' = 0 /\ vbk' = 0
     ELSE UNCHANGED <<cgb, ppuCgb, speed, banks>>
  /\ locked' = hw
  /\ UNCHANGED <<machine, compat, memory, copying>>

WriteKey0(dmg) ==
  /\ ~Blocked /\ hw /\ ~locked
  /\ compat' = dmg
  /\ UNCHANGED <<machine, boot, locked, cgb, ppuCgb, speed, banks, memory, copying>>

WriteKey1(p) ==
  /\ ~Blocked /\ cgb
  /\ prepare' = p
  /\ UNCHANGED <<machine, modes, double, banks, memory, copying>>

\* consume_cgb_speed_switch_request: STOP is no access to the bus.
SwitchSpeed ==
  /\ cgb /\ prepare
  /\ prepare' = FALSE /\ double' = ~double
  /\ UNCHANGED <<machine, modes, banks, memory, copying>>

WriteSvbk(b) ==
  /\ ~Blocked /\ cgb
  /\ svbk' = b
  /\ UNCHANGED <<machine, modes, speed, vbk, memory, copying>>

WriteVbk(b) ==
  /\ ~Blocked /\ ppuCgb
  /\ vbk' = b
  /\ UNCHANGED <<machine, modes, speed, svbk, memory, copying>>

\* Mutant of CountDown: counted with the pixel unit's clock.
CountDots(n) == IF double THEN n \div 2 ELSE n

\* Cycles the countdown of DMA runs when the processor spends n.
CountDown(n) == n

\* tick_for_cpu_cycles, as far as the countdown goes; the timer runs with it.
Tick(n) ==
  /\ dma' = IF dma <= CountDown(n) THEN 0 ELSE dma - CountDown(n)
  /\ ran' = IF dma' = 0 THEN 0 ELSE ran + n
  /\ UNCHANGED <<machine, modes, speed, banks, memory, dmaReg>>

Write ==
  \/ \E p \in Pages, d \in Contents : WriteMemory(p, d)
  \/ \E p \in Pages : StartDma(p)
  \/ LeaveBootRom
  \/ \E on \in BOOLEAN : WriteKey0(on) \/ WriteKey1(on)
  \/ \E b \in 0..Banks : WriteSvbk(b)
  \/ \E b \in 0..1 : WriteVbk(b)

Next == Write \/ SwitchSpeed \/ (\E n \in Chunks : Tick(n)) \/ Reset

Spec == Init /\ [][Next]_vars

\* Every instruction takes time, whatever it writes.
FairSpec == Spec /\ WF_vars(\E n \in Chunks : Tick(n))

-----------------------------------------------------------------------------

TypeOK ==
  /\ {hw, hasBoot, boot, compat, locked, cgb, ppuCgb, double, prepare} \subseteq BOOLEAN
  /\ svbk \in 0..Banks /\ vbk \in 0..1
  /\ dmaReg \in 0..255 /\ dma \in 0..DmaCycles /\ ran \in Nat
  /\ {cart, oam, hram} \subseteq Contents
  /\ vram \in [0..1 -> Contents] /\ wram \in [0..Banks -> Contents]

(***************************************************************************)
(* Bus and pixel unit always agree on the mode, and nothing that only a    *)
(* Game Boy Color has survives when the boot ROM leaves it in the other    *)
(* mode: speed, a prepared switch and both bank registers are as if they   *)
(* had never been written (lock_key0_and_apply_cgb_mode_selection).        *)
(***************************************************************************)
ModesAgree ==
  /\ cgb = ppuCgb
  /\ cgb => hw
  /\ ~cgb => ~double /\ ~prepare /\ svbk = 0 /\ vbk = 0

(***************************************************************************)
(* The boot ROM comes back only with a reset, KEY0 never changes once it   *)
(* is locked, and the mode never after it was chosen: whatever is written  *)
(* to FF50, KEY0 and KEY1 in whatever order.                               *)
(***************************************************************************)
ModeIsFinal ==
  [][Reset \/ /\ boot' => boot
              /\ locked => locked' /\ compat' = compat /\ cgb' = cgb
              /\ locked' => (cgb' <=> ~compat')]_vars

(***************************************************************************)
(* DMA copies at once where the hardware copies byte by byte.  No program  *)
(* can tell: as long as the transfer would take, the page it reads, with   *)
(* the mapping of banks and boot ROM it is read through, still has the     *)
(* contents OAM was given.                                                 *)
(***************************************************************************)
SourceHolds == dma # 0 => oam = Content(Source(dmaReg))

(***************************************************************************)
(* OAM gets the page that was asked for, for every page up to the end of   *)
(* work RAM.                                                               *)
(***************************************************************************)
CopiesThePage == dma # 0 /\ dmaReg < 224 => oam = Content(dmaReg)

(***************************************************************************)
(* DMA shuts the processor out for the same number of its own cycles at    *)
(* either speed, and when the speed is switched in the middle.             *)
(***************************************************************************)
DmaLength == dma # 0 => dma + ran = DmaCycles

(***************************************************************************)
(* A program cannot keep itself shut out: a transfer ends, whatever it     *)
(* writes in the meantime.                                                 *)
(***************************************************************************)
DmaEnds == dma # 0 ~> dma = 0

(***************************************************************************)
(* Bus and pixel unit agree on the machine they are, and that is settled   *)
(* for good when KEY0 is locked.                                           *)
(***************************************************************************)
ModeIsSettled == [](TypeOK /\ ModesAgree) /\ ModeIsFinal
=============================================================================
