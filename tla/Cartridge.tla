----------------------------- MODULE Cartridge -----------------------------
(***************************************************************************)
(* A cartridge with its mapper: registers the program writes where the ROM *)
(* is, the banks of ROM and RAM they select, and the RAM a battery keeps.  *)
(* A bank of RAM is one cell.  Writes of the program come from a small set *)
(* of values, and `writes` bounds how many reach the RAM or fill it.       *)
(***************************************************************************)
EXTENDS Header

CONSTANTS
  Images,        \* cartridge images
  ControlValues, \* bytes written to the registers
  Data,          \* contents of a bank of RAM
  MaxWrites      \* bound: accepted changes of the RAM

ASSUME CartridgeAssumption ==
  /\ Images \subseteq [len : Nat, title : 0..255, cgb : 0..255, type : 0..255, rom : 0..255,
                       ram : 0..255, dest : 0..255, checksum : 0..255]
  /\ ControlValues \subseteq 0..255
  /\ 0 \in Data

VARIABLES
  image,    \* the image the cartridge was made from
  ramOn,    \* ram_enabled
  low,      \* rom_bank_low5, rom_bank or rom_bank_low8
  high,     \* bank_upper2 or rom_bank_high1
  mode,     \* banking_mode
  ramSel,   \* ram_bank_or_rtc or ram_bank
  ram,      \* external_ram: bank -> contents; no banks if there is none
  file,     \* history: what save_data returned, <<>> if nothing yet
  latest,   \* history: bank -> what the program last wrote while it had it
  writes    \* changes of the RAM so far

cartVars == <<image, ramOn, low, high, mode, ramSel, ram, file, latest, writes>>

mapper   == MapperOf(image.type)
romCount == image.len \div BankSize
battery  == image.type \in BatteryRamTypes
hasRam   == RamBanks(image.ram) # <<>>

Blank(banks) == IF banks = <<>> THEN <<>> ELSE [b \in 0..(Head(banks) - 1) |-> 0]

\* The banks of RAM the header promises, none if there is no RAM.
BanksOfRam == DOMAIN Blank(RamBanks(image.ram))

NonZero(n) == IF n = 0 THEN 1 ELSE n

CartInit ==
  /\ image \in {i \in Images : FromRom(i) = "ok"}
  /\ ramOn = FALSE /\ low = 1 /\ high = 0 /\ mode = 0 /\ ramSel = 0
  /\ ram = Blank(RamBanks(image.ram)) /\ latest = ram
  /\ file = <<>> /\ writes = 0

-----------------------------------------------------------------------------
(* read_rom: the bank at 0000 and the bank at 4000, by the registers. *)

\* Mutant of Fixed: the mode of MBC1 is ignored.
FixedPlain(m, h) == 0

Fixed(m, h) == IF mapper = "mbc1" /\ m = 1 THEN (h * 32) % romCount ELSE 0

WindowMbc1(l, h) == NonZero((h * 32 + l) % romCount)

WindowMbc3(l) == NonZero(l % romCount)

\* The only mapper that can show bank 0 twice.
WindowMbc5(l, h) == (h * 256 + l) % romCount

Window(l, h) ==
  CASE mapper = "mbc1" -> WindowMbc1(l, h)
    [] mapper = "mbc3" -> WindowMbc3(l)
    [] mapper = "mbc5" -> WindowMbc5(l, h)
    [] OTHER -> 1

FixedBank  == Fixed(mode, high)
WindowBank == Window(low, high)

-----------------------------------------------------------------------------
(* write_control, by the 4 KiB block the address is in *)

Gate(v) == v % 16 = 10

\* The low bits of the bank a byte written selects; only MBC5 takes zero.
LowBits(v) ==
  CASE mapper = "mbc1" -> NonZero(v % 32)
    [] mapper = "mbc3" -> NonZero(v % 128)
    [] OTHER -> v

ControlMbc1(block, v) ==
  /\ ramOn' = IF block \in 0..1 THEN Gate(v) ELSE ramOn
  /\ low'   = IF block \in 2..3 THEN LowBits(v) ELSE low
  /\ high'  = IF block \in 4..5 THEN v % 4 ELSE high
  /\ mode'  = IF block \in 6..7 THEN v % 2 ELSE mode
  /\ UNCHANGED ramSel

ControlMbc3(block, v) ==
  /\ ramOn'  = IF block \in 0..1 THEN Gate(v) ELSE ramOn
  /\ low'    = IF block \in 2..3 THEN LowBits(v) ELSE low
  /\ ramSel' = IF block \in 4..5 THEN v % 16 ELSE ramSel
  /\ UNCHANGED <<high, mode>>

ControlMbc5(block, v) ==
  /\ ramOn'  = IF block \in 0..1 THEN Gate(v) ELSE ramOn
  /\ low'    = IF block = 2 THEN LowBits(v) ELSE low
  /\ high'   = IF block = 3 THEN v % 2 ELSE high
  /\ ramSel' = IF block \in 4..5 THEN v % 16 ELSE ramSel
  /\ UNCHANGED mode

WriteControl(block, v) ==
  /\ CASE mapper = "mbc1" -> ControlMbc1(block, v)
       [] mapper = "mbc3" -> ControlMbc3(block, v)
       [] mapper = "mbc5" -> ControlMbc5(block, v)
       [] OTHER -> UNCHANGED <<ramOn, low, high, mode, ramSel>>
  /\ UNCHANGED <<image, ram, file, latest, writes>>

-----------------------------------------------------------------------------
(* External RAM *)

\* A clock register of MBC3 hides the RAM; a cartridge without mapper has no gate.
RamOpen ==
  /\ hasRam
  /\ mapper = "rom" \/ ramOn
  /\ mapper = "mbc3" => ramSel <= 3

\* What the program has selected, and the bank that is.
Selection ==
  CASE mapper = "mbc1" -> IF mode = 0 THEN 0 ELSE high
    [] mapper \in {"mbc3", "mbc5"} -> ramSel
    [] OTHER -> 0

RamBank == Selection % Head(RamBanks(image.ram))

ReadRam == IF RamOpen THEN <<ram[RamBank]>> ELSE <<>>

\* What the program may expect of the registers it wrote, for the history: a
\* number of a bank, which wraps, and RAM behind it.
Expected ==
  CASE mapper = "mbc1" -> mode * high
    [] mapper \in {"mbc3", "mbc5"} -> ramSel
    [] OTHER -> 0

Possible == hasRam /\ (mapper = "rom" \/ ramOn) /\ (mapper # "mbc3" \/ Expected <= 3)

WriteRam(v) ==
  /\ IF RamOpen
     THEN /\ writes < MaxWrites /\ writes' = writes + 1
          /\ ram' = [ram EXCEPT ![RamBank] = v]
     ELSE UNCHANGED <<ram, writes>>
  /\ latest' = IF Possible THEN [latest EXCEPT ![Expected % Head(RamBanks(image.ram))] = v] ELSE latest
  /\ UNCHANGED <<image, ramOn, low, high, mode, ramSel, file>>

SaveData ==
  /\ file' = IF battery /\ hasRam THEN <<ram>> ELSE <<>>
  /\ UNCHANGED <<image, ramOn, low, high, mode, ramSel, ram, latest, writes>>

\* Mutant of Accepts: a file of another length is taken.
AcceptsAny(data) == battery /\ hasRam

Accepts(data) == battery /\ hasRam /\ DOMAIN data = DOMAIN ram

LoadSaveData(data) ==
  /\ IF Accepts(data)
     THEN writes < MaxWrites /\ writes' = writes + 1 /\ ram' = data
     ELSE UNCHANGED <<ram, writes>>
  /\ latest' = IF battery /\ hasRam /\ DOMAIN data = BanksOfRam THEN data ELSE latest
  /\ UNCHANGED <<image, ramOn, low, high, mode, ramSel, file>>

\* Cartridge::reset: the registers of the mapper; the RAM stays.
CartReset ==
  /\ ramOn' = FALSE /\ low' = 1 /\ high' = 0 /\ mode' = 0 /\ ramSel' = 0
  /\ UNCHANGED <<image, ram, file, latest, writes>>

\* A file the program saved, or one of another cartridge.
Files == {file[i] : i \in DOMAIN file} \union {Blank(<<1>>), Blank(<<4>>)}

CartNext ==
  \/ \E block \in 0..7, v \in ControlValues : WriteControl(block, v)
  \/ \E v \in Data : WriteRam(v)
  \/ SaveData
  \/ \E data \in Files : LoadSaveData(data)
  \/ CartReset

CartSpec == CartInit /\ [][CartNext]_cartVars

-----------------------------------------------------------------------------

CartTypeOK ==
  /\ image \in Images /\ FromRom(image) = "ok"
  /\ ramOn \in BOOLEAN /\ mode \in 0..1 /\ high \in 0..3 /\ low \in 0..255 /\ ramSel \in 0..15
  /\ mapper \in {"mbc1", "mbc3"} => low \in 1..127

(***************************************************************************)
(* Whatever the program writes, it sees banks the image has; and the bank  *)
(* at 0000 is not shown twice where the mapper promises that.              *)
(***************************************************************************)
RomInImage ==
  romCount >= 2 =>
    /\ FixedBank \in 0..(romCount - 1) /\ WindowBank \in 0..(romCount - 1)
    /\ mapper # "mbc5" => WindowBank # 0

Fresh == ~ramOn /\ low = 1 /\ high = 0 /\ mode = 0 /\ ramSel = 0

Reach == CASE mapper = "mbc1" -> 32 * 4 [] mapper = "mbc3" -> 128 [] mapper = "mbc5" -> 512 [] OTHER -> 2

\* The banks some values of the registers show, at one of the two places.
Shown ==
  {Fixed(m, h) : m \in 0..1, h \in 0..3}
  \union {Window(LowBits(v), h) : v \in 0..255, h \in IF mapper = "mbc1" THEN 0..3 ELSE 0..1}

(***************************************************************************)
(* A program that starts can get every bank of its image shown, at one of  *)
(* the two places, if the image is within the reach of its mapper: no bank *)
(* is hidden for good by the replacement of zero.                          *)
(***************************************************************************)
EveryBankShows == (Fresh /\ romCount \in 2..Reach) => 0..(romCount - 1) \subseteq Shown

(***************************************************************************)
(* The registers that switch the RAM of MBC1 move the ROM only where the   *)
(* image is too large for the register of five bits: on smaller images     *)
(* with a number of banks that is a power of two the program may use them  *)
(* freely for the RAM.                                                     *)
(***************************************************************************)
RamBankingKeepsRom ==
  [][ (mapper = "mbc1" /\ romCount \in {2, 4, 8, 16, 32} /\ low' = low)
        => /\ FixedBank' = FixedBank /\ WindowBank' = WindowBank ]_cartVars

(***************************************************************************)
(* A program finds in each bank of RAM what it last wrote there, through   *)
(* any switching, closing, reset, save and load; writes while the RAM is   *)
(* closed or hidden by the clock never reach it, a save file is taken as a *)
(* whole or not at all, and one of another size not: the RAM keeps the     *)
(* banks the header promises.                                              *)
(***************************************************************************)
RamRemembers == ram = latest /\ DOMAIN ram = BanksOfRam

(***************************************************************************)
(* Programs see the ROM that was loaded, all of it and nothing else, and   *)
(* banking RAM does not move it.                                           *)
(***************************************************************************)
BanksHold == [](RomInImage /\ EveryBankShows) /\ RamBankingKeepsRom
=============================================================================
