----------------------------- MODULE MemoryMap -----------------------------
(***************************************************************************)
(* Where an access of the processor ends up: the routes of memory.rs, the  *)
(* registers each device answers to, and the cells behind the routes the   *)
(* bus serves itself.                                                      *)
(***************************************************************************)
EXTENDS Integers, FiniteSets, SequencesExt

CONSTANTS
  Addresses,   \* addresses looked at
  MapBanks     \* values of SVBK looked at

ASSUME MapAssumption ==
  /\ Addresses \subseteq {a \in Nat : a <= \hFFFF}
  /\ MapBanks \subseteq 0..7

VARIABLES
  address,  \* what the processor accesses
  isCgb,    \* cgb_mode_enabled
  svbkNow,  \* cgb_selected_wram_bank
  booting   \* boot_rom_enabled

mapVars == <<address, isCgb, svbkNow, booting>>

MapInit ==
  /\ address \in Addresses /\ isCgb \in BOOLEAN /\ booting \in BOOLEAN
  /\ svbkNow \in IF isCgb THEN MapBanks ELSE {0}

\* Nothing moves here: a behaviour looks at one address.
MapSpec == MapInit /\ [][FALSE]_mapVars

-----------------------------------------------------------------------------

Entry(from, to, target) == [span |-> from..to, target |-> target]

\* BUS_ROUTE_ENTRIES
BusRoutes ==
  <<Entry(0, \h7FFF, "rom"), Entry(\h8000, \h9FFF, "vram"), Entry(\hA000, \hBFFF, "sram"),
    Entry(\hC000, \hDFFF, "wram"), Entry(\hE000, \hFDFF, "echo"), Entry(\hFE00, \hFE9F, "oam"),
    Entry(\hFEA0, \hFEFF, "unusable"), Entry(\hFF00, \hFF7F, "io"), Entry(\hFF80, \hFFFE, "hram"),
    Entry(\hFFFF, \hFFFF, "ie")>>

\* route_address: the first entry that contains the address.
RouteAddress(a) ==
  LET hits == {i \in DOMAIN BusRoutes : a \in BusRoutes[i].span}
  IN BusRoutes[CHOOSE i \in hits : \A j \in hits : i <= j].target

ApuRegisters    == (\hFF10..\hFF26 \union \hFF30..\hFF3F)
SerialRegisters == {\hFF01, \hFF02}
TimerRegisters  == {\hFF04, \hFF05, \hFF06, \hFF07}
PpuRegisters    == \hFF40..\hFF4B \union {\hFF4F} \union \hFF68..\hFF6B

\* route_io_address
RouteIo(a) ==
  CASE a = \hFF50 -> "boot" [] a = \hFF4C -> "key0" [] a = \hFF4D -> "key1" [] a = \hFF70 -> "svbk"
    [] a = \hFF00 -> "joypad"
    [] a \in ApuRegisters -> "apu" [] a \in SerialRegisters -> "serial"
    [] a \in TimerRegisters -> "timer" [] a \in PpuRegisters -> "ppu"
    [] OTHER -> "generic"

\* The registers the devices know, by their own tables.
ApuHoles   == {\hFF15, \hFF1F}
ApuKnows   == ((\hFF10..\hFF26) \ ApuHoles) \union \hFF30..\hFF3F
PpuReads   == {\hFF40, \hFF41, \hFF42, \hFF43, \hFF44, \hFF45, \hFF46, \hFF47, \hFF48, \hFF49,
               \hFF4A, \hFF4B, \hFF4F, \hFF68, \hFF69, \hFF6A, \hFF6B}
SerialKnows == {\hFF01, \hFF02}
TimerKnows == {\hFF04, \hFF05, \hFF06, \hFF07}

DeviceOf(a) ==
  CASE a \in ApuKnows -> "apu" [] a \in PpuReads -> "ppu" [] a \in SerialKnows -> "serial"
    [] a \in TimerKnows -> "timer" [] OTHER -> "none"

-----------------------------------------------------------------------------
(* The cells of the memories the bus keeps: bank and offset. *)

\* active_cgb_wram_bank
ActiveBank(cgb, svbk) == IF svbk = 0 THEN 1 ELSE svbk

\* wram_index
WramIndex(a, cgb, svbk) ==
  LET offset == a - \hC000
  IN IF ~cgb \/ offset < \h1000 THEN offset
     ELSE ActiveBank(cgb, svbk) * \h1000 + (offset - \h1000)

\* boot_rom_index
BootIndex(a, cgb) ==
  IF a \in 0..\hFF \/ (cgb /\ a \in \h200..\h8FF) THEN <<a>> ELSE <<>>

\* read8_routed: the memory and the place in it.
CellOf(a, cgb, svbk, boot) ==
  LET route == RouteAddress(a)
  IN CASE route = "rom" -> IF boot /\ BootIndex(a, cgb) # <<>> THEN <<"boot", a>> ELSE <<"cartridge", a>>
       [] route = "sram" -> <<"cartridge", a>>
       [] route = "vram" -> <<"vram", a - \h8000>>
       [] route = "wram" -> <<"wram", WramIndex(a, cgb, svbk)>>
       [] route = "echo" -> <<"wram", WramIndex(a - \h2000, cgb, svbk)>>
       [] route = "oam" -> <<"oam", a - \hFE00>>
       [] route = "io" -> <<RouteIo(a), a - \hFF00>>
       [] route = "hram" -> <<"hram", a - \hFF80>>
       [] OTHER -> <<route, 0>>

CellNow(a) == CellOf(a, isCgb, svbkNow, booting)

\* write8_routed takes the same routes, but no write ends in a boot ROM: the
\* cartridge gets it, and its mapper works while the boot ROM runs.
CellWritten(a) == CellOf(a, isCgb, svbkNow, FALSE)

-----------------------------------------------------------------------------

(***************************************************************************)
(* Every address has one route, so that no order of the entries matters,   *)
(* and no access, read or write, leaves the memory it ends in.             *)
(***************************************************************************)
CellSizes ==
  [m \in {"vram", "wram", "oam", "hram", "generic", "boot"} |->
     CASE m = "vram" -> \h2000 [] m = "wram" -> \h8000 [] m = "oam" -> \hA0 [] m = "hram" -> \h7F
       [] m = "generic" -> \h80 [] m = "boot" -> IF isCgb THEN \h900 ELSE \h100]

MapIsExact ==
  /\ Cardinality({i \in DOMAIN BusRoutes : address \in BusRoutes[i].span}) = 1
  /\ \A cell \in {CellNow(address), CellWritten(address)} :
       cell[1] \in DOMAIN CellSizes => cell[2] \in 0..(CellSizes[cell[1]] - 1)

(***************************************************************************)
(* Two addresses are the same memory only if one is the echo of the other, *)
(* and with two banks selected only below D000: switching the bank never   *)
(* moves what is there.                                                    *)
(***************************************************************************)
Plain(a) == IF RouteAddress(a) = "echo" THEN a - \h2000 ELSE a

EchoOnly ==
  RouteAddress(address) \in {"wram", "echo"} =>
    \A b \in Addresses : RouteAddress(b) \in {"wram", "echo"} =>
      \A svbk \in MapBanks :
        CellNow(address) = CellOf(b, isCgb, svbk, booting) <=>
          /\ Plain(address) = Plain(b)
          /\ (isCgb /\ Plain(b) >= \hD000) => (svbk = svbkNow \/ {svbk, svbkNow} = {0, 1})

(***************************************************************************)
(* The header of the cartridge is never hidden: a boot ROM, which compares *)
(* the logo in it, reads it in either mode while it is mapped itself.      *)
(***************************************************************************)
HeaderVisible == address \in \h100..\h14F => CellNow(address) = <<"cartridge", address>>

(***************************************************************************)
(* A register a device implements is routed to that device, and one routed *)
(* to a device is implemented there, except two holes of the sound unit.   *)
(***************************************************************************)
DevicesAnswer ==
  RouteAddress(address) = "io" =>
    /\ DeviceOf(address) # "none" => RouteIo(address) = DeviceOf(address)
    /\ (RouteIo(address) \in {"apu", "ppu", "serial", "timer"} /\ address \notin ApuHoles)
          => DeviceOf(address) = RouteIo(address)
=============================================================================
