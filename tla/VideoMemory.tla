---------------------------- MODULE VideoMemory ----------------------------
(***************************************************************************)
(* The memories of the pixel unit as the program reaches them: VRAM in two *)
(* banks, OAM, and the palettes of a Game Boy Color behind an index that   *)
(* may step with every write.  The mode of the screen closes them; OAM DMA *)
(* passes by.  A bank of VRAM and OAM are one cell each.                   *)
(***************************************************************************)
EXTENDS Integers, Sequences

CONSTANTS
  PaletteSize,  \* CGB_PALETTE_RAM_SIZE, a power of two: 64
  Colors,       \* contents of a byte
  MaxStores     \* bound: writes that reach a memory

ASSUME VideoAssumption == PaletteSize \in Nat \ {0} /\ 0 \in Colors

Palettes == {"bg", "obj"}

VARIABLES
  screen,  \* the mode in STAT
  color,   \* cgb_mode_enabled
  bank,    \* selected_vram_bank
  index,   \* bg_palette_index, obj_palette_index
  auto,    \* their CGB_PALETTE_AUTO_INCREMENT
  palette, \* cgb_bg_palette_ram, cgb_obj_palette_ram
  vramAt,  \* vram, by bank
  oamAt,   \* oam
  begun,   \* history: the index written last
  upload,  \* history: the data written since that were let through
  stores   \* writes so far

videoVars == <<screen, color, bank, index, auto, palette, vramAt, oamAt, begun, upload, stores>>

VideoInit ==
  /\ screen = 0 /\ color \in BOOLEAN /\ bank = 0
  /\ index = [p \in Palettes |-> 0] /\ auto = [p \in Palettes |-> FALSE]
  /\ palette = [p \in Palettes |-> [i \in 0..(PaletteSize - 1) |-> 0]]
  /\ vramAt = [b \in 0..1 |-> 0] /\ oamAt = 0
  /\ begun = index /\ upload = [p \in Palettes |-> <<>>] /\ stores = 0

VramAccessible    == screen # 3
OamAccessible     == screen \notin {2, 3}
PaletteAccessible == screen # 3

Store == stores < MaxStores /\ stores' = stores + 1

\* What the pixel unit does by itself, and switching it on and off.
VideoMode(m) ==
  /\ screen' = m
  /\ UNCHANGED <<color, bank, index, auto, palette, vramAt, oamAt, begun, upload, stores>>

\* set_cgb_mode_enabled, at the end of the boot ROM
LeaveColor ==
  /\ color /\ color' = FALSE /\ bank' = 0
  /\ UNCHANGED <<screen, index, auto, palette, vramAt, oamAt, begun, upload, stores>>

SelectBank(b) ==
  /\ bank' = IF color THEN b ELSE bank
  /\ UNCHANGED <<screen, color, index, auto, palette, vramAt, oamAt, begun, upload, stores>>

WriteVram(v) ==
  /\ IF VramAccessible THEN Store /\ vramAt' = [vramAt EXCEPT ![bank] = v]
     ELSE UNCHANGED <<vramAt, stores>>
  /\ UNCHANGED <<screen, color, bank, index, auto, palette, oamAt, begun, upload>>

\* Mutant of WriteOam: open whenever VRAM is.
WriteOamLikeVram(v) ==
  /\ IF VramAccessible THEN Store /\ oamAt' = v ELSE UNCHANGED <<oamAt, stores>>
  /\ UNCHANGED <<screen, color, bank, index, auto, palette, vramAt, begun, upload>>

WriteOam(v) ==
  /\ IF OamAccessible THEN Store /\ oamAt' = v ELSE UNCHANGED <<oamAt, stores>>
  /\ UNCHANGED <<screen, color, bank, index, auto, palette, vramAt, begun, upload>>

\* dma_write_oam with what dma_read_vram or dma_read_oam gave, in any mode.
DmaWriteOam ==
  /\ Store
  /\ oamAt' \in {vramAt[bank], oamAt}
  /\ UNCHANGED <<screen, color, bank, index, auto, palette, vramAt, begun, upload>>

\* BCPS, OCPS
WriteIndex(p, i, step) ==
  /\ IF color
     THEN /\ index' = [index EXCEPT ![p] = i] /\ auto' = [auto EXCEPT ![p] = step]
          /\ begun' = [begun EXCEPT ![p] = i] /\ upload' = [upload EXCEPT ![p] = <<>>]
     ELSE UNCHANGED <<index, auto, begun, upload>>
  /\ UNCHANGED <<screen, color, bank, palette, vramAt, oamAt, stores>>

\* increment_cgb_palette_index
Stepped(p) == IF auto[p] THEN (index[p] + 1) % PaletteSize ELSE index[p]

\* BCPD, OCPD
WriteData(p, v) ==
  /\ IF color /\ PaletteAccessible
     THEN /\ Store
          /\ palette' = [palette EXCEPT ![p][index[p]] = v]
          /\ index' = [index EXCEPT ![p] = Stepped(p)]
          /\ upload' = [upload EXCEPT ![p] = Append(@, v)]
     ELSE UNCHANGED <<palette, index, upload, stores>>
  /\ UNCHANGED <<screen, color, bank, auto, vramAt, oamAt, begun>>

VideoNext ==
  \/ \E m \in 0..3 : VideoMode(m)
  \/ \E b \in 0..1 : SelectBank(b)
  \/ \E v \in Colors : WriteVram(v) \/ WriteOam(v)
  \/ DmaWriteOam \/ LeaveColor
  \/ \E p \in Palettes, i \in 0..(PaletteSize - 1), step \in BOOLEAN : WriteIndex(p, i, step)
  \/ \E p \in Palettes, v \in Colors : WriteData(p, v)

VideoSpec == VideoInit /\ [][VideoNext]_videoVars

-----------------------------------------------------------------------------

VideoTypeOK ==
  /\ screen \in 0..3 /\ color \in BOOLEAN /\ bank \in 0..1 /\ (~color => bank = 0)
  /\ index \in [Palettes -> 0..(PaletteSize - 1)] /\ auto \in [Palettes -> BOOLEAN]
  /\ palette \in [Palettes -> [0..(PaletteSize - 1) -> Colors]]
  /\ vramAt \in [0..1 -> Colors] /\ oamAt \in Colors

(***************************************************************************)
(* A program that sets an index once and then writes colors finds each of  *)
(* them where it belongs, around the end of the memory and with the other  *)
(* palette written in between: writes that come while the screen is drawn  *)
(* are dropped and do not move the index, so that it can wait and go on.   *)
(***************************************************************************)
PaletteUpload ==
  \A p \in Palettes :
    LET n     == Len(upload[p])
        at(k) == IF auto[p] THEN (begun[p] + k - 1) % PaletteSize ELSE begun[p]
        over  == IF auto[p] THEN PaletteSize ELSE 1  \* writes before the next hits the same place
    IN /\ index[p] = at(n + 1)
       /\ \A k \in 1..n : k + over > n => palette[p][at(k)] = upload[p][k]

(***************************************************************************)
(* What the pixel unit draws from does not change under it: only DMA gets  *)
(* at OAM while it is searched, and nothing at anything else while a line  *)
(* is drawn.                                                               *)
(***************************************************************************)
DrawnUndisturbed ==
  [][ /\ screen = 3 => vramAt' = vramAt /\ palette' = palette
      /\ screen \in {2, 3} /\ ~DmaWriteOam => oamAt' = oamAt ]_videoVars
=============================================================================
