------------------------------ MODULE Memories ------------------------------
(***************************************************************************)
(* The memories a program reaches, side by side: the cartridge with its    *)
(* header, the map of addresses, and the memories of the pixel unit.       *)
(***************************************************************************)
EXTENDS Cartridge, MemoryMap, VideoMemory

CONSTANT HeaderValues \* contents of a byte of the header

ASSUME MemoriesAssumption == HeaderValues \subseteq 0..255

(***************************************************************************)
(* Every memory keeps what is put into it, whatever hides it meanwhile:    *)
(* RAM of the cartridge behind its gate and in save files, palettes and    *)
(* sprites behind mode 3, cells of the map under one address each but for  *)
(* the echo; and damage to the header is noticed.                          *)
(***************************************************************************)
MemoryHolds ==
  /\ [](CartTypeOK /\ RamRemembers /\ ChecksumCatches(image, HeaderValues))
  /\ [](MapIsExact /\ EchoOnly /\ HeaderVisible /\ DevicesAnswer)
  /\ [](VideoTypeOK /\ PaletteUpload) /\ DrawnUndisturbed
=============================================================================
