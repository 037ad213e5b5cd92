------------------------------- MODULE Header -------------------------------
(***************************************************************************)
(* The header of a cartridge image: what its codes mean, and what makes an *)
(* image be rejected or accepted with warnings.                            *)
(***************************************************************************)
EXTENDS Integers, Sequences

CONSTANTS
  HeaderSize,  \* CARTRIDGE_HEADER_SIZE, in bytes
  BankSize     \* ROM_BANK_SIZE

ASSUME HeaderAssumption == HeaderSize \in Nat \ {0} /\ BankSize \in Nat \ {0}

RomTypes  == {0, 8, 9}
Mbc1Types == {1, 2, 3}
Mbc3Types == {15, 16, 17, 18, 19}
Mbc5Types == {25, 26, 27, 28, 29, 30}

KnownTypes == RomTypes \union Mbc1Types \union Mbc3Types \union Mbc5Types

\* Mapper::new
MapperOf(type) ==
  CASE type \in RomTypes  -> "rom"
    [] type \in Mbc1Types -> "mbc1"
    [] type \in Mbc3Types -> "mbc3"
    [] type \in Mbc5Types -> "mbc5"
    [] OTHER -> "unsupported"

BatteryRamTypes == {3, 9, 16, 19, 27, 30}

\* Banks of 16 KiB; sizes the header may name but the program does not know
\* are <<>>.
RomBanks(code) ==
  CASE code \in 0..8 -> <<2 ^ (code + 1)>>
    [] code = 82 -> <<72>>
    [] code = 83 -> <<80>>
    [] code = 84 -> <<96>>
    [] OTHER -> <<>>

\* Banks of 8 KiB.
RamBanks(code) ==
  CASE code = 2 -> <<1>> [] code = 3 -> <<4>> [] code = 4 -> <<16>> [] code = 5 -> <<8>>
    [] OTHER -> <<>>

\* The bytes 0134 to 014C, the title standing for those that are not decoded.
HeaderBytes(image) ==
  <<image.title, image.cgb, image.type, image.rom, image.ram, image.dest>>

Subtracted(sum, byte) == (sum - byte - 1) % 256

Checksum(image) ==
  LET bytes == HeaderBytes(image)
      sum[i \in 0..Len(bytes)] == IF i = 0 THEN 0 ELSE Subtracted(sum[i - 1], bytes[i])
  IN sum[Len(bytes)]

Warnings(image) ==
     (IF image.checksum # Checksum(image) THEN {"checksum"} ELSE {})
     \union (IF image.type \notin KnownTypes THEN {"type"} ELSE {})
     \union (IF RomBanks(image.rom) = <<>> THEN {"rom"} ELSE {})
     \union (IF image.ram # 0 /\ RamBanks(image.ram) = <<>> THEN {"ram"} ELSE {})
     \union (IF image.dest \notin {0, 1} THEN {"dest"} ELSE {})
     \union (IF image.cgb >= 128 /\ image.cgb \notin {128, 192} THEN {"cgb"} ELSE {})

\* Cartridge::from_rom
FromRom(image) ==
  LET declared == RomBanks(image.rom)
  IN IF image.len < HeaderSize THEN "RomTooSmall"
     ELSE IF declared # <<>> /\ image.len < Head(declared) * BankSize THEN "RomSizeMismatch"
     ELSE IF MapperOf(image.type) = "unsupported" THEN "UnsupportedCartridgeType"
     ELSE "ok"

(***************************************************************************)
(* An image that went bad in one byte of its header is told from a sound   *)
(* one: changing a byte always shows in the checksum.                      *)
(***************************************************************************)
ChecksumCatches(image, bytes) ==
  LET sound == [image EXCEPT !.checksum = Checksum(image)]
      fields == {"title", "cgb", "type", "rom", "ram", "dest", "checksum"}
  IN \A field \in fields, byte \in bytes :
       byte # sound[field] => "checksum" \in Warnings([sound EXCEPT ![field] = byte])
=============================================================================
