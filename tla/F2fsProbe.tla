------------------------------ MODULE F2fsProbe ------------------------------
(***************************************************************************)
(* The F2FS signature probe (src/libparted/fs/f2fs/f2fs.c, f2fs.h): a      *)
(* one-sector read at sector F2FS_SB_OFFSET of the partition, and a        *)
(* comparison of the little-endian word at the start of the buffer with   *)
(* F2FS_MAGIC.                                                             *)
(*                                                                         *)
(* The partition's content is abstracted to the set of byte offsets at     *)
(* which the little-endian word F2FS_MAGIC starts; every other word holds  *)
(* some other value.                                                       *)
(***************************************************************************)
EXTENDS Integers

CONSTANTS
    SectorSizes,    \* logical sector sizes of the device, in bytes
    Lengths,        \* partition lengths, in sectors
    MagicOffsets    \* byte offsets a magic word may be found at

ASSUME SectorSizes \subseteq {512, 1024, 2048, 4096}
ASSUME Lengths \subseteq Nat \ {0}
ASSUME MagicOffsets \subseteq Nat

VARIABLES
    sector_size,    \* geom->dev->sector_size
    length,         \* geom->length
    image,          \* byte offsets holding F2FS_MAGIC
    probed          \* "none" before the probe, else its result

vars == <<sector_size, length, image, probed>>

\* the sector of the partition the superblock is read from
F2FS_SB_OFFSET == 2

\* ped_geometry_read(geom, buf, offset, count): fails past the partition
GeometryReadOk(len, offset, count) == offset + count <= len

\* f2fs_probe: the word at byte 0 of sector F2FS_SB_OFFSET
F2fsProbe(ss, len, img) ==
    /\ GeometryReadOk(len, F2FS_SB_OFFSET, 1)
    /\ F2FS_SB_OFFSET * ss \in img

Init ==
    /\ sector_size \in SectorSizes
    /\ length \in Lengths
    /\ image \in SUBSET MagicOffsets
    /\ probed = "none"

\* ped_file_system_probe calling the F2FS probe on the partition
Probe ==
    /\ probed = "none"
    /\ probed' = IF F2fsProbe(sector_size, length, image) THEN "f2fs" ELSE "other"
    /\ UNCHANGED <<sector_size, length, image>>

Next == Probe

Spec == Init /\ [][Next]_vars

-----------------------------------------------------------------------------
\* the byte offset of the superblock magic (spec section 6: byte offset
\* 1024 within a one-sector read positioned at the containing sector)
SuperblockByte == 1024

\* The probe accepts a partition exactly when the magic is at byte 1024 and
\* the sector holding it is inside the partition, whatever the device's
\* sector size (spec section 8, magic probe).
ProbeMatchesSuperblock ==
    probed # "none" =>
        (probed = "f2fs" <=>
            /\ SuperblockByte \in image
            /\ (SuperblockByte \div sector_size) + 1 <= length)

=============================================================================
