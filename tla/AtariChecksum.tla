---------------------------- MODULE AtariChecksum ----------------------------
(***************************************************************************)
(* The root-sector checksum of the Atari driver (atari.c): a table is      *)
(* bootable when its 256 big-endian 16-bit words add up to BOOTABLE_CKSUM  *)
(* modulo 2^16 (atr_calc_rs_sum, atr_is_boot_table), and atr_table_set_boot *)
(* chooses the last word, the checksum, to make it bootable or not.  A     *)
(* non-bootable checksum starts at NONBOOT_CKSUM - sum and is incremented, *)
(* as a uint16, while it is a forbidden signature (0x55AA, the MS-DOS one) *)
(* or would make the sector bootable.                                      *)
(*                                                                         *)
(* A sector is abstracted to [c, k]: c the sum modulo 2^16 of its first    *)
(* 255 words, k its checksum word.  Both writers of atari.c read the       *)
(* sector, edit its entries (which changes c by some delta) and set the    *)
(* checksum: atari_write for the root sector keeps its boot status,        *)
(* atr_write_logicals makes every ARS sector non-bootable.                 *)
(***************************************************************************)
EXTENDS Integers

CONSTANTS
    Contents,       \* sums c of the first 255 words found on the device
    Deltas          \* changes of c made by filling the entries

Word == 0 .. 65535

ASSUME Contents \subseteq Word /\ Deltas \subseteq Word

VARIABLES
    sector,         \* [c, k] of the sector, as above
    written         \* "none", or the writer that last wrote it: "root", "ars"

vars == <<sector, written>>

\* mutant of U16: the sum kept in a wider integer
U16NoWrap(x) == x

\* uint16_t arithmetic
U16(x) == x % 65536

BOOTABLE_CKSUM == 4660      \* 0x1234
NONBOOT_CKSUM  == 17185     \* 0x4321

\* atr_forbidden_sign: 0x55AA
atr_forbidden_sign == {21930}

\* atr_calc_rs_sum: the uint16 sum of all words, the checksum included
RsSum(s) == U16(s.c + s.k)

\* atr_is_boot_table
IsBootTable(s) == RsSum(s) = BOOTABLE_CKSUM

\* atr_sign_is_forbidden
SignIsForbidden(sign) == sign \in atr_forbidden_sign

\* the while loop of atr_table_set_boot: uint16 increments until neither
\* forbidden nor the bootable checksum
RECURSIVE NonBootFrom(_, _)
NonBootFrom(noboot, boot) ==
    IF SignIsForbidden(noboot) \/ noboot = boot
    THEN NonBootFrom(U16(noboot + 1), boot)
    ELSE noboot

\* mutant of SetBootChecksum: the forbidden signatures not avoided
SetBootChecksumNoLoop(s, boot) ==
    LET sum         == RsSum([s EXCEPT !.k = 0])
        boot_cksum  == U16(BOOTABLE_CKSUM - sum)
    IN  IF boot THEN boot_cksum ELSE U16(NONBOOT_CKSUM - sum)

\* mutant of SetBootChecksum: the old checksum left in the sum
SetBootChecksumNoReset(s, boot) ==
    LET sum         == RsSum(s)
        boot_cksum  == U16(BOOTABLE_CKSUM - sum)
    IN  IF boot THEN boot_cksum
        ELSE NonBootFrom(U16(NONBOOT_CKSUM - sum), boot_cksum)

\* atr_table_set_boot: the checksum it stores into the table s
SetBootChecksum(s, boot) ==
    LET sum         == RsSum([s EXCEPT !.k = 0])
        boot_cksum  == U16(BOOTABLE_CKSUM - sum)
    IN  IF boot THEN boot_cksum
        ELSE NonBootFrom(U16(NONBOOT_CKSUM - sum), boot_cksum)

\* sector s with its entries edited by d and its checksum set for boot
Rewrite(s, d, boot) ==
    LET e == [s EXCEPT !.c = U16(@ + d)]
    IN  [e EXCEPT !.k = SetBootChecksum(e, boot)]

Init ==
    /\ \E c \in Contents, bootable \in BOOLEAN :
         sector = [c |-> c, k |-> IF bootable THEN U16(BOOTABLE_CKSUM - c) ELSE 0]
    /\ written = "none"

\* atari_write on the root sector: boot is read before the entries are
\* filled and given back to atr_table_set_boot before the write
WriteRoot ==
    \E d \in Deltas :
        /\ sector' = Rewrite(sector, d, IsBootTable(sector))
        /\ written' = "root"

\* atr_write_logicals on an ARS sector: always made non-bootable
WriteArs ==
    \E d \in Deltas :
        /\ sector' = Rewrite(sector, d, FALSE)
        /\ written' = "ars"

Next == WriteRoot \/ WriteArs

Spec == Init /\ [][Next]_vars

-----------------------------------------------------------------------------
TypeOK ==
    /\ sector \in [c : Word, k : Word]
    /\ written \in {"none", "root", "ars"}

\* A sector atari.c wrote non-bootable never ends in a forbidden signature
\* (an MS-DOS 0x55AA a BIOS would take for its own) and is really not
\* bootable; an ARS sector is always such a sector.  This is the uint16
\* arithmetic of atr_table_set_boot, its wrap-around and its loop, over
\* every sum a sector can have.
NonBootSectorsSafe ==
    /\ written = "ars" => ~IsBootTable(sector)
    /\ written # "none" /\ ~IsBootTable(sector)
         => ~SignIsForbidden(sector.k)

\* the boot status of the sector: the abstract state of AtariBootStatus
BootStatus == INSTANCE AtariBootStatus WITH bootable <- IsBootTable(sector)

\* The checksum arithmetic implements the boot status: whatever entries
\* they fill and whatever checksum the sector held before, atari_write
\* keeps the root sector bootable or not as it was, and atr_write_logicals
\* leaves every ARS sector not bootable.
BootStatusRefined == BootStatus!Spec

====
