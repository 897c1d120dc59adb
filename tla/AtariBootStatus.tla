--------------------------- MODULE AtariBootStatus ---------------------------
(***************************************************************************)
(* What the checksum of an Atari table sector promises, with no arithmetic *)
(* in it: a sector is bootable or not; atari_write keeps that status of    *)
(* the root sector, atr_write_logicals makes every ARS sector not          *)
(* bootable.  AtariChecksum implements it through the uint16 word sum.     *)
(***************************************************************************)

VARIABLES
    bootable,   \* the sector is bootable
    written     \* "none", or the writer that last wrote it: "root", "ars"

Init == bootable \in BOOLEAN /\ written = "none"

WriteRoot == written' = "root" /\ UNCHANGED bootable

WriteArs == written' = "ars" /\ bootable' = FALSE

Spec == Init /\ [][WriteRoot \/ WriteArs]_<<bootable, written>>

=============================================================================
