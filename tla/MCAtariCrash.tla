---------------------------- MODULE MCAtariCrash ----------------------------
(***************************************************************************)
(* Crashes of atari_write inside its ARS chain on the seven-sector device  *)
(* of MCAtariLabel: an extended partition holds two logical partitions,    *)
(* so the chain has two ARS and a crash can fall between them.  Primary    *)
(* partitions play no part in the chain and are left out; the empty table  *)
(* on the device has no BSL (mklabel then writes the default one) and a    *)
(* hd_size written on this device or on a three-sector one.                *)
(***************************************************************************)
EXTENDS AtariCrash, MCAtariLabel

MCChainTypes == {Extended, Logical}

MCNoBsl == {<<0, 0>>}

MCCrashHds == {3}

=============================================================================
