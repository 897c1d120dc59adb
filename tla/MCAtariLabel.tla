---------------------------- MODULE MCAtariLabel ----------------------------
(***************************************************************************)
(* A small device for TLC: DevLen sectors, N_ICD ICD slots and a cap of    *)
(* MCMaxParts partition numbers and chain hops, so that every mode (AHDI,  *)
(* XGM with a chain of ARS blocks, ICD) and the BSL placement occur.       *)
(***************************************************************************)
EXTENDS AtariLabel

MCDevLen   == 7
MCNIcd     == 2
MCMaxParts == 5
\* a device with no Atari table, or an empty one as parted writes it with
\* no BSL or with the default one-sector BSL
MCInitBsls == {<<0, 0>>, <<1, 1>>}
\* hd_size of such a table: written on this device
MCInitHds == {MCDevLen}
\* the partition types mkpart is asked for
MCAddTypes == {Normal, Extended, Logical}
\* mkpart asked for one sector, or for everything from a sector to the end
\* of the device
MCIdeals == {<<x, x>> : x \in 0 .. MCDevLen - 1}
              \cup {<<x, MCDevLen - 1>> : x \in 0 .. MCDevLen - 1}

(***************************************************************************)
(* The sectors that atari_probe and atari_read can reach from the root     *)
(* sector: those of every chain starting at a used XGM slot, each ARS      *)
(* leading on through the slot after its first used one.  A sector off     *)
(* these chains is read again only by atr_write_logicals, which rewrites   *)
(* every slot of it (no sector but the root ever holds the signature id),  *)
(* and only the slots of an ARS are ever read, so TLC fingerprints states  *)
(* by the root and the reachable chain sectors alone.                      *)
(***************************************************************************)
RECURSIVE ChainFrom(_, _, _, _)
ChainFrom(d, exts, at, fuel) ==
    IF fuel = 0 \/ ~OnDevice(at) THEN {}
    ELSE LET t    == d[at]
             used == {i \in 1 .. N_AHDI - 1 : t.part[i].used}
             i    == Min(used)
         IN  {at} \cup
             IF used = {} \/ ~t.part[i + 1].used THEN {}
             ELSE ChainFrom(d, exts, exts + t.part[i + 1].start, fuel - 1)

ReachableSectors(d) ==
    {0} \cup UNION {ChainFrom(d, d[0].part[i].start, d[0].part[i].start,
                              MAXIMUM_PARTS + 1) :
                    i \in {j \in 1 .. N_AHDI : d[0].part[j].used
                                               /\ d[0].part[j].id = "XGM"}}

ReadableView ==
    <<parts, format, bsl, hdx_comp, has_been_read,
      [x \in ReachableSectors(dev) |-> dev[x]]>>

=============================================================================
