----------------------------- MODULE MCUdfProbe -----------------------------
(***************************************************************************)
(* UdfProbe on 512-byte sectors.  The lengths put the last block of a      *)
(* 2048-byte-block image at 256, 257 and 512, 513 (where the end-relative  *)
(* anchors cross their 257-block minimum), leave a 64-sector partition too *)
(* short for the recognition sequence, and give 512- and 4096-byte-block   *)
(* images room for both anchors.                                           *)
(***************************************************************************)
EXTENDS UdfProbe

MCLengths == {64, 1028, 1032, 2052, 2056, 4112}

MCFormatSizes == {512, 2048, 4096}

\* a correct sequence, one behind an ISO 9660 descriptor, one without a
\* terminal identifier, and a lone terminal one
MCTagSeqs ==
    {<<"BEA01", "NSR02", "TEA01">>, <<"CD001", "BEA01", "NSR03", "TEA01">>,
     <<"BEA01", "TEA01">>, <<"NSR03">>}

=============================================================================
