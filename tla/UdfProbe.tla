------------------------------ MODULE UdfProbe ------------------------------
(***************************************************************************)
(* The UDF signature probe (src/libparted/fs/udf/udf.c): the volume        *)
(* recognition sequence (VRS) scan check_vrs, the anchor check             *)
(* check_anchor over the candidate locations of detect_anchor, and the     *)
(* block-size search of detect_udf.                                        *)
(*                                                                         *)
(* A partition image is abstracted to what the probe can tell apart:       *)
(*   vsd     the spacing, in bytes, of the volume structure descriptors    *)
(*           written from byte 32768 on;                                   *)
(*   tags    their 5-byte identifiers, in order (any other descriptor      *)
(*           position reads as an unknown identifier, e.g. zeroes);        *)
(*   avdp    pairs <<byte offset, location field>> of the 16-byte tags     *)
(*           with tag identifier 2 (anchor volume descriptor pointers).    *)
(***************************************************************************)
EXTENDS Integers, Sequences, FiniteSets

CONSTANTS
    SectorSize,     \* geom->dev->sector_size, in bytes
    Lengths,        \* partition lengths, in sectors
    FormatSizes,    \* block sizes the images were formatted with
    TagSeqs         \* VRS identifier sequences written at byte 32768

ASSUME SectorSize \in {512, 4096}
ASSUME Lengths \subseteq Nat \ {0}

VARIABLES
    length,         \* geom->length
    img,            \* the image, as above
    result          \* "none" before the probe, else udf_probe's verdict

vars == <<length, img, result>>

VrsStart == 32768

\* the identifiers check_vrs accepts: terminal ones end the scan with
\* success, the others let it go on
Terminal == {"NSR02", "NSR03"}
Continue == {"BEA01", "TEA01", "BOOT2", "CD001", "CDW02"}

\* read_bytes: the sectors holding [offset, offset + count) must lie in
\* the partition for ped_geometry_read to succeed
ReadBytesOk(len, offset, count) ==
    (offset + count + SectorSize - 1) \div SectorSize <= len

\* the identifier read at descriptor byte offset off
TagAt(im, off) ==
    LET k == (off - VrsStart) \div im.vsd + 1
    IN  IF off >= VrsStart /\ (off - VrsStart) % im.vsd = 0
           /\ k \in 1 .. Len(im.tags)
        THEN im.tags[k] ELSE "OTHER"

\* check_vrs(geom, vsdsize): at most 64 descriptors from byte 32768
RECURSIVE CheckVrsFrom(_, _, _, _)
CheckVrsFrom(len, im, vsdsize, block) ==
    LET offset == VrsStart + block * vsdsize
        ident  == TagAt(im, offset)
    IN  CASE block >= 64 -> FALSE
          [] ~ReadBytesOk(len, offset + 1, 5) -> FALSE
          [] ident \in Terminal -> TRUE
          [] ident \notin Continue -> FALSE
          [] OTHER -> CheckVrsFrom(len, im, vsdsize, block + 1)

CheckVrs(len, im, vsdsize) == CheckVrsFrom(len, im, vsdsize, 0)

\* mutant of CheckAnchor: the minimum of 257 blocks not required of a
\* location relative to the end
CheckAnchorNoMinimum(len, im, blocksize, rel_block) ==
    LET total == (len * SectorSize) \div blocksize
        block == IF rel_block < 0 THEN total + rel_block ELSE rel_block
    IN  /\ rel_block < 0 => total > -rel_block
        /\ ReadBytesOk(len, block * blocksize, 16)
        /\ <<block * blocksize, block>> \in im.avdp

\* check_anchor: a negative rel_block counts from the end of the
\* partition, and must leave at least 257 blocks before it; the tag read
\* there must be an AVDP recording its own location
CheckAnchor(len, im, blocksize, rel_block) ==
    LET total == (len * SectorSize) \div blocksize
        block == IF rel_block < 0 THEN total + rel_block ELSE rel_block
    IN  /\ rel_block < 0 => total > -rel_block /\ block >= 257
        /\ ReadBytesOk(len, block * blocksize, 16)
        /\ <<block * blocksize, block>> \in im.avdp

\* detect_anchor: the candidate locations in their preferred order
Anchors == <<256, -257, -1, 512>>

DetectAnchor(len, im, blocksize) ==
    \E i \in 1 .. Len(Anchors) : CheckAnchor(len, im, blocksize, Anchors[i])

\* mutant of DetectUdf: small block sizes scanned with descriptors of
\* their own size
DetectUdfVsdPerBlock(len, im) ==
    \E blocksize \in {512, 1024, 2048, 4096, 8192, 16384, 32768} :
        CheckVrs(len, im, blocksize) /\ DetectAnchor(len, im, blocksize)

\* detect_udf: block sizes up to 2048 share one VRS scan with 2048-byte
\* descriptors; larger ones scan with descriptors of the block size
DetectUdf(len, im) ==
    \/ /\ CheckVrs(len, im, 2048)
       /\ \E blocksize \in {512, 1024, 2048} : DetectAnchor(len, im, blocksize)
    \/ \E blocksize \in {4096, 8192, 16384, 32768} :
         CheckVrs(len, im, blocksize) /\ DetectAnchor(len, im, blocksize)

-----------------------------------------------------------------------------
(***************************************************************************)
(* The images: a formatter with block size b writes its descriptors every  *)
(* max(2048, b) bytes and AVDPs at those of the blocks 256, 512, N - 256,  *)
(* N and N + 1 that exist (N the last block); shift 1 stands for AVDPs     *)
(* whose location field is off by one (a stale or moved anchor).           *)
(***************************************************************************)
TotalBlocks(len, b) == (len * SectorSize) \div b

AnchorBlocks(len, b) ==
    LET n == TotalBlocks(len, b) - 1
    IN  {x \in {256, 512, n - 256, n, n + 1} : 0 <= x /\ x <= n + 1}

Images(len) ==
    UNION {{[bs   |-> b,
             vsd  |-> IF b > 2048 THEN b ELSE 2048,
             tags |-> t,
             avdp |-> {<<x * b, x + shift>> : x \in at}] :
              at \in SUBSET AnchorBlocks(len, b), shift \in {0, 1}} :
           b \in FormatSizes, t \in TagSeqs}

Init ==
    /\ length \in Lengths
    /\ img \in Images(length)
    /\ result = "none"

\* ped_file_system_probe calling udf_probe on the partition
Probe ==
    /\ result = "none"
    /\ result' = IF DetectUdf(length, img) THEN "udf" ELSE "other"
    /\ UNCHANGED <<length, img>>

Spec == Init /\ [][Probe]_vars

-----------------------------------------------------------------------------
(***************************************************************************)
(* The reference: spec section 4.5, tier 2, stated over sets instead of    *)
(* loops.                                                                  *)
(***************************************************************************)

\* stage A for descriptor size v: some terminal identifier among the first
\* 64, every one before it a known one, and all of them readable
VrsRef(len, im, v) ==
    \E k \in 0 .. 63 :
        /\ TagAt(im, VrsStart + k * v) \in Terminal
        /\ \A j \in 0 .. k : ReadBytesOk(len, VrsStart + j * v + 1, 5)
        /\ \A j \in 0 .. k - 1 : TagAt(im, VrsStart + j * v) \in Continue

\* stage B for block size b: the absolute candidates 256 and 512, and the
\* ones 257 and 1 blocks before the end that leave 257 blocks before them
AnchorRef(len, im, b) ==
    LET total == TotalBlocks(len, b)
        cands == {256, 512} \cup {x \in {total - 257, total - 1} : x >= 257}
    IN  \E x \in cands :
            ReadBytesOk(len, x * b, 16) /\ <<x * b, x>> \in im.avdp

\* the descriptor size of stage A for candidate block size b
VsdSizeFor(b) == IF b > 2048 THEN b ELSE 2048

DetectRef(len, im) ==
    \E b \in {512, 1024, 2048, 4096, 8192, 16384, 32768} :
        VrsRef(len, im, VsdSizeFor(b)) /\ AnchorRef(len, im, b)

\* udf_probe detects exactly the images the two-stage rule of the spec
\* accepts: the VRS scan of check_vrs, its early stop at an unknown
\* identifier, the 64-descriptor cap, the read bounds and the end-relative
\* anchor arithmetic of check_anchor together.
ProbeMatchesReference ==
    result # "none" => (result = "udf" <=> DetectRef(length, img))

\* An image a formatter wrote correctly (BEA01, NSR02 or NSR03, TEA01, and
\* self-locating AVDPs at two of the blocks 256, N - 256 and N) is detected
\* whenever the partition holds its recognition sequence (spec section 8,
\* multi-stage probe).
Formatted(len, im) ==
    LET n == TotalBlocks(len, im.bs) - 1
    IN  /\ im.tags \in {<<"BEA01", "NSR02", "TEA01">>, <<"BEA01", "NSR03", "TEA01">>}
        /\ \A a \in im.avdp : a[1] = a[2] * im.bs
        /\ Cardinality({x \in {256, n - 256, n} \cap 0 .. n :
                       <<x * im.bs, x>> \in im.avdp}) >= 2
        /\ ReadBytesOk(len, VrsStart + 2 * im.vsd + 1, 5)

FormattedImageDetected ==
    result # "none" /\ Formatted(length, img) => result = "udf"

====
