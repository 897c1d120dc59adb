----------------------------- MODULE AtariLabel -----------------------------
(***************************************************************************)
(* The Atari (AHDI / XGM / ICD) partition-table driver of libparted        *)
(* (src/libparted/labels/atari.c) together with the part of the generic    *)
(* disk layer it is driven by: adding and removing partitions, writing the *)
(* in-memory layout to the device and reading it back.                     *)
(*                                                                         *)
(* In-memory state (struct _AtariDisk and the PedDisk partition list):     *)
(*   parts          the active partitions, records [type, num, start, end] *)
(*   format         AHDI, XGM or ICD (AtariDisk.format)                    *)
(*   bsl            <<bsl_start, bsl_count>> of the bad sector list        *)
(*   hdx_comp       atari_write must initialise the BSL sectors            *)
(*   has_been_read  the in-memory layout is known to match the device      *)
(* On-disk state:                                                          *)
(*   dev            sector -> AtariRawTable, as far as a table is parsed   *)
(*                                                                         *)
(* Metadata and free-space placeholders are not kept in parts: libparted   *)
(* removes them while a partition is being added (update mode) and         *)
(* re-creates them with atari_alloc_metadata; MetadataFits states that     *)
(* this re-creation always succeeds.                                       *)
(***************************************************************************)
EXTENDS Integers, FiniteSets, Sequences, SequencesExt, FiniteSetsExt, Geometry

CONSTANTS
    DevLen,         \* device length in sectors
    N_ICD,          \* number of ICD slots in the root sector (8 in atari.c)
    MAXIMUM_PARTS,  \* cap on partition numbers and XGM chain hops (64)
    InitBsls,       \* BSLs <<start, count>> of tables already on the device
    AddTypes,       \* the partition types mkpart is asked for
    InitHds,        \* hd_size of the empty tables already on the device
    HdAnswers,      \* answers to atr_load_fix_hdsize's warning
    IcdAnswers      \* answers to atari_write's stale-ICD warning

ASSUME DevLen \in Nat /\ DevLen >= 4
ASSUME N_ICD \in Nat \ {0} /\ MAXIMUM_PARTS \in Nat \ {0}
ASSUME InitBsls \subseteq (0 .. DevLen - 1) \X (0 .. DevLen - 1)
ASSUME InitHds \subseteq 2 .. DevLen
ASSUME HdAnswers \subseteq {"fix", "ignore", "cancel"}
ASSUME IcdAnswers \subseteq {"yes", "no", "cancel"}

N_AHDI == 4

Normal   == "normal"
Extended == "extended"
Logical  == "logical"
Types    == {Normal, Extended, Logical}
Formats  == {"AHDI", "XGM", "ICD"}

ASSUME AddTypes \subseteq Types

VARIABLES parts, format, bsl, hdx_comp, has_been_read, dev

vars == <<parts, format, bsl, hdx_comp, has_been_read, dev>>

-----------------------------------------------------------------------------
(***************************************************************************)
(* On-disk records.  A slot (AtariRawPartition) is [used, id, start,       *)
(* size]; the boot-type bits of its flag byte are not modelled.  Ids are   *)
(* abstracted to: "DAT" a data id (GEM, LNX, RAW, ...: alphanumeric and   *)
(* known to ICD readers), "XGM" the extended id, "SIG" the first bytes of  *)
(* the PARTEDATARI signature, "NUL" zero bytes.  A sector is an            *)
(* AtariRawTable: 4 AHDI slots, N_ICD ICD slots, hd_size and the BSL      *)
(* fields.  The checksum, which only tells whether the sector is bootable  *)
(* and which no reader of the table checks, is the subject of the module   *)
(* AtariChecksum; atari_write keeps the boot status it finds.              *)
(***************************************************************************)
Ids == {"DAT", "XGM", "SIG", "NUL"}

Slot(u, id, s, n) == [used |-> u, id |-> id, start |-> s, size |-> n]

ZeroSlot == Slot(FALSE, "NUL", 0, 0)

ZeroTable ==
    [part |-> [i \in 1 .. N_AHDI |-> ZeroSlot],
     icd  |-> [i \in 1 .. N_ICD |-> ZeroSlot],
     hd |-> 0, bsl_start |-> 0, bsl_count |-> 0]

\* atr_put_signature_entry: flag 0, "PARTEDATARI" over id, start and size
SignatureSlot == Slot(FALSE, "SIG", 0, 0)

\* atr_is_signature_entry
IsSignature(s) == ~s.used /\ s.id = "SIG"

\* an empty table as parted writes it, with a given BSL, on a device of hd
\* sectors
SignatureTable(b, hd) ==
    [ZeroTable EXCEPT !.part = [i \in 1 .. N_AHDI |-> SignatureSlot],
                      !.hd = hd, !.bsl_start = b[1], !.bsl_count = b[2]]

\* table.part[i].flag &= ~PART_FLAG_USED.  id, start and size stay behind
\* on the disk, but of an unused slot the readers (atari_probe,
\* atari_read) only look at whether its id bytes are the signature, so the
\* rest is abstracted to zero.
Cleared(s) == Slot(FALSE, IF s.id = "SIG" THEN "SIG" ELSE "NUL", 0, 0)

\* atr_fill_raw_entry
FillEntry(id, start, size) == Slot(TRUE, id, start, size)

\* isalnum_l on the three id bytes ("PAR" for the signature)
Alnum(id) == id \in {"DAT", "XGM", "SIG"}

\* atr_pid_known(id, atr_known_icd_pid)
KnownIcd(id) == id = "DAT"

\* A uint32_t difference a - b.  TLC's integers stop at 2^31 - 1, so a
\* negative difference, which wraps to 2^32 - (b - a), is represented by
\* U32Wrapped: above every sector count the model uses, as the wrapped
\* value is above every device length the code compares it with.
U32Wrapped == 2147483647

U32Sub(a, b) == IF a >= b THEN a - b ELSE U32Wrapped

\* atr_start_size_correct; start + size cannot wrap here, as every start
\* and size of the model is below the device length
StartSizeCorrect(start, size, hd) ==
    LET end == start + size
    IN  /\ end >= start
        /\ 0 < start /\ start <= hd
        /\ 0 < size /\ size <= hd
        /\ 0 < end /\ end <= hd

\* atr_part_correct
PartCorrect(s, hd) == Alnum(s.id) /\ StartSizeCorrect(s.start, s.size, hd)

\* atr_part_valid / atr_part_trash
PartValid(s, hd) == s.used /\ PartCorrect(s, hd)
PartTrash(s, hd) == s.used /\ ~PartCorrect(s, hd)

-----------------------------------------------------------------------------
(***************************************************************************)
(* Queries on the partition list (generic disk layer, from the spec).      *)
(***************************************************************************)
Part(t, n, s, e) == [type |-> t, num |-> n, start |-> s, end |-> e]

NoPart == Part(Normal, -2, -1, -1)

Length(p) == p.end - p.start + 1

HasNum(P, n) == \E p \in P : p.num = n

\* ped_disk_get_partition
ByNum(P, n) == IF HasNum(P, n) THEN CHOOSE p \in P : p.num = n ELSE NoPart

\* ped_disk_get_last_partition_num
LastNum(P) == Max({-1} \cup {p.num : p \in P})

\* ped_disk_get_primary_partition_count
PrimaryCount(P) == Cardinality({p \in P : p.type # Logical})

Logicals(P) == {p \in P : p.type = Logical}

\* _disk_logical_partition_count
LogicalCount(P) == Cardinality(Logicals(P))

HasExt(P) == \E p \in P : p.type = Extended

\* ped_disk_extended_partition
ExtOf(P) == IF HasExt(P) THEN CHOOSE p \in P : p.type = Extended ELSE NoPart

Inside(x, p) == p.start <= x /\ x <= p.end

Overlap(a, b) == a.start <= b.end /\ b.start <= a.end

\* ped_disk_get_partition_by_sector is an active partition other than the
\* extended one
SectorTaken(P, x) == \E p \in P : p.type # Extended /\ Inside(x, p)

\* The checks the generic layer makes before inserting (spec section 3:
\* no overlap, logicals nest inside the single extended partition).
CheckPartition(P, p) ==
    /\ 0 <= p.start /\ p.start <= p.end /\ p.end < DevLen
    /\ p.type = Extended => ~HasExt(P)
    /\ p.type = Logical =>
         /\ HasExt(P)
         /\ ExtOf(P).start <= p.start /\ p.end <= ExtOf(P).end
         /\ \A q \in Logicals(P) : ~Overlap(p, q)
    /\ p.type # Logical => \A q \in P : q.type # Logical => ~Overlap(p, q)

-----------------------------------------------------------------------------
(***************************************************************************)
(* Placement: the driver's constraints and partition_align.                *)
(***************************************************************************)

\* atr_find_first_log: the lowest-numbered logical partition, -1 if none
FindFirstLog(P) ==
    IF Logicals(P) = {} THEN -1 ELSE Min({p.num : p \in Logicals(P)})

\* safe_space from the walk's stop <<min_start, index of the next one>>
LogRange(stop, ext_end, walk, first_log) ==
    LET max_end == IF stop[2] <= Len(walk)
                   THEN walk[stop[2]].start - 1
                          - (IF walk[stop[2]].num # first_log THEN 1 ELSE 0)
                   ELSE ext_end
    IN  IF stop[1] >= max_end THEN FromMax(1, 0) ELSE FromMax(stop[1], max_end)

\* the walk over the logical partitions sorted by start (the list order):
\* skip those before part, then take the next active one as the upper bound
LogSafeSpace(P, part, first_log, walk) ==
    LET nf        == IF part.num # first_log THEN 1 ELSE 0
        ars(w)    == IF w.num # first_log THEN 1 ELSE 0
        RECURSIVE Walk(_, _)
        Walk(i, min_start) ==
            IF /\ i <= Len(walk)
               /\ \/ walk[i].start - ars(walk[i]) < part.start - nf
                  \/ walk[i].start - ars(walk[i]) < min_start
            THEN Walk(i + 1, walk[i].end + 1 + nf)
            ELSE <<min_start, i>>
    IN  LogRange(Walk(1, ExtOf(P).start + 1 + nf),
                 ExtOf(P).end,
                 walk, first_log)

\* atr_log_constraint: the gap between the neighbours of part inside the
\* extended partition, keeping a sector for each chain block (ARS) that
\* sits just before a logical partition other than the first one
LogConstraint(P, part) ==
    LET fl == FindFirstLog(P)
    IN  LogSafeSpace(P, part, IF fl = -1 THEN part.num ELSE fl,
                     SetToSortSeq(Logicals(P), LAMBDA a, b : a.start < b.start))

\* art_min_extended_geom: what the extended partition must keep covering
MinExtendedGeom(P) ==
    LET fl    == FindFirstLog(P)
        first == ByNum(P, fl)
        others == {w \in Logicals(P) : w.num # fl}
        lower  == {w \in others : w.start < first.start - 1}
    IN  Geom(IF lower = {} THEN first.start - 1
                           ELSE Min({w.start : w \in lower}) - 2,
             Max({first.end} \cup {w.end : w \in others}))

\* atr_ext_constraint
ExtConstraint(P) ==
    IF Logicals(P) = {}
    THEN Constraint(1, DevLen - 1, 1, DevLen - 1, 1, DevLen)
    ELSE LET min == MinExtendedGeom(P)
         IN  Constraint(1, min.start, min.end, DevLen - 1, 1, DevLen)

\* mutant of PrimConstraint: the root sector not kept out
PrimConstraintFromRoot == FromMax(0, DevLen - 1)

\* atr_prim_constraint: the whole device but the root sector
PrimConstraint == FromMax(1, DevLen - 1)

\* _try_constraint
TryConstraint(part, external, internal) ==
    SolveNearest(Intersect(external, internal), part)

\* _best_solution: the longer one, the first on a tie
BestSolution(a, b) ==
    CASE a = NoGeom -> b
      [] b = NoGeom -> a
      [] GeomLength(a) < GeomLength(b) -> b
      [] OTHER -> a

\* mutant of PrimAlign: the BSL not kept out
PrimAlignIgnoringBsl(b, part, external, internal) ==
    TryConstraint(part, external, internal)

\* atr_prim_align: without a BSL, the plain attempt; with one, the best of
\* fitting entirely before and entirely after it
PrimAlign(b, part, external, internal) ==
    LET bsl_end == b[1] + b[2]
        before  == IF b[1] > 1
                   THEN TryConstraint(part, external,
                            Intersect(internal, FromMax(1, b[1] - 1)))
                   ELSE NoGeom
        after   == IF bsl_end < DevLen
                   THEN TryConstraint(part, external,
                            Intersect(internal, FromMax(bsl_end, DevLen - 1)))
                   ELSE NoGeom
    IN  IF b[1] = 0 /\ b[2] = 0
        THEN TryConstraint(part, external, internal)
        ELSE BestSolution(before, after)

\* atari_partition_align
PartitionAlign(P, b, part, external) ==
    CASE part.type = Logical ->
           TryConstraint(part, external, LogConstraint(P, part))
      [] part.type = Extended -> PrimAlign(b, part, external, ExtConstraint(P))
      [] OTHER -> PrimAlign(b, part, external, PrimConstraint)

-----------------------------------------------------------------------------
(***************************************************************************)
(* Numbering and mode: atari_partition_enumerate.                          *)
(***************************************************************************)

\* art_room_for_logic: refuse past MAXIMUM_PARTS, else shift the numbers of
\* the primary partitions after the last logical one up by one
RoomForLogic(P) ==
    LET last       == LastNum(P)
        logic      == {p.num : p \in Logicals(P)}
        last_logic == Max({0} \cup logic)
        Shift(p)   == IF p.type = Normal /\ p.num > last_logic /\ p.num > 0
                      THEN [p EXCEPT !.num = @ + 1] ELSE p
    IN  CASE last >= MAXIMUM_PARTS -> [ok |-> FALSE, parts |-> P]
          [] last_logic = 0 -> [ok |-> TRUE, parts |-> P]
          [] OTHER -> [ok |-> TRUE, parts |-> {Shift(p) : p \in P}]

B(c) == IF c THEN 1 ELSE 0

\* the mode the driver wants for P with part about to be inserted
XgmBegin(P, part) ==
    \/ ByNum(P, 1).type = Logical /\ HasNum(P, 1)
    \/ part.num = -1 /\ part.type = Logical /\ ~HasNum(P, 1)

\* mutant of WantIcd: a logical partition 1 not counted for the first slot
WantIcdNoXgmBegin(P, part) ==
    PrimaryCount(P) + B(part.num = -1 /\ part.type # Logical) > N_AHDI

WantIcd(P, part) ==
    PrimaryCount(P) + B(XgmBegin(P, part))
        + B(part.num = -1 /\ part.type # Logical) > N_AHDI

WantXgm(P, part) == part.type = Extended \/ HasExt(P)

EnumRes(ok, Q, f, n) == [ok |-> ok, parts |-> Q, format |-> f, num |-> n]

\* mutant of EnumerateNumber: a numbered partition keeps its number
EnumerateNumberKeep(P, fmt, part, clash, fmt2, room) ==
    LET num_max == IF fmt2 = "XGM" THEN MAXIMUM_PARTS ELSE N_ICD + N_AHDI
        free    == {i \in 1 .. num_max : ~HasNum(room.parts, i)}
    IN  CASE clash -> EnumRes(FALSE, P, fmt, part.num)
          [] part.num = 0 -> EnumRes(TRUE, P, fmt2, 0)
          [] part.num = -1 /\ part.type = Extended -> EnumRes(TRUE, P, fmt2, 0)
          [] part.num = -1 /\ ~room.ok -> EnumRes(FALSE, P, fmt2, -1)
          [] part.num = -1 /\ free = {} -> EnumRes(FALSE, room.parts, fmt2, -1)
          [] part.num = -1 -> EnumRes(TRUE, room.parts, fmt2, Min(free))
          [] OTHER -> EnumRes(TRUE, P, fmt2, part.num)

\* numbering: room is the outcome of art_room_for_logic for a logical one
EnumerateNumber(P, fmt, part, clash, fmt2, room) ==
    LET num_max == IF fmt2 = "XGM" THEN MAXIMUM_PARTS ELSE N_ICD + N_AHDI
        free    == {i \in 1 .. num_max : ~HasNum(room.parts, i)}
        below   == {i \in 1 .. part.num - 1 : ~HasNum(P, i)}
    IN  CASE clash -> EnumRes(FALSE, P, fmt, part.num)
          [] part.num = 0 -> EnumRes(TRUE, P, fmt2, 0)
          [] part.num = -1 /\ part.type = Extended -> EnumRes(TRUE, P, fmt2, 0)
          [] part.num = -1 /\ ~room.ok -> EnumRes(FALSE, P, fmt2, -1)
          [] part.num = -1 /\ free = {} -> EnumRes(FALSE, room.parts, fmt2, -1)
          [] part.num = -1 -> EnumRes(TRUE, room.parts, fmt2, Min(free))
          \* a numbered partition moves down to the first free number: the
          \* loop re-tests i < part->num after each assignment
          [] OTHER -> EnumRes(TRUE, P, fmt2,
                              IF below = {} THEN part.num ELSE Min(below))

\* the mode from want_icd and want_xgm, then the numbering
EnumerateMode(P, fmt, part, icd, xgm) ==
    EnumerateNumber(P, fmt, part, xgm /\ icd,
                    CASE ~xgm /\ ~icd -> "AHDI"
                      [] xgm /\ ~icd -> "XGM"
                      [] OTHER -> "ICD",
                    IF part.type = Logical THEN RoomForLogic(P)
                    ELSE [ok |-> TRUE, parts |-> P])

\* atari_partition_enumerate for part, not yet in P: the mode it recomputes,
\* the list after art_room_for_logic, and the number it gives part
Enumerate(P, fmt, part) ==
    EnumerateMode(P, fmt, part, WantIcd(P, part), WantXgm(P, part))

-----------------------------------------------------------------------------
(***************************************************************************)
(* ped_disk_add_partition (generic, from the spec) on the Atari driver:    *)
(* atari_partition_new refuses an extended partition in ICD mode; the      *)
(* partition is placed by atari_partition_align, checked, numbered by      *)
(* atari_partition_enumerate and only then inserted, so a failure leaves   *)
(* the list without it.  The driver's enumerate counts the new partition   *)
(* apart from the list (its "part->num == -1" terms), which fixes that it  *)
(* runs before insertion.                                                  *)
(***************************************************************************)
\* insertion with the number enumerate gave; a failed enumerate still
\* leaves its renumbering and format
AddNumbered(P, placed, e) ==
    IF ~e.ok THEN EnumRes(FALSE, e.parts, e.format, -1)
    ELSE EnumRes(TRUE, e.parts \cup {[placed EXCEPT !.num = e.num]},
                 e.format, e.num)

\* _check_partition, then enumerate
AddPlaced(P, fmt, placed) ==
    IF ~CheckPartition(P, placed) THEN EnumRes(FALSE, P, fmt, -1)
    ELSE AddNumbered(P, placed, Enumerate(P, fmt, placed))

\* after align: the geometry g it found, NoGeom when none
AddAligned(P, fmt, new, g) ==
    IF g = NoGeom THEN EnumRes(FALSE, P, fmt, -1)
    ELSE AddPlaced(P, fmt, [new EXCEPT !.start = g.start, !.end = g.end])

\* atr_xgm_in_icd: an extended partition is refused in ICD mode
XgmInIcd(fmt, type) == type = Extended /\ fmt = "ICD"

\* atari_partition_new refuses the partition, then the generic add
AddPartition(P, fmt, b, new, external) ==
    IF XgmInIcd(fmt, new.type) THEN EnumRes(FALSE, P, fmt, -1)
    ELSE AddAligned(P, fmt, new, PartitionAlign(P, b, new, external))

-----------------------------------------------------------------------------
(***************************************************************************)
(* atari_probe: the label has no magic number, so the whole layout is      *)
(* validated, including the XGM chain, whose walk is cut off after         *)
(* MAXIMUM_PARTS partitions.  A read outside the device fails the probe.   *)
(***************************************************************************)
OnDevice(x) == x \in 0 .. DevLen - 1

\* the chain walk of atari_probe from the ARS at sector parts; the bound
\* for a data slot is rs_hd_size - parts, converted to uint32_t
RECURSIVE ProbeChain(_, _, _, _, _, _)
ProbeChain(d, hd, exts, ars, empty_ok, total) ==
    /\ OnDevice(ars)
    /\ LET t    == d[ars]
           used == {i \in 1 .. N_AHDI - 1 : t.part[i].used}
           i    == Min(used)
       IN  \/ used = {} /\ empty_ok
           \/ /\ used # {}
              /\ PartCorrect(t.part[i], U32Sub(hd, ars))
              /\ t.part[i].id # "XGM"
              /\ total + 1 <= MAXIMUM_PARTS
              /\ t.part[i + 1].used =>
                   /\ PartCorrect(t.part[i + 1], U32Sub(hd, exts))
                   /\ t.part[i + 1].id = "XGM"
                   /\ ProbeChain(d, hd, exts, exts + t.part[i + 1].start,
                                 FALSE, total + 1)

Probe(d) ==
    LET t     == d[0]
        hd    == t.hd
        valid == {i \in 1 .. N_AHDI : PartValid(t.part[i], hd)}
        xgm   == {i \in valid : t.part[i].id = "XGM"}
        nsign == Cardinality({i \in 1 .. N_AHDI : IsSignature(t.part[i])})
        x     == CHOOSE i \in xgm : TRUE
    IN  /\ hd <= DevLen /\ hd >= 2
        /\ (t.bsl_start # 0 \/ t.bsl_count # 0)
              => StartSizeCorrect(t.bsl_start, t.bsl_count, hd)
        /\ \A i \in 1 .. N_AHDI : ~PartTrash(t.part[i], hd)
        /\ valid = {} => nsign = N_AHDI
        /\ Cardinality(xgm) <= 1
        /\ xgm # {1}
        /\ IF xgm # {}
           THEN LET exts == t.part[x].start
                IN  ProbeChain(d, hd, exts, exts, TRUE, Cardinality(valid))
           ELSE PartValid(t.icd[1], hd) /\ KnownIcd(t.icd[1].id)
                   => \A i \in 2 .. N_ICD : ~PartTrash(t.icd[i], hd)

-----------------------------------------------------------------------------
(***************************************************************************)
(* atari_read.  Every slot becomes a partition through ped_disk_add_part-  *)
(* ition with an exact constraint (atr_parse_add_rawpart), which asserts   *)
(* that enumerate gave it the number the reader expects: "assert" records  *)
(* whether that PED_ASSERT held.                                           *)
(***************************************************************************)

\* the outcome a of the re-add, checked against the number expected
AddRawResult(r, num, a) ==
    IF ~a.ok THEN [r EXCEPT !.ok = FALSE]
    ELSE [r EXCEPT !.parts = a.parts, !.format = a.format,
                   !.assert = @ /\ a.num = num]

\* atr_parse_add_rawpart
AddRaw(r, type, off, num, s) ==
    LET new == Part(type, -1, off + s.start, off + s.start + s.size - 1)
    IN  IF ~r.ok THEN r
        ELSE AddRawResult(r, num, AddPartition(r.parts, r.format, r.bsl, new,
                                               Exact(Geom(new.start, new.end))))

\* atr_read_logicals: follow the chain from the first ARS at exts; the walk
\* is bounded by fuel, which a probed chain never exhausts
RECURSIVE ReadLogicals(_, _, _, _, _, _)

\* after the data slot i of the ARS table t was added (giving r2): stop at
\* an unused link slot, follow an XGM one
ReadLogicalsNext(d, r2, exts, t, i, fuel) ==
    LET r3 == [r2 EXCEPT !.pnum = @ + 1]
    IN  CASE ~r2.ok -> r2
          [] ~t.part[i + 1].used -> r3
          [] t.part[i + 1].id # "XGM" -> [r2 EXCEPT !.ok = FALSE]
          [] OTHER -> ReadLogicals(d, r3, exts, exts + t.part[i + 1].start,
                                   FALSE, fuel - 1)

ReadLogicals(d, r, exts, ars, empty_ok, fuel) ==
    LET t    == d[ars]
        used == {i \in 1 .. N_AHDI - 1 : t.part[i].used}
        i    == Min(used)
    IN  CASE ~r.ok -> r
          [] ~OnDevice(ars) \/ fuel = 0 -> [r EXCEPT !.ok = FALSE]
          [] used = {} /\ empty_ok -> r
          [] used = {} \/ t.part[i].id = "XGM" -> [r EXCEPT !.ok = FALSE]
          [] OTHER -> ReadLogicalsNext(d, AddRaw(r, Logical, ars, r.pnum, t.part[i]),
                                       exts, t, i, fuel)

\* one AHDI slot of the main loop of atari_read
ReadAhdiSlot(d, r, s) ==
    CASE ~r.ok \/ ~s.used -> r
      [] s.id = "XGM" ->
           LET r1 == [r EXCEPT !.pcount = @ + 1, !.format = "XGM", !.xgm = TRUE]
               r2 == AddRaw(r1, Extended, 0, 0, s)
           IN  ReadLogicals(d, r2, s.start, s.start, TRUE, MAXIMUM_PARTS + 1)
      [] OTHER ->
           LET r1 == AddRaw([r EXCEPT !.pcount = @ + 1], Normal, 0, r.pnum, s)
           IN  [r1 EXCEPT !.pnum = @ + 1]

\* one ICD slot: unknown or unused ids are skipped
ReadIcdSlot(r, s) ==
    IF ~r.ok \/ ~KnownIcd(s.id) \/ ~s.used THEN r
    ELSE LET r1 == AddRaw([r EXCEPT !.format = "ICD"], Normal, 0, r.pnum, s)
         IN  [r1 EXCEPT !.pnum = @ + 1]

\* the "for (i = 0; i < N_AHDI; i++)" loop of atari_read, from slot i on
RECURSIVE ReadAhdiSlots(_, _, _)
ReadAhdiSlots(d, r, i) ==
    IF i > N_AHDI THEN r
    ELSE ReadAhdiSlots(d, ReadAhdiSlot(d, r, d[0].part[i]), i + 1)

\* the "for (i = 0; i < N_ICD; i++)" loop of atari_read, from slot i on
RECURSIVE ReadIcdSlots(_, _, _)
ReadIcdSlots(t, r, i) ==
    IF i > N_ICD THEN r ELSE ReadIcdSlots(t, ReadIcdSlot(r, t.icd[i]), i + 1)

\* after the AHDI loop (r1): the ICD table is parsed when there is no XGM
\* entry, some AHDI entry, and a valid first ICD entry of a known id
ReadIcdPart(t, r1) ==
    IF ~r1.xgm /\ r1.pcount # 0
       /\ PartValid(t.icd[1], t.hd) /\ KnownIcd(t.icd[1].id)
    THEN ReadIcdSlots(t, r1, 1) ELSE r1

ReadOutcome(d) ==
    ReadIcdPart(d[0], ReadAhdiSlots(d, [ok |-> TRUE, assert |-> TRUE,
                                        parts |-> {}, format |-> "AHDI",
                                        bsl |-> <<d[0].bsl_start, d[0].bsl_count>>,
                                        pnum |-> 1, pcount |-> 0, xgm |-> FALSE], 1))

-----------------------------------------------------------------------------
(***************************************************************************)
(* atari_write.  The AHDI slots are filled in partition-number order (an   *)
(* extended partition stands for all of its logical ones), then the ICD    *)
(* slots in ICD mode, then the XGM chain is written ARS by ARS, then the   *)
(* root sector, then the BSL sectors.  A failure keeps what was already    *)
(* written and leaves the format as far as it was recomputed.              *)
(***************************************************************************)

\* the "while (pnum <= last_num && !(part = get(pnum))) pnum++" loop
NextUsed(P, pnum, last) ==
    LET ns == {n \in pnum .. last : HasNum(P, n)}
    IN  IF ns = {} THEN Max({pnum, last + 1}) ELSE Min(ns)

\* after an extended entry: skip to the next non-logical partition
NextNonLogical(P, pnum, last) ==
    LET ns == {n \in pnum .. last : HasNum(P, n) /\ ByNum(P, n).type # Logical}
    IN  IF ns = {} THEN Max({pnum, last + 1}) ELSE Min(ns)

\* the AHDI fill loop "for (i = 0; i < N_AHDI; i++)", from slot i on
RECURSIVE AhdiFillFrom(_, _, _, _, _, _)

\* the ICD fill loop "for (i = 0; i < N_ICD; i++)", from slot i on
RECURSIVE IcdFillFrom(_, _, _, _)

\* one iteration i of the loop that fills the AHDI table
AhdiFill(P, last, xgm_begin, put_sign, st, i) ==
    LET pn     == NextUsed(P, st.pnum, last)
        found  == pn <= last
        useExt == ~found /\ i # 1 /\ st.append
        part   == IF useExt THEN ExtOf(P) ELSE ByNum(P, pn)
        tgt    == IF part.type = Logical THEN ExtOf(P) ELSE part
        id     == IF tgt.type = Extended THEN "XGM" ELSE "DAT"
    IN  CASE put_sign ->
               [st EXCEPT !.pnum = pn, !.slots[i] = SignatureSlot]
          [] ~(found \/ useExt) \/ (i = 1 /\ xgm_begin) ->
               [st EXCEPT !.pnum = pn, !.slots[i] = Cleared(@)]
          [] OTHER ->
               [pnum   |-> IF tgt.type = Extended
                           THEN NextNonLogical(P, pn, last) ELSE pn + 1,
                append |-> st.append /\ ~useExt,
                slots  |-> [st.slots EXCEPT ![i] =
                              FillEntry(id, tgt.start, Length(tgt))]]

\* one iteration i of the loop that fills the ICD table
IcdFill(P, last, st, i) ==
    LET pn   == NextUsed(P, st.pnum, last)
        part == ByNum(P, pn)
    IN  CASE ~st.ok -> st
          [] pn > last -> [st EXCEPT !.pnum = pn, !.slots[i] = Cleared(@)]
          [] part.type # Normal -> [st EXCEPT !.ok = FALSE, !.pnum = pn]
          [] OTHER -> [st EXCEPT !.pnum = pn + 1,
                          !.slots[i] = FillEntry("DAT", part.start, Length(part))]

AhdiFillFrom(P, last, xgm_begin, put_sign, st, i) ==
    IF i > N_AHDI THEN st
    ELSE AhdiFillFrom(P, last, xgm_begin, put_sign,
                      AhdiFill(P, last, xgm_begin, put_sign, st, i), i + 1)

IcdFillFrom(P, last, st, i) ==
    IF i > N_ICD THEN st ELSE IcdFillFrom(P, last, IcdFill(P, last, st, i), i + 1)

IsLogical(P, n) == n # -1 /\ HasNum(P, n) /\ ByNum(P, n).type = Logical

\* mutant of ArsSlots: the data slot's start taken relative to the start
\* of the extended partition instead of to the ARS itself
ArsSlotsExtRelative(P, pnum, at, old) ==
    LET exts == ExtOf(P).start
        curr == ByNum(P, pnum)
        next == ByNum(P, pnum + 1)
    IN  [i \in 1 .. N_AHDI |->
           CASE IsLogical(P, pnum) /\ i = 1 ->
                  FillEntry("DAT", curr.start - exts, Length(curr))
             [] IsLogical(P, pnum) /\ IsLogical(P, pnum + 1) /\ i = 2 ->
                  FillEntry("XGM", next.start - 1 - exts, Length(next) + 1)
             [] OTHER -> Cleared(old[i])]

\* mutant of ArsSlots: the slots it does not fill left as the ARS held them
ArsSlotsKeepOld(P, pnum, at, old) ==
    LET exts == ExtOf(P).start
        curr == ByNum(P, pnum)
        next == ByNum(P, pnum + 1)
    IN  [i \in 1 .. N_AHDI |->
           CASE IsLogical(P, pnum) /\ i = 1 ->
                  FillEntry("DAT", curr.start - at, Length(curr))
             [] IsLogical(P, pnum) /\ IsLogical(P, pnum + 1) /\ i = 2 ->
                  FillEntry("XGM", next.start - 1 - exts, Length(next) + 1)
             [] OTHER -> old[i]]

\* the slots atr_write_logicals puts in the ARS at sector at, which holds
\* logical partition pnum (none: the empty first ARS): its data slot,
\* relative to the ARS, and the link to the ARS of pnum + 1, relative to
\* the start of the extended partition and covering that ARS
ArsSlots(P, pnum, at, old) ==
    LET exts == ExtOf(P).start
        curr == ByNum(P, pnum)
        next == ByNum(P, pnum + 1)
    IN  [i \in 1 .. N_AHDI |->
           CASE IsLogical(P, pnum) /\ i = 1 ->
                  FillEntry("DAT", curr.start - at, Length(curr))
             [] IsLogical(P, pnum) /\ IsLogical(P, pnum + 1) /\ i = 2 ->
                  FillEntry("XGM", next.start - 1 - exts, Length(next) + 1)
             [] OTHER -> Cleared(old[i])]

\* atr_write_logicals: the ARS of the first logical partition sits at the
\* start of the extended one, the ARS of each next one just before it; each
\* ARS is read, its slots rewritten (and its checksum made non-bootable)
WriteLogicals(P, d) ==
    LET RECURSIVE Loop(_, _, _)
        Loop(pnum, at, dd) ==
            LET dd2 == [dd EXCEPT ![at].part = ArsSlots(P, pnum, at, dd[at].part)]
            IN  CASE SectorTaken(P, at) \/ ~OnDevice(at) -> [ok |-> FALSE, dev |-> dd]
                  [] ~IsLogical(P, pnum + 1) -> [ok |-> TRUE, dev |-> dd2]
                  [] OTHER -> Loop(pnum + 1, ByNum(P, pnum + 1).start - 1, dd2)
    IN  Loop(FindFirstLog(P), ExtOf(P).start, d)

\* atr_empty_init_bsl: zero the BSL sectors (a marker byte in the first,
\* which no table read looks at), refusing at the first one a partition
\* holds; the sectors before it are already written
InitBsl(P, b, d) ==
    LET secs    == {x \in b[1] .. b[1] + b[2] - 1 : OnDevice(x)}
        blocked == {x \in secs : SectorTaken(P, x)}
        upto    == IF blocked = {} THEN b[1] + b[2] ELSE Min(blocked)
    IN  [ok  |-> blocked = {},
         dev |-> [x \in DOMAIN d |-> IF x \in secs /\ x < upto
                                     THEN ZeroTable ELSE d[x]]]

WriteResult(ok, dd, f, h) == [ok |-> ok, dev |-> dd, format |-> f, hdx |-> h]

\* write_to_dev after the root sector is written: the BSL (bs) decides
WriteBsl(fmt1, hdx, bs) ==
    IF ~bs.ok THEN WriteResult(FALSE, bs.dev, fmt1, hdx)
    ELSE WriteResult(TRUE, bs.dev, fmt1, FALSE)

\* after the XGM chain (logi): the final "remaining partitions" check, the
\* root sector t2 with the ICD slots, then atr_empty_init_bsl if HDX_comp
WriteRoot(P, b, hdx, fmt1, t2, icd, logi) ==
    LET d2 == [logi.dev EXCEPT ![0] = [t2 EXCEPT !.icd = icd.slots]]
    IN  CASE ~logi.ok -> WriteResult(FALSE, logi.dev, fmt1, hdx)
          [] icd.pnum <= LastNum(P) -> WriteResult(FALSE, logi.dev, fmt1, hdx)
          [] OTHER -> WriteBsl(fmt1, hdx, IF hdx THEN InitBsl(P, b, d2)
                                          ELSE [ok |-> TRUE, dev |-> d2])

\* after the ICD fill (icd): atr_write_logicals in XGM mode
WriteChain(P, b, hdx, d, fmt1, t2, icd) ==
    IF ~icd.ok THEN WriteResult(FALSE, d, fmt1, hdx)
    ELSE WriteRoot(P, b, hdx, fmt1, t2, icd,
                   IF PrimaryCount(P) # 0 /\ fmt1 = "XGM"
                   THEN WriteLogicals(P, d) ELSE [ok |-> TRUE, dev |-> d])

\* atr_load_fix_hdsize on the hd_size hd of the root sector read, when
\* has_been_read is hbr: the warning is only raised for a disk read or
\* written before, and answered ans; unraised (unhandled) it means Fix
LoadFixHdsize(hd, hbr, ans) ==
    CASE hd = DevLen               -> [ok |-> TRUE, hd |-> hd]
      [] hbr /\ ans = "cancel"     -> [ok |-> FALSE, hd |-> hd]
      [] hbr /\ ans = "ignore"     -> [ok |-> TRUE, hd |-> hd]
      [] OTHER                     -> [ok |-> TRUE, hd |-> DevLen]

\* after the hd_size check (fx) and the AHDI fill (a): the remaining check,
\* leaving XGM or ICD mode, the warning on a stale ICD table checked
\* against rs_hd_size and answered ia (yes, or unhandled, invalidates it;
\* cancel fails the write), then the ICD fill in ICD mode
WriteAhdi(P, fmt, b, hdx, d, fx, a, ia) ==
    LET last    == LastNum(P)
        t1      == [d[0] EXCEPT !.part = a.slots, !.hd = fx.hd,
                                !.bsl_start = b[1], !.bsl_count = b[2]]
        fmt1    == IF a.pnum > last /\ (fmt = "ICD" \/ ~HasExt(P))
                   THEN "AHDI" ELSE fmt
        stale   == fmt1 = "AHDI" /\ PartValid(t1.icd[1], fx.hd)
                                 /\ KnownIcd(t1.icd[1].id)
        t2      == IF stale /\ ia = "yes" THEN [t1 EXCEPT !.icd[1] = Cleared(@)] ELSE t1
        i0      == [ok |-> TRUE, pnum |-> a.pnum, slots |-> t2.icd]
    IN  IF ~fx.ok \/ ((HasExt(P) \/ fmt = "AHDI") /\ a.pnum <= last)
        THEN WriteResult(FALSE, d, fmt, hdx)
        ELSE IF stale /\ ia = "cancel" THEN WriteResult(FALSE, d, fmt1, hdx)
        ELSE WriteChain(P, b, hdx, d, fmt1, t2,
                        IF PrimaryCount(P) # 0 /\ fmt1 = "ICD"
                        THEN IcdFillFrom(P, last, i0, 1) ELSE i0)

WriteOutcome(P, fmt, b, hdx, hbr, d, ans, ia) ==
    WriteAhdi(P, fmt, b, hdx, d, LoadFixHdsize(d[0].hd, hbr, ans),
              AhdiFillFrom(P, LastNum(P), HasNum(P, 1) /\ ByNum(P, 1).type = Logical,
                           PrimaryCount(P) = 0,
                           [pnum |-> 1, append |-> HasExt(P) /\ LogicalCount(P) = 0,
                            slots |-> d[0].part], 1), ia)


-----------------------------------------------------------------------------
(***************************************************************************)
(* atari_alloc_metadata, run by the generic layer after every change of    *)
(* the partition list and after a read: one metadata partition for the     *)
(* root sector, one for the BSL, one for the first ARS and one for the ARS *)
(* in front of every logical partition but the first-numbered one, each   *)
(* added by atr_creat_add_metadata with the exact constraint.  A metadata  *)
(* partition is not active: it is neither aligned nor numbered, only       *)
(* checked against what the list holds so far.                             *)
(***************************************************************************)
\* atr_creat_add_metadata of m after the adds that gave r
CreatAddMetadata(r, m) ==
    IF r.ok /\ CheckPartition(r.parts, m)
    THEN [ok |-> TRUE, parts |-> r.parts \cup {m}]
    ELSE [r EXCEPT !.ok = FALSE]

\* the adds in order; the first one that fails ends atari_alloc_metadata
RECURSIVE CreatAddAll(_, _)
CreatAddAll(r, ms) ==
    IF ms = <<>> THEN r ELSE CreatAddAll(CreatAddMetadata(r, Head(ms)), Tail(ms))

\* one-sector metadata partitions of type t at the sectors of s, in order
MetaAt(t, s) == [i \in DOMAIN s |-> Part(t, -1, s[i], s[i])]

\* the loop over ext->part_list (by start) skipping the logical numbered
\* i, the first logical found by number
ArsBefore(P, i) ==
    SetToSortSeq({l.start - 1 : l \in {l \in Logicals(P) : l.num # i}}, <)

AllocMetadata(P, b) ==
    CreatAddAll([ok |-> TRUE, parts |-> P],
                MetaAt(Normal, <<0>>)
                \o (IF b # <<0, 0>> THEN <<Part(Normal, -1, b[1], b[1] + b[2] - 1)>>
                    ELSE <<>>)
                \o (IF HasExt(P)
                    THEN MetaAt(Logical, <<ExtOf(P).start>> \o ArsBefore(P, FindFirstLog(P)))
                    ELSE <<>>))

-----------------------------------------------------------------------------
(***************************************************************************)
(* The operations.                                                         *)
(***************************************************************************)

\* atr_disk_reset, as atari_alloc and atari_read start with it
Reset ==
    /\ format' = "AHDI"
    /\ bsl' = <<1, 1>>
    /\ hdx_comp' = TRUE
    /\ has_been_read' = FALSE

Init ==
    /\ parts = {}
    /\ format = "AHDI" /\ bsl = <<1, 1>> /\ hdx_comp = TRUE /\ has_been_read = FALSE
    /\ \/ dev = [x \in 0 .. DevLen - 1 |-> ZeroTable]
       \/ \E b \in InitBsls, hd \in InitHds :
            dev = [x \in 0 .. DevLen - 1 |->
                     IF x = 0 THEN SignatureTable(b, hd) ELSE ZeroTable]

\* ped_disk_new_fresh (mklabel atari): atari_alloc, nothing written yet
Fresh ==
    /\ parts' = {}
    /\ Reset
    /\ UNCHANGED dev

\* the outcome r of ped_disk_add_partition taken over
AddPartTo(r) ==
    /\ parts' = r.parts
    /\ format' = r.format
    /\ UNCHANGED <<bsl, hdx_comp, has_been_read, dev>>

\* mkpart: ped_partition_new with number -1, then ped_disk_add_partition
\* with the ideal geometry [s, e] and any constraint; the format and the
\* renumbering enumerate made stay even when the add fails
AddPart(type, s, e) ==
    AddPartTo(AddPartition(parts, format, bsl, Part(type, -1, s, e),
                           FromMax(0, DevLen - 1)))

\* ped_partition_enumerate on the listed partition part of r: the driver's
\* enumerate with part in the list (its "num == -1" terms vanish), which
\* recomputes the mode and moves part down to the first free number
EnumListedResult(r, part, e) ==
    [ok     |-> e.ok,
     parts  |-> (r.parts \ {part}) \cup {[part EXCEPT !.num = e.num]},
     format |-> e.format]

EnumerateListed(r, part) ==
    EnumListedResult(r, part, Enumerate(r.parts, r.format, part))

\* mutant of RenumberFrom: the loop stops before the last number
RECURSIVE RenumberBeforeEnd(_, _, _)
RenumberBeforeEnd(r, i, end) ==
    IF i >= end \/ ~r.ok THEN r
    ELSE RenumberBeforeEnd(IF HasNum(r.parts, i)
                           THEN EnumerateListed(r, ByNum(r.parts, i)) ELSE r,
                           i + 1, end)

\* the first loop of ped_disk_enumerate_partitions: every number i up to
\* end (the last number before the loop), in order, stopping at the first
\* enumerate that fails; the extended partition (number 0) is not visited
RECURSIVE RenumberFrom(_, _, _)
RenumberFrom(r, i, end) ==
    IF i > end \/ ~r.ok THEN r
    ELSE RenumberFrom(IF HasNum(r.parts, i)
                      THEN EnumerateListed(r, ByNum(r.parts, i)) ELSE r,
                      i + 1, end)

RemoveTo(r) ==
    /\ parts' = r.parts
    /\ format' = r.format
    /\ UNCHANGED <<bsl, hdx_comp, has_been_read, dev>>

\* ped_disk_remove_partition (generic): takes the partition out of the
\* list (an extended one only once it is empty), then re-enumerates the
\* partitions left; its result is not looked at, so a failed enumerate
\* still leaves the removal and what was renumbered before it
RemovePart(p) ==
    /\ p.type = Extended => Logicals(parts) = {}
    /\ RemoveTo(RenumberFrom([ok |-> TRUE, parts |-> parts \ {p}, format |-> format],
                             1, LastNum(parts \ {p})))

\* the outcome w of atari_write taken over
WriteTo(w) ==
    /\ dev' = w.dev
    /\ format' = w.format
    /\ hdx_comp' = w.hdx
    /\ has_been_read' = w.ok
    /\ UNCHANGED <<parts, bsl>>

\* ped_disk_commit_to_dev: atari_write, the warning of atr_load_fix_hdsize
\* answered with one of HdAnswers, the stale-ICD one with one of IcdAnswers
Write ==
    \E ans \in HdAnswers, ia \in IcdAnswers :
        WriteTo(WriteOutcome(parts, format, bsl, hdx_comp, has_been_read, dev, ans, ia))

\* the outcome r of atari_read: a disk is only opened when it succeeds
ReadTo(r) ==
    /\ r.ok
    /\ parts' = r.parts
    /\ format' = r.format
    /\ bsl' = r.bsl
    /\ hdx_comp' = FALSE
    /\ has_been_read' = TRUE
    /\ UNCHANGED dev

\* what ped_disk_new makes of device d: the layout atari_read returns when
\* atari_probe accepts it and the read succeeds with no failed assertion,
\* else no disk
NoDisk == [parts |-> {}, format |-> "none", bsl |-> <<0, 0>>]

OpenedFrom(ok, r) ==
    IF ok /\ r.ok /\ r.assert
    THEN [parts |-> r.parts, format |-> r.format, bsl |-> r.bsl]
    ELSE NoDisk

Opened(d) == OpenedFrom(Probe(d), ReadOutcome(d))

\* ped_disk_new on a device atari_probe accepts: atari_alloc then
\* atari_read; when the read fails the disk is destroyed and the one in
\* use before stays
Read == Probe(dev) /\ ReadTo(ReadOutcome(dev))

\* atari_clobber with the memset from offsetof(AtariRawTable, bsl_start)
ClobberFromBsl ==
    /\ Probe(dev)
    /\ dev' = [dev EXCEPT ![0] = [ZeroTable EXCEPT !.icd = dev[0].icd,
                                   !.hd = dev[0].hd, !.part = dev[0].part]]
    /\ UNCHANGED <<parts, format, bsl, hdx_comp, has_been_read>>

\* atari_clobber, run when another label type is written to the device:
\* everything from hd_size on is zeroed (hd_size, the AHDI slots, the BSL
\* fields, the checksum); the boot code and the ICD slots stay
Clobber ==
    /\ Probe(dev)
    /\ dev' = [dev EXCEPT ![0] = [ZeroTable EXCEPT !.icd = dev[0].icd]]
    /\ UNCHANGED <<parts, format, bsl, hdx_comp, has_been_read>>

\* the ideal geometries a user can ask for
Ideals == {g \in (0 .. DevLen - 1) \X (0 .. DevLen - 1) : g[1] <= g[2]}

AddNext == \E t \in AddTypes, g \in Ideals : AddPart(t, g[1], g[2])

\* a session on one opened disk that only creates partitions, commits,
\* re-opens the device, or has another label type clobber it
EditNext == AddNext \/ Write \/ Read \/ Clobber

RemoveNext == \E p \in parts : RemovePart(p)

\* the same session on a disk opened afresh with mklabel
FreshNext == EditNext \/ Fresh

\* a session on one opened disk where partitions are created, removed and
\* committed (re-opening is the edit session's)
EditRemoveNext == AddNext \/ RemoveNext \/ Write

Next == EditNext \/ Fresh \/ RemoveNext

EditSpec == Init /\ [][EditNext]_vars

FreshSpec == Init /\ [][FreshNext]_vars

EditRemoveSpec == Init /\ [][EditRemoveNext]_vars

Spec == Init /\ [][Next]_vars


-----------------------------------------------------------------------------
(***************************************************************************)
(* Properties.                                                             *)
(***************************************************************************)
SlotT  == [used : BOOLEAN, id : Ids, start : Int, size : Int]
TableT == [part : [1 .. N_AHDI -> SlotT], icd : [1 .. N_ICD -> SlotT],
           hd : Int, bsl_start : Int, bsl_count : Int]

TypeOK ==
    /\ parts \subseteq [type : Types,
                        num : 0 .. Max({MAXIMUM_PARTS, N_AHDI + N_ICD}),
                        start : 1 .. DevLen - 1, end : 1 .. DevLen - 1]
    /\ format \in Formats
    /\ bsl \in (0 .. DevLen) \X (0 .. DevLen)
    /\ hdx_comp \in BOOLEAN /\ has_been_read \in BOOLEAN
    /\ dev \in [0 .. DevLen - 1 -> TableT]

\* the device holds a table atari_probe accepts and atari_read turns into
\* exactly this layout, with no PED_ASSERT of atr_parse_add_rawpart failing
ReadAs(r, P, f, b) ==
    r.ok /\ r.assert /\ r.parts = P /\ r.format = f /\ r.bsl = b

ReadsBack(d, P, f, b) == Probe(d) /\ ReadAs(ReadOutcome(d), P, f, b)

\* Every atari_write of a layout the program built succeeds, and reading the
\* device back (atari_probe, then atari_read with its exact re-adds and
\* enumerate) gives the same partitions, numbers, format and BSL.
WrittenLayoutReadsBack ==
    [][Write => has_been_read' /\ ReadsBack(dev', parts, format', bsl)]_vars

\* every partition and the BSL lie below the sector count hd, which is one
\* atari_probe accepts
LayoutWithin(P, b, hd) ==
    /\ 2 <= hd /\ hd <= DevLen
    /\ \A p \in P : p.end < hd
    /\ b[2] # 0 => b[1] + b[2] <= hd

\* Every atari_write succeeds, and whatever the user answers to the warning
\* of atr_load_fix_hdsize, the device reads back as the layout (partitions,
\* numbers, format, BSL) exactly when the layout lies below the sector count
\* written into the root sector: Fix always makes it do so; Ignore keeps an
\* old count, and the write is lost for good exactly when that count no
\* longer covers the layout.
StoredSizeDecidesReadBack ==
    [][Write => /\ has_been_read'
                /\ ReadsBack(dev', parts, format', bsl)
                     <=> LayoutWithin(parts, bsl, dev'[0].hd)]_vars

Store == INSTANCE AtariStore WITH NoLayout <- NoDisk

\* the layout in memory
Mem == [parts |-> parts, format |-> format, bsl |-> bsl]

\* The driver implements the store (AtariStore): every step that writes the
\* device is either atari_write leaving a device that ped_disk_new opens as
\* exactly the layout in memory, or atari_clobber leaving one it opens as no
\* Atari disk.  A step that leaves the device alone is an edit of the store.
StoreRefined ==
    [][dev' = dev \/ Store!Next(Mem, Opened(dev), Mem', Opened(dev'))]_vars

\* the sectors of the BSL <<start, count>>
BslSectors(b) == IF b = <<0, 0>> THEN {} ELSE b[1] .. b[1] + b[2] - 1

\* atari_alloc_metadata, re-run after every change of the partition list,
\* can add all its metadata partitions: the root sector and the BSL lie in
\* the device and in no primary or extended partition, and every ARS
\* sector lies in the extended partition, in no logical one, and apart
\* from the other ARS sectors (so atr_write_logicals finds room for them).
MetadataFits == AllocMetadata(parts, bsl).ok

\* The PED_ASSERTs on the stored format that atari_partition_enumerate and
\* atari_write make on entry hold in every state the program reaches: no
\* extended partition in ICD mode, and at most four AHDI slots needed in
\* XGM and AHDI modes (a logical partition 1 costs the first slot).
DriverAsserts ==
    LET xgm_begin == HasNum(parts, 1) /\ ByNum(parts, 1).type = Logical
        slots     == PrimaryCount(parts) + B(xgm_begin)
    IN  /\ format = "ICD" => ~HasExt(parts)
        /\ format = "XGM" => slots <= N_AHDI
        /\ format = "AHDI" => ~HasExt(parts) /\ slots <= N_AHDI

=============================================================================
