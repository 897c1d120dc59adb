------------------------------ MODULE AtariIds ------------------------------
(***************************************************************************)
(* The id and boot flag of one Atari partition (atari.c): the three-letter *)
(* part_id written to an AHDI slot and the icd_id written to an ICD slot,  *)
(* chosen by atari_partition_set_system from the file system type and the  *)
(* length; the boot bits chosen by atari_partition_set_flag from part_id;  *)
(* and their way through a commit and a re-open: atr_fill_raw_entry writes *)
(* them into an entry, atari_probe checks the entry (atr_part_correct),    *)
(* atr_part_sysraw reads them back.  An id is a string; "" stands for the  *)
(* three zero bytes atari_partition_new leaves in it.                      *)
(***************************************************************************)
EXTENDS Naturals, Sequences, SequencesExt

CONSTANTS
    FsTypes,    \* names of file system types, ped_file_system_type_get
    NoFs,       \* the NULL file system type
    Lengths,    \* partition lengths, in sectors
    RawIds,     \* ids an entry on a device can hold
    RawFlags    \* flag bytes, USED bit cleared, an entry can hold

VARIABLES
    type,       \* "normal" or "extended"
    len,        \* part->geom.length
    part_id,    \* AtariPart.part_id
    icd_id,     \* AtariPart.icd_id
    flag,       \* AtariPart.flag
    named       \* set_system has run, or the partition was read from disk

vars == <<type, len, part_id, icd_id, flag, named>>

PART_FLAG_USED     == 1
PART_FLAG_BOOT_GEM == 128
PART_FLAG_BOOT_ASV == 64
PART_FLAG_BOOT_LNX == 16
PART_FLAG_BOOT_UNK == 8

GEM_MAX   == (32 * 1024 * 1024) \div 512
INT32_MAX == 2147483647

\* flag | PART_FLAG_USED and flag & ~PART_FLAG_USED on a byte
WithUsed(f)    == (f - (f % 2)) + PART_FLAG_USED
WithoutUsed(f) == f - (f % 2)

atr_known_icd_pid == {"BGM", "GEM", "LNX", "SWP", "RAW"}

atr_pid2bf ==
    <<[pid |-> "GEM", flag |-> PART_FLAG_BOOT_GEM],
      [pid |-> "BGM", flag |-> PART_FLAG_BOOT_GEM],
      [pid |-> "UNX", flag |-> PART_FLAG_BOOT_ASV],
      [pid |-> "LNX", flag |-> PART_FLAG_BOOT_LNX]>>

\* the entries of atr_fs2pid this model's file systems meet, in order,
\* with the default one ("" matching every type) last
atr_fs2pid ==
    <<[fs |-> "ext2",       pid |-> "LNX", max |-> INT32_MAX],
      [fs |-> "fat16",      pid |-> "GEM", max |-> GEM_MAX],
      [fs |-> "fat16",      pid |-> "BGM", max |-> INT32_MAX],
      [fs |-> "fat32",      pid |-> "F32", max |-> INT32_MAX],
      [fs |-> "hfs",        pid |-> "MAC", max |-> INT32_MAX],
      [fs |-> "linux-swap", pid |-> "SWP", max |-> INT32_MAX],
      [fs |-> "ntfs",       pid |-> "RAW", max |-> INT32_MAX],
      [fs |-> "",           pid |-> "RAW", max |-> INT32_MAX]>>

\* the ids atr_part_correct accepts: three alphanumeric characters
Alnum(id) == id # ""

\* mutant of IcdIdFor: the part_id used for ICD slots whatever it is
IcdIdForAny(pid) == pid

\* the icd_id that goes with part_id pid (atr_part_sysraw, set_system)
IcdIdFor(pid) == IF pid \in atr_known_icd_pid THEN pid ELSE "RAW"

\* the loop of atari_partition_set_system over atr_fs2pid: the first
\* entry of fs with room for the length, or the default one
FsToPid(fs, l) ==
    atr_fs2pid[SelectInSeq(atr_fs2pid,
                           LAMBDA e : e.fs = "" \/ (e.fs = fs /\ l < e.max))].pid

\* the loop of atari_partition_set_flag: the boot bits of part_id, those
\* of the terminating "" entry when it is in no entry
BootFlagOf(pid) ==
    LET i == SelectInSeq(atr_pid2bf, LAMBDA e : e.pid = pid)
    IN  IF i = 0 THEN PART_FLAG_BOOT_UNK ELSE atr_pid2bf[i].flag

\* mutant of SysRaw: the USED bit kept in the flag
SysRawKeepUsed(id, f) ==
    /\ part_id' = id
    /\ icd_id' = IcdIdFor(id)
    /\ flag' = f

\* mutant of SysRaw: "RAW" as the ICD id whatever the id
SysRawIcdRaw(id, f) ==
    /\ part_id' = id
    /\ icd_id' = "RAW"
    /\ flag' = WithoutUsed(f)

\* atr_part_sysraw: the fields read from an entry with id and flag f
SysRaw(id, f) ==
    /\ part_id' = id
    /\ icd_id' = IcdIdFor(id)
    /\ flag' = WithoutUsed(f)

\* atari_partition_new (memset of the AtariPart), or a partition read by
\* atr_parse_add_rawpart from an entry on the device
Init ==
    /\ type \in {"normal", "extended"}
    /\ len \in Lengths
    /\ \/ part_id = "" /\ icd_id = "" /\ flag = 0 /\ named = FALSE
       \/ \E id \in RawIds, f \in RawFlags :
            /\ part_id = id /\ icd_id = IcdIdFor(id) /\ flag = WithoutUsed(f)
            /\ named = TRUE
            /\ type = "extended" => id = "XGM"

\* atari_partition_set_system with fs (NoFs for NULL); the ICD-mode
\* refusal of atr_xgm_in_icd concerns no partition on a disk, as ICD mode
\* holds no extended partition
SetSystem(fs) ==
    /\ CASE type = "extended" -> part_id' = "XGM" /\ icd_id' = "XGM"
         [] fs = NoFs -> part_id' = "RAW" /\ icd_id' = "RAW"
         [] OTHER -> /\ part_id' = FsToPid(fs, len)
                     /\ icd_id' = IcdIdFor(FsToPid(fs, len))
    /\ named' = TRUE
    /\ UNCHANGED <<type, len, flag>>

\* atari_partition_set_flag (PED_PARTITION_BOOT, state)
SetFlag(state) ==
    /\ flag' = IF state THEN BootFlagOf(part_id) ELSE 0
    /\ UNCHANGED <<type, len, part_id, icd_id, named>>

\* atari_partition_get_flag (PED_PARTITION_BOOT)
GetFlag == flag # 0

\* the entry atr_fill_raw_entry makes of the partition in an AHDI slot
\* (part_id) or an ICD slot (icd_id): flag byte and id
Entry(slot) ==
    [flag |-> WithUsed(flag),
     id   |-> IF slot = "AHDI" THEN part_id ELSE icd_id]

\* ped_disk_commit then ped_disk_new: the partition written to a slot of
\* the kind slot (an extended one only to an AHDI slot of the root
\* sector), its entry accepted by atari_probe, and read back
Reopen(slot) ==
    /\ slot = "ICD" => type = "normal"
    /\ Alnum(Entry(slot).id)
    /\ SysRaw(Entry(slot).id, Entry(slot).flag)
    /\ UNCHANGED <<type, len, named>>

Next ==
    \/ \E fs \in FsTypes \cup {NoFs} : SetSystem(fs)
    \/ \E state \in BOOLEAN : SetFlag(state)
    \/ \E slot \in {"AHDI", "ICD"} : Reopen(slot)

Spec == Init /\ [][Next]_vars

-----------------------------------------------------------------------------
Slots == {"AHDI", "ICD"}

\* the AtariPart flag holds boot bits only: the USED bit lives on disk
IdsTypeOK ==
    /\ type \in {"normal", "extended"} /\ len \in Lengths
    /\ {part_id, icd_id} \subseteq {""} \cup RawIds \cup {e.pid : e \in Range(atr_fs2pid)}
    /\ flag \in {f \in 0 .. 255 : f % 2 = 0}
    /\ named \in BOOLEAN

\* Once set_system has run (or the partition came from a device), the
\* entry atari_write makes of it, in an AHDI or an ICD slot, is one
\* atari_probe takes for valid (three alphanumeric characters) and, in an
\* ICD slot, one atari_read does not skip (a known ICD id); an extended
\* partition is written as "XGM", the id atari_read follows the chain by.
NamedEntriesProbeable ==
    named =>
        /\ Alnum(part_id) /\ icd_id \in atr_known_icd_pid \cup {"XGM"}
        /\ type = "normal" => icd_id \in atr_known_icd_pid
        /\ type = "extended" => part_id = "XGM"

\* the slot kinds whose entry must survive a re-open through slot: the
\* next write may put a normal partition read from an AHDI slot into an
\* ICD one (ICD mode), never the other way round for an extended one
KeptBy(slot) ==
    IF slot = "AHDI" /\ type = "normal" THEN Slots ELSE {slot}

\* Writing the partition and opening the device again changes nothing
\* the next atari_write writes for it: atr_part_sysraw reads back the id
\* and flag atr_fill_raw_entry wrote, and recomputes the same ICD id.
ReopenKeepsEntries ==
    [][\A slot \in Slots :
         Reopen(slot) => \A s \in KeptBy(slot) : Entry(s)' = Entry(s)]_vars

====
