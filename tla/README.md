# TLA+ models of libparted's Atari partition-table driver

This directory holds TLA+ models of the parts of this repository that have
state worth model-checking. They are checked with TLC. The centre of the
project is the Atari (AHDI / XGM / ICD) label driver,
`src/libparted/labels/atari.c`, together with the parts of libparted's
generic disk layer that drive it.

## The system

| Part | Source | What it does |
|---|---|---|
| Geometry and constraint solver | not in this repository (spec §4.1) | Ranges of sectors, constraints on start, end and size, and "solve nearest". |
| Generic disk layer | not in this repository (spec §4.2) | `ped_disk_add_partition` aligns the new partition (driver hook), checks it for overlap and bounds, enumerates it (driver hook) and inserts it. `ped_disk_remove_partition` takes it out again and then runs `ped_disk_enumerate_partitions`, which calls the driver's enumerate on every numbered partition left, in number order. `ped_disk_commit` calls the driver's write. `ped_disk_new` calls probe, then read. |
| Atari driver | `atari.c` | Probe, read, write, clobber, alloc, align, enumerate, room-for-logic and metadata. It keeps a format (AHDI: 4 root slots; ICD: 4 + N_ICD slots; XGM: an extended partition whose logicals are chained through ARS sectors, each with one data entry and one link entry). It also keeps a bad sector list (BSL) and the flags `HDX_comp` and `has_been_read`. |
| UDF and F2FS probes | `fs/udf/udf.c`, `fs/f2fs/f2fs.c` | File-system signature detection, independent of the label driver except that `atr_parse_add_rawpart` runs `ped_file_system_probe` on every partition it reads (the model leaves fs types out). |
| fdasd header, tests | `include/`, `tests/` | Declarations and test drivers. |

The parts interact through the generic layer:
- Every add runs the driver's align, then enumerate. Every remove runs enumerate on each partition left: a numbered partition moves down to the first free number below its own (lines 1808-1815), and the format is recomputed. Enumerate may change the format: AHDI becomes ICD when a fifth primary partition is added, and becomes XGM when an extended partition is added.
- A commit runs `atari_write`. It fills the root slots in partition-number order, writes the ARS chain, writes the root sector, then initialises the BSL. At the end it may drop back to AHDI.
- A re-open runs `atari_probe` and then `atari_read` on what was written.

## Modules

- **`Geometry.tla`** is spec-modelled. It defines constraints as start, end and size ranges, their intersection, and `SolveNearest`. Alignment is left out because every constraint the driver builds uses `ped_alignment_any`.
- **`AtariLabel.tla`** models the driver and the generic operations that call it.
  - **In-memory variables:**
    - `parts`: records `[type, num, start, end]`.
    - `format`.
    - `bsl`: `<<start, count>>`.
    - `hdx_comp`.
    - `has_been_read`.
  - **On-disk variable:** `dev`, mapping each sector to a parsed `AtariRawTable`. A table has 4 AHDI slots, N_ICD ICD slots, `hd_size` and the BSL fields. A slot has a used flag, an id, a start and a size.
  - **Operators and actions.** Each operator is named after the C function it translates; `PROJECT.json` "map" gives the lines.
    - Align: `LogConstraint`, `ExtConstraint`, `PrimAlign`, `PartitionAlign`.
    - Enumerate: `Enumerate`, `RoomForLogic`; `XgmInIcd` (`atr_xgm_in_icd`) refuses an extended partition in ICD mode; `LogicalCount` is `_disk_logical_partition_count`.
    - Metadata: `AllocMetadata`, which replays `atari_alloc_metadata`'s calls to `atr_creat_add_metadata` (`CreatAddMetadata`, `CreatAddAll`, `MetaAt`, `ArsBefore`).
    - Probe: `Probe`, `ProbeChain`.
    - Read: `ReadOutcome`, `ReadLogicals`.
    - Write: `WriteOutcome` and its stages `WriteAhdi`, `WriteChain`, `WriteRoot`, `WriteBsl`, with `AhdiFill`, `IcdFill`, `WriteLogicals`, `ArsSlots`, `InitBsl`. `LoadFixHdsize` is `atr_load_fix_hdsize`: when the stored `hd_size` is not the device length and the disk was written or read before, the user answers the warning with one of `HdAnswers` (Fix, Ignore, Cancel); otherwise it is fixed silently. A stale ICD table in AHDI mode (its first slot valid against the `hd_size` being written, `rs_hd_size`, with a known ICD id) raises a warning answered with one of `IcdAnswers`: Yes (also the answer when unhandled) invalidates it, No keeps it, Cancel fails the write.
    - Open: `Opened(d)` is what `ped_disk_new` makes of device `d` (the layout `atari_read` returns when `atari_probe` accepts, else `NoDisk`); `Mem` is the layout in memory.
  - **Staging.** Each intermediate result (an aligned geometry, an enumerate outcome, a partial table) is passed as an operator argument rather than bound by a LET and referenced several times. This keeps TLC's coverage profiling linear in the size of the model.
  - **Actions:**
    - `AddPart(type, s, e)` is mkpart: align, check, enumerate, insert. The format and the numbering that enumerate chose remain in place even when the add fails, as in C.
    - `RemovePart(p)` is rm: the partition leaves the list (an extended one only when empty), then `RenumberFrom` runs `ped_disk_enumerate_partitions`' loop over numbers 1 to the last, each step `EnumerateListed` (the driver's enumerate on a listed partition, `EnumListedResult` taking over its number and format). The result of the loop is ignored, as in C.
    - `Write`: the whole `atari_write`, all of its error paths included.
    - `Read`: `ped_disk_new`. A failed read keeps the old disk.
    - `Clobber`.
    - `Fresh`: mklabel.
  - **Next-state relations.** The runs use these sub-relations: `EditNext`, `FreshNext` and `EditRemoveNext`.
- **`AtariStore.tla`** is the abstract spec of what libparted promises of a partition table: a layout in memory and the layout the device opens as. `Edit` changes memory only; `Commit` makes the device open as the layout in memory (partitions and BSL; the format may be recomputed); `Destroy` (another label type written over it) leaves a device that opens as no layout. Its actions take the layouts before and after as arguments. `AtariLabel` instantiates it with `NoLayout <- NoDisk` and checks `StoreRefined`, the refinement under the mapping `mem = Mem`, `disk = Opened(dev)`.
- **`UdfProbe.tla`** models `udf.c`: `read_bytes` (the read-bounds rule), `check_vrs` (`CheckVrsFrom`, 64 descriptors from byte 32768, stopping at an unknown identifier), `check_anchor` (end-relative candidates and the 257-block minimum), `detect_anchor` and `detect_udf`. An image is abstracted to its descriptor spacing, its VRS identifiers and its AVDP tags. The images in `Init` are those a formatter writes with 512-, 2048- or 4096-byte blocks, with some anchors missing or mislocated. `DetectRef` restates spec §4.5 tier 2 over sets instead of loops. `MCUdfProbe.tla` gives the constants.
- **`F2fsProbe.tla`** models `f2fs_probe`: a one-sector read at sector `F2FS_SB_OFFSET` and a comparison of the word at its start with the magic.
- **`AtariChecksum.tla`** models the root-sector checksum: `atr_calc_rs_sum`, `atr_is_boot_table`, `atr_sign_is_forbidden` and `atr_table_set_boot`, with its uint16 wrap-around and its loop past 0x55AA and the bootable value (`NonBootFrom`, RECURSIVE).
  - A sector is abstracted to `[c, k]`: the uint16 sum of its first 255 words, and its checksum word.
  - `WriteRoot` is `atari_write` on the root sector. It keeps the boot status it read.
  - `WriteArs` is `atr_write_logicals` on an ARS sector. It always writes non-bootable.
- **`AtariBootStatus.tla`** is the abstract spec of the checksum: a sector is bootable or not. The root writer keeps the bit and the ARS writer clears it. `AtariChecksum` instantiates it with `bootable <- IsBootTable(sector)` and checks `BootStatus!Spec` as a property, which is the refinement.
- **`AtariChain.tla`** (extends `AtariLabel`) runs `ped_disk_new` one loop pass per step on a device whose XGM chain is arbitrary: the probe's chain walk (`ProbeStep`), then `atr_read_logicals` (`ReadStep`).
  - The root sector holds an optional data primary and the XGM entry.
  - Every other sector's ARS table is chosen from `ArsTables` the first time it is read, and remembered in `known`. Cycles, links off the device and links into a logical partition therefore all occur.
  - `pvis` and `rvis` record the sectors each loop walked.
- **`AtariCrash.tla`** (extends `AtariLabel`) adds a power loss to an editing session. `CrashInChain` is an `atari_write` that would succeed, cut after any one of the `ped_device_write` calls of `atr_write_logicals` and so before the root sector and BSL writes, followed by a restart with no disk open. `ArsOrder` lists the ARS sectors in the order the loop writes them, and `ChainWritten(w, n)` is the device after the first `n` of them. `Opened(d)` is what `ped_disk_new` makes of the device. `MCAtariCrash.tla` instantiates it with the seven-sector device of `MCAtariLabel`, where a chain of two ARS fits.
- **`AtariIds.tla`** models the id and boot flag of one partition.
  - `SetSystem` is `atari_partition_set_system`, with the `atr_fs2pid` lookup (`FsToPid`, through `SelectInSeq`) and the ICD fallback to RAW.
  - `SetFlag` and `GetFlag` are the boot-flag calls.
  - `Reopen` writes the partition to an AHDI or an ICD slot (`atr_fill_raw_entry`), requires the alphanumeric id that `atr_part_correct` checks, and reads it back (`atr_part_sysraw`).
  - `Init` is a partition fresh from `atari_partition_new` (zero ids) or one read from a device. The layout model keeps all ids at DAT; this module covers ids on their own, because they never decide a layout.
- **`MCAtariLabel.tla`** instantiates the model with 7 sectors and defines the `ReadableView` view. **`MCAtariCrash.tla`** reuses it for the crash runs.

## Properties and runs

| Run | cfg | Result | Checks |
|---|---|---|---|
| edit_session | MCAtariLabel.cfg | pass, ~47k states, 3 min | `TypeOK`, `MetadataFits`, `DriverAsserts`, `WrittenLayoutReadsBack`, `StoreRefined` |
| remove_session | MCAtariRemove.cfg | pass, ~87k states, 3 min | `MetadataFits`, `WrittenLayoutReadsBack` with mkpart, rm and commits |
| udf_probe | MCUdfProbe.cfg | pass, ~5k states | `ProbeMatchesReference`, `FormattedImageDetected` |
| f2fs_probe_4k | F2fsProbe.cfg | violation | `ProbeMatchesSuperblock` on 4096-byte sectors |
| checksum | AtariChecksum.cfg | pass, ~328k states | `TypeOK`, `NonBootSectorsSafe`, `BootStatusRefined` over all 65536 sums |
| chain_walk | MCAtariChain.cfg | pass, ~12k states | `ChainTypeOK`, `ReadWalksProbedChainOnce`, `ProbeTerminates` |
| chain_opens | MCAtariChainOpens.cfg | violation | `ProbedChainOpens` |
| crash_rewrite | MCAtariCrashRewrite.cfg | pass, ~48k states, 2 min | `StoredSizeDecidesReadBack` with mklabel, Ignore answers and crashes after any ARS write |
| crash_commit | MCAtariCrash.cfg | violation | `RootWriteCommits` |
| ids | MCAtariIds.cfg | pass, 171 states | `IdsTypeOK`, `NamedEntriesProbeable`, `ReopenKeepsEntries` |

- `DriverAsserts` is the set of PED_ASSERTs in `atari_write` (lines 1035-1037) and in enumerate (lines 1729-1734), checked in every state.
- `MetadataFits` says that `atari_alloc_metadata` always succeeds after a change of the partition list. `AllocMetadata` replays the driver's calls in their order, and the generic checks apply to each one-sector metadata partition: the root sector, the BSL, the first ARS, and the ARS before every logical but the first-numbered one. The root sector and the BSL must lie outside every primary partition. Each ARS sector must lie inside the extended partition, outside every logical, and apart from the other ARS sectors.
- `WrittenLayoutReadsBack` is an action property. It says that a successful `Write` leaves a device that `atari_probe` accepts and that `atari_read` parses back to the same partitions, format and BSL.
- `StoreRefined` says that the Atari driver implements `AtariStore`: every step that changes the device is a commit after which `ped_disk_new` opens exactly the layout in memory, or a clobber after which it opens no Atari disk. A step that leaves the device alone is an edit of the store, so the property is written `dev' = dev \/ Store!Next(...)`, which spares TLC from opening the device twice on steps that cannot change what it opens as. Its mutant is an `atari_clobber` whose memset starts at the BSL fields instead of `hd_size`: the device then still opens as the old layout.
- remove_session checks `MetadataFits` and `WrittenLayoutReadsBack` on sessions that also remove partitions. A remove renumbers the partitions above the gap, so the logical that is first by number, whose ARS is the extended partition's first sector, can change between a mkpart and a commit. Its mutants are a numbered partition that keeps its number on re-enumeration (the commit then writes a table the probe rejects, or one that reads back renumbered) and a loop that stops before the last number (the metadata no longer fits).
- `NonBootSectorsSafe` says that a sector written non-bootable never ends in the MS-DOS signature 0x55AA and is really not bootable.
- `BootStatusRefined` says that the uint16 arithmetic implements `AtariBootStatus`.
- `ReadWalksProbedChainOnce` says that `atr_read_logicals`, which counts no hops and checks no entry, only walks ARS sectors the probe walked, each at most once. The read loop therefore ends as well.
- `ProbeTerminates` says that the probe ends on every chain, cycles included; its hop count cuts a cycle off.
- `StoredSizeDecidesReadBack` (run crash_rewrite) generalises `WrittenLayoutReadsBack` to a user who answers Ignore to `atr_load_fix_hdsize`'s warning. Every write succeeds. The device reads back as the layout exactly when every partition and the BSL lie below the sector count written into the root sector (`LayoutWithin`). So a count kept by Ignore loses the write only when it no longer covers the layout, and `atari_probe` never accepts a table past its count. The run also covers writes after a crash, when the device holds a torn chain. The property depends on `atr_write_logicals` clearing the slots it does not fill: the mutant that keeps them is caught only here, not by edit_session.
- `NamedEntriesProbeable` says that once `set_system` has run, both ids are ones the probe accepts, the ICD id is one `atari_read` does not skip, and an extended partition is "XGM".
- `ReopenKeepsEntries` says that a commit and re-open changes nothing the next write will write for the partition.

Every property of a passing run has a mutant in `PROJECT.json`: a plausible bug in a mapped operator that TLC catches.

**f2fs_probe_4k.** `f2fs_probe` reads sector 2, which covers byte 1024 only when sectors are 512 bytes; spec §6 puts the magic at byte 1024. On a 4096-byte-sector device sector 2 starts at byte 8192. In TLC's trace the partition is two sectors long, so the read lies past its end and fails, and the superblock at byte 1024 is never detected; on a longer partition the read succeeds but looks at byte 8192 and misses it the same way.

Two Atari violations concern what the driver reads back:
1. **chain_opens.** `atari_probe` checks a link entry only against the bounds of the extended partition. It therefore accepts an ARS that lies inside the previous logical partition. `atari_read` then fails to add the next logical, so `ped_disk_new` fails on a disk the probe declared Atari. This contradicts spec §4.3, which requires a probe without magic to validate structure, and the comment "We are sure that the layout looks coherent".
2. **crash_commit.** `atari_write` calls the root sector its commit ("Commit the root sector..."). Yet it rewrites the ARS chain in place, at the sectors the old root points to. `RootWriteCommits` allows a crash before the root write to leave the old layout, the new one, or a device that no longer opens (a loss that is at least reported). TLC finds a fourth outcome:
   - commit extended 2..6 with logical 3..3 on an empty table;
   - mklabel, then mkpart extended 2..2, then commit;
   - crash after `atr_write_logicals` wrote the new, empty first ARS at sector 2, before the root write.

   The old root (extended 2..6) is left over an empty chain. `ped_disk_new` opens the device without any error as extended 2..6 with no logical partition. Nobody committed that layout, and the logical partition is silently gone.

## Bounds

- **Device length.** Seven sectors is the smallest length at which two logicals fit next to the BSL (`atr_log_constraint` refuses a one-sector gap, line 1442), and at which ICD mode (five one-sector primaries) is reachable. The crash runs use seven sectors as well, so that a chain of two ARS exists and a crash can fall between its writes (five sectors never hold two logicals). To keep them within minutes they leave out primary partitions, which the chain never touches.
- **Other constants.** `MAXIMUM_PARTS = 5` and `N_ICD = 2`. The initial device is blank, or holds an empty signature table with or without a BSL. That table's `hd_size` is the device length; in the crash runs, where the initial table has no BSL, it is 3, as when a table written on a three-sector device is copied to a longer one, so `atr_load_fix_hdsize` has a size to fix.
- **Answers to the hd_size warning.** edit_session answers Fix (`HdAnswers = {"fix"}`), which is also what the code does when the exception is unhandled (line 969). crash_rewrite answers Ignore and starts from a table whose `hd_size` is 3. Its first write, or a write after a crash, fixes the size silently, because `has_been_read` is unset. After a read of that table, the warning is raised and ignored, and both outcomes occur: a layout within sectors 0..2 and one past them. Allowing Fix as well in crash_rewrite would add nothing, because an answered Fix and the silent fix run the same lines. Cancel makes the write fail with nothing written.
- **Answers to the stale-ICD warning.** The runs answer Yes (`IcdAnswers = {"yes"}`), which is also what an unhandled exception means (line 1134) and so what parted's scripts get. No keeps an ICD table the warning itself says will show partitions of unknown size to ICD software, so `WrittenLayoutReadsBack` is not claimed for it; Cancel fails the write with nothing written, like every other error path of `WriteAhdi`. Both are in the model; adding them to edit_session doubles its transitions past what a run can afford.
- **Removes.** remove_session starts from a blank device or an empty table with the default one-sector BSL, asks for one-sector partitions or one running from sector 2 to the end (an extended partition that holds two logicals), and keeps at most three partitions at a time (`LiveBound`): enough to remove partition 1 or a middle logical and have another move down into its number.
- **Ideal geometries.** The ideals a user asks for are restricted to one-sector ones and ones that run to the end of the device (`MCIdeals`). Align moves the partition anyway, so these still reach every layout the edit sessions can build.
- **UDF lengths.** The partition lengths (64, 1028, 1032, 2052, 2056 and 4112 sectors) put the last block of a 2048-byte-block image at 256, 257, 512 and 513. Those are the points where the end-relative anchors cross their 257-block minimum. The 64-sector partition is too short for the recognition sequence.
- **Checksum.** Every one of the 65536 sums, each bootable or not, and edits that keep or change the sum. This covers every wrap-around of `atr_table_set_boot`.
- **Chains.** An eight-sector device with a six-sector extended partition and `MAXIMUM_PARTS = 4`. Data entries of one or two sectors and link entries to every start up to one off the device let a chain have three ARS, a cycle, a link into a logical partition, and hit the hop limit.
- **Ids.** The file systems of `atr_fs2pid` with distinct ids, plus one that has no entry. Lengths are 1, GEM_MAX - 1 and GEM_MAX, on the two sides of the fat16 GEM/BGM limit. Raw ids cover ICD ids and others as other Atari tools write them.
- **`ReadableView`.** It fingerprints only the root sector and the sectors reachable along the ARS chain. Other sectors are never read before they are rewritten.

## Fairness

The editing sessions assume no fairness. They are driven by a user who may stop at any time, so their properties are safety properties.

`AtariChain` assumes `WF_all_vars(ProbeStep)`. Once `ped_disk_new` is called, `atari_probe` runs its loop to completion, with nothing to wait on (spec §5: synchronous, single-threaded, blocking I/O). Under that fairness, `ProbeTerminates` checks that the probe's hop count ends every chain.

The read loop gets no fairness of its own. Its end follows from the safety property `ReadWalksProbedChainOnce`: it only walks probed sectors, none twice. Checking it as liveness would force TLC to evaluate ENABLED of an action that adds partitions through the whole alignment model.

## Not modelled yet

- `duplicate` and `destroy` copy or free memory, and `atari_get_max_primary_partition_count` and `atari_get_max_supported_partition_count` only answer a query; nothing else of the driver changes state outside the modules above, so the driver's component is recorded as modelled.
- Partition ids in the layout model are all DAT. Ids are checked separately in `AtariIds`.
- When the boot flag is set before `set_system`, the partition keeps the boot bits of the id it had then. For example, UNK stays on a partition that becomes LNX. No contract states which bits are right, so no property is about them.
- I/O errors of single writes, and a crash after the root write and before or during the BSL write: the BSL sectors are never read back as tables, so such a crash leaves what `ped_disk_new` opens unchanged.
- `atari_read`'s Ignore answer to an exception (the BSL check). `ped_disk_new` runs it with the default handler, which cancels.
- The registration of the file-system probes, `*_init`/`*_done`.
- The fdasd header and the tests have nothing stateful to model.

The plan for the next sittings:
- **Geometry laws** checked against a reference definition.
