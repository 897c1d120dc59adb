----------------------------- MODULE AtariChain -----------------------------
(***************************************************************************)
(* ped_disk_new on a device whose XGM chain is arbitrary: the chain walk   *)
(* of atari_probe (atari.c, the while loop under "if (xgm_part)") and then *)
(* the one of atr_read_logicals, one loop iteration per step, so that      *)
(* their termination is a liveness property.                               *)
(*                                                                         *)
(* The root sector holds an optional data primary in slot 1 and the XGM    *)
(* entry in slot 2, which spans sectors Exts .. DevLen - 1.  Every other   *)
(* sector holds some ARS table of ArsTables; which one is chosen the first *)
(* time the sector is read (known records the sectors chosen so far), so  *)
(* every device of that shape is covered without enumerating it up front. *)
(* The partitions are added through AddRaw, i.e. through the alignment,    *)
(* checks and enumeration of AtariLabel.                                    *)
(***************************************************************************)
EXTENDS AtariLabel

VARIABLES
    phase,      \* "probe", "read", then "rejected", "opened" or "failed"
    ars,        \* the sector of the ARS the loop reads next ("parts" in C)
    empty_ok,   \* empty_ars_allowed
    total,      \* total_count of atari_probe
    r,          \* the read record of atari_read (see ReadOutcome)
    known,      \* sectors whose content has been fixed
    pvis,       \* ARS sectors the probe walked
    rvis        \* ARS sectors the read walked

chain_vars == <<phase, ars, empty_ok, total, r, known, pvis, rvis>>
all_vars   == <<vars, chain_vars>>

\* the start of the extended partition, the first ARS
Exts == 2

\* the data primary and the XGM entry of the root sectors
DataPrim == FillEntry("DAT", 1, 1)
XgmEntry == FillEntry("XGM", Exts, DevLen - Exts)

Roots ==
    {[ZeroTable EXCEPT !.hd = DevLen, !.part[1] = d, !.part[2] = XgmEntry] :
        d \in {ZeroSlot, DataPrim}}

\* ARS tables: a data entry in slot 1 (starting at the sector after the
\* ARS) and a link entry in slot 2 (relative to Exts)
DataSlots == {ZeroSlot, FillEntry("DAT", 1, 1), FillEntry("DAT", 1, 2),
              FillEntry("XGM", 1, 1)}
LinkSlots == {ZeroSlot, FillEntry("DAT", 1, 1)}
               \cup {FillEntry("XGM", s, 1) : s \in 0 .. DevLen - Exts}

ArsTables ==
    {[ZeroTable EXCEPT !.part[1] = d, !.part[2] = l] : d \in DataSlots, l \in LinkSlots}

\* the contents ped_device_read can return for sector x
Readable(x) == IF x \in known THEN {dev[x]} ELSE ArsTables

\* the slots the two loops look for data in: 0, 1 or 2 in C
UsedData(t) == {i \in 1 .. N_AHDI - 1 : t.part[i].used}

\* total_count++ of atari_probe
ProbeCountNoIncrement(n) == n
ProbeCount(n) == n + 1

\* the room a link entry is checked against: rs_hd_size - exts
LinkRoomWhole(hd) == hd
LinkRoom(hd) == U32Sub(hd, Exts)

\* the next ARS of atr_read_logicals: exts + the link's start
ReadNextArsFromArs(exts, at, start) == at + start
ReadNextArs(exts, at, start) == exts + start

\* the read record after the root slots in front of the XGM entry and the
\* extended partition itself (the AHDI loop of atari_read up to the call
\* of atr_read_logicals)
ReadRoot(t) ==
    LET r0 == [ok |-> TRUE, assert |-> TRUE, parts |-> {}, format |-> "AHDI",
               bsl |-> <<t.bsl_start, t.bsl_count>>,
               pnum |-> 1, pcount |-> 0, xgm |-> FALSE]
        r1 == ReadAhdiSlot(dev, r0, t.part[1])
    IN  AddRaw([r1 EXCEPT !.pcount = @ + 1, !.format = "XGM", !.xgm = TRUE],
               Extended, 0, 0, t.part[2])

ChainInit ==
    /\ parts = {} /\ format = "AHDI" /\ bsl = <<1, 1>>
    /\ hdx_comp = TRUE /\ has_been_read = FALSE
    /\ \E t \in Roots :
         /\ dev = [x \in 0 .. DevLen - 1 |-> IF x = 0 THEN t ELSE ZeroTable]
         /\ total = Cardinality({i \in 1 .. N_AHDI : PartValid(t.part[i], t.hd)})
    /\ phase = "probe" /\ ars = Exts /\ empty_ok = TRUE
    /\ r = ReadRoot(dev[0])
    /\ known = {0} /\ pvis = {} /\ rvis = {}

\* sector x read as t
ReadSector(x, t) ==
    /\ dev' = [dev EXCEPT ![x] = t]
    /\ known' = known \cup {x}

\* atari_probe returns 1: atari_read starts at the first ARS
ProbeAccept ==
    /\ phase' = "read" /\ ars' = Exts /\ empty_ok' = TRUE
    /\ UNCHANGED <<total, r>>

ProbeReject == phase' = "rejected" /\ UNCHANGED <<ars, empty_ok, total, r>>

\* one pass of the while loop of atari_probe's XGM chain walk, on table t
ProbeStepOn(t) ==
    LET used == UsedData(t)
        i    == Min(used)
        hd   == dev[0].hd
    IN  CASE used = {} /\ empty_ok -> ProbeAccept
          [] used = {} \/ ~PartCorrect(t.part[i], U32Sub(hd, ars))
                       \/ t.part[i].id = "XGM" -> ProbeReject
          [] ProbeCount(total) > MAXIMUM_PARTS -> ProbeReject
          [] ~t.part[i + 1].used -> ProbeAccept
          [] ~PartCorrect(t.part[i + 1], LinkRoom(hd))
             \/ t.part[i + 1].id # "XGM" -> ProbeReject
          [] OTHER -> /\ ars' = Exts + t.part[i + 1].start
                      /\ empty_ok' = FALSE
                      /\ total' = ProbeCount(total)
                      /\ UNCHANGED <<phase, r>>

ProbeStep ==
    /\ phase = "probe"
    /\ \E t \in Readable(ars) : ReadSector(ars, t) /\ ProbeStepOn(t)
    /\ pvis' = pvis \cup {ars}
    /\ UNCHANGED <<parts, format, bsl, hdx_comp, has_been_read, rvis>>


ReadOpened(x) == phase' = "opened" /\ r' = x /\ UNCHANGED <<ars, empty_ok, total>>

ReadFail == phase' = "failed" /\ UNCHANGED <<ars, empty_ok, total, r>>

\* after atr_parse_add_rawpart of the data entry i of table t gave r2:
\* (*pnum)++, then the end of the chain or the link to the next ARS
ReadDataAdded(t, i, r2) ==
    CASE ~r2.ok -> ReadFail
      [] ~t.part[i + 1].used -> ReadOpened([r2 EXCEPT !.pnum = @ + 1])
      [] t.part[i + 1].id # "XGM" -> ReadFail
      [] OTHER -> /\ r' = [r2 EXCEPT !.pnum = @ + 1]
                  /\ ars' = ReadNextArs(Exts, ars, t.part[i + 1].start)
                  /\ empty_ok' = FALSE
                  /\ UNCHANGED <<phase, total>>

\* one pass of the while loop of atr_read_logicals, on table t; it checks
\* no entry for correctness and counts no hops
ReadStepOn(t) ==
    LET used == UsedData(t)
        i    == Min(used)
    IN  CASE used = {} /\ empty_ok -> ReadOpened(r)
          [] used = {} \/ t.part[i].id = "XGM" -> ReadFail
          [] OTHER -> ReadDataAdded(t, i, AddRaw(r, Logical, ars, r.pnum, t.part[i]))

ReadStep ==
    /\ phase = "read"
    /\ \E t \in Readable(ars) : ReadSector(ars, t) /\ ReadStepOn(t)
    /\ rvis' = rvis \cup {ars}
    /\ UNCHANGED <<parts, format, bsl, hdx_comp, has_been_read, pvis>>

ChainNext == ProbeStep \/ ReadStep

\* ped_disk_new runs to completion once called: the probe loop is never
\* starved, so its step is weakly fair.  The read loop needs no fairness
\* for its end: it only walks sectors the probe accepted, each once
\* (ReadWalksProbedChainOnce).
ChainSpec == ChainInit /\ [][ChainNext]_all_vars /\ WF_all_vars(ProbeStep)

-----------------------------------------------------------------------------
Phases == {"probe", "read", "rejected", "opened", "failed"}

ChainTypeOK ==
    /\ phase \in Phases
    /\ ars \in Nat /\ empty_ok \in BOOLEAN /\ total \in Nat
    /\ known \subseteq 0 .. DevLen - 1
    /\ pvis \subseteq known /\ rvis \subseteq known

\* atr_read_logicals trusts the chain to be the one atari_probe checked:
\* it only reads ARS sectors the probe walked and accepted, and none of
\* them twice, so its missing hop count never matters and it ends.
ReadWalksProbedChainOnce ==
    /\ rvis \subseteq pvis
    /\ phase = "read" => ars \notin rvis

\* Whatever the chain on the device, cycles included, atari_probe ends:
\* its hop count cuts a cycle off.
ProbeTerminates == <>(phase # "probe")

\* A layout atari_probe accepts is read by atari_read without error and
\* without a failed assertion ("We are sure that the layout looks
\* coherent", atari_read).
ProbedChainOpens == phase # "failed" /\ (phase = "opened" => r.assert)

====
