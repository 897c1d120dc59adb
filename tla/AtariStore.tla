----------------------------- MODULE AtariStore -----------------------------
(***************************************************************************)
(* What libparted promises of a partition table, whatever its format: a    *)
(* layout held in memory (the PedDisk) and the one the device holds, i.e.  *)
(* the layout ped_disk_new would open, or none.  Editing (mkpart, rm,     *)
(* mklabel, opening the device afresh) changes only the layout in memory; *)
(* a commit makes the device hold the layout in memory (its partitions    *)
(* and bad sector list, the format possibly recomputed); writing another  *)
(* label type over it leaves the device with none.                        *)
(*                                                                         *)
(* A step goes from the layouts mem (in memory) and disk (on the device)   *)
(* to mem2 and disk2.                                                      *)
(***************************************************************************)
CONSTANT
    NoLayout    \* what ped_disk_new makes of a device it opens nothing on

Edit(mem, disk, mem2, disk2) == disk2 = disk

Commit(mem, disk, mem2, disk2) ==
    /\ mem2.parts = mem.parts /\ mem2.bsl = mem.bsl
    /\ disk2 = mem2

Destroy(mem, disk, mem2, disk2) == disk2 = NoLayout /\ mem2 = mem

Next(mem, disk, mem2, disk2) ==
    \/ Edit(mem, disk, mem2, disk2)
    \/ Commit(mem, disk, mem2, disk2)
    \/ Destroy(mem, disk, mem2, disk2)

====
