----------------------------- MODULE AtariCrash -----------------------------
(***************************************************************************)
(* Power loss during atari_write.  In XGM mode atari_write first writes    *)
(* the chain of ARS sectors (atr_write_logicals, one ped_device_write per  *)
(* ARS) and only then "commits" the root sector, and after it the BSL.  A  *)
(* crash after any ARS write leaves the chain, new up to that ARS and old  *)
(* after it, under the old root sector.                                    *)
(* The program then restarts: what it had in memory (the PedDisk, its      *)
(* format, BSL and flags) is gone, the device keeps what was written, and  *)
(* the next ped_disk_new reads it back.                                    *)
(***************************************************************************)
EXTENDS AtariLabel

\* the sectors atr_write_logicals writes, in its order: the ARS of logical
\* partition pnum at sector at, then the one just before partition pnum + 1
\* as long as that is logical (none of them when the write fails before)
RECURSIVE ArsFrom(_, _, _)
ArsFrom(P, pnum, at) ==
    <<at>> \o IF IsLogical(P, pnum + 1)
              THEN ArsFrom(P, pnum + 1, ByNum(P, pnum + 1).start - 1)
              ELSE <<>>

ArsOrder(P) == ArsFrom(P, FindFirstLog(P), ExtOf(P).start)

\* the device when the n-th ped_device_write of atr_write_logicals has
\* returned and nothing after it has run: what the write w leaves in the
\* first n ARS sectors, the old contents everywhere else (the root sector
\* and the BSL are only written after the chain)
ChainWritten(w, n) ==
    LET done == {ArsOrder(parts)[j] : j \in 1 .. n}
    IN  [x \in DOMAIN dev |-> IF x \in done THEN w.dev[x] ELSE dev[x]]

\* a crash while atari_write would succeed, after the n-th ARS of its chain
\* and before its root sector, then the restart of the program with no
\* disk opened
CrashTo(w) ==
    /\ w.ok /\ w.format = "XGM"
    /\ \E n \in 1 .. Len(ArsOrder(parts)) : dev' = ChainWritten(w, n)
    /\ parts' = {}
    /\ Reset

CrashInChain ==
    \E ans \in HdAnswers, ia \in IcdAnswers :
        CrashTo(WriteOutcome(parts, format, bsl, hdx_comp, has_been_read, dev, ans, ia))

\* an editing session on one device, mklabel included, exposed to such
\* crashes
CrashNext == FreshNext \/ CrashInChain

CrashSpec == Init /\ [][CrashNext]_vars

-----------------------------------------------------------------------------
\* The root sector is the commit point of atari_write ("Commit the root
\* sector..."): a crash before it never leaves a device that ped_disk_new
\* opens as a layout nobody committed.  It opens as the layout it held
\* before the write, as the new one, or (the damage reported) not at all.
RootWriteCommits ==
    [][CrashInChain =>
         Opened(dev') \in {Opened(dev), NoDisk,
                           [parts |-> parts, format |-> "XGM", bsl |-> bsl]}]_vars

====
