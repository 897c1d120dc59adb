---------------------------- MODULE MCAtariRemove ----------------------------
(***************************************************************************)
(* Editing sessions with removes on the seven-sector device of             *)
(* MCAtariLabel.  The layouts are bounded to MCMaxLive partitions at a     *)
(* time: enough for an extended partition with two logicals, or a         *)
(* primary, an extended one and a logical, so that removing partition 1,   *)
(* a logical in the middle of a chain or the last primary all occur.       *)
(***************************************************************************)
EXTENDS MCAtariLabel

MCMaxLive == 3

\* the device holds an empty table with parted's default one-sector BSL
MCRemoveBsls == {<<1, 1>>}

\* mkpart asked for one sector, or for everything from sector 2 (just after
\* the root and the BSL) to the end: an extended partition that holds two
\* logicals
MCRemoveIdeals == {<<x, x>> : x \in 0 .. MCDevLen - 1} \cup {<<2, MCDevLen - 1>>}

LiveBound == Cardinality(parts) <= MCMaxLive

=============================================================================
