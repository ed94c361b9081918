--------------------------- MODULE MCHostTopology ---------------------------
(***************************************************************************)
(* HostTopology on a stick of up to two partitions, another disk, and two  *)
(* stacked nodes of which one is a kpartx mapping.  Two media mount points *)
(* are nested in each other; the third is not under a whitelisted root.    *)
(***************************************************************************)
EXTENDS HostTopology

CONSTANTS sdb, sdb1, sdb2, sda1, dm0, dm1

MCPartitions == {sdb1, sdb2}
MCUpper == {dm0, dm1}
MCSynthetic == {dm0}
MCPaths == {<<"media">>, <<"media", "x">>, <<"mnt">>}
MCMedia == {<<"media">>}
\* The partitions are interchangeable.
MCSymmetry == Permutations(MCPartitions)
=============================================================================
