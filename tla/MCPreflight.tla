----------------------------- MODULE MCPreflight -----------------------------
(***************************************************************************)
(* Preflight on a host with a system disk and a stick of one partition     *)
(* each, one loop device with a partition, and one mapped device.  Two of  *)
(* the sticks differ in nothing but the WWID; one is an empty reader.      *)
(***************************************************************************)
EXTENDS Preflight

CONSTANTS sda, sda1, sdb, sdb1, loop0, loop0p1, dm0

MCDiskNames == <<dm0, loop0, sda, sdb>>
MCDisks == {sda, sdb}
MCLoops == {loop0}
MCStacks == {dm0}
MCPartitions == {sda1, sdb1, loop0p1}
MCParent == [p \in MCPartitions |->
               IF p = sda1 THEN sda ELSE IF p = sdb1 THEN sdb ELSE loop0]
MCRemovable == {sdb}
MCMedia == {<<"media">>}

Stick(bytes, m, s, w) == [size |-> bytes, model |-> m, serial |-> s, wwid |-> w]
MCUnits == {Stick(3, "ultra", "0", "1"), Stick(3, "ultra", "0", "2"),
            Stick(2, "reader", Unset, Unset), Stick(0, "reader", Unset, Unset)}
MCUsedUnits == {Stick(3, "ultra", "0", "1")}
MCFixed == [n \in {sda, sda1, sdb1, loop0, loop0p1, dm0} |->
              IF n = sda THEN Stick(3, "nvme", "9", Unset)
              ELSE Stick(2, Unset, Unset, Unset)]
MCDirs == {<< >>, <<"media">>, <<"media", "x">>}
MCFormats == {"boot sector", "gzip", "zip"}
MCArchives == {"zip"}
MCPlain == {"boot sector"}
MCImageSizes == {3}
MCCooldownArgs == {Unset, 0, 1, 600, 601}
=============================================================================
