---------------------------- MODULE MCDataDisk ----------------------------
(* A small instance of DataDisk: two disks, and one setting of each way of *)
(* saving.                                                                 *)
EXTENDS DataDisk

CONSTANTS d1, d2, i1, n1, n2, a1

MCDisk == {d1, d2}
MCIp == {i1}
MCDns == {n1, n2}
MCName == {a1}
MCSetting == {"network", "keymap", "font"}
MCNetwork == {"network"}
MCKinds == [d \in MCDisk |->
    IF d = d1 THEN {"fresh", "ours"} ELSE {"fresh", "root", "other", "swapped"}]
MCModes == {"live", "disk"}
=============================================================================
