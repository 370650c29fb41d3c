---------------------------- MODULE MCUsbVolumes ----------------------------
(* A small instance of UsbVolumes: the persistent disk, one stick with two *)
(* partitions, two device names, two terminals.                            *)
EXTENDS UsbVolumes

CONSTANTS dp, ds, na, nb, t1, t2, nodisk, noname, nojob, novolume

MCDisk == {dp, ds}
MCParts == [d \in {dp, ds} |-> IF d = dp THEN {1} ELSE {1, 2}]
MCName == {na, nb}
MCTerminal == {t1, t2}

\* The persistent disk is ext4, the stick has a volume of either kind.
MCContents == {[d \in {dp, ds} |-> IF d = dp THEN <<"ext4", "none">>
                                   ELSE <<"ext4", "vfat">>]}
=============================================================================
