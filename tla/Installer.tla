------------------------------ MODULE Installer ------------------------------
(***************************************************************************)
(* The backend script of rezzinstall, from its checks to its last message, *)
(* on a disk that others use at the same time: the usbmount service and    *)
(* users mount its partitions between any two commands of the script, any  *)
(* command may fail, the window may end the script with SIGTERM, and the   *)
(* power may go.                                                           *)
(*                                                                         *)
(* What makes this hard is that the partition table exists twice, on the   *)
(* disk and in the kernel, and the kernel does not read it again while any *)
(* partition of the disk is mounted.  A partition is therefore a pair of   *)
(* a table ("old" or "new") and a number; Same are the numbers for which   *)
(* both tables happen to describe the same sectors.                        *)
(***************************************************************************)
EXTENDS Naturals, FiniteSets

CONSTANTS
    Firmwares,   \* a subset of {"bios", "uefi"}
    OldTables,   \* the sets of partition numbers the disk may have had
    Leftovers,   \* what may be found where a table says there is a partition
    MaxRuns      \* bound on the attempts

Number == 1 .. 3

ASSUME InstallerAssumption ==
    /\ Firmwares \subseteq {"bios", "uefi"}
    /\ OldTables \subseteq SUBSET Number
    /\ Leftovers \subseteq {"none", "user"}
    /\ MaxRuns \in Nat \ {0}

VARIABLES
    fw,        \* how the machine booted
    precious,  \* is /mnt/disk on this disk
    old, same, \* partitions it had, and those the new table repeats
    table,     \* the table on the disk: "old", "zero" or "new"
    kview,     \* the table the running kernel uses: "old" or "new"
    fs,        \* what each partition holds
    dirty,     \* mounted partitions with writes that only memory knows of
    ours,      \* partitions mounted under TARGET_MOUNT
    others,    \* partitions mounted elsewhere
    held,      \* ours that umount refuses: in use by programs or a forgotten cp
    busy,      \* others that umount refuses
    step,      \* the command the script has reached
    verdict,   \* how this attempt ended
    runs       \* attempts so far

disk   == <<table, kview, fs, dirty>>
kind   == <<fw, precious, old, same>>
mounts == <<ours, others, held, busy>>
script == <<step, verdict, runs>>
vars   == <<kind, disk, mounts, script>>

Partition == {"old", "new"} \X Number

\* What a partition may hold: nothing blkid knows, somebody's file system, and
\* the stages of the new system.
Contents == {"none", "user", "blank", "copied", "configured", "bootable"}

RootNo == IF fw = "uefi" THEN 2 ELSE 1
DataNo == IF fw = "uefi" THEN 3 ELSE 2
EspNo  == 1

NewNumbers == IF fw = "uefi" THEN {1, 2, 3} ELSE {1, 2}

\* The partitions for which there is a device node.
Visible == IF kview = "old" THEN old ELSE NewNumbers

Mounted == ours \cup others

\* Both names of the sectors behind a device node.
Sectors(n) == {<<kview, n>>} \cup (IF n \in same THEN {"old", "new"} \X {n} ELSE {})

Holds(n) == fs[<<kview, n>>]

Put(n, content) ==
    fs' = [p \in Partition |-> IF p \in Sectors(n) THEN content ELSE fs[p]]

-----------------------------------------------------------------------------
(* How the script moves                                                    *)

At(s) == step = s

\* The next command.
Go(s) == step' = s /\ UNCHANGED <<verdict, runs>>

\* Unmounting a file system for the last time writes it back.
Unmounted == dirty' = dirty \cap (ours' \cup others')

\* The ESP and then the root partition are unmounted, each unless it is in use;
\* the root partition is as long as the ESP stays mounted below it.
CleanUp ==
    /\ ours' = IF EspNo \in held THEN ours ELSE ours \cap held
    /\ Unmounted

\* die, or any command that fails under set -e; then the EXIT trap.
Die ==
    /\ step' = "exited" /\ verdict' = "failed"
    /\ UNCHANGED <<kind, table, kview, fs, runs, others, held, busy>>
    /\ CleanUp

-----------------------------------------------------------------------------
(* The script                                                              *)

\* Mutant of Check: /mnt/disk may be anywhere.
CheckLittle ==
    /\ At("check")
    /\ Go("unmount") /\ UNCHANGED <<kind, disk, mounts>>

\* Identity, configuration, tools, /mnt/disk elsewhere, sizes.
Check ==
    /\ At("check")
    /\ \/ Die
       \/ ~precious /\ Go("unmount") /\ UNCHANGED <<kind, disk, mounts>>

\* [1/9]: every failure of umount -f is ignored.
Unmount ==
    /\ At("unmount")
    /\ others' = others \cap busy
    /\ CleanUp
    /\ Go("wipe")
    /\ UNCHANGED <<kind, table, kview, fs, held, busy>>

\* [2/9]: dd over the first sectors, whose failure is ignored,
Wipe ==
    /\ At("wipe")
    /\ table' \in {"zero", table}
    /\ Go("partition")
    /\ UNCHANGED <<kind, kview, fs, dirty, mounts>>

\* then sfdisk -f, which succeeds although the kernel keeps its old table,
Partitioning ==
    /\ At("partition")
    /\ \/ Die
       \/ /\ table' = "new"
          /\ kview' = IF Mounted = {} THEN "new" ELSE kview
          /\ Go("reread")
          /\ UNCHANGED <<kind, fs, dirty, mounts>>

\* Mutant of Reread: the kernel can always be told.
RereadForced ==
    /\ At("reread")
    /\ kview' = "new"
    /\ Go("ready")
    /\ UNCHANGED <<kind, table, fs, dirty, mounts>>

\* then blockdev --rereadpt, whose failure is ignored,
Reread ==
    /\ At("reread")
    /\ kview' = IF Mounted = {} THEN "new" ELSE kview
    /\ Go("ready")
    /\ UNCHANGED <<kind, table, fs, dirty, mounts>>

\* Mutant of WaitReady: waits without counting.
WaitForever ==
    /\ At("ready")
    /\ NewNumbers \subseteq Visible
    /\ Go("mkroot") /\ UNCHANGED <<kind, disk, mounts>>

\* then ten seconds at most for the device nodes.
WaitReady ==
    /\ At("ready")
    /\ IF NewNumbers \subseteq Visible
       THEN Go("mkroot") /\ UNCHANGED <<kind, disk, mounts>>
       ELSE Die

\* Mutant of Mkfs: forced twice, on a mounted partition too.
MkfsForced(s, n, next) ==
    /\ At(s)
    /\ \/ Die
       \/ /\ Put(n, "blank")
          /\ Go(next)
          /\ UNCHANGED <<kind, table, kview, dirty, mounts>>

\* [3/9]: mkfs refuses a mounted partition and writes through to the disk.
Mkfs(s, n, next) ==
    /\ At(s)
    /\ \/ Die
       \/ /\ n \notin Mounted
          /\ Put(n, "blank")
          /\ Go(next)
          /\ UNCHANGED <<kind, table, kview, dirty, mounts>>

\* [4/9]: a partition somebody else has mounted can be mounted once more.
MountTarget(s, n, next) ==
    /\ At(s)
    /\ \/ Die
       \/ /\ ours' = ours \cup {n}
          /\ Go(next)
          /\ UNCHANGED <<kind, disk, others, held, busy>>

\* [5/9], [6/9], [7/9] and the seeding of [8/9]: files appear on a mounted
\* partition, in memory first.
Fill(s, n, content, next) ==
    /\ At(s)
    /\ \/ Die
       \/ /\ Put(n, content)
          /\ dirty' = dirty \cup {n}
          /\ Go(next)
          /\ UNCHANGED <<kind, table, kview, mounts>>

\* [9/9]: looks at files of the mounted root (and of the ESP).
Verify ==
    /\ At("verify")
    /\ \/ Die
       \/ /\ Holds(RootNo) = "bootable"
          /\ fw = "uefi" => Holds(EspNo) = "bootable"
          /\ Go("sync") /\ UNCHANGED <<kind, disk, mounts>>

\* Mutant of Sync: left to umount.
SyncNothing ==
    /\ At("sync")
    /\ Go("release")
    /\ UNCHANGED <<kind, disk, mounts>>

Sync ==
    /\ At("sync")
    /\ dirty' = {}
    /\ Go("release")
    /\ UNCHANGED <<kind, table, kview, fs, mounts>>

\* The last unmounts, and the trap's after them; "RezzOS has been successfully
\* installed!", whether they succeed or not.
Release ==
    /\ At("release")
    /\ step' = "exited" /\ verdict' = "ok"
    /\ UNCHANGED <<kind, table, kview, fs, others, held, busy, runs>>
    /\ CleanUp

Script ==
    \/ Check \/ Unmount \/ Wipe \/ Partitioning \/ Reread \/ WaitReady
    \/ Mkfs("mkroot", RootNo, "mkdata")
    \/ Mkfs("mkdata", DataNo, IF fw = "uefi" THEN "mkesp" ELSE "mount")
    \/ Mkfs("mkesp", EspNo, "mount")
    \/ MountTarget("mount", RootNo, IF fw = "uefi" THEN "mountesp" ELSE "copy")
    \/ MountTarget("mountesp", EspNo, "copy")
    \/ Fill("copy", RootNo, "copied", "configure")
    \/ Fill("configure", RootNo, "configured",
            IF fw = "uefi" THEN "grubesp" ELSE "grub")
    \/ Fill("grubesp", EspNo, "bootable", "grub")
    \/ Fill("grub", RootNo, "bootable", "seed")
    \/ Fill("seed", RootNo, "bootable", "verify")
    \/ Verify \/ Sync \/ Release

-----------------------------------------------------------------------------
(* Everybody else                                                          *)

Running == step \notin {"exited", "off"}

\* The window was closed: SIGTERM ends the shell, not the command it waits
\* for, and runs no trap.  A short command that outlives the shell ends before
\* anything else happens; a cp goes on, and is one of those who hold the target.
Terminate ==
    /\ Running
    /\ step' = "exited" /\ verdict' = "killed"
    /\ UNCHANGED <<kind, disk, mounts, runs>>

\* A program, a shell or a forgotten cp uses a file system under TARGET_MOUNT, or
\* no longer does.
Hold(n) ==
    /\ n \in ours
    /\ held' \in {held \cup {n}, held \ {n}}
    /\ UNCHANGED <<kind, disk, ours, others, busy, script>>

\* rezzinstall is started again, with the same answers.
Again ==
    /\ At("exited") /\ runs < MaxRuns
    /\ step' = "check" /\ verdict' = "none" /\ runs' = runs + 1
    /\ UNCHANGED <<kind, disk, mounts>>

\* The service (or a user) mounts a partition that has a file system and is
\* not mounted yet; programs use it; it is unmounted.
MountElsewhere(n) ==
    /\ step # "off"
    /\ n \in Visible \ Mounted
    /\ Holds(n) # "none"
    /\ others' = others \cup {n}
    /\ UNCHANGED <<kind, disk, ours, held, busy, script>>

UnmountElsewhere(n) ==
    /\ n \in others \ busy
    /\ others' = others \ {n}
    /\ UNCHANGED <<kind, table, kview, fs, ours, held, busy, script>>
    /\ Unmounted

Use(n) ==
    /\ n \in others
    /\ busy' \in {busy \cup {n}, busy \ {n}}
    /\ UNCHANGED <<kind, disk, ours, others, held, script>>

\* What only memory knew of may be lost; the disk waits for its next boot.
PowerLoss ==
    /\ step # "off"
    /\ step' = "off"
    /\ \E lost \in SUBSET dirty :
         fs' = [p \in Partition |-> IF \E n \in lost : p \in Sectors(n)
                                    THEN "blank" ELSE fs[p]]
    /\ dirty' = {} /\ ours' = {} /\ others' = {}
    /\ held' = {} /\ busy' = {}
    /\ UNCHANGED <<kind, table, kview, verdict, runs>>

-----------------------------------------------------------------------------

Init ==
    /\ fw \in Firmwares /\ precious \in BOOLEAN
    /\ old \in OldTables /\ same \in SUBSET (old \cap NewNumbers)
    /\ table = "old" /\ kview = "old"
    /\ fs \in [Partition -> {"none", "user"}]
    /\ \A n \in Number :
         /\ fs[<<"old", n>>] \in (IF n \in old THEN Leftovers ELSE {"none"})
         /\ fs[<<"new", n>>] \in (IF n \in NewNumbers THEN Leftovers ELSE {"none"})
         /\ n \in same => fs[<<"old", n>>] = fs[<<"new", n>>]
    /\ dirty = {} /\ ours = {} /\ others = {} /\ held = {} /\ busy = {}
    /\ step = "check" /\ verdict = "none" /\ runs = 1

Environment ==
    \/ Terminate \/ Again \/ PowerLoss
    \/ \E n \in Number : MountElsewhere(n) \/ UnmountElsewhere(n) \/ Use(n) \/ Hold(n)

Next == Script \/ Environment

Spec == Init /\ [][Next]_vars

\* Every command of the script ends, one way or the other.
FairSpec == Spec /\ WF_vars(Script)

-----------------------------------------------------------------------------
(* Properties                                                              *)

\* The shape of the state: what is mounted is visible to the kernel.
TypeOK ==
    /\ fw \in Firmwares /\ precious \in BOOLEAN
    /\ old \in OldTables /\ same \subseteq old \cap NewNumbers
    /\ table \in {"old", "zero", "new"} /\ kview \in {"old", "new"}
    /\ fs \in [Partition -> Contents] /\ dirty \subseteq Mounted
    /\ ours \subseteq Visible /\ others \subseteq Visible 
    /\ busy \subseteq others /\ held \subseteq ours
    /\ step \in {"check", "unmount", "wipe", "partition", "reread", "ready",
                 "mkroot", "mkdata", "mkesp", "mount", "mountesp", "copy",
                 "configure", "grubesp", "grub", "seed", "verify", "sync",
                 "release", "exited", "off"}
    /\ verdict \in {"none", "ok", "failed", "killed"}
    /\ runs \in 1 .. MaxRuns

\* The new system as one of the two tables describes it.
SystemUnder(view) ==
    /\ fs[<<view, RootNo>>] = "bootable"
    /\ fw = "uefi" => fs[<<view, EspNo>>] = "bootable"

\* The disk as DiskFate sees it.  What lies where the old table said counts as
\* a misplaced system as long as the kernel goes by the old table.
Fate ==
    CASE table = "old" -> "intact"
      [] table = "new" /\ SystemUnder("new") -> "installed"
      [] /\ table = "new" /\ ~SystemUnder("new")
         /\ kview = "old" /\ SystemUnder("old") -> "misplaced"
      [] OTHER -> "torn"

Abstract == INSTANCE DiskFate WITH fate <- Fate

\* The script keeps the promise of DiskFate through failures, SIGTERM, other
\* people's mounts, repeated attempts and power cuts.
KeepsItsPromise == Abstract!Spec

\* No attempt builds on what an earlier one left mounted: the trap and step 1 may
\* not get rid of it, and mounting it again would succeed.  The target mounts lie
\* on nothing else, and on file systems that this attempt has just made.
TargetIsFresh ==
    /\ At("mount") => ours = {} /\ Holds(RootNo) = "blank"
    /\ At("mountesp") => ours = {RootNo} /\ Holds(EspNo) = "blank"

\* Every attempt ends: no wait of the script is unbounded.
AttemptsEnd == Running ~> ~Running

\* "RezzOS has been successfully installed!": the next boot, which reads the
\* table on the disk, finds the system.
SuccessBoots == verdict = "ok" => table = "new" /\ SystemUnder("new")

-----------------------------------------------------------------------------
(* The inductive invariant behind the promise                              *)

Early    == {"check", "unmount", "wipe", "partition", "exited", "off"}
Unsure   == Early \cup {"reread", "ready"}
Unfilled == Unsure \cup {"mkroot", "mkdata", "mkesp", "mount"}

\* Two names of the same sectors agree, and what only the new table describes
\* is untouched as long as the kernel goes by the old one.
TwoViews ==
    /\ \A n \in same : fs[<<"old", n>>] = fs[<<"new", n>>]
    /\ kview = "old" =>
         \A n \in Number \ same : fs[<<"new", n>>] \in {"none", "user"}

\* What the script can rely on by the time it reaches a step.
Reached ==
    /\ Running => verdict = "none"
    /\ At("exited") => verdict # "none"
    /\ Running /\ ~At("check") => ~precious
    /\ step \notin Early => table = "new"
    /\ step \notin Unsure => NewNumbers \subseteq Visible
    /\ step \notin Unfilled => RootNo \in ours
    /\ step \notin Unfilled \cup {"mountesp"} /\ fw = "uefi" => EspNo \in ours
    /\ step \in {"mkesp", "mountesp", "grubesp"} => fw = "uefi"
    /\ step \in {"sync", "release"} => SystemUnder(kview)
    /\ At("release") \/ verdict = "ok" => dirty = {}

\* As long as the disk has its old table, the script has written nothing else.
Pristine ==
    table = "old" => dirty = {} /\ \A p \in Partition : fs[p] \in {"none", "user"}

\* Under TARGET_MOUNT the ESP lies on the root partition; what mkfs has made stays
\* as it is, and unmounted by the script, until its turn to be mounted.
Made ==
    /\ ours \subseteq {RootNo, EspNo} /\ (ours # {} => RootNo \in ours)
    /\ step \in {"mkdata", "mkesp", "mount"} => RootNo \notin ours /\ Holds(RootNo) = "blank"
    /\ At("mount") /\ fw = "uefi" => Holds(EspNo) = "blank"
    /\ At("mountesp") => ours = {RootNo} /\ Holds(EspNo) = "blank"

IInv == TypeOK /\ TwoViews /\ Reached /\ Pristine /\ Made
=============================================================================
