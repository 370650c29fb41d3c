----------------------------- MODULE UsbVolumes -----------------------------
(***************************************************************************)
(* Removable disks: the usbmount service, which every three seconds mounts *)
(* what has been plugged in and unmounts what is gone, and the rezzusb     *)
(* command, with which users mount, unmount, eject, format and check the   *)
(* same volumes.  The two share nothing but /proc/mounts and the device    *)
(* nodes; each looks at them and then acts.                                *)
(*                                                                         *)
(* A volume is a partition of whatever disk currently has a given device   *)
(* name.  The kernel keeps a name taken while anything is mounted from it, *)
(* so a disk that is pulled out while mounted comes back under another     *)
(* name.  One disk may be the persistent one that init mounted at          *)
(* /mnt/disk.                                                              *)
(***************************************************************************)
EXTENDS Naturals, FiniteSets

CONSTANTS
    Disk,       \* removable disks
    Parts,      \* the partitions of each disk
    Name,       \* device names (sda, sdb)
    Terminal,   \* where rezzusb is run
    Persist,    \* the disk that may be mounted at /mnt/disk
    Found,      \* the names under which init may have found it, or NoName
    Contents,   \* the file systems the disks may come with
    MkfsTypes,  \* the file systems users format with
    NoDisk, NoName, NoJob, NoVolume

Part == UNION {Parts[d] : d \in Disk}
Volume == Name \X Part
FileSystem == {"none", "vfat", "ext4"}

ASSUME UsbAssumption ==
    /\ Persist \in Disk /\ Found \subseteq Name \cup {NoName}
    /\ NoDisk \notin Disk /\ NoName \notin Name /\ NoVolume \notin Volume
    /\ Contents \subseteq [Disk -> [Part -> FileSystem]]
    /\ \A c, e \in Contents : c[Persist] = e[Persist]
    /\ MkfsTypes \subseteq FileSystem \ {"none"}

VARIABLES
    at,         \* the disk behind each device name
    system,     \* the name /proc/mounts shows at /mnt/disk
    mount,      \* the disk mounted at /mnt/usb/<name><part>
    fs,         \* the file system blkid finds on each partition
    ejected,    \* disks that obeyed an eject: no medium until plugged in again
    opened,     \* volumes with a program that has a file open there
    sweep,      \* the volume whose node usbmount has just found gone, or NoVolume
    pc, job,    \* the rezzusb command of each terminal
    kept,       \* volumes rezzusb reported as mounted and no user unmounted since
    pulled      \* has the persistent disk ever been pulled out

plugs == <<at, system, ejected, pulled>>
vols  == <<mount, fs, opened>>
cmds  == <<pc, job>>
vars  == <<plugs, vols, cmds, kept, sweep>>

\* A command in progress: the device name it was given, the partitions it
\* still has to deal with, whether one failed, and the volumes that have had
\* an open file ever since it began.
Jobs == [name : Name, todo : SUBSET Part, failed : BOOLEAN, since : SUBSET Volume]

\* Is something mounted at the volume's directory?  (mounted_at)
Mounted(v) == mount[v] # NoDisk

IsPersist(n) == n = system

\* What blkid reports for a volume: nothing without a node or a medium.
BlkType(v) ==
    LET d == at[v[1]]
    IN  IF d # NoDisk /\ d \notin ejected /\ v[2] \in Parts[d]
        THEN fs[d][v[2]] ELSE "none"

Targets(t) == {job[t].name} \X job[t].todo

\* Open exclusively by a tool: e2fsck locks the device, fsck.fat does not.
Locked(v) ==
    \E t \in Terminal : pc[t] = "fsck" /\ v \in Targets(t) /\ BlkType(v) = "ext4"

-----------------------------------------------------------------------------
(* The usbmount service                                                    *)

(* The two loops are one process: while a directory's umount is still to   *)
(* come (sweep), it neither mounts nor looks.  MountDev and Look are what   *)
(* it does to a volume once it comes by.                                   *)

\* Mutant of MountDev: the persistent disk is not recognised.
MountAny(v) ==
    /\ ~Mounted(v)
    /\ BlkType(v) # "none"
    /\ ~Locked(v)
    /\ mount' = [mount EXCEPT ![v] = at[v[1]]]
    /\ UNCHANGED <<plugs, fs, opened, cmds, kept, sweep>>

\* Mutant of MountDev: mounts only while nothing at all is mounted.
MountFirst(v) ==
    /\ \A w \in Volume : ~Mounted(w)
    /\ ~IsPersist(v[1])
    /\ BlkType(v) # "none"
    /\ ~Locked(v)
    /\ mount' = [mount EXCEPT ![v] = at[v[1]]]
    /\ UNCHANGED <<plugs, fs, opened, cmds, kept, sweep>>

\* mount_dev: mount(2) itself settles a race with another mount.
MountDev(v) ==
    /\ ~IsPersist(v[1])
    /\ ~Mounted(v)
    /\ BlkType(v) # "none"
    /\ ~Locked(v)
    /\ mount' = [mount EXCEPT ![v] = at[v[1]]]
    /\ UNCHANGED <<plugs, fs, opened, cmds, kept, sweep>>

AutoMount(v) == sweep = NoVolume /\ MountDev(v)

\* Mutant of Look: every directory is cleaned up, node or no node.
LookAnyway(v) ==
    /\ Mounted(v)
    /\ sweep' = v
    /\ UNCHANGED <<plugs, vols, cmds, kept>>

\* Mutant of Look: looks for the node instead of for its absence.
LookForNode(v) ==
    /\ Mounted(v)
    /\ at[v[1]] \notin {NoDisk, mount[v]}
    /\ sweep' = v
    /\ UNCHANGED <<plugs, vols, cmds, kept>>

\* The second loop finds a directory under /mnt/usb whose device node is gone.
Look(v) ==
    /\ Mounted(v)
    /\ at[v[1]] = NoDisk
    /\ sweep' = v
    /\ UNCHANGED <<plugs, vols, cmds, kept>>

SweepLook(v) == sweep = NoVolume /\ Look(v)

\* Mutant of Sweep: a lazy unmount, files open or not.
SweepLazily(v) ==
    /\ sweep = v
    /\ mount' = [mount EXCEPT ![v] = NoDisk]
    /\ sweep' = NoVolume
    /\ UNCHANGED <<plugs, fs, opened, cmds, kept>>

\* It unmounts the directory, without another look at the node: whatever is
\* mounted there by now, unless it is busy.
Sweep(v) ==
    /\ sweep = v
    /\ mount' = IF v \in opened THEN mount ELSE [mount EXCEPT ![v] = NoDisk]
    /\ sweep' = NoVolume
    /\ UNCHANGED <<plugs, fs, opened, cmds, kept>>

-----------------------------------------------------------------------------
(* rezzusb                                                                 *)

Enter(t, where, j) ==
    /\ pc[t] = "idle"
    /\ pc' = [pc EXCEPT ![t] = where]
    /\ job' = [job EXCEPT ![t] = j]

Leave(t) ==
    /\ pc' = [pc EXCEPT ![t] = "idle"]
    /\ job' = [job EXCEPT ![t] = NoJob]

\* cmd_mount
Mount(t, v) ==
    /\ pc[t] = "idle"
    /\ ~IsPersist(v[1])
    /\ ~Mounted(v)
    /\ BlkType(v) # "none"
    /\ ~Locked(v)
    /\ mount' = [mount EXCEPT ![v] = at[v[1]]]
    /\ kept' = kept \cup {v}
    /\ UNCHANGED <<plugs, fs, opened, cmds, sweep>>

\* cmd_umount; umount(2) refuses a busy volume.
Umount(t, v) ==
    /\ pc[t] = "idle"
    /\ Mounted(v)
    /\ v \notin opened
    /\ mount' = [mount EXCEPT ![v] = NoDisk]
    /\ kept' = kept \ {v}
    /\ UNCHANGED <<plugs, fs, opened, cmds, sweep>>

\* cmd_eject up to its loop: list_parts is expanded once.
Eject(t, n) ==
    /\ at[n] # NoDisk
    /\ ~IsPersist(n)
    /\ Enter(t, "eject", [name |-> n, todo |-> Parts[at[n]], failed |-> FALSE,
                          since |-> opened \cap ({n} \X Parts[at[n]])])
    /\ UNCHANGED <<plugs, vols, kept, sweep>>

\* Mutant of EjectPart: a busy partition does not stop the command.
EjectPartAnyway(t, p) ==
    LET v == <<job[t].name, p>>
    IN  /\ pc[t] = "eject" /\ p \in job[t].todo
        /\ mount' = IF v \in opened THEN mount ELSE [mount EXCEPT ![v] = NoDisk]
        /\ kept' = IF v \in opened THEN kept ELSE kept \ {v}
        /\ job' = [job EXCEPT ![t].todo = @ \ {p}]
        /\ UNCHANGED <<plugs, fs, opened, pc, sweep>>

\* One round of cmd_eject's loop.
EjectPart(t, p) ==
    LET v == <<job[t].name, p>>
        busy == Mounted(v) /\ v \in opened
    IN  /\ pc[t] = "eject" /\ p \in job[t].todo
        /\ mount' = IF busy THEN mount ELSE [mount EXCEPT ![v] = NoDisk]
        /\ kept' = IF busy THEN kept ELSE kept \ {v}
        /\ job' = [job EXCEPT ![t] = [job[t] EXCEPT !.todo = @ \ {p}, !.failed = @ \/ busy]]
        /\ UNCHANGED <<plugs, fs, opened, pc, sweep>>

\* After the loop: die, or go on to sync.
EjectJudge(t) ==
    /\ pc[t] = "eject" /\ job[t].todo = {}
    /\ IF job[t].failed
       THEN Leave(t)
       ELSE pc' = [pc EXCEPT ![t] = "sync"] /\ UNCHANGED job
    /\ UNCHANGED <<plugs, vols, kept, sweep>>

\* sync, busybox eject (which the disk may or may not obey; its failure is
\* ignored), "Safe to unplug".
EjectDone(t) ==
    LET n == job[t].name
    IN  /\ pc[t] = "sync"
        /\ ejected' \in {ejected, ejected \cup ({at[n]} \ {NoDisk})}
        /\ Leave(t)
        /\ UNCHANGED <<at, system, pulled, vols, kept, sweep>>

\* cmd_format up to its question.
Format(t, v) ==
    /\ at[v[1]] # NoDisk /\ v[2] \in Parts[at[v[1]]]
    /\ ~IsPersist(v[1])
    /\ ~Mounted(v)
    /\ Enter(t, "prompt", [name |-> v[1], todo |-> {v[2]}, failed |-> FALSE,
                           since |-> {}])
    /\ UNCHANGED <<plugs, vols, kept, sweep>>

\* "yes": mkfs on whatever has the name by now; the mkfs programs refuse a
\* mounted or locked device.  Any other answer aborts.
Answer(t) ==
    LET d == at[job[t].name]
    IN  /\ pc[t] = "prompt"
        /\ \/ UNCHANGED fs
           \/ \E v \in Targets(t), f \in MkfsTypes :
                /\ d # NoDisk /\ d \notin ejected /\ v[2] \in Parts[d]
                /\ ~Mounted(v) /\ ~Locked(v)
                /\ fs' = [fs EXCEPT ![d][v[2]] = f]
        /\ Leave(t)
        /\ UNCHANGED <<plugs, mount, opened, kept, sweep>>

\* cmd_fsck up to the start of the checker, and its end.
Fsck(t, v) ==
    /\ ~IsPersist(v[1])
    /\ ~Mounted(v)
    /\ BlkType(v) # "none"
    /\ ~Locked(v)
    /\ Enter(t, "fsck", [name |-> v[1], todo |-> {v[2]}, failed |-> FALSE,
                         since |-> {}])
    /\ UNCHANGED <<plugs, vols, kept, sweep>>

FsckDone(t) ==
    /\ pc[t] = "fsck"
    /\ Leave(t)
    /\ UNCHANGED <<plugs, vols, kept, sweep>>

-----------------------------------------------------------------------------
(* The world                                                               *)

\* The kernel gives a disk a name nothing refers to any more.
Plug(d, n) ==
    /\ \A m \in Name : at[m] # d
    /\ at[n] = NoDisk /\ n # system
    /\ \A p \in Part : ~Mounted(<<n, p>>)
    /\ at' = [at EXCEPT ![n] = d]
    /\ ejected' = ejected \ {d}
    /\ UNCHANGED <<system, pulled, vols, cmds, kept, sweep>>

Unplug(n) ==
    /\ at[n] # NoDisk
    /\ at' = [at EXCEPT ![n] = NoDisk]
    /\ pulled' = (pulled \/ at[n] = Persist)
    /\ kept' = kept \ ({n} \X Part)
    /\ UNCHANGED <<system, ejected, vols, cmds, sweep>>

\* A program opens a file on a mounted volume, or its last one is closed.
OpenFile(v) ==
    /\ Mounted(v) /\ v \notin opened
    /\ opened' = opened \cup {v}
    /\ UNCHANGED <<plugs, mount, fs, cmds, kept, sweep>>

CloseFile(v) ==
    /\ v \in opened
    /\ opened' = opened \ {v}
    /\ job' = [t \in Terminal |-> IF pc[t] = "idle" THEN job[t]
                                  ELSE [job[t] EXCEPT !.since = @ \ {v}]]
    /\ UNCHANGED <<plugs, mount, fs, pc, kept, sweep>>

-----------------------------------------------------------------------------

\* init has or has not found the persistent disk; nothing else is mounted.
Init ==
    /\ system \in Found
    /\ at = [n \in Name |-> IF n = system THEN Persist ELSE NoDisk]
    /\ mount = [v \in Volume |-> NoDisk]
    /\ fs \in Contents
    /\ ejected = {} /\ opened = {}
    /\ pc = [t \in Terminal |-> "idle"]
    /\ job = [t \in Terminal |-> NoJob]
    /\ kept = {} /\ pulled = FALSE /\ sweep = NoVolume

Usbmount == \E v \in Volume : AutoMount(v) \/ SweepLook(v) \/ Sweep(v)

Rezzusb(t) ==
    \/ \E v \in Volume : Mount(t, v) \/ Umount(t, v) \/ Format(t, v) \/ Fsck(t, v)
    \/ \E n \in Name : Eject(t, n)
    \/ \E p \in Part : EjectPart(t, p)
    \/ EjectJudge(t) \/ EjectDone(t) \/ Answer(t) \/ FsckDone(t)

World ==
    \/ \E d \in Disk, n \in Name : Plug(d, n)
    \/ \E n \in Name : Unplug(n)
    \/ \E v \in Volume : OpenFile(v) \/ CloseFile(v)

Next == Usbmount \/ (\E t \in Terminal : Rezzusb(t)) \/ World

Spec == Init /\ [][Next]_vars

\* A volume that stays due for mounting or for cleaning up is attended to, however
\* busy the service is with others: the loops come by every device and every
\* directory each round.  Nothing is assumed of users and programs.
FairSpec ==
    /\ Spec
    /\ \A v \in Volume : WF_vars(MountDev(v) \/ Look(v))
    /\ WF_vars(\E v \in Volume : Sweep(v))

-----------------------------------------------------------------------------
(* Properties                                                              *)

\* The shape of the state; only a mounted volume has open files.
TypeOK ==
    /\ at \in [Name -> Disk \cup {NoDisk}]
    /\ system \in Name \cup {NoName}
    /\ mount \in [Volume -> Disk \cup {NoDisk}]
    /\ fs \in [Disk -> [Part -> FileSystem]]
    /\ ejected \subseteq Disk
    /\ opened \subseteq {v \in Volume : Mounted(v)}
    /\ pc \in [Terminal -> {"idle", "eject", "sync", "prompt", "fsck"}]
    /\ job \in [Terminal -> Jobs \cup {NoJob}]
    /\ \A t \in Terminal : pc[t] # "idle" => job[t] \in Jobs
    /\ kept \subseteq Volume /\ pulled \in BOOLEAN
    /\ sweep \in Volume \cup {NoVolume}

\* The service's clean-up never turns to a volume that rezzusb has reported as
\* mounted.  Only one that it found gone before the report can be lost: unmounted
\* by a user, plugged in and mounted again between the service's look at the node
\* and its umount.
ReportedMountsStay ==
    [][\A v \in kept \cap kept' :
        /\ sweep' = v => sweep = v
        /\ Mounted(v) => Mounted(v)' \/ sweep = v]_vars

\* Nothing of the persistent disk is mounted a second time, formatted or
\* ejected by either tool, for as long as it has not been pulled out (a disk
\* pulled out while mounted returns under a name the tools do not know).
PersistentLeftAlone ==
    system # NoName /\ ~pulled =>
        /\ \A v \in Volume : mount[v] # Persist
        /\ \E c \in Contents : fs[Persist] = c[Persist]
        /\ \A t \in Terminal : pc[t] # "idle" => at[job[t].name] # Persist
        /\ Persist \notin ejected

\* When eject has been through its partitions without a failure, no program
\* still has a file open that it had open when the command began, although
\* the service may have mounted the first partitions again meanwhile.
EjectReleases == \A t \in Terminal : pc[t] = "sync" => job[t].since = {}

\* A volume whose disk was pulled out is unmounted, unless a program sits on
\* it: only then can its device name be used again.
GoneIsReleased ==
    \A v \in Volume :
        at[v[1]] = NoDisk /\ Mounted(v) ~> ~Mounted(v) \/ v \in opened

\* A recognised volume that has been plugged in gets mounted, if it stays, its
\* medium is not ejected and nobody is checking it.
PluggedIsMounted ==
    \A v \in Volume :
        BlkType(v) # "none" /\ ~IsPersist(v[1])
            ~> Mounted(v) \/ BlkType(v) = "none" \/ Locked(v)

\* "Safe to unplug /dev/<name>": at the moment eject says so, nothing of the
\* disk is mounted.
SafeToUnplug ==
    \A t \in Terminal : pc[t] = "sync" =>
        \A p \in Part : ~Mounted(<<job[t].name, p>>)

-----------------------------------------------------------------------------
(* The inductive invariant behind the promises                             *)

\* A reported mount has its node, so the service's second loop passes it over.
KeptHere == \A v \in kept : at[v[1]] # NoDisk

\* A persistent disk that was never pulled has its one name, and no command was
\* given that name.
Settled ==
    system # NoName /\ ~pulled =>
        /\ \A n \in Name : at[n] = Persist <=> n = system
        /\ \A t \in Terminal : pc[t] # "idle" => job[t].name # system
        /\ \A v \in Volume : mount[v] # Persist
        /\ \E c \in Contents : fs[Persist] = c[Persist]
        /\ Persist \notin ejected

\* What has been open ever since is still open, and ahead of an eject that has
\* not failed.
Draining ==
    \A t \in Terminal :
        /\ pc[t] = "eject" => job[t].since \subseteq opened
        /\ pc[t] = "eject" => job[t].failed \/ job[t].since \subseteq Targets(t)
        /\ pc[t] = "sync" => job[t].since = {}

IInv == TypeOK /\ KeptHere /\ Settled /\ Draining
=============================================================================
