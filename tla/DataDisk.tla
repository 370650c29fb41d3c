------------------------------ MODULE DataDisk ------------------------------
(***************************************************************************)
(* The data disk at /mnt/disk: how init recognises it, what it takes from  *)
(* it, and how the tools save settings and swap on it.                     *)
(*                                                                         *)
(* A live system has its root in RAM: of the disks attached, init mounts   *)
(* the first that looks like one of RezzOS's, and copies what is saved on  *)
(* it into the fresh /etc.  An installed system keeps /etc on its root     *)
(* partition, mounts its own data partition through fstab, and takes only  *)
(* the network and the swap file from there.                               *)
(*                                                                         *)
(* A tool changes a setting in two steps, the running system and /etc      *)
(* first, the data disk second.  Either write may fail, which no tool looks *)
(* at; a tool may be killed between them, and a power loss takes what was   *)
(* not yet written back.                                                    *)
(***************************************************************************)
EXTENDS SwapFile, Naturals

CONSTANTS
    Setting,    \* settings considered, a subset of the five below
    Ip, Dns,    \* addresses for a static network and for name servers
    Name,       \* values of the other settings
    Modes,      \* boot modes considered, a subset of {"live", "disk"}
    Kinds,      \* what each disk may be at first: [Disk -> SUBSET DiskKinds]
    OwnDisk,    \* the data partition of an installed system
    Root,       \* the root partition of an installed system
    Default,    \* the value that needs no file; for the network, DHCP
    MaxCommands,\* bound: commands given that change what is on a disk
    Absent,     \* there is no file
    Blank,      \* there is a file that says nothing
    Nothing     \* nothing was said

\* A fresh disk; one of RezzOS's; another system's root with a swap file; and
\* somebody's own files: with nothing init looks for, with a swap file, or with
\* a directory packages of their own.
DiskKinds == {"fresh", "ours", "root", "other", "swapped", "packed"}

FromEtc == {"hostname", "timezone", "keymap"}

Network == [ip : Ip, dns : Dns]
Value == Network \cup Name
ValueOf(s) == IF s = "network" THEN Network ELSE Name
Content(s) == ValueOf(s) \cup {Absent, Blank}
Place == Disk \cup {Root}

ASSUME DataDiskAssumption ==
    /\ Setting \subseteq FromEtc \cup {"network", "font"}
    /\ Modes \subseteq {"live", "disk"}
    /\ MaxCommands \in Nat
    /\ Kinds \in [Disk -> SUBSET DiskKinds]
    /\ OwnDisk \in Disk /\ Root \notin Disk \cup {NoDisk}
    /\ {Default, Absent, Blank, Nothing} \cap Value = {}
    /\ Absent # Blank /\ Default \notin {Absent, Blank} /\ Nothing # Default

VARIABLES
    mode,       \* how this machine boots
    origin,     \* history: what each disk was at first
    power,      \* "on", "off", or "lost": off with writes pending
    attached,   \* disks plugged in at the last boot
    mounted,    \* the disk at /mnt/disk
    tried,      \* history: disks mounted by this boot, those it gave up again too
    top,        \* top-level names of each disk, the swap file apart
    file,       \* per place and setting: the saved file under etc
    dirty,      \* files not yet written back
    job,        \* a setting being changed: what is left to save
    commands,   \* commands given so far
    told        \* history: what an undisturbed change saved where

disks == <<top, file>>
vars ==
    <<mode, origin, power, attached, mounted, tried, disks, dirty, job, commands, told, swapVars>>

Foreign == {"usr", "bin"}   \* of a root file system
Names == Foreign \cup {"etc", "packages", "services", "other"}

NoJob == [kind |-> "none"]
JobsOf(s) ==
    [kind : {"set"}, value : ValueOf(s), etc : BOOLEAN] \cup
    (IF s = "network" THEN [kind : {"dhcp"}] \cup [kind : {"dns"}, dns : Dns] ELSE {})
Jobs == UNION {JobsOf(s) : s \in Setting}

\* The bound on commands; it is none of the code's.
Command == commands < MaxCommands /\ commands' = commands + 1

-----------------------------------------------------------------------------
(* Booting                                                                 *)

CarriesRoot(d) == Foreign \subseteq top[d]

IsEmpty(d) ==
    top[d] = {} /\ swap[d] = "none" /\ \A s \in Setting : file[d][s] = Absent

HasFile(d, s) == s \in Setting /\ file[d][s] # Absent

\* What init's restores would find on the disk; its etc alone is no mark.
Marked(d) ==
    \/ {"packages", "services"} \cap top[d] # {}
    \/ swap[d] # "none"
    \/ HasFile(d, "font")

\* Mutant of LooksLikeRezzDisk: any disk with something to restore will do.
LooksLikeMarked(d) == IsEmpty(d) \/ Marked(d)

\* Mutant of LooksLikeRezzDisk: a font is not looked for.
LooksLikeFontless(d) ==
    ~CarriesRoot(d) /\ (IsEmpty(d) \/ {"packages", "services"} \cap top[d] # {} \/ swap[d] # "none")

LooksLikeRezzDisk(d) == ~CarriesRoot(d) /\ (IsEmpty(d) \/ Marked(d))

\* What may be mounted: the kernel names the disks in any order, and the scan
\* mounts one after the other, read-write, until one is good; a trial changes no
\* file, only what the file system keeps for itself.  An installed system mounts
\* its own disk or none.
MayMount(m) ==
    LET good == {d \in attached' : LooksLikeRezzDisk(d)} IN
    IF mode = "live"
    THEN IF good = {} THEN m = NoDisk /\ tried' = attached'
         ELSE m \in good /\ tried' \cap good = {m}
    ELSE /\ m = IF OwnDisk \in attached' THEN OwnDisk ELSE NoDisk
         /\ tried' = attached' \cap {m}

\* A file in force; one that says nothing, like no file, leaves the default.
InForce(content) == IF content \in Value THEN content ELSE Default

OnDisk(m, s) == IF m \in Disk THEN file[m][s] ELSE Absent

\* Mutant of Restored: the network is set up before the disk is mounted.
RestoredEarly(m, s) ==
    IF s = "network" THEN InForce(OnDisk(mounted, s))
    ELSE IF mode = "live" THEN InForce(OnDisk(m, s))
    ELSE IF s \in FromEtc THEN InForce(file[Root][s]) ELSE Default

\* The network comes from the disk in both modes; the rest from the disk on a
\* live system and from /etc on an installed one, which sets no font; a keymap
\* missing in /etc is looked for on the disk when X starts.
Restored(m, s) ==
    IF s = "network" \/ mode = "live" THEN InForce(OnDisk(m, s))
    ELSE IF s = "keymap" /\ file[Root][s] = Absent THEN InForce(OnDisk(m, s))
    ELSE IF s \in FromEtc THEN InForce(file[Root][s])
    ELSE Default

Boot ==
    /\ power = "off"
    /\ power' = "on"
    /\ attached' \in SUBSET Disk
    /\ mounted' \in Disk \cup {NoDisk} /\ tried' \in SUBSET attached'
    /\ MayMount(mounted')
    /\ BootSwap(mode = "live", mounted')
    /\ UNCHANGED <<mode, origin, disks, dirty, job, told, commands>>

-----------------------------------------------------------------------------
(* Changing a setting                                                      *)

\* Where a change of s is written: /etc, as far as an installed system's boot
\* reads it again, and the disk.  The font tool alone does not make the
\* directory, and DNS only changes a file that is there.
Targets(s) ==
    {p \in Place :
        \/ p = Root /\ mode = "disk" /\ s \in FromEtc
        \/ /\ p = mounted
           /\ s = "font" => "etc" \in top[p]
           /\ job[s].kind = "dns" => HasFile(p, s)}

\* The place the next boot takes s from, if it is there.
Keeps(p, s) ==
    IF mode = "live" \/ s = "network" THEN p \in Disk /\ p = mounted
    ELSE p = Root /\ s \in FromEtc

Says(s, what) ==
    told' = [p \in Place |-> [told[p] EXCEPT ![s] = IF Keeps(p, s) THEN what ELSE @]]

Write(p, s, content) ==
    /\ file' = [file EXCEPT ![p] = [@ EXCEPT ![s] = content]]
    /\ top' = [top EXCEPT ![p] = IF content = Absent THEN @ ELSE @ \cup {"etc"}]
    /\ dirty' = dirty \cup {<<p, s>>}

\* A write that fails or is cut short: nothing happens, only the directory is
\* made, or the file is left saying nothing.
Botched(p, s) ==
    \/ UNCHANGED <<disks, dirty>>
    \/ /\ job[s].kind = "set" /\ s # "font"
       /\ top' = [top EXCEPT ![p] = @ \cup {"etc"}]
       /\ UNCHANGED <<file, dirty>>
    \/ job[s].kind # "dhcp" /\ Write(p, s, Blank)

\* The first half of a command: the running system and /etc, which an installed
\* system may fail to write.  What was said of the setting before is void.
Apply(s, j) ==
    /\ power = "on" /\ job[s] = NoJob /\ Command
    /\ job' = [job EXCEPT ![s] = j]
    /\ IF mode = "disk" /\ s \in FromEtc
       THEN IF j.etc THEN Write(Root, s, j.value) ELSE Botched(Root, s)
       ELSE (j.kind = "set" => j.etc) /\ UNCHANGED <<disks, dirty>>
    /\ Says(s, Nothing)
    /\ UNCHANGED <<mode, origin, power, attached, mounted, tried, swapVars>>

\* Host name, time zone, keymap, font; or a static network.
Set(s, v) == \E etc \in BOOLEAN : Apply(s, [kind |-> "set", value |-> v, etc |-> etc])

\* Only after the DHCP client has got its lease.
Dhcp ==
    /\ "network" \in Setting
    /\ Apply("network", [kind |-> "dhcp"])

DnsOnly(dns) ==
    /\ "network" \in Setting
    /\ Apply("network", [kind |-> "dns", dns |-> dns])

EndJob(s) == job' = [job EXCEPT ![s] = NoJob]

\* Mutant of ToSave: the new name servers are written without the old address.
ToSaveBlank(m, s) ==
    CASE job[s].kind = "set" -> job[s].value
      [] job[s].kind = "dhcp" -> Absent
      [] OTHER -> Blank

\* What the second half leaves on the disk: the value; no file; or, for DNS
\* only, the address read from the file with the new name servers.
ToSave(m, s) ==
    CASE job[s].kind = "set" -> job[s].value
      [] job[s].kind = "dhcp" -> Absent
      [] OTHER -> IF file[m][s] \in Value
                  THEN [file[m][s] EXCEPT !.dns = job[s].dns] ELSE file[m][s]

\* What the file will then say is what was asked for, undisturbed.
Asked(m, s) ==
    CASE job[s].kind = "set" -> job[s].value
      [] job[s].kind = "dhcp" -> Default
      [] OTHER -> IF file[m][s] \in Value
                  THEN [ip |-> file[m][s].ip, dns |-> job[s].dns] ELSE Nothing

\* What the change comes to where the next boot looks: in /etc what the first
\* half left there, else what the second made of the disk.
Outcome(s, disk) ==
    IF Keeps(Root, s) THEN (IF job[s].etc THEN job[s].value ELSE Nothing) ELSE disk

\* The second half; rezzkeymap copies the file in /etc, which has to be there.
Save(s) ==
    /\ power = "on" /\ job[s] # NoJob /\ mounted \in Disk \cap Targets(s)
    /\ s = "keymap" => job[s].etc
    /\ Write(mounted, s, ToSave(mounted, s))
    /\ Says(s, Outcome(s, Asked(mounted, s)))
    /\ EndJob(s)
    /\ UNCHANGED <<mode, origin, power, attached, mounted, tried, swapVars, commands>>

\* Or it fails, the disk being full or read-only, or rezzkeymap copies an older
\* file.  No command looks at that: the message is the one of success.
SaveFails(s) ==
    /\ power = "on" /\ job[s] # NoJob /\ mounted \in Disk \cap Targets(s)
    /\ \/ Botched(mounted, s)
       \/ /\ s = "keymap" /\ ~job[s].etc /\ file[Root][s] # Absent
          /\ Write(mounted, s, file[Root][s])
    /\ Says(s, Outcome(s, Nothing))
    /\ EndJob(s)
    /\ UNCHANGED <<mode, origin, power, attached, mounted, tried, swapVars, commands>>

\* No disk, or nothing to be done there, or the font tool's silent failure.
SaveNowhere(s) ==
    /\ power = "on" /\ job[s] # NoJob /\ mounted \notin Disk \cap Targets(s)
    /\ Says(s, Outcome(s, Nothing))
    /\ EndJob(s)
    /\ UNCHANGED <<mode, origin, power, attached, mounted, tried, disks, dirty, swapVars, commands>>

\* A command is killed, perhaps in the middle of writing a file.
Interrupt(s) ==
    /\ power = "on" /\ job[s] # NoJob
    /\ EndJob(s)
    /\ \/ UNCHANGED <<disks, dirty>>
       \/ \E p \in Targets(s) : Botched(p, s)
    /\ UNCHANGED <<mode, origin, power, attached, mounted, tried, told, commands, swapVars>>

\* pkg or rsv make their directories on the disk.
Elsewhere(mark) ==
    /\ power = "on" /\ mounted \in Disk /\ Command
    /\ top' = [top EXCEPT ![mounted] = @ \cup {mark}]
    /\ UNCHANGED <<mode, origin, power, attached, mounted, tried, file, dirty, job, told, swapVars>>

-----------------------------------------------------------------------------
(* Swap                                                                    *)

\* One command of the swap tool.
Swap ==
    /\ power = "on"
    /\ \/ CreateSwap(mounted) /\ Command
       \/ RemoveSwap(mounted) /\ Command
       \/ MakeSwap(mounted) /\ UNCHANGED commands
       \/ FinishCreate(mounted) /\ UNCHANGED commands
       \/ EnableSwap(mounted) /\ UNCHANGED commands
       \/ DisableSwap /\ UNCHANGED commands
       \/ InterruptCreate /\ UNCHANGED commands
       \/ SuspendInstead(mounted) /\ UNCHANGED commands
    /\ dirty' = dirty \cup (IF swap' # swap THEN {<<mounted, "swap">>} ELSE {})
    /\ UNCHANGED <<mode, origin, power, attached, mounted, tried, disks, job, told>>

-----------------------------------------------------------------------------
(* Going down                                                              *)

Down(how) ==
    /\ power = "on" /\ power' = how
    /\ attached' = {} /\ mounted' = NoDisk /\ tried' = {}
    /\ job' = [s \in Setting |-> NoJob]
    /\ UNCHANGED <<mode, origin, disks, commands>>

\* Mutant of Shutdown: the power goes before the writes are through.
ShutdownUnsynced ==
    /\ \A s \in Setting : job[s] = NoJob
    /\ Down(IF dirty = {} THEN "off" ELSE "lost")
    /\ SwapStops
    /\ UNCHANGED <<dirty, told, promised>>

\* poweroff and reboot: commands are killed (Interrupt) before the sync.
Shutdown ==
    /\ \A s \in Setting : job[s] = NoJob
    /\ Down("off")
    /\ dirty' = {}
    /\ SwapStops
    /\ UNCHANGED <<told, promised>>

\* hibernate syncs too, then writes its image.
Hibernate ==
    /\ Down("off")
    /\ dirty' = {}
    /\ HibernateSwap(mounted)
    /\ UNCHANGED told

\* What was said of files not yet written back does not bind any more.
PowerLoss ==
    /\ Down(IF dirty = {} THEN "off" ELSE "lost")
    /\ told' = [p \in Place |-> [s \in Setting |->
                   IF <<p, s>> \in dirty THEN Nothing ELSE told[p][s]]]
    /\ SwapStops
    /\ promised' = {d \in promised : <<d, "swap">> \notin dirty}
    /\ UNCHANGED dirty

Written(x) ==
    /\ dirty' = dirty \ {x}
    /\ power' = IF power = "lost" /\ dirty' = {} THEN "off" ELSE power

\* The kernel writes a file back, or has done so before the power went.
Writeback(x) ==
    /\ x \in dirty
    /\ Written(x)
    /\ UNCHANGED <<mode, origin, attached, mounted, tried, disks, job, told, commands, swapVars>>

\* Or not: an older, an empty or no file is found.
LoseFile(p, s, content) ==
    /\ power = "lost" /\ <<p, s>> \in dirty
    /\ Written(<<p, s>>)
    /\ file' = [file EXCEPT ![p] = [@ EXCEPT ![s] = content]]
    /\ UNCHANGED <<mode, origin, attached, mounted, tried, top, job, told, commands, swapVars>>

LoseSwap(d, left) ==
    /\ power = "lost" /\ <<d, "swap">> \in dirty
    /\ Written(<<d, "swap">>)
    /\ swap' = [swap EXCEPT ![d] = left]
    /\ UNCHANGED <<mode, origin, attached, mounted, tried, disks, job, told, commands>>
    /\ UNCHANGED <<active, making, promised>>

-----------------------------------------------------------------------------

\* The top-level names on a disk of each kind.
FirstTop(k) ==
    CASE k = "fresh" -> {}
      [] k = "ours" -> {"etc", "packages", "services"}
      [] k = "root" -> Foreign \cup {"etc"}
      [] k = "packed" -> {"other", "packages"}
      [] OTHER -> {"other"}

Init ==
    /\ mode \in Modes
    /\ power = "off" /\ attached = {} /\ mounted = NoDisk /\ tried = {}
    /\ origin \in [Disk -> DiskKinds] /\ \A d \in Disk : origin[d] \in Kinds[d]
    /\ mode = "disk" => origin[OwnDisk] \in {"fresh", "ours"}
    /\ top = [p \in Place |-> IF p = Root THEN {"etc"} ELSE FirstTop(origin[p])]
    /\ swap = [d \in Disk |-> IF origin[d] \in {"root", "swapped"} THEN "ready" ELSE "none"]
    /\ file = [p \in Place |-> [s \in Setting |-> Absent]]
    /\ dirty = {} /\ commands = 0
    /\ job = [s \in Setting |-> NoJob]
    /\ told = [p \in Place |-> [s \in Setting |-> Nothing]]
    /\ active = FALSE /\ making = "none" /\ promised = {}

Tools ==
    \/ \E s \in Setting :
          \/ Save(s) \/ SaveFails(s) \/ SaveNowhere(s) \/ Interrupt(s)
          \/ \E v \in ValueOf(s) : Set(s, v)
    \/ Dhcp \/ \E dns \in Dns : DnsOnly(dns)
    \/ \E mark \in {"packages", "services"} : Elsewhere(mark)
    \/ Swap

Disks ==
    \/ \E x \in dirty : Writeback(x)
    \/ \E p \in Place, s \in Setting : \E c \in Content(s) : LoseFile(p, s, c)
    \/ \E d \in Disk, left \in {"none", "zeros", "ready"} : LoseSwap(d, left)

Next == Boot \/ Tools \/ Shutdown \/ Hibernate \/ PowerLoss \/ Disks

Spec == Init /\ [][Next]_vars

-----------------------------------------------------------------------------
(* Properties                                                              *)

\* The shape of the state; nothing is mounted, under way or in use while the
\* power is off, and writes can only be pending then after a loss.
TypeOK ==
    /\ mode \in Modes /\ power \in {"on", "off", "lost"}
    /\ origin \in [Disk -> DiskKinds]
    /\ attached \subseteq Disk /\ mounted \in attached \cup {NoDisk}
    /\ tried \subseteq attached
    /\ top \in [Place -> SUBSET Names]
    /\ file \in [Place -> [Setting -> Value \cup {Absent, Blank}]]
    /\ \A p \in Place, s \in Setting : file[p][s] \in Content(s)
    /\ dirty \subseteq (Place \X Setting) \cup (Disk \X {"swap"})
    /\ job \in [Setting -> Jobs \cup {NoJob}]
    /\ \A s \in Setting : job[s] \in JobsOf(s) \cup {NoJob}
    /\ told \in [Place -> [Setting -> Value \cup {Default, Nothing}]]
    /\ commands \in 0 .. MaxCommands
    /\ swap \in [Disk -> States] /\ active \in BOOLEAN
    /\ making \in {"none", "mkswap", "swapon"} /\ promised \subseteq Disk
    /\ power # "on" => mounted = NoDisk /\ ~active /\ making = "none"
    /\ power = "off" => dirty = {}

Expected(p, s) == told[p][s] # Nothing

\* Where a boot with d as the only disk has to find it.
OnlyOne(d) == attached' = {d} /\ Marked(d)

\* A boot gives back what the tools said they saved, if they could write it,
\* whatever happened in between: other commands, commands that failed or were
\* killed, a power loss after the writes were through, other disks plugged in,
\* boots without the disk.  The tools say the same of a write that failed.
SavedComesBack ==
    [][Boot => \A s \in Setting :
          /\ mode = "disk" /\ Expected(Root, s) => Restored(mounted', s) = told[Root][s]
          /\ \A d \in Disk :
                Expected(d, s) /\ (mounted' = d \/ OnlyOne(d)) =>
                    mounted' = d /\ Restored(d, s) = told[d][s]]_vars

\* So does swap that was said to be activated.
SwapComesBack ==
    [][Boot => \A d \in promised : mounted' = d \/ OnlyOne(d) => mounted' = d /\ active']_vars

\* A disk that carries another system's root, or somebody's own files and at
\* first nothing init looks for.
Stranger(d) == origin[d] \in {"root", "other"}

\* No file of a stranger is ever changed, though a root may have a swap file like
\* ours, and no boot leaves one mounted; an installed system does not even try
\* one.  Somebody's own files beside a swap file, packages or services are not
\* recognised as such: init takes that disk for one of RezzOS's.
StrangersLeftAlone ==
    [][\A d \in Disk : Stranger(d) =>
          /\ top'[d] = top[d] /\ file'[d] = file[d] /\ swap'[d] = swap[d]
          /\ mounted' # d /\ (d \in tried' \ tried => mode = "live")]_vars

\* "Static config applied and saved (persists across reboots).", and the like:
\* as SavedComesBack, without asking what else is on the disk.
SavedPersists ==
    [][Boot => \A s \in Setting, d \in Disk :
          Expected(d, s) /\ attached' = {d} => Restored(mounted', s) = told[d][s]]_vars
-----------------------------------------------------------------------------
(* The inductive invariant behind the promises                             *)

\* An installed system uses no other disk than its own.
MayUse(d) == ~Stranger(d) /\ (mode = "disk" => d = OwnDisk)

Mounts == mounted \in Disk => MayUse(mounted)

\* What a disk was at first still shows where it matters, and nothing of a
\* stranger is ever pending.
Strangers ==
    \A d \in Disk :
        /\ CarriesRoot(d) <=> origin[d] = "root"
        /\ origin[d] = "other" => ~LooksLikeRezzDisk(d)
        /\ mode = "disk" /\ d = OwnDisk => ~Stranger(d)
        /\ Stranger(d) => <<d, "swap">> \notin dirty /\ \A s \in Setting : <<d, s>> \notin dirty

\* A change binds where the next boot looks, once it is undisturbed.
Keepers ==
    \A p \in Place, s \in Setting : Expected(p, s) =>
        IF p = Root THEN mode = "disk" /\ s \in FromEtc /\ told[p][s] \in Value
        ELSE MayUse(p) /\ (mode = "disk" => s = "network")

Kept ==
    \A p \in Place, s \in Setting : Expected(p, s) =>
        /\ InForce(file[p][s]) = told[p][s]
        /\ power = "lost" => <<p, s>> \notin dirty
        /\ job[s] # NoJob => ~Keeps(p, s)

Promises ==
    \A d \in promised :
        swap[d] = "ready" /\ MayUse(d) /\ (power = "lost" => <<d, "swap">> \notin dirty)

\* What is still to be saved is in /etc already, where that counts and if it
\* could be written.
InEtc ==
    \A s \in Setting :
        job[s] # NoJob /\ mode = "disk" /\ s \in FromEtc =>
            job[s].kind = "set" /\ (job[s].etc => file[Root][s] = job[s].value)

Idle == power # "on" => \A s \in Setting : job[s] = NoJob

IInv == TypeOK /\ Mounts /\ Strangers /\ Keepers /\ Kept /\ Promises /\ InEtc /\ Idle
=============================================================================
