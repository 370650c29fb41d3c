------------------------------ MODULE Services ------------------------------
(***************************************************************************)
(* Which services start at boot.                                           *)
(*                                                                         *)
(* Two pieces of state decide it: a symlink in /etc/runit/runsvdir/default *)
(* (read by runsvdir) and a marker file in /mnt/disk/services (replayed    *)
(* into symlinks by init).  Three tools edit the pair, each in its own     *)
(* order and none of them atomically: the shell scripts rsv and systemctl  *)
(* and the GTK program rsv-gui.  On a live system the root is RAM, so links*)
(* and service directories come back from the image at every boot; on an   *)
(* installed system they are files of the root partition.                  *)
(*                                                                         *)
(* One action is one file-system call of a tool, so commands of several    *)
(* users interleave; a command may be interrupted between two calls, and   *)
(* the machine may lose power between two writebacks.                      *)
(***************************************************************************)
EXTENDS Naturals, FiniteSets

CONSTANTS
    Service,    \* service names
    Images,     \* boot images considered: the directories and links they ship
    Actor,      \* terminals and windows from which commands are given
    Modes,      \* boot modes considered, a subset of {"live", "disk"}
    NoJob       \* an actor without a command

Tools == {"rsv", "gui", "systemctl"}

Jobs == [tool : Tools, op : {"enable", "disable"}, svc : Service]

ASSUME ServicesAssumption ==
    /\ Images \subseteq [defs : SUBSET Service, link : SUBSET Service]
    /\ \A i \in Images : i.link \subseteq i.defs
    /\ Modes \subseteq {"live", "disk"}
    /\ NoJob \notin Jobs

VARIABLES
    mode,         \* how this machine boots: init's MODE
    image,        \* what its boot image ships
    mounted,      \* is the data disk mounted at /mnt/disk (/proc/mounts)
    defs,         \* services that have /etc/sv/<name>
    link,         \* services that have a link in the runsvdir directory
    marker,       \* services that have a marker in /mnt/disk/services
    durable,      \* what power loss leaves behind of defs, link and marker
    supervised,   \* services runsvdir keeps a runsv for
    running,      \* supervised services that are up
    pc,           \* where each actor's command is
    job,          \* what each actor's command is
    alone,        \* no other command on the same name overlapped this one
    told,         \* what the last undisturbed command said of a service
    vouched       \* services rezzdoctor said would be back after a reboot

files == <<defs, link, marker, durable>>
procs == <<supervised, running>>
cmds  == <<pc, job, alone>>
said  == <<told, vouched>>
kind  == <<mode, image>>
vars  == <<kind, mounted, files, procs, cmds, said>>

Steps == {"idle", "check", "link", "mark", "unmark", "stop", "unlink"}
\* What a command's last line says; "no link" is systemctl's "is not enabled",
\* which it prints without having looked at the marker.
Words == {"nothing", "enabled", "already", "disabled", "not enabled", "no link"}

InFlight(n) == {a \in Actor : pc[a] # "idle" /\ job[a].svc = n}

-----------------------------------------------------------------------------
(* Starting and ending a command                                           *)

\* Mutant of Entry: every tool looks at the link before the marker.
EntryAtLink(tool, op) == "check"

\* The first file-system call of each tool's handler.
Entry(tool, op) ==
    IF op = "disable" /\ tool \in {"rsv", "gui"} THEN "unmark" ELSE "check"

\* A command line or a button: nothing has touched the files yet.
Begin(a, tool, op, n) ==
    /\ pc[a] = "idle"
    /\ pc' = [pc EXCEPT ![a] = Entry(tool, op)]
    /\ job' = [job EXCEPT ![a] = [tool |-> tool, op |-> op, svc |-> n]]
    /\ alone' = [b \in Actor |->
                    IF b = a THEN InFlight(n) = {}
                    ELSE alone[b] /\ b \notin InFlight(n)]
    /\ told' = [told EXCEPT ![n] = "nothing"]
    /\ vouched' = vouched \ {n}
    /\ UNCHANGED <<kind, mounted, files, procs>>

\* The message a command ends with counts as a statement about the next boot
\* when no other command on that name overlapped it and the disk is there.
Conclude(a, word) ==
    /\ pc' = [pc EXCEPT ![a] = "idle"]
    /\ job' = [job EXCEPT ![a] = NoJob]
    /\ alone' = [alone EXCEPT ![a] = FALSE]
    /\ told' = IF alone[a] /\ mounted
               THEN [told EXCEPT ![job[a].svc] = word]
               ELSE told
    /\ UNCHANGED <<kind, mounted, vouched>>

Proceed(a, step) ==
    /\ pc' = [pc EXCEPT ![a] = step]
    /\ UNCHANGED <<kind, mounted, job, alone, told, vouched>>

-----------------------------------------------------------------------------
(* The calls of enable                                                     *)

\* [ -d /etc/sv/n ], then [ -e link ]: the two early exits.
CheckEnable(a) ==
    LET n == job[a].svc
    IN  /\ pc[a] = "check" /\ job[a].op = "enable"
        /\ \/ n \notin defs /\ Conclude(a, "nothing")
           \/ n \in defs /\ n \in link /\ Conclude(a, "already")
           \/ n \in defs /\ n \notin link /\ Proceed(a, "link")
        /\ UNCHANGED <<files, procs>>

\* ln -s and ln -sf succeed whether or not the link has appeared meanwhile
\* (they then write inside its target); symlink(2) fails with EEXIST.
MakeLink(a) ==
    LET n == job[a].svc
    IN  /\ pc[a] = "link"
        /\ \/ /\ job[a].tool = "gui" /\ n \in link
              /\ Conclude(a, "nothing")
              /\ UNCHANGED link
           \/ /\ ~(job[a].tool = "gui" /\ n \in link)
              /\ link' = link \cup {n}
              /\ Proceed(a, "mark")
        /\ UNCHANGED <<defs, marker, durable, procs>>

\* Mutant of Mark: the marker is forgotten.
MarkNothing(a) ==
    /\ pc[a] = "mark"
    /\ Conclude(a, "enabled")
    /\ UNCHANGED <<files, procs>>

\* if disk_is_mounted; then mkdir -p; touch.
Mark(a) ==
    /\ pc[a] = "mark"
    /\ marker' = IF mounted THEN marker \cup {job[a].svc} ELSE marker
    /\ Conclude(a, "enabled")
    /\ UNCHANGED <<defs, link, durable, procs>>

-----------------------------------------------------------------------------
(* The calls of disable                                                    *)

\* rsv and rsv-gui remove the marker first, systemctl last.
Unmark(a) ==
    /\ pc[a] = "unmark"
    /\ marker' = IF mounted THEN marker \ {job[a].svc} ELSE marker
    /\ IF job[a].tool = "systemctl"
       THEN Conclude(a, "disabled")
       ELSE Proceed(a, "check")
    /\ UNCHANGED <<defs, link, durable, procs>>

CheckDisable(a) ==
    /\ pc[a] = "check" /\ job[a].op = "disable"
    /\ \/ /\ job[a].svc \notin link
          /\ Conclude(a, IF job[a].tool = "systemctl"
                         THEN "no link" ELSE "not enabled")
       \/ /\ job[a].svc \in link
          /\ Proceed(a, IF job[a].tool = "systemctl" THEN "unlink" ELSE "stop")
    /\ UNCHANGED <<files, procs>>

\* sv down, when a supervise directory shows that runsv has been there.
StopService(a) ==
    /\ pc[a] = "stop"
    /\ running' = running \ {job[a].svc}
    /\ Proceed(a, "unlink")
    /\ UNCHANGED <<files, supervised>>

\* rm -f never fails; unlink(2) reports a link that has gone meanwhile.
Unlink(a) ==
    LET n == job[a].svc
    IN  /\ pc[a] = "unlink"
        /\ link' = link \ {n}
        /\ CASE job[a].tool = "systemctl" -> Proceed(a, "unmark")
             [] job[a].tool = "gui" /\ n \notin link -> Conclude(a, "nothing")
             [] OTHER -> Conclude(a, "disabled")
        /\ UNCHANGED <<defs, marker, durable, procs>>

-----------------------------------------------------------------------------
(* Commands that touch one thing                                           *)

\* rsv create and the Create dialog: a service directory with a run script.
Create(a, n) ==
    /\ pc[a] = "idle"
    /\ defs' = defs \cup {n}
    /\ told' = [told EXCEPT ![n] = "nothing"]
    /\ vouched' = vouched \ {n}
    /\ UNCHANGED <<kind, mounted, link, marker, durable, procs, cmds>>

\* Mutant of Control: sv's refusal for want of a runsv is overlooked.
ControlAnyway(a, n, action) ==
    /\ pc[a] = "idle"
    /\ running' = IF action = "down" THEN running \ {n} ELSE running \cup {n}
    /\ UNCHANGED <<kind, mounted, files, supervised, cmds, said>>

\* sv up, down or restart through rsv, systemctl or the GUI: runsv obeys when
\* there is one.
Control(a, n, action) ==
    /\ pc[a] = "idle"
    /\ n \in supervised
    /\ running' = IF action = "down" THEN running \ {n} ELSE running \cup {n}
    /\ UNCHANGED <<kind, mounted, files, supervised, cmds, said>>

\* Mutant of Doctor: links are not compared with the markers.
DoctorTrustsLinks ==
    /\ mounted
    /\ vouched' = {n \in link : InFlight(n) = {}}
    /\ UNCHANGED <<kind, mounted, files, procs, cmds, told>>

\* rezzdoctor's Services section: silent unless the disk is mounted and every
\* enabled service has its marker.
Doctor ==
    /\ mounted
    /\ link \subseteq marker
    /\ vouched' = {n \in link : InFlight(n) = {}}
    /\ UNCHANGED <<kind, mounted, files, procs, cmds, told>>

-----------------------------------------------------------------------------
(* The machine                                                             *)

\* runsvdir's scan (external): a runsv per link, none without one.
Scan ==
    /\ supervised # link
    /\ supervised' = link
    /\ running' = (running \cap link) \cup (link \ supervised)
    /\ UNCHANGED <<kind, mounted, files, cmds, said>>

Snapshot == [defs |-> defs, link |-> link, marker |-> marker]

\* Kernel writeback (external): the data disk and, on an installed system,
\* the root partition are separate file systems with separate journals.
FlushData ==
    /\ mounted
    /\ durable' = [durable EXCEPT !.marker = marker]
    /\ UNCHANGED <<kind, mounted, defs, link, marker, procs, cmds, said>>

FlushRoot ==
    /\ mode = "disk"
    /\ durable' = [durable EXCEPT !.defs = defs, !.link = link]
    /\ UNCHANGED <<kind, mounted, defs, link, marker, procs, cmds, said>>

\* A command dies with its terminal, or by Ctrl-C, between two calls.
Interrupt(a) ==
    /\ pc[a] # "idle"
    /\ pc' = [pc EXCEPT ![a] = "idle"]
    /\ job' = [job EXCEPT ![a] = NoJob]
    /\ alone' = [alone EXCEPT ![a] = FALSE]
    /\ UNCHANGED <<kind, mounted, files, procs, said>>

\* Mutant of Boot: markers are replayed without looking for the directory.
BootUnchecked(disks) ==
    /\ mounted' \in BOOLEAN
    /\ defs' = IF mode = "live" THEN image.defs ELSE disks.defs
    /\ marker' = disks.marker
    /\ link' = (IF mode = "live" THEN image.link ELSE disks.link)
                 \cup (IF mounted' THEN marker' ELSE {})
    /\ durable' = disks
    /\ supervised' = {} /\ running' = {}
    /\ pc' = [a \in Actor |-> "idle"]
    /\ job' = [a \in Actor |-> NoJob]
    /\ alone' = [a \in Actor |-> FALSE]
    /\ UNCHANGED kind

\* init, from what the disks hold: the root file system (from the image on a
\* live system), then the data disk if it is found, then the replay of its
\* markers for services that have a directory.
Boot(disks) ==
    /\ mounted' \in BOOLEAN
    /\ defs' = IF mode = "live" THEN image.defs ELSE disks.defs
    /\ marker' = disks.marker
    /\ link' = (IF mode = "live" THEN image.link ELSE disks.link)
                 \cup (IF mounted' THEN marker' \cap defs' ELSE {})
    /\ durable' = disks
    /\ supervised' = {} /\ running' = {}
    /\ pc' = [a \in Actor |-> "idle"]
    /\ job' = [a \in Actor |-> NoJob]
    /\ alone' = [a \in Actor |-> FALSE]
    /\ UNCHANGED kind

\* system-shutdown kills every command, syncs and unmounts.
Reboot ==
    /\ Boot(Snapshot)
    /\ UNCHANGED said

\* What was written but not yet durable for n when the power went.
Unsynced(n) ==
    \/ (n \in marker) # (n \in durable.marker)
    \/ /\ mode = "disk"
       /\ \/ (n \in link) # (n \in durable.link)
          \/ (n \in defs) # (n \in durable.defs)

PowerLoss ==
    /\ Boot(durable)
    /\ told' = [n \in Service |-> IF Unsynced(n) THEN "nothing" ELSE told[n]]
    /\ vouched' = {n \in vouched : ~Unsynced(n)}

-----------------------------------------------------------------------------

\* The first boot: image or fresh installation, no marker anywhere.
Init ==
    /\ mode \in Modes
    /\ mounted \in BOOLEAN
    /\ image \in Images
    /\ defs = image.defs /\ link = image.link /\ marker = {}
    /\ durable = [defs |-> defs, link |-> link, marker |-> marker]
    /\ supervised = {} /\ running = {}
    /\ pc = [a \in Actor |-> "idle"]
    /\ job = [a \in Actor |-> NoJob]
    /\ alone = [a \in Actor |-> FALSE]
    /\ told = [n \in Service |-> "nothing"]
    /\ vouched = {}

Command(a) ==
    \/ \E tool \in Tools, op \in {"enable", "disable"}, n \in Service :
          Begin(a, tool, op, n)
    \/ CheckEnable(a) \/ MakeLink(a) \/ Mark(a)
    \/ Unmark(a) \/ CheckDisable(a) \/ StopService(a) \/ Unlink(a)
    \/ Interrupt(a)
    \/ \E n \in Service : Create(a, n)
    \/ \E n \in Service, action \in {"up", "down"} : Control(a, n, action)

Machine == Doctor \/ FlushData \/ FlushRoot \/ Reboot \/ PowerLoss

Next == (\E a \in Actor : Command(a)) \/ Scan \/ Machine

Spec == Init /\ [][Next]_vars

-----------------------------------------------------------------------------
(* Properties                                                              *)

\* The shape of the state; a command in flight has a job.
TypeOK ==
    /\ mode \in Modes /\ image \in Images
    /\ mounted \in BOOLEAN
    /\ defs \subseteq Service /\ link \subseteq Service /\ marker \subseteq Service
    /\ durable \in [defs : SUBSET Service, link : SUBSET Service,
                     marker : SUBSET Service]
    /\ supervised \subseteq Service /\ running \subseteq supervised
    /\ pc \in [Actor -> Steps]
    /\ job \in [Actor -> Jobs \cup {NoJob}]
    /\ \A a \in Actor : pc[a] # "idle" => job[a] \in Jobs
    /\ alone \in [Actor -> BOOLEAN]
    /\ told \in [Service -> Words]
    /\ vouched \subseteq Service

\* No link ever dangles, in memory or on the disk: the tools' [ -e link ],
\* which follows the link, then asks exactly whether the link is there.
LinksResolve ==
    /\ link \subseteq defs
    /\ durable.link \subseteq durable.defs

\* "Enabled service" is a promise about every later boot that finds the disk:
\* until another command names the service, the marker stays and the service
\* is linked whenever its directory exists, across reboots, power loss,
\* sessions without the disk and whatever happens to other services.
EnabledComesBack ==
    \A n \in Service :
        told[n] = "enabled" /\ mounted =>
            /\ n \in marker
            /\ n \in defs => n \in link

\* "Disabled" (any tool) and "is not enabled" (rsv and rsv-gui) are promises
\* too: whatever an interrupted or overlapping command left behind before, no
\* boot brings the service back, except one the live image itself links.
DisabledStaysAway ==
    \A n \in Service :
        told[n] \in {"disabled", "not enabled"} /\ mounted =>
            /\ n \notin marker
            /\ n \in link => mode = "live" /\ n \in image.link

\* rezzdoctor's "enabled services will come back after a reboot" is kept for
\* every service whose directory is still there: what the doctor saw enabled
\* is linked after every later boot with the disk, in both boot modes.
VouchedComesBack == mounted => vouched \cap defs \subseteq link

-----------------------------------------------------------------------------
(* The inductive invariant behind the three promises                       *)

\* A command that is alone has its service for itself.
Sole ==
    \A a, b \in Actor :
        /\ alone[a] => pc[a] # "idle"
        /\ alone[a] /\ pc[b] # "idle" /\ job[b].svc = job[a].svc => b = a

\* What a command has established by the time it reaches a step.
Established(a) ==
    LET n == job[a].svc
        markerFirst == job[a].op = "disable" /\ job[a].tool # "systemctl"
    IN  /\ pc[a] \in {"link", "mark"} => n \in defs
        /\ pc[a] \in {"unmark", "stop", "unlink"} => job[a].op = "disable"
        /\ pc[a] = "stop" => markerFirst
        /\ pc[a] = "mark" /\ alone[a] => n \in link
        /\ pc[a] \in {"check", "stop", "unlink"} /\ markerFirst
             /\ alone[a] /\ mounted => n \notin marker
        /\ pc[a] = "unmark" /\ ~markerFirst /\ alone[a] => n \notin link
        /\ told[n] = "nothing" /\ n \notin vouched

Progress == \A a \in Actor : pc[a] # "idle" => Established(a)

\* What a service that someone was told about looks like, disk or no disk.
KeptFor(n) ==
    /\ told[n] = "enabled" \/ n \in vouched =>
          n \in marker /\ (mounted /\ n \in defs => n \in link)
    /\ told[n] \in {"disabled", "not enabled"} =>
          n \notin marker /\ (n \in link => mode = "live" /\ n \in image.link)

Kept == \A n \in Service : KeptFor(n)

IInv == TypeOK /\ LinksResolve /\ Sole /\ Progress /\ Kept
=============================================================================
