# RezzOS in TLA+

RezzOS is a small Linux distribution: a busybox root that runs from RAM ("live")
or from an installed partition, a set of shell tools, and a handful of GTK
programs written for it. This directory holds TLA+ models of the parts of it
that keep state and can be disturbed while they do, the TLC configurations that
check them on small instances, and TLAPS proofs of what matters most for every
instance. Paths below are relative to `src/`.

## The system

Who interacts with whom:

- `init` brings up the root file system, looks for a data disk, mounts it at
  `/mnt/disk`, restores saved state from it, replays service markers into links
  and becomes `runsvdir`.
- The tools (`usr/bin/*`) and the GTK programs (`src/*.c`) are separate
  processes. They share no memory and take no locks; they meet in the file
  system, in `/proc/mounts` and in the kernel's device nodes.
- `runsvdir` keeps one `runsv` per link in its directory. One of these services,
  `usbmount`, is a loop that mounts whatever is plugged in.
- The installer is a GTK window that writes a shell script to `/run`, starts it
  as a child process, shows its output and waits for it. While the script works
  on a disk, `usbmount` and users work on it too.

| part | state | operations | what is hard |
|---|---|---|---|
| Services: `usr/bin/rsv`, `usr/bin/systemctl`, `src/rsv-gui.c`, `usr/bin/rezzdoctor`, the replay in `init` | `/etc/sv/*`, links in the runsvdir directory, markers in `/mnt/disk/services`, running services | enable, disable, create, start/stop/restart, doctor, boot | two pieces of state changed in different orders by three tools; interruption, power loss, boots without the disk |
| Removable disks: `etc/sv/usbmount/run`, `usr/bin/rezzusb` | `/proc/mounts`, device names, file systems | the service's two loops; mount, umount, eject, format, fsck | look-then-act against a loop doing the opposite; names that change when a disk returns |
| Installer backend: the script in `src/rezzinstall.c` | partition table (on disk and in the kernel), partitions, mounts, progress | nine steps, clean-up trap | the kernel's stale table, ignored failures, SIGTERM, power loss, retries |
| Installer window: the rest of `src/rezzinstall.c` | page, backend pid, two output channels, `install_done`, `install_ok` | next, back, install, close, reboot, callbacks | order of main-loop sources, nested main loops, pid 0 |
| Compositor: `src/rcomp.c` | list of windows, pictures, dirty flag | one handler per X event, paint | the list mirrors the X server's stacking order through a queue of older events |
| Boot and the data disk: `init`, and the saving halves of `usr/bin/rezztz`, `usr/bin/rezzkeymap`, `usr/bin/font`, `src/rezzconfig.c` | which disk is at `/mnt/disk`, the settings saved on it and in `/etc`, what is not yet written back | recognise, restore, swapon; set a setting, save it | recognition by content; saving tools and restoring init must agree in two boot modes; kill and power loss between the halves |
| Power and swap: `usr/bin/swap`, `usr/bin/system-shutdown` | swap file, active swap, hibernation image | create, on, off, remove, hibernate, suspend, power off | commands that fail halfway; an image nobody resumes |
| Settings window: `src/rezzconfig.c` | `cmd_busy`, the running command and its pipe, the forms, what the window shows of the system | one asynchronous command at a time, its callback, switching tabs | a command, its inherited pipe and the main loop end in any order; what is typed and what is read back share the entries |
| Process monitor: `src/rtop-gui.c` | table of the previous sample, list, selected pid, the question open | sample, select, signal | reused pids, processes that change while `/proc` is read, dialogs over a refreshing list |
| Small tools (accounts, Wi-Fi, audio, reports, about box, fetch) | one file each, or none | set, show | nothing is kept between two calls, or the copy is saved like the settings above |
| `pkg`, `build.sh`, images, docs | - | - | not part of the program's own source, or run elsewhere |

`PROJECT.json` lists the same parts under "components" with what is and is not
modelled, and under "hazards" every place found where something can go wrong
that a test would hardly reach.

## Modules

| module | what it is | models |
|---|---|---|
| `Services` | the state behind "which services start at boot" and one action per file-system call of the three tools | rsv, systemctl, rsv-gui, rezzdoctor's Services section, init's replay |
| `ServicesProofs` | TLAPS proofs about `Services` | - |
| `UsbVolumes` | volumes, mounts and device names; the service's loops and rezzusb's commands | etc/sv/usbmount/run, usr/bin/rezzusb |
| `UsbVolumesProofs` | TLAPS proofs about `UsbVolumes` | - |
| `DiskFate` | abstract: what the installer promises about the disk it is given | - |
| `Installer` | one action per command (or group of commands) of the backend script, plus the world around it | the script in src/rezzinstall.c |
| `InstallerProofs` | TLAPS proofs about `Installer`, its refinement of `DiskFate` among them | - |
| `InstallSession` | abstract: what the installer window promises its user | - |
| `InstallWindow` | one action per callback of the window's main loop, plus the script as a writer of lines and another installer on the same file | the C part of src/rezzinstall.c |
| `InstallWindowProofs` | TLAPS proofs about `InstallWindow`, its refinement of `InstallSession` among them | - |
| `XServer` | the X server as the compositor knows it: the tree, pixmaps, damage, the queue of events, the requests on their way, and what other programs do | external |
| `Rcomp` | one action per event handler and round trip of the compositor, and painting; extends `XServer` | src/rcomp.c |
| `RcompProofs` | TLAPS proofs about `Rcomp` (and so `XServer`), and the lemmas about queues and stacking lists they need | - |
| `ControlCenter` | one action per callback of the settings window, plus the command as a process that acts, writes and ends | src/rezzconfig.c |
| `ControlCenterProofs` | TLAPS proofs about `ControlCenter` | - |
| `Rtop` | the walk through `/proc`, the timer, the questions, and processes that come, go and run meanwhile | src/rtop-gui.c |
| `RtopProofs` | TLAPS proofs about `Rtop` | - |
| `SwapFile` | the swap file of one disk: one action per command of the tool, of boot and of going down | usr/bin/swap, the swap parts of init and usr/bin/system-shutdown |
| `DataDisk` | which disk is mounted at boot, settings changed in two halves, power; composes `SwapFile`'s actions with its own | init, usr/bin/rezztz, usr/bin/rezzkeymap, usr/bin/font, the network and host name commands in src/rezzconfig.c, usr/bin/system-shutdown |
| `DataDiskProofs` | TLAPS proofs about `DataDisk` (and so `SwapFile`) | - |
| `MCServices`, `MCUsbVolumes`, `MCInstaller`, `MCInstallWindow`, `MCRcomp`, `MCControlCenter`, `MCRtop`, `MCDataDisk` | small instances for TLC | - |

### Services

A service `n` is *linked* (`link`), *marked* (`marker`), *defined* (`defs`, the
directory `/etc/sv/n`), *supervised* and *running*. Every actor (a terminal or a
window) runs at most one command; `pc` and `job` say which and where. The order
of calls is the code's: `rsv` and the GUI's disable remove the marker first,
`systemctl disable` removes it last and does not look at it at all when the link
is missing; every enable stops at an existing link. A failing `symlink(2)` in the
GUI, but not a failing `ln -s`, ends the command.

`mode` is init's MODE. In live mode `defs` and `link` come from the image at
each boot; in disk mode they are files. `mounted` says whether the data disk was
found at this boot: without it the tools neither read nor write markers. `durable`
is what a power cut leaves. The root partition and the data disk are flushed
separately (`FlushRoot`, `FlushData`); `Reboot` syncs both, `PowerLoss` neither.

`told` and `vouched` are history variables: what the last command (or
rezzdoctor) said of a service. They make promises out of messages. A message
counts only if no other command on that name overlapped it and the disk was
there; a power cut withdraws it if something about that service had not been
written back. Starting any command that names the service withdraws it too.

### UsbVolumes

A volume is a device name and a partition. `at` says which disk is behind a
name, `mount` which disk is mounted under `/mnt/usb/<name><part>`. A disk pulled
out while mounted keeps its name taken, so it returns under another one: that is
how `PersistentLeftAlone` comes to exclude a data disk that has been pulled
(`pulled`). `BlkType` is what `blkid` reports, `Locked` what an exclusively
opened device refuses. `eject` is a loop of partitions, a judgement and a
`sync`, and everything else interleaves with it. The service's clean-up loop
looks for the device node and then unmounts the directory, two steps
(`SweepLook`, `Sweep`), for `umount` does not look at the node again; between
them the service does nothing else (`sweep`), but users and programs do.
Mounting and rezzusb's own umount are a system call after a test that the call
itself repeats (mounted or not, busy or not), so they are one action each;
`format` and `fsck` keep the device for as long as a question or a checker
takes, and are two.

A whole-disk file system is treated like a disk with one partition. The
service's list of file systems is reduced to one that its checker locks (ext4)
and one that it does not (vfat).

### Installer and DiskFate

The partition table exists twice: on the disk (`table`) and in the kernel
(`kview`), which does not read it again while a partition is mounted. A partition
is a pair of table and number; `same` holds the numbers for which both tables
happen to describe the same sectors. `fs` gives each partition's content as a
stage of the new system: "none", "user" (somebody's), "blank" (fresh mkfs),
"copied", "configured", "bootable". `dirty` are the mounted partitions whose last
writes a power cut may take away.

`step` is the command the script has reached. Every command may fail, which ends
the script through `die` or `set -e` and the EXIT trap, except those the script
follows with `|| true`: a failing `dd` leaves the old table, and an `umount`
that finds its file system in use leaves it mounted, in step 1, in the trap and
after the success message (`CleanUp`; `held` are the mounts under the target
that are in use, and the root partition also stays while the ESP is mounted
below it). `Unmount` is step 1/9 as a whole (each `umount` of it is independent
of the others), `Fill` stands for the copying steps, where only the stage
reached matters. That `grub-install` may succeed under the kernel's old table
presupposes that the partition starts where the new table says; a smaller new
root at the same start is such a case, and a boot then fails all the same.

Around the script: `MountElsewhere`, `UnmountElsewhere`, `Use` (the service,
users, programs), `Terminate` (the window sends SIGTERM; the shell dies without
its trap, and a `cp` that lives on is one of those who hold the target, `Hold`),
`PowerLoss`, and `Again` (the installer is started again with the same answers).

What an earlier attempt left mounted could become the ground of the next one, for
mounting over it succeeds. `TargetIsFresh` says that it does not: `mkfs`, which
refuses a mounted partition, stops such an attempt before it mounts anything.

`DiskFate` says what all this should amount to: a disk with the running system's
own data (that is, with `/mnt/disk`, the only thing the script looks at, once,
before its first write) stays intact; nothing is reported that has not been
written; what was reported survives a power cut. `Fate` maps the detailed state
to "intact", "torn", "misplaced" (a complete system, but where the *old* table
says) and "installed". That a reported system may be misplaced is the weak spot
the run `install_boots` exhibits.

### InstallWindow and InstallSession

A callback runs to its end before the next one, so each is one action. The
exception is a callback that opens a dialog: the dialog's own main loop serves
every event source while the user thinks, so `Delete` (the question "Close
anyway?") and its answers are separate actions, and `Output` and `BackendExit`
may come between them. A modal dialog takes the window's input; `Clickable`
guards what the user does. `show_message`, opened only while no backend runs, has
nothing to interleave with and is part of its callback.

`life` and `file` follow the deployment of `/run/rezzinstall-backend.sh`: `Unlink`,
`Create` (O_EXCL), `Deployed` or `NotDeployed`, and its removal by atexit in
`Quit`. Another installer (`Others`) does the same to the same path at any time.
`filled` holds the pages whose entries are valid, `shown` what the summary says,
`agreed` what it said when the box was last ticked. The script writes lines into
two pipes of `PipeSize` lines and blocks on a full one; `error` follows its last
message into the log or out of existence. `pid` is `backend_pid`: zero or not.

The two modules about the installer meet in three places: `Install` with a
successful `Spawn` is the first step (or `Again`) of Installer, `AnswerYes` and
`OtherKills` are its `Terminate`, and its verdict is `script`. `InstallSession`
gives Installer what it takes for granted about one window: one attempt at a
time.

### Rcomp and XServer

The compositor is one loop, but the world it mirrors runs ahead of it: an event
in `queue` says what was so when it was sent, an answer to a request
(`XGetWindowAttributes`, `get_opacity`) what is so now. `XServer` has both: the
current tree and the events other programs' changes leave behind. `order` is the
stacking order of the root's children, `away` holds windows reparented into a
frame. `pixmap` numbers a window's off-screen pixmaps (a new one whenever it
becomes viewable or is resized), `ink` counts what was drawn on it, and Damage
reports once until it is subtracted. `Hidden` are windows never drawn: input-only
ones and rcomp's own selection window.

In `Rcomp`, `wins` is the linked list, `cache` what each entry holds, `busy` what
the loop is in the middle of. Handlers that make at most one round trip are one
action; `add_win` makes two and is three steps (`AddWin` within the handler,
`GetOpacity`, `AppendWin`); between `XPending` finding nothing (`BeginPaint`) and
`Paint` more may arrive. Starting up is the initial state, since the server is
grabbed: the list then has the server's order without the hidden windows.

Requests that need no answer (`XDamageCreate`, `XDamageSubtract`,
`XDamageDestroy`, `XSelectInput`) stay in Xlib's buffer while the events already
read are handled. `Ask` puts them into `requests`, and the server serves them
(`Serve`) at any later time, one by one; a round trip has to wait until it has
(`Answered`), for the server serves a client's requests in order. So `add_win` may
be over, and other events handled, long before the server reports damage or
property changes of its window. `paint` ends with a flush, and what it draws is
served after all that came before.

`screen` is the set of drawings the last paint made (which covers which is the
order of the list). `misled` records the two ways in which the list does part
from the server's order: an event named a sibling the list does not hold, or a
window of the list was reparented from the root to the root, which raises it and
which `add_win` ignores. `Stack` turns a list without duplicates into the pairs
"below or the same", in which two orders are compared (`InOrder`). `OrderReplayed`
says that nothing else makes them differ.

`UpToDate` is the promise of a compositor: when nothing is left to handle or to
paint, the screen shows every viewable window from its current pixmap, at its
current size, with everything drawn. It is not about one handler, but about every
order in which older events meet newer answers.

No invariant can say that the opacity of an entry is right: `add_win` reads it
before it selects the window's property changes, and a change in between is lost.
Nor does it end with `add_win`, whose `XSelectInput` may lie in Xlib's buffer for a
while. `OpacityKept` says how far the loss goes: an entry that is right, or about
to be corrected (`OpacityKnown`), gets wrong only by a change before the server
has got that request (`Unselected`), and each later change gets through, so that
the next one repairs what was lost.

### ControlCenter

`run_async` starts a command, makes the notebook insensitive and returns; from
then on the command (`Acts`, `Writes`, `Ends`), the main loop (`OnLineRead`,
`OnProcWaited`) and the user interleave. `cmd` holds what the handler passed:
the kind of command, the callback for its end and, for a static network, the
entries as they were when the button was pressed. `wait` is the asynchronous
call outstanding, `holders` the processes that have the pipe's writing end (a
daemon that inherited it would keep the loop waiting for lines after the command
is over; of the commands only DHCP leaves one behind, udhcpc, whose output is
redirected, and the others, among them `pkg`, which is not in the repository,
are taken to leave none), `pipe` and `left` the lines in it and still to come.
Commands whose effect the window shows are told apart by `kind`; a handler that
finds its entries empty or invalid only writes to the log and is left out.

`sys` and `form` are the system's settings and the Network tab's entries: a
mask goes with its address and there is one interface. Of the rest only whether
it is up to date is kept: `stale` are the items shown that no longer agree with
the system, `foreign` those of them that somebody else changed. A closed window's
command goes on as one of `Elsewhere`'s programs, until it writes into the closed
pipe.

### Rtop

`refresh_all` reads the system's total, empties the list and walks through
`/proc`; the walk is one action per pid (`ReadProcess`), because processes run,
end and start meanwhile and a pid may be taken over. `prev` and `new` are the
two hash tables from pid to ticks. Their 0 is the code's null pointer, so
"absent" and "had used nothing" are the same there, as they are in the code.
`row` is the list: whose row there is for a pid and the numerator of its CPU
share (`dtotal`, the denominator, is kept only as "positive or not", `counts`).
A question is open while `dialog` is not "none"; the timer goes on (`OnTimer`),
empties the list and with it the selection, and so the pid is taken when the
question is opened (`target`). Signals go to whoever has the pid when the answer
is Yes. `seen` is a history variable: whose ticks were last read under a pid.

### DataDisk and SwapFile

A *place* is a disk or the installed system's root partition; `top` and `file`
are its top-level names and saved settings, `swap` its swap file. `origin` is a
history variable that never changes: what each disk was at first. Somebody's own
files come in three kinds: with nothing init looks for, with a swap file, and with
a directory `packages`. Init takes the last two for RezzOS's (init:112-114), and
so does the model.

`Boot` takes any set of attached disks. In live mode it mounts one after the
other, read-write, and leaves the first that `LooksLikeRezzDisk` accepts; the
order is the kernel's and may be any. `tried` are the disks mounted by this boot,
the rejected ones among them. A trial changes no file; that ext4 may replay its
journal and writes its superblock then is below what the model sees. An installed
system mounts its own data partition through fstab or none. `Restored` says, per
setting and mode, which place init takes it from; `InForce` that a file that says
nothing is like no file.

A change of a setting is two steps, `Set`, `Dhcp` or `DnsOnly` (the running
system and `/etc`) and `Save`, `SaveFails` or `SaveNowhere` (the disk), and may be
killed between them or within a write (`Interrupt`). Each write may fail, which no
tool looks at: on an installed system the one to `/etc` (the job's `etc` says
whether it went well), and the one to the disk, full or read-only (`SaveFails`).
A write that went wrong (`Botched`) has changed nothing, has only made the
directory, or has left a file that says nothing. The settings stand for the ways
of saving: a network file that DHCP removes and DNS-only rewrites in part; host
name, time zone and keymap, which live in `/etc` too, and of which the keymap is
saved by copying the file there; the font, whose tool does not make the directory
it saves in. What a setting does to the running system at once is not kept as
state, since nothing here reads it. Each setting has one command at a time, and
so has swap.

`dirty` are the files not yet written back. A power cut with such files leaves
the machine "lost", and each of them is resolved on its own: written back
after all, or found older, empty or gone. A directory once made is taken to be on
the disk. `Shutdown` and `Hibernate` sync first.

`told` and `promised` are history variables: what an undisturbed command saved,
without its write failing, in the place the next boot looks (`Keeps`), and disks
whose swap file was said to be activated. A power cut withdraws what was not
written back. The tools print the same message when the write failed, so `told`
is less than what they say; a change whose write failed costs that setting and,
as `SavedComesBack` shows, no other.

`SwapFile` has the tool's commands, each of which may fail: `create` is three of
them and can stop after any, `remove` either works or leaves everything as it
is. A hibernation writes its image over the swap signature; no boot passes
`resume_offset`, so the image is never read, and the file cannot be activated
before it is made again. A machine that was suspended instead is as before, with
its swap on.

`DataDisk` and `Services` meet in `mounted`: the boots there with and without
the disk are the boots here that mount it or not.

## Runs

| run | instance | states | shows |
|---|---|---|---|
| `services` | 1 service, 2 actors, 3 images, both modes | 208 k | the three promises, no dangling links |
| `usb` | 2 disks (one persistent), 2 + 1 partitions, 2 names, 2 terminals | 376 k | a reported mount is lost only to a clean-up that had looked before the report, the persistent disk is left alone, eject waits for busy programs, both loops make progress |
| `usb_safe` | same | - | violated: "Safe to unplug" while the service has mounted a partition again |
| `installer` | both firmwares, three old tables, 2 attempts | 568 k | the script implements DiskFate, never mounts its target over an earlier attempt's, and every attempt ends |
| `install_boots` | same, 1 attempt | - | violated: success reported, nothing where the next boot looks |
| `window` | 2 disks, 3 lines, pipes of 2, another installer | 16 k | the backend gets what the user agreed to; the window implements InstallSession; Install leads to a result |
| `window_exit` | same, no other installer | - | violated: the script is not removed when SIGTERM went to pid 0 |
| `rcomp` | 2 windows, a third to be created, with or without an input-only one between; 3 changes | 1,114 k | at rest, the screen is what the server has, and so is the order unless an unknown sibling was named or a window raised by reparenting; an opacity is lost only to a change before the server has the selection of its window's property changes; the compositor comes to rest |
| `control` | 2 addresses, 2 lines, a pipe of 1 | 101 k | no click is refused, the log is complete, a free window shows what its commands did, typing is kept, every command frees the window |
| `rtop` | 2 pids, 3 processes, 2 ticks each | 451 k | rows never charge a process with another one's ticks; the list follows the system, also under a question |
| `datadisk` | 2 disks (one RezzOS's or fresh, the other fresh, a foreign root or somebody's files without or with what init looks for), 3 settings, both modes, 3 commands | 1,761 k | what was saved or activated is there after any boot that has the disk; no file of a stranger's disk is changed |
| `saved_setting` | same, the network only | - | violated: a setting "saved (persists across reboots)" alone on a fresh disk is not restored, because init does not take the disk for one of RezzOS's |

Why the bounds are enough. Services never affect each other except through the
actors' `pc`, so one name and two actors give every interleaving of two commands
on one name; a third actor adds nothing a promise could see, since an overlapped
command makes no promise. Reboots and power cuts are unbounded. In `usb`, two
partitions are the least that makes eject's loop interesting, two names the
least that lets a disk return under another one, and two terminals let commands
overlap commands as well as the service. In `installer`, two attempts cover a
retry after every kind of end; the old tables are an empty disk, one with fewer
partitions than the new table and one with more. Every partition of theirs holds
somebody's file system (`Leftovers`); one with nothing on it is only one that
cannot be mounted. In `window`, two disks are the least that makes a stale
choice visible, and three lines against pipes of two block the script at least
once. In `rcomp`, a third window gives a restacked one something to pass and be
compared with, and three changes made before any of their events is handled give
every pair of a stale event and a newer answer, with one more change behind
them. In `control`, two addresses let what is typed differ from what the system
has, and a pipe of one line blocks a command of two. In `rtop`, three processes
on two pids are the least that lets a pid be taken over while another process
goes on, and two ticks let one of them come before and one after a sample; the
machine ends up with no processes left to start, so `TableFollows` speaks of
what happens once births and ticks cease, which is when a list can catch up. In
`datadisk`, three commands suffice for a save, something that disturbs it and a
second attempt (or a mark, a save and a swap file on a disk at first empty); the
three settings are one of each way of saving. Somebody's own files beside a swap
file stand for those beside `packages` too, which only the proofs treat. Boots,
power cuts and the steps of a command once given are unbounded.

`MaxRuns` (Installer), `MaxChanges` (XServer), `MaxBirths` and `MaxTicks` (Rtop)
and `MaxCommands` (DataDisk) are the only bounds in guards.
Deadlock is checked except for Installer, where the machine may be off and the
attempts used up, and Rcomp, where the programs' changes are.

## Fairness

- `Services`: none; its promises are about what a later boot finds, and a command
  need not go on.
- `UsbVolumes`: weak fairness of the service for each volume (`MountDev` or
  `Look`) and of the umount after a look. Its loops visit every device and every
  directory every three seconds. The first is stated for the bodies of
  `AutoMount` and `SweepLook`, without the guard that the service is not between
  the two steps of another clean-up: a volume that stays due is attended to
  although the service is, now and then, occupied with others. Users and programs
  owe nothing.
- `Installer`: weak fairness of the script: each command ends, one way or the
  other. Nothing is assumed of anybody else.
- `InstallWindow`: weak fairness of the script's writing and ending and of each
  event source. GLib dispatches every ready source of one priority in each turn
  of a main loop, and a dialog's loop serves the same sources. The user need
  never answer a question or click anything.
- `Rcomp`: weak fairness of the compositor's next step and of the server's
  serving its requests. The compositor is one loop that never leaves anything
  undone while an event is pending or `dirty` is set, and Xlib sends what it has
  buffered before it waits for an event or an answer;
  `SettlesDown` speaks of the programs pausing, which `MaxChanges` forces.
- `ControlCenter`: weak fairness of the two callbacks the main loop serves and of
  the command's writing and ending. The tools the window starts give up by
  themselves (the DHCP client after its tries, ping after four answers).
- `Rtop`: weak fairness of the walk, which is a loop without waiting, and of the
  timer. No answer to a question is assumed.
- `DataDisk`: none; it has no liveness property. Nobody owes a setting.

## Proofs

`ServicesProofs` proves, for any set of services, actors and images:

1. `TypeCorrect`: `Spec => []TypeOK`.
2. `LinksAlwaysResolve`, `EnabledIsKept`, `DisabledIsKept`, `VouchedIsKept`: the
   safety properties the run `services` checks.

The three promises are not inductive. `IInv` (at the end of `Services`)
strengthens them with `Sole` (an undisturbed command has its service for
itself), `Progress` (what a command has established by the time it reaches each
step: for example, an undisturbed `rsv disable` past its first call knows that
the marker is gone) and `Kept` (the promises in a form that also holds while the
disk is absent, when they are only about the marker). The proof has one lemma
per action. Actions of one actor share `FrameIInv`, which says that what the
others have established is not disturbed by changes to the acting actor's own
service, because an undisturbed command is alone.

The only assumption on constants is `ServicesAssumption`: images link only
services they ship, modes are "live" or "disk", and `NoJob` is not a job.

`InstallerProofs` proves, for either firmware, any old partition table, any
number of attempts (`MaxRuns`) and any behaviour of the other users of the disk:

1. `TypeCorrect`: `Spec => []TypeOK`.
2. `TargetsAreFresh`: `Spec => []TargetIsFresh`.
3. `PromiseKept`: `Spec => KeepsItsPromise`, the refinement of `DiskFate`.

The refinement does not follow from the steps alone: a write under the kernel's
names may complete or destroy a system under the names of the new table. `IInv`
(at the end of `Installer`) adds to `TypeOK` four conjuncts. `TwoViews` says
that two names of the same sectors agree and that what only the new table
describes is untouched while the kernel goes by the old one; hence whether a
complete system counts as installed or as misplaced is decided by the two tables
alone, and no write turns one into the other. `Reached` says what the script has
established by the time it reaches each step: that the disk holds nothing
precious once past the check, that the partitions it needs are mounted, that a
complete system lies under the kernel's view at `sync`, and that nothing is left
to write back at `release` and after a success, so that a power cut then loses
nothing. `Pristine` says that a disk with its old table has not been written to
otherwise, though the wipe may have failed, and `Made` what is under the target
mount and that the fresh file systems stay as mkfs made them until they are
mounted, from which the second theorem follows. There is one lemma per action
for `IInv`, and one per kind of step for the refinement. The only assumption on
constants is `InstallerAssumption`.

`InstallWindowProofs` proves, for any disks, any number of lines, any pipe size,
with and without another installer:

1. `TypeCorrect`: `Spec => []TypeOK`.
2. `ConsentIsKept`: `Spec => []ConsentCovers`.
3. `SessionIsKept`: `Spec => KeepsSession`, the refinement of `InstallSession`.

`IInv` (at the end of `InstallWindow`) adds `InOrder` (each page behind the
current one has been validated, and a ticked box was ticked for the disk shown),
which makes `ConsentCovers` inductive, and `Attempt` (a running script has its
window and its pid, a known pid means no result yet, and both belong to the last
page), which the refinement needs. Steps are grouped by what they leave alone:
`AsideIInv`, `OutputIInv` and `PageIInv` each prove the invariant for one kind.
The only assumption is `WindowAssumption`.

`UsbVolumesProofs` proves, for any disks, partitions, names and terminals:

1. `TypeCorrect`: `Spec => []TypeOK`.
2. `MountsStay`: `Spec => ReportedMountsStay`, an action property.
3. `PersistentIsLeft`: `Spec => []PersistentLeftAlone`.
4. `EjectHasReleased`: `Spec => []EjectReleases`.

`IInv` (at the end of `UsbVolumes`) adds what ties these to the commands under
way: `KeptHere` (a volume reported as mounted has its device node, so that the
service's second loop passes it over), `Settled` (a data disk that was never
pulled has its one name, and no command was given that name) and `Draining`
(what programs have kept open since an eject began is still ahead of it, unless
the eject has failed). The assumption is `UsbAssumption`.

`ControlCenterProofs` proves, for any addresses, lines and pipe size:

1. `TypeCorrect`: `Spec => []TypeOK`.
2. `NoneIsRefused`, `OutputIsShown`, `StatusIsCurrent`: the three invariants the
   run `control` checks.
3. `TypedIsKept`: the action property `TypedKept`.

`IInv` (at the end of `ControlCenter`) adds `Alone` (a busy window is open,
insensitive and has no question open, which is why nothing can be refused),
`Piping` (the pipe's writers are the running command and nobody else; the loop
waits for the process only after the last line) and `Owed` (what the running
command may change is what its callback will show, and nothing else is out of
date because of the window itself). `Covered` is the fact about the buttons that
this comes down to: each passes a callback that shows the command's effect. The
assumption is `ControlAssumption`.

`RtopProofs` proves, for any pids, any number of processes and any ticks:

1. `TypeCorrect`: `Spec => []TypeOK`.
2. `RowsAreHonest`: the action property `RowsHonest`.

`IInv` (at the end of `Rtop`) relates the hash tables to the processes:
`Measured` says that the table in force for a pid (the new one where the walk
has been, the old one where it has not) has what was last read there, and for a
process still alive no more than it has used; `Born` that processes are
not born twice, so that one met again is the same; `Fresh` that nothing has
been written ahead of the walk. The assumption is `RtopAssumption`.

`DataDiskProofs` proves, for any disks, settings, values, modes and number of
commands:

1. `TypeCorrect`: `Spec => []TypeOK`.
2. `SavedIsKept`: `Spec => SavedComesBack`, the action property about boots.
3. `SwapIsKept`: `Spec => SwapComesBack`.
4. `StrangersAreLeft`: `Spec => StrangersLeftAlone`.

The second is about changes whose writes did not fail, the fourth about disks that
at first have another system's root or nothing init looks for.

`IInv` (at the end of `DataDisk`) has the promises in a form that holds between
boots (`Kept`, `Promises`: the file says what was told and is not among those a
power cut may still take), where they are binding (`Keepers`), that nothing of a
disk not to be used is mounted or pending and that what a disk was at first still
shows (`Mounts`, `Strangers`), and what a command between its halves has done
already (`InEtc`, `Idle`). The assumptions
are `DataDiskAssumption` and `SwapFileAssumption`.

`RcompProofs` proves, for any windows, hidden ones among them, any stacking order
to start from and any number of changes by other programs:

1. `TypeCorrect`: `Spec => []TypeOK`; the list never has a window twice.
2. `ScreenIsCurrent`: `Spec => []UpToDate`.
3. `OrderIsReplayed`: `Spec => []OrderReplayed`.
4. `OpacityIsKept`: `Spec => OpacityKept`.

The second and the third speak of the moment when nothing is left to do, and say
nothing of the states on the way there. `IInv` (at the end of `Rcomp`) says of
every other state and every window that either what rcomp has agrees with the
server or an event that will correct it is on its way: whether the window is in
the tree (`Tree`), is viewable (`Seen`, `Unseen`), of which size it is
(`Sized`), that an old picture will be dropped (`Pictured`), that damage has
been reported or asked for (`Damaged`), and what of it is on the screen while
nothing is to be painted (`Painted`), which is never so with a request on its
way. What makes this inductive is how events about one window are ordered in the
queue: none that adds a window is there while it is listed unless one that
removes it comes first (`Behind`), and between two that add it one removes it
(`Spaced`). That is also why `add_win` may ask the server at once although the
event it handles is old: the answer is newer than the events behind it, and
those still change it to what the server has.

The order cannot be said window by window. `Replayed` says instead that there is
a stack `R` that the list fits (`Fits`) and from which the events on their way
lead, one by one, to the server's order (`Leads`, by what each event makes of a
stack, `Replays`). Handling an event applies to the list what `Replays` applies
to `R`; a window between `add_win`'s two answers is already on top of `R`. A
sibling the list does not hold, and a listed window reparented to the root, are
where the two part, which `misled` records.

`OpacityKept` needs one fact more (`Selected`, proved as `AlwaysSelected`): the
server has, or is on its way to get, the selection of the property changes of
every window in rcomp's list that no event on its way drops. With `Tree` it
makes a change to a listed window either reported or without effect, because the
entry is about to go.

The lemmas before these are about sequences in general: what appending to a queue
and taking its head do to `Some`, `Lasting`, `Behind` and `Spaced`, and which
pairs `Without`, `OnTop`, `Above` and `Beneath` leave in a stack. Every handler
and every action of another program has one lemma for the window it is about;
`Elsewhere` covers all the others. The assumption is `XServerAssumption`.

Every invariant and every safety action property a run checks is thus also a
theorem. Only model-checked are the liveness properties (`GoneIsReleased`,
`PluggedIsMounted`, `AttemptsEnd`, `EndsInResult`,
`SettlesDown`, `Freed`, `TableFollows`), which are out of the prover's reach.

## What the runs found

- `usb_safe`: `rezzusb eject` says "Safe to unplug" while `usbmount` may have
  mounted a partition again.
- `install_boots`: rezzinstall's script ignores a failing re-read of the
  partition table and may install by a table that is no longer on the disk.
- `window_exit`: closing the installer just after the backend ended may send
  SIGTERM to the installer's whole process group.
- `saved_setting`: a setting saved on a fresh data disk, and nothing else there,
  makes the disk one that init does not recognise at the next boot: not empty
  any more, and with none of the marks it looks for.

Seen in the models, without a run of its own:

- `systemctl enable`, `rsv enable` and the GUI stop at an existing link, so
  rezzdoctor's advice to re-run enable does not restore a missing marker; it
  says "enabled services will come back after a reboot"
  (usr/bin/rezzdoctor:128) also for services made with `rsv create` on a live
  system, whose directories are in RAM.
- `usbmount` unmounts a directory after having found its device node gone
  (etc/sv/usbmount/run:92-93): a user who unmounts it, plugs the disk in again
  and mounts it between the two lines loses a mount that rezzusb has reported.
  `ReportedMountsStay` says that nothing else takes one away.
- `rezzusb fsck` tests once that a volume is not mounted (usr/bin/rezzusb:279),
  and `usbmount` may mount a vfat volume under the running checker.
- The installer's "Seeding persistent data partition" writes to the root
  partition (src/rezzinstall.c:326-347), and its window drops the error message
  a failing script ends with when the pipe's hang-up comes first (:977, :1028).
- rcomp puts a window placed above an input-only one on top of its list
  (src/rcomp.c:37, :86), and leaves a window where it is that was reparented from
  the root to the root, which the server puts on top (:124, :254). It reads a new
  window's opacity (:137) before it selects its property changes (:139), a request
  that moreover may stay in Xlib's buffer while queued events are handled; a
  change before the server gets it is lost.
- The settings window's "Refresh from system" keeps the old gateway in its entry
  when there is none any more (src/rezzconfig.c:401).
- The tools that save a setting do not look whether the copy to the data disk
  worked: on a full or read-only disk rezzconfig still says "Static config applied
  and saved (persists across reboots)" (src/rezzconfig.c:603-604), "DNS updated and
  saved", "Hostname changed to ... successfully!" (:760-761), rezztz and rezzkeymap
  that the new value is set (usr/bin/rezztz:69-72, usr/bin/rezzkeymap:50), and the
  next boot does not have it. `SaveFails` is that step; `SavedComesBack` only
  speaks of writes that worked.
- init takes any ext4 disk with a `packages`, a `services` or a swap file on it for
  its own (init:112-114), somebody else's too: settings and swap are then saved
  there. `StrangersLeftAlone` speaks of disks that have none of these at first, and
  of disks with a root file system. Also those a live boot mounts once, read-write,
  to look (init:122).
- The font tool does not make `/mnt/disk/etc`, so on a fresh disk its save
  fails without a word, and no installed system applies the saved font.
- `swap remove` says "removed successfully" also if swapoff failed and the kernel
  kept the file; a hibernation image is never resumed.
- The monitor shows 0 % for a process that had used nothing at the sample
  before, and may show more than 100 %, because the total is read before the
  processes are; a pid taken over between the question and the Yes receives the
  signal.

Seen while reading: `rezzrecovery enter` (usr/sbin/rezzrecovery:64)
writes a flag that no boot script reads, and into RAM on a live system, although
it says "reboot the system to enter recovery mode"; the installer's Reboot Now
calls `systemctl reboot` (src/rezzinstall.c:1263), which RezzOS's systemctl
answers with its usage text, so the fallback to `/sbin/reboot` is never reached.

## Not modelled

Drawing, layout, forms and their validation, text of messages; the contents of
configuration files beyond what DataDisk tells apart; sizes and names of
partitions; `pkg`, of which the repository has only the binary; `build.sh`;
daemons behind the service scripts.

- In Services: failures of single file-system calls other than `symlink(2)` on
  an existing link, and `runsvdir`'s own restarts.
- In UsbVolumes: other ways of mounting under `/mnt/usb`.
- In Installer: a full disk is a failing command, and commands other than `cp`
  that outlive a terminated shell are taken to end before anything else happens.
- In InstallWindow: choice of keyboard and font, the pulse timer, a read error
  on a pipe, and the moment between GLib's reaping of the child and the callback
  that clears `backend_pid`.
- In Rcomp: a resized root, Expose (which only sets `dirty`), positions, shadows
  and blending, and the loss of the display.
- In ControlCenter: `set_password`, which waits in place for chpasswd and keeps
  nothing; programs it starts and forgets (the installer, the keymap chooser);
  the validators of entries; a read error on the pipe.
- In Rtop: graph, bars and sort order, which are functions of one sample.
- In DataDisk: a read that fails at boot; the accounts and home directories init
  restores, which no tool in the repository saves, and Wi-Fi profiles; installed
  systems without their own root; two commands on the same setting at once.

Not modelled as wholes: the small tools that keep nothing between calls
(reports, about box, fetch, help), `swap-offset` (its answer is only used for
the boot argument nobody passes), and `rezzrecovery`.

## Plan

Done: services, removable disks, the installer's two halves, the compositor, the
data disk with swap and power, the settings window, the process monitor, and
proofs for all of them.

Left, in order of what matters most:

1. Init's other restores (accounts, homes, Wi-Fi) in `DataDisk`, with the tools
   that save them.
2. Abstract specifications for `DataDisk` (a store of settings with crashes) and
   `ControlCenter` (one command at a time), and their refinements.
3. Two settings tools on one setting at once, from a terminal and from the window:
   `ControlCenter`'s commands composed with `DataDisk`'s halves.
