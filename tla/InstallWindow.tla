---------------------------- MODULE InstallWindow ----------------------------
(***************************************************************************)
(* The window of src/rezzinstall.c: the script file it deploys in /run,    *)
(* its pages, the start and the end of the backend, the two pipes the      *)
(* backend writes to, and closing.                                         *)
(*                                                                         *)
(* The window is one thread: an action is one callback of its main loop,   *)
(* run to its end.  A dialog runs a main loop of its own inside the        *)
(* callback that opened it: it is modal, so the user can only answer it,   *)
(* but the backend's output and end are handled meanwhile.                 *)
(*                                                                         *)
(* What the backend does to the disk is module Installer; here it only     *)
(* writes lines and ends.  A line is anonymous but for the error message   *)
(* a failing script ends with.                                             *)
(***************************************************************************)
EXTENDS Naturals

CONSTANTS
    Disks,      \* what the disk page may offer
    NoDisk,
    Lines,      \* progress lines of an attempt
    PipeSize,   \* lines a pipe holds
    Others      \* whether another installer may run at the same time

ASSUME WindowAssumption ==
    /\ NoDisk \notin Disks
    /\ Lines \in Nat
    /\ PipeSize \in Nat \ {0}
    /\ Others \in BOOLEAN

Stream == {"out", "err"}
Form   == {2, 3}              \* the pages with entries to fill in
Summary  == 5
Progress == 6                 \* the last page

VARIABLES
    life,       \* "off", "unlinked", "writing" or "open"
    file,       \* /run/rezzinstall-backend.sh, by whom and whether complete
    page,       \* current_page
    disk,       \* what disk_combo holds
    filled,     \* the forms whose entries are valid
    shown,      \* the disk summary_label names
    confirmed,  \* confirm_check, and with it install_btn
    agreed,     \* the disk shown when the box was last ticked
    dialog,     \* the modal dialog: "none", "close" or "reboot"
    pid,        \* backend_pid: 0 or 1
    done,       \* install_done
    ok,         \* install_ok
    script,     \* the backend: "none", "running", "ok", "failed", "killed"
    left,       \* progress lines it has still to write
    pipe,       \* lines in each pipe
    watch,      \* the streams whose channel is open
    error       \* its message: "none", "sent", "shown" or "lost"

form    == <<page, disk, filled, shown, confirmed, agreed>>
result  == <<done, ok>>
backend == <<script, left, pipe, watch, error>>
vars    == <<life, file, form, dialog, pid, result, backend>>

Init ==
    /\ life = "off"
    /\ file \in {"absent", "theirs"}
    /\ page = 0 /\ disk \in Disks \cup {NoDisk} /\ filled = {2}
    /\ shown = NoDisk /\ confirmed = FALSE /\ agreed = NoDisk
    /\ dialog = "none" /\ pid = 0 /\ done = FALSE /\ ok = FALSE
    /\ script = "none" /\ left = 0 /\ pipe = [c \in Stream |-> 0]
    /\ watch = {} /\ error = "none"

-----------------------------------------------------------------------------
(* Deploying the script, and taking it away                                *)

\* A stale file, or one another installer is about to run, is removed.
Unlink ==
    /\ life = "off"
    /\ life' = "unlinked" /\ file' = "absent"
    /\ UNCHANGED <<form, dialog, pid, result, backend>>

\* O_EXCL: the file of an installer that came first makes this one give up.
Create ==
    /\ life = "unlinked"
    /\ IF file = "absent" THEN life' = "writing" /\ file' = "ours, partial"
       ELSE life' = "off" /\ UNCHANGED file
    /\ UNCHANGED <<form, dialog, pid, result, backend>>

\* The disk page is built with the first disk found, the size left blank and
\* the passwords empty.
Deployed ==
    /\ life = "writing"
    /\ life' = "open"
    /\ file' = IF file = "ours, partial" THEN "ours" ELSE file
    /\ page' = 0 /\ disk' \in Disks \cup {NoDisk} /\ filled' = {2}
    /\ shown' = NoDisk /\ confirmed' = FALSE /\ agreed' = NoDisk
    /\ dialog' = "none" /\ pid' = 0 /\ done' = FALSE /\ ok' = FALSE
    /\ script' = "none" /\ left' = 0 /\ pipe' = [c \in Stream |-> 0]
    /\ watch' = {} /\ error' = "none"

\* write or close fails; whatever is at the path is removed.
NotDeployed ==
    /\ life = "writing"
    /\ life' = "off" /\ file' = "absent"
    /\ UNCHANGED <<form, dialog, pid, result, backend>>

\* gtk_main returns, and atexit removes what is at the path.
Quit ==
    /\ life' = "off" /\ file' = "absent" /\ dialog' = "none"
    /\ UNCHANGED <<form, result>>

-----------------------------------------------------------------------------
(* The pages                                                               *)

\* A button of the window can be clicked.
Clickable == life = "open" /\ dialog = "none"

\* Mutant: the box stays ticked when the summary is shown again.
ShowPageTicked(p) ==
    /\ page' = p
    /\ shown' = IF p = Summary THEN disk ELSE shown
    /\ UNCHANGED confirmed

ShowPage(p) ==
    /\ page' = p
    /\ shown' = IF p = Summary THEN disk ELSE shown
    /\ confirmed' = (p # Summary /\ confirmed)

\* validate_page: an invalid page is not left, it only shows a message.
Valid ==
    /\ page = 1 => disk # NoDisk
    /\ page \in Form => page \in filled

\* The choice of the user, or what populate_disks selects when the list is
\* refreshed and the disk is gone.
ChooseDisk ==
    /\ Clickable /\ page = 1
    /\ disk' \in (Disks \cup {NoDisk}) \ {disk}
    /\ UNCHANGED <<life, file, page, filled, shown, confirmed, agreed, dialog,
                   pid, result, backend>>

Edit ==
    /\ Clickable /\ page \in Form
    /\ filled' \in {filled \cup {page}, filled \ {page}} \ {filled}
    /\ UNCHANGED <<life, file, page, disk, shown, confirmed, agreed, dialog,
                   pid, result, backend>>

\* Mutant: the Back button is visible on the last page, too.
BackVisibleLast == page > 0

\* back_btn is visible between the first and the last page.
BackVisible == page > 0 /\ page < Progress

Back ==
    /\ Clickable /\ BackVisible /\ ~done
    /\ ShowPage(page - 1)
    /\ UNCHANGED <<life, file, disk, filled, agreed, dialog, pid, result, backend>>

NextPage ==
    /\ Clickable /\ page < Summary /\ Valid
    /\ ShowPage(page + 1)
    /\ UNCHANGED <<life, file, disk, filled, agreed, dialog, pid, result, backend>>

Confirm ==
    /\ Clickable /\ page = Summary
    /\ confirmed' = ~confirmed
    /\ agreed' = IF confirmed' THEN shown ELSE agreed
    /\ UNCHANGED <<life, file, page, disk, filled, shown, dialog, pid, result, backend>>

-----------------------------------------------------------------------------
(* The backend and its output                                              *)

\* finish_installation
Finish(good) == done' = TRUE /\ ok' = good

\* The size is parsed again, and exec needs a file nobody is still writing.
Spawn ==
    /\ 2 \in filled
    /\ file \in {"ours", "theirs"}
    /\ script' = "running" /\ pid' = 1
    /\ left' = Lines /\ pipe' = [c \in Stream |-> 0] /\ watch' = Stream
    /\ error' = "none"
    /\ UNCHANGED result

\* An unreadable size, no script to run or no process to run it in: the
\* window says so itself.
CannotSpawn ==
    /\ Finish(FALSE) /\ error' = "shown"
    /\ UNCHANGED <<pid, script, left, pipe, watch>>

\* on_install_clicked
Install ==
    /\ Clickable /\ page = Summary /\ confirmed /\ ~done
    /\ ShowPage(Progress)
    /\ Spawn \/ CannotSpawn
    /\ UNCHANGED <<life, file, disk, filled, agreed, dialog>>

\* Writing blocks on a full pipe.
WriteLine ==
    /\ script = "running" /\ error = "none" /\ left > 0 /\ pipe["out"] < PipeSize
    /\ left' = left - 1
    /\ pipe' = [pipe EXCEPT !["out"] = @ + 1]
    /\ UNCHANGED <<life, file, form, dialog, pid, result, script, watch, error>>

Complain ==
    /\ script = "running" /\ error = "none" /\ pipe["err"] < PipeSize
    /\ error' = "sent"
    /\ pipe' = [pipe EXCEPT !["err"] = @ + 1]
    /\ UNCHANGED <<life, file, form, dialog, pid, result, script, left, watch>>

\* A script that complained fails; one may also fail with its message
\* suppressed, and succeeds only when all is written.  It does not end while
\* it is blocked.
ScriptEnds ==
    /\ script = "running"
    /\ error = "none" /\ left > 0 => pipe["out"] < PipeSize
    /\ script' \in IF error = "none" /\ left = 0 THEN {"ok", "failed"} ELSE {"failed"}
    /\ UNCHANGED <<life, file, form, dialog, pid, result, left, pipe, watch, error>>

Script == WriteLine \/ Complain \/ ScriptEnds

\* on_backend_output: the first lines of the pipe are appended to the log; but
\* once the script has ended, the channel is closed with what is still in it.
Output(c) ==
    /\ life = "open" /\ c \in watch
    /\ \/ /\ script = "running"
          /\ \E n \in 1 .. pipe[c] :
                /\ pipe' = [pipe EXCEPT ![c] = @ - n]
                /\ error' = IF c = "err" /\ error = "sent" /\ n = pipe[c]
                            THEN "shown" ELSE error
          /\ UNCHANGED watch
       \/ /\ script # "running"
          /\ watch' = watch \ {c}
          /\ pipe' = [pipe EXCEPT ![c] = 0]
          /\ error' = IF c = "err" /\ error = "sent" THEN "lost" ELSE error
    /\ UNCHANGED <<life, file, form, dialog, pid, result, script, left>>

\* Mutant: a dialog holds back the child watch.
BackendExitAlone ==
    /\ Clickable /\ pid # 0 /\ script # "running"
    /\ pid' = 0
    /\ Finish(script = "ok")
    /\ UNCHANGED <<life, file, form, dialog, backend>>

\* on_backend_exit
BackendExit ==
    /\ life = "open" /\ pid # 0 /\ script # "running"
    /\ pid' = 0
    /\ Finish(script = "ok")
    /\ UNCHANGED <<life, file, form, dialog, backend>>

-----------------------------------------------------------------------------
(* Leaving                                                                 *)

\* on_reboot_clicked, and either answer: the window is the same afterwards.
AskReboot ==
    /\ Clickable /\ page = Progress /\ done /\ ok
    /\ dialog' = "reboot"
    /\ UNCHANGED <<life, file, form, pid, result, backend>>

CloseButton ==
    /\ Clickable /\ page = Progress /\ done
    /\ Quit
    /\ UNCHANGED <<pid, backend>>

\* Mutant: the question is asked as long as nothing is installed.
DeleteAsks ==
    /\ Clickable
    /\ IF ~done
       THEN dialog' = "close" /\ UNCHANGED <<life, file, form, result>>
       ELSE Quit
    /\ UNCHANGED <<pid, backend>>

\* on_delete_event, up to its question.
Delete ==
    /\ Clickable
    /\ IF ~done /\ pid > 0
       THEN dialog' = "close" /\ UNCHANGED <<life, file, form, result>>
       ELSE Quit
    /\ UNCHANGED <<pid, backend>>

AnswerNo ==
    /\ life = "open" /\ dialog # "none"
    /\ dialog' = "none"
    /\ UNCHANGED <<life, file, form, pid, result, backend>>

Terminated == script' = IF script = "running" THEN "killed" ELSE script

\* "Close anyway?" -- Yes
AnswerYes ==
    /\ life = "open" /\ dialog = "close" /\ pid # 0
    /\ Quit /\ Terminated /\ pid' = 0
    /\ UNCHANGED <<left, pipe, watch, error>>

\* The same answer after the backend ended behind the question: kill(0) reaches
\* the installer itself, which dies without its atexit handler.
AnswerYesTooLate ==
    /\ life = "open" /\ dialog = "close" /\ pid = 0
    /\ life' = "off" /\ dialog' = "none"
    /\ UNCHANGED <<file, form, pid, result, backend>>

-----------------------------------------------------------------------------
(* Another installer                                                       *)

\* Its start or its end.
OtherUnlinks ==
    /\ Others /\ file # "absent"
    /\ file' = "absent"
    /\ UNCHANGED <<life, form, dialog, pid, result, backend>>

OtherWrites ==
    /\ Others
    /\ \/ file = "absent" /\ file' = "theirs, partial"
       \/ file = "theirs, partial" /\ file' = "theirs"
    /\ UNCHANGED <<life, form, dialog, pid, result, backend>>

\* Its AnswerYesTooLate, when both were started from the same window.
OtherKills ==
    /\ Others /\ life # "off"
    /\ life' = "off" /\ dialog' = "none"
    /\ Terminated
    /\ UNCHANGED <<file, form, pid, result, left, pipe, watch, error>>

Other == OtherUnlinks \/ OtherWrites \/ OtherKills

User ==
    \/ ChooseDisk \/ Edit \/ Back \/ NextPage \/ Confirm \/ Install
    \/ AskReboot \/ CloseButton \/ Delete
    \/ AnswerNo \/ AnswerYes \/ AnswerYesTooLate

Next ==
    \/ Unlink \/ Create \/ Deployed \/ NotDeployed
    \/ User
    \/ Script \/ (\E c \in Stream : Output(c)) \/ BackendExit
    \/ Other

Spec == Init /\ [][Next]_vars

\* The script goes on while it can write, and the main loop, the window's or a
\* dialog's, serves every event source.  The user need never do anything.
FairSpec ==
    /\ Spec
    /\ WF_vars(WriteLine) /\ WF_vars(ScriptEnds)
    /\ \A c \in Stream : WF_vars(Output(c))
    /\ WF_vars(BackendExit)

-----------------------------------------------------------------------------
(* Properties                                                              *)

FormOK ==
    /\ page \in 0 .. Progress /\ filled \subseteq Form
    /\ disk \in Disks \cup {NoDisk}
    /\ shown \in Disks \cup {NoDisk} /\ agreed \in Disks \cup {NoDisk}
    /\ confirmed \in BOOLEAN

BackendOK ==
    /\ script \in {"none", "running", "ok", "failed", "killed"}
    /\ left \in 0 .. Lines
    /\ pipe \in [Stream -> 0 .. PipeSize] /\ watch \subseteq Stream
    /\ error \in {"none", "sent", "shown", "lost"}

\* The shape of the state; a dialog is open only in an open window, and the
\* question of the closing one only where it can have been asked.
TypeOK ==
    /\ life \in {"off", "unlinked", "writing", "open"}
    /\ file \in {"absent", "ours, partial", "ours", "theirs, partial", "theirs"}
    /\ dialog \in {"none", "close", "reboot"} /\ pid \in {0, 1}
    /\ done \in BOOLEAN /\ ok \in BOOLEAN
    /\ FormOK /\ BackendOK
    /\ dialog # "none" => life = "open" /\ page = Progress

\* The backend is given the disk the summary named when the user ticked "I
\* understand this will erase the selected disk", and entries that were
\* validated, whatever way the user took through the pages.
ConsentCovers ==
    script # "none" => /\ disk \in Disks /\ disk = agreed
                       /\ filled = Form

Session == INSTANCE InstallSession WITH
    open <- life = "open",
    said <- IF ~done THEN "nothing" ELSE IF ok THEN "success" ELSE "failure"

\* The window keeps the promise of InstallSession: one attempt, a result that
\* is the attempt's own, no attempt left behind, also when the backend ends
\* behind the question whether to close.
KeepsSession == Session!Spec

\* Once Install was clicked, the window gets to where it can be closed: no
\* pipe the backend is blocked on is left unread, and its end is noticed.
EndsInResult == life = "open" /\ page = Progress ~> done \/ life = "off"

\* The script file is "removed on exit".
RemovedOnExit == life = "off" => file \notin {"ours, partial", "ours"}
-----------------------------------------------------------------------------
(* The inductive invariant                                                 *)

\* What the pages behind the current one guarantee, and the box on this one.
InOrder ==
    life = "open" =>
        /\ page > 1 => disk # NoDisk
        /\ \A p \in Form : page > p => p \in filled
        /\ page = Summary => shown = disk
        /\ page = Summary /\ confirmed => agreed = shown

\* A running backend has its window, which knows it; and the last page is where
\* an attempt is made and its result shown.
Attempt ==
    /\ script = "running" => life = "open" /\ pid # 0
    /\ life = "open" /\ pid # 0 => ~done /\ script # "none"
    /\ life = "open" /\ (script # "none" \/ done) => page = Progress

IInv == TypeOK /\ InOrder /\ Attempt /\ ConsentCovers
=============================================================================
