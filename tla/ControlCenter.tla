--------------------------- MODULE ControlCenter ---------------------------
(***************************************************************************)
(* The settings window, rezzconfig: forms over commands, of which one runs *)
(* at a time.                                                              *)
(*                                                                         *)
(* run_async starts a command with its output in a pipe, makes the tabs    *)
(* insensitive and lets the main loop go on.  The loop then reads a line   *)
(* at a time, waits for the process after the end of the output, and calls *)
(* the command's callback, which shows what the command has changed.  The  *)
(* command, other programs and the user all go on meanwhile.  The answers  *)
(* of capture_shell are awaited in place, so whatever asks for them is one *)
(* action.                                                                 *)
(***************************************************************************)
EXTENDS Naturals

CONSTANTS
    Addr,      \* addresses an entry may hold, all of them valid
    Blank,     \* an empty entry, and what the system answers when it has none
    Lines,     \* lines a command writes at most
    PipeSize   \* lines the pipe holds

ASSUME ControlAssumption ==
    /\ Blank \notin Addr
    /\ Lines \in Nat /\ PipeSize \in Nat \ {0}

\* The mask goes with the address, name servers are left out (there are always
\* some), and there is one interface.
Field == {"ip", "gw"}
Form == [Field -> Addr \cup {Blank}]
NoForm == [f \in Field |-> Blank]

\* What the window shows of the system outside its forms: the status bar, whose
\* font goes the way of the swap, and the label of the Hostname tab.
Bar == {"ip", "host", "swap"}
Item == Bar \cup {"label"}

\* Plain commands do nothing the window shows, or do it through other programs.
Kind == {"plain", "dhcp", "static", "hostname", "swap", "power"}
Callback == {"none", "status", "network", "hostname"}
Commands == [kind : Kind, done : Callback, given : Form]
NoCommand == [kind |-> "plain", done |-> "none", given |-> NoForm]

VARIABLES
    open,        \* the window is there
    sensitive,   \* the notebook takes input
    dialog,      \* the question of the Power tab is open
    refused,     \* "Another command is still running." was shown
    busy,        \* cmd_busy
    cmd,         \* the command: its kind, its callback, what it was given
    wait,        \* what the loop waits for: "none", "line" or "end"
    script,      \* the command's process: "none", "running" or "exited"
    acted,       \* it has done to the system what it is for
    holders,     \* processes that hold the pipe's writing end
    pipe,        \* lines in the pipe
    left,        \* lines the command has yet to write
    sys,         \* the system's network settings
    form,        \* the Network tab's entries
    stale,       \* items shown that are out of date ...
    foreign      \* ... because of other programs

window  == <<open, sensitive, dialog, refused>>
process == <<script, acted, holders>>
output  == <<pipe, left>>
run     == <<busy, cmd, wait>>
shown   == <<stale, foreign>>
vars    == <<window, run, process, output, sys, form, shown>>

\* The notebook holds every button, and a modal dialog takes the input.
Clickable == open /\ sensitive /\ ~dialog

-----------------------------------------------------------------------------
(* Showing the system                                                      *)

\* Mutant of FillForm: the second parameter is ignored.
FillAll(onlyEmpty) ==
    form' = [f \in Field |-> IF sys[f] = Blank THEN form[f] ELSE sys[f]]

\* fill_network_form with set_entry_if: no answer, no change.
FillForm(onlyEmpty) ==
    form' = [f \in Field |->
                IF sys[f] = Blank \/ (onlyEmpty /\ form[f] # Blank)
                THEN form[f] ELSE sys[f]]

Show(items) == stale' = stale \ items /\ foreign' = foreign \ items

RefreshStatusBar == Show(Bar) /\ UNCHANGED form

AfterNetworkChange == Show(Bar) /\ FillForm(FALSE)

AfterHostname == Show(Bar \cup {"label"}) /\ UNCHANGED form

-----------------------------------------------------------------------------
(* run_async and its callbacks                                             *)

\* Mutant of RunAsync: the notebook stays as it is.
RunSensitive(kind, done) ==
    /\ IF busy
       THEN refused' = TRUE /\ UNCHANGED <<run, process, output, sensitive>>
       ELSE /\ busy' = TRUE /\ wait' = "line"
            /\ cmd' = [kind |-> kind, done |-> done,
                       given |-> IF kind = "static" THEN form ELSE NoForm]
            /\ script' = "running" /\ acted' = FALSE /\ holders' = {"script"}
            /\ pipe' = 0 /\ left' \in 0 .. Lines
            /\ UNCHANGED <<refused, sensitive>>
    /\ UNCHANGED <<open, sys, form, shown>>

\* A command that cannot be started leaves only a line in the log.
RunAsync(kind, done) ==
    /\ IF busy
       THEN refused' = TRUE /\ UNCHANGED <<run, process, output, sensitive>>
       ELSE /\ busy' = TRUE /\ sensitive' = FALSE /\ wait' = "line"
            /\ cmd' = [kind |-> kind, done |-> done,
                       given |-> IF kind = "static" THEN form ELSE NoForm]
            /\ script' = "running" /\ acted' = FALSE /\ holders' = {"script"}
            /\ pipe' = 0 /\ left' \in 0 .. Lines
            /\ UNCHANGED refused
    /\ UNCHANGED <<open, sys, form, shown>>

\* Mutant of OnLineRead: an empty pipe is taken for the end of the output.
LineReadOnce ==
    /\ open /\ wait = "line"
    /\ \/ /\ pipe > 0
          /\ pipe' = pipe - 1
          /\ UNCHANGED wait
       \/ /\ pipe = 0 /\ (holders = {} \/ left < Lines)
          /\ wait' = "end"
          /\ UNCHANGED pipe
    /\ UNCHANGED <<window, busy, cmd, process, left, sys, form, shown>>

\* A line, and the next one is asked for; or the end of the output.
OnLineRead ==
    /\ open /\ wait = "line"
    /\ \/ /\ pipe > 0
          /\ pipe' = pipe - 1
          /\ UNCHANGED wait
       \/ /\ pipe = 0 /\ holders = {}
          /\ wait' = "end"
          /\ UNCHANGED pipe
    /\ UNCHANGED <<window, busy, cmd, process, left, sys, form, shown>>

\* Mutant of RunCtxFinish: the busy flag is left set.
FinishBusy ==
    /\ busy' = busy /\ sensitive' = TRUE /\ wait' = "none"
    /\ CASE cmd.done = "none"     -> UNCHANGED <<form, shown>>
         [] cmd.done = "status"   -> RefreshStatusBar
         [] cmd.done = "network"  -> AfterNetworkChange
         [] cmd.done = "hostname" -> AfterHostname

\* run_ctx_finish: the window is free, then the callback shows what changed.
RunCtxFinish ==
    /\ busy' = FALSE /\ sensitive' = TRUE /\ wait' = "none"
    /\ CASE cmd.done = "none"     -> UNCHANGED <<form, shown>>
         [] cmd.done = "status"   -> RefreshStatusBar
         [] cmd.done = "network"  -> AfterNetworkChange
         [] cmd.done = "hostname" -> AfterHostname

\* The exit status goes to the log.
OnProcWaited ==
    /\ open /\ wait = "end" /\ script = "exited"
    /\ RunCtxFinish
    /\ script' = "none" /\ acted' = FALSE /\ cmd' = NoCommand
    /\ UNCHANGED <<open, dialog, refused, holders, output, sys>>

-----------------------------------------------------------------------------
(* Buttons.  A handler that finds its entries empty or invalid leaves only *)
(* a line in the log; what is shown here is the other case.                *)

Click(kind, done) == Clickable /\ RunAsync(kind, done) /\ UNCHANGED dialog

OnNetStatus == Click("plain", "none")
OnNetPing == Click("plain", "none")
OnNetDhcp == Click("dhcp", "network")
OnNetStaticApply == form["ip"] # Blank /\ Click("static", "network")
OnNetDnsOnly == Click("plain", "network")
OnHostnameApply == Click("hostname", "hostname")
OnFontList == Click("plain", "none")
OnFontApply == Click("swap", "status")
OnKbLayout == Click("plain", "none")
OnSwapStatus == Click("plain", "none")
OnSwapCreate == Click("swap", "status")

\* Mutant of OnSwapOff: nothing is called when swapoff has ended.
SwapOffSilent == Click("swap", "none")
OnSwapOff == Click("swap", "status")

OnSvcList == Click("plain", "none")
OnSvcAction == Click("plain", "none")
OnAddUser == Click("plain", "none")
OnPkgUpdate == Click("plain", "none")
OnPkgSearch == Click("plain", "none")
OnPkgInstall == Click("plain", "none")
OnPkgList == Click("plain", "none")

\* on_reboot and on_poweroff: the question runs a main loop of its own.
AskPower ==
    /\ Clickable
    /\ dialog' = TRUE
    /\ UNCHANGED <<open, sensitive, refused, run, process, output, sys, form, shown>>

AnswerNo ==
    /\ dialog
    /\ dialog' = FALSE
    /\ UNCHANGED <<open, sensitive, refused, run, process, output, sys, form, shown>>

\* confirm_and_run's other answer.
AnswerYes ==
    /\ dialog
    /\ dialog' = FALSE
    /\ RunAsync("power", "none")

\* "Refresh from system"
OnNetRefreshForm ==
    /\ Clickable
    /\ FillForm(FALSE)
    /\ UNCHANGED <<window, run, process, output, sys, shown>>

\* Only the Network tab, page 0, has a form to fill.
OnSwitchPage ==
    /\ Clickable
    /\ Show(Bar)
    /\ FillForm(TRUE) \/ UNCHANGED form
    /\ UNCHANGED <<window, run, process, output, sys>>

Type(f, v) ==
    /\ Clickable
    /\ form' = [form EXCEPT ![f] = v]
    /\ UNCHANGED <<window, run, process, output, sys, shown>>

Gone ==
    /\ open' = FALSE /\ sensitive' = FALSE /\ dialog' = FALSE /\ refused' = FALSE
    /\ busy' = FALSE /\ wait' = "none"
    /\ cmd' = NoCommand
    /\ script' = "none" /\ acted' = FALSE /\ holders' = {}
    /\ pipe' = 0 /\ left' = 0
    /\ form' = NoForm /\ stale' = {} /\ foreign' = {}

\* Closing the window ends the program, and the pipe with it: a command still
\* running dies at its next line, and until then is one of Elsewhere's.
OnDestroy == open /\ ~dialog /\ Gone /\ UNCHANGED sys

\* main: every tab and the status bar are filled from the system.
Start ==
    /\ ~open
    /\ open' = TRUE /\ sensitive' = TRUE
    /\ form' = sys
    /\ UNCHANGED <<dialog, refused, run, process, output, sys, shown>>

-----------------------------------------------------------------------------
(* Commands and other programs                                             *)

\* Mutant of Daemons: udhcpc inherits the command's output.
DaemonsInherit(kind) == IF kind = "dhcp" THEN {"udhcpc"} ELSE {}

\* What a command leaves running that holds its output: nothing.  Of those whose
\* effect the window shows only DHCP's leaves a process behind, udhcpc, and its
\* output is redirected.  The other programs (ping, font, swap, rsv, pkg, adduser,
\* setxkbmap) are taken to leave none.
Daemons(kind) == {}

\* A change that is the command's own is not somebody else's any more.
Outdates(items) == stale' = stale \cup items /\ foreign' = foreign \ items

\* ifconfig and route: a gateway may be refused, and an old one may go with
\* the network it was in.
AppliesStatic ==
    \E gw \in {cmd.given["gw"], sys["gw"], Blank} :
        sys' = [ip |-> cmd.given["ip"], gw |-> gw]

\* The command's effect; what the tools do beyond the network is Elsewhere's.
Acts ==
    /\ script = "running" /\ ~acted
    /\ acted' = TRUE
    /\ holders' = holders \cup Daemons(cmd.kind)
    /\ CASE cmd.kind = "dhcp"     -> sys' \in Form /\ Outdates({"ip"})
         [] cmd.kind = "static"   -> AppliesStatic /\ Outdates({"ip"})
         [] cmd.kind = "hostname" -> Outdates({"host", "label"}) /\ UNCHANGED sys
         [] cmd.kind = "swap"     -> Outdates({"swap"}) /\ UNCHANGED sys
         [] OTHER                 -> UNCHANGED <<sys, shown>>
    /\ UNCHANGED <<window, run, script, output, form>>

\* A full pipe blocks the command until the loop has read a line.
Writes ==
    /\ script = "running"
    /\ pipe < PipeSize /\ left > 0
    /\ pipe' = pipe + 1 /\ left' = left - 1
    /\ UNCHANGED <<window, run, process, sys, form, shown>>

\* The end, successful or not.
Ends ==
    /\ script = "running" /\ left = 0
    /\ script' = "exited" /\ holders' = holders \ {"script"}
    /\ UNCHANGED <<window, run, acted, output, sys, form, shown>>

\* A reboot or power off that works: killall5 ends this window too.
MachineStops ==
    /\ script = "running" /\ cmd.kind = "power"
    /\ Gone
    /\ sys' \in Form

\* DHCP renewals, services, terminals and commands a closed window left behind.
Elsewhere ==
    /\ \/ sys' \in Form /\ stale' = stale \cup {"ip"} /\ foreign' = foreign \cup {"ip"}
       \/ \E items \in {{"host", "label"}, {"swap"}} :
            /\ stale' = stale \cup items /\ foreign' = foreign \cup items
            /\ UNCHANGED sys
    /\ open
    /\ UNCHANGED <<window, run, process, output, form>>

-----------------------------------------------------------------------------

Init ==
    /\ open = FALSE /\ sensitive = FALSE /\ dialog = FALSE /\ refused = FALSE
    /\ busy = FALSE /\ wait = "none"
    /\ cmd = NoCommand
    /\ script = "none" /\ acted = FALSE /\ holders = {}
    /\ pipe = 0 /\ left = 0
    /\ form = NoForm /\ stale = {} /\ foreign = {}
    /\ sys \in Form

NetworkTab == OnNetStatus \/ OnNetPing \/ OnNetDhcp \/ OnNetStaticApply
              \/ OnNetDnsOnly \/ OnNetRefreshForm

OtherTabs ==
    \/ OnHostnameApply \/ OnFontList \/ OnFontApply \/ OnKbLayout
    \/ OnSwapStatus \/ OnSwapCreate \/ OnSwapOff \/ OnSvcList \/ OnSvcAction
    \/ OnAddUser \/ OnPkgUpdate \/ OnPkgSearch \/ OnPkgInstall \/ OnPkgList
    \/ AskPower \/ AnswerNo \/ AnswerYes

User ==
    \/ NetworkTab \/ OtherTabs \/ OnSwitchPage
    \/ \E f \in Field, v \in Addr \cup {Blank} : Type(f, v)
    \/ OnDestroy \/ Start

Command == Acts \/ Writes \/ Ends

Next ==
    \/ User \/ OnLineRead \/ OnProcWaited
    \/ Command \/ MachineStops \/ Elsewhere

Spec == Init /\ [][Next]_vars

\* The main loop serves the pipe and the child, and a command that can go on
\* does and ends; DHCP gives up after a while, ping after four answers.
FairSpec == Spec /\ WF_vars(OnLineRead) /\ WF_vars(OnProcWaited)
                 /\ WF_vars(Writes) /\ WF_vars(Ends)

-----------------------------------------------------------------------------
(* Properties                                                              *)

\* The shape of the state; a window waits for something exactly while it is busy
\* and has a command only then.
TypeOK ==
    /\ open \in BOOLEAN /\ sensitive \in BOOLEAN
    /\ dialog \in BOOLEAN /\ refused \in BOOLEAN
    /\ busy \in BOOLEAN /\ cmd \in Commands /\ wait \in {"none", "line", "end"}
    /\ script \in {"none", "running", "exited"} /\ acted \in BOOLEAN
    /\ holders \subseteq {"script", "udhcpc"}
    /\ pipe \in 0 .. PipeSize /\ left \in 0 .. Lines
    /\ sys \in Form /\ form \in Form
    /\ stale \subseteq Item /\ foreign \subseteq stale
    /\ busy <=> wait # "none"
    /\ script # "none" => busy

\* "Another command is still running." is never the answer to a click: what
\* the user can reach while a command runs starts none, dialogs included.
NeverRefused == ~refused

\* The Output panel holds every line a command has written by the time its exit
\* status is added and the window is free for the next one.
OutputShown == wait # "line" => pipe = 0 /\ left = 0

\* A free window shows what its own commands have done, successful or not: an
\* item out of date is so because of somebody else.
StatusCurrent == open /\ ~busy => stale \subseteq foreign

\* What the user has typed into the Network tab is overwritten by Refresh, by
\* the end of a network command and by nothing else; a visit to another tab and
\* back keeps it.
TypedKept ==
    [][\A f \in Field :
          form[f] # Blank /\ form'[f] # form[f] =>
              \/ \E v \in Addr \cup {Blank} : Type(f, v)
              \/ OnNetRefreshForm
              \/ busy /\ ~busy' /\ cmd.done = "network"
              \/ ~open']_vars

\* A command leaves the window usable again in the end, also one that starts a
\* DHCP client, which goes on running.
Freed == busy ~> ~busy

-----------------------------------------------------------------------------
(* The inductive invariant behind the promises                             *)

\* While a command runs nothing that could start another one takes input, and a
\* closed window holds nothing.
Alone ==
    /\ busy => open /\ ~sensitive /\ ~dialog
    /\ dialog => open
    /\ ~open => form = NoForm

\* The pipe ends with the command, and nothing is in it between commands.
Piping ==
    /\ busy <=> script # "none"
    /\ holders = IF script = "running" THEN {"script"} ELSE {}
    /\ script = "exited" => left = 0
    /\ wait = "end" => script = "exited" /\ pipe = 0
    /\ ~busy => pipe = 0 /\ left = 0

Effect(kind) ==
    CASE kind \in {"dhcp", "static"} -> {"ip"}
      [] kind = "hostname" -> {"host", "label"}
      [] kind = "swap" -> {"swap"}
      [] OTHER -> {}

Shows(done) ==
    CASE done = "none" -> {}
      [] done = "hostname" -> Item
      [] OTHER -> Bar

\* What a command may change is what its callback shows.
Covered(kind, done) == Effect(kind) \subseteq Shows(done)

Owed ==
    /\ busy => Covered(cmd.kind, cmd.done)
    /\ stale \subseteq foreign \cup (IF busy THEN Effect(cmd.kind) ELSE {})

IInv == TypeOK /\ NeverRefused /\ Alone /\ Piping /\ Owed
=============================================================================
