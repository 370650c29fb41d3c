------------------------ MODULE ControlCenterProofs ------------------------
(***************************************************************************)
(* Proofs about ControlCenter, for any addresses, any number of lines and  *)
(* any size of the pipe.                                                   *)
(***************************************************************************)
EXTENDS ControlCenter, TLAPS

USE ControlAssumption

LEMMA InitIInv == ASSUME Init PROVE IInv
  <1>1. NoForm \in Form /\ NoCommand \in Commands
    BY DEF NoForm, Form, NoCommand, Commands, Kind, Callback
  <1>2. TypeOK
    <2>1. pipe \in 0 .. PipeSize /\ left \in 0 .. Lines
      BY DEF Init
    <2>2. cmd \in Commands /\ form \in Form /\ sys \in Form
      BY <1>1 DEF Init
    <2>3. stale \subseteq Item /\ foreign \subseteq stale /\ holders \subseteq {"script", "udhcpc"}
      BY DEF Init
    <2> QED
      BY <2>1, <2>2, <2>3 DEF Init, TypeOK
  <1> QED
    BY <1>2 DEF Init, IInv, NeverRefused, Alone, Piping, Owed

\* A command started from where one may be, with a callback that shows all it
\* may change.
LEMMA StartIInv ==
    ASSUME IInv, NEW kind \in Kind, NEW done \in Callback, Covered(kind, done),
           Clickable \/ dialog, RunAsync(kind, done), dialog' = FALSE
    PROVE  IInv'
  <1>1. ~busy /\ open
    BY DEF Clickable, IInv, Alone
  <1>2. /\ busy' = TRUE /\ sensitive' = FALSE /\ wait' = "line"
        /\ cmd' = [kind |-> kind, done |-> done,
                   given |-> IF kind = "static" THEN form ELSE NoForm]
        /\ script' = "running" /\ acted' = FALSE /\ holders' = {"script"}
        /\ pipe' = 0 /\ left' \in 0 .. Lines
        /\ UNCHANGED <<refused, open, sys, form, stale, foreign>>
    BY <1>1 DEF RunAsync, shown
  <1>3. cmd' \in Commands
    <2>1. form \in Form /\ NoForm \in Form
      BY DEF IInv, TypeOK, NoForm, Form
    <2> QED
      BY <1>2, <2>1 DEF Commands
  <1>4. TypeOK'
    <2>1. pipe' \in 0 .. PipeSize /\ holders' \subseteq {"script", "udhcpc"}
      BY <1>2
    <2> QED
      BY <1>2, <1>3, <2>1 DEF IInv, TypeOK
  <1>5. Alone' /\ Piping' /\ NeverRefused'
    BY <1>1, <1>2 DEF IInv, Alone, Piping, NeverRefused
  <1>6. Owed'
    BY <1>1, <1>2 DEF IInv, Owed
  <1> QED
    BY <1>4, <1>5, <1>6 DEF IInv

\* Whoever changes only what is in the entries, or shows more of the system.
LEMMA ShownIInv ==
    ASSUME IInv, open, UNCHANGED <<open, sensitive, refused, run, process, output, sys>>,
           dialog' \in BOOLEAN, dialog' => Clickable \/ dialog,
           form' \in Form, stale' \subseteq stale, foreign' \subseteq stale',
           stale \ foreign = {} => stale' \ foreign' = {},
           busy => UNCHANGED shown
    PROVE  IInv'
  <1>1. UNCHANGED <<busy, cmd, wait, script, acted, holders, pipe, left>>
    BY DEF run, process, output
  <1>2. TypeOK'
    BY <1>1 DEF IInv, TypeOK
  <1>3. Alone' /\ Piping' /\ NeverRefused'
    BY <1>1 DEF IInv, Alone, Piping, NeverRefused, Clickable
  <1>4. Owed'
    BY <1>1 DEF IInv, Owed, shown
  <1> QED
    BY <1>2, <1>3, <1>4 DEF IInv

LEMMA FillType == ASSUME IInv, NEW e \in BOOLEAN, FillForm(e) PROVE form' \in Form
  <1>1. \A f \in Field : form[f] \in Addr \cup {Blank} /\ sys[f] \in Addr \cup {Blank}
    BY DEF IInv, TypeOK, Form
  <1> QED
    BY <1>1 DEF FillForm, Form

\* What the user does to the window, except for starting a command.
LEMMA WindowIInv ==
    ASSUME IInv,
           \/ AskPower \/ AnswerNo \/ OnNetRefreshForm \/ OnSwitchPage
           \/ \E f \in Field, v \in Addr \cup {Blank} : Type(f, v)
    PROVE  IInv'
  <1>1. CASE AskPower \/ AnswerNo
    BY <1>1, ShownIInv DEF AskPower, AnswerNo, Clickable, shown, IInv, TypeOK, Alone
  <1>2. CASE OnNetRefreshForm
    <2>1. form' \in Form
      BY <1>2, FillType DEF OnNetRefreshForm
    <2> QED
      BY <1>2, <2>1, ShownIInv DEF OnNetRefreshForm, Clickable, window, shown, IInv, TypeOK
  <1>3. CASE OnSwitchPage
    <2>1. form' \in Form
      BY <1>3, FillType DEF OnSwitchPage, IInv, TypeOK
    <2>2. ~busy
      BY <1>3 DEF OnSwitchPage, Clickable, IInv, Alone
    <2>3. stale' = stale \ Bar /\ foreign' = foreign \ Bar
      BY <1>3 DEF OnSwitchPage, Show
    <2>4. stale' \subseteq stale /\ foreign' \subseteq stale' /\ (stale \ foreign = {} => stale' \ foreign' = {})
      BY <2>3 DEF IInv, TypeOK
    <2>5. UNCHANGED <<open, sensitive, refused, dialog, run, process, output, sys>> /\ open
      BY <1>3 DEF OnSwitchPage, Clickable, window
    <2> QED
      BY <2>1, <2>2, <2>4, <2>5, ShownIInv DEF IInv, TypeOK
  <1>4. ASSUME NEW f \in Field, NEW v \in Addr \cup {Blank}, Type(f, v) PROVE IInv'
    <2>1. form' \in Form
      BY <1>4 DEF Type, IInv, TypeOK, Form
    <2> QED
      BY <1>4, <2>1, ShownIInv DEF Type, Clickable, window, shown, IInv, TypeOK
  <1> QED
    BY <1>1, <1>2, <1>3, <1>4

\* The end of the program, and its beginning.
LEMMA GoneIInv == ASSUME IInv, Gone, sys' \in Form PROVE IInv'
  <1>1. NoForm \in Form /\ NoCommand \in Commands
    BY DEF NoForm, Form, NoCommand, Commands, Kind, Callback
  <1>2. TypeOK'
    <2>1. pipe' \in 0 .. PipeSize /\ left' \in 0 .. Lines
      BY DEF Gone
    <2>2. cmd' \in Commands /\ form' \in Form
      BY <1>1 DEF Gone
    <2>3. stale' \subseteq Item /\ foreign' \subseteq stale' /\ holders' \subseteq {"script", "udhcpc"}
      BY DEF Gone
    <2> QED
      BY <2>1, <2>2, <2>3 DEF Gone, TypeOK
  <1> QED
    BY <1>2 DEF Gone, IInv, NeverRefused, Alone, Piping, Owed

LEMMA OpenIInv == ASSUME IInv, Start PROVE IInv'
  <1>1. UNCHANGED <<dialog, refused, busy, cmd, wait, script, acted, holders, pipe, left, sys,
                    stale, foreign>> /\ ~busy
    BY DEF Start, run, process, output, shown, IInv, Alone
  <1>2. TypeOK'
    BY <1>1 DEF Start, IInv, TypeOK
  <1>3. Alone' /\ Piping' /\ NeverRefused' /\ Owed'
    BY <1>1 DEF Start, IInv, Alone, Piping, NeverRefused, Owed
  <1> QED
    BY <1>2, <1>3 DEF IInv

-----------------------------------------------------------------------------
(* The main loop and the command                                           *)

LEMMA OnLineReadIInv == ASSUME IInv, OnLineRead PROVE IInv'
  <1>1. UNCHANGED <<open, sensitive, dialog, refused, busy, cmd, script, acted, holders, left, sys,
                    form, stale, foreign>>
    BY DEF OnLineRead, window, process, shown
  <1>2. pipe \in 0 .. PipeSize /\ wait = "line" /\ busy /\ script # "none"
    BY DEF OnLineRead, IInv, TypeOK, Piping
  <1>3. \/ pipe > 0 /\ pipe' = pipe - 1 /\ wait' = "line"
        \/ pipe' = 0 /\ pipe = 0 /\ holders = {} /\ wait' = "end"
    BY <1>2 DEF OnLineRead
  <1>4. pipe' \in 0 .. PipeSize
    BY <1>2, <1>3
  <1>5. TypeOK'
    BY <1>1, <1>2, <1>3, <1>4 DEF IInv, TypeOK
  <1>6. Piping'
    <2>1. holders = {} => script # "running"
      BY DEF IInv, Piping
    <2>2. script \in {"running", "exited"}
      BY <1>2 DEF IInv, TypeOK
    <2> QED
      BY <1>1, <1>2, <1>3, <2>1, <2>2 DEF IInv, Piping
  <1>7. Alone' /\ NeverRefused' /\ Owed'
    BY <1>1 DEF IInv, Alone, NeverRefused, Owed
  <1> QED
    BY <1>5, <1>6, <1>7 DEF IInv

LEMMA OnProcWaitedIInv == ASSUME IInv, OnProcWaited PROVE IInv'
  <1>1. UNCHANGED <<open, dialog, refused, holders, pipe, left, sys>>
    BY DEF OnProcWaited, output
  <1>2. /\ busy /\ open /\ ~dialog /\ cmd \in Commands
        /\ wait = "end" /\ script = "exited" /\ holders = {} /\ pipe = 0 /\ left = 0
    BY DEF OnProcWaited, IInv, TypeOK, Piping, Alone
  <1>3. busy' = FALSE /\ sensitive' = TRUE /\ wait' = "none" /\ script' = "none" /\ acted' = FALSE
    BY DEF OnProcWaited, RunCtxFinish
  <1>4. cmd' = NoCommand /\ NoCommand \in Commands
    BY DEF OnProcWaited, NoForm, Form, NoCommand, Commands, Kind, Callback
  <1>5. /\ form' \in Form
        /\ stale' = stale \ Shows(cmd.done) /\ foreign' = foreign \ Shows(cmd.done)
    <2>1. cmd.done \in Callback
      BY <1>2 DEF Commands
    <2>2. CASE cmd.done = "none"
      BY <2>2 DEF OnProcWaited, RunCtxFinish, Shows, shown, IInv, TypeOK
    <2>3. CASE cmd.done = "status"
      BY <2>3 DEF OnProcWaited, RunCtxFinish, RefreshStatusBar, Show, Shows, IInv, TypeOK
    <2>4. CASE cmd.done = "hostname"
      BY <2>4 DEF OnProcWaited, RunCtxFinish, AfterHostname, Show, Shows, Item, IInv, TypeOK
    <2>5. CASE cmd.done = "network"
      <3>1. Show(Bar) /\ FillForm(FALSE)
        BY <2>5 DEF OnProcWaited, RunCtxFinish, AfterNetworkChange
      <3> QED
        BY <2>5, <3>1, FillType DEF Show, Shows
    <2> QED
      BY <2>1, <2>2, <2>3, <2>4, <2>5 DEF Callback
  <1>6. TypeOK'
    BY <1>1, <1>3, <1>4, <1>5 DEF IInv, TypeOK
  <1>7. Owed'
    BY <1>2, <1>3, <1>5 DEF IInv, Owed, Covered
  <1>8. Alone' /\ Piping' /\ NeverRefused'
    BY <1>1, <1>2, <1>3 DEF IInv, Alone, Piping, NeverRefused
  <1> QED
    BY <1>6, <1>7, <1>8 DEF IInv

LEMMA ActsIInv == ASSUME IInv, Acts PROVE IInv'
  <1>1. /\ UNCHANGED <<open, sensitive, dialog, refused, busy, cmd, wait, script, pipe, left, form>>
        /\ script = "running" /\ busy /\ acted' = TRUE /\ cmd \in Commands
        /\ holders' = holders
    BY DEF Acts, Daemons, window, run, output, IInv, Piping, TypeOK
  <1>2. /\ sys' \in Form
        /\ stale' = stale \cup Effect(cmd.kind) /\ foreign' = foreign \ Effect(cmd.kind)
    <2>1. cmd.kind \in Kind /\ cmd.given \in Form
      BY <1>1 DEF Commands
    <2>2. CASE cmd.kind = "dhcp"
      BY <2>2 DEF Acts, Outdates, Effect
    <2>3. CASE cmd.kind = "static"
      <3>1. AppliesStatic /\ Outdates({"ip"})
        BY <2>3 DEF Acts
      <3>2. PICK gw \in {cmd.given["gw"], sys["gw"], Blank} :
                sys' = [ip |-> cmd.given["ip"], gw |-> gw]
        BY <3>1 DEF AppliesStatic
      <3>3. cmd.given["ip"] \in Addr \cup {Blank} /\ gw \in Addr \cup {Blank}
        BY <2>1, <3>2 DEF Form, Field, IInv, TypeOK
      <3>4. sys' \in [{"ip", "gw"} -> Addr \cup {Blank}]
        BY <3>2, <3>3
      <3>5. sys' \in Form
        BY <3>4 DEF Form, Field
      <3> QED
        BY <2>3, <3>1, <3>5 DEF Outdates, Effect
    <2>4. CASE cmd.kind = "hostname"
      BY <2>4 DEF Acts, Outdates, Effect, IInv, TypeOK
    <2>5. CASE cmd.kind = "swap"
      BY <2>5 DEF Acts, Outdates, Effect, IInv, TypeOK
    <2>6. CASE cmd.kind \in {"plain", "power"}
      BY <2>6 DEF Acts, shown, Effect, IInv, TypeOK
    <2> QED
      BY <2>1, <2>2, <2>3, <2>4, <2>5, <2>6 DEF Kind
  <1>3. Effect(cmd.kind) \subseteq Item
    BY DEF Effect, Item, Bar
  <1>4. TypeOK'
    BY <1>1, <1>2, <1>3 DEF IInv, TypeOK
  <1>5. Owed'
    BY <1>1, <1>2 DEF IInv, Owed
  <1>6. Alone' /\ Piping' /\ NeverRefused'
    BY <1>1 DEF IInv, Alone, Piping, NeverRefused
  <1> QED
    BY <1>4, <1>5, <1>6 DEF IInv

LEMMA CommandIInv == ASSUME IInv, Writes \/ Ends PROVE IInv'
  <1>1. UNCHANGED <<open, sensitive, dialog, refused, busy, cmd, wait, acted, sys, form, stale,
                    foreign>> /\ script = "running" /\ busy
    BY DEF Writes, Ends, window, run, process, shown, IInv, Piping
  <1>2. pipe \in 0 .. PipeSize /\ left \in 0 .. Lines
    BY DEF IInv, TypeOK
  <1>3. /\ pipe' \in 0 .. PipeSize /\ left' \in 0 .. Lines
        /\ script' \in {"running", "exited"}
        /\ holders' = IF script' = "running" THEN {"script"} ELSE {}
        /\ script' = "exited" => left' = 0
    <2>1. CASE Writes
      BY <1>1, <1>2, <2>1 DEF Writes, process, IInv, Piping
    <2>2. CASE Ends
      BY <1>1, <1>2, <2>2 DEF Ends, output, IInv, Piping
    <2> QED
      BY <2>1, <2>2
  <1>4. TypeOK'
    BY <1>1, <1>3 DEF IInv, TypeOK
  <1>5. Piping'
    BY <1>1, <1>3 DEF IInv, Piping
  <1>6. Alone' /\ NeverRefused' /\ Owed'
    BY <1>1 DEF IInv, Alone, NeverRefused, Owed
  <1> QED
    BY <1>4, <1>5, <1>6 DEF IInv

LEMMA ElsewhereIInv == ASSUME IInv, Elsewhere PROVE IInv'
  <1>1. UNCHANGED <<open, sensitive, dialog, refused, busy, cmd, wait, script, acted, holders, pipe,
                    left, form>>
    BY DEF Elsewhere, window, run, process, output
  <1>2. PICK items \in {{"ip"}, {"host", "label"}, {"swap"}} :
            /\ stale' = stale \cup items /\ foreign' = foreign \cup items
            /\ sys' \in Form
    BY DEF Elsewhere, IInv, TypeOK
  <1>3. items \subseteq Item
    BY DEF Item, Bar
  <1>4. TypeOK'
    BY <1>1, <1>2, <1>3 DEF IInv, TypeOK
  <1>5. Alone' /\ Piping' /\ NeverRefused' /\ Owed'
    BY <1>1, <1>2 DEF IInv, Alone, Piping, NeverRefused, Owed
  <1> QED
    BY <1>4, <1>5 DEF IInv

-----------------------------------------------------------------------------
(* The invariant                                                           *)

LEMMA ClickIInv ==
    ASSUME IInv, NEW kind \in Kind, NEW done \in Callback, Covered(kind, done), Click(kind, done)
    PROVE  IInv'
  <1>1. Clickable /\ dialog' = FALSE
    BY DEF Click, Clickable, IInv, TypeOK
  <1> QED
    BY <1>1, StartIInv DEF Click

\* Every button's command has the callback it needs.
LEMMA ButtonsIInv ==
    ASSUME IInv,
           \/ Click("plain", "none") \/ Click("plain", "network") \/ Click("dhcp", "network")
           \/ Click("static", "network") \/ Click("hostname", "hostname")
           \/ Click("swap", "status") \/ AnswerYes
    PROVE  IInv'
  <1>1. /\ Covered("plain", "none") /\ Covered("plain", "network") /\ Covered("dhcp", "network")
        /\ Covered("static", "network") /\ Covered("hostname", "hostname")
        /\ Covered("swap", "status") /\ Covered("power", "none")
    BY DEF Covered, Effect, Shows, Item, Bar
  <1>2. CASE AnswerYes
    BY <1>1, <1>2, StartIInv DEF AnswerYes, Kind, Callback
  <1>3. CASE ~AnswerYes
    BY <1>1, <1>3, ClickIInv DEF Kind, Callback
  <1> QED
    BY <1>2, <1>3

LEMMA NextIInv == ASSUME IInv, [Next]_vars PROVE IInv'
  <1>1. CASE NetworkTab
    BY <1>1, ButtonsIInv, WindowIInv
       DEF NetworkTab, OnNetStatus, OnNetPing, OnNetDhcp, OnNetStaticApply, OnNetDnsOnly
  <1>2. CASE OtherTabs
    BY <1>2, ButtonsIInv, WindowIInv
       DEF OtherTabs, OnHostnameApply, OnFontList, OnFontApply, OnKbLayout, OnSwapStatus,
           OnSwapCreate, OnSwapOff, OnSvcList, OnSvcAction, OnAddUser, OnPkgUpdate, OnPkgSearch,
           OnPkgInstall, OnPkgList
  <1>3. CASE OnSwitchPage \/ \E f \in Field, v \in Addr \cup {Blank} : Type(f, v)
    BY <1>3, WindowIInv
  <1>4. CASE OnDestroy \/ MachineStops
    BY <1>4, GoneIInv DEF OnDestroy, MachineStops, IInv, TypeOK
  <1>5. CASE Start
    BY <1>5, OpenIInv
  <1>6. CASE OnLineRead \/ OnProcWaited
    BY <1>6, OnLineReadIInv, OnProcWaitedIInv
  <1>7. CASE Command
    BY <1>7, ActsIInv, CommandIInv DEF Command
  <1>8. CASE Elsewhere
    BY <1>8, ElsewhereIInv
  <1>9. CASE UNCHANGED vars
    BY <1>9 DEF vars, window, run, process, output, shown, IInv, TypeOK, NeverRefused, Alone,
                Piping, Owed
  <1> QED
    BY <1>1, <1>2, <1>3, <1>4, <1>5, <1>6, <1>7, <1>8, <1>9 DEF Next, User

LEMMA Invariance == Spec => []IInv
  <1>1. Init => IInv
    BY InitIInv
  <1>2. IInv /\ [Next]_vars => IInv'
    BY NextIInv
  <1> QED
    BY <1>1, <1>2, PTL DEF Spec

\* The state has its shape, whatever the addresses, the lines and the pipe: the
\* window waits for something exactly while it is busy.
THEOREM TypeCorrect == Spec => []TypeOK
  <1>1. IInv => TypeOK
    BY DEF IInv
  <1> QED
    BY <1>1, Invariance, PTL

\* No click ever meets "Another command is still running.": while one runs, the
\* notebook and every dialog are out of reach.
THEOREM NoneIsRefused == Spec => []NeverRefused
  <1>1. IInv => NeverRefused
    BY DEF IInv
  <1> QED
    BY <1>1, Invariance, PTL

\* The loop does not wait for the process before all its output is in the
\* panel, however long the output and however small the pipe.
THEOREM OutputIsShown == Spec => []OutputShown
  <1>1. ASSUME IInv PROVE OutputShown
    <2>1. wait \in {"none", "line", "end"}
      BY <1>1 DEF IInv, TypeOK
    <2>2. wait = "none" => ~busy
      BY <1>1 DEF IInv, TypeOK
    <2> QED
      BY <1>1, <2>1, <2>2 DEF IInv, Piping, OutputShown
  <1> QED
    BY <1>1, Invariance, PTL

\* Once a command has been reaped its callback has shown all that it may have
\* changed.
THEOREM StatusIsCurrent == Spec => []StatusCurrent
  <1>1. IInv => StatusCurrent
    BY DEF IInv, Owed, StatusCurrent
  <1> QED
    BY <1>1, Invariance, PTL

LEMMA TypedStep ==
    ASSUME IInv, [Next]_vars, NEW f \in Field, form[f] # Blank, form'[f] # form[f]
    PROVE  \/ \E v \in Addr \cup {Blank} : Type(f, v)
           \/ OnNetRefreshForm
           \/ busy /\ ~busy' /\ cmd.done = "network"
           \/ ~open'
  <1>1. ASSUME NEW kind, NEW done, RunAsync(kind, done) PROVE FALSE
    BY <1>1 DEF RunAsync
  <1>2. CASE NetworkTab
    BY <1>1, <1>2
       DEF NetworkTab, OnNetStatus, OnNetPing, OnNetDhcp, OnNetStaticApply, OnNetDnsOnly, Click
  <1>3. CASE OtherTabs
    BY <1>1, <1>3
       DEF OtherTabs, OnHostnameApply, OnFontList, OnFontApply, OnKbLayout, OnSwapStatus,
           OnSwapCreate, OnSwapOff, OnSvcList, OnSvcAction, OnAddUser, OnPkgUpdate, OnPkgSearch,
           OnPkgInstall, OnPkgList, Click, AskPower, AnswerNo, AnswerYes
  <1>4. CASE OnSwitchPage
    BY <1>4 DEF OnSwitchPage, FillForm
  <1>5. ASSUME NEW g \in Field, NEW v \in Addr \cup {Blank}, Type(g, v)
        PROVE  \E w \in Addr \cup {Blank} : Type(f, w)
    <2>1. g = f
      BY <1>5 DEF Type, IInv, TypeOK, Form
    <2> QED
      BY <1>5, <2>1
  <1>6. CASE OnDestroy \/ MachineStops
    BY <1>6 DEF OnDestroy, MachineStops, Gone
  <1>7. CASE Start
    <2>1. ~busy /\ ~open
      BY <1>7 DEF Start, IInv, Alone
    <2>2. form = NoForm
      BY <1>7, <2>1 DEF Start, IInv, Alone
    <2> QED
      BY <2>2 DEF NoForm
  <1>8. CASE OnLineRead \/ Command \/ Elsewhere \/ UNCHANGED vars
    BY <1>8 DEF OnLineRead, Command, Acts, Writes, Ends, Elsewhere, vars
  <1>9. CASE OnProcWaited
    <2>1. busy /\ ~busy'
      BY <1>9 DEF OnProcWaited, RunCtxFinish, IInv, TypeOK
    <2>2. cmd.done \in Callback
      BY DEF IInv, TypeOK, Commands
    <2>3. cmd.done = "network"
      BY <1>9, <2>2 DEF Callback, OnProcWaited, RunCtxFinish, RefreshStatusBar, AfterHostname
    <2> QED
      BY <2>1, <2>3
  <1> QED
    BY <1>2, <1>3, <1>4, <1>5, <1>6, <1>7, <1>8, <1>9 DEF Next, User

\* What the user has typed survives a visit to another tab, and the end of every
\* command but a network one.
THEOREM TypedIsKept == Spec => TypedKept
  <1>1. IInv /\ [Next]_vars =>
          [\A f \in Field :
              form[f] # Blank /\ form'[f] # form[f] =>
                  \/ \E v \in Addr \cup {Blank} : Type(f, v)
                  \/ OnNetRefreshForm
                  \/ busy /\ ~busy' /\ cmd.done = "network"
                  \/ ~open']_vars
    BY TypedStep
  <1> QED
    BY <1>1, Invariance, PTL DEF Spec, TypedKept
=============================================================================
