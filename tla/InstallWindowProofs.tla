------------------------- MODULE InstallWindowProofs -------------------------
(***************************************************************************)
(* Proofs about InstallWindow: the type invariant, that the backend is     *)
(* started only with what the user agreed to, and that the window          *)
(* implements InstallSession, for any disks, any number of lines, any pipe *)
(* size, with and without another installer.                               *)
(***************************************************************************)
EXTENDS InstallWindow, TLAPS

-----------------------------------------------------------------------------
(* The invariant from its parts                                            *)

Files == {"absent", "ours, partial", "ours", "theirs, partial", "theirs"}

\* A step that leaves the pages and the backend alone.
LEMMA AsideIInv ==
    ASSUME IInv, UNCHANGED <<form, backend>>,
           life' \in {"off", "unlinked", "writing", "open"}, file' \in Files,
           dialog' \in {"none", "close", "reboot"}, pid' \in {0, 1},
           done' \in BOOLEAN, ok' \in BOOLEAN,
           dialog' # "none" => life' = "open" /\ page = Progress,
           life' = "open" => life = "open",
           script = "running" => life' = "open" /\ pid' # 0,
           life' = "open" /\ pid' # 0 => ~done' /\ script # "none",
           life' = "open" /\ (script # "none" \/ done') => page = Progress
    PROVE  IInv'
  <1>1. UNCHANGED <<page, disk, filled, shown, confirmed, agreed,
                    script, left, pipe, watch, error>>
    BY DEF form, backend
  <1>2. FormOK' /\ BackendOK'
    BY <1>1 DEF IInv, TypeOK, FormOK, BackendOK
  <1>3. TypeOK'
    BY <1>1, <1>2 DEF TypeOK, Files
  <1>4. InOrder' /\ ConsentCovers'
    BY <1>1 DEF IInv, InOrder, ConsentCovers
  <1>5. Attempt'
    BY <1>1 DEF Attempt
  <1> QED
    BY <1>3, <1>4, <1>5 DEF IInv

\* A step of the backend, or of its channels, while the window stands still.
LEMMA OutputIInv ==
    ASSUME IInv, UNCHANGED <<life, file, form, dialog, pid, result>>, BackendOK',
           script' # script => script = "running" /\ script' # "none"
    PROVE  IInv'
  <1>1. UNCHANGED <<page, disk, filled, shown, confirmed, agreed, done, ok>>
    BY DEF form, result
  <1>2. FormOK'
    BY <1>1 DEF IInv, TypeOK, FormOK
  <1>3. TypeOK'
    BY <1>1, <1>2 DEF IInv, TypeOK
  <1>4. InOrder' /\ ConsentCovers'
    BY <1>1 DEF IInv, InOrder, ConsentCovers
  <1>5. Attempt'
    BY <1>1 DEF IInv, Attempt
  <1> QED
    BY <1>3, <1>4, <1>5 DEF IInv

\* A step of the user through the pages, before there is a backend.
LEMMA PageIInv ==
    ASSUME IInv, UNCHANGED <<life, file, dialog, pid, result, backend>>,
           life = "open", dialog = "none", page # Progress, FormOK', InOrder'
    PROVE  IInv'
  <1>1. UNCHANGED <<done, ok, script, left, pipe, watch, error>>
    BY DEF result, backend
  <1>2. script = "none" /\ ~done
    BY DEF IInv, Attempt
  <1>3. BackendOK'
    BY <1>1 DEF IInv, TypeOK, BackendOK
  <1>4. TypeOK'
    BY <1>1, <1>3 DEF IInv, TypeOK
  <1>5. Attempt' /\ ConsentCovers'
    BY <1>1, <1>2 DEF IInv, Attempt, ConsentCovers
  <1> QED
    BY <1>4, <1>5 DEF IInv

-----------------------------------------------------------------------------
(* The initial state, and one lemma per group of actions                   *)

LEMMA InitIInv == Init => IInv
  <1> SUFFICES ASSUME Init PROVE IInv
    OBVIOUS
  <1>1. FormOK
    <2>1. /\ page = 0 /\ filled = {2} /\ confirmed = FALSE
          /\ disk \in Disks \cup {NoDisk} /\ shown = NoDisk /\ agreed = NoDisk
      BY DEF Init
    <2>2. {2} \subseteq Form /\ 0 \in 0 .. Progress
      BY DEF Form, Progress
    <2> QED
      BY <2>1, <2>2 DEF FormOK
  <1>2. BackendOK
    BY WindowAssumption DEF Init, BackendOK, Stream
  <1>3. TypeOK
    BY <1>1, <1>2 DEF Init, TypeOK
  <1>4. InOrder /\ Attempt /\ ConsentCovers
    BY DEF Init, InOrder, Attempt, ConsentCovers
  <1> QED
    BY <1>3, <1>4 DEF IInv

LEMMA DeployedIInv ==
    ASSUME IInv, Deployed
    PROVE  IInv'
  <1>0. /\ life' = "open" /\ pid' = 0 /\ done' = FALSE
        /\ page' = 0 /\ filled' = {2} /\ confirmed' = FALSE
        /\ disk' \in Disks \cup {NoDisk} /\ shown' = NoDisk /\ agreed' = NoDisk
        /\ script' = "none" /\ left' = 0 /\ pipe' = [c \in Stream |-> 0]
        /\ watch' = {} /\ error' = "none"
    BY DEF Deployed
  <1>1. FormOK'
    <2>1. {2} \subseteq Form /\ 0 \in 0 .. Progress
      BY DEF Form, Progress
    <2> QED
      BY <1>0, <2>1 DEF FormOK
  <1>2. BackendOK'
    BY <1>0, WindowAssumption DEF BackendOK, Stream
  <1>3. TypeOK'
    BY <1>1, <1>2 DEF Deployed, IInv, TypeOK
  <1>4. InOrder' /\ Attempt' /\ ConsentCovers'
    BY <1>0 DEF InOrder, Attempt, ConsentCovers, Form, Summary, Progress
  <1> QED
    BY <1>3, <1>4 DEF IInv

LEMMA DeployIInv ==
    ASSUME IInv, Unlink \/ Create \/ NotDeployed
    PROVE  IInv'
  <1>1. /\ life # "open" /\ life' # "open"
        /\ life' \in {"off", "unlinked", "writing", "open"} /\ file' \in Files
        /\ UNCHANGED <<form, dialog, pid, done, ok, backend>>
    BY DEF Unlink, Create, NotDeployed, IInv, TypeOK, Files, result
  <1>2. /\ dialog \in {"none", "close", "reboot"} /\ pid \in {0, 1}
        /\ done \in BOOLEAN /\ ok \in BOOLEAN /\ dialog = "none" /\ script # "running"
    BY <1>1 DEF IInv, TypeOK, Attempt
  <1> QED
    BY <1>1, <1>2, AsideIInv

LEMMA PagesIInv ==
    ASSUME IInv, ChooseDisk \/ Edit \/ Back \/ NextPage \/ Confirm
    PROVE  IInv'
  <1>1. /\ life = "open" /\ dialog = "none" /\ page # Progress /\ page \in 0 .. Progress
        /\ UNCHANGED <<life, file, dialog, pid, result, backend>>
    <2>1. page \in 0 .. Progress
      BY DEF IInv, TypeOK, FormOK
    <2>2. CASE ChooseDisk
      BY <2>1, <2>2 DEF ChooseDisk, Clickable, Progress
    <2>3. CASE Edit
      BY <2>1, <2>3 DEF Edit, Clickable, Form, Progress
    <2>4. CASE Back
      BY <2>1, <2>4 DEF Back, BackVisible, Clickable, Progress
    <2>5. CASE NextPage
      BY <2>1, <2>5 DEF NextPage, Clickable, Summary, Progress
    <2>6. CASE Confirm
      BY <2>1, <2>6 DEF Confirm, Clickable, Summary, Progress
    <2> QED
      BY <2>2, <2>3, <2>4, <2>5, <2>6
  <1>2. FormOK /\ InOrder
    BY DEF IInv, TypeOK
  <1>3. FormOK' /\ InOrder'
    <2>1. CASE ChooseDisk
      BY <1>1, <1>2, <2>1 DEF ChooseDisk, FormOK, InOrder, Form, Summary
    <2>2. CASE Edit
      <3>1. page \in Form /\ filled' \in {filled \cup {page}, filled \ {page}}
            /\ UNCHANGED <<page, disk, shown, confirmed, agreed>>
        BY <2>2 DEF Edit
      <3>2. FormOK'
        BY <1>2, <3>1 DEF FormOK
      <3>3. \A p \in Form : page > p => p \in filled'
        BY <1>1, <1>2, <3>1 DEF InOrder, Form
      <3> QED
        BY <1>1, <1>2, <3>1, <3>2, <3>3 DEF InOrder
    <2>3. CASE Back
      <3>1. page > 0 /\ ShowPage(page - 1) /\ UNCHANGED <<disk, filled, agreed>>
        BY <2>3 DEF Back, BackVisible
      <3>2. FormOK'
        BY <1>1, <1>2, <3>1 DEF ShowPage, FormOK, Progress, Summary
      <3>3. InOrder'
        BY <1>1, <1>2, <3>1 DEF ShowPage, InOrder, Form, Progress, Summary
      <3> QED
        BY <3>2, <3>3
    <2>4. CASE NextPage
      <3>1. page < Summary /\ Valid /\ ShowPage(page + 1)
            /\ UNCHANGED <<disk, filled, agreed>>
        BY <2>4 DEF NextPage
      <3>2. FormOK'
        BY <1>1, <1>2, <3>1 DEF ShowPage, FormOK, Progress, Summary
      <3>3. /\ page' = page + 1 /\ disk' = disk /\ filled' = filled
            /\ page' = Summary => shown' = disk' /\ ~confirmed'
        BY <3>1 DEF ShowPage
      <3>4. page' > 1 => disk' # NoDisk
        BY <1>1, <1>2, <3>1, <3>3 DEF Valid, InOrder
      <3>5. \A p \in Form : page' > p => p \in filled'
        BY <1>1, <1>2, <3>1, <3>3 DEF Valid, InOrder, Form
      <3>6. InOrder'
        BY <3>3, <3>4, <3>5 DEF InOrder
      <3> QED
        BY <3>2, <3>6
    <2>5. CASE Confirm
      <3>1. /\ page = Summary /\ confirmed' = ~confirmed
            /\ agreed' = (IF confirmed' THEN shown ELSE agreed)
            /\ UNCHANGED <<life, page, disk, filled, shown>>
        BY <2>5 DEF Confirm
      <3>2. FormOK'
        BY <1>2, <3>1 DEF FormOK
      <3>3. InOrder'
        BY <1>2, <3>1 DEF InOrder
      <3> QED
        BY <3>2, <3>3
    <2> QED
      BY <2>1, <2>2, <2>3, <2>4, <2>5
  <1> QED
    BY <1>1, <1>3, PageIInv

\* Everything the backend is started with was agreed to on the summary page.
LEMMA InstallIInv ==
    ASSUME IInv, Install
    PROVE  IInv'
  <1>1. /\ life = "open" /\ dialog = "none" /\ page = Summary /\ confirmed /\ ~done
        /\ page' = Progress /\ shown' = shown /\ confirmed' \in BOOLEAN
        /\ UNCHANGED <<life, file, disk, filled, agreed, dialog>>
    <2>1. Clickable /\ page = Summary /\ confirmed /\ ~done /\ ShowPage(Progress)
          /\ UNCHANGED <<life, file, disk, filled, agreed, dialog>>
      BY DEF Install
    <2> QED
      BY <2>1 DEF Clickable, ShowPage, Summary, Progress
  <1>2. disk \in Disks /\ disk = agreed /\ filled = Form
    <2>1. FormOK /\ InOrder
      BY DEF IInv, TypeOK
    <2>2. disk \in Disks /\ disk = agreed
      BY <1>1, <2>1 DEF FormOK, InOrder, Summary
    <2>3. 2 \in filled /\ 3 \in filled
      BY <1>1, <2>1 DEF InOrder, Summary, Form
    <2>4. filled = Form
      BY <2>1, <2>3 DEF FormOK, Form
    <2> QED
      BY <2>2, <2>4
  <1>3. script = "none" /\ pid \in {0, 1}
    <2>1. Attempt /\ pid \in {0, 1}
      BY DEF IInv, TypeOK
    <2> QED
      BY <1>1, <2>1 DEF Attempt, Summary, Progress
  <1>4. FormOK'
    <2>1. FormOK
      BY DEF IInv, TypeOK
    <2> QED
      BY <1>1, <2>1 DEF FormOK, Progress
  <1>5. InOrder'
    BY <1>1, <1>2, WindowAssumption DEF InOrder, Summary, Progress
  <1>6. CASE Spawn
    <2>1. BackendOK'
      BY <1>6, WindowAssumption DEF Spawn, BackendOK, Stream
    <2>2. TypeOK'
      BY <1>1, <1>4, <1>6, <2>1 DEF IInv, TypeOK, Spawn, result
    <2>3. Attempt' /\ ConsentCovers'
      BY <1>1, <1>2, <1>6 DEF Spawn, result, Attempt, ConsentCovers
    <2> QED
      BY <1>5, <2>2, <2>3 DEF IInv
  <1>7. CASE CannotSpawn
    <2>1. BackendOK'
      BY <1>7 DEF CannotSpawn, IInv, TypeOK, BackendOK
    <2>2. TypeOK'
      BY <1>1, <1>4, <1>7, <2>1 DEF IInv, TypeOK, CannotSpawn, Finish
    <2>3. pid' = 0 /\ script' = "none"
      BY <1>1, <1>3, <1>7 DEF CannotSpawn, IInv, Attempt
    <2>4. Attempt' /\ ConsentCovers'
      BY <1>1, <2>3 DEF Attempt, ConsentCovers
    <2> QED
      BY <1>5, <2>2, <2>4 DEF IInv
  <1> QED
    BY <1>6, <1>7 DEF Install

LEMMA BackendIInv ==
    ASSUME IInv, Script \/ (\E c \in Stream : Output(c))
    PROVE  IInv'
  <1>0. BackendOK
    BY DEF IInv, TypeOK
  <1>1. CASE Script
    <2>1. UNCHANGED <<life, file, form, dialog, pid, result, watch>> /\ script = "running"
      BY <1>1 DEF Script, WriteLine, Complain, ScriptEnds
    <2>2. BackendOK' /\ script' \in {"running", "ok", "failed"}
      <3>1. CASE WriteLine
        BY <1>0, <3>1, WindowAssumption DEF WriteLine, BackendOK, Stream
      <3>2. CASE Complain
        BY <1>0, <3>2, WindowAssumption DEF Complain, BackendOK, Stream
      <3>3. CASE ScriptEnds
        BY <1>0, <3>3 DEF ScriptEnds, BackendOK
      <3> QED
        BY <1>1, <3>1, <3>2, <3>3 DEF Script
    <2> QED
      BY <2>1, <2>2, OutputIInv
  <1>2. CASE \E c \in Stream : Output(c)
    <2>1. PICK c \in Stream : Output(c)
      BY <1>2
    <2>2. UNCHANGED <<life, file, form, dialog, pid, result, script, left>>
      BY <2>1 DEF Output
    <2>3. BackendOK'
      <3>1. CASE script = "running"
        <4>1. PICK n \in 1 .. pipe[c] :
                /\ pipe' = [pipe EXCEPT ![c] = @ - n]
                /\ error' = IF c = "err" /\ error = "sent" /\ n = pipe[c]
                            THEN "shown" ELSE error
                /\ watch' = watch
          BY <2>1, <3>1 DEF Output
        <4>2. pipe[c] \in 0 .. PipeSize /\ pipe[c] - n \in 0 .. PipeSize
          BY <1>0, WindowAssumption DEF BackendOK
        <4> QED
          BY <1>0, <2>2, <4>1, <4>2 DEF BackendOK
      <3>2. CASE script # "running"
        BY <1>0, <2>1, <2>2, <3>2, WindowAssumption DEF Output, BackendOK
      <3> QED
        BY <3>1, <3>2
    <2> QED
      BY <2>2, <2>3, OutputIInv
  <1> QED
    BY <1>1, <1>2

\* What the window, its dialogs and the other installer do apart from that.
LEMMA BackendExitIInv ==
    ASSUME IInv, BackendExit
    PROVE  IInv'
  <1>1. /\ UNCHANGED <<life, file, form, dialog, backend>>
        /\ life = "open" /\ pid # 0 /\ script # "running"
        /\ pid' = 0 /\ done' = TRUE /\ ok' = (script = "ok")
    BY DEF BackendExit, Finish
  <1>2. /\ file \in Files /\ dialog \in {"none", "close", "reboot"}
        /\ dialog # "none" => page = Progress
    BY DEF IInv, TypeOK, Files
  <1>3. page = Progress
    BY <1>1 DEF IInv, Attempt
  <1> QED
    BY <1>1, <1>2, <1>3, AsideIInv

LEMMA StayIInv ==
    ASSUME IInv, \/ AskReboot \/ AnswerNo \/ OtherUnlinks \/ OtherWrites
                 \/ Delete /\ ~done /\ pid > 0
                 \/ UNCHANGED vars
    PROVE  IInv'
  <1>1. /\ life \in {"off", "unlinked", "writing", "open"} /\ file \in Files
        /\ dialog \in {"none", "close", "reboot"} /\ pid \in {0, 1}
        /\ done \in BOOLEAN /\ ok \in BOOLEAN
        /\ dialog # "none" => life = "open" /\ page = Progress
        /\ Attempt
    BY DEF IInv, TypeOK, Files
  <1>2. UNCHANGED <<life, form, pid, done, ok, backend>>
    BY DEF AskReboot, AnswerNo, OtherUnlinks, OtherWrites, Delete, vars, result
  <1>3. file' \in Files
    BY <1>1 DEF AskReboot, AnswerNo, OtherUnlinks, OtherWrites, Delete, vars, Files
  <1>4. /\ dialog' \in {"none", "close", "reboot"}
        /\ dialog' # "none" => life = "open" /\ page = Progress
    <2>1. CASE AskReboot
      BY <2>1 DEF AskReboot, Clickable
    <2>2. CASE AnswerNo
      BY <2>2 DEF AnswerNo
    <2>3. CASE Delete /\ ~done /\ pid > 0
      BY <1>1, <2>3 DEF Delete, Clickable, Attempt
    <2>4. CASE OtherUnlinks \/ OtherWrites \/ UNCHANGED vars
      BY <1>1, <2>4 DEF OtherUnlinks, OtherWrites, vars
    <2> QED
      BY <2>1, <2>2, <2>3, <2>4
  <1> QED
    BY <1>1, <1>2, <1>3, <1>4, AsideIInv DEF Attempt

LEMMA LeaveIInv ==
    ASSUME IInv, \/ CloseButton \/ AnswerYes \/ AnswerYesTooLate \/ OtherKills
                 \/ Delete /\ ~(~done /\ pid > 0)
    PROVE  IInv'
  <1>1. /\ life' = "off" /\ dialog' = "none" /\ file' \in Files /\ pid' \in {0, 1}
        /\ UNCHANGED <<form, done, ok, left, pipe, watch, error>>
        /\ script' \in {script, "killed"} /\ script' # "running"
        /\ script = "none" => script' = "none"
    <2>1. /\ file \in Files /\ pid \in {0, 1} /\ Attempt
          /\ dialog # "none" => life = "open"
      BY DEF IInv, TypeOK, Files
    <2>2. CASE CloseButton
      BY <2>1, <2>2 DEF CloseButton, Clickable, Quit, Attempt, Files, result, backend
    <2>3. CASE AnswerYes
      BY <2>1, <2>3 DEF AnswerYes, Quit, Terminated, Files, result
    <2>4. CASE AnswerYesTooLate
      BY <2>1, <2>4 DEF AnswerYesTooLate, Attempt, result, backend
    <2>5. CASE OtherKills
      BY <2>1, <2>5 DEF OtherKills, Terminated, result
    <2>6. CASE Delete /\ ~(~done /\ pid > 0)
      <3>1. life = "open" /\ (done \/ pid = 0)
        BY <2>1, <2>6 DEF Delete, Clickable
      <3>2. script # "running"
        BY <2>1, <3>1 DEF Attempt
      <3>3. Quit /\ UNCHANGED <<pid, backend>>
        BY <2>6 DEF Delete
      <3> QED
        BY <2>1, <3>2, <3>3 DEF Quit, Files, result, backend
    <2> QED
      BY <2>2, <2>3, <2>4, <2>5, <2>6
  <1>2. UNCHANGED <<page, disk, filled, shown, confirmed, agreed>>
    BY <1>1 DEF form
  <1>3. FormOK' /\ BackendOK'
    BY <1>1, <1>2 DEF IInv, TypeOK, FormOK, BackendOK
  <1>4. TypeOK'
    BY <1>1, <1>3 DEF IInv, TypeOK, Files
  <1>5. InOrder' /\ Attempt'
    BY <1>1 DEF InOrder, Attempt
  <1>6. ConsentCovers'
    BY <1>1, <1>2 DEF IInv, ConsentCovers
  <1> QED
    BY <1>4, <1>5, <1>6 DEF IInv

LEMMA StepIInv == IInv /\ [Next]_vars => IInv'
  <1> SUFFICES ASSUME IInv, [Next]_vars PROVE IInv'
    OBVIOUS
  <1>1. CASE Unlink \/ Create \/ Deployed \/ NotDeployed
    BY <1>1, DeployIInv, DeployedIInv
  <1>2. CASE User
    BY <1>2, PagesIInv, InstallIInv, StayIInv, LeaveIInv DEF User
  <1>3. CASE Script \/ (\E c \in Stream : Output(c)) \/ BackendExit
    BY <1>3, BackendIInv, BackendExitIInv
  <1>4. CASE Other
    BY <1>4, StayIInv, LeaveIInv DEF Other
  <1> QED
    BY <1>1, <1>2, <1>3, <1>4, StayIInv DEF Next

LEMMA IInvHolds == Spec => []IInv
  BY InitIInv, StepIInv, PTL DEF Spec

-----------------------------------------------------------------------------
(* The theorems                                                            *)

\* TypeOK for every value of the constants; with it, a dialog is open only in
\* an open window on its last page.
THEOREM TypeCorrect == Spec => []TypeOK
  <1>1. IInv => TypeOK
    BY DEF IInv
  <1> QED
    BY <1>1, IInvHolds, PTL

\* The backend is given the disk the user agreed to erase, and valid entries.
THEOREM ConsentIsKept == Spec => []ConsentCovers
  <1>1. IInv => ConsentCovers
    BY DEF IInv
  <1> QED
    BY <1>1, IInvHolds, PTL

SessionVars == <<life = "open", script,
                 IF ~done THEN "nothing" ELSE IF ok THEN "success" ELSE "failure">>

\* A step that leaves the window, the attempt and the result alone is none of
\* the session.
LEMMA StutterRefines ==
    ASSUME life' = "open" <=> life = "open", UNCHANGED <<script, result>>
    PROVE  UNCHANGED SessionVars
  <1>1. (life = "open") = (life = "open")'
    OBVIOUS
  <1> QED
    BY <1>1 DEF SessionVars, result

LEMMA StepRefines == IInv /\ [Next]_vars => [Session!Next]_SessionVars
  <1> SUFFICES ASSUME IInv, [Next]_vars PROVE [Session!Next]_SessionVars
    OBVIOUS
  <1>1. CASE Unlink \/ Create \/ NotDeployed
    BY <1>1, StutterRefines DEF Unlink, Create, NotDeployed, backend, result
  <1>2. CASE Deployed
    BY <1>2 DEF Deployed, Session!Next, Session!Open
  <1>3. CASE ChooseDisk \/ Edit \/ Back \/ NextPage \/ Confirm \/ AskReboot \/ AnswerNo
    BY <1>3, StutterRefines
       DEF ChooseDisk, Edit, Back, NextPage, Confirm, AskReboot, AnswerNo, backend
  <1>4. CASE Install
    <2>1. life = "open" /\ life' = "open" /\ ~done /\ script = "none"
      BY <1>4 DEF Install, Clickable, IInv, Attempt, Summary, Progress
    <2>2. CASE Spawn
      BY <2>1, <2>2 DEF Spawn, result, Session!Next, Session!Start
    <2>3. CASE CannotSpawn
      BY <2>1, <2>3 DEF CannotSpawn, Finish, Session!Next, Session!Say
    <2> QED
      BY <1>4, <2>2, <2>3 DEF Install
  <1>5. CASE Script
    <2>1. UNCHANGED <<life, result>> /\ script = "running"
          /\ script' \in {"running", "ok", "failed"}
      BY <1>5 DEF Script, WriteLine, Complain, ScriptEnds
    <2>2. CASE script' = "running"
      BY <2>1, <2>2, StutterRefines
    <2>3. CASE script' # "running"
      BY <2>1, <2>3 DEF result, Session!Next, Session!End
    <2> QED
      BY <2>2, <2>3
  <1>6. CASE \E c \in Stream : Output(c)
    BY <1>6, StutterRefines DEF Output
  <1>7. CASE BackendExit
    BY <1>7 DEF BackendExit, Finish, backend, IInv, Attempt, Session!Next, Session!Say
  <1>8. CASE CloseButton
    BY <1>8 DEF CloseButton, Clickable, Quit, backend, result, IInv, Attempt,
                Session!Next, Session!Close
  <1>9. CASE Delete
    <2>1. CASE ~done /\ pid > 0
      BY <1>9, <2>1, StutterRefines DEF Delete, backend
    <2>2. CASE ~(~done /\ pid > 0)
      <3>1. script # "running"
        <4>1. pid \in {0, 1} /\ life = "open" /\ Attempt
          BY <1>9 DEF Delete, Clickable, IInv, TypeOK
        <4>2. done \/ pid = 0
          BY <2>2, <4>1
        <4> QED
          BY <4>1, <4>2 DEF Attempt
      <3>2. /\ life = "open" /\ life' = "off" /\ UNCHANGED <<script, done, ok>>
        BY <1>9, <2>2 DEF Delete, Clickable, Quit, backend, result
      <3> QED
        BY <3>1, <3>2 DEF Session!Next, Session!Close
    <2> QED
      BY <2>1, <2>2
  <1>10. CASE AnswerYes
    BY <1>10 DEF AnswerYes, Terminated, Quit, result, Session!Next, Session!Close
  <1>11. CASE AnswerYesTooLate
    BY <1>11 DEF AnswerYesTooLate, backend, result, IInv, Attempt,
                 Session!Next, Session!Close
  <1>12. CASE Other
    <2>1. CASE OtherUnlinks \/ OtherWrites
      BY <2>1, StutterRefines DEF OtherUnlinks, OtherWrites, backend
    <2>2. CASE OtherKills /\ life = "open"
      BY <2>2 DEF OtherKills, Terminated, result, Session!Next, Session!Close
    <2>3. CASE OtherKills /\ life # "open"
      BY <2>3, StutterRefines DEF OtherKills, Terminated, IInv, Attempt
    <2> QED
      BY <1>12, <2>1, <2>2, <2>3 DEF Other
  <1>13. CASE UNCHANGED vars
    BY <1>13, StutterRefines DEF vars, backend
  <1> QED
    BY <1>1, <1>2, <1>3, <1>4, <1>5, <1>6, <1>7, <1>8, <1>9, <1>10, <1>11, <1>12,
       <1>13 DEF Next, User

\* The window keeps the promise of InstallSession.
THEOREM SessionIsKept == Spec => KeepsSession
  <1>1. Init => Session!Init
    BY DEF Init, Session!Init
  <1> QED
    BY <1>1, IInvHolds, StepRefines, PTL
       DEF Spec, KeepsSession, Session!Spec, SessionVars
=============================================================================
