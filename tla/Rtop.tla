------------------------------- MODULE Rtop -------------------------------
(***************************************************************************)
(* The process monitor, rtop-gui.                                          *)
(*                                                                         *)
(* Every two seconds, and after every signal it has sent, the program      *)
(* reads /proc into a new table.  What a process has used of the processor *)
(* is the difference to the table before, which is kept by pid and knows   *)
(* nothing of processes.  Processes run, end and start while /proc is      *)
(* read, and a new one may get the pid of an old one.  The questions the   *)
(* program asks run a main loop of their own, in which the timer goes on.  *)
(***************************************************************************)
EXTENDS Naturals

CONSTANTS
    Pid,        \* process numbers
    NoPid,      \* no selection, no question
    MaxBirths,  \* bound: processes started
    MaxTicks    \* bound: clock ticks any of them uses

ASSUME RtopAssumption ==
    /\ NoPid \notin Pid
    /\ MaxBirths \in Nat /\ MaxTicks \in Nat

VARIABLES
    births,     \* processes started so far
    proc,       \* which of them has this pid; 0 when none has
    ticks,      \* what it has used: utime + stime
    moved,      \* the system's total has advanced since it was last read
    open,       \* the window is there
    reading,    \* refresh_all is under way
    todo,       \* pids its walk through /proc has yet to come to
    counts,     \* the total it has read is above the one before: dtotal > 0
    known,      \* there is a total from before: have_prev_total
    prev,       \* ticks in the table of the last refresh; 0 is also "absent"
    new,        \* ticks in the table being made
    row,        \* the list: whose row there is for a pid, and its CPU share
    selected,   \* the pid in the selected row
    dialog,     \* "none", "confirm", "select first" or "could not signal"
    target,     \* the pid the question is about
    seen        \* history: whose ticks were read last under a pid, and how many

system == <<births, proc, ticks, moved>>
table  == <<known, prev, new>>
walk   == <<reading, todo, counts, seen>>
list   == <<row, selected>>
ask    == <<dialog, target>>
vars   == <<system, open, table, walk, list, ask>>

NoRow == [of |-> 0, cpu |-> 0]
Nobody == [of |-> 0, ticks |-> 0]
Empty == [p \in Pid |-> 0]

Alive(p) == proc[p] # 0

-----------------------------------------------------------------------------
(* Refreshing                                                              *)

\* The start of refresh_all: the system's total, then an empty list.  Emptying
\* the list loses the selection.
RefreshAll ==
    /\ reading' = TRUE /\ todo' = Pid
    /\ counts' = (known /\ moved)
    /\ new' = Empty
    /\ row' = [p \in Pid |-> NoRow] /\ selected' = NoPid

\* Mutant of Share: what the process had used before is not subtracted.
ShareOfAll(p) ==
    IF counts /\ prev[p] # 0 THEN ticks[p] ELSE 0

\* The numerator of a row's CPU %: a value of 0 in the hash table is the null
\* pointer, so a process that had used nothing counts as one not seen before.
Share(p) ==
    LET before == IF prev[p] = 0 THEN ticks[p] ELSE prev[p]
    IN IF counts /\ ticks[p] > before THEN ticks[p] - before ELSE 0

\* One entry of /proc; a process gone by the time its files are opened is
\* passed over.
ReadProcess(p) ==
    /\ open /\ reading /\ p \in todo
    /\ todo' = todo \ {p}
    /\ IF Alive(p)
       THEN /\ row' = [row EXCEPT ![p] = [of |-> proc[p], cpu |-> Share(p)]]
            /\ new' = [new EXCEPT ![p] = ticks[p]]
            /\ seen' = [seen EXCEPT ![p] = [of |-> proc[p], ticks |-> ticks[p]]]
       ELSE UNCHANGED <<row, new, seen>>
    /\ UNCHANGED <<system, open, known, prev, reading, counts, selected, ask>>

\* Mutant of EndRefresh: the old table stays if there is one.
KeepTable ==
    /\ open /\ reading /\ todo = {}
    /\ reading' = FALSE
    /\ prev' = IF known THEN prev ELSE new
    /\ known' = TRUE
    /\ UNCHANGED <<system, open, new, todo, counts, seen, list, ask>>

EndRefresh ==
    /\ open /\ reading /\ todo = {}
    /\ reading' = FALSE
    /\ prev' = new /\ known' = TRUE
    /\ UNCHANGED <<system, open, new, todo, counts, seen, list, ask>>

\* Mutant of OnTimer: not while a question is open.
TimerWaits ==
    /\ open /\ ~reading /\ dialog = "none"
    /\ RefreshAll
    /\ moved' = FALSE
    /\ UNCHANGED <<births, proc, ticks, open, known, prev, seen, ask>>

\* Every two seconds, in whichever main loop runs.
OnTimer ==
    /\ open /\ ~reading
    /\ RefreshAll
    /\ moved' = FALSE
    /\ UNCHANGED <<births, proc, ticks, open, known, prev, seen, ask>>

-----------------------------------------------------------------------------
(* The user                                                                *)

Idle == open /\ ~reading
Clickable == Idle /\ dialog = "none"

Select(p) ==
    /\ Clickable /\ row[p] # NoRow
    /\ selected' = p
    /\ UNCHANGED <<system, open, table, walk, row, ask>>

\* Mutant of AskToSignal: without looking whether a row is selected.
AskAnyway ==
    /\ Clickable
    /\ dialog' = "confirm" /\ target' = selected
    /\ UNCHANGED <<system, open, table, walk, list>>

\* Terminate or Force Kill: the pid is taken before the question is asked.
AskToSignal ==
    /\ Clickable
    /\ dialog' = IF selected = NoPid THEN "select first" ELSE "confirm"
    /\ target' = selected
    /\ UNCHANGED <<system, open, table, walk, list>>

\* No, or OK to a message; after a failed signal the list is read again.
Dismiss ==
    /\ Idle /\ dialog # "none"
    /\ dialog' = "none" /\ target' = NoPid
    /\ IF dialog = "could not signal"
       THEN RefreshAll /\ moved' = FALSE
       ELSE UNCHANGED <<moved, reading, todo, counts, new, list>>
    /\ UNCHANGED <<births, proc, ticks, open, known, prev, seen>>

\* Yes, and whoever has the pid now gets the signal; SIGTERM may be ignored.
Signal ==
    /\ Idle /\ dialog = "confirm" /\ Alive(target)
    /\ \/ proc' = [proc EXCEPT ![target] = 0] /\ ticks' = [ticks EXCEPT ![target] = 0]
       \/ UNCHANGED <<proc, ticks>>
    /\ dialog' = "none" /\ target' = NoPid
    /\ RefreshAll
    /\ moved' = FALSE
    /\ UNCHANGED <<births, open, known, prev, seen>>

\* Yes, but the process has ended or is not the user's.
SignalFails ==
    /\ Idle /\ dialog = "confirm"
    /\ dialog' = "could not signal"
    /\ UNCHANGED <<system, open, table, walk, list, target>>

OnDestroy ==
    /\ Clickable
    /\ open' = FALSE
    /\ known' = FALSE /\ prev' = Empty /\ new' = Empty
    /\ row' = [p \in Pid |-> NoRow] /\ selected' = NoPid
    /\ UNCHANGED <<system, walk, ask>>

\* main, with the first refresh
Start ==
    /\ ~open
    /\ open' = TRUE
    /\ seen' = [p \in Pid |-> Nobody]
    /\ RefreshAll
    /\ moved' = FALSE
    /\ UNCHANGED <<births, proc, ticks, known, prev, ask>>

-----------------------------------------------------------------------------
(* Processes                                                               *)

Fork(p) ==
    /\ ~Alive(p) /\ births < MaxBirths
    /\ births' = births + 1
    /\ proc' = [proc EXCEPT ![p] = births + 1]
    /\ UNCHANGED <<ticks, moved, open, table, walk, list, ask>>

Exit(p) ==
    /\ Alive(p)
    /\ proc' = [proc EXCEPT ![p] = 0]
    /\ ticks' = [ticks EXCEPT ![p] = 0]
    /\ UNCHANGED <<births, moved, open, table, walk, list, ask>>

\* The system's total counts everybody's ticks.
Tick(p) ==
    /\ Alive(p) /\ ticks[p] < MaxTicks
    /\ ticks' = [ticks EXCEPT ![p] = @ + 1]
    /\ moved' = TRUE
    /\ UNCHANGED <<births, proc, open, table, walk, list, ask>>

IdleTick ==
    /\ moved' = TRUE
    /\ UNCHANGED <<births, proc, ticks, open, table, walk, list, ask>>

-----------------------------------------------------------------------------

Init ==
    /\ births = 0 /\ proc = Empty /\ ticks = Empty /\ moved = TRUE
    /\ open = FALSE /\ reading = FALSE /\ todo = {} /\ counts = FALSE
    /\ known = FALSE /\ prev = Empty /\ new = Empty
    /\ row = [p \in Pid |-> NoRow] /\ selected = NoPid
    /\ dialog = "none" /\ target = NoPid
    /\ seen = [p \in Pid |-> Nobody]

Refreshing == EndRefresh \/ \E p \in Pid : ReadProcess(p)

User ==
    \/ \E p \in Pid : Select(p)
    \/ AskToSignal \/ Dismiss \/ Signal \/ SignalFails \/ OnDestroy \/ Start

World == IdleTick \/ \E p \in Pid : Fork(p) \/ Exit(p) \/ Tick(p)

Next == Refreshing \/ OnTimer \/ User \/ World

Spec == Init /\ [][Next]_vars

\* A walk through /proc ends, and the timer goes off as long as the window is
\* there.  The user need not answer a question.
FairSpec == Spec /\ WF_vars(Refreshing) /\ WF_vars(OnTimer)

-----------------------------------------------------------------------------
(* Properties                                                              *)

\* The shape of the state: above all, a question has a pid, and a selected row
\* is in the list.
TypeOK ==
    /\ births \in 0 .. MaxBirths /\ proc \in [Pid -> 0 .. MaxBirths]
    /\ ticks \in [Pid -> 0 .. MaxTicks] /\ moved \in BOOLEAN
    /\ open \in BOOLEAN /\ reading \in BOOLEAN /\ todo \subseteq Pid
    /\ counts \in BOOLEAN /\ known \in BOOLEAN
    /\ prev \in [Pid -> 0 .. MaxTicks] /\ new \in [Pid -> 0 .. MaxTicks]
    /\ row \in [Pid -> [of : 0 .. MaxBirths, cpu : 0 .. MaxTicks]]
    /\ selected \in Pid \cup {NoPid} /\ target \in Pid \cup {NoPid}
    /\ dialog \in {"none", "confirm", "select first", "could not signal"}
    /\ seen \in [Pid -> [of : 0 .. MaxBirths, ticks : 0 .. MaxTicks]]
    /\ dialog = "confirm" => target \in Pid
    /\ selected \in Pid => row[selected] # NoRow

\* What the process with pid p has used since it was read last, or in all.
UsedSince(p) == IF seen[p].of = proc[p] THEN ticks[p] - seen[p].ticks ELSE ticks[p]

\* A row never charges a process with more than it has used itself since it was
\* last read, whoever had its pid before; and a process known with some ticks
\* is charged with all of it.
RowsHonest ==
    [][\A p \in Pid : ReadProcess(p) /\ row'[p] # NoRow =>
          /\ row'[p].of = proc[p]
          /\ row'[p].cpu <= UsedSince(p)
          /\ counts /\ seen[p].of = proc[p] /\ seen[p].ticks > 0 =>
                 row'[p].cpu = UsedSince(p)]_vars

\* Again and again the list has the processes there are and no others, also
\* while a question waits for its answer.
TableFollows == []<>(open => \A p \in Pid : row[p].of = proc[p])

-----------------------------------------------------------------------------
(* The inductive invariant behind the promises                             *)

\* Nobody is born twice.
Born == \A p \in Pid : proc[p] <= births /\ seen[p].of <= births

\* A table has what was last read under a pid, or nothing because nobody had the
\* pid then; it has it if that process is still there.
Remembers(t, p) ==
    /\ t[p] \in {0, seen[p].ticks}
    /\ Alive(p) /\ seen[p].of = proc[p] => t[p] = seen[p].ticks /\ t[p] <= ticks[p]

\* The walk replaces one table by the other, pid by pid.
Measured ==
    IF open
    THEN \A p \in Pid : Remembers(IF reading /\ p \notin todo THEN new ELSE prev, p)
    ELSE prev = Empty

\* The new table and the list have nothing yet of a pid the walk has not come to.
Fresh == reading => open /\ \A p \in todo : new[p] = 0 /\ row[p] = NoRow

IInv == TypeOK /\ Born /\ Measured /\ Fresh
=============================================================================
