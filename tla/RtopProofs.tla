----------------------------- MODULE RtopProofs -----------------------------
(***************************************************************************)
(* Proofs about Rtop, for any pids, and any number of processes and ticks. *)
(***************************************************************************)
EXTENDS Rtop, TLAPS

USE RtopAssumption

LEMMA Shapes ==
    /\ Empty \in [Pid -> 0 .. MaxTicks] /\ Empty \in [Pid -> 0 .. MaxBirths]
    /\ [p \in Pid |-> NoRow] \in [Pid -> [of : 0 .. MaxBirths, cpu : 0 .. MaxTicks]]
    /\ [p \in Pid |-> Nobody] \in [Pid -> [of : 0 .. MaxBirths, ticks : 0 .. MaxTicks]]
  <1>1. 0 \in 0 .. MaxTicks /\ 0 \in 0 .. MaxBirths
    OBVIOUS
  <1>2. NoRow \in [of : 0 .. MaxBirths, cpu : 0 .. MaxTicks]
    BY <1>1 DEF NoRow
  <1>3. Nobody \in [of : 0 .. MaxBirths, ticks : 0 .. MaxTicks]
    BY <1>1 DEF Nobody
  <1> QED
    BY <1>1, <1>2, <1>3 DEF Empty

LEMMA Numbers ==
    ASSUME IInv
    PROVE  /\ births \in Nat /\ 0 <= births /\ births <= MaxBirths /\ births \in 0 .. MaxBirths
           /\ proc \in [Pid -> 0 .. MaxBirths] /\ ticks \in [Pid -> 0 .. MaxTicks]
           /\ \A p \in Pid :
                 /\ proc[p] \in Nat /\ ticks[p] \in Nat /\ prev[p] \in Nat /\ new[p] \in Nat
                 /\ seen[p].of \in Nat /\ seen[p].ticks \in Nat
                 /\ proc[p] <= births /\ seen[p].of <= births
  <1>1. births \in 0 .. MaxBirths
    BY Zenon DEF IInv, TypeOK
  <1>2. proc \in [Pid -> 0 .. MaxBirths] /\ ticks \in [Pid -> 0 .. MaxTicks]
    BY Zenon DEF IInv, TypeOK
  <1>3. prev \in [Pid -> 0 .. MaxTicks] /\ new \in [Pid -> 0 .. MaxTicks]
    BY Zenon DEF IInv, TypeOK
  <1>4. seen \in [Pid -> [of : 0 .. MaxBirths, ticks : 0 .. MaxTicks]]
    BY Zenon DEF IInv, TypeOK
  <1>5. \A p \in Pid : proc[p] <= births /\ seen[p].of <= births
    BY Zenon DEF IInv, Born
  <1> QED
    BY <1>1, <1>2, <1>3, <1>4, <1>5

LEMMA InitIInv == ASSUME Init PROVE IInv
  <1>1. TypeOK
    <2>1. births \in 0 .. MaxBirths
      BY DEF Init
    <2>2. proc \in [Pid -> 0 .. MaxBirths] /\ ticks \in [Pid -> 0 .. MaxTicks]
      BY Shapes DEF Init
    <2>3. prev \in [Pid -> 0 .. MaxTicks] /\ new \in [Pid -> 0 .. MaxTicks]
      BY Shapes DEF Init
    <2>4. /\ row \in [Pid -> [of : 0 .. MaxBirths, cpu : 0 .. MaxTicks]]
          /\ seen \in [Pid -> [of : 0 .. MaxBirths, ticks : 0 .. MaxTicks]]
      BY Shapes DEF Init
    <2>5. /\ moved \in BOOLEAN /\ open \in BOOLEAN /\ reading \in BOOLEAN /\ todo \subseteq Pid
          /\ counts \in BOOLEAN /\ known \in BOOLEAN /\ selected = NoPid /\ target = NoPid
          /\ dialog = "none"
      BY DEF Init
    <2> QED
      BY <2>1, <2>2, <2>3, <2>4, <2>5 DEF TypeOK
  <1>2. Born /\ Measured /\ Fresh
    BY DEF Init, Born, Measured, Fresh, Empty, Nobody
  <1> QED
    BY <1>1, <1>2 DEF IInv

\* The start of a walk, from wherever the list is read.
LEMMA RefreshIInv ==
    ASSUME IInv, ~reading, open, RefreshAll, open' = TRUE, moved' \in BOOLEAN,
           UNCHANGED <<births, known, prev, seen>>,
           \A p \in Pid : \/ proc'[p] = proc[p] /\ ticks'[p] = ticks[p]
                          \/ proc'[p] = 0 /\ ticks'[p] = 0,
           proc' \in [Pid -> 0 .. MaxBirths], ticks' \in [Pid -> 0 .. MaxTicks],
           dialog' \in {"none", "confirm", "select first", "could not signal"},
           target' \in Pid \cup {NoPid}, dialog' = "confirm" => target' \in Pid
    PROVE  IInv'
  <1>1. /\ reading' = TRUE /\ todo' = Pid /\ counts' \in BOOLEAN
        /\ new' \in [Pid -> 0 .. MaxTicks]
        /\ row' \in [Pid -> [of : 0 .. MaxBirths, cpu : 0 .. MaxTicks]] /\ selected' = NoPid
    BY Shapes DEF RefreshAll, IInv, TypeOK
  <1>2. TypeOK'
    BY <1>1 DEF IInv, TypeOK
  <1>3. Born'
    <2>1. ASSUME NEW p \in Pid PROVE proc'[p] <= births' /\ seen'[p].of <= births'
      <3>1. /\ births \in Nat /\ proc[p] \in Nat /\ seen[p].of \in Nat
            /\ proc[p] <= births /\ seen[p].of <= births
        BY Numbers
      <3>2. births' = births /\ seen'[p] = seen[p] /\ (proc'[p] = proc[p] \/ proc'[p] = 0)
        OBVIOUS
      <3>3. seen'[p].of <= births'
        BY <3>1, <3>2
      <3>4. CASE proc'[p] = proc[p]
        BY <3>1, <3>2, <3>3, <3>4
      <3>5. CASE proc'[p] = 0
        <4>1. 0 <= births
          BY Numbers
        <4> QED
          BY <3>2, <3>3, <3>5, <4>1
      <3> QED
        BY <3>2, <3>4, <3>5
    <2> QED
      BY <2>1 DEF Born
  <1>4. Measured' /\ Fresh'
    BY <1>1 DEF IInv, Measured, Fresh, Remembers, Alive, RefreshAll, Empty
  <1> QED
    BY <1>2, <1>3, <1>4 DEF IInv

LEMMA OnTimerIInv == ASSUME IInv, OnTimer PROVE IInv'
  BY RefreshIInv DEF OnTimer, ask, IInv, TypeOK

LEMMA DismissIInv == ASSUME IInv, Dismiss PROVE IInv'
  <1>1. CASE dialog = "could not signal"
    <2>1. /\ open /\ ~reading /\ RefreshAll /\ moved' = FALSE /\ dialog' = "none" /\ target' = NoPid
          /\ UNCHANGED <<births, proc, ticks, open, known, prev, seen>>
      BY <1>1 DEF Dismiss, Idle
    <2> QED
      BY <2>1, RefreshIInv DEF IInv, TypeOK
  <1>2. CASE dialog # "could not signal"
    <2>1. /\ UNCHANGED <<births, proc, ticks, moved, open, reading, todo, counts, known, prev, new,
                         row, selected, seen>>
          /\ dialog' = "none" /\ target' = NoPid
      BY <1>2 DEF Dismiss, list
    <2> QED
      BY <2>1 DEF IInv, TypeOK, Born, Measured, Fresh, Remembers, Alive
  <1> QED
    BY <1>1, <1>2

LEMMA SignalIInv == ASSUME IInv, Signal PROVE IInv'
  <1>1. /\ open /\ ~reading /\ RefreshAll /\ moved' = FALSE /\ dialog' = "none" /\ target' = NoPid
        /\ UNCHANGED <<births, open, known, prev, seen>>
        /\ \/ proc' = [proc EXCEPT ![target] = 0] /\ ticks' = [ticks EXCEPT ![target] = 0]
           \/ UNCHANGED <<proc, ticks>>
    BY DEF Signal, Idle
  <1>2. /\ proc' \in [Pid -> 0 .. MaxBirths] /\ ticks' \in [Pid -> 0 .. MaxTicks]
        /\ \A p \in Pid : \/ proc'[p] = proc[p] /\ ticks'[p] = ticks[p]
                          \/ proc'[p] = 0 /\ ticks'[p] = 0
    <2>1. proc \in [Pid -> 0 .. MaxBirths] /\ ticks \in [Pid -> 0 .. MaxTicks]
      BY Numbers
    <2>2. 0 \in 0 .. MaxBirths /\ 0 \in 0 .. MaxTicks
      OBVIOUS
    <2>3. CASE UNCHANGED <<proc, ticks>>
      BY <2>1, <2>3
    <2>4. CASE proc' = [proc EXCEPT ![target] = 0] /\ ticks' = [ticks EXCEPT ![target] = 0]
      BY <2>1, <2>2, <2>4
    <2> QED
      BY <1>1, <2>3, <2>4
  <1> QED
    BY <1>1, <1>2, RefreshIInv DEF IInv, TypeOK

LEMMA ReadIInv == ASSUME IInv, NEW p \in Pid, ReadProcess(p) PROVE IInv'
  <1>1. /\ UNCHANGED <<births, proc, ticks, moved, open, known, prev, reading, counts, selected,
                       dialog, target>>
        /\ open /\ reading /\ p \in todo /\ todo' = todo \ {p}
    BY DEF ReadProcess, system, ask
  <1>2. CASE ~Alive(p)
    <2>1. UNCHANGED <<row, new, seen>>
      BY <1>2 DEF ReadProcess
    <2>2. TypeOK' /\ Born'
      BY <1>1, <2>1 DEF IInv, TypeOK, Born
    <2>3. new[p] = 0
      BY <1>1 DEF IInv, Fresh
    <2> QED
      BY <1>1, <1>2, <2>1, <2>2, <2>3 DEF IInv, Fresh, Measured, Remembers, Alive
  <1>3. CASE Alive(p)
    <2>1. /\ row' = [row EXCEPT ![p] = [of |-> proc[p], cpu |-> Share(p)]]
          /\ new' = [new EXCEPT ![p] = ticks[p]]
          /\ seen' = [seen EXCEPT ![p] = [of |-> proc[p], ticks |-> ticks[p]]]
      BY <1>3 DEF ReadProcess
    <2>2. proc[p] \in 0 .. MaxBirths /\ ticks[p] \in 0 .. MaxTicks /\ prev[p] \in 0 .. MaxTicks
      BY DEF IInv, TypeOK
    <2>3. Share(p) \in 0 .. MaxTicks
      BY <2>2 DEF Share
    <2>4. row' \in [Pid -> [of : 0 .. MaxBirths, cpu : 0 .. MaxTicks]]
      BY <2>1, <2>2, <2>3 DEF IInv, TypeOK
    <2>5. seen' \in [Pid -> [of : 0 .. MaxBirths, ticks : 0 .. MaxTicks]] /\ new' \in [Pid -> 0 .. MaxTicks]
      BY <2>1, <2>2 DEF IInv, TypeOK
    <2>6. selected \in Pid => row'[selected] # NoRow
      BY <1>3, <2>1 DEF IInv, TypeOK, NoRow, Alive
    <2>7. TypeOK'
      BY <1>1, <2>4, <2>5, <2>6 DEF IInv, TypeOK
    <2>8. \A q \in Pid :
            /\ q # p => row'[q] = row[q]
            /\ new'[q] = IF q = p THEN ticks[p] ELSE new[q]
            /\ seen'[q] = IF q = p THEN [of |-> proc[p], ticks |-> ticks[p]] ELSE seen[q]
      BY <2>1 DEF IInv, TypeOK
    <2>9. Born' /\ Fresh'
      <3>1. \A q \in Pid : seen'[q].of = IF q = p THEN proc[p] ELSE seen[q].of
        BY <2>8
      <3>2. Born'
        BY <1>1, <3>1 DEF IInv, Born
      <3>3. \A q \in todo' : q \in Pid /\ q # p
        BY <1>1 DEF IInv, TypeOK
      <3> QED
        BY <1>1, <2>8, <3>2, <3>3 DEF IInv, Fresh
    <2>10. Measured'
      BY <1>1, <2>2, <2>8 DEF IInv, Measured, Remembers, Alive
    <2> QED
      BY <2>7, <2>9, <2>10 DEF IInv
  <1> QED
    BY <1>2, <1>3

LEMMA EndRefreshIInv == ASSUME IInv, EndRefresh PROVE IInv'
  <1>1. /\ UNCHANGED <<births, proc, ticks, moved, open, new, todo, counts, seen, row, selected,
                       dialog, target>>
        /\ reading /\ todo = {} /\ reading' = FALSE /\ prev' = new /\ known' = TRUE
    BY DEF EndRefresh, system, list, ask
  <1>2. TypeOK' /\ Born' /\ Fresh'
    BY <1>1 DEF IInv, TypeOK, Born, Fresh
  <1>3. Measured'
    BY <1>1 DEF IInv, Measured, Fresh, Remembers, Alive
  <1> QED
    BY <1>2, <1>3 DEF IInv

LEMMA AskIInv ==
    ASSUME IInv, (\E p \in Pid : Select(p)) \/ AskToSignal \/ SignalFails
    PROVE  IInv'
  <1>1. UNCHANGED <<births, proc, ticks, moved, open, known, prev, new, reading, todo, counts, seen,
                    row>>
    BY DEF Select, AskToSignal, SignalFails, system, table, walk, list
  <1>2. /\ selected' \in Pid \cup {NoPid} /\ target' \in Pid \cup {NoPid}
        /\ dialog' \in {"none", "confirm", "select first", "could not signal"}
        /\ dialog' = "confirm" => target' \in Pid
        /\ selected' \in Pid => row[selected'] # NoRow
    BY DEF Select, AskToSignal, SignalFails, list, ask, IInv, TypeOK
  <1>3. TypeOK'
    BY <1>1, <1>2 DEF IInv, TypeOK
  <1>4. Born' /\ Measured' /\ Fresh'
    BY <1>1 DEF IInv, Born, Measured, Fresh, Remembers, Alive
  <1> QED
    BY <1>3, <1>4 DEF IInv

LEMMA OnDestroyIInv == ASSUME IInv, OnDestroy PROVE IInv'
  <1>1. /\ UNCHANGED <<births, proc, ticks, moved, reading, todo, counts, seen, dialog, target>>
        /\ open' = FALSE /\ known' = FALSE /\ ~reading /\ prev' = Empty
        /\ prev' \in [Pid -> 0 .. MaxTicks] /\ new' \in [Pid -> 0 .. MaxTicks]
        /\ row' \in [Pid -> [of : 0 .. MaxBirths, cpu : 0 .. MaxTicks]] /\ selected' = NoPid
    BY Shapes DEF OnDestroy, Clickable, Idle, system, walk, ask
  <1>2. TypeOK'
    BY <1>1 DEF IInv, TypeOK
  <1> QED
    BY <1>1, <1>2 DEF IInv, Born, Measured, Fresh

LEMMA StartIInv == ASSUME IInv, Start PROVE IInv'
  <1>1. /\ UNCHANGED <<births, proc, ticks, known, prev, dialog, target>>
        /\ open' = TRUE /\ moved' = FALSE /\ reading' = TRUE /\ todo' = Pid /\ selected' = NoPid
        /\ counts' = (known /\ moved) /\ new' = Empty /\ \A p \in Pid : row'[p] = NoRow
    BY DEF Start, RefreshAll, ask
  <1>2. seen' \in [Pid -> [of : 0 .. MaxBirths, ticks : 0 .. MaxTicks]] /\ seen' = [p \in Pid |-> Nobody]
    BY Shapes DEF Start
  <1>3. row' \in [Pid -> [of : 0 .. MaxBirths, cpu : 0 .. MaxTicks]] /\ new' \in [Pid -> 0 .. MaxTicks]
    BY Shapes DEF Start, RefreshAll
  <1>4. prev = Empty
    BY DEF Start, IInv, Measured
  <1>5. TypeOK'
    BY <1>1, <1>2, <1>3 DEF IInv, TypeOK
  <1>6. Born'
    <2>1. births \in Nat
      BY Numbers
    <2> QED
      BY <1>1, <1>2, <2>1 DEF IInv, Born, Nobody
  <1>7. Measured' /\ Fresh'
    BY <1>1, <1>2, <1>4 DEF Measured, Fresh, Remembers, Alive, Nobody, Empty
  <1> QED
    BY <1>5, <1>6, <1>7 DEF IInv

\* Processes.
LEMMA WorldIInv == ASSUME IInv, World PROVE IInv'
  <1> USE DEF table, walk, list, ask
  <1>1. CASE IdleTick
    BY <1>1 DEF IdleTick, IInv, TypeOK, Born, Measured, Fresh, Remembers, Alive
  <1>2. ASSUME NEW p \in Pid, Fork(p) PROVE IInv'
    <2>1. /\ UNCHANGED <<ticks, moved, open, known, prev, new, reading, todo, counts, seen, row,
                         selected, dialog, target>>
          /\ births' = births + 1 /\ births' \in 0 .. MaxBirths /\ births \in Nat
          /\ \A q \in Pid : proc'[q] = IF q = p THEN births + 1 ELSE proc[q]
          /\ proc' \in [Pid -> 0 .. MaxBirths]
      BY <1>2, Numbers DEF Fork
    <2>2. \A q \in Pid : proc[q] \in Nat /\ seen[q].of \in Nat /\ proc[q] <= births /\ seen[q].of <= births
      BY Numbers
    <2>3. TypeOK'
      BY <2>1 DEF IInv, TypeOK
    <2>4. Born'
      BY <2>1, <2>2 DEF Born
    <2>5. \A q \in Pid : Alive(q)' /\ seen[q].of = proc'[q] => Alive(q) /\ seen[q].of = proc[q]
      BY <2>1, <2>2 DEF Alive
    <2>6. Measured' /\ Fresh'
      BY <2>1, <2>5 DEF IInv, Measured, Fresh, Remembers
    <2> QED
      BY <2>3, <2>4, <2>6 DEF IInv
  <1>3. ASSUME NEW p \in Pid, Exit(p) PROVE IInv'
    <2>1. /\ UNCHANGED <<births, moved, open, known, prev, new, reading, todo, counts, seen, row,
                         selected, dialog, target>>
          /\ \A q \in Pid : proc'[q] = IF q = p THEN 0 ELSE proc[q]
          /\ \A q \in Pid : ticks'[q] = IF q = p THEN 0 ELSE ticks[q]
          /\ proc' \in [Pid -> 0 .. MaxBirths] /\ ticks' \in [Pid -> 0 .. MaxTicks]
      BY <1>3, Numbers DEF Exit
    <2>2. TypeOK'
      BY <2>1 DEF IInv, TypeOK
    <2>3. Born'
      <3>1. births \in Nat
        BY Numbers
      <3> QED
        BY <2>1, <3>1 DEF IInv, Born
    <2>4. Measured' /\ Fresh'
      BY <2>1 DEF IInv, Measured, Fresh, Remembers, Alive
    <2> QED
      BY <2>2, <2>3, <2>4 DEF IInv
  <1>4. ASSUME NEW p \in Pid, Tick(p) PROVE IInv'
    <2>1. /\ UNCHANGED <<births, proc, open, known, prev, new, reading, todo, counts, seen, row,
                         selected, dialog, target>>
          /\ moved' = TRUE
          /\ \A q \in Pid : ticks'[q] \in 0 .. MaxTicks /\ ticks[q] \in 0 .. MaxTicks /\ ticks[q] <= ticks'[q]
          /\ ticks' \in [Pid -> 0 .. MaxTicks]
      BY <1>4, Numbers DEF Tick
    <2>2. TypeOK' /\ Born'
      BY <2>1 DEF IInv, TypeOK, Born
    <2>3. \A q \in Pid : prev[q] \in Nat /\ new[q] \in Nat
      BY Numbers
    <2>4. Measured' /\ Fresh'
      BY <2>1, <2>3 DEF IInv, Measured, Fresh, Remembers, Alive
    <2> QED
      BY <2>2, <2>4 DEF IInv
  <1> QED
    BY <1>1, <1>2, <1>3, <1>4 DEF World

-----------------------------------------------------------------------------
(* The invariant                                                           *)

LEMMA NextIInv == ASSUME IInv, [Next]_vars PROVE IInv'
  <1>1. CASE Refreshing
    BY <1>1, EndRefreshIInv, ReadIInv DEF Refreshing
  <1>2. CASE OnTimer
    BY <1>2, OnTimerIInv
  <1>3. CASE User
    <2>1. CASE SignalFails \/ AskToSignal \/ \E p \in Pid : Select(p)
      BY <2>1, AskIInv
    <2> QED
      BY <1>3, <2>1, DismissIInv, SignalIInv, OnDestroyIInv, StartIInv DEF User
  <1>4. CASE World
    BY <1>4, WorldIInv
  <1>5. CASE UNCHANGED vars
    BY <1>5 DEF vars, system, table, walk, list, ask, IInv, TypeOK, Born, Measured, Fresh,
                Remembers, Alive
  <1> QED
    BY <1>1, <1>2, <1>3, <1>4, <1>5 DEF Next

LEMMA Invariance == Spec => []IInv
  <1>1. Init => IInv
    BY InitIInv
  <1>2. IInv /\ [Next]_vars => IInv'
    BY NextIInv
  <1> QED
    BY <1>1, <1>2, PTL DEF Spec

\* The state has its shape, for any pids and any number of processes: a question
\* about a signal always has a pid, whatever the timer does to the selection.
THEOREM TypeCorrect == Spec => []TypeOK
  <1>1. IInv => TypeOK
    BY DEF IInv
  <1> QED
    BY <1>1, Invariance, PTL

LEMMA HonestStep ==
    ASSUME IInv, NEW p \in Pid, ReadProcess(p), row'[p] # NoRow
    PROVE  /\ row'[p].of = proc[p]
           /\ row'[p].cpu <= UsedSince(p)
           /\ counts /\ seen[p].of = proc[p] /\ seen[p].ticks > 0 => row'[p].cpu = UsedSince(p)
  <1>1. row[p] = NoRow
    BY DEF ReadProcess, IInv, Fresh
  <1>2. Alive(p) /\ row' = [row EXCEPT ![p] = [of |-> proc[p], cpu |-> Share(p)]]
    BY <1>1 DEF ReadProcess
  <1>3. row'[p].of = proc[p] /\ row'[p].cpu = Share(p)
    <2>1. row \in [Pid -> [of : 0 .. MaxBirths, cpu : 0 .. MaxTicks]]
      BY DEF IInv, TypeOK
    <2> QED
      BY <1>2, <2>1
  <1>4. Remembers(prev, p)
    BY DEF ReadProcess, IInv, Measured
  <1>5. ticks[p] \in Nat /\ prev[p] \in Nat /\ seen[p].ticks \in Nat
    BY Numbers
  <1>6. CASE seen[p].of = proc[p]
    <2>1. prev[p] = seen[p].ticks /\ prev[p] <= ticks[p] /\ UsedSince(p) = ticks[p] - prev[p]
      BY <1>2, <1>4, <1>6 DEF Remembers, UsedSince
    <2>2. Share(p) <= ticks[p] - prev[p]
      BY <1>5, <2>1 DEF Share
    <2>3. counts /\ prev[p] > 0 => Share(p) = ticks[p] - prev[p]
      BY <1>5, <2>1 DEF Share
    <2> QED
      BY <1>3, <2>1, <2>2, <2>3
  <1>7. CASE seen[p].of # proc[p]
    <2>1. UsedSince(p) = ticks[p]
      BY <1>7 DEF UsedSince
    <2>2. Share(p) <= ticks[p]
      BY <1>5 DEF Share
    <2> QED
      BY <1>3, <1>7, <2>1, <2>2
  <1> QED
    BY <1>6, <1>7

\* No row charges a process with what another one used under the same pid, and
\* every process known with some ticks is charged with all it has used since.
THEOREM RowsAreHonest == Spec => RowsHonest
  <1>1. IInv /\ [Next]_vars =>
          [\A p \in Pid : ReadProcess(p) /\ row'[p] # NoRow =>
              /\ row'[p].of = proc[p]
              /\ row'[p].cpu <= UsedSince(p)
              /\ counts /\ seen[p].of = proc[p] /\ seen[p].ticks > 0 =>
                     row'[p].cpu = UsedSince(p)]_vars
    BY HonestStep
  <1> QED
    BY <1>1, Invariance, PTL DEF Spec, RowsHonest
=============================================================================
