-------------------------- MODULE UsbVolumesProofs --------------------------
(***************************************************************************)
(* Proofs about UsbVolumes, for any disks, partitions, names and           *)
(* terminals.                                                              *)
(***************************************************************************)
EXTENDS UsbVolumes, TLAPS

USE UsbAssumption

LEMMA VolumeParts ==
    /\ \A v \in Volume : v[1] \in Name /\ v[2] \in Part /\ v = <<v[1], v[2]>>
    /\ \A n \in Name, p \in Part : <<n, p>> \in Volume /\ <<n, p>>[1] = n /\ <<n, p>>[2] = p
    /\ \A d \in Disk : Parts[d] \subseteq Part
  BY DEF Volume, Part

LEMMA InitIInv == ASSUME Init PROVE IInv
  <1>1. fs \in [Disk -> [Part -> FileSystem]] /\ \E c \in Contents : fs[Persist] = c[Persist]
    BY DEF Init
  <1>2. TypeOK
    BY <1>1 DEF Init, TypeOK, Mounted
  <1>3. Settled
    BY <1>1, VolumeParts DEF Init, Settled
  <1> QED
    BY <1>2, <1>3 DEF Init, IInv, KeptHere, Draining

\* A mount, by the service or by a user.
LEMMA MountIInv ==
    ASSUME IInv, NEW v \in Volume, ~IsPersist(v[1]), ~Mounted(v), BlkType(v) # "none",
           mount' = [mount EXCEPT ![v] = at[v[1]]], kept' \in {kept, kept \cup {v}},
           UNCHANGED <<plugs, fs, opened, cmds, sweep>>
    PROVE  IInv'
  <1> USE VolumeParts DEF plugs, cmds
  <1>1. at[v[1]] \in Disk
    BY DEF BlkType, IInv, TypeOK
  <1>2. \A w \in Volume : mount'[w] = IF w = v THEN at[v[1]] ELSE mount[w]
    BY DEF IInv, TypeOK
  <1>3. TypeOK'
    BY <1>1, <1>2 DEF IInv, TypeOK, Mounted
  <1>4. KeptHere'
    BY <1>1, <1>2 DEF IInv, TypeOK, KeptHere, Mounted
  <1>5. Settled'
    BY <1>2 DEF IInv, Settled, IsPersist
  <1>6. Draining'
    BY DEF IInv, Draining, Targets
  <1> QED
    BY <1>3, <1>4, <1>5, <1>6 DEF IInv

\* An unmount of a volume without open files, by the service or by a user.
LEMMA UnmountIInv ==
    ASSUME IInv, NEW v \in Volume, v \notin opened, mount' = [mount EXCEPT ![v] = NoDisk],
           kept' \subseteq kept, sweep' \in {sweep, NoVolume}, UNCHANGED <<plugs, fs, opened, cmds>>
    PROVE  IInv'
  <1> USE DEF plugs, cmds
  <1>1. \A w \in Volume : mount'[w] = IF w = v THEN NoDisk ELSE mount[w]
    BY DEF IInv, TypeOK
  <1>2. TypeOK'
    BY <1>1 DEF IInv, TypeOK, Mounted
  <1>3. KeptHere' /\ Settled' /\ Draining'
    BY <1>1 DEF IInv, TypeOK, KeptHere, Settled, Draining, Targets, Mounted
  <1> QED
    BY <1>2, <1>3 DEF IInv

LEMMA ServiceIInv == ASSUME IInv, Usbmount PROVE IInv'
  <1>1. ASSUME NEW v \in Volume, AutoMount(v) PROVE IInv'
    BY <1>1, MountIInv DEF AutoMount, MountDev
  <1>2. ASSUME NEW v \in Volume, SweepLook(v) PROVE IInv'
    BY <1>2 DEF SweepLook, Look, plugs, vols, cmds, IInv, TypeOK, KeptHere, Settled, Draining,
                Targets, Mounted
  <1>3. ASSUME NEW v \in Volume, Sweep(v) PROVE IInv'
    <2>1. CASE v \in opened
      BY <1>3, <2>1 DEF Sweep, plugs, cmds, IInv, TypeOK, KeptHere, Settled, Draining, Targets, Mounted
    <2>2. CASE v \notin opened
      BY <1>3, <2>2, UnmountIInv DEF Sweep
    <2> QED
      BY <2>1, <2>2
  <1> QED
    BY <1>1, <1>2, <1>3 DEF Usbmount

-----------------------------------------------------------------------------
(* Commands                                                                *)

\* A command begins, with what has been open since and is ahead of it.
LEMMA EnterIInv ==
    ASSUME IInv, NEW t \in Terminal, NEW where \in {"eject", "prompt", "fsck"}, NEW j \in Jobs,
           Enter(t, where, j), ~IsPersist(j.name), j.since \subseteq opened,
           j.since \subseteq {j.name} \X j.todo, UNCHANGED <<plugs, vols, kept, sweep>>
    PROVE  IInv'
  <1> USE DEF plugs, vols
  <1>1. \A u \in Terminal :
            pc'[u] = (IF u = t THEN where ELSE pc[u]) /\ job'[u] = (IF u = t THEN j ELSE job[u])
    BY DEF Enter, IInv, TypeOK
  <1>2. TypeOK'
    <2>1. pc' \in [Terminal -> {"idle", "eject", "sync", "prompt", "fsck"}]
      BY DEF Enter, IInv, TypeOK
    <2>2. job' \in [Terminal -> Jobs \cup {NoJob}]
      BY DEF Enter, IInv, TypeOK
    <2> QED
      BY <1>1, <2>1, <2>2 DEF IInv, TypeOK, Mounted
  <1>3. KeptHere' /\ Settled'
    BY <1>1 DEF IInv, KeptHere, Settled, Mounted, IsPersist
  <1>4. Draining'
    BY <1>1 DEF IInv, Draining, Targets
  <1> QED
    BY <1>2, <1>3, <1>4 DEF IInv

\* A command ends, having changed nothing or only what it may.
LEMMA LeaveIInv ==
    ASSUME IInv, NEW t \in Terminal, Leave(t), fs' \in [Disk -> [Part -> FileSystem]],
           ejected' \subseteq Disk, UNCHANGED <<at, system, pulled, mount, opened, kept, sweep>>,
           system # NoName /\ ~pulled =>
               fs'[Persist] = fs[Persist] /\ (Persist \in ejected' => Persist \in ejected)
    PROVE  IInv'
  <1>1. /\ \A u \in Terminal : u # t => pc'[u] = pc[u] /\ job'[u] = job[u]
        /\ pc'[t] = "idle"
    BY DEF Leave, IInv, TypeOK
  <1>2. TypeOK'
    <2>1. /\ pc' \in [Terminal -> {"idle", "eject", "sync", "prompt", "fsck"}]
          /\ job' \in [Terminal -> Jobs \cup {NoJob}]
      BY DEF Leave, IInv, TypeOK
    <2> QED
      BY <1>1, <2>1 DEF IInv, TypeOK, Mounted
  <1>3. KeptHere' /\ Settled'
    BY <1>1 DEF IInv, KeptHere, Settled, Mounted
  <1>4. Draining'
    BY <1>1 DEF IInv, Draining, Targets
  <1> QED
    BY <1>2, <1>3, <1>4 DEF IInv

LEMMA BeginIInv ==
    ASSUME IInv, NEW t \in Terminal,
           \/ \E v \in Volume : Format(t, v) \/ Fsck(t, v)
           \/ \E n \in Name : Eject(t, n)
    PROVE  IInv'
  <1>1. ASSUME NEW v \in Volume, NEW where \in {"prompt", "fsck"}, ~IsPersist(v[1]),
               Enter(t, where, [name |-> v[1], todo |-> {v[2]}, failed |-> FALSE, since |-> {}]),
               UNCHANGED <<plugs, vols, kept, sweep>>
        PROVE  IInv'
    <2> DEFINE j == [name |-> v[1], todo |-> {v[2]}, failed |-> FALSE, since |-> {}]
    <2>1. j \in Jobs
      BY VolumeParts DEF Jobs
    <2>2. j.name = v[1] /\ j.since = {}
      OBVIOUS
    <2> HIDE DEF j
    <2>3. Enter(t, where, j)
      BY <1>1 DEF j
    <2> QED
      BY <1>1, <2>1, <2>2, <2>3, EnterIInv
  <1>2. ASSUME NEW n \in Name, Eject(t, n) PROVE IInv'
    <2> DEFINE j == [name |-> n, todo |-> Parts[at[n]], failed |-> FALSE,
                     since |-> opened \cap ({n} \X Parts[at[n]])]
    <2>1. at[n] \in Disk
      BY <1>2 DEF Eject, IInv, TypeOK
    <2>2. opened \subseteq Volume
      BY DEF IInv, TypeOK
    <2>3. j \in Jobs
      BY <2>1, <2>2, VolumeParts DEF Jobs
    <2>4. j.name = n /\ j.since \subseteq opened /\ j.since \subseteq {j.name} \X j.todo
      OBVIOUS
    <2>5. Enter(t, "eject", j) /\ ~IsPersist(n) /\ UNCHANGED <<plugs, vols, kept, sweep>>
      BY <1>2 DEF Eject
    <2> HIDE DEF j
    <2> QED
      BY <2>3, <2>4, <2>5, EnterIInv
  <1> QED
    BY <1>1, <1>2 DEF Format, Fsck

LEMMA Ahead ==
    ASSUME IInv, NEW t \in Terminal, pc[t] = "eject"
    PROVE  job[t].since \subseteq opened /\ (job[t].failed \/ job[t].since \subseteq Targets(t))
  <1>1. Draining
    BY DEF IInv
  <1> QED
    BY <1>1, Zenon DEF Draining

LEMMA EjectPartIInv ==
    ASSUME IInv, NEW t \in Terminal, NEW p \in Part, EjectPart(t, p)
    PROVE  IInv'
  <1> DEFINE v == <<job[t].name, p>>
             busy == Mounted(v) /\ v \in opened
             b == job[t].failed \/ busy
  <1>1. /\ UNCHANGED <<at, system, ejected, pulled, fs, opened, pc, sweep>>
        /\ pc[t] = "eject" /\ job[t] \in Jobs
        /\ mount' = (IF busy THEN mount ELSE [mount EXCEPT ![v] = NoDisk])
        /\ kept' = (IF busy THEN kept ELSE kept \ {v})
    BY DEF EjectPart, plugs, IInv, TypeOK
  <1>13. job' = [job EXCEPT ![t] = [job[t] EXCEPT !.todo = job[t].todo \ {p}, !.failed = b]]
    BY DEF EjectPart
  <1>2. v \in Volume /\ (~busy => v \notin opened)
    BY <1>1, VolumeParts DEF Jobs, IInv, TypeOK
  <1>3. \A u \in Terminal : u # t => job'[u] = job[u]
    BY <1>13 DEF IInv, TypeOK
  <1>4. /\ job'[t] \in Jobs /\ job'[t].name = job[t].name /\ job'[t].since = job[t].since
        /\ job'[t].todo = job[t].todo \ {p} /\ job'[t].failed = b
    <2> HIDE DEF b
    <2>1. job'[t] = [job[t] EXCEPT !.todo = job[t].todo \ {p}, !.failed = b]
      BY <1>13 DEF IInv, TypeOK
    <2>2. /\ job[t].name \in Name /\ job[t].todo \in SUBSET Part
          /\ job[t].failed \in BOOLEAN /\ job[t].since \in SUBSET Volume
      BY <1>1 DEF Jobs
    <2>3. job'[t] = [name |-> job[t].name, todo |-> job[t].todo \ {p},
                     failed |-> b, since |-> job[t].since]
      BY <1>1, <2>1 DEF Jobs
    <2>4. b \in BOOLEAN
      BY Zenon DEF b
    <2> QED
      BY <2>2, <2>3, <2>4 DEF Jobs
  <1>5. job' \in [Terminal -> Jobs \cup {NoJob}]
    BY <1>1, <1>3, <1>4, <1>13 DEF IInv, TypeOK
  <1>6. \A w \in Volume : mount'[w] = IF w = v /\ ~busy THEN NoDisk ELSE mount[w]
    BY <1>1 DEF IInv, TypeOK
  <1>7. mount' \in [Volume -> Disk \cup {NoDisk}] /\ kept' \subseteq kept /\ (~busy => v \notin kept')
    BY <1>1 DEF IInv, TypeOK
  <1>12. b <=> job[t].failed \/ busy
    OBVIOUS
  <1> HIDE DEF v, busy, b
  <1>8. TypeOK'
    BY <1>1, <1>2, <1>3, <1>4, <1>5, <1>6, <1>7 DEF IInv, TypeOK, Mounted
  <1>9. KeptHere'
    BY <1>1, <1>6, <1>7 DEF IInv, TypeOK, KeptHere, Mounted
  <1>10. Settled'
    <2>1. \A u \in Terminal : job'[u].name = job[u].name
      BY <1>3, <1>4
    <2>2. \A w \in Volume : mount'[w] \in {mount[w], NoDisk}
      BY <1>6
    <2> QED
      BY <1>1, <2>1, <2>2 DEF IInv, Settled
  <1>11. Draining'
    <2>1. ASSUME NEW u \in Terminal, u # t
          PROVE  /\ pc[u] = "eject" => job'[u].since \subseteq opened
                 /\ pc[u] = "eject" => job'[u].failed \/ job'[u].since \subseteq Targets(u)'
                 /\ pc[u] = "sync" => job'[u].since = {}
      BY <1>3, <2>1 DEF IInv, Draining, Targets
    <2>2. job[t].since \subseteq opened /\ (job[t].failed \/ job[t].since \subseteq Targets(t))
      BY <1>1, Ahead
    <2>3. ASSUME ~busy, ~job[t].failed PROVE job[t].since \subseteq Targets(t)'
      <3>1. v \notin job[t].since
        BY <1>2, <2>2, <2>3
      <3>2. Targets(t) \ {v} \subseteq Targets(t)'
        BY <1>4 DEF Targets, v
      <3> QED
        BY <2>2, <2>3, <3>1, <3>2
    <2> QED
      BY <1>1, <1>4, <1>12, <2>1, <2>2, <2>3 DEF Draining
  <1> QED
    BY <1>8, <1>9, <1>10, <1>11 DEF IInv

LEMMA EjectJudgeIInv == ASSUME IInv, NEW t \in Terminal, EjectJudge(t) PROVE IInv'
  <1>1. UNCHANGED <<at, system, ejected, pulled, mount, fs, opened, kept, sweep>> /\ pc[t] = "eject"
    BY DEF EjectJudge, plugs, vols
  <1>2. CASE job[t].failed
    BY <1>1, <1>2, LeaveIInv DEF EjectJudge, IInv, TypeOK
  <1>3. CASE ~job[t].failed
    <2>1. /\ UNCHANGED job /\ pc' = [pc EXCEPT ![t] = "sync"]
          /\ \A u \in Terminal : pc'[u] = IF u = t THEN "sync" ELSE pc[u]
      BY <1>3 DEF EjectJudge, IInv, TypeOK
    <2>2. job[t].since = {}
      BY <1>1, <1>3 DEF EjectJudge, IInv, Draining, Targets
    <2>3. TypeOK'
      BY <1>1, <2>1 DEF IInv, TypeOK, Mounted
    <2>4. KeptHere' /\ Settled'
      BY <1>1, <2>1 DEF IInv, KeptHere, Settled, Mounted
    <2>5. Draining'
      BY <1>1, <2>1, <2>2 DEF IInv, Draining, Targets
    <2> QED
      BY <2>3, <2>4, <2>5 DEF IInv
  <1> QED
    BY <1>2, <1>3

LEMMA EndIInv == ASSUME IInv, NEW t \in Terminal, EjectDone(t) \/ Answer(t) \/ FsckDone(t) PROVE IInv'
  <1>1. CASE EjectDone(t)
    <2>1. job[t] \in Jobs /\ at[job[t].name] \in Disk \cup {NoDisk}
      BY <1>1 DEF EjectDone, IInv, TypeOK, Jobs
    <2>2. system # NoName /\ ~pulled => at[job[t].name] # Persist
      BY <1>1, <2>1 DEF EjectDone, IInv, Settled, Jobs
    <2>3. ejected' \subseteq Disk /\ fs' \in [Disk -> [Part -> FileSystem]]
      BY <1>1, <2>1 DEF EjectDone, vols, IInv, TypeOK
    <2> QED
      BY <1>1, <2>1, <2>2, <2>3, LeaveIInv DEF EjectDone, vols
  <1>2. CASE Answer(t)
    <2> DEFINE d == at[job[t].name]
    <2>1. job[t] \in Jobs
      BY <1>2 DEF Answer, IInv, TypeOK
    <2>2. system # NoName /\ ~pulled => d # Persist
      BY <1>2, <2>1 DEF Answer, IInv, Settled, Jobs
    <2>3. fs' \in [Disk -> [Part -> FileSystem]] /\ (d # Persist => fs'[Persist] = fs[Persist])
      <3>1. CASE UNCHANGED fs
        BY <3>1 DEF IInv, TypeOK
      <3>2. ASSUME NEW v \in Targets(t), NEW f \in MkfsTypes, d # NoDisk, fs' = [fs EXCEPT ![d][v[2]] = f]
            PROVE  fs' \in [Disk -> [Part -> FileSystem]] /\ (d # Persist => fs'[Persist] = fs[Persist])
        <4>1. d \in Disk /\ v[2] \in Part /\ f \in FileSystem
          BY <2>1, <3>2 DEF Jobs, Targets, IInv, TypeOK
        <4>2. fs' = [fs EXCEPT ![d] = [fs[d] EXCEPT ![v[2]] = f]]
          BY <3>2
        <4> QED
          BY <4>1, <4>2 DEF IInv, TypeOK
      <3> QED
        BY <1>2, <3>1, <3>2 DEF Answer
    <2>4. Leave(t) /\ UNCHANGED <<at, system, ejected, pulled, mount, opened, kept, sweep>>
      BY <1>2 DEF Answer, plugs
    <2> HIDE DEF d
    <2> QED
      BY <2>2, <2>3, <2>4, LeaveIInv DEF IInv, TypeOK
  <1>3. CASE FsckDone(t)
    BY <1>3, LeaveIInv DEF FsckDone, plugs, vols, IInv, TypeOK
  <1> QED
    BY <1>1, <1>2, <1>3

LEMMA RezzusbIInv == ASSUME IInv, NEW t \in Terminal, Rezzusb(t) PROVE IInv'
  <1>1. ASSUME NEW v \in Volume, Mount(t, v) PROVE IInv'
    BY <1>1, MountIInv DEF Mount
  <1>2. ASSUME NEW v \in Volume, Umount(t, v) PROVE IInv'
    BY <1>2, UnmountIInv DEF Umount
  <1> QED
    BY <1>1, <1>2, BeginIInv, EjectPartIInv, EjectJudgeIInv, EndIInv DEF Rezzusb

-----------------------------------------------------------------------------
(* The world                                                               *)

LEMMA PlugIInv == ASSUME IInv, NEW d \in Disk, NEW n \in Name, Plug(d, n) PROVE IInv'
  <1>1. /\ UNCHANGED <<system, pulled, mount, fs, opened, pc, job, kept, sweep>>
        /\ at[n] = NoDisk /\ n # system /\ ejected' = ejected \ {d}
        /\ \A m \in Name : at'[m] = IF m = n THEN d ELSE at[m]
        /\ at' \in [Name -> Disk \cup {NoDisk}]
    BY DEF Plug, vols, cmds, IInv, TypeOK
  <1>2. TypeOK'
    BY <1>1 DEF IInv, TypeOK, Mounted
  <1>3. KeptHere'
    BY <1>1, VolumeParts DEF IInv, TypeOK, KeptHere, Mounted
  <1>4. Settled'
    BY <1>1 DEF Plug, IInv, TypeOK, Settled
  <1>5. Draining'
    BY <1>1 DEF IInv, Draining, Targets
  <1> QED
    BY <1>2, <1>3, <1>4, <1>5 DEF IInv

LEMMA UnplugIInv == ASSUME IInv, NEW n \in Name, Unplug(n) PROVE IInv'
  <1>1. /\ UNCHANGED <<system, ejected, mount, fs, opened, pc, job, sweep>>
        /\ pulled' = (pulled \/ at[n] = Persist) /\ kept' = kept \ ({n} \X Part)
        /\ \A m \in Name : at'[m] = IF m = n THEN NoDisk ELSE at[m]
        /\ at' \in [Name -> Disk \cup {NoDisk}]
    BY DEF Unplug, vols, cmds, IInv, TypeOK
  <1>2. TypeOK'
    BY <1>1 DEF IInv, TypeOK, Mounted
  <1>3. KeptHere'
    BY <1>1, VolumeParts DEF IInv, TypeOK, KeptHere, Mounted
  <1>4. Settled'
    BY <1>1 DEF IInv, TypeOK, Settled
  <1>5. Draining'
    BY <1>1 DEF IInv, Draining, Targets
  <1> QED
    BY <1>2, <1>3, <1>4, <1>5 DEF IInv

LEMMA FilesIInv == ASSUME IInv, NEW v \in Volume, OpenFile(v) \/ CloseFile(v) PROVE IInv'
  <1>1. UNCHANGED <<at, system, ejected, pulled, mount, fs, pc, kept, sweep>>
    BY DEF OpenFile, CloseFile, plugs, cmds
  <1>2. CASE OpenFile(v)
    BY <1>1, <1>2 DEF OpenFile, cmds, IInv, TypeOK, KeptHere, Settled, Draining, Targets, Mounted
  <1>3. CASE CloseFile(v)
    <2>1. opened' = opened \ {v}
      BY <1>3 DEF CloseFile
    <2>2. \A t \in Terminal : pc[t] = "idle" => job'[t] = job[t]
      BY <1>3 DEF CloseFile
    <2>3. ASSUME NEW t \in Terminal, pc[t] # "idle"
          PROVE  /\ job'[t] \in Jobs /\ job'[t].name = job[t].name /\ job'[t].todo = job[t].todo
                 /\ job'[t].failed = job[t].failed /\ job'[t].since = job[t].since \ {v}
      <3>1. job[t] \in Jobs
        BY <2>3 DEF IInv, TypeOK
      <3>2. job'[t] = [job[t] EXCEPT !.since = @ \ {v}]
        BY <1>3, <2>3 DEF CloseFile
      <3> QED
        BY <3>1, <3>2 DEF Jobs
    <2>4. job' \in [Terminal -> Jobs \cup {NoJob}]
      <3>1. job' = [t \in Terminal |-> job'[t]]
        BY <1>3 DEF CloseFile
      <3>2. \A t \in Terminal : job'[t] \in Jobs \cup {NoJob}
        BY <2>2, <2>3 DEF IInv, TypeOK
      <3> QED
        BY <3>1, <3>2
    <2>5. TypeOK'
      BY <1>1, <2>1, <2>3, <2>4 DEF IInv, TypeOK, Mounted
    <2>6. KeptHere' /\ Settled'
      BY <1>1, <2>3 DEF IInv, KeptHere, Settled, Mounted
    <2>7. Draining'
      BY <1>1, <2>1, <2>3 DEF IInv, Draining, Targets
    <2> QED
      BY <2>5, <2>6, <2>7 DEF IInv
  <1> QED
    BY <1>2, <1>3

-----------------------------------------------------------------------------
(* The invariant                                                           *)

LEMMA NextIInv == ASSUME IInv, [Next]_vars PROVE IInv'
  <1>1. CASE Usbmount
    BY <1>1, ServiceIInv
  <1>2. CASE \E t \in Terminal : Rezzusb(t)
    BY <1>2, RezzusbIInv
  <1>3. CASE World
    BY <1>3, PlugIInv, UnplugIInv, FilesIInv DEF World
  <1>4. CASE UNCHANGED vars
    BY <1>4 DEF vars, plugs, vols, cmds, IInv, TypeOK, KeptHere, Settled, Draining, Targets, Mounted
  <1> QED
    BY <1>1, <1>2, <1>3, <1>4 DEF Next

LEMMA Invariance == Spec => []IInv
  <1>1. Init => IInv
    BY InitIInv
  <1>2. IInv /\ [Next]_vars => IInv'
    BY NextIInv
  <1> QED
    BY <1>1, <1>2, PTL DEF Spec

\* The state has its shape, for any disks, names and terminals: only a mounted
\* volume has open files.
THEOREM TypeCorrect == Spec => []TypeOK
  <1>1. IInv => TypeOK
    BY DEF IInv
  <1> QED
    BY <1>1, Invariance, PTL

\* A reported mount is taken away, if not by a user, only by a clean-up that had
\* found its node gone before the report, and none turns to it afterwards.
THEOREM MountsStay == Spec => ReportedMountsStay
  <1> DEFINE Stays == \A v \in kept \cap kept' :
                          /\ sweep' = v => sweep = v
                          /\ Mounted(v) => Mounted(v)' \/ sweep = v
  <1>1. ASSUME IInv, [Next]_vars PROVE [Stays]_vars
    <2> SUFFICES ASSUME NEW v \in kept, v \in kept'
                 PROVE  /\ sweep' = v => sweep = v
                        /\ Mounted(v) => Mounted(v)' \/ sweep = v
      OBVIOUS
    <2>1. v \in Volume /\ v # NoVolume /\ at[v[1]] # NoDisk /\ mount \in [Volume -> Disk \cup {NoDisk}]
      BY <1>1 DEF IInv, TypeOK, KeptHere
    <2>2. CASE Usbmount
      <3>1. ASSUME NEW w \in Volume, AutoMount(w)
            PROVE  sweep' = sweep /\ (Mounted(v) => Mounted(v)')
        BY <2>1, <3>1 DEF AutoMount, MountDev, Mounted
      <3>2. ASSUME NEW w \in Volume, SweepLook(w)
            PROVE  sweep' # v /\ mount' = mount
        BY <2>1, <3>2 DEF SweepLook, Look, vols
      <3>3. ASSUME NEW w \in Volume, Sweep(w)
            PROVE  sweep' # v /\ (Mounted(v) => Mounted(v)' \/ sweep = v)
        BY <2>1, <3>3 DEF Sweep, Mounted
      <3> QED
        BY <2>2, <3>1, <3>2, <3>3 DEF Usbmount, Mounted
    <2>3. ASSUME NEW t \in Terminal, Rezzusb(t) PROVE sweep' = sweep /\ (Mounted(v) => Mounted(v)')
      <3>1. ASSUME NEW w \in Volume, Mount(t, w) \/ Umount(t, w) \/ Format(t, w) \/ Fsck(t, w)
            PROVE  sweep' = sweep /\ (Mounted(v) => Mounted(v)')
        BY <2>1, <3>1 DEF Mount, Umount, Format, Fsck, vols, Mounted
      <3>2. ASSUME NEW p \in Part, EjectPart(t, p)
            PROVE  sweep' = sweep /\ (Mounted(v) => Mounted(v)')
        BY <2>1, <3>2 DEF EjectPart, Mounted
      <3> QED
        BY <2>3, <3>1, <3>2 DEF Rezzusb, Eject, EjectJudge, EjectDone, Answer, FsckDone, vols, Mounted
    <2>4. CASE World
      BY <2>4 DEF World, Plug, Unplug, OpenFile, CloseFile, vols, Mounted
    <2>5. CASE UNCHANGED vars
      BY <2>5 DEF vars, vols, Mounted
    <2> QED
      BY <1>1, <2>2, <2>3, <2>4, <2>5 DEF Next
  <1>2. ReportedMountsStay <=> [][Stays]_vars
    BY DEF ReportedMountsStay
  <1> HIDE DEF Stays
  <1> QED
    BY <1>1, <1>2, Invariance, PTL DEF Spec

\* Neither tool mounts, formats, checks or ejects the persistent disk until it
\* has been pulled out.
THEOREM PersistentIsLeft == Spec => []PersistentLeftAlone
  <1>1. ASSUME IInv PROVE PersistentLeftAlone
    <2>1. ASSUME system # NoName, ~pulled, NEW t \in Terminal, pc[t] # "idle"
          PROVE  at[job[t].name] # Persist
      <3>1. job[t].name \in Name
        BY <1>1, <2>1 DEF IInv, TypeOK, Jobs
      <3> QED
        BY <1>1, <2>1, <3>1 DEF IInv, Settled
    <2> QED
      BY <1>1, <2>1 DEF IInv, Settled, PersistentLeftAlone
  <1> QED
    BY <1>1, Invariance, PTL

\* An eject that goes on to sync has outwaited every program that was there.
THEOREM EjectHasReleased == Spec => []EjectReleases
  <1>1. IInv => EjectReleases
    BY DEF IInv, Draining, EjectReleases
  <1> QED
    BY <1>1, Invariance, PTL
=============================================================================
