--------------------------- MODULE DataDiskProofs ---------------------------
(***************************************************************************)
(* Proofs about DataDisk, for any disks, settings, values and modes: its   *)
(* type invariant, that what was said to be saved comes back, and that     *)
(* other people's disks are left alone.                                    *)
(***************************************************************************)
EXTENDS DataDisk, TLAPS

USE DataDiskAssumption, SwapFileAssumption DEF Place, Value, Network, Content

-----------------------------------------------------------------------------
(* The parts the actions are made of                                       *)

\* Writing a file of the right kind keeps the disks well-formed.
LEMMA WriteType ==
    ASSUME TypeOK, NEW p \in Place, NEW s \in Setting, NEW c \in Content(s), Write(p, s, c)
    PROVE  /\ top' \in [Place -> SUBSET Names]
           /\ file' \in [Place -> [Setting -> Value \cup {Absent, Blank}]]
           /\ \A q \in Place, r \in Setting : file'[q][r] \in Content(r)
           /\ dirty' \subseteq (Place \X Setting) \cup (Disk \X {"swap"})
  <1>1. Content(s) \subseteq Value \cup {Absent, Blank}
    BY DEF ValueOf
  <1>2. [file[p] EXCEPT ![s] = c] \in [Setting -> Value \cup {Absent, Blank}]
    BY <1>1 DEF TypeOK
  <1>3. file' \in [Place -> [Setting -> Value \cup {Absent, Blank}]]
    BY <1>2 DEF TypeOK, Write
  <1>4. ASSUME NEW q \in Place, NEW r \in Setting PROVE file'[q][r] \in Content(r)
    <2>1. CASE q = p /\ r = s
      BY <2>1 DEF TypeOK, Write
    <2>2. CASE ~(q = p /\ r = s)
      <3>1. file'[q][r] = file[q][r]
        BY <2>2 DEF TypeOK, Write
      <3> QED
        BY <3>1 DEF TypeOK
    <2> QED
      BY <2>1, <2>2
  <1>5. top' \in [Place -> SUBSET Names]
    BY DEF TypeOK, Write, Names
  <1>6. dirty' \subseteq (Place \X Setting) \cup (Disk \X {"swap"})
    BY DEF TypeOK, Write
  <1> QED
    BY <1>3, <1>4, <1>5, <1>6

\* So does saying something of a setting.
LEMMA SaysType ==
    ASSUME TypeOK, NEW s \in Setting, NEW what \in Value \cup {Default, Nothing}, Says(s, what)
    PROVE  told' \in [Place -> [Setting -> Value \cup {Default, Nothing}]]
  BY DEF TypeOK, Says

\* What it says, and what it leaves.
LEMMA SaysWhat ==
    ASSUME TypeOK, NEW s \in Setting, NEW what, Says(s, what), NEW p \in Place, NEW r \in Setting
    PROVE  told'[p][r] = IF r = s /\ Keeps(p, s) THEN what ELSE told[p][r]
  BY DEF TypeOK, Says

\* What a write changes.
LEMMA WriteWhat ==
    ASSUME TypeOK, NEW p \in Place, NEW s \in Setting, NEW c, Write(p, s, c),
           NEW q \in Place, NEW r \in Setting
    PROVE  /\ file'[q][r] = IF q = p /\ r = s THEN c ELSE file[q][r]
           /\ top[q] \subseteq top'[q] /\ top'[q] \subseteq top[q] \cup {"etc"}
           /\ q # p => top'[q] = top[q]
           /\ c # Absent => "etc" \in top'[p]
  BY DEF TypeOK, Write

\* Steps that change only disks that may be used, and add only names that init
\* or the tools use, keep strangers strangers and others not.
LEMMA DisksStep ==
    ASSUME IInv, UNCHANGED <<mode, origin>>,
           \A d \in Disk : top[d] \subseteq top'[d],
           \A d \in Disk : top'[d] \subseteq top[d] \cup {"etc", "packages", "services"},
           \A d \in Disk : ~MayUse(d) =>
               /\ top'[d] = top[d] /\ file'[d] = file[d] /\ swap'[d] = swap[d]
               /\ <<d, "swap">> \in dirty' => <<d, "swap">> \in dirty
               /\ \A s \in Setting : <<d, s>> \in dirty' => <<d, s>> \in dirty
    PROVE  Strangers' /\ \A d \in Disk : MayUse(d)' <=> MayUse(d)
  <1>1. ASSUME NEW d \in Disk PROVE Stranger(d)' <=> Stranger(d)
    BY DEF Stranger
  <1>2. ASSUME NEW d \in Disk PROVE MayUse(d)' <=> MayUse(d)
    BY <1>1 DEF MayUse
  <1>3. ASSUME NEW d \in Disk PROVE CarriesRoot(d)' <=> CarriesRoot(d)
    BY DEF CarriesRoot, Foreign
  <1>4. ASSUME NEW d \in Disk, ~MayUse(d) PROVE LooksLikeRezzDisk(d)' <=> LooksLikeRezzDisk(d)
    BY <1>3, <1>4 DEF LooksLikeRezzDisk, IsEmpty, Marked, HasFile
  <1>5. ASSUME NEW d \in Disk
        PROVE  /\ CarriesRoot(d)' <=> origin'[d] = "root"
               /\ origin'[d] = "other" => ~LooksLikeRezzDisk(d)'
               /\ mode' = "disk" /\ d = OwnDisk => ~Stranger(d)'
               /\ Stranger(d)' => /\ <<d, "swap">> \notin dirty'
                                  /\ \A s \in Setting : <<d, s>> \notin dirty'
    <2>1. (CarriesRoot(d)' <=> origin'[d] = "root") /\ (mode' = "disk" /\ d = OwnDisk => ~Stranger(d)')
      BY <1>1, <1>3 DEF IInv, Strangers
    <2>2. Stranger(d)' => ~MayUse(d)
      BY <1>1 DEF MayUse
    <2>3. origin'[d] = "other" => ~LooksLikeRezzDisk(d)'
      BY <1>4, <2>2 DEF IInv, Strangers, Stranger
    <2>4. Stranger(d)' => <<d, "swap">> \notin dirty' /\ \A s \in Setting : <<d, s>> \notin dirty'
      BY <1>1, <2>2 DEF IInv, Strangers
    <2> QED
      BY <2>1, <2>3, <2>4
  <1>6. Strangers'
    BY <1>5 DEF Strangers
  <1> QED
    BY <1>2, <1>6

\* Nothing of a disk is changed.
LEMMA DisksStill ==
    ASSUME IInv, UNCHANGED <<mode, origin, top, file, swap>>, dirty' \subseteq dirty
    PROVE  Strangers' /\ \A d \in Disk : MayUse(d)' <=> MayUse(d)
  BY DisksStep

-----------------------------------------------------------------------------
(* Booting and going down                                                  *)

LEMMA BootIInv == ASSUME IInv, Boot PROVE IInv'
  <1> USE DEF Boot
  <1>1. UNCHANGED <<mode, origin, top, file, dirty, job, told, commands, swap, making, promised>>
    BY DEF disks, BootSwap
  <1>2. Strangers' /\ \A d \in Disk : MayUse(d)' <=> MayUse(d)
    BY <1>1, DisksStill
  <1>3. (mounted' \in Disk => mounted' \in attached') /\ tried' \subseteq attached'
    BY DEF MayMount
  <1>4. TypeOK'
    BY <1>1, <1>3 DEF IInv, TypeOK, BootSwap
  <1>5. Mounts'
    <2>1. ASSUME mounted' \in Disk PROVE MayUse(mounted')
      <3>1. CASE mode = "live"
        <4>1. LooksLikeRezzDisk(mounted')
          BY <2>1, <3>1 DEF MayMount
        <4>2. origin[mounted'] \notin {"root", "other"}
          BY <2>1, <4>1 DEF IInv, Strangers, LooksLikeRezzDisk
        <4> QED
          BY <3>1, <4>2 DEF MayUse, Stranger
      <3>2. CASE mode # "live"
        BY <2>1, <3>2 DEF MayMount, MayUse, IInv, Strangers, TypeOK
      <3> QED
        BY <3>1, <3>2
    <2> QED
      BY <1>1, <2>1 DEF Mounts, MayUse, Stranger
  <1>6. Keepers'
    BY <1>1, <1>2 DEF IInv, Keepers, Expected
  <1>7. \A s \in Setting : job[s] = NoJob
    BY DEF IInv, Idle
  <1>8. Kept'
    BY <1>1, <1>7 DEF IInv, Kept, Expected, InForce
  <1>9. Promises'
    BY <1>1, <1>2, <1>4 DEF IInv, Promises, TypeOK
  <1>10. Idle' /\ InEtc'
    BY <1>1, <1>7 DEF Idle, InEtc
  <1> QED
    BY <1>2, <1>4, <1>5, <1>6, <1>8, <1>9, <1>10 DEF IInv

-----------------------------------------------------------------------------
(* Changing a setting                                                      *)

\* A write that goes wrong changes no more than one that does not, and no file
\* but its own.
LEMMA BotchedType ==
    ASSUME TypeOK, NEW p \in Place, NEW s \in Setting, Botched(p, s)
    PROVE  /\ top' \in [Place -> SUBSET Names]
           /\ file' \in [Place -> [Setting -> Value \cup {Absent, Blank}]]
           /\ \A q \in Place, r \in Setting : file'[q][r] \in Content(r)
           /\ dirty' \subseteq (Place \X Setting) \cup (Disk \X {"swap"})
  <1>1. CASE UNCHANGED <<disks, dirty>>
    BY <1>1 DEF TypeOK, disks
  <1>2. CASE top' = [top EXCEPT ![p] = @ \cup {"etc"}] /\ UNCHANGED <<file, dirty>>
    BY <1>2 DEF TypeOK, Names
  <1>3. CASE Write(p, s, Blank)
    <2>1. Blank \in Content(s)
      OBVIOUS
    <2> QED
      BY <1>3, <2>1, WriteType
  <1> QED
    BY <1>1, <1>2, <1>3 DEF Botched

LEMMA BotchedWhat ==
    ASSUME TypeOK, NEW p \in Place, NEW s \in Setting, Botched(p, s),
           NEW q \in Place, NEW r \in Setting
    PROVE  /\ ~(q = p /\ r = s) => file'[q][r] = file[q][r]
           /\ top[q] \subseteq top'[q] /\ top'[q] \subseteq top[q] \cup {"etc"}
           /\ q # p => top'[q] = top[q] /\ file'[q] = file[q]
           /\ \A x : q # p /\ <<q, x>> \in dirty' => <<q, x>> \in dirty
  <1>1. CASE UNCHANGED <<disks, dirty>>
    BY <1>1 DEF disks
  <1>2. CASE top' = [top EXCEPT ![p] = @ \cup {"etc"}] /\ UNCHANGED <<file, dirty>>
    BY <1>2 DEF TypeOK
  <1>3. CASE Write(p, s, Blank)
    BY <1>3 DEF TypeOK, Write
  <1> QED
    BY <1>1, <1>2, <1>3 DEF Botched

LEMMA ApplyIInv ==
    ASSUME IInv, NEW s \in Setting, NEW j \in JobsOf(s), Apply(s, j),
           s \in FromEtc => j.kind = "set"
    PROVE  IInv'
  <1> USE DEF Apply
  <1>1. j # NoJob /\ j \in Jobs
    BY DEF JobsOf, NoJob, Jobs
  <1>2. \A r \in Setting : job'[r] = IF r = s THEN j ELSE job[r]
    BY DEF IInv, TypeOK
  <1>3. UNCHANGED <<mode, origin, power, attached, mounted, tried, swap, active, making, promised>>
    BY DEF swapVars
  <1>4. \A d \in Disk :
            /\ top'[d] = top[d] /\ file'[d] = file[d]
            /\ \A x : <<d, x>> \in dirty' => <<d, x>> \in dirty
    <2>1. CASE mode = "disk" /\ s \in FromEtc /\ j.etc
      BY <2>1 DEF IInv, TypeOK, Write
    <2>2. CASE mode = "disk" /\ s \in FromEtc /\ ~j.etc
      BY <2>2, BotchedWhat DEF IInv
    <2>3. CASE ~(mode = "disk" /\ s \in FromEtc)
      BY <2>3 DEF disks
    <2> QED
      BY <2>1, <2>2, <2>3
  <1>5. Strangers' /\ \A d \in Disk : MayUse(d)' <=> MayUse(d)
    BY <1>3, <1>4, DisksStep
  <1>6. \A p \in Place, r \in Setting :
            told'[p][r] = IF r = s /\ Keeps(p, s) THEN Nothing ELSE told[p][r]
    BY SaysWhat DEF IInv
  <1>7. TypeOK'
    <2>1. /\ top' \in [Place -> SUBSET Names]
          /\ file' \in [Place -> [Setting -> Value \cup {Absent, Blank}]]
          /\ \A q \in Place, r \in Setting : file'[q][r] \in Content(r)
          /\ dirty' \subseteq (Place \X Setting) \cup (Disk \X {"swap"})
      <3>1. CASE mode = "disk" /\ s \in FromEtc
        <4>1. Root \in Place /\ j.value \in Content(s)
          BY <3>1 DEF JobsOf
        <4>2. Write(Root, s, j.value) \/ Botched(Root, s)
          BY <3>1
        <4> QED
          BY <4>1, <4>2, WriteType, BotchedType DEF IInv
      <3>2. CASE ~(mode = "disk" /\ s \in FromEtc)
        BY <3>2 DEF IInv, TypeOK, disks
      <3> QED
        BY <3>1, <3>2
    <2>2. told' \in [Place -> [Setting -> Value \cup {Default, Nothing}]]
      BY SaysType DEF IInv
    <2>3. /\ job' \in [Setting -> Jobs \cup {NoJob}]
          /\ \A r \in Setting : job'[r] \in JobsOf(r) \cup {NoJob}
      BY <1>1, <1>2 DEF IInv, TypeOK
    <2>4. commands' \in 0 .. MaxCommands
      BY DEF IInv, TypeOK, Command
    <2> QED
      BY <1>3, <2>1, <2>2, <2>3, <2>4 DEF IInv, TypeOK
  <1>8. Mounts'
    BY <1>3, <1>5 DEF IInv, Mounts
  <1>9. Keepers'
    BY <1>3, <1>5, <1>6 DEF IInv, Keepers, Expected
  <1>10. ASSUME NEW p \in Place, NEW r \in Setting, Expected(p, r)'
         PROVE  /\ InForce(file'[p][r]) = told'[p][r]
                /\ power' = "lost" => <<p, r>> \notin dirty'
                /\ job'[r] # NoJob => ~Keeps(p, r)'
    <2>1. told'[p][r] = told[p][r] /\ Expected(p, r)
      BY <1>6, <1>10 DEF Expected
    <2>2. Keeps(p, r)' <=> Keeps(p, r)
      BY <1>3 DEF Keeps
    <2>3. file'[p][r] = file[p][r]
      <3>1. CASE p \in Disk
        BY <1>4, <3>1
      <3>2. CASE p = Root /\ mode = "disk" /\ s \in FromEtc
        <4>1. r # s
          BY <1>6, <1>10, <3>2 DEF Keeps, Expected, FromEtc
        <4>2. Write(Root, s, j.value) \/ Botched(Root, s)
          BY <3>2
        <4> QED
          BY <3>2, <4>1, <4>2, WriteWhat, BotchedWhat DEF IInv
      <3>3. CASE ~(mode = "disk" /\ s \in FromEtc)
        BY <3>3 DEF disks
      <3> QED
        BY <3>1, <3>2, <3>3
    <2>4. job'[r] # NoJob => ~Keeps(p, r)
      BY <1>2, <1>6, <1>10, <2>1 DEF IInv, Kept, Expected
    <2> QED
      BY <2>1, <2>2, <2>3, <2>4 DEF IInv, Kept, InForce
  <1>11. Kept'
    BY <1>10 DEF Kept
  <1>12. Promises'
    BY <1>3, <1>5, <1>7 DEF IInv, Promises, TypeOK
  <1>13. InEtc'
    <2>1. ASSUME NEW r \in Setting, job'[r] # NoJob, mode = "disk", r \in FromEtc
          PROVE  job'[r].kind = "set" /\ (job'[r].etc => file'[Root][r] = job'[r].value)
      <3>1. CASE r = s
        BY <1>2, <2>1, <3>1, WriteWhat DEF IInv
      <3>2. CASE r # s
        <4>1. file'[Root][r] = file[Root][r]
          <5>1. CASE s \in FromEtc
            <6>1. Write(Root, s, j.value) \/ Botched(Root, s)
              BY <2>1, <5>1
            <6> QED
              BY <3>2, <6>1, WriteWhat, BotchedWhat DEF IInv
          <5>2. CASE s \notin FromEtc
            BY <5>2 DEF disks
          <5> QED
            BY <5>1, <5>2
        <4> QED
          BY <1>2, <2>1, <3>2, <4>1 DEF IInv, InEtc
      <3> QED
        BY <3>1, <3>2
    <2> QED
      BY <1>3, <2>1 DEF InEtc
  <1>14. Idle'
    BY <1>3 DEF Idle
  <1> QED
    BY <1>5, <1>7, <1>8, <1>9, <1>11, <1>12, <1>13, <1>14 DEF IInv

\* The three ways to start a change.
LEMMA StartIInv ==
    ASSUME IInv,
           \/ \E s \in Setting : \E v \in ValueOf(s) : Set(s, v)
           \/ Dhcp
           \/ \E dns \in Dns : DnsOnly(dns)
    PROVE  IInv'
  <1>1. ASSUME NEW s \in Setting, NEW v \in ValueOf(s), Set(s, v) PROVE IInv'
    <2>1. PICK etc \in BOOLEAN : Apply(s, [kind |-> "set", value |-> v, etc |-> etc])
      BY <1>1 DEF Set
    <2> DEFINE j == [kind |-> "set", value |-> v, etc |-> etc]
    <2>2. j \in JobsOf(s) /\ j.kind = "set"
      BY DEF JobsOf
    <2> QED
      BY <2>1, <2>2, ApplyIInv
  <1>2. ASSUME "network" \in Setting, NEW j \in JobsOf("network"), Apply("network", j)
        PROVE  IInv'
    <2>1. "network" \notin FromEtc
      BY DEF FromEtc
    <2> QED
      BY <1>2, <2>1, ApplyIInv
  <1>3. ASSUME Dhcp PROVE IInv'
    <2>1. [kind |-> "dhcp"] \in JobsOf("network")
      BY DEF JobsOf
    <2> QED
      BY <1>2, <1>3, <2>1 DEF Dhcp
  <1>4. ASSUME NEW dns \in Dns, DnsOnly(dns) PROVE IInv'
    <2>1. [kind |-> "dns", dns |-> dns] \in JobsOf("network")
      BY DEF JobsOf
    <2> QED
      BY <1>2, <1>4, <2>1 DEF DnsOnly
  <1> QED
    BY <1>1, <1>3, <1>4

\* A pending change of an /etc setting is a plain one.
LEMMA JobKind ==
    ASSUME IInv, NEW s \in Setting, job[s] # NoJob
    PROVE  /\ job[s] \in JobsOf(s)
           /\ job[s].kind = "set" => job[s].value \in ValueOf(s)
           /\ job[s].kind = "dns" => s = "network" /\ job[s].dns \in Dns
           /\ job[s].kind \in {"set", "dhcp", "dns"}
           /\ s # "network" => job[s].kind = "set"
  BY DEF IInv, TypeOK, JobsOf

\* What is to be saved is a content of the file, and what is said of it is what
\* a boot then finds in it.
LEMMA SavedContent ==
    ASSUME IInv, NEW s \in Setting, job[s] # NoJob, NEW m \in Disk
    PROVE  /\ ToSave(m, s) \in Content(s)
           /\ Asked(m, s) \in Value \cup {Default, Nothing}
           /\ Asked(m, s) # Nothing => InForce(ToSave(m, s)) = Asked(m, s)
  <1>1. CASE job[s].kind = "set"
    BY <1>1, JobKind DEF ToSave, Asked, ValueOf, InForce
  <1>2. CASE job[s].kind = "dhcp"
    BY <1>2 DEF ToSave, Asked, InForce
  <1>3. CASE job[s].kind = "dns"
    <2>1. s = "network" /\ job[s].dns \in Dns
      BY <1>3, JobKind
    <2>2. file[m][s] \in Content(s)
      BY DEF IInv, TypeOK
    <2>3. CASE file[m][s] \in Value
      <3>1. file[m][s] \in [ip : Ip, dns : Dns]
        BY <2>1, <2>2, <2>3 DEF ValueOf
      <3>2. [file[m][s] EXCEPT !.dns = job[s].dns] = [ip |-> file[m][s].ip, dns |-> job[s].dns]
        BY <3>1
      <3>3. [ip |-> file[m][s].ip, dns |-> job[s].dns] \in [ip : Ip, dns : Dns]
        BY <2>1, <3>1
      <3> QED
        BY <1>3, <2>1, <2>3, <3>2, <3>3 DEF ToSave, Asked, ValueOf, InForce
    <2>4. CASE file[m][s] \notin Value
      BY <1>3, <2>2, <2>4 DEF ToSave, Asked
    <2> QED
      BY <2>3, <2>4
  <1> QED
    BY <1>1, <1>2, <1>3, JobKind

\* What is said of a change in /etc is what /etc has.
LEMMA OutcomeWhat ==
    ASSUME IInv, NEW s \in Setting, job[s] # NoJob, NEW disk \in Value \cup {Default, Nothing}
    PROVE  /\ Outcome(s, disk) \in Value \cup {Default, Nothing}
           /\ ~Keeps(Root, s) => Outcome(s, disk) = disk
           /\ Keeps(Root, s) /\ Outcome(s, disk) # Nothing =>
                 /\ mode = "disk" /\ s \in FromEtc
                 /\ Outcome(s, disk) \in Value /\ file[Root][s] = Outcome(s, disk)
  <1>1. CASE Keeps(Root, s)
    <2>1. mode = "disk" /\ s \in FromEtc
      BY <1>1 DEF Keeps, IInv, TypeOK
    <2>2. job[s].kind = "set" /\ (job[s].etc => file[Root][s] = job[s].value) /\ job[s].value \in Value
      BY <2>1, JobKind DEF IInv, InEtc, FromEtc, ValueOf
    <2> QED
      BY <1>1, <2>1, <2>2 DEF Outcome
  <1>2. CASE ~Keeps(Root, s)
    BY <1>2 DEF Outcome
  <1> QED
    BY <1>1, <1>2

LEMMA SaveIInv == ASSUME IInv, NEW s \in Setting, Save(s) PROVE IInv'
  <1> DEFINE c == ToSave(mounted, s)
             what == Outcome(s, Asked(mounted, s))
  <1>1. mounted \in Disk /\ MayUse(mounted) /\ Write(mounted, s, c) /\ Says(s, what)
    BY DEF Save, IInv, Mounts
  <1>2. UNCHANGED <<mode, origin, power, attached, mounted, tried, swap, active, making, promised,
                    commands>>
    BY DEF Save, swapVars
  <1>3. power = "on" /\ job[s] # NoJob /\ \A r \in Setting : job'[r] = IF r = s THEN NoJob ELSE job[r]
    BY DEF Save, EndJob, IInv, TypeOK
  <1>4. /\ c \in Content(s)
        /\ what \in Value \cup {Default, Nothing}
        /\ ~Keeps(Root, s) /\ what # Nothing => InForce(c) = what
    BY <1>1, <1>3, SavedContent, OutcomeWhat
  <1>w. Keeps(Root, s) /\ what # Nothing =>
          mode = "disk" /\ s \in FromEtc /\ what \in Value /\ file[Root][s] = what
    BY <1>1, <1>3, SavedContent, OutcomeWhat
  <1> HIDE DEF c, what
  <1>5. \A q \in Place, r \in Setting : file'[q][r] = IF q = mounted /\ r = s THEN c ELSE file[q][r]
    BY <1>1, WriteWhat DEF IInv
  <1>6. \A p \in Place, r \in Setting :
            told'[p][r] = IF r = s /\ Keeps(p, s) THEN what ELSE told[p][r]
    BY <1>1, <1>4, SaysWhat DEF IInv
  <1>7. Strangers' /\ \A d \in Disk : MayUse(d)' <=> MayUse(d)
    <2>1. ASSUME NEW d \in Disk
          PROVE top[d] \subseteq top'[d] /\ top'[d] \subseteq top[d] \cup {"etc", "packages", "services"}
      BY <1>1, <1>4, WriteWhat DEF IInv
    <2>2. ASSUME NEW d \in Disk, d # mounted
          PROVE  /\ top'[d] = top[d] /\ file'[d] = file[d]
                 /\ \A x : <<d, x>> \in dirty' => <<d, x>> \in dirty
      BY <1>1, <2>2 DEF IInv, TypeOK, Write
    <2> QED
      BY <1>1, <1>2, <2>1, <2>2, DisksStep
  <1>8. TypeOK'
    <2>1. /\ top' \in [Place -> SUBSET Names]
          /\ file' \in [Place -> [Setting -> Value \cup {Absent, Blank}]]
          /\ \A q \in Place, r \in Setting : file'[q][r] \in Content(r)
          /\ dirty' \subseteq (Place \X Setting) \cup (Disk \X {"swap"})
      BY <1>1, <1>4, WriteType DEF IInv
    <2>2. told' \in [Place -> [Setting -> Value \cup {Default, Nothing}]]
      BY <1>1, <1>4, SaysType DEF IInv
    <2>3. /\ job' \in [Setting -> Jobs \cup {NoJob}]
          /\ \A r \in Setting : job'[r] \in JobsOf(r) \cup {NoJob}
      BY <1>3 DEF IInv, TypeOK, Save, EndJob
    <2> QED
      BY <1>2, <1>3, <2>1, <2>2, <2>3 DEF IInv, TypeOK
  <1>9. Mounts'
    BY <1>2, <1>7 DEF IInv, Mounts
  <1>10. Keepers'
    <2>1. ASSUME NEW p \in Place, Keeps(p, s), Expected(p, s)'
          PROVE IF p = Root THEN mode = "disk" /\ s \in FromEtc /\ told'[p][s] \in Value
                ELSE MayUse(p) /\ (mode = "disk" => s = "network")
      <3>1. CASE p = Root
        <4>1. mode = "disk" /\ s \in FromEtc
          BY <2>1, <3>1 DEF Keeps, IInv, TypeOK
        <4> QED
          BY <1>w, <1>6, <2>1, <3>1, <4>1 DEF Expected
      <3>2. CASE p # Root
        BY <1>1, <2>1, <3>2 DEF Keeps, IInv, TypeOK
      <3> QED
        BY <3>1, <3>2
    <2>2. ASSUME NEW p \in Place, NEW r \in Setting, ~(r = s /\ Keeps(p, s)), Expected(p, r)'
          PROVE told'[p][r] = told[p][r] /\ Expected(p, r)
      BY <1>6, <2>2 DEF Expected
    <2> QED
      BY <1>2, <1>7, <2>1, <2>2 DEF IInv, Keepers
  <1>11. ASSUME NEW p \in Place, NEW r \in Setting, Expected(p, r)'
         PROVE  InForce(file'[p][r]) = told'[p][r] /\ (job'[r] # NoJob => ~Keeps(p, r))
    <2>1. CASE r = s /\ Keeps(p, s)
      <3>1. told'[p][r] = what /\ what # Nothing
        BY <1>6, <1>11, <2>1 DEF Expected
      <3>2. CASE p = mounted
        <4>1. ~Keeps(Root, s)
          BY <1>1, <2>1, <3>2 DEF Keeps, FromEtc, IInv, TypeOK
        <4> QED
          BY <1>3, <1>4, <1>5, <2>1, <3>1, <3>2, <4>1
      <3>3. CASE p # mounted
        <4>1. p = Root
          BY <2>1, <3>3 DEF Keeps, IInv, TypeOK
        <4> QED
          BY <1>w, <1>3, <1>5, <2>1, <3>1, <3>3, <4>1 DEF InForce
      <3> QED
        BY <3>2, <3>3
    <2>2. CASE ~(r = s /\ Keeps(p, s))
      <3>1. told'[p][r] = told[p][r] /\ Expected(p, r)
        BY <1>6, <1>11, <2>2 DEF Expected
      <3>2. r = s => p # mounted
        BY <1>1, <2>2, <3>1 DEF Keeps, IInv, Keepers, TypeOK
      <3>3. file'[p][r] = file[p][r]
        BY <1>5, <3>2
      <3> QED
        BY <1>3, <2>2, <3>1, <3>3 DEF IInv, Kept
    <2> QED
      BY <2>1, <2>2
  <1>12. Kept'
    BY <1>2, <1>3, <1>11 DEF Kept, InForce, Keeps
  <1>13. Promises'
    BY <1>2, <1>3, <1>7, <1>8 DEF IInv, Promises, TypeOK
  <1>14. InEtc'
    BY <1>1, <1>2, <1>3, <1>5 DEF IInv, InEtc
  <1>15. Idle'
    BY <1>2, <1>3 DEF Idle
  <1> QED
    BY <1>7, <1>8, <1>9, <1>10, <1>12, <1>13, <1>14, <1>15 DEF IInv

\* Failing costs the setting that was to be saved, and no other.
LEMMA SaveFailsIInv == ASSUME IInv, NEW s \in Setting, SaveFails(s) PROVE IInv'
  <1> DEFINE what == Outcome(s, Nothing)
  <1>1. mounted \in Disk /\ MayUse(mounted) /\ Says(s, what)
    BY DEF SaveFails, IInv, Mounts
  <1>2. UNCHANGED <<mode, origin, power, attached, mounted, tried, swap, active, making, promised,
                    commands>>
    BY DEF SaveFails, swapVars
  <1>3. power = "on" /\ job[s] # NoJob /\ \A r \in Setting : job'[r] = IF r = s THEN NoJob ELSE job[r]
    BY DEF SaveFails, EndJob, IInv, TypeOK
  <1>4. /\ top' \in [Place -> SUBSET Names]
        /\ file' \in [Place -> [Setting -> Value \cup {Absent, Blank}]]
        /\ \A q \in Place, r \in Setting : file'[q][r] \in Content(r)
        /\ dirty' \subseteq (Place \X Setting) \cup (Disk \X {"swap"})
    <2>1. mounted \in Place /\ (s = "keymap" /\ mode = "disk" => file[Root][s] \in Content(s))
      BY <1>1 DEF IInv, TypeOK
    <2>2. CASE Botched(mounted, s)
      BY <2>1, <2>2, BotchedType DEF IInv
    <2>3. CASE Write(mounted, s, file[Root][s])
      <3>1. file[Root][s] \in Content(s)
        BY DEF IInv, TypeOK
      <3> QED
        BY <2>1, <2>3, <3>1, WriteType DEF IInv
    <2> QED
      BY <2>2, <2>3 DEF SaveFails
  <1>5. ASSUME NEW q \in Place, NEW r \in Setting
        PROVE  /\ ~(q = mounted /\ r = s) => file'[q][r] = file[q][r]
               /\ top[q] \subseteq top'[q] /\ top'[q] \subseteq top[q] \cup {"etc"}
    BY <1>1, BotchedWhat, WriteWhat DEF SaveFails, IInv
  <1>6. ASSUME NEW d \in Disk, d # mounted
        PROVE  /\ top'[d] = top[d] /\ file'[d] = file[d]
               /\ \A x : <<d, x>> \in dirty' => <<d, x>> \in dirty
    <2>1. CASE Botched(mounted, s)
      BY <1>1, <1>6, <2>1, BotchedWhat DEF IInv
    <2>2. CASE Write(mounted, s, file[Root][s])
      BY <1>6, <2>2 DEF IInv, TypeOK, Write
    <2> QED
      BY <2>1, <2>2 DEF SaveFails
  <1>7. Strangers' /\ \A d \in Disk : MayUse(d)' <=> MayUse(d)
    <2>1. ASSUME NEW d \in Disk
          PROVE top[d] \subseteq top'[d] /\ top'[d] \subseteq top[d] \cup {"etc", "packages", "services"}
      BY <1>5
    <2> QED
      BY <1>1, <1>2, <1>6, <2>1, DisksStep
  <1>8. /\ what \in Value \cup {Default, Nothing}
        /\ what # Nothing => /\ Keeps(Root, s) /\ mode = "disk" /\ s \in FromEtc
                             /\ what \in Value /\ file[Root][s] = what
    BY <1>3, OutcomeWhat
  <1> HIDE DEF what
  <1>9. \A p \in Place, r \in Setting :
            told'[p][r] = IF r = s /\ Keeps(p, s) THEN what ELSE told[p][r]
    BY <1>1, <1>8, SaysWhat DEF IInv
  <1>10. TypeOK'
    <2>1. told' \in [Place -> [Setting -> Value \cup {Default, Nothing}]]
      BY <1>1, <1>8, SaysType DEF IInv
    <2>2. /\ job' \in [Setting -> Jobs \cup {NoJob}]
          /\ \A r \in Setting : job'[r] \in JobsOf(r) \cup {NoJob}
      BY <1>3 DEF IInv, TypeOK, SaveFails, EndJob
    <2> QED
      BY <1>2, <1>3, <1>4, <2>1, <2>2 DEF IInv, TypeOK
  <1>11. ASSUME NEW p \in Place, NEW r \in Setting, Expected(p, r)'
         PROVE  /\ IF p = Root THEN mode = "disk" /\ r \in FromEtc /\ told'[p][r] \in Value
                   ELSE MayUse(p) /\ (mode = "disk" => r = "network")
                /\ InForce(file'[p][r]) = told'[p][r]
                /\ job'[r] # NoJob => ~Keeps(p, r)
    <2>1. CASE r = s /\ Keeps(p, s)
      <3>1. told'[p][r] = what /\ what # Nothing
        BY <1>9, <1>11, <2>1 DEF Expected
      <3>2. p = Root /\ mode = "disk" /\ s \in FromEtc
        BY <1>8, <2>1, <3>1 DEF Keeps, FromEtc
      <3>3. file'[p][r] = what
        BY <1>1, <1>5, <1>8, <2>1, <3>1, <3>2
      <3> QED
        BY <1>3, <1>8, <2>1, <3>1, <3>2, <3>3 DEF InForce
    <2>2. CASE ~(r = s /\ Keeps(p, s))
      <3>1. told'[p][r] = told[p][r] /\ Expected(p, r)
        BY <1>9, <1>11, <2>2 DEF Expected
      <3>2. IF p = Root THEN mode = "disk" /\ r \in FromEtc /\ told'[p][r] \in Value
            ELSE MayUse(p) /\ (mode = "disk" => r = "network")
        BY <3>1 DEF IInv, Keepers
      <3>3. r = s => p # mounted
        BY <1>1, <2>2, <3>2 DEF Keeps, IInv, TypeOK
      <3>4. InForce(file'[p][r]) = told'[p][r] /\ (job'[r] # NoJob => ~Keeps(p, r))
        BY <1>3, <1>5, <2>2, <3>1, <3>3 DEF IInv, Kept
      <3> QED
        BY <3>2, <3>4
    <2> QED
      BY <2>1, <2>2
  <1>12. Mounts' /\ Keepers'
    BY <1>2, <1>7, <1>11 DEF IInv, Mounts, Keepers
  <1>13. Kept'
    BY <1>2, <1>3, <1>11 DEF Kept, InForce, Keeps
  <1>14. Promises'
    BY <1>2, <1>3, <1>7, <1>10 DEF IInv, Promises, TypeOK
  <1>15. InEtc' /\ Idle'
    BY <1>1, <1>2, <1>3, <1>5 DEF IInv, InEtc, Idle
  <1> QED
    BY <1>7, <1>10, <1>12, <1>13, <1>14, <1>15 DEF IInv

LEMMA SaveNowhereIInv == ASSUME IInv, NEW s \in Setting, SaveNowhere(s) PROVE IInv'
  <1> DEFINE what == Outcome(s, Nothing)
  <1>1. UNCHANGED <<mode, origin, power, attached, mounted, tried, top, file, dirty, swap, active,
                    making, promised, commands>>
    BY DEF SaveNowhere, swapVars, disks
  <1>2. power = "on" /\ job[s] # NoJob /\ \A r \in Setting : job'[r] = IF r = s THEN NoJob ELSE job[r]
    BY DEF SaveNowhere, EndJob, IInv, TypeOK
  <1>3. /\ what \in Value \cup {Default, Nothing}
        /\ what # Nothing => /\ mode = "disk" /\ s \in FromEtc
                             /\ what \in Value /\ file[Root][s] = what
    BY <1>2, OutcomeWhat
  <1>4. Says(s, what)
    BY DEF SaveNowhere
  <1> HIDE DEF what
  <1>5. \A p \in Place, r \in Setting :
            told'[p][r] = IF r = s /\ Keeps(p, s) THEN what ELSE told[p][r]
    BY <1>3, <1>4, SaysWhat DEF IInv
  <1>6. Strangers' /\ \A d \in Disk : MayUse(d)' <=> MayUse(d)
    BY <1>1, DisksStill
  <1>7. TypeOK'
    <2>1. told' \in [Place -> [Setting -> Value \cup {Default, Nothing}]]
      BY <1>3, <1>4, SaysType DEF IInv
    <2>2. /\ job' \in [Setting -> Jobs \cup {NoJob}]
          /\ \A r \in Setting : job'[r] \in JobsOf(r) \cup {NoJob}
      BY <1>2 DEF IInv, TypeOK, SaveNowhere, EndJob
    <2> QED
      BY <1>1, <2>1, <2>2 DEF IInv, TypeOK
  <1>8. Mounts'
    BY <1>1, <1>6 DEF IInv, Mounts
  <1>9. ASSUME NEW p \in Place, NEW r \in Setting, Expected(p, r)'
        PROVE  /\ IF p = Root THEN mode = "disk" /\ r \in FromEtc /\ told'[p][r] \in Value
                  ELSE MayUse(p) /\ (mode = "disk" => r = "network")
               /\ InForce(file[p][r]) = told'[p][r]
               /\ job'[r] # NoJob => ~Keeps(p, r)
    <2>1. CASE r = s /\ Keeps(p, s)
      <3>1. told'[p][r] = what /\ what # Nothing
        BY <1>5, <1>9, <2>1 DEF Expected
      <3>2. mode = "disk" /\ s \in FromEtc /\ what \in Value /\ file[Root][s] = what
        BY <1>3, <3>1
      <3>3. p = Root
        BY <2>1, <3>2 DEF Keeps, FromEtc
      <3> QED
        BY <1>2, <2>1, <3>1, <3>2, <3>3 DEF InForce
    <2>2. CASE ~(r = s /\ Keeps(p, s))
      <3>1. told'[p][r] = told[p][r] /\ Expected(p, r)
        BY <1>5, <1>9, <2>2 DEF Expected
      <3>2. IF p = Root THEN mode = "disk" /\ r \in FromEtc /\ told'[p][r] \in Value
            ELSE MayUse(p) /\ (mode = "disk" => r = "network")
        BY <3>1 DEF IInv, Keepers
      <3>3. InForce(file[p][r]) = told'[p][r] /\ (job'[r] # NoJob => ~Keeps(p, r))
        BY <1>2, <2>2, <3>1 DEF IInv, Kept
      <3> QED
        BY <3>2, <3>3
    <2> QED
      BY <2>1, <2>2
  <1>10. Keepers'
    BY <1>1, <1>6, <1>9 DEF Keepers
  <1>11. Kept'
    BY <1>1, <1>2, <1>9 DEF Kept, InForce, Keeps
  <1>12. Promises'
    BY <1>1, <1>6, <1>7 DEF IInv, Promises, TypeOK
  <1>13. InEtc' /\ Idle'
    BY <1>1, <1>2 DEF IInv, InEtc, Idle
  <1> QED
    BY <1>6, <1>7, <1>8, <1>10, <1>11, <1>12, <1>13 DEF IInv

LEMMA InterruptIInv == ASSUME IInv, NEW s \in Setting, Interrupt(s) PROVE IInv'
  <1>1. UNCHANGED <<mode, origin, power, attached, mounted, tried, told, commands, swap, active, making,
                    promised>>
    BY DEF Interrupt, swapVars
  <1>2. power = "on" /\ job[s] # NoJob /\ \A r \in Setting : job'[r] = IF r = s THEN NoJob ELSE job[r]
    BY DEF Interrupt, EndJob, IInv, TypeOK
  <1>3. job' \in [Setting -> Jobs \cup {NoJob}] /\ \A r \in Setting : job'[r] \in JobsOf(r) \cup {NoJob}
    BY <1>2 DEF IInv, TypeOK, Interrupt, EndJob
  <1>4. CASE UNCHANGED <<disks, dirty>>
    <2>1. UNCHANGED <<top, file, dirty>>
      BY <1>4 DEF disks
    <2>2. Strangers' /\ \A d \in Disk : MayUse(d)' <=> MayUse(d)
      BY <1>1, <2>1, DisksStill
    <2>3. TypeOK'
      BY <1>1, <1>3, <2>1 DEF IInv, TypeOK
    <2>4. Mounts' /\ Keepers'
      BY <1>1, <2>2 DEF IInv, Mounts, Keepers, Expected
    <2>5. Kept' /\ InEtc' /\ Idle'
      BY <1>1, <1>2, <2>1 DEF IInv, Kept, InEtc, Idle, Expected, InForce, Keeps
    <2>6. Promises'
      BY <1>1, <2>1, <2>2, <2>3 DEF IInv, Promises, TypeOK
    <2> QED
      BY <2>2, <2>3, <2>4, <2>5, <2>6 DEF IInv
  <1>5. ASSUME NEW p \in Targets(s), Botched(p, s) PROVE IInv'
    <2>1. p \in Place
      BY DEF Targets
    <2>2. \A q \in Place, r \in Setting : ~(q = p /\ r = s) => file'[q][r] = file[q][r]
      BY <1>5, <2>1, BotchedWhat DEF IInv
    <2>3. p \in Disk => p = mounted /\ MayUse(p)
      BY DEF Targets, IInv, Mounts
    <2>4. Strangers' /\ \A d \in Disk : MayUse(d)' <=> MayUse(d)
      <3>1. ASSUME NEW d \in Disk
            PROVE top[d] \subseteq top'[d] /\ top'[d] \subseteq top[d] \cup {"etc", "packages", "services"}
        BY <1>2, <1>5, <2>1, BotchedWhat DEF IInv
      <3>2. ASSUME NEW d \in Disk, d # p
            PROVE  /\ top'[d] = top[d] /\ file'[d] = file[d]
                   /\ \A x : <<d, x>> \in dirty' => <<d, x>> \in dirty
        BY <1>5, <2>1, <3>2, BotchedWhat DEF IInv
      <3> QED
        BY <1>1, <2>3, <3>1, <3>2, DisksStep
    <2>5. TypeOK'
      <3>1. /\ top' \in [Place -> SUBSET Names]
            /\ file' \in [Place -> [Setting -> Value \cup {Absent, Blank}]]
            /\ \A q \in Place, r \in Setting : file'[q][r] \in Content(r)
            /\ dirty' \subseteq (Place \X Setting) \cup (Disk \X {"swap"})
        BY <1>5, <2>1, BotchedType DEF IInv
      <3> QED
        BY <1>1, <1>2, <1>3, <3>1 DEF IInv, TypeOK
    <2>6. Mounts' /\ Keepers'
      BY <1>1, <2>4 DEF IInv, Mounts, Keepers, Expected
    <2>7. ASSUME NEW q \in Place, NEW r \in Setting, Expected(q, r)
          PROVE file'[q][r] = file[q][r]
      <3>1. CASE q = p /\ r = s
        <4>1. ~Keeps(p, s)
          BY <1>2, <2>7, <3>1 DEF IInv, Kept
        <4>2. CASE p = Root
          BY <2>7, <3>1, <4>1, <4>2 DEF IInv, Keepers, Keeps, TypeOK, FromEtc
        <4>3. CASE p # Root
          BY <2>1, <2>3, <2>7, <3>1, <4>1, <4>3 DEF IInv, Keepers, Keeps, TypeOK
        <4> QED
          BY <4>2, <4>3
      <3>2. CASE ~(q = p /\ r = s)
        BY <2>2, <3>2
      <3> QED
        BY <3>1, <3>2
    <2>8. Kept'
      BY <1>1, <1>2, <2>7 DEF IInv, Kept, Expected, InForce, Keeps
    <2>9. Promises'
      BY <1>1, <1>2, <2>4, <2>5 DEF IInv, Promises, TypeOK
    <2>10. InEtc' /\ Idle'
      BY <1>1, <1>2, <2>2 DEF IInv, InEtc, Idle
    <2> QED
      BY <2>4, <2>5, <2>6, <2>8, <2>9, <2>10 DEF IInv
  <1> QED
    BY <1>4, <1>5 DEF Interrupt

LEMMA ElsewhereIInv ==
    ASSUME IInv, NEW mark \in {"packages", "services"}, Elsewhere(mark)
    PROVE  IInv'
  <1>1. UNCHANGED <<mode, origin, power, attached, mounted, tried, file, dirty, job, told, swap, active,
                    making, promised>>
    BY DEF Elsewhere, swapVars
  <1>2. power = "on" /\ mounted \in Disk /\ MayUse(mounted)
    BY DEF Elsewhere, IInv, Mounts
  <1>3. top' \in [Place -> SUBSET Names]
    BY <1>2 DEF Elsewhere, IInv, TypeOK, Names
  <1>4. Strangers' /\ \A d \in Disk : MayUse(d)' <=> MayUse(d)
    <2>1. ASSUME NEW d \in Disk
          PROVE  /\ top[d] \subseteq top'[d]
                 /\ top'[d] \subseteq top[d] \cup {"etc", "packages", "services"}
                 /\ d # mounted => top'[d] = top[d]
      BY <1>2 DEF Elsewhere, IInv, TypeOK
    <2> QED
      BY <1>1, <1>2, <2>1, DisksStep
  <1>5. TypeOK'
    BY <1>1, <1>3 DEF Elsewhere, Command, IInv, TypeOK
  <1>6. Mounts' /\ Keepers' /\ Kept' /\ InEtc' /\ Idle'
    BY <1>1, <1>4 DEF IInv, Mounts, Keepers, Kept, InEtc, Idle, Expected, InForce, Keeps
  <1>7. Promises'
    BY <1>1, <1>4, <1>5 DEF IInv, Promises, TypeOK
  <1> QED
    BY <1>4, <1>5, <1>6, <1>7 DEF IInv

-----------------------------------------------------------------------------
(* Swap                                                                    *)

\* One command of the swap tool touches the mounted disk's file only, and a file
\* that binds is ready.
LEMMA SwapStep ==
    ASSUME IInv, Swap
    PROVE  /\ swap' \in [Disk -> States] /\ active' \in BOOLEAN
           /\ making' \in {"none", "mkswap", "swapon"} /\ promised' \subseteq Disk
           /\ commands' \in 0 .. MaxCommands
           /\ \A d \in Disk : swap'[d] # swap[d] => d = mounted
           /\ \A d \in promised' : swap'[d] = "ready" /\ (d \in promised \/ d = mounted)
  <1> USE DEF States, CanSwapOn
  <1>0. /\ swap \in [Disk -> States] /\ active \in BOOLEAN
        /\ making \in {"none", "mkswap", "swapon"} /\ promised \subseteq Disk
        /\ commands \in 0 .. MaxCommands
        /\ \A d \in promised : swap[d] = "ready"
    BY DEF IInv, TypeOK, Promises
  <1>1. CASE CreateSwap(mounted) /\ Command
    BY <1>0, <1>1 DEF CreateSwap, Command
  <1>2. CASE RemoveSwap(mounted) /\ Command
    <2>1. \A d \in Disk : swap'[d] = IF d = mounted THEN "none" ELSE swap[d]
      BY <1>0, <1>2 DEF RemoveSwap
    <2>2. swap' \in [Disk -> States] /\ active' = FALSE /\ making' = making
      BY <1>0, <1>2 DEF RemoveSwap
    <2>3. promised' = promised \ {mounted} /\ commands' \in 0 .. MaxCommands
      BY <1>0, <1>2 DEF RemoveSwap, Command
    <2> QED
      BY <1>0, <2>1, <2>2, <2>3
  <1>3. CASE MakeSwap(mounted) /\ UNCHANGED commands
    BY <1>0, <1>3 DEF MakeSwap
  <1>4. CASE (FinishCreate(mounted) \/ EnableSwap(mounted)) /\ UNCHANGED commands
    BY <1>0, <1>4 DEF FinishCreate, EnableSwap, SwapOn
  <1>5. CASE (DisableSwap \/ InterruptCreate \/ SuspendInstead(mounted)) /\ UNCHANGED commands
    BY <1>0, <1>5 DEF DisableSwap, InterruptCreate, SuspendInstead
  <1> QED
    BY <1>1, <1>2, <1>3, <1>4, <1>5 DEF Swap

LEMMA SwapIInv == ASSUME IInv, Swap PROVE IInv'
  <1>1. UNCHANGED <<mode, origin, power, attached, mounted, tried, top, file, job, told>> /\ power = "on"
    BY DEF Swap, disks
  <1>2. /\ \A d \in Disk : swap'[d] # swap[d] => d = mounted /\ MayUse(d)
        /\ dirty' = dirty \cup (IF swap' # swap THEN {<<mounted, "swap">>} ELSE {})
        /\ swap' # swap => mounted \in Disk /\ MayUse(mounted)
    <2>1. swap' # swap => \E d \in Disk : swap'[d] # swap[d]
      BY SwapStep DEF IInv, TypeOK
    <2> QED
      BY <2>1, SwapStep DEF Swap, IInv, Mounts
  <1>3. Strangers' /\ \A d \in Disk : MayUse(d)' <=> MayUse(d)
    <2>1. ASSUME NEW d \in Disk, ~MayUse(d)
          PROVE swap'[d] = swap[d] /\ \A x : <<d, x>> \in dirty' => <<d, x>> \in dirty
      BY <1>2, <2>1
    <2> QED
      BY <1>1, <2>1, DisksStep
  <1>4. TypeOK'
    BY <1>1, <1>2, SwapStep DEF IInv, TypeOK
  <1>5. Mounts' /\ Keepers' /\ Kept' /\ InEtc' /\ Idle'
    BY <1>1, <1>3 DEF IInv, Mounts, Keepers, Kept, InEtc, Idle, Expected, InForce, Keeps
  <1>6. Promises'
    <2>1. ASSUME NEW d \in promised' PROVE MayUse(d)
      BY <2>1, SwapStep DEF IInv, Promises, Mounts
    <2> QED
      BY <1>1, <1>3, <2>1, SwapStep DEF Promises
  <1> QED
    BY <1>3, <1>4, <1>5, <1>6 DEF IInv

-----------------------------------------------------------------------------
(* Going down, and what the power leaves                                   *)

\* Whatever way the machine goes down, with nothing new pending and no promise
\* made.
LEMMA DownIInv ==
    ASSUME IInv, NEW how \in {"off", "lost"}, Down(how),
           UNCHANGED <<top, file>>, dirty' \subseteq dirty, how = "off" => dirty' = {},
           swap' \in [Disk -> States], active' = FALSE, making' = "none",
           promised' \subseteq promised,
           \A d \in Disk : swap'[d] # swap[d] => MayUse(d) /\ d \notin promised',
           \A d \in promised' : power' = "lost" => <<d, "swap">> \notin dirty',
           told' \in [Place -> [Setting -> Value \cup {Default, Nothing}]],
           \A p \in Place, s \in Setting : Expected(p, s)' =>
               told'[p][s] = told[p][s] /\ (power' = "lost" => <<p, s>> \notin dirty')
    PROVE  IInv'
  <1>1. /\ UNCHANGED <<mode, origin, commands>> /\ power' = how /\ attached' = {}
        /\ mounted' = NoDisk /\ tried' = {}
    BY DEF Down
  <1>2. job' = [s \in Setting |-> NoJob]
    BY DEF Down
  <1>3. Strangers' /\ \A d \in Disk : MayUse(d)' <=> MayUse(d)
    BY <1>1, DisksStep
  <1>4. TypeOK'
    BY <1>1, <1>2 DEF IInv, TypeOK
  <1>5. Mounts' /\ InEtc' /\ Idle'
    BY <1>1, <1>2 DEF Mounts, InEtc, Idle
  <1>6. Keepers' /\ Kept'
    <2>1. ASSUME NEW p \in Place, NEW s \in Setting, Expected(p, s)' PROVE Expected(p, s)
      BY <2>1 DEF Expected
    <2>2. Keepers'
      BY <1>1, <1>3, <2>1 DEF IInv, Keepers
    <2>3. Kept'
      BY <1>1, <1>2, <2>1 DEF IInv, Kept, InForce
    <2> QED
      BY <2>2, <2>3
  <1>7. Promises'
    BY <1>3 DEF IInv, Promises, TypeOK
  <1> QED
    BY <1>3, <1>4, <1>5, <1>6, <1>7 DEF IInv

LEMMA ShutdownIInv == ASSUME IInv, Shutdown PROVE IInv'
  <1>1. Down("off") /\ UNCHANGED <<top, file, told, promised, swap>>
    BY DEF Shutdown, Down, disks, SwapStops
  <1>2. dirty' = {} /\ active' = FALSE /\ making' = "none"
    BY DEF Shutdown, SwapStops
  <1>3. swap' \in [Disk -> States] /\ told' \in [Place -> [Setting -> Value \cup {Default, Nothing}]]
    BY <1>1 DEF IInv, TypeOK
  <1> QED
    BY <1>1, <1>2, <1>3, DownIInv

LEMMA HibernateIInv == ASSUME IInv, Hibernate PROVE IInv'
  <1>1. Down("off") /\ UNCHANGED <<top, file, told>>
    BY DEF Hibernate, Down, disks
  <1>2. /\ dirty' = {} /\ active' = FALSE /\ making' = "none"
        /\ promised' = promised \ {mounted} /\ MayUse(mounted) /\ mounted \in Disk
        /\ swap' = [swap EXCEPT ![mounted] = "image"]
    BY DEF Hibernate, HibernateSwap, IInv, Mounts
  <1>3. told' \in [Place -> [Setting -> Value \cup {Default, Nothing}]] /\ swap' \in [Disk -> States]
    BY <1>1, <1>2 DEF IInv, TypeOK, States
  <1>4. \A d \in Disk : swap'[d] # swap[d] => MayUse(d) /\ d \notin promised'
    BY <1>2 DEF IInv, TypeOK
  <1> QED
    BY <1>1, <1>2, <1>3, <1>4, DownIInv

LEMMA PowerLossIInv == ASSUME IInv, PowerLoss PROVE IInv'
  <1> DEFINE how == IF dirty = {} THEN "off" ELSE "lost"
  <1>1. Down(how) /\ UNCHANGED <<top, file, swap, dirty>>
    BY DEF PowerLoss, Down, disks, SwapStops
  <1>2. /\ active' = FALSE /\ making' = "none"
        /\ promised' = {d \in promised : <<d, "swap">> \notin dirty}
        /\ told' = [p \in Place |-> [s \in Setting |->
                       IF <<p, s>> \in dirty THEN Nothing ELSE told[p][s]]]
    BY DEF PowerLoss, SwapStops
  <1>3. swap' \in [Disk -> States] /\ told' \in [Place -> [Setting -> Value \cup {Default, Nothing}]]
    BY <1>1, <1>2 DEF IInv, TypeOK
  <1>4. \A p \in Place, s \in Setting : Expected(p, s)' =>
            told'[p][s] = told[p][s] /\ <<p, s>> \notin dirty'
    BY <1>1, <1>2 DEF Expected
  <1>5. how \in {"off", "lost"} /\ (how = "off" => dirty' = {})
    BY <1>1
  <1> HIDE DEF how
  <1> QED
    BY <1>1, <1>2, <1>3, <1>4, <1>5, DownIInv

LEMMA WrittenType ==
    ASSUME IInv, NEW x, Written(x), x \in dirty
    PROVE  /\ dirty' \subseteq dirty
           /\ power' \in {"on", "off", "lost"} /\ (power' = "off" => dirty' = {})
           /\ (power' = "on" <=> power = "on") /\ (power' = "lost" => power = "lost")
  BY DEF Written, IInv, TypeOK

LEMMA WritebackIInv == ASSUME IInv, NEW x \in dirty, Writeback(x) PROVE IInv'
  <1>1. UNCHANGED <<mode, origin, attached, mounted, tried, top, file, job, told, commands, swap,
                    active, making, promised>> /\ Written(x)
    BY DEF Writeback, disks, swapVars
  <1>2. Strangers' /\ \A d \in Disk : MayUse(d)' <=> MayUse(d)
    BY <1>1, WrittenType, DisksStill
  <1>3. TypeOK'
    BY <1>1, WrittenType DEF IInv, TypeOK
  <1>4. Mounts' /\ Keepers' /\ Kept' /\ InEtc' /\ Idle'
    BY <1>1, <1>2, WrittenType
       DEF IInv, Mounts, Keepers, Kept, InEtc, Idle, Expected, InForce, Keeps
  <1>5. Promises'
    BY <1>1, <1>2, <1>3, WrittenType DEF IInv, Promises, TypeOK
  <1> QED
    BY <1>2, <1>3, <1>4, <1>5 DEF IInv

LEMMA LoseFileIInv ==
    ASSUME IInv, NEW p \in Place, NEW s \in Setting, NEW c \in Content(s), LoseFile(p, s, c)
    PROVE  IInv'
  <1>1. /\ UNCHANGED <<mode, origin, attached, mounted, tried, top, job, told, commands, swap,
                       active, making, promised>>
        /\ Written(<<p, s>>) /\ <<p, s>> \in dirty /\ power = "lost"
    BY DEF LoseFile, swapVars
  <1>2. \A q \in Place, r \in Setting :
            file'[q][r] = IF q = p /\ r = s THEN c ELSE file[q][r]
    BY DEF LoseFile, IInv, TypeOK
  <1>3. file' \in [Place -> [Setting -> Value \cup {Absent, Blank}]]
    <2>1. c \in Value \cup {Absent, Blank}
      BY DEF ValueOf
    <2>2. [file[p] EXCEPT ![s] = c] \in [Setting -> Value \cup {Absent, Blank}]
      BY <2>1 DEF IInv, TypeOK
    <2> QED
      BY <2>2 DEF LoseFile, IInv, TypeOK
  <1>4. \A d \in Disk : file'[d] # file[d] => ~Stranger(d)
    BY <1>1 DEF LoseFile, IInv, TypeOK, Strangers
  <1>5. Strangers' /\ \A d \in Disk : MayUse(d)' <=> MayUse(d)
    <2>1. \A d \in Disk : (Stranger(d)' <=> Stranger(d)) /\ (CarriesRoot(d)' <=> CarriesRoot(d))
      BY <1>1 DEF Stranger, CarriesRoot
    <2>2. ASSUME NEW d \in Disk, origin[d] = "other" PROVE ~LooksLikeRezzDisk(d)'
      <3>1. file'[d] = file[d]
        BY <1>4, <2>2 DEF Stranger
      <3> QED
        BY <1>1, <2>2, <3>1 DEF IInv, Strangers, LooksLikeRezzDisk, CarriesRoot, IsEmpty, Marked, HasFile
    <2>3. Strangers'
      BY <1>1, <2>1, <2>2, WrittenType DEF IInv, Strangers
    <2> QED
      BY <1>1, <2>1, <2>3 DEF MayUse
  <1>6. TypeOK'
    <2>1. ASSUME NEW q \in Place, NEW r \in Setting PROVE file'[q][r] \in Content(r)
      <3>1. file[q][r] \in Content(r)
        BY DEF IInv, TypeOK
      <3> QED
        BY <1>2, <3>1
    <2> QED
      BY <1>1, <1>3, <2>1, WrittenType DEF IInv, TypeOK
  <1>7. Mounts' /\ Keepers'
    BY <1>1, <1>5 DEF IInv, Mounts, Keepers, Expected
  <1>8. Kept' /\ InEtc' /\ Idle'
    <2>1. \A r \in Setting : job'[r] = NoJob
      BY <1>1 DEF IInv, Idle
    <2>2. ASSUME NEW q \in Place, NEW r \in Setting, Expected(q, r) PROVE file'[q][r] = file[q][r]
      BY <1>1, <1>2, <2>2 DEF IInv, Kept
    <2> QED
      BY <1>1, <2>1, <2>2, WrittenType DEF IInv, Kept, InEtc, Idle, Expected, InForce
  <1>9. Promises'
    BY <1>1, <1>5, <1>6, WrittenType DEF IInv, Promises, TypeOK
  <1> QED
    BY <1>5, <1>6, <1>7, <1>8, <1>9 DEF IInv

LEMMA LoseSwapIInv ==
    ASSUME IInv, NEW d \in Disk, NEW left \in {"none", "zeros", "ready"}, LoseSwap(d, left)
    PROVE  IInv'
  <1>1. /\ UNCHANGED <<mode, origin, attached, mounted, tried, top, file, job, told, commands,
                       active, making, promised>>
        /\ Written(<<d, "swap">>) /\ <<d, "swap">> \in dirty /\ power = "lost"
    BY DEF LoseSwap, disks
  <1>2. swap' \in [Disk -> States] /\ \A e \in Disk : swap'[e] # swap[e] => e = d
    BY DEF LoseSwap, IInv, TypeOK, States
  <1>3. ~Stranger(d)
    BY <1>1 DEF IInv, Strangers
  <1>4. Strangers' /\ \A e \in Disk : MayUse(e)' <=> MayUse(e)
    <2>1. \A e \in Disk : (Stranger(e)' <=> Stranger(e)) /\ (CarriesRoot(e)' <=> CarriesRoot(e))
      BY <1>1 DEF Stranger, CarriesRoot
    <2>2. ASSUME NEW e \in Disk, origin[e] = "other" PROVE ~LooksLikeRezzDisk(e)'
      <3>1. swap'[e] = swap[e]
        BY <1>2, <1>3, <2>2 DEF Stranger
      <3> QED
        BY <1>1, <2>2, <3>1 DEF IInv, Strangers, LooksLikeRezzDisk, CarriesRoot, IsEmpty, Marked, HasFile
    <2>3. Strangers'
      BY <1>1, <2>1, <2>2, WrittenType DEF IInv, Strangers
    <2> QED
      BY <1>1, <2>1, <2>3 DEF MayUse
  <1>5. TypeOK'
    BY <1>1, <1>2, WrittenType DEF IInv, TypeOK
  <1>6. Mounts' /\ Keepers' /\ Kept' /\ InEtc' /\ Idle'
    BY <1>1, <1>4, WrittenType
       DEF IInv, Mounts, Keepers, Kept, InEtc, Idle, Expected, InForce, Keeps
  <1>7. Promises'
    BY <1>1, <1>2, <1>4, <1>5, WrittenType DEF IInv, Promises, TypeOK
  <1> QED
    BY <1>4, <1>5, <1>6, <1>7 DEF IInv

-----------------------------------------------------------------------------
(* The invariant                                                           *)

LEMMA InitIInv == ASSUME Init PROVE IInv
  <1>1. \A d \in Disk : origin[d] \in DiskKinds /\ top[d] = FirstTop(origin[d])
    BY DEF Init
  <1>2. swap = [d \in Disk |-> IF origin[d] \in {"root", "swapped"} THEN "ready" ELSE "none"]
    BY DEF Init
  <1>3. top \in [Place -> SUBSET Names]
    <2>1. ASSUME NEW k PROVE FirstTop(k) \subseteq Names
      BY DEF FirstTop, Names
    <2>2. top = [p \in Place |-> IF p = Root THEN {"etc"} ELSE FirstTop(origin[p])]
      BY DEF Init
    <2> QED
      BY <2>1, <2>2 DEF Names
  <1>4. TypeOK
    <2>1. swap \in [Disk -> States]
      BY <1>2 DEF States
    <2>2. file \in [Place -> [Setting -> Value \cup {Absent, Blank}]]
      BY DEF Init
    <2>3. told \in [Place -> [Setting -> Value \cup {Default, Nothing}]]
      BY DEF Init
    <2>4. job \in [Setting -> Jobs \cup {NoJob}] /\ \A s \in Setting : job[s] \in JobsOf(s) \cup {NoJob}
      BY DEF Init
    <2>5. \A p \in Place, s \in Setting : file[p][s] \in Content(s)
      BY DEF Init
    <2>6. /\ mode \in Modes /\ power = "off" /\ attached = {} /\ mounted = NoDisk /\ tried = {}
          /\ origin \in [Disk -> DiskKinds]
          /\ dirty = {} /\ commands = 0 /\ active = FALSE /\ making = "none" /\ promised = {}
      BY DEF Init
    <2>7. /\ attached \subseteq Disk /\ mounted \in attached \cup {NoDisk} /\ tried \subseteq attached
          /\ promised \subseteq Disk /\ active \in BOOLEAN
      BY <2>6
    <2>8. dirty \subseteq (Place \X Setting) \cup (Disk \X {"swap"}) /\ commands \in 0 .. MaxCommands
      BY <2>6
    <2> QED
      BY <1>3, <2>1, <2>2, <2>3, <2>4, <2>5, <2>6, <2>7, <2>8 DEF TypeOK
  <1>5. Strangers
    <2>1. ASSUME NEW d \in Disk, origin[d] = "other" PROVE ~LooksLikeRezzDisk(d)
      <3>1. top[d] = {"other"} /\ swap[d] = "none"
        BY <1>1, <1>2, <2>1 DEF FirstTop
      <3>2. \A s \in Setting : file[d][s] = Absent
        BY DEF Init
      <3> QED
        BY <3>1, <3>2 DEF LooksLikeRezzDisk, IsEmpty, Marked, HasFile
    <2>2. ASSUME NEW d \in Disk PROVE CarriesRoot(d) <=> origin[d] = "root"
      BY <1>1 DEF FirstTop, CarriesRoot, Foreign, DiskKinds
    <2>3. mode = "disk" => ~Stranger(OwnDisk)
      BY DEF Init, Stranger
    <2> QED
      BY <2>1, <2>2, <2>3 DEF Strangers, Init
  <1> QED
    BY <1>4, <1>5
       DEF IInv, Init, Mounts, Keepers, Kept, Promises, InEtc, Idle, Expected

LEMMA NextIInv == ASSUME IInv, [Next]_vars PROVE IInv'
  <1>1. CASE Boot
    BY <1>1, BootIInv
  <1>2. CASE Tools
    BY <1>2, StartIInv, SaveIInv, SaveFailsIInv, SaveNowhereIInv, InterruptIInv, ElsewhereIInv,
       SwapIInv DEF Tools
  <1>3. CASE Shutdown \/ Hibernate \/ PowerLoss
    BY <1>3, ShutdownIInv, HibernateIInv, PowerLossIInv
  <1>4. CASE Disks
    BY <1>4, WritebackIInv, LoseFileIInv, LoseSwapIInv DEF Disks
  <1>5. CASE UNCHANGED vars
    <2>1. UNCHANGED <<mode, origin, power, attached, mounted, tried, top, file, dirty, job, commands,
                      told, swap, active, making, promised>>
      BY <1>5 DEF vars, disks, swapVars
    <2>2. UNCHANGED <<TypeOK, Mounts, Keepers, Kept, InEtc, Idle>>
      BY <2>1 DEF TypeOK, Mounts, MayUse, Stranger, CarriesRoot, Keepers, Kept, InEtc, Idle,
                  Expected, InForce, Keeps
    <2>3. UNCHANGED Promises
      BY <2>1 DEF Promises, MayUse, Stranger, CarriesRoot
    <2> QED
      BY <2>1, <2>2, <2>3, DisksStill DEF IInv
  <1> QED
    BY <1>1, <1>2, <1>3, <1>4, <1>5 DEF Next

LEMMA Invariance == Spec => []IInv
  <1>1. Init => IInv
    BY InitIInv
  <1>2. IInv /\ [Next]_vars => IInv'
    BY NextIInv
  <1> QED
    BY <1>1, <1>2, PTL DEF Spec

\* The state has its shape, for any disks, settings and values: nothing is
\* mounted, under way or in use while the power is off.
THEOREM TypeCorrect == Spec => []TypeOK
  <1>1. IInv => TypeOK
    BY DEF IInv
  <1> QED
    BY <1>1, Invariance, PTL

-----------------------------------------------------------------------------
(* What comes back                                                         *)

\* A disk that binds looks like one of RezzOS's.
LEMMA OnlyOneIsTaken ==
    ASSUME IInv, Boot, NEW d \in Disk, MayUse(d), mounted' = d \/ OnlyOne(d)
    PROVE  mounted' = d
  <1>1. CASE mode = "live" /\ OnlyOne(d)
    BY <1>1 DEF Boot, MayMount, OnlyOne, LooksLikeRezzDisk, MayUse, Stranger, IInv, Strangers
  <1>2. CASE mode # "live" /\ OnlyOne(d)
    BY <1>2 DEF Boot, MayMount, OnlyOne, MayUse, IInv, TypeOK
  <1> QED
    BY <1>1, <1>2

LEMMA BootRestores ==
    ASSUME IInv, Boot, NEW s \in Setting
    PROVE  /\ mode = "disk" /\ Expected(Root, s) => Restored(mounted', s) = told[Root][s]
           /\ \A d \in Disk :
                 Expected(d, s) /\ (mounted' = d \/ OnlyOne(d)) =>
                     mounted' = d /\ Restored(d, s) = told[d][s]
  <1>1. ASSUME mode = "disk", Expected(Root, s) PROVE Restored(mounted', s) = told[Root][s]
    <2>1. s \in FromEtc /\ told[Root][s] \in Value /\ InForce(file[Root][s]) = told[Root][s]
      BY <1>1 DEF IInv, Keepers, Kept
    <2>2. file[Root][s] # Absent /\ s # "network"
      BY <2>1 DEF InForce, FromEtc
    <2> QED
      BY <1>1, <2>1, <2>2 DEF Restored
  <1>2. ASSUME NEW d \in Disk, Expected(d, s), mounted' = d \/ OnlyOne(d)
        PROVE  mounted' = d /\ Restored(d, s) = told[d][s]
    <2>1. MayUse(d) /\ (mode = "disk" => s = "network") /\ InForce(file[d][s]) = told[d][s]
      BY <1>2 DEF IInv, Keepers, Kept
    <2>2. mode = "live" \/ s = "network"
      BY <2>1 DEF IInv, TypeOK
    <2> QED
      BY <1>2, <2>1, <2>2, OnlyOneIsTaken DEF Restored, OnDisk
  <1> QED
    BY <1>1, <1>2

\* Whatever came in between, a boot gives back what a tool said it had saved and
\* could write.
THEOREM SavedIsKept == Spec => SavedComesBack
  <1>1. IInv /\ [Next]_vars =>
          [Boot => \A s \in Setting :
              /\ mode = "disk" /\ Expected(Root, s) => Restored(mounted', s) = told[Root][s]
              /\ \A d \in Disk :
                    Expected(d, s) /\ (mounted' = d \/ OnlyOne(d)) =>
                        mounted' = d /\ Restored(d, s) = told[d][s]]_vars
    BY BootRestores
  <1> QED
    BY <1>1, Invariance, PTL DEF Spec, SavedComesBack

\* Swap that was said to be activated is active again after a boot that mounts
\* its disk, and a boot with that disk alone does.
THEOREM SwapIsKept == Spec => SwapComesBack
  <1>1. ASSUME IInv, Boot, NEW d \in promised, mounted' = d \/ OnlyOne(d)
        PROVE  mounted' = d /\ active'
    <2>1. d \in Disk /\ MayUse(d) /\ swap[d] = "ready"
      BY <1>1 DEF IInv, Promises, TypeOK
    <2> QED
      BY <1>1, <2>1, OnlyOneIsTaken DEF Boot, BootSwap
  <1>2. IInv /\ [Next]_vars =>
          [Boot => \A d \in promised : mounted' = d \/ OnlyOne(d) => mounted' = d /\ active']_vars
    BY <1>1
  <1> QED
    BY <1>2, Invariance, PTL DEF Spec, SwapComesBack

-----------------------------------------------------------------------------
(* What is left alone                                                      *)

\* A write, of a file or of swap, never touches a stranger.
LEMMA StepLeavesStrangers ==
    ASSUME IInv, [Next]_vars, NEW d \in Disk, Stranger(d)
    PROVE  UNCHANGED <<top[d], file[d], swap[d]>>
  <1>0. d # Root /\ (mounted \in Disk => d # mounted)
    BY DEF IInv, Mounts, MayUse
  <1>1. ASSUME NEW p \in Place, p # d, NEW s, NEW c, Write(p, s, c)
        PROVE  top'[d] = top[d] /\ file'[d] = file[d]
    BY <1>1 DEF Write, IInv, TypeOK
  <1>b. ASSUME NEW p \in Place, p # d, NEW s \in Setting, Botched(p, s)
        PROVE  top'[d] = top[d] /\ file'[d] = file[d]
    BY <1>b, BotchedWhat DEF IInv
  <1>2. ASSUME NEW s \in Setting, NEW j, Apply(s, j) PROVE UNCHANGED <<top[d], file[d], swap[d]>>
    BY <1>0, <1>1, <1>b, <1>2 DEF Apply, swapVars, disks
  <1>3. CASE Boot \/ Shutdown \/ PowerLoss \/ UNCHANGED vars
    BY <1>3 DEF Boot, BootSwap, Shutdown, PowerLoss, Down, SwapStops, disks, vars, swapVars
  <1>4. CASE Hibernate
    BY <1>0, <1>4 DEF Hibernate, HibernateSwap, Down, disks, IInv, TypeOK
  <1>5. CASE Tools
    <2>1. ASSUME NEW s \in Setting, Save(s) PROVE UNCHANGED <<top[d], file[d], swap[d]>>
      BY <1>0, <1>1, <2>1 DEF Save, swapVars
    <2>f. ASSUME NEW s \in Setting, SaveFails(s) PROVE UNCHANGED <<top[d], file[d], swap[d]>>
      BY <1>0, <1>1, <1>b, <2>f DEF SaveFails, swapVars
    <2>2. ASSUME NEW s \in Setting, SaveNowhere(s) PROVE UNCHANGED <<top[d], file[d], swap[d]>>
      BY <2>2 DEF SaveNowhere, disks, swapVars
    <2>3. ASSUME NEW s \in Setting, Interrupt(s) PROVE UNCHANGED <<top[d], file[d], swap[d]>>
      <3>1. \A p \in Targets(s) : p \in Place /\ p # d
        BY <1>0 DEF Targets
      <3>2. UNCHANGED swap
        BY <2>3 DEF Interrupt, swapVars
      <3>3. CASE UNCHANGED <<disks, dirty>>
        BY <3>2, <3>3 DEF disks
      <3>4. CASE \E p \in Targets(s) : Botched(p, s)
        BY <1>b, <3>1, <3>2, <3>4
      <3> QED
        BY <2>3, <3>3, <3>4 DEF Interrupt
    <2>4. ASSUME NEW mark, Elsewhere(mark) PROVE UNCHANGED <<top[d], file[d], swap[d]>>
      BY <1>0, <2>4 DEF Elsewhere, IInv, TypeOK, swapVars
    <2>5. ASSUME Swap PROVE UNCHANGED <<top[d], file[d], swap[d]>>
      <3>1. swap'[d] = swap[d]
        <4>1. CASE mounted \in Disk
          BY <1>0, <2>5, <4>1, SwapStep
        <4>2. CASE mounted \notin Disk
          BY <2>5, <4>2, SwapStep
        <4> QED
          BY <4>1, <4>2
      <3> QED
        BY <2>5, <3>1 DEF Swap, disks
    <2> QED
      BY <1>2, <1>5, <2>1, <2>f, <2>2, <2>3, <2>4, <2>5 DEF Tools, Set, Dhcp, DnsOnly
  <1>6. CASE Disks
    <2>1. ASSUME NEW x \in dirty, Writeback(x) PROVE UNCHANGED <<top[d], file[d], swap[d]>>
      BY <2>1 DEF Writeback, disks, swapVars
    <2>2. ASSUME NEW p \in Place, NEW s \in Setting, NEW c, LoseFile(p, s, c)
          PROVE  UNCHANGED <<top[d], file[d], swap[d]>>
      <3>1. p # d
        BY <2>2 DEF LoseFile, IInv, Strangers
      <3> QED
        BY <2>2, <3>1 DEF LoseFile, IInv, TypeOK, swapVars
    <2>3. ASSUME NEW e \in Disk, NEW left, LoseSwap(e, left)
          PROVE  UNCHANGED <<top[d], file[d], swap[d]>>
      <3>1. e # d
        BY <2>3 DEF LoseSwap, IInv, Strangers
      <3> QED
        BY <2>3, <3>1 DEF LoseSwap, IInv, TypeOK, disks
    <2> QED
      BY <1>6, <2>1, <2>2, <2>3 DEF Disks
  <1> QED
    BY <1>3, <1>4, <1>5, <1>6 DEF Next

\* No boot leaves a stranger mounted, and an installed system does not try one.
LEMMA StepMountsNone ==
    ASSUME IInv, [Next]_vars, NEW d \in Disk, Stranger(d)
    PROVE  mounted' # d /\ (d \in tried' \ tried => mode = "live")
  <1>1. origin' = origin /\ mode' = mode /\ IInv'
    <2>1. UNCHANGED <<origin, mode>>
      BY DEF Next, vars, Boot, Tools, Set, Dhcp, DnsOnly, Apply, Save, SaveFails, SaveNowhere,
             Interrupt, Elsewhere, Swap, Shutdown, Hibernate, PowerLoss, Down, Disks, Writeback,
             LoseFile, LoseSwap
    <2> QED
      BY <2>1, NextIInv
  <1>2. mounted' # d
    BY <1>1 DEF IInv, Mounts, MayUse, Stranger
  <1>3. ASSUME d \in tried' \ tried PROVE mode = "live"
    <2>1. CASE Boot
      BY <1>2, <1>3, <2>1 DEF Boot, MayMount
    <2>2. CASE ~Boot
      <3>1. tried' = tried \/ tried' = {}
        BY <2>2 DEF Next, vars, Tools, Set, Dhcp, DnsOnly, Apply, Save, SaveFails, SaveNowhere,
                    Interrupt, Elsewhere, Swap, Shutdown, Hibernate, PowerLoss, Down, Disks,
                    Writeback, LoseFile, LoseSwap
      <3> QED
        BY <1>3, <3>1
    <2> QED
      BY <2>1, <2>2
  <1> QED
    BY <1>2, <1>3

\* No file of a stranger, a disk with another system's root or with somebody's
\* own files and at first nothing init looks for, is ever changed, by a tool, a
\* half-done tool, a power loss or a hibernation; a live boot mounts one only to
\* look at it, and an installed system never.
THEOREM StrangersAreLeft == Spec => StrangersLeftAlone
  <1>1. IInv /\ [Next]_vars =>
          [\A d \in Disk : Stranger(d) =>
              /\ top'[d] = top[d] /\ file'[d] = file[d] /\ swap'[d] = swap[d]
              /\ mounted' # d /\ (d \in tried' \ tried => mode = "live")]_vars
    BY StepLeavesStrangers, StepMountsNone
  <1> QED
    BY <1>1, Invariance, PTL DEF Spec, StrangersLeftAlone
=============================================================================
