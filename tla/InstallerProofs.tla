--------------------------- MODULE InstallerProofs ---------------------------
(***************************************************************************)
(* Proofs about Installer: the type invariant, the inductive invariant,    *)
(* what its target mounts lie on, and that it implements DiskFate, for any *)
(* firmware, any old partition table and any number of attempts.           *)
(*                                                                         *)
(* The argument for DiskFate rests on TwoViews.  While the kernel goes by  *)
(* the old table, whether a complete system counts as installed or as      *)
(* misplaced depends on the tables alone, so no write turns one into the   *)
(* other; once it goes by the new one, nothing counts as misplaced.        *)
(***************************************************************************)
EXTENDS Installer, TLAPS

-----------------------------------------------------------------------------
(* Numbers, views and writes                                               *)

\* The partitions the script works on are among those of the new table.
LEMMA NumbersNew ==
    ASSUME TypeOK
    PROVE  /\ RootNo \in NewNumbers /\ DataNo \in NewNumbers /\ EspNo \in NewNumbers
           /\ NewNumbers \subseteq Number
           /\ Visible \subseteq Number
    BY InstallerAssumption DEF TypeOK, RootNo, DataNo, EspNo, NewNumbers, Visible, Number

\* A write under one of the kernel's names reaches the sectors behind it, by
\* either name, and nothing else.
LEMMA PutReaches ==
    ASSUME TypeOK, NEW n \in Number, NEW c \in Contents, Put(n, c)
    PROVE  /\ fs' \in [Partition -> Contents]
           /\ \A v \in {"old", "new"}, m \in Number :
                 fs'[<<v, m>>] = IF m = n /\ (v = kview \/ n \in same)
                                 THEN c ELSE fs[<<v, m>>]
  <1>1. Sectors(n) \subseteq Partition
    BY DEF TypeOK, Sectors, Partition
  <1>2. fs' = [p \in Partition |-> IF p \in Sectors(n) THEN c ELSE fs[p]]
    BY DEF Put
  <1>3. fs' \in [Partition -> Contents]
    BY <1>2 DEF TypeOK
  <1>4. ASSUME NEW v \in {"old", "new"}, NEW m \in Number
        PROVE  fs'[<<v, m>>] = IF m = n /\ (v = kview \/ n \in same)
                               THEN c ELSE fs[<<v, m>>]
    <2>1. <<v, m>> \in Partition
      BY DEF Partition
    <2>2. <<v, m>> \in Sectors(n) <=> m = n /\ (v = kview \/ n \in same)
      BY DEF Sectors
    <2> QED
      BY <1>2, <2>1, <2>2
  <1> QED
    BY <1>3, <1>4

\* A write to a visible partition leaves the two views consistent.
LEMMA PutTwoViews ==
    ASSUME TypeOK, TwoViews, NEW n \in Visible, NEW c \in Contents, Put(n, c),
           UNCHANGED <<kind, kview>>
    PROVE  TwoViews'
  <1>1. n \in Number /\ same \subseteq Number
    BY NumbersNew DEF TypeOK, NewNumbers, Number
  <1>2. \A v \in {"old", "new"}, m \in Number :
           fs'[<<v, m>>] = IF m = n /\ (v = kview \/ n \in same)
                           THEN c ELSE fs[<<v, m>>]
    BY <1>1, PutReaches
  <1>3. same' = same /\ kview' = kview
    BY DEF kind
  <1>4. \A m \in same' : fs'[<<"old", m>>] = fs'[<<"new", m>>]
    <2> TAKE m \in same'
    <2>1. fs[<<"old", m>>] = fs[<<"new", m>>]
      BY <1>3 DEF TwoViews
    <2> QED
      BY <1>1, <1>2, <1>3, <2>1 DEF TypeOK
  <1>5. ASSUME kview' = "old", NEW m \in Number \ same'
        PROVE  fs'[<<"new", m>>] \in {"none", "user"}
    <2>1. fs[<<"new", m>>] \in {"none", "user"}
      BY <1>3, <1>5 DEF TwoViews
    <2> QED
      BY <1>2, <1>3, <1>5, <2>1
  <1> QED
    BY <1>4, <1>5 DEF TwoViews

-----------------------------------------------------------------------------
(* How the fate of the disk moves                                          *)

\* While the kernel goes by the old table, the new one describes a complete
\* system only where both agree.
LEMMA OldView ==
    TypeOK /\ TwoViews /\ kview = "old" =>
        (SystemUnder("new") <=> /\ SystemUnder("old")
                                /\ RootNo \in same
                                /\ fw = "uefi" => EspNo \in same)
  <1> SUFFICES ASSUME TypeOK, TwoViews, kview = "old"
               PROVE  SystemUnder("new") <=>
                        /\ SystemUnder("old")
                        /\ RootNo \in same
                        /\ fw = "uefi" => EspNo \in same
    OBVIOUS
  <1>1. RootNo \in Number /\ EspNo \in Number
    BY NumbersNew
  <1>2. \A n \in Number : fs[<<"new", n>>] = "bootable" =>
                            n \in same /\ fs[<<"old", n>>] = "bootable"
    BY DEF TwoViews
  <1>3. \A n \in same : fs[<<"old", n>>] = fs[<<"new", n>>]
    BY DEF TwoViews
  <1> QED
    BY <1>1, <1>2, <1>3 DEF SystemUnder

\* As long as both tables stay, the disk only goes from torn to one way of
\* being complete and back.
LEMMA FateMoves ==
    ASSUME TypeOK, TwoViews, TypeOK', TwoViews', UNCHANGED <<kind, table, kview>>
    PROVE  \/ Fate' = Fate
           \/ Fate = "torn" /\ Fate' \in {"misplaced", "installed"}
           \/ Fate \in {"misplaced", "installed"} /\ Fate' = "torn"
  <1> DEFINE Agreed == RootNo \in same /\ (fw = "uefi" => EspNo \in same)
  <1>1. fw' = fw /\ same' = same /\ table' = table /\ kview' = kview
    BY DEF kind
  <1>2. Agreed' <=> Agreed
    BY <1>1 DEF RootNo, EspNo
  <1>3. kview = "old" => (SystemUnder("new") <=> SystemUnder("old") /\ Agreed)
    BY OldView
  <1>4. kview' = "old" => (SystemUnder("new")' <=> SystemUnder("old")' /\ Agreed')
    <2>1. (TypeOK /\ TwoViews /\ kview = "old" =>
             (SystemUnder("new") <=> SystemUnder("old") /\ Agreed))'
      BY OldView, PTL
    <2> QED
      BY <2>1
  <1> HIDE DEF Agreed
  <1>5. CASE table # "new"
    BY <1>1, <1>5 DEF Fate, TypeOK
  <1>6. CASE table = "new" /\ kview = "new"
    BY <1>1, <1>6 DEF Fate
  <1>7. CASE table = "new" /\ kview = "old"
    BY <1>1, <1>2, <1>3, <1>4, <1>7 DEF Fate
  <1> QED
    BY <1>5, <1>6, <1>7 DEF TypeOK

-----------------------------------------------------------------------------
(* The inductive invariant                                                 *)

\* The disk before the first attempt.
LEMMA InitIInv == Init => IInv
  <1> SUFFICES ASSUME Init PROVE IInv
    OBVIOUS
  <1>1. TypeOK
    <2>1. runs \in 1 .. MaxRuns
      BY InstallerAssumption DEF Init
    <2> QED
      BY <2>1 DEF Init, TypeOK, Contents, Mounted
  <1>2. TwoViews
    <2>1. \A n \in Number : <<"new", n>> \in Partition
      BY DEF Partition
    <2>2. \A n \in Number : fs[<<"new", n>>] \in {"none", "user"}
      BY <2>1 DEF Init
    <2>3. same \subseteq Number
      BY <1>1 DEF TypeOK, NewNumbers, Number
    <2> QED
      BY <2>2, <2>3 DEF Init, TwoViews
  <1>3. Reached
    BY DEF Init, Reached, Running, At, Early, Unsure, Unfilled
  <1>4. Pristine /\ Made
    BY DEF Init, Pristine, Made, At
  <1> QED
    BY <1>1, <1>2, <1>3, <1>4 DEF IInv

\* Nothing but mounts and the script's place change, or the table for another.
LEMMA StaysMade ==
    ASSUME IInv, UNCHANGED <<kind, fs>>, dirty' \subseteq dirty,
           table' = "old" => table = "old",
           ours' \subseteq ours, ours' # {} => RootNo \in ours',
           \/ step' \notin {"mkdata", "mkesp", "mount", "mountesp"}
           \/ UNCHANGED <<kview, ours, step>>
    PROVE  Pristine' /\ Made'
  <1>1. UNCHANGED <<fw, RootNo, EspNo>>
    BY DEF kind, RootNo, EspNo
  <1>2. Pristine'
    BY DEF IInv, Pristine
  <1>3. Made'
    BY <1>1 DEF IInv, Made, At, Holds
  <1> QED
    BY <1>2, <1>3

\* Unmounting what is not held leaves the ESP on the root partition, if at all.
LEMMA CleanUpNested ==
    ASSUME IInv, CleanUp
    PROVE  /\ ours' \subseteq ours /\ dirty' \subseteq dirty
           /\ ours' # {} => RootNo \in ours'
  <1>1. held \subseteq ours /\ ours \subseteq {RootNo, EspNo} /\ (ours # {} => RootNo \in ours)
    BY DEF IInv, TypeOK, Made
  <1> QED
    BY <1>1 DEF CleanUp, Unmounted

\* An attempt that gives up: nothing but its mounts and its end changes.
LEMMA DieIInv ==
    ASSUME IInv, Running, Die
    PROVE  IInv'
  <1>1. TypeOK'
    BY DEF IInv, TypeOK, Die, CleanUp, Unmounted, Visible, NewNumbers, Mounted, kind
  <1>2. TwoViews'
    BY DEF IInv, TwoViews, Die, kind
  <1>3. Reached'
    BY DEF IInv, Reached, Die, Running, At, Early, Unsure, Unfilled, kind, mounts
  <1>4. Pristine' /\ Made'
    BY CleanUpNested, StaysMade DEF Die
  <1> QED
    BY <1>1, <1>2, <1>3, <1>4 DEF IInv

\* Actions that only move the script on, or nothing at all.
LEMMA CheckIInv ==
    ASSUME IInv, Check
    PROVE  IInv'
  <1>1. CASE Die
    BY <1>1, DieIInv DEF Check, At, Running
  <1>2. CASE ~precious /\ Go("unmount") /\ UNCHANGED <<kind, disk, mounts>>
    <2>1. TypeOK'
      BY <1>2 DEF IInv, TypeOK, Go, Visible, NewNumbers, Mounted, kind, disk, mounts
    <2>2. TwoViews'
      BY <1>2 DEF IInv, TwoViews, kind, disk
    <2>3. Reached'
      BY <1>2 DEF IInv, Reached, Check, Go, Running, At, Early, Unsure, Unfilled,
                  kind, disk
    <2>4. Pristine' /\ Made'
      BY <1>2, StaysMade DEF IInv, Made, Go, disk, mounts, kind, RootNo
    <2> QED
      BY <2>1, <2>2, <2>3, <2>4 DEF IInv
  <1> QED
    BY <1>1, <1>2 DEF Check

LEMMA UnmountIInv ==
    ASSUME IInv, Unmount
    PROVE  IInv'
  <1>1. TypeOK'
    BY DEF IInv, TypeOK, Unmount, Go, CleanUp, Unmounted, Visible, NewNumbers,
           Mounted, kind
  <1>2. TwoViews'
    BY DEF IInv, TwoViews, Unmount, kind
  <1>3. Reached'
    BY DEF IInv, Reached, Unmount, Go, Running, At, Early, Unsure, Unfilled, kind
  <1>4. Pristine' /\ Made'
    BY CleanUpNested, StaysMade DEF Unmount, Go
  <1> QED
    BY <1>1, <1>2, <1>3, <1>4 DEF IInv

LEMMA WipeIInv ==
    ASSUME IInv, Wipe
    PROVE  IInv'
  <1>1. TypeOK'
    BY DEF IInv, TypeOK, Wipe, Go, Visible, NewNumbers, Mounted, kind, mounts
  <1>2. TwoViews'
    BY DEF IInv, TwoViews, Wipe, kind
  <1>3. Reached'
    BY DEF IInv, Reached, Wipe, Go, Running, At, Early, Unsure, Unfilled, kind
  <1>4. Pristine' /\ Made'
    BY StaysMade DEF IInv, Made, Wipe, Go, mounts, kind, RootNo
  <1> QED
    BY <1>1, <1>2, <1>3, <1>4 DEF IInv

\* The kernel reads the table again only while nothing is mounted, so what is
\* mounted stays visible.
LEMMA RereadOk ==
    ASSUME TypeOK, TwoViews, kview' = (IF Mounted = {} THEN "new" ELSE kview),
           UNCHANGED <<kind, fs, dirty, mounts>>
    PROVE  /\ kview' \in {"old", "new"}
           /\ dirty' \subseteq Mounted'
           /\ ours' \subseteq Visible' /\ others' \subseteq Visible'
           /\ TwoViews'
  <1>1. CASE Mounted = {}
    BY <1>1 DEF TypeOK, TwoViews, Visible, NewNumbers, Mounted, kind, mounts
  <1>2. CASE Mounted # {}
    BY <1>2 DEF TypeOK, TwoViews, Visible, NewNumbers, Mounted, kind, mounts
  <1> QED
    BY <1>1, <1>2

LEMMA PartitioningIInv ==
    ASSUME IInv, Partitioning
    PROVE  IInv'
  <1>1. CASE Die
    BY <1>1, DieIInv DEF Partitioning, At, Running
  <1>2. CASE /\ table' = "new"
             /\ kview' = IF Mounted = {} THEN "new" ELSE kview
             /\ Go("reread")
             /\ UNCHANGED <<kind, fs, dirty, mounts>>
    <2>1. /\ kview' \in {"old", "new"} /\ dirty' \subseteq Mounted'
          /\ ours' \subseteq Visible' /\ others' \subseteq Visible' /\ TwoViews'
      BY <1>2, RereadOk DEF IInv
    <2>2. TypeOK'
      BY <1>2, <2>1 DEF IInv, TypeOK, Go, NewNumbers, kind, mounts
    <2>3. Reached'
      BY <1>2 DEF IInv, Reached, Partitioning, Go, Running, At, Early, Unsure,
                  Unfilled, kind
    <2>4. Pristine' /\ Made'
      BY <1>2, StaysMade DEF IInv, Made, Go, mounts, kind, RootNo
    <2> QED
      BY <2>1, <2>2, <2>3, <2>4 DEF IInv
  <1> QED
    BY <1>1, <1>2 DEF Partitioning

LEMMA RereadIInv ==
    ASSUME IInv, Reread
    PROVE  IInv'
  <1>1. /\ kview' \in {"old", "new"} /\ dirty' \subseteq Mounted'
        /\ ours' \subseteq Visible' /\ others' \subseteq Visible' /\ TwoViews'
    BY RereadOk DEF IInv, Reread
  <1>2. TypeOK'
    BY <1>1 DEF IInv, TypeOK, Reread, Go, NewNumbers, kind, mounts
  <1>3. Reached'
    BY DEF IInv, Reached, Reread, Go, Running, At, Early, Unsure, Unfilled, kind
  <1>4. Pristine' /\ Made'
    BY StaysMade DEF IInv, Made, Reread, Go, mounts, kind, RootNo
  <1> QED
    BY <1>1, <1>2, <1>3, <1>4 DEF IInv

LEMMA WaitReadyIInv ==
    ASSUME IInv, WaitReady
    PROVE  IInv'
  <1>1. CASE Die
    BY <1>1, DieIInv DEF WaitReady, At, Running
  <1>2. CASE /\ NewNumbers \subseteq Visible
             /\ Go("mkroot") /\ UNCHANGED <<kind, disk, mounts>>
    <2>1. TypeOK'
      BY <1>2 DEF IInv, TypeOK, Go, Visible, NewNumbers, Mounted, kind, disk, mounts
    <2>2. TwoViews'
      BY <1>2 DEF IInv, TwoViews, kind, disk
    <2>3. Reached'
      BY <1>2 DEF IInv, Reached, WaitReady, Go, Running, At, Early, Unsure, Unfilled,
                  NewNumbers, Visible, kind, disk
    <2>4. Pristine' /\ Made'
      BY <1>2, StaysMade DEF IInv, Made, Go, disk, mounts, kind, RootNo
    <2> QED
      BY <2>1, <2>2, <2>3, <2>4 DEF IInv
  <1> QED
    BY <1>1, <1>2 DEF WaitReady

\* The commands that write: whatever the partition, the stage and the step.
LEMMA MkfsIInv ==
    ASSUME IInv, NEW n \in NewNumbers,
           NEW s \in {"mkroot", "mkdata", "mkesp"},
           NEW next \in {"mkdata", "mkesp", "mount"},
           \/ s = "mkroot" /\ n = RootNo /\ next = "mkdata"
           \/ s = "mkdata" /\ n = DataNo /\ next = (IF fw = "uefi" THEN "mkesp" ELSE "mount")
           \/ s = "mkesp" /\ n = EspNo /\ next = "mount",
           Mkfs(s, n, next)
    PROVE  IInv'
  <1>1. CASE Die
    BY <1>1, DieIInv DEF Mkfs, At, Running
  <1>2. CASE /\ n \notin Mounted /\ Put(n, "blank") /\ Go(next)
             /\ UNCHANGED <<kind, table, kview, dirty, mounts>>
    <2>1. n \in Visible /\ n \in Number /\ "blank" \in Contents
      BY NumbersNew DEF IInv, Reached, Mkfs, At, Unsure, Early, Contents
    <2>2. TwoViews'
      BY <1>2, <2>1, PutTwoViews DEF IInv
    <2>3. fs' \in [Partition -> Contents]
      BY <1>2, <2>1, PutReaches DEF IInv
    <2>4. TypeOK'
      BY <1>2, <2>3 DEF IInv, TypeOK, Go, Visible, NewNumbers, Mounted, kind, mounts
    <2>5. Reached'
      BY <1>2 DEF IInv, Reached, Mkfs, Go, Running, At, Early, Unsure, Unfilled,
                  NewNumbers, Visible, kind
    <2>6. UNCHANGED <<fw, same, kview, ours, RootNo, EspNo>> /\ At(s) /\ table = "new"
      BY <1>2 DEF kind, mounts, RootNo, EspNo, Mkfs, At, IInv, Reached, Early
    <2>7. Pristine'
      BY <1>2, <2>6 DEF Pristine
    <2>8. \A m \in Number : Holds(m)' = IF m = n THEN "blank" ELSE Holds(m)
      BY <1>2, <2>1, <2>6, PutReaches DEF IInv, TypeOK, Holds
    <2>9. Made'
      <3>1. RootNo \in Number /\ EspNo \in Number /\ RootNo # DataNo /\ (fw = "uefi" => RootNo # EspNo)
        BY NumbersNew DEF IInv, RootNo, DataNo, EspNo
      <3>2. step' = next /\ ours' = ours /\ fw' = fw
        BY <1>2, <2>6 DEF Go
      <3>3. CASE s = "mkroot"
        BY <1>2, <2>6, <2>8, <3>1, <3>2, <3>3 DEF IInv, Made, Mounted, At
      <3>4. CASE s = "mkdata"
        BY <2>6, <2>8, <3>1, <3>2, <3>4 DEF IInv, Made, At
      <3>5. CASE s = "mkesp"
        BY <2>6, <2>8, <3>1, <3>2, <3>5 DEF IInv, Made, Reached, At
      <3> QED
        BY <3>3, <3>4, <3>5
    <2> QED
      BY <2>2, <2>4, <2>5, <2>7, <2>9 DEF IInv
  <1> QED
    BY <1>1, <1>2 DEF Mkfs

LEMMA MountTargetIInv ==
    ASSUME IInv,
           NEW s, NEW n, NEW next,
           \/ s = "mount" /\ n = RootNo
                /\ next = (IF fw = "uefi" THEN "mountesp" ELSE "copy")
           \/ s = "mountesp" /\ n = EspNo /\ next = "copy",
           MountTarget(s, n, next)
    PROVE  IInv'
  <1>1. CASE Die
    BY <1>1, DieIInv DEF MountTarget, At, Running
  <1>2. CASE /\ ours' = ours \cup {n} /\ Go(next)
             /\ UNCHANGED <<kind, disk, others, held, busy>>
    <2>1. n \in Visible
      BY NumbersNew DEF IInv, Reached, MountTarget, At, Unsure, Early
    <2>2. TwoViews'
      BY <1>2 DEF IInv, TwoViews, kind, disk
    <2>3. TypeOK'
      BY <1>2, <2>1 DEF IInv, TypeOK, Go, Visible, NewNumbers, Mounted, kind, disk
    <2>4. Reached'
      BY <1>2 DEF IInv, Reached, MountTarget, Go, Running, At, Early, Unsure,
                  Unfilled, NewNumbers, Visible, RootNo, EspNo, kind, disk
    <2>5. UNCHANGED <<fw, fs, kview, table, dirty, RootNo, EspNo>>
      BY <1>2 DEF kind, disk, RootNo, EspNo
    <2>6. Pristine'
      BY <2>5 DEF IInv, Pristine
    <2>7. Made'
      BY <1>2, <2>5 DEF IInv, Made, Reached, MountTarget, Go, At, Holds
    <2> QED
      BY <2>2, <2>3, <2>4, <2>6, <2>7 DEF IInv
  <1> QED
    BY <1>1, <1>2 DEF MountTarget

LEMMA FillIInv ==
    ASSUME IInv, NEW n \in ours, NEW content \in Contents,
           NEW s \in {"copy", "configure", "grubesp", "grub", "seed"},
           NEW next \in {"configure", "grubesp", "grub", "seed", "verify"},
           next = "grubesp" => fw = "uefi",
           Fill(s, n, content, next)
    PROVE  IInv'
  <1>1. CASE Die
    BY <1>1, DieIInv DEF Fill, At, Running
  <1>2. CASE /\ Put(n, content) /\ dirty' = dirty \cup {n} /\ Go(next)
             /\ UNCHANGED <<kind, table, kview, mounts>>
    <2>1. n \in Visible /\ n \in Number
      BY NumbersNew DEF IInv, TypeOK
    <2>2. TwoViews'
      BY <1>2, <2>1, PutTwoViews DEF IInv
    <2>3. fs' \in [Partition -> Contents]
      BY <1>2, <2>1, PutReaches DEF IInv
    <2>4. TypeOK'
      BY <1>2, <2>3 DEF IInv, TypeOK, Go, Visible, NewNumbers, Mounted, kind, mounts
    <2>5. Reached'
      BY <1>2 DEF IInv, Reached, Fill, Go, Running, At, Early, Unsure, Unfilled,
                  NewNumbers, Visible, RootNo, EspNo, kind, mounts
    <2>6. UNCHANGED <<fw, table, ours, RootNo, EspNo>> /\ table = "new"
      BY <1>2 DEF kind, mounts, RootNo, EspNo, Fill, At, IInv, Reached, Early
    <2>7. Pristine' /\ Made'
      BY <1>2, <2>6 DEF IInv, Pristine, Made, Go, At
    <2> QED
      BY <2>2, <2>4, <2>5, <2>7 DEF IInv
  <1> QED
    BY <1>1, <1>2 DEF Fill

\* The verification is what step and verdict later stand for.
LEMMA VerifyIInv ==
    ASSUME IInv, Verify
    PROVE  IInv'
  <1>1. CASE Die
    BY <1>1, DieIInv DEF Verify, At, Running
  <1>2. CASE /\ Holds(RootNo) = "bootable"
             /\ fw = "uefi" => Holds(EspNo) = "bootable"
             /\ Go("sync") /\ UNCHANGED <<kind, disk, mounts>>
    <2>1. TypeOK'
      BY <1>2 DEF IInv, TypeOK, Go, Visible, NewNumbers, Mounted, kind, disk, mounts
    <2>2. TwoViews'
      BY <1>2 DEF IInv, TwoViews, kind, disk
    <2>3. SystemUnder(kview)'
      BY <1>2 DEF SystemUnder, Holds, RootNo, EspNo, kind, disk
    <2>4. Reached'
      BY <1>2, <2>3 DEF IInv, Reached, Verify, Go, Running, At, Early, Unsure,
                  Unfilled, NewNumbers, Visible, RootNo, EspNo, kind, disk, mounts
    <2>5. Pristine' /\ Made'
      BY <1>2, StaysMade DEF IInv, Made, Go, disk, mounts, kind, RootNo
    <2> QED
      BY <2>1, <2>2, <2>4, <2>5 DEF IInv
  <1> QED
    BY <1>1, <1>2 DEF Verify

LEMMA SyncIInv ==
    ASSUME IInv, Sync
    PROVE  IInv'
  <1>1. TypeOK'
    BY DEF IInv, TypeOK, Sync, Go, Visible, NewNumbers, Mounted, kind, mounts
  <1>2. TwoViews'
    BY DEF IInv, TwoViews, Sync, kind
  <1>3. SystemUnder(kview)'
    BY DEF IInv, Reached, Sync, At, SystemUnder, RootNo, EspNo, kind
  <1>4. Reached'
    BY <1>3 DEF IInv, Reached, Sync, Go, Running, At, Early, Unsure, Unfilled,
                NewNumbers, Visible, RootNo, EspNo, kind, mounts
  <1>5. Pristine' /\ Made'
    BY StaysMade DEF IInv, Made, Sync, Go, mounts, kind, RootNo
  <1> QED
    BY <1>1, <1>2, <1>4, <1>5 DEF IInv

LEMMA ReleaseIInv ==
    ASSUME IInv, Release
    PROVE  IInv'
  <1>1. TypeOK'
    BY DEF IInv, TypeOK, Release, CleanUp, Unmounted, Visible, NewNumbers, Mounted, kind
  <1>2. TwoViews'
    BY DEF IInv, TwoViews, Release, kind
  <1>3. Reached'
    BY DEF IInv, Reached, Release, CleanUp, Unmounted, Running, At, Early, Unsure, Unfilled,
           kind
  <1>4. Pristine' /\ Made'
    BY CleanUpNested, StaysMade DEF Release
  <1> QED
    BY <1>1, <1>2, <1>3, <1>4 DEF IInv

\* Every command of the script.
LEMMA ScriptIInv == IInv /\ Script => IInv'
  <1> SUFFICES ASSUME IInv, Script PROVE IInv'
    OBVIOUS
  <1>1. RootNo \in NewNumbers /\ DataNo \in NewNumbers /\ EspNo \in NewNumbers
    BY NumbersNew DEF IInv
  <1>2. At("copy") \/ At("configure") \/ At("grub") \/ At("seed") => RootNo \in ours
    BY DEF IInv, Reached, At, Unfilled, Unsure, Early
  <1>3. At("grubesp") => EspNo \in ours
    BY DEF IInv, Reached, At, Unfilled, Unsure, Early
  <1>4. ASSUME Mkfs("mkroot", RootNo, "mkdata") PROVE IInv'
    BY <1>1, <1>4, MkfsIInv
  <1>5. ASSUME Mkfs("mkdata", DataNo, IF fw = "uefi" THEN "mkesp" ELSE "mount")
        PROVE  IInv'
    <2> DEFINE next == IF fw = "uefi" THEN "mkesp" ELSE "mount"
    <2>1. next \in {"mkdata", "mkesp", "mount"}
      OBVIOUS
    <2> QED
      BY <1>1, <1>5, <2>1, MkfsIInv
  <1>6. ASSUME Mkfs("mkesp", EspNo, "mount") PROVE IInv'
    BY <1>1, <1>6, MkfsIInv
  <1>7. ASSUME \/ MountTarget("mount", RootNo,
                              IF fw = "uefi" THEN "mountesp" ELSE "copy")
               \/ MountTarget("mountesp", EspNo, "copy")
        PROVE  IInv'
    BY <1>7, MountTargetIInv
  <1>8. ASSUME Fill("copy", RootNo, "copied", "configure") PROVE IInv'
    BY <1>2, <1>8, FillIInv DEF Fill, Contents
  <1>9. ASSUME Fill("configure", RootNo, "configured",
                    IF fw = "uefi" THEN "grubesp" ELSE "grub")
        PROVE  IInv'
    <2> DEFINE next == IF fw = "uefi" THEN "grubesp" ELSE "grub"
    <2>1. /\ next \in {"configure", "grubesp", "grub", "seed", "verify"}
          /\ next = "grubesp" => fw = "uefi"
      OBVIOUS
    <2>2. RootNo \in ours /\ "configured" \in Contents
      BY <1>2, <1>9 DEF Fill, Contents
    <2> QED
      BY <1>9, <2>1, <2>2, FillIInv
  <1>10. ASSUME Fill("grubesp", EspNo, "bootable", "grub") PROVE IInv'
    BY <1>3, <1>10, FillIInv DEF Fill, Contents
  <1>11. ASSUME Fill("grub", RootNo, "bootable", "seed") PROVE IInv'
    BY <1>2, <1>11, FillIInv DEF Fill, Contents
  <1>12. ASSUME Fill("seed", RootNo, "bootable", "verify") PROVE IInv'
    BY <1>2, <1>12, FillIInv DEF Fill, Contents
  <1> QED
    BY <1>4, <1>5, <1>6, <1>7, <1>8, <1>9, <1>10, <1>11, <1>12, CheckIInv,
       UnmountIInv, WipeIInv, PartitioningIInv, RereadIInv, WaitReadyIInv,
       VerifyIInv, SyncIInv, ReleaseIInv
       DEF Script

\* The window, the users and the usbmount service change no content; only the
\* power cut does.
LEMMA TerminateIInv ==
    ASSUME IInv, Terminate \/ Again
    PROVE  IInv'
  <1>1. TypeOK'
    <2>1. CASE Terminate
      BY <2>1 DEF IInv, TypeOK, Terminate, Visible, NewNumbers, Mounted, kind, disk, mounts
    <2>2. CASE Again
      <3>1. runs' \in 1 .. MaxRuns
        BY <2>2, InstallerAssumption DEF IInv, TypeOK, Again
      <3> QED
        BY <2>2, <3>1 DEF IInv, TypeOK, Again, Visible, NewNumbers, Mounted, kind,
                          disk, mounts
    <2> QED
      BY <2>1, <2>2
  <1>2. TwoViews'
    BY DEF IInv, TwoViews, Terminate, Again, kind, disk
  <1>3. Reached'
    <2>1. CASE Terminate
      BY <2>1 DEF IInv, Reached, Terminate, Running, At, Early, Unsure, Unfilled,
                  kind, disk
    <2>2. CASE Again
      BY <2>2 DEF IInv, Reached, Again, Running, At, Early, Unsure, Unfilled
    <2> QED
      BY <2>1, <2>2
  <1>4. Pristine' /\ Made'
    BY StaysMade DEF IInv, Made, Terminate, Again, disk, mounts, kind, RootNo
  <1> QED
    BY <1>1, <1>2, <1>3, <1>4 DEF IInv

LEMMA OthersIInv ==
    ASSUME IInv, NEW n \in Number,
           MountElsewhere(n) \/ UnmountElsewhere(n) \/ Use(n) \/ Hold(n)
    PROVE  IInv'
  <1>1. /\ UNCHANGED <<kind, table, kview, fs, ours, script>>
        /\ dirty' \subseteq dirty
    BY DEF MountElsewhere, UnmountElsewhere, Use, Hold, Unmounted, disk
  <1>2. TypeOK'
    <2>1. CASE MountElsewhere(n)
      BY <2>1 DEF IInv, TypeOK, MountElsewhere, Visible, NewNumbers, Mounted, kind,
                  disk, script
    <2>2. CASE UnmountElsewhere(n)
      BY <2>2 DEF IInv, TypeOK, UnmountElsewhere, Unmounted, Visible, NewNumbers,
                  Mounted, kind, script
    <2>3. CASE Use(n)
      BY <2>3 DEF IInv, TypeOK, Use, Visible, NewNumbers, Mounted, kind, disk, script
    <2>4. CASE Hold(n)
      BY <2>4 DEF IInv, TypeOK, Hold, Visible, NewNumbers, Mounted, kind, disk, script
    <2> QED
      BY <2>1, <2>2, <2>3, <2>4
  <1>3. TwoViews'
    BY <1>1 DEF IInv, TwoViews, kind
  <1>4. Reached'
    BY <1>1 DEF IInv, Reached, Running, At, Early, Unsure, Unfilled, Visible,
                NewNumbers, SystemUnder, RootNo, EspNo, kind, script
  <1>5. Pristine' /\ Made'
    BY <1>1, StaysMade DEF IInv, Made, kind, script, RootNo
  <1> QED
    BY <1>2, <1>3, <1>4, <1>5 DEF IInv

LEMMA PowerLossIInv ==
    ASSUME IInv, PowerLoss
    PROVE  IInv'
  <1>1. PICK lost \in SUBSET dirty :
           fs' = [p \in Partition |-> IF \E n \in lost : p \in Sectors(n)
                                      THEN "blank" ELSE fs[p]]
    BY DEF PowerLoss
  <1>2. /\ step' = "off" /\ dirty' = {} /\ ours' = {} /\ others' = {}
        /\ held' = {} /\ busy' = {} /\ UNCHANGED <<kind, table, kview, verdict, runs>>
    BY DEF PowerLoss
  <1>3. TypeOK'
    <2>1. fs' \in [Partition -> Contents]
      BY <1>1 DEF IInv, TypeOK, Contents
    <2> QED
      BY <1>2, <2>1 DEF IInv, TypeOK, Visible, NewNumbers, Mounted, kind
  <1>4. lost \subseteq Number /\ same \subseteq Number
    BY <1>1, NumbersNew DEF IInv, TypeOK, Mounted, NewNumbers, Number
  <1>5. \A v \in {"old", "new"}, m \in Number :
           fs'[<<v, m>>] = IF m \in lost /\ (v = kview \/ m \in same)
                           THEN "blank" ELSE fs[<<v, m>>]
    <2> TAKE v \in {"old", "new"}, m \in Number
    <2>1. <<v, m>> \in Partition
      BY DEF Partition
    <2>2. (\E n \in lost : <<v, m>> \in Sectors(n))
            <=> m \in lost /\ (v = kview \/ m \in same)
      BY DEF Sectors
    <2> QED
      BY <1>1, <2>1, <2>2
  <1>6. TwoViews'
    <2>1. \A n \in same : fs'[<<"old", n>>] = fs'[<<"new", n>>]
      BY <1>4, <1>5 DEF IInv, TwoViews
    <2>2. kview = "old" =>
            \A n \in Number \ same : fs'[<<"new", n>>] \in {"none", "user"}
      BY <1>5 DEF IInv, TwoViews
    <2> QED
      BY <1>2, <2>1, <2>2 DEF TwoViews, kind
  <1>7. Reached'
    BY <1>2 DEF IInv, Reached, Running, At, Early, Unsure, Unfilled, kind
  <1>8. Pristine'
    <2>1. ASSUME table = "old" PROVE fs' = fs
      BY <1>1, <2>1 DEF IInv, Pristine, TypeOK
    <2> QED
      BY <1>2, <2>1 DEF IInv, Pristine
  <1>9. Made'
    BY <1>2 DEF Made, At
  <1> QED
    BY <1>3, <1>6, <1>7, <1>8, <1>9 DEF IInv

\* The invariant is inductive.
LEMMA StepIInv == IInv /\ [Next]_vars => IInv'
  <1> SUFFICES ASSUME IInv, [Next]_vars PROVE IInv'
    OBVIOUS
  <1>1. CASE Script
    BY <1>1, ScriptIInv
  <1>2. CASE Environment
    BY <1>2, TerminateIInv, OthersIInv, PowerLossIInv DEF Environment
  <1>3. CASE UNCHANGED vars
    <2>1. UNCHANGED <<fw, precious, old, same, table, kview, fs, dirty, ours, others,
                      held, busy, step, verdict, runs>>
      BY <1>3 DEF vars, kind, disk, mounts, script
    <2>2. TypeOK'
      BY <2>1 DEF IInv, TypeOK, Visible, NewNumbers, Mounted
    <2>3. TwoViews'
      BY <2>1 DEF IInv, TwoViews
    <2>4. Reached'
      BY <2>1 DEF IInv, Reached, Running, At, Early, Unsure, Unfilled, Visible,
                  NewNumbers, SystemUnder, RootNo, EspNo
    <2>5. Pristine' /\ Made'
      BY <2>1 DEF IInv, Pristine, Made, At, Holds, RootNo, EspNo
    <2> QED
      BY <2>2, <2>3, <2>4, <2>5 DEF IInv
  <1> QED
    BY <1>1, <1>2, <1>3 DEF Next

LEMMA IInvHolds == Spec => []IInv
  BY InitIInv, StepIInv, PTL DEF Spec

-----------------------------------------------------------------------------
(* The theorems                                                            *)

\* The type invariant: in particular what is mounted is always visible to the
\* kernel, which is why it must not read the table again while in use.
THEOREM TypeCorrect == Spec => []TypeOK
  <1>1. IInv => TypeOK
    BY DEF IInv
  <1> QED
    BY <1>1, IInvHolds, PTL

\* The target mounts lie on nothing that an earlier attempt left mounted, and on
\* file systems the attempt itself has made.
THEOREM TargetsAreFresh == Spec => []TargetIsFresh
  <1>1. ASSUME IInv PROVE TargetIsFresh
    BY <1>1 DEF IInv, Made, TargetIsFresh, At
  <1> QED
    BY <1>1, IInvHolds, PTL

-----------------------------------------------------------------------------
(* The script implements DiskFate                                          *)

AbsVars == <<precious, Fate, verdict>>

Written == {"misplaced", "installed"}

\* A step of an attempt under way that keeps both tables only completes or
\* undoes.
LEMMA WriteRefines ==
    ASSUME IInv, IInv', UNCHANGED <<kind, table, kview>>,
           verdict = "none", verdict' = "none"
    PROVE  [Abstract!Next]_AbsVars
  <1>1. \/ Fate' = Fate
        \/ Fate = "torn" /\ Fate' \in Written
        \/ Fate \in Written /\ Fate' = "torn"
    BY FateMoves DEF IInv, Written
  <1>2. precious' = precious
    BY DEF kind
  <1> QED
    BY <1>1, <1>2 DEF AbsVars, Written, Abstract!Next, Abstract!Complete,
                      Abstract!Undo, Abstract!Written

\* Nothing that leaves tables and contents alone changes the fate.
LEMMA FateStays ==
    ASSUME UNCHANGED <<kind, table, kview, fs>>
    PROVE  Fate' = Fate /\ precious' = precious
  <1>1. UNCHANGED <<fw, precious, table, kview, fs>>
    BY DEF kind
  <1>2. SystemUnder("new")' = SystemUnder("new")
    BY <1>1 DEF SystemUnder, RootNo, EspNo
  <1>3. SystemUnder("old")' = SystemUnder("old")
    BY <1>1 DEF SystemUnder, RootNo, EspNo
  <1> QED
    BY <1>1, <1>2, <1>3 DEF Fate

\* An attempt that ends without success gives up, whatever the disk holds.
LEMMA DieRefines ==
    ASSUME IInv, Running, Die
    PROVE  [Abstract!Next]_AbsVars
  <1>1. Fate' = Fate /\ precious' = precious
    BY FateStays DEF Die
  <1>2. verdict = "none" /\ verdict' = "failed"
    BY DEF IInv, Reached, Die
  <1> QED
    BY <1>1, <1>2 DEF Abstract!Next, Abstract!GiveUp

\* The commands that only move the script on.
LEMMA MoveRefines ==
    ASSUME IInv, Check \/ Unmount \/ WaitReady \/ Verify \/ Sync
    PROVE  [Abstract!Next]_AbsVars
  <1>1. CASE Die
    <2>1. Running
      BY DEF Check, Unmount, WaitReady, Verify, Sync, At, Running
    <2> QED
      BY <1>1, <2>1, DieRefines
  <1>2. CASE ~Die
    <2>1. UNCHANGED <<kind, table, kview, fs, verdict>>
      BY <1>2 DEF Check, Unmount, WaitReady, Verify, Sync, Go, disk
    <2>2. Fate' = Fate /\ precious' = precious
      BY <2>1, FateStays
    <2> QED
      BY <2>1, <2>2 DEF AbsVars
  <1> QED
    BY <1>1, <1>2

\* dd erases the table: Wipe, of a disk that holds nothing precious.  If it fails,
\* the disk stays as it is.
LEMMA WipeRefines ==
    ASSUME IInv, Wipe
    PROVE  [Abstract!Next]_AbsVars
  <1>1. ~precious /\ precious' = precious /\ verdict = "none" /\ verdict' = verdict
    BY DEF IInv, Reached, Wipe, Go, At, Running, kind
  <1>2. CASE table' = "zero"
    <2>1. Fate' = "torn"
      BY <1>2 DEF Fate
    <2> QED
      BY <1>1, <2>1 DEF Abstract!Next, Abstract!Wipe
  <1>3. CASE table' = table
    BY <1>1, <1>3, FateStays DEF Wipe, AbsVars
  <1> QED
    BY <1>2, <1>3 DEF Wipe

\* A new table takes effect, or not, over one that was there already: a misplaced
\* system is lost.
LEMMA NewTableRefines ==
    ASSUME TypeOK, verdict = "none", table = "new", table' = "new", kview' \in {kview, "new"},
           UNCHANGED <<kind, fs, verdict>>
    PROVE  [Abstract!Next]_AbsVars
  <1>1. SystemUnder("new")' = SystemUnder("new") /\ SystemUnder("old")' = SystemUnder("old")
    BY DEF SystemUnder, RootNo, EspNo, kind
  <1>2. precious' = precious
    BY DEF kind
  <1>3. CASE kview' = kview
    <2>1. Fate' = Fate
      BY <1>1, <1>3 DEF Fate
    <2> QED
      BY <1>2, <2>1 DEF AbsVars
  <1>4. CASE kview' = "new" /\ kview = "old"
    <2>1. Fate' = IF SystemUnder("new") THEN "installed" ELSE "torn"
      BY <1>1, <1>4 DEF Fate
    <2>2. Fate = (IF SystemUnder("new") THEN "installed"
                  ELSE IF SystemUnder("old") THEN "misplaced" ELSE "torn")
      BY <1>4 DEF Fate
    <2> QED
      BY <1>2, <2>1, <2>2 DEF AbsVars, Abstract!Next, Abstract!Undo, Abstract!Written
  <1> QED
    BY <1>3, <1>4 DEF TypeOK

\* sfdisk over an erased table, over that of an earlier attempt, or, where dd has
\* failed, over the disk's old one: then this is what tears it.
LEMMA PartitioningRefines ==
    ASSUME IInv, Partitioning
    PROVE  [Abstract!Next]_AbsVars
  <1>1. CASE Die
    BY <1>1, DieRefines DEF Partitioning, At, Running
  <1>2. CASE ~Die
    <2>1. /\ ~precious /\ precious' = precious /\ verdict = "none" /\ verdict' = verdict
          /\ table' = "new" /\ kview' \in {kview, "new"} /\ UNCHANGED <<kind, fs>>
      BY <1>2 DEF IInv, Reached, Partitioning, Go, At, Running, kind
    <2>2. CASE table = "zero"
      <3>1. Fate = "torn"
        BY <2>2 DEF Fate
      <3>2. Fate' \in Written \cup {"torn"}
        BY <2>1 DEF Fate, Written
      <3> QED
        BY <2>1, <3>1, <3>2 DEF AbsVars, Written, Abstract!Next, Abstract!Complete,
                                Abstract!Written
    <2>3. CASE table = "new"
      BY <2>1, <2>3, NewTableRefines DEF IInv
    <2>4. CASE table = "old"
      <3>1. RootNo \in Number /\ \A v \in {"old", "new"} : <<v, RootNo>> \in Partition
        BY NumbersNew DEF IInv, Partition
      <3>2. \A v \in {"old", "new"} : fs'[<<v, RootNo>>] # "bootable"
        BY <2>1, <2>4, <3>1 DEF IInv, Pristine
      <3>3. RootNo' = RootNo
        BY <2>1 DEF RootNo, kind
      <3>4. ~SystemUnder("new")' /\ ~SystemUnder("old")'
        BY <3>2, <3>3 DEF SystemUnder
      <3>5. Fate' = "torn"
        BY <2>1, <3>4 DEF Fate
      <3> QED
        BY <2>1, <3>5 DEF Abstract!Next, Abstract!Wipe
    <2> QED
      BY <2>2, <2>3, <2>4 DEF IInv, TypeOK
  <1> QED
    BY <1>1, <1>2

LEMMA RereadRefines ==
    ASSUME IInv, Reread
    PROVE  [Abstract!Next]_AbsVars
  <1>1. /\ verdict = "none" /\ table = "new" /\ table' = "new" /\ kview' \in {kview, "new"}
        /\ UNCHANGED <<kind, fs, verdict>>
    BY DEF IInv, Reached, Reread, Go, At, Running, Early
  <1> QED
    BY <1>1, NewTableRefines DEF IInv

\* mkfs, mount and the copying steps keep both tables.
LEMMA FillRefines ==
    ASSUME IInv, IInv', NEW s, NEW n, NEW next, NEW content,
           s \notin {"exited", "off"},
           Mkfs(s, n, next) \/ MountTarget(s, n, next) \/ Fill(s, n, content, next)
    PROVE  [Abstract!Next]_AbsVars
  <1>1. Running
    BY DEF Mkfs, MountTarget, Fill, At, Running
  <1>2. CASE Die
    BY <1>1, <1>2, DieRefines
  <1>3. CASE ~Die
    <2>1. verdict = "none"
      BY <1>1 DEF IInv, Reached
    <2>2. UNCHANGED <<kind, table, kview, verdict>>
      BY <1>3 DEF Mkfs, MountTarget, Fill, Go, disk
    <2> QED
      BY <2>1, <2>2, WriteRefines
  <1> QED
    BY <1>2, <1>3

\* Success is reported of a system that has been verified, by one of the views.
LEMMA ReleaseRefines ==
    ASSUME IInv, Release
    PROVE  [Abstract!Next]_AbsVars
  <1>1. Fate' = Fate /\ precious' = precious
    BY FateStays DEF Release
  <1>2. /\ verdict = "none" /\ verdict' = "ok"
        /\ table = "new" /\ SystemUnder(kview) /\ kview \in {"old", "new"}
    BY DEF IInv, TypeOK, Reached, Release, At, Running, Early
  <1>3. Fate \in Written
    BY <1>2 DEF Fate, Written
  <1> QED
    BY <1>1, <1>2, <1>3 DEF Written, Abstract!Next, Abstract!Report, Abstract!Written

\* A power cut may undo, but not what was reported: that has been synced.
LEMMA PowerLossRefines ==
    ASSUME IInv, IInv', PowerLoss
    PROVE  [Abstract!Next]_AbsVars
  <1>1. UNCHANGED <<kind, table, kview>> /\ verdict' = verdict /\ precious' = precious
    BY DEF PowerLoss, kind
  <1>2. CASE verdict = "ok"
    <2>1. dirty = {}
      BY <1>2 DEF IInv, Reached
    <2>2. fs' = fs
      BY <2>1 DEF PowerLoss, IInv, TypeOK
    <2>3. Fate' = Fate
      BY <1>1, <2>2, FateStays
    <2> QED
      BY <1>1, <2>3 DEF AbsVars
  <1>3. CASE verdict # "ok"
    <2>1. \/ Fate' = Fate
          \/ Fate = "torn" /\ Fate' \in Written
          \/ Fate \in Written /\ Fate' = "torn"
      BY <1>1, FateMoves DEF IInv, Written
    <2>2. Fate' \in Written => Fate \in Written
      <3>1. \A p \in Partition : fs'[p] = "bootable" => fs[p] = "bootable"
        BY DEF PowerLoss
      <3>2. RootNo \in Number /\ EspNo \in Number
        BY NumbersNew DEF IInv
      <3>3. \A v \in {"old", "new"} :
               <<v, RootNo>> \in Partition /\ <<v, EspNo>> \in Partition
        BY <3>2 DEF Partition
      <3>4. fw' = fw /\ RootNo' = RootNo /\ EspNo' = EspNo
        BY <1>1 DEF RootNo, EspNo, kind
      <3>5. SystemUnder("new")' => SystemUnder("new")
        BY <3>1, <3>3, <3>4 DEF SystemUnder
      <3>6. SystemUnder("old")' => SystemUnder("old")
        BY <3>1, <3>3, <3>4 DEF SystemUnder
      <3> QED
        BY <1>1, <3>5, <3>6 DEF Fate, Written
    <2> QED
      BY <1>1, <1>3, <2>1, <2>2 DEF AbsVars, Written, Abstract!Next, Abstract!Undo,
                                    Abstract!Written
  <1> QED
    BY <1>2, <1>3

\* SIGTERM ends an attempt, a new start begins one; the rest is nobody's.
LEMMA EnvironmentRefines ==
    ASSUME IInv, IInv', Environment
    PROVE  [Abstract!Next]_AbsVars
  <1>1. CASE PowerLoss
    BY <1>1, PowerLossRefines
  <1>2. CASE Terminate
    <2>1. Fate' = Fate /\ precious' = precious
      BY <1>2, FateStays DEF Terminate, disk
    <2>2. verdict = "none" /\ verdict' = "killed"
      BY <1>2 DEF IInv, Reached, Terminate
    <2> QED
      BY <2>1, <2>2 DEF Abstract!Next, Abstract!GiveUp
  <1>3. CASE Again
    <2>1. Fate' = Fate /\ precious' = precious
      BY <1>3, FateStays DEF Again, disk
    <2>2. verdict # "none" /\ verdict' = "none"
      BY <1>3 DEF IInv, Reached, Again
    <2> QED
      BY <2>1, <2>2 DEF Abstract!Next, Abstract!Retry
  <1>4. CASE \E n \in Number : MountElsewhere(n) \/ UnmountElsewhere(n)
                              \/ Use(n) \/ Hold(n)
    <2>1. UNCHANGED <<kind, table, kview, fs, verdict>>
      BY <1>4 DEF MountElsewhere, UnmountElsewhere, Use, Hold, disk, script
    <2>2. Fate' = Fate /\ precious' = precious
      BY <2>1, FateStays
    <2> QED
      BY <2>1, <2>2 DEF AbsVars
  <1> QED
    BY <1>1, <1>2, <1>3, <1>4 DEF Environment

LEMMA StepRefines == IInv /\ IInv' /\ [Next]_vars => [Abstract!Next]_AbsVars
  <1> SUFFICES ASSUME IInv, IInv', [Next]_vars PROVE [Abstract!Next]_AbsVars
    OBVIOUS
  <1>1. CASE Script
    <2>1. CASE Check \/ Unmount \/ WaitReady \/ Verify \/ Sync
      BY <2>1, MoveRefines
    <2>2. CASE Wipe \/ Partitioning \/ Reread \/ Release
      BY <2>2, WipeRefines, PartitioningRefines, RereadRefines, ReleaseRefines
    <2>3. CASE \/ Mkfs("mkroot", RootNo, "mkdata")
               \/ Mkfs("mkdata", DataNo, IF fw = "uefi" THEN "mkesp" ELSE "mount")
               \/ Mkfs("mkesp", EspNo, "mount")
      <3>1. CASE Mkfs("mkroot", RootNo, "mkdata")
        BY <3>1, FillRefines
      <3>2. CASE Mkfs("mkdata", DataNo, IF fw = "uefi" THEN "mkesp" ELSE "mount")
        BY <3>2, FillRefines
      <3>3. CASE Mkfs("mkesp", EspNo, "mount")
        BY <3>3, FillRefines
      <3> QED
        BY <2>3, <3>1, <3>2, <3>3
    <2>4. CASE \/ MountTarget("mount", RootNo, IF fw = "uefi" THEN "mountesp" ELSE "copy")
               \/ MountTarget("mountesp", EspNo, "copy")
      BY <2>4, FillRefines
    <2>5. CASE \/ Fill("copy", RootNo, "copied", "configure")
               \/ Fill("configure", RootNo, "configured",
                       IF fw = "uefi" THEN "grubesp" ELSE "grub")
               \/ Fill("grubesp", EspNo, "bootable", "grub")
               \/ Fill("grub", RootNo, "bootable", "seed")
               \/ Fill("seed", RootNo, "bootable", "verify")
      BY <2>5, FillRefines
    <2> QED
      BY <1>1, <2>1, <2>2, <2>3, <2>4, <2>5 DEF Script
  <1>2. CASE Environment
    BY <1>2, EnvironmentRefines
  <1>3. CASE UNCHANGED vars
    <2>1. UNCHANGED <<kind, table, kview, fs, verdict>>
      BY <1>3 DEF vars, disk, script
    <2> QED
      BY <2>1, FateStays DEF AbsVars
  <1> QED
    BY <1>1, <1>2, <1>3 DEF Next

\* The promise of DiskFate, whatever fails, whoever uses the disk meanwhile and
\* whenever the power goes.
THEOREM PromiseKept == Spec => KeepsItsPromise
  <1>1. Init => Abstract!Init
    BY DEF Init, Fate, Abstract!Init
  <1> QED
    BY <1>1, IInvHolds, StepRefines, PTL
       DEF Spec, KeepsItsPromise, Abstract!Spec, AbsVars
=============================================================================
