--------------------------- MODULE ServicesProofs ---------------------------
(***************************************************************************)
(* Services, proved for any number of services, actors and boot images.    *)
(*                                                                         *)
(* TypeOK is inductive.  The promises are not: whether a command's last    *)
(* line is true depends on what its earlier calls did and on no other      *)
(* command having undone it, so Progress says how far a command in flight  *)
(* has got and Sole that a command that is alone really is.                *)
(***************************************************************************)
EXTENDS Services, TLAPS

USE DEF Tools, Steps, Words

-----------------------------------------------------------------------------
(* Type correctness                                                        *)

\* The first boot has the right shape.
LEMMA InitTypeOK == Init => TypeOK
BY ServicesAssumption DEF Init, TypeOK

LEMMA BootTypeOK ==
    ASSUME TypeOK, NEW disks \in [defs : SUBSET Service, link : SUBSET Service,
                                  marker : SUBSET Service],
           Boot(disks)
    PROVE  /\ kind' = kind /\ mounted' \in BOOLEAN
           /\ defs' \subseteq Service /\ link' \subseteq Service
           /\ marker' \subseteq Service /\ durable' = disks
           /\ supervised' = {} /\ running' = {}
           /\ pc' \in [Actor -> Steps]
           /\ job' \in [Actor -> Jobs \cup {NoJob}]
           /\ \A a \in Actor : pc'[a] = "idle"
           /\ alone' \in [Actor -> BOOLEAN]
BY ServicesAssumption DEF TypeOK, Boot, kind

LEMMA ConcludeType ==
    ASSUME TypeOK, NEW a \in Actor, pc[a] # "idle", NEW word \in Words,
           Conclude(a, word)
    PROVE  /\ kind' = kind /\ mounted' = mounted /\ vouched' = vouched
           /\ pc' \in [Actor -> Steps]
           /\ job' \in [Actor -> Jobs \cup {NoJob}]
           /\ \A b \in Actor : pc'[b] # "idle" => job'[b] \in Jobs
           /\ alone' \in [Actor -> BOOLEAN]
           /\ told' \in [Service -> Words]
<1>1. job[a].svc \in Service
  BY DEF TypeOK, Jobs
<1> QED
  BY <1>1 DEF Conclude, TypeOK, kind

LEMMA ProceedType ==
    ASSUME TypeOK, NEW a \in Actor, pc[a] # "idle", NEW step \in Steps,
           Proceed(a, step)
    PROVE  /\ kind' = kind /\ mounted' = mounted /\ vouched' = vouched
           /\ pc' \in [Actor -> Steps]
           /\ job' \in [Actor -> Jobs \cup {NoJob}]
           /\ \A b \in Actor : pc'[b] # "idle" => job'[b] \in Jobs
           /\ alone' \in [Actor -> BOOLEAN]
           /\ told' \in [Service -> Words]
BY DEF Proceed, TypeOK, kind

LEMMA StepTypeOK == TypeOK /\ [Next]_vars => TypeOK'
<1> SUFFICES ASSUME TypeOK, [Next]_vars PROVE TypeOK'
  OBVIOUS
<1> USE DEF TypeOK, files, procs, cmds, said, kind
<1>1. ASSUME NEW a \in Actor, NEW tool \in Tools,
             NEW op \in {"enable", "disable"}, NEW n \in Service,
             Begin(a, tool, op, n)
      PROVE  TypeOK'
  <2>1. [tool |-> tool, op |-> op, svc |-> n] \in Jobs
    BY DEF Jobs
  <2>2. alone' \in [Actor -> BOOLEAN]
    BY <1>1 DEF Begin
  <2>3. /\ pc' \in [Actor -> Steps]
        /\ job' \in [Actor -> Jobs \cup {NoJob}]
        /\ \A b \in Actor : pc'[b] # "idle" => job'[b] \in Jobs
    BY <1>1, <2>1 DEF Begin, Entry
  <2> QED
    BY <1>1, <2>2, <2>3 DEF Begin
<1>2. ASSUME NEW a \in Actor, CheckEnable(a) PROVE TypeOK'
  <2>1. pc[a] # "idle" /\ job[a] \in Jobs /\ job[a].svc \in Service
    BY <1>2 DEF CheckEnable, Jobs
  <2> QED
    BY <1>2, <2>1, ConcludeType, ProceedType DEF CheckEnable
<1>3. ASSUME NEW a \in Actor, MakeLink(a) PROVE TypeOK'
  <2>1. pc[a] # "idle" /\ job[a] \in Jobs /\ job[a].svc \in Service
    BY <1>3 DEF MakeLink, Jobs
  <2> QED
    BY <1>3, <2>1, ConcludeType, ProceedType DEF MakeLink
<1>4. ASSUME NEW a \in Actor, Mark(a) PROVE TypeOK'
  <2>1. pc[a] # "idle" /\ job[a] \in Jobs /\ job[a].svc \in Service
    BY <1>4 DEF Mark, Jobs
  <2> QED
    BY <1>4, <2>1, ConcludeType, ProceedType DEF Mark
<1>5. ASSUME NEW a \in Actor, Unmark(a) PROVE TypeOK'
  <2>1. pc[a] # "idle" /\ job[a] \in Jobs /\ job[a].svc \in Service
    BY <1>5 DEF Unmark, Jobs
  <2> QED
    BY <1>5, <2>1, ConcludeType, ProceedType DEF Unmark
<1>6. ASSUME NEW a \in Actor, CheckDisable(a) PROVE TypeOK'
  <2>1. pc[a] # "idle" /\ job[a] \in Jobs /\ job[a].svc \in Service
    BY <1>6 DEF CheckDisable, Jobs
  <2> QED
    BY <1>6, <2>1, ConcludeType, ProceedType DEF CheckDisable
<1>7. ASSUME NEW a \in Actor, StopService(a) PROVE TypeOK'
  <2>1. pc[a] # "idle" /\ job[a] \in Jobs /\ job[a].svc \in Service
    BY <1>7 DEF StopService, Jobs
  <2> QED
    BY <1>7, <2>1, ConcludeType, ProceedType DEF StopService
<1>8. ASSUME NEW a \in Actor, Unlink(a) PROVE TypeOK'
  <2>1. pc[a] # "idle" /\ job[a] \in Jobs /\ job[a].svc \in Service
    BY <1>8 DEF Unlink, Jobs
  <2> QED
    BY <1>8, <2>1, ConcludeType, ProceedType DEF Unlink
<1>9. ASSUME NEW a \in Actor, Interrupt(a) PROVE TypeOK'
  BY <1>9 DEF Interrupt
<1>10. ASSUME NEW a \in Actor, NEW n \in Service, Create(a, n) PROVE TypeOK'
  BY <1>10 DEF Create
<1>11. ASSUME NEW a \in Actor, NEW n \in Service,
              NEW action \in {"up", "down"}, Control(a, n, action)
       PROVE  TypeOK'
  BY <1>11 DEF Control
<1>12. CASE Scan
  BY <1>12 DEF Scan
<1>13. CASE Doctor
  BY <1>13 DEF Doctor
<1>14. CASE FlushData
  BY <1>14 DEF FlushData
<1>15. CASE FlushRoot
  BY <1>15 DEF FlushRoot
<1>16. CASE Reboot
  <2>1. Snapshot \in [defs : SUBSET Service, link : SUBSET Service,
                      marker : SUBSET Service]
    BY DEF Snapshot
  <2>2. Boot(Snapshot) /\ UNCHANGED said
    BY <1>16 DEF Reboot
  <2> HIDE DEF Steps, Words
  <2> QED
    BY <2>1, <2>2, BootTypeOK
<1>17. CASE PowerLoss
  BY <1>17, BootTypeOK DEF PowerLoss
<1>18. CASE UNCHANGED vars
  BY <1>18 DEF vars
<1> HIDE DEF TypeOK, files, procs, cmds, said, kind
<1> QED
  BY <1>1, <1>2, <1>3, <1>4, <1>5, <1>6, <1>7, <1>8, <1>9, <1>10, <1>11, <1>12,
     <1>13, <1>14, <1>15, <1>16, <1>17, <1>18
     DEF Next, Command, Machine

\* Every reachable state has the declared shape.
THEOREM TypeCorrect == Spec => []TypeOK
<1>1. QED
  BY InitTypeOK, StepTypeOK, PTL DEF Spec

-----------------------------------------------------------------------------
(* The promises                                                            *)

\* A job in flight names a service.
LEMMA JobInFlight ==
    ASSUME TypeOK, NEW a \in Actor, pc[a] # "idle"
    PROVE  job[a] \in Jobs /\ job[a].svc \in Service
BY DEF TypeOK, Jobs

LEMMA InitIInv == Init => IInv
BY InitTypeOK, ServicesAssumption
DEF Init, IInv, TypeOK, LinksResolve, Sole, Progress, Kept, KeptFor

\* What a step of one command leaves alone: other commands, and everything
\* about other services.
Frame(a) ==
    LET n == job[a].svc
    IN  /\ kind' = kind /\ mounted' = mounted /\ vouched' = vouched
        /\ defs' = defs /\ durable' = durable
        /\ \A b \in Actor \ {a} :
              pc'[b] = pc[b] /\ job'[b] = job[b] /\ alone'[b] = alone[b]
        /\ \A m \in Service \ {n} :
              /\ m \in link' <=> m \in link
              /\ m \in marker' <=> m \in marker
              /\ told'[m] = told[m]
        /\ ~alone[a] => told'[n] = told[n]
        /\ pc'[a] # "idle" => job'[a] = job[a] /\ told'[n] = told[n]
        /\ alone'[a] => alone[a] /\ pc'[a] # "idle"

\* Such a step keeps commands that are alone alone.
LEMMA FrameSole ==
    ASSUME IInv, NEW a \in Actor, pc[a] # "idle", Frame(a)
    PROVE  Sole'
<1> SUFFICES ASSUME NEW b \in Actor, NEW c \in Actor
             PROVE  /\ alone'[b] => pc'[b] # "idle"
                    /\ alone'[b] /\ pc'[c] # "idle" /\ job'[c].svc = job'[b].svc
                          => c = b
  BY DEF Sole
<1>1. /\ alone'[b] => alone[b] /\ pc'[b] # "idle"
      /\ pc'[b] # "idle" => job'[b] = job[b] /\ pc[b] # "idle"
      /\ pc'[c] # "idle" => job'[c] = job[c] /\ pc[c] # "idle"
  BY DEF Frame, IInv, Sole
<1> QED
  BY <1>1 DEF IInv, Sole

\* It leaves what other commands have established, and what was said of other
\* services.
LEMMA FrameOthers ==
    ASSUME IInv, NEW a \in Actor, pc[a] # "idle", Frame(a)
    PROVE  /\ \A b \in Actor \ {a} : pc'[b] # "idle" => Established(b)'
           /\ \A m \in Service \ {job[a].svc} : KeptFor(m)'
<1>1. ASSUME NEW b \in Actor \ {a}, pc'[b] # "idle" PROVE Established(b)'
  <2>1. /\ pc'[b] = pc[b] /\ job'[b] = job[b] /\ alone'[b] = alone[b]
        /\ pc[b] # "idle"
        /\ job[b].svc \in Service /\ job[a].svc \in Service
    BY <1>1, JobInFlight DEF Frame, IInv
  <2>2. Established(b)
    BY <2>1 DEF IInv, Progress
  <2>3. CASE job[b].svc = job[a].svc
    <3>1. ~alone[a] /\ ~alone[b]
      BY <2>1, <2>3 DEF IInv, Sole
    <3> QED
      BY <2>1, <2>2, <2>3, <3>1 DEF Established, Frame
  <2>4. CASE job[b].svc # job[a].svc
    BY <2>1, <2>2, <2>4 DEF Established, Frame
  <2> QED
    BY <2>3, <2>4
<1>2. ASSUME NEW m \in Service \ {job[a].svc} PROVE KeptFor(m)'
  BY DEF IInv, Kept, KeptFor, Frame, kind
<1> QED
  BY <1>1, <1>2

\* What remains to be shown of a step of one command.
LEMMA FrameIInv ==
    ASSUME IInv, TypeOK', NEW a \in Actor, pc[a] # "idle", Frame(a),
           NEW n \in Service, n = job[a].svc,
           LinksResolve', pc'[a] # "idle" => Established(a)', KeptFor(n)'
    PROVE  IInv'
<1>1. Sole'
  BY FrameSole
<1>2. /\ \A b \in Actor \ {a} : pc'[b] # "idle" => Established(b)'
      /\ \A m \in Service \ {job[a].svc} : KeptFor(m)'
  BY FrameOthers
<1>3. Progress'
  BY <1>2 DEF Progress
<1>4. Kept'
  BY <1>2 DEF Kept
<1> QED
  BY <1>1, <1>3, <1>4 DEF IInv

-----------------------------------------------------------------------------
(* One lemma per kind of step                                              *)

LEMMA BeginIInv ==
    ASSUME IInv, TypeOK', NEW a \in Actor, NEW tool \in Tools,
           NEW op \in {"enable", "disable"}, NEW n \in Service,
           Begin(a, tool, op, n)
    PROVE  IInv'
<1> USE DEF IInv, files, kind, procs
<1>1. LinksResolve'
  BY DEF Begin, LinksResolve
<1>2. Sole'
  <2> SUFFICES ASSUME NEW b \in Actor, NEW c \in Actor
               PROVE  /\ alone'[b] => pc'[b] # "idle"
                      /\ alone'[b] /\ pc'[c] # "idle" /\ job'[c].svc = job'[b].svc
                            => c = b
    BY DEF Sole
  <2>1. /\ pc'[a] # "idle" /\ job'[a].svc = n
        /\ alone'[a] = (InFlight(n) = {})
    BY DEF Begin, Entry, TypeOK
  <2>2. \A d \in Actor \ {a} : /\ pc'[d] = pc[d] /\ job'[d] = job[d]
                               /\ alone'[d] = (alone[d] /\ d \notin InFlight(n))
    BY DEF Begin, TypeOK
  <2>3. CASE b = a /\ c # a
    <3>1. ASSUME pc'[c] # "idle", job'[c].svc = n PROVE InFlight(n) # {}
      <4>1. c \in InFlight(n)
        BY <2>2, <2>3, <3>1 DEF InFlight
      <4> QED
        BY <4>1
    <3> QED
      BY <2>1, <2>3, <3>1
  <2>4. CASE b # a /\ c = a
    <3>1. alone[b] /\ alone'[b] => job[b].svc # n
      BY <2>2, <2>4 DEF Sole, InFlight
    <3> QED
      BY <2>1, <2>2, <2>4, <3>1 DEF Sole
  <2>5. CASE b # a /\ c # a
    BY <2>2, <2>5 DEF Sole
  <2> QED
    BY <2>1, <2>3, <2>4, <2>5
<1>3. Progress'
  <2> SUFFICES ASSUME NEW b \in Actor, pc'[b] # "idle" PROVE Established(b)'
    BY DEF Progress
  <2>1. told'[n] = "nothing" /\ n \notin vouched'
    BY DEF Begin, TypeOK
  <2>2. CASE b = a
    <3>1. /\ pc'[a] = Entry(tool, op) /\ job'[a].svc = n
          /\ job'[a].op = op /\ job'[a].tool = tool
      BY DEF Begin, TypeOK
    <3> QED
      BY <2>1, <2>2, <3>1 DEF Established, Entry
  <2>3. CASE b # a
    <3>1. /\ pc'[b] = pc[b] /\ job'[b] = job[b]
          /\ alone'[b] => alone[b]
          /\ \A m \in Service : told'[m] # told[m] => told'[m] = "nothing"
          /\ vouched' \subseteq vouched /\ mounted' = mounted
          /\ link' = link /\ marker' = marker /\ defs' = defs
      BY <2>3 DEF Begin, TypeOK
    <3>2. Established(b) /\ job[b].svc \in Service
      BY <2>3, <3>1, JobInFlight DEF Progress
    <3> QED
      BY <3>1, <3>2 DEF Established
  <2> QED
    BY <2>2, <2>3
<1>4. Kept'
  <2> SUFFICES ASSUME NEW m \in Service PROVE KeptFor(m)'
    BY DEF Kept
  <2>1. /\ told'[m] # told[m] => told'[m] = "nothing"
        /\ vouched' \subseteq vouched /\ mounted' = mounted
        /\ link' = link /\ marker' = marker /\ defs' = defs
        /\ mode' = mode /\ image' = image
    BY DEF Begin, TypeOK
  <2>2. KeptFor(m)
    BY DEF Kept
  <2> QED
    BY <2>1, <2>2 DEF KeptFor
<1> QED
  BY <1>1, <1>2, <1>3, <1>4

\* A command ends: what it says must be true when it was alone.
LEMMA ConcludeIInv ==
    ASSUME IInv, TypeOK', LinksResolve', NEW a \in Actor, pc[a] # "idle",
           NEW n \in Service, n = job[a].svc, NEW word \in Words,
           Conclude(a, word), defs' = defs, durable' = durable,
           \A m \in Service \ {n} : /\ m \in link' <=> m \in link
                                    /\ m \in marker' <=> m \in marker,
           alone[a] /\ mounted =>
              /\ word = "enabled" => n \in marker' /\ n \in link'
              /\ word \in {"disabled", "not enabled"} =>
                    n \notin marker' /\ n \notin link'
    PROVE  IInv'
<1>1. TypeOK /\ Established(a)
  BY DEF IInv, Progress
<1>0. /\ pc \in [Actor -> Steps] /\ job \in [Actor -> Jobs \cup {NoJob}]
      /\ alone \in [Actor -> BOOLEAN] /\ told \in [Service -> Words]
  BY <1>1 DEF TypeOK
<1>2. /\ kind' = kind /\ mounted' = mounted /\ vouched' = vouched
      /\ pc'[a] = "idle" /\ alone'[a] = FALSE
      /\ \A b \in Actor \ {a} :
            pc'[b] = pc[b] /\ job'[b] = job[b] /\ alone'[b] = alone[b]
      /\ \A m \in Service \ {n} : told'[m] = told[m]
      /\ alone[a] /\ mounted => told'[n] = word
      /\ ~(alone[a] /\ mounted) => told'[n] = told[n]
  <2>1. /\ pc' = [pc EXCEPT ![a] = "idle"]
        /\ job' = [job EXCEPT ![a] = NoJob]
        /\ alone' = [alone EXCEPT ![a] = FALSE]
        /\ UNCHANGED <<kind, mounted, vouched>>
    BY DEF Conclude
  <2>2. /\ alone[a] /\ mounted => told' = [told EXCEPT ![n] = word]
        /\ ~(alone[a] /\ mounted) => told' = told
    BY DEF Conclude
  <2> QED
    BY <1>0, <2>1, <2>2
<1>3. Frame(a)
  BY <1>2 DEF Frame
<1>4. told[n] = "nothing" /\ n \notin vouched
  BY <1>1 DEF Established
<1>5. KeptFor(n)'
  BY <1>2, <1>4 DEF KeptFor
<1> QED
  BY <1>2, <1>3, <1>5, FrameIInv

\* A command goes on to its next step: what the step relies on must be true.
LEMMA ProceedIInv ==
    ASSUME IInv, TypeOK', LinksResolve', NEW a \in Actor, pc[a] # "idle",
           NEW n \in Service, n = job[a].svc, NEW step \in Steps \ {"idle"},
           Proceed(a, step), defs' = defs, durable' = durable,
           \A m \in Service \ {n} : /\ m \in link' <=> m \in link
                                    /\ m \in marker' <=> m \in marker,
           Established(a)'
    PROVE  IInv'
<1>1. TypeOK /\ Established(a)
  BY DEF IInv, Progress
<1>2. /\ kind' = kind /\ mounted' = mounted /\ vouched' = vouched
      /\ pc'[a] = step /\ job' = job /\ alone' = alone /\ told' = told
      /\ \A b \in Actor \ {a} : pc'[b] = pc[b]
  BY <1>1 DEF Proceed, TypeOK, kind
<1>3. Frame(a)
  BY <1>2 DEF Frame, IInv, Sole
<1>4. KeptFor(n)'
  BY <1>1, <1>2 DEF Established, KeptFor
<1> QED
  BY <1>3, <1>4, FrameIInv

LEMMA CheckEnableIInv ==
    ASSUME IInv, TypeOK', NEW a \in Actor, CheckEnable(a)
    PROVE  IInv'
<1> USE DEF files, procs
<1>1. pc[a] # "idle" /\ job[a] \in Jobs /\ job[a].svc \in Service
  BY JobInFlight DEF CheckEnable, IInv
<1>2. SUFFICES ASSUME NEW n \in Service, n = job[a].svc PROVE IInv'
  BY <1>1
<1>3. TypeOK /\ LinksResolve /\ Established(a) /\ KeptFor(n)
  BY <1>1 DEF IInv, Progress, Kept
<1>4. /\ defs' = defs /\ durable' = durable
      /\ \A m \in Service \ {n} : /\ m \in link' <=> m \in link
                                  /\ m \in marker' <=> m \in marker
  BY <1>2 DEF CheckEnable
<1>5. LinksResolve'
  BY <1>2, <1>3, <1>4 DEF CheckEnable, LinksResolve, Established
<1>6. pc[a] = "check" /\ job[a].op = "enable"
  BY <1>2, <1>3 DEF CheckEnable, Established
<1>7. CASE n \notin defs
  <2>1. Conclude(a, "nothing")
    BY <1>2, <1>6, <1>7 DEF CheckEnable
  <2>2. alone[a] /\ mounted =>
           /\ "nothing" = "enabled" => n \in marker' /\ n \in link'
           /\ "nothing" \in {"disabled", "not enabled"} =>
                 n \notin marker' /\ n \notin link'
    BY <1>2, <1>3, <1>6, <1>7 DEF CheckEnable, Established
  <2> QED
    BY <1>1, <1>2, <1>4, <1>5, <2>1, <2>2, ConcludeIInv
<1>8. CASE n \in defs /\ n \in link
  <2>1. Conclude(a, "already")
    BY <1>2, <1>6, <1>8 DEF CheckEnable
  <2>2. alone[a] /\ mounted =>
           /\ "already" = "enabled" => n \in marker' /\ n \in link'
           /\ "already" \in {"disabled", "not enabled"} =>
                 n \notin marker' /\ n \notin link'
    BY <1>2, <1>3, <1>6, <1>8 DEF CheckEnable, Established
  <2> QED
    BY <1>1, <1>2, <1>4, <1>5, <2>1, <2>2, ConcludeIInv
<1>9. CASE n \in defs /\ n \notin link
  <2>1. Proceed(a, "link")
    BY <1>2, <1>6, <1>9 DEF CheckEnable
  <2>2. Established(a)'
    BY <1>2, <1>3, <1>6, <1>9, <2>1 DEF CheckEnable, Established, Proceed
  <2> QED
    BY <1>1, <1>2, <1>4, <1>5, <2>1, <2>2, ProceedIInv
<1> QED
  BY <1>1, <1>6, <1>7, <1>8, <1>9 DEF CheckEnable, Jobs

LEMMA MakeLinkIInv ==
    ASSUME IInv, TypeOK', NEW a \in Actor, MakeLink(a)
    PROVE  IInv'
<1> USE DEF files, procs
<1>1. pc[a] # "idle" /\ job[a] \in Jobs /\ job[a].svc \in Service
  BY JobInFlight DEF MakeLink, IInv
<1>2. SUFFICES ASSUME NEW n \in Service, n = job[a].svc PROVE IInv'
  BY <1>1
<1>3. TypeOK /\ LinksResolve /\ Established(a) /\ KeptFor(n)
  BY <1>1 DEF IInv, Progress, Kept
<1>4. /\ defs' = defs /\ durable' = durable
      /\ \A m \in Service \ {n} : /\ m \in link' <=> m \in link
                                  /\ m \in marker' <=> m \in marker
  BY <1>2 DEF MakeLink
<1>5. LinksResolve'
  BY <1>2, <1>3, <1>4 DEF MakeLink, LinksResolve, Established
<1>6. pc[a] = "link"
  BY <1>2, <1>3 DEF MakeLink, Established
<1>7. CASE job[a].tool = "gui" /\ n \in link
  <2>1. Conclude(a, "nothing")
    BY <1>2, <1>6, <1>7 DEF MakeLink
  <2>2. alone[a] /\ mounted =>
           /\ "nothing" = "enabled" => n \in marker' /\ n \in link'
           /\ "nothing" \in {"disabled", "not enabled"} =>
                 n \notin marker' /\ n \notin link'
    BY <1>2, <1>3, <1>6, <1>7 DEF MakeLink, Established
  <2> QED
    BY <1>1, <1>2, <1>4, <1>5, <2>1, <2>2, ConcludeIInv
<1>8. CASE ~(job[a].tool = "gui" /\ n \in link)
  <2>1. Proceed(a, "mark")
    BY <1>2, <1>6, <1>8 DEF MakeLink
  <2>2. Established(a)'
    BY <1>2, <1>3, <1>6, <1>8, <2>1 DEF MakeLink, Established, Proceed
  <2> QED
    BY <1>1, <1>2, <1>4, <1>5, <2>1, <2>2, ProceedIInv
<1> QED
  BY <1>1, <1>6, <1>7, <1>8 DEF MakeLink, Jobs

LEMMA MarkIInv ==
    ASSUME IInv, TypeOK', NEW a \in Actor, Mark(a)
    PROVE  IInv'
<1> USE DEF files, procs
<1>1. pc[a] # "idle" /\ job[a] \in Jobs /\ job[a].svc \in Service
  BY JobInFlight DEF Mark, IInv
<1>2. SUFFICES ASSUME NEW n \in Service, n = job[a].svc PROVE IInv'
  BY <1>1
<1>3. TypeOK /\ LinksResolve /\ Established(a) /\ KeptFor(n)
  BY <1>1 DEF IInv, Progress, Kept
<1>4. /\ defs' = defs /\ durable' = durable
      /\ \A m \in Service \ {n} : /\ m \in link' <=> m \in link
                                  /\ m \in marker' <=> m \in marker
  BY <1>2 DEF Mark
<1>5. LinksResolve'
  BY <1>2, <1>3, <1>4 DEF Mark, LinksResolve, Established
<1>6. pc[a] = "mark"
  BY <1>2, <1>3 DEF Mark, Established
<1>7. CASE TRUE
  <2>1. Conclude(a, "enabled")
    BY <1>2, <1>6, <1>7 DEF Mark
  <2>2. alone[a] /\ mounted =>
           /\ "enabled" = "enabled" => n \in marker' /\ n \in link'
           /\ "enabled" \in {"disabled", "not enabled"} =>
                 n \notin marker' /\ n \notin link'
    BY <1>2, <1>3, <1>6, <1>7 DEF Mark, Established
  <2> QED
    BY <1>1, <1>2, <1>4, <1>5, <2>1, <2>2, ConcludeIInv
<1> QED
  BY <1>1, <1>6, <1>7 DEF Mark, Jobs

LEMMA UnmarkIInv ==
    ASSUME IInv, TypeOK', NEW a \in Actor, Unmark(a)
    PROVE  IInv'
<1> USE DEF files, procs
<1>1. pc[a] # "idle" /\ job[a] \in Jobs /\ job[a].svc \in Service
  BY JobInFlight DEF Unmark, IInv
<1>2. SUFFICES ASSUME NEW n \in Service, n = job[a].svc PROVE IInv'
  BY <1>1
<1>3. TypeOK /\ LinksResolve /\ Established(a) /\ KeptFor(n)
  BY <1>1 DEF IInv, Progress, Kept
<1>4. /\ defs' = defs /\ durable' = durable
      /\ \A m \in Service \ {n} : /\ m \in link' <=> m \in link
                                  /\ m \in marker' <=> m \in marker
  BY <1>2 DEF Unmark
<1>5. LinksResolve'
  BY <1>2, <1>3, <1>4 DEF Unmark, LinksResolve, Established
<1>6. pc[a] = "unmark" /\ job[a].op = "disable"
  BY <1>2, <1>3 DEF Unmark, Established
<1>7. CASE job[a].tool = "systemctl"
  <2>1. Conclude(a, "disabled")
    BY <1>2, <1>6, <1>7 DEF Unmark
  <2>2. alone[a] /\ mounted =>
           /\ "disabled" = "enabled" => n \in marker' /\ n \in link'
           /\ "disabled" \in {"disabled", "not enabled"} =>
                 n \notin marker' /\ n \notin link'
    BY <1>2, <1>3, <1>6, <1>7 DEF Unmark, Established
  <2> QED
    BY <1>1, <1>2, <1>4, <1>5, <2>1, <2>2, ConcludeIInv
<1>8. CASE job[a].tool # "systemctl"
  <2>1. Proceed(a, "check")
    BY <1>2, <1>6, <1>8 DEF Unmark
  <2>2. Established(a)'
    BY <1>2, <1>3, <1>6, <1>8, <2>1 DEF Unmark, Established, Proceed
  <2> QED
    BY <1>1, <1>2, <1>4, <1>5, <2>1, <2>2, ProceedIInv
<1> QED
  BY <1>1, <1>6, <1>7, <1>8 DEF Unmark, Jobs

LEMMA CheckDisableIInv ==
    ASSUME IInv, TypeOK', NEW a \in Actor, CheckDisable(a)
    PROVE  IInv'
<1> USE DEF files, procs
<1>1. pc[a] # "idle" /\ job[a] \in Jobs /\ job[a].svc \in Service
  BY JobInFlight DEF CheckDisable, IInv
<1>2. SUFFICES ASSUME NEW n \in Service, n = job[a].svc PROVE IInv'
  BY <1>1
<1>3. TypeOK /\ LinksResolve /\ Established(a) /\ KeptFor(n)
  BY <1>1 DEF IInv, Progress, Kept
<1>4. /\ defs' = defs /\ durable' = durable
      /\ \A m \in Service \ {n} : /\ m \in link' <=> m \in link
                                  /\ m \in marker' <=> m \in marker
  BY <1>2 DEF CheckDisable
<1>5. LinksResolve'
  BY <1>2, <1>3, <1>4 DEF CheckDisable, LinksResolve, Established
<1>6. pc[a] = "check" /\ job[a].op = "disable"
  BY <1>2, <1>3 DEF CheckDisable, Established
<1>7. CASE n \notin link /\ job[a].tool = "systemctl"
  <2>1. Conclude(a, "no link")
    BY <1>2, <1>6, <1>7 DEF CheckDisable
  <2>2. alone[a] /\ mounted =>
           /\ "no link" = "enabled" => n \in marker' /\ n \in link'
           /\ "no link" \in {"disabled", "not enabled"} =>
                 n \notin marker' /\ n \notin link'
    BY <1>2, <1>3, <1>6, <1>7 DEF CheckDisable, Established
  <2> QED
    BY <1>1, <1>2, <1>4, <1>5, <2>1, <2>2, ConcludeIInv
<1>8. CASE n \notin link /\ job[a].tool # "systemctl"
  <2>1. Conclude(a, "not enabled")
    BY <1>2, <1>6, <1>8 DEF CheckDisable
  <2>2. alone[a] /\ mounted =>
           /\ "not enabled" = "enabled" => n \in marker' /\ n \in link'
           /\ "not enabled" \in {"disabled", "not enabled"} =>
                 n \notin marker' /\ n \notin link'
    BY <1>2, <1>3, <1>6, <1>8 DEF CheckDisable, Established
  <2> QED
    BY <1>1, <1>2, <1>4, <1>5, <2>1, <2>2, ConcludeIInv
<1>9. CASE n \in link /\ job[a].tool = "systemctl"
  <2>1. Proceed(a, "unlink")
    BY <1>2, <1>6, <1>9 DEF CheckDisable
  <2>2. Established(a)'
    <3>1. link' = link /\ marker' = marker /\ defs' = defs
      BY DEF CheckDisable
    <3> QED
      BY <1>1, <1>2, <1>3, <1>6, <1>9, <2>1, <3>1 DEF Established, Proceed, TypeOK
  <2> QED
    BY <1>1, <1>2, <1>4, <1>5, <2>1, <2>2, ProceedIInv
<1>10. CASE n \in link /\ job[a].tool # "systemctl"
  <2>1. Proceed(a, "stop")
    BY <1>2, <1>6, <1>10 DEF CheckDisable
  <2>2. Established(a)'
    <3>1. link' = link /\ marker' = marker /\ defs' = defs
      BY DEF CheckDisable
    <3> QED
      BY <1>1, <1>2, <1>3, <1>6, <1>10, <2>1, <3>1 DEF Established, Proceed, TypeOK
  <2> QED
    BY <1>1, <1>2, <1>4, <1>5, <2>1, <2>2, ProceedIInv
<1> QED
  BY <1>1, <1>6, <1>7, <1>8, <1>9, <1>10 DEF CheckDisable, Jobs

LEMMA StopServiceIInv ==
    ASSUME IInv, TypeOK', NEW a \in Actor, StopService(a)
    PROVE  IInv'
<1> USE DEF files, procs
<1>1. pc[a] # "idle" /\ job[a] \in Jobs /\ job[a].svc \in Service
  BY JobInFlight DEF StopService, IInv
<1>2. SUFFICES ASSUME NEW n \in Service, n = job[a].svc PROVE IInv'
  BY <1>1
<1>3. TypeOK /\ LinksResolve /\ Established(a) /\ KeptFor(n)
  BY <1>1 DEF IInv, Progress, Kept
<1>4. /\ defs' = defs /\ durable' = durable
      /\ \A m \in Service \ {n} : /\ m \in link' <=> m \in link
                                  /\ m \in marker' <=> m \in marker
  BY <1>2 DEF StopService
<1>5. LinksResolve'
  BY <1>2, <1>3, <1>4 DEF StopService, LinksResolve, Established
<1>6. pc[a] = "stop"
  BY <1>2, <1>3 DEF StopService, Established
<1>7. CASE TRUE
  <2>1. Proceed(a, "unlink")
    BY <1>2, <1>6, <1>7 DEF StopService
  <2>2. Established(a)'
    BY <1>2, <1>3, <1>6, <1>7, <2>1 DEF StopService, Established, Proceed
  <2> QED
    BY <1>1, <1>2, <1>4, <1>5, <2>1, <2>2, ProceedIInv
<1> QED
  BY <1>1, <1>6, <1>7 DEF StopService, Jobs

LEMMA UnlinkIInv ==
    ASSUME IInv, TypeOK', NEW a \in Actor, Unlink(a)
    PROVE  IInv'
<1> USE DEF files, procs
<1>1. pc[a] # "idle" /\ job[a] \in Jobs /\ job[a].svc \in Service
  BY JobInFlight DEF Unlink, IInv
<1>2. SUFFICES ASSUME NEW n \in Service, n = job[a].svc PROVE IInv'
  BY <1>1
<1>3. TypeOK /\ LinksResolve /\ Established(a) /\ KeptFor(n)
  BY <1>1 DEF IInv, Progress, Kept
<1>4. /\ defs' = defs /\ durable' = durable
      /\ \A m \in Service \ {n} : /\ m \in link' <=> m \in link
                                  /\ m \in marker' <=> m \in marker
  BY <1>2 DEF Unlink
<1>5. LinksResolve'
  BY <1>2, <1>3, <1>4 DEF Unlink, LinksResolve, Established
<1>6. pc[a] = "unlink" /\ job[a].op = "disable"
  BY <1>2, <1>3 DEF Unlink, Established
<1>7. CASE job[a].tool = "systemctl"
  <2>1. Proceed(a, "unmark")
    BY <1>2, <1>6, <1>7 DEF Unlink
  <2>2. Established(a)'
    BY <1>2, <1>3, <1>6, <1>7, <2>1 DEF Unlink, Established, Proceed
  <2> QED
    BY <1>1, <1>2, <1>4, <1>5, <2>1, <2>2, ProceedIInv
<1>8. CASE job[a].tool = "gui" /\ n \notin link
  <2>1. Conclude(a, "nothing")
    BY <1>2, <1>6, <1>8 DEF Unlink
  <2>2. alone[a] /\ mounted =>
           /\ "nothing" = "enabled" => n \in marker' /\ n \in link'
           /\ "nothing" \in {"disabled", "not enabled"} =>
                 n \notin marker' /\ n \notin link'
    BY <1>2, <1>3, <1>6, <1>8 DEF Unlink, Established
  <2> QED
    BY <1>1, <1>2, <1>4, <1>5, <2>1, <2>2, ConcludeIInv
<1>9. CASE job[a].tool # "systemctl" /\ ~(job[a].tool = "gui" /\ n \notin link)
  <2>1. Conclude(a, "disabled")
    BY <1>2, <1>6, <1>9 DEF Unlink
  <2>2. alone[a] /\ mounted =>
           /\ "disabled" = "enabled" => n \in marker' /\ n \in link'
           /\ "disabled" \in {"disabled", "not enabled"} =>
                 n \notin marker' /\ n \notin link'
    BY <1>2, <1>3, <1>6, <1>9 DEF Unlink, Established
  <2> QED
    BY <1>1, <1>2, <1>4, <1>5, <2>1, <2>2, ConcludeIInv
<1> QED
  BY <1>1, <1>6, <1>7, <1>8, <1>9 DEF Unlink, Jobs

LEMMA InterruptIInv ==
    ASSUME IInv, TypeOK', NEW a \in Actor, Interrupt(a)
    PROVE  IInv'
<1> USE DEF files, procs, said, kind
<1>1. pc[a] # "idle" /\ job[a].svc \in Service
  BY JobInFlight DEF Interrupt, IInv
<1>2. SUFFICES ASSUME NEW n \in Service, n = job[a].svc PROVE IInv'
  BY <1>1
<1>3. TypeOK /\ LinksResolve /\ KeptFor(n)
  BY DEF IInv, Kept
<1>4. Frame(a)
  BY <1>3 DEF Interrupt, Frame, TypeOK
<1>5. LinksResolve' /\ KeptFor(n)' /\ pc'[a] = "idle"
  BY <1>3 DEF Interrupt, LinksResolve, KeptFor, TypeOK
<1> QED
  BY <1>1, <1>2, <1>4, <1>5, FrameIInv

\* Steps that leave the files of enabled services and the commands alone.
LEMMA QuietIInv ==
    ASSUME IInv, TypeOK', LinksResolve',
           UNCHANGED <<kind, mounted, cmds>>,
           defs \subseteq defs', link' = link, marker' = marker,
           \A m \in Service :
              \/ told'[m] = told[m] /\ (m \in vouched' => m \in vouched)
                    /\ (m \in defs' => m \in defs)
              \/ told'[m] = "nothing" /\ m \notin vouched'
    PROVE  IInv'
<1> USE DEF IInv, cmds, kind
<1>1. Sole'
  BY DEF Sole
<1>2. ASSUME NEW b \in Actor, pc'[b] # "idle" PROVE Established(b)'
  <2>1. pc[b] # "idle" /\ Established(b) /\ job[b].svc \in Service
    BY <1>2, JobInFlight DEF Progress
  <2> QED
    BY <2>1 DEF Established
<1>3. ASSUME NEW m \in Service PROVE KeptFor(m)'
  <2>1. KeptFor(m)
    BY DEF Kept
  <2> QED
    BY <2>1 DEF KeptFor
<1> QED
  BY <1>1, <1>2, <1>3 DEF Progress, Kept

LEMMA DoctorIInv ==
    ASSUME IInv, TypeOK', Doctor
    PROVE  IInv'
<1> USE DEF IInv, files, cmds, kind
<1>1. LinksResolve' /\ Sole'
  BY DEF Doctor, LinksResolve, Sole
<1>2. ASSUME NEW b \in Actor, pc'[b] # "idle" PROVE Established(b)'
  <2>1. Established(b) /\ b \in InFlight(job[b].svc)
    BY <1>2 DEF Progress, Doctor, InFlight
  <2> QED
    BY <2>1 DEF Established, Doctor
<1>3. ASSUME NEW m \in Service PROVE KeptFor(m)'
  <2>1. KeptFor(m)
    BY DEF Kept
  <2> QED
    BY <2>1 DEF KeptFor, Doctor
<1> QED
  BY <1>1, <1>2, <1>3 DEF Progress, Kept

\* A boot ends every command; what was said survives where the disk holds
\* what memory held.
LEMMA BootIInv ==
    ASSUME IInv, TypeOK', NEW disks, Boot(disks),
           disks.link \subseteq disks.defs,
           \A m \in Service :
              \/ told'[m] = "nothing" /\ m \notin vouched'
              \/ /\ told'[m] = told[m] /\ (m \in vouched' => m \in vouched)
                 /\ m \in disks.marker <=> m \in marker
                 /\ mode = "disk" =>
                       /\ m \in disks.link <=> m \in link
                       /\ m \in disks.defs <=> m \in defs
    PROVE  IInv'
<1> USE DEF IInv
<1>1. /\ mode' = mode /\ image' = image /\ mode \in Modes
      /\ image.link \subseteq image.defs
      /\ \A b \in Actor : pc'[b] = "idle" /\ alone'[b] = FALSE
  BY ServicesAssumption DEF Boot, kind, TypeOK
<1>2. LinksResolve'
  BY <1>1 DEF Boot, LinksResolve
<1>3. Sole' /\ Progress'
  BY <1>1 DEF Sole, Progress
<1>4. ASSUME NEW m \in Service PROVE KeptFor(m)'
  <2>1. KeptFor(m)
    BY DEF Kept
  <2>2. mode \in {"live", "disk"}
    BY <1>1, ServicesAssumption
  <2>3. CASE told'[m] = "nothing" /\ m \notin vouched'
    BY <2>3 DEF KeptFor
  <2>4. CASE /\ told'[m] = told[m] /\ (m \in vouched' => m \in vouched)
             /\ m \in disks.marker <=> m \in marker
             /\ mode = "disk" =>
                   /\ m \in disks.link <=> m \in link
                   /\ m \in disks.defs <=> m \in defs
    <3>1. told[m] = "enabled" \/ m \in vouched => m \in marker
      BY <2>1 DEF KeptFor
    <3>2. told[m] \in {"disabled", "not enabled"} =>
             m \notin marker /\ (m \in link => mode = "live" /\ m \in image.link)
      BY <2>1 DEF KeptFor
    <3> QED
      BY <1>1, <2>2, <2>4, <3>1, <3>2 DEF KeptFor, Boot
  <2> QED
    BY <2>3, <2>4
<1> QED
  BY <1>2, <1>3, <1>4 DEF Kept

-----------------------------------------------------------------------------

LEMMA StepIInv == IInv /\ [Next]_vars => IInv'
<1> SUFFICES ASSUME IInv, [Next]_vars PROVE IInv'
  OBVIOUS
<1>0. TypeOK /\ TypeOK' /\ LinksResolve
  BY StepTypeOK DEF IInv
<1>1. ASSUME NEW a \in Actor, NEW tool \in Tools,
             NEW op \in {"enable", "disable"}, NEW n \in Service,
             Begin(a, tool, op, n)
      PROVE  IInv'
  BY <1>0, <1>1, BeginIInv
<1>2. ASSUME NEW a \in Actor,
             \/ CheckEnable(a) \/ MakeLink(a) \/ Mark(a) \/ Unmark(a)
             \/ CheckDisable(a) \/ StopService(a) \/ Unlink(a) \/ Interrupt(a)
      PROVE  IInv'
  BY <1>0, <1>2, CheckEnableIInv, MakeLinkIInv, MarkIInv, UnmarkIInv,
     CheckDisableIInv, StopServiceIInv, UnlinkIInv, InterruptIInv
<1>3. ASSUME NEW a \in Actor, NEW n \in Service, Create(a, n) PROVE IInv'
  <2>1. LinksResolve' /\ defs \subseteq defs'
    BY <1>0, <1>3 DEF Create, LinksResolve
  <2> QED
    BY <1>0, <1>3, <2>1, QuietIInv DEF Create, TypeOK
<1>4. ASSUME NEW a \in Actor, NEW n \in Service,
             NEW action \in {"up", "down"}, Control(a, n, action)
      PROVE  IInv'
  BY <1>0, <1>4, QuietIInv DEF Control, LinksResolve, files, said
<1>5. CASE Scan
  BY <1>0, <1>5, QuietIInv DEF Scan, LinksResolve, files, said
<1>6. CASE Doctor
  BY <1>0, <1>6, DoctorIInv
<1>7. CASE FlushData
  BY <1>0, <1>7, QuietIInv DEF FlushData, LinksResolve, said, TypeOK
<1>8. CASE FlushRoot
  BY <1>0, <1>8, QuietIInv DEF FlushRoot, LinksResolve, said, TypeOK
<1>9. CASE Reboot
  <2>1. Boot(Snapshot) /\ UNCHANGED said
    BY <1>9 DEF Reboot
  <2>2. /\ Snapshot.link \subseteq Snapshot.defs
        /\ Snapshot.link = link /\ Snapshot.defs = defs
        /\ Snapshot.marker = marker
    BY <1>0 DEF Snapshot, LinksResolve
  <2> QED
    BY <1>0, <2>1, <2>2, BootIInv DEF said
<1>10. CASE PowerLoss
  <2>1. Boot(durable)
    BY <1>10 DEF PowerLoss
  <2>2. durable.link \subseteq durable.defs
    BY <1>0 DEF LinksResolve
  <2>3. ASSUME NEW m \in Service
        PROVE  \/ told'[m] = "nothing" /\ m \notin vouched'
               \/ /\ told'[m] = told[m] /\ (m \in vouched' => m \in vouched)
                  /\ m \in durable.marker <=> m \in marker
                  /\ mode = "disk" =>
                        /\ m \in durable.link <=> m \in link
                        /\ m \in durable.defs <=> m \in defs
    <3>1. CASE Unsynced(m)
      BY <1>10, <3>1 DEF PowerLoss
    <3>2. CASE ~Unsynced(m)
      BY <1>10, <3>2 DEF PowerLoss, Unsynced
    <3> QED
      BY <3>1, <3>2
  <2> QED
    BY <1>0, <2>1, <2>2, <2>3, BootIInv
<1>11. CASE UNCHANGED vars
  BY <1>0, <1>11, QuietIInv DEF vars, files, procs, cmds, said, LinksResolve
<1> QED
  BY <1>1, <1>2, <1>3, <1>4, <1>5, <1>6, <1>7, <1>8, <1>9, <1>10, <1>11
  DEF Next, Command, Machine

LEMMA IInvHolds == Spec => []IInv
<1>1. QED
  BY InitIInv, StepIInv, PTL DEF Spec

\* No link ever dangles, so [ -e link ] asks whether the link is there.
THEOREM LinksAlwaysResolve == Spec => []LinksResolve
<1>1. IInv => LinksResolve
  BY DEF IInv
<1> QED
  BY <1>1, IInvHolds, PTL

\* "Enabled service" stays true across every later boot that finds the disk.
THEOREM EnabledIsKept == Spec => []EnabledComesBack
<1>1. IInv => EnabledComesBack
  BY DEF IInv, Kept, KeptFor, EnabledComesBack
<1> QED
  BY <1>1, IInvHolds, PTL

\* "Disabled", and "not enabled" from rsv and rsv-gui, stay true likewise.
THEOREM DisabledIsKept == Spec => []DisabledStaysAway
<1>1. IInv => DisabledStaysAway
  BY DEF IInv, Kept, KeptFor, DisabledStaysAway
<1> QED
  BY <1>1, IInvHolds, PTL

\* rezzdoctor's all-clear is kept where the service directories are.
THEOREM VouchedIsKept == Spec => []VouchedComesBack
<1>1. IInv => VouchedComesBack
  BY DEF IInv, TypeOK, Kept, KeptFor, VouchedComesBack
<1> QED
  BY <1>1, IInvHolds, PTL
=============================================================================
