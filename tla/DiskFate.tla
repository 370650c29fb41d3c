------------------------------ MODULE DiskFate ------------------------------
(***************************************************************************)
(* What the installer promises about the disk it is given, whatever fails, *)
(* whoever mounts the disk meanwhile and whenever the power goes: the disk *)
(* is changed only if the running system does not keep its own data there; *)
(* it is called installed only when a system has been written to it; and a *)
(* system that was called installed is still there after a power cut.      *)
(* Its own data is what is mounted at /mnt/disk, the only thing the script *)
(* asks about; what else may depend on the disk it does not look at.       *)
(*                                                                         *)
(* The one thing the promise leaves open is where the system was written.  *)
(* When the disk was in use as its partition table was replaced, the       *)
(* running kernel goes on with the old table and the system may be         *)
(* misplaced: complete, but not where the new table says.                  *)
(***************************************************************************)

VARIABLES
    precious,   \* /mnt/disk, the running system's own data, is on the disk
    fate,       \* "intact", "torn", "misplaced" or "installed"
    verdict     \* of the current attempt: "none", "ok", "failed", "killed"

Written == {"misplaced", "installed"}

Init ==
    /\ precious \in BOOLEAN
    /\ fate = "intact"
    /\ verdict = "none"

\* The old partition table is erased.
Wipe ==
    /\ ~precious /\ verdict = "none"
    /\ fate' = "torn"
    /\ UNCHANGED <<precious, verdict>>

\* The last piece of the new system is written, or the new table is written
\* over one that an earlier attempt left.
Complete ==
    /\ fate = "torn" /\ verdict = "none"
    /\ fate' \in Written
    /\ UNCHANGED <<precious, verdict>>

Report ==
    /\ verdict = "none" /\ fate \in Written
    /\ verdict' = "ok"
    /\ UNCHANGED <<precious, fate>>

GiveUp ==
    /\ verdict = "none"
    /\ verdict' \in {"failed", "killed"}
    /\ UNCHANGED <<precious, fate>>

Retry ==
    /\ verdict # "none"
    /\ verdict' = "none"
    /\ UNCHANGED <<precious, fate>>

\* A power cut or another attempt may undo what was written, unless it has
\* just been reported.
Undo ==
    /\ fate \in Written /\ verdict # "ok"
    /\ fate' = "torn"
    /\ UNCHANGED <<precious, verdict>>

Next == Wipe \/ Complete \/ Report \/ GiveUp \/ Retry \/ Undo

Spec == Init /\ [][Next]_<<precious, fate, verdict>>
=============================================================================
