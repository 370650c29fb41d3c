------------------------------ MODULE SwapFile ------------------------------
(***************************************************************************)
(* The swap file on the data disk: the tool swap, and what a boot, an      *)
(* orderly shutdown and a hibernation do with it.  The disk mounted at     *)
(* /mnt/disk is a parameter, m; DataDisk, which knows the disks, composes  *)
(* these actions with its own.                                             *)
(*                                                                         *)
(* create is three commands (dd, mkswap, swapon), each of which may fail,  *)
(* and it can be interrupted between two of them; no boot passes           *)
(* resume_offset, so a hibernation image is never read and only makes the  *)
(* file unfit for swapon.                                                  *)
(***************************************************************************)
EXTENDS FiniteSets

CONSTANTS
    Disk,       \* disks with an ext4 file system
    NoDisk      \* nothing is mounted

ASSUME SwapFileAssumption == NoDisk \notin Disk

VARIABLES
    swap,       \* each disk's swapfile: none, zeros (no signature), ready, image
    active,     \* the mounted disk's swapfile is in /proc/swaps
    making,     \* what a running create does next: "none", "mkswap", "swapon"
    promised    \* history: disks whose swap file was said to be activated, and
                \* neither removed nor written over by a hibernation since

swapVars == <<swap, active, making, promised>>

States == {"none", "zeros", "ready", "image"}

\* swapon succeeds on a file with a swap signature that is not active yet.
CanSwapOn(m) == m \in Disk /\ swap[m] = "ready" /\ ~active

\* create's checks, and dd; a failing dd may leave no file or a shorter one.
CreateSwap(m) ==
    /\ m \in Disk /\ swap[m] = "none" /\ making = "none"
    /\ swap' = [swap EXCEPT ![m] = "zeros"]
    /\ making' = "mkswap"
    /\ UNCHANGED <<active, promised>>

\* Its status is not looked at; a file that is too short gets no signature.
MakeSwap(m) ==
    /\ making = "mkswap"
    /\ \/ m \in Disk /\ swap[m] = "zeros" /\ swap' = [swap EXCEPT ![m] = "ready"]
       \/ UNCHANGED swap
    /\ making' = "swapon"
    /\ UNCHANGED <<active, promised>>

\* Mutant of SwapOn: success is reported in any case.
SwapOnSaysYes(m) ==
    /\ m \in Disk
    /\ making' = "none"
    /\ active' = (active \/ swap[m] = "ready")
    /\ promised' = promised \cup {m}
    /\ UNCHANGED swap

\* create's last step, or `swap on`: only a successful swapon is a success.
SwapOn(m) ==
    /\ m \in Disk
    /\ making' = "none"
    /\ active' = (active \/ CanSwapOn(m))
    /\ promised' = promised \cup (IF CanSwapOn(m) THEN {m} ELSE {})
    /\ UNCHANGED swap

FinishCreate(m) == making = "swapon" /\ SwapOn(m)

EnableSwap(m) == making = "none" /\ m \in Disk /\ swap[m] # "none" /\ SwapOn(m)

InterruptCreate ==
    /\ making # "none"
    /\ making' = "none"
    /\ UNCHANGED <<swap, active, promised>>

\* swapoff fails when memory could not take what is swapped out.
DisableSwap ==
    /\ active
    /\ active' = FALSE
    /\ UNCHANGED <<swap, making, promised>>

\* remove ignores a failing swapoff; the kernel then refuses to unlink the
\* file and only the message is wrong.
RemoveSwap(m) ==
    /\ m \in Disk /\ swap[m] # "none"
    /\ active' = FALSE
    /\ swap' = [swap EXCEPT ![m] = "none"]
    /\ promised' = promised \ {m}
    /\ UNCHANGED making

\* The image replaces the swap signature, the machine goes off, and memory is
\* lost with everything that was under way.
HibernateSwap(m) ==
    /\ m \in Disk /\ (active \/ CanSwapOn(m))
    /\ swap' = [swap EXCEPT ![m] = "image"]
    /\ active' = FALSE /\ making' = "none"
    /\ promised' = promised \ {m}

\* No support for it, or the kernel refuses: suspended instead, and the swap
\* file that was activated for it stays on.
SuspendInstead(m) ==
    /\ CanSwapOn(m)
    /\ active' = TRUE
    /\ UNCHANGED <<swap, making, promised>>

\* Mutant of SwapStops: swapoff -a is forgotten.
SwapStays == making' = "none" /\ UNCHANGED <<active, swap>>

\* The machine goes off in another way: swapoff -a, or no time for it.
SwapStops == active' = FALSE /\ making' = "none" /\ UNCHANGED swap

\* Mutant of BootSwap: as if the file were only used on live systems.
BootSwapLive(live, m) ==
    /\ active' = (live /\ m \in Disk /\ swap[m] = "ready")
    /\ UNCHANGED <<swap, making, promised>>

\* init, in both modes: swapon of the swapfile on what is mounted now.
BootSwap(live, m) ==
    /\ active' = (m \in Disk /\ swap[m] = "ready")
    /\ UNCHANGED <<swap, making, promised>>
=============================================================================
