--------------------------- MODULE InstallSession ---------------------------
(***************************************************************************)
(* What the installer window promises its user: one attempt per window, a  *)
(* result that is the attempt's own and is given only once it has ended,   *)
(* and no attempt left running behind a window that is gone.               *)
(***************************************************************************)

VARIABLES
    open,     \* the window is there
    script,   \* the attempt: "none", "running", "ok", "failed" or "killed"
    said      \* the result shown: "nothing", "success" or "failure"

Init == ~open /\ script = "none" /\ said = "nothing"

Open ==
    /\ ~open
    /\ open' = TRUE /\ script' = "none" /\ said' = "nothing"

Start ==
    /\ open /\ script = "none" /\ said = "nothing"
    /\ script' = "running"
    /\ UNCHANGED <<open, said>>

End ==
    /\ script = "running"
    /\ script' \in {"ok", "failed"}
    /\ UNCHANGED <<open, said>>

\* An attempt that could not be started is a failure too.
Say ==
    /\ open /\ said = "nothing" /\ script # "running"
    /\ said' = IF script = "ok" THEN "success" ELSE "failure"
    /\ UNCHANGED <<open, script>>

Close ==
    /\ open
    /\ open' = FALSE
    /\ script' = IF script = "running" THEN "killed" ELSE script
    /\ UNCHANGED said

Next == Open \/ Start \/ End \/ Say \/ Close

Spec == Init /\ [][Next]_<<open, script, said>>
=============================================================================
