------------------------------ MODULE MCRtop ------------------------------
(* A small instance of Rtop: two pids and one more process than pids, so   *)
(* that a pid is used again.                                               *)
EXTENDS Rtop

CONSTANTS p1, p2

MCPid == {p1, p2}
=============================================================================
