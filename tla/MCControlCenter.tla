-------------------------- MODULE MCControlCenter --------------------------
(* A small instance of ControlCenter: two addresses, so that what is typed *)
(* can differ from what the system has, and a pipe that a second line      *)
(* finds full.                                                             *)
EXTENDS ControlCenter

CONSTANTS a1, a2

MCAddr == {a1, a2}
=============================================================================
