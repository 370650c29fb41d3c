------------------------------- MODULE MCRcomp -------------------------------
(* A small instance of Rcomp: two windows to begin with, with or without   *)
(* one between them that is never drawn, and a third still to be created.  *)
EXTENDS Rcomp

CONSTANTS a, b, c, h

MCWindows == {a, b, c, h}
MCHidden  == {h}
MCOrders  == {<<a, b>>, <<a, h, b>>}
=============================================================================
