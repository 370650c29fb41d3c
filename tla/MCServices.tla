----------------------------- MODULE MCServices -----------------------------
(* A small instance of Services for TLC.  Services do not affect one       *)
(* another, so one name is enough; what matters is what the boot image     *)
(* knows of it and that two terminals may name it at the same time.        *)
EXTENDS Services

CONSTANTS sv, t1, t2, none

MCService == {sv}
MCActor == {t1, t2}

\* A name the user invents, one shipped but not enabled, one shipped enabled.
MCImages == {[defs |-> {}, link |-> {}],
             [defs |-> {sv}, link |-> {}],
             [defs |-> {sv}, link |-> {sv}]}
=============================================================================
