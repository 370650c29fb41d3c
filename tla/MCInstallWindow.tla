--------------------------- MODULE MCInstallWindow ---------------------------
(* A small instance of InstallWindow: two disks to choose from, and pipes  *)
(* that fill up before the backend has written all it has to say.          *)
EXTENDS InstallWindow

CONSTANTS d1, d2

MCDisks == {d1, d2}
=============================================================================
