----------------------------- MODULE MCInstaller -----------------------------
(* A small instance of Installer: an empty disk, one with fewer partitions *)
(* than the new table and one with more than a BIOS installation creates.  *)
EXTENDS Installer

MCOldTables == {{}, {1}, {1, 2, 3}}
=============================================================================
