----------------------------- MODULE MCArchiver -----------------------------
(* Instances of Archiver for TLC. *)
EXTENDS Archiver
=============================================================================
