--------------------------- MODULE MCEvf1Writer ---------------------------
(* A small instance of Evf1Writer for TLC. *)
EXTENDS Evf1Writer
=============================================================================
