---------------------------- MODULE MCEvf2Open ----------------------------
(* A small instance of Evf2Open for TLC. *)
EXTENDS Evf2Open
=============================================================================
