---------------------------- MODULE MCEvf1Open ----------------------------
(* A small instance of Evf1Open for TLC. *)
EXTENDS Evf1Open
=============================================================================
