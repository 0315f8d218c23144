---------------------------- MODULE MCConnRegistry ----------------------------
(* A small instance of ConnRegistry for TLC. *)
EXTENDS ConnRegistry
===============================================================================
