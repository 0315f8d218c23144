------------------------------ MODULE MCCounters ------------------------------
(* A small instance of Counters for TLC. *)
EXTENDS Counters

OneBatch == {[msgs |-> 1, bytes |-> 3]}
===============================================================================
