------------------------------ MODULE MCRecording ------------------------------
(* Two producers, one of them hidden by the display filter. *)
EXTENDS Recording

CONSTANTS p1, p2

TwoProducers == {p1, p2}
OneHidden == {p2}
===============================================================================
