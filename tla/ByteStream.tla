------------------------------ MODULE ByteStream ------------------------------
(***************************************************************************)
(* What src/flow.rs promises of one direction of a TCP connection: the     *)
(* bytes handed to the decoder are a contiguous run of the sender's        *)
(* stream, in order, and what was handed over is never revised.  A byte is *)
(* identified with its position in the stream (1, 2, ...).                 *)
(***************************************************************************)
EXTENDS Integers, Sequences

CONSTANT StreamLen      \* number of bytes the sender sends

VARIABLE delivered      \* the bytes handed over so far

Positions == 1..StreamLen

\* The stream bytes from+1 .. from+n.
Run(from, n) == [i \in 1..n |-> from + i]

Init == delivered = <<>>

\* A non-empty run is appended that continues the last byte handed over, or
\* starts anywhere when nothing was handed over yet (the capture may begin
\* in the middle of a connection).
Deliver ==
    \E from \in 0..StreamLen, n \in 1..StreamLen :
        /\ from + n <= StreamLen
        /\ delivered # <<>> => from = delivered[Len(delivered)]
        /\ delivered' = delivered \o Run(from, n)

Spec == Init /\ [][Deliver]_delivered
===============================================================================
