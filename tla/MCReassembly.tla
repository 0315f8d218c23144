----------------------------- MODULE MCReassembly -----------------------------
(* Small instances of Reassembly for TLC. *)
EXTENDS Reassembly

\* Every way to cut the stream into segments, overlaps included.
AnySegments ==
    {s \in [off : Offsets, len : 1..StreamLen] : s.off + s.len <= StreamLen}

\* One segmentation of a stream of 8 bytes: retransmissions repeat a segment as
\* it was first sent, or the first two in one.
AlignedSegments ==
    {[off |-> 0, len |-> 3]} \cup
    {[off |-> 0, len |-> 1], [off |-> 1, len |-> 2], [off |-> 3, len |-> 1],
     [off |-> 4, len |-> 3], [off |-> 7, len |-> 1]}
===============================================================================
