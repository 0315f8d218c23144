------------------------------ MODULE Reassembly ------------------------------
(***************************************************************************)
(* TCP reassembly of one direction: Direction::feed of src/flow.rs, fed by *)
(* a capture that sees the sender's segments in any order, any number of   *)
(* times, and cut at any of the boundaries in Segments.                    *)
(*                                                                         *)
(* A byte is its position in the sender's stream, so that rxbuf shows      *)
(* which bytes reached the decoder and in which order.  Sequence numbers   *)
(* are u32 in the code; here they are modulo SeqMod.                       *)
(***************************************************************************)
EXTENDS Integers, Sequences, FiniteSets

CONSTANTS
    SeqMod,     \* size of the sequence space (2^32 in the code)
    Isn,        \* sequence number of the sender's SYN
    StreamLen,  \* bytes the sender sends
    Segments,   \* the data segments on the wire: records [off, len]
    Window,     \* how far the sender may be ahead of, or repeat bytes behind, the acknowledged
    LateSyn,    \* TRUE: the capture may show the SYN after data
    SynData     \* the payload lengths the SYN may carry ({0}: no fast open)

Offsets == 0..StreamLen
SeqNums == 0..(SeqMod - 1)
NoSeq   == -1

ASSUME SeqSpaceAssumption ==
    /\ SeqMod \in Nat /\ SeqMod > 1 /\ SeqMod % 2 = 0
    /\ Isn \in SeqNums
    /\ StreamLen \in Nat /\ Window \in Nat
ASSUME SegmentsAssumption ==
    /\ \A s \in Segments :
          /\ s.off \in Offsets /\ s.len \in 1..StreamLen
          /\ s.off + s.len <= StreamLen
    /\ LateSyn \in BOOLEAN
    /\ SynData \subseteq Offsets

VARIABLES
    next_seq,   \* Direction.next_seq: NoSeq is None
    ooo,        \* Direction.ooo: start sequence number -> bytes
    rxbuf,      \* Direction.rxbuf, never consumed here: all bytes ever appended
    adv,        \* the local `adv` of the drain loop; NoSeq when feed is not running
    captured,   \* history: the stream positions the capture has shown
    syn_seen    \* history: whether the SYN was shown

vars == <<next_seq, ooo, rxbuf, adv, captured, syn_seen>>

-----------------------------------------------------------------------------
(* Wrapping u32 arithmetic.                                                *)

\* u32::wrapping_add.
WrappingAdd(a, b) == (a + b) % SeqMod

\* `seq.wrapping_sub(next) as i32`: the signed distance from `from` to `to`.
Diff(to, from) ==
    LET d == IF to >= from THEN to - from ELSE to - from + SeqMod
    IN  IF d < SeqMod \div 2 THEN d ELSE d - SeqMod

\* The sequence number of the byte at position off + 1.
SeqOf(off) == WrappingAdd(Isn, 1 + off)

\* The payload of n bytes that follows the first off bytes of the stream.
Payload(off, n) == [i \in 1..n |-> off + i]

-----------------------------------------------------------------------------
(* Direction::feed                                                         *)

\* BTreeMap::insert: a later segment with the same start replaces the earlier.
Insert(map, key, bytes) ==
    [k \in DOMAIN map \cup {key} |-> IF k = key THEN bytes ELSE map[k]]

\* BTreeMap::remove.
Remove(map, key) == [k \in DOMAIN map \ {key} |-> map[k]]

\* next_seq once the SYN and the mid-connection anchor are accounted for.
Anchored(seq, syn) ==
    IF syn THEN WrappingAdd(seq, 1)
    ELSE IF next_seq = NoSeq THEN seq ELSE next_seq

\* diff > 0: the segment is ahead of what can be delivered.
BufferAhead(seq, next, data) ==
    /\ Diff(seq, next) > 0
    /\ ooo' = Insert(ooo, seq, data)
    /\ UNCHANGED <<rxbuf, adv>>

\* diff < 0 and every byte was delivered before.
DropOld(seq, next, data) ==
    /\ Diff(seq, next) <= 0
    /\ -Diff(seq, next) >= Len(data)
    /\ UNCHANGED <<ooo, rxbuf, adv>>

\* Mutant: a partial retransmission is appended untrimmed.
AppendUntrimmed(seq, next, data) ==
    /\ Diff(seq, next) <= 0
    /\ -Diff(seq, next) < Len(data)
    /\ rxbuf' = rxbuf \o data
    /\ adv' = WrappingAdd(seq, Len(data))
    /\ UNCHANGED ooo

\* The bytes from `next` on are appended; the drain loop starts at their end.
AppendInOrder(seq, next, data) ==
    LET skip  == -Diff(seq, next)
        chunk == SubSeq(data, skip + 1, Len(data))
    IN  /\ Diff(seq, next) <= 0
        /\ skip < Len(data)
        /\ rxbuf' = rxbuf \o chunk
        /\ adv' = WrappingAdd(WrappingAdd(seq, skip), Len(chunk))
        /\ UNCHANGED ooo

\* feed up to its drain loop, for a segment with payload.
FeedData(seq, syn, data) ==
    LET next == Anchored(seq, syn)
    IN  /\ next_seq' = next
        /\ \/ BufferAhead(seq, next, data)
           \/ DropOld(seq, next, data)
           \/ AppendInOrder(seq, next, data)

\* feed of a SYN without payload.
FeedSyn(seq) ==
    /\ next_seq' = WrappingAdd(seq, 1)
    /\ UNCHANGED <<ooo, rxbuf, adv>>

\* Mutant: `if let` for `while let`: at most one buffered segment is taken.
DrainAtMostOne ==
    /\ adv # NoSeq
    /\ adv \in DOMAIN ooo
    /\ rxbuf' = rxbuf \o ooo[adv]
    /\ next_seq' = WrappingAdd(adv, Len(ooo[adv]))
    /\ adv' = NoSeq
    /\ ooo' = Remove(ooo, adv)
    /\ UNCHANGED <<captured, syn_seen>>

\* One iteration of `while let Some(b) = self.ooo.remove(&adv)`.
DrainOne ==
    /\ adv # NoSeq
    /\ adv \in DOMAIN ooo
    /\ rxbuf' = rxbuf \o ooo[adv]
    /\ adv' = WrappingAdd(adv, Len(ooo[adv]))
    /\ ooo' = Remove(ooo, adv)
    /\ UNCHANGED <<next_seq, captured, syn_seen>>

\* The loop ends and feed returns.
DrainDone ==
    /\ adv # NoSeq
    /\ adv \notin DOMAIN ooo
    /\ next_seq' = adv
    /\ adv' = NoSeq
    /\ UNCHANGED <<ooo, rxbuf, captured, syn_seen>>

-----------------------------------------------------------------------------
(* The capture.                                                            *)

\* feed is not in its drain loop: the next segment can be handled.
Idle == adv = NoSeq

\* How far the capture has seen the stream without a hole, from position `from`.
SeenUpTo(from) ==
    CHOOSE p \in (from - 1)..StreamLen :
        /\ from..p \subseteq captured
        /\ p < StreamLen => p + 1 \notin captured

\* The first byte that can be delivered: byte 1 after a SYN, else the first
\* byte of the segment the direction anchored on.
Start == IF syn_seen THEN 1 ELSE rxbuf[1]

\* The sender stays within Window bytes of what the receiver acknowledged, and
\* the capture has seen what was acknowledged.
InWindow(off) ==
    (syn_seen \/ captured # {}) =>
        /\ off <= SeenUpTo(Start) + Window
        /\ SeenUpTo(Start) <= off + Window

\* A data segment is captured: first sight, retransmission or re-segmentation.
CaptureData(s) ==
    /\ Idle
    /\ InWindow(s.off)
    /\ FeedData(SeqOf(s.off), FALSE, Payload(s.off, s.len))
    /\ captured' = captured \cup (s.off + 1)..(s.off + s.len)
    /\ UNCHANGED syn_seen

\* A SYN is captured, with or without payload (TCP fast open).
CaptureSyn(n) ==
    /\ Idle
    /\ captured = {} \/ (LateSyn /\ n = 0)
    /\ IF n = 0 THEN FeedSyn(Isn) ELSE FeedData(Isn, TRUE, Payload(0, n))
    /\ captured' = captured \cup 1..n
    /\ syn_seen' = TRUE

Init ==
    /\ next_seq = NoSeq
    /\ ooo = << >>
    /\ rxbuf = << >>
    /\ adv = NoSeq
    /\ captured = {}
    /\ syn_seen = FALSE

Next ==
    \/ \E s \in Segments : CaptureData(s)
    \/ \E n \in SynData : CaptureSyn(n)
    \/ DrainOne
    \/ DrainDone

Spec == Init /\ [][Next]_vars

-----------------------------------------------------------------------------
(* Properties.                                                             *)

ByteSeqs == Seq(1..StreamLen)

\* Type invariant: sequence numbers stay in the u32 space, and buffers hold
\* bytes of the stream.
TypeOK ==
    /\ next_seq \in SeqNums \cup {NoSeq}
    /\ adv \in SeqNums \cup {NoSeq}
    /\ DOMAIN ooo \subseteq SeqNums
    /\ \A k \in DOMAIN ooo : ooo[k] \in ByteSeqs
    /\ rxbuf \in ByteSeqs
    /\ captured \subseteq 1..StreamLen
    /\ syn_seen \in BOOLEAN

\* "Data is delivered in order, with retransmissions de-duplicated"
\* (Direction::feed): every appended byte is the successor of the byte
\* appended before it, whatever was reordered, repeated or re-segmented.
InOrder == \A i \in 1..(Len(rxbuf) - 1) : rxbuf[i + 1] = rxbuf[i] + 1

\* "Out-of-order segments buffered" (Direction::feed): when feed returns, no
\* byte that was captured and is contiguous with the start is held back.
NothingHeldBack ==
    Idle /\ captured # {} =>
        \A p \in Start..StreamLen :
            Start..p \subseteq captured => \E i \in 1..Len(rxbuf) : rxbuf[i] = p

\* Bytes are only ever appended, each run continuing the last: feed implements
\* the contiguous stream of module ByteStream.
Stream == INSTANCE ByteStream WITH delivered <- rxbuf
DeliversStream == Stream!Spec

\* The captures for which the code keeps its promise: the SYN, if captured,
\* comes before data and carries none, and the stream is shorter than half the
\* sequence space, so that no number is used twice.
OrderlyCapture ==
    /\ LateSyn = FALSE
    /\ SynData \subseteq {0}
    /\ 2 * StreamLen < SeqMod

\* The segmentations for which it holds nothing back: no segment begins inside
\* another one and ends beyond it, and two that begin with the same byte, the
\* first of the stream aside, are equally long.
KeepsCuts ==
    \A s, t \in Segments :
        /\ s.off < t.off /\ t.off < s.off + s.len => t.off + t.len <= s.off + s.len
        /\ s.off = t.off /\ s.off > 0 => s.len = t.len
===============================================================================
