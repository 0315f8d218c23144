--------------------------- MODULE ReassemblyProofs ---------------------------
(***************************************************************************)
(* Proofs about Reassembly, for every sequence space, stream and set of    *)
(* segments, of the captures for which the code keeps its promise          *)
(* (OrderlyCapture).  Sequence numbers wrap, so the argument is carried    *)
(* out on stream positions: while no number is used twice, the signed      *)
(* distance of two numbers is the distance of their positions.  IInv says  *)
(* that next_seq (adv, inside the drain loop) is the number of the         *)
(* position the buffer ends at, and that a buffered segment lies in the    *)
(* stream where its key says.                                              *)
(***************************************************************************)
EXTENDS Reassembly, SequenceTheorems, TLAPS

\* The sequence number up to which rxbuf goes.
Cur == IF adv # NoSeq THEN adv ELSE next_seq

\* rxbuf ends at position p.
EndsAt(p) == rxbuf # << >> => rxbuf[Len(rxbuf)] = p

\* The number rxbuf goes up to is the number of the position it ends at.
CurIsEnd == Cur # NoSeq => \E p \in Offsets : Cur = SeqOf(p) /\ EndsAt(p)

\* A buffered segment is the part of the stream that starts at its key.
InPlace(k) ==
    \E off \in Offsets, n \in 1..StreamLen :
        off + n <= StreamLen /\ k = SeqOf(off) /\ ooo[k] = Payload(off, n)

\* Nothing is delivered or buffered before the direction is anchored, or
\* before data is captured; the drain loop starts with something delivered.
Quiet ==
    /\ Cur = NoSeq => rxbuf = << >> /\ DOMAIN ooo = {}
    /\ captured = {} => rxbuf = << >> /\ DOMAIN ooo = {} /\ adv = NoSeq

IInv ==
    /\ TypeOK
    /\ InOrder
    /\ CurIsEnd
    /\ \A k \in DOMAIN ooo : InPlace(k)
    /\ Quiet

-----------------------------------------------------------------------------
(* Arithmetic of sequence numbers                                          *)

\* A sum of less than twice the modulus is reduced by at most one modulus.
LEMMA ModTwice ==
  ASSUME NEW M \in Nat, M > 0, NEW x \in Nat, x < M + M
  PROVE  x % M = IF x < M THEN x ELSE x - M
<1>1. CASE x < M
  BY <1>1
<1>2. CASE x >= M
  BY <1>2
<1> QED
  BY <1>1, <1>2

\* The number of a position is a number of the sequence space.
LEMMA SeqOfValue ==
  ASSUME OrderlyCapture, NEW a \in Offsets
  PROVE  /\ SeqOf(a) = IF Isn + 1 + a < SeqMod THEN Isn + 1 + a ELSE Isn + 1 + a - SeqMod
         /\ SeqOf(a) \in SeqNums
         /\ SeqOf(a) # NoSeq
<1>1. SeqMod \in Nat /\ SeqMod > 1 /\ Isn \in Nat /\ Isn < SeqMod /\ StreamLen \in Nat
      /\ 2 * StreamLen < SeqMod /\ a \in Nat /\ a <= StreamLen
  BY SeqSpaceAssumption DEF SeqNums, Offsets, OrderlyCapture
<1>2. Isn + (1 + a) \in Nat /\ Isn + (1 + a) < SeqMod + SeqMod
  BY <1>1
<1>3. SeqOf(a) = (Isn + (1 + a)) % SeqMod
  BY DEF SeqOf, WrappingAdd
<1>4. (Isn + (1 + a)) % SeqMod
        = IF Isn + (1 + a) < SeqMod THEN Isn + (1 + a) ELSE Isn + (1 + a) - SeqMod
  BY <1>1, <1>2, ModTwice
<1> QED
  BY <1>1, <1>3, <1>4 DEF SeqNums, NoSeq

\* Advancing over n bytes of the stream.
LEMMA SeqOfAdd ==
  ASSUME OrderlyCapture, NEW a \in Offsets, NEW n \in Nat, a + n <= StreamLen
  PROVE  WrappingAdd(SeqOf(a), n) = SeqOf(a + n)
<1>1. SeqMod \in Nat /\ SeqMod > 1 /\ Isn \in Nat /\ Isn < SeqMod /\ StreamLen \in Nat
      /\ 2 * StreamLen < SeqMod /\ a \in Nat /\ a <= StreamLen /\ a + n \in Offsets
  BY SeqSpaceAssumption DEF SeqNums, Offsets, OrderlyCapture
<1>2. SeqOf(a) + n \in Nat /\ SeqOf(a) + n < SeqMod + SeqMod
  BY <1>1, SeqOfValue DEF SeqNums
<1> DEFINE x == SeqOf(a) + n
<1> HIDE DEF x
<1>3. x % SeqMod = IF x < SeqMod THEN x ELSE x - SeqMod
  <2>1. x \in Nat /\ x < SeqMod + SeqMod /\ SeqMod > 0
    BY <1>1, <1>2 DEF x
  <2> QED
    BY <1>1, <2>1, ModTwice
<1> QED
  BY <1>1, <1>3, SeqOfValue DEF WrappingAdd, x

\* The signed distance of two numbers is the distance of their positions.
LEMMA DiffIsDistance ==
  ASSUME OrderlyCapture, NEW a \in Offsets, NEW b \in Offsets
  PROVE  Diff(SeqOf(a), SeqOf(b)) = a - b
<1>1. SeqMod \in Nat /\ SeqMod > 1 /\ SeqMod % 2 = 0 /\ Isn \in Nat /\ Isn < SeqMod
      /\ StreamLen \in Nat /\ 2 * StreamLen < SeqMod
      /\ a \in Nat /\ a <= StreamLen /\ b \in Nat /\ b <= StreamLen
  BY SeqSpaceAssumption DEF SeqNums, Offsets, OrderlyCapture
<1>2. SeqMod \div 2 \in Nat /\ SeqMod = 2 * (SeqMod \div 2)
  BY <1>1
<1> QED
  BY <1>1, <1>2, SeqOfValue DEF Diff

\* No number is used twice.
LEMMA SeqOfInjective ==
  ASSUME OrderlyCapture, NEW a \in Offsets, NEW b \in Offsets, SeqOf(a) = SeqOf(b)
  PROVE  a = b
<1>1. a \in Nat /\ b \in Nat
  BY SeqSpaceAssumption DEF Offsets
<1>2. a - b = b - b
  BY DiffIsDistance
<1> QED
  BY <1>1, <1>2

-----------------------------------------------------------------------------
(* Bytes                                                                   *)

\* A payload is a sequence of stream bytes.
LEMMA PayloadFacts ==
  ASSUME NEW a \in Offsets, NEW n \in Nat, a + n <= StreamLen
  PROVE  /\ Payload(a, n) \in Seq(1..StreamLen)
         /\ Len(Payload(a, n)) = n
         /\ \A i \in 1..n : Payload(a, n)[i] = a + i
  BY SeqSpaceAssumption DEF Payload, Offsets

\* What is left of a payload after its first `skip` bytes.
LEMMA PayloadTail ==
  ASSUME NEW a \in Offsets, NEW n \in Nat, a + n <= StreamLen, NEW skip \in 0..(n - 1)
  PROVE  SubSeq(Payload(a, n), skip + 1, Len(Payload(a, n))) = Payload(a + skip, n - skip)
<1> a \in Nat /\ StreamLen \in Nat
  BY SeqSpaceAssumption DEF Offsets
<1> DEFINE t == SubSeq(Payload(a, n), skip + 1, n)
<1>1. Payload(a, n) \in Seq(1..StreamLen) /\ Len(Payload(a, n)) = n
      /\ \A i \in 1..n : Payload(a, n)[i] = a + i
  BY PayloadFacts
<1>2. t \in Seq(1..StreamLen) /\ Len(t) = n - skip
      /\ \A i \in 1..(n - skip) : t[i] = Payload(a, n)[skip + i]
  BY <1>1, SubSeqProperties
<1> HIDE DEF t
<1>3. \A i \in 1..(n - skip) : t[i] = a + skip + i
  BY <1>1, <1>2
<1> DEFINE b == a + skip
           m == n - skip
<1>4. b \in Offsets /\ m \in Nat /\ b + m <= StreamLen
  BY DEF Offsets
<1> HIDE DEF b, m
<1>5. Payload(b, m) \in Seq(1..StreamLen) /\ Len(Payload(b, m)) = m
      /\ \A i \in 1..m : Payload(b, m)[i] = b + i
  BY <1>4, PayloadFacts
<1>6. Len(t) = m /\ \A i \in 1..m : t[i] = b + i
  BY <1>2, <1>3 DEF b, m
<1>7. t = Payload(b, m)
  BY <1>2, <1>5, <1>6, SeqEqual
<1> QED
  BY <1>1, <1>7 DEF t, b, m

\* Appending the payload that continues the buffer.
LEMMA AppendPayload ==
  ASSUME rxbuf \in Seq(1..StreamLen), InOrder,
         NEW p \in Offsets, EndsAt(p), NEW n \in 1..StreamLen, p + n <= StreamLen
  PROVE  LET r == rxbuf \o Payload(p, n)
         IN  /\ r \in Seq(1..StreamLen)
             /\ \A i \in 1..(Len(r) - 1) : r[i + 1] = r[i] + 1
             /\ r # << >>
             /\ r[Len(r)] = p + n
<1> DEFINE r == rxbuf \o Payload(p, n)
<1> p \in Nat /\ StreamLen \in Nat /\ n \in Nat /\ n > 0
  BY SeqSpaceAssumption DEF Offsets
<1>1. Payload(p, n) \in Seq(1..StreamLen) /\ Len(Payload(p, n)) = n
      /\ \A i \in 1..n : Payload(p, n)[i] = p + i
  BY PayloadFacts
<1>3. Len(rxbuf) \in Nat
  OBVIOUS
<1>c. r \in Seq(1..StreamLen) /\ Len(r) = Len(rxbuf) + n
      /\ \A i \in 1..(Len(rxbuf) + n) :
            r[i] = IF i <= Len(rxbuf) THEN rxbuf[i] ELSE Payload(p, n)[i - Len(rxbuf)]
  <2> DEFINE q == Payload(p, n)
  <2>1. q \in Seq(1..StreamLen) /\ Len(q) = n
    BY <1>1
  <2> HIDE DEF q
  <2>2. /\ rxbuf \o q \in Seq(1..StreamLen)
        /\ Len(rxbuf \o q) = Len(rxbuf) + Len(q)
        /\ \A i \in 1..(Len(rxbuf) + Len(q)) :
              (rxbuf \o q)[i] = IF i <= Len(rxbuf) THEN rxbuf[i] ELSE q[i - Len(rxbuf)]
    BY <2>1, ConcatProperties
  <2> QED
    BY <2>1, <2>2 DEF q
<1> HIDE DEF r
<1>d. ASSUME NEW i \in 1..n PROVE r[Len(rxbuf) + i] = p + i
  <2>1. Len(rxbuf) + i \in 1..(Len(rxbuf) + n) /\ ~(Len(rxbuf) + i <= Len(rxbuf))
        /\ (Len(rxbuf) + i) - Len(rxbuf) = i
    BY <1>3
  <2> QED
    BY <1>1, <1>c, <2>1
<1>2. r \in Seq(1..StreamLen) /\ Len(r) = Len(rxbuf) + n
      /\ (\A i \in 1..Len(rxbuf) : r[i] = rxbuf[i])
      /\ (\A i \in 1..n : r[Len(rxbuf) + i] = p + i)
  BY <1>3, <1>c, <1>d
<1>4. ASSUME NEW i \in 1..(Len(r) - 1) PROVE r[i + 1] = r[i] + 1
  <2>1. CASE i < Len(rxbuf)
    <3>1. i \in 1..(Len(rxbuf) - 1) /\ i \in 1..Len(rxbuf) /\ i + 1 \in 1..Len(rxbuf)
      BY <1>3, <2>1
    <3> QED
      BY <1>2, <3>1 DEF InOrder
  <2>2. CASE i = Len(rxbuf)
    <3>1. rxbuf # << >> /\ rxbuf[i] = p
      BY <2>2, <1>2, <1>3 DEF EndsAt
    <3> QED
      BY <1>2, <1>3, <2>2, <3>1
  <2>3. CASE i > Len(rxbuf)
    <3> DEFINE j == i - Len(rxbuf)
    <3>1. j \in 1..n /\ j + 1 \in 1..n /\ i = Len(rxbuf) + j /\ i + 1 = Len(rxbuf) + (j + 1)
      BY <1>2, <1>3, <2>3
    <3>2. r[i] = p + j /\ r[i + 1] = p + (j + 1)
      BY <1>2, <3>1
    <3> QED
      BY <3>1, <3>2
  <2> QED
    BY <1>2, <1>3, <2>1, <2>2, <2>3
<1>5. r # << >> /\ r[Len(r)] = p + n
  <2>1. r[Len(rxbuf) + n] = p + n
    BY <1>2
  <2> QED
    BY <1>2, <1>3, <2>1
<1> QED
  BY <1>2, <1>4, <1>5 DEF r

-----------------------------------------------------------------------------
(* What feed does to the buffer                                            *)

\* rxbuf is extended by the n bytes that follow it.
Extends(p, n) ==
    /\ p + n <= StreamLen
    /\ EndsAt(p)
    /\ rxbuf' = rxbuf \o Payload(p, n)
    /\ adv' = SeqOf(p + n)

\* The segment is buffered, dropped, or extends rxbuf.
Kept(s) ==
    /\ next_seq # NoSeq /\ next_seq' = next_seq
    /\ adv' = NoSeq /\ rxbuf' = rxbuf
    /\ \/ ooo' = ooo
       \/ ooo' = Insert(ooo, SeqOf(s.off), Payload(s.off, s.len))
Used ==
    /\ next_seq' \in SeqNums
    /\ ooo' = ooo
    /\ \E p \in Offsets, n \in 1..StreamLen : Extends(p, n)

\* The same, with the position p up to which the stream was delivered.
AheadOf(s, p) ==
    /\ p < s.off
    /\ ooo' = Insert(ooo, SeqOf(s.off), Payload(s.off, s.len))
    /\ rxbuf' = rxbuf /\ adv' = NoSeq
OldAt(s, p) ==
    /\ s.off + s.len <= p
    /\ ooo' = ooo /\ rxbuf' = rxbuf /\ adv' = NoSeq
NewAt(s, p) ==
    /\ s.off <= p /\ p < s.off + s.len
    /\ ooo' = ooo
    /\ Extends(p, s.off + s.len - p)

\* feed tells the three cases apart by where the segment lies.
LEMMA CaptureDataCases ==
  ASSUME OrderlyCapture, IInv, NEW s \in Segments, CaptureData(s)
  PROVE  \E p \in Offsets :
            /\ next_seq' = SeqOf(p) /\ EndsAt(p)
            /\ next_seq = NoSeq => p = s.off
            /\ next_seq # NoSeq => next_seq = SeqOf(p)
            /\ AheadOf(s, p) \/ OldAt(s, p) \/ NewAt(s, p)
<1> DEFINE seq == SeqOf(s.off)
           data == Payload(s.off, s.len)
           next == Anchored(seq, FALSE)
<1>1. s.off \in Offsets /\ s.len \in Nat /\ s.len > 0 /\ s.len \in 1..StreamLen
      /\ s.off + s.len <= StreamLen /\ s.off \in Nat /\ StreamLen \in Nat
  BY SegmentsAssumption, SeqSpaceAssumption DEF Offsets
<1>2. adv = NoSeq /\ next_seq' = next
      /\ (BufferAhead(seq, next, data) \/ DropOld(seq, next, data)
            \/ AppendInOrder(seq, next, data))
  BY DEF CaptureData, FeedData, Idle
<1>3. PICK p \in Offsets : /\ next = SeqOf(p) /\ EndsAt(p)
                           /\ next_seq = NoSeq => p = s.off
                           /\ next_seq # NoSeq => next = next_seq
  <2>1. CASE next_seq = NoSeq
    BY <1>1, <1>2, <2>1 DEF Anchored, IInv, Quiet, Cur, EndsAt
  <2>2. CASE next_seq # NoSeq
    BY <1>2, <2>2 DEF Anchored, IInv, CurIsEnd, Cur
  <2> QED
    BY <2>1, <2>2
<1>4. p \in Nat /\ Diff(seq, next) = s.off - p
  <2>1. p \in Nat
    BY <1>1 DEF Offsets
  <2>2. Diff(SeqOf(s.off), SeqOf(p)) = s.off - p
    BY <1>1, DiffIsDistance
  <2> QED
    BY <1>3, <2>1, <2>2
<1>5. Len(data) = s.len
  BY <1>1, PayloadFacts
<1> HIDE DEF seq, data, next
<1>6. CASE BufferAhead(seq, next, data)
  <2>1. p < s.off
    BY <1>1, <1>4, <1>6 DEF BufferAhead
  <2>2. AheadOf(s, p)
    BY <1>2, <1>6, <2>1 DEF BufferAhead, AheadOf, seq, data
  <2> QED
    BY <1>2, <1>3, <2>2
<1>7. CASE DropOld(seq, next, data)
  <2>1. -Diff(seq, next) >= s.len
    BY <1>5, <1>7 DEF DropOld
  <2>2. s.off + s.len <= p
    BY <1>1, <1>4, <2>1
  <2>3. OldAt(s, p)
    BY <1>2, <1>7, <2>2 DEF DropOld, OldAt
  <2> QED
    BY <1>2, <1>3, <2>3
<1>8. CASE AppendInOrder(seq, next, data)
  <2> DEFINE skip == p - s.off
             n == s.off + s.len - p
  <2>0. -Diff(seq, next) = skip
    BY <1>1, <1>4
  <2>1. skip \in 0..(s.len - 1) /\ skip \in Nat
    <3>1. Diff(seq, next) <= 0 /\ -Diff(seq, next) < s.len
      BY <1>5, <1>8 DEF AppendInOrder
    <3> QED
      BY <1>1, <1>4, <3>1
  <2>2. /\ n \in 1..StreamLen /\ n \in Nat /\ p + n <= StreamLen /\ s.off + skip = p
        /\ n = s.len - skip /\ s.off + skip <= StreamLen /\ s.off <= p /\ p < s.off + s.len
    BY <1>1, <1>4, <2>1
  <2>3. SubSeq(data, skip + 1, Len(data)) = Payload(p, n)
    <3>1. SubSeq(data, skip + 1, Len(data)) = Payload(s.off + skip, s.len - skip)
      BY <1>1, <2>1, PayloadTail DEF data
    <3> QED
      BY <2>2, <3>1
  <2>4. Len(Payload(p, n)) = n
    BY <2>2, PayloadFacts
  <2>5. rxbuf' = rxbuf \o Payload(p, n) /\ ooo' = ooo
        /\ adv' = WrappingAdd(WrappingAdd(seq, skip), n)
    BY <1>8, <2>0, <2>3, <2>4 DEF AppendInOrder
  <2> HIDE DEF skip, n
  <2>6. WrappingAdd(seq, skip) = SeqOf(p)
    BY <1>1, <2>1, <2>2, SeqOfAdd DEF seq
  <2>7. WrappingAdd(SeqOf(p), n) = SeqOf(p + n)
    BY <2>2, SeqOfAdd
  <2>8. Extends(p, n)
    BY <1>3, <2>2, <2>5, <2>6, <2>7 DEF Extends
  <2>9. NewAt(s, p)
    BY <2>2, <2>5, <2>8 DEF NewAt, n
  <2> QED
    BY <1>2, <1>3, <2>9
<1> QED
  BY <1>2, <1>6, <1>7, <1>8

\* A captured segment that starts before the end of rxbuf, or where the
\* direction is anchored, is trimmed to the bytes that are new.
LEMMA CaptureDataStep ==
  ASSUME OrderlyCapture, IInv, NEW s \in Segments, CaptureData(s)
  PROVE  Kept(s) \/ Used
<1>1. s.off \in Nat /\ s.len \in Nat /\ s.len > 0 /\ s.off + s.len <= StreamLen
      /\ StreamLen \in Nat
  BY SegmentsAssumption, SeqSpaceAssumption DEF Offsets
<1>2. PICK p \in Offsets :
            /\ next_seq' = SeqOf(p) /\ EndsAt(p)
            /\ next_seq = NoSeq => p = s.off
            /\ next_seq # NoSeq => next_seq = SeqOf(p)
            /\ AheadOf(s, p) \/ OldAt(s, p) \/ NewAt(s, p)
  BY CaptureDataCases
<1>3. p \in Nat /\ p <= StreamLen
  BY <1>1 DEF Offsets
<1>4. CASE AheadOf(s, p)
  <2>1. next_seq # NoSeq
    BY <1>1, <1>2, <1>3, <1>4 DEF AheadOf
  <2> QED
    BY <1>2, <1>4, <2>1 DEF AheadOf, Kept
<1>5. CASE OldAt(s, p)
  <2>1. next_seq # NoSeq
    BY <1>1, <1>2, <1>3, <1>5 DEF OldAt
  <2> QED
    BY <1>2, <1>5, <2>1 DEF OldAt, Kept
<1>6. CASE NewAt(s, p)
  <2>1. s.off + s.len - p \in 1..StreamLen
    BY <1>1, <1>3, <1>6 DEF NewAt
  <2>2. SeqOf(p) \in SeqNums
    BY SeqOfValue
  <2> QED
    BY <1>2, <1>6, <2>1, <2>2 DEF NewAt, Used
<1> QED
  BY <1>2, <1>4, <1>5, <1>6

\* The buffered segment the drain loop finds is the one that continues rxbuf.
LEMMA DrainOneStep ==
  ASSUME OrderlyCapture, IInv, DrainOne
  PROVE  \E p \in Offsets, n \in 1..StreamLen : Extends(p, n)
<1>1. adv # NoSeq /\ adv \in DOMAIN ooo /\ rxbuf' = rxbuf \o ooo[adv]
      /\ adv' = WrappingAdd(adv, Len(ooo[adv]))
  BY DEF DrainOne
<1>2. PICK p \in Offsets : adv = SeqOf(p) /\ EndsAt(p)
  BY <1>1 DEF IInv, CurIsEnd, Cur
<1>3. PICK off \in Offsets, n \in 1..StreamLen :
          off + n <= StreamLen /\ adv = SeqOf(off) /\ ooo[adv] = Payload(off, n)
  BY <1>1 DEF IInv, InPlace
<1>4. off = p
  BY <1>2, <1>3, SeqOfInjective
<1>5. n \in Nat
  BY SeqSpaceAssumption
<1>6. Len(Payload(p, n)) = n
  BY <1>3, <1>4, <1>5, PayloadFacts
<1>7. adv' = SeqOf(p + n)
  BY <1>1, <1>2, <1>3, <1>4, <1>5, <1>6, SeqOfAdd
<1> QED
  BY <1>1, <1>2, <1>3, <1>4, <1>7 DEF Extends

\* Extending rxbuf keeps the invariant, whatever is taken out of ooo.
LEMMA ExtendsKeepsIInv ==
  ASSUME OrderlyCapture, IInv, NEW p \in Offsets, NEW n \in 1..StreamLen, Extends(p, n),
         DOMAIN ooo' \subseteq DOMAIN ooo, \A k \in DOMAIN ooo' : ooo'[k] = ooo[k],
         next_seq' \in SeqNums \cup {NoSeq},
         captured' \subseteq 1..StreamLen, captured' # {}, syn_seen' \in BOOLEAN
  PROVE  IInv'
<1>1. p + n \in Offsets
  BY SeqSpaceAssumption DEF Offsets, Extends
<1>2. adv' \in SeqNums /\ adv' # NoSeq /\ adv' = SeqOf(p + n)
  BY <1>1, SeqOfValue DEF Extends
<1>3. /\ rxbuf' \in Seq(1..StreamLen)
      /\ \A i \in 1..(Len(rxbuf') - 1) : rxbuf'[i + 1] = rxbuf'[i] + 1
      /\ rxbuf' # << >>
      /\ rxbuf'[Len(rxbuf')] = p + n
  BY AppendPayload DEF Extends, IInv, TypeOK, ByteSeqs
<1>4. TypeOK'
  BY <1>2, <1>3 DEF IInv, TypeOK, ByteSeqs
<1>5. CurIsEnd'
  BY <1>1, <1>2, <1>3 DEF CurIsEnd, Cur, EndsAt, SeqOf, WrappingAdd
<1>6. \A k \in DOMAIN ooo' : InPlace(k)'
  BY DEF IInv, InPlace, SeqOf, WrappingAdd, Payload
<1>7. InOrder' /\ Quiet'
  BY <1>2, <1>3 DEF InOrder, Quiet, Cur
<1> QED
  BY <1>4, <1>5, <1>6, <1>7 DEF IInv

-----------------------------------------------------------------------------
(* The invariant and what follows from it                                  *)

\* The initial state satisfies the inductive invariant.
LEMMA InitIInv == Init => IInv
<1> SUFFICES ASSUME Init PROVE IInv
  OBVIOUS
<1>1. rxbuf = << >> /\ DOMAIN ooo = {} /\ adv = NoSeq /\ next_seq = NoSeq
      /\ captured = {} /\ syn_seen = FALSE
  BY DEF Init
<1>2. Len(rxbuf) = 0
  BY <1>1
<1>3. TypeOK
  <2>1. rxbuf \in ByteSeqs
    BY <1>1 DEF ByteSeqs
  <2>2. next_seq \in SeqNums \cup {NoSeq} /\ adv \in SeqNums \cup {NoSeq}
    BY <1>1
  <2>3. DOMAIN ooo \subseteq SeqNums /\ \A k \in DOMAIN ooo : ooo[k] \in ByteSeqs
    BY <1>1
  <2> QED
    BY <1>1, <2>1, <2>2, <2>3 DEF TypeOK
<1>4. InOrder
  BY <1>2 DEF InOrder
<1> QED
  BY <1>1, <1>3, <1>4 DEF IInv, CurIsEnd, Cur, Quiet

\* Every step keeps it.
LEMMA NextIInv ==
  ASSUME OrderlyCapture, IInv, [Next]_vars
  PROVE  IInv'
<1>1. CASE \E s \in Segments : CaptureData(s)
  <2>1. PICK s \in Segments : CaptureData(s)
    BY <1>1
  <2>2. s.off \in Offsets /\ s.len \in 1..StreamLen /\ s.off + s.len <= StreamLen
        /\ s.off \in Nat /\ s.len \in Nat /\ StreamLen \in Nat
    BY SegmentsAssumption, SeqSpaceAssumption DEF Offsets
  <2>3. captured' \subseteq 1..StreamLen /\ captured' # {} /\ syn_seen' \in BOOLEAN
    <3>1. captured' = captured \cup (s.off + 1)..(s.off + s.len) /\ syn_seen' = syn_seen
      BY <2>1 DEF CaptureData
    <3>2. s.off + 1 \in (s.off + 1)..(s.off + s.len)
      BY <2>2
    <3>3. (s.off + 1)..(s.off + s.len) \subseteq 1..StreamLen
      BY <2>2
    <3> QED
      BY <3>1, <3>2, <3>3 DEF IInv, TypeOK
  <2>4. CASE Kept(s)
    <3>1. adv' = adv /\ adv = NoSeq /\ next_seq' = next_seq /\ rxbuf' = rxbuf /\ next_seq # NoSeq
      BY <2>1, <2>4 DEF Kept, CaptureData, Idle
    <3>2. SeqOf(s.off) \in SeqNums
      BY <2>2, SeqOfValue
    <3>3. Payload(s.off, s.len) \in Seq(1..StreamLen)
      BY <2>2, PayloadFacts
    <3>4. DOMAIN ooo' \subseteq DOMAIN ooo \cup {SeqOf(s.off)}
          /\ \A k \in DOMAIN ooo' : \/ k \in DOMAIN ooo /\ ooo'[k] = ooo[k]
                                    \/ k = SeqOf(s.off) /\ ooo'[k] = Payload(s.off, s.len)
      BY <2>4 DEF Kept, Insert
    <3>5. TypeOK'
      BY <2>3, <3>1, <3>2, <3>3, <3>4 DEF IInv, TypeOK, ByteSeqs
    <3>6. InOrder' /\ CurIsEnd' /\ Quiet'
      BY <2>3, <3>1 DEF IInv, InOrder, CurIsEnd, Cur, EndsAt, SeqOf, WrappingAdd, Quiet
    <3>7. ASSUME NEW k \in DOMAIN ooo' PROVE InPlace(k)'
      <4>1. CASE k \in DOMAIN ooo /\ ooo'[k] = ooo[k]
        BY <4>1 DEF IInv, InPlace, SeqOf, WrappingAdd, Payload
      <4>2. CASE k = SeqOf(s.off) /\ ooo'[k] = Payload(s.off, s.len)
        BY <2>2, <4>2 DEF InPlace, SeqOf, WrappingAdd, Payload
      <4> QED
        BY <3>4, <4>1, <4>2
    <3> QED
      BY <3>5, <3>6, <3>7 DEF IInv
  <2>5. CASE Used
    BY <2>3, <2>5, ExtendsKeepsIInv DEF Used
  <2> QED
    BY <2>1, <2>4, <2>5, CaptureDataStep
<1>2. CASE \E n \in SynData : CaptureSyn(n)
  <2>1. PICK n \in SynData : CaptureSyn(n)
    BY <1>2
  <2>2. n = 0 /\ captured = {} /\ adv = NoSeq
    BY <2>1 DEF OrderlyCapture, CaptureSyn, Idle
  <2>3. next_seq' = SeqOf(0) /\ ooo' = ooo /\ rxbuf' = rxbuf /\ adv' = adv
        /\ syn_seen' = TRUE
    BY <2>1, <2>2 DEF CaptureSyn, FeedSyn, SeqOf
  <2>4. captured' = {}
    BY <2>1, <2>2 DEF CaptureSyn
  <2>5. rxbuf = << >> /\ DOMAIN ooo = {}
    BY <2>2 DEF IInv, Quiet
  <2>6. 0 \in Offsets
    BY SeqSpaceAssumption DEF Offsets
  <2>7. SeqOf(0) \in SeqNums
    BY <2>6, SeqOfValue
  <2>8. TypeOK'
    BY <2>3, <2>4, <2>7 DEF IInv, TypeOK
  <2>9. CurIsEnd'
    BY <2>2, <2>3, <2>5, <2>6 DEF CurIsEnd, Cur, EndsAt, SeqOf, WrappingAdd
  <2> QED
    BY <2>2, <2>3, <2>4, <2>5, <2>8, <2>9 DEF IInv, InOrder, Quiet
<1>3. CASE DrainOne
  <2>1. PICK p \in Offsets, n \in 1..StreamLen : Extends(p, n)
    BY <1>3, DrainOneStep
  <2>2. next_seq' = next_seq /\ captured' = captured /\ syn_seen' = syn_seen
        /\ captured # {} /\ ooo' = Remove(ooo, adv)
    BY <1>3 DEF DrainOne, IInv, Quiet
  <2>3. DOMAIN ooo' \subseteq DOMAIN ooo /\ \A k \in DOMAIN ooo' : ooo'[k] = ooo[k]
    BY <2>2 DEF Remove
  <2> QED
    BY <2>1, <2>2, <2>3, ExtendsKeepsIInv DEF IInv, TypeOK
<1>4. CASE DrainDone
  <2>1. next_seq' = adv /\ adv # NoSeq /\ adv' = NoSeq /\ ooo' = ooo /\ rxbuf' = rxbuf
        /\ captured' = captured /\ syn_seen' = syn_seen
    BY <1>4 DEF DrainDone
  <2>2. captured # {}
    BY <2>1 DEF IInv, Quiet
  <2>3. TypeOK'
    BY <2>1 DEF IInv, TypeOK
  <2>4. CurIsEnd' /\ InOrder' /\ Quiet'
    BY <2>1, <2>2 DEF IInv, CurIsEnd, Cur, EndsAt, SeqOf, WrappingAdd, InOrder, Quiet
  <2>5. \A k \in DOMAIN ooo' : InPlace(k)'
    BY <2>1 DEF IInv, InPlace, SeqOf, WrappingAdd, Payload
  <2> QED
    BY <2>3, <2>4, <2>5 DEF IInv
<1>5. CASE UNCHANGED vars
  BY <1>5 DEF vars, IInv, TypeOK, ByteSeqs, InOrder, CurIsEnd, Cur, EndsAt, InPlace,
        SeqOf, WrappingAdd, Payload, Quiet
<1> QED
  BY <1>1, <1>2, <1>3, <1>4, <1>5 DEF Next

\* Every step hands over a run that continues the last byte, or nothing.
LEMMA NextDelivers ==
  ASSUME OrderlyCapture, IInv, [Next]_vars
  PROVE  [Stream!Deliver]_rxbuf
<1>1. ASSUME NEW p \in Offsets, NEW n \in 1..StreamLen, Extends(p, n)
      PROVE  Stream!Deliver
  BY <1>1 DEF Extends, EndsAt, Payload, Offsets, Stream!Deliver, Stream!Run
<1>2. CASE \E s \in Segments : CaptureData(s)
  BY <1>1, <1>2, CaptureDataStep DEF Kept, Used
<1>3. CASE \E n \in SynData : CaptureSyn(n)
  BY <1>3 DEF OrderlyCapture, CaptureSyn, FeedSyn
<1>4. CASE DrainOne
  BY <1>1, <1>4, DrainOneStep
<1>5. CASE DrainDone
  BY <1>5 DEF DrainDone
<1>6. CASE UNCHANGED vars
  BY <1>6 DEF vars
<1> QED
  BY <1>2, <1>3, <1>4, <1>5, <1>6 DEF Next

\* The inductive invariant holds in every orderly capture.
LEMMA IInvInvariant == ASSUME OrderlyCapture PROVE Spec => []IInv
<1>1. Init => IInv
  BY InitIInv
<1>2. IInv /\ [Next]_vars => IInv'
  BY NextIInv
<1> QED
  BY <1>1, <1>2, PTL DEF Spec

\* Type correctness: Direction::feed keeps its sequence numbers in the sequence
\* space and its buffers filled with bytes of the stream.
THEOREM TypeCorrect == ASSUME OrderlyCapture PROVE Spec => []TypeOK
  BY IInvInvariant, PTL DEF IInv

\* Direction::feed delivers in order: whatever is reordered, repeated or cut
\* anew, every byte appended to rxbuf is the successor of the one before it.
THEOREM DeliveredInOrder == ASSUME OrderlyCapture PROVE Spec => []InOrder
  BY IInvInvariant, PTL DEF IInv

\* Direction::feed implements the abstract byte stream: a step appends a run
\* that continues the last byte, or leaves rxbuf alone; nothing is revised.
THEOREM ImplementsByteStream == ASSUME OrderlyCapture PROVE Spec => DeliversStream
<1>1. Init => Stream!Init
  BY DEF Init, Stream!Init
<1>2. IInv /\ [Next]_vars => [Stream!Deliver]_rxbuf
  BY NextDelivers
<1>3. Spec => []IInv
  BY IInvInvariant
<1> QED
  BY <1>1, <1>2, <1>3, PTL DEF Spec, DeliversStream, Stream!Spec

-----------------------------------------------------------------------------
(* Nothing is held back                                                    *)
(*                                                                         *)
(* What is captured and not delivered is buffered in segments that begin   *)
(* at or after the end of rxbuf.  A step that extends rxbuf could leave    *)
(* its end inside such a segment, whose bytes would then be lost: this is  *)
(* what KeepsCuts rules out.                                               *)

\* Segment s is in the buffer o.
BufferedIn(o, s) == SeqOf(s.off) \in DOMAIN o /\ o[SeqOf(s.off)] = Payload(s.off, s.len)

\* Of the positions in c, those after p are in segments of o that begin there.
WaitingIn(o, c, p) ==
    \A b \in c : p < b =>
        \E s \in Segments : BufferedIn(o, s) /\ p <= s.off /\ b \in (s.off + 1)..(s.off + s.len)

\* Only segments are buffered, and never the first one of the stream.
FromSegments(o) ==
    \A k \in DOMAIN o : \E s \in Segments : s.off > 0 /\ k = SeqOf(s.off) /\ BufferedIn(o, s)

\* rxbuf is one run of the stream.
OneRun == \A i \in 1..Len(rxbuf) : rxbuf[i] = rxbuf[1] + i - 1

HeldInv ==
    /\ OneRun
    /\ FromSegments(ooo)
    /\ \A p \in Offsets : Cur = SeqOf(p) => WaitingIn(ooo, captured, p)
    /\ IF Idle THEN next_seq \notin DOMAIN ooo ELSE rxbuf # << >>
    /\ syn_seen => IF rxbuf = << >> THEN Cur = SeqOf(0) ELSE rxbuf[1] = 1
    /\ ~syn_seen /\ (captured # {} \/ Cur # NoSeq) => rxbuf # << >>

\* A segment has its place in the stream.
LEMMA SegmentFacts ==
  ASSUME NEW s \in Segments
  PROVE  /\ s.off \in Nat /\ s.len \in Nat /\ s.len > 0 /\ s.off + s.len <= StreamLen
         /\ s.off \in Offsets /\ s.off + s.len \in Offsets /\ StreamLen \in Nat
  BY SegmentsAssumption, SeqSpaceAssumption DEF Offsets

\* When the bytes up to the end of segment t are delivered, no segment that is
\* still needed is overtaken.
LEMMA NoneOvertaken ==
  ASSUME OrderlyCapture, KeepsCuts, NEW o, NEW c \in SUBSET Nat, NEW p \in Offsets,
         FromSegments(o), WaitingIn(o, c, p),
         NEW t \in Segments, t.off <= p, p < t.off + t.len
  PROVE  WaitingIn(o, c, t.off + t.len)
<1> DEFINE q == t.off + t.len
<1>1. t.off \in Nat /\ t.len \in Nat /\ q \in Nat /\ p \in Nat
  BY SegmentFacts, SeqSpaceAssumption DEF Offsets
<1> SUFFICES ASSUME NEW b \in c, q < b
             PROVE  \E s \in Segments :
                       BufferedIn(o, s) /\ q <= s.off /\ b \in (s.off + 1)..(s.off + s.len)
  BY DEF WaitingIn
<1>2. p < b
  BY <1>1
<1>3. PICK s \in Segments : BufferedIn(o, s) /\ p <= s.off /\ b \in (s.off + 1)..(s.off + s.len)
  BY <1>2 DEF WaitingIn
<1>4. s.off \in Nat /\ s.len \in Nat /\ s.off \in Offsets
  BY SegmentFacts
<1>5. s.off > 0
  <2>1. PICK u \in Segments : u.off > 0 /\ SeqOf(s.off) = SeqOf(u.off)
    BY <1>3 DEF FromSegments, BufferedIn
  <2>2. u.off \in Offsets
    BY SegmentFacts
  <2> QED
    BY <1>4, <2>1, <2>2, SeqOfInjective
<1>6. b <= s.off + s.len /\ b \in Nat
  BY <1>3, <1>4
<1>7. CASE s.off < q
  <2>1. CASE t.off < s.off
    <3>1. s.off + s.len <= t.off + t.len
      BY <1>7, <2>1 DEF KeepsCuts
    <3> QED
      BY <1>1, <1>4, <1>6, <3>1
  <2>2. CASE t.off = s.off
    <3>1. s.len = t.len
      BY <1>5, <2>2 DEF KeepsCuts
    <3> QED
      BY <1>1, <1>4, <1>6, <2>2, <3>1
  <2> QED
    BY <1>1, <1>3, <1>4, <2>1, <2>2
<1> QED
  BY <1>1, <1>3, <1>4, <1>7

\* Taking out the segment at the old end loses nothing that is needed.
LEMMA StillWaiting ==
  ASSUME OrderlyCapture, NEW o, NEW c, NEW p \in Offsets, NEW q \in Offsets, p < q,
         WaitingIn(o, c, q)
  PROVE  WaitingIn(Remove(o, SeqOf(p)), c, q)
<1> SUFFICES ASSUME NEW s \in Segments, BufferedIn(o, s), q <= s.off
             PROVE  BufferedIn(Remove(o, SeqOf(p)), s)
  BY DEF WaitingIn
<1>1. s.off \in Offsets
  BY SegmentFacts
<1>2. s.off # p
  BY <1>1, SeqSpaceAssumption DEF Offsets
<1>3. SeqOf(s.off) # SeqOf(p)
  BY <1>1, <1>2, SeqOfInjective
<1> QED
  BY <1>3 DEF BufferedIn, Remove

\* Buffering segment s replaces at most a segment of the same bytes.
LEMMA BufferingKeeps ==
  ASSUME OrderlyCapture, KeepsCuts, NEW s \in Segments, s.off > 0,
         NEW t \in Segments, BufferedIn(ooo, t)
  PROVE  BufferedIn(Insert(ooo, SeqOf(s.off), Payload(s.off, s.len)), t)
<1>1. CASE SeqOf(s.off) = SeqOf(t.off)
  <2>1. s.off = t.off
    BY <1>1, SegmentFacts, SeqOfInjective
  <2>2. s.len = t.len
    BY <2>1 DEF KeepsCuts
  <2> QED
    BY <2>1, <2>2 DEF BufferedIn, Insert
<1>2. CASE SeqOf(s.off) # SeqOf(t.off)
  BY <1>2 DEF BufferedIn, Insert
<1> QED
  BY <1>1, <1>2

\* A buffer that is extended keeps its first byte and stays one run.
LEMMA ExtendedRun ==
  ASSUME rxbuf \in Seq(1..StreamLen), OneRun,
         NEW p \in Offsets, NEW n \in 1..StreamLen, Extends(p, n)
  PROVE  /\ rxbuf' # << >>
         /\ rxbuf'[1] = IF rxbuf = << >> THEN p + 1 ELSE rxbuf[1]
         /\ OneRun'
<1> p \in Nat /\ n \in Nat /\ n > 0 /\ StreamLen \in Nat
  BY SeqSpaceAssumption DEF Offsets
<1> DEFINE d == Payload(p, n)
           m == Len(rxbuf)
<1>1. d \in Seq(1..StreamLen) /\ Len(d) = n /\ \A i \in 1..n : d[i] = p + i
  BY PayloadFacts DEF Extends
<1>2. rxbuf' = rxbuf \o d
  BY DEF Extends
<1> HIDE DEF d
<1>3. /\ Len(rxbuf') = m + n
      /\ \A i \in 1..(m + n) : rxbuf'[i] = IF i <= m THEN rxbuf[i] ELSE d[i - m]
  BY <1>1, <1>2, ConcatProperties
<1>4. m \in Nat
  OBVIOUS
<1>5. CASE rxbuf = << >>
  <2>1. m = 0
    BY <1>5
  <2>2. \A i \in 1..n : rxbuf'[i] = p + i
    BY <1>1, <1>3, <2>1
  <2>3. rxbuf'[1] = p + 1
    BY <2>2
  <2> QED
    BY <1>3, <1>5, <2>1, <2>2, <2>3 DEF OneRun
<1>6. CASE rxbuf # << >>
  <2>1. m > 0 /\ rxbuf[m] = p /\ rxbuf[1] \in Int
    BY <1>6 DEF Extends, EndsAt
  <2> DEFINE f == rxbuf[1]
  <2>2. p = f + m - 1 /\ f \in Int
    BY <1>4, <2>1 DEF OneRun
  <2> HIDE DEF m, f
  <2>3. rxbuf'[1] = f
    BY <1>3, <1>4, <2>1 DEF f
  <2>4. ASSUME NEW i \in 1..(m + n) PROVE rxbuf'[i] = f + i - 1
    <3>1. CASE i <= m
      <4>1. i \in 1..m /\ rxbuf'[i] = rxbuf[i]
        BY <1>3, <1>4, <3>1
      <4> QED
        BY <4>1 DEF OneRun, m, f
    <3>2. CASE i > m
      <4>1. i - m \in 1..n /\ rxbuf'[i] = d[i - m]
        BY <1>3, <1>4, <3>2
      <4>2. d[i - m] = p + (i - m)
        BY <1>1, <4>1
      <4> QED
        BY <1>4, <2>2, <4>1, <4>2
    <3> QED
      BY <1>4, <3>1, <3>2
  <2> QED
    <3>1. rxbuf' # << >>
      BY <1>3, <1>4
    <3>2. OneRun'
      BY <1>3, <2>3, <2>4 DEF OneRun
    <3> QED
      BY <1>6, <2>3, <3>1, <3>2 DEF f
<1> QED
  BY <1>5, <1>6

\* Extending rxbuf up to the end of a segment that is captured or buffered.
LEMMA ExtendsHeld ==
  ASSUME OrderlyCapture, IInv, HeldInv,
         NEW p \in Offsets, NEW n \in 1..StreamLen, Extends(p, n),
         FromSegments(ooo'), WaitingIn(ooo', captured', p + n),
         syn_seen' = syn_seen, syn_seen /\ rxbuf = << >> => p = 0
  PROVE  HeldInv'
<1>1. p + n \in Offsets
  BY SeqSpaceAssumption DEF Extends, Offsets
<1>2. adv' = SeqOf(p + n) /\ adv' # NoSeq
  BY <1>1, SeqOfValue DEF Extends
<1>3. rxbuf' # << >> /\ rxbuf'[1] = (IF rxbuf = << >> THEN p + 1 ELSE rxbuf[1]) /\ OneRun'
  BY ExtendedRun DEF IInv, TypeOK, ByteSeqs, HeldInv
<1>4. \A u \in Offsets : Cur' = SeqOf(u) => WaitingIn(ooo', captured', u)
  <2> SUFFICES ASSUME NEW u \in Offsets, Cur' = SeqOf(u)
               PROVE  WaitingIn(ooo', captured', u)
    OBVIOUS
  <2>1. u = p + n
    BY <1>1, <1>2, SeqOfInjective DEF Cur
  <2> QED
    BY <2>1
<1>5. syn_seen => rxbuf'[1] = 1
  BY <1>3 DEF HeldInv
<1> QED
  BY <1>2, <1>3, <1>4, <1>5 DEF HeldInv, Idle

\* Every step keeps it.
LEMMA NextHeld ==
  ASSUME OrderlyCapture, KeepsCuts, IInv, HeldInv, [Next]_vars
  PROVE  HeldInv'
<1>0. captured \in SUBSET Nat /\ 0 \in Offsets /\ StreamLen \in Nat
  BY SeqSpaceAssumption DEF IInv, TypeOK, Offsets
<1>1. ASSUME NEW s \in Segments, CaptureData(s) PROVE HeldInv'
  <2> DEFINE new == (s.off + 1)..(s.off + s.len)
  <2>1. /\ s.off \in Nat /\ s.len \in Nat /\ s.len > 0
        /\ s.off \in Offsets /\ s.off + s.len \in Offsets
    BY SegmentFacts
  <2>2. adv = NoSeq /\ captured' = captured \cup new /\ syn_seen' = syn_seen
    BY <1>1 DEF CaptureData, Idle
  <2>3. PICK p \in Offsets :
            /\ next_seq' = SeqOf(p) /\ EndsAt(p)
            /\ next_seq = NoSeq => p = s.off
            /\ next_seq # NoSeq => next_seq = SeqOf(p)
            /\ AheadOf(s, p) \/ OldAt(s, p) \/ NewAt(s, p)
    BY <1>1, CaptureDataCases
  <2>4. p \in Nat /\ SeqOf(p) # NoSeq
    BY <1>0, SeqOfValue DEF Offsets
  <2>5. WaitingIn(ooo, captured, p)
    <3>1. CASE next_seq # NoSeq
      BY <2>2, <2>3, <3>1 DEF HeldInv, Cur
    <3>2. CASE next_seq = NoSeq
      <4>1. DOMAIN ooo = {} /\ rxbuf = << >>
        BY <2>2, <3>2 DEF IInv, Quiet, Cur
      <4>2. ~syn_seen
        BY <1>0, <2>2, <3>2, <4>1, SeqOfValue DEF HeldInv, Cur
      <4>3. captured = {}
        BY <4>1, <4>2 DEF HeldInv
      <4> QED
        BY <4>3 DEF WaitingIn
    <3> QED
      BY <3>1, <3>2
  <2>6. ASSUME next_seq # NoSeq, next_seq' = next_seq, rxbuf' = rxbuf, adv' = NoSeq,
               FromSegments(ooo'), WaitingIn(ooo', captured', p), SeqOf(p) \notin DOMAIN ooo'
        PROVE  HeldInv'
    <3>1. Cur' = Cur /\ Cur = SeqOf(p)
      BY <2>2, <2>3, <2>6 DEF Cur
    <3>2. \A u \in Offsets : Cur' = SeqOf(u) => WaitingIn(ooo', captured', u)
      <4> SUFFICES ASSUME NEW u \in Offsets, Cur' = SeqOf(u) PROVE WaitingIn(ooo', captured', u)
        OBVIOUS
      <4>1. u = p
        BY <3>1, SeqOfInjective
      <4> QED
        BY <2>6, <4>1
    <3>3. OneRun'
      BY <2>6 DEF HeldInv, OneRun
    <3>4. syn_seen' => IF rxbuf' = << >> THEN Cur' = SeqOf(0) ELSE rxbuf'[1] = 1
      BY <2>2, <2>6, <3>1 DEF HeldInv
    <3>5. ~syn_seen' => rxbuf' # << >>
      BY <2>2, <2>4, <2>6, <3>1 DEF HeldInv
    <3> QED
      BY <2>2, <2>3, <2>6, <3>2, <3>3, <3>4, <3>5 DEF HeldInv, Idle
  <2>7. CASE AheadOf(s, p)
    <3> DEFINE o == Insert(ooo, SeqOf(s.off), Payload(s.off, s.len))
    <3>1. p < s.off /\ s.off > 0 /\ ooo' = o /\ rxbuf' = rxbuf /\ adv' = NoSeq
      BY <2>1, <2>4, <2>7 DEF AheadOf
    <3>2. next_seq # NoSeq /\ next_seq = SeqOf(p) /\ next_seq' = next_seq
      BY <2>1, <2>3, <2>4, <3>1
    <3>3. BufferedIn(o, s)
      BY DEF BufferedIn, Insert
    <3>4. \A t \in Segments : BufferedIn(ooo, t) => BufferedIn(o, t)
      BY <3>1, BufferingKeeps
    <3>5. DOMAIN o = DOMAIN ooo \cup {SeqOf(s.off)}
      BY DEF Insert
    <3> HIDE DEF o
    <3>6. FromSegments(o)
      BY <3>1, <3>3, <3>4, <3>5 DEF FromSegments, HeldInv
    <3>7. WaitingIn(o, captured \cup new, p)
      <4> SUFFICES ASSUME NEW b \in captured \cup new, p < b
                   PROVE  \E t \in Segments :
                             BufferedIn(o, t) /\ p <= t.off /\ b \in (t.off + 1)..(t.off + t.len)
        BY DEF WaitingIn
      <4>1. CASE b \in captured
        BY <2>5, <3>4, <4>1 DEF WaitingIn
      <4>2. CASE b \in new
        BY <2>1, <2>4, <3>1, <3>3, <4>2
      <4> QED
        BY <4>1, <4>2
    <3>8. SeqOf(p) \notin DOMAIN o
      <4>1. SeqOf(p) # SeqOf(s.off)
        BY <2>1, <2>4, <3>1, SeqOfInjective
      <4>2. SeqOf(p) \notin DOMAIN ooo
        BY <2>2, <3>2 DEF HeldInv, Idle
      <4> QED
        BY <3>5, <4>1, <4>2
    <3> QED
      BY <2>2, <2>6, <3>1, <3>2, <3>6, <3>7, <3>8
  <2>8. CASE OldAt(s, p)
    <3>1. s.off + s.len <= p /\ ooo' = ooo /\ rxbuf' = rxbuf /\ adv' = NoSeq
      BY <2>8 DEF OldAt
    <3>2. next_seq # NoSeq /\ next_seq = SeqOf(p) /\ next_seq' = next_seq
      BY <2>1, <2>3, <2>4, <3>1
    <3>3. WaitingIn(ooo, captured \cup new, p)
      <4>1. \A b \in new : ~(p < b)
        BY <2>1, <2>4, <3>1
      <4> QED
        BY <2>5, <4>1 DEF WaitingIn
    <3>4. SeqOf(p) \notin DOMAIN ooo /\ FromSegments(ooo)
      BY <2>2, <3>2 DEF HeldInv, Idle
    <3> QED
      BY <2>2, <2>6, <3>1, <3>2, <3>3, <3>4
  <2>9. CASE NewAt(s, p)
    <3> DEFINE n == s.off + s.len - p
               q == s.off + s.len
    <3>1. s.off <= p /\ p < q /\ ooo' = ooo /\ Extends(p, n)
      BY <2>9 DEF NewAt
    <3>2. n \in 1..StreamLen /\ p + n = q
      BY <1>0, <2>1, <2>4, <3>1 DEF Offsets
    <3>3. WaitingIn(ooo, captured, q)
      BY <1>0, <2>5, <3>1, NoneOvertaken DEF HeldInv
    <3>4. WaitingIn(ooo, captured \cup new, q)
      <4>1. \A b \in new : ~(q < b)
        BY <2>1
      <4> QED
        BY <3>3, <4>1 DEF WaitingIn
    <3>5. syn_seen /\ rxbuf = << >> => p = 0
      <4> SUFFICES ASSUME syn_seen, rxbuf = << >> PROVE p = 0
        OBVIOUS
      <4>1. next_seq = SeqOf(0)
        BY <2>2 DEF HeldInv, Cur
      <4>2. SeqOf(0) = SeqOf(p)
        BY <1>0, <2>3, <4>1, SeqOfValue
      <4> QED
        BY <1>0, <4>2, SeqOfInjective
    <3>6. FromSegments(ooo') /\ WaitingIn(ooo', captured', p + n)
      BY <2>2, <3>1, <3>2, <3>4 DEF HeldInv
    <3> HIDE DEF n
    <3> QED
      BY <2>2, <3>1, <3>2, <3>5, <3>6, ExtendsHeld
  <2> QED
    BY <2>3, <2>7, <2>8, <2>9
<1>2. ASSUME NEW n \in SynData, CaptureSyn(n) PROVE HeldInv'
  <2>1. n = 0 /\ captured = {} /\ adv = NoSeq
    BY <1>2 DEF OrderlyCapture, CaptureSyn, Idle
  <2>2. next_seq' = SeqOf(0) /\ ooo' = ooo /\ rxbuf' = rxbuf /\ adv' = adv
        /\ syn_seen' = TRUE /\ captured' = {}
    BY <1>2, <2>1 DEF CaptureSyn, FeedSyn, SeqOf
  <2>3. rxbuf = << >> /\ DOMAIN ooo = {}
    BY <2>1 DEF IInv, Quiet
  <2>4. FromSegments(ooo') /\ \A u \in Offsets : WaitingIn(ooo', captured', u)
    BY <2>2, <2>3 DEF FromSegments, WaitingIn
  <2>5. OneRun'
    BY <2>2 DEF HeldInv, OneRun
  <2> QED
    BY <2>1, <2>2, <2>3, <2>4, <2>5 DEF HeldInv, Cur, Idle
<1>3. ASSUME DrainOne PROVE HeldInv'
  <2>1. adv # NoSeq /\ adv \in DOMAIN ooo /\ ooo' = Remove(ooo, adv)
        /\ captured' = captured /\ syn_seen' = syn_seen /\ rxbuf' = rxbuf \o ooo[adv]
        /\ adv' = WrappingAdd(adv, Len(ooo[adv]))
    BY <1>3 DEF DrainOne
  <2>2. PICK p \in Offsets : adv = SeqOf(p) /\ EndsAt(p)
    BY <2>1 DEF IInv, CurIsEnd, Cur
  <2>3. PICK t \in Segments : t.off > 0 /\ adv = SeqOf(t.off) /\ BufferedIn(ooo, t)
    BY <2>1 DEF HeldInv, FromSegments
  <2>4. /\ t.off \in Nat /\ t.len \in Nat /\ t.len > 0 /\ t.off + t.len <= StreamLen
        /\ t.off \in Offsets /\ t.off + t.len \in Offsets
    BY SegmentFacts
  <2>5. t.off = p
    BY <2>2, <2>3, <2>4, SeqOfInjective
  <2>6. ooo[adv] = Payload(p, t.len) /\ Len(ooo[adv]) = t.len
    BY <2>3, <2>4, <2>5, PayloadFacts DEF BufferedIn
  <2>7. adv' = SeqOf(p + t.len)
    BY <2>1, <2>2, <2>4, <2>5, <2>6, SeqOfAdd
  <2>8. t.len \in 1..StreamLen /\ Extends(p, t.len)
    BY <1>0, <2>1, <2>2, <2>4, <2>5, <2>6, <2>7 DEF Extends
  <2>9. WaitingIn(ooo, captured, p)
    BY <2>1, <2>2 DEF HeldInv, Cur
  <2>10. WaitingIn(ooo, captured, p + t.len)
    <3>1. t.off <= p /\ p < t.off + t.len
      BY <2>4, <2>5
    <3>2. WaitingIn(ooo, captured, t.off + t.len)
      BY <1>0, <2>9, <3>1, NoneOvertaken DEF HeldInv
    <3> QED
      BY <2>5, <3>2
  <2>11. WaitingIn(Remove(ooo, SeqOf(p)), captured, p + t.len)
    <3>1. p + t.len \in Offsets /\ p < p + t.len
      BY <2>4, <2>5
    <3> QED
      BY <2>10, <3>1, StillWaiting
  <2>12. FromSegments(Remove(ooo, adv))
    <3> DEFINE o == Remove(ooo, adv)
    <3> SUFFICES ASSUME NEW k \in DOMAIN o
                 PROVE  \E u \in Segments : u.off > 0 /\ k = SeqOf(u.off) /\ BufferedIn(o, u)
      BY DEF FromSegments
    <3>1. k \in DOMAIN ooo /\ o[k] = ooo[k]
      BY DEF Remove
    <3>2. PICK u \in Segments : u.off > 0 /\ k = SeqOf(u.off) /\ BufferedIn(ooo, u)
      BY <3>1 DEF HeldInv, FromSegments
    <3> HIDE DEF o
    <3> QED
      BY <3>1, <3>2 DEF BufferedIn
  <2>13. rxbuf # << >>
    BY <2>1 DEF HeldInv, Idle
  <2> QED
    BY <2>1, <2>2, <2>8, <2>11, <2>12, <2>13, ExtendsHeld
<1>4. ASSUME DrainDone PROVE HeldInv'
  <2>1. adv # NoSeq /\ adv \notin DOMAIN ooo /\ next_seq' = adv /\ adv' = NoSeq
        /\ ooo' = ooo /\ rxbuf' = rxbuf /\ captured' = captured /\ syn_seen' = syn_seen
    BY <1>4 DEF DrainDone
  <2>2. Cur' = Cur
    BY <2>1 DEF Cur
  <2> QED
    BY <2>1, <2>2 DEF HeldInv, OneRun, Idle
<1>5. ASSUME UNCHANGED vars PROVE HeldInv'
  <2>1. next_seq' = next_seq /\ ooo' = ooo /\ rxbuf' = rxbuf /\ adv' = adv
        /\ captured' = captured /\ syn_seen' = syn_seen
    BY <1>5 DEF vars
  <2>2. Cur' = Cur
    BY <2>1 DEF Cur
  <2> QED
    BY <2>1, <2>2 DEF HeldInv, OneRun, Idle
<1> QED
  BY <1>1, <1>2, <1>3, <1>4, <1>5 DEF Next

\* What is captured without a hole from the start on is delivered: the first
\* byte after rxbuf would be in a buffered segment that begins with it.
LEMMA HeldBackNothing == IInv /\ HeldInv /\ OrderlyCapture => NothingHeldBack
<1> SUFFICES ASSUME IInv, HeldInv, OrderlyCapture, Idle, captured # {},
                    NEW p \in Start..StreamLen, Start..p \subseteq captured
             PROVE  \E i \in 1..Len(rxbuf) : rxbuf[i] = p
  BY DEF NothingHeldBack
<1> DEFINE m == Len(rxbuf)
<1>1. /\ rxbuf \in Seq(1..StreamLen) /\ m \in Nat /\ StreamLen \in Nat
      /\ captured \subseteq 1..StreamLen /\ 0 \in Offsets
  BY SeqSpaceAssumption DEF IInv, TypeOK, ByteSeqs, Offsets
<1>2. Cur = next_seq /\ next_seq \notin DOMAIN ooo
  BY DEF Cur, HeldInv, Idle
<1>3. Cur # NoSeq
  BY <1>1, SeqOfValue DEF IInv, Quiet, HeldInv
<1>4. PICK e \in Offsets : Cur = SeqOf(e) /\ EndsAt(e)
  BY <1>3 DEF IInv, CurIsEnd
<1>5. WaitingIn(ooo, captured, e) /\ e \in Nat
  BY <1>1, <1>4 DEF HeldInv, Offsets
<1>6. e + 1 \notin captured
  <2> SUFFICES ASSUME e + 1 \in captured PROVE FALSE
    OBVIOUS
  <2>1. PICK s \in Segments : /\ BufferedIn(ooo, s) /\ e <= s.off
                              /\ e + 1 \in (s.off + 1)..(s.off + s.len)
    BY <1>5 DEF WaitingIn
  <2>2. s.off = e
    BY <1>5, <2>1, SegmentFacts
  <2> QED
    BY <1>2, <1>4, <2>1, <2>2 DEF BufferedIn
<1>7. CASE rxbuf = << >>
  <2>1. syn_seen /\ Start = 1
    BY <1>3, <1>7 DEF HeldInv, Start
  <2>2. e = 0
    BY <1>1, <1>4, <1>7, <2>1, SeqOfInjective DEF HeldInv
  <2>3. 1 \in Start..p
    BY <1>1, <2>1
  <2> QED
    BY <1>6, <2>2, <2>3
<1>8. CASE rxbuf # << >>
  <2> DEFINE f == rxbuf[1]
  <2>1. m > 0 /\ f \in Nat /\ Start = f /\ rxbuf[m] = e
    BY <1>1, <1>4, <1>8 DEF EndsAt, HeldInv, Start
  <2>2. e = f + m - 1
    BY <1>1, <2>1 DEF HeldInv, OneRun
  <2>a. p \in f..StreamLen /\ \A i \in 1..m : rxbuf[i] = f + i - 1
    BY <2>1 DEF HeldInv, OneRun
  <2> HIDE DEF f, m
  <2>3. ~(e + 1 <= p)
    <3>1. e + 1 <= p => e + 1 \in f..p
      BY <1>1, <1>5, <2>1, <2>2, <2>a
    <3> QED
      BY <1>6, <2>1, <3>1
  <2> DEFINE i == p - f + 1
  <2>4. p \in Int /\ f <= p
    BY <1>1, <2>1, <2>a
  <2>5. i \in 1..m /\ f + i - 1 = p
    BY <1>1, <1>5, <2>1, <2>2, <2>3, <2>4
  <2> HIDE DEF i
  <2>6. rxbuf[i] = p
    BY <2>5, <2>a
  <2> QED
    BY <2>5, <2>6 DEF m
<1> QED
  BY <1>7, <1>8

\* Direction::feed holds nothing back when retransmissions keep the cuts of
\* the segments they repeat: between calls of feed, every byte captured without
\* a hole from the start on has reached rxbuf.
THEOREM NothingHeldBackWhenCut ==
  ASSUME OrderlyCapture, KeepsCuts PROVE Spec => []NothingHeldBack
<1>1. Init => HeldInv
  <2> SUFFICES ASSUME Init PROVE HeldInv
    OBVIOUS
  <2>1. rxbuf = << >> /\ Len(rxbuf) = 0 /\ DOMAIN ooo = {} /\ captured = {} /\ ~syn_seen
        /\ next_seq = NoSeq /\ adv = NoSeq
    BY DEF Init
  <2>2. FromSegments(ooo) /\ \A u \in Offsets : WaitingIn(ooo, captured, u)
    BY <2>1 DEF FromSegments, WaitingIn
  <2>3. OneRun
    BY <2>1 DEF OneRun
  <2> QED
    BY <2>1, <2>2, <2>3 DEF HeldInv, Idle, Cur
<1>2. IInv /\ HeldInv /\ [Next]_vars => HeldInv'
  BY NextHeld
<1>3. IInv /\ HeldInv => NothingHeldBack
  BY HeldBackNothing
<1>4. Spec => []IInv
  BY IInvInvariant
<1> QED
  BY <1>1, <1>2, <1>3, <1>4, PTL DEF Spec
===============================================================================
