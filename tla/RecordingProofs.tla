---------------------------- MODULE RecordingProofs ----------------------------
(***************************************************************************)
(* Proofs about Recording, for any number of producers, records and pieces *)
(* per record.  The file and the writer's buffer together are the lines of *)
(* the records taken from the channel, cut off somewhere: IInv says which  *)
(* piece stands where, how long the whole is while recording works, and    *)
(* how far the replay, which reads line by line, has come.                 *)
(***************************************************************************)
EXTENDS Recording, SequenceTheorems, FiniteSetTheorems, TLAPS

Recs   == [from : Producers, n : Nat]
Pieces == [rec : Recs, part : 1..Newline]

\* The pieces that i complete lines have, and the place of piece k of line i.
Lines(i)  == i * Newline
Pos(i, k) == Lines(i - 1) + k

\* The file and what is buffered for it.
Written == disk \o buf

\* The records the printer is done with.
Shown == IF printer \in {"recv", "exited"} THEN taken ELSE taken - 1

Types ==
    /\ delivered \in Seq(Recs) /\ offered \in Seq(Recs) /\ replayed \in Seq(Recs)
    /\ taken \in Nat /\ taken <= Len(delivered)
    /\ tx \in {"open", "closed"}
    /\ source \in {"running", "failed", "returned"}
    /\ printer \in {"recv", "encode", "show", "exited"}
    /\ part \in 1..Newline
    /\ recorder \in {"none", "on", "failed"}
    /\ buf \in Seq(Pieces) /\ disk \in Seq(Pieces)
    /\ result \in {"running", "ok", "error", "killed"}
    /\ reading \in {"open", "ok", "error"}
    /\ rpos \in Nat

\* The sequence s consists of the lines of the records delivered, cut off.
Transcript(s) ==
    \A i \in 1..Len(delivered), k \in 1..Newline :
        Pos(i, k) <= Len(s) => s[Pos(i, k)] = [rec |-> delivered[i], part |-> k]

\* How far the file has come: all of it while recording works, and only the
\* line that is being written is buffered.
FileInv ==
    /\ Transcript(Written)
    /\ Len(Written) <= Lines(taken)
    /\ recorder = "on" =>
          Len(Written) = IF printer = "encode" THEN Pos(taken, part) - 1 ELSE Lines(taken)
    /\ IF printer = "encode" THEN recorder = "on" /\ Len(buf) < part ELSE buf = << >>
    /\ recorder = "none" <=> ~Saving

\* What has ended, and why.
EndInv ==
    /\ printer \in {"encode", "show"} => taken > 0
    /\ printer = "exited" => taken = Len(delivered) /\ tx = "closed"
    /\ result = "ok" => printer = "exited" /\ recorder # "failed"

\* Each line that was read is a record; only the last line may lack its newline.
ReplayInv ==
    /\ Running => rpos = 0 /\ replayed = << >> /\ reading = "open"
    /\ Len(replayed) <= Len(delivered)
    /\ \A i \in 1..Len(replayed) : replayed[i] = delivered[i]
    /\ \/ rpos = Lines(Len(replayed))
       \/ rpos = Len(disk) /\ rpos + 1 = Lines(Len(replayed))
    /\ rpos <= Len(disk)
    /\ reading # "open" => Saving
    /\ reading = "ok" => rpos = Len(disk)
    /\ reading = "error" => result # "ok" /\ rpos + LineLen = Len(disk)

IInv == Types /\ FileInv /\ EndInv /\ ShownUpTo(Shown) /\ ReplayInv

-----------------------------------------------------------------------------
(* Places in the file                                                      *)

\* A line has at least one piece of JSON and the newline.
LEMMA NewlineFacts ==
  /\ JsonPieces \in Nat /\ JsonPieces > 0
  /\ Newline \in Nat /\ Newline > 1 /\ Newline = JsonPieces + 1
  BY RecordingAssumption DEF Newline

\* Lines are equally long.
LEMMA LinesFacts ==
  ASSUME NEW i \in Nat
  PROVE  /\ Lines(i) \in Nat /\ Lines(0) = 0
         /\ Lines(i + 1) = Lines(i) + Newline
         /\ \A j \in Nat : i < j => Lines(i) + Newline <= Lines(j)
<1> DEFINE N == Newline
<1>1. N \in Nat /\ N > 1
  BY NewlineFacts
<1> HIDE DEF N
<1>2. i * N \in Nat /\ 0 * N = 0 /\ (i + 1) * N = i * N + N
  BY <1>1
<1>3. ASSUME NEW j \in Nat, i < j PROVE i * N + N <= j * N
  <2> DEFINE d == j - (i + 1)
  <2>1. d \in Nat /\ j = (i + 1) + d
    BY <1>3
  <2> HIDE DEF d
  <2>2. d * N \in Nat /\ ((i + 1) + d) * N = (i * N + N) + d * N
    BY <1>1, <2>1
  <2> QED
    BY <1>2, <1>1, <2>1, <2>2
<1> QED
  BY <1>2, <1>3 DEF Lines, N

\* The place of a piece tells its line and its number in it.
LEMMA PosFacts ==
  ASSUME NEW i \in Nat \ {0}, NEW k \in 1..Newline
  PROVE  /\ Pos(i, k) \in Nat /\ Pos(i, k) > 0 /\ Pos(i, k) = Lines(i - 1) + k
         /\ Pos(i, k) <= Lines(i) /\ Pos(i, Newline) = Lines(i)
         /\ \A j \in Nat \ {0}, l \in 1..Newline : Pos(i, k) = Pos(j, l) => i = j /\ k = l
<1>1. Newline \in Nat /\ Newline > 1
  BY NewlineFacts
<1>2. i - 1 \in Nat /\ (i - 1) + 1 = i
  OBVIOUS
<1>3. Lines(i - 1) \in Nat /\ Lines(i) = Lines(i - 1) + Newline
      /\ \A j \in Nat : i - 1 < j => Lines(i - 1) + Newline <= Lines(j)
  BY <1>2, LinesFacts
<1>4. ASSUME NEW j \in Nat \ {0}, NEW l \in 1..Newline, Pos(i, k) = Pos(j, l)
      PROVE  i = j /\ k = l
  <2>1. j - 1 \in Nat
    OBVIOUS
  <2>2. Lines(j - 1) \in Nat /\ \A m \in Nat : j - 1 < m => Lines(j - 1) + Newline <= Lines(m)
    BY <2>1, LinesFacts
  <2>3. Lines(i - 1) + k = Lines(j - 1) + l
    BY <1>4 DEF Pos
  <2>4. ~(i - 1 < j - 1)
    <3>1. i - 1 < j - 1 => Lines(i - 1) + Newline <= Lines(j - 1)
      BY <1>3, <2>1
    <3> QED
      BY <1>1, <1>3, <2>2, <2>3, <3>1
  <2>5. ~(j - 1 < i - 1)
    <3>1. j - 1 < i - 1 => Lines(j - 1) + Newline <= Lines(i - 1)
      BY <1>2, <2>2
    <3> QED
      BY <1>1, <1>3, <2>2, <2>3, <3>1
  <2>6. i = j
    BY <2>4, <2>5
  <2> QED
    BY <1>1, <1>3, <2>3, <2>6
<1> QED
  BY <1>1, <1>3, <1>4 DEF Pos

-----------------------------------------------------------------------------
(* Transcripts                                                             *)

\* What is cut off a transcript leaves a transcript.
LEMMA TranscriptCut ==
  ASSUME NEW s \in Seq(Pieces), NEW t \in Seq(Pieces), Transcript(s), Len(t) <= Len(s),
         \A j \in 1..Len(t) : t[j] = s[j], delivered \in Seq(Recs)
  PROVE  Transcript(t)
<1> SUFFICES ASSUME NEW i \in 1..Len(delivered), NEW k \in 1..Newline, Pos(i, k) <= Len(t)
             PROVE  t[Pos(i, k)] = [rec |-> delivered[i], part |-> k]
  BY DEF Transcript
<1>1. i \in Nat \ {0}
  OBVIOUS
<1>2. Pos(i, k) \in Nat /\ Pos(i, k) > 0
  BY <1>1, PosFacts
<1>3. Len(t) \in Nat /\ Len(s) \in Nat
  OBVIOUS
<1>4. Pos(i, k) \in 1..Len(t) /\ Pos(i, k) <= Len(s)
  BY <1>2, <1>3
<1> QED
  BY <1>4 DEF Transcript

\* The next piece of the record in hand continues the transcript.
LEMMA TranscriptGrows ==
  ASSUME Types, NEW s \in Seq(Pieces), Transcript(s), taken > 0, Len(s) = Pos(taken, part) - 1
  PROVE  /\ Piece(part) \in Pieces
         /\ Append(s, Piece(part)) \in Seq(Pieces)
         /\ Len(Append(s, Piece(part))) = Pos(taken, part)
         /\ Transcript(Append(s, Piece(part)))
<1> DEFINE x == Piece(part)
           t == Append(s, x)
<1>1. delivered \in Seq(Recs) /\ taken \in 1..Len(delivered) /\ part \in 1..Newline
      /\ taken \in Nat \ {0} /\ Len(s) \in Nat
  BY DEF Types
<1>2. delivered[taken] \in Recs
  BY <1>1, ElementOfSeq
<1>3. x \in Pieces /\ x = [rec |-> delivered[taken], part |-> part]
  BY <1>1, <1>2 DEF Piece, Current, Pieces
<1>4. Pos(taken, part) \in Nat /\ Len(s) + 1 = Pos(taken, part)
  BY <1>1, PosFacts
<1> HIDE DEF x
<1>5. /\ t \in Seq(Pieces) /\ Len(t) = Len(s) + 1
      /\ \A j \in 1..Len(s) : t[j] = s[j]
      /\ t[Len(s) + 1] = x
  BY <1>3, AppendProperties
<1> HIDE DEF t
<1>6. ASSUME NEW i \in 1..Len(delivered), NEW k \in 1..Newline, Pos(i, k) <= Len(t)
      PROVE  t[Pos(i, k)] = [rec |-> delivered[i], part |-> k]
  <2>1. i \in Nat \ {0}
    BY <1>1
  <2>2. Pos(i, k) \in Nat /\ Pos(i, k) > 0
    BY <2>1, PosFacts
  <2>3. CASE Pos(i, k) = Len(s) + 1
    <3>1. i = taken /\ k = part
      BY <1>1, <1>4, <2>1, <2>3, PosFacts
    <3> QED
      BY <1>3, <1>5, <2>3, <3>1
  <2>4. CASE Pos(i, k) # Len(s) + 1
    <3>1. Pos(i, k) \in 1..Len(s) /\ Pos(i, k) <= Len(s)
      BY <1>1, <1>5, <1>6, <2>2, <2>4
    <3> QED
      BY <1>5, <3>1 DEF Transcript
  <2> QED
    BY <2>3, <2>4
<1> QED
  BY <1>3, <1>4, <1>5, <1>6 DEF Transcript, t, x

\* The file and the buffer as sequences.
LEMMA WrittenFacts ==
  ASSUME Types
  PROVE  /\ Written \in Seq(Pieces) /\ Len(Written) = Len(disk) + Len(buf)
         /\ Len(disk) \in Nat /\ Len(buf) \in Nat /\ Len(Written) \in Nat
         /\ \A j \in 1..Len(disk) : Written[j] = disk[j]
         /\ buf = << >> => Written = disk
<1>1. disk \in Seq(Pieces) /\ buf \in Seq(Pieces)
  BY DEF Types
<1>2. Len(disk) \in Nat /\ Len(buf) \in Nat
  BY <1>1
<1>3. /\ disk \o buf \in Seq(Pieces) /\ Len(disk \o buf) = Len(disk) + Len(buf)
      /\ \A j \in 1..(Len(disk) + Len(buf)) :
            (disk \o buf)[j] = IF j <= Len(disk) THEN disk[j] ELSE buf[j - Len(disk)]
  BY <1>1, ConcatProperties
<1>4. \A j \in 1..Len(disk) : j \in 1..(Len(disk) + Len(buf)) /\ j <= Len(disk)
  BY <1>2
<1>5. buf = << >> => disk \o buf = disk
  BY <1>1, ConcatEmptySeq
<1> QED
  BY <1>2, <1>3, <1>4, <1>5 DEF Written

\* The file is a transcript.
LEMMA DiskTranscript ==
  ASSUME Types, FileInv
  PROVE  Transcript(disk) /\ Len(disk) <= Lines(taken)
<1>1. disk \in Seq(Pieces) /\ delivered \in Seq(Recs) /\ taken \in Nat
  BY DEF Types
<1>2. Len(disk) <= Len(Written)
  BY WrittenFacts
<1>3. Transcript(disk)
  BY <1>1, <1>2, WrittenFacts, TranscriptCut DEF FileInv
<1>4. Lines(taken) \in Nat /\ Len(Written) <= Lines(taken)
  BY <1>1, LinesFacts DEF FileInv
<1> QED
  BY <1>2, <1>3, <1>4, WrittenFacts

\* A record that the channel receives later leaves the transcript alone.
LEMMA TranscriptStays ==
  ASSUME Types, NEW s \in Seq(Pieces), Transcript(s), Len(s) <= Lines(taken),
         NEW e \in Recs, delivered' = Append(delivered, e)
  PROVE  /\ delivered' \in Seq(Recs) /\ Len(delivered') = Len(delivered) + 1
         /\ \A i \in 1..Len(delivered) : delivered'[i] = delivered[i]
         /\ \A i \in 1..Len(delivered'), k \in 1..Newline :
               Pos(i, k) <= Len(s) => s[Pos(i, k)] = [rec |-> delivered'[i], part |-> k]
<1> DEFINE m == Len(delivered)
<1>1. delivered \in Seq(Recs) /\ m \in Nat /\ taken \in Nat /\ taken <= m /\ Len(s) \in Nat
  BY DEF Types
<1>2. delivered' \in Seq(Recs) /\ Len(delivered') = m + 1
      /\ \A i \in 1..m : delivered'[i] = delivered[i]
  BY <1>1, AppendProperties
<1>3. ASSUME NEW i \in 1..(m + 1), NEW k \in 1..Newline, Pos(i, k) <= Len(s)
      PROVE  i \in 1..m
  <2> SUFFICES ASSUME i = m + 1 PROVE FALSE
    BY <1>1
  <2>1. Lines(taken) \in Nat /\ Lines(m) \in Nat
        /\ (taken < m => Lines(taken) + Newline <= Lines(m)) /\ Newline \in Nat
    BY <1>1, LinesFacts, NewlineFacts
  <2>2. Lines(taken) <= Lines(m)
    BY <1>1, <2>1
  <2>3. Pos(i, k) = Lines(m) + k
    BY <1>1 DEF Pos
  <2> QED
    BY <1>1, <1>3, <2>1, <2>2, <2>3
<1> QED
  BY <1>2, <1>3 DEF Transcript

-----------------------------------------------------------------------------
(* The session                                                             *)

\* As long as the process runs nothing is replayed.
LEMMA NotReplayed ==
  ASSUME IInv, Running, UNCHANGED readVars, delivered' \in Seq(Recs), disk' \in Seq(Pieces)
  PROVE  ReplayInv'
<1>1. rpos' = 0 /\ replayed' = << >> /\ reading' = "open"
  BY DEF IInv, ReplayInv, readVars
<1>2. Len(replayed') = 0 /\ Len(delivered') \in Nat /\ 0 <= Len(disk')
  <2>1. Len(disk') \in Nat /\ Len(delivered') \in Nat
    OBVIOUS
  <2> QED
    BY <1>1, <2>1
<1>3. Lines(0) = 0
  BY LinesFacts
<1> QED
  BY <1>1, <1>2, <1>3 DEF ReplayInv

\* What was offered to stdout stays right as long as nothing is offered or sent.
LEMMA ShownStays ==
  ASSUME ShownUpTo(Shown), delivered' = delivered, offered' = offered, Shown' = Shown
  PROVE  ShownUpTo(Shown)'
<1> DEFINE n == Shown
<1>1. ShownUpTo(n) /\ Shown' = n
  OBVIOUS
<1> HIDE DEF n
<1> QED
  BY <1>1 DEF ShownUpTo

\* Steps that touch neither the printer nor the file.
LEMMA PrinterLeft ==
  ASSUME IInv, UNCHANGED <<delivered, taken, printer, part, recorder, buf, disk, offered>>,
         Types', EndInv', ReplayInv'
  PROVE  IInv'
<1>1. FileInv'
  BY DEF IInv, FileInv, Transcript, Written
<1>2. ShownUpTo(Shown)'
  BY ShownStays DEF IInv, Shown
<1> QED
  BY <1>1, <1>2 DEF IInv

\* The main thread: the source returns, the output is closed, the printer is
\* joined, or the process is killed.
LEMMA MainStep ==
  ASSUME IInv, (\E how \in {"returned", "failed"} : SourceReturns(how)) \/ CloseOutput \/ Return \/ Kill
  PROVE  IInv'
<1>1. /\ UNCHANGED <<delivered, taken, printer, part, recorder, buf, disk, offered, readVars>>
      /\ Running
  BY DEF SourceReturns, CloseOutput, Return, Kill, fileVars, outputVars
<1>2. /\ tx' \in {"open", "closed"} /\ (tx = "closed" => tx' = "closed")
      /\ source' \in {"running", "failed", "returned"}
      /\ result' \in {"running", "ok", "error", "killed"}
      /\ result' = "ok" => printer = "exited" /\ recorder # "failed"
  BY DEF IInv, Types, SourceReturns, CloseOutput, Return, Kill, Running
<1>3. Types'
  BY <1>1, <1>2 DEF IInv, Types, readVars
<1>4. EndInv'
  BY <1>1, <1>2 DEF IInv, EndInv
<1>5. ReplayInv'
  BY <1>1, <1>3, NotReplayed DEF Types
<1> QED
  BY <1>1, <1>3, <1>4, <1>5, PrinterLeft

\* A producer sends a record.
LEMMA DeliverStep ==
  ASSUME IInv, NEW p \in Producers, Deliver(p)
  PROVE  IInv'
<1> DEFINE e == [from |-> p, n |-> SentBy(p) + 1]
           m == Len(delivered)
<1>1. /\ UNCHANGED <<tx, source, result, taken, printer, part, recorder, buf, disk, offered, readVars>>
      /\ Running /\ tx = "open" /\ delivered' = Append(delivered, e)
  BY DEF Deliver, fileVars, outputVars
<1>2. Types /\ delivered \in Seq(Recs) /\ m \in Nat /\ taken \in Nat /\ taken <= m
  BY DEF IInv, Types
<1>3. SentBy(p) \in Nat
  <2> DEFINE T == {i \in 1..Len(delivered) : delivered[i].from = p}
  <2>1. IsFiniteSet(1..m)
    BY <1>2, FS_Interval
  <2>2. IsFiniteSet(T)
    BY <2>1, FS_Subset
  <2> QED
    BY <2>2, FS_CardinalityType DEF SentBy
<1>4. e \in Recs
  BY <1>3 DEF Recs
<1> HIDE DEF e
<1>5. Written \in Seq(Pieces) /\ Transcript(Written) /\ Len(Written) <= Lines(taken)
  BY <1>2, WrittenFacts DEF IInv, FileInv
<1>6. /\ delivered' \in Seq(Recs) /\ Len(delivered') = m + 1
      /\ \A i \in 1..m : delivered'[i] = delivered[i]
      /\ \A i \in 1..Len(delivered'), k \in 1..Newline :
            Pos(i, k) <= Len(Written) => Written[Pos(i, k)] = [rec |-> delivered'[i], part |-> k]
  BY <1>1, <1>2, <1>4, <1>5, TranscriptStays
<1>7. Types'
  <2>1. taken' <= Len(delivered')
    BY <1>1, <1>2, <1>6
  <2> QED
    BY <1>1, <1>2, <1>6, <2>1 DEF Types, readVars
<1>8. FileInv'
  <2>1. Written' = Written
    BY <1>1 DEF Written
  <2>2. Transcript(Written)'
    BY <1>6, <2>1 DEF Transcript
  <2> QED
    BY <1>1, <2>1, <2>2 DEF IInv, FileInv
<1>9. EndInv'
  BY <1>1 DEF IInv, EndInv, Running
<1>10. ShownUpTo(Shown)'
  <2>1. PICK at \in [1..Len(offered) -> 1..Shown] :
            /\ \A i, j \in 1..Len(offered) : i < j => at[i] < at[j]
            /\ \A i \in 1..Len(offered) : offered[i] = delivered[at[i]]
            /\ \A k \in 1..Shown :
                  delivered[k].from \notin Hidden <=> \E i \in 1..Len(offered) : at[i] = k
    BY DEF IInv, ShownUpTo
  <2>2. Shown' = Shown /\ 1..Shown \subseteq 1..m
    BY <1>1, <1>2 DEF Shown
  <2>3. \A k \in 1..Shown : delivered'[k] = delivered[k]
    BY <1>6, <2>2
  <2>4. \A i \in 1..Len(offered) : offered[i] = delivered'[at[i]]
    BY <2>1, <2>3
  <2>5. \A k \in 1..Shown :
           delivered'[k].from \notin Hidden <=> \E i \in 1..Len(offered) : at[i] = k
    BY <2>1, <2>3
  <2> QED
    BY <1>1, <2>1, <2>2, <2>4, <2>5 DEF ShownUpTo
<1>11. ReplayInv'
  BY <1>1, <1>6, <1>7, NotReplayed DEF Types
<1> QED
  BY <1>7, <1>8, <1>9, <1>10, <1>11 DEF IInv

\* The printer takes a record.
LEMMA RecvStep ==
  ASSUME IInv, Recv
  PROVE  IInv'
<1>1. /\ UNCHANGED <<delivered, tx, source, result, recorder, buf, disk, offered, readVars>>
      /\ Running /\ printer = "recv" /\ taken < Len(delivered)
      /\ taken' = taken + 1 /\ part' = 1
      /\ printer' = IF recorder = "on" THEN "encode" ELSE "show"
  BY DEF Recv, outVars, fileVars, outputVars
<1>2. Types /\ delivered \in Seq(Recs) /\ Len(delivered) \in Nat /\ taken \in Nat /\ Newline \in Nat
      /\ Newline > 1
  BY NewlineFacts DEF IInv, Types
<1>3. Types'
  <2>1. taken' \in Nat /\ taken' <= Len(delivered') /\ part' \in 1..Newline
    BY <1>1, <1>2
  <2> QED
    BY <1>1, <1>2, <2>1 DEF Types, readVars
<1>4. FileInv'
  <2>1. Written' = Written /\ Len(Written) \in Nat
    BY <1>1, <1>2, WrittenFacts DEF Written
  <2>2. Transcript(Written)'
    BY <1>1, <2>1 DEF IInv, FileInv, Transcript
  <2>3. Lines(taken) \in Nat /\ Lines(taken + 1) = Lines(taken) + Newline
        /\ Len(Written) <= Lines(taken)
    BY <1>2, LinesFacts DEF IInv, FileInv
  <2>4. Len(Written') <= Lines(taken')
    BY <1>1, <1>2, <2>1, <2>3
  <2>5. Pos(taken', part') - 1 = Lines(taken)
    <3>1. (taken + 1) - 1 = taken
      BY <1>2
    <3>2. Pos(taken', part') = Lines(taken) + 1
      BY <1>1, <3>1 DEF Pos
    <3> QED
      BY <2>3, <3>2
  <2>6. buf' = << >> /\ Len(buf') = 0
    BY <1>1 DEF IInv, FileInv
  <2>7. recorder = "on" => Len(Written) = Lines(taken)
    BY <1>1 DEF IInv, FileInv
  <2> QED
    BY <1>1, <2>1, <2>2, <2>4, <2>5, <2>6, <2>7 DEF IInv, FileInv
<1>5. EndInv'
  BY <1>1, <1>2 DEF IInv, EndInv, Running
<1>6. ShownUpTo(Shown)'
  <2>1. Shown' = Shown
    BY <1>1, <1>2 DEF Shown
  <2> QED
    BY <1>1, <2>1, ShownStays DEF IInv
<1>7. ReplayInv'
  BY <1>1, <1>3, NotReplayed DEF Types
<1> QED
  BY <1>3, <1>4, <1>5, <1>6, <1>7 DEF IInv

\* What the recorder writes next continues the transcript.
LEMMA Encoding ==
  ASSUME IInv, printer = "encode"
  PROVE  LET x == Piece(part)
             t == Append(Written, x)
         IN  /\ Types /\ taken \in Nat \ {0} /\ part \in 1..Newline /\ recorder = "on"
             /\ x \in Pieces /\ t \in Seq(Pieces) /\ Transcript(t) /\ Len(t) = Pos(taken, part)
             /\ Written \in Seq(Pieces) /\ Len(Written) + 1 = Len(t)
             /\ Pos(taken, part) \in Nat /\ Pos(taken, part) <= Lines(taken)
             /\ Len(buf) < part
             /\ disk \o Append(buf, x) = t /\ Written \o <<x>> = t /\ t \o << >> = t
<1> DEFINE x == Piece(part)
           t == Append(Written, x)
<1>1. Types /\ taken \in Nat \ {0} /\ part \in 1..Newline /\ recorder = "on" /\ Len(buf) < part
      /\ Transcript(Written) /\ Len(Written) = Pos(taken, part) - 1
  BY DEF IInv, Types, EndInv, FileInv
<1>2. Written \in Seq(Pieces) /\ disk \in Seq(Pieces) /\ buf \in Seq(Pieces)
  BY <1>1, WrittenFacts DEF Types
<1>3. taken > 0
  BY <1>1
<1>4. x \in Pieces /\ t \in Seq(Pieces) /\ Len(t) = Pos(taken, part) /\ Transcript(t)
  BY <1>1, <1>2, <1>3, TranscriptGrows
<1>5. Pos(taken, part) \in Nat /\ Pos(taken, part) <= Lines(taken)
  BY <1>1, PosFacts
<1>6. Len(Written) + 1 = Len(t)
  BY <1>1, <1>4, <1>5
<1> HIDE DEF x
<1>7. <<x>> \in Seq(Pieces) /\ Append(buf, x) = buf \o <<x>> /\ t = Written \o <<x>>
  BY <1>2, <1>4, AppendIsConcat
<1>8. disk \o (buf \o <<x>>) = (disk \o buf) \o <<x>>
  BY <1>2, <1>7, ConcatAssociative
<1>9. t \o << >> = t
  BY <1>4, ConcatEmptySeq
<1> QED
  BY <1>1, <1>2, <1>4, <1>5, <1>6, <1>7, <1>8, <1>9 DEF Written, x

\* The recorder writes a piece of JSON.
LEMMA WriteJsonStep ==
  ASSUME IInv, WriteJson
  PROVE  IInv'
<1> DEFINE x == Piece(part)
           t == Append(Written, x)
<1>1. /\ UNCHANGED <<delivered, tx, source, result, taken, printer, recorder, offered, readVars>>
      /\ Running /\ printer = "encode" /\ part < Newline /\ part' = part + 1
      /\ \/ buf' = Append(buf, x) /\ disk' = disk
         \/ buf' = <<x>> /\ disk' = Written
         \/ buf' = << >> /\ disk' = t
  BY DEF WriteJson, outVars, Written, outputVars
<1>2. /\ Types /\ taken \in Nat \ {0} /\ part \in 1..Newline /\ recorder = "on"
      /\ x \in Pieces /\ t \in Seq(Pieces) /\ Transcript(t) /\ Len(t) = Pos(taken, part)
      /\ Written \in Seq(Pieces)
      /\ Pos(taken, part) \in Nat /\ Pos(taken, part) <= Lines(taken)
      /\ Len(buf) < part
      /\ disk \o Append(buf, x) = t /\ Written \o <<x>> = t /\ t \o << >> = t
  BY <1>1, Encoding
<1>3. buf \in Seq(Pieces) /\ disk \in Seq(Pieces) /\ Len(buf) \in Nat /\ part \in Nat /\ Newline \in Nat
  BY <1>2, NewlineFacts DEF Types
<1> HIDE DEF x, t
<1>4. /\ buf' \in Seq(Pieces) /\ disk' \in Seq(Pieces) /\ Written' = t
      /\ Len(buf') < part'
  <2>1. CASE buf' = Append(buf, x) /\ disk' = disk
    <3>1. Append(buf, x) \in Seq(Pieces) /\ Len(Append(buf, x)) = Len(buf) + 1
      BY <1>2, <1>3, AppendProperties
    <3>2. Written' = disk \o Append(buf, x)
      BY <2>1 DEF Written
    <3>3. Len(buf') < part'
      BY <1>1, <1>2, <1>3, <2>1, <3>1
    <3> QED
      BY <1>2, <1>3, <2>1, <3>1, <3>2, <3>3
  <2>2. CASE buf' = <<x>> /\ disk' = Written
    <3>1. <<x>> \in Seq(Pieces) /\ Len(<<x>>) = 1
      BY <1>2
    <3>2. Written' = Written \o <<x>>
      BY <2>2 DEF Written
    <3> QED
      BY <1>1, <1>2, <1>3, <2>2, <3>1, <3>2
  <2>3. CASE buf' = << >> /\ disk' = t
    <3>1. << >> \in Seq(Pieces) /\ Len(<< >>) = 0
      OBVIOUS
    <3> QED
      BY <1>1, <1>2, <1>3, <2>3, <3>1 DEF Written
  <2> QED
    BY <1>1, <2>1, <2>2, <2>3
<1>5. Types'
  <2>1. part' \in 1..Newline
    BY <1>1, <1>3
  <2> QED
    BY <1>1, <1>2, <1>4, <2>1 DEF Types, readVars
<1>6. FileInv'
  <2>1. Transcript(Written)'
    BY <1>1, <1>2, <1>4 DEF Transcript
  <2>2. Pos(taken', part') - 1 = Pos(taken, part)
    <3>0. taken - 1 \in Nat
      BY <1>2
    <3>1. Lines(taken - 1) \in Nat
      BY <3>0, LinesFacts
    <3> QED
      BY <1>1, <1>3, <3>1 DEF Pos
  <2> QED
    BY <1>1, <1>2, <1>4, <2>1, <2>2 DEF IInv, FileInv
<1>7. EndInv'
  BY <1>1 DEF IInv, EndInv
<1>8. ShownUpTo(Shown)'
  BY <1>1 DEF IInv, ShownUpTo, Shown
<1>9. ReplayInv'
  BY <1>1, <1>2, NotReplayed DEF Types
<1> QED
  BY <1>5, <1>6, <1>7, <1>8, <1>9 DEF IInv

\* The recorder is done with a record, well or not: nothing is buffered, and
\* the file is the transcript up to some piece of the record.
LEMMA RecordDone ==
  ASSUME IInv, Running, printer = "encode", printer' = "show", buf' = << >>,
         disk' \in Seq(Pieces), Transcript(disk'), Len(disk') <= Lines(taken),
         \/ recorder' = "on" /\ Len(disk') = Lines(taken)
         \/ recorder' = "failed",
         UNCHANGED <<delivered, tx, source, result, taken, part, offered, readVars>>
  PROVE  IInv'
<1>1. recorder = "on" /\ Types
  BY DEF IInv, FileInv
<1>2. Types'
  BY <1>1 DEF Types, readVars
<1>3. FileInv'
  <2>1. Written' = disk'
    BY ConcatEmptySeq DEF Written
  <2>2. Transcript(Written)'
    BY <2>1 DEF Transcript
  <2> QED
    BY <1>1, <2>1, <2>2 DEF IInv, FileInv
<1>4. EndInv'
  BY DEF IInv, EndInv, Running
<1>5. ShownUpTo(Shown)'
  BY DEF IInv, ShownUpTo, Shown
<1>6. ReplayInv'
  BY <1>1, NotReplayed DEF Types
<1> QED
  BY <1>2, <1>3, <1>4, <1>5, <1>6 DEF IInv

\* The newline completes the line and flushes it.
LEMMA WriteNewlineStep ==
  ASSUME IInv, WriteNewline
  PROVE  IInv'
<1> DEFINE x == Piece(part)
           t == Append(Written, x)
<1>1. /\ UNCHANGED <<delivered, tx, source, result, taken, part, recorder, offered, readVars>>
      /\ Running /\ printer = "encode" /\ part = Newline /\ printer' = "show"
      /\ buf' = << >> /\ disk' = t
  BY DEF WriteNewline, outVars, Written, outputVars
<1>2. /\ taken \in Nat \ {0} /\ recorder = "on" /\ part \in 1..Newline
      /\ t \in Seq(Pieces) /\ Transcript(t) /\ Len(t) = Pos(taken, part)
      /\ Pos(taken, part) <= Lines(taken)
  BY <1>1, Encoding
<1>3. Pos(taken, Newline) = Lines(taken)
  BY <1>2, PosFacts
<1> HIDE DEF t
<1> QED
  BY <1>1, <1>2, <1>3, RecordDone

\* Writing only the first k pieces of h.
LEMMA ConcatCut ==
  ASSUME NEW S, NEW d \in Seq(S), NEW h \in Seq(S), NEW k \in 0..Len(h)
  PROVE  LET c == d \o SubSeq(h, 1, k)
         IN  /\ c \in Seq(S) /\ Len(c) <= Len(d \o h)
             /\ \A j \in 1..Len(c) : c[j] = (d \o h)[j]
<1> DEFINE g == SubSeq(h, 1, k)
           c == d \o g
           m == Len(d)
           l == Len(h)
<1>1. m \in Nat /\ l \in Nat /\ k \in Nat /\ k <= l
  OBVIOUS
<1>2. g \in Seq(S) /\ Len(g) = k /\ \A i \in 1..k : g[i] = h[i]
  <2>1. \A i \in 1..k : h[i] \in S
    BY <1>1, ElementOfSeq
  <2>2. /\ g \in Seq(S) /\ Len(g) = (IF 1 <= k THEN k - 1 + 1 ELSE 0)
        /\ \A i \in 1..(k - 1 + 1) : g[i] = h[1 + i - 1]
    BY <1>1, <2>1, SubSeqProperties
  <2> HIDE DEF g
  <2>3. k - 1 + 1 = k /\ (~(1 <= k) => k = 0) /\ \A i \in 1..k : 1 + i - 1 = i
    BY <1>1
  <2> QED
    BY <2>2, <2>3
<1> HIDE DEF g
<1>3. /\ c \in Seq(S) /\ Len(c) = m + k
      /\ \A j \in 1..(m + k) : c[j] = IF j <= m THEN d[j] ELSE g[j - m]
  BY <1>2, ConcatProperties
<1>4. /\ Len(d \o h) = m + l
      /\ \A j \in 1..(m + l) : (d \o h)[j] = IF j <= m THEN d[j] ELSE h[j - m]
  BY ConcatProperties
<1> HIDE DEF c, m, l
<1>5. ASSUME NEW j \in 1..(m + k) PROVE c[j] = (d \o h)[j]
  <2>1. j \in 1..(m + l)
    BY <1>1
  <2>2. CASE j <= m
    BY <1>3, <1>4, <2>1, <2>2
  <2>3. CASE ~(j <= m)
    <3>1. j - m \in 1..k
      BY <1>1, <2>3
    <3> QED
      BY <1>2, <1>3, <1>4, <2>1, <2>3, <3>1
  <2> QED
    BY <2>2, <2>3
<1>6. Len(c) <= Len(d \o h)
  BY <1>1, <1>3, <1>4
<1> QED
  BY <1>3, <1>5, <1>6 DEF c, g

\* A write fails somewhere in the line: the recording ends.
LEMMA WriteFailsStep ==
  ASSUME IInv, WriteFails
  PROVE  IInv'
<1> DEFINE x == Piece(part)
           t == Append(Written, x)
           held == IF part = Newline THEN Append(buf, x) ELSE buf
<1>1. /\ UNCHANGED <<delivered, tx, source, result, taken, part, offered, readVars>>
      /\ Running /\ printer = "encode" /\ printer' = "show"
      /\ buf' = << >> /\ recorder' = "failed"
      /\ \E k \in 0..Len(held) : disk' = disk \o SubSeq(held, 1, k)
  BY DEF WriteFails, outVars, outputVars
<1>2. PICK k \in 0..Len(held) : disk' = disk \o SubSeq(held, 1, k)
  BY <1>1
<1>3. /\ Types /\ x \in Pieces /\ t \in Seq(Pieces) /\ Transcript(t) /\ Len(t) = Pos(taken, part)
      /\ Written \in Seq(Pieces) /\ taken \in Nat
      /\ Pos(taken, part) \in Nat /\ Pos(taken, part) <= Lines(taken)
      /\ disk \o Append(buf, x) = t
  BY <1>1, Encoding
<1>4. /\ disk \in Seq(Pieces) /\ buf \in Seq(Pieces) /\ delivered \in Seq(Recs)
      /\ Lines(taken) \in Nat
  BY <1>3, LinesFacts DEF Types
<1> HIDE DEF x, t
<1>5. held \in Seq(Pieces)
  <2>1. Append(buf, x) \in Seq(Pieces)
    BY <1>3, <1>4, AppendProperties
  <2> QED
    BY <1>4, <2>1
<1> DEFINE w == disk \o held
<1>6. w \in Seq(Pieces) /\ Transcript(w) /\ Len(w) <= Lines(taken) /\ Len(w) \in Nat
  <2>1. CASE part = Newline
    <3>1. w = t
      BY <1>3, <2>1
    <3> QED
      BY <1>3, <3>1
  <2>2. CASE part # Newline
    <3>1. w = Written
      BY <2>2 DEF Written
    <3> QED
      BY <1>3, <3>1, WrittenFacts DEF IInv, FileInv
  <2> QED
    BY <2>1, <2>2
<1> HIDE DEF held
<1>7. /\ disk' \in Seq(Pieces) /\ Len(disk') <= Len(w)
      /\ \A j \in 1..Len(disk') : disk'[j] = w[j]
  <2> DEFINE c == disk \o SubSeq(held, 1, k)
  <2>1. /\ c \in Seq(Pieces) /\ Len(c) <= Len(w)
        /\ \A j \in 1..Len(c) : c[j] = w[j]
    BY <1>4, <1>5, ConcatCut
  <2>2. disk' = c
    BY <1>2
  <2> HIDE DEF c, w
  <2> QED
    BY <2>1, <2>2
<1> HIDE DEF w
<1>8. Transcript(disk')
  BY <1>4, <1>6, <1>7, TranscriptCut
<1>9. Len(disk') <= Lines(taken)
  BY <1>4, <1>6, <1>7
<1> QED
  BY <1>1, <1>7, <1>8, <1>9, RecordDone

\* The printer finds the channel closed and empty.
LEMMA PrinterExitsStep ==
  ASSUME IInv, PrinterExits
  PROVE  IInv'
<1>1. /\ UNCHANGED <<delivered, tx, source, result, taken, part, recorder, offered, readVars>>
      /\ Running /\ printer = "recv" /\ printer' = "exited"
      /\ taken = Len(delivered) /\ tx = "closed" /\ disk' = disk \o buf /\ buf' = << >>
  BY DEF PrinterExits, outVars, outputVars
<1>2. Types /\ buf = << >> /\ disk \in Seq(Pieces)
  BY <1>1 DEF IInv, FileInv, Types
<1>3. disk' = disk
  BY <1>1, <1>2, ConcatEmptySeq
<1>4. Types'
  BY <1>1, <1>2, <1>3 DEF Types, readVars
<1>5. FileInv'
  BY <1>1, <1>2, <1>3 DEF IInv, FileInv, Transcript, Written
<1>6. EndInv' /\ ShownUpTo(Shown)'
  <2>1. EndInv'
    BY <1>1 DEF IInv, EndInv, Running
  <2>2. Shown' = Shown
    BY <1>1 DEF Shown
  <2>3. ShownUpTo(Shown)'
    BY <1>1, <2>2, ShownStays DEF IInv
  <2> QED
    BY <2>1, <2>3
<1>7. ReplayInv'
  BY <1>1, <1>2, NotReplayed DEF Types
<1> QED
  BY <1>4, <1>5, <1>6, <1>7 DEF IInv

\* A record is offered, unless it is hidden.
LEMMA ShowStep ==
  ASSUME IInv, Show
  PROVE  IInv'
<1> DEFINE m == Len(offered)
           s == Shown
<1>1. /\ UNCHANGED <<delivered, tx, source, result, taken, part, recorder, buf, disk, readVars>>
      /\ Running /\ printer = "show" /\ printer' = "recv"
      /\ offered' = IF Current.from \in Hidden THEN offered ELSE Append(offered, Current)
  BY DEF Show, outVars, fileVars, outputVars
<1>2. Types /\ delivered \in Seq(Recs) /\ offered \in Seq(Recs) /\ taken \in Nat /\ taken > 0
      /\ taken \in 1..Len(delivered) /\ m \in Nat
  BY <1>1 DEF IInv, Types, EndInv
<1>3. s \in Nat /\ taken = s + 1 /\ Shown' = taken
  BY <1>1, <1>2 DEF Shown
<1>4. Current = delivered[taken] /\ Current \in Recs
  BY <1>2, ElementOfSeq DEF Current
<1>5. /\ Append(offered, Current) \in Seq(Recs) /\ Len(Append(offered, Current)) = m + 1
      /\ \A i \in 1..m : Append(offered, Current)[i] = offered[i]
      /\ Append(offered, Current)[m + 1] = Current
  BY <1>2, <1>4, AppendProperties
<1>6. Types'
  <2>1. offered' \in Seq(Recs)
    BY <1>1, <1>2, <1>5
  <2> QED
    BY <1>1, <1>2, <2>1 DEF Types, readVars
<1>7. FileInv'
  BY <1>1 DEF IInv, FileInv, Transcript, Written
<1>8. EndInv'
  BY <1>1 DEF IInv, EndInv, Running
<1>9. PICK at \in [1..m -> 1..s] :
          /\ \A i, j \in 1..m : i < j => at[i] < at[j]
          /\ \A i \in 1..m : offered[i] = delivered[at[i]]
          /\ \A k \in 1..s : delivered[k].from \notin Hidden <=> \E i \in 1..m : at[i] = k
  BY DEF IInv, ShownUpTo
<1> HIDE DEF m, s
<1>10. ShownUpTo(Shown)'
  <2>1. CASE Current.from \in Hidden
    <3>1. offered' = offered
      BY <1>1, <2>1
    <3>2. at \in [1..m -> 1..(s + 1)]
      BY <1>2, <1>3
    <3>3. \A k \in 1..(s + 1) : delivered[k].from \notin Hidden <=> \E i \in 1..m : at[i] = k
      <4> SUFFICES ASSUME NEW k \in 1..(s + 1)
                   PROVE  delivered[k].from \notin Hidden <=> \E i \in 1..m : at[i] = k
        OBVIOUS
      <4>1. CASE k = s + 1
        <5>1. delivered[k].from \in Hidden
          BY <1>3, <1>4, <2>1, <4>1
        <5>2. \A i \in 1..m : at[i] # k
          BY <1>2, <1>3, <4>1
        <5> QED
          BY <5>1, <5>2
      <4>2. CASE k # s + 1
        <5>1. k \in 1..s
          BY <1>3, <4>2
        <5> QED
          BY <1>9, <5>1
      <4> QED
        BY <4>1, <4>2
    <3>4. \E a \in [1..Len(offered) -> 1..taken] :
              /\ \A i, j \in 1..Len(offered) : i < j => a[i] < a[j]
              /\ \A i \in 1..Len(offered) : offered[i] = delivered[a[i]]
              /\ \A k \in 1..taken :
                    delivered[k].from \notin Hidden <=> \E i \in 1..Len(offered) : a[i] = k
      BY <1>3, <1>9, <3>2, <3>3 DEF m
    <3>5. delivered' = delivered /\ Shown' = taken
      BY <1>1, <1>3
    <3>6. ShownUpTo(taken)
      BY <3>4 DEF ShownUpTo
    <3> QED
      BY <3>1, <3>5, <3>6 DEF ShownUpTo
  <2>2. CASE Current.from \notin Hidden
    <3> DEFINE b == [i \in 1..(m + 1) |-> IF i = m + 1 THEN s + 1 ELSE at[i]]
    <3>1. /\ offered' = Append(offered, Current) /\ Len(offered') = m + 1
          /\ \A i \in 1..m : offered'[i] = offered[i]
          /\ offered'[m + 1] = Current
      BY <1>1, <1>5, <2>2
    <3>2. /\ \A i \in 1..m : i \in 1..(m + 1) /\ i # m + 1 /\ at[i] \in 1..s
          /\ \A i \in 1..(m + 1) : i \in 1..m \/ i = m + 1
          /\ m + 1 \in 1..(m + 1) /\ s + 1 \in 1..(s + 1) /\ s + 1 \notin 1..s
          /\ \A k \in 1..s : k \in 1..(s + 1) /\ k # s + 1 /\ k < s + 1
          /\ \A k \in 1..(s + 1) : k \in 1..s \/ k = s + 1
      BY <1>2, <1>3, <1>9
    <3>3. b \in [1..(m + 1) -> 1..(s + 1)] /\ b[m + 1] = s + 1 /\ \A i \in 1..m : b[i] = at[i]
      BY <3>2
    <3> HIDE DEF b
    <3>4. \A i, j \in 1..(m + 1) : i < j => b[i] < b[j]
      <4> SUFFICES ASSUME NEW i \in 1..(m + 1), NEW j \in 1..(m + 1), i < j PROVE b[i] < b[j]
        OBVIOUS
      <4>1. i \in 1..m
        BY <1>2
      <4>2. CASE j \in 1..m
        BY <1>9, <3>3, <4>1, <4>2
      <4>3. CASE j = m + 1
        BY <3>2, <3>3, <4>1, <4>3
      <4> QED
        BY <3>2, <4>2, <4>3
    <3>5. \A i \in 1..(m + 1) : offered'[i] = delivered[b[i]]
      BY <1>3, <1>4, <1>9, <3>1, <3>2, <3>3
    <3>6. \A k \in 1..(s + 1) :
             delivered[k].from \notin Hidden <=> \E i \in 1..(m + 1) : b[i] = k
      <4> SUFFICES ASSUME NEW k \in 1..(s + 1)
                   PROVE  delivered[k].from \notin Hidden <=> \E i \in 1..(m + 1) : b[i] = k
        OBVIOUS
      <4>1. CASE k = s + 1
        <5>1. delivered[k].from \notin Hidden
          BY <1>3, <1>4, <2>2, <4>1
        <5> QED
          BY <3>2, <3>3, <4>1, <5>1
      <4>2. CASE k \in 1..s
        <5>1. delivered[k].from \notin Hidden <=> \E i \in 1..m : at[i] = k
          BY <1>9, <4>2
        <5>2. b[m + 1] # k
          BY <3>2, <3>3, <4>2
        <5> QED
          BY <3>2, <3>3, <5>1, <5>2
      <4> QED
        BY <3>2, <4>1, <4>2
    <3>7. \E a \in [1..Len(offered') -> 1..taken] :
              /\ \A i, j \in 1..Len(offered') : i < j => a[i] < a[j]
              /\ \A i \in 1..Len(offered') : offered'[i] = delivered[a[i]]
              /\ \A k \in 1..taken :
                    delivered[k].from \notin Hidden <=> \E i \in 1..Len(offered') : a[i] = k
      BY <1>3, <3>1, <3>3, <3>4, <3>5, <3>6
    <3>8. delivered' = delivered /\ Shown' = taken
      BY <1>1, <1>3
    <3> QED
      BY <3>7, <3>8 DEF ShownUpTo
  <2> QED
    BY <2>1, <2>2
<1>11. ReplayInv'
  BY <1>1, <1>6, NotReplayed DEF Types
<1> QED
  BY <1>6, <1>7, <1>8, <1>10, <1>11 DEF IInv

-----------------------------------------------------------------------------
(* The replay                                                              *)

\* The next line when r lines have been read: it is of record r + 1, and it is
\* whole or the rest of the file.
LEMMA NextLine ==
  ASSUME Types, FileInv, NEW r \in Nat, r <= Len(delivered), rpos = Lines(r), Unread # << >>
  PROVE  LET left == Len(disk) - rpos
             e == IF Newline <= left THEN Newline ELSE left
         IN  /\ r < Len(delivered) /\ left \in Nat /\ left > 0 /\ e \in Nat
             /\ Unread \in Seq(Pieces) /\ Len(Unread) = left
             /\ \A i \in 1..e : Unread[i] = [rec |-> delivered[r + 1], part |-> i]
             /\ LineLen = e
<1> DEFINE left == Len(disk) - rpos
           e == IF Newline <= left THEN Newline ELSE left
<1>1. /\ disk \in Seq(Pieces) /\ Len(disk) \in Nat /\ rpos \in Nat /\ taken \in Nat
      /\ delivered \in Seq(Recs) /\ Len(delivered) \in Nat /\ taken <= Len(delivered)
      /\ Newline \in Nat /\ Newline > 1
  BY NewlineFacts DEF Types
<1>2. rpos < Len(disk)
  <2> SUFFICES ASSUME Len(disk) < rpos + 1 PROVE FALSE
    BY <1>1
  <2>1. Unread = << >>
    BY <1>1, SubSeqEmpty DEF Unread
  <2> QED
    BY <2>1
<1>3. left \in Nat /\ left > 0 /\ e \in Nat /\ e > 0 /\ e <= left /\ e <= Newline
  BY <1>1, <1>2
<1>4. Unread \in Seq(Pieces) /\ Len(Unread) = left /\ \A i \in 1..left : Unread[i] = disk[rpos + i]
  <2>1. \A i \in (rpos + 1)..Len(disk) : disk[i] \in Pieces
    BY <1>1, ElementOfSeq
  <2> DEFINE a == rpos + 1
             z == Len(disk)
  <2>2. a \in Int /\ z \in Int /\ a <= z /\ z - a + 1 = left
        /\ \A i \in 1..left : a + i - 1 = rpos + i
    BY <1>1, <1>2
  <2> HIDE DEF left
  <2>3. /\ SubSeq(disk, a, z) \in Seq(Pieces)
        /\ Len(SubSeq(disk, a, z)) = IF a <= z THEN z - a + 1 ELSE 0
        /\ \A i \in 1..(z - a + 1) : SubSeq(disk, a, z)[i] = disk[a + i - 1]
    BY <2>1, <2>2, SubSeqProperties
  <2> QED
    BY <2>2, <2>3 DEF Unread
<1>5. r < Len(delivered)
  <2> SUFFICES ASSUME r = Len(delivered) PROVE FALSE
    BY <1>1
  <2>1. Len(disk) <= Lines(taken)
    BY DiskTranscript
  <2>2. Lines(taken) \in Nat /\ Lines(r) \in Nat /\ (taken < r => Lines(taken) + Newline <= Lines(r))
    BY <1>1, LinesFacts
  <2>3. Lines(taken) <= Lines(r)
    BY <1>1, <2>2
  <2> QED
    BY <1>1, <1>2, <2>1, <2>2, <2>3
<1> HIDE DEF left
<1>6. \A i \in 1..e : Unread[i] = [rec |-> delivered[r + 1], part |-> i]
  <2> SUFFICES ASSUME NEW i \in 1..e
               PROVE  Unread[i] = [rec |-> delivered[r + 1], part |-> i]
    OBVIOUS
  <2>1. i \in 1..left /\ i \in 1..Newline /\ rpos + i <= Len(disk)
    BY <1>1, <1>3 DEF left
  <2>2. Pos(r + 1, i) = rpos + i
    <3>1. (r + 1) - 1 = r
      OBVIOUS
    <3> QED
      BY <3>1 DEF Pos
  <2>3. r + 1 \in 1..Len(delivered) /\ Transcript(disk)
    BY <1>1, <1>5, DiskTranscript
  <2>4. disk[rpos + i] = [rec |-> delivered[r + 1], part |-> i]
    BY <2>1, <2>2, <2>3 DEF Transcript
  <2> QED
    BY <1>4, <2>1, <2>4
<1> DEFINE Ends(z) == /\ \A i \in 1..(z - 1) : Unread[i].part # Newline
                      /\ Unread[z].part = Newline \/ z = Len(Unread)
<1>7. ASSUME NEW i \in 1..e PROVE Unread[i].part = i
  <2>1. Unread[i] = [rec |-> delivered[r + 1], part |-> i]
    BY <1>6
  <2> QED
    BY <2>1
<1>8. e \in 1..Len(Unread) /\ Ends(e)
  <2>1. \A i \in 1..(e - 1) : i \in 1..e /\ i # Newline
    BY <1>1, <1>3
  <2>2. e \in 1..e /\ (e = Newline \/ e = left)
    BY <1>3
  <2> QED
    BY <1>3, <1>4, <1>7, <2>1, <2>2
<1>9. ASSUME NEW z \in 1..Len(Unread), Ends(z) PROVE z = e
  <2>1. z \in Nat /\ z > 0 /\ z <= left
    BY <1>3, <1>4, <1>9
  <2>2. CASE z < e
    <3>1. z \in 1..e /\ z # Newline /\ z # left
      BY <1>1, <1>3, <2>1, <2>2
    <3> QED
      BY <1>4, <1>7, <1>9, <3>1
  <2>3. CASE e < z
    <3>1. e \in 1..(z - 1) /\ e \in 1..e /\ e = Newline
      BY <1>3, <2>1, <2>3
    <3> QED
      BY <1>7, <1>9, <3>1
  <2> QED
    BY <1>3, <2>1, <2>2, <2>3
<1>10. LineLen = e
  <2>1. LineLen = CHOOSE z \in 1..Len(Unread) : Ends(z)
    BY DEF LineLen
  <2> HIDE DEF Ends, e
  <2> QED
    BY <1>8, <1>9, <2>1
<1> QED
  BY <1>3, <1>4, <1>5, <1>6, <1>10 DEF left

\* A line is valid when its JSON text is complete.
LEMMA LineValid ==
  ASSUME NEW u \in Seq(Pieces), NEW d \in Recs, NEW e \in 1..Newline, e <= Len(u),
         \A i \in 1..e : u[i] = [rec |-> d, part |-> i]
  PROVE  Valid(SubSeq(u, 1, e)) <=> e >= JsonPieces
<1> DEFINE line == SubSeq(u, 1, e)
           text == Text(line)
<1>1. JsonPieces \in Nat /\ JsonPieces > 0 /\ Newline = JsonPieces + 1 /\ e \in Nat /\ e > 0
      /\ Len(u) \in Nat
  BY NewlineFacts
<1>2. line \in Seq(Pieces) /\ Len(line) = e /\ \A i \in 1..e : line[i] = u[i]
  <2>1. \A i \in 1..e : u[i] \in Pieces
    BY <1>1, ElementOfSeq
  <2>2. /\ SubSeq(u, 1, e) \in Seq(Pieces)
        /\ Len(SubSeq(u, 1, e)) = IF 1 <= e THEN e - 1 + 1 ELSE 0
        /\ \A i \in 1..(e - 1 + 1) : SubSeq(u, 1, e)[i] = u[1 + i - 1]
    BY <1>1, <2>1, SubSeqProperties
  <2>3. e - 1 + 1 = e /\ 1 <= e /\ \A i \in 1..e : 1 + i - 1 = i
    BY <1>1
  <2> QED
    BY <2>2, <2>3
<1>3. e \in 1..e
  BY <1>1
<1>4. line[Len(line)] = [rec |-> d, part |-> e]
  BY <1>2, <1>3
<1> HIDE DEF line
<1>5. line[Len(line)].part = e
  BY <1>4
<1>6. Valid(line) <=>
        Len(text) = JsonPieces /\ \A i \in 1..Len(text) : text[i] = [rec |-> text[1].rec, part |-> i]
  BY DEF Valid
<1>7. CASE e = Newline
  <2>1. text = SubSeq(line, 1, JsonPieces)
    <3>1. Len(line) - 1 = JsonPieces
      BY <1>1, <1>2, <1>7
    <3> QED
      BY <1>5, <1>7, <3>1 DEF Text
  <2> HIDE DEF text
  <2>2. Len(text) = JsonPieces /\ \A i \in 1..JsonPieces : text[i] = line[i]
    <3>1. \A i \in 1..JsonPieces : line[i] \in Pieces
      BY <1>1, <1>2, <1>7, ElementOfSeq
    <3>2. /\ Len(SubSeq(line, 1, JsonPieces)) = IF 1 <= JsonPieces THEN JsonPieces - 1 + 1 ELSE 0
          /\ \A i \in 1..(JsonPieces - 1 + 1) : SubSeq(line, 1, JsonPieces)[i] = line[1 + i - 1]
      BY <1>1, <3>1, SubSeqProperties
    <3>3. JsonPieces - 1 + 1 = JsonPieces /\ 1 <= JsonPieces
          /\ \A i \in 1..JsonPieces : 1 + i - 1 = i
      BY <1>1
    <3> QED
      BY <2>1, <3>2, <3>3
  <2>3. \A i \in 1..JsonPieces : text[i] = [rec |-> d, part |-> i]
    <3>1. \A i \in 1..JsonPieces : i \in 1..e
      BY <1>1, <1>7
    <3> QED
      BY <1>2, <2>2, <3>1
  <2>4. text[1].rec = d
    <3>1. 1 \in 1..JsonPieces
      BY <1>1
    <3>2. text[1] = [rec |-> d, part |-> 1]
      BY <2>3, <3>1
    <3> QED
      BY <3>2
  <2>5. Valid(line)
    BY <1>6, <2>2, <2>3, <2>4
  <2> QED
    BY <1>1, <1>7, <2>5 DEF line
<1>8. CASE e # Newline
  <2>1. text = line
    BY <1>5, <1>8 DEF Text
  <2>2. \A i \in 1..e : line[i] = [rec |-> d, part |-> i]
    BY <1>2
  <2>3. line[1].rec = d
    <3>1. line[1] = [rec |-> d, part |-> 1]
      BY <1>1, <2>2
    <3> QED
      BY <3>1
  <2>4. Valid(line) <=> e = JsonPieces
    BY <1>2, <1>6, <2>1, <2>2, <2>3
  <2>5. e = JsonPieces <=> e >= JsonPieces
    BY <1>1, <1>8
  <2> QED
    BY <2>4, <2>5 DEF line
<1> QED
  BY <1>7, <1>8

\* Where the replay is when there is a line left to read.
LEMMA AtLine ==
  ASSUME IInv, Unread # << >>
  PROVE  LET r == Len(replayed)
             left == Len(disk) - rpos
             e == IF Newline <= left THEN Newline ELSE left
         IN  /\ r \in Nat /\ rpos = Lines(r) /\ r < Len(delivered) /\ Len(delivered) \in Nat
             /\ rpos \in Nat /\ left \in Nat /\ left > 0 /\ e \in Nat /\ e > 0
             /\ Newline \in Nat /\ Newline = JsonPieces + 1 /\ JsonPieces \in Nat
             /\ LineLen = e
             /\ Unread[1].rec = delivered[r + 1]
             /\ Valid(SubSeq(Unread, 1, LineLen)) <=> e >= JsonPieces
<1> DEFINE r == Len(replayed)
           left == Len(disk) - rpos
           e == IF Newline <= left THEN Newline ELSE left
<1>1. Types /\ FileInv /\ rpos \in Nat /\ disk \in Seq(Pieces) /\ replayed \in Seq(Recs) /\ r \in Nat
      /\ delivered \in Seq(Recs) /\ Len(delivered) \in Nat /\ Len(disk) \in Nat
      /\ r <= Len(delivered)
  BY DEF IInv, Types, ReplayInv
<1>2. rpos # Len(disk)
  <2> SUFFICES ASSUME rpos = Len(disk) PROVE Unread = << >>
    OBVIOUS
  <2> QED
    BY <1>1, SubSeqEmpty DEF Unread
<1>3. rpos = Lines(r)
  BY <1>2 DEF IInv, ReplayInv
<1>4. Newline \in Nat /\ Newline = JsonPieces + 1 /\ JsonPieces \in Nat /\ JsonPieces > 0
  BY NewlineFacts
<1>5. /\ r < Len(delivered) /\ left \in Nat /\ left > 0 /\ e \in Nat
      /\ Unread \in Seq(Pieces) /\ Len(Unread) = left
      /\ \A i \in 1..e : Unread[i] = [rec |-> delivered[r + 1], part |-> i]
      /\ LineLen = e
  BY <1>1, <1>3, NextLine
<1>6. e \in 1..Newline /\ e <= Len(Unread) /\ 1 \in 1..e /\ e > 0
  BY <1>4, <1>5
<1>7. delivered[r + 1] \in Recs
  <2>1. r + 1 \in 1..Len(delivered)
    BY <1>1, <1>5
  <2> QED
    BY <1>1, <2>1, ElementOfSeq
<1> HIDE DEF e, left
<1>8. Valid(SubSeq(Unread, 1, e)) <=> e >= JsonPieces
  BY <1>5, <1>6, <1>7, LineValid
<1>9. Unread[1].rec = delivered[r + 1]
  <2>1. Unread[1] = [rec |-> delivered[r + 1], part |-> 1]
    BY <1>5, <1>6
  <2> QED
    BY <2>1
<1> QED
  BY <1>1, <1>3, <1>4, <1>5, <1>6, <1>8, <1>9 DEF e, left

\* The replay: a record, the end of the file or a damaged line.
LEMMA ReplayStep ==
  ASSUME IInv, ReadRecord \/ ReadInvalid \/ ReadEnd
  PROVE  IInv'
<1> DEFINE r == Len(replayed)
           left == Len(disk) - rpos
           e == IF Newline <= left THEN Newline ELSE left
<1>1. /\ UNCHANGED <<delivered, tx, source, result, taken, printer, part, recorder, buf, disk, offered>>
      /\ ~Running /\ Saving /\ reading = "open"
  BY DEF ReadRecord, ReadInvalid, ReadEnd, outVars, fileVars, outputVars
<1>2. Types /\ replayed \in Seq(Recs) /\ delivered \in Seq(Recs) /\ rpos \in Nat
      /\ disk \in Seq(Pieces) /\ Len(disk) \in Nat /\ r \in Nat
      /\ \A i \in 1..r : replayed[i] = delivered[i]
  BY DEF IInv, Types, ReplayInv
<1>3. EndInv' /\ ~Running'
  BY <1>1 DEF IInv, EndInv, Running
<1>4. CASE ReadRecord
  <2> DEFINE d == delivered[r + 1]
  <2>1. /\ Unread # << >> /\ Valid(SubSeq(Unread, 1, LineLen)) /\ reading' = reading
        /\ replayed' = Append(replayed, Unread[1].rec) /\ rpos' = rpos + LineLen
    BY <1>4 DEF ReadRecord
  <2>2. /\ rpos = Lines(r) /\ r < Len(delivered) /\ Len(delivered) \in Nat
        /\ left \in Nat /\ left > 0 /\ e \in Nat /\ e > 0
        /\ Newline \in Nat /\ Newline = JsonPieces + 1 /\ JsonPieces \in Nat
        /\ LineLen = e /\ Unread[1].rec = d /\ e >= JsonPieces
    BY <2>1, AtLine
  <2>3. r + 1 \in 1..Len(delivered) /\ d \in Recs
    <3>1. r + 1 \in 1..Len(delivered)
      BY <1>2, <2>2
    <3> QED
      BY <1>2, <3>1, ElementOfSeq
  <2>4. /\ replayed' \in Seq(Recs) /\ Len(replayed') = r + 1
        /\ \A i \in 1..r : replayed'[i] = replayed[i]
        /\ replayed'[r + 1] = d
    <3> HIDE DEF d
    <3> QED
      BY <1>2, <2>1, <2>2, <2>3, AppendProperties
  <2>5. \A i \in 1..(r + 1) : replayed'[i] = delivered[i]
    <3>1. \A i \in 1..(r + 1) : i \in 1..r \/ i = r + 1
      BY <1>2
    <3> QED
      BY <1>2, <2>4, <3>1
  <2>6. Lines(r + 1) = rpos + Newline
    BY <1>2, <2>2, LinesFacts
  <2>7. /\ \/ rpos' = Lines(r + 1)
           \/ rpos' = Len(disk) /\ rpos' + 1 = Lines(r + 1)
        /\ rpos' <= Len(disk)
    <3>1. rpos' = rpos + e /\ rpos + left = Len(disk)
      BY <1>2, <2>1, <2>2
    <3>2. CASE Newline <= left
      <4>1. e = Newline
        BY <3>2
      <4> HIDE DEF e, left
      <4> QED
        BY <1>2, <2>2, <2>6, <3>1, <3>2, <4>1
    <3>3. CASE ~(Newline <= left)
      <4>1. e = left
        BY <3>3
      <4> HIDE DEF e, left
      <4>2. left = JsonPieces
        BY <2>2, <3>3, <4>1
      <4> QED
        BY <1>2, <2>2, <2>6, <3>1, <4>1, <4>2
    <3> QED
      BY <3>2, <3>3
  <2>8. rpos' \in Nat /\ r + 1 <= Len(delivered)
    <3> HIDE DEF e
    <3> QED
      BY <1>2, <2>1, <2>2
  <2>9. Types'
    BY <1>1, <1>2, <2>1, <2>4, <2>8 DEF Types
  <2>10. ReplayInv'
    BY <1>1, <1>3, <2>1, <2>4, <2>5, <2>7, <2>8 DEF ReplayInv
  <2> QED
    BY <1>1, <1>3, <2>9, <2>10, PrinterLeft
<1>5. CASE ReadInvalid
  <2>1. /\ Unread # << >> /\ ~Valid(SubSeq(Unread, 1, LineLen))
        /\ reading' = "error" /\ rpos' = rpos /\ replayed' = replayed
    BY <1>5 DEF ReadInvalid
  <2>2. /\ rpos = Lines(r) /\ r < Len(delivered) /\ Len(delivered) \in Nat
        /\ left \in Nat /\ e \in Nat
        /\ Newline \in Nat /\ Newline = JsonPieces + 1 /\ JsonPieces \in Nat
        /\ LineLen = e /\ ~(e >= JsonPieces)
    BY <2>1, AtLine
  <2>3. left < Newline /\ rpos + LineLen = Len(disk)
    BY <1>2, <2>2
  <2>4. LineLen' = LineLen
    BY <1>1, <2>1 DEF LineLen, Unread
  <2>5. result # "ok"
    <3> SUFFICES ASSUME result = "ok" PROVE FALSE
      OBVIOUS
    <3>1. printer = "exited" /\ recorder = "on" /\ taken = Len(delivered)
      BY <1>1, <1>2 DEF IInv, EndInv, FileInv, Types
    <3>2. buf = << >> /\ Len(Written) = Lines(Len(delivered))
      BY <3>1 DEF IInv, FileInv
    <3>3. Len(disk) = Lines(Len(delivered))
      BY <1>2, <3>2, WrittenFacts
    <3>4. Lines(r) \in Nat /\ Lines(r) + Newline <= Lines(Len(delivered))
      BY <1>2, <2>2, LinesFacts
    <3> QED
      BY <1>2, <2>2, <2>3, <3>3, <3>4
  <2>6. Types'
    BY <1>1, <1>2, <2>1 DEF Types
  <2>7. ReplayInv'
    BY <1>1, <1>3, <2>1, <2>3, <2>4, <2>5 DEF IInv, ReplayInv
  <2> QED
    BY <1>1, <1>3, <2>6, <2>7, PrinterLeft
<1>6. CASE ReadEnd
  <2>1. Unread = << >> /\ reading' = "ok" /\ rpos' = rpos /\ replayed' = replayed
    BY <1>6 DEF ReadEnd
  <2>2. rpos = Len(disk)
    <3> SUFFICES ASSUME rpos # Len(disk) PROVE FALSE
      OBVIOUS
    <3>1. rpos <= Len(disk)
      BY DEF IInv, ReplayInv
    <3>2. rpos + 1 \in 1..Len(disk)
      BY <1>2, <3>1
    <3>3. \A i \in (rpos + 1)..Len(disk) : disk[i] \in Pieces
      <4>1. \A i \in (rpos + 1)..Len(disk) : i \in 1..Len(disk)
        BY <1>2
      <4> QED
        BY <1>2, <4>1, ElementOfSeq
    <3>4. Len(Unread) = IF rpos + 1 <= Len(disk) THEN Len(disk) - (rpos + 1) + 1 ELSE 0
      BY <1>2, <3>3, SubSeqProperties DEF Unread
    <3>5. Len(Unread) = 0
      BY <2>1
    <3> QED
      BY <1>2, <3>2, <3>4, <3>5
  <2>3. Types'
    BY <1>1, <1>2, <2>1 DEF Types
  <2>4. ReplayInv'
    BY <1>1, <1>3, <2>1, <2>2 DEF IInv, ReplayInv
  <2> QED
    BY <1>1, <1>3, <2>3, <2>4, PrinterLeft
<1> QED
  BY <1>4, <1>5, <1>6

-----------------------------------------------------------------------------
(* The invariant                                                           *)

\* The invariant holds at the start.
LEMMA InitIInv == Init => IInv
<1> SUFFICES ASSUME Init PROVE IInv
  OBVIOUS
<1>1. Newline \in Nat /\ Newline > 1 /\ Lines(0) = 0
  BY NewlineFacts, LinesFacts
<1>2. Types
  BY <1>1, RecordingAssumption DEF Init, Types
<1>3. Written = << >> /\ Len(Written) = 0
  BY <1>2, WrittenFacts DEF Init
<1>4. FileInv
  <2>1. Transcript(Written)
    BY DEF Transcript, Init
  <2> QED
    BY <1>1, <1>3, <2>1, RecordingAssumption DEF Init, FileInv
<1>5. EndInv
  BY DEF Init, EndInv
<1>6. ShownUpTo(Shown)
  <2>1. Shown = 0 /\ Len(offered) = 0 /\ 1..0 = {}
    BY DEF Init, Shown
  <2>2. [i \in 1..Len(offered) |-> i] \in [1..Len(offered) -> 1..Shown]
    BY <2>1
  <2> QED
    BY <2>1, <2>2 DEF ShownUpTo
<1>7. ReplayInv
  BY <1>1 DEF Init, ReplayInv
<1> QED
  BY <1>2, <1>4, <1>5, <1>6, <1>7 DEF IInv

\* Every step keeps it.
LEMMA NextIInv == IInv /\ [Next]_vars => IInv'
<1> SUFFICES ASSUME IInv, [Next]_vars PROVE IInv'
  OBVIOUS
<1>1. CASE \E p \in Producers : Deliver(p)
  BY <1>1, DeliverStep
<1>2. CASE (\E how \in {"returned", "failed"} : SourceReturns(how)) \/ CloseOutput \/ Return \/ Kill
  BY <1>2, MainStep
<1>3. CASE Printing
  BY <1>3, RecvStep, WriteJsonStep, WriteNewlineStep, WriteFailsStep, ShowStep, PrinterExitsStep
     DEF Printing
<1>4. CASE ReadRecord \/ ReadInvalid \/ ReadEnd
  BY <1>4, ReplayStep
<1>5. CASE UNCHANGED vars
  <2>1. UNCHANGED <<delivered, tx, source, result, taken, printer, part, recorder, buf, disk, offered>>
        /\ UNCHANGED <<reading, rpos, replayed>>
    BY <1>5 DEF vars, outVars, fileVars, readVars, outputVars
  <2>2. Types' /\ EndInv'
    BY <2>1 DEF IInv, Types, EndInv
  <2>3. ReplayInv'
    BY <2>1 DEF IInv, ReplayInv, Running, LineLen, Unread
  <2> QED
    BY <2>1, <2>2, <2>3, PrinterLeft
<1> QED
  BY <1>1, <1>2, <1>3, <1>4, <1>5 DEF Next

\* The transcript invariant holds throughout the session and the replay.
THEOREM TranscriptInvariant == Spec => []IInv
  BY InitIInv, NextIInv, PTL DEF Spec

-----------------------------------------------------------------------------
(* The properties                                                          *)

\* A record whose line is complete in the file is there with its newline.
LEMMA CompleteLine ==
  ASSUME IInv, NEW k \in 1..Len(delivered), Lines(k) <= Len(disk)
  PROVE  OnDisk(delivered[k])
<1>1. Types /\ FileInv /\ k \in Nat \ {0} /\ Len(disk) \in Nat
  BY DEF IInv, Types
<1>2. Newline \in 1..Newline
  BY NewlineFacts
<1>3. Pos(k, Newline) = Lines(k) /\ Pos(k, Newline) \in Nat /\ Pos(k, Newline) > 0
  BY <1>1, <1>2, PosFacts
<1>4. Pos(k, Newline) \in 1..Len(disk)
  BY <1>1, <1>3
<1>5. disk[Pos(k, Newline)] = [rec |-> delivered[k], part |-> Newline]
  BY <1>1, <1>2, <1>3, DiskTranscript DEF Transcript
<1> QED
  BY <1>4, <1>5 DEF OnDisk

\* While recording works, the lines of all records shown are in the file.
LEMMA ShownIsWritten ==
  ASSUME IInv, recorder = "on"
  PROVE  /\ Shown \in Nat /\ Shown <= Len(delivered)
         /\ Lines(Shown) <= Len(disk)
<1>1. /\ Types /\ taken \in Nat /\ taken <= Len(delivered) /\ Len(delivered) \in Nat
      /\ part \in 1..Newline /\ Newline \in Nat
      /\ printer \in {"encode", "show"} => taken > 0
  BY NewlineFacts DEF IInv, Types, EndInv
<1>2. Shown \in Nat /\ Shown <= taken
  BY <1>1 DEF IInv, Types, Shown
<1>3. /\ Len(disk) \in Nat /\ Len(buf) \in Nat /\ Len(Written) = Len(disk) + Len(buf)
      /\ buf = << >> => Written = disk
  BY <1>1, WrittenFacts
<1>4. Lines(Shown) <= Len(disk)
  <2>1. CASE printer = "encode"
    <3>1. Shown = taken - 1 /\ Lines(Shown) \in Nat
      BY <1>2, <2>1, LinesFacts DEF Shown
    <3>2. Len(Written) = Pos(taken, part) - 1 /\ Len(buf) < part
      BY <2>1 DEF IInv, FileInv
    <3>3. Pos(taken, part) = Lines(Shown) + part
      BY <3>1 DEF Pos
    <3> QED
      BY <1>1, <1>3, <3>1, <3>2, <3>3
  <2>2. CASE printer # "encode"
    <3>1. Len(disk) = Lines(taken)
      BY <1>3, <2>2 DEF IInv, FileInv
    <3>2. Lines(Shown) \in Nat /\ Lines(taken) \in Nat /\ Newline \in Nat
          /\ (Shown < taken => Lines(Shown) + Newline <= Lines(taken))
      BY <1>1, <1>2, LinesFacts
    <3> QED
      BY <1>1, <1>2, <3>1, <3>2
  <2> QED
    BY <2>1, <2>2
<1> QED
  BY <1>1, <1>2, <1>4

\* What stdout and stderr took was offered to them.
LEMMA PrintedWasOffered == Spec => [](printed \subseteq 1..Len(offered))
<1> DEFINE Good == printed \subseteq 1..Len(offered)
<1>1. Init => Good
  BY DEF Init
<1>2. IInv /\ Good /\ [Next]_vars => Good'
  <2> SUFFICES ASSUME IInv, Good, [Next]_vars PROVE Good'
    OBVIOUS
  <2>1. offered \in Seq(Recs) /\ Len(offered) \in Nat
    BY DEF IInv, Types
  <2>2. CASE Show
    <3>1. CASE Current.from \in Hidden
      BY <2>2, <3>1 DEF Show, outputVars
    <3>2. CASE Current.from \notin Hidden
      <4>1. offered' = Append(offered, Current) /\ Prints(Len(offered) + 1)
        BY <2>2, <3>2 DEF Show
      <4>2. Len(offered') = Len(offered) + 1
        BY <2>1, <4>1
      <4>3. printed' \subseteq printed \cup 1..(Len(offered) + 1)
        BY <4>1 DEF Prints
      <4> QED
        BY <2>1, <4>2, <4>3
    <3> QED
      BY <3>1, <3>2
  <2>3. CASE PrinterExits
    BY <2>1, <2>3 DEF PrinterExits, Prints
  <2>4. CASE UNCHANGED outputVars
    BY <2>4 DEF outputVars
  <2>5. Show \/ PrinterExits \/ UNCHANGED outputVars
    BY DEF Next, Deliver, SourceReturns, CloseOutput, Return, Kill, Printing, Recv, WriteJson,
          WriteNewline, WriteFails, ReadRecord, ReadInvalid, ReadEnd, vars
  <2> QED
    BY <2>2, <2>3, <2>4, <2>5
<1> QED
  BY <1>1, <1>2, TranscriptInvariant, PTL DEF Spec

\* As long as recording works, whatever run_stdout has put on stdout or stderr is
\* in the session file to its newline, at every moment at which the process may
\* be killed.
THEOREM ShownWasSaved == Spec => []PrintedIsSaved
<1>1. ASSUME IInv, printed \subseteq 1..Len(offered) PROVE PrintedIsSaved
  <2> SUFFICES ASSUME recorder = "on" PROVE \A i \in 1..Len(offered) : OnDisk(offered[i])
    BY <1>1 DEF PrintedIsSaved
  <2> SUFFICES ASSUME NEW i \in 1..Len(offered) PROVE OnDisk(offered[i])
    OBVIOUS
  <2>1. PICK at \in [1..Len(offered) -> 1..Shown] :
            \A j \in 1..Len(offered) : offered[j] = delivered[at[j]]
    BY <1>1 DEF IInv, ShownUpTo
  <2> DEFINE k == at[i]
  <2>2. k \in 1..Shown /\ offered[i] = delivered[k]
    BY <2>1
  <2> HIDE DEF k
  <2>3. /\ Shown \in Nat /\ Shown <= Len(delivered) /\ Lines(Shown) <= Len(disk)
        /\ Len(delivered) \in Nat /\ Len(disk) \in Nat
    BY <1>1, ShownIsWritten DEF IInv, Types
  <2>4. k \in 1..Len(delivered) /\ k \in Nat /\ k <= Shown
    BY <2>2, <2>3
  <2>5. Lines(k) <= Len(disk)
    <3>1. Lines(k) \in Nat /\ Lines(Shown) \in Nat /\ Newline \in Nat
          /\ (k < Shown => Lines(k) + Newline <= Lines(Shown))
      BY <2>3, <2>4, LinesFacts, NewlineFacts
    <3> QED
      BY <2>3, <2>4, <3>1
  <2> QED
    BY <1>1, <2>2, <2>4, <2>5, CompleteLine
<1> QED
  BY <1>1, TranscriptInvariant, PrintedWasOffered, PTL

\* When run_stdout succeeded, the printer has taken every record, and the file
\* of a recorded session has the line of each.
LEMMA OkFacts ==
  ASSUME IInv, result = "ok"
  PROVE  /\ Shown = Len(delivered)
         /\ Saving => Len(disk) = Lines(Len(delivered))
<1>1. Types /\ printer = "exited" /\ taken = Len(delivered) /\ recorder \in {"none", "on"}
  BY DEF IInv, EndInv, Types
<1>2. Shown = Len(delivered)
  BY <1>1 DEF Shown
<1>3. ASSUME Saving PROVE Len(disk) = Lines(Len(delivered))
  <2>1. recorder = "on"
    BY <1>1, <1>3 DEF IInv, FileInv
  <2>2. Len(Written) = Lines(Len(delivered)) /\ buf = << >>
    BY <1>1, <2>1 DEF IInv, FileInv
  <2> QED
    BY <1>1, <2>2, WrittenFacts
<1> QED
  BY <1>2, <1>3

\* run_stdout returns success only when every record was saved and, unless hidden,
\* was offered to stdout or stderr, once and in the order of the channel.  Whether
\* it was printed does not enter: the results of those writes are ignored.
THEOREM OkMeansComplete == Spec => []OkIsComplete
<1>1. ASSUME IInv PROVE OkIsComplete
  <2> SUFFICES ASSUME result = "ok"
               PROVE  /\ ShownUpTo(Len(delivered))
                      /\ Saving => \A i \in 1..Len(delivered) : OnDisk(delivered[i])
    BY DEF OkIsComplete
  <2>1. ShownUpTo(Len(delivered))
    <3>1. ShownUpTo(Shown) /\ Shown = Len(delivered)
      BY <1>1, OkFacts DEF IInv
    <3> QED
      BY <3>1
  <2>2. ASSUME Saving, NEW i \in 1..Len(delivered) PROVE OnDisk(delivered[i])
    <3>1. Len(disk) = Lines(Len(delivered)) /\ Len(delivered) \in Nat /\ i \in Nat
      BY <1>1, <2>2, OkFacts DEF IInv, Types
    <3>2. Lines(i) \in Nat /\ Lines(Len(delivered)) \in Nat /\ Newline \in Nat
          /\ (i < Len(delivered) => Lines(i) + Newline <= Lines(Len(delivered)))
      BY <3>1, LinesFacts, NewlineFacts
    <3>3. Lines(i) <= Len(disk)
      BY <3>1, <3>2
    <3> QED
      BY <1>1, <3>3, CompleteLine
  <2> QED
    BY <2>1, <2>2
<1> QED
  BY <1>1, TranscriptInvariant, PTL

\* A replay delivers a beginning of what the session delivered, all of it after
\* a session that succeeded; it stops with an error only at a last line that is
\* damaged, and never after a session that succeeded.
THEOREM ReplayIsFaithful == Spec => []ReplayRestores
<1>1. ASSUME IInv PROVE ReplayRestores
  <2> DEFINE r == Len(replayed)
             m == Len(delivered)
  <2>1. /\ replayed \in Seq(Recs) /\ delivered \in Seq(Recs) /\ r \in Nat /\ m \in Nat
        /\ r <= m /\ \A i \in 1..r : replayed[i] = delivered[i]
    BY <1>1 DEF IInv, Types, ReplayInv
  <2>2. IsPrefix(replayed, delivered)
    <3>1. \A i \in 1..r : replayed[i] \in Recs /\ delivered[i] \in Recs
      <4>1. \A i \in 1..r : i \in 1..m
        BY <2>1
      <4> QED
        BY <2>1, <4>1, ElementOfSeq
    <3>2. /\ SubSeq(replayed, 1, r) \in Seq(Recs)
          /\ Len(SubSeq(replayed, 1, r)) = IF 1 <= r THEN r - 1 + 1 ELSE 0
          /\ \A i \in 1..(r - 1 + 1) : SubSeq(replayed, 1, r)[i] = replayed[1 + i - 1]
      BY <2>1, <3>1, SubSeqProperties
    <3>3. /\ SubSeq(delivered, 1, r) \in Seq(Recs)
          /\ Len(SubSeq(delivered, 1, r)) = IF 1 <= r THEN r - 1 + 1 ELSE 0
          /\ \A i \in 1..(r - 1 + 1) : SubSeq(delivered, 1, r)[i] = delivered[1 + i - 1]
      BY <2>1, <3>1, SubSeqProperties
    <3> HIDE DEF r
    <3>4. r - 1 + 1 = r /\ (IF 1 <= r THEN r - 1 + 1 ELSE 0) = r /\ \A i \in 1..r : 1 + i - 1 = i
      BY <2>1
    <3>5. SubSeq(replayed, 1, r) = SubSeq(delivered, 1, r)
      BY <2>1, <3>2, <3>3, <3>4, SeqEqual
    <3> QED
      BY <2>1, <3>5 DEF IsPrefix, r
  <2>3. result = "ok" => reading # "error"
    BY <1>1 DEF IInv, ReplayInv
  <2>4. ASSUME result = "ok", reading = "ok" PROVE replayed = delivered
    <3>1. rpos = Lines(m) /\ rpos = Len(disk)
      BY <1>1, <2>4, OkFacts DEF IInv, ReplayInv
    <3>2. \/ Lines(r) = Lines(m)
          \/ Lines(m) + 1 = Lines(r)
      BY <1>1, <3>1 DEF IInv, ReplayInv
    <3>3. Lines(r) \in Nat /\ Lines(m) \in Nat /\ (r < m => Lines(r) + Newline <= Lines(m))
          /\ Newline \in Nat /\ Newline > 1
      BY <2>1, LinesFacts, NewlineFacts
    <3>4. r = m
      BY <2>1, <3>2, <3>3
    <3> QED
      BY <2>1, <3>4, SeqEqual
  <2>5. reading = "error" => rpos + LineLen = Len(disk)
    BY <1>1 DEF IInv, ReplayInv
  <2> QED
    BY <2>2, <2>3, <2>4, <2>5 DEF ReplayRestores
<1> QED
  BY <1>1, TranscriptInvariant, PTL
===============================================================================
