------------------------------ MODULE ProxyProofs ------------------------------
(***************************************************************************)
(* Proofs about Proxy, for every client script, read size and server       *)
(* behaviour.  A pump is judged by the position its source was read up to: *)
(* IInv says that the units decoded are exactly those from the first one   *)
(* that is the peer's business up to the last one read, that a pump which  *)
(* reads has written all of them, and that a pump which writes holds those *)
(* that are still missing.  Which head the client sent is remembered by    *)
(* the place handle_connection is at.                                      *)
(***************************************************************************)
EXTENDS Proxy, SequenceTheorems, TLAPS

\* Where handle_connection is before anything is pumped or relayed.
Opening == {"head", "connect_cancel", "accept_tls", "connect", "probe", "connect_tls", "initial"}
PumpStates == {"idle", "reading", "writing", "closing", "done", "cancelled"}

Types ==
    /\ script \in Scripts
    /\ pc \in Opening \cup {"pumping", "aborting", "relay", "returned"}
    /\ record \in {"open", "closed"}
    /\ lost \in Nat
    /\ sent \in [Pumps -> Nat] /\ read \in [Pumps -> Nat]
    /\ eof \in [Pumps -> BOOLEAN]
    /\ pump \in [Pumps -> PumpStates]
    /\ chunk \in [Pumps -> Seq(Nat)]
    /\ decoded \in [Pumps -> Seq(Nat)]
    /\ written \in [Pumps -> Seq(Nat)]

\* The head decides the way the handler takes; what it has read by then.
Course ==
    /\ pc \in {"connect_cancel", "relay"} => Head1 = "cancel"
    /\ pc \notin {"head", "connect_cancel", "relay", "returned"} => Head1 # "cancel"
    /\ pc = "head" => read.to_server = 0
    /\ pc \in Opening \ {"head"} => read.to_server = 1
    /\ pc \in {"head", "connect_cancel", "accept_tls", "connect", "probe", "relay"} => lost = 0

\* The pumps run from the end of the opening until the return, and the record
\* is closed by the return.
Lifetime ==
    /\ pc \in Opening => \A p \in Pumps : pump[p] = "idle"
    /\ pc \in {"pumping", "aborting", "relay"} => \A p \in Pumps : pump[p] # "idle"
    /\ pc = "returned" => \A p \in Pumps : pump[p] \notin {"reading", "writing", "closing"}
    /\ record = "closed" => pc = "returned"

\* A pump that has not started has touched nothing.
Unused(p) ==
    /\ decoded[p] = << >> /\ written[p] = << >> /\ chunk[p] = << >>
    /\ p = "to_client" => read[p] = lost

\* The units of p from the first one on that were read.
Got(p) == read[p] + 1 - First(p)

\* What a pump has decoded and forwarded, and what it holds.
Progress(p) ==
    /\ Beginning(written[p], p) /\ Beginning(decoded[p], p)
    /\ Head1 # "cancel" =>
          /\ Len(decoded[p]) = Got(p)
          /\ Len(written[p]) + Len(chunk[p]) <= Got(p)
    /\ pump[p] = "reading" => chunk[p] = << >> /\ Len(written[p]) = Got(p)
    /\ pump[p] = "writing" =>
          /\ chunk[p] # << >>
          /\ \A i \in 1..Len(chunk[p]) : chunk[p][i] = First(p) + Len(written[p]) + i - 1
          /\ Len(written[p]) + Len(chunk[p]) = Got(p)

PumpInv(p) == IF pump[p] = "idle" THEN Unused(p) ELSE Progress(p)

IInv ==
    /\ Types
    /\ Course
    /\ Lifetime
    /\ \A p \in Pumps : PumpInv(p)

-----------------------------------------------------------------------------
(* Beginnings                                                              *)

\* The first unit that is the peer's business.
LEMMA FirstFacts ==
  ASSUME Types
  PROVE  /\ \A p \in Pumps : First(p) \in Nat /\ First(p) >= 1
         /\ First("to_client") = lost + 1
         /\ First("to_server") = IF Head1 \in {"ssl", "gss"} THEN 2 ELSE 1
  BY DEF Types, First, Pumps

\* A beginning that is continued without a gap is a longer beginning.
LEMMA Continued ==
  ASSUME Types, NEW p \in Pumps, NEW s \in Seq(Nat), NEW d \in Seq(Nat), Beginning(s, p),
         \A i \in 1..Len(d) : d[i] = First(p) + Len(s) + i - 1
  PROVE  Beginning(s \o d, p)
<1> DEFINE m == Len(s)
           n == Len(d)
           f == First(p)
<1>1. m \in Nat /\ n \in Nat /\ f \in Nat
  BY FirstFacts
<1>2. /\ Len(s \o d) = m + n
      /\ \A i \in 1..(m + n) : (s \o d)[i] = IF i <= m THEN s[i] ELSE d[i - m]
  BY ConcatProperties
<1>3. (\A i \in 1..m : s[i] = f + i - 1) /\ (\A i \in 1..n : d[i] = f + m + i - 1)
  BY DEF Beginning
<1> SUFFICES ASSUME NEW i \in 1..(m + n) PROVE (s \o d)[i] = f + i - 1
  BY <1>2 DEF Beginning
<1> HIDE DEF m, n, f
<1>4. CASE i <= m
  <2>1. i \in 1..m
    BY <1>1, <1>4
  <2> QED
    BY <1>2, <1>3, <1>4, <2>1
<1>5. CASE i > m
  <2>1. i - m \in 1..n
    BY <1>1, <1>5
  <2>2. (s \o d)[i] = d[i - m] /\ d[i - m] = f + m + (i - m) - 1
    BY <1>1, <1>2, <1>3, <1>5, <2>1
  <2> QED
    BY <1>1, <2>2
<1>6. i <= m \/ i > m
  BY <1>1
<1> QED
  BY <1>4, <1>5, <1>6

\* The head of what is held, when the rest continues it.
LEMMA HeldHead ==
  ASSUME NEW c \in Seq(Nat), c # << >>, NEW f \in Nat, \A i \in 1..Len(c) : c[i] = f + i - 1
  PROVE  /\ Head(c) = f
         /\ Tail(c) \in Seq(Nat) /\ Len(Tail(c)) = Len(c) - 1 /\ Len(c) \in Nat /\ Len(c) > 0
         /\ \A i \in 1..Len(Tail(c)) : Tail(c)[i] = (f + 1) + i - 1
         /\ Tail(c) = << >> <=> Len(c) = 1
<1>1. /\ Tail(c) \in Seq(Nat) /\ Len(Tail(c)) = Len(c) - 1
      /\ \A i \in 1..Len(Tail(c)) : Tail(c)[i] = c[i + 1]
  BY HeadTailProperties
<1>2. Len(c) \in Nat /\ Len(c) > 0
  OBVIOUS
<1>3. Head(c) = c[1] /\ c[1] = f
  BY <1>2
<1>4. ASSUME NEW i \in 1..Len(Tail(c)) PROVE Tail(c)[i] = (f + 1) + i - 1
  <2>1. i + 1 \in 1..Len(c)
    BY <1>1, <1>2
  <2>2. c[i + 1] = f + (i + 1) - 1
    BY <2>1
  <2> QED
    BY <1>1, <1>2, <2>2
<1>5. Tail(c) = << >> <=> Len(c) = 1
  <2> DEFINE t == Tail(c)
  <2>1. t \in Seq(Nat) /\ Len(t) = Len(c) - 1
    BY <1>1
  <2> HIDE DEF t
  <2>2. Len(t) = 0 => t = << >>
    BY <2>1, EmptySeq, SeqEqual
  <2>3. t = << >> => Len(t) = 0
    OBVIOUS
  <2>4. t = << >> <=> Len(c) = 1
    BY <1>2, <2>1, <2>2, <2>3
  <2> QED
    BY <2>4 DEF t
<1> QED
  BY <1>1, <1>2, <1>3, <1>4, <1>5

-----------------------------------------------------------------------------
(* Steps                                                                   *)

\* The pump is not touched.
Left(q) ==
    /\ read'[q] = read[q] /\ pump'[q] = pump[q] /\ chunk'[q] = chunk[q]
    /\ decoded'[q] = decoded[q] /\ written'[q] = written[q]

\* A pump that is not touched keeps its invariant.
LEMMA LeftAlone ==
  ASSUME NEW q \in Pumps, PumpInv(q), Left(q), script' = script, lost' = lost
  PROVE  PumpInv(q)'
<1>1. First(q)' = First(q) /\ Head1' = Head1
  BY DEF First, Head1
<1>2. Unused(q) => Unused(q)'
  BY DEF Unused, Left
<1>3. Progress(q) => Progress(q)'
  BY <1>1 DEF Progress, Left, Beginning, Got
<1> QED
  BY <1>2, <1>3 DEF PumpInv, Left

\* A pump that stops keeps what it has done.
LEMMA Stopped ==
  ASSUME Types, NEW q \in Pumps, PumpInv(q), pump[q] # "idle",
         pump'[q] \in {"closing", "done", "cancelled"},
         script' = script, lost' = lost, read'[q] = read[q],
         chunk'[q] = chunk[q] \/ chunk'[q] = << >>,
         decoded'[q] = decoded[q], written'[q] = written[q]
  PROVE  PumpInv(q)'
<1>1. First(q)' = First(q) /\ Head1' = Head1
  BY DEF First, Head1
<1>2. First(q) \in Nat /\ read[q] \in Nat /\ Len(written[q]) \in Nat
      /\ Len(chunk[q]) \in Nat /\ Len(chunk'[q]) <= Len(chunk[q]) /\ Len(chunk'[q]) \in Nat
  <2>1. chunk[q] \in Seq(Nat) /\ written[q] \in Seq(Nat) /\ read[q] \in Nat
    BY DEF Types
  <2>2. Len(chunk[q]) \in Nat /\ Len(written[q]) \in Nat
    BY <2>1
  <2>3. Len(chunk'[q]) = Len(chunk[q]) \/ Len(chunk'[q]) = 0
    OBVIOUS
  <2> QED
    BY <2>1, <2>2, <2>3, FirstFacts
<1>3. Progress(q)
  BY DEF PumpInv
<1>4. Progress(q)'
  <2>1. Beginning(written[q], q)' /\ Beginning(decoded[q], q)'
    BY <1>1, <1>3 DEF Progress, Beginning
  <2>2. Got(q)' = Got(q) /\ Got(q) \in Int
    BY <1>1, <1>2 DEF Got
  <2>3. ASSUME Head1 # "cancel"
        PROVE  Len(decoded[q]) = Got(q) /\ Len(written[q]) + Len(chunk'[q]) <= Got(q)
    <3>1. Len(decoded[q]) = Got(q) /\ Len(written[q]) + Len(chunk[q]) <= Got(q)
      BY <1>3, <2>3 DEF Progress
    <3>2. \A a, b, c \in Nat, g \in Int : a + b <= g /\ c <= b => a + c <= g
      OBVIOUS
    <3> QED
      BY <1>2, <2>2, <3>1, <3>2
  <2> QED
    BY <1>1, <2>1, <2>2, <2>3 DEF Progress
<1> QED
  BY <1>4 DEF PumpInv

\* A step of the handler or of the peers that leaves the pumps alone.
LEMMA PumpsLeft ==
  ASSUME IInv, UNCHANGED <<script, lost, read, pump, chunk, decoded, written>>,
         Types', Course', Lifetime'
  PROVE  IInv'
<1>1. \A p \in Pumps : PumpInv(p)'
  BY LeftAlone DEF IInv, Left
<1> QED
  BY <1>1 DEF IInv

\* What the client and the server do is not seen before it is read.
LEMMA PeerStep ==
  ASSUME IInv,
         \/ ClientSends \/ ClientCloses \/ ServerSends \/ ServerCloses
         \/ \E p \in Pumps : StopsReading(p)
  PROVE  IInv'
<1>1. UNCHANGED <<script, lost, read, pump, chunk, decoded, written, pc, record>>
  BY DEF ClientSends, ClientCloses, ServerSends, ServerCloses, StopsReading, pumpVars, sinkVars
<1>2. sent' \in [Pumps -> Nat] /\ eof' \in [Pumps -> BOOLEAN]
  <2>1. sent \in [Pumps -> Nat] /\ eof \in [Pumps -> BOOLEAN]
        /\ "to_server" \in Pumps /\ "to_client" \in Pumps
    BY DEF IInv, Types, Pumps
  <2>2. CASE ClientSends
    BY <2>1, <2>2 DEF ClientSends
  <2>3. CASE ClientCloses
    BY <2>1, <2>3 DEF ClientCloses
  <2>4. CASE ServerSends
    BY <2>1, <2>4 DEF ServerSends
  <2>5. CASE ServerCloses
    BY <2>1, <2>5 DEF ServerCloses
  <2>6. CASE \E p \in Pumps : StopsReading(p)
    BY <2>1, <2>6 DEF StopsReading
  <2> QED
    BY <2>2, <2>3, <2>4, <2>5, <2>6
<1>3. Types'
  BY <1>1, <1>2 DEF IInv, Types
<1>4. Course' /\ Lifetime'
  BY <1>1 DEF IInv, Course, Lifetime, Head1
<1> QED
  BY <1>1, <1>3, <1>4, PumpsLeft

\* The head is read.
LEMMA ReadHeadStep ==
  ASSUME IInv, ReadHead
  PROVE  IInv'
<1>1. /\ UNCHANGED <<script, lost, sent, eof, pump, chunk, decoded, written>>
      /\ pc = "head" /\ read' = [read EXCEPT !["to_server"] = 1]
      /\ \/ /\ pc' = CASE Head1 = "cancel" -> "connect_cancel"
                        [] Head1 = "ssl" -> "accept_tls"
                        [] OTHER -> "connect"
            /\ record' = record
         \/ pc' = "returned" /\ record' = "closed"
  BY DEF ReadHead, envVars, pumpVars, sinkVars, Return
<1>2. /\ Types /\ lost = 0 /\ \A p \in Pumps : pump[p] = "idle" /\ PumpInv(p)
  BY <1>1 DEF IInv, Lifetime, Course, Opening
<1>3. read' \in [Pumps -> Nat] /\ read'["to_server"] = 1
      /\ read'["to_client"] = read["to_client"]
  BY <1>1, <1>2 DEF Types, Pumps
<1>4. pc' \in {"connect_cancel", "accept_tls", "connect", "returned"}
      /\ (pc' = "connect_cancel" => Head1 = "cancel")
      /\ (pc' \in {"accept_tls", "connect"} => Head1 # "cancel")
      /\ (record' = "closed" => pc' = "returned") /\ record' \in {"open", "closed"}
  <2>1. record = "open"
    BY <1>1, <1>2 DEF IInv, Lifetime, Types
  <2> QED
    BY <1>1, <2>1
<1>5. Types'
  BY <1>1, <1>2, <1>3, <1>4 DEF Types, Opening
<1>6. Course' /\ Lifetime'
  BY <1>1, <1>2, <1>3, <1>4 DEF Course, Lifetime, Opening, Head1
<1>7. ASSUME NEW p \in Pumps PROVE PumpInv(p)'
  BY <1>1, <1>2, <1>3 DEF PumpInv, Unused, Pumps
<1> QED
  BY <1>5, <1>6, <1>7 DEF IInv

\* The steps that lead up to the pumps, or return before there are any.
LEMMA OpeningStep ==
  ASSUME IInv, HeadMissing \/ AcceptTls \/ ConnectUpstream \/ ConnectTls
  PROVE  IInv'
<1>1. UNCHANGED <<script, lost, sent, eof, read, pump, chunk, decoded, written>>
  BY DEF HeadMissing, AcceptTls, ConnectUpstream, ConnectTls, envVars, pumpVars, sinkVars
<1>2. /\ pc \in {"head", "accept_tls", "connect", "connect_tls"}
      /\ \/ pc' = "returned" /\ record' = "closed"
         \/ /\ pc' \in {"connect", "initial", "probe"} /\ record' = record
            /\ pc # "head" /\ (pc = "connect_tls" => pc' = "initial")
  BY DEF HeadMissing, AcceptTls, ConnectUpstream, ConnectTls, Return
<1>3. Types'
  BY <1>1, <1>2 DEF IInv, Types, Opening
<1>4. Course' /\ Lifetime'
  BY <1>1, <1>2 DEF IInv, Course, Lifetime, Opening, Head1
<1> QED
  BY <1>1, <1>3, <1>4, PumpsLeft

\* The answer to the probe; the one byte of an error message is lost.
LEMMA ProbeStep ==
  ASSUME IInv, NEW b \in ReplyBytes, ProbeReply(b)
  PROVE  IInv'
<1>1. UNCHANGED <<script, record, pump, chunk, decoded, written>>
      /\ pc = "probe" /\ pc' \in {"connect_tls", "initial"}
  BY DEF ProbeReply, pumpVars, sinkVars
<1>2. Types /\ lost = 0 /\ Head1 # "cancel" /\ read["to_server"] = 1 /\ record # "closed"
      /\ \A p \in Pumps : pump[p] = "idle" /\ Unused(p)
  BY <1>1 DEF IInv, Lifetime, Course, Opening, PumpInv
<1>3. "to_client" \in Pumps /\ "to_server" \in Pumps /\ read["to_client"] = 0
  BY <1>2 DEF Pumps, Unused
<1>4. /\ read' \in [Pumps -> Nat] /\ sent' \in [Pumps -> Nat] /\ eof' \in [Pumps -> BOOLEAN]
      /\ lost' \in Nat /\ read'["to_client"] = lost' /\ read'["to_server"] = 1
  <2>1. read \in [Pumps -> Nat] /\ sent \in [Pumps -> Nat] /\ eof \in [Pumps -> BOOLEAN]
    BY <1>2 DEF Types
  <2>2. sent' \in [Pumps -> Nat] /\ eof' \in [Pumps -> BOOLEAN] /\ lost' \in Nat
    BY <1>3, <2>1 DEF ProbeReply
  <2>3. read' \in [Pumps -> Nat] /\ read'["to_client"] = lost' /\ read'["to_server"] = 1
    BY <1>2, <1>3, <2>1 DEF ProbeReply
  <2> QED
    BY <2>2, <2>3
<1>5. Types'
  BY <1>1, <1>2, <1>4 DEF Types, Opening
<1>6. Course' /\ Lifetime'
  BY <1>1, <1>2, <1>4 DEF Course, Lifetime, Opening, Head1
<1>7. ASSUME NEW p \in Pumps PROVE PumpInv(p)'
  BY <1>1, <1>2, <1>4 DEF PumpInv, Unused
<1> QED
  BY <1>5, <1>6, <1>7 DEF IInv

\* The pumps, or the copies of a cancel request, are started: what was read of
\* the client and is not answered here is written.
LEMMA StartStep ==
  ASSUME IInv, ConnectCancel \/ StartPumps
  PROVE  IInv'
<1>1. UNCHANGED <<script, lost, sent, eof, read, chunk>>
  BY DEF ConnectCancel, StartPumps, envVars
<1>2. Types /\ "to_client" \in Pumps /\ "to_server" \in Pumps
  BY DEF IInv, Pumps
<1>3. CASE pc' = "returned" /\ record' = "closed" /\ UNCHANGED <<written, pump, decoded>>
  <2>1. pc \in Opening
    BY DEF ConnectCancel, StartPumps, Opening
  <2>2. Types'
    BY <1>1, <1>2, <1>3 DEF Types
  <2>3. Course' /\ Lifetime'
    BY <1>1, <1>3, <2>1 DEF IInv, Course, Lifetime, Opening, Head1
  <2> QED
    BY <1>1, <1>3, <2>2, <2>3, PumpsLeft
<1>4. CASE /\ pc' \in {"relay", "pumping"} /\ pump' = [p \in Pumps |-> "reading"]
           /\ record' = record
  <2>1. /\ pc \in {"connect_cancel", "initial"}
        /\ pc = "connect_cancel" => pc' = "relay"
        /\ pc = "initial" => pc' = "pumping"
    BY <1>4 DEF ConnectCancel, StartPumps, Return
  <2>2. \A p \in Pumps : pump[p] = "idle" /\ Unused(p)
    BY <2>1 DEF IInv, Lifetime, PumpInv, Opening
  <2>3. /\ read["to_server"] = 1 /\ record # "closed" /\ read["to_client"] = lost
        /\ pc = "connect_cancel" => Head1 = "cancel" /\ lost = 0
        /\ pc = "initial" => Head1 # "cancel"
    BY <1>2, <2>1, <2>2 DEF IInv, Lifetime, Course, Unused, Opening
  <2> DEFINE h == IF Head1 \in {"ssl", "gss"} THEN << >> ELSE <<1>>
  <2>4. Head1 \in Heads
    BY <1>2, ProxyAssumption DEF Types, Head1
  <2>5. h \in Seq(Nat) /\ Len(h) = 2 - First("to_server") /\ Beginning(h, "to_server")
        /\ First("to_server") \in Nat
    <3>1. CASE Head1 \in {"ssl", "gss"}
      <4>1. h = << >> /\ First("to_server") = 2
        BY <1>2, <3>1, FirstFacts
      <4> QED
        BY <4>1 DEF Beginning
    <3>2. CASE Head1 \notin {"ssl", "gss"}
      <4>1. h = <<1>> /\ First("to_server") = 1
        BY <1>2, <3>2, FirstFacts
      <4> QED
        BY <4>1 DEF Beginning
    <3> QED
      BY <3>1, <3>2
  <2>6. written' = [written EXCEPT !["to_server"] = h]
    BY <1>4, <2>1, <2>3, <2>4 DEF ConnectCancel, StartPumps, Return, Initial, Heads
  <2>7. \/ Head1 = "cancel" /\ decoded' = decoded
        \/ Head1 # "cancel" /\ decoded' = [decoded EXCEPT !["to_server"] = h]
    BY <1>4, <2>1, <2>3, <2>4 DEF ConnectCancel, StartPumps, Return, Initial, Heads
  <2> HIDE DEF h
  <2>8. Types'
    <3>1. written' \in [Pumps -> Seq(Nat)] /\ decoded' \in [Pumps -> Seq(Nat)]
      BY <1>2, <2>5, <2>6, <2>7 DEF Types
    <3>2. pump' \in [Pumps -> PumpStates]
      BY <1>4 DEF PumpStates
    <3> QED
      BY <1>1, <1>2, <1>4, <3>1, <3>2 DEF Types, Opening
  <2>9. Course' /\ Lifetime'
    BY <1>1, <1>4, <2>1, <2>3 DEF Course, Lifetime, Opening, Head1
  <2>10. PumpInv("to_server")'
    <3>1. First("to_server")' = First("to_server") /\ Head1' = Head1
      BY <1>1 DEF First, Head1
    <3>2. Got("to_server")' = 2 - First("to_server")
      BY <1>1, <2>3, <2>5, <3>1 DEF Got
    <3>3. /\ pump'["to_server"] = "reading" /\ chunk'["to_server"] = << >>
          /\ written'["to_server"] = h
          /\ Head1 # "cancel" => decoded'["to_server"] = h
          /\ Head1 = "cancel" => decoded'["to_server"] = << >>
      BY <1>1, <1>2, <1>4, <2>2, <2>6, <2>7 DEF Types, Unused
    <3>4. Beginning(written["to_server"], "to_server")'
      BY <2>5, <3>1, <3>3 DEF Beginning
    <3>5. Beginning(decoded["to_server"], "to_server")'
      BY <2>5, <3>1, <3>3 DEF Beginning
    <3>6. Len(written'["to_server"]) + Len(chunk'["to_server"]) = Got("to_server")'
          /\ Got("to_server")' \in Int
      BY <2>5, <3>2, <3>3
    <3> QED
      BY <2>5, <3>1, <3>2, <3>3, <3>4, <3>5, <3>6 DEF PumpInv, Progress
  <2>11. PumpInv("to_client")'
    <3>1. First("to_client")' = First("to_client") /\ First("to_client") = lost + 1
          /\ lost \in Nat
      BY <1>1, <1>2, FirstFacts DEF First, Types
    <3>2. Got("to_client")' = 0
      BY <1>1, <2>3, <3>1 DEF Got
    <3>3. pump'["to_client"] = "reading" /\ chunk'["to_client"] = << >>
          /\ written'["to_client"] = << >> /\ decoded'["to_client"] = << >>
      BY <1>1, <1>2, <1>4, <2>2, <2>6, <2>7 DEF Types, Unused
    <3> QED
      BY <3>2, <3>3 DEF PumpInv, Progress, Beginning
  <2> QED
    BY <2>8, <2>9, <2>10, <2>11 DEF IInv, Pumps
<1> QED
  BY <1>3, <1>4 DEF ConnectCancel, StartPumps, Return, sinkVars

\* The other pump of a pair is not touched by a step of pump p.
LEMMA OnePump ==
  ASSUME IInv, NEW p \in Pumps, PumpInv(p)', \A q \in Pumps \ {p} : Left(q),
         UNCHANGED <<script, lost>>, Types', Course', Lifetime'
  PROVE  IInv'
<1>1. \A q \in Pumps \ {p} : PumpInv(q)'
  BY LeftAlone DEF IInv
<1> QED
  BY <1>1 DEF IInv

\* A read is decoded and held.
LEMMA PumpReadsStep ==
  ASSUME IInv, NEW p \in Pumps, NEW n \in 1..MaxRead, PumpReads(p, n)
  PROVE  IInv'
<1> DEFINE got == [i \in 1..n |-> read[p] + i]
<1>1. /\ UNCHANGED <<script, lost, sent, eof, pc, record, written>>
      /\ pc # "relay" /\ pump[p] = "reading"
      /\ read' = [read EXCEPT ![p] = @ + n]
      /\ decoded' = [decoded EXCEPT ![p] = @ \o got]
      /\ chunk' = [chunk EXCEPT ![p] = got]
      /\ pump' = [pump EXCEPT ![p] = "writing"]
  BY DEF PumpReads, Pumping, envVars, sinkVars
<1>2. Types /\ read[p] \in Nat /\ n \in Nat /\ n > 0 /\ decoded[p] \in Seq(Nat)
      /\ written[p] \in Seq(Nat)
  BY ProxyAssumption DEF IInv, Types
<1>3. got \in Seq(Nat) /\ Len(got) = n /\ \A i \in 1..n : got[i] = read[p] + i
  BY <1>2
<1> HIDE DEF got
<1>4. Progress(p)
  BY <1>1 DEF IInv, PumpInv
<1>5. pc \in {"pumping", "aborting"} /\ Head1 # "cancel"
  BY <1>1 DEF IInv, Lifetime, Course, Types, Opening
<1>6. First(p) \in Nat /\ First(p)' = First(p) /\ Head1' = Head1
  BY <1>1, <1>2, FirstFacts DEF First, Head1
<1>7. Len(decoded[p]) = read[p] + 1 - First(p) /\ Len(written[p]) = read[p] + 1 - First(p)
  BY <1>1, <1>4, <1>5 DEF Progress, Got
<1>8. Types'
  <2>1. decoded[p] \o got \in Seq(Nat) /\ read[p] + n \in Nat
    BY <1>2, <1>3, ConcatProperties
  <2>2. decoded' \in [Pumps -> Seq(Nat)] /\ chunk' \in [Pumps -> Seq(Nat)]
        /\ read' \in [Pumps -> Nat] /\ pump' \in [Pumps -> PumpStates]
    BY <1>1, <1>2, <1>3, <2>1 DEF Types, PumpStates
  <2> QED
    BY <1>1, <1>2, <2>2 DEF Types
<1>9. Course' /\ Lifetime'
  BY <1>1, <1>5 DEF IInv, Course, Lifetime, Head1, Opening, Types
<1>10. /\ read'[p] = read[p] + n /\ decoded'[p] = decoded[p] \o got /\ chunk'[p] = got
       /\ pump'[p] = "writing" /\ written'[p] = written[p]
       /\ \A q \in Pumps \ {p} : Left(q)
  BY <1>1, <1>2 DEF Types, Left
<1>11. Progress(p)'
  <2> DEFINE d == Len(decoded[p])
             f == First(p)
             r == read[p]
  <2>0. \A i \in 1..n : got[i] = f + d + i - 1
    <3>1. r \in Nat /\ f \in Nat /\ d = r + 1 - f /\ \A i \in 1..n : got[i] = r + i
      BY <1>2, <1>3, <1>6, <1>7
    <3> HIDE DEF d, f, r
    <3> QED
      BY <3>1
  <2>1. /\ \A i \in 1..Len(got) : got[i] = First(p) + Len(decoded[p]) + i - 1
        /\ Len(written[p]) = Len(decoded[p])
    BY <1>3, <1>7, <2>0
  <2> HIDE DEF d, f, r
  <2>2. Beginning(decoded[p] \o got, p)
    BY <1>2, <1>3, <1>4, <2>1, Continued DEF Progress
  <2>3. Len(decoded[p] \o got) = Len(decoded[p]) + n
    BY <1>2, <1>3, ConcatProperties
  <2>4. Got(p)' = read[p] + n + 1 - First(p)
    BY <1>6, <1>10 DEF Got
  <2>5. Beginning(written[p], p)' /\ Beginning(decoded[p], p)'
    BY <1>4, <1>6, <1>10, <2>2 DEF Progress, Beginning
  <2>6. Len(decoded'[p]) = Got(p)' /\ Got(p)' \in Int
    BY <1>2, <1>6, <1>7, <1>10, <2>3, <2>4
  <2>7. /\ Len(written'[p]) + Len(chunk'[p]) = Got(p)'
        /\ Len(written'[p]) + Len(chunk'[p]) <= Got(p)'
    <3>1. Len(written'[p]) = read[p] + 1 - First(p) /\ Len(chunk'[p]) = n
      BY <1>3, <1>7, <1>10
    <3>2. \A a, b, c \in Int : a = b + 1 - c => a + n = b + n + 1 - c
      BY <1>2
    <3>3. read[p] + 1 - First(p) \in Int
      BY <1>2, <1>6
    <3>4. Len(written'[p]) + Len(chunk'[p]) = Got(p)'
      BY <1>2, <1>6, <2>4, <3>1, <3>2, <3>3
    <3>5. \A g \in Int : g <= g
      OBVIOUS
    <3> QED
      BY <2>6, <3>4, <3>5
  <2>8. chunk'[p] # << >>
        /\ \A i \in 1..Len(chunk'[p]) : chunk'[p][i] = First(p)' + Len(written'[p]) + i - 1
    <3>1. got # << >>
      BY <1>2, <1>3
    <3>2. \A i \in 1..Len(got) : got[i] = First(p) + Len(written[p]) + i - 1
      BY <2>1
    <3> QED
      BY <1>6, <1>10, <3>1, <3>2
  <2> QED
    BY <1>10, <2>5, <2>6, <2>7, <2>8 DEF Progress
<1>12. PumpInv(p)'
  BY <1>10, <1>11 DEF PumpInv
<1> QED
  BY <1>1, <1>8, <1>9, <1>10, <1>12, OnePump

\* A pump that stops: its source ended or failed, its sink failed, or it was
\* aborted.
LEMMA StopStep ==
  ASSUME IInv, NEW p \in Pumps, pump[p] \in {"reading", "writing", "closing"},
         NEW how \in {"closing", "done", "cancelled"}, pump' = [pump EXCEPT ![p] = how],
         chunk' = chunk \/ chunk' = [chunk EXCEPT ![p] = << >>],
         UNCHANGED <<script, lost, sent, eof, read, decoded, written, pc, record>>
  PROVE  IInv'
<1>1. Types /\ PumpInv(p)
  BY DEF IInv
<1>2. Types'
  <2>1. chunk' \in [Pumps -> Seq(Nat)]
    <3>1. chunk \in [Pumps -> Seq(Nat)] /\ << >> \in Seq(Nat)
      BY <1>1 DEF Types
    <3>2. CASE chunk' = [chunk EXCEPT ![p] = << >>]
      BY <3>1, <3>2, Zenon
    <3> QED
      BY <3>1, <3>2
  <2>2. pump' \in [Pumps -> PumpStates]
    BY <1>1 DEF Types, PumpStates
  <2> QED
    BY <1>1, <2>1, <2>2 DEF Types
<1>3. Course' /\ Lifetime'
  BY DEF IInv, Course, Lifetime, Head1, Types, Opening
<1>4. /\ pump'[p] = how /\ chunk'[p] \in {chunk[p], << >>}
      /\ \A q \in Pumps \ {p} : Left(q)
  BY <1>1 DEF Types, Left
<1>5. PumpInv(p)'
  BY <1>1, <1>4, Stopped
<1> QED
  BY <1>2, <1>3, <1>4, <1>5, OnePump

\* One unit that is held is written; the last one sends the pump back to read.
LEMMA PumpWritesStep ==
  ASSUME IInv, NEW p \in Pumps, PumpWrites(p)
  PROVE  IInv'
<1>1. UNCHANGED <<script, lost, sent, eof, pc, record, read, decoded>>
      /\ pc # "relay" /\ pump[p] = "writing"
  BY DEF PumpWrites, Pumping, envVars
<1>2. CASE chunk' = [chunk EXCEPT ![p] = << >>] /\ pump' = [pump EXCEPT ![p] = "done"]
           /\ written' = written
  BY <1>1, <1>2, StopStep
<1>3. CASE /\ written' = [written EXCEPT ![p] = Append(@, Head(chunk[p]))]
           /\ chunk' = [chunk EXCEPT ![p] = Tail(@)]
           /\ pump' = [pump EXCEPT ![p] = IF Len(chunk[p]) = 1 THEN "reading" ELSE @]
  <2> DEFINE c == chunk[p]
             w == written[p]
             f == First(p) + Len(w)
  <2>1. Types /\ Progress(p) /\ c \in Seq(Nat) /\ w \in Seq(Nat) /\ read[p] \in Nat
        /\ Beginning(w, p)
    BY <1>1 DEF IInv, PumpInv, Types, Progress
  <2>2. First(p) \in Nat /\ First(p)' = First(p) /\ Head1' = Head1 /\ Len(w) \in Nat
        /\ f \in Nat
    <3>1. First(p)' = First(p) /\ Head1' = Head1
      BY <1>1 DEF First, Head1
    <3>2. First(p) \in Nat /\ Len(w) \in Nat
      BY <2>1, FirstFacts
    <3> QED
      BY <3>1, <3>2
  <2>3. c # << >> /\ \A i \in 1..Len(c) : c[i] = f + i - 1
    BY <1>1, <2>1 DEF Progress
  <2>4. Got(p) \in Int /\ Len(w) + Len(c) = Got(p)
    <3>1. Got(p) \in Int
      BY <2>1, <2>2 DEF Got
    <3> QED
      BY <1>1, <2>1, <3>1 DEF Progress
  <2> HIDE DEF f, c, w
  <2>5. /\ Head(c) = f
        /\ Tail(c) \in Seq(Nat) /\ Len(Tail(c)) = Len(c) - 1 /\ Len(c) \in Nat /\ Len(c) > 0
        /\ \A i \in 1..Len(Tail(c)) : Tail(c)[i] = (f + 1) + i - 1
        /\ Tail(c) = << >> <=> Len(c) = 1
    BY <2>1, <2>2, <2>3, HeldHead
  <2>6. Append(w, f) \in Seq(Nat) /\ Len(Append(w, f)) = Len(w) + 1
    BY <2>1, <2>2, AppendProperties
  <2>7. Beginning(Append(w, f), p)
    <3>1. w \o <<f>> = Append(w, f)
      BY <2>1, <2>2, AppendIsConcat
    <3>2. <<f>> \in Seq(Nat) /\ \A i \in 1..Len(<<f>>) : <<f>>[i] = First(p) + Len(w) + i - 1
      BY <2>2 DEF f
    <3>3. Beginning(w \o <<f>>, p)
      BY <2>1, <3>2, Continued
    <3> QED
      BY <3>1, <3>3
  <2>8. /\ written'[p] = Append(w, f) /\ chunk'[p] = Tail(c)
        /\ pump'[p] = IF Len(c) = 1 THEN "reading" ELSE "writing"
        /\ decoded'[p] = decoded[p] /\ read'[p] = read[p]
        /\ \A q \in Pumps \ {p} : Left(q)
    <3>1. Head(chunk[p]) = f /\ pump[p] = "writing"
      BY <1>1, <2>5 DEF c
    <3> QED
      BY <1>1, <1>3, <2>1, <3>1 DEF Types, Left, c, w
  <2>9. Types'
    <3>1. written' \in [Pumps -> Seq(Nat)] /\ chunk' \in [Pumps -> Seq(Nat)]
      BY <1>3, <2>1, <2>5, <2>6 DEF Types, c, w
    <3>2. pump' \in [Pumps -> PumpStates]
      BY <1>3, <2>1 DEF Types, PumpStates
    <3> QED
      BY <1>1, <2>1, <3>1, <3>2 DEF Types
  <2>10. Course' /\ Lifetime'
    BY <1>1, <1>3, <2>1, <2>8 DEF IInv, Course, Lifetime, Head1, Types, Opening, Left, c
  <2>11. Progress(p)'
    <3>1. Got(p)' = Got(p)
      BY <2>2, <2>8 DEF Got
    <3>2. Beginning(written[p], p)' /\ Beginning(decoded[p], p)'
      BY <2>1, <2>2, <2>7, <2>8 DEF Progress, Beginning
    <3>3. Len(written'[p]) = Len(w) + 1 /\ Len(chunk'[p]) = Len(c) - 1
      BY <2>5, <2>6, <2>8
    <3>4. /\ Len(written'[p]) + Len(chunk'[p]) = Got(p)'
          /\ Len(written'[p]) + Len(chunk'[p]) <= Got(p)'
      <4> DEFINE a == Len(w)
                 b == Len(c)
                 g == Got(p)
      <4>1. a \in Nat /\ b \in Nat /\ g \in Int /\ a + b = g
        BY <2>2, <2>4, <2>5
      <4>2. Len(written'[p]) = a + 1 /\ Len(chunk'[p]) = b - 1 /\ Got(p)' = g
        BY <3>1, <3>3
      <4> HIDE DEF a, b, g
      <4>3. (a + 1) + (b - 1) = g /\ (a + 1) + (b - 1) <= g
        BY <4>1
      <4> QED
        BY <4>2, <4>3
    <3>5. Head1' # "cancel" => Len(decoded'[p]) = Got(p)'
      BY <2>1, <2>2, <2>8, <3>1 DEF Progress
    <3>6. CASE Len(c) = 1
      <4>1. Tail(c) = << >>
        BY <2>5, <3>6
      <4>2. Len(w) + 1 = Got(p)
        BY <2>4, <3>6
      <4> QED
        BY <2>8, <3>1, <3>2, <3>3, <3>4, <3>5, <3>6, <4>1, <4>2 DEF Progress
    <3>7. CASE Len(c) # 1
      <4>1. Tail(c) # << >>
        BY <2>5, <3>7
      <4>2. First(p)' + Len(written'[p]) = f + 1
        BY <2>2, <3>3 DEF f
      <4>3. \A i \in 1..Len(chunk'[p]) : chunk'[p][i] = First(p)' + Len(written'[p]) + i - 1
        BY <2>5, <2>8, <4>2
      <4> QED
        BY <2>8, <3>2, <3>4, <3>5, <3>7, <4>1, <4>3 DEF Progress
    <3> QED
      BY <3>6, <3>7
  <2>12. PumpInv(p)'
    BY <2>8, <2>11 DEF PumpInv
  <2> QED
    BY <1>1, <2>8, <2>9, <2>10, <2>12, OnePump
<1> QED
  BY <1>2, <1>3 DEF PumpWrites, sinkVars

\* raw_relay copies one unit.
LEMMA CopyMovesStep ==
  ASSUME IInv, NEW p \in Pumps, CopyMoves(p)
  PROVE  IInv'
<1> DEFINE w == written[p]
           u == read[p] + 1
<1>1. /\ UNCHANGED <<script, lost, sent, eof, pc, record, pump, chunk, decoded>>
      /\ pc = "relay" /\ pump[p] = "reading"
      /\ read' = [read EXCEPT ![p] = u]
      /\ written' = [written EXCEPT ![p] = Append(w, u)]
  BY DEF CopyMoves, envVars, pumpVars
<1>2. Types /\ Progress(p) /\ w \in Seq(Nat) /\ read[p] \in Nat /\ u \in Nat
      /\ Head1 = "cancel"
  BY <1>1 DEF IInv, PumpInv, Types, Course
<1>3. First(p) \in Nat /\ First(p)' = First(p) /\ Head1' = Head1 /\ Len(w) \in Nat
  <2>1. First(p)' = First(p) /\ Head1' = Head1
    BY <1>1 DEF First, Head1
  <2> QED
    BY <1>2, <2>1, FirstFacts
<1>4. chunk[p] = << >> /\ Len(w) = u - First(p)
  <2>1. chunk[p] = << >> /\ Len(written[p]) = Got(p)
    BY <1>1, <1>2 DEF Progress
  <2>2. Got(p) = u - First(p)
    BY <1>2, <1>3 DEF Got
  <2> QED
    BY <2>1, <2>2
<1> HIDE DEF u
<1>5. Append(w, u) \in Seq(Nat) /\ Len(Append(w, u)) = Len(w) + 1
  BY <1>2, AppendProperties
<1>6. Beginning(Append(w, u), p)
  <2>1. w \o <<u>> = Append(w, u)
    BY <1>2, AppendIsConcat
  <2>2. <<u>> \in Seq(Nat) /\ \A i \in 1..Len(<<u>>) : <<u>>[i] = First(p) + Len(w) + i - 1
    BY <1>2, <1>3, <1>4
  <2>3. Beginning(w \o <<u>>, p)
    BY <1>2, <2>2, Continued DEF Progress
  <2> QED
    BY <2>1, <2>3
<1>7. /\ written'[p] = Append(w, u) /\ read'[p] = u /\ pump'[p] = "reading"
      /\ chunk'[p] = << >> /\ decoded'[p] = decoded[p]
      /\ \A q \in Pumps \ {p} : Left(q)
  BY <1>1, <1>2, <1>4 DEF Types, Left
<1>8. Types'
  <2>1. written' \in [Pumps -> Seq(Nat)] /\ read' \in [Pumps -> Nat]
    BY <1>1, <1>2, <1>5 DEF Types
  <2> QED
    BY <1>1, <1>2, <2>1 DEF Types
<1>9. Course' /\ Lifetime'
  BY <1>1, <1>2 DEF IInv, Course, Lifetime, Head1, Opening
<1>10. Progress(p)'
  <2>1. Len(written'[p]) = Got(p)'
    BY <1>2, <1>3, <1>4, <1>5, <1>7 DEF Got
  <2>2. Beginning(written[p], p)' /\ Beginning(decoded[p], p)'
    BY <1>2, <1>3, <1>6, <1>7 DEF Progress, Beginning
  <2> QED
    BY <1>2, <1>3, <1>7, <2>1, <2>2 DEF Progress
<1>11. PumpInv(p)'
  BY <1>7, <1>10 DEF PumpInv
<1> QED
  BY <1>1, <1>7, <1>8, <1>9, <1>11, OnePump

\* raw_relay fails: both copies end.
LEMMA RelayFailsStep ==
  ASSUME IInv, NEW p \in Pumps, RelayFails(p)
  PROVE  IInv'
<1>1. /\ UNCHANGED <<script, lost, sent, eof, read, chunk, decoded, written>>
      /\ pc = "relay" /\ pump' = [q \in Pumps |-> "done"]
      /\ pc' = "returned" /\ record' = "closed"
  BY DEF RelayFails, envVars, sinkVars, Return
<1>2. Types'
  BY <1>1 DEF IInv, Types, PumpStates
<1>3. Course' /\ Lifetime'
  BY <1>1 DEF IInv, Course, Lifetime, Head1, Opening
<1>4. ASSUME NEW q \in Pumps PROVE PumpInv(q)'
  <2>1. pump[q] # "idle" /\ Types /\ PumpInv(q) /\ pump'[q] = "done"
    BY <1>1 DEF IInv, Lifetime
  <2> QED
    BY <1>1, <2>1, Stopped
<1> QED
  BY <1>2, <1>3, <1>4 DEF IInv

-----------------------------------------------------------------------------
(* The invariant and what follows from it                                  *)

\* An accepted connection satisfies the inductive invariant.
LEMMA InitIInv == Init => IInv
<1> SUFFICES ASSUME Init PROVE IInv
  OBVIOUS
<1>1. Types
  BY DEF Init, Types, Opening, PumpStates
<1>2. Course /\ Lifetime
  BY DEF Init, Course, Lifetime, Opening, Pumps
<1>3. \A p \in Pumps : PumpInv(p)
  BY DEF Init, PumpInv, Unused, Pumps
<1> QED
  BY <1>1, <1>2, <1>3 DEF IInv

\* Every step of the handler, of a pump, of a copy and of a peer keeps it.
LEMMA NextIInv ==
  ASSUME IInv, [Next]_vars
  PROVE  IInv'
<1>1. CASE \/ ClientSends \/ ClientCloses \/ ServerSends \/ ServerCloses
           \/ \E p \in Pumps : StopsReading(p)
  BY <1>1, PeerStep
<1>2. CASE Handler
  <2>1. CASE SelectFirst \/ Finish \/ RelayEnds
    <3>1. /\ UNCHANGED <<script, lost, sent, eof, read, pump, chunk, decoded, written>>
          /\ \/ pc = "pumping" /\ pc' = "aborting" /\ record' = record
             \/ /\ pc \in {"aborting", "relay"} /\ pc' = "returned" /\ record' = "closed"
                /\ \A p \in Pumps : pump[p] \in {"done", "cancelled"}
      BY <2>1 DEF SelectFirst, Finish, RelayEnds, Return, envVars, pumpVars, sinkVars
    <3>2. Types'
      BY <3>1 DEF IInv, Types
    <3>3. Course' /\ Lifetime'
      BY <3>1 DEF IInv, Course, Lifetime, Head1, Opening
    <3> QED
      BY <3>1, <3>2, <3>3, PumpsLeft
  <2> QED
    BY <1>2, <2>1, ReadHeadStep, OpeningStep, StartStep DEF Handler
<1>3. CASE Probe
  BY <1>3, ProbeStep DEF Probe
<1>4. ASSUME NEW p \in Pumps, Pump(p) PROVE IInv'
  <2>1. CASE PumpEof(p) \/ PumpShutsDown(p) \/ PumpReadFails(p) \/ PumpCancelled(p)
    <3>1. /\ UNCHANGED <<script, lost, sent, eof, read, chunk, decoded, written, pc, record>>
          /\ pump[p] \in {"reading", "writing", "closing"}
          /\ \E how \in {"closing", "done", "cancelled"} : pump' = [pump EXCEPT ![p] = how]
      BY <2>1 DEF PumpEof, PumpShutsDown, PumpReadFails, PumpCancelled, envVars, sinkVars
    <3> QED
      BY <3>1, StopStep
  <2> QED
    BY <1>4, <2>1, PumpReadsStep, PumpWritesStep DEF Pump
<1>5. ASSUME NEW p \in Pumps, Copy(p) PROVE IInv'
  <2>1. CASE CopyEof(p)
    <3>1. /\ UNCHANGED <<script, lost, sent, eof, read, chunk, decoded, written, pc, record>>
          /\ pump[p] = "reading" /\ pump' = [pump EXCEPT ![p] = "done"]
      BY <2>1 DEF CopyEof, envVars, sinkVars
    <3> QED
      BY <3>1, StopStep
  <2> QED
    BY <1>5, <2>1, CopyMovesStep, RelayFailsStep DEF Copy
<1>6. CASE UNCHANGED vars
  <2>1. UNCHANGED <<script, pc, record, lost, sent, read, eof, pump, chunk, decoded, written>>
    BY <1>6 DEF vars
  <2>2. Types' /\ Course' /\ Lifetime'
    BY <2>1 DEF IInv, Types, Course, Lifetime, Head1
  <2> QED
    BY <2>1, <2>2, PumpsLeft
<1> QED
  BY <1>1, <1>2, <1>3, <1>4, <1>5, <1>6 DEF Next

\* The inductive invariant holds throughout a connection.
LEMMA IInvInvariant == Spec => []IInv
<1>1. Init => IInv
  BY InitIInv
<1>2. IInv /\ [Next]_vars => IInv'
  BY NextIInv
<1> QED
  BY <1>1, <1>2, PTL DEF Spec

\* pump and raw_relay forward the bytes untouched: what is forwarded and what is
\* decoded is a beginning of what the sender meant for its peer, for every
\* script and whichever way the connection starts, and nothing is forwarded
\* that was not decoded before.
THEOREM ForwardsUntouched == Spec => []Untouched
<1>1. IInv => Untouched
  <2> SUFFICES ASSUME IInv PROVE Untouched
    OBVIOUS
  <2>1. ASSUME NEW p \in Pumps
        PROVE  /\ Beginning(written[p], p) /\ Beginning(decoded[p], p)
               /\ Head1 # "cancel" => Len(written[p]) + Len(chunk[p]) <= Len(decoded[p])
    <3>1. CASE pump[p] = "idle"
      <4>1. decoded[p] = << >> /\ written[p] = << >> /\ chunk[p] = << >>
        BY <3>1 DEF IInv, PumpInv, Unused
      <4> QED
        BY <4>1 DEF Beginning
    <3>2. CASE pump[p] # "idle"
      BY <3>2 DEF IInv, PumpInv, Progress
    <3> QED
      BY <3>1, <3>2
  <2> QED
    BY <2>1 DEF Untouched
<1> QED
  BY <1>1, IInvInvariant, PTL

\* Once close_connection has closed the record, no pump decodes or forwards
\* anything: the handler returns only after both have stopped.
THEOREM QuietOnceClosed == Spec => QuietAfterClose
<1>1. IInv /\ [Next]_vars => [record = "closed" => UNCHANGED <<decoded, sinkVars>>]_vars
  <2> SUFFICES ASSUME IInv, [Next]_vars, record = "closed"
               PROVE  UNCHANGED <<decoded, written, flushed>>
    BY DEF sinkVars
  <2>1. pc = "returned" /\ \A p \in Pumps : pump[p] \notin {"reading", "writing", "closing"}
    BY DEF IInv, Lifetime
  <2>2. CASE ClientSends \/ ClientCloses \/ ServerSends \/ ServerCloses \/ Handler \/ Probe
    BY <2>1, <2>2 DEF ClientSends, ClientCloses, ServerSends, ServerCloses, Handler, Probe,
          ReadHead, HeadMissing, ConnectCancel, AcceptTls, ConnectUpstream, ConnectTls,
          StartPumps, SelectFirst, Finish, RelayEnds, ProbeReply, pumpVars, sinkVars
  <2>3. CASE \E p \in Pumps : StopsReading(p) \/ Pump(p) \/ Copy(p)
    BY <2>1, <2>3 DEF StopsReading, Pump, Copy, PumpReads, PumpWrites, PumpEof, PumpShutsDown,
          PumpReadFails, PumpCancelled, CopyMoves, CopyEof, RelayFails, pumpVars, sinkVars
  <2>4. CASE UNCHANGED vars
    BY <2>4 DEF vars
  <2> QED
    BY <2>2, <2>3, <2>4 DEF Next
<1> QED
  BY <1>1, IInvInvariant, PTL DEF Spec, QuietAfterClose
===============================================================================
