--------------------------- MODULE NegotiationProofs ---------------------------
(***************************************************************************)
(* Proofs about Negotiation, for any conversations, messages of any number *)
(* of units and chunks of any size.  That messages are counted and that an *)
(* encrypted connection stays silent needs no more than the types; that a  *)
(* conversation is decoded as it was held needs to know, for every point   *)
(* of it, where the decoder stands in each direction and what pgwire's     *)
(* context flags make of the next byte there.                              *)
(***************************************************************************)
EXTENDS Negotiation, FiniteSetTheorems, SequenceTheorems, TLAPS

\* What a line may say, and the lines.
Texts == Messages \cup {"Startup", "refuse", "RowDescription", "NoData", "DataRow",
                        "error", "garbage", "unknown"}
Entry == [at : Nat, what : Texts, columns : Nat]

Types ==
    /\ dialogue \in Dialogues
    /\ pos \in [Sides -> Nat]
    /\ \A s \in Sides : pos[s] <= Len(dialogue[s])
    /\ rxbuf \in [Sides -> Seq(Unit)]
    /\ ctx \in [frontend_ssl : BOOLEAN, frontend_startup : BOOLEAN,
                backend_ssl : BOOLEAN, backend_gss : BOOLEAN]
    /\ row_desc \in Nat
    /\ encrypted \in BOOLEAN
    /\ draining \in Sides \cup {"none"}
    /\ outcome \in [wait : {"none", "ssl", "gss"}, encrypted : BOOLEAN, msgs : Nat]
    /\ emitted \in [Sides -> Seq(Entry)]
    /\ recorded \in [Sides -> Nat]
    /\ encrypted => draining = "none"

-----------------------------------------------------------------------------
(* Where the decoder stands.                                               *)

\* The units of s that were decoded, while the connection is followed.
Decoded(s) == pos[s] - Len(rxbuf[s])

\* A message of q ends with its unit c.
Boundary(q, c) == c \in 0..Len(q) /\ (c > 0 => q[c].part = q[c].of)

\* The units of q that begin a message, and those of them among the first c.
Starts(q)   == {i \in 1..Len(q) : q[i].part = 1}
Begun(q, c) == {i \in Starts(q) : i <= c}

\* The buffer holds the units of q after the first c, up to p, and l messages came before.
Stands(q, p, buf, c, l) ==
    /\ Boundary(q, c)
    /\ p \in c..Len(q)
    /\ buf = SubSeq(q, c + 1, p)
    /\ Cardinality(Begun(q, c)) = l

\* No message is complete in the buffer.
RanDry(buf) == buf # << >> => Len(buf) < Head(buf).of

\* The buffer holds what was captured and not decoded, a line was printed for each
\* message decoded, and a side that is not being drained has nothing complete.
FollowsInv(s) ==
    /\ Stands(dialogue[s], pos[s], rxbuf[s], Decoded(s), Len(emitted[s]))
    /\ draining # s => RanDry(rxbuf[s])

\* The units of the client's request.
RequestLen == IF Asks(dialogue) THEN dialogue.client[1].of ELSE 0

\* The context flags and the outcome, by what was decoded.
FlagsInv ==
    LET n == RequestLen
        c == Decoded("client")
        v == Decoded("server")
    IN  /\ ctx.frontend_ssl => c = 0
        /\ Asks(dialogue) /\ c = 0 => ctx.frontend_ssl
        /\ ctx.frontend_startup <=> ~(c > n /\ dialogue.client[n + 1].m = "Startup")
        /\ ctx.backend_ssl <=>
              Asks(dialogue) /\ c > 0 /\ v = 0 /\ dialogue.client[1].m = "SSLRequest"
        /\ ctx.backend_gss <=>
              Asks(dialogue) /\ c > 0 /\ v = 0 /\ dialogue.client[1].m = "GssEncRequest"
        /\ draining # "none" => /\ outcome.wait = "none"
                                /\ outcome.encrypted <=> Accepts(dialogue) /\ v > 0

\* A negotiation is held in turns: the reply is not captured before the request
\* was decoded, nor what follows before the reply was, and nothing of an accepted one.
TurnsInv ==
    /\ Asks(dialogue) =>
          /\ pos.server > 0 => Decoded("client") > 0
          /\ pos.client > RequestLen => Decoded("server") > 0
    /\ Accepts(dialogue) =>
          /\ pos.server <= 1
          /\ draining # "server" => pos.server = 0

\* The descriptions among the first c units of q, and the one in force after
\* descriptions B.
Descriptions(q, c) == {i \in Begun(q, c) : q[i].m \in {"RowDescription", "NoData"}}

Latest(B) == CHOOSE i \in B : \A j \in B : j <= i
Current(q, B) == IF B = {} \/ q[Latest(B)].m = "NoData" THEN 0 ELSE q[Latest(B)].at

Followed ==
    /\ \A s \in Sides : FollowsInv(s)
    /\ FlagsInv
    /\ TurnsInv
    /\ row_desc = Current(dialogue.server, Descriptions(dialogue.server, Decoded("server")))

Printed == \A s \in Sides : \A k \in 1..Len(emitted[s]) : PrintedRight(s, k)

\* The description in force for a row, and what every row printed is labelled with.
InForce(at) == LastDescribed(dialogue.server, at)

Labelled ==
    \A k \in 1..Len(emitted.server) :
        emitted.server[k].what = "DataRow" =>
            emitted.server[k].columns = InForce(emitted.server[k].at)

IInv ==
    /\ Types
    /\ InOrderCapture =>
          /\ Printed
          /\ Labelled
          /\ encrypted => AcceptCaptured
          /\ ~encrypted => Followed

-----------------------------------------------------------------------------
(* Types, the count of messages, the silence of encrypted connections.     *)

\* The units of a side.
LEMMA Directions ==
    ASSUME Types, NEW s \in Sides
    PROVE  /\ dialogue[s] \in Seq(Unit)
           /\ rxbuf[s] \in Seq(Unit) /\ emitted[s] \in Seq(Entry)
           /\ pos[s] \in Nat /\ recorded[s] \in Nat
  BY DialogueAssumption DEF Types, Sides

\* The first unit of a buffer.
LEMMA HeadIsUnit ==
    ASSUME Types, NEW s \in Sides, rxbuf[s] # << >>
    PROVE  Head(rxbuf[s]) \in Unit /\ Head(rxbuf[s]).at \in Nat
           /\ Head(rxbuf[s]).of \in Nat /\ Head(rxbuf[s]).of > 0
  <1>1. rxbuf[s] \in Seq(Unit)
    BY Directions
  <1>2. Head(rxbuf[s]) \in Unit
    BY <1>1
  <1> QED
    BY <1>2 DEF Unit

\* What a step of drain_direction does to the lines, the outcome and the record:
\* a line is counted unless it is an error, and the count is recorded at the end.
DrainShape ==
    /\ draining \in Sides
    /\ UNCHANGED <<dialogue, pos>>
    /\ \/ UNCHANGED emitted /\ outcome'.msgs = outcome.msgs
       \/ \E e \in Entry :
             /\ emitted' = [emitted EXCEPT ![draining] = Append(@, e)]
             /\ outcome'.msgs = outcome.msgs + (IF e.what = "error" THEN 0 ELSE 1)
    /\ \/ UNCHANGED <<draining, encrypted, recorded>>
       \/ /\ draining' = "none"
          /\ recorded' = [recorded EXCEPT ![draining] = @ + outcome'.msgs]

\* The loop goes on, or the drain is finished, with a typed outcome.
LEMMA FinishTypes ==
    ASSUME Types, draining \in Sides, NEW o, NEW c,
           o \in [wait : {"none", "ssl", "gss"}, encrypted : BOOLEAN, msgs : Nat],
           c \in [frontend_ssl : BOOLEAN, frontend_startup : BOOLEAN,
                  backend_ssl : BOOLEAN, backend_gss : BOOLEAN],
           Finish(o, c) \/ Continue(o, c)
    PROVE  /\ ctx' \in [frontend_ssl : BOOLEAN, frontend_startup : BOOLEAN,
                        backend_ssl : BOOLEAN, backend_gss : BOOLEAN]
           /\ outcome' = o
           /\ encrypted' \in BOOLEAN
           /\ draining' \in Sides \cup {"none"}
           /\ recorded' \in [Sides -> Nat]
           /\ encrypted' => draining' = "none"
           /\ \/ UNCHANGED <<draining, encrypted, recorded>>
              \/ /\ draining' = "none"
                 /\ recorded' = [recorded EXCEPT ![draining] = @ + outcome'.msgs]
<1>1. CASE Continue(o, c)
  BY <1>1 DEF Continue, Types, Sides
<1>2. CASE Finish(o, c)
  <2>1. recorded' \in [Sides -> Nat]
    BY <1>2 DEF Finish, Types
  <2>2. ctx' \in [frontend_ssl : BOOLEAN, frontend_startup : BOOLEAN,
                  backend_ssl : BOOLEAN, backend_gss : BOOLEAN]
    BY <1>2 DEF Finish
  <2> QED
    BY <1>2, <2>1, <2>2 DEF Finish, Types
<1> QED
  BY <1>1, <1>2

\* A line is appended to those of the side that is drained.
LEMMA EmitTypes ==
    ASSUME Types, draining \in Sides, rxbuf[draining] # << >>, NEW w \in Texts, NEW n \in Nat,
           emitted' = [emitted EXCEPT ![draining] =
               Append(@, [at |-> Head(rxbuf[draining]).at, what |-> w, columns |-> n])]
    PROVE  /\ emitted' \in [Sides -> Seq(Entry)]
           /\ \E e \in Entry : /\ e.what = w
                               /\ emitted' = [emitted EXCEPT ![draining] = Append(@, e)]
<1> DEFINE e == [at |-> Head(rxbuf[draining]).at, what |-> w, columns |-> n]
<1>1. e \in Entry /\ e.what = w
  BY HeadIsUnit DEF Entry
<1>2. emitted' = [emitted EXCEPT ![draining] = Append(@, e)]
  OBVIOUS
<1> HIDE DEF e
<1>3. Append(emitted[draining], e) \in Seq(Entry)
  BY <1>1, Directions
<1>4. emitted' \in [Sides -> Seq(Entry)]
  BY <1>2, <1>3 DEF Types
<1> QED
  BY <1>1, <1>2, <1>4

\* What is left of a buffer is a buffer.
LEMMA LeftTypes ==
    ASSUME Types, draining \in Sides, rxbuf[draining] # << >>, NEW k \in Nat,
           rxbuf' = [rxbuf EXCEPT ![draining] = SubSeq(@, k + 1, Len(@))]
    PROVE  rxbuf' \in [Sides -> Seq(Unit)]
<1>1. SubSeq(rxbuf[draining], k + 1, Len(rxbuf[draining])) \in Seq(Unit)
  BY Directions
<1> QED
  BY <1>1 DEF Types

\* The buffer of a side without its first message, or its first byte.
LEMMA ConsumeTypes ==
    ASSUME Types, draining \in Sides, rxbuf[draining] # << >>,
           Consume(draining) \/ (draining = "server" /\ ConsumeByte)
    PROVE  rxbuf' \in [Sides -> Seq(Unit)]
<1>1. CASE Consume(draining)
  <2> DEFINE k == Head(rxbuf[draining]).of
  <2>1. k \in Nat
    BY HeadIsUnit
  <2>2. rxbuf' = [rxbuf EXCEPT ![draining] = SubSeq(@, k + 1, Len(@))]
    BY <1>1 DEF Consume, Rest
  <2> HIDE DEF k
  <2> QED
    BY <2>1, <2>2, LeftTypes
<1>2. CASE draining = "server" /\ ConsumeByte
  <2>1. Tail(rxbuf[draining]) \in Seq(Unit)
    BY Directions
  <2> QED
    BY <1>2, <2>1 DEF Types, ConsumeByte
<1> QED
  BY <1>1, <1>2

\* An empty buffer decodes to nothing.
LEMMA EmptyBuffer ==
    ASSUME NEW x
    PROVE  /\ x \in Frontend(<< >>) => x = "none"
           /\ x \in Backend(<< >>) => x = "none"
  BY DEF Frontend, Backend

\* What a step that decodes something prints and consumes, and what it does with
\* the outcome and the context.
Decodes(w, n) ==
    /\ draining \in Sides /\ rxbuf[draining] # << >>
    /\ emitted' = [emitted EXCEPT ![draining] =
           Append(@, [at |-> Head(rxbuf[draining]).at, what |-> w, columns |-> n])]
    /\ \E o, c : /\ Finish(o, c) \/ Continue(o, c)
                 /\ o \in [wait : {"none", "ssl", "gss"}, encrypted : BOOLEAN, msgs : Nat]
                 /\ o.msgs = outcome.msgs + (IF w = "error" THEN 0 ELSE 1)
                 /\ c \in [frontend_ssl : BOOLEAN, frontend_startup : BOOLEAN,
                           backend_ssl : BOOLEAN, backend_gss : BOOLEAN]
    /\ UNCHANGED <<dialogue, pos>>

\* Such a step keeps the types.
LEMMA DecodesTypes ==
    ASSUME Types, NEW w \in Texts, NEW n \in Nat, Decodes(w, n),
           rxbuf' \in [Sides -> Seq(Unit)], row_desc' \in Nat
    PROVE  Types' /\ DrainShape
<1>1. PICK o, c : /\ Finish(o, c) \/ Continue(o, c)
                  /\ o \in [wait : {"none", "ssl", "gss"}, encrypted : BOOLEAN, msgs : Nat]
                  /\ o.msgs = outcome.msgs + (IF w = "error" THEN 0 ELSE 1)
                  /\ c \in [frontend_ssl : BOOLEAN, frontend_startup : BOOLEAN,
                            backend_ssl : BOOLEAN, backend_gss : BOOLEAN]
  BY DEF Decodes
<1>2. /\ emitted' \in [Sides -> Seq(Entry)]
      /\ \E e \in Entry : e.what = w /\ emitted' = [emitted EXCEPT ![draining] = Append(@, e)]
  BY EmitTypes DEF Decodes
<1>3. draining \in Sides /\ UNCHANGED <<dialogue, pos>>
  BY DEF Decodes
<1>4. /\ ctx' \in [frontend_ssl : BOOLEAN, frontend_startup : BOOLEAN,
                   backend_ssl : BOOLEAN, backend_gss : BOOLEAN]
      /\ outcome' = o
      /\ encrypted' \in BOOLEAN
      /\ draining' \in Sides \cup {"none"}
      /\ recorded' \in [Sides -> Nat]
      /\ encrypted' => draining' = "none"
      /\ \/ UNCHANGED <<draining, encrypted, recorded>>
         \/ /\ draining' = "none"
            /\ recorded' = [recorded EXCEPT ![draining] = @ + outcome'.msgs]
  BY <1>1, <1>3, FinishTypes
<1>5. Types'
  BY <1>1, <1>2, <1>3, <1>4 DEF Types
<1> QED
  BY <1>1, <1>2, <1>3, <1>4, <1>5 DEF DrainShape

\* The outcomes and contexts that the handlers make are typed.
LEMMA HandlerTypes ==
    ASSUME Types
    PROVE  /\ outcome \in [wait : {"none", "ssl", "gss"}, encrypted : BOOLEAN, msgs : Nat]
           /\ Count(outcome) \in [wait : {"none", "ssl", "gss"}, encrypted : BOOLEAN, msgs : Nat]
           /\ Count(outcome).msgs = outcome.msgs + 1
           /\ \A wait \in {"none", "ssl", "gss"} :
                 /\ [Count(outcome) EXCEPT !.wait = wait] \in
                       [wait : {"none", "ssl", "gss"}, encrypted : BOOLEAN, msgs : Nat]
                 /\ [Count(outcome) EXCEPT !.wait = wait].msgs = outcome.msgs + 1
           /\ [Count(outcome) EXCEPT !.encrypted = TRUE] \in
                 [wait : {"none", "ssl", "gss"}, encrypted : BOOLEAN, msgs : Nat]
           /\ [Count(outcome) EXCEPT !.encrypted = TRUE].msgs = outcome.msgs + 1
           /\ \A c \in {ctx, [ctx EXCEPT !.frontend_ssl = FALSE],
                        [ctx EXCEPT !.frontend_startup = FALSE], Answered} :
                 c \in [frontend_ssl : BOOLEAN, frontend_startup : BOOLEAN,
                        backend_ssl : BOOLEAN, backend_gss : BOOLEAN]
<1>1. outcome \in [wait : {"none", "ssl", "gss"}, encrypted : BOOLEAN, msgs : Nat]
  BY DEF Types
<1>2. /\ Count(outcome) \in [wait : {"none", "ssl", "gss"}, encrypted : BOOLEAN, msgs : Nat]
      /\ Count(outcome).msgs = outcome.msgs + 1
  BY <1>1 DEF Count
<1>3. \A c \in {ctx, [ctx EXCEPT !.frontend_ssl = FALSE],
                [ctx EXCEPT !.frontend_startup = FALSE], Answered} :
         c \in [frontend_ssl : BOOLEAN, frontend_startup : BOOLEAN,
                backend_ssl : BOOLEAN, backend_gss : BOOLEAN]
  BY DEF Types, Answered
<1> QED
  BY <1>1, <1>2, <1>3

\* A step of drain_direction keeps the types and has that shape.
LEMMA DrainTypes ==
    ASSUME Types, Drain
    PROVE  Types' /\ DrainShape
<1> USE HandlerTypes
<1>s. /\ \A w \in {"error", "Startup", "refuse", "unknown", "RowDescription", "NoData", "DataRow",
                 "garbage"} : w \in Texts
      /\ Messages \subseteq Texts
      /\ 0 \in Nat
  BY DEF Texts
<1>1. CASE RunsDry
  <2>1. draining \in Sides
    BY <1>1 DEF RunsDry, Types
  <2>2. Finish(outcome, ctx) /\ UNCHANGED <<dialogue, pos, rxbuf, row_desc, emitted>>
    BY <1>1 DEF RunsDry
  <2>3. /\ ctx' \in [frontend_ssl : BOOLEAN, frontend_startup : BOOLEAN,
                     backend_ssl : BOOLEAN, backend_gss : BOOLEAN]
        /\ outcome' = outcome
        /\ encrypted' \in BOOLEAN
        /\ draining' \in Sides \cup {"none"}
        /\ recorded' \in [Sides -> Nat]
        /\ encrypted' => draining' = "none"
        /\ \/ UNCHANGED <<draining, encrypted, recorded>>
           \/ /\ draining' = "none"
              /\ recorded' = [recorded EXCEPT ![draining] = @ + outcome'.msgs]
    BY <2>1, <2>2, FinishTypes
  <2> QED
    BY <2>1, <2>2, <2>3 DEF Types, DrainShape
<1>2. CASE NoRequest
  <2>1. Continue(outcome, [ctx EXCEPT !.frontend_ssl = FALSE])
        /\ UNCHANGED <<dialogue, pos, rxbuf, row_desc, emitted>> /\ draining \in Sides
    BY <1>2 DEF NoRequest, Sides
  <2> QED
    BY <2>1 DEF Types, DrainShape, Continue
<1>3. CASE DecodeError
  <2>1. draining \in Sides /\ rxbuf[draining] # << >>
    BY <1>3, EmptyBuffer DEF DecodeError, Types, Sides
  <2>2. Decodes("error", 0)
    BY <1>3, <2>1 DEF DecodeError, Decodes, Emit
  <2>3. rxbuf' \in [Sides -> Seq(Unit)]
    BY <1>3, <2>1 DEF DecodeError, Types
  <2>4. row_desc' \in Nat
    BY <1>3 DEF DecodeError, Types
  <2> QED
    BY <2>2, <2>3, <2>4, <1>s, DecodesTypes
<1>4. CASE Startup
  <2>1. draining \in Sides /\ rxbuf[draining] # << >>
    BY <1>4, EmptyBuffer DEF Startup, Sides
  <2>2. Decodes("Startup", 0)
    BY <1>4, <2>1 DEF Startup, Decodes, Emit
  <2>3. rxbuf' \in [Sides -> Seq(Unit)] /\ row_desc' \in Nat
    BY <1>4, <2>1, ConsumeTypes DEF Startup, Types
  <2> QED
    BY <2>2, <2>3, <1>s, DecodesTypes
<1>5. CASE Refuse
  <2>1. draining \in Sides /\ rxbuf[draining] # << >> /\ draining = "server"
    BY <1>5, EmptyBuffer DEF Refuse, Sides
  <2>2. Decodes("refuse", 0)
    BY <1>5, <2>1 DEF Refuse, Decodes, Emit
  <2>3. rxbuf' \in [Sides -> Seq(Unit)] /\ row_desc' \in Nat
    BY <1>5, <2>1, ConsumeTypes DEF Refuse, Types
  <2> QED
    BY <2>2, <2>3, <1>s, DecodesTypes
<1>6. CASE UnknownReply
  <2>1. draining \in Sides /\ rxbuf[draining] # << >> /\ draining = "server"
    BY <1>6, EmptyBuffer DEF UnknownReply, Sides
  <2>2. Decodes("unknown", 0)
    BY <1>6, <2>1 DEF UnknownReply, Decodes, Emit
  <2>3. rxbuf' \in [Sides -> Seq(Unit)] /\ row_desc' \in Nat
    BY <1>6, <2>1, ConsumeTypes DEF UnknownReply, Types
  <2> QED
    BY <2>2, <2>3, <1>s, DecodesTypes
<1>7. CASE RowDescription \/ NoData
  <2>1. draining \in Sides /\ rxbuf[draining] # << >> /\ draining = "server"
    BY <1>7, EmptyBuffer DEF RowDescription, NoData, Sides
  <2>2. Decodes("RowDescription", 0) \/ Decodes("NoData", 0)
    BY <1>7, <2>1 DEF RowDescription, NoData, Decodes, Emit
  <2>3. rxbuf' \in [Sides -> Seq(Unit)]
    BY <1>7, <2>1, ConsumeTypes DEF RowDescription, NoData
  <2>4. row_desc' \in Nat
    BY <1>7, <2>1, HeadIsUnit DEF RowDescription, NoData
  <2> QED
    BY <2>2, <2>3, <2>4, <1>s, DecodesTypes
<1>8. CASE DataRow
  <2>1. draining \in Sides /\ rxbuf[draining] # << >> /\ draining = "server"
    BY <1>8, EmptyBuffer DEF DataRow, Sides
  <2>2. Decodes("DataRow", row_desc)
    BY <1>8, <2>1 DEF DataRow, Decodes
  <2>3. rxbuf' \in [Sides -> Seq(Unit)] /\ row_desc' \in Nat /\ row_desc \in Nat
    BY <1>8, <2>1, ConsumeTypes DEF DataRow, Types
  <2> QED
    BY <2>2, <2>3, <1>s, DecodesTypes
<1>9. ASSUME NEW m \in Messages, Request(m) PROVE Types' /\ DrainShape
  <2>1. draining \in Sides /\ rxbuf[draining] # << >> /\ draining = "client"
    BY <1>9, EmptyBuffer DEF Request, Sides, Requests
  <2>2. m \in Texts /\ m # "error"
    BY <1>9, <1>s DEF Request, Requests
  <2>3. Decodes(m, 0)
    <3> DEFINE o == [Count(outcome) EXCEPT !.wait = IF m = "SSLRequest" THEN "ssl" ELSE "gss"]
               c == [ctx EXCEPT !.frontend_ssl = FALSE]
    <3>1. Finish(o, c) /\ UNCHANGED <<dialogue, pos>>
      BY <1>9 DEF Request
    <3>2. /\ o \in [wait : {"none", "ssl", "gss"}, encrypted : BOOLEAN, msgs : Nat]
          /\ o.msgs = outcome.msgs + 1
          /\ c \in [frontend_ssl : BOOLEAN, frontend_startup : BOOLEAN,
                    backend_ssl : BOOLEAN, backend_gss : BOOLEAN]
      OBVIOUS
    <3>3. emitted' = [emitted EXCEPT ![draining] =
             Append(@, [at |-> Head(rxbuf[draining]).at, what |-> m, columns |-> 0])]
      BY <1>9, <2>1 DEF Request, Emit
    <3> HIDE DEF o, c
    <3> QED
      BY <2>1, <2>2, <3>1, <3>2, <3>3 DEF Decodes
  <2>4. rxbuf' \in [Sides -> Seq(Unit)] /\ row_desc' \in Nat
    BY <1>9, <2>1, ConsumeTypes DEF Request, Types
  <2> QED
    BY <2>2, <2>3, <2>4, DecodesTypes
<1>10. ASSUME NEW m \in Messages, FrontendMessage(m) PROVE Types' /\ DrainShape
  <2>1. draining \in Sides /\ rxbuf[draining] # << >> /\ draining = "client"
    BY <1>10, EmptyBuffer DEF FrontendMessage, Sides, Misread
  <2>2. m \in Texts /\ m # "error"
    BY <1>10, <1>s DEF FrontendMessage, Misread
  <2>3. Decodes(m, 0)
    BY <1>10, <2>1, <2>2 DEF FrontendMessage, Decodes, Emit
  <2>4. rxbuf' \in [Sides -> Seq(Unit)] /\ row_desc' \in Nat
    BY <1>10, <2>1, ConsumeTypes DEF FrontendMessage, Types
  <2> QED
    BY <2>2, <2>3, <2>4, DecodesTypes
<1>11. ASSUME NEW m \in Messages, Accept(m) PROVE Types' /\ DrainShape
  <2>1. draining \in Sides /\ rxbuf[draining] # << >> /\ draining = "server"
    BY <1>11, EmptyBuffer DEF Accept, Sides
  <2>2. m \in Texts /\ m # "error"
    BY <1>11, <1>s DEF Accept
  <2>3. Decodes(m, 0)
    BY <1>11, <2>1, <2>2 DEF Accept, Decodes, Emit
  <2>4. rxbuf' \in [Sides -> Seq(Unit)] /\ row_desc' \in Nat
    BY <1>11, <2>1, ConsumeTypes DEF Accept, Types
  <2> QED
    BY <2>2, <2>3, <2>4, DecodesTypes
<1>12. ASSUME NEW m \in Messages, BackendMessage(m) PROVE Types' /\ DrainShape
  <2>1. draining \in Sides /\ rxbuf[draining] # << >> /\ draining = "server"
    BY <1>12, EmptyBuffer DEF BackendMessage, Sides, Misread
  <2>2. m \in Texts /\ m # "error"
    BY <1>12, <1>s DEF BackendMessage, Misread
  <2>3. Decodes(m, 0)
    BY <1>12, <2>1, <2>2 DEF BackendMessage, Decodes, Emit
  <2>4. rxbuf' \in [Sides -> Seq(Unit)] /\ row_desc' \in Nat
    BY <1>12, <2>1, ConsumeTypes DEF BackendMessage, Types
  <2> QED
    BY <2>2, <2>3, <2>4, DecodesTypes
<1>13. ASSUME NEW n \in 1..MaxChunk, Garbage(n) PROVE Types' /\ DrainShape
  <2>1. draining \in Sides /\ rxbuf[draining] # << >>
    BY <1>13, EmptyBuffer DEF Garbage, Types, Sides
  <2>2. Decodes("garbage", 0)
    BY <1>13, <2>1 DEF Garbage, Decodes, Emit
  <2>3. n \in Nat /\ rxbuf' = [rxbuf EXCEPT ![draining] = SubSeq(@, n + 1, Len(@))]
    BY <1>13, DialogueAssumption DEF Garbage
  <2>4. rxbuf' \in [Sides -> Seq(Unit)]
    BY <2>1, <2>3, LeftTypes
  <2>5. row_desc' \in Nat
    BY <1>13 DEF Garbage, Types
  <2> QED
    BY <2>2, <2>4, <2>5, <1>s, DecodesTypes
<1> QED
  BY <1>1, <1>2, <1>3, <1>4, <1>5, <1>6, <1>7, <1>8, <1>9, <1>10, <1>11, <1>12, <1>13 DEF Drain

\* A captured segment keeps the types.
LEMMA CaptureTypes ==
    ASSUME Types, NEW side \in Sides, NEW n \in 0..MaxChunk, Capture(side, n)
    PROVE  Types'
<1>1. /\ n \in Nat /\ pos[side] \in Nat /\ dialogue[side] \in Seq(Unit)
      /\ Len(dialogue[side]) \in Nat /\ rxbuf[side] \in Seq(Unit)
  BY Directions, DialogueAssumption
<1>2. /\ pos' = [pos EXCEPT ![side] = @ + n] /\ pos[side] + n <= Len(dialogue[side])
      /\ UNCHANGED <<dialogue, ctx, row_desc, encrypted, emitted, recorded>>
  BY DEF Capture
<1>3. pos' \in [Sides -> Nat] /\ \A s \in Sides : pos'[s] <= Len(dialogue'[s])
  BY <1>1, <1>2 DEF Types
<1>4. CASE encrypted
  <2>1. UNCHANGED <<rxbuf, draining, outcome>>
    BY <1>4 DEF Capture
  <2> QED
    BY <1>2, <1>3, <2>1 DEF Types
<1>5. CASE ~encrypted
  <2> DEFINE more == SubSeq(dialogue[side], pos[side] + 1, pos[side] + n)
  <2>1. /\ rxbuf' = [rxbuf EXCEPT ![side] = @ \o more]
        /\ draining' = side
        /\ outcome' = NoOutcome
    BY <1>5 DEF Capture
  <2>2. more \in Seq(Unit)
    BY <1>1, <1>2
  <2> HIDE DEF more
  <2>3. rxbuf[side] \o more \in Seq(Unit)
    BY <1>1, <2>2
  <2>4. rxbuf' \in [Sides -> Seq(Unit)]
    BY <2>1, <2>3 DEF Types
  <2>5. NoOutcome \in [wait : {"none", "ssl", "gss"}, encrypted : BOOLEAN, msgs : Nat]
    BY DEF NoOutcome
  <2> QED
    BY <1>2, <1>3, <1>5, <2>1, <2>4, <2>5 DEF Types
<1> QED
  BY <1>4, <1>5

\* Every step keeps the types.
LEMMA TypesStep == Types /\ [Next]_vars => Types'
<1> SUFFICES ASSUME Types, [Next]_vars PROVE Types'
  OBVIOUS
<1>1. CASE UNCHANGED vars
  BY <1>1 DEF vars, Types
<1>2. CASE Next
  BY <1>2, CaptureTypes, DrainTypes DEF Next
<1> QED
  BY <1>1, <1>2

\* The initial state is typed.
LEMMA InitTypes == Init => Types
<1> SUFFICES ASSUME Init PROVE Types
  OBVIOUS
<1>1. dialogue \in Dialogues
  BY DEF Init
<1>2. \A s \in Sides : dialogue[s] \in Seq(Unit)
  BY <1>1, DialogueAssumption DEF Sides
<1>3. \A s \in Sides : 0 <= Len(dialogue[s])
  BY <1>2
<1>4. << >> \in Seq(Unit) /\ << >> \in Seq(Entry)
  OBVIOUS
<1>5. NoOutcome \in [wait : {"none", "ssl", "gss"}, encrypted : BOOLEAN, msgs : Nat]
  BY DEF NoOutcome
<1> QED
  BY <1>3, <1>4, <1>5 DEF Init, Types

\* The state of a connection is typed, and a drain is never under way on one that
\* is encrypted: handle returns before it.
THEOREM TypeCorrect == Spec => []Types
  BY InitTypes, TypesStep, PTL DEF Spec

-----------------------------------------------------------------------------
\* The lines that are messages.
Shown(q) == {k \in 1..Len(q) : q[k].what # "error"}

\* There are finitely many.
LEMMA ShownFinite ==
    ASSUME NEW q \in Seq(Entry)
    PROVE  IsFiniteSet(Shown(q)) /\ Cardinality(Shown(q)) \in Nat
<1>1. IsFiniteSet(1..Len(q))
  BY FS_Interval
<1>2. Shown(q) \subseteq 1..Len(q)
  BY DEF Shown
<1> QED
  BY <1>1, <1>2, FS_Subset, FS_CardinalityType

\* A line more counts unless it is an error.
LEMMA ShownAppend ==
    ASSUME NEW q \in Seq(Entry), NEW e \in Entry
    PROVE  Cardinality(Shown(Append(q, e))) =
              Cardinality(Shown(q)) + (IF e.what = "error" THEN 0 ELSE 1)
<1> DEFINE l == Len(q) + 1
           r == Append(q, e)
<1>1. Len(r) = l /\ r[l] = e /\ (\A k \in 1..Len(q) : r[k] = q[k]) /\ Len(q) \in Nat
  OBVIOUS
<1> HIDE DEF r
<1>2. CASE e.what = "error"
  <2>1. Shown(r) = Shown(q)
    BY <1>1, <1>2 DEF Shown
  <2> QED
    BY <1>2, <2>1, ShownFinite DEF r
<1>3. CASE e.what # "error"
  <2>1. Shown(r) = Shown(q) \cup {l} /\ l \notin Shown(q)
    BY <1>1, <1>3 DEF Shown
  <2> HIDE DEF l
  <2>2. Cardinality(Shown(q) \cup {l}) = Cardinality(Shown(q)) + 1
    BY <2>1, ShownFinite, FS_AddElement
  <2> QED
    BY <1>3, <2>1, <2>2 DEF r
<1> QED
  BY <1>2, <1>3

\* What was recorded and what is about to be, for a side, are its lines.
Counted(s) ==
    recorded[s] + (IF draining = s THEN outcome.msgs ELSE 0) = Cardinality(Shown(emitted[s]))

\* A step of the drain counts the line it prints.
LEMMA DrainCounts ==
    ASSUME Types, Drain, NEW s \in Sides, Counted(s)
    PROVE  Counted(s)'
<1>0. Types' /\ DrainShape
  BY DrainTypes
<1> DEFINE d == draining
<1>1. /\ recorded[s] \in Nat /\ recorded'[s] \in Nat /\ emitted[s] \in Seq(Entry)
      /\ outcome.msgs \in Nat /\ outcome'.msgs \in Nat /\ d \in Sides /\ s # "none"
      /\ DOMAIN recorded = Sides /\ DOMAIN emitted = Sides
  BY <1>0 DEF Types, DrainShape, Sides
<1>2. CASE s # d
  <2>1. emitted'[s] = emitted[s] /\ recorded'[s] = recorded[s] /\ draining' # s
    BY <1>0, <1>1, <1>2 DEF DrainShape
  <2> QED
    BY <1>2, <2>1 DEF Counted
<1>3. CASE s = d
  <2>1. /\ \/ draining' = d /\ recorded' = recorded
           \/ draining' = "none" /\ recorded'[s] = recorded[s] + outcome'.msgs
    BY <1>0, <1>1, <1>3 DEF DrainShape
  <2>2. recorded'[s] + (IF draining' = s THEN outcome'.msgs ELSE 0) = recorded[s] + outcome'.msgs
    BY <1>1, <1>3, <2>1
  <2>3. recorded[s] + outcome.msgs = Cardinality(Shown(emitted[s]))
    BY <1>3 DEF Counted
  <2>4. CASE UNCHANGED emitted /\ outcome'.msgs = outcome.msgs
    BY <2>2, <2>3, <2>4 DEF Counted
  <2>5. ASSUME NEW e \in Entry,
               emitted' = [emitted EXCEPT ![draining] = Append(@, e)],
               outcome'.msgs = outcome.msgs + (IF e.what = "error" THEN 0 ELSE 1)
        PROVE  Counted(s)'
    <3>1. emitted'[s] = Append(emitted[s], e)
      BY <1>1, <1>3, <2>5
    <3>2. Cardinality(Shown(emitted'[s])) =
             Cardinality(Shown(emitted[s])) + (IF e.what = "error" THEN 0 ELSE 1)
      BY <1>1, <3>1, ShownAppend
    <3> QED
      BY <1>1, <2>2, <2>3, <2>5, <3>2 DEF Counted
  <2> QED
    BY <1>0, <2>4, <2>5 DEF DrainShape
<1> QED
  BY <1>2, <1>3

\* A segment begins a drain that has counted nothing.
LEMMA CaptureCounts ==
    ASSUME Types, NEW side \in Sides, NEW n \in 0..MaxChunk, Capture(side, n),
           NEW s \in Sides, Counted(s)
    PROVE  Counted(s)'
<1>1. recorded[s] \in Nat /\ s # "none" /\ draining = "none"
  BY DEF Types, Sides, Capture
<1>2. /\ UNCHANGED <<emitted, recorded>>
      /\ \/ UNCHANGED <<draining, outcome>>
         \/ draining' = side /\ outcome'.msgs = 0
  BY DEF Capture, NoOutcome
<1> QED
  BY <1>1, <1>2 DEF Counted

\* Each printed message is recorded once, decode errors and peeks are not, however
\* far the capture is out of step.
THEOREM MessagesCounted == Spec => []CountsMessages
<1> DEFINE Inv == Types /\ \A s \in Sides : Counted(s)
<1>1. Init => Inv
  <2> SUFFICES ASSUME Init, NEW s \in Sides PROVE Counted(s)
    BY InitTypes
  <2>1. recorded[s] = 0 /\ draining # s /\ emitted[s] = << >>
    BY DEF Init, Sides
  <2>2. Shown(emitted[s]) = {}
    BY <2>1 DEF Shown
  <2> QED
    BY <2>1, <2>2, FS_EmptySet DEF Counted
<1>2. Inv /\ [Next]_vars => Inv'
  <2> SUFFICES ASSUME Inv, [Next]_vars, NEW s \in Sides PROVE Counted(s)'
    BY TypesStep
  <2>1. CASE UNCHANGED vars
    BY <2>1 DEF vars, Counted
  <2>2. CASE Next
    BY <2>2, CaptureCounts, DrainCounts DEF Next
  <2> QED
    BY <2>1, <2>2
<1>3. Inv => CountsMessages
  BY DEF CountsMessages, Counted, Shown
<1> QED
  BY <1>1, <1>2, <1>3, PTL DEF Spec

\* An encrypted connection stays so and silent: no drain is under way, and handle
\* begins none.
THEOREM EncryptedIsSilent == Spec => OpaqueIsFinal
<1>1. Types /\ [Next]_vars =>
         [encrypted => encrypted' /\ UNCHANGED <<emitted, recorded, row_desc>>]_vars
  <2> SUFFICES ASSUME Types, Next, encrypted
               PROVE  encrypted' /\ UNCHANGED <<emitted, recorded, row_desc>>
    OBVIOUS
  <2>1. draining = "none"
    BY DEF Types
  <2>2. ~Drain
    BY <2>1, DrainTypes DEF DrainShape, Sides
  <2>3. PICK side \in Sides, n \in 0..MaxChunk : Capture(side, n)
    BY <2>2 DEF Next
  <2> QED
    BY <2>3 DEF Capture
<1> QED
  BY <1>1, TypeCorrect, PTL DEF Spec, OpaqueIsFinal

-----------------------------------------------------------------------------
(* Messages in a sequence of units.                                        *)

\* The message that unit i belongs to is carried by the units after b.
MessageAfter(q, b, i) ==
    /\ q[i] \in Unit
    /\ q[i].of \in Nat /\ q[i].part \in 1..q[i].of /\ q[i].at \in Nat
    /\ b \in Nat /\ b + q[i].of <= Len(q)
    /\ \A j \in 1..q[i].of :
          /\ q[b + j].part = j /\ q[b + j].of = q[i].of
          /\ q[b + j].at = q[i].at /\ q[b + j].m = q[i].m

\* The units of a message say the same of it.
LEMMA MessageUnits ==
    ASSUME NEW q \in Seq(Unit), Whole(q), NEW i \in 1..Len(q), NEW b, b = i - q[i].part
    PROVE  MessageAfter(q, b, i)
<1>1. q[i] \in Unit
  OBVIOUS
<1>2. /\ q[i] \in [m : STRING \ NoMessage, at : Nat, part : Nat, of : Nat, row : Nat]
      /\ q[i].of \in Nat /\ q[i].part \in 1..q[i].of /\ q[i].at \in Nat
  BY <1>1 DEF Unit
<1>3. /\ b >= 0 /\ b + q[i].of <= Len(q)
      /\ \A j \in 1..q[i].of : q[b + j] = [q[i] EXCEPT !.part = j]
  BY Zenon DEF Whole
<1>4. ASSUME NEW j \in 1..q[i].of
      PROVE  /\ q[b + j].part = j /\ q[b + j].of = q[i].of
             /\ q[b + j].at = q[i].at /\ q[b + j].m = q[i].m
  <2>1. q[b + j] = [q[i] EXCEPT !.part = j]
    BY <1>3
  <2> QED
    BY <1>2, <2>1
<1> QED
  BY <1>1, <1>2, <1>3, <1>4 DEF MessageAfter

\* After a boundary a message begins, it is carried whole, and ends at one.
LEMMA NextMessage ==
    ASSUME NEW q \in Seq(Unit), Whole(q), NEW c, Boundary(q, c), c < Len(q)
    PROVE  /\ c \in Nat /\ q[c + 1] \in Unit
           /\ q[c + 1].part = 1
           /\ q[c + 1].of \in Nat /\ q[c + 1].of >= 1
           /\ c + q[c + 1].of <= Len(q)
           /\ \A j \in 1..q[c + 1].of : /\ q[c + j].part = j
                                        /\ q[c + j].at = q[c + 1].at
                                        /\ q[c + j].m = q[c + 1].m
           /\ Boundary(q, c + q[c + 1].of)
<1> DEFINE i == c + 1
           b == i - q[i].part
<1>1. /\ c \in Nat /\ i \in 1..Len(q) /\ (c > 0 => q[c].part = q[c].of)
      /\ i = c + 1 /\ b = i - q[i].part
  BY DEF Boundary
<1> HIDE DEF b, i
<1>2. /\ q[i] \in Unit
      /\ q[i].of \in Nat /\ q[i].part \in 1..q[i].of
      /\ b \in Nat /\ b + q[i].of <= Len(q)
      /\ \A j \in 1..q[i].of :
            /\ q[b + j].part = j /\ q[b + j].of = q[i].of
            /\ q[b + j].at = q[i].at /\ q[b + j].m = q[i].m
  <2>1. MessageAfter(q, b, i)
    BY <1>1, MessageUnits
  <2> QED
    BY <2>1 DEF MessageAfter
<1>3. q[i].part = 1
  <2> DEFINE n == q[i].part
  <2>1. n \in Nat /\ q[i].of \in Nat /\ 1 <= n /\ n <= q[i].of /\ b = i - n
    BY <1>1, <1>2
  <2> HIDE DEF n
  <2> SUFFICES ASSUME n > 1 PROVE FALSE
    BY <2>1 DEF n
  <2>0. i = c + 1 /\ c \in Nat /\ b \in Nat /\ (c > 0 => q[c].part = q[c].of)
    BY <1>1, <1>2
  <2>2. n - 1 \in 1..q[i].of /\ b + (n - 1) = c /\ c > 0
    BY <2>1, <2>0
  <2>3. q[c].part = n - 1 /\ q[c].of = q[i].of
    BY <1>2, <2>2
  <2> QED
    BY <2>1, <2>2, <2>3, <2>0
<1>4. b = c
  BY <1>1, <1>3
<1>5. q[i].of \in 1..q[i].of /\ c + q[i].of \in 0..Len(q)
  BY <1>1, <1>2, <1>4
<1>6. Boundary(q, c + q[i].of)
  BY <1>2, <1>4, <1>5 DEF Boundary
<1> QED
  BY <1>1, <1>2, <1>3, <1>4, <1>5, <1>6 DEF i

\* That message is the next one.
LEMMA BegunGrows ==
    ASSUME NEW q \in Seq(Unit), Whole(q), NEW c, Boundary(q, c), c < Len(q)
    PROVE  /\ Begun(q, c + q[c + 1].of) = Begun(q, c) \cup {c + 1}
           /\ c + 1 \notin Begun(q, c)
           /\ c + 1 \in Starts(q)
           /\ IsFiniteSet(Begun(q, c))
           /\ Begun(q, c) = {i \in Starts(q) : i < c + 1}
<1> DEFINE n == q[c + 1].of
<1>1. /\ c \in Nat /\ n \in Nat /\ n >= 1 /\ c + n <= Len(q)
      /\ q[c + 1].part = 1
      /\ \A j \in 1..n : q[c + j].part = j
  BY NextMessage
<1> HIDE DEF n
<1>2. ASSUME NEW i \in Starts(q), i <= c + n, i > c PROVE i = c + 1
  <2>1. i - c \in 1..n /\ c + (i - c) = i
    BY <1>1, <1>2 DEF Starts
  <2>2. q[i].part = i - c
    BY <1>1, <2>1
  <2> QED
    BY <1>1, <2>2 DEF Starts
<1>3. c + 1 \in Starts(q)
  BY <1>1 DEF Starts
<1>4. Starts(q) \subseteq Nat /\ Starts(q) \subseteq 1..Len(q)
  BY DEF Starts
<1>5. Begun(q, c + n) = Begun(q, c) \cup {c + 1}
  BY <1>1, <1>2, <1>3, <1>4 DEF Begun
<1>6. IsFiniteSet(Begun(q, c))
  BY <1>4, FS_Interval, FS_Subset DEF Begun
<1>7. c + 1 \notin Begun(q, c) /\ Begun(q, c) = {i \in Starts(q) : i < c + 1}
  BY <1>1, <1>4 DEF Begun
<1> QED
  BY <1>3, <1>5, <1>6, <1>7 DEF n

\* The buffer begins with that message.
LEMMA StandsAtHead ==
    ASSUME NEW q \in Seq(Unit), Whole(q), NEW p, NEW buf, NEW c, NEW l,
           Stands(q, p, buf, c, l)
    PROVE  /\ c \in Nat /\ p \in Nat /\ c <= p /\ p <= Len(q) /\ Len(buf) = p - c
           /\ buf = << >> <=> c = p
           /\ buf # << >> => /\ c < Len(q) /\ Head(buf) = q[c + 1] /\ Aligned(buf)
<1>1. c \in Nat /\ p \in Nat /\ c <= p /\ p <= Len(q) /\ buf = SubSeq(q, c + 1, p)
  BY DEF Stands, Boundary
<1>2. CASE c = p
  <2>1. buf = << >>
    BY <1>1, <1>2, SubSeqEmpty
  <2> QED
    BY <1>1, <1>2, <2>1
<1>3. CASE c < p
  <2>1. c + 1 \in 1..Len(q) /\ p \in (c + 1)..Len(q)
    BY <1>1, <1>3
  <2>2. Head(buf) = q[c + 1]
    BY <1>1, <2>1, HeadTailOfSubSeq
  <2>3. Len(buf) = p - c
    BY <1>1, <1>3, SubSeqProperties
  <2>4. buf # << >>
    BY <1>3, <1>1, <2>3
  <2>5. q[c + 1].part = 1
    BY <1>1, <2>1, NextMessage DEF Stands
  <2> QED
    BY <1>1, <1>3, <2>2, <2>3, <2>4, <2>5 DEF Aligned
<1>4. c = p \/ c < p
  BY <1>1
<1> QED
  BY <1>1, <1>2, <1>3, <1>4, Zenon

\* The end of a part of a sequence is a part of it.
LEMMA SuffixOfSubSeq ==
    ASSUME NEW q \in Seq(Unit), NEW c \in Nat, NEW n \in Nat, NEW p \in Nat,
           c + n <= p, p <= Len(q)
    PROVE  SubSeq(SubSeq(q, c + 1, p), n + 1, p - c) = SubSeq(q, c + n + 1, p)
<1> DEFINE a == SubSeq(q, c + 1, p)
           b == SubSeq(a, n + 1, p - c)
           d == SubSeq(q, c + n + 1, p)
<1>1. a \in Seq(Unit) /\ Len(a) = p - c /\ \A i \in 1..p - c : a[i] = q[c + i]
  <2>1. \A i \in c + 1..p : q[i] \in Unit
    OBVIOUS
  <2> QED
    BY <2>1, SubSeqProperties
<1> HIDE DEF a
<1>2. /\ b \in Seq(Unit) /\ Len(b) = p - (c + n)
      /\ \A i \in 1..p - (c + n) : b[i] = a[n + i]
  <2>1. \A i \in n + 1..p - c : a[i] \in Unit
    BY <1>1
  <2>2. n + 1 \in Int /\ p - c \in Int
    OBVIOUS
  <2> QED
    BY <2>1, <2>2, SubSeqProperties
<1>3. /\ d \in Seq(Unit) /\ Len(d) = p - (c + n)
      /\ \A i \in 1..p - (c + n) : d[i] = q[c + n + i]
  <2>1. \A i \in c + n + 1..p : q[i] \in Unit
    OBVIOUS
  <2> QED
    BY <2>1, SubSeqProperties
<1> HIDE DEF b, d
<1>4. \A i \in 1..p - (c + n) : b[i] = d[i]
  <2> SUFFICES ASSUME NEW i \in 1..p - (c + n) PROVE b[i] = d[i]
    OBVIOUS
  <2>1. n + i \in 1..p - c /\ c + (n + i) = c + n + i
    OBVIOUS
  <2> QED
    BY <1>1, <1>2, <1>3, <2>1
<1>5. b = d
  BY <1>2, <1>3, <1>4, SeqEqual
<1> QED
  BY <1>5 DEF a, b, d

\* Without it, the buffer begins with the message after.
LEMMA StandsTake ==
    ASSUME NEW q \in Seq(Unit), Whole(q), NEW p, NEW buf, NEW c, NEW l \in Nat,
           Stands(q, p, buf, c, l), buf # << >>, Len(buf) >= Head(buf).of
    PROVE  Stands(q, p, Rest(buf), c + Head(buf).of, l + 1)
<1> DEFINE n == Head(buf).of
<1>1. /\ c \in Nat /\ p \in Nat /\ c < p /\ p <= Len(q) /\ Len(buf) = p - c
      /\ Head(buf) = q[c + 1] /\ c < Len(q)
  BY StandsAtHead
<1>2. /\ n \in Nat /\ n >= 1 /\ Boundary(q, c + n) /\ Boundary(q, c)
  BY <1>1, NextMessage DEF Stands
<1>3. c + n <= p /\ p - c >= n
  BY <1>1, <1>2
<1>4. /\ Begun(q, c + n) = Begun(q, c) \cup {c + 1}
      /\ c + 1 \notin Begun(q, c)
      /\ IsFiniteSet(Begun(q, c))
  BY <1>1, <1>2, BegunGrows
<1>5. Cardinality(Begun(q, c + n)) = l + 1
  BY <1>4, FS_AddElement DEF Stands
<1>6. Rest(buf) = SubSeq(buf, n + 1, p - c)
  BY <1>1 DEF Rest
<1> HIDE DEF n
<1>7. SubSeq(buf, n + 1, p - c) = SubSeq(q, c + n + 1, p)
  <2>1. SubSeq(SubSeq(q, c + 1, p), n + 1, p - c) = SubSeq(q, c + n + 1, p)
    BY <1>1, <1>2, <1>3, SuffixOfSubSeq
  <2> QED
    BY <2>1 DEF Stands
<1>8. p \in c + n..Len(q)
  BY <1>1, <1>2, <1>3
<1>9. Stands(q, p, Rest(buf), c + n, l + 1)
  BY <1>2, <1>5, <1>6, <1>7, <1>8, Zenon DEF Stands
<1> QED
  BY <1>9 DEF n

\* With the units that come next, it begins with the same message.
LEMMA StandsMore ==
    ASSUME NEW q \in Seq(Unit), NEW p, NEW buf, NEW c, NEW l,
           Stands(q, p, buf, c, l), NEW n \in Nat, p + n <= Len(q)
    PROVE  Stands(q, p + n, buf \o SubSeq(q, p + 1, p + n), c, l)
<1>1. c \in Nat /\ p \in Nat /\ c <= p /\ p <= Len(q) /\ buf = SubSeq(q, c + 1, p)
  BY DEF Stands, Boundary
<1>2. c + 1 \in 1..Len(q) + 1 /\ p \in (c + 1) - 1..Len(q) /\ p + n \in p..Len(q)
  BY <1>1
<1>3. buf \o SubSeq(q, p + 1, p + n) = SubSeq(q, c + 1, p + n)
  BY <1>1, <1>2, ConcatAdjacentSubSeq
<1>4. p + n \in c..Len(q)
  BY <1>1
<1> QED
  BY <1>3, <1>4 DEF Stands

\* When nothing is complete in the buffer, the messages captured are those decoded.
LEMMA CapturedIsBegun ==
    ASSUME NEW q \in Seq(Unit), Whole(q), NEW p, NEW buf, NEW c, NEW l,
           Stands(q, p, buf, c, l), RanDry(buf)
    PROVE  {i \in Starts(q) : i + q[i].of - 1 <= p} = Begun(q, c)
<1>1. /\ c \in Nat /\ p \in Nat /\ c <= p /\ p <= Len(q) /\ Boundary(q, c)
      /\ buf # << >> => c < Len(q) /\ Head(buf) = q[c + 1]
      /\ buf = << >> <=> c = p
      /\ Len(buf) = p - c
  <2>1. Boundary(q, c)
    BY DEF Stands
  <2>2. /\ c \in Nat /\ p \in Nat /\ c <= p /\ p <= Len(q) /\ Len(buf) = p - c
        /\ buf = << >> <=> c = p
        /\ buf # << >> => /\ c < Len(q) /\ Head(buf) = q[c + 1] /\ Aligned(buf)
    BY StandsAtHead
  <2> QED
    BY <2>1, <2>2, Zenon
<1>2. ASSUME NEW i \in Starts(q)
      PROVE  /\ i \in 1..Len(q) /\ q[i].of \in Nat /\ q[i].of >= 1
             /\ i + q[i].of - 1 <= Len(q)
             /\ \A j \in 1..q[i].of :
                   q[(i - 1) + j].part = j /\ q[(i - 1) + j].of = q[i].of
  <2> DEFINE b == i - 1
  <2>1. i \in 1..Len(q) /\ q[i].part = 1 /\ b = i - q[i].part
    BY <1>2 DEF Starts
  <2>2. i \in Nat
    BY <2>1
  <2> HIDE DEF b
  <2>3. /\ q[i].of \in Nat /\ q[i].part \in 1..q[i].of /\ b + q[i].of <= Len(q)
        /\ \A j \in 1..q[i].of : q[b + j].part = j /\ q[b + j].of = q[i].of
    <3>1. MessageAfter(q, b, i)
      BY <2>1, MessageUnits
    <3> QED
      BY <3>1 DEF MessageAfter
  <2>4. q[i].of >= 1 /\ i + q[i].of - 1 <= Len(q)
    BY <2>1, <2>2, <2>3 DEF b
  <2> QED
    BY <2>1, <2>3, <2>4 DEF b
<1>3. ASSUME NEW i \in Starts(q), i <= c PROVE i + q[i].of - 1 <= p
  <2> DEFINE of == q[i].of
             j == (c - i) + 1
  <2>0. i \in Nat /\ i > 0 /\ of \in Nat /\ c \in Nat /\ p \in Nat /\ c <= p /\ i <= c
    BY <1>1, <1>2, <1>3
  <2> HIDE DEF of
  <2>1. SUFFICES ASSUME c < i + of - 1 PROVE FALSE
    BY <2>0 DEF of
  <2>2. j \in 1..of /\ (i - 1) + j = c /\ c > 0 /\ j < of
    BY <2>0, <2>1
  <2> USE DEF of
  <2> HIDE DEF j
  <2>3. q[(i - 1) + j].part = j /\ q[(i - 1) + j].of = q[i].of
    BY <1>2, <2>2
  <2>4. q[c].part = q[c].of
    BY <1>1, <2>2 DEF Boundary
  <2> QED
    BY <2>2, <2>3, <2>4
<1>4. ASSUME NEW i \in Starts(q), i > c PROVE i + q[i].of - 1 > p
  <2>1. CASE buf = << >>
    BY <1>1, <1>2, <1>4, <2>1
  <2>2. CASE buf # << >>
    <3> DEFINE n == q[c + 1].of
    <3>1. /\ n \in Nat /\ n >= 1 /\ p < c + n
          /\ Begun(q, c + n) = Begun(q, c) \cup {c + 1}
      BY <1>1, <2>2, NextMessage, BegunGrows DEF RanDry
    <3>2. CASE i = c + 1
      BY <1>1, <3>1, <3>2
    <3>3. CASE i # c + 1
      <4>1. i \notin Begun(q, c + n)
        <5>1. i \notin Begun(q, c)
          BY <1>1, <1>2, <1>4 DEF Begun
        <5> QED
          BY <3>1, <3>3, <5>1
      <4>2. i > c + n
        BY <1>1, <1>2, <3>1, <4>1 DEF Begun
      <4> QED
        BY <1>1, <1>2, <3>1, <4>2
    <3> QED
      BY <3>2, <3>3
  <2> QED
    BY <2>1, <2>2
<1>5. Starts(q) \subseteq Nat
  BY DEF Starts
<1> QED
  BY <1>1, <1>2, <1>3, <1>4, <1>5 DEF Begun

\* A description decoded is the one in force; anything else leaves it so.
LEMMA NextDescription ==
    ASSUME NEW q \in Seq(Unit), Whole(q), NEW c, Boundary(q, c), c < Len(q)
    PROVE  Current(q, Descriptions(q, c + q[c + 1].of)) =
              CASE q[c + 1].m = "RowDescription" -> q[c + 1].at
                [] q[c + 1].m = "NoData" -> 0
                [] OTHER -> Current(q, Descriptions(q, c))
<1> DEFINE n == q[c + 1].of
           B == Descriptions(q, c + n)
<1>1. /\ Begun(q, c + n) = Begun(q, c) \cup {c + 1}
      /\ Begun(q, c) = {i \in Starts(q) : i < c + 1}
      /\ c \in Nat
  BY BegunGrows, NextMessage
<1> HIDE DEF n
<1>2. CASE q[c + 1].m \in {"RowDescription", "NoData"}
  <2>1. c + 1 \in B /\ \A j \in B : j <= c + 1 /\ j \in Nat
    BY <1>1, <1>2 DEF Descriptions, Starts
  <2> HIDE DEF B
  <2>2. Latest(B) \in B /\ \A j \in B : j <= Latest(B)
    BY <2>1, Zenon DEF Latest
  <2>3. Latest(B) = c + 1
    BY <1>1, <2>1, <2>2
  <2>4. Current(q, B) = IF q[c + 1].m = "NoData" THEN 0 ELSE q[c + 1].at
    BY <2>1, <2>3 DEF Current
  <2> QED
    BY <1>2, <2>4 DEF B, n
<1>3. CASE q[c + 1].m \notin {"RowDescription", "NoData"}
  <2>1. B = Descriptions(q, c)
    BY <1>1, <1>3 DEF Descriptions
  <2> QED
    BY <1>3, <2>1 DEF n
<1> QED
  BY <1>2, <1>3

\* What was sent before a message are the messages that come before it.
LEMMA SentBefore ==
    ASSUME NEW q \in Seq(Unit), Whole(q), Ordered(q), NEW c, Boundary(q, c), c < Len(q)
    PROVE  {i \in Starts(q) : q[i].at < q[c + 1].at} = Begun(q, c)
<1>1. c \in Nat /\ c + 1 \in 1..Len(q) /\ q[c + 1].part = 1 /\ q[c + 1].at \in Nat
  <2>1. c \in Nat /\ q[c + 1] \in Unit /\ q[c + 1].part = 1
    BY NextMessage
  <2> QED
    BY <2>1 DEF Unit
<1>2. \A i \in Starts(q) : i \in 1..Len(q) /\ q[i].at \in Nat
  BY MessageUnits DEF Starts, MessageAfter
<1>3. ASSUME NEW i \in Starts(q), i <= c PROVE q[i].at < q[c + 1].at
  <2>1. i \in 1..Len(q) /\ i < c + 1
    BY <1>1, <1>2, <1>3
  <2> QED
    BY <1>1, <2>1 DEF Ordered
<1>4. ASSUME NEW i \in Starts(q), ~(i <= c) PROVE ~(q[i].at < q[c + 1].at)
  <2>1. i \in 1..Len(q) /\ (i = c + 1 \/ c + 1 < i)
    BY <1>1, <1>2, <1>4
  <2>2. c + 1 < i => q[c + 1].at <= q[i].at
    BY <1>1, <2>1 DEF Ordered
  <2> QED
    BY <1>1, <1>2, <2>1, <2>2
<1> QED
  BY <1>3, <1>4 DEF Begun

\* The description in force for the next message is that of the descriptions before.
LEMMA InForceIsCurrent ==
    ASSUME NEW c, dialogue.server \in Seq(Unit), Whole(dialogue.server), Ordered(dialogue.server),
           Boundary(dialogue.server, c), c < Len(dialogue.server)
    PROVE  InForce(dialogue.server[c + 1].at) =
              Current(dialogue.server, Descriptions(dialogue.server, c))
<1> DEFINE q == dialogue.server
           at == q[c + 1].at
           B == {i \in 1..Len(q) : /\ q[i].part = 1 /\ q[i].at < at
                                    /\ q[i].m \in {"RowDescription", "NoData"}}
<1>1. B = {i \in Starts(q) : q[i].at < at /\ q[i].m \in {"RowDescription", "NoData"}}
  BY DEF Starts
<1>2. {i \in Starts(q) : q[i].at < at} = Begun(q, c)
  BY SentBefore
<1>3. B = Descriptions(q, c)
  BY <1>1, <1>2 DEF Descriptions
<1>4. InForce(at) = Current(q, B)
  BY Zenon DEF InForce, LastDescribed, Current, Latest
<1> QED
  BY <1>3, <1>4

-----------------------------------------------------------------------------
(* What the decoder finds.                                                 *)

\* The conversation that is captured.
LEMMA InConversation ==
    ASSUME Types, InOrderCapture, OneNegotiationEach
    PROVE  Conversation(dialogue)
  BY DEF Types, InOrderCapture, OneNegotiationEach

\* Both directions of it are well formed.
LEMMA WellFormed ==
    ASSUME Types, Conversation(dialogue)
    PROVE  /\ dialogue.client \in Seq(Unit) /\ dialogue.server \in Seq(Unit)
           /\ Whole(dialogue.client) /\ Whole(dialogue.server)
           /\ Ordered(dialogue.client) /\ Ordered(dialogue.server)
<1>1. dialogue["client"] \in Seq(Unit) /\ dialogue["server"] \in Seq(Unit)
  BY Directions DEF Sides
<1> QED
  BY <1>1 DEF Conversation, Sides

\* The first message ends at the first boundary.
LEMMA FirstMessage ==
    ASSUME NEW q \in Seq(Unit), Whole(q), q # << >>
    PROVE  /\ q[1].of \in Nat /\ q[1].of >= 1 /\ q[1].of <= Len(q) /\ q[1].part = 1
           /\ Boundary(q, q[1].of)
           /\ \A j \in 1..q[1].of : q[j].at = q[1].at /\ q[j].m = q[1].m
           /\ \A c : Boundary(q, c) /\ c > 0 => c >= q[1].of
<1>1. Boundary(q, 0) /\ 0 < Len(q) /\ 0 + 1 = 1
  BY DEF Boundary
<1>2. /\ q[1].of \in Nat /\ q[1].of >= 1 /\ 0 + q[1].of <= Len(q) /\ q[1].part = 1
      /\ \A j \in 1..q[1].of : q[0 + j].at = q[1].at /\ q[0 + j].m = q[1].m
                               /\ q[0 + j].part = j
      /\ Boundary(q, 0 + q[1].of)
  BY <1>1, NextMessage
<1>3. \A j \in 1..q[1].of : 0 + j = j
  BY <1>2
<1>4. \A j \in 1..q[1].of : q[j].at = q[1].at /\ q[j].m = q[1].m /\ q[j].part = j
  BY <1>2, <1>3
<1>5. ASSUME NEW c, Boundary(q, c), c > 0, ~(c >= q[1].of) PROVE FALSE
  <2>1. c \in 1..q[1].of /\ c < q[1].of /\ c \in 1..Len(q)
    BY <1>2, <1>5 DEF Boundary
  <2>2. q[c].part = c
    BY <1>4, <2>1
  <2>3. q[c].of = q[1].of
    <3>1. 1 \in 1..Len(q) /\ 0 = 1 - q[1].part
      BY <1>2, <2>1
    <3>2. q[0 + c].of = q[1].of
      BY <2>1, <3>1, MessageUnits DEF MessageAfter
    <3> QED
      BY <2>1, <3>2
  <2> QED
    BY <1>5, <2>1, <2>2, <2>3 DEF Boundary
<1>6. 0 + q[1].of = q[1].of
  BY <1>2
<1> QED
  BY <1>2, <1>4, <1>5, <1>6

\* Where the decoder stands, without the counts.
LEMMA Positions ==
    ASSUME Types, Conversation(dialogue), Followed, NEW s \in Sides
    PROVE  /\ Decoded(s) \in Nat /\ pos[s] \in Nat /\ Decoded(s) <= pos[s]
           /\ pos[s] <= Len(dialogue[s])
           /\ Boundary(dialogue[s], Decoded(s))
           /\ rxbuf[s] = << >> <=> Decoded(s) = pos[s]
           /\ rxbuf[s] # << >> => /\ Decoded(s) < Len(dialogue[s])
                                  /\ Head(rxbuf[s]) = dialogue[s][Decoded(s) + 1]
                                  /\ Aligned(rxbuf[s])
           /\ Len(rxbuf[s]) = pos[s] - Decoded(s)
           /\ draining # s => RanDry(rxbuf[s])
<1>1. dialogue[s] \in Seq(Unit) /\ Whole(dialogue[s])
  BY Directions DEF Conversation
<1>2. /\ Stands(dialogue[s], pos[s], rxbuf[s], Decoded(s), Len(emitted[s]))
      /\ draining # s => RanDry(rxbuf[s])
  BY DEF Followed, FollowsInv
<1>3. Boundary(dialogue[s], Decoded(s))
  BY <1>2 DEF Stands
<1> HIDE DEF Decoded
<1> QED
  BY <1>1, <1>2, <1>3, StandsAtHead

\* In step with the protocol, a complete message decodes as it was sent.
Plainly(buf) == IF Len(buf) >= Head(buf).of THEN {Head(buf).m} ELSE {"none"}

\* In a refused request, or without one, the client's bytes are cleartext.
LEMMA ClientCleartext ==
    ASSUME Types, Conversation(dialogue), Followed, draining = "client",
           rxbuf.client # << >>, Asks(dialogue) => Decoded("client") > 0
    PROVE  LET c == Decoded("client")
               n == RequestLen
               h == Head(rxbuf.client)
           IN  /\ c \in Nat /\ n \in Nat /\ n <= c /\ ~Accepts(dialogue)
               /\ c = n => h.m \in {"Startup", "CancelRequest"}
               /\ c > n => /\ dialogue.client[n + 1].m = "Startup"
                           /\ h.m \notin Requests \cup Opaque \cup {"Startup", "CancelRequest"}
<1> DEFINE c == Decoded("client")
           v == Decoded("server")
           n == RequestLen
           h == Head(rxbuf.client)
           q == dialogue.client
<1>1. /\ c \in Nat /\ c < Len(q) /\ h = q[c + 1] /\ Boundary(q, c)
      /\ c < pos.client /\ pos.client \in Nat
  <2>1. "client" \in Sides
    BY DEF Sides
  <2> HIDE DEF c
  <2>2. /\ c \in Nat /\ pos["client"] \in Nat /\ c <= pos["client"]
        /\ Boundary(dialogue["client"], c)
        /\ rxbuf["client"] = << >> <=> c = pos["client"]
        /\ rxbuf["client"] # << >> => /\ c < Len(dialogue["client"])
                                      /\ Head(rxbuf["client"]) = dialogue["client"][c + 1]
    BY <2>1, Positions DEF c
  <2> QED
    BY <2>2
<1>2. /\ v \in Nat /\ pos.server \in Nat /\ v <= pos.server /\ pos.server <= Len(dialogue.server)
  BY Positions DEF Sides
<1>3. q \in Seq(Unit) /\ Whole(q) /\ Ordered(q) /\ dialogue.server \in Seq(Unit)
  BY WellFormed
<1>4. TurnsInv
  BY DEF Followed
<1> HIDE DEF c, v
<1>5. n \in Nat /\ n <= c
  BY <1>1, <1>3, FirstMessage DEF RequestLen, Asks, c
<1>6. /\ ~Accepts(dialogue)
      /\ \E j \in Nat : Cleartext(dialogue, n, j)
  <2>1. CASE Asks(dialogue)
    <3>1. v > 0
      BY <1>1, <1>4, <1>5, <2>1 DEF TurnsInv, v
    <3>2. ~Accepts(dialogue)
      BY <1>2, <1>4, <3>1 DEF TurnsInv
    <3>3. dialogue.server # << >>
      BY <1>2, <3>1
    <3>4. Negotiates(dialogue) /\ dialogue.server[1].m = "refuse"
      BY <2>1, <3>2, <3>3 DEF Conversation, Accepts
    <3>5. Cleartext(dialogue, n, 1)
      BY <2>1, <3>3, <3>4 DEF Negotiates, RequestLen
    <3> QED
      BY <3>2, <3>5
  <2>2. CASE ~Asks(dialogue)
    BY <2>2 DEF Conversation, RequestLen, Accepts
  <2> QED
    BY <2>1, <2>2
<1> HIDE DEF n, h, q
<1>7. c + 1 \in n + 1..Len(q)
  BY <1>1, <1>3, <1>5
<1>8. IF q[c + 1].at = q[n + 1].at
      THEN q[c + 1].m \in {"Startup", "CancelRequest"}
      ELSE /\ q[n + 1].m = "Startup"
           /\ q[c + 1].m \notin Requests \cup Opaque \cup {"Startup", "CancelRequest"}
  BY <1>6, <1>7 DEF Cleartext, q
<1>9. c > n => q[c + 1].at # q[n + 1].at
  <2> SUFFICES ASSUME c > n PROVE q[c + 1].at # q[n + 1].at
    OBVIOUS
  <2>1. q[c + 1].part = 1
    BY <1>1, <1>3, NextMessage
  <2>2. n + 1 \in 1..Len(q) /\ c + 1 \in 1..Len(q) /\ n + 1 < c + 1
    BY <1>1, <1>3, <1>5
  <2>3. q[n + 1].at \in Nat /\ q[c + 1].at \in Nat
    BY <1>3, <2>2, MessageUnits DEF MessageAfter
  <2>4. q[n + 1].at < q[c + 1].at
    BY <1>3, <2>1, <2>2 DEF Ordered
  <2> QED
    BY <2>3, <2>4
<1> QED
  BY <1>1, <1>5, <1>6, <1>8, <1>9 DEF c, n, h, q

\* What is decoded of the client: its request; a peek that finds none; the start-up
\* or cancel message; a typed message.
LEMMA ClientDecodes ==
    ASSUME Types, Conversation(dialogue), Followed, draining = "client", rxbuf.client # << >>
    PROVE  LET c == Decoded("client")
               n == RequestLen
               h == Head(rxbuf.client)
               f == Frontend(rxbuf.client)
           IN  \/ /\ Asks(dialogue) /\ c = 0
                  /\ h.m = dialogue.client[1].m /\ h.m \in Requests
                  /\ f = Plainly(rxbuf.client)
               \/ /\ ~Asks(dialogue) /\ c = 0
                  /\ f \subseteq {"peek", "none"}
                  /\ "none" \in f => Len(rxbuf.client) < h.of
               \/ /\ ~Accepts(dialogue) /\ (Asks(dialogue) => c > 0) /\ ~ctx.frontend_ssl
                  /\ c = n /\ h.m \in {"Startup", "CancelRequest"}
                  /\ f = Plainly(rxbuf.client)
               \/ /\ ~Accepts(dialogue) /\ (Asks(dialogue) => c > 0) /\ ~ctx.frontend_ssl
                  /\ c > n /\ dialogue.client[n + 1].m = "Startup"
                  /\ h.m \notin Requests \cup Opaque \cup {"Startup", "CancelRequest"}
                  /\ f = Plainly(rxbuf.client)
<1> DEFINE c == Decoded("client")
           n == RequestLen
           buf == rxbuf.client
           h == Head(buf)
<1>1. /\ c \in Nat /\ c < Len(dialogue.client) /\ h = dialogue.client[c + 1] /\ Aligned(buf)
  <2>1. "client" \in Sides
    BY DEF Sides
  <2> HIDE DEF c
  <2>2. /\ c \in Nat
        /\ rxbuf["client"] # << >> => /\ c < Len(dialogue["client"])
                                      /\ Head(rxbuf["client"]) = dialogue["client"][c + 1]
                                      /\ Aligned(rxbuf["client"])
    BY <2>1, Positions DEF c
  <2> QED
    BY <2>2
<1>2. /\ ctx.frontend_ssl => c = 0
      /\ Asks(dialogue) /\ c = 0 => ctx.frontend_ssl
      /\ ctx.frontend_startup <=> ~(c > n /\ dialogue.client[n + 1].m = "Startup")
  BY DEF Followed, FlagsInv
<1>3. dialogue.client # << >>
  BY <1>1
<1>4. Complete(buf) <=> Len(buf) >= h.of
  BY <1>1 DEF Complete
<1> HIDE DEF c, n, buf, h
<1>5. Plainly(buf) = IF Complete(buf) THEN {h.m} ELSE {"none"}
  BY <1>4 DEF Plainly, h
<1>6. buf # << >> /\ h = Head(buf) /\ Len(buf) \in Nat /\ h.of \in Nat
  BY Directions, HeadIsUnit DEF buf, h, Sides
<1>7. CASE c = 0 /\ Asks(dialogue)
  <2>1. h = dialogue.client[1] /\ h.m \in Requests
    BY <1>1, <1>7 DEF Asks
  <2>2. Frontend(buf) = IF Complete(buf) THEN {h.m} ELSE {"none"}
    BY <1>2, <1>6, <1>7, <2>1 DEF Frontend
  <2> QED
    BY <1>5, <1>7, <2>1, <2>2 DEF c, n, buf, h
<1>8. CASE ctx.frontend_ssl /\ ~Asks(dialogue)
  <2>1. c = 0 /\ h = dialogue.client[1] /\ h.m \notin Requests
    BY <1>1, <1>2, <1>3, <1>8 DEF Asks
  <2>2. Frontend(buf) = IF Complete(buf) THEN {"peek"} ELSE {"peek", "none"}
    BY <1>6, <1>8, <2>1 DEF Frontend
  <2>3. "none" \in Frontend(buf) => Len(buf) < h.of
    BY <1>4, <1>6, <2>2
  <2> QED
    BY <1>8, <2>1, <2>2, <2>3 DEF c, n, buf, h
<1>9. CASE ~ctx.frontend_ssl
  <2>1. Asks(dialogue) => c > 0
    BY <1>1, <1>2, <1>9
  <2>2. /\ n \in Nat /\ n <= c /\ ~Accepts(dialogue)
        /\ c = n => h.m \in {"Startup", "CancelRequest"}
        /\ c > n => /\ dialogue.client[n + 1].m = "Startup"
                    /\ h.m \notin Requests \cup Opaque \cup {"Startup", "CancelRequest"}
    BY <2>1, ClientCleartext DEF c, n, buf, h
  <2>3. CASE c = n
    <3>1. ctx.frontend_startup
      BY <1>2, <2>2, <2>3
    <3>2. Frontend(buf) = IF Complete(buf) THEN {h.m} ELSE {"none"}
      BY <1>1, <1>6, <1>9, <2>2, <2>3, <3>1 DEF Frontend, Requests
    <3> QED
      BY <1>5, <1>9, <2>1, <2>2, <2>3, <3>2 DEF c, n, buf, h
  <2>4. CASE c > n
    <3>1. ~ctx.frontend_startup
      BY <1>2, <2>2, <2>4
    <3>2. Frontend(buf) = IF Complete(buf) THEN {h.m} ELSE {"none"}
      BY <1>1, <1>6, <1>9, <2>2, <2>4, <3>1 DEF Frontend
    <3> QED
      BY <1>5, <1>9, <2>1, <2>2, <2>4, <3>2 DEF c, n, buf, h
  <2> QED
    BY <1>1, <2>2, <2>3, <2>4
<1> QED
  BY <1>2, <1>7, <1>8, <1>9

\* What is decoded of the server: the reply to the request; any other message.
LEMMA ServerDecodes ==
    ASSUME Types, Conversation(dialogue), Followed, draining = "server", rxbuf.server # << >>
    PROVE  LET v == Decoded("server")
               h == Head(rxbuf.server)
               f == Backend(rxbuf.server)
           IN  \/ /\ Asks(dialogue) /\ v = 0 /\ Decoded("client") > 0
                  /\ h.of = 1 /\ f = {h.m}
                  /\ IF Accepts(dialogue) THEN h.m \in {"accept_ssl", "accept_gss"}
                                          ELSE h.m = "refuse"
               \/ /\ ~Accepts(dialogue) /\ (Asks(dialogue) => v > 0)
                  /\ h.m \notin Replies \cup Opaque
                  /\ f = Plainly(rxbuf.server)
<1> DEFINE c == Decoded("client")
           v == Decoded("server")
           q == dialogue.server
           buf == rxbuf.server
           h == Head(buf)
           r == dialogue.client[1].m
<1>1. /\ v \in Nat /\ v < Len(q) /\ h = q[v + 1] /\ Aligned(buf)
      /\ pos.server \in Nat /\ v < pos.server /\ pos.server <= Len(q)
  <2>1. "server" \in Sides
    BY DEF Sides
  <2> HIDE DEF v
  <2>2. /\ v \in Nat /\ pos["server"] \in Nat /\ v <= pos["server"]
        /\ pos["server"] <= Len(dialogue["server"])
        /\ rxbuf["server"] = << >> <=> v = pos["server"]
        /\ rxbuf["server"] # << >> => /\ v < Len(dialogue["server"])
                                      /\ Head(rxbuf["server"]) = dialogue["server"][v + 1]
                                      /\ Aligned(rxbuf["server"])
    BY <2>1, Positions DEF v
  <2> QED
    BY <2>2
<1>2. /\ ctx.backend_ssl <=> Asks(dialogue) /\ c > 0 /\ v = 0 /\ r = "SSLRequest"
      /\ ctx.backend_gss <=> Asks(dialogue) /\ c > 0 /\ v = 0 /\ r = "GssEncRequest"
  BY DEF Followed, FlagsInv
<1>3. /\ Asks(dialogue) => c > 0
      /\ Accepts(dialogue) => v = 0
  BY <1>1 DEF Followed, TurnsInv
<1>4. q # << >>
  BY <1>1
<1>5. Complete(buf) <=> Len(buf) >= h.of
  BY <1>1 DEF Complete
<1> HIDE DEF c, v, buf, h
<1>6. Plainly(buf) = IF Complete(buf) THEN {h.m} ELSE {"none"}
  BY <1>5 DEF Plainly, h
<1>7. buf # << >> /\ h = Head(buf) /\ Len(buf) \in Nat /\ h.of \in Nat
  BY Directions, HeadIsUnit DEF buf, h, Sides
<1>8. CASE Asks(dialogue) /\ v = 0
  <2>1. /\ Negotiates(dialogue) /\ h = q[1] /\ r \in Requests
    BY <1>1, <1>8 DEF Conversation, Asks
  <2>2. /\ h.of = 1
        /\ \/ h.m = "refuse"
           \/ h.m = IF r = "SSLRequest" THEN "accept_ssl" ELSE "accept_gss"
    BY <1>4, <2>1 DEF Negotiates
  <2>3. IF Accepts(dialogue) THEN h.m \in {"accept_ssl", "accept_gss"} ELSE h.m = "refuse"
    BY <1>4, <1>8, <2>1, <2>2 DEF Accepts
  <2>4. CASE r = "SSLRequest"
    <3>1. ctx.backend_ssl
      BY <1>2, <1>3, <1>8, <2>4
    <3>2. Backend(buf) = {h.m}
      BY <1>7, <2>2, <2>4, <3>1 DEF Backend
    <3> QED
      BY <1>3, <1>8, <2>2, <2>3, <3>2 DEF c, v, buf, h
  <2>5. CASE r = "GssEncRequest"
    <3>1. ~ctx.backend_ssl /\ ctx.backend_gss
      BY <1>2, <1>3, <1>8, <2>5
    <3>2. Backend(buf) = {h.m}
      BY <1>7, <2>2, <2>5, <3>1 DEF Backend
    <3> QED
      BY <1>3, <1>8, <2>2, <2>3, <3>2 DEF c, v, buf, h
  <2> QED
    BY <2>1, <2>4, <2>5 DEF Requests
<1>9. CASE ~(Asks(dialogue) /\ v = 0)
  <2>1. ~ctx.backend_ssl /\ ~ctx.backend_gss
    BY <1>2, <1>9
  <2>2. ~Accepts(dialogue) /\ (Asks(dialogue) => v > 0)
    BY <1>1, <1>3, <1>9 DEF Accepts
  <2>3. h.m \notin Replies \cup Opaque
    <3>1. CASE Asks(dialogue)
      <4>1. Negotiates(dialogue) /\ q[1].m = "refuse"
        BY <1>4, <2>2, <3>1 DEF Conversation, Accepts
      <4>2. \A k \in 1 + 1..Len(q) : q[k].m \notin Replies \cup Opaque
        BY <1>4, <4>1 DEF Negotiates, Cleartext
      <4> QED
        BY <1>1, <2>2, <3>1, <4>2
    <3>2. CASE ~Asks(dialogue)
      <4>1. \A k \in 0 + 1..Len(q) : q[k].m \notin Replies \cup Opaque
        BY <3>2 DEF Conversation, Cleartext
      <4> QED
        BY <1>1, <4>1
    <3> QED
      BY <3>1, <3>2
  <2>4. Backend(buf) = IF Complete(buf) THEN {h.m} ELSE {"none"}
    BY <1>1, <1>7, <2>1, <2>3 DEF Backend, buf
  <2> QED
    BY <1>6, <2>2, <2>3, <2>4 DEF c, v, buf, h
<1> QED
  BY <1>8, <1>9

-----------------------------------------------------------------------------
(* The steps.                                                              *)

\* A complete message of s is printed as it was sent, and consumed.
Advances(s, e) ==
    /\ draining = s
    /\ rxbuf[s] # << >> /\ Len(rxbuf[s]) >= Head(rxbuf[s]).of
    /\ e \in Entry /\ e.at = Head(rxbuf[s]).at /\ e.what = Head(rxbuf[s]).m
    /\ emitted' = [emitted EXCEPT ![s] = Append(@, e)]
    /\ rxbuf' = [rxbuf EXCEPT ![s] = Rest(@)]
    /\ UNCHANGED <<dialogue, pos>>

\* A buffer without its first n units.
LEMMA RestLength ==
    ASSUME NEW b \in Seq(Unit), NEW n \in Nat, n <= Len(b)
    PROVE  Len(SubSeq(b, n + 1, Len(b))) = Len(b) - n
<1>1. Len(b) \in Nat /\ n + 1 \in Int /\ Len(b) \in Int
  OBVIOUS
<1>2. \A i \in n + 1..Len(b) : b[i] \in Unit
  BY <1>1
<1>3. Len(SubSeq(b, n + 1, Len(b))) = IF n + 1 <= Len(b) THEN Len(b) - (n + 1) + 1 ELSE 0
  BY <1>1, <1>2, SubSeqProperties
<1>4. CASE n + 1 <= Len(b)
  BY <1>1, <1>3, <1>4
<1>5. CASE n = Len(b)
  BY <1>1, <1>3, <1>5
<1> QED
  BY <1>1, <1>4, <1>5

\* The decoder then stands after it.
LEMMA AdvancesPosition ==
    ASSUME Types, Conversation(dialogue), Followed, NEW s \in Sides, NEW e, Advances(s, e)
    PROVE  /\ \A t \in Sides :
                Stands(dialogue[t], pos[t], rxbuf[t], Decoded(t), Len(emitted[t]))'
           /\ Decoded(s)' = Decoded(s) + Head(rxbuf[s]).of
           /\ Head(rxbuf[s]).of \in Nat /\ Head(rxbuf[s]).of >= 1
           /\ \A t \in Sides \ {s} : Decoded(t)' = Decoded(t) /\ RanDry(rxbuf'[t])
<1> DEFINE q == dialogue[s]
           n == Head(rxbuf[s]).of
           c == Decoded(s)
           l == Len(emitted[s])
<1>1. /\ q \in Seq(Unit) /\ Whole(q) /\ rxbuf[s] \in Seq(Unit) /\ l \in Nat
      /\ emitted[s] \in Seq(Entry)
  BY Directions DEF Conversation
<1>2. Stands(q, pos[s], rxbuf[s], c, l)
  BY DEF Followed, FollowsInv
<1>3. /\ rxbuf[s] # << >> /\ Len(rxbuf[s]) >= n /\ pos' = pos /\ dialogue' = dialogue
      /\ rxbuf'[s] = Rest(rxbuf[s]) /\ emitted'[s] = Append(emitted[s], e)
      /\ \A t \in Sides \ {s} : rxbuf'[t] = rxbuf[t] /\ emitted'[t] = emitted[t] /\ draining # t
  BY DEF Advances, Types
<1>4. n \in Nat /\ n >= 1 /\ c \in Nat /\ Len(rxbuf[s]) \in Nat
  BY <1>1, <1>3, HeadIsUnit, Positions
<1>5. Len(Rest(rxbuf[s])) = Len(rxbuf[s]) - n
  BY <1>1, <1>3, <1>4, RestLength DEF Rest
<1> HIDE DEF n
<1>6. Decoded(s)' = c + n
  <2>1. pos[s] \in Nat
    BY Directions
  <2>2. c = pos[s] - Len(rxbuf[s]) /\ Decoded(s)' = pos[s] - Len(Rest(rxbuf[s]))
    BY <1>3 DEF Decoded
  <2> QED
    BY <1>4, <1>5, <2>1, <2>2
<1> HIDE DEF c, l, q
<1>7. Stands(q, pos[s], Rest(rxbuf[s]), c + n, l + 1)
  BY <1>1, <1>2, <1>3, StandsTake DEF n
<1>8. Len(emitted'[s]) = l + 1
  BY <1>1, <1>3 DEF l
<1>9. Stands(dialogue[s], pos[s], rxbuf[s], Decoded(s), Len(emitted[s]))'
  BY <1>3, <1>6, <1>7, <1>8 DEF q
<1>10. ASSUME NEW t \in Sides \ {s}
       PROVE  /\ Stands(dialogue[t], pos[t], rxbuf[t], Decoded(t), Len(emitted[t]))'
              /\ Decoded(t)' = Decoded(t) /\ RanDry(rxbuf'[t])
  <2>1. /\ Stands(dialogue[t], pos[t], rxbuf[t], Decoded(t), Len(emitted[t]))
        /\ RanDry(rxbuf[t])
    BY <1>3 DEF Followed, FollowsInv
  <2>2. Decoded(t)' = Decoded(t)
    BY <1>3 DEF Decoded
  <2> QED
    BY <1>3, <2>1, <2>2
<1> QED
  BY <1>4, <1>6, <1>9, <1>10 DEF n, c

\* And what is printed is still the conversation.
LEMMA AdvancesPrinted ==
    ASSUME Types, Conversation(dialogue), Followed, Printed,
           NEW s \in Sides, NEW e, Advances(s, e)
    PROVE  Printed'
<1> DEFINE q == dialogue[s]
           c == Decoded(s)
           l == Len(emitted[s])
<1>1. /\ q \in Seq(Unit) /\ Whole(q) /\ emitted[s] \in Seq(Entry) /\ l \in Nat
      /\ c < Len(q) /\ Boundary(q, c) /\ Head(rxbuf[s]) = q[c + 1] /\ c \in Nat
  <2>1. /\ q \in Seq(Unit) /\ Whole(q) /\ emitted[s] \in Seq(Entry)
    BY Directions DEF Conversation
  <2>2. rxbuf[s] # << >>
    BY DEF Advances
  <2> HIDE DEF c
  <2>3. c < Len(q) /\ Boundary(q, c) /\ Head(rxbuf[s]) = q[c + 1] /\ c \in Nat
    BY <2>2, Positions DEF c
  <2> QED
    BY <2>1, <2>3
<1>2. Cardinality(Begun(q, c)) = l
  BY DEF Followed, FollowsInv, Stands
<1>3. /\ dialogue' = dialogue /\ emitted'[s] = Append(emitted[s], e)
      /\ e.at = q[c + 1].at /\ e.what = q[c + 1].m
      /\ \A t \in Sides \ {s} : emitted'[t] = emitted[t]
  BY <1>1 DEF Advances, Types
<1> SUFFICES ASSUME NEW t \in Sides, NEW k \in 1..Len(emitted'[t]) PROVE PrintedRight(t, k)'
  BY DEF Printed
<1>4. Begins(t)' = Begins(t)
  BY <1>3 DEF Begins
<1>5. CASE k \in 1..Len(emitted[t]) /\ emitted'[t][k] = emitted[t][k]
  <2>1. PrintedRight(t, k)
    BY <1>5 DEF Printed
  <2> QED
    BY <1>3, <1>4, <1>5, <2>1 DEF PrintedRight
<1>6. CASE t = s /\ k = l + 1
  <2>1. emitted'[s][k] = e
    BY <1>1, <1>3, <1>6
  <2>2. c + 1 \in Starts(q) /\ Begun(q, c) = {i \in Starts(q) : i < c + 1}
    BY <1>1, BegunGrows
  <2>3. Begins(s) = Starts(q)
    BY DEF Begins, Starts
  <2>4. Cardinality({j \in Begins(s) : j < c + 1}) = k - 1
    BY <1>1, <1>2, <1>6, <2>2, <2>3
  <2> HIDE DEF c, l
  <2>5. PrintedRight(s, k)'
    BY <1>3, <1>4, <1>6, <2>1, <2>2, <2>3, <2>4 DEF PrintedRight
  <2> QED
    BY <1>6, <2>5
<1>7. \/ k \in 1..Len(emitted[t]) /\ emitted'[t][k] = emitted[t][k]
      \/ t = s /\ k = l + 1
  BY <1>1, <1>3
<1> QED
  BY <1>5, <1>6, <1>7

\* What the conversation said stays said.
LEMMA InForceStays ==
    ASSUME dialogue' = dialogue
    PROVE  \A at : InForce(at)' = InForce(at)
  BY DEF InForce

\* A message of the client after any request leaves the negotiation as it is.
LEMMA ClientAdvances ==
    ASSUME Types, Conversation(dialogue), Followed, Printed, Labelled,
           NEW e, Advances("client", e), Asks(dialogue) => Decoded("client") > 0,
           ~ctx'.frontend_ssl,
           ctx'.frontend_startup <=> ~(/\ Decoded("client")' > RequestLen
                                       /\ dialogue.client[RequestLen + 1].m = "Startup"),
           ctx'.backend_ssl = ctx.backend_ssl, ctx'.backend_gss = ctx.backend_gss,
           outcome'.wait = outcome.wait, outcome'.encrypted = outcome.encrypted,
           UNCHANGED <<draining, row_desc>>
    PROVE  Followed' /\ Printed' /\ Labelled'
<1>1. "client" \in Sides /\ "server" \in Sides \ {"client"} /\ "client" # "none"
      /\ Sides = {"client", "server"}
  BY DEF Sides
<1>2. /\ \A t \in Sides :
            Stands(dialogue[t], pos[t], rxbuf[t], Decoded(t), Len(emitted[t]))'
      /\ Decoded("client")' = Decoded("client") + Head(rxbuf["client"]).of
      /\ Head(rxbuf["client"]).of \in Nat /\ Head(rxbuf["client"]).of >= 1
      /\ Decoded("server")' = Decoded("server") /\ RanDry(rxbuf'["server"])
  BY <1>1, AdvancesPosition, Zenon
<1>3. Decoded("client") \in Nat
  BY <1>1, Positions
<1>4. Printed'
  BY <1>1, AdvancesPrinted
<1>5. dialogue' = dialogue /\ pos' = pos /\ draining = "client" /\ emitted'.server = emitted.server
  BY <1>1 DEF Advances, Types
<1>6. \A s \in Sides : FollowsInv(s)'
  <2> SUFFICES ASSUME NEW s \in Sides PROVE FollowsInv(s)'
    OBVIOUS
  <2>1. draining' # s => RanDry(rxbuf'[s])
    BY <1>1, <1>2, <1>5
  <2> QED
    BY <1>2, <2>1 DEF FollowsInv
<1> DEFINE c == Decoded("client")
           d == Decoded("client")'
           v == Decoded("server")
<1>7. c \in Nat /\ d \in Nat /\ d > 0 /\ d >= c
  BY <1>2, <1>3
<1>8. RequestLen' = RequestLen
  BY <1>5 DEF RequestLen
<1>9. Decoded("server")' = v
  BY <1>2
<1>10. FlagsInv /\ TurnsInv /\ row_desc = Current(dialogue.server, Descriptions(dialogue.server, v))
  BY DEF Followed
<1> HIDE DEF c, d, v
<1>11. FlagsInv'
  BY <1>5, <1>7, <1>8, <1>9, <1>10 DEF FlagsInv, c, d, v
<1>12. TurnsInv'
  BY <1>5, <1>7, <1>8, <1>9, <1>10 DEF TurnsInv, c, d, v
<1>13. row_desc' = Current(dialogue.server, Descriptions(dialogue.server, Decoded("server")))'
  BY <1>5, <1>9, <1>10
<1>14. Labelled'
  BY <1>5, InForceStays DEF Labelled
<1> QED
  BY <1>4, <1>6, <1>11, <1>12, <1>13, <1>14 DEF Followed

\* The request is decoded alone: the server's answer is awaited.
LEMMA RequestFollows ==
    ASSUME Types, Types', Conversation(dialogue), Followed, Printed, Labelled, ~encrypted,
           NEW m, Request(m), NEW e, Advances("client", e),
           Asks(dialogue), Decoded("client") = 0, m = dialogue.client[1].m
    PROVE  Followed' /\ Printed' /\ Labelled' /\ ~encrypted'
<1>1. "client" \in Sides /\ "server" \in Sides \ {"client"} /\ "client" # "none"
      /\ Sides = {"client", "server"}
  BY DEF Sides
<1> DEFINE c == Decoded("client")
           d == Decoded("client")'
           v == Decoded("server")
           n == RequestLen
<1>2. /\ \A t \in Sides :
            Stands(dialogue[t], pos[t], rxbuf[t], Decoded(t), Len(emitted[t]))'
      /\ d = c + Head(rxbuf["client"]).of
      /\ Head(rxbuf["client"]).of \in Nat /\ Head(rxbuf["client"]).of >= 1
      /\ Decoded("server")' = v /\ RanDry(rxbuf'["server"])
  BY <1>1, AdvancesPosition, Zenon
<1>3. /\ v \in Nat /\ v <= pos["server"] /\ pos["server"] \in Nat /\ pos["client"] \in Nat
      /\ Head(rxbuf["client"]) = dialogue["client"][c + 1]
  <2>1. rxbuf["client"] # << >>
    BY DEF Advances
  <2> HIDE DEF c, v
  <2> QED
    BY <1>1, <2>1, Positions DEF c, v
<1>4. Printed'
  BY <1>1, AdvancesPrinted
<1>5. /\ dialogue' = dialogue /\ pos' = pos /\ draining = "client"
      /\ emitted'.server = emitted.server /\ row_desc' = row_desc
  BY <1>1 DEF Advances, Types, Request
<1>6. /\ FlagsInv /\ TurnsInv
      /\ row_desc = Current(dialogue.server, Descriptions(dialogue.server, v))
  BY DEF Followed
<1>7. /\ draining' = "none" /\ encrypted' = (encrypted \/ outcome.encrypted)
      /\ ctx' = [ctx EXCEPT !.frontend_ssl = FALSE,
                            !.backend_ssl = @ \/ m = "SSLRequest",
                            !.backend_gss = @ \/ m = "GssEncRequest"]
      /\ m \in Requests
  BY DEF Request, Finish, Count, Types, Requests
<1>8. n = Head(rxbuf["client"]).of
  BY <1>3 DEF RequestLen
<1>9. d = n /\ n >= 1 /\ n \in Nat
  BY <1>2, <1>8
<1> HIDE DEF c, d, v, n
<1>10. v = 0 /\ pos.client <= n /\ pos.server = 0
  <2>1. pos.server = 0
    BY <1>3, <1>6 DEF TurnsInv, c
  <2>2. v = 0
    BY <1>3, <2>1
  <2>3. pos.client <= n
    BY <1>3, <1>6, <1>9, <2>2 DEF TurnsInv, v, n
  <2> QED
    BY <2>1, <2>2, <2>3
<1>11. RanDry(rxbuf'["client"])
  <2>1. d = pos["client"] - Len(rxbuf'["client"]) /\ rxbuf'["client"] \in Seq(Unit)
    BY <1>1, <1>5 DEF Decoded, Types, d
  <2>2. Len(rxbuf'["client"]) = 0
    BY <1>3, <1>9, <1>10, <2>1
  <2> QED
    BY <2>1, <2>2 DEF RanDry
<1>12. \A s \in Sides : FollowsInv(s)'
  BY <1>1, <1>2, <1>11 DEF FollowsInv
<1>13. RequestLen' = n /\ Decoded("server")' = v
  BY <1>2, <1>5 DEF RequestLen, n
<1>14. FlagsInv'
  <2>1. /\ ~ctx.backend_ssl /\ ~ctx.backend_gss /\ ctx.frontend_startup
    BY <1>6, <1>9 DEF FlagsInv, c, n
  <2>2. /\ ~ctx'.frontend_ssl /\ ctx'.frontend_startup
        /\ ctx'.backend_ssl <=> m = "SSLRequest"
        /\ ctx'.backend_gss <=> m = "GssEncRequest"
    BY <1>7, <2>1 DEF Types
  <2> QED
    BY <1>5, <1>7, <1>9, <1>10, <1>13, <2>2 DEF FlagsInv, d, v, n
<1>15. TurnsInv'
  <2>1. d > 0 /\ pos.client \in Nat /\ n \in Nat /\ pos'.client = pos.client /\ pos'.server = 0
    BY <1>3, <1>5, <1>9, <1>10
  <2>2. ~(pos'.client > n)
    BY <1>9, <1>10, <2>1
  <2>3. Decoded("client")' > 0
    BY <2>1 DEF d
  <2> QED
    BY <1>13, <2>1, <2>2, <2>3 DEF TurnsInv
<1>16. row_desc' = Current(dialogue.server, Descriptions(dialogue.server, Decoded("server")))'
  BY <1>5, <1>6, <1>13
<1>17. Labelled'
  BY <1>5, InForceStays DEF Labelled
<1>18. ~encrypted'
  <2>1. ~(Decoded("server") > 0)
    BY <1>10 DEF v
  <2>2. ~outcome.encrypted
    BY <1>1, <1>5, <1>6, <2>1, Zenon DEF FlagsInv
  <2> QED
    BY <1>7, <2>2, Zenon
<1> QED
  BY <1>4, <1>12, <1>14, <1>15, <1>16, <1>17, <1>18 DEF Followed

\* When the loop ends, the connection is given up if a request was accepted, and
\* nothing complete is left if it is not.
LEMMA FinishFollows ==
    ASSUME Types, Conversation(dialogue), Followed, ~encrypted, draining \in Sides,
           RanDry(rxbuf[draining]), Finish(outcome, ctx),
           UNCHANGED <<dialogue, pos, rxbuf, row_desc, emitted>>
    PROVE  /\ encrypted' => AcceptCaptured'
           /\ ~encrypted' => Followed'
<1> DEFINE v == Decoded("server")
           q == dialogue.server
<1>1. /\ FlagsInv /\ TurnsInv /\ draining # "none" /\ \A s \in Sides : FollowsInv(s)
      /\ row_desc = Current(dialogue.server, Descriptions(dialogue.server, v))
  BY DEF Followed, Sides
<1>2. /\ draining' = "none" /\ encrypted' = (encrypted \/ outcome.encrypted)
      /\ ctx' = ctx
  BY <1>1 DEF Finish, FlagsInv, Types
<1>3. outcome.encrypted <=> Accepts(dialogue) /\ v > 0
  BY <1>1 DEF FlagsInv
<1>4. "server" \in Sides
  BY DEF Sides
<1>5. /\ v \in Nat /\ pos.server \in Nat /\ v <= pos.server /\ pos.server <= Len(q)
      /\ Len(rxbuf.server) = pos.server - v
      /\ rxbuf.server # << >> => Head(rxbuf.server) = q[v + 1]
  <2> HIDE DEF v
  <2>1. /\ v \in Nat /\ pos["server"] \in Nat /\ v <= pos["server"]
        /\ pos["server"] <= Len(dialogue["server"])
        /\ Len(rxbuf["server"]) = pos["server"] - v
        /\ rxbuf["server"] # << >> => Head(rxbuf["server"]) = dialogue["server"][v + 1]
    BY <1>4, Positions DEF v
  <2> QED
    BY <2>1
<1>6. Accepts(dialogue) => /\ q # << >> /\ q[1].of = 1
                           /\ q[1].m \in {"accept_ssl", "accept_gss"} /\ q[1].part = 1
  <2> SUFFICES ASSUME Accepts(dialogue)
               PROVE  /\ q # << >> /\ q[1].of = 1
                      /\ q[1].m \in {"accept_ssl", "accept_gss"} /\ q[1].part = 1
    OBVIOUS
  <2>1. Negotiates(dialogue) /\ q # << >> /\ q[1].m # "refuse"
    BY DEF Accepts, Conversation
  <2>2. q[1].of = 1 /\ q[1].m \in {"accept_ssl", "accept_gss"}
    BY <2>1 DEF Negotiates
  <2>3. q[1].part = 1
    BY <2>1, WellFormed, FirstMessage
  <2> QED
    BY <2>1, <2>2, <2>3
<1> HIDE DEF v
<1>7. ASSUME encrypted' PROVE AcceptCaptured'
  <2>1. Accepts(dialogue) /\ v > 0
    BY <1>2, <1>3, <1>7
  <2>2. 1 \in 1..Len(q) /\ 1 + q[1].of - 1 <= pos.server
    BY <1>5, <1>6, <2>1
  <2>3. dialogue'.server = q /\ pos'.server = pos.server
    OBVIOUS
  <2>4. 1 \in Captured("server")'
    BY <1>6, <2>1, <2>2, <2>3 DEF Captured, Begins
  <2> QED
    BY <1>6, <2>1, <2>3, <2>4 DEF AcceptCaptured
<1>8. ASSUME ~encrypted' PROVE Followed'
  <2>1. \A s \in Sides : FollowsInv(s)'
    <3> SUFFICES ASSUME NEW s \in Sides PROVE FollowsInv(s)'
      OBVIOUS
    <3>1. RanDry(rxbuf[s])
      BY <1>1 DEF FollowsInv
    <3> QED
      BY <1>1, <3>1 DEF FollowsInv, Decoded
  <2>2. /\ Decoded("client")' = Decoded("client") /\ Decoded("server")' = v
        /\ RequestLen' = RequestLen
    BY DEF Decoded, RequestLen, v
  <2>3. FlagsInv'
    BY <1>1, <1>2, <2>2 DEF FlagsInv, v
  <2>4. Accepts(dialogue) => pos.server = 0
    <3> SUFFICES ASSUME Accepts(dialogue), pos.server > 0 PROVE FALSE
      BY <1>5
    <3>1. v = 0
      <4>1. ~outcome.encrypted
        BY <1>2, <1>8, Zenon
      <4>2. ~(v > 0)
        BY <1>3, <4>1, Zenon
      <4> QED
        BY <1>5, <4>2
    <3>2. RanDry(rxbuf.server)
      BY <1>1, <1>4 DEF FollowsInv
    <3>3. rxbuf.server # << >> /\ Len(rxbuf.server) >= 1
      BY <1>5, <3>1
    <3> QED
      BY <1>5, <1>6, <3>1, <3>2, <3>3 DEF RanDry
  <2>5. TurnsInv'
    BY <1>1, <1>2, <2>2, <2>4 DEF TurnsInv, v
  <2>6. row_desc' = Current(dialogue.server, Descriptions(dialogue.server, Decoded("server")))'
    BY <1>1, <2>2
  <2> QED
    BY <2>1, <2>3, <2>5, <2>6 DEF Followed
<1> QED
  BY <1>7, <1>8

\* A message of the server after any reply, or the reply itself: a description is
\* cached, and a row is labelled with the one in force.
LEMMA ServerAdvances ==
    ASSUME Types, Conversation(dialogue), Followed, Printed, Labelled,
           NEW e, Advances("server", e),
           ctx'.frontend_ssl = ctx.frontend_ssl, ctx'.frontend_startup = ctx.frontend_startup,
           ~ctx'.backend_ssl, ~ctx'.backend_gss,
           outcome'.wait = outcome.wait, outcome'.encrypted <=> Accepts(dialogue),
           row_desc' = CASE Head(rxbuf["server"]).m = "RowDescription" -> Head(rxbuf["server"]).at
                         [] Head(rxbuf["server"]).m = "NoData" -> 0
                         [] OTHER -> row_desc,
           e.what = "DataRow" => e.columns = row_desc,
           UNCHANGED draining
    PROVE  Followed' /\ Printed' /\ Labelled'
<1> DEFINE q == dialogue.server
           c == Decoded("client")
           v == Decoded("server")
           w == Decoded("server")'
<1>1. "server" \in Sides /\ "client" \in Sides \ {"server"} /\ "server" # "none"
      /\ Sides = {"client", "server"} /\ q = dialogue["server"]
  BY DEF Sides
<1>2. /\ \A t \in Sides :
            Stands(dialogue[t], pos[t], rxbuf[t], Decoded(t), Len(emitted[t]))'
      /\ w = v + Head(rxbuf["server"]).of
      /\ Head(rxbuf["server"]).of \in Nat /\ Head(rxbuf["server"]).of >= 1
      /\ Decoded("client")' = c /\ RanDry(rxbuf'["client"])
  BY <1>1, AdvancesPosition, Zenon
<1>3. /\ v \in Nat /\ v < Len(q) /\ Head(rxbuf["server"]) = q[v + 1] /\ Boundary(q, v)
  <2>1. rxbuf["server"] # << >>
    BY DEF Advances
  <2> HIDE DEF v
  <2> QED
    BY <1>1, <2>1, Positions DEF v
<1>4. Printed'
  BY <1>1, AdvancesPrinted
<1>5. /\ dialogue' = dialogue /\ pos' = pos /\ draining = "server"
      /\ emitted["server"] \in Seq(Entry) /\ e \in Entry
      /\ emitted'["server"] = Append(emitted["server"], e)
  BY <1>1 DEF Advances, Types
<1>6. FlagsInv /\ TurnsInv /\ row_desc = Current(q, Descriptions(q, v))
  BY DEF Followed
<1>7. q \in Seq(Unit) /\ Whole(q) /\ Ordered(q)
  BY WellFormed
<1>8. \A s \in Sides : FollowsInv(s)'
  <2> SUFFICES ASSUME NEW s \in Sides PROVE FollowsInv(s)'
    OBVIOUS
  <2>1. draining' # s => RanDry(rxbuf'[s])
    BY <1>1, <1>2, <1>5
  <2> QED
    BY <1>2, <2>1 DEF FollowsInv
<1>9. RequestLen' = RequestLen
  BY <1>5 DEF RequestLen
<1> HIDE DEF c, v, w, q
<1>10. w \in Nat /\ w > 0 /\ w = v + q[v + 1].of
  BY <1>2, <1>3
<1>11. FlagsInv'
  <2>1. Decoded("server")' > 0 /\ Decoded("server")' # 0
    BY <1>10 DEF w
  <2> QED
    BY <1>2, <1>5, <1>6, <1>9, <2>1 DEF FlagsInv, c
<1>12. TurnsInv'
  <2>1. Decoded("server")' > 0
    BY <1>10 DEF w
  <2> QED
    BY <1>2, <1>5, <1>6, <1>9, <2>1 DEF TurnsInv, c
<1>13. row_desc' = Current(dialogue.server, Descriptions(dialogue.server, Decoded("server")))'
  <2>1. row_desc' = Current(q, Descriptions(q, v + q[v + 1].of))
    BY <1>3, <1>6, <1>7, NextDescription
  <2> QED
    BY <1>5, <1>10, <2>1 DEF q, w
<1>14. Labelled'
  <2>1. \A at : InForce(at)' = InForce(at)
    BY <1>5, InForceStays
  <2> SUFFICES ASSUME NEW k \in 1..Len(emitted'["server"]),
                      emitted'["server"][k].what = "DataRow"
               PROVE  emitted'["server"][k].columns = InForce(emitted'["server"][k].at)
    BY <2>1 DEF Labelled
  <2> DEFINE l == Len(emitted["server"])
  <2>2. CASE k \in 1..l
    <3>1. emitted'["server"][k] = emitted["server"][k]
      BY <1>5, <2>2
    <3>2. emitted["server"][k].columns = InForce(emitted["server"][k].at)
      BY <2>2, <3>1 DEF Labelled
    <3> QED
      BY <2>1, <3>1, <3>2
  <2>3. CASE k = l + 1
    <3>1. emitted'["server"][k] = e
      BY <1>5, <2>3
    <3>2. e.at = q[v + 1].at /\ e.columns = Current(q, Descriptions(q, v))
      BY <1>3, <1>6, <3>1 DEF Advances
    <3>3. InForce(q[v + 1].at) = Current(q, Descriptions(q, v))
      BY <1>3, <1>7, InForceIsCurrent DEF q
    <3> QED
      BY <2>1, <3>1, <3>2, <3>3
  <2> QED
    BY <1>5, <2>2, <2>3
<1> QED
  BY <1>4, <1>8, <1>11, <1>12, <1>13, <1>14 DEF Followed

\* Where no line is printed, those printed stay right.
LEMMA NothingPrinted ==
    ASSUME Printed, Labelled, UNCHANGED <<dialogue, emitted>>
    PROVE  Printed' /\ Labelled'
<1>1. dialogue' = dialogue /\ emitted' = emitted
  OBVIOUS
<1>2. Printed'
  <2>1. \A s : Begins(s)' = Begins(s)
    BY <1>1 DEF Begins
  <2>2. ASSUME NEW s, NEW k, PrintedRight(s, k) PROVE PrintedRight(s, k)'
    <3>1. PICK i \in Begins(s) : /\ dialogue[s][i].at = emitted[s][k].at
                                 /\ dialogue[s][i].m = emitted[s][k].what
                                 /\ Cardinality({j \in Begins(s) : j < i}) = k - 1
      BY <2>2, Zenon DEF PrintedRight
    <3> QED
      BY <1>1, <2>1, <3>1, Zenon DEF PrintedRight
  <2> QED
    BY <1>1, <2>2, Zenon DEF Printed
<1>3. Labelled'
  BY <1>1, InForceStays DEF Labelled
<1> QED
  BY <1>2, <1>3

\* What the decoder makes of the client's buffer is its next message, or that it
\* runs dry, or that there is no request.
LEMMA ClientFinds ==
    ASSUME Types, Conversation(dialogue), Followed, draining = "client",
           NEW x \in Frontend(rxbuf.client)
    PROVE  LET c == Decoded("client")
               n == RequestLen
               h == Head(rxbuf.client)
           IN  \/ x = "none" /\ RanDry(rxbuf.client)
               \/ x = "peek" /\ ~Asks(dialogue) /\ c = 0
               \/ /\ rxbuf.client # << >> /\ Len(rxbuf.client) >= h.of
                  /\ x = h.m /\ x \notin NoMessage
                  /\ \/ Asks(dialogue) /\ c = 0 /\ x = dialogue.client[1].m /\ x \in Requests
                     \/ /\ Asks(dialogue) => c > 0
                        /\ ~ctx.frontend_ssl
                        /\ c = n /\ x \in {"Startup", "CancelRequest"}
                     \/ /\ Asks(dialogue) => c > 0
                        /\ ~ctx.frontend_ssl
                        /\ c > n /\ dialogue.client[n + 1].m = "Startup"
                        /\ x \notin Requests \cup Opaque \cup {"Startup", "CancelRequest"}
<1>1. CASE rxbuf.client = << >>
  BY <1>1, EmptyBuffer DEF RanDry
<1>2. CASE rxbuf.client # << >>
  <2> DEFINE h == Head(rxbuf.client)
             c == Decoded("client")
             n == RequestLen
  <2>1. "client" \in Sides /\ rxbuf.client = rxbuf["client"]
    BY DEF Sides
  <2>2. Head(rxbuf["client"]) \in Unit /\ Head(rxbuf["client"]).of \in Nat
    BY <1>2, <2>1, HeadIsUnit
  <2>3. rxbuf["client"] \in Seq(Unit)
    BY <2>1, Directions
  <2>4. h.m \notin NoMessage /\ h.of \in Nat /\ Len(rxbuf.client) \in Nat
    BY <2>1, <2>2, <2>3 DEF Unit
  <2>5. Plainly(rxbuf.client) = IF Len(rxbuf.client) >= h.of THEN {h.m} ELSE {"none"}
    BY DEF Plainly
  <2>6. x \in Plainly(rxbuf.client) =>
           \/ x = "none" /\ RanDry(rxbuf.client)
           \/ Len(rxbuf.client) >= h.of /\ x = h.m /\ x \notin NoMessage
    BY <2>4, <2>5 DEF RanDry
  <2>7. \/ /\ Asks(dialogue) /\ c = 0
           /\ h.m = dialogue.client[1].m /\ h.m \in Requests
           /\ x \in Plainly(rxbuf.client)
        \/ /\ ~Asks(dialogue) /\ c = 0
           /\ x \in {"peek", "none"}
           /\ x = "none" => Len(rxbuf.client) < h.of
        \/ /\ ~Accepts(dialogue) /\ (Asks(dialogue) => c > 0) /\ ~ctx.frontend_ssl
           /\ c = n /\ h.m \in {"Startup", "CancelRequest"}
           /\ x \in Plainly(rxbuf.client)
        \/ /\ ~Accepts(dialogue) /\ (Asks(dialogue) => c > 0) /\ ~ctx.frontend_ssl
           /\ c > n /\ dialogue.client[n + 1].m = "Startup"
           /\ h.m \notin Requests \cup Opaque \cup {"Startup", "CancelRequest"}
           /\ x \in Plainly(rxbuf.client)
    BY <1>2, ClientDecodes
  <2> HIDE DEF c, n, h
  <2>8. \/ x = "none" /\ RanDry(rxbuf.client)
        \/ x = "peek" /\ ~Asks(dialogue) /\ c = 0
        \/ /\ Len(rxbuf.client) >= h.of /\ x = h.m /\ x \notin NoMessage
           /\ \/ Asks(dialogue) /\ c = 0 /\ x = dialogue.client[1].m /\ x \in Requests
              \/ /\ Asks(dialogue) => c > 0
                 /\ ~ctx.frontend_ssl
                 /\ c = n /\ x \in {"Startup", "CancelRequest"}
              \/ /\ Asks(dialogue) => c > 0
                 /\ ~ctx.frontend_ssl
                 /\ c > n /\ dialogue.client[n + 1].m = "Startup"
                 /\ x \notin Requests \cup Opaque \cup {"Startup", "CancelRequest"}
    <3>1. x = "none" /\ Len(rxbuf.client) < h.of => RanDry(rxbuf.client)
      BY DEF RanDry, h
    <3> QED
      BY <2>6, <2>7, <3>1, Zenon
  <2> QED
    BY <1>2, <2>8 DEF c, n, h
<1> QED
  BY <1>1, <1>2

\* What it makes of the server's is its next message, or that it runs dry.
LEMMA ServerFinds ==
    ASSUME Types, Conversation(dialogue), Followed, draining = "server",
           NEW x \in Backend(rxbuf.server)
    PROVE  LET v == Decoded("server")
               h == Head(rxbuf.server)
           IN  \/ x = "none" /\ RanDry(rxbuf.server)
               \/ /\ rxbuf.server # << >> /\ Len(rxbuf.server) >= h.of
                  /\ x = h.m /\ x \notin NoMessage
                  /\ \/ /\ Asks(dialogue) /\ v = 0 /\ Decoded("client") > 0 /\ h.of = 1
                        /\ IF Accepts(dialogue) THEN x \in {"accept_ssl", "accept_gss"}
                                                ELSE x = "refuse"
                     \/ /\ ~Accepts(dialogue)
                        /\ Asks(dialogue) => v > 0
                        /\ x \notin Replies \cup Opaque
<1>1. CASE rxbuf.server = << >>
  BY <1>1, EmptyBuffer DEF RanDry
<1>2. CASE rxbuf.server # << >>
  <2> DEFINE h == Head(rxbuf.server)
             v == Decoded("server")
  <2>1. "server" \in Sides /\ rxbuf.server = rxbuf["server"]
    BY DEF Sides
  <2>2. Head(rxbuf["server"]) \in Unit /\ Head(rxbuf["server"]).of \in Nat
    BY <1>2, <2>1, HeadIsUnit
  <2>3. rxbuf["server"] \in Seq(Unit) /\ Len(rxbuf["server"]) >= 1
    BY <1>2, <2>1, Directions
  <2>4. h.m \notin NoMessage /\ h.of \in Nat /\ Len(rxbuf.server) \in Nat
        /\ Len(rxbuf.server) >= 1
    BY <2>1, <2>2, <2>3 DEF Unit
  <2>5. Plainly(rxbuf.server) = IF Len(rxbuf.server) >= h.of THEN {h.m} ELSE {"none"}
    BY DEF Plainly
  <2>6. x \in Plainly(rxbuf.server) =>
           \/ x = "none" /\ RanDry(rxbuf.server)
           \/ Len(rxbuf.server) >= h.of /\ x = h.m /\ x \notin NoMessage
    BY <2>4, <2>5 DEF RanDry
  <2>7. \/ /\ Asks(dialogue) /\ v = 0 /\ Decoded("client") > 0
           /\ h.of = 1 /\ x = h.m
           /\ IF Accepts(dialogue) THEN h.m \in {"accept_ssl", "accept_gss"}
                                   ELSE h.m = "refuse"
        \/ /\ ~Accepts(dialogue) /\ (Asks(dialogue) => v > 0)
           /\ h.m \notin Replies \cup Opaque
           /\ x \in Plainly(rxbuf.server)
    BY <1>2, ServerDecodes
  <2> HIDE DEF v, h
  <2>8. h.of = 1 => Len(rxbuf.server) >= h.of
    BY <2>4
  <2> QED
    BY <1>2, <2>4, <2>6, <2>7, <2>8 DEF v, h
<1> QED
  BY <1>1, <1>2

\* What a step of drain_direction must establish.
Kept == /\ Printed' /\ Labelled'
        /\ encrypted' => AcceptCaptured'
        /\ ~encrypted' => Followed'

\* When the buffer ran dry it is established.
LEMMA RunsDryKeeps ==
    ASSUME Types, Conversation(dialogue), Followed, Printed, Labelled, ~encrypted, RunsDry
    PROVE  Kept
<1>1. draining \in Sides
  BY DEF RunsDry, Types
<1>2. RanDry(rxbuf[draining])
  <2>1. CASE draining = "client"
    <3>1. "none" \in Frontend(rxbuf.client)
      BY <2>1 DEF RunsDry
    <3>2. RanDry(rxbuf.client)
      BY <2>1, <3>1, ClientFinds DEF NoMessage
    <3> QED
      BY <2>1, <3>2
  <2>2. CASE draining = "server"
    <3>1. "none" \in Backend(rxbuf.server)
      BY <2>2 DEF RunsDry
    <3>2. RanDry(rxbuf.server)
      BY <2>2, <3>1, ServerFinds DEF NoMessage
    <3> QED
      BY <2>2, <3>2
  <2> QED
    BY <1>1, <2>1, <2>2 DEF Sides
<1>3. /\ encrypted' => AcceptCaptured'
      /\ ~encrypted' => Followed'
  BY <1>1, <1>2, FinishFollows DEF RunsDry
<1>4. Printed' /\ Labelled'
  BY NothingPrinted DEF RunsDry
<1> QED
  BY <1>3, <1>4 DEF Kept

\* A peek that finds no request leaves all of the buffer.
LEMMA NoRequestKeeps ==
    ASSUME Types, Conversation(dialogue), Followed, Printed, Labelled, ~encrypted, NoRequest
    PROVE  Kept
<1>1. /\ draining = "client" /\ "peek" \in Frontend(rxbuf.client)
      /\ outcome' = outcome /\ ctx' = [ctx EXCEPT !.frontend_ssl = FALSE]
      /\ UNCHANGED <<draining, encrypted, recorded, dialogue, pos, rxbuf, row_desc, emitted>>
  BY DEF NoRequest, Continue
<1>2. ~Asks(dialogue) /\ Decoded("client") = 0
  BY <1>1, ClientFinds DEF NoMessage, Requests
<1>3. /\ ~ctx'.frontend_ssl /\ ctx'.frontend_startup = ctx.frontend_startup
      /\ ctx'.backend_ssl = ctx.backend_ssl /\ ctx'.backend_gss = ctx.backend_gss
  BY <1>1 DEF Types
<1>4. /\ \A s : Decoded(s)' = Decoded(s)
      /\ RequestLen' = RequestLen
  BY <1>1 DEF Decoded, RequestLen
<1>5. \A s \in Sides : FollowsInv(s)'
  BY <1>1, <1>4 DEF Followed, FollowsInv
<1>6. FlagsInv'
  <2>1. FlagsInv
    BY DEF Followed
  <2> QED
    BY <1>1, <1>2, <1>3, <1>4, <2>1 DEF FlagsInv
<1>7. TurnsInv'
  BY <1>1, <1>4 DEF Followed, TurnsInv
<1>8. row_desc' = Current(dialogue.server, Descriptions(dialogue.server, Decoded("server")))'
  BY <1>1, <1>4 DEF Followed
<1>9. Followed'
  BY <1>5, <1>6, <1>7, <1>8 DEF Followed
<1>10. Printed' /\ Labelled'
  BY <1>1, NothingPrinted
<1> QED
  BY <1>1, <1>9, <1>10 DEF Kept

\* A handler that prints the name of the message at the head and consumes it advances.
LEMMA EmitAdvances ==
    ASSUME Types, NEW s \in Sides, draining = s, NEW w \in Texts,
           rxbuf[s] # << >>, Len(rxbuf[s]) >= Head(rxbuf[s]).of, w = Head(rxbuf[s]).m,
           NEW n \in Nat,
           emitted' = [emitted EXCEPT ![s] =
               Append(@, [at |-> Head(rxbuf[s]).at, what |-> w, columns |-> n])],
           rxbuf' = [rxbuf EXCEPT ![s] = Rest(@)],
           UNCHANGED <<dialogue, pos>>
    PROVE  Advances(s, [at |-> Head(rxbuf[s]).at, what |-> w, columns |-> n])
<1>1. Head(rxbuf[s]).at \in Nat
  BY HeadIsUnit
<1>2. [at |-> Head(rxbuf[s]).at, what |-> w, columns |-> n] \in Entry
  BY <1>1 DEF Entry
<1> QED
  BY <1>2 DEF Advances

\* The request.
LEMMA RequestKeeps ==
    ASSUME Types, Types', Conversation(dialogue), Followed, Printed, Labelled, ~encrypted,
           NEW m \in Messages, Request(m)
    PROVE  Kept
<1>1. /\ draining = "client" /\ m \in Requests /\ m \in Frontend(rxbuf.client)
      /\ Emit("client", m) /\ Consume("client") /\ UNCHANGED <<dialogue, pos>>
  BY DEF Request
<1>2. /\ rxbuf.client # << >> /\ Len(rxbuf.client) >= Head(rxbuf.client).of
      /\ m = Head(rxbuf.client).m
      /\ Asks(dialogue) /\ Decoded("client") = 0 /\ m = dialogue.client[1].m
  BY <1>1, ClientFinds DEF Requests
<1> DEFINE e == [at |-> Head(rxbuf["client"]).at, what |-> m, columns |-> 0]
<1>3. Advances("client", e)
  <2>1. "client" \in Sides /\ m \in Texts /\ 0 \in Nat
    BY DEF Sides, Texts
  <2>2. /\ emitted' = [emitted EXCEPT !["client"] = Append(@, e)]
        /\ rxbuf' = [rxbuf EXCEPT !["client"] = Rest(@)]
    BY <1>1 DEF Emit, Consume
  <2> QED
    BY <1>1, <1>2, <2>1, <2>2, EmitAdvances
<1> HIDE DEF e
<1>4. Followed' /\ Printed' /\ Labelled' /\ ~encrypted'
  BY <1>2, <1>3, RequestFollows
<1> QED
  BY <1>4 DEF Kept

\* The start-up message.
LEMMA StartupKeeps ==
    ASSUME Types, Conversation(dialogue), Followed, Printed, Labelled, ~encrypted, Startup
    PROVE  Kept
<1> DEFINE c == Decoded("client")
           n == RequestLen
<1>1. /\ draining = "client" /\ "Startup" \in Frontend(rxbuf.client)
      /\ Emit("client", "Startup") /\ Consume("client")
      /\ outcome' = Count(outcome) /\ ctx' = [ctx EXCEPT !.frontend_startup = FALSE]
      /\ UNCHANGED <<dialogue, pos, row_desc, draining, encrypted>>
  BY DEF Startup, Continue
<1>2. /\ rxbuf.client # << >> /\ Len(rxbuf.client) >= Head(rxbuf.client).of
      /\ "Startup" = Head(rxbuf.client).m
      /\ Asks(dialogue) => c > 0
      /\ ~ctx.frontend_ssl /\ c = n
  BY <1>1, ClientFinds DEF Requests, NoMessage
<1> DEFINE e == [at |-> Head(rxbuf["client"]).at, what |-> "Startup", columns |-> 0]
<1>3. Advances("client", e)
  BY <1>1, <1>2, EmitAdvances DEF Emit, Consume, Texts, Sides
<1> HIDE DEF e
<1>4. /\ Decoded("client")' = c + Head(rxbuf["client"]).of
      /\ Head(rxbuf["client"]).of \in Nat /\ Head(rxbuf["client"]).of >= 1
  BY <1>3, AdvancesPosition, "client" \in Sides DEF Sides
<1>5. c \in Nat /\ Head(rxbuf["client"]) = dialogue["client"][c + 1]
  <2> HIDE DEF c
  <2> QED
    BY <1>2, Positions, "client" \in Sides DEF c, Sides
<1> HIDE DEF c, n
<1>6. Decoded("client")' > n /\ dialogue.client[n + 1].m = "Startup"
  BY <1>2, <1>4, <1>5
<1>7. /\ ~ctx'.frontend_ssl /\ ~ctx'.frontend_startup
      /\ ctx'.backend_ssl = ctx.backend_ssl /\ ctx'.backend_gss = ctx.backend_gss
      /\ outcome'.wait = outcome.wait /\ outcome'.encrypted = outcome.encrypted
  BY <1>1, <1>2 DEF Types, Count
<1>8. Followed' /\ Printed' /\ Labelled'
  BY <1>1, <1>2, <1>3, <1>6, <1>7, ClientAdvances DEF c, n
<1> QED
  BY <1>1, <1>8 DEF Kept

\* Any other message of the client.
LEMMA FrontendMessageKeeps ==
    ASSUME Types, Conversation(dialogue), Followed, Printed, Labelled, ~encrypted,
           NEW m \in Messages, FrontendMessage(m)
    PROVE  Kept
<1> DEFINE c == Decoded("client")
           n == RequestLen
<1>1. /\ draining = "client" /\ m \in Frontend(rxbuf.client)
      /\ m \notin Requests \cup Misread \cup {"peek", "Startup"}
      /\ Emit("client", m) /\ Consume("client")
      /\ outcome' = Count(outcome) /\ ctx' = ctx
      /\ UNCHANGED <<dialogue, pos, row_desc, draining, encrypted>>
  BY DEF FrontendMessage, Continue
<1>2. /\ rxbuf.client # << >> /\ Len(rxbuf.client) >= Head(rxbuf.client).of
      /\ m = Head(rxbuf.client).m
      /\ Asks(dialogue) => c > 0
      /\ ~ctx.frontend_ssl
      /\ \/ c = n
         \/ c > n /\ dialogue.client[n + 1].m = "Startup"
  BY <1>1, ClientFinds DEF Requests, Misread
<1> DEFINE e == [at |-> Head(rxbuf["client"]).at, what |-> m, columns |-> 0]
<1>3. Advances("client", e)
  BY <1>1, <1>2, EmitAdvances DEF Emit, Consume, Texts, Sides
<1> HIDE DEF e
<1>4. /\ Decoded("client")' = c + Head(rxbuf["client"]).of
      /\ Head(rxbuf["client"]).of \in Nat /\ Head(rxbuf["client"]).of >= 1
  BY <1>3, AdvancesPosition, "client" \in Sides DEF Sides
<1>5. c \in Nat /\ Head(rxbuf["client"]) = dialogue["client"][c + 1]
  <2> HIDE DEF c
  <2> QED
    BY <1>2, Positions, "client" \in Sides DEF c, Sides
<1>6. ctx.frontend_startup <=> ~(c > n /\ dialogue.client[n + 1].m = "Startup")
  BY DEF Followed, FlagsInv
<1>7. n \in Nat
  <2>1. Asks(dialogue) => dialogue.client \in Seq(Unit) /\ dialogue.client # << >>
                          /\ Whole(dialogue.client)
    BY WellFormed DEF Asks
  <2> QED
    BY <2>1, FirstMessage DEF RequestLen
<1> HIDE DEF c, n
<1>8. ctx'.frontend_startup <=>
         ~(Decoded("client")' > n /\ dialogue.client[n + 1].m = "Startup")
  <2>1. CASE c = n
    BY <1>1, <1>2, <1>5, <1>6, <1>7, <2>1
  <2>2. CASE c > n /\ dialogue.client[n + 1].m = "Startup"
    BY <1>1, <1>4, <1>5, <1>6, <1>7, <2>2
  <2> QED
    BY <1>2, <2>1, <2>2
<1>9. /\ ~ctx'.frontend_ssl
      /\ ctx'.backend_ssl = ctx.backend_ssl /\ ctx'.backend_gss = ctx.backend_gss
      /\ outcome'.wait = outcome.wait /\ outcome'.encrypted = outcome.encrypted
  BY <1>1, <1>2 DEF Types, Count
<1>10. Followed' /\ Printed' /\ Labelled'
  BY <1>1, <1>2, <1>3, <1>8, <1>9, ClientAdvances DEF c, n
<1> QED
  BY <1>1, <1>10 DEF Kept

\* A reply of one byte is the whole message.
LEMMA ByteIsMessage ==
    ASSUME NEW buf \in Seq(Unit), buf # << >>, Head(buf).of = 1
    PROVE  Tail(buf) = Rest(buf)
<1>1. Tail(buf) = SubSeq(buf, 2, Len(buf))
  BY TailIsSubSeq
<1> QED
  BY <1>1 DEF Rest

\* The reply takes back the flag that the request set.
LEMMA ReplyKeeps ==
    ASSUME Types, Conversation(dialogue), Followed, Printed, Labelled, ~encrypted,
           draining = "server", NEW m \in Texts \cap Backend(rxbuf.server), m \in Replies,
           Emit("server", m), ConsumeByte, ctx' = Answered,
           outcome'.wait = outcome.wait, outcome'.encrypted <=> m # "refuse",
           UNCHANGED <<dialogue, pos, row_desc, draining, encrypted>>
    PROVE  Kept
<1>1. "server" \in Sides /\ rxbuf["server"] = rxbuf.server
  BY DEF Sides
<1>2. /\ rxbuf.server # << >> /\ Len(rxbuf.server) >= Head(rxbuf.server).of
      /\ m = Head(rxbuf.server).m
      /\ Asks(dialogue) /\ Decoded("server") = 0 /\ Decoded("client") > 0
      /\ Head(rxbuf.server).of = 1
      /\ IF Accepts(dialogue) THEN m \in {"accept_ssl", "accept_gss"} ELSE m = "refuse"
  <2>1. m # "none"
    BY DEF Replies
  <2> QED
    BY <2>1, ServerFinds
<1> DEFINE e == [at |-> Head(rxbuf["server"]).at, what |-> m, columns |-> 0]
<1>3. Advances("server", e)
  <2>1. rxbuf.server \in Seq(Unit)
    BY <1>1, Directions
  <2>2. Tail(rxbuf.server) = Rest(rxbuf.server)
    BY <1>2, <2>1, ByteIsMessage
  <2>3. /\ emitted' = [emitted EXCEPT !["server"] = Append(@, e)]
        /\ rxbuf' = [rxbuf EXCEPT !["server"] = Rest(@)]
    BY <2>2 DEF Emit, ConsumeByte
  <2>4. m \in Texts /\ 0 \in Nat
    OBVIOUS
  <2> QED
    BY <1>1, <1>2, <2>3, <2>4, EmitAdvances
<1>4. /\ ctx.backend_ssl <=> dialogue.client[1].m = "SSLRequest"
      /\ ctx.backend_gss <=> dialogue.client[1].m = "GssEncRequest"
  BY <1>2 DEF Followed, FlagsInv
<1>5. /\ ctx'.frontend_ssl = ctx.frontend_ssl /\ ctx'.frontend_startup = ctx.frontend_startup
      /\ ~ctx'.backend_ssl /\ ~ctx'.backend_gss
  <2>1. ~ctx.backend_ssl \/ ~ctx.backend_gss
    BY <1>4
  <2> QED
    BY <2>1 DEF Answered, Types
<1>6. /\ outcome'.encrypted <=> Accepts(dialogue)
      /\ m # "RowDescription" /\ m # "NoData" /\ m # "DataRow"
  BY <1>2 DEF Replies
<1>7. e.what = m
  OBVIOUS
<1> HIDE DEF e
<1>8. Followed' /\ Printed' /\ Labelled'
  BY <1>2, <1>3, <1>5, <1>6, <1>7, ServerAdvances
<1> QED
  BY <1>8 DEF Kept

\* Any other message of the server.
LEMMA MessageKeeps ==
    ASSUME Types, Conversation(dialogue), Followed, Printed, Labelled, ~encrypted,
           draining = "server", NEW m \in Texts \cap Backend(rxbuf.server),
           m \notin Replies \cup Misread \cup {"unknown"}, NEW n \in Nat,
           emitted' = [emitted EXCEPT !["server"] =
               Append(@, [at |-> Head(rxbuf["server"]).at, what |-> m, columns |-> n])],
           Consume("server"), ctx' = ctx, outcome' = Count(outcome),
           m = "DataRow" => n = row_desc,
           row_desc' = CASE m = "RowDescription" -> Head(rxbuf["server"]).at
                         [] m = "NoData" -> 0
                         [] OTHER -> row_desc,
           UNCHANGED <<dialogue, pos, draining, encrypted>>
    PROVE  Kept
<1>1. "server" \in Sides /\ rxbuf["server"] = rxbuf.server
  BY DEF Sides
<1>2. /\ rxbuf.server # << >> /\ Len(rxbuf.server) >= Head(rxbuf.server).of
      /\ m = Head(rxbuf.server).m
      /\ ~Accepts(dialogue) /\ (Asks(dialogue) => Decoded("server") > 0)
  <2>1. m # "none" /\ m \notin {"accept_ssl", "accept_gss", "refuse"}
    BY DEF Replies, Misread
  <2> QED
    BY <2>1, ServerFinds
<1> DEFINE e == [at |-> Head(rxbuf["server"]).at, what |-> m, columns |-> n]
<1>3. Advances("server", e)
  <2>1. /\ emitted' = [emitted EXCEPT !["server"] = Append(@, e)]
        /\ rxbuf' = [rxbuf EXCEPT !["server"] = Rest(@)]
    BY DEF Consume
  <2>2. m \in Texts
    OBVIOUS
  <2> QED
    BY <1>1, <1>2, <2>1, <2>2, EmitAdvances
<1>4. /\ ~ctx.backend_ssl /\ ~ctx.backend_gss
      /\ outcome.encrypted <=> Accepts(dialogue)
  <2>1. FlagsInv
    BY DEF Followed
  <2>2. ~(Asks(dialogue) /\ Decoded("server") = 0)
    <3>1. Decoded("server") > 0 => Decoded("server") # 0
      BY <1>1, Positions
    <3> QED
      BY <1>2, <3>1
  <2> QED
    BY <1>2, <2>1, <2>2 DEF FlagsInv
<1>5. outcome'.wait = outcome.wait /\ outcome'.encrypted = outcome.encrypted
  BY DEF Types, Count
<1>6. e.what = m /\ e.columns = n
  OBVIOUS
<1> HIDE DEF e
<1>7. Followed' /\ Printed' /\ Labelled'
  BY <1>2, <1>3, <1>4, <1>5, <1>6, ServerAdvances
<1> QED
  BY <1>7 DEF Kept

\* Nothing of a conversation is an error, an unknown reply or out of step.
LEMMA NothingMisread ==
    ASSUME Types, Conversation(dialogue), Followed
    PROVE  ~DecodeError /\ ~UnknownReply /\ \A n : ~Garbage(n)
<1>1. draining = "client" => \A x \in Frontend(rxbuf.client) :
                                x \notin {"error", "garbage", "unknown"}
  <2> SUFFICES ASSUME draining = "client", NEW x \in Frontend(rxbuf.client)
               PROVE  x \notin {"error", "garbage", "unknown"}
    OBVIOUS
  <2> QED
    BY ClientFinds DEF NoMessage
<1>2. draining = "server" => \A x \in Backend(rxbuf.server) :
                                x \notin {"error", "garbage", "unknown"}
  <2> SUFFICES ASSUME draining = "server", NEW x \in Backend(rxbuf.server)
               PROVE  x \notin {"error", "garbage", "unknown"}
    OBVIOUS
  <2> QED
    BY ServerFinds DEF NoMessage
<1>3. draining # "none" => draining \in {"client", "server"}
  BY DEF Types, Sides
<1>4. ~DecodeError
  BY <1>1, <1>2, <1>3 DEF DecodeError
<1>5. ~UnknownReply
  BY <1>2 DEF UnknownReply
<1>6. \A n : ~Garbage(n)
  BY <1>1, <1>2, <1>3 DEF Garbage
<1> QED
  BY <1>4, <1>5, <1>6

\* Every step of drain_direction establishes it.
LEMMA DrainKeeps ==
    ASSUME Types, Types', Conversation(dialogue), Followed, Printed, Labelled, ~encrypted, Drain
    PROVE  Kept
<1>1. CASE RunsDry
  BY <1>1, RunsDryKeeps
<1>2. CASE DecodeError \/ UnknownReply \/ \E n \in 1..MaxChunk : Garbage(n)
  BY <1>2, NothingMisread
<1>3. CASE NoRequest
  BY <1>3, NoRequestKeeps
<1>4. CASE Startup
  BY <1>4, StartupKeeps
<1>5. CASE Refuse
  <2>1. /\ draining = "server" /\ "refuse" \in Texts \cap Backend(rxbuf.server)
        /\ "refuse" \in Replies
        /\ Emit("server", "refuse") /\ ConsumeByte /\ ctx' = Answered
        /\ outcome' = Count(outcome)
        /\ UNCHANGED <<dialogue, pos, row_desc, draining, encrypted>>
    BY <1>5 DEF Refuse, Continue, Texts, Replies
  <2>2. ~outcome.encrypted
    <3>1. Decoded("server") = 0
      <4>1. "refuse" # "none" /\ "refuse" \in Backend(rxbuf.server)
        BY <2>1
      <4> QED
        BY <2>1, <4>1, ServerFinds
    <3>2. FlagsInv
      BY DEF Followed
    <3> QED
      BY <2>1, <3>1, <3>2 DEF FlagsInv
  <2>3. outcome'.wait = outcome.wait /\ ~outcome'.encrypted
    BY <2>1, <2>2 DEF Count, Types
  <2> QED
    BY <2>1, <2>3, ReplyKeeps
<1>6. CASE RowDescription
  <2>1. /\ draining = "server" /\ "RowDescription" \in Texts \cap Backend(rxbuf.server)
        /\ "RowDescription" \notin Replies \cup Misread \cup {"unknown"}
        /\ Emit("server", "RowDescription") /\ Consume("server") /\ ctx' = ctx
        /\ outcome' = Count(outcome) /\ row_desc' = Head(rxbuf["server"]).at
        /\ UNCHANGED <<dialogue, pos, draining, encrypted>>
    BY <1>6 DEF RowDescription, Continue, Texts, Replies, Misread
  <2> QED
    BY <2>1, MessageKeeps DEF Emit
<1>7. CASE NoData
  <2>1. /\ draining = "server" /\ "NoData" \in Texts \cap Backend(rxbuf.server)
        /\ "NoData" \notin Replies \cup Misread \cup {"unknown"}
        /\ Emit("server", "NoData") /\ Consume("server") /\ ctx' = ctx
        /\ outcome' = Count(outcome) /\ row_desc' = 0
        /\ UNCHANGED <<dialogue, pos, draining, encrypted>>
    BY <1>7 DEF NoData, Continue, Texts, Replies, Misread
  <2> QED
    BY <2>1, MessageKeeps DEF Emit
<1>8. CASE DataRow
  <2>1. /\ draining = "server" /\ "DataRow" \in Texts \cap Backend(rxbuf.server)
        /\ "DataRow" \notin Replies \cup Misread \cup {"unknown"}
        /\ Consume("server") /\ ctx' = ctx /\ row_desc \in Nat
        /\ emitted' = [emitted EXCEPT !["server"] =
               Append(@, [at |-> Head(rxbuf["server"]).at, what |-> "DataRow",
                          columns |-> row_desc])]
        /\ outcome' = Count(outcome) /\ row_desc' = row_desc
        /\ UNCHANGED <<dialogue, pos, draining, encrypted>>
    BY <1>8 DEF DataRow, Continue, Texts, Replies, Misread, Types
  <2> QED
    BY <2>1, MessageKeeps
<1>9. ASSUME NEW m \in Messages, Request(m) PROVE Kept
  BY <1>9, RequestKeeps
<1>10. ASSUME NEW m \in Messages, FrontendMessage(m) PROVE Kept
  BY <1>10, FrontendMessageKeeps
<1>11. ASSUME NEW m \in Messages, Accept(m) PROVE Kept
  <2>1. /\ draining = "server" /\ m \in Texts \cap Backend(rxbuf.server)
        /\ m \in Replies /\ m # "refuse"
        /\ Emit("server", m) /\ ConsumeByte /\ ctx' = Answered
        /\ outcome' = [Count(outcome) EXCEPT !.encrypted = TRUE]
        /\ UNCHANGED <<dialogue, pos, row_desc, draining, encrypted>>
    BY <1>11 DEF Accept, Continue, Texts, Replies
  <2>2. outcome'.wait = outcome.wait /\ outcome'.encrypted
    BY <2>1 DEF Count, Types
  <2> QED
    BY <2>1, <2>2, ReplyKeeps
<1>12. ASSUME NEW m \in Messages, BackendMessage(m) PROVE Kept
  <2>1. /\ draining = "server" /\ m \in Texts \cap Backend(rxbuf.server)
        /\ m \notin Replies \cup Misread \cup {"unknown"}
        /\ m \notin {"RowDescription", "NoData", "DataRow"}
        /\ Emit("server", m) /\ Consume("server") /\ ctx' = ctx
        /\ outcome' = Count(outcome) /\ row_desc' = row_desc
        /\ UNCHANGED <<dialogue, pos, draining, encrypted>>
    BY <1>12 DEF BackendMessage, Continue, Texts
  <2> QED
    BY <2>1, MessageKeeps DEF Emit
<1> QED
  BY <1>1, <1>2, <1>3, <1>4, <1>5, <1>6, <1>7, <1>8, <1>9, <1>10, <1>11, <1>12 DEF Drain

\* Between two segments a whole message at the head of a buffer has been decoded.
LEMMA IdleDecoded ==
    ASSUME Types, Conversation(dialogue), Followed, draining = "none", NEW s \in Sides,
           dialogue[s] # << >>, pos[s] >= dialogue[s][1].of
    PROVE  Decoded(s) > 0
<1>1. dialogue[s] \in Seq(Unit) /\ Whole(dialogue[s])
  BY Directions DEF Conversation
<1>2. dialogue[s][1].of \in Nat /\ dialogue[s][1].of >= 1
  BY <1>1, FirstMessage
<1>3. draining # s
  BY DEF Sides
<1>4. /\ Decoded(s) \in Nat /\ pos[s] \in Nat
      /\ rxbuf[s] = << >> <=> Decoded(s) = pos[s]
      /\ rxbuf[s] # << >> => Head(rxbuf[s]) = dialogue[s][Decoded(s) + 1]
      /\ Len(rxbuf[s]) = pos[s] - Decoded(s)
      /\ RanDry(rxbuf[s])
  BY <1>3, Positions
<1> SUFFICES ASSUME Decoded(s) = 0 PROVE FALSE
  BY <1>4
<1>5. rxbuf[s] # << >> /\ Head(rxbuf[s]) = dialogue[s][1] /\ Len(rxbuf[s]) = pos[s]
  BY <1>2, <1>4
<1> QED
  BY <1>2, <1>4, <1>5 DEF RanDry

\* The captures in order take turns as the conversation does: the server answers a
\* request that was decoded, and an acceptance is all that is captured of it;
LEMMA ServerTurn ==
    ASSUME Types, Conversation(dialogue), InOrderCapture, Followed, draining = "none",
           NEW n \in Nat, n > 0, pos.server + n <= Len(dialogue.server),
           InStep("server", dialogue.server[pos.server + n].at), Asks(dialogue)
    PROVE  /\ Decoded("client") > 0
           /\ Accepts(dialogue) => pos.server + n <= 1
<1> DEFINE q == dialogue.client
           r == dialogue.server
           k == pos.server + n
<1>1. /\ "server" \in Sides /\ "client" \in Sides /\ Other("server") = "client"
      /\ q = dialogue["client"] /\ r = dialogue["server"]
  BY DEF Sides, Other
<1>2. q \in Seq(Unit) /\ r \in Seq(Unit) /\ Whole(q) /\ q # << >>
  BY WellFormed DEF Asks
<1>3. /\ q[1].of \in Nat /\ q[1].of >= 1 /\ q[1].of <= Len(q)
      /\ \A j \in 1..q[1].of : q[j].at = q[1].at
  BY <1>2, FirstMessage
<1>4. Negotiates(dialogue)
  BY DEF Conversation
<1>5. pos.server \in Nat /\ pos.client \in Nat /\ k \in 1..Len(r) /\ dialogue.skew = 0
  <2>1. pos["server"] \in Nat /\ pos["client"] \in Nat
    BY <1>1, Directions
  <2> QED
    BY <1>2, <2>1 DEF InOrderCapture
<1>6. \A i \in 1..Len(q) : q[i].at < r[k].at => i <= pos.client
  <2> SUFFICES ASSUME NEW i \in 1..Len(q), q[i].at < r[k].at PROVE i <= pos.client
    OBVIOUS
  <2>1. q[i].at \in Nat
    <3>1. q[i] \in Unit
      BY <1>2
    <3> QED
      BY <3>1 DEF Unit
  <2>2. q[i].at + dialogue.skew = q[i].at
    BY <1>5, <2>1
  <2>3. q[i].at + dialogue.skew < r[k].at => i <= pos["client"]
    BY <1>1 DEF InStep
  <2> QED
    BY <2>2, <2>3
<1> HIDE DEF k, q, r
<1>7. Decoded("client") > 0
  <2>1. q[1].at < r[k].at
    BY <1>4, <1>5 DEF Negotiates, q, r
  <2>2. q[q[1].of].at < r[k].at /\ q[1].of \in 1..Len(q)
    BY <1>2, <1>3, <2>1
  <2>3. pos["client"] >= q[1].of
    BY <1>3, <1>5, <1>6, <2>2
  <2>4. dialogue["client"] # << >> /\ pos["client"] >= dialogue["client"][1].of
    BY <1>1, <1>2, <2>3
  <2> QED
    BY <1>1, <2>4, IdleDecoded
<1>8. ASSUME Accepts(dialogue), k > 1 PROVE FALSE
  <2>1. r # << >> /\ r[1].m # "refuse"
    BY <1>8 DEF Accepts, r
  <2>2. k \in 2..Len(r)
    BY <1>5, <1>8
  <2>3. PICK i \in q[1].of + 1..Len(q) : q[i].at < r[k].at
    BY <1>4, <2>1, <2>2 DEF Negotiates, q, r
  <2>4. i \in 1..Len(q) /\ i > q[1].of
    BY <1>2, <1>3
  <2>5. pos.client > q[1].of
    BY <1>3, <1>5, <1>6, <2>3, <2>4
  <2>6. RequestLen = q[1].of
    BY DEF RequestLen, q
  <2>7. Decoded("server") > 0 /\ pos.server = 0
    BY <1>8, <2>5, <2>6 DEF Followed, TurnsInv
  <2>8. Decoded("server") <= pos["server"] /\ Decoded("server") \in Nat
    BY <1>1, Positions
  <2> QED
    BY <2>7, <2>8
<1> QED
  BY <1>5, <1>7, <1>8 DEF k

\* and the client goes on after an answer that was decoded.
LEMMA ClientTurn ==
    ASSUME Types, Conversation(dialogue), InOrderCapture, Followed, draining = "none",
           NEW n \in Nat, n > 0, pos.client + n <= Len(dialogue.client),
           InStep("client", dialogue.client[pos.client + n].at), Asks(dialogue),
           pos.client + n > RequestLen
    PROVE  Decoded("server") > 0
<1> DEFINE q == dialogue.client
           r == dialogue.server
           k == pos.client + n
<1>1. /\ "server" \in Sides /\ "client" \in Sides /\ Other("client") = "server"
      /\ q = dialogue["client"] /\ r = dialogue["server"]
  BY DEF Sides, Other
<1>2. q \in Seq(Unit) /\ r \in Seq(Unit) /\ Whole(q) /\ q # << >>
  BY WellFormed DEF Asks
<1>3. q[1].of \in Nat /\ RequestLen = q[1].of
  BY <1>2, FirstMessage DEF RequestLen
<1>4. Negotiates(dialogue)
  BY DEF Conversation
<1>5. /\ pos.server \in Nat /\ pos.client \in Nat /\ dialogue.skew = 0
      /\ k \in q[1].of + 1..Len(q)
  <2>1. pos["server"] \in Nat /\ pos["client"] \in Nat
    BY <1>1, Directions
  <2>2. dialogue.skew = 0
    BY DEF InOrderCapture
  <2>3. k \in Nat /\ k > RequestLen /\ k <= Len(q) /\ Len(q) \in Nat
    BY <1>2, <2>1
  <2> QED
    BY <1>3, <2>1, <2>2, <2>3
<1>6. r # << >> /\ r[1].at < q[k].at /\ r[1].of = 1
  BY <1>4, <1>5 DEF Negotiates
<1>7. 1 \in 1..Len(r) /\ r[1].at \in Nat
  BY <1>2, <1>6 DEF Unit
<1>8. 1 <= pos["server"]
  <2>1. r[1].at + dialogue.skew < q[k].at
    BY <1>5, <1>6, <1>7
  <2> QED
    BY <1>1, <1>7, <2>1 DEF InStep
<1>9. dialogue["server"] # << >> /\ pos["server"] >= dialogue["server"][1].of
  BY <1>1, <1>6, <1>8
<1> QED
  BY <1>1, <1>9, IdleDecoded

\* A segment of a connection that is followed: the buffer grows, the drain begins.
LEMMA CaptureKeeps ==
    ASSUME Types, Conversation(dialogue), InOrderCapture, Followed, Printed, Labelled,
           ~encrypted, NEW side \in Sides, NEW n \in Nat, Capture(side, n)
    PROVE  Kept
<1>1. /\ draining = "none" /\ pos[side] + n <= Len(dialogue[side])
      /\ n > 0 => InStep(side, dialogue[side][pos[side] + n].at)
      /\ pos' = [pos EXCEPT ![side] = @ + n]
      /\ rxbuf' = [rxbuf EXCEPT ![side] =
                       @ \o SubSeq(dialogue[side], pos[side] + 1, pos[side] + n)]
      /\ draining' = side /\ outcome' = NoOutcome
      /\ UNCHANGED <<dialogue, ctx, row_desc, encrypted, emitted, recorded>>
  BY DEF Capture
<1>2. /\ pos'[side] = pos[side] + n
      /\ rxbuf'[side] = rxbuf[side] \o SubSeq(dialogue[side], pos[side] + 1, pos[side] + n)
      /\ \A t \in Sides \ {side} : pos'[t] = pos[t] /\ rxbuf'[t] = rxbuf[t]
  BY <1>1 DEF Types
<1>3. /\ \A t \in Sides : Decoded(t) \in Nat /\ pos[t] \in Nat /\ dialogue[t] \in Seq(Unit)
      /\ Len(rxbuf[side]) = pos[side] - Decoded(side) /\ rxbuf[side] \in Seq(Unit)
  BY Positions, Directions
<1>4. \A t \in Sides : Decoded(t)' = Decoded(t)
  <2>1. Decoded(side)' = Decoded(side)
    <3> DEFINE q == dialogue[side]
               a == pos[side]
               d == Decoded(side)
               b == rxbuf[side]
    <3>1. q \in Seq(Unit) /\ a \in Nat /\ a + n <= Len(q) /\ d \in Nat /\ b \in Seq(Unit)
          /\ Len(b) = a - d
      BY <1>1, <1>3
    <3>2. Decoded(side)' = (a + n) - Len(b \o SubSeq(q, a + 1, a + n))
      <4>1. Decoded(side)' = pos'[side] - Len(rxbuf'[side])
        BY Zenon DEF Decoded
      <4> QED
        BY <1>2, <4>1, Zenon
    <3> HIDE DEF q, a, d, b
    <3>3. SubSeq(q, a + 1, a + n) \in Seq(Unit) /\ Len(SubSeq(q, a + 1, a + n)) = n
      <4>1. \A i \in a + 1..a + n : q[i] \in Unit
        BY <3>1
      <4>2. Len(SubSeq(q, a + 1, a + n)) =
               IF a + 1 <= a + n THEN (a + n) - (a + 1) + 1 ELSE 0
        BY <3>1, <4>1, SubSeqProperties
      <4>3. SubSeq(q, a + 1, a + n) \in Seq(Unit)
        BY <3>1, <4>1, SubSeqProperties
      <4> QED
        BY <3>1, <4>2, <4>3
    <3>4. Len(b \o SubSeq(q, a + 1, a + n)) = Len(b) + n
      BY <3>1, <3>3
    <3>5. (a + n) - (Len(b) + n) = d
      BY <3>1
    <3>6. Decoded(side)' = d
      BY <3>2, <3>4, <3>5, Zenon
    <3> QED
      BY <3>6 DEF d
  <2>2. \A t \in Sides \ {side} : Decoded(t)' = Decoded(t)
    BY <1>2 DEF Decoded
  <2> QED
    BY <2>1, <2>2
<1>5. \A t \in Sides : FollowsInv(t)'
  <2> SUFFICES ASSUME NEW t \in Sides PROVE FollowsInv(t)'
    OBVIOUS
  <2>1. /\ Stands(dialogue[t], pos[t], rxbuf[t], Decoded(t), Len(emitted[t]))
        /\ RanDry(rxbuf[t])
    BY <1>1 DEF Followed, FollowsInv, Sides
  <2>2. CASE t = side
    <3>1. Stands(dialogue[side], pos[side] + n,
                 rxbuf[side] \o SubSeq(dialogue[side], pos[side] + 1, pos[side] + n),
                 Decoded(side), Len(emitted[side]))
      BY <1>1, <1>3, <2>1, <2>2, StandsMore
    <3> QED
      BY <1>1, <1>2, <1>4, <2>2, <3>1 DEF FollowsInv
  <2>3. CASE t # side
    BY <1>1, <1>2, <1>4, <2>1, <2>3 DEF FollowsInv
  <2> QED
    BY <2>2, <2>3
<1>6. /\ Decoded("client")' = Decoded("client") /\ Decoded("server")' = Decoded("server")
      /\ RequestLen' = RequestLen
      /\ Decoded("server") \in Nat /\ pos.server \in Nat /\ pos.client \in Nat
      /\ Decoded("server") <= pos.server
  <2>1. "client" \in Sides /\ "server" \in Sides
    BY DEF Sides
  <2>2. Decoded("server") <= pos["server"] /\ pos["server"] \in Nat /\ pos["client"] \in Nat
    BY <2>1, Positions
  <2> QED
    BY <1>1, <1>3, <1>4, <2>1, <2>2 DEF RequestLen
<1>7. FlagsInv /\ TurnsInv /\ (Accepts(dialogue) => pos.server = 0)
  BY <1>1 DEF Followed, TurnsInv
<1>8. FlagsInv'
  <2>1. outcome'.wait = "none" /\ ~outcome'.encrypted
    BY <1>1 DEF NoOutcome
  <2>2. ~(Accepts(dialogue) /\ Decoded("server") > 0)
    BY <1>6, <1>7
  <2> QED
    BY <1>1, <1>6, <1>7, <2>1, <2>2 DEF FlagsInv
<1>9. TurnsInv'
  <2>1. CASE n = 0
    <3>1. pos'.server = pos.server /\ pos'.client = pos.client
      BY <1>1, <1>6, <2>1 DEF Types, Sides
    <3> QED
      BY <1>1, <1>6, <1>7, <3>1 DEF TurnsInv
  <2>2. CASE n > 0 /\ side = "server"
    <3>1. pos'.server = pos.server + n /\ pos'.client = pos.client
      BY <1>2, <2>2 DEF Sides
    <3>2. pos.server + n <= Len(dialogue.server)
          /\ InStep("server", dialogue.server[pos.server + n].at)
      BY <1>1, <2>2
    <3>3. Asks(dialogue) => /\ Decoded("client") > 0
                            /\ Accepts(dialogue) => pos.server + n <= 1
      BY <1>1, <2>2, <3>2, ServerTurn
    <3>4. Accepts(dialogue) => Asks(dialogue)
      BY DEF Accepts
    <3> QED
      BY <1>1, <1>6, <1>7, <2>2, <3>1, <3>3, <3>4 DEF TurnsInv
  <2>3. CASE n > 0 /\ side = "client"
    <3>1. pos'.client = pos.client + n /\ pos'.server = pos.server
      BY <1>2, <2>3 DEF Sides
    <3>2. pos.client + n <= Len(dialogue.client)
          /\ InStep("client", dialogue.client[pos.client + n].at)
      BY <1>1, <2>3
    <3>3. Asks(dialogue) /\ pos.client + n > RequestLen => Decoded("server") > 0
      BY <1>1, <2>3, <3>2, ClientTurn
    <3> QED
      BY <1>1, <1>6, <1>7, <3>1, <3>3 DEF TurnsInv
  <2> QED
    BY <2>1, <2>2, <2>3 DEF Sides
<1>10. row_desc' = Current(dialogue.server, Descriptions(dialogue.server, Decoded("server")))'
  BY <1>1, <1>6 DEF Followed
<1>11. Followed'
  BY <1>5, <1>8, <1>9, <1>10 DEF Followed
<1>12. Printed' /\ Labelled'
  BY <1>1, NothingPrinted
<1> QED
  BY <1>1, <1>11, <1>12 DEF Kept

\* A segment of a connection that was given up: nothing is read of it.
LEMMA GivenUpKeeps ==
    ASSUME Types, Types', Printed, Labelled, encrypted, AcceptCaptured, [Next]_vars
    PROVE  Kept
<1>1. draining = "none"
  BY DEF Types
<1>2. CASE UNCHANGED vars
  <2>1. UNCHANGED <<dialogue, emitted, pos, encrypted>>
    BY <1>2 DEF vars
  <2>2. Captured("server")' = Captured("server")
    BY <2>1, Zenon DEF Captured, Begins
  <2>3. AcceptCaptured'
    BY <2>1, <2>2, Zenon DEF AcceptCaptured
  <2> QED
    BY <2>1, <2>3, NothingPrinted DEF Kept
<1>3. ASSUME NEW side \in Sides, NEW n \in 0..MaxChunk, Capture(side, n) PROVE Kept
  <2>1. /\ UNCHANGED <<dialogue, emitted, encrypted>>
        /\ pos' = [pos EXCEPT ![side] = @ + n]
    BY <1>3 DEF Capture
  <2>2. pos'["server"] >= pos["server"] /\ pos'["server"] \in Nat /\ pos["server"] \in Nat
    <3>1. n \in Nat /\ pos \in [Sides -> Nat] /\ "server" \in Sides
      BY <1>3, DialogueAssumption DEF Types, Sides
    <3>2. pos'["server"] = IF side = "server" THEN pos["server"] + n ELSE pos["server"]
      BY <2>1, <3>1
    <3> QED
      BY <3>1, <3>2
  <2>3. AcceptCaptured'
    <3>1. PICK i \in Captured("server") :
                 dialogue.server[i].m \in {"accept_ssl", "accept_gss"}
      BY DEF AcceptCaptured
    <3>2. i \in Begins("server") /\ i + dialogue["server"][i].of - 1 <= pos["server"]
      BY DEF Captured
    <3>3. i \in Int /\ dialogue["server"][i].of \in Int
      <4>1. dialogue["server"] \in Seq(Unit)
        BY Directions DEF Sides
      <4>2. i \in 1..Len(dialogue["server"])
        BY <3>2 DEF Begins
      <4>3. dialogue["server"][i] \in Unit
        BY <4>1, <4>2, ElementOfSeq
      <4> QED
        BY <4>2, <4>3 DEF Unit
    <3>4. i + dialogue["server"][i].of - 1 <= pos'["server"]
      BY <2>2, <3>2, <3>3
    <3>5. i \in Captured("server")'
      BY <2>1, <3>2, <3>4 DEF Captured, Begins
    <3> QED
      BY <2>1, <3>1, <3>5 DEF AcceptCaptured
  <2> QED
    BY <2>1, <2>3, NothingPrinted DEF Kept
<1>4. ~Drain
  <2>1. draining \notin {"client", "server"}
    BY <1>1
  <2> QED
    BY <1>1, <2>1 DEF Drain, RunsDry, DecodeError, NoRequest, Startup, Refuse, UnknownReply,
       RowDescription, NoData, DataRow, Request, FrontendMessage, Accept, BackendMessage, Garbage
<1> QED
  BY <1>2, <1>3, <1>4 DEF Next

-----------------------------------------------------------------------------
(* The invariant.                                                          *)

\* Before anything is captured.
LEMMA InitFollows ==
    ASSUME Init, Types, Conversation(dialogue)
    PROVE  Followed /\ Printed /\ Labelled
<1>1. /\ \A s \in Sides : pos[s] = 0 /\ rxbuf[s] = << >> /\ emitted[s] = << >>
      /\ ctx = [frontend_ssl |-> TRUE, frontend_startup |-> TRUE,
                backend_ssl |-> FALSE, backend_gss |-> FALSE]
      /\ row_desc = 0 /\ draining = "none"
  BY DEF Init
<1>2. "client" \in Sides /\ "server" \in Sides
  BY DEF Sides
<1>3. \A s \in Sides : Decoded(s) = 0 /\ Len(emitted[s]) = 0
  <2> SUFFICES ASSUME NEW s \in Sides PROVE Decoded(s) = 0 /\ Len(emitted[s]) = 0
    OBVIOUS
  <2>1. Len(rxbuf[s]) = 0 /\ Len(emitted[s]) = 0 /\ pos[s] = 0
    BY <1>1
  <2> QED
    BY <2>1 DEF Decoded
<1>4. \A q : Begun(q, 0) = {}
  <2> SUFFICES ASSUME NEW q, NEW i \in Begun(q, 0) PROVE FALSE
    OBVIOUS
  <2>1. i \in 1..Len(q) /\ i <= 0
    BY DEF Begun, Starts
  <2> QED
    BY <2>1
<1>5. ASSUME NEW s \in Sides PROVE FollowsInv(s)
  <2>1. dialogue[s] \in Seq(Unit) /\ Len(dialogue[s]) \in Nat
    BY Directions
  <2>2. SubSeq(dialogue[s], 0 + 1, 0) = << >>
    BY <2>1
  <2>3. Boundary(dialogue[s], 0)
    BY <2>1 DEF Boundary
  <2>4. Cardinality(Begun(dialogue[s], 0)) = 0
    BY <1>4, FS_EmptySet
  <2>5. Stands(dialogue[s], 0, << >>, 0, 0)
    BY <2>1, <2>2, <2>3, <2>4 DEF Stands
  <2> QED
    BY <1>1, <1>3, <2>5 DEF FollowsInv, RanDry
<1>6. RequestLen \in Nat
  <2>1. Asks(dialogue) => dialogue.client \in Seq(Unit) /\ dialogue.client # << >>
                          /\ Whole(dialogue.client)
    BY WellFormed DEF Asks
  <2> QED
    BY <2>1, FirstMessage DEF RequestLen
<1>7. Decoded("client") = 0 /\ Decoded("server") = 0 /\ pos.client = 0 /\ pos.server = 0
  BY <1>1, <1>2, <1>3
<1>8. FlagsInv
  <2>1. ctx.frontend_ssl /\ ctx.frontend_startup /\ ~ctx.backend_ssl /\ ~ctx.backend_gss
    BY <1>1
  <2>2. ~(Decoded("client") > RequestLen) /\ ~(Decoded("client") > 0)
    BY <1>6, <1>7
  <2> QED
    BY <1>1, <1>7, <2>1, <2>2 DEF FlagsInv
<1>9. TurnsInv
  BY <1>6, <1>7 DEF TurnsInv
<1>10. row_desc = Current(dialogue.server, Descriptions(dialogue.server, Decoded("server")))
  <2>1. Descriptions(dialogue.server, 0) = {}
    BY <1>4 DEF Descriptions
  <2> QED
    BY <1>1, <1>7, <2>1 DEF Current
<1>11. Printed /\ Labelled
  <2>1. \A s \in Sides : 1..Len(emitted[s]) = {}
    BY <1>3
  <2>2. 1..Len(emitted.server) = {}
    BY <1>2, <2>1
  <2> QED
    BY <2>1, <2>2 DEF Printed, Labelled
<1> QED
  BY <1>5, <1>8, <1>9, <1>10, <1>11 DEF Followed

\* A step that changes nothing.
LEMMA StutterKeeps ==
    ASSUME Types, Followed, Printed, Labelled, ~encrypted, UNCHANGED vars
    PROVE  Kept
<1>1. UNCHANGED <<dialogue, pos, rxbuf, ctx, row_desc, encrypted, draining, outcome, emitted>>
  BY DEF vars
<1>2. (\A s : Decoded(s)' = Decoded(s)) /\ RequestLen' = RequestLen
  BY <1>1 DEF Decoded, RequestLen
<1>3. \A s \in Sides : FollowsInv(s)'
  BY <1>1, <1>2 DEF Followed, FollowsInv
<1>4. FlagsInv'
  <2>1. FlagsInv
    BY DEF Followed
  <2> QED
    BY <1>1, <1>2, <2>1 DEF FlagsInv
<1>5. TurnsInv'
  BY <1>1, <1>2 DEF Followed, TurnsInv
<1>6. Followed'
  BY <1>1, <1>2, <1>3, <1>4, <1>5 DEF Followed
<1>7. Printed' /\ Labelled'
  BY <1>1, NothingPrinted
<1> QED
  BY <1>1, <1>6, <1>7 DEF Kept

\* IInv holds of every reachable state.
LEMMA Follows ==
    ASSUME OneNegotiationEach
    PROVE  Spec => []IInv
<1>1. Init => IInv
  <2> SUFFICES ASSUME Init PROVE IInv
    OBVIOUS
  <2>1. Types
    BY InitTypes
  <2>2. ~encrypted
    BY DEF Init
  <2>3. InOrderCapture => Followed /\ Printed /\ Labelled
    BY <2>1, InConversation, InitFollows
  <2> QED
    BY <2>1, <2>2, <2>3 DEF IInv
<1>2. IInv /\ [Next]_vars => IInv'
  <2> SUFFICES ASSUME IInv, [Next]_vars PROVE IInv'
    OBVIOUS
  <2>1. Types /\ Types'
    BY TypesStep DEF IInv
  <2>2. dialogue' = dialogue
    <3>1. CASE UNCHANGED vars
      BY <3>1 DEF vars
    <3>2. CASE \E side \in Sides, n \in 0..MaxChunk : Capture(side, n)
      BY <3>2 DEF Capture
    <3>3. CASE Drain
      BY <2>1, <3>3, DrainTypes DEF DrainShape
    <3> QED
      BY <3>1, <3>2, <3>3 DEF Next
  <2>3. InOrderCapture' <=> InOrderCapture
    BY <2>2 DEF InOrderCapture
  <2>4. ASSUME InOrderCapture PROVE Kept
    <3>1. Conversation(dialogue)
      BY <2>1, <2>4, InConversation
    <3>2. Printed /\ Labelled /\ (encrypted => AcceptCaptured) /\ (~encrypted => Followed)
      BY <2>4 DEF IInv
    <3>3. CASE encrypted
      BY <2>1, <3>2, <3>3, GivenUpKeeps
    <3>4. CASE ~encrypted /\ UNCHANGED vars
      BY <2>1, <3>2, <3>4, StutterKeeps
    <3>5. ASSUME ~encrypted, NEW side \in Sides, NEW n \in 0..MaxChunk, Capture(side, n)
          PROVE  Kept
      <4>1. n \in Nat
        BY DialogueAssumption
      <4> QED
        BY <2>1, <2>4, <3>1, <3>2, <3>5, <4>1, CaptureKeeps
    <3>6. CASE ~encrypted /\ Drain
      BY <2>1, <3>1, <3>2, <3>6, DrainKeeps
    <3> QED
      BY <3>3, <3>4, <3>5, <3>6 DEF Next
  <2> QED
    BY <2>1, <2>3, <2>4 DEF IInv, Kept
<1> QED
  BY <1>1, <1>2, PTL DEF Spec

\* A direction that is not being drained has every captured message printed.
LEMMA NothingOwed ==
    ASSUME Types, Conversation(dialogue), Followed, draining = "none", NEW s \in Sides
    PROVE  Cardinality(Captured(s)) = Len(emitted[s])
<1> DEFINE q == dialogue[s]
           c == Decoded(s)
<1>1. q \in Seq(Unit) /\ Whole(q)
  BY Directions DEF Conversation
<1>2. Stands(q, pos[s], rxbuf[s], c, Len(emitted[s])) /\ RanDry(rxbuf[s])
  BY DEF Followed, FollowsInv, Sides
<1>3. Captured(s) = {i \in Starts(q) : i + q[i].of - 1 <= pos[s]}
  BY Zenon DEF Captured, Begins, Starts
<1> HIDE DEF q, c
<1>4. Captured(s) = Begun(q, c)
  BY <1>1, <1>2, <1>3, CapturedIsBegun
<1> QED
  BY <1>2, <1>4 DEF Stands

\* While the connection is followed, no byte that accepts encryption was captured.
LEMMA NotAccepted ==
    ASSUME Types, Conversation(dialogue), Followed, draining = "none"
    PROVE  ~AcceptCaptured
<1> SUFFICES ASSUME NEW i \in Captured("server"),
                    dialogue.server[i].m \in {"accept_ssl", "accept_gss"}
             PROVE  FALSE
  BY DEF AcceptCaptured
<1> DEFINE r == dialogue.server
<1>1. r \in Seq(Unit) /\ "server" \in Sides
  BY WellFormed DEF Sides
<1>2. i \in 1..Len(r) /\ i + r[i].of - 1 <= pos.server /\ r[i].m # "refuse"
  BY DEF Captured, Begins
<1>3. r[i].of \in Nat /\ r[i].of >= 1 /\ r[i].m \in Replies
  <2>1. r[i] \in Unit
    BY <1>1, <1>2, ElementOfSeq
  <2> QED
    BY <1>2, <2>1 DEF Unit, Replies
<1>4. CASE Accepts(dialogue)
  <2>1. pos.server = 0
    BY <1>4 DEF Followed, TurnsInv
  <2> QED
    BY <1>2, <1>3, <2>1
<1>5. CASE ~Asks(dialogue)
  <2>1. Cleartext(dialogue, 0, 0)
    BY <1>5 DEF Conversation
  <2>2. i \in 0 + 1..Len(r)
    BY <1>1, <1>2
  <2> QED
    BY <1>3, <2>1, <2>2 DEF Cleartext
<1>6. CASE Asks(dialogue) /\ ~Accepts(dialogue)
  <2>1. r # << >> /\ r[1].m = "refuse"
    BY <1>1, <1>2, <1>6 DEF Accepts
  <2>2. Negotiates(dialogue)
    BY <1>6 DEF Conversation
  <2>3. Cleartext(dialogue, dialogue.client[1].of, 1)
    BY <2>1, <2>2 DEF Negotiates
  <2>4. i \in 1 + 1..Len(r)
    BY <1>1, <1>2, <2>1
  <2> QED
    BY <1>3, <2>3, <2>4 DEF Cleartext
<1> QED
  BY <1>4, <1>5, <1>6

\* Captured in order, a conversation with at most one negotiation is printed as it was
\* held: every message once, in order, none misread; between two segments no complete
\* message is owed; and handle gives the connection up exactly when the server's
\* acceptance was captured.
THEOREM DecodedAsHeld ==
    ASSUME OneNegotiationEach
    PROVE  Spec => []Faithful
<1>1. IInv => Faithful
  <2> SUFFICES ASSUME IInv, InOrderCapture
               PROVE  /\ \A s \in Sides : \A k \in 1..Len(emitted[s]) : PrintedRight(s, k)
                      /\ draining = "none" =>
                            /\ encrypted <=> AcceptCaptured
                            /\ ~encrypted =>
                                  \A s \in Sides : Cardinality(Captured(s)) = Len(emitted[s])
    BY DEF Faithful
  <2>1. /\ Types /\ Printed
        /\ encrypted => AcceptCaptured
        /\ ~encrypted => Followed
    BY DEF IInv
  <2>2. Conversation(dialogue)
    BY <2>1, InConversation
  <2>3. ASSUME draining = "none", ~encrypted
        PROVE  ~AcceptCaptured /\ \A s \in Sides : Cardinality(Captured(s)) = Len(emitted[s])
    BY <2>1, <2>2, <2>3, NotAccepted, NothingOwed
  <2>4. encrypted \in BOOLEAN
    BY <2>1 DEF Types
  <2> QED
    BY <2>1, <2>3, <2>4 DEF Printed
<1> QED
  BY <1>1, Follows, PTL

\* And if one statement at a time is described and executed, rows are labelled with
\* the columns of their own statement, however many command cycles ago it was
\* described: the cache of handle_backend is not stale.
THEOREM RowsAreLabelled ==
    ASSUME OneNegotiationEach, RowsFollowDescription
    PROVE  Spec => []RowsLabelled
<1>1. IInv => RowsLabelled
  <2> SUFFICES ASSUME IInv, InOrderCapture, NEW k \in 1..Len(emitted.server),
                      emitted.server[k].what = "DataRow"
               PROVE  \E i \in Begins("server") :
                          /\ dialogue.server[i].at = emitted.server[k].at
                          /\ dialogue.server[i].m = "DataRow"
                          /\ dialogue.server[i].row = emitted.server[k].columns
    BY DEF RowsLabelled
  <2>1. PICK i \in Begins("server") : /\ dialogue.server[i].at = emitted.server[k].at
                                     /\ dialogue.server[i].m = "DataRow"
    BY DEF IInv, Printed, PrintedRight, Sides
  <2>2. emitted.server[k].columns = LastDescribed(dialogue.server, emitted.server[k].at)
    BY DEF IInv, Labelled, InForce
  <2>3. OneStatementAtATime(dialogue)
    BY DEF RowsFollowDescription, IInv, Types, InOrderCapture
  <2>4. dialogue.server[i].row = LastDescribed(dialogue.server, dialogue.server[i].at)
    BY <2>1, <2>3 DEF OneStatementAtATime, Begins
  <2> QED
    BY <2>1, <2>2, <2>4
<1> QED
  BY <1>1, Follows, PTL
===============================================================================
