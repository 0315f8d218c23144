------------------------------ MODULE Negotiation ------------------------------
(***************************************************************************)
(* Decoding one captured connection: Connection::handle of src/flow.rs,    *)
(* drain_direction, handle_frontend, handle_backend and decode_error of    *)
(* src/decode.rs.  The capture shows a dialogue between a client and a     *)
(* server; each direction arrives in order (module Reassembly), in chunks  *)
(* that need not respect message boundaries.                               *)
(*                                                                         *)
(* The wire is abstracted to units.  A message is one or more of them (so  *)
(* that a buffer can hold a part of it), the one-byte reply to an SSL or   *)
(* GSS request is one.  What pgwire (an external crate) makes of the head of   *)
(* a buffer is given by Frontend and Backend below; bytes read out of step *)
(* with the protocol have every outcome they may have.                     *)
(***************************************************************************)
EXTENDS Integers, Sequences, FiniteSets

CONSTANTS
    Dialogues,  \* the conversations: records of the units of client and server, and skew:
                \* how many messages one direction may be captured ahead of the other
    MaxChunk    \* bound: units of a direction that reach the decoder at once

Sides == {"client", "server"}
Other(side) == IF side = "client" THEN "server" ELSE "client"

Requests == {"SSLRequest", "GssEncRequest"}
Replies  == {"accept_ssl", "accept_gss", "refuse"}    \* the bytes 'S', 'G', 'N'
Opaque   == {"tls"}

\* Outcomes of a decode that are not the name of a message (see Frontend, Backend).
NoMessage == {"none", "error", "garbage", "peek", "unknown"}

\* A unit: the message it belongs to, the place of that message in the
\* dialogue, and which of the message's units it is.  Of a row, `row` is the place
\* of the RowDescription of the statement it is a row of, 0 if there is none.  The
\* wire does not say that; the server knows.
Unit == {u \in [m : STRING \ NoMessage, at : Nat, part : Nat, of : Nat, row : Nat] :
            u.part \in 1..u.of}

ASSUME DialogueAssumption ==
    /\ Dialogues \subseteq [client : Seq(Unit), server : Seq(Unit), skew : Nat]
    /\ MaxChunk \in Nat \ {0}

VARIABLES
    dialogue,   \* the conversation on the wire
    pos,        \* side -> units captured
    rxbuf,      \* side -> Direction.rxbuf
    ctx,        \* the pgwire DecodeContext flags of the two directions
    row_desc,   \* Direction.row_desc of the server direction: `at` of the description, 0 is None
    encrypted,  \* Connection.encrypted
    draining,   \* the side whose drain_direction is running, or "none"
    outcome,    \* the DrainOutcome of that drain
    emitted,    \* side -> what was printed for it, in order
    recorded    \* side -> messages passed to record_messages

vars == <<dialogue, pos, rxbuf, ctx, row_desc, encrypted, draining, outcome,
          emitted, recorded>>

-----------------------------------------------------------------------------
(* pgwire's decoders (external), from how src/decode.rs uses them.         *)

\* The buffer starts with the first byte of a message, or with a whole message.
Aligned(buf)  == Head(buf).part = 1
Complete(buf) == Aligned(buf) /\ Len(buf) >= Head(buf).of

\* The buffer without its first message.
Rest(buf) == SubSeq(buf, Head(buf).of + 1, Len(buf))

\* Bytes read out of step: their length field is arbitrary.
Misread == {"none", "error", "garbage"}

\* Outcomes of a decode: nothing yet, an error, or a message of some kind.
\* "peek" consumes nothing; "garbage" is a message made of out-of-step bytes.
Frontend(buf) ==
    IF buf = << >> THEN {"none"}
    ELSE LET m == Head(buf).m IN
      CASE ctx.frontend_ssl /\ m \in Requests ->
               IF Complete(buf) THEN {m} ELSE {"none"}
        [] ctx.frontend_ssl /\ m \notin Requests ->
               IF Complete(buf) THEN {"peek"} ELSE {"peek", "none"}
        [] ~ctx.frontend_ssl /\ ctx.frontend_startup ->
               CASE m \in {"Startup", "CancelRequest"} /\ Aligned(buf) ->
                        IF Complete(buf) THEN {m} ELSE {"none"}
                 [] m \in Requests /\ Aligned(buf) ->
                        IF Complete(buf) THEN {"Startup", "error"} ELSE {"none"}
                 [] OTHER -> {"none", "error"}
        [] OTHER ->
               CASE m \in Requests \cup Opaque \cup {"Startup", "CancelRequest"} -> {"error"}
                 [] ~Aligned(buf) -> Misread
                 [] Complete(buf) -> {m}
                 [] OTHER -> {"none"}

Backend(buf) ==
    IF buf = << >> THEN {"none"}
    ELSE LET m == Head(buf).m IN
      CASE ctx.backend_ssl /\ m \in {"accept_ssl", "refuse"} -> {m}
        [] ctx.backend_ssl /\ m = "ParameterStatus" -> {"accept_ssl"}    \* also an 'S'
        [] ctx.backend_ssl /\ m \notin {"accept_ssl", "refuse", "ParameterStatus"} ->
               {"unknown", "error"}
        [] ~ctx.backend_ssl /\ ctx.backend_gss ->
               IF m \in {"accept_gss", "refuse"} THEN {m} ELSE {"unknown", "error"}
        [] OTHER ->
               CASE m \in Opaque -> {"error"}
                 [] m \in Replies -> IF Len(buf) = 1 THEN {"none"} ELSE Misread
                 [] ~Aligned(buf) -> Misread
                 [] Complete(buf) -> {m}
                 [] OTHER -> {"none"}

-----------------------------------------------------------------------------
(* Connection::handle, up to the drain                                     *)

\* Everything of the other side sent before `at` was captured, but for the skew.
InStep(side, at) ==
    LET other == dialogue[Other(side)]
    IN  \A i \in 1..Len(other) : other[i].at + dialogue.skew < at => i <= pos[Other(side)]

NoOutcome == [wait |-> "none", encrypted |-> FALSE, msgs |-> 0]

\* Mutant: the early return for encrypted connections is missing.
CaptureAlways(side, n) ==
    /\ draining = "none"
    /\ pos[side] + n <= Len(dialogue[side])
    /\ n > 0 => InStep(side, dialogue[side][pos[side] + n].at)
    /\ pos' = [pos EXCEPT ![side] = @ + n]
    /\ rxbuf' = [rxbuf EXCEPT ![side] =
                    @ \o SubSeq(dialogue[side], pos[side] + 1, pos[side] + n)]
    /\ draining' = side
    /\ outcome' = NoOutcome
    /\ UNCHANGED <<dialogue, ctx, row_desc, encrypted, emitted, recorded>>

\* A segment is captured that makes n more units of a direction contiguous (none
\* for a bare SYN, ACK or FIN).  On an encrypted connection handle
\* returns at once; otherwise the bytes are fed and the direction is drained.
Capture(side, n) ==
    /\ draining = "none"
    /\ pos[side] + n <= Len(dialogue[side])
    /\ n > 0 => InStep(side, dialogue[side][pos[side] + n].at)
    /\ pos' = [pos EXCEPT ![side] = @ + n]
    /\ IF encrypted
       THEN UNCHANGED <<rxbuf, draining, outcome>>
       ELSE /\ rxbuf' = [rxbuf EXCEPT ![side] =
                            @ \o SubSeq(dialogue[side], pos[side] + 1, pos[side] + n)]
            /\ draining' = side
            /\ outcome' = NoOutcome
    /\ UNCHANGED <<dialogue, ctx, row_desc, encrypted, emitted, recorded>>

-----------------------------------------------------------------------------
(* drain_direction                                                         *)

\* A line for the head of the buffer is printed; `what` says which.
Emit(side, what) ==
    emitted' = [emitted EXCEPT ![side] =
        Append(@, [at |-> Head(rxbuf[side]).at, what |-> what, columns |-> 0])]

Consume(side) == rxbuf' = [rxbuf EXCEPT ![side] = Rest(@)]

\* A reply is one byte, whatever the bytes after it are.
ConsumeByte == rxbuf' = [rxbuf EXCEPT !.server = Tail(@)]

Count(o) == [o EXCEPT !.msgs = @ + 1]

\* After the drain, handle arms the server direction, marks the connection
\* encrypted and records the messages.
Finish(o, c) ==
    /\ draining' = "none"
    /\ ctx' = [c EXCEPT !.backend_ssl = @ \/ o.wait = "ssl",
                        !.backend_gss = @ \/ o.wait = "gss"]
    /\ encrypted' = (encrypted \/ o.encrypted)
    /\ recorded' = [recorded EXCEPT ![draining] = @ + o.msgs]
    /\ outcome' = o

\* The loop goes on with the outcome o and the context c.
Continue(o, c) ==
    /\ outcome' = o
    /\ ctx' = c
    /\ UNCHANGED <<draining, encrypted, recorded>>

\* Ok(None): the buffer ran dry.
RunsDry ==
    /\ draining # "none"
    /\ "none" \in (IF draining = "client" THEN Frontend(rxbuf.client) ELSE Backend(rxbuf.server))
    /\ Finish(outcome, ctx)
    /\ UNCHANGED <<dialogue, pos, rxbuf, row_desc, emitted>>

\* Err: decode_error reports, the buffer is cleared.
DecodeError ==
    /\ draining # "none"
    /\ "error" \in (IF draining = "client" THEN Frontend(rxbuf.client) ELSE Backend(rxbuf.server))
    /\ Emit(draining, "error")
    /\ rxbuf' = [rxbuf EXCEPT ![draining] = << >>]
    /\ Finish(outcome, ctx)
    /\ UNCHANGED <<dialogue, pos, row_desc>>

-----------------------------------------------------------------------------
(* handle_frontend                                                         *)

\* Mutant: the peek is counted as a message.
PeekCounted ==
    /\ draining = "client"
    /\ "peek" \in Frontend(rxbuf.client)
    /\ Continue(Count(outcome), [ctx EXCEPT !.frontend_ssl = FALSE])
    /\ UNCHANGED <<dialogue, pos, rxbuf, row_desc, emitted>>

\* SslNegotiation(None): no request; the bytes stay for the Startup decode.
NoRequest ==
    /\ draining = "client"
    /\ "peek" \in Frontend(rxbuf.client)
    /\ Continue(outcome, [ctx EXCEPT !.frontend_ssl = FALSE])
    /\ UNCHANGED <<dialogue, pos, rxbuf, row_desc, emitted>>

\* Mutant: the server direction is not armed.
RequestUnarmed(m) ==
    /\ draining = "client"
    /\ m \in Requests \cap Frontend(rxbuf.client)
    /\ Emit("client", m)
    /\ Consume("client")
    /\ Finish(Count(outcome), [ctx EXCEPT !.frontend_ssl = FALSE])
    /\ UNCHANGED <<dialogue, pos, row_desc>>

\* An SSL or GSS request: draining stops and the server direction is armed.
Request(m) ==
    /\ draining = "client"
    /\ m \in Requests \cap Frontend(rxbuf.client)
    /\ Emit("client", m)
    /\ Consume("client")
    /\ Finish([Count(outcome) EXCEPT !.wait = IF m = "SSLRequest" THEN "ssl" ELSE "gss"],
              [ctx EXCEPT !.frontend_ssl = FALSE])
    /\ UNCHANGED <<dialogue, pos, row_desc>>

\* Startup: from now on the client's bytes are typed messages.
Startup ==
    /\ draining = "client"
    /\ "Startup" \in Frontend(rxbuf.client)
    /\ Emit("client", "Startup")
    /\ Consume("client")
    /\ Continue(Count(outcome), [ctx EXCEPT !.frontend_startup = FALSE])
    /\ UNCHANGED <<dialogue, pos, row_desc>>

\* Any other frontend message is printed and counted.
FrontendMessage(m) ==
    /\ draining = "client"
    /\ m \in Frontend(rxbuf.client) \ (Requests \cup Misread \cup {"peek", "Startup"})
    /\ Emit("client", m)
    /\ Consume("client")
    /\ Continue(Count(outcome), ctx)
    /\ UNCHANGED <<dialogue, pos, row_desc>>

-----------------------------------------------------------------------------
(* handle_backend                                                          *)

\* The reply flag is one-shot: whatever the answer, it is cleared.
Answered == IF ctx.backend_ssl THEN [ctx EXCEPT !.backend_ssl = FALSE]
                               ELSE [ctx EXCEPT !.backend_gss = FALSE]

\* Refuse: the connection goes on in cleartext.
Refuse ==
    /\ draining = "server"
    /\ "refuse" \in Backend(rxbuf.server)
    /\ Emit("server", "refuse")
    /\ ConsumeByte
    /\ Continue(Count(outcome), Answered)
    /\ UNCHANGED <<dialogue, pos, row_desc>>

\* Accept: the outcome says encrypted; the loop goes on.
Accept(m) ==
    /\ draining = "server"
    /\ m \in {"accept_ssl", "accept_gss"} \cap Backend(rxbuf.server)
    /\ Emit("server", m)
    /\ ConsumeByte
    /\ Continue([Count(outcome) EXCEPT !.encrypted = TRUE], Answered)
    /\ UNCHANGED <<dialogue, pos, row_desc>>

\* A reply byte that is neither.
UnknownReply ==
    /\ draining = "server"
    /\ "unknown" \in Backend(rxbuf.server)
    /\ Emit("server", "unknown")
    /\ ConsumeByte
    /\ Continue(Count(outcome), Answered)
    /\ UNCHANGED <<dialogue, pos, row_desc>>

\* Mutant: the first description seen is kept.
RowDescriptionKept ==
    /\ draining = "server"
    /\ "RowDescription" \in Backend(rxbuf.server)
    /\ Emit("server", "RowDescription")
    /\ row_desc' = IF row_desc = 0 THEN Head(rxbuf.server).at ELSE row_desc
    /\ Consume("server")
    /\ Continue(Count(outcome), ctx)
    /\ UNCHANGED <<dialogue, pos>>

\* RowDescription: the columns are cached for the rows that follow.
RowDescription ==
    /\ draining = "server"
    /\ "RowDescription" \in Backend(rxbuf.server)
    /\ Emit("server", "RowDescription")
    /\ row_desc' = Head(rxbuf.server).at
    /\ Consume("server")
    /\ Continue(Count(outcome), ctx)
    /\ UNCHANGED <<dialogue, pos>>

\* NoData: the next statement returns no rows, the cache is emptied.
NoData ==
    /\ draining = "server"
    /\ "NoData" \in Backend(rxbuf.server)
    /\ Emit("server", "NoData")
    /\ row_desc' = 0
    /\ Consume("server")
    /\ Continue(Count(outcome), ctx)
    /\ UNCHANGED <<dialogue, pos>>

\* DataRow: printed with the cached columns.
DataRow ==
    /\ draining = "server"
    /\ "DataRow" \in Backend(rxbuf.server)
    /\ emitted' = [emitted EXCEPT !.server =
           Append(@, [at |-> Head(rxbuf.server).at, what |-> "DataRow", columns |-> row_desc])]
    /\ Consume("server")
    /\ Continue(Count(outcome), ctx)
    /\ UNCHANGED <<dialogue, pos, row_desc>>

\* Any other backend message is printed and counted.
BackendMessage(m) ==
    /\ draining = "server"
    /\ m \in Backend(rxbuf.server) \
             (Replies \cup Misread \cup {"unknown", "RowDescription", "NoData", "DataRow"})
    /\ Emit("server", m)
    /\ Consume("server")
    /\ Continue(Count(outcome), ctx)
    /\ UNCHANGED <<dialogue, pos, row_desc>>

\* Out-of-step bytes happen to form a message.
Garbage(n) ==
    /\ draining # "none"
    /\ "garbage" \in (IF draining = "client" THEN Frontend(rxbuf.client) ELSE Backend(rxbuf.server))
    /\ n \in 1..Len(rxbuf[draining])
    /\ Emit(draining, "garbage")
    /\ rxbuf' = [rxbuf EXCEPT ![draining] = SubSeq(@, n + 1, Len(@))]
    /\ Continue(Count(outcome), ctx)
    /\ UNCHANGED <<dialogue, pos, row_desc>>

-----------------------------------------------------------------------------
Init ==
    /\ dialogue \in Dialogues
    /\ pos = [s \in Sides |-> 0]
    /\ rxbuf = [s \in Sides |-> << >>]
    /\ ctx = [frontend_ssl |-> TRUE, frontend_startup |-> TRUE,
              backend_ssl |-> FALSE, backend_gss |-> FALSE]
    /\ row_desc = 0
    /\ encrypted = FALSE
    /\ draining = "none"
    /\ outcome = NoOutcome
    /\ emitted = [s \in Sides |-> << >>]
    /\ recorded = [s \in Sides |-> 0]

Messages == UNION {{d[s][i].m : i \in 1..Len(d[s])} : d \in Dialogues, s \in Sides}

Drain ==
    \/ RunsDry
    \/ DecodeError
    \/ NoRequest
    \/ Startup
    \/ Refuse
    \/ UnknownReply
    \/ RowDescription
    \/ NoData
    \/ DataRow
    \/ \E m \in Messages : Request(m) \/ FrontendMessage(m) \/ Accept(m) \/ BackendMessage(m)
    \/ \E n \in 1..MaxChunk : Garbage(n)

Next == (\E side \in Sides, n \in 0..MaxChunk : Capture(side, n)) \/ Drain

Spec == Init /\ [][Next]_vars

-----------------------------------------------------------------------------
(* The conversations that are decoded without a loss.                      *)

\* A direction carries its messages whole, one after the other.
Whole(q) ==
    \A i \in 1..Len(q) :
        LET b == i - q[i].part
        IN  /\ b >= 0 /\ b + q[i].of <= Len(q)
            /\ \A j \in 1..q[i].of : q[b + j] = [q[i] EXCEPT !.part = j]

Ordered(q) ==
    \A i, j \in 1..Len(q) :
        i < j => q[i].at <= q[j].at /\ (q[j].part = 1 => q[i].at < q[j].at)

\* After i units of the client and j of the server no byte belongs to a negotiation:
\* the client starts up and goes on with typed messages, or cancels.
Cleartext(d, i, j) ==
    /\ \A k \in i + 1..Len(d.client) :
          IF d.client[k].at = d.client[i + 1].at
          THEN d.client[k].m \in {"Startup", "CancelRequest"}
          ELSE /\ d.client[i + 1].m = "Startup"
               /\ d.client[k].m \notin Requests \cup Opaque \cup {"Startup", "CancelRequest"}
    /\ \A k \in j + 1..Len(d.server) : d.server[k].m \notin Replies \cup Opaque

\* The connection begins with an SSL or GSS request, and the server accepts it.
Asks(d)    == d.client # << >> /\ d.client[1].m \in Requests
Accepts(d) == Asks(d) /\ d.server # << >> /\ d.server[1].m # "refuse"

\* The request is answered by one byte, and only then the client goes on: as
\* before a request if it is refused, else with what the server waits for.
Negotiates(d) ==
    LET n == d.client[1].of
        m == d.server[1].m
    IN  /\ \A j \in 1..Len(d.server) : d.client[1].at < d.server[j].at
        /\ \A i \in n + 1..Len(d.client) : d.server # << >> /\ d.server[1].at < d.client[i].at
        /\ d.server # << >> =>
              /\ d.server[1].of = 1
              /\ \/ m = "refuse" /\ Cleartext(d, n, 1)
                 \/ /\ m = IF d.client[1].m = "SSLRequest" THEN "accept_ssl" ELSE "accept_gss"
                    /\ \A j \in 2..Len(d.server) :
                          \E i \in n + 1..Len(d.client) : d.client[i].at < d.server[j].at

\* At most one negotiation: a second one is what the run NegotiationTwice shows.
Conversation(d) ==
    /\ \A s \in Sides : Whole(d[s]) /\ Ordered(d[s])
    /\ IF Asks(d) THEN Negotiates(d) ELSE Cleartext(d, 0, 0)

\* The captures in order are of such conversations.
OneNegotiationEach == \A d \in Dialogues : d.skew = 0 => Conversation(d)

\* The last description sent in q before a place: none if it was a NoData.
LastDescribed(q, at) ==
    LET before == {i \in 1..Len(q) : /\ q[i].part = 1 /\ q[i].at < at
                                     /\ q[i].m \in {"RowDescription", "NoData"}}
        latest == CHOOSE i \in before : \A j \in before : j <= i
    IN  IF before = {} \/ q[latest].m = "NoData" THEN 0 ELSE q[latest].at

\* Only rows of the statement that was described last are sent: a simple query,
\* or one prepared statement at a time, executed once or often.
OneStatementAtATime(d) ==
    \A i \in 1..Len(d.server) :
        d.server[i].m = "DataRow" => d.server[i].row = LastDescribed(d.server, d.server[i].at)

\* The captures in order are of such conversations.
RowsFollowDescription == \A d \in Dialogues : d.skew = 0 => OneStatementAtATime(d)

-----------------------------------------------------------------------------
(* Properties.                                                             *)

\* The units of a side that begin a message.
Begins(s) == {i \in 1..Len(dialogue[s]) : dialogue[s][i].part = 1}

\* Entry k of what was printed for s is the k-th message s really sent.
PrintedRight(s, k) ==
    LET e == emitted[s][k]
    IN  \E i \in Begins(s) :
            /\ dialogue[s][i].at = e.at
            /\ dialogue[s][i].m = e.what
            /\ Cardinality({j \in Begins(s) : j < i}) = k - 1

\* The capture shows the two directions in the order of the conversation.
InOrderCapture == dialogue.skew = 0

\* The messages of s that were captured to their last byte.
Captured(s) ==
    {i \in Begins(s) : i + dialogue[s][i].of - 1 <= pos[s]}

\* A byte that accepts encryption was captured.
AcceptCaptured ==
    \E i \in Captured("server") : dialogue.server[i].m \in {"accept_ssl", "accept_gss"}

\* What is printed is the conversation: each direction's messages, in order,
\* each once, none misread.  Between two segments none that was captured
\* completely is owed (drain_direction decodes "until it runs dry"), through a
\* refused SSL or GSS request and up to an accepted one: the connection is given
\* up exactly then ("Only on accept do we give up", ServerNegotiationWait).
Faithful ==
    InOrderCapture =>
        /\ \A s \in Sides : \A k \in 1..Len(emitted[s]) : PrintedRight(s, k)
        /\ draining = "none" =>
              /\ encrypted <=> AcceptCaptured
              /\ ~encrypted => \A s \in Sides : Cardinality(Captured(s)) = Len(emitted[s])

\* "Count decoded pgwire messages, not TCP segments" (Connection::handle): each
\* printed message is recorded once, decode errors and peeks are not.
CountsMessages ==
    \A s \in Sides :
        recorded[s] + (IF draining = s THEN outcome.msgs ELSE 0) =
            Cardinality({k \in 1..Len(emitted[s]) : emitted[s][k].what # "error"})

\* Rows are labelled with the columns of the statement they are rows of, also
\* when it was described several command cycles or chunks earlier.
RowsLabelled ==
    InOrderCapture => \A k \in 1..Len(emitted.server) :
        LET e == emitted.server[k]
        IN  e.what = "DataRow" =>
                \E i \in Begins("server") : /\ dialogue.server[i].at = e.at
                                            /\ dialogue.server[i].m = "DataRow"
                                            /\ dialogue.server[i].row = e.columns

\* Once a connection is encrypted it stays so, and nothing more is printed for
\* it or recorded.
OpaqueIsFinal == [][encrypted => encrypted' /\ UNCHANGED <<emitted, recorded, row_desc>>]_vars
===============================================================================
