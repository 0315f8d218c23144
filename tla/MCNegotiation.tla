---------------------------- MODULE MCNegotiation -----------------------------
(* Dialogues for TLC. *)
EXTENDS Negotiation, SequencesExt

\* The units of the messages that `side` sends in a script of
\* <<side, message, place of the message that describes the row>>.
Units(script, side) ==
    FlattenSeq([i \in 1..Len(script) |->
        IF script[i][1] # side THEN << >>
        ELSE LET m == script[i][2]
                 n == CASE m \in Replies \cup Opaque -> 1 [] m = "DataRow" -> 3 [] OTHER -> 2
             IN  [k \in 1..n |-> [m |-> m, at |-> i, part |-> k, of |-> n, row |-> script[i][3]]]])

Dialogue(script, skew) ==
    [client |-> Units(script, "client"), server |-> Units(script, "server"), skew |-> skew]

C(m) == <<"client", m, 0>>
S(m) == <<"server", m, 0>>
Row(i) == <<"server", "DataRow", i>>

\* Authentication, a query executed twice, another one, a statement without
\* columns, and a row of a statement that nobody described.
Session == <<C("Startup"), S("Authentication"), S("ParameterStatus"), C("Query"),
             S("RowDescription"), Row(5), S("ReadyForQuery"), C("Bind"), C("Execute"),
             Row(5), S("RowDescription"), Row(11), S("NoData"), Row(0)>>
ShortSession == <<C("Startup"), S("Authentication"), S("ParameterStatus"), C("Query")>>

Plain       == Session
SslRefused  == <<C("SSLRequest"), S("refuse")>> \o ShortSession
GssRefused  == <<C("GssEncRequest"), S("refuse")>> \o ShortSession
SslAccepted == <<C("SSLRequest"), S("accept_ssl"), C("tls"), S("tls"), C("tls")>>
GssAccepted == <<C("GssEncRequest"), S("accept_gss"), C("tls"), S("tls"), S("tls")>>
Cancel      == <<C("CancelRequest")>>
GssThenSslRefused  == <<C("GssEncRequest"), S("refuse")>> \o SslRefused
GssThenSslAccepted == <<C("GssEncRequest"), S("refuse")>> \o SslAccepted

\* Every conversation with at most one negotiation, captured in order.
OneNegotiation ==
    {Dialogue(s, 0) : s \in {Plain, SslRefused, GssRefused, SslAccepted, GssAccepted, Cancel}}

\* Captures whose directions drift apart by up to four messages.
OutOfStep == {Dialogue(s, 4) : s \in {ShortSession, SslRefused, SslAccepted}}

Captures == OneNegotiation \cup OutOfStep

\* GSS is refused, then the client tries SSL on the same connection.
TwoNegotiations == {Dialogue(s, 0) : s \in {GssThenSslRefused, GssThenSslAccepted}}

\* Two statements are prepared and described, then the first is executed.
TwoStatements == <<C("Startup"), S("Authentication"), C("Describe"), S("RowDescription"),
                   C("Describe"), S("RowDescription"), C("Execute"), Row(4)>>

\* The theorems' hypotheses are about the first set.  They exclude a second
\* negotiation, and a row of a statement other than the one described last.
ASSUME OneNegotiationCovered ==
    \A d \in OneNegotiation : Conversation(d) /\ OneStatementAtATime(d)
ASSUME TwoNegotiationsExcluded == \A d \in TwoNegotiations : ~Conversation(d)
ASSUME TwoStatementsExcluded ==
    LET d == Dialogue(TwoStatements, 0) IN Conversation(d) /\ ~OneStatementAtATime(d)
===============================================================================
