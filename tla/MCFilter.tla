-------------------------------- MODULE MCFilter --------------------------------
(* Lexemes with the tokens they stand for: single ones, the parts of a set,   *)
(* and whole predicates to be joined.                                         *)
EXTENDS Filter

L(text, means) == [text |-> text, means |-> means]
Sym(text, kind)     == L(text, <<<<kind, << >>>>>>)
Name(w)             == L(<<w>>, <<<<"word", <<w>>>>>>)
Quoted(v)           == L(<<Quote>> \o v \o <<Quote>>, <<<<"string", v>>>>)
Raw(v)              == L(<<"r", Quote>> \o v \o <<Quote>>, <<<<"string", v>>>>)
Join(a, b, c)       == L(a.text \o <<Space>> \o b.text \o c.text, a.means \o b.means \o c.means)

Operators ==
    {Sym(<<"=", "=">>, "=="), Sym(<<"!", "=">>, "!="), Sym(<<"contains">>, "contains"),
     Sym(<<"matches">>, "matches"), Sym(<<"In">>, "in")}
Connectives ==
    {Sym(<<"and">>, "and"), Sym(<<"&", "&">>, "and"), Sym(<<"AND">>, "and"),
     Sym(<<"or">>, "or"), Sym(<<"|", "|">>, "or"), Sym(<<"!">>, "not"), Sym(<<"NOT">>, "not")}
Brackets == {Sym(<<c>>, c) : c \in {"(", ")", "{", "}", ","}}
Values ==
    {Name("::1"), Quoted(<<"0::1">>), Name("5432"), Name("65536"), Quoted(<<"Query">>),
     Quoted(<<"f2b">>), Quoted(<< >>), Raw(<<Backslash, "n">>), Raw(<<"(">>),
     Raw(<<"x", Backslash>>),
     L(<<Quote, Backslash, "n", Backslash, Quote, "x", Quote>>, <<<<"string", <<"newline", Quote, "x">>>>>>)}
Wrong ==
    {L(t, Bad) : t \in {<<"=">>, <<"&">>, <<"|">>, <<Quote, "x">>, <<Quote, "x", Backslash>>,
                        <<Quote, Backslash, "x", Quote>>, <<"r", Quote, "x", Backslash>>}}
Single == {Name(f) : f \in Fields \cup {"client.mac"}} \cup Operators \cup Connectives \cup Brackets \cup Values \cup Wrong

Predicates ==
    {Join(Name("message.type"), Sym(<<"=", "=">>, "=="), Quoted(<<"Query">>)),
     Join(Name("client.port"), Sym(<<"!", "=">>, "!="), Name("5432"))}
Joined == Predicates \cup Brackets \cup Connectives
Boolean == Predicates \cup {Sym(<<"and">>, "and"), Sym(<<"|", "|">>, "or"), Sym(<<"!">>, "not"), Sym(<<"(">>, "("), Sym(<<")">>, ")")}
Sets ==
    {Join(Name("client.port"), Sym(<<"in">>, "in"), Sym(<<"{">>, "{")),
     Join(Name("message.direction"), Sym(<<"In">>, "in"), Sym(<<"{">>, "{")),
     Name("5432"), Name("6"), Quoted(<<"f2b">>), Quoted(<<"b2f">>), Sym(<<",">>, ","), Sym(<<"}">>, "}"), Sym(<<"OR">>, "or")}

StyleNames == {"single", "filters", "boolean", "sets"}
LexemesOf == [s \in StyleNames |->
    CASE s = "single" -> Single [] s = "filters" -> Joined
      [] s = "boolean" -> Boolean [] s = "sets" -> Sets]
BoundOf == [s \in StyleNames |->
    CASE s = "single" -> 3 [] s = "filters" -> 4
      [] s = "boolean" -> 7 [] s = "sets" -> 7]

LexemesUsed == LexemesOf
BoundUsed   == BoundOf
Ips   == [t \in {"::1", "0::1"} |-> "::1"]
Ports == [t \in {"5432", "6"} |-> IF t = "6" THEN 6 ELSE 5432]
Unparsable == {<<"(">>, <<"x", Backslash>>}

Seen ==
    {[ip |-> "::1", port |-> p, kind |-> k, text |-> <<"x", "newline", Quote, "x">>, direction |-> d] :
        p \in {5432, 6, 7}, k \in {<<"Query">>, <<"DataRow">>}, d \in {"f2b", "b2f"}}
=================================================================================
