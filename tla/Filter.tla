--------------------------------- MODULE Filter ---------------------------------
(***************************************************************************)
(* The display filter language: lex, Parser and the evaluation of          *)
(* src/filter.rs.                                                          *)
(*                                                                         *)
(* A text is a sequence of characters.  A run of letters and digits counts *)
(* as one character, a string such as "client.ip": the lexer looks at the  *)
(* first character of a run only, and no run begins with a letter that is  *)
(* an escape (n, r, t).  The user types a filter one lexeme after another  *)
(* and after each the text is parsed, as the TUI's editor does.            *)
(***************************************************************************)
EXTENDS Integers, Sequences, FiniteSetsExt, SequencesExt

CONSTANTS
    Lexemes,        \* style of typing -> what is typed: [text, means]
    MaxLexemes,     \* bound: style -> lexemes in a filter
    Spaced,         \* the styles with spaces everywhere, not only where needed
    Careful,        \* bound: the styles that stop at an error no more text can mend
    Messages,       \* what is filtered: [ip, port, kind, text, direction]
    IpOf, PortOf,   \* what parse::<IpAddr> and parse::<u16> accept, and its value
    InvalidRegexes  \* patterns the regex crate refuses

Quote     == "\""
Backslash == "\\"
Space     == " "

\* What ends a word; a quote does not.
Punctuation == {Space, "(", ")", "{", "}", ",", "=", "!", "&", "|"}

\* Mutant: an exclamation mark does not end a word.
LetterOrBang(c) == c \notin Punctuation \ {"!"}

\* The characters a word goes on with.
Letter(c) == c \notin Punctuation

VARIABLES
    style,  \* the way this user types
    input,  \* the text
    typed,  \* number of lexemes in it
    meant,  \* history: the tokens the user means, Bad once the text is wrong
    tokens, \* what lex returns
    filter  \* what DisplayFilter::parse returns

vars == <<style, input, typed, meant, tokens, filter>>

-----------------------------------------------------------------------------
(* Results: Ok carries a value and where the reader stands, Err where the  *)
(* error is; Then is the operator ?, with what follows it.                 *)
Ok(value, at) == [ok |-> TRUE, value |-> value, at |-> at]
Err(at)       == [ok |-> FALSE, at |-> at]
Then(result, Go(_, _)) == IF result.ok THEN Go(result.value, result.at) ELSE result

Token(kind, value, at) == [kind |-> kind, value |-> value, at |-> at]
Plain(kind, at)        == Token(kind, << >>, at)

Escapes == [c \in {Quote, Backslash, "n", "r", "t"} |->
    CASE c = "n" -> "newline" [] c = "r" -> "return" [] c = "t" -> "tab" [] OTHER -> c]

Keywords == [c \in {"and", "AND", "or", "OR", "NOT", "contains", "matches", "in", "In"} |->
    CASE c = "AND" -> "and" [] c = "OR" -> "or" [] c = "NOT" -> "not" [] c = "In" -> "in" [] OTHER -> c]

Doubles == [p \in {<<"=", "=">>, <<"!", "=">>, <<"&", "&">>, <<"|", "|">>} |->
    CASE p = <<"=", "=">> -> "==" [] p = <<"!", "=">> -> "!="
      [] p = <<"&", "&">> -> "and" [] p = <<"|", "|">> -> "or"]

\* lex_string from position i on, of the string that starts at start.
RECURSIVE LexString(_, _, _, _, _)
LexString(s, start, i, value, raw) ==
    IF i > Len(s) THEN Err(start)
    ELSE IF s[i] = Quote THEN Ok(value, i + 1)
    ELSE IF raw \/ s[i] # Backslash THEN LexString(s, start, i + 1, Append(value, s[i]), raw)
    ELSE IF i = Len(s) THEN Err(start)
    ELSE IF s[i + 1] \in DOMAIN Escapes
    THEN LexString(s, start, i + 2, Append(value, Escapes[s[i + 1]]), raw)
    ELSE Err(i)

\* The first position from i on whose character ends a word.
WordEnd(s, i) ==
    CHOOSE j \in i..(Len(s) + 1) :
        /\ \A k \in i..(j - 1) : Letter(s[k])
        /\ j <= Len(s) => ~Letter(s[j])

Word(s, i) ==
    LET text == SubSeq(s, i, WordEnd(s, i) - 1)
    IN  IF Len(text) = 1 /\ text[1] \in DOMAIN Keywords
        THEN Plain(Keywords[text[1]], i)
        ELSE Token("word", text, i)

\* A turn of lex at a character that is no space: a token and where it ends.
LexToken(s, i) ==
    LET c    == s[i]
        pair == SubSeq(s, i, IF i < Len(s) THEN i + 1 ELSE i)
        raw  == pair = <<"r", Quote>>
    IN  IF c \in {"(", ")", "{", "}", ","} THEN Ok(Plain(c, i), i + 1)
        ELSE IF pair \in DOMAIN Doubles THEN Ok(Plain(Doubles[pair], i), i + 2)
        ELSE IF c = "!" THEN Ok(Plain("not", i), i + 1)
        ELSE IF c \in {"=", "&", "|"} THEN Err(i)
        ELSE IF c = Quote \/ raw
        THEN Then(LexString(s, i, IF raw THEN i + 2 ELSE i + 1, << >>, raw),
                  LAMBDA value, end : Ok(Token("string", value, i), end))
        ELSE Ok(Word(s, i), WordEnd(s, i))

RECURSIVE Lex(_, _, _)
Lex(s, i, found) ==
    IF i > Len(s) THEN Ok(Append(found, Plain("end", i)), i)
    ELSE IF s[i] = Space THEN Lex(s, i + 1, found)
    ELSE Then(LexToken(s, i), LAMBDA token, end : Lex(s, end, Append(found, token)))

-----------------------------------------------------------------------------
(* The parser: each function takes the tokens and the cursor, and returns  *)
(* a result and the cursor after it.                                       *)
Fields     == {"client.ip", "client.port", "message.type", "message.text", "message.direction"}
TextFields == {"message.type", "message.text"}

\* take and peek: the cursor does not move past the end.
After(t, c) == IF t[c].kind = "end" THEN c ELSE c + 1

\* expect.
Expect(t, c, kind) == IF t[c].kind = kind THEN Ok(kind, c + 1) ELSE Err(t[c].at)

\* parse_direction: in any case.
DirectionOf == [v \in {"f2b", "F2B", "F>B", "b2f", "B2F", "B>F"} |->
    IF v \in {"f2b", "F2B", "F>B"} THEN "f2b" ELSE "b2f"]

\* A word or string of one run that a table of parsed values knows.
Known(token, table) == Len(token.value) = 1 /\ token.value[1] \in DOMAIN table

\* Mutant: every quoted value is a text.
AnyQuoted(t, c, field) ==
    IF t[c].kind = "string" THEN Ok([type |-> "text", is |-> t[c].value], After(t, c)) ELSE Err(t[c].at)

\* parse_value.
ParseValue(t, c, field) ==
    LET token == t[c]
        Typed(type, is) == Ok([type |-> type, is |-> is], After(t, c))
    IN  IF field = "client.ip" /\ token.kind \in {"word", "string"} /\ Known(token, IpOf)
        THEN Typed("ip", IpOf[token.value[1]])
        ELSE IF field = "client.port" /\ token.kind = "word" /\ Known(token, PortOf)
        THEN Typed("port", PortOf[token.value[1]])
        ELSE IF field \in TextFields /\ token.kind = "string"
        THEN Typed("text", token.value)
        ELSE IF field = "message.direction" /\ token.kind = "string" /\ Known(token, DirectionOf)
        THEN Typed("direction", DirectionOf[token.value[1]])
        ELSE Err(token.at)

\* parse_set after the brace: the loop, with the values read so far.
RECURSIVE ParseValues(_, _, _, _)
ParseValues(t, c, field, values) ==
    Then(ParseValue(t, c, field), LAMBDA value, d :
        IF t[d].kind # "," THEN Then(Expect(t, d, "}"), LAMBDA k, e : Ok(Append(values, value), e))
        ELSE IF t[d + 1].kind = "}" THEN Err(t[d + 1].at)
        ELSE ParseValues(t, d + 1, field, Append(values, value)))

ParseSet(t, c, field) ==
    Then(Expect(t, c, "{"), LAMBDA k, d :
        IF t[d].kind = "}" THEN Err(t[d].at) ELSE ParseValues(t, d, field, << >>))

\* parse_string after require_text_field, and the regex that matches compiles.
ParseText(t, c, field, operator) ==
    IF field \notin TextFields THEN Err(t[c - 1].at)
    ELSE IF t[c].kind # "string" THEN Err(t[c].at)
    ELSE IF operator = "matches" /\ t[c].value \in InvalidRegexes THEN Err(t[c].at)
    ELSE Ok([type |-> "text", is |-> t[c].value], After(t, c))

\* parse_predicate.
ParsePredicate(t, c) ==
    IF ~(t[c].kind = "word" /\ Len(t[c].value) = 1 /\ t[c].value[1] \in Fields) THEN Err(t[c].at)
    ELSE LET field    == t[c].value[1]
             operator == t[c + 1].kind
             d        == After(t, c + 1)
             operand  == CASE operator \in {"==", "!="}             -> ParseValue(t, d, field)
                           [] operator \in {"contains", "matches"}  -> ParseText(t, d, field, operator)
                           [] operator = "in"                       -> ParseSet(t, d, field)
                           [] OTHER                                 -> Err(t[c + 1].at)
         IN  Then(operand, LAMBDA value, e :
                 Ok([op |-> operator, field |-> field, operand |-> value], e))

\* parse_or and parse_and: OrTail and AndTail are their loops, at is where the
\* left operand ends.
RECURSIVE ParseOr(_, _), OrTail(_, _), ParseAnd(_, _), AndTail(_, _), ParseNot(_, _)
ParseOr(t, c) == Then(ParseAnd(t, c), LAMBDA left, d : OrTail(t, Ok(left, d)))
OrTail(t, left) ==
    IF t[left.at].kind # "or" THEN left
    ELSE Then(ParseAnd(t, left.at + 1), LAMBDA right, d :
             OrTail(t, Ok([op |-> "or", left |-> left.value, right |-> right], d)))

\* Mutant: and takes everything to its right.
AndTailGreedy(t, left) ==
    IF t[left.at].kind # "and" THEN left
    ELSE Then(ParseOr(t, left.at + 1), LAMBDA right, d :
             Ok([op |-> "and", left |-> left.value, right |-> right], d))

ParseAnd(t, c) == Then(ParseNot(t, c), LAMBDA left, d : AndTail(t, Ok(left, d)))
AndTail(t, left) ==
    IF t[left.at].kind # "and" THEN left
    ELSE Then(ParseNot(t, left.at + 1), LAMBDA right, d :
             AndTail(t, Ok([op |-> "and", left |-> left.value, right |-> right], d)))

\* parse_primary: a filter in parentheses, or a predicate.
ParsePrimary(t, c) ==
    IF t[c].kind # "(" THEN ParsePredicate(t, c)
    ELSE Then(ParseOr(t, c + 1), LAMBDA inner, d :
             Then(Expect(t, d, ")"), LAMBDA k, e : Ok(inner, e)))

\* parse_not.
ParseNot(t, c) ==
    IF t[c].kind # "not" THEN ParsePrimary(t, c)
    ELSE Then(ParseNot(t, c + 1), LAMBDA inner, d : Ok([op |-> "not", inner |-> inner], d))

\* Parser::parse: all of the tokens must be used.
Parse(t) ==
    Then(ParseOr(t, 1), LAMBDA root, d : IF t[d].kind = "end" THEN Ok(root, d) ELSE Err(t[d].at))

\* DisplayFilter::parse: the text is trimmed, and an empty one has no root.
MatchAll == [op |-> "all"]
Trim(text) ==
    LET full == {i \in 1..Len(text) : text[i] # Space}
    IN  IF full = {} THEN << >> ELSE SubSeq(text, Min(full), Max(full))
ParseFilter(text) ==
    IF Trim(text) = << >> THEN Ok(MatchAll, 1)
    ELSE Then(Lex(Trim(text), 1, << >>), LAMBDA found, end : Parse(found))

-----------------------------------------------------------------------------
(* Evaluation.                                                             *)

\* The value of a field, with the type of a filter value.
FieldValue(field, m) ==
    CASE field = "client.ip"         -> [type |-> "ip", is |-> m.ip]
      [] field = "client.port"       -> [type |-> "port", is |-> m.port]
      [] field = "message.type"      -> [type |-> "text", is |-> m.kind]
      [] field = "message.text"      -> [type |-> "text", is |-> m.text]
      [] field = "message.direction" -> [type |-> "direction", is |-> m.direction]

\* Field::equals: FALSE for values of different types.
Equals(field, value, m) ==
    LET actual == FieldValue(field, m)
    IN  value.type = actual.type /\ value.is = actual.is

\* The regex crate, for the patterns used here: the letters, in either case.
RegexMatches(pattern, text) ==
    LET Fold(s) == [i \in 1..Len(s) |-> IF s[i] = "Query" THEN "query" ELSE s[i]]
    IN  \E i \in 0..Len(text) : IsPrefix(Fold(pattern), SubSeq(Fold(text), i + 1, Len(text)))

HasText(text, needle) == \E i \in 0..Len(text) : IsPrefix(needle, SubSeq(text, i + 1, Len(text)))

\* Predicate::matches and Expr::matches.
PredicateMatches(p, m) ==
    CASE p.op = "=="       -> Equals(p.field, p.operand, m)
      [] p.op = "!="       -> ~Equals(p.field, p.operand, m)
      [] p.op = "contains" -> p.field \in TextFields /\ HasText(FieldValue(p.field, m).is, p.operand.is)
      [] p.op = "matches"  -> p.field \in TextFields /\ RegexMatches(p.operand.is, FieldValue(p.field, m).is)
      [] p.op = "in"       -> \E i \in DOMAIN p.operand : Equals(p.field, p.operand[i], m)

RECURSIVE Matches(_, _)
Matches(e, m) ==
    CASE e.op = "all" -> TRUE
      [] e.op = "and" -> Matches(e.left, m) /\ Matches(e.right, m)
      [] e.op = "or"  -> Matches(e.left, m) \/ Matches(e.right, m)
      [] e.op = "not" -> ~Matches(e.inner, m)
      [] OTHER        -> PredicateMatches(e, m)

-----------------------------------------------------------------------------
Bad == <<"bad">>

Init ==
    /\ style \in DOMAIN Lexemes
    /\ input = << >> /\ typed = 0 /\ meant = << >>
    /\ tokens = Lex(<< >>, 1, << >>)
    /\ filter = ParseFilter(<< >>)

\* Two characters that need a space between them when lexemes meet.
Merge(a, b) == ({a, b} \cap Punctuation = {} /\ a # Quote) \/ (a = "!" /\ b = "=")

Separator(text) ==
    IF style \in Spaced \/ (input # << >> /\ Merge(Last(input), Head(text)))
    THEN <<Space>> ELSE << >>

Type(lexeme) ==
    /\ typed < MaxLexemes[style] /\ meant # Bad
    /\ style \in Careful => filter.ok \/ filter.at > Len(Trim(input))
    /\ input' = input \o Separator(lexeme.text) \o lexeme.text
    /\ meant' = IF lexeme.means = Bad THEN Bad ELSE meant \o lexeme.means
    /\ tokens' = Lex(Trim(input'), 1, << >>)
    /\ filter' = ParseFilter(input')
    /\ typed' = typed + 1
    /\ UNCHANGED style

Next == \E lexeme \in Lexemes[style] : Type(lexeme)

Spec == Init /\ [][Next]_vars

-----------------------------------------------------------------------------
(* The reference: the language as its grammar and its types describe it,   *)
(* on tokens t[i] to t[j], without a cursor.                               *)

\* The directions the manual page names; "String and direction comparisons are
\* case-sensitive" (man/sections.md).
Directions == [v \in {"f2b", "b2f"} |-> v]

\* value is of the type of field.
HasType(token, field) ==
    \/ field = "client.ip" /\ token.kind \in {"word", "string"} /\ token.value \in {<<v>> : v \in DOMAIN IpOf}
    \/ field = "client.port" /\ token.kind = "word" /\ token.value \in {<<v>> : v \in DOMAIN PortOf}
    \/ field \in TextFields /\ token.kind = "string"
    \/ field = "message.direction" /\ token.kind = "string" /\ token.value \in {<<v>> : v \in DOMAIN Directions}

IsPredicate(t, i, j) ==
    /\ j >= i + 2 /\ t[i].kind = "word" /\ t[i].value \in {<<f>> : f \in Fields}
    /\ LET field == t[i].value[1]
           op    == t[i + 1].kind
       IN  \/ op \in {"==", "!="} /\ j = i + 2 /\ HasType(t[j], field)
           \/ /\ op \in {"contains", "matches"} /\ j = i + 2
              /\ field \in TextFields /\ t[j].kind = "string"
              /\ op = "matches" => t[j].value \notin InvalidRegexes
           \/ /\ op = "in" /\ t[i + 2].kind = "{" /\ t[j].kind = "}"
              /\ (j - i) % 2 = 0 /\ j >= i + 4
              /\ \A k \in (i + 3)..(j - 1) :
                    IF (k - i) % 2 = 1 THEN HasType(t[k], field) ELSE t[k].kind = ","

\* f ::= f or f | f and f | not f | ( f ) | predicate
RECURSIVE IsFilter(_, _, _)
Splits(t, i, j, op) ==
    {m \in (i + 1)..(j - 1) : t[m].kind = op /\ IsFilter(t, i, m - 1) /\ IsFilter(t, m + 1, j)}
IsFilter(t, i, j) ==
    /\ i <= j
    /\ \/ IsPredicate(t, i, j)
       \/ t[i].kind = "not" /\ IsFilter(t, i + 1, j)
       \/ t[i].kind = "(" /\ t[j].kind = ")" /\ IsFilter(t, i + 1, j - 1)
       \/ Splits(t, i, j, "or") # {}
       \/ Splits(t, i, j, "and") # {}

\* What a value stands for, and the messages a predicate selects.
Denotes(token, field) ==
    CASE field = "client.ip"         -> IpOf[token.value[1]]
      [] field = "client.port"       -> PortOf[token.value[1]]
      [] field = "message.direction" -> Directions[token.value[1]]
      [] OTHER                       -> token.value

Selected(t, i, j) ==
    LET field   == t[i].value[1]
        Of(m)   == FieldValue(field, m).is
        named   == {Denotes(t[k], field) : k \in {k \in (i + 2)..j : t[k].kind \in {"word", "string"}}}
    IN  CASE t[i + 1].kind \in {"==", "in"} -> {m \in Messages : Of(m) \in named}
          [] t[i + 1].kind = "!="           -> {m \in Messages : Of(m) \notin named}
          [] t[i + 1].kind = "contains"     -> {m \in Messages : HasText(Of(m), t[j].value)}
          [] t[i + 1].kind = "matches"      -> {m \in Messages : RegexMatches(t[j].value, Of(m))}

\* The messages a filter selects: or binds weakest, then and, then not.
RECURSIVE Selects(_, _, _)
Selects(t, i, j) ==
    LET ors  == Splits(t, i, j, "or")
        ands == Splits(t, i, j, "and")
    IN  IF ors # {} THEN Selects(t, i, Min(ors) - 1) \cup Selects(t, Min(ors) + 1, j)
        ELSE IF ands # {} THEN Selects(t, i, Min(ands) - 1) \cap Selects(t, Min(ands) + 1, j)
        ELSE IF t[i].kind = "not" THEN Messages \ Selects(t, i + 1, j)
        ELSE IF t[i].kind = "(" THEN Selects(t, i + 1, j - 1)
        ELSE Selected(t, i, j)

-----------------------------------------------------------------------------
(* Properties.                                                             *)

\* The type of the values a field is compared with.
TypeOf(field) ==
    CASE field = "client.ip" -> "ip" [] field = "client.port" -> "port"
      [] field = "message.direction" -> "direction" [] OTHER -> "text"

\* A syntax tree in which values have the type of their field.
RECURSIVE WellTyped(_)
WellTyped(e) ==
    CASE e.op = "all"          -> TRUE
      [] e.op \in {"and", "or"} -> WellTyped(e.left) /\ WellTyped(e.right)
      [] e.op = "not"          -> WellTyped(e.inner)
      [] e.op \in {"==", "!="}  -> e.operand.type = TypeOf(e.field)
      [] e.op = "in"           -> e.operand # << >> /\ \A i \in DOMAIN e.operand : e.operand[i].type = TypeOf(e.field)
      [] OTHER                 -> e.field \in TextFields

\* Type invariant: an accepted filter is well typed, so that the fallbacks of
\* Field::equals and Field::text (no match, which != would turn into a match of
\* everything) are never reached; an error points into the text.
TypeOK ==
    IF filter.ok THEN WellTyped(filter.value) ELSE filter.at \in 1..(Len(Trim(input)) + 1)

\* However it is spelled (keywords in either case, symbols, raw or escaped
\* strings, with or without spaces), a text is read as the tokens it stands
\* for; a lone operator, an unterminated string or a wrong escape is refused.
LexesAsMeant ==
    IF meant = Bad THEN ~tokens.ok
    ELSE /\ tokens.ok
         /\ [i \in 1..(Len(tokens.value) - 1) |-> <<tokens.value[i].kind, tokens.value[i].value>>] = meant

\* The recursive descent accepts the texts of the grammar and no others, and
\* matches the messages its precedence says.  Of the directions this is so for
\* those in lower case, the manual page's, and for texts that name none: "F2B" is
\* accepted by parse_direction, against the manual page, and violates it when typed.
ParsesAsWritten ==
    tokens.ok /\ Len(tokens.value) > 1 =>
        LET t == tokens.value
            n == Len(t) - 1
        IN  /\ filter.ok <=> IsFilter(t, 1, n)
            /\ filter.ok => {m \in Messages : Matches(filter.value, m)} = Selects(t, 1, n)
=================================================================================
