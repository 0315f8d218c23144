\* Three single lexemes; four of any spelling; sets and filters of up to seven.
CONSTANTS
    Lexemes <- LexemesUsed
    MaxLexemes <- BoundUsed
    Spaced = {"filters", "sets"}
    Careful = {"boolean", "sets"}
    Messages <- Seen
    IpOf <- Ips
    PortOf <- Ports
    InvalidRegexes <- Unparsable
SPECIFICATION Spec
CHECK_DEADLOCK FALSE
INVARIANTS TypeOK LexesAsMeant ParsesAsWritten
