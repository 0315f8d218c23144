------------------------------- MODULE Recording -------------------------------
(***************************************************************************)
(* From decoded records to stdout and to a session file, and back:         *)
(* deliver and close_output of src/decode.rs, run_stdout of src/main.rs,   *)
(* SessionWriter and read_with of src/session.rs.                          *)
(*                                                                         *)
(* Producers (proxy tasks, or the capture) send records into one unbounded *)
(* channel; the printer thread records and prints them; the main thread    *)
(* closes the channel when the source returns.  Ctrl-C kills the process   *)
(* at any point.  A record reaches its LineWriter in pieces: the JSON text *)
(* in JsonPieces writes, then the newline.                                 *)
(***************************************************************************)
EXTENDS Integers, Sequences, FiniteSets, SequencesExt

CONSTANTS
    Producers,      \* what sends records
    Quota,          \* bound: records per producer
    Hidden,         \* the producers whose records the display filter hides
    Saving,         \* --save was given
    JsonPieces,     \* writes per JSON text
    DiskMayFail     \* writes to the file may fail

ASSUME RecordingAssumption ==
    /\ Quota \in Nat /\ JsonPieces \in Nat \ {0}
    /\ Hidden \subseteq Producers
    /\ Saving \in BOOLEAN /\ DiskMayFail \in BOOLEAN

Newline == JsonPieces + 1

VARIABLES
    delivered,  \* history: all records sent, in the order of the channel
    taken,      \* records received by the printer: the rest is in the channel
    tx,         \* OUTPUT_TX: "open" or "closed"
    source,     \* the source function: "running", "failed" or "returned"
    printer,    \* the printer thread: "recv", "encode", "show" or "exited"
    part,       \* the piece of the current record that is written next
    recorder,   \* "none", "on", or "failed" (dropped after a write error)
    buf,        \* pieces in the LineWriter's buffer
    disk,       \* pieces in the file
    offered,    \* history: records written to stdout or stderr, as far as the printer knows
    printed,    \* history: the places in offered of those that stdout or stderr took
    result,     \* of run_stdout: "running", "ok", "error"; or "killed"
    reading,    \* the later replay of the file: "open", "ok" or "error"
    rpos,       \* pieces it has read
    replayed    \* records it has delivered

outVars  == <<delivered, tx, source, result>>
fileVars == <<recorder, buf, disk>>
outputVars == <<offered, printed>>
readVars == <<reading, rpos, replayed>>
vars == <<outVars, taken, printer, part, fileVars, outputVars, readVars>>

Running == result = "running"

\* The record the printer is working on, and piece k of it.
Current  == delivered[taken]
Piece(k) == [rec |-> Current, part |-> k]

-----------------------------------------------------------------------------
(* Producers and the main thread                                           *)

\* How many records p has sent.
SentBy(p) == Cardinality({i \in 1..Len(delivered) : delivered[i].from = p})

\* deliver: the lock is held while the record is sent; the send never blocks.
Deliver(p) ==
    /\ Running /\ source = "running" /\ tx = "open"
    /\ SentBy(p) < Quota
    /\ delivered' = Append(delivered, [from |-> p, n |-> SentBy(p) + 1])
    /\ UNCHANGED <<tx, source, result, taken, printer, part, fileVars, outputVars, readVars>>

\* source() returns; its producers have ended.
SourceReturns(how) ==
    /\ Running /\ source = "running"
    /\ source' = how
    /\ UNCHANGED <<delivered, tx, result, taken, printer, part, fileVars, outputVars, readVars>>

\* Mutant: the output is closed only after a source that succeeded.
CloseOutputIfOk ==
    /\ Running /\ source = "returned" /\ tx = "open"
    /\ tx' = "closed"
    /\ UNCHANGED <<delivered, source, result, taken, printer, part, fileVars, outputVars, readVars>>

\* close_output drops the sender.
CloseOutput ==
    /\ Running /\ source # "running" /\ tx = "open"
    /\ tx' = "closed"
    /\ UNCHANGED <<delivered, source, result, taken, printer, part, fileVars, outputVars, readVars>>

\* Mutant: the main thread returns without joining the printer.
ReturnUnjoined ==
    /\ Running /\ tx = "closed"
    /\ result' = IF source = "failed" \/ recorder = "failed" THEN "error" ELSE "ok"
    /\ UNCHANGED <<delivered, tx, source, taken, printer, part, fileVars, outputVars, readVars>>

\* The printer is joined; an error of the source or of the recorder is returned.
Return ==
    /\ Running /\ tx = "closed" /\ printer = "exited"
    /\ result' = IF source = "failed" \/ recorder = "failed" THEN "error" ELSE "ok"
    /\ UNCHANGED <<delivered, tx, source, taken, printer, part, fileVars, outputVars, readVars>>

\* Ctrl-C: the process ends; what is in the channel and in buf is gone.
Kill ==
    /\ Running
    /\ result' = "killed"
    /\ UNCHANGED <<delivered, tx, source, taken, printer, part, fileVars, outputVars, readVars>>

-----------------------------------------------------------------------------
(* The printer thread                                                      *)

\* recv returns the next record; with a recorder it is written first.
Recv ==
    /\ Running /\ printer = "recv"
    /\ taken < Len(delivered)
    /\ taken' = taken + 1
    /\ printer' = IF recorder = "on" THEN "encode" ELSE "show"
    /\ part' = 1
    /\ UNCHANGED <<outVars, fileVars, outputVars, readVars>>

\* A piece of JSON goes into the LineWriter: it fits, or the buffer is written
\* out to make room, or it is too large for the buffer and follows it.
WriteJson ==
    /\ Running /\ printer = "encode" /\ part < Newline
    /\ \/ buf' = Append(buf, Piece(part)) /\ UNCHANGED disk
       \/ buf' = <<Piece(part)>> /\ disk' = disk \o buf
       \/ buf' = << >> /\ disk' = Append(disk \o buf, Piece(part))
    /\ part' = part + 1
    /\ UNCHANGED <<outVars, taken, printer, recorder, outputVars, readVars>>

\* Mutant: a plain buffered writer, which does not flush at the newline.
WriteNewlineBuffered ==
    /\ Running /\ printer = "encode" /\ part = Newline
    /\ buf' = Append(buf, Piece(part))
    /\ printer' = "show"
    /\ UNCHANGED <<outVars, taken, part, recorder, disk, outputVars, readVars>>

\* The newline completes the line: the LineWriter flushes it.
WriteNewline ==
    /\ Running /\ printer = "encode" /\ part = Newline
    /\ disk' = Append(disk \o buf, Piece(part))
    /\ buf' = << >>
    /\ printer' = "show"
    /\ UNCHANGED <<outVars, taken, part, recorder, outputVars, readVars>>

\* Mutant: the recorder is kept after an error.
WriteFailsKept ==
    /\ Running /\ DiskMayFail /\ printer = "encode"
    /\ \E k \in 0..Len(buf) : disk' = disk \o SubSeq(buf, 1, k)
    /\ buf' = << >>
    /\ printer' = "show"
    /\ UNCHANGED <<outVars, taken, part, recorder, outputVars, readVars>>

\* A write fails: the recorder is dropped, and its drop flushes once more.  Any
\* beginning of what was buffered (the newline too, if it was the newline that
\* failed) may have reached the file.
WriteFails ==
    LET held == IF part = Newline THEN Append(buf, Piece(part)) ELSE buf
    IN  /\ Running /\ DiskMayFail /\ printer = "encode"
        /\ \E k \in 0..Len(held) : disk' = disk \o SubSeq(held, 1, k)
        /\ buf' = << >>
        /\ recorder' = "failed"
        /\ printer' = "show"
        /\ UNCHANGED <<outVars, taken, part, outputVars, readVars>>

\* stdout is written or flushed, and the result is ignored: of the first n records
\* it was offered it takes all, or loses some (a closed pipe, a full disk), or
\* keeps some in its line buffer for later, never passing one that it took.
Prints(n) ==
    \E late \in SUBSET {i \in 1..n : \A j \in printed : j < i} :
        printed' = printed \cup late

\* Unless the display filter hides it, the record is written to stdout or stderr.
Show ==
    /\ Running /\ printer = "show"
    /\ IF Current.from \in Hidden
          THEN UNCHANGED outputVars
          ELSE offered' = Append(offered, Current) /\ Prints(Len(offered) + 1)
    /\ printer' = "recv"
    /\ UNCHANGED <<outVars, taken, part, fileVars, readVars>>

\* recv reports the closed and empty channel: flush the recorder, then stdout and
\* stderr, and return.
PrinterExits ==
    /\ Running /\ printer = "recv"
    /\ taken = Len(delivered) /\ tx = "closed"
    /\ disk' = disk \o buf
    /\ buf' = << >>
    /\ Prints(Len(offered)) /\ UNCHANGED offered
    /\ printer' = "exited"
    /\ UNCHANGED <<outVars, taken, part, recorder, readVars>>

-----------------------------------------------------------------------------
(* read_with, of the file the process left                                 *)

Unread == SubSeq(disk, rpos + 1, Len(disk))

\* The length of the next line, its newline included if there is one.
LineLen ==
    CHOOSE e \in 1..Len(Unread) :
        /\ \A i \in 1..(e - 1) : Unread[i].part # Newline
        /\ Unread[e].part = Newline \/ e = Len(Unread)

\* BufRead::lines: a line without the newline that ends it, if any.
Text(line) ==
    IF line[Len(line)].part = Newline THEN SubSeq(line, 1, Len(line) - 1) ELSE line

\* The line is the JSON text of one record.
Valid(line) ==
    LET text == Text(line)
    IN  /\ Len(text) = JsonPieces
        /\ \A i \in 1..Len(text) : text[i] = [rec |-> text[1].rec, part |-> i]

\* A valid line is handed to the consumer.
ReadRecord ==
    /\ ~Running /\ Saving /\ reading = "open" /\ Unread # << >>
    /\ Valid(SubSeq(Unread, 1, LineLen))
    /\ replayed' = Append(replayed, Unread[1].rec)
    /\ rpos' = rpos + LineLen
    /\ UNCHANGED <<outVars, taken, printer, part, fileVars, outputVars, reading>>

\* An invalid one ends the replay with an error.
ReadInvalid ==
    /\ ~Running /\ Saving /\ reading = "open" /\ Unread # << >>
    /\ ~Valid(SubSeq(Unread, 1, LineLen))
    /\ reading' = "error"
    /\ UNCHANGED <<outVars, taken, printer, part, fileVars, outputVars, rpos, replayed>>

\* The end of the file.
ReadEnd ==
    /\ ~Running /\ Saving /\ reading = "open" /\ Unread = << >>
    /\ reading' = "ok"
    /\ UNCHANGED <<outVars, taken, printer, part, fileVars, outputVars, rpos, replayed>>

-----------------------------------------------------------------------------
Init ==
    /\ delivered = << >>
    /\ taken = 0
    /\ tx = "open"
    /\ source = "running"
    /\ printer = "recv"
    /\ part = 1
    /\ recorder = IF Saving THEN "on" ELSE "none"
    /\ buf = << >>
    /\ disk = << >>
    /\ offered = << >>
    /\ printed = {}
    /\ result = "running"
    /\ reading = "open"
    /\ rpos = 0
    /\ replayed = << >>

Printing == Recv \/ WriteJson \/ WriteNewline \/ WriteFails \/ Show \/ PrinterExits

Next ==
    \/ \E p \in Producers : Deliver(p)
    \/ \E how \in {"returned", "failed"} : SourceReturns(how)
    \/ CloseOutput \/ Return \/ Kill
    \/ Printing
    \/ ReadRecord \/ ReadInvalid \/ ReadEnd

Spec == Init /\ [][Next]_vars

\* The printer and the main thread keep running until they are done.
FairSpec == Spec /\ WF_vars(Printing) /\ WF_vars(CloseOutput) /\ WF_vars(Return)

-----------------------------------------------------------------------------
(* Properties.                                                             *)

\* Record r is in the file, to its newline.
OnDisk(r) == \E i \in 1..Len(disk) : disk[i] = [rec |-> r, part |-> Newline]

\* "Flush on every completed JSONL line .. prevents the final buffered events
\* from disappearing when a long-running CLI capture is stopped with Ctrl-C"
\* (SessionWriter::create): as long as recording works, whatever stdout or stderr
\* took is in the file, also after a kill.
PrintedIsSaved ==
    recorder = "on" =>
        \A i \in printed : i \in 1..Len(offered) /\ OnDisk(offered[i])

\* Of the first n records delivered, those that are not hidden, and no others,
\* are offered to stdout and stderr, each once and in the order of the channel.
ShownUpTo(n) ==
    \E at \in [1..Len(offered) -> 1..n] :
        /\ \A i, j \in 1..Len(offered) : i < j => at[i] < at[j]
        /\ \A i \in 1..Len(offered) : offered[i] = delivered[at[i]]
        /\ \A k \in 1..n :
              delivered[k].from \notin Hidden <=> \E i \in 1..Len(offered) : at[i] = k

\* "Close the channel and join the consumer so nothing is left unflushed"
\* (run_stdout): success means that every record delivered was saved and, unless
\* hidden, was offered to stdout or stderr once and in order.  It does not mean
\* that it was printed: the results of those writes and of the last flush are
\* ignored, and `printed` may lack any of them.
OkIsComplete ==
    result = "ok" =>
        /\ ShownUpTo(Len(delivered))
        /\ Saving => \A i \in 1..Len(delivered) : OnDisk(delivered[i])

\* What a replay delivers is a beginning of what the session delivered, in its
\* order, hidden records included; after a successful session it is all of it.
\* After any other, the file is damaged in its last line only: a record that
\* could not be written ends the recording.
ReplayRestores ==
    /\ IsPrefix(replayed, delivered)
    /\ result = "ok" => reading # "error"
    /\ result = "ok" /\ reading = "ok" => replayed = delivered
    /\ reading = "error" => rpos + LineLen = Len(disk)

\* run_stdout returns once the source did, unless it is killed, however many
\* records are queued and whether or not recording failed.
SourceEndsRun == source # "running" ~> result # "running"
===============================================================================
