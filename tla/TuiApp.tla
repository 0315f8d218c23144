--------------------------------- MODULE TuiApp ---------------------------------
(***************************************************************************)
(* The terminal interface, src/tui.rs: App with its history, display       *)
(* filter, scrolling, recorder and commands; app_loop; handle_key.         *)
(*                                                                         *)
(* The source thread sends records at any time.  The main thread loops:    *)
(* it drains the channel, draws a frame, then handles the keys that are    *)
(* ready.  A record is the source it came from, its place there and its    *)
(* kind; "status" records stand for Line and Status, which no filter       *)
(* hides.  Positions count from 1, scroll is an offset as in the code.     *)
(***************************************************************************)
EXTENDS Integers, Sequences, FiniteSets, SequencesExt

CONSTANTS
    HISTORY_CAP,        \* records kept between frames
    HISTORY_TRIM_CHUNK, \* records over the cap that force a trim
    Tall,               \* rows of a record of each kind when wrapped or rich
    MaxScroll,          \* bound on scroll
    Files,              \* names of session files
    OnDisk,             \* their contents at the start
    Setups,             \* how the TUI is started and used, see below
    RecordMayFail,      \* a write of a record may fail
    SaveMayFail         \* a write of :save may fail

(* A setup: replay and save are the arguments of --replay and --save, or   *)
(* "none"; filter and rich those of --display-filter and --tui-rich; kinds *)
(* are the kinds of records the source sends and records bounds their      *)
(* number; heights those of the message view as the terminal is resized;   *)
(* keys the groups of keys the user presses.                               *)
Damage == [from |-> "none", n |-> 0, kind |-> "damage"]  \* no record can be read here

\* Records, and what stands in a session file.
Kinds   == {"status", "query", "row"}
Origins == {"live", "replay", "earlier"}
Records == [from : Origins, n : Nat, kind : Kinds]
Entries == Records \cup {Damage}

ASSUME HistoryAssumption ==
    /\ HISTORY_CAP \in Nat \ {0} /\ HISTORY_TRIM_CHUNK \in Nat \ {0}
    /\ MaxScroll \in Nat
    /\ Tall \in [Kinds -> Nat \ {0}]

ASSUME SetupAssumption ==
    /\ "none" \notin Files
    /\ OnDisk \in [Files -> Seq(Entries)]
    /\ \A u \in Setups :
        /\ u.heights \subseteq Nat \ {0} /\ u.kinds \subseteq Kinds
        /\ u.filter \in {"", "query", "row"} /\ u.rich \in BOOLEAN
        /\ {u.replay, u.save} \subseteq Files \cup {"none"}
        /\ u.save # "none" => u.save # u.replay     \* ensure_distinct_files

VARIABLES
    produced,           \* history: all records sent by the source
    setup,              \* how the TUI was started, one of Setups
    outputs,            \* what the replay source has read of its file
    loaded,             \* whether it has read it
    taken,              \* records received: the rest is in the channel
    conns_opened,       \* the metrics have counted a connection
    events, visible, scroll, follow, wrap, rich,
    filter, filter_text, filter_error, filter_editing,
    command_editing, show_splash, accept_source_records, dropped_events,
    recorder,           \* the file being recorded and the writer's offset
    files,              \* contents of the session files
    clobbered,          \* history: a :save failed onto the file being recorded
    opened,             \* history: the file that :open replaced the view with
    cleared,            \* history: events removed by the clear key
    log_h,              \* height of the message view in the last frame
    screen,             \* the part [start, end) of visible drawn last
    phase               \* "drain", "keys", "quit" or "panicked"

srcVars    == <<produced, setup, outputs, loaded, taken, conns_opened>>
viewVars   == <<events, visible, scroll>>
modeVars   == <<follow, wrap, rich>>
filterVars == <<filter, filter_text, filter_error, filter_editing>>
sessVars   == <<accept_source_records, recorder, files, clobbered, opened>>
loopVars   == <<log_h, screen, phase>>
vars == <<srcVars, viewVars, modeVars, filterVars, command_editing, show_splash,
          dropped_events, cleared, sessVars, loopVars>>

NoRecorder == [path |-> "none", off |-> 0]
Recording  == recorder.path # "none"

Smaller(a, b) == IF a <= b THEN a ELSE b
Larger(a, b)  == IF a >= b THEN a ELSE b

-----------------------------------------------------------------------------
(* The display filter: an expression is parsed into a filter or refused.   *)

Texts == {"", "query", "row", "malformed"}

Parse(text) == IF text = "" THEN "all" ELSE text

\* Output::matches_filter.
Matches(r, f) == r.kind = "status" \/ f = "all" \/ f = r.kind

\* rebuild_visible: the positions of the events that match f, in order; the
\* k-th is the one up to which there are k.
VisibleOf(evs, f) ==
    LET m == {i \in 1..Len(evs) : Matches(evs[i], f)}
    IN  [k \in 1..Cardinality(m) |-> CHOOSE i \in m : Cardinality({j \in m : j <= i}) = k]

-----------------------------------------------------------------------------
(* History                                                                 *)

History(evs, vis, scr, n) ==
    [events |-> evs, visible |-> vis, scroll |-> scr, dropped |-> n]

\* Mutant: the front is drained and visible keeps its positions.
TrimHistoryStale(evs, vis, scr) ==
    LET n == Larger(0, Len(evs) - HISTORY_CAP)
    IN  IF n = 0 THEN History(evs, vis, scr, 0)
        ELSE History(SubSeq(evs, n + 1, Len(evs)), vis, 0, n)

\* Mutant: the dropped events are not counted.
TrimHistoryUncounted(evs, vis, scr) ==
    LET n    == Larger(0, Len(evs) - HISTORY_CAP)
        kept == SubSeq(evs, n + 1, Len(evs))
    IN  IF n = 0 THEN History(evs, vis, scr, 0)
        ELSE History(kept, VisibleOf(kept, filter), 0, 0)

\* trim_history: drop the oldest events over the cap; visible is rebuilt.
TrimHistory(evs, vis, scr) ==
    LET n    == Larger(0, Len(evs) - HISTORY_CAP)
        kept == SubSeq(evs, n + 1, Len(evs))
    IN  IF n = 0 THEN History(evs, vis, scr, 0)
        ELSE History(kept, VisibleOf(kept, filter), 0, n)

\* Record r is written at the writer's own offset of a file that may have been
\* truncated since: a gap is filled with zeros.
WriteAt(content, off, r) ==
    [i \in 1..Larger(Len(content), off + 1) |->
        CASE i = off + 1 -> r
          [] i # off + 1 /\ i <= Len(content) -> content[i]
          [] OTHER -> Damage]

\* Recording comes before filter and trim.  A failed write ends the recording
\* and may leave part of the line, or all of it, in the file.
RecordOutput(r) ==
    LET p   == recorder.path
        put == [files EXCEPT ![p] = WriteAt(@, recorder.off, r)]
    IN  \/ ~Recording /\ UNCHANGED <<recorder, files>>
        \/ /\ Recording
           /\ files' = put
           /\ recorder' = [recorder EXCEPT !.off = @ + 1]
        \/ /\ Recording /\ RecordMayFail
           /\ \/ UNCHANGED files
              \/ files' = put
              \/ files' = [files EXCEPT ![p] = WriteAt(@, recorder.off, Damage)]
           /\ recorder' = NoRecorder

SetHistory(h) ==
    /\ events' = h.events
    /\ visible' = h.visible
    /\ dropped_events' = dropped_events + h.dropped

\* Mutant: only what the filter shows is recorded.
PushOutputFiltered(r) ==
    LET evs == Append(events, r)
        vis == IF Matches(r, filter) THEN Append(visible, Len(evs)) ELSE visible
        h   == IF Len(evs) >= HISTORY_CAP + HISTORY_TRIM_CHUNK
               THEN TrimHistory(evs, vis, scroll)
               ELSE History(evs, vis, scroll, 0)
    IN  /\ IF Matches(r, filter) THEN RecordOutput(r) ELSE UNCHANGED <<recorder, files>>
        /\ SetHistory(h)
        /\ scroll' = h.scroll

\* Mutant: visible is rebuilt, and scroll reset, for every record.
PushOutputRebuilt(r) ==
    LET evs == Append(events, r)
        vis == VisibleOf(evs, filter)
        h   == IF Len(evs) >= HISTORY_CAP + HISTORY_TRIM_CHUNK
               THEN TrimHistory(evs, vis, 0)
               ELSE History(evs, vis, 0, 0)
    IN  /\ RecordOutput(r)
        /\ SetHistory(h)
        /\ scroll' = 0

\* Mutant: the history is trimmed by the frames only.
PushOutputUntrimmed(r) ==
    LET evs == Append(events, r)
        vis == IF Matches(r, filter) THEN Append(visible, Len(evs)) ELSE visible
    IN  /\ RecordOutput(r)
        /\ SetHistory(History(evs, vis, scroll, 0))
        /\ scroll' = scroll

\* push_output: record, retain, and trim when far over the cap.
PushOutput(r) ==
    LET evs == Append(events, r)
        vis == IF Matches(r, filter) THEN Append(visible, Len(evs)) ELSE visible
        h   == IF Len(evs) >= HISTORY_CAP + HISTORY_TRIM_CHUNK
               THEN TrimHistory(evs, vis, scroll)
               ELSE History(evs, vis, scroll, 0)
    IN  /\ RecordOutput(r)
        /\ SetHistory(h)
        /\ scroll' = h.scroll

-----------------------------------------------------------------------------
(* Session files                                                           *)

Readable(content) == \A i \in 1..Len(content) : content[i] # Damage

\* read_tail: the newest HISTORY_CAP records, and how many came before them.
TailDropped(content) == Larger(0, Len(content) - HISTORY_CAP)
ReadTail(content) == SubSeq(content, TailDropped(content) + 1, Len(content))

\* What run_replay makes of a file: a notice, if there is need, and the tail.
ReplayOutputs(content) ==
    LET notice == <<[from |-> "replay", n |-> 0, kind |-> "status"]>>
    IN  IF ~Readable(content) THEN notice
        ELSE (IF TailDropped(content) > 0 THEN notice ELSE << >>) \o ReadTail(content)

-----------------------------------------------------------------------------
(* The source thread                                                       *)

\* A live source sends a record of any kind.
SendLive(kind) ==
    /\ phase \in {"drain", "keys"}
    /\ setup.replay = "none" /\ Len(produced) < setup.records
    /\ produced' = Append(produced, [from |-> "live", n |-> Len(produced) + 1, kind |-> kind])
    /\ UNCHANGED <<setup, outputs, loaded, taken, conns_opened, viewVars, modeVars, filterVars, command_editing,
                   show_splash, dropped_events, cleared, sessVars, loopVars>>

\* The replay source reads its file to the end before it sends anything.
LoadReplay ==
    /\ phase \in {"drain", "keys"}
    /\ setup.replay # "none" /\ ~loaded
    /\ outputs' = ReplayOutputs(files[setup.replay])
    /\ loaded' = TRUE
    /\ UNCHANGED <<produced, setup, taken, conns_opened, viewVars, modeVars, filterVars,
                   command_editing, show_splash, dropped_events, cleared, sessVars, loopVars>>

\* It sends its next record.
SendReplayed ==
    /\ phase \in {"drain", "keys"}
    /\ Len(produced) < Len(outputs)
    /\ produced' = Append(produced, outputs[Len(produced) + 1])
    /\ UNCHANGED <<setup, outputs, loaded, taken, conns_opened, viewVars, modeVars, filterVars,
                   command_editing, show_splash, dropped_events, cleared, sessVars, loopVars>>

\* open_connection is called by a live source.
ConnectionOpens ==
    /\ phase \in {"drain", "keys"}
    /\ setup.replay = "none" /\ ~conns_opened
    /\ conns_opened' = TRUE
    /\ UNCHANGED <<produced, setup, outputs, loaded, taken, viewVars, modeVars, filterVars, command_editing,
                   show_splash, dropped_events, cleared, sessVars, loopVars>>

-----------------------------------------------------------------------------
(* app_loop                                                                *)

\* Mutant: after :open the channel is left alone.
DrainOneIfAccepted ==
    /\ phase = "drain" /\ taken < Len(produced) /\ accept_source_records
    /\ taken' = taken + 1
    /\ PushOutput(produced[taken + 1])
    /\ UNCHANGED <<produced, setup, outputs, loaded, conns_opened, modeVars, filterVars, command_editing, show_splash,
                   cleared, accept_source_records, clobbered, opened, loopVars>>

\* Mutant: every record received is pushed.
DrainOneAlways ==
    /\ phase = "drain" /\ taken < Len(produced)
    /\ taken' = taken + 1
    /\ PushOutput(produced[taken + 1])
    /\ UNCHANGED <<produced, setup, outputs, loaded, conns_opened, modeVars, filterVars, command_editing, show_splash,
                   cleared, accept_source_records, clobbered, opened, loopVars>>

\* One turn of the drain loop; after :open a record is received and discarded.
DrainOne ==
    /\ phase = "drain" /\ taken < Len(produced)
    /\ taken' = taken + 1
    /\ \/ accept_source_records /\ PushOutput(produced[taken + 1])
       \/ ~accept_source_records /\ UNCHANGED <<viewVars, dropped_events, recorder, files>>
    /\ UNCHANGED <<produced, setup, outputs, loaded, conns_opened, modeVars, filterVars, command_editing, show_splash,
                   cleared, accept_source_records, clobbered, opened, loopVars>>

MultiRow == wrap \/ rich

\* event_height.
Height(r) == IF MultiRow THEN Tall[r.kind] ELSE 1

\* The loop of view_window: how many of the items, taken in order, fill h rows.
\* The first one is taken even if it is taller.
Fill(items, h) ==
    LET Take(acc, r) ==
            IF acc.full \/ (acc.rows # 0 /\ acc.rows + Height(r) > h)
            THEN [acc EXCEPT !.full = TRUE]
            ELSE [rows |-> acc.rows + Height(r), count |-> acc.count + 1,
                  full |-> acc.rows + Height(r) >= h]
    IN  FoldLeft(Take, [rows |-> 0, count |-> 0, full |-> FALSE], items).count

\* The slice of visible that draw shows.
Window(evs, vis, scr, h) ==
    LET n     == Len(vis)
        items == [i \in 1..n |-> evs[vis[i]]]
    IN  IF ~MultiRow THEN [start |-> scr, end |-> Smaller(scr + h, n)]
        ELSE IF n = 0 THEN [start |-> 0, end |-> 0]
        ELSE IF follow THEN [start |-> n - Fill(Reverse(items), h), end |-> n]
        ELSE [start |-> scr, end |-> scr + Fill(SubSeq(items, scr + 1, n), h)]

\* How far one can scroll n visible events.
MaxScrollOf(n, h) == IF MultiRow THEN Larger(0, n - 1) ELSE Larger(0, n - h)

\* Mutant: the scroll offset is not limited to what is there.
FrameUnclamped(h) ==
    LET t   == TrimHistory(events, visible, scroll)
        max == MaxScrollOf(Len(t.visible), h)
        scr == IF follow THEN max ELSE t.scroll
        ok  == scr <= Len(t.visible) /\ \A i \in 1..Len(t.visible) : t.visible[i] <= Len(t.events)
        splash == show_splash /\ ~conns_opened
    IN  /\ phase = "drain" /\ taken = Len(produced)
        /\ show_splash' = splash
        /\ SetHistory(t)
        /\ scroll' = scr
        /\ log_h' = h
        /\ screen' = IF ok /\ ~splash THEN Window(t.events, t.visible, scr, h)
                     ELSE [start |-> 0, end |-> 0]
        /\ phase' = IF ok \/ splash THEN "keys" ELSE "panicked"
        /\ UNCHANGED <<srcVars, modeVars, filterVars, command_editing, cleared, sessVars>>

\* The channel is empty: leave the splash, trim, place the view and draw it.
\* Slicing visible, or looking up an event, out of bounds would panic.
Frame(h) ==
    LET t   == TrimHistory(events, visible, scroll)
        max == MaxScrollOf(Len(t.visible), h)
        scr == IF follow THEN max ELSE Smaller(t.scroll, max)
        ok  == scr <= Len(t.visible) /\ \A i \in 1..Len(t.visible) : t.visible[i] <= Len(t.events)
        splash == show_splash /\ ~conns_opened
    IN  /\ phase = "drain" /\ taken = Len(produced)
        /\ show_splash' = splash
        /\ SetHistory(t)
        /\ scroll' = scr
        /\ log_h' = h
        /\ screen' = IF ok /\ ~splash THEN Window(t.events, t.visible, scr, h)
                     ELSE [start |-> 0, end |-> 0]
        /\ phase' = IF ok \/ splash THEN "keys" ELSE "panicked"
        /\ UNCHANGED <<srcVars, modeVars, filterVars, command_editing, cleared, sessVars>>

\* No key is ready, or none any more.
PollEnds ==
    /\ phase = "keys"
    /\ phase' = "drain"
    /\ UNCHANGED <<srcVars, viewVars, modeVars, filterVars, command_editing, show_splash,
                   dropped_events, cleared, sessVars, log_h, screen>>

-----------------------------------------------------------------------------
(* handle_key                                                              *)

\* Ctrl-C anywhere, or q where it is not typed into an editor.
Quit ==
    /\ phase = "keys" /\ "quit" \in setup.keys
    /\ phase' = "quit"
    /\ UNCHANGED <<srcVars, viewVars, modeVars, filterVars, command_editing, show_splash,
                   dropped_events, cleared, sessVars, log_h, screen>>

\* Keys of the main view.
Viewing ==
    phase = "keys" /\ ~command_editing /\ ~show_splash /\ ~filter_editing

\* j, k, PageDown, PageUp, g: move and stop following.
ScrollTo(s) ==
    /\ Viewing /\ "scroll" \in setup.keys
    /\ s <= MaxScroll
    /\ follow' = FALSE
    /\ scroll' = s
    /\ UNCHANGED <<srcVars, events, visible, wrap, rich, filterVars, command_editing,
                   show_splash, dropped_events, cleared, sessVars, loopVars>>

ScrollKey ==
    \E s \in {scroll + 1, Larger(0, scroll - 1), scroll + log_h,
              Larger(0, scroll - log_h), 0} : ScrollTo(s)

\* G follows, f toggles following, w and r toggle the display.
ModeKey ==
    /\ Viewing /\ "mode" \in setup.keys
    /\ \/ follow' = TRUE /\ UNCHANGED <<wrap, rich>>
       \/ follow' = ~follow /\ UNCHANGED <<wrap, rich>>
       \/ wrap' = ~wrap /\ UNCHANGED <<follow, rich>>
       \/ rich' = ~rich /\ UNCHANGED <<follow, wrap>>
    /\ UNCHANGED <<srcVars, viewVars, filterVars, command_editing, show_splash,
                   dropped_events, cleared, sessVars, loopVars>>

\* c: empty the history; the offset stays as it is until the next frame.
ClearKey ==
    /\ Viewing /\ "clear" \in setup.keys
    /\ events' = << >>
    /\ visible' = << >>
    /\ cleared' = cleared + Len(events)
    /\ UNCHANGED <<srcVars, scroll, modeVars, filterVars, command_editing, show_splash,
                   dropped_events, sessVars, loopVars>>

\* y.
EditFilter ==
    /\ Viewing /\ "filter" \in setup.keys
    /\ filter_editing' = TRUE
    /\ UNCHANGED <<srcVars, viewVars, modeVars, filter, filter_text, filter_error,
                   command_editing, show_splash, dropped_events, cleared, sessVars, loopVars>>

\* update_filter: a text that does not parse leaves the last filter in force.
UpdateFilter(text) ==
    /\ filter_text' = text
    /\ \/ /\ text = "malformed"
          /\ filter_error' = TRUE
          /\ UNCHANGED <<filter, visible, scroll>>
       \/ /\ text # "malformed"
          /\ filter_error' = FALSE
          /\ filter' = Parse(text)
          /\ visible' = VisibleOf(events, Parse(text))
          /\ scroll' = 0

\* A character is typed or removed.
TypeFilter(text) ==
    /\ phase = "keys" /\ ~command_editing /\ ~show_splash /\ filter_editing
    /\ text # filter_text
    /\ UpdateFilter(text)
    /\ UNCHANGED <<srcVars, events, modeVars, filter_editing, command_editing, show_splash,
                   dropped_events, cleared, sessVars, loopVars>>

\* Enter ends editing, unless there is an error.
EnterFilter ==
    /\ phase = "keys" /\ ~command_editing /\ ~show_splash /\ filter_editing
    /\ ~filter_error
    /\ filter_editing' = FALSE
    /\ UNCHANGED <<srcVars, viewVars, modeVars, filter, filter_text, filter_error,
                   command_editing, show_splash, dropped_events, cleared, sessVars, loopVars>>

\* Esc clears the filter, while editing it or, when there is one, in the view.
ClearFilter ==
    /\ phase = "keys" /\ ~command_editing /\ ~show_splash /\ "filter" \in setup.keys
    /\ filter_editing \/ filter # "all"
    /\ filter_text' = ""
    /\ filter' = "all"
    /\ filter_error' = FALSE
    /\ filter_editing' = FALSE
    /\ visible' = VisibleOf(events, "all")
    /\ scroll' = 0
    /\ UNCHANGED <<srcVars, events, modeVars, command_editing, show_splash,
                   dropped_events, cleared, sessVars, loopVars>>

\* / or :, in the view and on the splash.
OpenCommandBar ==
    /\ phase = "keys" /\ "command" \in setup.keys
    /\ ~command_editing /\ (show_splash \/ ~filter_editing)
    /\ command_editing' = TRUE
    /\ UNCHANGED <<srcVars, viewVars, modeVars, filterVars, show_splash,
                   dropped_events, cleared, sessVars, loopVars>>

\* Esc; or Enter on a command that is unknown or incomplete, on a file that
\* cannot be created (:save) or not be read to its end (:open).
LeaveCommandBar ==
    /\ phase = "keys" /\ command_editing
    /\ command_editing' = FALSE
    /\ UNCHANGED <<srcVars, viewVars, modeVars, filterVars, show_splash,
                   dropped_events, cleared, sessVars, loopVars>>

\* :save p.  The file is truncated, the retained events are written, and the
\* new writer replaces the recorder.
StartRecording(p) ==
    /\ phase = "keys" /\ command_editing
    /\ files' = [files EXCEPT ![p] = events]
    /\ recorder' = [path |-> p, off |-> Len(events)]
    /\ clobbered' = FALSE
    /\ command_editing' = FALSE
    /\ UNCHANGED <<srcVars, viewVars, modeVars, filterVars, show_splash, dropped_events,
                   cleared, accept_source_records, opened, loopVars>>

\* :save p fails at one of the events: the earlier recorder stays.
StartRecordingFails(p) ==
    /\ phase = "keys" /\ command_editing
    /\ SaveMayFail
    /\ \E k \in 0..(Len(events) - 1) :
          \/ files' = [files EXCEPT ![p] = SubSeq(events, 1, k)]
          \/ files' = [files EXCEPT ![p] = Append(SubSeq(events, 1, k), Damage)]
    /\ clobbered' = (clobbered \/ p = recorder.path)
    /\ command_editing' = FALSE
    /\ UNCHANGED <<srcVars, viewVars, modeVars, filterVars, show_splash, dropped_events,
                   cleared, accept_source_records, recorder, opened, loopVars>>

\* :open p.  The file is read to its end before anything is replaced; the
\* recorder is closed, the metrics are new, the source is cut off for good.
OpenSession(p) ==
    /\ phase = "keys" /\ command_editing
    /\ Readable(files[p])
    /\ events' = ReadTail(files[p])
    /\ visible' = VisibleOf(ReadTail(files[p]), filter)
    /\ dropped_events' = TailDropped(files[p])
    /\ scroll' = 0
    /\ follow' = TRUE
    /\ recorder' = NoRecorder
    /\ clobbered' = FALSE
    /\ show_splash' = FALSE
    /\ accept_source_records' = FALSE
    /\ conns_opened' = FALSE
    /\ opened' = files[p]
    /\ cleared' = 0
    /\ command_editing' = FALSE
    /\ UNCHANGED <<produced, setup, outputs, loaded, taken, wrap, rich, filterVars, files, loopVars>>

-----------------------------------------------------------------------------
\* run and App::new.
Init ==
    /\ produced = << >> /\ taken = 0
    /\ setup \in Setups
    /\ outputs = << >> /\ loaded = FALSE
    /\ conns_opened = FALSE
    /\ events = << >> /\ visible = << >> /\ scroll = 0
    /\ follow = TRUE /\ wrap = FALSE
    /\ rich = setup.rich
    /\ filter_text = setup.filter
    /\ filter = Parse(filter_text)
    /\ filter_error = FALSE /\ filter_editing = FALSE
    /\ command_editing = FALSE
    /\ show_splash = (setup.replay = "none")
    /\ accept_source_records = TRUE
    /\ dropped_events = 0
    /\ recorder = [path |-> setup.save, off |-> 0]
    /\ files = [p \in Files |-> IF p = setup.save THEN << >> ELSE OnDisk[p]]
    /\ clobbered = FALSE /\ opened = << >> /\ cleared = 0
    /\ log_h = 1
    /\ screen = [start |-> 0, end |-> 0]
    /\ phase = "drain"

Frames == \E h \in setup.heights : Frame(h)

FilterKey == EditFilter \/ (\E t \in Texts : TypeFilter(t)) \/ EnterFilter \/ ClearFilter

CommandKey ==
    \/ OpenCommandBar \/ LeaveCommandBar
    \/ \E p \in Files : StartRecording(p) \/ StartRecordingFails(p) \/ OpenSession(p)

Next ==
    \/ \E k \in setup.kinds : SendLive(k)
    \/ LoadReplay \/ SendReplayed \/ ConnectionOpens
    \/ DrainOne \/ Frames \/ PollEnds
    \/ Quit \/ ScrollKey \/ ModeKey \/ ClearKey \/ FilterKey \/ CommandKey

Spec == Init /\ [][Next]_vars

\* The main thread keeps looping, and keys do not come without pause.
FairSpec == Spec /\ WF_vars(DrainOne) /\ WF_vars(Frames) /\ WF_vars(PollEnds)

-----------------------------------------------------------------------------
(* Properties.                                                             *)

\* Type invariant.  HISTORY_TRIM_CHUNK: "a producer cannot grow the TUI buffer
\* without bound" while the channel is drained; between frames the cap holds.
TypeOK ==
    /\ taken \in 0..Len(produced)
    /\ Len(events) < HISTORY_CAP + HISTORY_TRIM_CHUNK
    /\ phase = "keys" => Len(events) <= HISTORY_CAP
    /\ scroll \in 0..Larger(MaxScroll, HISTORY_CAP)
    /\ filter \in {"all", "query", "row"} /\ filter_text \in Texts
    /\ recorder.path \in Files \cup {"none"}
    /\ phase \in {"drain", "keys", "quit", "panicked"}
    /\ {follow, wrap, rich, filter_error, filter_editing, command_editing, show_splash,
        accept_source_records, conns_opened} \subseteq BOOLEAN

\* "Indices into `events` that match the current display filter" (App): through
\* every push, trim, clear, filter edit and :open.
VisibleIsFiltered == visible = VisibleOf(events, filter)

\* The rows of some records.
Total(s) == FoldLeft(+, 0, s)

\* "The viewport is filled with whole items" (view_window): what is drawn fits,
\* unless it is one item that is too tall; no further item would have fitted;
\* something is drawn if anything is visible; following ends at the newest event.
FillsView ==
    LET n       == Len(visible)
        Rows(i) == Height(events[visible[i]])
        drawn   == Total([i \in 1..(screen.end - screen.start) |-> Rows(screen.start + i)])
    IN  /\ 0 <= screen.start /\ screen.start <= screen.end /\ screen.end <= n
        /\ drawn <= log_h \/ screen.end = screen.start + 1
        /\ n > 0 => screen.start < screen.end
        /\ follow => /\ screen.end = n
                     /\ screen.start > 0 => drawn + Rows(screen.start) > log_h
        /\ ~follow /\ screen.end < n => drawn + Rows(screen.end + 1) > log_h

\* Every frame is drawn, without a slice of visible or an event out of bounds
\* (a panic), and if it shows the messages it fills the view, whatever was
\* pushed, trimmed, cleared, filtered, opened, scrolled or resized before it.
FramesFillView ==
    [][Frames => phase' # "panicked" /\ (~show_splash' => FillsView')]_vars

\* The record at the top of the view.
Top == events[visible[scroll + 1]]

\* A view that does not follow stays on its record while others arrive, except
\* when the history is trimmed or the rest no longer fills the view.
PausedViewStays ==
    [][(DrainOne \/ Frames) /\ ~follow /\ dropped_events' = dropped_events
        /\ scroll < Len(visible) /\ (MultiRow \/ scroll + log_h' <= Len(visible))
       => Top' = Top]_vars

\* What was handed to the view: the records it took from the source, or the opened
\* file.  A --replay hands over the newest HISTORY_CAP records of its file, after a
\* notice if there are more: what read_tail left out is not in here.
Timeline == IF accept_source_records THEN SubSeq(produced, 1, taken) ELSE opened

\* "Live and replayed timelines never mix" (README): the retained events are
\* the newest ones of the source, or of the opened file.
OneTimeline == IsSuffix(events, Timeline)

\* "N earlier events were outside history" (:save, :open): N is exactly the number
\* of events that the view was handed, or that were in the opened file, and that
\* neither are retained nor were cleared.  It is not the number of earlier records
\* of a session shown by --replay: those that read_tail left out were counted in
\* the notice only, and once the history is trimmed N counts the notice itself.
DroppedIsExact == dropped_events + cleared + Len(events) = Len(Timeline)

\* "Recording happens before display filtering" and before trim_history applies the
\* cap (--save) and ":save FILE writes the currently retained events and then
\* continuously records future traffic": the file ends with all that is
\* retained, and has nothing that was not handed to the view, in its order, unless
\* a :save onto the very file that is being recorded has failed.  That --save keeps
\* "every live or replayed output record" is not claimed of a --replay in the TUI:
\* read_tail applies the cap to a longer file before anything is recorded.
RecordingFollows ==
    Recording /\ ~clobbered =>
        /\ IsSuffix(files[recorder.path], Timeline)
        /\ IsSuffix(events, files[recorder.path])

\* "The source channel is drained safely" (accept_source_records): whatever the
\* user does, the channel is emptied again, until the TUI is left.
ChannelDrains == taken < Len(produced) ~> (taken = Len(produced) \/ phase = "quit")
=================================================================================
