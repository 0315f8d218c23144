-------------------------------- MODULE MCTuiApp --------------------------------
(* Two session files: one that holds an earlier session, one that is absent. *)
EXTENDS TuiApp

AllKinds == {"status", "query", "row"}
Heights == [k \in AllKinds |-> CASE k = "status" -> 1 [] k = "query" -> 2 [] k = "row" -> 3]

\* An earlier session, longer than the history by more than a notice.
Earlier == [i \in 1..(HISTORY_CAP + 2) |-> [from |-> "earlier", n |-> i, kind |-> "query"]]
Disk == [p \in Files |-> IF p = "a" THEN Earlier ELSE <<Damage>>]

\* A user who scrolls through the messages in all display modes, one who edits
\* the filter in rich mode, and one who keeps sessions, live or of a replay,
\* under a filter that hides the records.
View(f, mode, key) ==
    [replay |-> "none", save |-> "none", filter |-> f, rich |-> mode,
     kinds |-> {"status", "query"}, records |-> 4, heights |-> {1, 3},
     keys |-> {"scroll", "clear", key}]
Sessions(r) ==
    [replay |-> r, save |-> "b", filter |-> "row", rich |-> FALSE,
     kinds |-> {"query"}, records |-> 3, heights |-> {2}, keys |-> {"clear", "command", "quit"}]
SetupsUsed == {View("", FALSE, "mode"), View("query", TRUE, "filter"), Sessions("none"), Sessions("a")}
=================================================================================
