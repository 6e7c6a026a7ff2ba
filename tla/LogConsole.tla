----------------------------- MODULE LogConsole -----------------------------
(***************************************************************************)
(* The log console of the landing page (the script in LANDING_SCRIPT,      *)
(* src/src/settings.rs): a choice between the live stream and the files of *)
(* the log, the entries of the source that was chosen, and the rows of     *)
(* those that match the filter.  Loads are answered in any order, and the  *)
(* browser connects a stream again when it breaks.                         *)
(*                                                                         *)
(* An entry is the source it came from, a number and a level.              *)
(***************************************************************************)
EXTENDS Naturals, Sequences, SequencesExt

CONSTANTS
  Files,        (* the files of the log, without the live stream           *)
  Levels,       (* the levels of entries                                   *)
  All,          (* the filter that lets every entry through                *)
  Recent,       (* 200: the entries a stream starts with                   *)
  MaxRows,      (* 2000: the entries and the rows the console keeps        *)
  MaxLogged,    (* bound: entries of the live log                          *)
  MaxClicks     (* bound: sources chosen, and filters set                  *)

(* What the constants have to be; MCLandingPage assumes it.                *)
LogConsoleAssumption ==
  /\ {Recent, MaxRows, MaxLogged, MaxClicks} \subseteq Nat
  /\ Recent <= MaxRows /\ 0 < MaxRows
  /\ "live" \notin Files /\ All \notin Levels

VARIABLES
  source,       (* the source chosen                                       *)
  loads,        (* how often each file is being fetched                    *)
  stream,       (* the live stream: "closed", "connecting" or "open"       *)
  queue,        (* the events on their way to it                           *)
  entries,      (* currentEntries                                          *)
  rows,         (* the rows of the console                                 *)
  console,      (* what it shows: "rows", "loading" or "failed"            *)
  level,        (* the filter                                              *)
  log,          (* the live log: the levels of its entries                 *)
  clicks,       (* how often the operator has clicked                      *)
  shown,        (* history: the live entries shown since it was chosen     *)
  skipped,      (* history: of the entries up to this one the stream, when *)
                (* it was opened since, was not given any                  *)
  excused       (* history: since the source was chosen an answer for      *)
                (* another one came, or its own load failed                *)

view == <<entries, rows, console>>
vars == <<source, loads, stream, queue, view, level, log, clicks, shown, skipped, excused>>

Live(n) == [of |-> "live", n |-> n, level |-> log[n]]
FileEntry(f, l) == [of |-> f, n |-> 1, level |-> l]
EntriesLogged == {Live(n) : n \in DOMAIN log} \cup {FileEntry(f, l) : f \in Files, l \in Levels}

TypeOK ==
  /\ source \in Files \cup {"live"}
  /\ loads \in [Files -> 0..MaxClicks]
  /\ stream \in {"closed", "connecting", "open"}
  /\ ToSet(queue) \cup ToSet(entries) \cup ToSet(rows) \subseteq EntriesLogged
  /\ Len(entries) <= MaxRows /\ Len(rows) <= MaxRows
  /\ console \in {"rows", "loading", "failed"}
  /\ level \in Levels \cup {All}
  /\ log \in Seq(Levels) /\ Len(log) <= MaxLogged
  /\ clicks \in 0..MaxClicks
  /\ shown \subseteq DOMAIN log /\ skipped \in 0..Len(log)
  /\ excused \in BOOLEAN

Init ==
  /\ source = "live"
  /\ loads = [f \in Files |-> 0]
  /\ stream = "connecting"
  /\ queue = <<>>
  /\ entries = <<>> /\ rows = <<>>
  /\ console = "rows"
  /\ level = All
  /\ log = <<>>
  /\ clicks = 0
  /\ shown = {} /\ skipped = 0
  /\ excused = FALSE

-----------------------------------------------------------------------------
(* The console.                                                            *)

Matches(e, l) == l \in {All, e.level}

(* The entries that match, gathered from the first on.                     *)
Matching(es, l) ==
  LET found[i \in 0..Len(es)] ==
        IF i = 0 THEN <<>>
        ELSE IF Matches(es[i], l) THEN Append(found[i - 1], es[i]) ELSE found[i - 1]
  IN  found[Len(es)]

LastOf(es, n) == SubSeq(es, IF Len(es) > n THEN Len(es) - n + 1 ELSE 1, Len(es))

(* refreshConsoleView, with these entries and this filter.                 *)
Refresh(es, l) == rows' = Matching(es, l) /\ console' = "rows"

(* appendEntry: the entries and the rows are cut each for themselves, and  *)
(* a message in the console goes with the first row.                       *)
Show(e) ==
  /\ entries' = LastOf(Append(entries, e), MaxRows)
  /\ IF Matches(e, level)
     THEN rows' = LastOf(Append(rows, e), MaxRows) /\ console' = "rows"
     ELSE UNCHANGED <<rows, console>>
  /\ shown' = shown \cup {e.n}

-----------------------------------------------------------------------------
(* The operator.                                                           *)

Click == clicks < MaxClicks /\ clicks' = clicks + 1


Connect == queue' = <<>> /\ stream' = "connecting"

(* connectLiveStream                                                       *)
ChooseLive ==
  /\ source # "live"
  /\ Click
  /\ source' = "live"
  /\ Connect
  /\ entries' = <<>>
  /\ Refresh(<<>>, level)
  /\ shown' = {} /\ skipped' = 0
  /\ excused' = FALSE
  /\ UNCHANGED <<loads, level, log>>

(* Mutant: the stream is left open.                                        *)
StreamKept == UNCHANGED <<stream, queue>>

StreamClosed == queue' = <<>> /\ stream' = "closed"

(* loadHistoricFile: the entries of the source before stay until the file  *)
(* is there.                                                               *)
ChooseFile(f) ==
  /\ f # source
  /\ Click
  /\ source' = f
  /\ StreamClosed
  /\ loads' = [loads EXCEPT ![f] = @ + 1]
  /\ rows' = <<>> /\ console' = "loading"
  /\ UNCHANGED <<entries, level, log, shown, skipped, excused>>

SetLevel(l) ==
  /\ l # level
  /\ Click
  /\ level' = l
  /\ Refresh(entries, l)
  /\ UNCHANGED <<source, loads, stream, queue, entries, log, shown, skipped, excused>>

Clear ==
  /\ entries # <<>>
  /\ Click
  /\ entries' = <<>>
  /\ Refresh(<<>>, level)
  /\ UNCHANGED <<source, loads, stream, queue, level, log, shown, skipped, excused>>

-----------------------------------------------------------------------------
(* A file.                                                                 *)

(* Nobody asks whether the file is still the source.                       *)
FileArrives(f, l) ==
  /\ loads[f] > 0
  /\ loads' = [loads EXCEPT ![f] = @ - 1]
  /\ entries' = <<FileEntry(f, l)>>
  /\ Refresh(<<FileEntry(f, l)>>, level)
  /\ excused' = (f # source)
  /\ UNCHANGED <<source, stream, queue, level, log, clicks, shown, skipped>>

FileFails(f) ==
  /\ loads[f] > 0
  /\ loads' = [loads EXCEPT ![f] = @ - 1]
  /\ rows' = <<>> /\ console' = "failed"
  /\ excused' = TRUE
  /\ UNCHANGED <<source, stream, queue, entries, level, log, clicks, shown, skipped>>

-----------------------------------------------------------------------------
(* The live stream.                                                        *)

(* The server logs an entry, and sends it to an open stream.               *)
Log(l) ==
  /\ Len(log) < MaxLogged
  /\ log' = Append(log, l)
  /\ queue' = IF stream = "open"
              THEN Append(queue, [of |-> "live", n |-> Len(log) + 1, level |-> l])
              ELSE queue
  /\ UNCHANGED <<source, loads, stream, view, level, clicks, shown, skipped, excused>>

(* handle_logs_tail, and onopen: the recent entries come first.            *)
Open ==
  /\ stream = "connecting"
  /\ stream' = "open"
  /\ queue' = [i \in 1..Len(LastOf(log, Recent)) |->
                 Live(Len(log) - Len(LastOf(log, Recent)) + i)]
  /\ Refresh(entries, level)
  /\ skipped' = Len(log) - Len(queue')
  /\ UNCHANGED <<source, loads, entries, level, log, clicks, shown, excused>>

(* The events "init" and "log".                                            *)
Receive ==
  /\ queue # <<>>
  /\ Show(Head(queue))
  /\ queue' = Tail(queue)
  /\ UNCHANGED <<source, loads, stream, level, log, clicks, skipped, excused>>

(* onerror; the browser connects again.                                    *)
Break ==
  /\ stream = "open"
  /\ Click
  /\ stream' = "connecting" /\ queue' = <<>>
  /\ UNCHANGED <<source, loads, view, level, log, shown, skipped, excused>>

Next ==
  \/ ChooseLive
  \/ \E f \in Files : ChooseFile(f) \/ FileFails(f)
  \/ \E f \in Files, l \in Levels : FileArrives(f, l)
  \/ \E l \in Levels \cup {All} : SetLevel(l)
  \/ Clear
  \/ \E l \in Levels : Log(l)
  \/ Open \/ Receive \/ Break

(* The browser connects and hands over what has come.                      *)
Fairness == WF_vars(Open) /\ WF_vars(Receive)

Spec == Init /\ [][Next]_vars /\ Fairness

-----------------------------------------------------------------------------
(* Properties.                                                             *)

(* Once the source that was chosen is there, what the console keeps is of  *)
(* that source and of no other, and every entry that matches the filter is *)
(* shown, but for loads that failed and answers of a source already left.  *)
ShowsTheSource ==
  ~excused /\ (source = "live" \/ loads[source] = 0) =>
    /\ \A e \in ToSet(entries) \cup ToSet(rows) : e.of = source
    /\ IsSuffix(Matching(entries, level), rows)


(* "Historic: " and the name of a file on the badge (src/src/settings.rs): *)
(* what the console shows is of that file.                                 *)
ShowsTheFile ==
  source # "live" /\ console = "rows" => \A e \in ToSet(rows) : e.of = source
=============================================================================
