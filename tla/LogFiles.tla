------------------------------ MODULE LogFiles ------------------------------
(***************************************************************************)
(* The log files (DailyLogWriter, prune_old_log_files, list_log_files,     *)
(* read_log_file, src/src/logging.rs): one file per day, appended to under *)
(* one lock, pruned to the newest max_log_files when the process starts    *)
(* and when the day of the open file is over, and shown on a page that     *)
(* lists the files and then reads one.                                     *)
(*                                                                         *)
(* A file is the sequence of the lines in it, its name the day.  A file    *)
(* that is removed while it is open takes no more lines that can be read.  *)
(***************************************************************************)
EXTENDS SequencesExt, FiniteSetsExt

CONSTANTS
  MaxFiles,    (* max_log_files: 1 to 365                                  *)
  Limit,       (* how many lines the page asks for                         *)
  ClockMoves,  (* the clock may be set back                                *)
  LastDay,     (* bound: days                                              *)
  MaxLines,    (* bound: lines logged                                      *)
  MaxFailures  (* bound: opens and removals that fail                      *)

(* What the constants have to be; MCServerParts assumes it.                *)
LogFilesAssumption ==
  /\ MaxFiles \in Nat \ {0}
  /\ Limit \in Nat
  /\ ClockMoves \in BOOLEAN
  /\ {LastDay, MaxLines, MaxFailures} \subseteq Nat

VARIABLES
  today,     (* Local::now()                                               *)
  files,     (* the lines of each file in the directory                    *)
  open,      (* current_date of the open file, or 0: none is open          *)
  page,      (* the listing, the file the page reads, and its lines        *)
  lines,     (* how many lines were logged                                 *)
  failures,  (* how many operations failed                                 *)
  logged     (* history: the lines of each day                             *)

vars == <<today, files, open, page, lines, failures, logged>>

Days == 1..LastDay

TypeOK ==
  /\ today \in Days
  /\ DOMAIN files \subseteq Days
  /\ \A d \in DOMAIN files : files[d] \in Seq(1..MaxLines)
  /\ open \in Days \cup {0}
  /\ page.listing \in Seq(Days) /\ page.day \in Days \cup {0}
  /\ page.lines \in Seq(1..MaxLines)
  /\ lines \in 0..MaxLines
  /\ failures \in 0..MaxFailures
  /\ logged \in [Days -> Seq(1..MaxLines)]

-----------------------------------------------------------------------------
(* prune_old_log_files: all but the newest are removed, where that works.  *)

Newest(fs, n) == {d \in fs : Cardinality({e \in fs : e > d}) < n}

(* Mutant: sorted the other way, the oldest stay.                          *)
PrunedOldest(fs, stuck) ==
  {d \in DOMAIN fs : Cardinality({e \in DOMAIN fs : e < d}) < MaxFiles} \cup stuck

(* The files that stay when those in stuck cannot be removed.              *)
Pruned(fs, stuck) == Newest(DOMAIN fs, MaxFiles) \cup stuck

Prune(fs) ==
  \E stuck \in SUBSET (DOMAIN fs \ Newest(DOMAIN fs, MaxFiles)) :
    /\ failures + Cardinality(stuck) <= MaxFailures
    /\ failures' = failures + Cardinality(stuck)
    /\ files' = Restrict(fs, Pruned(fs, stuck))

NoPage == [listing |-> <<>>, day |-> 0, lines |-> <<>>]

(* A directory that earlier processes, with a higher max_log_files, left,  *)
(* and the start of this one.                                              *)
Init ==
  /\ today \in Days
  /\ logged = [d \in Days |-> <<>>]
  /\ \E before \in SUBSET {d \in Days : d <= today} :
       files = [d \in Newest(before, MaxFiles) |-> <<>>]
  /\ open = 0
  /\ page = NoPage
  /\ lines = 0
  /\ failures = 0

(* The next day comes, or the clock is set back to the last.               *)
ClockTurns ==
  /\ today' \in {d \in Days : d = today + 1 \/ (ClockMoves /\ d + 1 = today)}
  /\ UNCHANGED <<files, open, page, lines, failures, logged>>

-----------------------------------------------------------------------------
(* DailyLogWriter::write_buf.                                              *)

Line == lines + 1

(* Written to the open file, if that is still in the directory.            *)
Written(fs, day) ==
  IF day \in DOMAIN fs THEN [fs EXCEPT ![day] = Append(@, Line)] ELSE fs

IsLogged ==
  /\ lines' = Line
  /\ logged' = [logged EXCEPT ![today] = Append(@, Line)]
  /\ UNCHANGED <<today, page>>

WriteOpen ==
  /\ open = today
  /\ files' = Written(files, open)
  /\ UNCHANGED <<open, failures>>

(* OpenOptions: create and append.                                         *)
Opened(fs) == [d \in DOMAIN fs \cup {today} |-> IF d \in DOMAIN fs THEN fs[d] ELSE <<>>]

(* The file of today is opened, and the old ones go.                       *)
Rotated ==
  /\ open # today
  /\ open' = today
  /\ LET fs == Written(Opened(files), today) IN Prune(fs)

Log ==
  /\ lines < MaxLines
  /\ WriteOpen \/ Rotated
  /\ IsLogged

(* The open fails: the line is lost, the next one tries again.             *)
OpenFails ==
  /\ open # today
  /\ failures < MaxFailures
  /\ failures' = failures + 1
  /\ UNCHANGED <<today, files, open, page, lines, logged>>

(* DailyLogWriter::new, in the next process: the directory is pruned, no   *)
(* file is open before the first line.                                     *)
Restart ==
  /\ open # 0
  /\ open' = 0
  /\ Prune(files)
  /\ UNCHANGED <<today, page, lines, logged>>

-----------------------------------------------------------------------------
(* The page.                                                               *)

(* list_log_files: newest first.                                           *)
List ==
  /\ page' = [NoPage EXCEPT !.listing = SetToSortSeq(DOMAIN files, LAMBDA d, e : d > e)]
  /\ UNCHANGED <<today, files, open, lines, failures, logged>>

LastOf(s, n) == SubSeq(s, IF n < Len(s) THEN Len(s) - n + 1 ELSE 1, Len(s))

(* read_log_file; a file that is gone is an error on the page.             *)
Read(d) ==
  /\ d \in ToSet(page.listing)
  /\ d \in DOMAIN files
  /\ page' = [page EXCEPT !.day = d, !.lines = LastOf(files[d], Limit)]
  /\ UNCHANGED <<today, files, open, lines, failures, logged>>

Next ==
  \/ ClockTurns
  \/ Log \/ OpenFails \/ Restart
  \/ List
  \/ \E d \in Days : Read(d)

Spec == Init /\ [][Next]_vars

-----------------------------------------------------------------------------
(* Properties.                                                             *)

(* The lines of a day can be read from its file, all of them and in their  *)
(* order, whatever was restarted and pruned since, until MaxFiles later    *)
(* days have files of their own.                                           *)
LinesAreKept ==
  \A d \in Days :
    IF d \in DOMAIN files THEN files[d] = logged[d]
    ELSE logged[d] # <<>> => Cardinality({e \in Days : e > d /\ logged[e] # <<>>}) >= MaxFiles

(* There are never more than MaxFiles files, but for those that could not  *)
(* be removed.                                                             *)
FilesAreFew == Cardinality(DOMAIN files) <= MaxFiles + failures

(* What the page shows is the end of what was logged of its day, up to     *)
(* some line.                                                              *)
PageIsOfTheDay ==
  page.day # 0 =>
    \E n \in 0..Len(logged[page.day]) : page.lines = LastOf(SubSeq(logged[page.day], 1, n), Limit)

(* A line that was logged is there as long as max_log_files promises, in   *)
(* its file and on the page, and the directory keeps to its size.          *)
LogIsKept == LinesAreKept /\ FilesAreFew /\ PageIsOfTheDay
=============================================================================
