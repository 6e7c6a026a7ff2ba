---------------------------- MODULE MCServerParts ----------------------------
(***************************************************************************)
(* Six parts that share no state: the live log (LogTail), the log files,   *)
(* the overlay list, a file of an overlay, the sockets that take filters,  *)
(* and the threads that read the processes.  One of them runs, the others  *)
(* rest: as none reads what another one writes, running them together      *)
(* would show nothing more.                                                *)
(***************************************************************************)
EXTENDS LogTail

CONSTANTS
  MaxFiles, MaxDays, MaxLines,
  Folders, Requests,          (* OverlayStore                              *)
  MaxChanges,
  Packets,                    (* TokensSocket                              *)
  Lists, Unfiltered, NestedLists,
  NotAList, None,
  MaxPackets, MaxMessages,
  MaxFailures,
  MaxProcesses, MaxWorkers, Attempts,     (* SnapshotPool                     *)
  MaxEdits                                (* OverlayFile                      *)

VARIABLES
  part,                                                 (* the one that runs *)
  today, files, open, listed, lines, lfFailures, logged,        (* LogFiles  *)
  disk, time, cache, request, ovFailures, present, absent, late, ovExcused,
                                                             (* OverlayStore *)
  route, published, unseen, inbox, filters, tsStage, frame, view, packets,
  messages, wanted,                                          (* TokensSocket *)
  windows, taken, at, tries, results, answer,                 (* SnapshotPool *)
  content, edits, ofStage, etag, copy, shown, seen, unstamped  (* OverlayFile *)

logFiles == <<today, files, open, listed, lines, lfFailures, logged>>
overlays == <<disk, time, cache, request, ovFailures, present, absent, late, ovExcused>>
tokens == <<route, published, unseen, inbox, filters, tsStage, frame, view, packets, messages, wanted>>
pool == <<windows, taken, at, tries, results, answer>>
asset == <<content, edits, ofStage, etag, copy, shown, seen, unstamped>>
parts == <<part, vars, logFiles, overlays, tokens, pool, asset>>

F == INSTANCE LogFiles WITH ClockMoves <- FALSE, LastDay <- MaxDays,
       page <- listed, failures <- lfFailures
O == INSTANCE OverlayStore WITH failures <- ovFailures, excused <- ovExcused
T == INSTANCE TokensSocket WITH stage <- tsStage
S == INSTANCE SnapshotPool
A == INSTANCE OverlayFile WITH stage <- ofStage

ASSUME PartsAssumption ==
  /\ F!LogFilesAssumption /\ O!OverlayAssumption /\ T!TokensAssumption
  /\ S!PoolAssumption /\ A!OverlayFileAssumption

PartsInit ==
  /\ part \in {"log", "files", "overlays", "tokens", "pool", "asset"}
  /\ Init
  /\ F!Init /\ (part # "files" => today = 1 /\ files = <<>>)
  /\ O!Init /\ (part # "overlays" => disk = <<>>)
  /\ T!Init
  /\ part # "tokens" =>
       route = "/tokens" /\ published = [packet |-> CHOOSE p \in Packets : TRUE, attached |-> TRUE]
  /\ S!Init /\ (part # "pool" => windows = <<>>)
  /\ A!FileInit

PartsNext ==
  /\ UNCHANGED part
  /\ \/ part = "log" /\ Next /\ UNCHANGED <<logFiles, overlays, tokens, pool, asset>>
     \/ part = "files" /\ F!Next /\ UNCHANGED <<vars, overlays, tokens, pool, asset>>
     \/ part = "overlays" /\ O!Next /\ UNCHANGED <<vars, logFiles, tokens, pool, asset>>
     \/ part = "tokens" /\ T!Next /\ UNCHANGED <<vars, logFiles, overlays, pool, asset>>
     \/ part = "pool" /\ S!Next /\ UNCHANGED <<vars, logFiles, overlays, tokens, asset>>
     \/ part = "asset" /\ A!FileNext /\ UNCHANGED <<vars, logFiles, overlays, tokens, pool>>

PartsSpec ==
  /\ PartsInit /\ [][PartsNext]_parts
  /\ part = "log" => Fairness
  /\ part = "tokens" => T!Fairness
  /\ WF_pool(part = "pool" /\ S!Next)

-----------------------------------------------------------------------------
PartsTypeOK == TypeOK /\ F!TypeOK /\ O!TypeOK /\ T!TypeOK /\ S!TypeOK /\ A!FileTypeOK

(* The properties of the parts, under the names their modules state them   *)
(* with.                                                                   *)
LogIsKept == F!LogIsKept
AnswerIsOfItsTime == O!AnswerIsOfItsTime /\ A!CopyIsOfItsTime
FramesFitTheList == T!FramesFitTheList
LatestIsShown ==
  /\ part = "tokens" => T!LatestIsShown
  /\ part = "log" => TailCatchesUp
EachIsListed == S!ListsAreWhole /\ <>(part = "pool" => answer # None)

(* Statements of the sources that the code does not keep.                  *)
DroppedInShowsUp == O!DroppedInShowsUp
ReloadIsNew == A!ReloadIsNew
ListIsApplied == part = "tokens" => T!ListIsApplied
=============================================================================
