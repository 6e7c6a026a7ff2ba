----------------------------- MODULE SoloBeatmap -----------------------------
(***************************************************************************)
(* The beatmap block of SoloSession::poll (src/src/session.rs): how one    *)
(* reader follows the map selected in a game whose memory it can only      *)
(* sample, while the game rewrites the same record field by field, its     *)
(* .osu file may be unreadable, and the game itself may exit and come back.*)
(*                                                                         *)
(* The game (its process, its heap, the disk) is the environment.  The     *)
(* session polls in steps -- attach, scan, locate, snapshot -- because     *)
(* every step reads another process's memory at another instant.  A text   *)
(* (title, md5, path) is abstracted to the map it belongs to, NoMap being  *)
(* the empty string; time is counted in ticks of the poll loop.            *)
(***************************************************************************)
EXTENDS Naturals

CONSTANTS
  Maps,          (* the beatmaps a player can select                       *)
  NoMap,         (* the empty string, the unparsed file, no map at all     *)
  IdOf,          (* the difficulty id of a map; 0 for an unsubmitted one   *)
  Ptrs,          (* addresses of beatmap objects; 0 is the null pointer    *)
  Precedes,      (* <<f, g>>: the game writes field f before field g       *)
  Unreliable,    (* maps whose .osu file can become unreadable             *)
  MaxProcs,      (* bound: how many game processes are ever started        *)
  Patient,       (* a selection outlives one whole poll before the next    *)
  RetryInitial,  (* FILE_RETRY_INITIAL, in ticks                           *)
  RetryMax,      (* FILE_RETRY_MAX, in ticks                               *)
  PollGaps       (* how many ticks may pass between two polls              *)

(* The fields of a BeatmapInfo record the poll reads one by one.           *)
Fields == {"id", "title", "md5", "file"}

(* The two passes over a .osu file: populate_beatmap_file_metadata, and    *)
(* the parse of rosu_pp.  Either can fail where the other succeeds.        *)
Passes == {"meta", "map"}

MapsOrNone == Maps \cup {NoMap}

ASSUME ConstantsAssumption ==
  /\ NoMap \notin Maps
  /\ IdOf \in [Maps -> Nat]
  /\ Ptrs \subseteq Nat \ {0}
  /\ Precedes \subseteq Fields \X Fields
  /\ Unreliable \subseteq Maps
  /\ MaxProcs \in Nat
  /\ Patient \in BOOLEAN
  /\ RetryInitial \in Nat \ {0}
  /\ RetryMax \in Nat \ {0}
  /\ RetryInitial <= RetryMax
  /\ PollGaps \subseteq Nat \ {0}

VARIABLES
  running,    (* a game process exists                                     *)
  procs,      (* how many were started: the number of the latest one       *)
  ptr,        (* the beatmap pointer at base_addr                          *)
  heap,       (* the record at each address                                *)
  target,     (* the map the player selected                               *)
  unwritten,  (* the fields of its record still holding something older    *)
  disk,       (* the passes each map's file lets through                   *)
  settledFor, (* 0 writing, 1 settled, 2 a poll began since, 3 it ended;   *)
              (* only a Patient environment keeps track                    *)
  step,       (* where the poll is                                         *)
  handle,     (* the process `memory` is open on, 0 for None               *)
  attached,   (* SoloSession::attached                                     *)
  based,      (* base_pattern_addr is Some                                 *)
  seen,       (* beatmap_addr and live_id, while the snapshot needs them    *)
  cachedPtr,  (* cached_beatmap_ptr                                        *)
  cachedId,   (* cached_beatmap_id                                         *)
  checksum,   (* current_checksum                                          *)
  beatmap,    (* cached_beatmap: the parsed file                           *)
  metadata,   (* the file half of cached_beatmap_metadata                  *)
  retry,      (* file_load_failed                                          *)
  packet,     (* the beatmap half of cached_packet                         *)
  lastRead    (* what the last beatmap read was taken for                  *)

game == <<running, procs, ptr, heap, target, unwritten, disk>>
caches == <<cachedPtr, cachedId, checksum, beatmap, metadata, retry>>
session == <<step, handle, attached, based, seen, caches, packet, lastRead>>
vars == <<game, settledFor, session>>

-----------------------------------------------------------------------------

NotSeen == [ptr |-> 0, id |-> 0]
NoRetry == [ptr |-> 0, wait |-> 0, delay |-> 0]
Blank == [f \in Fields |-> NoMap]
IdIn(m) == IF m = NoMap THEN 0 ELSE IdOf[m]
Alive == running /\ handle = procs

Reads == {"None", "Retry", "Load", "Restore"}

RetryRecord == [ptr : Ptrs \cup {0}, wait : Nat, delay : Nat]
PacketRecord == [title : MapsOrNone, md5 : MapsOrNone, meta : MapsOrNone,
                 stars : MapsOrNone, graph : MapsOrNone, proc : Nat]

TypeOK ==
  /\ running \in BOOLEAN
  /\ procs \in Nat
  /\ ptr \in Ptrs \cup {0}
  /\ heap \in [Ptrs -> [Fields -> MapsOrNone]]
  /\ target \in MapsOrNone
  /\ unwritten \subseteq Fields
  /\ disk \in [Maps -> SUBSET Passes]
  /\ settledFor \in 0..3
  /\ step \in {"idle", "scan", "locate", "snapshot"}
  /\ handle \in Nat
  /\ attached \in BOOLEAN
  /\ based \in BOOLEAN
  /\ seen \in [ptr : Ptrs \cup {0}, id : Nat]
  /\ step = "snapshot" => seen.ptr # 0
  /\ cachedPtr \in Ptrs \cup {0}
  /\ cachedId \in Nat
  /\ checksum \in MapsOrNone
  /\ beatmap \in MapsOrNone
  /\ metadata \in MapsOrNone
  /\ retry \in RetryRecord
  /\ packet \in PacketRecord
  /\ lastRead \in Reads

Init ==
  /\ running = FALSE
  /\ procs = 0
  /\ ptr = 0
  /\ heap = [p \in Ptrs |-> Blank]
  /\ target = NoMap
  /\ unwritten = {}
  /\ disk = [m \in Maps |-> Passes]
  /\ settledFor = 3
  /\ step = "idle"
  /\ handle = 0
  /\ attached = FALSE
  /\ based = FALSE
  /\ seen = NotSeen
  /\ cachedPtr = 0
  /\ cachedId = 0
  /\ checksum = NoMap
  /\ beatmap = NoMap
  /\ metadata = NoMap
  /\ retry = NoRetry
  /\ packet = [title |-> NoMap, md5 |-> NoMap, meta |-> NoMap,
               stars |-> NoMap, graph |-> NoMap, proc |-> 0]
  /\ lastRead = "None"

-----------------------------------------------------------------------------
(* The environment: osu! and the disk.                                     *)

StartGame ==
  /\ ~running
  /\ procs < MaxProcs
  /\ running' = TRUE
  /\ procs' = procs + 1
  /\ ptr' = 0
  /\ heap' = [p \in Ptrs |-> Blank]
  /\ target' = NoMap
  /\ unwritten' = {}
  /\ settledFor' = 3
  /\ UNCHANGED <<disk, session>>

QuitGame ==
  /\ running
  /\ running' = FALSE
  /\ UNCHANGED <<procs, ptr, heap, target, unwritten, disk, settledFor, session>>

(* osu! stable reuses beatmap objects: the record selected now still holds *)
(* what it held before, until the game has rewritten each of its fields.   *)
SelectMap(m, p) ==
  /\ running
  /\ unwritten = {}
  /\ Patient => settledFor = 3
  /\ target' = m
  /\ ptr' = p
  /\ unwritten' = Fields
  /\ settledFor' = IF Patient THEN 0 ELSE 3
  /\ UNCHANGED <<running, procs, heap, disk, session>>

WriteField(f) ==
  /\ running
  /\ f \in unwritten
  /\ \A g \in unwritten : <<g, f>> \notin Precedes
  /\ heap' = [heap EXCEPT ![ptr][f] = target]
  /\ unwritten' = unwritten \ {f}
  /\ settledFor' = IF unwritten = {f} /\ Patient THEN 1 ELSE settledFor
  /\ UNCHANGED <<running, procs, ptr, target, disk, session>>

(* The pointer is cleared the moment a map ends; the object stays.         *)
EndMap ==
  /\ running
  /\ ptr # 0
  /\ unwritten = {}
  /\ Patient => settledFor = 3
  /\ ptr' = 0
  /\ UNCHANGED <<running, procs, heap, target, unwritten, disk, settledFor, session>>

(* A scanner, a sync client or the editor takes or releases a file; a map  *)
(* finishes downloading.                                                   *)
DiskChange(m) ==
  /\ disk' \in {[disk EXCEPT ![m] = passes] : passes \in SUBSET Passes}
  /\ UNCHANGED <<running, procs, ptr, heap, target, unwritten, settledFor, session>>

Environment ==
  \/ StartGame
  \/ QuitGame
  \/ \E m \in Maps, p \in Ptrs : SelectMap(m, p)
  \/ \E f \in Fields : WriteField(f)
  \/ EndMap
  \/ \E m \in Unreliable : DiskChange(m)

-----------------------------------------------------------------------------
(* One poll.                                                               *)

BeginPoll == settledFor' = IF settledFor = 1 THEN 2 ELSE settledFor
EndPoll == settledFor' = IF settledFor = 2 THEN 3 ELSE settledFor

(* file_attempt_due compares `retry_at` with the clock: `wait` is what is  *)
(* left of it, and polls are what lets the clock advance.                  *)
Elapse ==
  \E gap \in PollGaps :
    retry' = [retry EXCEPT !.wait = IF retry.wait > gap THEN retry.wait - gap ELSE 0]

(* Mutant: losing the process keeps the parsed map and its checksum.       *)
PollDetachKeepingMap ==
  /\ step = "idle"
  /\ handle # 0
  /\ ~Alive
  /\ handle' = 0
  /\ attached' = FALSE
  /\ based' = FALSE
  /\ Elapse
  /\ UNCHANGED <<game, settledFor, step, seen, cachedPtr, cachedId, checksum, beatmap,
                 metadata, packet, lastRead>>

(* The handle is on a dead process: the addresses, the checksum and the    *)
(* parsed map are dropped, and nothing else.                               *)
PollDetach ==
  /\ step = "idle"
  /\ handle # 0
  /\ ~Alive
  /\ handle' = 0
  /\ attached' = FALSE
  /\ based' = FALSE
  /\ checksum' = NoMap
  /\ beatmap' = NoMap
  /\ Elapse
  /\ UNCHANGED <<game, settledFor, step, seen, cachedPtr, cachedId, metadata,
                 packet, lastRead>>

(* No handle and no process: mark_not_running.                             *)
PollNothing ==
  /\ step = "idle"
  /\ handle = 0
  /\ ~running
  /\ attached' = FALSE
  /\ Elapse
  /\ UNCHANGED <<game, settledFor, step, handle, based, seen, cachedPtr, cachedId,
                 checksum, beatmap, metadata, packet, lastRead>>

(* The first process in the list is opened.  An open that fails returns    *)
(* before it changes anything.                                             *)
PollOpen ==
  /\ step = "idle"
  /\ handle = 0
  /\ running
  /\ handle' = procs
  /\ attached' = TRUE
  /\ based' = FALSE
  /\ checksum' = NoMap
  /\ beatmap' = NoMap
  /\ step' = "scan"
  /\ Elapse
  /\ BeginPoll
  /\ UNCHANGED <<game, seen, cachedPtr, cachedId, metadata, packet, lastRead>>

PollAttached ==
  /\ step = "idle"
  /\ Alive
  /\ attached' = TRUE
  /\ step' = "scan"
  /\ Elapse
  /\ BeginPoll
  /\ UNCHANGED <<game, handle, based, seen, cachedPtr, cachedId, checksum, beatmap,
                 metadata, packet, lastRead>>

(* base_addr is scanned for until it is found, at most once a second.      *)
ScanFound ==
  /\ step = "scan"
  /\ based' = TRUE
  /\ step' = "locate"
  /\ UNCHANGED <<game, settledFor, handle, attached, seen, caches, packet, lastRead>>

ScanMissed ==
  /\ step = "scan"
  /\ ~based
  /\ step' = "idle"
  /\ EndPoll
  /\ UNCHANGED <<game, handle, attached, based, seen, caches, packet, lastRead>>

(* The process died under the poll: reading the pointer fails, and the     *)
(* whole block is skipped.                                                 *)
LocateFailed ==
  /\ step = "locate"
  /\ ~Alive
  /\ step' = "idle"
  /\ EndPoll
  /\ UNCHANGED <<game, handle, attached, based, seen, caches, packet, lastRead>>

(* The pointer is null between maps: the published map stays, and the next *)
(* pointer will look new.                                                  *)
LocateNull ==
  /\ step = "locate"
  /\ Alive
  /\ ptr = 0
  /\ cachedPtr' = 0
  /\ cachedId' = 0
  /\ step' = "idle"
  /\ EndPoll
  /\ UNCHANGED <<game, handle, attached, based, seen, checksum, beatmap, metadata,
                 retry, packet, lastRead>>

(* Mutant: a stable pointer taken for a stable map.                        *)
RefreshByPointerOnly(p, liveId) == p # cachedPtr

RefreshNeeded(p, liveId) == p # cachedPtr \/ (liveId > 0 /\ liveId # cachedId)

LocateChanged ==
  /\ step = "locate"
  /\ Alive
  /\ ptr # 0
  /\ RefreshNeeded(ptr, IdIn(heap[ptr]["id"]))
  /\ seen' = [ptr |-> ptr, id |-> IdIn(heap[ptr]["id"])]
  /\ cachedPtr' = ptr
  /\ step' = "snapshot"
  /\ UNCHANGED <<game, settledFor, handle, attached, based, cachedId, checksum,
                 beatmap, metadata, retry, packet, lastRead>>

(* Nothing moved.  A change of mods rebuilds the statistics and the graph  *)
(* from the parsed map, when there is one.                                 *)
LocateSame(modsChanged) ==
  /\ step = "locate"
  /\ Alive
  /\ ptr # 0
  /\ ~RefreshNeeded(ptr, IdIn(heap[ptr]["id"]))
  /\ packet' = IF modsChanged /\ beatmap # NoMap
               THEN [packet EXCEPT !.stars = beatmap, !.graph = beatmap]
               ELSE packet
  /\ step' = "idle"
  /\ EndPoll
  /\ UNCHANGED <<game, handle, attached, based, seen, caches, lastRead>>

(* What read_beatmap_from_ptr returns: every field falls back to its       *)
(* default when the process is gone.                                       *)
Snapshot == IF Alive THEN heap[seen.ptr] ELSE Blank

Ignorable(bm) == IdIn(bm["id"]) = 0 /\ bm["title"] = NoMap

BeatmapReadAction(bm) ==
  IF bm["title"] = NoMap \/ bm["md5"] = NoMap THEN "Retry"
  ELSE IF bm["md5"] # checksum THEN "Load"
  ELSE IF seen.id > 0 /\ cachedId > 0 /\ seen.id # cachedId THEN "Load"
  ELSE "Restore"

FileAttemptDue == retry.ptr # seen.ptr \/ retry.wait = 0

(* One pass over the file the record names, when it may be attempted.      *)
PassOk(bm, pass) ==
  /\ FileAttemptDue
  /\ bm["file"] # NoMap
  /\ pass \in disk[bm["file"]]

(* Mutant: a failed pass leaves the previous map's result in place.        *)
PassResultKeptOnFailure(bm, pass) ==
  IF PassOk(bm, pass) THEN bm["file"]
  ELSE IF pass = "meta" THEN metadata ELSE beatmap

(* What a pass leaves in the session: the file it read, or nothing.        *)
PassResult(bm, pass) == IF PassOk(bm, pass) THEN bm["file"] ELSE NoMap

(* Mutant: the metadata pass alone is enough to commit a map.              *)
AdvanceOnMetadata(metadataOk, fileOk) == metadataOk

CachesMayAdvance(metadataOk, fileOk) == metadataOk /\ fileOk

NoteFileLoadFailure ==
  LET doubled == 2 * retry.delay
      delay == IF retry.ptr # seen.ptr THEN RetryInitial
               ELSE IF doubled < RetryMax THEN doubled ELSE RetryMax
  IN [ptr |-> seen.ptr, wait |-> delay, delay |-> delay]

(* The record goes out with whatever the two file passes left behind; the  *)
(* graph only when there is a parsed map to draw it from.                  *)
Publish(bm, meta, map) ==
  packet' = [title |-> bm["title"], md5 |-> bm["md5"], meta |-> meta, stars |-> map,
             graph |-> IF map # NoMap THEN map ELSE packet.graph, proc |-> handle]

SnapshotIgnored ==
  /\ step = "snapshot"
  /\ Ignorable(Snapshot)
  /\ step' = "idle"
  /\ seen' = NotSeen
  /\ EndPoll
  /\ UNCHANGED <<game, handle, attached, based, caches, packet, lastRead>>

SnapshotRetry ==
  /\ step = "snapshot"
  /\ ~Ignorable(Snapshot)
  /\ BeatmapReadAction(Snapshot) = "Retry"
  /\ cachedId' = 0
  /\ lastRead' = "Retry"
  /\ step' = "idle"
  /\ seen' = NotSeen
  /\ EndPoll
  /\ UNCHANGED <<game, handle, attached, based, cachedPtr, checksum, beatmap,
                 metadata, retry, packet>>

(* A different map.  The checksum and the id advance only past a file that *)
(* both passes could read; the record is published either way.             *)
SnapshotLoad ==
  LET bm == Snapshot
      metadataOk == PassOk(bm, "meta")
      fileOk == PassOk(bm, "map")
      mayAdvance == CachesMayAdvance(metadataOk, fileOk)
  IN
  /\ step = "snapshot"
  /\ ~Ignorable(bm)
  /\ BeatmapReadAction(bm) = "Load"
  /\ metadata' = PassResult(bm, "meta")
  /\ beatmap' = PassResult(bm, "map")
  /\ retry' = IF metadataOk /\ fileOk THEN NoRetry ELSE NoteFileLoadFailure
  /\ checksum' = IF mayAdvance THEN bm["md5"] ELSE checksum
  /\ cachedId' = IF mayAdvance THEN seen.id ELSE 0
  /\ cachedPtr' = IF mayAdvance THEN cachedPtr ELSE 0
  /\ Publish(bm, metadata', beatmap')
  /\ lastRead' = "Load"
  /\ step' = "idle"
  /\ seen' = NotSeen
  /\ EndPoll
  /\ UNCHANGED <<game, handle, attached, based>>

SnapshotRestore ==
  /\ step = "snapshot"
  /\ ~Ignorable(Snapshot)
  /\ BeatmapReadAction(Snapshot) = "Restore"
  /\ Publish(Snapshot, metadata, beatmap)
  /\ lastRead' = "Restore"
  /\ step' = "idle"
  /\ seen' = NotSeen
  /\ EndPoll
  /\ UNCHANGED <<game, handle, attached, based, caches>>

Locate ==
  \/ LocateFailed
  \/ LocateNull
  \/ LocateChanged
  \/ \E modsChanged \in BOOLEAN : LocateSame(modsChanged)

ReadSnapshot ==
  \/ SnapshotIgnored
  \/ SnapshotRetry
  \/ SnapshotLoad
  \/ SnapshotRestore

Poll ==
  \/ PollDetach
  \/ PollNothing
  \/ PollOpen
  \/ PollAttached
  \/ ScanFound
  \/ ScanMissed
  \/ Locate
  \/ ReadSnapshot

Next == Environment \/ Poll

Spec == Init /\ [][Next]_vars

(* The loop in main.rs polls for ever; a signature that is there is found  *)
(* by one of the scans; the game finishes the record it began to write.    *)
Fairness ==
  /\ WF_vars(Poll)
  /\ SF_vars(ScanFound)
  /\ WF_vars(\E f \in Fields : WriteField(f))

FairSpec == Spec /\ Fairness

-----------------------------------------------------------------------------
(* Safety.                                                                 *)

(* The two file passes the session holds are passes over one file: when    *)
(* both the metadata and the parsed map are there, they are of the same    *)
(* map, however the passes failed before (the Load arm of poll).           *)
FilePassesAgree == metadata # NoMap /\ beatmap # NoMap => metadata = beatmap

(* The object counts and the stars of a published beatmap are never taken  *)
(* from two different maps: the stale-metadata report the Load and Restore *)
(* arms exist to prevent, for the halves that come from the file.          *)
PublishedFromOneFile ==
  packet.meta # NoMap /\ packet.stars # NoMap => packet.meta = packet.stars

(* While the first process lives, an id is pinned only over a file both    *)
(* passes could read (caches_may_advance): a pinned id stops all reading,  *)
(* so pinning an unread map would freeze it without stars.                 *)
PinnedMeansLoaded ==
  handle = 1 /\ cachedId # 0 => beatmap # NoMap /\ metadata # NoMap /\ checksum # NoMap

(* Once a beatmap is published, no partial read, failed file, lost process *)
(* or reconnection ever blanks its title or checksum again: "the last map  *)
(* is kept until a different one is actually selected".                    *)
NeverBlanked ==
  [][packet.title # NoMap => packet'.title # NoMap /\ packet'.md5 # NoMap]_packet

(* Nothing parsed from one process's map outlives its handle: the next     *)
(* process starts with no checksum to match, so its first complete record  *)
(* is loaded, never restored.                                              *)
NothingHeldDetached ==
  handle = 0 => ~attached /\ ~based /\ checksum = NoMap /\ beatmap = NoMap

(* What is held and published is whole: of one file, of a process that is   *)
(* there, and pinned only once it was read.                                *)
BeatmapIsWhole ==
  FilePassesAgree /\ PublishedFromOneFile /\ PinnedMeansLoaded /\ NothingHeldDetached

(* When the record has settled and nothing in it asks for another read,    *)
(* the map the session holds is the one the player selected.  Holds when   *)
(* the game writes the id last and a selection outlives a poll.            *)
Settled(m) == running /\ ptr # 0 /\ target = m /\ unwritten = {}

QuietMeansCurrent ==
  \A m \in Maps :
    /\ step = "idle" /\ Alive /\ based /\ Settled(m)
    /\ lastRead # "None"
    /\ ~RefreshNeeded(ptr, IdIn(heap[ptr]["id"]))
    => checksum = m

-----------------------------------------------------------------------------
(* Liveness.                                                               *)

Readable(m) == disk[m] = Passes

PublishedIs(m) ==
  /\ attached
  /\ packet.title = m
  /\ packet.md5 = m
  /\ packet.meta = m
  /\ packet.stars = m
  /\ packet.graph = m

(* A map that stays selected over a readable file ends up published whole: *)
(* its own title, checksum, object counts, stars and graph.                *)
SelectionConverges ==
  \A m \in Maps : <>[](Settled(m) /\ Readable(m)) => <>[]PublishedIs(m)

(* The parsed map behind the pp values ends up being the selected one.     *)
HeldMapConverges ==
  \A m \in Maps : <>[](Settled(m) /\ Readable(m)) => <>[](beatmap = m)

(* A map that stays selected ends up published whole and held.             *)
MapConverges == SelectionConverges /\ HeldMapConverges

(* An unresolved read is read again until it resolves: the retry is        *)
(* "deliberately unbounded".                                               *)
RetryIsUnbounded ==
  \A m \in Maps : <>[](Settled(m) /\ Readable(m)) => <>[](lastRead # "Retry")

(* A file that becomes readable is picked up: the retry is "unbounded in   *)
(* time and bounded in rate".                                              *)
AppearedFileIsPickedUp ==
  \A m \in Maps : <>[](Settled(m) /\ Readable(m)) => <>(packet.stars = m)

(* A settled record costs one read of its id per poll, not a full read.    *)
SettledStopsReading ==
  \A m \in Maps : <>[](Settled(m) /\ Readable(m)) => <>[](step # "snapshot")

(* What the code's comments and tests say of the Restore arm: it restores  *)
(* the map already held ...                                                *)
RestoreMeansHeld ==
  lastRead = "Restore" => packet.meta # NoMap /\ packet.stars # NoMap

(* ... and is never reached by a new map whose md5 has not landed.         *)
RestoreSameMap ==
  lastRead = "Restore" /\ packet.meta # NoMap => packet.title = packet.meta

(* The published map "goes away with the rest of the packet when osu!      *)
(* itself does".                                                           *)
BeatmapGoesWithProcess ==
  attached /\ packet.title # NoMap => packet.proc = handle
=============================================================================
