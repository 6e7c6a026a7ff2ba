-------------------------- MODULE SoloBeatmap_proofs --------------------------
(***************************************************************************)
(* What SoloBeatmap promises for any maps, ids, addresses, write orders    *)
(* and number of game processes, the record of a map for any file, the     *)
(* pattern scan for any memory, and the reads of anything in it.           *)
(***************************************************************************)
EXTENDS MCSoloBeatmap, FiniteSetTheorems, WellFoundedInduction, SequenceTheorems, TLAPS

(* The back-off record stays well formed as time passes and as it grows.   *)
LEMMA ElapseType ==
  ASSUME TypeOK, Elapse
  PROVE  retry' \in RetryRecord
<1>1. PICK gap \in PollGaps :
        retry' = [retry EXCEPT !.wait = IF retry.wait > gap THEN retry.wait - gap ELSE 0]
  BY DEF Elapse
<1>2. gap \in Nat /\ retry \in RetryRecord
  BY ConstantsAssumption DEF ConstantsAssumption, TypeOK, RetryRecord
<1>3. QED
  BY <1>1, <1>2 DEF RetryRecord

(* The recorded back-off is one an attempt can be judged by.                *)
LEMMA NoteType ==
  ASSUME TypeOK
  PROVE  NoteFileLoadFailure \in RetryRecord
<1>1. seen.ptr \in Ptrs \cup {0} /\ retry.delay \in Nat
  BY DEF TypeOK, RetryRecord
<1>2. QED
  BY <1>1, ConstantsAssumption DEF ConstantsAssumption, NoteFileLoadFailure, RetryRecord

(* A snapshot, torn or not, is made of maps and empty strings.             *)
LEMMA SnapshotType ==
  ASSUME TypeOK, step = "snapshot"
  PROVE  Snapshot \in [Fields -> MapsOrNone]
<1>1. seen.ptr \in Ptrs
  BY DEF TypeOK
<1>2. QED
  BY <1>1 DEF TypeOK, Snapshot, Blank, MapsOrNone

(* A file pass leaves a map or nothing.                                    *)
LEMMA PassType ==
  ASSUME NEW bm \in [Fields -> MapsOrNone], NEW pass \in Passes
  PROVE  PassResult(bm, pass) \in MapsOrNone
  BY DEF PassResult, PassOk, Fields, MapsOrNone

(* Publishing a record keeps the packet well formed.                       *)
LEMMA PublishType ==
  ASSUME TypeOK, NEW bm \in [Fields -> MapsOrNone], NEW meta \in MapsOrNone,
         NEW map \in MapsOrNone, Publish(bm, meta, map)
  PROVE  packet' \in PacketRecord
<1>1. packet.graph \in MapsOrNone /\ handle \in Nat
  BY DEF TypeOK, PacketRecord
<1>2. bm["title"] \in MapsOrNone /\ bm["md5"] \in MapsOrNone
  BY DEF Fields
<1>3. QED
  BY <1>1, <1>2 DEF Publish, PacketRecord

(* The types hold in every reachable state: the poll never keeps an        *)
(* address, an id or a file that no read produced.                         *)
THEOREM TypeCorrect == Spec => []TypeOK
<1> USE ConstantsAssumption DEF ConstantsAssumption
<1>1. Init => TypeOK
  <2> SUFFICES ASSUME Init PROVE TypeOK
    OBVIOUS
  <2>1. heap \in [Ptrs -> [Fields -> MapsOrNone]]
    BY DEF Init, Blank, MapsOrNone
  <2>2. packet \in PacketRecord /\ retry \in RetryRecord
    BY DEF Init, PacketRecord, RetryRecord, NoRetry, MapsOrNone
  <2>3. disk \in [Maps -> SUBSET Passes]
    BY DEF Init
  <2>4. seen \in [ptr : Ptrs \cup {0}, id : Nat] /\ step # "snapshot"
    BY DEF Init, NotSeen
  <2>5. running \in BOOLEAN /\ attached \in BOOLEAN /\ based \in BOOLEAN
    BY Zenon DEF Init
  <2>6. /\ procs \in Nat /\ handle \in Nat /\ cachedId \in Nat /\ settledFor \in 0..3
        /\ ptr \in Ptrs \cup {0} /\ cachedPtr \in Ptrs \cup {0}
    BY DEF Init
  <2>7. /\ target \in MapsOrNone /\ checksum \in MapsOrNone /\ beatmap \in MapsOrNone
        /\ metadata \in MapsOrNone
    BY DEF Init, MapsOrNone
  <2>8. /\ unwritten \subseteq Fields /\ lastRead \in Reads
        /\ step \in {"idle", "scan", "locate", "snapshot"}
    BY DEF Init, Reads
  <2>9. QED
    BY <2>1, <2>2, <2>3, <2>4, <2>5, <2>6, <2>7, <2>8 DEF TypeOK
<1>2. TypeOK /\ [Next]_vars => TypeOK'
  <2> SUFFICES ASSUME TypeOK, [Next]_vars PROVE TypeOK'
    OBVIOUS
  <2> USE DEF session, caches, game, BeginPoll, EndPoll
  <2>1. CASE StartGame
    <3>1. heap' \in [Ptrs -> [Fields -> MapsOrNone]]
      BY <2>1 DEF StartGame, Blank, MapsOrNone
    <3>2. QED
      BY <2>1, <3>1 DEF StartGame, TypeOK, MapsOrNone
  <2>2. CASE QuitGame
    BY <2>2 DEF QuitGame, TypeOK
  <2>3. ASSUME NEW m \in Maps, NEW p \in Ptrs, SelectMap(m, p) PROVE TypeOK'
    BY <2>3 DEF SelectMap, TypeOK, MapsOrNone
  <2>4. ASSUME NEW f \in Fields, WriteField(f) PROVE TypeOK'
    <3>1. heap' \in [Ptrs -> [Fields -> MapsOrNone]]
      BY <2>4 DEF WriteField, TypeOK
    <3>2. QED
      BY <2>4, <3>1 DEF WriteField, TypeOK
  <2>5. CASE EndMap
    BY <2>5 DEF EndMap, TypeOK
  <2>6. ASSUME NEW m \in Maps, DiskChange(m) PROVE TypeOK'
    <3>1. disk' \in [Maps -> SUBSET Passes]
      BY <2>6 DEF DiskChange, TypeOK
    <3>2. QED
      BY <2>6, <3>1 DEF DiskChange, TypeOK
  <2>7. CASE PollDetach
    BY <2>7, ElapseType DEF PollDetach, TypeOK, MapsOrNone
  <2>8. CASE PollNothing
    BY <2>8, ElapseType DEF PollNothing, TypeOK
  <2>9. CASE PollOpen
    <3>1. retry' \in RetryRecord
      BY <2>9, ElapseType DEF PollOpen
    <3>2. /\ handle' \in Nat /\ settledFor' \in 0..3 /\ checksum' \in MapsOrNone
          /\ beatmap' \in MapsOrNone
      BY <2>9 DEF PollOpen, TypeOK, MapsOrNone
    <3>3. QED
      BY <2>9, <3>1, <3>2 DEF PollOpen, TypeOK
  <2>10. CASE PollAttached
    BY <2>10, ElapseType DEF PollAttached, TypeOK
  <2>11. CASE ScanFound
    BY <2>11 DEF ScanFound, TypeOK
  <2>12. CASE ScanMissed
    BY <2>12 DEF ScanMissed, TypeOK
  <2>13. CASE LocateFailed
    BY <2>13 DEF LocateFailed, TypeOK
  <2>14. CASE LocateNull
    BY <2>14 DEF LocateNull, TypeOK
  <2>15. CASE LocateChanged
    <3>1. ptr \in Ptrs /\ heap[ptr]["id"] \in MapsOrNone
      BY <2>15 DEF LocateChanged, TypeOK, Fields
    <3>2. IdIn(heap[ptr]["id"]) \in Nat
      BY <3>1 DEF IdIn, MapsOrNone
    <3>3. QED
      BY <2>15, <3>1, <3>2 DEF LocateChanged, TypeOK
  <2>16. ASSUME NEW c \in BOOLEAN, LocateSame(c) PROVE TypeOK'
    <3>1. packet' \in PacketRecord
      BY <2>16 DEF LocateSame, TypeOK, PacketRecord
    <3>2. QED
      BY <2>16, <3>1 DEF LocateSame, TypeOK
  <2>17. CASE SnapshotIgnored
    BY <2>17 DEF SnapshotIgnored, TypeOK, NotSeen
  <2>18. CASE SnapshotRetry
    BY <2>18 DEF SnapshotRetry, TypeOK, NotSeen, Reads
  <2>19. CASE SnapshotLoad
    <3>1. Snapshot \in [Fields -> MapsOrNone]
      BY <2>19, SnapshotType DEF SnapshotLoad
    <3>2. metadata' \in MapsOrNone /\ beatmap' \in MapsOrNone
      BY <2>19, <3>1, PassType DEF SnapshotLoad, Passes
    <3>3. packet' \in PacketRecord
      BY <2>19, <3>1, <3>2, PublishType DEF SnapshotLoad
    <3>4. retry' \in RetryRecord
      BY <2>19, NoteType DEF SnapshotLoad, NoRetry, RetryRecord
    <3>5. Snapshot["md5"] \in MapsOrNone /\ seen.id \in Nat
      BY <3>1 DEF Fields, TypeOK
    <3>6. checksum' \in MapsOrNone /\ cachedId' \in Nat /\ cachedPtr' \in Ptrs \cup {0}
      BY <2>19, <3>5 DEF SnapshotLoad, TypeOK
    <3>7. /\ lastRead' = "Load" /\ step' = "idle" /\ seen' = NotSeen
          /\ settledFor' \in 0..3
          /\ UNCHANGED <<game, handle, attached, based>>
      BY <2>19 DEF SnapshotLoad, TypeOK
    <3>8. QED
      BY <3>2, <3>3, <3>4, <3>6, <3>7 DEF TypeOK, NotSeen, Reads
  <2>20. CASE SnapshotRestore
    <3>1. packet' \in PacketRecord
      BY <2>20, SnapshotType, PublishType DEF SnapshotRestore, TypeOK
    <3>2. QED
      BY <2>20, <3>1 DEF SnapshotRestore, TypeOK, NotSeen, Reads
  <2>21. CASE UNCHANGED vars
    BY <2>21 DEF vars, TypeOK
  <2>22. QED
    BY <2>1, <2>2, <2>3, <2>4, <2>5, <2>6, <2>7, <2>8, <2>9, <2>10, <2>11, <2>12,
       <2>13, <2>14, <2>15, <2>16, <2>17, <2>18, <2>19, <2>20, <2>21
       DEF Next, Environment, Poll, Locate, ReadSnapshot
<1>3. QED
  BY <1>1, <1>2, PTL DEF Spec

-----------------------------------------------------------------------------
(* The map behind the live pp is the one whose metadata is published: what *)
(* keeps the statistics that a change of mods rebuilds from the parsed map *)
(* in line with the object counts published before it.                     *)
PublishedMetaIsHeld ==
  packet.meta # NoMap /\ beatmap # NoMap => packet.meta = beatmap

FileInv == FilePassesAgree /\ PublishedFromOneFile /\ PublishedMetaIsHeld

(* Steps that leave the packet and the two file passes alone, or only let  *)
(* go of the parsed map.                                                   *)
LEMMA FileInvKept ==
  ASSUME FileInv, UNCHANGED <<metadata, packet>>, beatmap' \in {beatmap, NoMap}
  PROVE  FileInv'
  BY DEF FileInv, FilePassesAgree, PublishedFromOneFile, PublishedMetaIsHeld

(* The object counts and the stars that go out come from one file, whatever*)
(* the file passes do and however the game tears its record.               *)
THEOREM FilesAgree == Spec => [](FilePassesAgree /\ PublishedFromOneFile)
<1>1. Init => FileInv
  <2> SUFFICES ASSUME Init PROVE FileInv
    OBVIOUS
  <2>1. metadata = NoMap /\ beatmap = NoMap /\ packet.meta = NoMap
    BY DEF Init
  <2>2. QED
    BY <2>1 DEF FileInv, FilePassesAgree, PublishedFromOneFile, PublishedMetaIsHeld
<1>2. TypeOK /\ FileInv /\ [Next]_vars => FileInv'
  <2> SUFFICES ASSUME TypeOK, FileInv, [Next]_vars PROVE FileInv'
    OBVIOUS
  <2> USE DEF session, caches, game
  <2>1. CASE Environment
    BY <2>1, FileInvKept DEF Environment, StartGame, QuitGame, SelectMap, WriteField, EndMap,
                             DiskChange
  <2>2. CASE PollDetach \/ PollNothing \/ PollOpen \/ PollAttached
    BY <2>2, FileInvKept DEF PollDetach, PollNothing, PollOpen, PollAttached
  <2>3. CASE ScanFound \/ ScanMissed
    BY <2>3, FileInvKept DEF ScanFound, ScanMissed
  <2>4. CASE LocateFailed \/ LocateNull \/ LocateChanged
    BY <2>4, FileInvKept DEF LocateFailed, LocateNull, LocateChanged
  <2>5. ASSUME NEW c \in BOOLEAN, LocateSame(c) PROVE FileInv'
    <3>1. UNCHANGED <<metadata, beatmap>>
      BY <2>5 DEF LocateSame
    <3>2. packet'.meta = packet.meta /\ packet'.stars \in {packet.stars, beatmap}
      BY <2>5 DEF LocateSame, TypeOK, PacketRecord
    <3>3. QED
      BY <3>1, <3>2 DEF FileInv, FilePassesAgree, PublishedFromOneFile, PublishedMetaIsHeld
  <2>6. CASE SnapshotIgnored \/ SnapshotRetry
    BY <2>6, FileInvKept DEF SnapshotIgnored, SnapshotRetry
  <2>7. CASE SnapshotLoad
    <3>1. /\ metadata' \in {Snapshot["file"], NoMap}
          /\ beatmap' \in {Snapshot["file"], NoMap}
      BY <2>7 DEF SnapshotLoad, PassResult
    <3>2. packet'.meta = metadata' /\ packet'.stars = beatmap'
      BY <2>7 DEF SnapshotLoad, Publish
    <3>3. QED
      BY <3>1, <3>2 DEF FileInv, FilePassesAgree, PublishedFromOneFile, PublishedMetaIsHeld
  <2>8. CASE SnapshotRestore
    <3>1. UNCHANGED <<metadata, beatmap>>
      BY <2>8 DEF SnapshotRestore
    <3>2. packet'.meta = metadata /\ packet'.stars = beatmap
      BY <2>8 DEF SnapshotRestore, Publish
    <3>3. QED
      BY <3>1, <3>2 DEF FileInv, FilePassesAgree, PublishedFromOneFile, PublishedMetaIsHeld
  <2>9. CASE UNCHANGED vars
    BY <2>9, FileInvKept DEF vars
  <2>10. QED
    BY <2>1, <2>2, <2>3, <2>4, <2>5, <2>6, <2>7, <2>8, <2>9
       DEF Next, Poll, Locate, ReadSnapshot
<1>3. FileInv => FilePassesAgree /\ PublishedFromOneFile
  BY DEF FileInv
<1>4. QED
  BY <1>1, <1>2, <1>3, TypeCorrect, PTL DEF Spec

-----------------------------------------------------------------------------
(* Why an id is never pinned over an unread map while the first process    *)
(* lives: a fresh handle finds no id pinned, and only a committing load    *)
(* pins one.  The second process finds the first one's id, so the handle   *)
(* is part of the invariant.                                               *)
HandleInv ==
  /\ handle <= procs
  /\ running => procs > 0
  /\ step # "idle" => handle # 0

FreshHandleHasNoId ==
  /\ procs = 0 => cachedId = 0 /\ handle = 0
  /\ running /\ procs = 1 /\ handle = 0 => cachedId = 0

PinInv == HandleInv /\ FreshHandleHasNoId /\ PinnedMeansLoaded

(* Steps that leave the session's caches and the processes alone.          *)
LEMMA PinInvKept ==
  ASSUME PinInv, UNCHANGED <<running, procs, handle, checksum, beatmap, metadata>>,
         cachedId' \in {cachedId, 0},
         step' # "idle" => step # "idle"
  PROVE  PinInv'
  BY DEF PinInv, HandleInv, FreshHandleHasNoId, PinnedMeansLoaded

(* While the first process lives, a pinned id has a map behind it, parsed  *)
(* and with its metadata: the freeze without stars that caches_may_advance *)
(* exists to prevent cannot happen.                                        *)
THEOREM PinnedIsLoaded == Spec => []PinnedMeansLoaded
<1>1. Init => PinInv
  BY DEF Init, PinInv, HandleInv, FreshHandleHasNoId, PinnedMeansLoaded
<1>2. TypeOK /\ PinInv /\ [Next]_vars => PinInv'
  <2> SUFFICES ASSUME TypeOK, PinInv, [Next]_vars PROVE PinInv'
    OBVIOUS
  <2>a. procs \in Nat /\ handle \in Nat /\ cachedId \in Nat
    BY DEF TypeOK
  <2> USE DEF session, caches, game
  <2>1. CASE StartGame
    BY <2>1, <2>a DEF StartGame, PinInv, HandleInv, FreshHandleHasNoId, PinnedMeansLoaded
  <2>2. CASE QuitGame
    BY <2>2 DEF QuitGame, PinInv, HandleInv, FreshHandleHasNoId, PinnedMeansLoaded
  <2>3. ASSUME NEW m \in Maps, NEW p \in Ptrs, SelectMap(m, p) PROVE PinInv'
    BY <2>3, PinInvKept DEF SelectMap
  <2>4. ASSUME NEW f \in Fields, WriteField(f) PROVE PinInv'
    BY <2>4, PinInvKept DEF WriteField
  <2>5. CASE EndMap
    BY <2>5, PinInvKept DEF EndMap
  <2>6. ASSUME NEW m \in Maps, DiskChange(m) PROVE PinInv'
    BY <2>6, PinInvKept DEF DiskChange
  <2>7. CASE PollDetach
    BY <2>7, <2>a DEF PollDetach, Alive, PinInv, HandleInv, FreshHandleHasNoId, PinnedMeansLoaded
  <2>8. CASE PollNothing
    BY <2>8, PinInvKept DEF PollNothing
  <2>9. CASE PollOpen
    BY <2>9, <2>a DEF PollOpen, PinInv, HandleInv, FreshHandleHasNoId, PinnedMeansLoaded
  <2>10. CASE PollAttached
    BY <2>10, <2>a DEF PollAttached, Alive, PinInv, HandleInv, FreshHandleHasNoId, PinnedMeansLoaded
  <2>11. CASE ScanFound
    BY <2>11, PinInvKept DEF ScanFound
  <2>12. CASE ScanMissed
    BY <2>12, PinInvKept DEF ScanMissed
  <2>13. CASE LocateFailed
    BY <2>13, PinInvKept DEF LocateFailed
  <2>14. CASE LocateNull
    BY <2>14, PinInvKept DEF LocateNull
  <2>15. CASE LocateChanged
    BY <2>15, PinInvKept DEF LocateChanged
  <2>16. ASSUME NEW c \in BOOLEAN, LocateSame(c) PROVE PinInv'
    BY <2>16, PinInvKept DEF LocateSame
  <2>17. CASE SnapshotIgnored
    BY <2>17, PinInvKept DEF SnapshotIgnored
  <2>18. CASE SnapshotRetry
    BY <2>18, PinInvKept DEF SnapshotRetry
  <2>19. CASE SnapshotLoad
    <3>1. /\ step = "snapshot" /\ step' = "idle"
          /\ UNCHANGED <<running, procs, handle>>
      BY <2>19 DEF SnapshotLoad
    <3>2. cachedId' # 0 => metadata' # NoMap /\ beatmap' # NoMap /\ checksum' # NoMap
      BY <2>19 DEF SnapshotLoad, CachesMayAdvance, PassResult, PassOk, BeatmapReadAction
    <3>3. handle # 0
      BY <3>1 DEF PinInv, HandleInv
    <3>4. QED
      BY <3>1, <3>2, <3>3, <2>a DEF PinInv, HandleInv, FreshHandleHasNoId, PinnedMeansLoaded
  <2>20. CASE SnapshotRestore
    BY <2>20, PinInvKept DEF SnapshotRestore
  <2>21. CASE UNCHANGED vars
    BY <2>21, PinInvKept DEF vars
  <2>22. CASE Environment
    BY <2>22, <2>1, <2>2, <2>3, <2>4, <2>5, <2>6, ConstantsAssumption
       DEF Environment, ConstantsAssumption
  <2>23. CASE Poll
    BY <2>23, <2>7, <2>8, <2>9, <2>10, <2>11, <2>12, <2>13, <2>14, <2>15, <2>16, <2>17,
       <2>18, <2>19, <2>20 DEF Poll, Locate, ReadSnapshot
  <2>24. QED
    BY <2>21, <2>22, <2>23 DEF Next
<1>3. PinInv => PinnedMeansLoaded
  BY DEF PinInv
<1>4. QED
  BY <1>1, <1>2, <1>3, TypeCorrect, PTL DEF Spec

DetachInv == HandleInv /\ NothingHeldDetached

(* A session with no process open holds nothing parsed and no checksum, so *)
(* the next process's first complete record is loaded, never restored.     *)
THEOREM DetachedHoldsNothing == Spec => []NothingHeldDetached
<1>1. Init => DetachInv
  BY DEF Init, DetachInv, HandleInv, NothingHeldDetached
<1>2. TypeOK /\ DetachInv /\ [Next]_vars => DetachInv'
  <2> SUFFICES ASSUME TypeOK, DetachInv, [Next]_vars PROVE DetachInv'
    OBVIOUS
  <2>a. procs \in Nat /\ handle \in Nat
    BY DEF TypeOK
  <2> USE DEF session, caches, game, DetachInv, HandleInv, NothingHeldDetached
  <2>1. CASE Environment
    <3>1. CASE StartGame
      BY <3>1, <2>a DEF StartGame
    <3>2. CASE QuitGame
      BY <3>2 DEF QuitGame
    <3>3. ASSUME UNCHANGED <<running, procs, session>> PROVE DetachInv'
      BY <3>3
    <3>4. QED
      BY <2>1, <3>1, <3>2, <3>3 DEF Environment, SelectMap, WriteField, EndMap, DiskChange
  <2>2. CASE PollDetach \/ PollNothing
    BY <2>2, <2>a DEF PollDetach, PollNothing
  <2>3. CASE PollOpen \/ PollAttached
    BY <2>3, <2>a DEF PollOpen, PollAttached, Alive
  <2>4. CASE ScanFound \/ ScanMissed
    BY <2>4 DEF ScanFound, ScanMissed
  <2>5. CASE Locate
    BY <2>5 DEF Locate, LocateFailed, LocateNull, LocateChanged, LocateSame
  <2>6. CASE SnapshotIgnored \/ SnapshotRetry \/ SnapshotRestore
    BY <2>6 DEF SnapshotIgnored, SnapshotRetry, SnapshotRestore
  <2>7. CASE SnapshotLoad
    <3>1. /\ step = "snapshot" /\ step' = "idle"
          /\ UNCHANGED <<running, procs, handle>>
      BY <2>7 DEF SnapshotLoad
    <3>2. QED
      BY <3>1
  <2>8. CASE UNCHANGED vars
    BY <2>8 DEF vars
  <2>9. QED
    BY <2>1, <2>2, <2>3, <2>4, <2>5, <2>6, <2>7, <2>8 DEF Next, Poll, ReadSnapshot
<1>3. DetachInv => NothingHeldDetached
  BY DEF DetachInv
<1>4. QED
  BY <1>1, <1>2, <1>3, TypeCorrect, PTL DEF Spec

-----------------------------------------------------------------------------
(* A published title always goes with a published checksum.                *)
TitledMeansSummed == packet.title # NoMap => packet.md5 # NoMap

(* Every way a step may touch the packet: the file half only, or a record  *)
(* with both a title and a checksum.                                       *)
LEMMA PacketSteps ==
  ASSUME TypeOK, [Next]_vars
  PROVE  \/ packet'.title = packet.title /\ packet'.md5 = packet.md5
         \/ packet'.title # NoMap /\ packet'.md5 # NoMap
<1> USE DEF session, caches, game
<1>1. CASE UNCHANGED packet
  BY <1>1
<1>2. ASSUME NEW c \in BOOLEAN, LocateSame(c)
      PROVE  packet'.title = packet.title /\ packet'.md5 = packet.md5
  BY <1>2 DEF LocateSame, TypeOK, PacketRecord
<1>3. CASE SnapshotLoad
  BY <1>3 DEF SnapshotLoad, Publish, BeatmapReadAction
<1>4. CASE SnapshotRestore
  BY <1>4 DEF SnapshotRestore, Publish, BeatmapReadAction
<1>5. CASE Environment
  BY <1>5, <1>1 DEF Environment, StartGame, QuitGame, SelectMap, WriteField, EndMap, DiskChange
<1>6. CASE PollDetach \/ PollNothing \/ PollOpen \/ PollAttached \/ ScanFound \/ ScanMissed
  BY <1>6, <1>1 DEF PollDetach, PollNothing, PollOpen, PollAttached, ScanFound, ScanMissed
<1>7. CASE LocateFailed \/ LocateNull \/ LocateChanged \/ SnapshotIgnored \/ SnapshotRetry
  BY <1>7, <1>1 DEF LocateFailed, LocateNull, LocateChanged, SnapshotIgnored, SnapshotRetry
<1>8. CASE UNCHANGED vars
  BY <1>8, <1>1 DEF vars
<1>9. QED
  BY <1>2, <1>3, <1>4, <1>5, <1>6, <1>7, <1>8 DEF Next, Poll, Locate, ReadSnapshot

(* Once a beatmap is published it is only ever replaced by another one,    *)
(* never blanked by a partial read, a failed file or a lost process.       *)
THEOREM PublishedNeverBlanked == Spec => NeverBlanked
<1>1. Init => TitledMeansSummed
  BY DEF Init, TitledMeansSummed
<1>2. TypeOK /\ TitledMeansSummed /\ [Next]_vars => TitledMeansSummed'
  BY PacketSteps DEF TitledMeansSummed
<1>3. TypeOK /\ TitledMeansSummed /\ [Next]_vars
      => [packet.title # NoMap => packet'.title # NoMap /\ packet'.md5 # NoMap]_packet
  BY PacketSteps DEF TitledMeansSummed
<1>4. QED
  BY <1>1, <1>2, <1>3, TypeCorrect, PTL DEF Spec, NeverBlanked

-----------------------------------------------------------------------------
(* What the session holds and what it publishes is whole, whatever the     *)
(* game writes, whichever files fail and however often it is restarted.    *)
THEOREM BeatmapStaysWhole == Spec => []BeatmapIsWhole
<1>1. FilePassesAgree /\ PublishedFromOneFile /\ PinnedMeansLoaded /\ NothingHeldDetached
      => BeatmapIsWhole
  BY DEF BeatmapIsWhole
<1>2. QED
  BY <1>1, FilesAgree, PinnedIsLoaded, DetachedHoldsNothing, PTL

-----------------------------------------------------------------------------
(* The statistics put onto the record of a map (OsuFile).                  *)
IsSnapshot(r) ==
  /\ {"counts", "last", "bpm", "base"} \subseteq DOMAIN r
  /\ r = [f \in DOMAIN r |-> r[f]]

(* "Safe to call repeatedly on the same snapshot" (beatmap.rs): a pass     *)
(* writes what it would have written had the pass before it, under other   *)
(* mods, not been; so that of any number of passes the last one counts.    *)
THEOREM OnlyTheLastModsCount ==
  ASSUME NEW r, IsSnapshot(r), NEW song, NEW before, NEW mods
  PROVE  /\ IsSnapshot(File!StatsPass(r, song, before))
         /\ File!StatsPass(File!StatsPass(r, song, before), song, mods)
              = File!StatsPass(r, song, mods)
  <1> DEFINE Last == IF song.last = None THEN r.last ELSE song.last
             Bpm(m) == [w \in DOMAIN r.bpm |->
                          IF w = "common" THEN File!Rounded(song.bpm * File!Rate(m))
                                          ELSE File!Scaled(r, w, song, m)]
             After(m) == [r EXCEPT !.counts = song.counts, !.last = Last, !.bpm = Bpm(m)]
             q == After(before)
  <1>1. \A m : File!StatsPass(r, song, m) = After(m)
    BY DEF File!StatsPass
  <1> HIDE DEF Last, Bpm
  <1>2. /\ DOMAIN q = DOMAIN r /\ IsSnapshot(q)
        /\ q.counts = song.counts /\ q.last = Last /\ q.bpm = Bpm(before) /\ q.base = r.base
    BY DEF IsSnapshot
  <1>3. DOMAIN Bpm(before) = DOMAIN r.bpm
    BY DEF Bpm
  <1>4. \A w, m : File!Scaled(q, w, song, m) = File!Scaled(r, w, song, m)
    BY <1>2 DEF File!Scaled
  <1>5. [w \in DOMAIN q.bpm |->
           IF w = "common" THEN File!Rounded(song.bpm * File!Rate(mods))
                           ELSE File!Scaled(q, w, song, mods)] = Bpm(mods)
    BY <1>2, <1>3, <1>4 DEF Bpm
  <1>6. (IF song.last = None THEN q.last ELSE song.last) = Last
    BY <1>2 DEF Last
  <1>7. File!StatsPass(q, song, mods)
          = [q EXCEPT !.counts = song.counts, !.last = Last, !.bpm = Bpm(mods)]
    BY <1>2, <1>5, <1>6 DEF File!StatsPass
  <1>8. [q EXCEPT !.counts = song.counts, !.last = Last, !.bpm = Bpm(mods)] = After(mods)
    BY DEF IsSnapshot
  <1> QED
    BY <1>1, <1>2, <1>7, <1>8

-----------------------------------------------------------------------------
(* Counting: what holds of 0, and of n + 1 if it does of n, holds of every *)
(* number.                                                                 *)

(* A set of numbers below n has a least one: the order of finite subsets   *)
(* by inclusion is well founded, and so is that of the numbers before each.*)
LEMMA LeastBelow ==
  ASSUME NEW n \in Nat, NEW D \in SUBSET (0..n), D # {}
  PROVE  \E m \in D : \A d \in D : m <= d
  <1> DEFINE before(d) == {e \in D : e < d}
             befores == {before(d) : d \in D}
  <1>1. IsWellFoundedOn(StrictSubsetOrdering(D), FiniteSubsetsOf(D))
    BY FS_StrictSubsetOrderingWellFounded
  <1>2. FiniteSubsetsOf(D) = SUBSET D
    <2>1. IsFiniteSet(0..n)
      BY FS_Interval
    <2>2. IsFiniteSet(D)
      BY <2>1, FS_Subset
    <2> QED
      BY <2>2, FS_FiniteSubsetsOfFinite
  <1>3. befores \subseteq SUBSET D /\ befores # {}
    OBVIOUS
  <1>4. PICK s \in befores : \A u \in befores : <<u, s>> \notin StrictSubsetOrdering(D)
    <2>1. befores \subseteq FiniteSubsetsOf(D)
      BY <1>2, <1>3
    <2> HIDE DEF befores
    <2> QED
      BY <1>1, <1>3, <2>1, WFMin
  <1>5. PICK m \in D : s = before(m)
    OBVIOUS
  <1>6. ASSUME NEW d \in D, ~(m <= d)
        PROVE  FALSE
    <2>1. \A e \in D : e \in Int
      OBVIOUS
    <2>2. d < m /\ (\A e \in D : e < d => e < m) /\ ~(d < d)
      BY <1>6, <2>1
    <2>3. <<before(d), before(m)>> \in StrictSubsetOrdering(D)
      <3>1. before(d) \subseteq before(m) /\ d \in before(m) /\ d \notin before(d)
        BY <2>2
      <3> QED
        BY <3>1 DEF StrictSubsetOrdering
    <2> QED
      BY <2>3, <1>4, <1>5
  <1> QED
    BY <1>6

LEMMA Counting ==
  ASSUME NEW G, 0 \in G, \A n \in Nat : n \in G => n + 1 \in G
  PROVE  Nat \subseteq G
  <1> SUFFICES ASSUME NEW n \in Nat, n \notin G
               PROVE  FALSE
    OBVIOUS
  <1> DEFINE D == {i \in 0..n : i \notin G}
  <1>1. D \in SUBSET (0..n) /\ n \in D
    OBVIOUS
  <1>2. PICK m \in D : \A d \in D : m <= d
    <2> HIDE DEF D
    <2> QED
      BY <1>1, LeastBelow
  <1>3. m # 0 /\ m \in Nat /\ m <= n /\ m \notin G
    OBVIOUS
  <1>4. m - 1 \in G
    <2> SUFFICES ASSUME m - 1 \notin G
                 PROVE  FALSE
      OBVIOUS
    <2>1. m - 1 \in D
      BY <1>3
    <2>2. m <= m - 1
      BY <1>2, <2>1
    <2> QED
      BY <1>3, <2>2
  <1> QED
    BY <1>3, <1>4

-----------------------------------------------------------------------------
(* Extremes.                                                               *)
LEMMA MostIs ==
  ASSUME NEW S \in SUBSET Int, NEW x \in S, NEW top \in Int, \A y \in S : y <= top
  PROVE  File!Most(S) \in S /\ \A y \in S : y <= File!Most(S)
  <1> DEFINE D == {i \in 0..(top - x) : top - i \in S}
  <1>1. top - x \in Nat /\ x \in Int /\ x <= top
    OBVIOUS
  <1>2. D \in SUBSET (0..(top - x)) /\ top - x \in D
    BY <1>1
  <1>3. PICK m \in D : \A d \in D : m <= d
    <2> HIDE DEF D
    <2> QED
      BY <1>1, <1>2, LeastBelow
  <1>4. ASSUME NEW y \in S
        PROVE  y <= top - m
    <2>1. y \in Int /\ y <= top /\ m \in Int /\ top - m \in Int /\ m <= top - x
      BY <1>1, <1>3
    <2>2. CASE y < x
      BY <1>1, <2>1, <2>2
    <2>3. CASE y >= x
      <3>1. top - y \in D
        BY <1>1, <2>1, <2>3
      <3>2. m <= top - y
        BY <1>3, <3>1
      <3> QED
        BY <2>1, <3>2
    <2> QED
      BY <1>1, <2>1, <2>2, <2>3
  <1>5. top - m \in S
    BY <1>3
  <1> HIDE DEF D
  <1>6. \E z \in S : \A y \in S : z >= y
    <2> WITNESS top - m \in S
    <2> QED
      BY <1>1, <1>3, <1>4, <1>5
  <1>7. File!Most(S) \in S /\ \A y \in S : File!Most(S) >= y
    BY <1>6 DEF File!Most
  <1> QED
    BY <1>7

LEMMA LeastIs ==
  ASSUME NEW S \in SUBSET Nat, NEW x \in S
  PROVE  File!Least(S) \in S /\ \A y \in S : File!Least(S) <= y
  <1> DEFINE D == {i \in 0..x : i \in S}
  <1>1. D \in SUBSET (0..x) /\ x \in D /\ x \in Nat
    OBVIOUS
  <1>2. PICK m \in D : \A d \in D : m <= d
    <2> HIDE DEF D
    <2> QED
      BY <1>1, LeastBelow
  <1>3. ASSUME NEW y \in S
        PROVE  m <= y
    <2>1. CASE y <= x
      BY <1>2, <2>1
    <2>2. CASE y > x
      BY <2>2
    <2> QED
      BY <2>1, <2>2
  <1>4. m \in S
    OBVIOUS
  <1>5. \E z \in S : \A y \in S : z <= y
    BY <1>3, <1>4
  <1> QED
    BY <1>5 DEF File!Least

(* Finitely many numbers have a bound.                                     *)
LEMMA BoundIs ==
  ASSUME NEW n \in Nat, NEW f \in [1..n -> Int]
  PROVE  \E top \in Int : \A i \in 1..n : f[i] <= top
  <1> DEFINE G == {m \in Nat : m <= n => \E top \in Int : \A i \in 1..m : f[i] <= top}
  <1>1. 0 \in G
    OBVIOUS
  <1>2. ASSUME NEW m \in Nat, m \in G
        PROVE  m + 1 \in G
    <2> SUFFICES ASSUME m + 1 <= n
                 PROVE  \E top \in Int : \A i \in 1..(m + 1) : f[i] <= top
      OBVIOUS
    <2>1. PICK top \in Int : \A i \in 1..m : f[i] <= top
      BY <1>2
    <2>2. f[m + 1] \in Int /\ \A i \in 1..(m + 1) : f[i] \in Int /\ (i \in 1..m \/ i = m + 1)
      OBVIOUS
    <2>3. CASE f[m + 1] <= top
      BY <2>1, <2>2, <2>3
    <2>4. CASE top < f[m + 1]
      <3>1. \A i \in 1..(m + 1) : f[i] <= f[m + 1]
        BY <2>1, <2>2, <2>4
      <3> QED
        BY <2>2, <3>1
    <2> QED
      BY <2>2, <2>3, <2>4
  <1>3. Nat \subseteq G
    <2> HIDE DEF G
    <2> QED
      BY <1>1, <1>2, Counting
  <1>4. n \in G
    BY <1>3
  <1> QED
    BY <1>4

-----------------------------------------------------------------------------
(* The loops over the lines of a file and over its timing points.          *)
LEMMA LinesLoop ==
  ASSUME NEW file, Len(file) \in Nat
  PROVE  /\ File!TimedUpTo(file)[0] = <<>>
         /\ \A i \in 1..Len(file) : File!TimedUpTo(file)[i] = File!Timed(File!TimedUpTo(file)[i - 1], file[i])
  <1> DEFINE Step(F, i) == IF i = 0 THEN <<>> ELSE File!Timed(F[i - 1], file[i])
             IsLoop(F, m) == F = [i \in 0..m |-> Step(F, i)]
             G == {m \in Nat : \E F : IsLoop(F, m)}
  <1>1. 0 \in G
    <2> DEFINE F == [i \in 0..0 |-> <<>>]
    <2>1. F = [i \in 0..0 |-> Step(F, i)]
      OBVIOUS
    <2>2. IsLoop(F, 0)
      BY <2>1
    <2> HIDE DEF F, IsLoop
    <2> QED
      BY <2>2
  <1>2. ASSUME NEW m \in Nat, m \in G
        PROVE  m + 1 \in G
    <2>1. PICK F : IsLoop(F, m)
      BY <1>2
    <2> DEFINE H == [i \in 0..(m + 1) |-> IF i <= m THEN F[i] ELSE File!Timed(F[m], file[m + 1])]
               E == [i \in 0..(m + 1) |-> Step(H, i)]
    <2>2. ASSUME NEW i \in 0..(m + 1)
          PROVE  H[i] = E[i]
      <3>1. CASE i = 0
        BY <2>1, <3>1
      <3>2. CASE i # 0 /\ i <= m
        <4>1. i \in 0..m /\ i - 1 \in 0..m /\ i - 1 \in 0..(m + 1)
          BY <3>2
        <4>2. F[i] = File!Timed(F[i - 1], file[i])
          BY <2>1, <3>2, <4>1
        <4>3. H[i] = F[i] /\ H[i - 1] = F[i - 1]
          BY <3>2, <4>1
        <4> QED
          BY <3>2, <4>2, <4>3
      <3>3. CASE i = m + 1
        <4>1. /\ H[i] = File!Timed(F[m], file[m + 1])
              /\ H[m] = F[m] /\ i - 1 = m /\ i # 0
          BY <3>3
        <4> QED
          BY <3>3, <4>1
      <3> QED
        BY <3>1, <3>2, <3>3
    <2>3. H = E
      BY <2>2
    <2>4. IsLoop(H, m + 1)
      BY <2>3
    <2> HIDE DEF H, E, IsLoop
    <2> QED
      BY <2>4
  <1>3. Len(file) \in G
    <2> HIDE DEF G
    <2> QED
      BY <1>1, <1>2, Counting
  <1>4. IsLoop(File!TimedUpTo(file), Len(file))
    BY <1>3 DEF File!TimedUpTo
  <1>5. 0 \in 0..Len(file) /\ \A i \in 1..Len(file) : i \in 0..Len(file) /\ i # 0
    OBVIOUS
  <1> QED
    BY <1>4, <1>5

Summed(sums, timing, i, end) ==
  IF timing[i].bpm <= 0 THEN sums
  ELSE [total |-> sums.total + File!Weight(timing, i, end),
        weighted |-> sums.weighted + timing[i].bpm * File!Weight(timing, i, end)]

LEMMA SumsLoop ==
  ASSUME NEW timing, Len(timing) \in Nat, NEW end
  PROVE  /\ File!SumsUpTo(timing, end)[0] = [total |-> 0, weighted |-> 0]
         /\ \A i \in 1..Len(timing) : File!SumsUpTo(timing, end)[i] = Summed(File!SumsUpTo(timing, end)[i - 1], timing, i, end)
  <1> DEFINE Step(F, i) == IF i = 0 THEN [total |-> 0, weighted |-> 0] ELSE Summed(F[i - 1], timing, i, end)
             IsLoop(F, m) == F = [i \in 0..m |-> Step(F, i)]
             G == {m \in Nat : \E F : IsLoop(F, m)}
  <1>1. 0 \in G
    <2> DEFINE F == [i \in 0..0 |-> [total |-> 0, weighted |-> 0]]
    <2>1. F = [i \in 0..0 |-> Step(F, i)]
      OBVIOUS
    <2>2. IsLoop(F, 0)
      BY <2>1
    <2> HIDE DEF F, IsLoop
    <2> QED
      BY <2>2
  <1>2. ASSUME NEW m \in Nat, m \in G
        PROVE  m + 1 \in G
    <2>1. PICK F : IsLoop(F, m)
      BY <1>2
    <2> DEFINE H == [i \in 0..(m + 1) |-> IF i <= m THEN F[i] ELSE Summed(F[m], timing, m + 1, end)]
               E == [i \in 0..(m + 1) |-> Step(H, i)]
    <2>2. ASSUME NEW i \in 0..(m + 1)
          PROVE  H[i] = E[i]
      <3>1. CASE i = 0
        BY <2>1, <3>1
      <3>2. CASE i # 0 /\ i <= m
        <4>1. i \in 0..m /\ i - 1 \in 0..m /\ i - 1 \in 0..(m + 1)
          BY <3>2
        <4>2. F[i] = Summed(F[i - 1], timing, i, end)
          BY <2>1, <3>2, <4>1
        <4>3. H[i] = F[i] /\ H[i - 1] = F[i - 1]
          BY <3>2, <4>1
        <4> QED
          BY <3>2, <4>2, <4>3
      <3>3. CASE i = m + 1
        <4>1. /\ H[i] = Summed(F[m], timing, m + 1, end)
              /\ H[m] = F[m] /\ i - 1 = m /\ i # 0
          BY <3>3
        <4> QED
          BY <3>3, <4>1
      <3> QED
        BY <3>1, <3>2, <3>3
    <2>3. H = E
      BY <2>2
    <2>4. IsLoop(H, m + 1)
      BY Zenon, <2>3
    <2> HIDE DEF H, E, IsLoop
    <2> QED
      BY <2>4
  <1>3. Len(timing) \in G
    <2> HIDE DEF G
    <2> QED
      BY <1>1, <1>2, Counting
  <1>4. IsLoop(File!SumsUpTo(timing, end), Len(timing))
    BY Zenon, <1>3 DEF File!SumsUpTo, Summed
  <1>5. 0 \in 0..Len(timing) /\ \A i \in 1..Len(timing) : i \in 0..Len(timing) /\ i # 0
    OBVIOUS
  <1> QED
    BY <1>4, <1>5

(* Timing points, each with a BPM.                                         *)
Points == [time : Int, bpm : Nat]

LEMMA PointsAre ==
  ASSUME NEW file, File!IsFile(file)
  PROVE  File!TimingOf(file) \in Seq(Points)
  <1> DEFINE T == File!TimedUpTo(file)
             G == {m \in Nat : m <= Len(file) => T[m] \in Seq(Points)}
  <1>0. Len(file) \in Nat /\ DOMAIN file = 1..Len(file)
    BY DEF File!IsFile
  <1>1. 0 \in G
    <2>1. T[0] = <<>>
      BY <1>0, LinesLoop
    <2>2. <<>> \in Seq(Points)
      OBVIOUS
    <2> HIDE DEF T
    <2> QED
      BY <2>1, <2>2
  <1>2. ASSUME NEW m \in Nat, m \in G
        PROVE  m + 1 \in G
    <2> SUFFICES ASSUME m + 1 <= Len(file)
                 PROVE  T[m + 1] \in Seq(Points)
      OBVIOUS
    <2>1. m + 1 \in 1..Len(file) /\ (m + 1) - 1 = m /\ T[m] \in Seq(Points)
      BY <1>0, <1>2
    <2> DEFINE line == file[m + 1]
               points == T[m]
    <2>2. T[m + 1] = File!Timed(points, line)
      <3>1. \A i \in 1..Len(file) : T[i] = File!Timed(T[i - 1], file[i])
        BY <1>0, LinesLoop
      <3> HIDE DEF T
      <3> QED
        BY <2>1, <3>1
    <2>3. line.section = "TimingPoints" => line.time \in {Bad} \cup Int /\ line.bpm \in {Bad} \cup Int
      BY <1>0, <2>1 DEF File!IsFile
    <2> DEFINE bpm == IF line.bpm >= 0 THEN line.bpm
                      ELSE IF points = <<>> THEN 12000 ELSE points[Len(points)].bpm
    <2>4. CASE line.section # "TimingPoints" \/ line.time = Bad \/ line.bpm = Bad
      <3> HIDE DEF T
      <3> QED
        BY <2>1, <2>2, <2>4 DEF File!Timed
    <2>5. CASE ~(line.section # "TimingPoints" \/ line.time = Bad \/ line.bpm = Bad)
      <3>1. line.time \in Int /\ line.bpm \in Int
        BY <2>3, <2>5
      <3> HIDE DEF line, points, T
      <3>2. points \in Seq(Points)
        BY <2>1 DEF points
      <3>3. bpm \in Nat
        <4>1. CASE points = <<>>
          BY <3>1, <4>1
        <4>2. CASE points # <<>>
          <5>1. Len(points) \in 1..Len(points)
            BY <3>2, <4>2
          <5>2. points[Len(points)] \in Points
            BY <3>2, <5>1, ElementOfSeq
          <5>3. points[Len(points)].bpm \in Nat
            BY <5>2 DEF Points
          <5> QED
            BY <3>1, <4>2, <5>3
        <4> QED
          BY <4>1, <4>2
      <3>4. File!Timed(points, line) = Append(points, [time |-> line.time, bpm |-> bpm])
        BY <2>5 DEF File!Timed
      <3> HIDE DEF bpm
      <3>5. [time |-> line.time, bpm |-> bpm] \in Points
        BY <3>1, <3>3 DEF Points
      <3> QED
        BY <2>2, <3>2, <3>4, <3>5
    <2> QED
      BY <2>4, <2>5
  <1>3. Nat \subseteq G
    <2> HIDE DEF G
    <2> QED
      BY <1>1, <1>2, Counting
  <1>4. Len(file) \in G
    BY <1>0, <1>3
  <1>5. T[Len(file)] \in Seq(Points)
    BY <1>0, <1>4
  <1> QED
    BY <1>5 DEF File!TimingOf

LEMMA PointIs ==
  ASSUME NEW timing \in Seq(Points)
  PROVE  /\ Len(timing) \in Nat /\ DOMAIN timing = 1..Len(timing)
         /\ \A i \in 1..Len(timing) : timing[i].time \in Int /\ timing[i].bpm \in Nat
  <1>1. Len(timing) \in Nat /\ DOMAIN timing = 1..Len(timing)
    OBVIOUS
  <1>2. \A i \in 1..Len(timing) : timing[i] \in Points
    BY <1>1, ElementOfSeq
  <1> QED
    BY <1>1, <1>2 DEF Points

(* A point lasts for some time, the last one at least for a moment.        *)
LEMMA WeightIs ==
  ASSUME NEW timing \in Seq(Points), NEW i \in 1..Len(timing), NEW end \in Int
  PROVE  /\ File!Weight(timing, i, end) \in Nat
         /\ i = Len(timing) => File!Weight(timing, i, end) > 0
  <1>1. /\ Len(timing) \in Nat /\ timing[i].time \in Int
        /\ i < Len(timing) => timing[i + 1].time \in Int
    BY PointIs
  <1>2. CASE i < Len(timing)
    BY <1>1, <1>2 DEF File!Weight, File!Larger
  <1>3. CASE i = Len(timing)
    BY <1>1, <1>3 DEF File!Weight, File!Larger
  <1> QED
    BY <1>1, <1>2, <1>3

LEMMA Times ==
  ASSUME NEW x \in Nat, NEW y \in Nat, NEW w \in Nat, x <= y
  PROVE  x * w <= y * w /\ x * w \in Nat /\ y * w \in Nat
  <1>1. (y - x) \in Nat /\ (y - x) * w \in Nat
    OBVIOUS
  <1>2. (y - x) * w = y * w - x * w
    OBVIOUS
  <1>3. x * w \in Nat /\ y * w \in Nat
    OBVIOUS
  <1> QED
    BY <1>1, <1>2, <1>3

LEMMA AddedUp ==
  ASSUME NEW lo \in Nat, NEW hi \in Nat, NEW t \in Nat, NEW v \in Nat, NEW w \in Nat, NEW p \in Nat,
         lo * t <= v, v <= hi * t, lo <= p, p <= hi
  PROVE  /\ t + w \in Nat /\ v + p * w \in Nat
         /\ lo * (t + w) <= v + p * w /\ v + p * w <= hi * (t + w)
  <1>1. lo * w <= p * w /\ p * w <= hi * w /\ p * w \in Nat /\ lo * w \in Nat /\ hi * w \in Nat
    BY Times
  <1>2. lo * (t + w) = lo * t + lo * w /\ hi * (t + w) = hi * t + hi * w
    OBVIOUS
  <1>3. lo * t \in Nat /\ hi * t \in Nat
    OBVIOUS
  <1> DEFINE lt == lo * t  ht == hi * t  lw == lo * w  hw == hi * w  pw == p * w
  <1>4. /\ lt \in Nat /\ ht \in Nat /\ lw \in Nat /\ hw \in Nat /\ pw \in Nat
        /\ lw <= pw /\ pw <= hw /\ lt <= v /\ v <= ht
        /\ lo * (t + w) = lt + lw /\ hi * (t + w) = ht + hw
    BY <1>1, <1>2, <1>3
  <1> HIDE DEF lt, ht, lw, hw
  <1>5. v + pw \in Nat /\ lt + lw <= v + pw /\ v + pw <= ht + hw
    <2> HIDE DEF pw
    <2> QED
      BY <1>4
  <1>6. t + w \in Nat
    OBVIOUS
  <1> QED
    BY <1>4, <1>5, <1>6

(* The mean over time lies between the bounds of what it is a mean of.     *)
LEMMA CommonBetween ==
  ASSUME NEW timing \in Seq(Points), NEW end \in Int, NEW lo \in Nat, NEW hi \in Nat,
         \A i \in 1..Len(timing) : timing[i].bpm > 0 => lo <= timing[i].bpm /\ timing[i].bpm <= hi,
         timing # <<>>, timing[Len(timing)].bpm > 0
  PROVE  File!CommonOf(timing, end) \in lo..hi
  <1> DEFINE S == File!SumsUpTo(timing, end)
             Bounded(s) == /\ s.total \in Nat /\ s.weighted \in Nat
                           /\ lo * s.total <= s.weighted /\ s.weighted <= hi * s.total
             G == {m \in Nat : m <= Len(timing) => Bounded(S[m])}
  <1>0. /\ Len(timing) \in Nat /\ DOMAIN timing = 1..Len(timing) /\ Len(timing) \in 1..Len(timing)
        /\ \A i \in 1..Len(timing) : timing[i].time \in Int /\ timing[i].bpm \in Nat
    BY PointIs
  <1>1. /\ S[0] = [total |-> 0, weighted |-> 0]
        /\ \A i \in 1..Len(timing) : S[i] = Summed(S[i - 1], timing, i, end)
    BY <1>0, SumsLoop
  <1>2. 0 \in G
    BY <1>1
  <1> HIDE DEF S
  <1>3. ASSUME NEW i \in 1..Len(timing), timing[i].bpm > 0, NEW s, Bounded(s)
        PROVE  /\ Bounded(Summed(s, timing, i, end))
               /\ i = Len(timing) => Summed(s, timing, i, end).total >= 1
    <2> DEFINE w == File!Weight(timing, i, end)
               p == timing[i].bpm
    <2>1. p \in Nat /\ lo <= p /\ p <= hi
      BY Zenon, <1>0, <1>3
    <2>w. w \in Nat /\ (i = Len(timing) => w > 0)
      BY Zenon, WeightIs
    <2>2. Summed(s, timing, i, end) = [total |-> s.total + w, weighted |-> s.weighted + p * w]
      <3>1. ~(timing[i].bpm <= 0)
        BY <1>0, <1>3
      <3> QED
        BY Zenon, <3>1 DEF Summed
    <2> HIDE DEF w, p
    <2> DEFINE t == s.total
               v == s.weighted
    <2>3. t \in Nat /\ v \in Nat /\ lo * t <= v /\ v <= hi * t
      BY <1>3
    <2> HIDE DEF t, v
    <2>4. /\ t + w \in Nat /\ v + p * w \in Nat
          /\ lo * (t + w) <= v + p * w /\ v + p * w <= hi * (t + w)
      BY <2>1, <2>w, <2>3, AddedUp
    <2> DEFINE next == [total |-> t + w, weighted |-> v + p * w]
    <2>5. Summed(s, timing, i, end) = next
      BY <2>2 DEF t, v
    <2>6. next.total = t + w /\ next.weighted = v + p * w
      OBVIOUS
    <2> HIDE DEF next
    <2>7. Bounded(next)
      BY <2>4, <2>6
    <2>8. i = Len(timing) => next.total >= 1
      BY <2>w, <2>3, <2>6
    <2> HIDE DEF Bounded
    <2> QED
      BY Zenon, <2>5, <2>7, <2>8
  <1>4. ASSUME NEW m \in Nat, m \in G
        PROVE  m + 1 \in G
    <2> SUFFICES ASSUME m + 1 <= Len(timing)
                 PROVE  Bounded(S[m + 1])
      OBVIOUS
    <2>1. m + 1 \in 1..Len(timing) /\ (m + 1) - 1 = m /\ Bounded(S[m])
      BY <1>0, <1>4
    <2>2. S[m + 1] = Summed(S[m], timing, m + 1, end)
      BY <1>1, <2>1
    <2> HIDE DEF Bounded
    <2>3. CASE timing[m + 1].bpm > 0
      BY <1>3, <2>1, <2>2, <2>3
    <2>4. CASE timing[m + 1].bpm <= 0
      <3>1. S[m + 1] = S[m]
        BY <2>2, <2>4 DEF Summed
      <3> QED
        BY <2>1, <3>1
    <2> QED
      BY <1>0, <2>1, <2>3, <2>4
  <1>5. \A m \in 0..Len(timing) : Bounded(S[m])
    <2>1. Nat \subseteq G
      <3> HIDE DEF G
      <3> QED
        BY <1>2, <1>4, Counting
    <2> HIDE DEF Bounded
    <2> QED
      BY <1>0, <2>1
  <1> DEFINE n == Len(timing)
             total == S[n].total
             weighted == S[n].weighted
  <1>6. Bounded(S[n]) /\ total >= 1
    <2>1. n \in 1..Len(timing) /\ n - 1 \in 0..Len(timing) /\ n \in 0..Len(timing)
      BY <1>0
    <2>2. S[n] = Summed(S[n - 1], timing, n, end)
      BY <1>1, <2>1
    <2>3. Bounded(S[n - 1]) /\ Bounded(S[n])
      BY <1>5, <2>1
    <2> HIDE DEF Bounded
    <2> QED
      BY <1>3, <2>1, <2>2, <2>3
  <1>7. File!CommonOf(timing, end) = weighted \div total
    BY <1>6 DEF File!CommonOf, File!Larger, S
  <1>8. ASSUME NEW t \in Nat, t >= 1, NEW v \in Nat, lo * t <= v, v <= hi * t
        PROVE  v \div t \in lo..hi
    <2>1. v = t * (v \div t) + (v % t) /\ v % t \in 0..(t - 1) /\ v \div t \in Int
      BY <1>8
    <2> DEFINE q == v \div t
    <2>2. q \in Int /\ t * q <= v /\ v < t * q + t
      BY <1>8, <2>1
    <2> HIDE DEF q
    <2>3. lo <= q
      <3> SUFFICES ASSUME q + 1 <= lo
                   PROVE  FALSE
        BY <2>2
      <3>1. (lo - (q + 1)) * t >= 0 /\ (lo - (q + 1)) * t = lo * t - (t * q + t)
        BY <1>8, <2>2
      <3> QED
        BY <1>8, <2>2, <3>1
    <2>4. q <= hi
      <3> SUFFICES ASSUME hi + 1 <= q
                   PROVE  FALSE
        BY <2>2
      <3>1. (q - (hi + 1)) * t >= 0 /\ (q - (hi + 1)) * t = t * q - (hi * t + t)
        BY <1>8, <2>2
      <3> QED
        BY <1>8, <2>2, <3>1
    <2> QED
      BY <2>2, <2>3, <2>4 DEF q
  <1> HIDE DEF total, weighted
  <1> QED
    BY <1>6, <1>7, <1>8 DEF total, weighted

-----------------------------------------------------------------------------
(* Between the lowest BPM and the highest.                                 *)
BpmsOf(timing) == {timing[i].bpm : i \in DOMAIN timing} \ {0}

LEMMA ExtremesAre ==
  ASSUME NEW timing \in Seq(Points), timing # <<>>, timing[Len(timing)].bpm > 0
  PROVE  /\ BpmsOf(timing) # {}
         /\ File!Least(BpmsOf(timing)) \in Nat /\ File!Most(BpmsOf(timing)) \in Nat
         /\ \A i \in 1..Len(timing) : timing[i].bpm > 0 =>
              File!Least(BpmsOf(timing)) <= timing[i].bpm /\ timing[i].bpm <= File!Most(BpmsOf(timing))
  <1> DEFINE S == BpmsOf(timing)
             f == [i \in 1..Len(timing) |-> timing[i].bpm]
  <1>1. /\ Len(timing) \in Nat /\ DOMAIN timing = 1..Len(timing) /\ Len(timing) \in 1..Len(timing)
        /\ \A i \in 1..Len(timing) : timing[i].bpm \in Nat
    BY PointIs
  <1>2. /\ S \in SUBSET Nat
        /\ \A i \in 1..Len(timing) : timing[i].bpm > 0 => timing[i].bpm \in S
        /\ \A x \in S : \E i \in 1..Len(timing) : x = timing[i].bpm
    BY <1>1 DEF BpmsOf
  <1>3. timing[Len(timing)].bpm \in S
    BY <1>1, <1>2
  <1>4. PICK top \in Int : \A i \in 1..Len(timing) : f[i] <= top
    <2>1. f \in [1..Len(timing) -> Int]
      BY <1>1
    <2> HIDE DEF f
    <2> QED
      BY <1>1, <2>1, BoundIs
  <1>5. \A y \in S : y <= top
    BY <1>2, <1>4
  <1> HIDE DEF S
  <1>6. File!Least(S) \in S /\ \A y \in S : File!Least(S) <= y
    BY <1>2, <1>3, LeastIs
  <1>7. File!Most(S) \in S /\ \A y \in S : y <= File!Most(S)
    <2>1. S \in SUBSET Int
      BY <1>2
    <2> QED
      BY <1>3, <1>5, <2>1, MostIs
  <1>8. /\ S # {} /\ File!Least(S) \in Nat /\ File!Most(S) \in Nat
        /\ \A i \in 1..Len(timing) : timing[i].bpm > 0 =>
             File!Least(S) <= timing[i].bpm /\ timing[i].bpm <= File!Most(S)
    BY <1>2, <1>3, <1>6, <1>7
  <1> QED
    BY <1>8 DEF S

LEMMA RealtimeBetween ==
  ASSUME NEW timing \in Seq(Points), NEW live \in Int, NEW lo \in Nat, NEW hi \in Nat,
         \A i \in 1..Len(timing) : timing[i].bpm > 0 => lo <= timing[i].bpm /\ timing[i].bpm <= hi,
         NEW common \in lo..hi
  PROVE  File!RealtimeOf(timing, live, common) \in lo..hi
  <1> DEFINE P == {i \in DOMAIN timing : timing[i].time <= live /\ timing[i].bpm > 0}
  <1>1. /\ Len(timing) \in Nat /\ DOMAIN timing = 1..Len(timing)
        /\ \A i \in 1..Len(timing) : timing[i].bpm \in Nat
    BY PointIs
  <1>2. CASE P = {}
    BY <1>2 DEF File!RealtimeOf
  <1>3. CASE P # {}
    <2>1. P \in SUBSET Int /\ \A i \in P : i <= Len(timing)
      BY <1>1
    <2>2. File!Most(P) \in P
      <3> HIDE DEF P
      <3>1. PICK x \in P : TRUE
        BY <1>3
      <3>2. Len(timing) \in Int
        BY <1>1
      <3> QED
        BY <2>1, <3>1, <3>2, MostIs
    <2>3. File!Most(P) \in 1..Len(timing) /\ timing[File!Most(P)].bpm > 0
      BY <1>1, <2>2
    <2>4. timing[File!Most(P)].bpm \in lo..hi
      <3> HIDE DEF P
      <3> QED
        BY <1>1, <2>3
    <2> QED
      BY <1>3, <2>4 DEF File!RealtimeOf
  <1> QED
    BY <1>2, <1>3

(* Where the last object that counts stands, if one does.                  *)
LEMMA EndIs ==
  ASSUME NEW file, File!IsFile(file)
  PROVE  File!Most(File!TimesOf(file) \cup {0}) \in Int
  <1> DEFINE S == File!TimesOf(file) \cup {0}
             n == Len(file)
             f == [i \in 1..n |-> IF i \in File!ObjectsOf(file) THEN file[i].time ELSE 0]
  <1>1. n \in Nat /\ DOMAIN file = 1..n
    BY DEF File!IsFile
  <1>2. \A i \in File!ObjectsOf(file) : i \in 1..n /\ file[i].time \in Int
    BY <1>1 DEF File!IsFile, File!ObjectsOf
  <1>3. f \in [1..n -> Int]
    BY <1>2
  <1>4. PICK top \in Int : \A i \in 1..n : f[i] <= top
    <2> HIDE DEF f, n
    <2> QED
      BY <1>1, <1>3, BoundIs
  <1>5. S \in SUBSET Int /\ 0 \in S
    BY <1>2 DEF File!TimesOf
  <1> DEFINE bound == IF top >= 0 THEN top ELSE 0
  <1>6. bound \in Int /\ \A x \in S : x <= bound
    <2>1. \A i \in File!ObjectsOf(file) : file[i].time <= top
      BY <1>2, <1>4
    <2>2. \A i \in File!ObjectsOf(file) : file[i].time <= bound
      BY <1>2, <2>1
    <2> QED
      BY <2>2 DEF File!TimesOf
  <1>7. File!Most(S) \in S
    <2> HIDE DEF S, bound
    <2> QED
      BY <1>5, <1>6, MostIs
  <1> QED
    BY <1>5, <1>7

(* The BPM of any file, and the one at any time of the song, lies between  *)
(* the lowest and the highest, as far as its last point has one.           *)
THEOREM BpmStaysBetween ==
  ASSUME NEW file, File!IsFile(file), NEW live \in Int
  PROVE  File!BpmIsBetween(AsRead(file, live), file)
  <1> DEFINE timing == File!TimingOf(file)
             end == File!Most(File!TimesOf(file) \cup {0})
             bpms == BpmsOf(timing)
             common == File!CommonOf(timing, end)
             realtime == File!RealtimeOf(timing, live, common)
             fresh == File!Fresh(live, None)
             bpm == File!BpmAfter(fresh, file).bpm
  <1>1. AsRead(file, live).bpm = bpm
    BY DEF AsRead, File!FilePass, File!Fresh
  <1>2. SUFFICES ASSUME timing # <<>>, timing[Len(timing)].bpm > 0
                 PROVE  bpm.common \in bpm.min..bpm.max /\ bpm.realtime \in bpm.min..bpm.max
    BY <1>1 DEF File!BpmIsBetween
  <1>3. timing \in Seq(Points) /\ end \in Int
    BY PointsAre, EndIs
  <1>4. /\ bpms # {} /\ File!Least(bpms) \in Nat /\ File!Most(bpms) \in Nat
        /\ \A i \in 1..Len(timing) : timing[i].bpm > 0 =>
             File!Least(bpms) <= timing[i].bpm /\ timing[i].bpm <= File!Most(bpms)
    <2> HIDE DEF timing, end
    <2> QED
      BY <1>2, <1>3, ExtremesAre
  <1>5. common \in File!Least(bpms)..File!Most(bpms)
    <2> HIDE DEF timing, end, bpms
    <2> QED
      BY <1>2, <1>3, <1>4, CommonBetween
  <1>6. realtime \in File!Least(bpms)..File!Most(bpms)
    <2> HIDE DEF timing, common, bpms
    <2> QED
      BY <1>3, <1>4, <1>5, RealtimeBetween
  <1>7. /\ fresh.bpm = [common |-> 0, realtime |-> 0, min |-> 0, max |-> 0]
        /\ fresh.live = live
    BY DEF File!Fresh, File!NoBpm
  <1>8. bpm = [common |-> common, realtime |-> realtime,
               min |-> File!Least(bpms), max |-> File!Most(bpms)]
    <2> DEFINE Set(old, new) == IF old = 0 THEN new ELSE old
               first == Set(fresh.bpm.common, common)
               now == Set(fresh.bpm.realtime, File!RealtimeOf(timing, fresh.live, first))
               least == IF bpms = {} THEN fresh.bpm.min ELSE Set(fresh.bpm.min, File!Least(bpms))
               most == IF bpms = {} THEN fresh.bpm.max ELSE Set(fresh.bpm.max, File!Most(bpms))
    <2>1. bpm = [fresh.bpm EXCEPT !.min = least, !.max = most, !.common = first, !.realtime = now]
      <3> HIDE DEF fresh
      <3> QED
        BY <1>2 DEF File!BpmAfter, BpmsOf
    <2>2. first = common /\ now = realtime
      <3> HIDE DEF fresh
      <3> QED
        BY <1>7
    <2>3. least = File!Least(bpms) /\ most = File!Most(bpms)
      <3> HIDE DEF fresh
      <3> QED
        BY <1>4, <1>7
    <2> HIDE DEF bpm, fresh, first, now, least, most
    <2> QED
      BY <1>7, <2>1, <2>2, <2>3
  <1> HIDE DEF bpm, common, realtime, bpms
  <1> QED
    BY <1>5, <1>6, <1>8

-----------------------------------------------------------------------------
(* The record of a run: as its file leaves it, or under the mods it was    *)
(* brought under last, as if never under others.                           *)
RecordOf(file, song, live) ==
  { [file |-> file, song |-> song, live |-> live, snapshot |-> AsRead(file, live), under |-> {}] }
  \cup
  { [file |-> file, song |-> song, live |-> live,
     snapshot |-> File!StatsPass(AsRead(file, live), song, mods), under |-> {mods}] :
    mods \in ModSets }

RecordInv ==
  record # None =>
    \E file \in Files, song \in Songs, live \in LiveTimes : record \in RecordOf(file, song, live)

LEMMA ReadIsSnapshot ==
  ASSUME NEW file, NEW live
  PROVE  IsSnapshot(AsRead(file, live))
  <1> DEFINE fresh == File!Fresh(live, None)
  <1>1. IsSnapshot(fresh) /\ {"first", "breaks", "background"} \subseteq DOMAIN fresh
    BY DEF IsSnapshot, File!Fresh
  <1> HIDE DEF fresh
  <1> DEFINE counted == IF File!ObjectsOf(file) = {} THEN fresh
                        ELSE [fresh EXCEPT !.first = File!Least(File!TimesOf(file)),
                                           !.last = File!Most(File!TimesOf(file) \cup {0}),
                                           !.counts = File!CountsOf(file)]
             background == IF counted.background = None THEN File!BackgroundOf(file)
                           ELSE counted.background
             bpm == File!BpmAfter(fresh, file)
             read == [counted EXCEPT !.breaks = File!BreaksOf(file), !.background = background,
                                     !.bpm = bpm.bpm, !.base = bpm.base]
  <1>2. IsSnapshot(counted) /\ DOMAIN counted = DOMAIN fresh
    BY <1>1 DEF IsSnapshot
  <1>3. AsRead(file, live) = read
    BY DEF AsRead, File!FilePass, fresh
  <1> HIDE DEF counted, background, bpm
  <1>4. IsSnapshot(read)
    BY <1>2 DEF IsSnapshot
  <1> QED
    BY <1>3, <1>4

(* Of any number of changes of the mods only the last one shows, and what  *)
(* a file says of its BPM is in order, for any files, songs and times.     *)
THEOREM RecordIsOfTheMods == AllSpec => []RecordOfTheMods
  <1>1. AllInit => RecordInv
    BY DEF AllInit, RecordInv
  <1>2. RecordInv /\ [AllNext]_allVars => RecordInv'
    <2> SUFFICES ASSUME RecordInv, [AllNext]_allVars
                 PROVE  RecordInv'
      OBVIOUS
    <2>1. CASE UNCHANGED record
      BY <2>1 DEF RecordInv
    <2>2. CASE ReadFile
      BY <2>2 DEF ReadFile, RecordInv, RecordOf
    <2>3. CASE ChangeMods
      <3>1. PICK mods \in ModSets :
              record' = [record EXCEPT !.snapshot = File!StatsPass(record.snapshot, record.song, mods),
                                       !.under = {mods}]
        BY <2>3 DEF ChangeMods
      <3>2. PICK file \in Files, song \in Songs, live \in LiveTimes : record \in RecordOf(file, song, live)
        BY <2>3 DEF RecordInv, ChangeMods
      <3>3. IsSnapshot(AsRead(file, live))
        BY ReadIsSnapshot
      <3>4. PICK snapshot, under :
              /\ record = [file |-> file, song |-> song, live |-> live,
                           snapshot |-> snapshot, under |-> under]
              /\ \/ snapshot = AsRead(file, live)
                 \/ \E before \in ModSets :
                      snapshot = File!StatsPass(AsRead(file, live), song, before)
        BY <3>2 DEF RecordOf
      <3>5. File!StatsPass(snapshot, song, mods) = File!StatsPass(AsRead(file, live), song, mods)
        BY <3>3, <3>4, OnlyTheLastModsCount
      <3> DEFINE next == File!StatsPass(AsRead(file, live), song, mods)
      <3>6. record' = [file |-> file, song |-> song, live |-> live,
                       snapshot |-> next, under |-> {mods}]
        <4>1. record.snapshot = snapshot /\ record.song = song
          BY <3>4
        <4>2. record' = [record EXCEPT !.snapshot = next, !.under = {mods}]
          BY <3>1, <3>5, <4>1
        <4> HIDE DEF next
        <4> QED
          BY <3>4, <4>2
      <3>7. record' \in RecordOf(file, song, live)
        BY <3>6 DEF RecordOf
      <3> QED
        BY <3>7 DEF RecordInv
    <2>4. CASE Drop
      BY <2>4 DEF Drop, RecordInv
    <2> QED
      BY <2>1, <2>2, <2>3, <2>4 DEF AllNext, allVars
  <1>3. RecordInv => RecordOfTheMods
    <2> SUFFICES ASSUME record # None,
                        NEW file \in Files, NEW song \in Songs, NEW live \in LiveTimes,
                        record \in RecordOf(file, song, live)
                 PROVE  RecordOfTheMods
      BY DEF RecordInv, RecordOfTheMods
    <2>1. File!BpmIsBetween(AsRead(file, live), file)
      BY FilesAssumption, BpmStaysBetween
    <2>2. record.file = file /\ record.song = song /\ record.live = live
      BY DEF RecordOf
    <2>3. record.under = {} => record.snapshot = AsRead(file, live)
      BY DEF RecordOf
    <2>4. \A mods \in record.under :
            record.snapshot = File!StatsPass(AsRead(file, live), song, mods)
      BY DEF RecordOf
    <2> QED
      BY <2>1, <2>2, <2>3, <2>4 DEF RecordOfTheMods, File!IsOfTheMods
  <1> QED
    BY <1>1, <1>2, <1>3, PTL DEF AllSpec

(* A behaviour of a run is one of SoloBeatmap: what is proved of Spec      *)
(* holds of what the run checks.                                           *)
THEOREM RunIsSoloBeatmap == AllSpec => Spec
  <1>1. AllInit => Init
    BY DEF AllInit
  <1>2. [AllNext]_allVars => [Next]_vars
    BY DEF AllNext, allVars
  <1> QED
    BY <1>1, <1>2, PTL DEF AllSpec, Spec

-----------------------------------------------------------------------------
(* The scan.                                                               *)

Regions == DOMAIN search.regions

(* Where the search is: the next address to be compared.                   *)
Here == Scan!From(region) + offset + chunk.at

(* What is still to be read.                                               *)
RestOf == IF region = 0 THEN {} ELSE {<<region, x>> : x \in (Scan!From(region) + offset)..(Scan!To(region) - 1)}
TodoCells == UNION {Scan!Cells(i) : i \in todo}
Rest == TodoCells \cup RestOf

Covers == Cardinality(Scan!AllCells) <= search.budget

ScanTypes ==
  /\ search \in Searches
  /\ todo \subseteq Regions /\ (\A i \in todo : Scan!From(i) < Scan!To(i))
  /\ region \in Regions \cup {0}
  /\ offset \in Nat /\ limit \in Nat /\ budget \in Nat
  /\ matches \in Seq(Int)

RegionInv ==
  region # 0 =>
    /\ region \notin todo /\ search.regions[region].readable
    /\ offset <= limit /\ limit <= Scan!To(region) - Scan!From(region)
    /\ \A j \in todo : Scan!Before(region, j)

ChunkInv ==
  /\ chunk \in [size : Nat, at : Nat, left : Nat]
  /\ chunk # Scan!NoChunk =>
       /\ region # 0
       /\ chunk.size >= Scan!Size /\ offset + chunk.size <= limit
       /\ chunk.at <= chunk.size - Scan!Size + 1
       /\ chunk.left = search.max - Len(matches)

(* What is found comes before all that is still to be searched.            *)
IsBehind(x) ==
  \E i \in Regions :
    /\ Scan!IsPlace(i, x)
    /\ region # 0 => Scan!ComesBefore(i, x, region, Here)
    /\ \A j \in todo : Scan!Before(i, j)

OrderInv == Scan!IsFoundInOrder /\ \A m \in DOMAIN matches : IsBehind(matches[m])

IsFound(x) == \E m \in DOMAIN matches : matches[m] = x
AfterAll(i, x) ==
  /\ Len(matches) = search.max
  /\ \A m \in DOMAIN matches : \E j \in Regions :
       Scan!IsPlace(j, matches[m]) /\ Scan!ComesBefore(j, matches[m], i, x)

IsPassed(i, x) == i \notin todo /\ (i = region => x < Here)

CoverInv ==
  Covers =>
    /\ Cardinality(Rest) <= budget
    /\ region # 0 => limit = Scan!To(region) - Scan!From(region)
    /\ \A i \in Regions \ failed, x \in Int :
         Scan!IsPlace(i, x) /\ IsPassed(i, x) => IsFound(x) \/ AfterAll(i, x)

IdleInv ==
  /\ todo = {} /\ region = 0 /\ chunk = Scan!NoChunk
  /\ limit = 0 /\ offset = 0 /\ matches = <<>> /\ failed = {}

SearchInv == ScanTypes /\ RegionInv /\ ChunkInv /\ OrderInv /\ CoverInv
ScanInv == IF search = None THEN IdleInv ELSE SearchInv

SearchFacts ==
  /\ Scan!Size \in Nat /\ Scan!Size >= 1 /\ Scan!Size <= Chunk /\ Chunk \in Nat
  /\ Len(search.regions) \in Nat /\ Regions = 1..Len(search.regions)
  /\ search.max \in Nat /\ search.budget \in Nat
  /\ \A i \in Regions : Scan!From(i) \in Int /\ Scan!To(i) \in Int /\ i # 0
  /\ search # None

(* Of a search that goes on.                                               *)
LEMMA SearchIs == search \in Searches => SearchFacts
  <1> SUFFICES ASSUME search \in Searches PROVE SearchFacts
    OBVIOUS
  <1>1. Scan!IsSearch(search) /\ Chunk \in Nat /\ search # None
    BY ScanAssumption DEF Scan!SearchesAssumption
  <1>2. \A i \in Regions : Scan!From(i) \in Int /\ Scan!To(i) \in Int
    <2> SUFFICES ASSUME NEW i \in Regions
                 PROVE  Scan!From(i) \in Int /\ Scan!To(i) \in Int
      OBVIOUS
    <2>1. search.regions[i].base \in Int /\ search.regions[i].end \in Int /\ search.low \in Int /\ search.high \in Int
      BY <1>1 DEF Scan!IsSearch, Regions
    <2> QED
      BY <2>1 DEF Scan!From, Scan!To, Scan!Greater, Scan!Lesser
  <1>3. Len(search.pattern) \in 1..Chunk /\ Len(search.regions) \in Nat /\ Regions = 1..Len(search.regions)
    BY <1>1 DEF Scan!IsSearch, Regions
  <1>4. search.max \in Nat /\ search.budget \in Nat
    BY <1>1 DEF Scan!IsSearch
  <1> QED
    BY <1>1, <1>2, <1>3, <1>4 DEF SearchFacts, Scan!Size

(* The regions do not overlap, so a place tells its region.                *)
LEMMA RegionOfPlace ==
  ASSUME search \in Searches, NEW i \in Regions, NEW j \in Regions, NEW x \in Int,
         Scan!IsPlace(i, x), Scan!IsPlace(j, x)
  PROVE  i = j
  <1>1. Scan!IsSearch(search)
    BY ScanAssumption DEF Scan!SearchesAssumption
  <1> DEFINE r(k) == search.regions[k]
  <1>2. /\ i \in Nat /\ j \in Nat
        /\ r(i).base \in Int /\ r(i).end \in Int /\ r(j).base \in Int /\ r(j).end \in Int
        /\ i < j => r(i).end <= r(j).base
        /\ j < i => r(j).end <= r(i).base
    <2>1. /\ Len(search.regions) \in Nat /\ DOMAIN search.regions = 1..Len(search.regions)
          /\ \A k \in DOMAIN search.regions :
               /\ r(k).base \in Int /\ r(k).end \in Int
               /\ \A l \in DOMAIN search.regions : k < l => r(k).end <= r(l).base
      BY <1>1 DEF Scan!IsSearch
    <2> HIDE DEF r
    <2> QED
      BY <2>1 DEF Regions
  <1>3. search.low \in Int /\ search.high \in Int /\ Scan!Size \in Nat /\ Scan!Size >= 1
    BY <1>1, SearchIs DEF SearchFacts, Scan!IsSearch
  <1>4. ASSUME NEW k \in {i, j}
        PROVE  r(k).base <= x /\ x < r(k).end
    <2>1. Scan!From(k) <= x /\ x + Scan!Size <= Scan!To(k)
      BY DEF Scan!IsPlace
    <2>2. Scan!From(k) \in Int /\ Scan!To(k) \in Int
      BY SearchIs DEF SearchFacts
    <2>3. Scan!From(k) >= r(k).base /\ Scan!To(k) <= r(k).end
      BY <1>2, <1>3 DEF Scan!From, Scan!To, Scan!Greater, Scan!Lesser
    <2> HIDE DEF r
    <2> QED
      BY <1>2, <1>3, <2>1, <2>2, <2>3
  <1> HIDE DEF r
  <1> QED
    BY <1>2, <1>4

(* A stretch of a region has as many cells as it is long.                  *)
CellsFrom(i, p, q) == {<<i, x>> : x \in p..(q - 1)}

LEMMA Stretch ==
  ASSUME NEW i, NEW p \in Int, NEW q \in Int
  PROVE  /\ IsFiniteSet(CellsFrom(i, p, q))
         /\ Cardinality(CellsFrom(i, p, q)) = IF p > q - 1 THEN 0 ELSE q - p
  <1> DEFINE S == CellsFrom(i, p, q)
             f == [x \in p..(q - 1) |-> <<i, x>>]
  <1>1. IsFiniteSet(p..(q - 1)) /\ Cardinality(p..(q - 1)) = IF p > q - 1 THEN 0 ELSE (q - 1) - p + 1
    BY FS_Interval
  <1>2. f \in Bijection(p..(q - 1), S)
    <2>1. f \in [p..(q - 1) -> S] /\ (\A x, y \in p..(q - 1) : f[x] = f[y] => x = y)
      BY DEF CellsFrom
    <2>2. \A y \in S : \E x \in p..(q - 1) : f[x] = y
      BY DEF CellsFrom
    <2> HIDE DEF f, S
    <2>3. f \in Injection(p..(q - 1), S)
      BY Zenon, <2>1 DEF Injection, IsInjective
    <2>4. f \in Surjection(p..(q - 1), S)
      BY Zenon, <2>1, <2>2 DEF Surjection
    <2> QED
      BY <2>3, <2>4 DEF Bijection
  <1>3. ExistsBijection(p..(q - 1), S)
    BY <1>2 DEF ExistsBijection
  <1>4. IsFiniteSet(S) /\ Cardinality(S) = Cardinality(p..(q - 1))
    <2> HIDE DEF S
    <2> QED
      BY <1>1, <1>3, FS_Bijection
  <1> QED
    BY <1>1, <1>4

LEMMA AllAreFinite == search \in Searches => IsFiniteSet(Scan!AllCells)
  <1> SUFFICES ASSUME search \in Searches PROVE IsFiniteSet(Scan!AllCells)
    OBVIOUS
  <1> DEFINE f == [i \in Regions |-> Scan!Cells(i)]
             S == {Scan!Cells(i) : i \in Regions}
  <1>1. IsFiniteSet(Regions)
    <2>1. Len(search.regions) \in Int /\ 1 \in Int /\ Regions = 1..Len(search.regions)
      BY SearchIs DEF SearchFacts
    <2> QED
      BY <2>1, FS_Interval
  <1>2. f \in Surjection(Regions, S)
    <2>1. f \in [Regions -> S] /\ \A y \in S : \E i \in Regions : f[i] = y
      OBVIOUS
    <2> HIDE DEF f, S
    <2> QED
      BY <2>1 DEF Surjection
  <1>3. IsFiniteSet(S)
    <2> HIDE DEF f, S
    <2> QED
      BY <1>1, <1>2, FS_Surjection
  <1>4. \A T \in S : IsFiniteSet(T)
    <2> SUFFICES ASSUME NEW i \in Regions PROVE IsFiniteSet(Scan!Cells(i))
      OBVIOUS
    <2>1. Scan!From(i) \in Int /\ Scan!To(i) \in Int
      BY SearchIs DEF SearchFacts
    <2>2. Scan!Cells(i) = CellsFrom(i, Scan!From(i), Scan!To(i))
      BY DEF Scan!Cells, CellsFrom
    <2> QED
      BY <2>1, <2>2, Stretch
  <1>5. Scan!AllCells = UNION S
    BY DEF Scan!AllCells, Regions
  <1> HIDE DEF S
  <1> QED
    BY <1>3, <1>4, <1>5, FS_UNION

-----------------------------------------------------------------------------
(* Steps of a search, of which nothing but its progress changes.           *)
LEMMA Same ==
  ASSUME search' = search
  PROVE  /\ Regions' = Regions /\ Scan!Size' = Scan!Size /\ Covers' = Covers
         /\ \A i : Scan!From(i)' = Scan!From(i) /\ Scan!To(i)' = Scan!To(i) /\ Scan!Cells(i)' = Scan!Cells(i)
         /\ \A i, j : Scan!Before(i, j)' = Scan!Before(i, j)
         /\ \A i, x : Scan!IsPlace(i, x)' = Scan!IsPlace(i, x)
         /\ \A i, x, j, y : Scan!ComesBefore(i, x, j, y)' = Scan!ComesBefore(i, x, j, y)
  <1>1. Regions' = Regions /\ Scan!Size' = Scan!Size
    BY DEF Regions, Scan!Size
  <1>2. \A i : Scan!From(i)' = Scan!From(i) /\ Scan!To(i)' = Scan!To(i)
    BY DEF Scan!From, Scan!To
  <1>3. \A i : Scan!Cells(i)' = Scan!Cells(i)
    BY <1>2 DEF Scan!Cells
  <1>4. Covers' = Covers
    BY <1>1, <1>3 DEF Covers, Scan!AllCells, Regions
  <1>5. \A i, j : Scan!Before(i, j)' = Scan!Before(i, j)
    BY DEF Scan!Before
  <1>6. \A i, x : Scan!IsPlace(i, x)' = Scan!IsPlace(i, x)
    BY <1>1, <1>2 DEF Scan!IsPlace, Scan!MatchesAt
  <1>7. \A i, x, j, y : Scan!ComesBefore(i, x, j, y)' = Scan!ComesBefore(i, x, j, y)
    BY <1>5 DEF Scan!ComesBefore
  <1> QED
    BY <1>1, <1>2, <1>3, <1>4, <1>5, <1>6, <1>7

LEMMA SameMatches ==
  ASSUME search' = search, matches' = matches
  PROVE  /\ Scan!IsFoundInOrder' = Scan!IsFoundInOrder
         /\ \A x : IsFound(x)' = IsFound(x)
         /\ \A i, x : AfterAll(i, x)' = AfterAll(i, x)
  <1>1. Scan!IsFoundInOrder' = Scan!IsFoundInOrder
    BY Same DEF Scan!IsFoundInOrder, Regions
  <1>2. \A x : IsFound(x)' = IsFound(x)
    BY DEF IsFound
  <1>3. \A i, x : AfterAll(i, x)' = AfterAll(i, x)
    BY Same DEF AfterAll
  <1> QED
    BY <1>1, <1>2, <1>3

LEMMA HereIs ==
  ASSUME ScanTypes, ChunkInv, region # 0
  PROVE  /\ Here \in Int /\ Scan!From(region) \in Int /\ Scan!To(region) \in Int
         /\ chunk.at \in Nat /\ Here >= Scan!From(region) + offset
         /\ chunk = Scan!NoChunk => Here = Scan!From(region) + offset
  <1>1. chunk.at \in Nat /\ (chunk = Scan!NoChunk => chunk.at = 0)
    BY DEF ChunkInv, Scan!NoChunk
  <1>2. Scan!From(region) \in Int /\ Scan!To(region) \in Int /\ offset \in Nat
    BY SearchIs DEF SearchFacts, ScanTypes
  <1> QED
    BY <1>1, <1>2 DEF Here

(* What is behind stays behind as the search goes on.                      *)
LEMMA BehindStays ==
  ASSUME search' = search, todo' \subseteq todo, NEW x \in Int, IsBehind(x),
         \/ region' = 0
         \/ region' \in todo
         \/ region' = region /\ Here \in Int /\ Here' \in Int /\ Here <= Here'
  PROVE  IsBehind(x)'
  <1>1. PICK i \in Regions :
          /\ Scan!IsPlace(i, x)
          /\ region # 0 => Scan!ComesBefore(i, x, region, Here)
          /\ \A j \in todo : Scan!Before(i, j)
    BY DEF IsBehind
  <1>2. region' # 0 => Scan!ComesBefore(i, x, region', Here')
    <2> SUFFICES ASSUME region' # 0 PROVE Scan!ComesBefore(i, x, region', Here')
      OBVIOUS
    <2>1. CASE region' \in todo
      BY <1>1, <2>1 DEF Scan!ComesBefore
    <2>2. CASE region' = region /\ Here \in Int /\ Here' \in Int /\ Here <= Here'
      BY <1>1, <2>2 DEF Scan!ComesBefore
    <2> QED
      BY <2>1, <2>2
  <1>3. /\ i \in Regions' /\ Scan!IsPlace(i, x)'
        /\ region' # 0 => Scan!ComesBefore(i, x, region, Here)'
    BY <1>1, <1>2, Same DEF Scan!ComesBefore, Scan!Before
  <1>4. \A j \in todo' : Scan!Before(i, j)'
    BY <1>1, Same
  <1> QED
    BY <1>3, <1>4 DEF IsBehind

LEMMA OrderStays ==
  ASSUME search' = search, matches' = matches, todo' \subseteq todo, ScanTypes, OrderInv,
         \/ region' = 0
         \/ region' \in todo
         \/ region' = region /\ Here \in Int /\ Here' \in Int /\ Here <= Here'
  PROVE  OrderInv'
  <1>1. Scan!IsFoundInOrder'
    BY SameMatches DEF OrderInv
  <1>2. ASSUME NEW m \in DOMAIN matches
        PROVE  IsBehind(matches[m])'
    <2>1. matches[m] \in Int /\ IsBehind(matches[m])
      BY DEF OrderInv, ScanTypes
    <2> DEFINE x == matches[m]
    <2>2. x' = x
      OBVIOUS
    <2> HIDE DEF x
    <2>3. \A y \in Int : IsBehind(y) => IsBehind(y)'
      BY BehindStays
    <2> QED
      BY <2>1, <2>2, <2>3 DEF x
  <1> QED
    BY <1>1, <1>2 DEF OrderInv

RestFacts == IsFiniteSet(Rest) /\ Rest \subseteq Scan!AllCells

LEMMA RestIsFinite == ScanTypes => RestFacts
  <1> SUFFICES ASSUME ScanTypes PROVE RestFacts
    OBVIOUS
  <1>1. \A i \in todo : Scan!Cells(i) \subseteq Scan!AllCells
    BY DEF Scan!AllCells, ScanTypes, Regions
  <1>2. RestOf \subseteq Scan!AllCells
    <2>1. CASE region = 0
      BY <2>1 DEF RestOf
    <2>2. CASE region # 0
      <3>1. region \in Regions /\ Scan!From(region) \in Int /\ Scan!To(region) \in Int /\ offset \in Nat
        BY <2>2, SearchIs DEF SearchFacts, ScanTypes
      <3>2. RestOf \subseteq Scan!Cells(region)
        BY <2>2, <3>1 DEF RestOf, Scan!Cells
      <3> QED
        BY <3>1, <3>2 DEF Scan!AllCells, Regions
    <2> QED
      BY <2>1, <2>2
  <1>3. Rest \subseteq Scan!AllCells
    <2>1. TodoCells \subseteq Scan!AllCells
      BY <1>1 DEF TodoCells
    <2> QED
      BY <1>2, <2>1 DEF Rest
  <1>4. IsFiniteSet(Scan!AllCells)
    BY AllAreFinite DEF ScanTypes
  <1> QED
    BY <1>3, <1>4, FS_Subset DEF RestFacts

LEMMA CoverStays ==
  ASSUME SearchInv, search' = search, matches' = matches, failed \subseteq failed',
         Covers => Cardinality(Rest)' <= budget',
         Covers /\ region' # 0 => limit' = Scan!To(region') - Scan!From(region'),
         \A i \in Regions \ failed', x \in Int :
           Covers /\ Scan!IsPlace(i, x) /\ IsPassed(i, x)' =>
             IsPassed(i, x) \/ IsFound(x) \/ AfterAll(i, x)
  PROVE  CoverInv'
  <1> SUFFICES ASSUME Covers
               PROVE  /\ Cardinality(Rest)' <= budget'
                      /\ region' # 0 => limit' = (Scan!To(region) - Scan!From(region))'
                      /\ \A i \in (Regions \ failed)', x \in Int :
                           Scan!IsPlace(i, x)' /\ IsPassed(i, x)' => IsFound(x)' \/ AfterAll(i, x)'
    BY Same DEF CoverInv
  <1>1. Cardinality(Rest)' <= budget'
    OBVIOUS
  <1>2. region' # 0 => limit' = (Scan!To(region) - Scan!From(region))'
    BY DEF Scan!From, Scan!To
  <1>3. ASSUME NEW i \in Regions, i \notin failed', NEW x \in Int, Scan!IsPlace(i, x), IsPassed(i, x)'
        PROVE  IsFound(x) \/ AfterAll(i, x)
    BY <1>3 DEF SearchInv, CoverInv
  <1> QED
    BY <1>1, <1>2, <1>3, Same, SameMatches

-----------------------------------------------------------------------------
(* The steps.                                                              *)

LEMMA BeginStep ==
  ASSUME search = None, IdleInv, Scan!Begin
  PROVE  SearchInv'
  <1> DEFINE T == {i \in Regions' : Scan!From(i)' < Scan!To(i)'}
  <1>1. /\ search' \in Searches /\ todo' = T /\ region' = 0 /\ budget' = search'.budget
        /\ limit' = 0 /\ offset' = 0 /\ matches' = <<>> /\ failed' = {} /\ chunk' = Scan!NoChunk
    BY DEF IdleInv, Scan!Begin, Regions
  <1>2. /\ search'.max \in Nat /\ search'.budget \in Nat /\ Scan!Size' \in Nat /\ Scan!Size' >= 1
        /\ \A i \in Regions' : Scan!From(i)' \in Int /\ Scan!To(i)' \in Int /\ i # 0
    <2>1. (search \in Searches)'
      BY <1>1
    <2>2. SearchFacts'
      BY <2>1, SearchIs, PTL
    <2> QED
      BY <2>2 DEF SearchFacts
  <1>3. ScanTypes'
    BY <1>1, <1>2 DEF ScanTypes
  <1>4. RegionInv' /\ ChunkInv'
    BY <1>1 DEF RegionInv, ChunkInv, Scan!NoChunk
  <1>5. OrderInv'
    BY <1>1, <1>2 DEF OrderInv, Scan!IsFoundInOrder
  <1>6. CoverInv'
    <2> SUFFICES ASSUME Covers'
                 PROVE  /\ Cardinality(Rest)' <= budget'
                        /\ region' # 0 => limit' = (Scan!To(region) - Scan!From(region))'
                        /\ \A i \in (Regions \ failed)', x \in Int :
                             Scan!IsPlace(i, x)' /\ IsPassed(i, x)' => IsFound(x)' \/ AfterAll(i, x)'
      BY DEF CoverInv
    <2>1. Cardinality(Rest)' <= budget'
      <3>1. IsFiniteSet(Rest') /\ Rest' \subseteq Scan!AllCells'
        <4>1. RestFacts'
          BY <1>3, RestIsFinite, PTL
        <4> QED
          BY <4>1 DEF RestFacts
      <3>2. IsFiniteSet(Scan!AllCells')
        <4>1. (search \in Searches)'
          BY <1>1
        <4>2. IsFiniteSet(Scan!AllCells)'
          BY <4>1, AllAreFinite, PTL
        <4> QED
          BY <4>2
      <3>3. Cardinality(Rest)' <= Cardinality(Scan!AllCells)' /\ Cardinality(Rest)' \in Nat /\ Cardinality(Scan!AllCells)' \in Nat
        BY <3>1, <3>2, FS_Subset, FS_CardinalityType
      <3> QED
        BY <1>1, <1>2, <3>3 DEF Covers
    <2>2. ASSUME NEW i \in Regions', NEW x \in Int, Scan!IsPlace(i, x)', IsPassed(i, x)'
          PROVE  FALSE
      <3>1. Scan!From(i)' >= Scan!To(i)'
        BY <1>1, <1>2, <2>2 DEF IsPassed
      <3>2. Scan!From(i)' <= x /\ x + Scan!Size' <= Scan!To(i)'
        BY <2>2 DEF Scan!IsPlace
      <3> QED
        BY <1>2, <3>1, <3>2
    <2> QED
      BY <1>1, <2>1, <2>2
  <1> QED
    BY <1>3, <1>4, <1>5, <1>6 DEF SearchInv

LEMMA NextRegionStep ==
  ASSUME SearchInv, Scan!NextRegion
  PROVE  SearchInv'
  <1>0. ScanTypes /\ RegionInv /\ ChunkInv /\ OrderInv /\ CoverInv
    BY DEF SearchInv
  <1>1. /\ search' = search /\ region = 0 /\ offset' = 0 /\ chunk' = chunk /\ budget' = budget
        /\ matches' = matches /\ failed' = failed
    BY DEF Scan!NextRegion
  <1>2. PICK i \in todo :
          /\ \A j \in todo \ {i} : Scan!Before(i, j)
          /\ todo' = todo \ {i}
          /\ region' = IF search.regions[i].readable /\ Len(matches) < search.max /\ budget > 0
                       THEN i ELSE 0
          /\ limit' = Scan!Lesser(Scan!To(i) - Scan!From(i), budget)
    BY DEF Scan!NextRegion
  <1>3. /\ i \in Regions /\ Scan!From(i) \in Int /\ Scan!To(i) \in Int /\ Scan!From(i) < Scan!To(i)
        /\ \A k \in Regions : k # 0
        /\ budget \in Nat /\ search.max \in Nat /\ Scan!Size \in Nat /\ Scan!Size >= 1
    BY <1>0, SearchIs DEF SearchFacts, ScanTypes
  <1>4. limit' \in Nat /\ limit' <= Scan!To(i) - Scan!From(i)
    BY <1>2, <1>3 DEF Scan!Lesser
  <1>5. chunk = Scan!NoChunk
    BY <1>0, <1>1 DEF ChunkInv
  <1>6. ScanTypes'
    BY <1>0, <1>1, <1>2, <1>3, <1>4, Same DEF ScanTypes
  <1>7. RegionInv'
    BY <1>0, <1>1, <1>2, <1>3, <1>4, Same DEF RegionInv, Scan!From, Scan!To
  <1>8. ChunkInv'
    BY <1>0, <1>1, <1>5 DEF ChunkInv, Scan!NoChunk
  <1>9. OrderInv'
    BY <1>0, <1>1, <1>2, OrderStays
  <1>10. CoverInv'
    <2>1. Rest' \subseteq Rest /\ Scan!Cells(i) \subseteq Rest
      <3>1. RestOf' \subseteq Scan!Cells(i)
        <4>1. CASE region' = 0
          BY <4>1 DEF RestOf
        <4>2. CASE region' # 0
          <5>1. region' = i /\ offset' = 0 /\ Scan!From(i)' = Scan!From(i) /\ Scan!To(i)' = Scan!To(i)
            BY <1>1, <1>2, <4>2, Same
          <5>2. RestOf' = {<<i, x>> : x \in (Scan!From(i) + 0)..(Scan!To(i) - 1)}
            BY <1>3, <5>1 DEF RestOf, Scan!From, Scan!To
          <5> QED
            BY <1>3, <5>2 DEF Scan!Cells
        <4> QED
          BY <4>1, <4>2
      <3>2. TodoCells' \subseteq TodoCells
        BY <1>1, <1>2, Same DEF TodoCells
      <3>3. Scan!Cells(i) \subseteq TodoCells
        BY DEF TodoCells
      <3> QED
        BY <3>1, <3>2, <3>3 DEF Rest
    <2>2. /\ Cardinality(Rest') <= Cardinality(Rest) /\ Cardinality(Scan!Cells(i)) <= Cardinality(Rest)
          /\ Cardinality(Rest') \in Nat /\ Cardinality(Rest) \in Nat
      <3>1. IsFiniteSet(Rest)
        BY <1>0, RestIsFinite DEF RestFacts
      <3> QED
        BY <2>1, <3>1, FS_Subset, FS_CardinalityType
    <2>3. Cardinality(Scan!Cells(i)) = Scan!To(i) - Scan!From(i)
      <3>1. Scan!Cells(i) = CellsFrom(i, Scan!From(i), Scan!To(i))
        BY DEF Scan!Cells, CellsFrom
      <3>2. Cardinality(CellsFrom(i, Scan!From(i), Scan!To(i)))
              = IF Scan!From(i) > Scan!To(i) - 1 THEN 0 ELSE Scan!To(i) - Scan!From(i)
        BY <1>3, Stretch
      <3> QED
        BY <1>3, <3>1, <3>2
    <2>4. Covers => limit' = Scan!To(i) - Scan!From(i) /\ budget > 0 /\ Cardinality(Rest') <= budget
      BY <1>0, <1>2, <1>3, <2>2, <2>3 DEF CoverInv, Scan!Lesser
    <2>5. ASSUME NEW k \in Regions, NEW x \in Int, Covers, Scan!IsPlace(k, x), IsPassed(k, x)', ~IsPassed(k, x)
          PROVE  AfterAll(k, x)
      <3>1. k = i
        BY <1>1, <1>2, <1>3, <2>5 DEF IsPassed
      <3>2. region' = 0
        <4> SUFFICES ASSUME region' # 0 PROVE FALSE
          OBVIOUS
        <4>1. region' = i
          BY <1>2
        <4>2. x < Here'
          BY <2>5, <3>1, <4>1 DEF IsPassed
        <4>3. Here' = Scan!From(i)
          <5>1. Here' = Scan!From(region)' + offset' + chunk'.at
            BY DEF Here
          <5>2. chunk'.at = 0 /\ Scan!From(region)' = Scan!From(i)
            BY <1>1, <1>5, <4>1 DEF Scan!NoChunk, Scan!From
          <5> QED
            BY <1>1, <1>3, <5>1, <5>2
        <4> QED
          BY <1>3, <2>5, <3>1, <4>2, <4>3 DEF Scan!IsPlace
      <3>3. Len(matches) = search.max
        <4>1. search.regions[i].readable
          BY <2>5, <3>1 DEF Scan!IsPlace
        <4>2. Len(matches) \in Nat /\ Len(matches) <= search.max
          BY <1>0 DEF OrderInv, Scan!IsFoundInOrder, ScanTypes
        <4>3. ~(Len(matches) < search.max)
          BY <1>2, <1>3, <2>4, <2>5, <3>2, <4>1
        <4> QED
          BY <1>3, <4>2, <4>3
      <3>4. ASSUME NEW m \in DOMAIN matches
            PROVE  \E j \in Regions : Scan!IsPlace(j, matches[m]) /\ Scan!ComesBefore(j, matches[m], i, x)
        BY <1>0 DEF OrderInv, IsBehind, Scan!ComesBefore
      <3> QED
        BY <3>1, <3>3, <3>4 DEF AfterAll
    <2>6. Covers /\ region' # 0 => limit' = Scan!To(region') - Scan!From(region')
      BY <1>2, <2>4
    <2>7. Covers => Cardinality(Rest)' <= budget'
      BY <1>1, <2>4
    <2> QED
      BY <1>1, <2>5, <2>6, <2>7, CoverStays
  <1> QED
    BY <1>6, <1>7, <1>8, <1>9, <1>10 DEF SearchInv

(* When as many as were asked for are found, what is ahead is after them.  *)
LEMMA AllBehind ==
  ASSUME SearchInv, region # 0, Len(matches) = search.max, NEW x \in Int, Here <= x
  PROVE  AfterAll(region, x)
  <1>1. Here \in Int /\ OrderInv /\ matches \in Seq(Int) /\ region \in Regions
    BY HereIs DEF SearchInv, ScanTypes
  <1>2. ASSUME NEW m \in DOMAIN matches
        PROVE  \E j \in Regions : Scan!IsPlace(j, matches[m]) /\ Scan!ComesBefore(j, matches[m], region, x)
    <2>1. matches[m] \in Int
      BY <1>1
    <2>2. PICK j \in Regions : Scan!IsPlace(j, matches[m]) /\ Scan!ComesBefore(j, matches[m], region, Here)
      BY <1>1 DEF OrderInv, IsBehind
    <2>3. Scan!ComesBefore(j, matches[m], region, x)
      BY <1>1, <2>1, <2>2 DEF Scan!ComesBefore
    <2> QED
      BY <2>2, <2>3
  <1> QED
    BY <1>2 DEF AfterAll

LEMMA ReadChunkStep ==
  ASSUME SearchInv, Scan!ReadChunk
  PROVE  SearchInv'
  <1>0. ScanTypes /\ RegionInv /\ ChunkInv /\ OrderInv /\ CoverInv
    BY DEF SearchInv
  <1>1. /\ search' = search /\ todo' = todo /\ region' = region /\ limit' = limit /\ offset' = offset
        /\ budget' = budget /\ matches' = matches /\ failed' = failed
        /\ region # 0 /\ chunk = Scan!NoChunk
        /\ chunk' = [size |-> Scan!ChunkSize, at |-> 0, left |-> search.max - Len(matches)]
        /\ offset < limit /\ Len(matches) < search.max /\ Scan!ChunkSize >= Scan!Size
    BY DEF Scan!ReadChunk, Scan!GoesOn
  <1>2. /\ Scan!ChunkSize \in Nat /\ offset + Scan!ChunkSize <= limit
        /\ search.max \in Nat /\ Len(matches) \in Nat /\ Scan!Size \in Nat
    <2>1. offset \in Nat /\ limit \in Nat /\ Chunk \in Nat /\ search.max \in Nat /\ Scan!Size \in Nat
      BY <1>0, SearchIs DEF SearchFacts, ScanTypes
    <2> QED
      BY <1>0, <1>1, <2>1 DEF Scan!ChunkSize, Scan!Lesser, ScanTypes
  <1>3. Here' = Here /\ Here \in Int
    <2>1. Here = Scan!From(region) + offset /\ Here \in Int
      BY <1>0, <1>1, HereIs
    <2>2. Here' = Scan!From(region)' + offset' + chunk'.at /\ chunk'.at = 0
      BY <1>1 DEF Here
    <2>3. Scan!From(region)' = Scan!From(region)
      BY <1>1 DEF Scan!From
    <2>4. Scan!From(region) \in Int /\ offset \in Nat
      BY <1>0, <1>1, HereIs DEF ScanTypes
    <2> QED
      BY <1>1, <2>1, <2>2, <2>3, <2>4
  <1>4. ScanTypes'
    BY <1>0, <1>1, Same DEF ScanTypes
  <1>5. RegionInv'
    BY <1>0, <1>1, Same DEF RegionInv, Scan!From, Scan!To
  <1>6. ChunkInv'
    BY <1>1, <1>2, Same DEF ChunkInv
  <1>7. OrderInv'
    BY <1>0, <1>1, <1>3, OrderStays
  <1>8. CoverInv'
    <2>1. Rest' = Rest
      BY <1>1, Same DEF Rest, TodoCells, RestOf, Scan!From, Scan!To, Scan!Cells
    <2>2. \A i, x : IsPassed(i, x)' = IsPassed(i, x)
      BY <1>1, <1>3 DEF IsPassed
    <2>3. Covers => Cardinality(Rest)' <= budget'
      BY <1>0, <1>1, <2>1 DEF CoverInv
    <2>4. Covers /\ region' # 0 => limit' = Scan!To(region') - Scan!From(region')
      BY <1>0, <1>1 DEF CoverInv
    <2> QED
      BY <1>1, <2>2, <2>3, <2>4, CoverStays
  <1> QED
    BY <1>4, <1>5, <1>6, <1>7, <1>8 DEF SearchInv

(* A region that is left, as it is behind or as it cannot be read.         *)
LEMMA LeaveRegion ==
  ASSUME SearchInv, region # 0, chunk = Scan!NoChunk, region' = 0, failed \subseteq failed',
         UNCHANGED <<search, todo, limit, offset, chunk, budget, matches>>,
         \A x \in Int :
           Covers /\ Scan!IsPlace(region, x) /\ Here <= x => region \in failed' \/ AfterAll(region, x)
  PROVE  SearchInv'
  <1>0. ScanTypes /\ RegionInv /\ ChunkInv /\ OrderInv /\ CoverInv
    BY DEF SearchInv
  <1>1. ScanTypes'
    BY <1>0, Same DEF ScanTypes
  <1>2. RegionInv' /\ ChunkInv'
    BY <1>0 DEF RegionInv, ChunkInv, Scan!NoChunk
  <1>3. OrderInv'
    BY <1>0, OrderStays
  <1>4. CoverInv'
    <2>1. Covers => Cardinality(Rest)' <= budget'
      <3>1. Rest' \subseteq Rest
        BY Same DEF Rest, TodoCells, RestOf
      <3>2. IsFiniteSet(Rest)
        BY <1>0, RestIsFinite DEF RestFacts
      <3>3. Cardinality(Rest') <= Cardinality(Rest) /\ Cardinality(Rest') \in Nat /\ Cardinality(Rest) \in Nat
        BY <3>1, <3>2, FS_Subset, FS_CardinalityType
      <3> QED
        BY <1>0, <3>3 DEF CoverInv, ScanTypes
    <2>2. ASSUME NEW i \in Regions \ failed', NEW x \in Int, Covers, Scan!IsPlace(i, x), IsPassed(i, x)',
                 ~IsPassed(i, x)
          PROVE  AfterAll(i, x)
      <3>1. i = region /\ ~(x < Here)
        BY <2>2 DEF IsPassed
      <3>2. Here \in Int
        BY <1>0, HereIs
      <3> QED
        BY <2>2, <3>1, <3>2
    <2> QED
      BY <2>1, <2>2, CoverStays
  <1> QED
    BY <1>1, <1>2, <1>3, <1>4 DEF SearchInv

LEMMA ReadFailsStep ==
  ASSUME SearchInv, Scan!ReadFails
  PROVE  SearchInv'
  BY LeaveRegion DEF Scan!ReadFails

LEMMA EndRegionStep ==
  ASSUME SearchInv, Scan!EndRegion
  PROVE  SearchInv'
  <1>0. ScanTypes /\ RegionInv /\ ChunkInv /\ OrderInv /\ CoverInv
    BY DEF SearchInv
  <1>1. /\ region # 0 /\ chunk = Scan!NoChunk /\ ~Scan!GoesOn /\ region' = 0 /\ failed' = failed
        /\ UNCHANGED <<search, todo, limit, offset, chunk, budget, matches>>
    BY DEF Scan!EndRegion
  <1>2. ASSUME NEW x \in Int, Covers, Scan!IsPlace(region, x), Here <= x
        PROVE  AfterAll(region, x)
    <2>1. /\ Scan!From(region) \in Int /\ Scan!To(region) \in Int /\ Here = Scan!From(region) + offset
          /\ limit = Scan!To(region) - Scan!From(region)
      BY <1>0, <1>1, <1>2, HereIs DEF CoverInv
    <2>2. /\ Scan!Size \in Nat /\ Scan!Size >= 1 /\ Scan!Size <= Chunk /\ Chunk \in Nat /\ search.max \in Nat
          /\ offset \in Nat /\ limit \in Nat
      BY <1>0, SearchIs DEF SearchFacts, ScanTypes
    <2>3. x + Scan!Size <= Scan!To(region)
      BY <1>2 DEF Scan!IsPlace
    <2>4. offset + Scan!Size <= limit
      BY <1>2, <2>1, <2>2, <2>3
    <2>5. offset < limit /\ Scan!ChunkSize >= Scan!Size
      BY <2>2, <2>4 DEF Scan!ChunkSize, Scan!Lesser
    <2>6. Len(matches) = search.max
      <3>1. Len(matches) \in Nat /\ Len(matches) <= search.max
        BY <1>0 DEF OrderInv, Scan!IsFoundInOrder, ScanTypes
      <3> QED
        BY <1>1, <2>2, <2>5, <3>1 DEF Scan!GoesOn
    <2> QED
      BY <1>1, <1>2, <2>6, AllBehind
  <1> QED
    BY <1>1, <1>2, LeaveRegion

LEMMA EndChunkStep ==
  ASSUME SearchInv, Scan!EndChunk
  PROVE  SearchInv'
  <1>0. ScanTypes /\ RegionInv /\ ChunkInv /\ OrderInv /\ CoverInv
    BY DEF SearchInv
  <1> DEFINE by == chunk.size - Scan!Overlap
  <1>1. /\ search' = search /\ todo' = todo /\ region' = region /\ limit' = limit
        /\ matches' = matches /\ failed' = failed /\ chunk # Scan!NoChunk /\ chunk' = Scan!NoChunk
        /\ offset' = offset + by /\ budget' = Scan!Greater(budget - by, 0)
        /\ chunk.at > chunk.size - Scan!Size \/ chunk.left = 0
    BY DEF Scan!EndChunk, Scan!IsCompared
  <1>2. /\ region # 0 /\ region \in Regions
        /\ chunk.size \in Nat /\ chunk.at \in Nat /\ chunk.size >= Scan!Size /\ offset + chunk.size <= limit
        /\ chunk.at <= chunk.size - Scan!Size + 1 /\ chunk.left = search.max - Len(matches)
        /\ limit <= Scan!To(region) - Scan!From(region)
    BY <1>0, <1>1 DEF ChunkInv, RegionInv, ScanTypes
  <1>3. /\ Scan!Size \in Nat /\ Scan!Size >= 1 /\ search.max \in Nat /\ Len(matches) \in Nat
        /\ offset \in Nat /\ limit \in Nat /\ budget \in Nat
        /\ Scan!From(region) \in Int /\ Scan!To(region) \in Int /\ Here \in Int
    BY <1>0, <1>2, SearchIs, HereIs DEF SearchFacts, ScanTypes
  <1>4. /\ by = chunk.size - Scan!Size + 1 /\ by \in Nat /\ by >= 1
        /\ offset' \in Nat /\ offset' <= limit /\ budget' \in Nat /\ budget' >= budget - by
    <2>1. chunk.size \in Nat /\ Scan!Size \in Nat /\ Scan!Size >= 1 /\ chunk.size >= Scan!Size
      BY <1>2, <1>3
    <2>2. by = chunk.size - Scan!Size + 1
      BY <2>1 DEF Scan!Overlap
    <2> HIDE DEF by
    <2>3. by \in Nat /\ by >= 1 /\ by <= chunk.size
      BY <2>1, <2>2
    <2>4. offset \in Nat /\ limit \in Nat /\ budget \in Nat /\ offset + chunk.size <= limit
      BY <1>2, <1>3
    <2>5. offset' \in Nat /\ offset' <= limit
      BY <1>1, <2>1, <2>3, <2>4
    <2>6. budget' \in Nat /\ budget' >= budget - by
      BY <1>1, <2>3, <2>4 DEF Scan!Greater
    <2> QED
      BY <2>2, <2>3, <2>5, <2>6
  <1> HIDE DEF by
  <1>5. Here' = Scan!From(region) + offset + by /\ Here' \in Int /\ Here <= Here'
    <2>1. Here' = Scan!From(region)' + offset' + chunk'.at
      BY DEF Here
    <2>2. chunk'.at = 0 /\ Scan!From(region)' = Scan!From(region)
      BY <1>1 DEF Scan!NoChunk, Scan!From
    <2>3. Here = Scan!From(region) + offset + chunk.at
      BY DEF Here
    <2>4. Scan!From(region) \in Int /\ offset \in Nat /\ by \in Nat /\ chunk.at \in Nat /\ offset' = offset + by
      BY <1>1, <1>2, <1>3, <1>4
    <2>5. Here' = Scan!From(region) + offset + by
      BY <2>1, <2>2, <2>4
    <2>6. chunk.at <= by
      BY <1>2, <1>4
    <2> QED
      BY <2>3, <2>4, <2>5, <2>6
  <1>6. ScanTypes'
    BY <1>0, <1>1, <1>4, Same DEF ScanTypes
  <1>7. RegionInv'
    BY <1>0, <1>1, <1>4, Same DEF RegionInv, Scan!From, Scan!To
  <1>8. ChunkInv'
    BY <1>1 DEF ChunkInv, Scan!NoChunk
  <1>9. OrderInv'
    BY <1>0, <1>1, <1>3, <1>5, OrderStays
  <1>10. CoverInv'
    <2> DEFINE p == Scan!From(region) + offset
               S == CellsFrom(region, p, p + by)
    <2>1. p \in Int /\ p + by \in Int
      <3>1. Scan!From(region) \in Int /\ offset \in Nat /\ by \in Nat
        BY <1>3, <1>4
      <3> QED
        BY <3>1
    <2>2. IsFiniteSet(S) /\ Cardinality(S) = by
      <3>1. IsFiniteSet(S) /\ Cardinality(S) = IF p > (p + by) - 1 THEN 0 ELSE (p + by) - p
        BY <2>1, Stretch
      <3> QED
        BY <1>4, <2>1, <3>1
    <2>3. RestOf = CellsFrom(region, p, Scan!To(region))
      BY <1>2 DEF RestOf, CellsFrom
    <2>4. RestOf' = CellsFrom(region, p + by, Scan!To(region))
      <3>1. Scan!From(region)' = Scan!From(region) /\ Scan!To(region)' = Scan!To(region)
        BY <1>1 DEF Scan!From, Scan!To
      <3>2. Scan!From(region) + (offset + by) = p + by
        BY <1>3, <1>4
      <3> QED
        BY <1>1, <1>2, <3>1, <3>2 DEF RestOf, CellsFrom
    <2>5. p + by <= Scan!To(region)
      <3>1. offset + by <= limit /\ limit <= Scan!To(region) - Scan!From(region)
        BY <1>1, <1>2, <1>4
      <3>2. /\ Scan!From(region) \in Int /\ Scan!To(region) \in Int /\ by \in Nat /\ offset \in Nat
            /\ limit \in Nat
        BY <1>3, <1>4
      <3> QED
        BY <3>1, <3>2
    <2>6. TodoCells' = TodoCells
      BY <1>1, Same DEF TodoCells
    <2>7. \A y \in TodoCells : y \notin S
      <3> SUFFICES ASSUME NEW i \in todo, NEW y \in Scan!Cells(i), y \in S PROVE FALSE
        BY DEF TodoCells
      <3>1. i # region
        BY <1>0, <1>2 DEF RegionInv
      <3>2. y[1] = i /\ y[1] = region
        BY DEF Scan!Cells, CellsFrom
      <3> QED
        BY <3>1, <3>2
    <2> HIDE DEF p
    <2>8. S \subseteq RestOf /\ RestOf' \subseteq RestOf \ S
      <3>1. p \in Int /\ by \in Nat /\ Scan!To(region) \in Int
        BY <1>3, <1>4, <2>1
      <3>2. S \subseteq RestOf
        BY <2>3, <2>5, <3>1 DEF CellsFrom
      <3>3. RestOf' \subseteq RestOf
        BY <2>3, <2>4, <3>1 DEF CellsFrom
      <3>4. ASSUME NEW y \in RestOf', y \in S
            PROVE  FALSE
        <4>1. PICK v \in (p + by)..(Scan!To(region) - 1) : y = <<region, v>>
          BY <2>4, <3>4 DEF CellsFrom
        <4>2. PICK w \in p..((p + by) - 1) : y = <<region, w>>
          <5>1. y \in CellsFrom(region, p, p + by)
            BY <3>4
          <5> HIDE DEF S
          <5> QED
            BY Zenon, <5>1 DEF CellsFrom
        <4>3. v = w
          BY <4>1, <4>2
        <4> QED
          BY <3>1, <4>3
      <3> HIDE DEF S
      <3> QED
        BY <3>2, <3>3, <3>4
    <2> HIDE DEF S
    <2>9. S \subseteq Rest /\ Rest' \subseteq Rest \ S
      BY <2>6, <2>7, <2>8 DEF Rest
    <2>10. Cardinality(Rest') <= Cardinality(Rest) - by /\ Cardinality(Rest') \in Nat /\ Cardinality(Rest) \in Nat
      <3>1. IsFiniteSet(Rest) /\ Rest \cap S = S
        BY <1>0, <2>9, RestIsFinite DEF RestFacts
      <3>2. IsFiniteSet(Rest \ S) /\ Cardinality(Rest \ S) = Cardinality(Rest) - Cardinality(S)
        BY <3>1, <2>2, FS_Difference
      <3>3. Cardinality(Rest') <= Cardinality(Rest \ S) /\ IsFiniteSet(Rest')
        BY <2>9, <3>2, FS_Subset
      <3>4. /\ Cardinality(Rest \ S) = Cardinality(Rest) - by
            /\ Cardinality(Rest') \in Nat /\ Cardinality(Rest) \in Nat
        BY <2>2, <3>1, <3>2, <3>3, FS_CardinalityType
      <3> DEFINE q == Cardinality(Rest \ S)
      <3>5. Cardinality(Rest') <= q /\ q = Cardinality(Rest) - by
        BY <3>3, <3>4
      <3> HIDE DEF q
      <3> QED
        BY <3>4, <3>5
    <2>11. Covers => Cardinality(Rest)' <= budget'
      BY <1>0, <1>3, <1>4, <2>10 DEF CoverInv
    <2>12. Covers /\ region' # 0 => limit' = Scan!To(region') - Scan!From(region')
      BY <1>0, <1>1 DEF CoverInv
    <2>13. ASSUME NEW i \in Regions, NEW x \in Int, IsPassed(i, x)', ~IsPassed(i, x)
           PROVE  AfterAll(i, x)
      <3>1. i = region /\ x < Here' /\ Here <= x
        BY <1>1, <1>3, <2>13 DEF IsPassed
      <3>2. Here = Scan!From(region) + offset + chunk.at
        BY DEF Here
      <3>3. chunk.left = 0
        <4> SUFFICES ASSUME chunk.at > chunk.size - Scan!Size PROVE FALSE
          BY <1>1
        <4>1. chunk.at = by
          <5>1. /\ chunk.size \in Nat /\ chunk.at \in Nat /\ Scan!Size \in Nat
                /\ chunk.at <= chunk.size - Scan!Size + 1 /\ by = chunk.size - Scan!Size + 1
            BY <1>2, <1>3, <1>4
          <5> QED
            BY <5>1
        <4>2. Here' = Here
          BY <1>5, <3>2, <4>1
        <4> QED
          BY <1>3, <3>1, <4>2
      <3>4. Len(matches) = search.max
        BY <1>2, <1>3, <3>3
      <3> QED
        BY <1>2, <3>1, <3>4, AllBehind
    <2> QED
      BY <1>1, <2>11, <2>12, <2>13, CoverStays
  <1> QED
    BY <1>6, <1>7, <1>8, <1>9, <1>10 DEF SearchInv

LEMMA CompareStep ==
  ASSUME SearchInv, Scan!Compare
  PROVE  SearchInv'
  <1>0. ScanTypes /\ RegionInv /\ ChunkInv /\ OrderInv /\ CoverInv
    BY DEF SearchInv
  <1>1. /\ search' = search /\ todo' = todo /\ region' = region /\ limit' = limit /\ offset' = offset
        /\ budget' = budget /\ failed' = failed /\ chunk # Scan!NoChunk
        /\ ~(chunk.at > chunk.size - Scan!Size) /\ chunk.left # 0
    BY DEF Scan!Compare, Scan!IsCompared
  <1>2. /\ region # 0 /\ region \in Regions /\ region \notin todo
        /\ chunk \in [size : Nat, at : Nat, left : Nat]
        /\ chunk.size \in Nat /\ chunk.at \in Nat /\ chunk.left \in Nat
        /\ chunk.size >= Scan!Size /\ offset + chunk.size <= limit
        /\ chunk.left = search.max - Len(matches)
        /\ limit <= Scan!To(region) - Scan!From(region)
        /\ search.regions[region].readable
        /\ \A j \in todo : Scan!Before(region, j)
    BY <1>0, <1>1 DEF ChunkInv, RegionInv, ScanTypes
  <1>3. /\ Scan!Size \in Nat /\ Scan!Size >= 1 /\ search.max \in Nat /\ Len(matches) \in Nat
        /\ offset \in Nat /\ limit \in Nat /\ matches \in Seq(Int)
        /\ Scan!From(region) \in Int /\ Scan!To(region) \in Int /\ Here \in Int
    BY <1>0, <1>2, SearchIs, HereIs DEF SearchFacts, ScanTypes
  <1>4. Len(matches) < search.max
    <2>1. chunk.left \in Nat /\ chunk.left # 0 /\ chunk.left = search.max - Len(matches)
      BY <1>1, <1>2
    <2>2. search.max \in Nat /\ Len(matches) \in Nat
      BY <1>3
    <2> QED
      BY <2>1, <2>2
  <1>5. chunk.at + Scan!Size <= chunk.size
    <2>1. chunk.at \in Nat /\ chunk.size \in Nat /\ Scan!Size \in Nat
      BY <1>2, <1>3
    <2> QED
      BY <1>1, <2>1
  <1>6. Here = Scan!From(region) + offset + chunk.at
    BY DEF Here
  <1>7. Scan!From(region) <= Here /\ Here + Scan!Size <= Scan!To(region)
    <2>1. /\ Scan!From(region) \in Int /\ Scan!To(region) \in Int /\ offset \in Nat /\ limit \in Nat
          /\ chunk.at \in Nat /\ chunk.size \in Nat /\ Scan!Size \in Nat
      BY <1>2, <1>3
    <2>2. offset + chunk.size <= limit /\ limit <= Scan!To(region) - Scan!From(region)
      BY <1>2
    <2>3. offset + chunk.at + Scan!Size <= limit
      BY <1>5, <2>1, <2>2
    <2>4. Scan!From(region) <= Here
      BY <1>6, <2>1
    <2>5. Here + Scan!Size = Scan!From(region) + (offset + chunk.at + Scan!Size)
      BY <1>6, <2>1
    <2> QED
      BY <2>1, <2>2, <2>3, <2>4, <2>5
  <1>8. Scan!MatchesAt(Here) <=> Scan!IsPlace(region, Here)
    BY <1>2, <1>7 DEF Scan!IsPlace
  (* Not the one found last: that one is behind.                           *)
  <1>9. Scan!MatchesAt(Here) => \A m \in DOMAIN matches : matches[m] # Here
    <2> SUFFICES ASSUME Scan!IsPlace(region, Here), NEW m \in DOMAIN matches, matches[m] = Here PROVE FALSE
      BY <1>8
    <2>1. PICK i \in Regions : Scan!IsPlace(i, Here) /\ Scan!ComesBefore(i, Here, region, Here)
      BY <1>0, <1>2 DEF OrderInv, IsBehind
    <2>2. i = region
      BY <1>0, <1>2, <1>3, <2>1, RegionOfPlace DEF ScanTypes
    <2>3. region \in Int
      BY <1>2, SearchIs, <1>0 DEF SearchFacts, ScanTypes
    <2> QED
      BY <1>3, <2>1, <2>2, <2>3 DEF Scan!ComesBefore, Scan!Before
  <1>10. IF Scan!MatchesAt(Here)
         THEN /\ chunk' = [chunk EXCEPT !.at = @ + 1, !.left = @ - 1]
              /\ matches' = Append(matches, Here)
         ELSE chunk' = [chunk EXCEPT !.at = @ + 1] /\ matches' = matches
    <2>1. IF Scan!MatchesAt(Here)
          THEN /\ chunk' = [chunk EXCEPT !.at = @ + 1, !.left = @ - 1]
               /\ matches' = IF matches # <<>> /\ matches[Len(matches)] = Here THEN matches
                             ELSE Append(matches, Here)
          ELSE chunk' = [chunk EXCEPT !.at = @ + 1] /\ matches' = matches
      BY DEF Scan!Compare, Here
    <2>2. matches # <<>> => Len(matches) \in DOMAIN matches
      BY <1>3
    <2> QED
      BY <1>9, <2>1, <2>2
  <1>11. chunk'.size = chunk.size /\ chunk'.at = chunk.at + 1 /\ chunk'.at \in Nat
    <2>1. \/ chunk' = [chunk EXCEPT !.at = @ + 1]
          \/ chunk' = [chunk EXCEPT !.at = @ + 1, !.left = @ - 1]
      BY <1>10
    <2>2. chunk \in [size : Nat, at : Nat, left : Nat] /\ chunk.at \in Nat
      BY <1>2
    <2>3. CASE chunk' = [chunk EXCEPT !.at = @ + 1]
      BY <2>2, <2>3
    <2>4. CASE chunk' = [chunk EXCEPT !.at = @ + 1, !.left = @ - 1]
      BY <2>2, <2>4
    <2> QED
      BY <2>1, <2>3, <2>4
  <1>12. Here' = Here + 1
    <2>1. Here' = Scan!From(region)' + offset' + chunk'.at /\ Scan!From(region)' = Scan!From(region)
      BY <1>1 DEF Here, Scan!From
    <2>2. Scan!From(region) \in Int /\ offset \in Nat /\ chunk.at \in Nat /\ offset' = offset
      BY <1>1, <1>2, <1>3
    <2>3. chunk'.at = chunk.at + 1
      BY <1>11
    <2> QED
      BY <1>6, <2>1, <2>2, <2>3
  <1>13. RegionInv'
    BY <1>0, <1>1, Same DEF RegionInv, Scan!From, Scan!To
  <1>14. Rest' = Rest
    BY <1>1, Same DEF Rest, TodoCells, RestOf, Scan!From, Scan!To, Scan!Cells
  <1>15. Covers => Cardinality(Rest)' <= budget'
    BY <1>0, <1>1, <1>14 DEF CoverInv
  <1>16. \A i \in Regions, x \in Int :
           IsPassed(i, x)' => IsPassed(i, x) \/ (i = region /\ x = Here)
    BY <1>1, <1>3, <1>12 DEF IsPassed
  <1>17. ASSUME NEW k \in Nat, chunk'.left = k, k = search.max - Len(matches'),
                chunk' \in [size : Nat, at : Nat, left : Nat]
         PROVE  ChunkInv'
    <2>1. Scan!Size' = Scan!Size
      BY <1>1, Same
    <2>2. chunk'.at <= chunk'.size - Scan!Size + 1 /\ chunk'.size >= Scan!Size
      <3>1. chunk.at \in Nat /\ chunk.size \in Nat /\ Scan!Size \in Nat /\ chunk.size >= Scan!Size
        BY <1>2, <1>3
      <3> QED
        BY <1>5, <1>11, <3>1
    <2>3. offset' + chunk'.size <= limit'
      BY <1>1, <1>2, <1>11
    <2> QED
      BY <1>1, <1>2, <1>17, <2>1, <2>2, <2>3 DEF ChunkInv
  <1>18. CASE ~Scan!MatchesAt(Here)
    <2>1. chunk' = [chunk EXCEPT !.at = @ + 1] /\ matches' = matches
      BY <1>10, <1>18
    <2>2. ScanTypes'
      BY <1>0, <1>1, <2>1, Same DEF ScanTypes
    <2>3. ChunkInv'
      <3>1. chunk'.left = chunk.left /\ chunk' \in [size : Nat, at : Nat, left : Nat]
        BY <1>2, <2>1
      <3> QED
        BY <1>2, <1>17, <2>1, <3>1
    <2>4. OrderInv'
      BY <1>0, <1>1, <1>3, <1>12, <2>1, OrderStays
    <2>5. CoverInv'
      <3>1. \A i \in Regions \ failed', x \in Int :
              Covers /\ Scan!IsPlace(i, x) /\ IsPassed(i, x)' => IsPassed(i, x) \/ IsFound(x) \/ AfterAll(i, x)
        BY <1>8, <1>16, <1>18
      <3>2. Covers /\ region' # 0 => limit' = Scan!To(region') - Scan!From(region')
        BY <1>0, <1>1 DEF CoverInv
      <3> QED
        BY <1>1, <1>15, <2>1, <3>1, <3>2, CoverStays
    <2> QED
      BY <1>13, <2>2, <2>3, <2>4, <2>5 DEF SearchInv
  <1>19. CASE Scan!MatchesAt(Here)
    <2> DEFINE n == Len(matches)
    <2>1. chunk' = [chunk EXCEPT !.at = @ + 1, !.left = @ - 1] /\ matches' = Append(matches, Here)
      BY <1>10, <1>19
    <2>2. /\ matches' \in Seq(Int) /\ Len(matches') = n + 1 /\ DOMAIN matches = 1..n
          /\ DOMAIN matches' = (DOMAIN matches) \cup {n + 1}
          /\ matches'[n + 1] = Here
          /\ \A m \in DOMAIN matches : matches'[m] = matches[m] /\ m \in Nat /\ m < n + 1
      <3>1. matches \in Seq(Int) /\ Here \in Int /\ matches' = Append(matches, Here)
        BY <1>3, <2>1
      <3> QED
        BY <3>1
    <2>3. ScanTypes'
      BY <1>0, <1>1, <2>2, Same DEF ScanTypes
    <2>4. ChunkInv'
      <3>1. chunk \in [size : Nat, at : Nat, left : Nat] /\ chunk.at \in Nat /\ chunk.left \in Nat /\ chunk.left # 0
        BY <1>1, <1>2
      <3>2. chunk'.left = chunk.left - 1 /\ chunk.left - 1 \in Nat
        BY <2>1, <3>1
      <3>3. chunk' \in [size : Nat, at : Nat, left : Nat]
        <4>1. chunk' = [size |-> chunk.size, at |-> chunk.at + 1, left |-> chunk.left - 1]
          BY <2>1, <3>1
        <4> QED
          BY <3>1, <3>2, <4>1
      <3>4. chunk.left = search.max - n /\ search.max \in Nat /\ n \in Nat
        BY <1>2, <1>3
      <3>5. chunk'.left = search.max - Len(matches')
        <4>1. Len(matches') = n + 1
          BY <2>2
        <4> HIDE DEF n
        <4> QED
          BY <3>2, <3>4, <4>1
      <3> QED
        BY <1>17, <3>2, <3>3, <3>5
    <2>5. Scan!IsPlace(region, Here)
      BY <1>8, <1>19
    <2> HIDE DEF n
    <2>6. \A m \in DOMAIN matches : matches[m] \in Int /\ IsBehind(matches[m])
      BY <1>0, <1>3 DEF OrderInv
    <2>7. Scan!IsFoundInOrder'
      <3>1. Len(matches') <= search.max
        BY <1>3, <1>4, <2>2 DEF n
      <3>2. ASSUME NEW m \in DOMAIN matches'
            PROVE  \E i \in Regions : Scan!IsPlace(i, matches'[m])
        BY <1>2, <2>2, <2>5, <2>6 DEF IsBehind
      <3>3. ASSUME NEW m \in DOMAIN matches', NEW k \in DOMAIN matches', m < k
            PROVE  \E i, j \in Regions :
                     /\ Scan!IsPlace(i, matches'[m]) /\ Scan!IsPlace(j, matches'[k])
                     /\ Scan!ComesBefore(i, matches'[m], j, matches'[k])
        <4>1. CASE k \in DOMAIN matches
          <5>1. m \in DOMAIN matches
            BY <1>3, <2>2, <3>3, <4>1 DEF n
          <5> QED
            BY <1>0, <2>2, <3>3, <4>1, <5>1 DEF OrderInv, Scan!IsFoundInOrder, Regions
        <4>2. CASE k = n + 1
          <5>1. m \in DOMAIN matches
            BY <1>3, <2>2, <3>3, <4>2 DEF n
          <5>2. PICK i \in Regions : Scan!IsPlace(i, matches[m]) /\ Scan!ComesBefore(i, matches[m], region, Here)
            BY <1>2, <2>6, <5>1 DEF IsBehind
          <5> QED
            BY <1>2, <2>2, <2>5, <4>2, <5>1, <5>2
        <4> QED
          BY <2>2, <4>1, <4>2
      <3> QED
        BY <1>1, <3>1, <3>2, <3>3, Same DEF Scan!IsFoundInOrder, Regions
    <2>8. ASSUME NEW m \in DOMAIN matches'
          PROVE  IsBehind(matches[m])'
      <3>1. CASE m \in DOMAIN matches
        <4>1. \A y \in Int : IsBehind(y) => IsBehind(y)'
          BY <1>1, <1>3, <1>12, BehindStays
        <4> DEFINE y == matches'[m]
        <4>2. y = matches[m] /\ y \in Int /\ IsBehind(y)
          BY <2>2, <2>6, <3>1
        <4> QED
          BY <4>1, <4>2 DEF IsBehind
      <3>2. CASE m = n + 1
        <4>1. Scan!ComesBefore(region, Here, region, Here + 1)
          BY <1>3 DEF Scan!ComesBefore
        <4> QED
          BY <1>1, <1>2, <1>12, <2>2, <2>5, <3>2, <4>1, Same DEF IsBehind
      <3> QED
        BY <2>2, <3>1, <3>2
    <2>9. OrderInv'
      BY <2>7, <2>8 DEF OrderInv
    <2>10. CoverInv'
      <3> SUFFICES ASSUME Covers
                   PROVE  /\ Cardinality(Rest)' <= budget'
                          /\ region' # 0 => limit' = (Scan!To(region) - Scan!From(region))'
                          /\ \A i \in (Regions \ failed)', x \in Int :
                               Scan!IsPlace(i, x)' /\ IsPassed(i, x)' => IsFound(x)' \/ AfterAll(i, x)'
        BY <1>1, Same DEF CoverInv
      <3>1. region' # 0 => limit' = (Scan!To(region) - Scan!From(region))'
        BY <1>0, <1>1 DEF CoverInv, Scan!To, Scan!From
      <3>2. ASSUME NEW i \in Regions, i \notin failed, NEW x \in Int, Scan!IsPlace(i, x), IsPassed(i, x)'
            PROVE  IsFound(x)'
        <4>1. CASE i = region /\ x = Here
          BY <2>2, <4>1 DEF IsFound
        <4>2. CASE IsPassed(i, x)
          <5>1. IsFound(x)
            BY <1>0, <1>3, <1>4, <3>2, <4>2 DEF CoverInv, AfterAll
          <5> QED
            BY <2>2, <5>1 DEF IsFound
        <4> QED
          BY <1>16, <3>2, <4>1, <4>2
      <3> QED
        BY <1>1, <1>15, <3>1, <3>2, Same
    <2> QED
      BY <1>13, <2>3, <2>4, <2>9, <2>10 DEF SearchInv
  <1> QED
    BY <1>18, <1>19

LEMMA ReturnStep ==
  ASSUME SearchInv, Scan!Return
  PROVE  search' = None /\ IdleInv'
  <1>1. region = 0 /\ todo = {} /\ chunk = Scan!NoChunk
    BY DEF Scan!Return, Scan!IsDone, SearchInv, ChunkInv
  <1> QED
    BY <1>1 DEF Scan!Return, IdleInv, Scan!NoChunk

LEMMA ScanStep ==
  ASSUME ScanInv, Scan!Next \/ UNCHANGED scan
  PROVE  ScanInv'
  <1>1. CASE Scan!Begin
    <2>1. search = None /\ search' \in Searches
      BY <1>1 DEF Scan!Begin
    <2>2. SearchInv'
      BY <1>1, <2>1, BeginStep DEF ScanInv
    <2>3. search' # None
      BY <2>1, ScanAssumption DEF Scan!SearchesAssumption
    <2> QED
      BY <2>2, <2>3 DEF ScanInv
  <1>2. ASSUME search # None, search' = search, SearchInv'
        PROVE  ScanInv'
    BY <1>2 DEF ScanInv
  <1>3. search # None => SearchInv
    BY DEF ScanInv
  <1>4. search = None => IdleInv
    BY DEF ScanInv
  <1>5. CASE Scan!NextRegion
    BY <1>2, <1>3, <1>5, NextRegionStep DEF Scan!NextRegion
  <1>6. ASSUME Scan!ReadChunk \/ Scan!ReadFails \/ Scan!EndRegion \/ Scan!Compare \/ Scan!EndChunk
        PROVE  search # None /\ search' = search
    <2>1. region # 0 \/ chunk # Scan!NoChunk
      BY <1>6 DEF Scan!ReadChunk, Scan!ReadFails, Scan!EndRegion, Scan!Compare, Scan!EndChunk
    <2>2. search' = search
      BY <1>6 DEF Scan!ReadChunk, Scan!ReadFails, Scan!EndRegion, Scan!Compare, Scan!EndChunk
    <2> QED
      BY <1>4, <2>1, <2>2 DEF IdleInv
  <1>7. CASE Scan!ReadChunk
    BY <1>2, <1>3, <1>6, <1>7, ReadChunkStep
  <1>8. CASE Scan!ReadFails
    BY <1>2, <1>3, <1>6, <1>8, ReadFailsStep
  <1>9. CASE Scan!EndRegion
    BY <1>2, <1>3, <1>6, <1>9, EndRegionStep
  <1>10. CASE Scan!Compare
    BY <1>2, <1>3, <1>6, <1>10, CompareStep
  <1>11. CASE Scan!EndChunk
    BY <1>2, <1>3, <1>6, <1>11, EndChunkStep
  <1>12. CASE Scan!Return
    BY <1>3, <1>12, ReturnStep DEF ScanInv, Scan!Return
  <1>13. CASE UNCHANGED scan
    <2>1. search = None /\ IdleInv => IdleInv'
      BY <1>13 DEF scan, IdleInv, Scan!NoChunk
    <2>2. ASSUME SearchInv PROVE SearchInv'
      <3>0. ScanTypes /\ RegionInv /\ ChunkInv /\ OrderInv /\ CoverInv
        BY <2>2 DEF SearchInv
      <3>1. UNCHANGED <<search, todo, region, limit, offset, chunk, budget, matches, failed>>
        BY <1>13 DEF scan
      <3>2. ScanTypes'
        BY <3>0, <3>1, Same DEF ScanTypes
      <3>3. RegionInv'
        BY <3>0, <3>1, Same DEF RegionInv, Scan!From, Scan!To
      <3>4. ChunkInv'
        BY <3>0, <3>1, Same DEF ChunkInv, Scan!NoChunk
      <3>5. Here' = Here
        BY <3>1 DEF Here, Scan!From
      <3>6. OrderInv'
        BY <3>0, <3>1, <3>5, HereIs, OrderStays
      <3>7. CoverInv'
        <4>1. Rest' = Rest
          BY <3>1, Same DEF Rest, TodoCells, RestOf, Scan!From, Scan!To, Scan!Cells
        <4>2. \A i, x : IsPassed(i, x)' = IsPassed(i, x)
          BY <3>1, <3>5 DEF IsPassed
        <4>3. Covers => Cardinality(Rest)' <= budget'
          BY <3>0, <3>1, <4>1 DEF CoverInv
        <4>4. Covers /\ region' # 0 => limit' = Scan!To(region') - Scan!From(region')
          BY <3>0, <3>1 DEF CoverInv
        <4> QED
          BY <2>2, <3>1, <4>2, <4>3, <4>4, CoverStays
      <3> QED
        BY <3>2, <3>3, <3>4, <3>6, <3>7 DEF SearchInv
    <2>3. search' = search
      BY <1>13 DEF scan
    <2> QED
      BY <2>1, <2>2, <2>3 DEF ScanInv
  <1> QED
    BY <1>1, <1>5, <1>7, <1>8, <1>9, <1>10, <1>11, <1>12, <1>13 DEF Scan!Next

LEMMA ScanIsFound == ScanInv => PatternIsFound
  <1> SUFFICES ASSUME SearchInv
               PROVE  Scan!IsFoundInOrder /\ Scan!IsFoundEverywhere
    BY DEF ScanInv, PatternIsFound, Scan!PatternIsFound
  <1>1. Scan!IsFoundInOrder
    BY DEF SearchInv, OrderInv
  <1>2. ASSUME Scan!IsDone, Covers, NEW i \in Regions \ failed, NEW x \in Int, Scan!IsPlace(i, x)
        PROVE  IsFound(x) \/ AfterAll(i, x)
    <2>1. region = 0 /\ todo = {} /\ i # 0
      BY <1>2, SearchIs DEF Scan!IsDone, SearchInv, ScanTypes, SearchFacts
    <2> QED
      BY <1>2, <2>1 DEF SearchInv, CoverInv, IsPassed
  <1>3. \A i \in Regions : Scan!From(i) \in Int /\ Scan!To(i) \in Int
    BY SearchIs DEF SearchFacts, SearchInv, ScanTypes
  <1>4. Scan!Cardinality(Scan!AllCells) = Cardinality(Scan!AllCells)
    BY Zenon DEF Scan!Cardinality, Cardinality
  <1>5. Scan!IsFoundEverywhere
    BY <1>2, <1>3, <1>4 DEF Scan!IsFoundEverywhere, Covers, IsFound, AfterAll, Regions
  <1> QED
    BY <1>1, <1>5

(* PatternIsFound, for every memory, pattern, list of regions and size of  *)
(* a chunk: ProcessMemory::scan_pattern finds a pattern across the seams   *)
(* of its chunks, no place twice, in the order of the regions.             *)
THEOREM PatternsAreFound == AllSpec => []PatternIsFound
  <1>1. AllInit => ScanInv
    BY DEF AllInit, Scan!Init, ScanInv, IdleInv, Scan!NoChunk
  <1>2. ScanInv /\ [AllNext]_allVars => ScanInv'
    <2> SUFFICES ASSUME ScanInv, [AllNext]_allVars PROVE ScanInv'
      OBVIOUS
    <2>1. Scan!Next \/ UNCHANGED scan
      BY DEF AllNext, allVars
    <2> QED
      BY <2>1, ScanStep
  <1> QED
    BY <1>1, <1>2, ScanIsFound, PTL DEF AllSpec

-----------------------------------------------------------------------------
(* What is read of a play, its result and the player.                     *)

(* What UpTo gives of c: all before the least that is bad.                 *)
Before(bad, c) ==
  IF bad = {} THEN c ELSE SubSeq(c, 1, (CHOOSE i \in bad : \A j \in bad : i <= j) - 1)

LEMMA BeforeTheLeast ==
  ASSUME NEW S, NEW c \in Seq(S), NEW bad \in SUBSET (1..Len(c)), NEW r, r = Before(bad, c)
  PROVE  /\ r \in Seq(S) /\ Len(r) \in 0..Len(c) /\ Len(c) \in Nat
         /\ \A i \in 1..Len(r) : r[i] = c[i] /\ i \notin bad
         /\ Len(r) = Len(c) \/ Len(r) + 1 \in bad
  <1>1. Len(c) \in Nat
    OBVIOUS
  <1>2. CASE bad = {}
    BY <1>1, <1>2 DEF Before
  <1>3. CASE bad # {}
    <2> DEFINE m == CHOOSE i \in bad : \A j \in bad : i <= j
    <2>1. \E i \in bad : \A j \in bad : i <= j
      <3>1. bad \in SUBSET (0..Len(c))
        BY <1>1
      <3> QED
        BY <1>1, <1>3, <3>1, LeastBelow
    <2>2. m \in bad /\ \A j \in bad : m <= j
      BY <2>1
    <2>3. r = SubSeq(c, 1, m - 1)
      BY <1>3 DEF Before
    <2> HIDE DEF m
    <2>4. m \in Nat /\ 1 <= m /\ m <= Len(c)
      BY <1>1, <2>2
    <2>5. r \in Seq(S) /\ Len(r) = m - 1 /\ \A i \in 1..(m - 1) : r[i] = c[i]
      <3> DEFINE n == m - 1
      <3>1. n \in Nat /\ 0 <= n /\ n <= Len(c) /\ n \in 0..Len(c)
        BY <1>1, <2>4
      <3> HIDE DEF n
      <3>2. SubSeq(c, 1, n) \in Seq(S) /\ Len(SubSeq(c, 1, n)) = n
        BY <1>1, <3>1
      <3>3. \A i \in 1..n : SubSeq(c, 1, n)[i] = c[i]
        BY <1>1, <3>1
      <3>4. r = SubSeq(c, 1, n)
        BY <2>3 DEF n
      <3> QED
        BY <3>2, <3>3, <3>4 DEF n
    <2>6. \A i \in 1..(m - 1) : i \notin bad
      BY <2>2, <2>4
    <2>7. m - 1 \in 0..Len(c) /\ (m - 1) + 1 = m
      BY <1>1, <2>4
    <2> QED
      BY <1>1, <2>2, <2>5, <2>6, <2>7
  <1> QED
    BY <1>2, <1>3

-----------------------------------------------------------------------------
(* The sums behind the unstable rate.                                      *)
Added(sums, error) == [total |-> sums.total + error, squares |-> sums.squares + error * error]

(* The recursion of SumsUpTo, unfolded.                                    *)
LEMMA ErrorSumsLoop ==
  ASSUME NEW errors, Len(errors) \in Nat
  PROVE  /\ Memory!SumsUpTo(errors)[0] = [total |-> 0, squares |-> 0]
         /\ \A i \in 1..Len(errors) :
              Memory!SumsUpTo(errors)[i] = Added(Memory!SumsUpTo(errors)[i - 1], errors[i])
  <1> DEFINE Step(F, i) == IF i = 0 THEN [total |-> 0, squares |-> 0] ELSE Added(F[i - 1], errors[i])
             IsLoop(F, m) == F = [i \in 0..m |-> Step(F, i)]
             G == {m \in Nat : \E F : IsLoop(F, m)}
  <1>1. 0 \in G
    <2> DEFINE F == [i \in 0..0 |-> [total |-> 0, squares |-> 0]]
    <2>1. F = [i \in 0..0 |-> Step(F, i)]
      OBVIOUS
    <2>2. IsLoop(F, 0)
      BY <2>1
    <2> HIDE DEF F, IsLoop
    <2> QED
      BY <2>2
  <1>2. ASSUME NEW m \in Nat, m \in G
        PROVE  m + 1 \in G
    <2>1. PICK F : IsLoop(F, m)
      BY <1>2
    <2> DEFINE H == [i \in 0..(m + 1) |-> IF i <= m THEN F[i] ELSE Added(F[m], errors[m + 1])]
               E == [i \in 0..(m + 1) |-> Step(H, i)]
    <2>2. ASSUME NEW i \in 0..(m + 1)
          PROVE  H[i] = E[i]
      <3>1. CASE i = 0
        BY <2>1, <3>1
      <3>2. CASE i # 0 /\ i <= m
        <4>1. i \in 0..m /\ i - 1 \in 0..m /\ i - 1 \in 0..(m + 1)
          BY <3>2
        <4>2. F[i] = Added(F[i - 1], errors[i])
          BY <2>1, <3>2, <4>1
        <4>3. H[i] = F[i] /\ H[i - 1] = F[i - 1]
          BY <3>2, <4>1
        <4> QED
          BY <3>2, <4>2, <4>3
      <3>3. CASE i = m + 1
        <4>1. /\ H[i] = Added(F[m], errors[m + 1])
              /\ H[m] = F[m] /\ i - 1 = m /\ i # 0
          BY <3>3
        <4> QED
          BY <3>3, <4>1
      <3> QED
        BY <3>1, <3>2, <3>3
    <2>3. H = E
      BY <2>2
    <2>4. IsLoop(H, m + 1)
      BY Zenon, <2>3
    <2> HIDE DEF H, E, IsLoop
    <2> QED
      BY <2>4
  <1>3. Len(errors) \in G
    <2> HIDE DEF G
    <2> QED
      BY <1>1, <1>2, Counting
  <1>4. IsLoop(Memory!SumsUpTo(errors), Len(errors))
    BY Zenon, <1>3 DEF Memory!SumsUpTo, Added
  <1>5. 0 \in 0..Len(errors) /\ \A i \in 1..Len(errors) : i \in 0..Len(errors) /\ i # 0
    OBVIOUS
  <1> QED
    BY <1>4, <1>5

(* The unstable rate tells how the hits spread, not whether they are early *)
(* or late: all shifted by a constant they have the same.                  *)
LEMMA SpreadIsOfTheErrors ==
  ASSUME NEW errors \in Seq(Int), NEW shifted \in Seq(Int), NEW mods,
         Len(shifted) = Len(errors),
         \A i \in 1..Len(errors) : shifted[i] = errors[i] + 5
  PROVE  Memory!UnstableRate(shifted, mods) = Memory!UnstableRate(errors, mods)
  <1> DEFINE n == Len(errors)
             F == Memory!SumsUpTo(errors)
             H == Memory!SumsUpTo(shifted)
             AreSums(i) == /\ F[i].total \in Int /\ F[i].squares \in Int
                           /\ H[i].total = F[i].total + 5 * i
                           /\ H[i].squares = F[i].squares + 10 * F[i].total + 25 * i
             G == {i \in Nat : i <= n => AreSums(i)}
  <1>1. n \in Nat
    OBVIOUS
  <1>2. /\ F[0] = [total |-> 0, squares |-> 0] /\ H[0] = [total |-> 0, squares |-> 0]
        /\ \A i \in 1..n : F[i] = Added(F[i - 1], errors[i]) /\ H[i] = Added(H[i - 1], shifted[i])
    BY <1>1, ErrorSumsLoop
  <1> HIDE DEF F, H
  <1>3. 0 \in G
    BY <1>2
  <1>4. ASSUME NEW i \in Nat, i \in G
        PROVE  i + 1 \in G
    <2> SUFFICES ASSUME i + 1 <= n
                 PROVE  AreSums(i + 1)
      OBVIOUS
    <2>1. AreSums(i)
      BY <1>1, <1>4
    <2>2. i + 1 \in 1..n /\ (i + 1) - 1 = i
      BY <1>1
    <2> DEFINE e == errors[i + 1]
               t == F[i].total
               q == F[i].squares
    <2>3. e \in Int /\ shifted[i + 1] = e + 5 /\ t \in Int /\ q \in Int
      <3>1. \A j \in 1..n : errors[j] \in Int
        OBVIOUS
      <3> QED
        BY <2>1, <2>2, <3>1
    <2>4. F[i + 1] = [total |-> t + e, squares |-> q + e * e]
      BY <1>2, <2>2 DEF Added
    <2>5. H[i + 1] = [total |-> H[i].total + (e + 5), squares |-> H[i].squares + (e + 5) * (e + 5)]
      BY <1>2, <2>2, <2>3 DEF Added
    <2>6. H[i].total = t + 5 * i /\ H[i].squares = q + 10 * t + 25 * i
      BY <2>1
    <2> HIDE DEF e, t, q
    <2>7. F[i + 1].total = t + e /\ F[i + 1].squares = q + e * e
      BY <2>4
    <2>8. /\ H[i + 1].total = (t + 5 * i) + (e + 5)
          /\ H[i + 1].squares = (q + 10 * t + 25 * i) + (e + 5) * (e + 5)
      BY <2>5, <2>6
    <2>9. (e + 5) * (e + 5) = e * e + 10 * e + 25 /\ e * e \in Int
      BY <2>3
    <2>10. (t + 5 * i) + (e + 5) = (t + e) + 5 * (i + 1)
      BY <2>3
    <2>11. (q + 10 * t + 25 * i) + (e * e + 10 * e + 25) = (q + e * e) + 10 * (t + e) + 25 * (i + 1)
      BY <2>3, <2>9
    <2>12. t + e \in Int /\ q + e * e \in Int
      BY <2>3, <2>9
    <2> QED
      BY <2>7, <2>8, <2>9, <2>10, <2>11, <2>12
  <1>5. AreSums(n)
    <2>1. n \in G
      <3> HIDE DEF G
      <3> QED
        BY <1>1, <1>3, <1>4, Counting
    <2> QED
      BY <1>1, <2>1
  <1> DEFINE t == F[n].total
             q == F[n].squares
  <1>6. n * (q + 10 * t + 25 * n) - (t + 5 * n) * (t + 5 * n) = n * q - t * t
    <2>1. t \in Int /\ q \in Int /\ n \in Int
      BY <1>5
    <2> HIDE DEF t, q, n
    <2>2. n * (q + 10 * t + 25 * n) = n * q + 10 * (n * t) + 25 * (n * n)
      BY <2>1
    <2>3. (t + 5 * n) * (t + 5 * n) = t * t + 10 * (n * t) + 25 * (n * n)
      BY <2>1
    <2>4. n * q \in Int /\ n * t \in Int /\ n * n \in Int /\ t * t \in Int
      BY <2>1
    <2> QED
      BY <2>2, <2>3, <2>4
  <1>7. n * H[n].squares - H[n].total * H[n].total = n * F[n].squares - F[n].total * F[n].total
    BY <1>5, <1>6
  <1> QED
    BY <1>7 DEF Memory!UnstableRate, F, H

-----------------------------------------------------------------------------
(* The reads, of anything there may be to look at.                         *)
(* Whatever list of hit errors there is, of whatever claimed size.         *)
LEMMA ErrorsRead ==
  ASSUME NEW list, Memory!IsLook([fn |-> "errors", list |-> list])
  PROVE  Memory!ErrorsAreTheNewest(list)
  <1> DEFINE errors == Memory!ReadHitErrors(list)
             items == list.items
             size == list.size
             newest == IF size > MaxErrors THEN size - MaxErrors ELSE 0
             c == SubSeq(items, newest + 1, newest + (size - newest))
             bad == {i \in DOMAIN c : ~Memory!InBound(c[i])}
  <1> SUFFICES ASSUME errors # Torn, Memory!Read(list), Memory!Read(items), size > 0
               PROVE  /\ \A i \in 1..Len(errors) : errors[i] = items[newest + i] /\ Memory!InBound(errors[i])
                      /\ newest + Len(errors) = size \/ ~Memory!InBound(items[newest + Len(errors) + 1])
                      /\ Memory!UnstableRate([i \in 1..Len(errors) |-> errors[i] + 5], {})
                           = Memory!UnstableRate(errors, {})
    BY DEF Memory!ErrorsAreTheNewest
  <1>1. list # Torn /\ list # Null /\ items # Torn /\ items # Null
    BY DEF Memory!Read
  <1>2. size # Torn
    BY <1>1 DEF Memory!ReadHitErrors
  <1>3. items \in Seq(Int) /\ size \in Int
    BY <1>1, <1>2 DEF Memory!IsLook, Memory!Read
  <1>4. newest \in Nat /\ newest <= size /\ newest + (size - newest) = size
    BY <1>3, LooksAssumption
  <1>5. newest + (size - newest) <= Len(items) /\ errors = Memory!ParseHitErrors(c)
    <2>1. ~(size <= 0)
      BY <1>3
    <2>2. Memory!HitErrorWindow(size)[1] = newest /\ Memory!HitErrorWindow(size)[2] = size - newest
      BY DEF Memory!HitErrorWindow
    <2>3. errors = IF newest + (size - newest) > Len(items) THEN Torn ELSE Memory!ParseHitErrors(c)
      <3> HIDE DEF newest
      <3> QED
        BY <1>1, <1>2, <2>1, <2>2 DEF Memory!ReadHitErrors
    <2>4. ~(newest + (size - newest) > Len(items))
      BY <2>3
    <2>5. Len(items) \in Nat
      BY <1>3
    <2> QED
      BY <1>3, <1>4, <2>3, <2>4, <2>5
  <1> HIDE DEF errors, newest
  <1>6. c \in Seq(Int) /\ Len(c) = size - newest /\ \A i \in 1..Len(c) : c[i] = items[newest + i]
    <2>1. \A i \in (newest + 1)..size : items[i] \in Int
      BY <1>3, <1>4, <1>5
    <2>2. newest + 1 \in Int /\ size \in Int
      BY <1>3, <1>4
    <2>3. c = SubSeq(items, newest + 1, size)
      BY <1>4
    <2> HIDE DEF c
    <2>4. c \in Seq(Int) /\ Len(c) = IF newest + 1 <= size THEN size - (newest + 1) + 1 ELSE 0
      BY <2>1, <2>2, <2>3, SubSeqProperties
    <2>5. \A i \in 1..(size - (newest + 1) + 1) : c[i] = items[newest + 1 + i - 1]
      BY <2>1, <2>2, <2>3, SubSeqProperties
    <2>6. Len(c) = size - newest /\ size - (newest + 1) + 1 = size - newest
      BY <1>3, <1>4, <2>4
    <2>7. \A i \in 1..Len(c) : newest + 1 + i - 1 = newest + i
      BY <1>3, <1>4, <2>6
    <2> QED
      BY <2>4, <2>5, <2>6, <2>7
  <1> HIDE DEF c
  <1>7. bad \in SUBSET (1..Len(c))
    BY <1>6
  <1>8. errors = Before(bad, c)
    BY <1>5, Zenon DEF Memory!ParseHitErrors, Memory!UpTo, Before
  <1> HIDE DEF bad
  <1>9. /\ errors \in Seq(Int) /\ Len(errors) \in 0..Len(c) /\ Len(c) \in Nat
        /\ \A i \in 1..Len(errors) : errors[i] = c[i] /\ i \notin bad
        /\ Len(errors) = Len(c) \/ Len(errors) + 1 \in bad
    <2>1. c \in Seq(Int)
      BY <1>6
    <2> QED
      BY ONLY <1>7, <1>8, <2>1, BeforeTheLeast, SMTT(30)
  <1>10. \A i \in 1..Len(errors) : errors[i] = items[newest + i] /\ Memory!InBound(errors[i])
    <2> SUFFICES ASSUME NEW i \in 1..Len(errors)
                 PROVE  errors[i] = items[newest + i] /\ Memory!InBound(errors[i])
      OBVIOUS
    <2>1. i \in 1..Len(c) /\ errors[i] = c[i] /\ i \notin bad
      BY <1>9
    <2>2. i \in DOMAIN c
      BY <1>6, <2>1
    <2> QED
      BY <1>6, <2>1, <2>2 DEF bad
  <1>11. newest + Len(errors) = size \/ ~Memory!InBound(items[newest + Len(errors) + 1])
    <2>1. CASE Len(errors) = Len(c)
      BY <1>3, <1>4, <1>6, <2>1
    <2>2. CASE Len(errors) + 1 \in bad
      <3>1. Len(errors) + 1 \in 1..Len(c) /\ ~Memory!InBound(c[Len(errors) + 1])
        BY <1>7, <2>2 DEF bad
      <3>2. newest + Len(errors) + 1 = newest + (Len(errors) + 1)
        BY <1>4, <1>9
      <3> QED
        BY <1>6, <3>1, <3>2
    <2> QED
      BY <1>9, <2>1, <2>2
  <1>12. Memory!UnstableRate([i \in 1..Len(errors) |-> errors[i] + 5], {})
           = Memory!UnstableRate(errors, {})
    <2> DEFINE shifted == [i \in 1..Len(errors) |-> errors[i] + 5]
    <2>1. Len(errors) \in Nat /\ \A i \in 1..Len(errors) : errors[i] \in Int
      BY <1>9
    <2>2. shifted \in Seq(Int) /\ Len(shifted) = Len(errors)
      BY <2>1
    <2>3. \A i \in 1..Len(errors) : shifted[i] = errors[i] + 5
      OBVIOUS
    <2> HIDE DEF shifted
    <2>4. Memory!UnstableRate(shifted, {}) = Memory!UnstableRate(errors, {})
      BY <1>9, <2>2, <2>3, SpreadIsOfTheErrors
    <2> QED
      BY <2>4 DEF shifted
  <1> QED
    BY <1>10, <1>11, <1>12

(* Whatever list of players, its slots fewer or more than it says.         *)
LEMMA RowsRead ==
  ASSUME NEW players, Memory!IsLook([fn |-> "rows", players |-> players])
  PROVE  Memory!RowsAreThePrefix(players)
  <1> DEFINE rows == Memory!ReadLeaderboard(players)
             theirs == players.slots
             all == players.size
             size == IF all > MaxRows THEN MaxRows ELSE all
             slots == [i \in 1..size |-> IF i \in DOMAIN theirs THEN theirs[i] ELSE Torn]
             read == Memory!UpTo(slots, Memory!IsRow)
             bad == {i \in DOMAIN slots : ~Memory!IsRow(slots[i])}
  <1> SUFFICES ASSUME Memory!Read(players), Memory!Read(all), Memory!Read(theirs)
               PROVE  /\ \A i \in DOMAIN rows : Memory!IsRow(theirs[i]) /\ rows[i] = Memory!RowOf(theirs[i])
                      /\ Len(rows) = all \/ Len(rows) = MaxRows \/ all < 1
                         \/ Len(rows) = Len(theirs) \/ ~Memory!IsRow(theirs[Len(rows) + 1])
    BY DEF Memory!RowsAreThePrefix
  <1>1. all \in Int /\ Len(theirs) \in Nat /\ DOMAIN theirs = 1..Len(theirs)
    BY DEF Memory!IsLook
  <1>2. CASE all < 1
    <2>1. rows = <<>>
      BY <1>2 DEF Memory!ReadLeaderboard
    <2> QED
      BY <1>2, <2>1
  <1>3. CASE ~(all < 1)
    <2>1. rows = [i \in DOMAIN read |-> Memory!RowOf(read[i])]
      BY <1>3, Zenon DEF Memory!ReadLeaderboard
    <2>2. size \in Nat /\ (size = all \/ size = MaxRows)
      BY <1>1, <1>3, LooksAssumption
    <2> DEFINE S == {slots[i] : i \in 1..size}
    <2>3. slots \in Seq(S) /\ Len(slots) = size /\ DOMAIN slots = 1..size
      <3> HIDE DEF size
      <3>1. slots \in [1..size -> S]
        OBVIOUS
      <3> HIDE DEF slots, S
      <3> QED
        BY <2>2, <3>1
    <2>4. read = Before(bad, slots)
      BY Zenon DEF Memory!UpTo, Before
    <2>5. bad \in SUBSET (1..Len(slots))
      BY <2>3
    <2>6. \A i \in 1..size : slots[i] = IF i \in DOMAIN theirs THEN theirs[i] ELSE Torn
      OBVIOUS
    <2> HIDE DEF slots, read, size, S, rows
    <2>7. \A i \in 1..size : i \in bad <=> ~Memory!IsRow(slots[i])
      BY <2>3
    <2> HIDE DEF bad
    <2>8. /\ read \in Seq(S) /\ Len(read) \in 0..Len(slots)
          /\ \A i \in 1..Len(read) : read[i] = slots[i] /\ i \notin bad
          /\ Len(read) = Len(slots) \/ Len(read) + 1 \in bad
      <3>1. slots \in Seq(S)
        BY <2>3
      <3> QED
        BY ONLY <2>4, <2>5, <3>1, BeforeTheLeast, SMTT(30)
    <2>9. ~Memory!IsRow(Torn)
      BY DEF Memory!IsRow, Memory!Read
    <2>10. DOMAIN read = 1..Len(read) /\ Len(read) \in Nat /\ Len(read) <= size
      BY <2>2, <2>3, <2>8
    <2>11. DOMAIN rows = 1..Len(read) /\ Len(rows) = Len(read)
      BY <2>1, <2>10
    <2>12. ASSUME NEW i \in 1..Len(read)
           PROVE  Memory!IsRow(theirs[i]) /\ rows[i] = Memory!RowOf(theirs[i]) /\ i \in DOMAIN theirs
      <3>1. i \in 1..size /\ Memory!IsRow(slots[i]) /\ read[i] = slots[i]
        BY <2>2, <2>7, <2>8, <2>10
      <3>2. i \in DOMAIN theirs /\ slots[i] = theirs[i]
        BY <2>6, <2>9, <3>1
      <3> QED
        BY <2>1, <2>10, <3>1, <3>2
    <2>13. CASE Len(read) = Len(slots)
      BY <2>2, <2>3, <2>11, <2>12, <2>13
    <2>14. CASE Len(read) + 1 \in bad
      <3>1. Len(read) + 1 \in 1..size /\ ~Memory!IsRow(slots[Len(read) + 1])
        BY <2>3, <2>5, <2>7, <2>14
      <3>2. CASE Len(read) + 1 \in DOMAIN theirs
        BY <2>6, <2>11, <2>12, <3>1, <3>2
      <3>3. CASE Len(read) + 1 \notin DOMAIN theirs
        <4>1. Len(read) >= Len(theirs)
          BY <1>1, <2>10, <3>3
        <4>2. Len(read) <= Len(theirs)
          <5>1. CASE Len(read) = 0
            BY <1>1, <5>1
          <5>2. CASE Len(read) # 0
            <6>1. Len(read) \in 1..Len(read)
              BY <2>10, <5>2
            <6>2. Len(read) \in DOMAIN theirs
              BY <2>12, <6>1
            <6> QED
              BY <1>1, <6>2
          <5> QED
            BY <5>1, <5>2
        <4>3. Len(read) = Len(theirs)
          BY <1>1, <2>10, <4>1, <4>2
        <4> QED
          BY <2>11, <2>12, <4>3
      <3> QED
        BY <3>2, <3>3
    <2> QED
      BY <2>8, <2>13, <2>14
  <1> QED
    BY <1>2, <1>3

(* Whatever array there is, of whatever size and elements.                 *)
LEMMA KeysRead ==
  ASSUME NEW array, NEW mode, Memory!IsLook([fn |-> "keys", array |-> array, mode |-> mode])
  PROVE  Memory!KeysAreHeld(array, mode)
  <1> SUFFICES ASSUME NEW i \in 1..4, Memory!ReadKeyOverlay(array, mode)[i] # Memory!NoButton
               PROVE  /\ Memory!Read(array.elements[i]) /\ array.size >= 4 /\ (i < 4 \/ mode = 0)
                      /\ Memory!ReadKeyOverlay(array, mode)[i].isPressed =>
                           array.elements[i].pressed \notin {0, Null, Torn}
    BY DEF Memory!KeysAreHeld
  <1>1. Memory!Read(array) /\ Memory!Read(array.size) /\ ~(array.size < 4)
    BY DEF Memory!ReadKeyOverlay, Memory!NoButtons
  <1>2. array.size >= 4
    BY <1>1 DEF Memory!IsLook
  <1>3. /\ ~(i = 4 /\ mode # 0)
        /\ Memory!ReadKeyOverlay(array, mode)[i] = Memory!ReadButton(array.elements[i])
    BY <1>1 DEF Memory!ReadKeyOverlay
  <1>4. Memory!Read(array.elements[i])
    BY <1>3 DEF Memory!ReadButton
  <1>5. Memory!ReadKeyOverlay(array, mode)[i].isPressed => Memory!Or(array.elements[i].pressed, 0) # 0
    <2> DEFINE element == array.elements[i]
               button == [isPressed |-> Memory!Or(element.pressed, 0) # 0,
                          count |-> Memory!Or(element.count, 0)]
    <2>1. Memory!ReadKeyOverlay(array, mode)[i] = button
      BY <1>3, <1>4 DEF Memory!ReadButton
    <2>2. button.isPressed = (Memory!Or(element.pressed, 0) # 0)
      BY Zenon
    <2> HIDE DEF button
    <2> QED
      BY Zenon, <2>1, <2>2
  <1>6. i < 4 \/ mode = 0
    BY <1>3
  <1> QED
    BY <1>2, <1>4, <1>5, <1>6 DEF Memory!Or, Memory!Read

(* Whatever base of a result, any field of it missing or torn.             *)
LEMMA ResultsRead ==
  ASSUME NEW base
  PROVE  Memory!ResultsAreOfTheMode(base)
  <1> DEFINE results == Memory!ReadResults(base)
             held(m) == {w \in {1, 2} : m \in base.mods[w]}
  <1> SUFFICES ASSUME results # Torn
               PROVE  /\ results.geki # 0 => results.mode \in {1, 3} /\ results.geki = base.geki
                      /\ results.katu # 0 => results.mode # 0 /\ results.katu = base.katu
                      /\ Memory!Read(base.mods) /\ (\A w \in {1, 2} : Memory!Read(base.mods[w])) =>
                           \A m \in results.mods : Memory!Cardinality(held(m)) = 1
    BY DEF Memory!ResultsAreOfTheMode
  <1> DEFINE mode == Memory!Or(base.mode, 0)
  <1>1. /\ results.mode = mode
        /\ results.geki = IF mode \in {1, 3} THEN Memory!Or(base.geki, 0) ELSE 0
        /\ results.katu = IF mode \in {1, 2, 3} THEN Memory!Or(base.katu, 0) ELSE 0
        /\ results.mods = IF Memory!Read(base.mods)
                          THEN Memory!Xor([w \in {1, 2} |-> Memory!Or(base.mods[w], {})]) ELSE {}
    BY DEF Memory!ReadResults
  <1> HIDE DEF results, mode
  <1>2. results.geki # 0 => results.mode \in {1, 3} /\ results.geki = base.geki
    BY <1>1 DEF Memory!Or
  <1>3. results.katu # 0 => results.mode # 0 /\ results.katu = base.katu
    BY <1>1 DEF Memory!Or
  <1>4. ASSUME Memory!Read(base.mods), \A w \in {1, 2} : Memory!Read(base.mods[w]),
               NEW m \in results.mods
        PROVE  Memory!Cardinality(held(m)) = 1
    <2>1. m \in Memory!Xor([w \in {1, 2} |-> base.mods[w]])
      BY <1>1, <1>4 DEF Memory!Or
    <2>2. \/ m \in base.mods[1] /\ m \notin base.mods[2]
          \/ m \in base.mods[2] /\ m \notin base.mods[1]
      BY <2>1 DEF Memory!Xor
    <2>3. held(m) = {1} \/ held(m) = {2}
      BY <2>2
    <2>4. Cardinality({1}) = 1 /\ Cardinality({2}) = 1
      BY FS_Singleton
    <2>5. Memory!Cardinality(held(m)) = Cardinality(held(m))
      BY Zenon DEF Memory!Cardinality, Cardinality
    <2> QED
      BY <2>3, <2>4, <2>5
  <1> QED
    BY <1>2, <1>3, <1>4

(* Whatever profile, with the login pattern or without.                    *)
LEMMA ProfileRead ==
  ASSUME NEW base, NEW loginPattern
  PROVE  Memory!ProfileIsWhole(base, loginPattern)
  <1> DEFINE profile == Memory!ReadProfile(base, loginPattern)
  <1> SUFFICES ASSUME profile # Torn, NEW f \in DOMAIN profile
               PROVE  profile[f] # Torn /\ (profile[f] = base[f] \/ f = "login")
    BY DEF Memory!ProfileIsWhole
  <1>1. /\ ~(loginPattern /\ base.login = Torn)
        /\ \A g \in DOMAIN base \ {"login"} : base[g] # Torn
        /\ profile = [base EXCEPT !.login = IF loginPattern THEN @ ELSE 256]
    BY DEF Memory!ReadProfile
  <1>2. 256 # Torn
    BY LooksAssumption
  <1> HIDE DEF profile
  <1>3. f \in DOMAIN base
    BY <1>1
  <1>4. CASE f = "login"
    BY <1>1, <1>2, <1>3, <1>4
  <1>5. CASE f # "login"
    BY <1>1, <1>3, <1>5
  <1> QED
    BY <1>4, <1>5

-----------------------------------------------------------------------------
(* The calendar of civil_from_days counts its years from March: day d of   *)
(* an era of 400 years is day d - Start(y) of its year y.                  *)
Start(y) == 365 * y + y \div 4 - y \div 100 + y \div 400
DaysOf(year) == IF Memory!IsLeap(year + 1) THEN 366 ELSE 365

(* The year of a day is the one it falls in, in leap years too.            *)
LEMMA YearIs ==
  ASSUME NEW d \in Int, 0 <= d, d <= 146096
  PROVE  /\ Memory!YearOfEra(d) \in Int /\ 0 <= Memory!YearOfEra(d) /\ Memory!YearOfEra(d) <= 399
         /\ Start(Memory!YearOfEra(d)) <= d
         /\ d < Start(Memory!YearOfEra(d) + 1)
         /\ Start(Memory!YearOfEra(d))
              = 365 * Memory!YearOfEra(d) + Memory!YearOfEra(d) \div 4 - Memory!YearOfEra(d) \div 100
  <1>1. Memory!YearOfEra(d) \in Int /\ 0 <= Memory!YearOfEra(d) /\ Memory!YearOfEra(d) <= 399
    BY SMTT(60) DEF Memory!YearOfEra
  <1>2. Memory!YearOfEra(d) \div 400 = 0
    BY ONLY <1>1, SMTT(60)
  <1>3. Start(Memory!YearOfEra(d))
          = 365 * Memory!YearOfEra(d) + Memory!YearOfEra(d) \div 4 - Memory!YearOfEra(d) \div 100
    BY ONLY <1>1, <1>2 DEF Start
  <1>4. 365 * Memory!YearOfEra(d) + Memory!YearOfEra(d) \div 4 - Memory!YearOfEra(d) \div 100 <= d
    BY SMTT(60) DEF Memory!YearOfEra
  <1>5. d < Start(Memory!YearOfEra(d) + 1)
    <2>1. CASE d <= 146095
      <3>1. d < 365 * (Memory!YearOfEra(d) + 1)
                  + (Memory!YearOfEra(d) + 1) \div 4 - (Memory!YearOfEra(d) + 1) \div 100
        BY <2>1, SMTT(60) DEF Memory!YearOfEra
      <3>2. (Memory!YearOfEra(d) + 1) \div 400 >= 0
        BY ONLY <1>1, SMTT(60)
      <3> DEFINE y == Memory!YearOfEra(d)
      <3> HIDE DEF y
      <3>3. y \in Int /\ y + 1 \in Int
        BY <1>1 DEF y
      <3>4. d < 365 * (y + 1) + (y + 1) \div 4 - (y + 1) \div 100 /\ (y + 1) \div 400 >= 0
        BY <3>1, <3>2 DEF y
      <3>5. d < Start(y + 1)
        BY ONLY <3>3, <3>4, d \in Int DEF Start
      <3> QED
        BY <3>5 DEF y
    <2>2. CASE d = 146096
      BY ONLY <2>2 DEF Memory!YearOfEra, Start
    <2> QED
      BY <2>1, <2>2
  <1> QED
    BY <1>1, <1>3, <1>4, <1>5

(* Later years start later.                                                *)
LEMMA StartsInOrder ==
  ASSUME NEW y \in Int, NEW x \in Int, y <= x
  PROVE  Start(y) <= Start(x) /\ Start(y) \in Int /\ Start(x) \in Int
  BY SMTT(60) DEF Start

(* It is the only one.                                                     *)
LEMMA YearOfStart ==
  ASSUME NEW d \in Int, 0 <= d, d <= 146096,
         NEW y \in Int, 0 <= y, y <= 399, Start(y) <= d, d < Start(y + 1)
  PROVE  Memory!YearOfEra(d) = y
  <1>0. y \in 0..399
    OBVIOUS
  <1> DEFINE x == Memory!YearOfEra(d)
  <1>1. x \in Int /\ 0 <= x /\ x <= 399 /\ Start(x) <= d /\ d < Start(x + 1)
    BY YearIs
  <1> HIDE DEF x
  <1>2. x + 1 \in Int /\ y + 1 \in Int /\ y \in Int
    BY ONLY <1>1, <1>0
  <1>3. ASSUME x < y
        PROVE  FALSE
    <2>1. x + 1 <= y
      BY ONLY <1>1, <1>3, <1>0
    <2>2. Start(x + 1) <= Start(y) /\ Start(x + 1) \in Int /\ Start(y) \in Int
      BY ONLY <1>1, <1>2, <2>1, StartsInOrder
    <2> QED
      BY <1>1, <2>2
  <1>4. ASSUME y < x
        PROVE  FALSE
    <2>1. y + 1 <= x
      BY ONLY <1>1, <1>4, <1>0
    <2>2. Start(y + 1) <= Start(x) /\ Start(y + 1) \in Int /\ Start(x) \in Int
      BY ONLY <1>1, <1>2, <2>1, StartsInOrder
    <2> QED
      BY <1>1, <2>2
  <1> QED
    BY ONLY <1>1, <1>3, <1>4, <1>0 DEF x

(* A year from March has a 29 February where the year it ends in has.      *)
LEMMA YearLength ==
  ASSUME NEW y \in Int, 0 <= y, y <= 399, NEW era \in Int
  PROVE  Start(y + 1) - Start(y) = DaysOf(y + era * 400)
  <1>1. Memory!IsLeap(y + era * 400 + 1) <=> Memory!IsLeap(y + 1)
    BY SMTT(60) DEF Memory!IsLeap
  <1>2. Start(y + 1) - Start(y) = DaysOf(y)
    BY SMTT(60) DEF Start, DaysOf, Memory!IsLeap
  <1> QED
    BY <1>1, <1>2 DEF DaysOf

(* The months from March, and the day each begins on.                      *)
MonthPrime(day) == (5 * day + 2) \div 153
FirstOf(m) == (153 * m + 2) \div 5

(* A day is in the month that has begun, and whose next has not.           *)
LEMMA MonthIs ==
  ASSUME NEW day \in Int, NEW m \in Int
  PROVE  MonthPrime(day) = m <=> FirstOf(m) <= day /\ day < FirstOf(m + 1)
  BY SMTT(60) DEF MonthPrime, FirstOf

(* The date of a day in month m from March.                                *)
DateIn(year, m, day) ==
  <<IF m < 10 THEN year ELSE year + 1, IF m < 10 THEN m + 3 ELSE m - 9, day - FirstOf(m) + 1>>

(* The lengths of the months, added up.                                    *)
LEMMA Months ==
  /\ FirstOf(0) = 0 /\ FirstOf(1) = 31 /\ FirstOf(2) = 61 /\ FirstOf(3) = 92
  /\ FirstOf(4) = 122 /\ FirstOf(5) = 153 /\ FirstOf(6) = 184 /\ FirstOf(7) = 214
  /\ FirstOf(8) = 245 /\ FirstOf(9) = 275 /\ FirstOf(10) = 306 /\ FirstOf(11) = 337
  /\ FirstOf(12) = 367
  BY DEF FirstOf

(* The date of a day of the month that it is in.                           *)
LEMMA DateIs ==
  ASSUME NEW year \in Int, NEW day \in Int, NEW m \in Int,
         0 <= m, m <= 11, MonthPrime(day) = m
  PROVE  Memory!DateFromMarch(year, day) = DateIn(year, m, day)
  <1>1. (5 * day + 2) \div 153 = m
    BY DEF MonthPrime
  <1>2. CASE m < 10
    <2>1. ~(m + 3 <= 2)
      BY <1>2
    <2> QED
      BY <1>1, <1>2, <2>1, Zenon DEF Memory!DateFromMarch, DateIn, FirstOf
  <1>3. CASE ~(m < 10)
    <2>1. m - 9 <= 2
      BY <1>3
    <2> QED
      BY <1>1, <1>3, <2>1, Zenon DEF Memory!DateFromMarch, DateIn, FirstOf
  <1> QED
    BY <1>2, <1>3

(* Within a year each day has the date that follows the one before.        *)
LEMMA DayFollows ==
  ASSUME NEW year \in Int, NEW day \in Int, 0 <= day, day + 1 < DaysOf(year)
  PROVE  Memory!DateFromMarch(year, day + 1) = Memory!Following(Memory!DateFromMarch(year, day))
  <1>1. day <= 364
    BY DEF DaysOf
  <1> DEFINE m == MonthPrime(day)
  <1>2. m \in Int /\ 0 <= m /\ m <= 11
    BY <1>1 DEF MonthPrime
  <1>3. FirstOf(m) <= day /\ day < FirstOf(m + 1)
    BY <1>2, MonthIs
  <1>4. MonthPrime(day + 1) = IF day + 1 < FirstOf(m + 1) THEN m ELSE m + 1
    <2>1. FirstOf(m + 1) < FirstOf(m + 2) /\ FirstOf(m + 1) \in Int /\ FirstOf(m) \in Int
      BY <1>2 DEF FirstOf
    <2> HIDE DEF m
    <2>2. day + 1 \in Int /\ m + 1 \in Int /\ (m + 1) + 1 = m + 2
      BY <1>2
    <2> QED
      BY <1>2, <1>3, <2>1, <2>2, MonthIs
  <1>5. m + 1 <= 11 \/ day + 1 < FirstOf(m + 1)
    BY <1>1, <1>2, Months
  <1> HIDE DEF m
  <1>6. Memory!DateFromMarch(year, day) = DateIn(year, m, day)
    BY <1>2, DateIs DEF m
  <1>7. Memory!DateFromMarch(year, day + 1) =
          IF day + 1 < FirstOf(m + 1) THEN DateIn(year, m, day + 1) ELSE DateIn(year, m + 1, day + 1)
    <2>1. day + 1 \in Int /\ m + 1 \in Int /\ 0 <= m + 1
      BY <1>2
    <2> QED
      BY <1>2, <1>4, <1>5, <2>1, DateIs
  <1>8. CASE m = 0
    BY <1>1, <1>3, <1>6, <1>7, <1>8, Months DEF DateIn, Memory!Following, Memory!DaysIn
  <1>9. CASE m = 1
    BY <1>1, <1>3, <1>6, <1>7, <1>9, Months DEF DateIn, Memory!Following, Memory!DaysIn
  <1>10. CASE m = 2
    BY <1>1, <1>3, <1>6, <1>7, <1>10, Months DEF DateIn, Memory!Following, Memory!DaysIn
  <1>11. CASE m = 3
    BY <1>1, <1>3, <1>6, <1>7, <1>11, Months DEF DateIn, Memory!Following, Memory!DaysIn
  <1>12. CASE m = 4
    BY <1>1, <1>3, <1>6, <1>7, <1>12, Months DEF DateIn, Memory!Following, Memory!DaysIn
  <1>13. CASE m = 5
    BY <1>1, <1>3, <1>6, <1>7, <1>13, Months DEF DateIn, Memory!Following, Memory!DaysIn
  <1>14. CASE m = 6
    BY <1>1, <1>3, <1>6, <1>7, <1>14, Months DEF DateIn, Memory!Following, Memory!DaysIn
  <1>15. CASE m = 7
    BY <1>1, <1>3, <1>6, <1>7, <1>15, Months DEF DateIn, Memory!Following, Memory!DaysIn
  <1>16. CASE m = 8
    BY <1>1, <1>3, <1>6, <1>7, <1>16, Months DEF DateIn, Memory!Following, Memory!DaysIn
  <1>17. CASE m = 9
    BY <1>1, <1>3, <1>6, <1>7, <1>17, Months DEF DateIn, Memory!Following, Memory!DaysIn
  <1>18. CASE m = 10
    BY <1>1, <1>3, <1>6, <1>7, <1>18, Months DEF DateIn, Memory!Following, Memory!DaysIn
  <1>19. CASE m = 11
    BY <1>1, <1>3, <1>6, <1>7, <1>19, Months DEF DateIn, Memory!Following, Memory!DaysIn, DaysOf
  <1> QED
    BY <1>2, <1>8, <1>9, <1>10, <1>11, <1>12, <1>13, <1>14, <1>15, <1>16, <1>17, <1>18, <1>19

(* The last day of February is followed by 1 March.                        *)
LEMMA YearFollows ==
  ASSUME NEW year \in Int, NEW day \in Int, day + 1 = DaysOf(year)
  PROVE  Memory!DateFromMarch(year + 1, 0) = Memory!Following(Memory!DateFromMarch(year, day))
  <1>1. day \in {364, 365} /\ (day = 365 <=> Memory!IsLeap(year + 1))
    BY DEF DaysOf
  <1>2. MonthPrime(day) = 11 /\ MonthPrime(0) = 0
    BY <1>1 DEF MonthPrime
  <1>3. Memory!DateFromMarch(year, day) = DateIn(year, 11, day)
    BY <1>1, <1>2, DateIs
  <1>4. Memory!DateFromMarch(year + 1, 0) = DateIn(year + 1, 0, 0)
    BY <1>2, DateIs
  <1> QED
    BY <1>1, <1>3, <1>4, Months DEF DateIn, Memory!Following, Memory!DaysIn

(* The era of a day since 1970, and the day of that era.                   *)
EraOf(n) == (n + 719468) \div 146097
DayOf(n) == n + 719468 - EraOf(n) * 146097

(* civil_from_days: the date of the next day is the next date, of every    *)
(* day, across the ends of months, years, leap years and eras.             *)
LEMMA DatesAlwaysFollow ==
  ASSUME NEW day \in Int
  PROVE  Memory!DatesFollow(day)
  <1>1. ASSUME NEW n \in Int
        PROVE  /\ EraOf(n) \in Int /\ DayOf(n) \in Int /\ 0 <= DayOf(n) /\ DayOf(n) <= 146096
               /\ n = EraOf(n) * 146097 + DayOf(n) - 719468
    BY DEF EraOf, DayOf
  <1>2. ASSUME NEW n \in Int
        PROVE  Memory!CivilFromDays(n)
                 = Memory!DateFromMarch(Memory!YearOfEra(DayOf(n)) + EraOf(n) * 400,
                                        DayOf(n) - Start(Memory!YearOfEra(DayOf(n))))
    <2> DEFINE d == DayOf(n)
               e == EraOf(n)
    <2>1. d \in Int /\ e \in Int /\ 0 <= d /\ d <= 146096
      BY <1>1
    <2>2. Memory!CivilFromDays(n) = Memory!DateFromMarch(Memory!YearOfEra(d) + e * 400,
            d - (365 * Memory!YearOfEra(d) + Memory!YearOfEra(d) \div 4 - Memory!YearOfEra(d) \div 100))
      BY DEF Memory!CivilFromDays, DayOf, EraOf
    <2> HIDE DEF d, e
    <2>3. Start(Memory!YearOfEra(d))
            = 365 * Memory!YearOfEra(d) + Memory!YearOfEra(d) \div 4 - Memory!YearOfEra(d) \div 100
      BY <2>1, YearIs
    <2>4. Memory!CivilFromDays(n)
            = Memory!DateFromMarch(Memory!YearOfEra(d) + e * 400, d - Start(Memory!YearOfEra(d)))
      BY <2>2, <2>3
    <2> QED
      BY <2>4 DEF d, e
  <1>3. Memory!CivilFromDays(0) = <<1970, 1, 1>>
    BY DEF Memory!CivilFromDays, Memory!YearOfEra, Memory!DateFromMarch
  <1> DEFINE d == DayOf(day)
             e == EraOf(day)
             y == Memory!YearOfEra(d)
             doy == d - Start(y)
             year == y + e * 400
  <1>4. d \in Int /\ e \in Int /\ 0 <= d /\ d <= 146096 /\ day = e * 146097 + d - 719468
    BY <1>1
  <1>5. y \in Int /\ 0 <= y /\ y <= 399 /\ Start(y) <= d /\ d < Start(y + 1)
    BY <1>4, YearIs
  <1>6. /\ DayOf(day + 1) = (IF d < 146096 THEN d + 1 ELSE 0)
        /\ EraOf(day + 1) = (IF d < 146096 THEN e ELSE e + 1)
    BY <1>4 DEF EraOf, DayOf
  <1>7. Memory!CivilFromDays(day) = Memory!DateFromMarch(year, doy)
    BY <1>2
  <1> HIDE DEF d, e
  <1>8. Memory!CivilFromDays(day + 1)
          = Memory!DateFromMarch(Memory!YearOfEra(DayOf(day + 1)) + EraOf(day + 1) * 400,
                                 DayOf(day + 1) - Start(Memory!YearOfEra(DayOf(day + 1))))
    BY <1>2, day + 1 \in Int
  <1>9. Start(y) \in Int /\ Start(y + 1) \in Int
    BY <1>5, StartsInOrder
  <1>10. Start(y + 1) - Start(y) = DaysOf(year)
    BY ONLY <1>4, <1>5, YearLength, SMTT(30)
  <1> HIDE DEF y
  <1>11. year \in Int /\ doy \in Int /\ 0 <= doy /\ doy + 1 <= DaysOf(year) /\ DaysOf(year) \in Int
    BY <1>4, <1>5, <1>9, <1>10
  <1> HIDE DEF year
  <1>12. CASE d + 1 < Start(y + 1)
    <2>1. d < 146096
      BY <1>4, <1>5, <1>12, StartsInOrder DEF Start
    <2>2. Memory!YearOfEra(d + 1) = y
      <3>1. d + 1 \in Int /\ 0 <= d + 1 /\ d + 1 <= 146096 /\ Start(y) <= d + 1
        BY ONLY <1>4, <1>5, <1>9, <2>1
      <3> QED
        BY ONLY <1>5, <1>12, <3>1, YearOfStart, SMTT(30)
    <2>3. Memory!DateFromMarch(year, doy + 1) = Memory!Following(Memory!DateFromMarch(year, doy))
      <3>1. doy + 1 < DaysOf(year)
        BY <1>4, <1>9, <1>10, <1>12
      <3> QED
        BY <1>11, <3>1, DayFollows
    <2>4. DayOf(day + 1) - Start(y) = doy + 1 /\ DayOf(day + 1) = d + 1 /\ EraOf(day + 1) = e
      BY <1>4, <1>6, <1>9, <2>1
    <2>5. Memory!CivilFromDays(day + 1) = Memory!DateFromMarch(year, doy + 1)
      BY <1>8, <2>2, <2>4 DEF year
    <2> QED
      BY <1>3, <1>7, <2>3, <2>5 DEF Memory!DatesFollow
  <1>13. CASE d + 1 = Start(y + 1)
    <2>1. doy + 1 = DaysOf(year)
      BY <1>4, <1>9, <1>10, <1>13
    <2>2. Memory!DateFromMarch(year + 1, 0) = Memory!Following(Memory!DateFromMarch(year, doy))
      BY <1>11, <2>1, YearFollows
    <2>3. CASE y <= 398
      <3>1. Start(y + 1) < Start(y + 1 + 1) /\ Start(y + 1) <= 146096
        BY <1>5, <2>3 DEF Start
      <3>2. /\ d + 1 \in Int /\ 0 <= d + 1 /\ d + 1 <= 146096
            /\ y + 1 \in Int /\ 0 <= y + 1 /\ y + 1 <= 399
            /\ Start(y + 1) <= d + 1 /\ d + 1 < Start(y + 1 + 1)
        BY ONLY <1>4, <1>5, <1>9, <1>13, <2>3, <3>1
      <3>3. Memory!YearOfEra(d + 1) = y + 1
        <4> DEFINE next == d + 1
                   following == y + 1
        <4>1. /\ next \in Int /\ 0 <= next /\ next <= 146096
              /\ following \in Int /\ 0 <= following /\ following <= 399
              /\ Start(following) <= next /\ next < Start(following + 1)
          BY <3>2
        <4> HIDE DEF next, following
        <4>2. Memory!YearOfEra(next) = following
          BY ONLY <4>1, YearOfStart, SMTT(30)
        <4> QED
          BY <4>2 DEF next, following
      <3>4. DayOf(day + 1) = d + 1 /\ EraOf(day + 1) = e
        BY ONLY <1>4, <1>6, <3>2
      <3>5. y + 1 + e * 400 = year + 1 /\ (d + 1) - Start(y + 1) = 0
        BY <1>4, <1>5, <1>9, <1>13 DEF year
      <3>6. Memory!CivilFromDays(day + 1) = Memory!DateFromMarch(year + 1, 0)
        <4>1. Memory!CivilFromDays(day + 1)
                = Memory!DateFromMarch(y + 1 + e * 400, (d + 1) - Start(y + 1))
          BY Zenon, <1>8, <3>3, <3>4
        <4> QED
          BY Zenon, <3>5, <4>1
      <3> QED
        BY <1>3, <1>7, <2>2, <3>6 DEF Memory!DatesFollow
    <2>4. CASE y = 399
      <3>1. Start(400) = 146097 /\ Start(0) = 0
        BY DEF Start
      <3>2. d = 146096
        BY <1>4, <1>13, <2>4, <3>1
      <3>3. Memory!YearOfEra(0) = 0
        BY DEF Memory!YearOfEra
      <3>4. DayOf(day + 1) = 0 /\ EraOf(day + 1) = e + 1
        BY <1>6, <3>2
      <3>5. 0 + (e + 1) * 400 = year + 1 /\ 0 - Start(0) = 0
        BY ONLY <1>4, <2>4, <3>1 DEF year
      <3>6. Memory!CivilFromDays(day + 1) = Memory!DateFromMarch(year + 1, 0)
        <4>1. Memory!CivilFromDays(day + 1) = Memory!DateFromMarch(0 + (e + 1) * 400, 0 - Start(0))
          BY Zenon, <1>8, <3>3, <3>4
        <4> QED
          BY Zenon, <3>5, <4>1
      <3> QED
        BY <1>3, <1>7, <2>2, <3>6 DEF Memory!DatesFollow
    <2> QED
      BY <1>5, <2>3, <2>4
  <1> QED
    BY <1>4, <1>5, <1>9, <1>12, <1>13

-----------------------------------------------------------------------------
(* GameIsRead, for every list of hit errors and of rows, key overlay,      *)
(* result, profile and day, with any of it missing or torn: client.rs      *)
(* reads what is there, and nothing that is not.                           *)
THEOREM GameIsAlwaysRead == AllSpec => []GameIsRead
  <1> DEFINE LookInv == look # None => look \in Looks
  <1>1. AllInit => LookInv
    BY DEF AllInit
  <1>2. LookInv /\ [AllNext]_allVars => LookInv'
    BY DEF AllNext, allVars, LookAt
  <1>3. LookInv => GameIsRead
    <2> SUFFICES ASSUME look \in Looks
                 PROVE  GameIsRead
      BY DEF GameIsRead
    <2>1. Memory!IsLook(look)
      BY LooksAssumption
    <2>2. look.fn = "errors" => Memory!ErrorsAreTheNewest(look.list)
      BY <2>1, ErrorsRead DEF Memory!IsLook
    <2>3. look.fn = "rows" => Memory!RowsAreThePrefix(look.players)
      BY <2>1, RowsRead DEF Memory!IsLook
    <2>4. look.fn = "keys" => Memory!KeysAreHeld(look.array, look.mode)
      BY <2>1, KeysRead DEF Memory!IsLook
    <2>5. look.fn = "results" => Memory!ResultsAreOfTheMode(look.base)
      BY ResultsRead
    <2>6. look.fn = "profile" => Memory!ProfileIsWhole(look.base, look.pattern)
      BY ProfileRead
    <2>7. look.fn = "date" => Memory!DatesFollow(look.day)
      BY <2>1, DatesAlwaysFollow DEF Memory!IsLook
    <2> QED
      BY <2>2, <2>3, <2>4, <2>5, <2>6, <2>7 DEF GameIsRead
  <1> QED
    BY <1>1, <1>2, <1>3, PTL DEF AllSpec
=============================================================================
