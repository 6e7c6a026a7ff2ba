---------------------------- MODULE MCSoloBeatmap ----------------------------
(***************************************************************************)
(* SoloBeatmap, and what it and SoloPlay take as given: that a pattern     *)
(* which is in the memory of the game is found (PatternScan), what is read *)
(* of a play, its result and the player (GameReads), and the record of a   *)
(* map (OsuFile), which is read once and then brought under one set of     *)
(* mods after the other.  One of the four runs, the others rest, as none   *)
(* reads what another one writes.                                          *)
(***************************************************************************)
EXTENDS SoloBeatmap, Integers, Sequences

CONSTANTS
  Parts,      (* which of the four may run                                 *)
  Searches,   (* what a pattern scan may be asked for                      *)
  Wild,       (* a token of a pattern that every byte matches              *)
  Chunk,      (* how much of the memory is read at once                    *)
  Looks,      (* what may be looked at in the memory: GameReads            *)
  Null, Torn, (* a null pointer; what cannot be read                       *)
  MaxErrors, ErrorBound, MaxRows,
  Files,      (* the files a map may have                                  *)
  Songs,      (* what the calculator's own parser may make of one          *)
  LiveTimes,  (* the times the song may be at                              *)
  Bad, None,  (* a field that does not parse; no name, no object           *)
  a, b        (* maps                                                      *)

VARIABLES
  part,       (* the one that runs                                         *)
  record,     (* the record of a map, and what it is made from             *)
  look,       (* what is looked at, if anything                            *)
  search, todo, region, limit, offset, chunk, budget, matches, failed
              (* PatternScan                                               *)

File == INSTANCE OsuFile
Scan == INSTANCE PatternScan WITH Nothing <- None
Memory == INSTANCE GameReads

scan == <<search, todo, region, limit, offset, chunk, budget, matches, failed>>
allVars == <<vars, part, record, look, scan>>

ASSUME FilesAssumption ==
  /\ \A file \in Files : File!IsFile(file)
  /\ LiveTimes \subseteq Int

ASSUME ScanAssumption == Scan!SearchesAssumption

ASSUME LooksAssumption ==
  /\ MaxErrors \in Nat /\ ErrorBound \in Nat /\ MaxRows \in Nat
  /\ Torn \notin Int /\ None \notin Looks
  /\ \A l \in Looks : Memory!IsLook(l)

ModSets == {{}, {"DT"}, {"DT", "NC"}, {"HT"}}

(* The record as the file leaves it.                                       *)
AsRead(file, live) == File!FilePass(File!Fresh(live, None), file)

ReadFile ==
  /\ record = None
  /\ \E file \in Files, song \in Songs, live \in LiveTimes :
       record' = [file |-> file, song |-> song, live |-> live,
                  snapshot |-> AsRead(file, live), under |-> {}]

ChangeMods ==
  /\ record # None
  /\ \E mods \in ModSets :
       record' = [record EXCEPT !.snapshot = File!StatsPass(@, record.song, mods),
                                !.under = {mods}]

Drop == record' = None

LookAt == IF look = None THEN look' \in Looks ELSE look' = None

AllInit == part \in Parts /\ Init /\ record = None /\ look = None /\ Scan!Init

AllNext ==
  /\ UNCHANGED part
  /\ \/ part = "session" /\ Next /\ UNCHANGED <<record, look, scan>>
     \/ part = "file" /\ (ReadFile \/ ChangeMods \/ Drop) /\ UNCHANGED <<vars, look, scan>>
     \/ part = "scan" /\ Scan!Next /\ UNCHANGED <<vars, record, look>>
     \/ part = "reads" /\ LookAt /\ UNCHANGED <<vars, record, scan>>

AllSpec == AllInit /\ [][AllNext]_allVars
FairAllSpec == AllSpec /\ Fairness

-----------------------------------------------------------------------------
(* "Safe to call repeatedly on the same snapshot" (src/src/beatmap.rs):    *)
(* the statistics are those of the last mods, whatever came before; and    *)
(* the BPM of the file lies between the lowest and the highest of it.      *)
RecordOfTheMods ==
  record # None =>
    LET read == AsRead(record.file, record.live) IN
    /\ record.under = {} => File!BpmIsBetween(record.snapshot, record.file)
    /\ \A mods \in record.under :
         File!IsOfTheMods(record.snapshot, File!StatsPass(read, record.song, mods))

(* A pattern is found wherever it is, across the seams of the chunks, once *)
(* and in order, up to the number that was asked for: the sessions take    *)
(* the first place for the anchor of all they read.                        *)
PatternIsFound == Scan!PatternIsFound

(* What is read from the game is what is there: the hit errors are the     *)
(* newest, the leaderboard a prefix of the game's; no key is down that is  *)
(* not held, no judgement is counted that the mode has not; a profile is   *)
(* all of one read; and the date of a result follows the calendar.         *)
GameIsRead ==
  look # None =>
    /\ look.fn = "errors" => Memory!ErrorsAreTheNewest(look.list)
    /\ look.fn = "rows" => Memory!RowsAreThePrefix(look.players)
    /\ look.fn = "keys" => Memory!KeysAreHeld(look.array, look.mode)
    /\ look.fn = "results" => Memory!ResultsAreOfTheMode(look.base)
    /\ look.fn = "profile" => Memory!ProfileIsWhole(look.base, look.pattern)
    /\ look.fn = "date" => Memory!DatesFollow(look.day)

(* A line that counts "towards no object type" does not set the time range *)
(* (src/src/beatmap.rs), which the code does not keep.                     *)
RangeOfCounted ==
  record # None /\ record.under = {} => File!RangeIsOfCounted(record.snapshot, record.file)

-----------------------------------------------------------------------------
TwoMaps == {a, b}
OneMap == {a}
Submitted == [m \in {a, b} |-> IF m = a THEN 1 ELSE 2]
SubmittedAlone == [m \in {a} |-> 1]
SecondUnsubmitted == [m \in {a, b} |-> IF m = a THEN 1 ELSE 0]

OnePtr == {1}
TwoPtrs == {1, 2}

AnyOrder == {}
(* The path lands before the md5 that makes the session read the file, and *)
(* the id that tells two maps apart lands last.                            *)
PathFirstIdLast == {<<"file", "md5">>} \cup {<<f, "id">> : f \in Fields \ {"id"}}

(* The id, the title and the path are current while the md5 is still the   *)
(* previous map's.                                                         *)
Md5Last == {<<f, "md5">> : f \in Fields \ {"md5"}}

NoneUnreliable == {}
FirstUnreliable == {a}
SecondUnreliable == {b}

EveryTick == {1}

-----------------------------------------------------------------------------
(* Files of two timing points: none, some and more of the objects parse.   *)
Point(time, bpm) == [section |-> "TimingPoints", time |-> time, bpm |-> bpm]
Object(time, kind) == [section |-> "HitObjects", time |-> time, kind |-> kind]
Event(type, name, start, end) ==
  [section |-> "Events", type |-> type, name |-> name, start |-> start, end |-> end, flag |-> FALSE]

FewFiles ==
  LET point == {Point(t, bpm) : t \in {0, 10, 20}, bpm \in {-1, 0, 12000, 18000}} \cup {Point(Bad, 1)}
      timing == UNION {[1..k -> point] : k \in 0..2}
      events == <<Event("0", a, Bad, Bad), Event("2", None, 6, 9), Event("1", b, 7, 8)>>
      objects ==
        { <<>>, <<Object(5, {"circle"})>>, <<Object(Bad, {"circle"})>>,
          <<Object(5, Bad), Object(15, {"hold"})>>, <<Object(2, {}), Object(15, {"slider"})>>,
          <<Object(5, {"spinner"}), Object(15, {"circle", "hold"})>> }
  IN {t \o events \o o : t \in timing, o \in objects}

FewSongs == [bpm : {15000}, counts : {[k \in File!Kinds |-> 1]}, last : {None, 16}]

-----------------------------------------------------------------------------
(* Five cells in one region or two, chunks of three.                       *)
Span(base, end) == [base : {base}, end : {end}, executable : BOOLEAN, readable : BOOLEAN]
Layouts == {<<r>> : r \in Span(0, 5)} \cup {<<q, r>> : q \in Span(0, 2), r \in Span(2, 5)}

FewSearches ==
  [memory : [0..4 -> {1, 2}], pattern : {<<1>>, <<1, 1>>, <<1, 2>>, <<1, Wild, 2>>}, regions : Layouts,
   low : {0, 1}, high : {4, 5}, budget : {3, 5}, max : {1, 5}]

-----------------------------------------------------------------------------
(* Objects of the game, whole, missing and torn; longer than the bounds.   *)
Gone == {Null, Torn}
ErrorLists ==
  Gone \cup [items : Gone \cup [1..3 -> {1, -2, 10}], size : {Torn, 0, 2, 3}]
Slots == Gone \cup [name : {a, Torn}, score : {7}, passing : {0, 1, Torn}, entry : {b, Torn}]
PlayerLists ==
  Gone \cup [slots : Gone \cup UNION {[1..k -> Slots] : k \in 0..2}, size : {Torn, 0, 1, 2, 5}]
Elements == Gone \cup [pressed : {0, 2, Torn}, count : {Torn, 5}]
KeyArrays ==
  Gone \cup [size : {Torn, 3, 4}, elements : {[i \in 1..4 |-> IF i = k THEN e ELSE f] :
                                              k \in {1, 3, 4}, e \in Elements, f \in Elements}]
ResultBases ==
  Gone \cup [mode : 0..3 \cup {Torn}, score : {9, Torn}, geki : {1, Torn}, katu : {2},
             mods : Gone \cup [{1, 2} -> {{}, {"HD"}, {"HD", "DT"}, Torn}]]
ProfileBases == Gone \cup [id : {1, Torn}, accuracy : {2, Torn}, login : {65793, Torn}]
Days == -400..800 \cup 10900..11100 \cup 20000..20800 \cup 47400..47600

FewLooks ==
  [fn : {"errors"}, list : ErrorLists] \cup [fn : {"rows"}, players : PlayerLists]
    \cup [fn : {"keys"}, array : KeyArrays, mode : 0..3] \cup [fn : {"results"}, base : ResultBases]
    \cup [fn : {"profile"}, base : ProfileBases, pattern : BOOLEAN] \cup [fn : {"date"}, day : Days]
=============================================================================
