----------------------------- MODULE TourneyMaps -----------------------------
(***************************************************************************)
(* What a tournament client is shown to play (TournamentSession::poll,     *)
(* src/src/session.rs): the map its memory names, what the session knows   *)
(* of that map's file, the play, and the play's pp.                        *)
(*                                                                         *)
(* Each client has caches of its own, but the parsed file, the statistics  *)
(* and the metadata are the session's, one set for all clients, and the    *)
(* difficulties are the process's.  A poll is one step per client, by pid; *)
(* the games go on between them.  A record is its id, its checksum and its *)
(* path, each named by the map it is of; the game writes them one by one.  *)
(***************************************************************************)
EXTENDS Integers, FiniteSets

CONSTANTS
  Clients,     (* the spectator clients, a set of pids 1..n                *)
  Maps,
  NoMap,       (* a null pointer, Option::None                             *)
  Mods,        (* mod combinations                                         *)
  NoMod,       (* none of them                                             *)
  Readable,    (* the maps whose file can be read                          *)
  Precedes,    (* <<f, g>>: the game writes field f before field g         *)
  Patient,     (* a map stays until its client was read, and an object is  *)
               (* filled before a null pointer is set to it                *)
  MaxHits,     (* bound: judgements of a play                              *)
  MaxMoves,    (* bound: changes of maps and plays                         *)
  MaxFailures  (* bound: records that cannot be read                       *)

ASSUME MapsAssumption ==
  /\ Clients = 1..Cardinality(Clients) /\ 1 \in Clients
  /\ NoMap \notin Maps
  /\ NoMod \in Mods
  /\ Readable \subseteq Maps
  /\ Patient \in BOOLEAN
  /\ MaxHits \in Nat /\ MaxMoves \in Nat /\ MaxFailures \in Nat

Fields == {"id", "md5", "file"}

VARIABLES
  selected, (* the map each client is at; NoMap is a null pointer          *)
  record,   (* the beatmap object each client reuses for it                *)
  play,     (* the play whose memory can be read, or NoMap                 *)
  moves,
  failures,
  next,     (* the client the poll is at                                   *)
  held,     (* cached_beatmap_snapshot, with cached_beatmap_id its id      *)
  checksum, (* the client's current_checksum                               *)
  game,     (* cached_gameplay                                             *)
  livePp,   (* cached_live_pp                                              *)
  current,  (* the session's current_checksum                              *)
  parsed,   (* cached_beatmap, and what cached_stats is of                 *)
  rows,     (* cached_stats_by_mods                                        *)
  full,     (* FULL_DIFF: id and mods -> the map it was computed from      *)
  views     (* what each client was last shown                             *)

games == <<selected, record, play, moves>>
caches == <<held, checksum, game, livePp>>
session == <<current, parsed, rows, full>>
vars == <<games, failures, next, caches, session, views>>

MapOrNone == Maps \cup {NoMap}
Play == [map : Maps, mods : Mods, hits : 0..MaxHits]
Pp == [mods : Mods, hits : 0..MaxHits, (* the key                          *)
       full : Maps,                    (* the map of the full difficulty   *)
       of : Maps,                      (* the map of the curve             *)
       blind : BOOLEAN]                (* history: no beatmap was read     *)

(* None is not among the values it stands for the lack of.                 *)
ASSUME NoneAssumption == NoMap \notin [Fields -> Maps] \cup Play \cup Pp

View == [map : MapOrNone, stats : MapOrNone, mods : Mods,
         play : Play \cup {NoMap}, pp : Pp \cup {NoMap}, stars : BOOLEAN]

TypeOK ==
  /\ selected \in [Clients -> MapOrNone]
  /\ record \in [Clients -> [Fields -> Maps]]
  /\ play \in [Clients -> Play \cup {NoMap}]
  /\ moves \in 0..MaxMoves /\ failures \in 0..MaxFailures
  /\ next \in Clients
  /\ held \in [Clients -> [Fields -> Maps] \cup {NoMap}]
  /\ checksum \in [Clients -> MapOrNone]
  /\ game \in [Clients -> Play \cup {NoMap}]
  /\ livePp \in [Clients -> Pp \cup {NoMap}]
  /\ current \in MapOrNone /\ parsed \in MapOrNone
  /\ rows \in [Mods -> MapOrNone]
  /\ full \in [Maps \X Mods -> MapOrNone]
  /\ views \in [Clients -> View]

NoView == [map |-> NoMap, stats |-> NoMap, mods |-> NoMod, play |-> NoMap,
           pp |-> NoMap, stars |-> FALSE]
NoRows == [k \in Mods |-> NoMap]

Init ==
  /\ \E m \in [Clients -> Maps] :
       selected = m /\ record = [p \in Clients |-> [f \in Fields |-> m[p]]]
  /\ play = [p \in Clients |-> NoMap]
  /\ moves = 0 /\ failures = 0
  /\ next = 1
  /\ held = [p \in Clients |-> NoMap]
  /\ checksum = [p \in Clients |-> NoMap]
  /\ game = [p \in Clients |-> NoMap]
  /\ livePp = [p \in Clients |-> NoMap]
  /\ current = NoMap /\ parsed = NoMap
  /\ rows = NoRows
  /\ full = [k \in Maps \X Mods |-> NoMap]
  /\ views = [p \in Clients |-> NoView]

-----------------------------------------------------------------------------
(* The games.                                                              *)

Whole(p) == \A f \in Fields : record[p][f] = selected[p]

GameMoves ==
  /\ moves < MaxMoves
  /\ moves' = moves + 1
  /\ UNCHANGED <<failures, next, caches, session, views>>

SelectMap ==
  /\ GameMoves
  /\ \E p \in Clients, m \in MapOrNone :
       /\ play[p] = NoMap /\ m # selected[p]
       /\ selected[p] # NoMap => Whole(p)
       /\ Patient => selected[p] = NoMap \/ held[p] = record[p]
       /\ selected' = [selected EXCEPT ![p] = m]
       /\ record' = IF Patient /\ selected[p] = NoMap
                    THEN [record EXCEPT ![p] = [f \in Fields |-> m]] ELSE record
  /\ UNCHANGED play

WriteField ==
  \E p \in Clients, f \in Fields :
    /\ selected[p] # NoMap /\ record[p][f] # selected[p]
    /\ \A g \in Fields : <<g, f>> \in Precedes => record[p][g] = selected[p]
    /\ record' = [record EXCEPT ![p][f] = selected[p]]
    /\ UNCHANGED <<selected, play, moves, failures, next, caches, session, views>>

StartPlay ==
  /\ GameMoves
  /\ \E p \in Clients, k \in Mods :
       /\ selected[p] # NoMap /\ Whole(p) /\ play[p] = NoMap
       /\ play' = [play EXCEPT ![p] = [map |-> selected[p], mods |-> k, hits |-> 0]]
  /\ UNCHANGED <<selected, record>>

Hit ==
  /\ GameMoves
  /\ \E p \in Clients :
       /\ play[p] # NoMap /\ play[p].hits < MaxHits
       /\ play' = [play EXCEPT ![p].hits = @ + 1]
  /\ UNCHANGED <<selected, record>>

EndPlay ==
  /\ GameMoves
  /\ \E p \in Clients : play[p] # NoMap /\ play' = [play EXCEPT ![p] = NoMap]
  /\ UNCHANGED <<selected, record>>

-----------------------------------------------------------------------------
(* One client of a poll.                                                   *)

(* beatmap_refresh_needed: the object is the same, so the id decides.      *)
ReusesAnyhow(p) == held[p] # NoMap
Reuses(p) == held[p] # NoMap /\ held[p]["id"] = record[p]["id"]

(* The beatmap of this tick, or NoMap; ok: the record can be read.         *)
Beatmap(p, ok) ==
  IF selected[p] = NoMap THEN NoMap
  ELSE IF Reuses(p) THEN held[p]
  ELSE IF ok THEN record[p] ELSE NoMap

HoldBeatmap(p, ok) ==
  held' = [held EXCEPT ![p] = IF selected[p] = NoMap THEN NoMap
                              ELSE IF ok /\ ~Reuses(p) THEN record[p] ELSE @]

(* Another map empties the client's caches of the play.                    *)
NewForClient(p, bm) == bm # NoMap /\ checksum[p] # bm["md5"]

ForgetsPlay(p, bm) == NewForClient(p, bm)
NeverNew(p, bm) == FALSE
ForgetsPp(p, bm) == NewForClient(p, bm)

(* Another map than the session's has its file read, once: one that cannot *)
(* be read leaves the parsed file and its statistics as they are.          *)
NewForNobody(bm) == bm # NoMap /\ current = NoMap
NewForSession(bm) == bm # NoMap /\ bm["md5"] # current

LoadFile(bm) ==
  IF NewForSession(bm)
  THEN /\ current' = bm["md5"]
       /\ parsed' = IF bm["file"] \in Readable THEN bm["file"] ELSE parsed
  ELSE UNCHANGED <<current, parsed>>

(* The play, or the last one of this map that could be read.               *)
Gameplay(p, bm) ==
  IF play[p] # NoMap THEN play[p] ELSE IF ForgetsPlay(p, bm) THEN NoMap ELSE game[p]

ModsOf(g) == IF g = NoMap THEN NoMod ELSE g.mods
HitsOf(g) == IF g = NoMap THEN 0 ELSE g.hits

(* Statistics for mods are made from the parsed file when first wanted.    *)
WantsRow(bm, g) == bm # NoMap /\ parsed' # NoMap /\ ModsOf(g) # NoMod
StatsByModsKept(bm, g) ==
  rows' = IF WantsRow(bm, g) /\ rows[ModsOf(g)] = NoMap
          THEN [rows EXCEPT ![ModsOf(g)] = parsed'] ELSE rows
StatsByMods(bm, g) ==
  LET kept == IF NewForSession(bm) THEN NoRows ELSE rows
      k == ModsOf(g)
  IN  rows' = IF WantsRow(bm, g) /\ kept[k] = NoMap
              THEN [kept EXCEPT ![k] = parsed'] ELSE kept
StatsOf(bm, g) ==
  IF bm = NoMap THEN NoMap
  ELSE IF WantsRow(bm, g) THEN rows'[ModsOf(g)] ELSE parsed'

(* The pp of the last tick stands while mods and judgements do.            *)
PpStands(p, bm, g) ==
  /\ ~ForgetsPp(p, bm) /\ livePp[p] # NoMap
  /\ livePp[p].mods = ModsOf(g) /\ livePp[p].hits = HitsOf(g)

(* full_difficulty goes by the id, and by the contents without one.        *)
DifficultyLooked(bm, g) == IF bm = NoMap THEN parsed' ELSE full[<<bm["id"], ModsOf(g)>>]
FullDifficulty(bm, g) ==
  IF bm = NoMap THEN parsed'
  ELSE LET k == <<bm["id"], ModsOf(g)>>
       IN  IF full[k] = NoMap THEN parsed' ELSE full[k]

LivePp(p, bm, g) ==
  IF parsed' = NoMap
  THEN /\ livePp' = [livePp EXCEPT ![p] = IF ForgetsPp(p, bm) THEN NoMap ELSE @]
       /\ UNCHANGED full
  ELSE IF PpStands(p, bm, g) THEN UNCHANGED <<livePp, full>>
  ELSE /\ livePp' = [livePp EXCEPT ![p] =
            [mods |-> ModsOf(g), hits |-> HitsOf(g), full |-> FullDifficulty(bm, g),
             of |-> parsed', blind |-> bm = NoMap]]
       /\ full' = IF bm = NoMap THEN full
                  ELSE [full EXCEPT ![<<bm["id"], ModsOf(g)>>] = FullDifficulty(bm, g)]

(* The stars of the moment are there only in a tick that made a new pp.    *)
ShowView(p, bm, g) ==
  views' = [views EXCEPT ![p] =
    [map |-> IF bm = NoMap THEN NoMap ELSE bm["md5"],
     stats |-> StatsOf(bm, g), mods |-> IF WantsRow(bm, g) THEN ModsOf(g) ELSE NoMod,
     play |-> g,
     pp |-> IF parsed' = NoMap THEN NoMap ELSE livePp'[p],
     stars |-> bm # NoMap /\ parsed' # NoMap /\ HitsOf(g) > 0 /\ ~PpStands(p, bm, g)]]

ReadClient(p, ok) ==
  LET bm == Beatmap(p, ok)
      g == Gameplay(p, bm)
  IN  /\ HoldBeatmap(p, ok)
      /\ checksum' = [checksum EXCEPT ![p] = IF bm = NoMap THEN @ ELSE bm["md5"]]
      /\ LoadFile(bm)
      /\ game' = [game EXCEPT ![p] = g]
      /\ StatsByMods(bm, g)
      /\ LivePp(p, bm, g)
      /\ ShowView(p, bm, g)

Tick ==
  /\ \/ ReadClient(next, TRUE) /\ UNCHANGED failures
     \/ /\ selected[next] # NoMap /\ ~Reuses(next)
        /\ failures < MaxFailures /\ failures' = failures + 1
        /\ ReadClient(next, FALSE)
  /\ next' = IF next + 1 \in Clients THEN next + 1 ELSE 1
  /\ UNCHANGED games

Next ==
  \/ SelectMap \/ WriteField \/ StartPlay \/ Hit \/ EndPlay
  \/ Tick

Spec == Init /\ [][Next]_vars

(* The session polls for ever, and the game completes a record.            *)
Fairness == WF_vars(Tick) /\ WF_vars(WriteField)

-----------------------------------------------------------------------------
(* Properties.                                                             *)

(* A client's statistics are of the map it is shown with and of the mods   *)
(* of its play, although the session keeps them for one map at a time and  *)
(* another client may be at another map (cached_stats, cached_stats_by_    *)
(* mods).                                                                  *)
StatsOfTheMap ==
  \A p \in Clients :
    LET v == views[p]
    IN  v.map # NoMap => v.stats \in {v.map, NoMap} /\ v.mods = ModsOf(v.play)

(* A client's play is of the map it is shown with, and its pp of that play *)
(* on that map, full combo included; the one exception is a pp made in a   *)
(* tick without a beatmap, whose judgements have not moved since           *)
(* (cached_gameplay, cached_live_pp, full_difficulty).                     *)
PpOfThePlay ==
  \A p \in Clients :
    LET v == views[p]
    IN  v.map # NoMap =>
          /\ v.play # NoMap => v.play.map = v.map
          /\ v.pp # NoMap => /\ v.pp.hits = HitsOf(v.play) /\ v.pp.mods = ModsOf(v.play)
                             /\ v.pp.blind \/ (v.pp.of = v.map /\ v.pp.full = v.map)

(* The statistics kept by mods are all of the file that is parsed, for     *)
(* whichever client they were made, whatever files can be read and in      *)
(* whatever order the game writes a record (cached_stats_by_mods).         *)
StatsOfOneFile == \A k \in Mods : rows[k] \in {parsed, NoMap}

(* The pp a client is shown is of the mods and the judgements of the play  *)
(* it is shown with, also when that play could not be read in this poll    *)
(* (cached_live_pp, cached_gameplay).                                      *)
PpOfTheJudgements ==
  \A p \in Clients :
    LET v == views[p]
    IN  v.pp # NoMap => v.pp.hits = HitsOf(v.play) /\ v.pp.mods = ModsOf(v.play)

(* The process's difficulties are each of the map they are filed under.    *)
DifficultiesAgree == \A m \in Maps, k \in Mods : full[<<m, k>>] \in {m, NoMap}

(* Without the exception.                                                  *)
PpIsTheirs ==
  \A p \in Clients :
    views[p].map # NoMap /\ views[p].pp # NoMap => views[p].pp.of = views[p].map

(* The stars of the moment are shown throughout a play.                    *)
StarsAreShown ==
  \A p \in Clients :
    views[p].map # NoMap /\ views[p].pp # NoMap /\ HitsOf(views[p].play) > 0
      => views[p].stars

(* The session stops reading files when no client changes its map.         *)
SessionSettles == <>[][current' = current]_current

(* Each client comes to be shown with the map it is at and the statistics  *)
(* of that map.                                                            *)
MapsAreShown ==
  \A p \in Clients :
    <>[](selected[p] # NoMap => /\ views[p].map = selected[p]
                               /\ views[p].stats = selected[p])

=============================================================================
