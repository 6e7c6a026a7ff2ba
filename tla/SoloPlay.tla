------------------------------ MODULE SoloPlay ------------------------------
(***************************************************************************)
(* The play half of SoloSession::poll (src/src/session.rs): the state of   *)
(* the game, the play and the results screen, hit errors, slider breaks    *)
(* and three kinds of pp: of the play, of its result, of the menu.         *)
(*                                                                         *)
(* Everything is read afresh but little is computed afresh, so each value  *)
(* shown may be of another attempt, other mods or another map than the one *)
(* beside it.  The beatmap itself is SoloBeatmap's: here each map has an   *)
(* id and an address of its own, and both passes over its file succeed or  *)
(* fail.  A poll happens at any time between the moves of the game, so it  *)
(* may miss any of them.                                                   *)
(***************************************************************************)
EXTENDS Integers

CONSTANTS
  Maps, Mods,
  Unreadable,  (* the maps whose file cannot be read                       *)
  None,        (* Option::None; nothing shown; a rating of zero            *)
  Starts,      (* states of the game the session may start in              *)
  MaxMoves,    (* bound: moves of the game                                 *)
  MaxFailures  (* bound: polls in which a read fails                       *)

States == {"menu", "select", "lobby", "play", "results"}

ASSUME PlayAssumption ==
  /\ Unreadable \subseteq Maps
  /\ Starts \subseteq States
  /\ MaxMoves \in Nat /\ MaxFailures \in Nat

VARIABLES
  state, map, menuMods,   (* the game                                      *)
  attempt,   (* its play: number, judgements, combo, misses, mods, and     *)
             (* the slider breaks it really had                            *)
  was,       (* its combo before the last judgement, if no poll came after *)
  moves, failures,
  s,         (* the session, see Session                                   *)
  calm,      (* history: polls, all of whose reads succeeded, since the    *)
             (* game moved last, up to two                                 *)
  slipped,   (* history: the live rating is from before another state      *)
  late,      (* history: the attempt was judged before it was first read   *)
  torn       (* history: polls in which a judgement of the attempt fell    *)
             (* between the reads of its combo and its misses              *)

theGame == <<state, map, menuMods, attempt, was, moves>>
vars == <<theGame, failures, s, calm, slipped, late, torn>>

Upto == 0..MaxMoves
Attempt == [n : Upto, hits : Upto, combo : Upto, max : Upto, miss : Upto,
            broke : Upto, mods : Mods]
Errors == [n : Upto, hits : Upto]
(* The counts a live rating is cached by.                                  *)
Counts(g) == <<g.combo, g.hits, g.miss>>
(* full: the mods of the full difficulty the rating is relative to.        *)
Pp == [kind : {"live", "result", "idle"}, map : Maps, mods : Mods,
       full : Mods, counts : Upto \X Upto \X Upto]

Session ==
  [seen : States,                  (* packet.state.number                  *)
   cur : States,                   (* current_state_num of the last poll   *)
   dirty : BOOLEAN,                (* play_state_dirty                     *)
   checksum : Maps \cup {None},    (* current_checksum                     *)
   pinned : BOOLEAN,               (* cached_beatmap_ptr and id are of it  *)
   loaded : Maps \cup {None},      (* cached_beatmap                       *)
   failed : Maps \cup {None},      (* file_load_failed                     *)
   rated : Mods \cup {None},       (* cached_mods, cached_difficulty_attrs *)
   errors : Errors,                (* cached_hit_errors and their total    *)
   combo : Upto, max : Upto, miss : Upto,   (* prev_combo, ...             *)
   breaks : Upto,                  (* slider_breaks                        *)
   live : Pp \cup {None},          (* cached_live_pp, cached_gameplay_hits *)
   result : Pp \cup {None},        (* cached_results_pp                    *)
   idle : (Maps \X Mods) \cup {None},       (* cached_idle_pp_key          *)
   listDue : BOOLEAN,              (* last_leaderboard_read is long ago    *)
   (* The packet: play, its hits, mods, errors, slider breaks and pp, the  *)
   (* map the leaderboard was read in, and beatmap.stats.stars.live.       *)
   of : Attempt \cup {None}, mods : Mods, shownErrors : Errors,
   shownBreaks : Upto, pp : Pp \cup {None}, leaderboard : Maps \cup {None},
   stars : (Maps \X Mods \X Upto) \cup {None, "total"}]

(* A value that is there is told from one that is not.                     *)
ASSUME NoneAssumption ==
  None \notin Maps \cup Mods \cup (Maps \X Mods) \cup Attempt \cup Pp

TypeOK ==
  /\ state \in States /\ map \in Maps /\ menuMods \in Mods
  /\ attempt \in Attempt /\ was \in Upto
  /\ moves \in Upto /\ failures \in 0..MaxFailures
  /\ s \in Session
  /\ calm \in 0..2 /\ slipped \in BOOLEAN /\ late \in BOOLEAN /\ torn \in Upto

NewAttempt(n, k) == [n |-> n, hits |-> 0, combo |-> 0, max |-> 0, miss |-> 0,
                     broke |-> 0, mods |-> k]
NoErrors == [n |-> 0, hits |-> 0]

Init ==
  /\ state \in Starts /\ map \in Maps /\ menuMods \in Mods
  /\ attempt = NewAttempt(0, menuMods) /\ was = 0
  /\ moves = 0 /\ failures = 0
  /\ s = [seen |-> "menu", cur |-> "menu", dirty |-> FALSE,
          checksum |-> None, pinned |-> FALSE, loaded |-> None, failed |-> None,
          rated |-> None, errors |-> NoErrors,
          combo |-> 0, max |-> 0, miss |-> 0, breaks |-> 0,
          live |-> None, result |-> None, idle |-> None,
          listDue |-> TRUE, leaderboard |-> None,
          of |-> None, mods |-> menuMods, shownErrors |-> NoErrors,
          shownBreaks |-> 0, pp |-> None, stars |-> None]
  /\ calm = 0 /\ slipped = FALSE /\ late = FALSE /\ torn = 0

-----------------------------------------------------------------------------
(* The game.                                                               *)

GameMoves ==
  /\ moves < MaxMoves /\ moves' = moves + 1
  /\ calm' = 0
  /\ UNCHANGED <<failures, s, slipped>>

ChangeState ==
  /\ GameMoves
  /\ \/ state \in {"menu", "select", "lobby"}
        /\ state' \in {"menu", "select", "lobby"} \ {state}
     \/ state = "play" /\ state' \in {"results", "select", "lobby"}
     \/ state = "results" /\ state' \in {"select", "lobby"}
  /\ UNCHANGED <<map, menuMods, attempt, was, late, torn>>

Select ==
  /\ GameMoves
  /\ state \in {"select", "lobby"}
  /\ \/ map' \in Maps \ {map} /\ UNCHANGED menuMods
     \/ menuMods' \in Mods \ {menuMods} /\ UNCHANGED map
  /\ UNCHANGED <<state, attempt, was, late, torn>>

(* From song select or a lobby, by a retry, or with the mods of a replay.  *)
StartAttempt ==
  /\ GameMoves
  /\ state # "menu" /\ state' = "play"
  /\ \E k \in Mods : attempt' = NewAttempt(attempt.n + 1, k)
  /\ was' = 0 /\ late' = FALSE /\ torn' = 0
  /\ UNCHANGED <<map, menuMods>>

Hit(a)  == [a EXCEPT !.hits = @ + 1, !.combo = @ + 1,
                     !.max = IF a.combo + 1 > a.max THEN a.combo + 1 ELSE a.max]
Miss(a) == [a EXCEPT !.hits = @ + 1, !.combo = 0, !.miss = @ + 1]
SliderBreak(a) == [a EXCEPT !.combo = 0, !.broke = @ + 1]

Judge ==
  /\ GameMoves
  /\ state = "play" /\ was' = attempt.combo
  /\ \/ attempt' = Hit(attempt)
     \/ attempt' = Miss(attempt)
     \/ attempt.combo > 0 /\ attempt' = SliderBreak(attempt)
  /\ late' = (late \/ s.of = None \/ s.of.n # attempt.n)
  /\ UNCHANGED <<state, map, menuMods, torn>>

-----------------------------------------------------------------------------
(* The session.                                                            *)

(* clear_play_state_for_new_map: the leaderboard is not among the fields.  *)
PlayCleared(c) ==
  [c EXCEPT !.of = None, !.shownErrors = NoErrors, !.shownBreaks = 0, !.pp = None]

(* Mutant: the pp of the menu is not due again after the play is cleared.  *)
ClearedButIdle(c) ==
  [PlayCleared(c) EXCEPT
     !.errors = NoErrors, !.combo = 0, !.max = 0, !.miss = 0, !.breaks = 0,
     !.listDue = TRUE, !.live = None, !.result = None]

(* The play shown and the caches cleared with it.                          *)
Cleared(c) ==
  [PlayCleared(c) EXCEPT
     !.errors = NoErrors, !.combo = 0, !.max = 0, !.miss = 0, !.breaks = 0,
     !.listDue = TRUE, !.live = None, !.result = None, !.idle = None]

(* should_clear_play_state                                                 *)
ClearIsDue(c, now) == c.dirty /\ now \notin {"menu", "play", "results", "lobby"}

(* A new state of the game ends the view of the play, or starts one.       *)
StateRead(c, now) ==
  LET d == [c EXCEPT !.seen = now] IN
  IF c.seen = now THEN c
  ELSE IF ClearIsDue(c, now) THEN [Cleared(d) EXCEPT !.dirty = FALSE]
  ELSE IF now = "play"
       THEN [d EXCEPT !.combo = 0, !.max = 0, !.miss = 0, !.breaks = 0]
  ELSE d

(* Outside a play the mods shown are those of the menu.                    *)
MenuRead(c, mods) == [c EXCEPT !.stars = None, !.errors = NoErrors, !.mods = mods]

(* Mutant: the cached live pp outlives the rating it is relative to.       *)
RatedKeepingLive(c, mods) == [c EXCEPT !.rated = mods, !.stars = None]

(* The map under other mods; whatever was rated against it is void.        *)
Rated(c, mods) == [c EXCEPT !.rated = mods, !.stars = None, !.live = None]

(* Another map: its file is read, or it cannot be, and the next poll tries *)
(* again, but reads no file before its back-off is over.                   *)
FileRead(c, m, readable) ==
  IF readable
  THEN Rated([Cleared(c) EXCEPT !.checksum = m, !.pinned = TRUE, !.loaded = m,
                                !.failed = None], c.mods)
  ELSE [Cleared(c) EXCEPT !.pinned = FALSE, !.loaded = None, !.failed = m,
                          !.rated = None, !.stars = None]

(* The map of the checksum is not loaded again but restored: it is rated   *)
(* if its file is still held, and in every poll until another is loaded.   *)
Restored(c) == IF c.loaded = None THEN [c EXCEPT !.stars = None] ELSE Rated(c, c.mods)

(* Mutant: the mods are looked at only when the map changes.               *)
MapReadOnce(c, m, readable) ==
  IF c.checksum # m THEN FileRead(c, m, readable)
  ELSE IF ~c.pinned THEN Restored(c)
  ELSE c

(* beatmap_refresh_needed, beatmap_read_action: the map that is pinned is  *)
(* rated again when the mods have changed.                                 *)
MapRead(c, m, readable) ==
  IF c.checksum # m THEN FileRead(c, m, readable)
  ELSE IF ~c.pinned THEN Restored(c)
  ELSE IF c.rated # c.mods THEN Rated(c, c.mods)
  ELSE c

(* read_gameplay_state_cached: the errors are read again when their number *)
(* has changed.                                                            *)
ErrorsRead(c, g) ==
  IF g.hits = 0 THEN NoErrors
  ELSE IF c.errors.hits = g.hits THEN c.errors
  ELSE [n |-> g.n, hits |-> g.hits]

(* Mutant: a retried attempt is not told from the one before.              *)
InferredAcrossAttempts(c, g) ==
  LET breaks == IF g.combo < c.combo /\ g.miss = c.miss THEN c.breaks + 1 ELSE c.breaks
  IN [c EXCEPT !.breaks = breaks, !.shownBreaks = breaks,
               !.combo = g.combo, !.max = g.max, !.miss = g.miss]

(* infer_slider_breaks: a combo that drops without a miss was broken by a  *)
(* slider; a highest combo that drops is another attempt.                  *)
Inferred(c, g) ==
  LET retried == g.max < c.max
      before  == IF retried \/ c.combo > g.max THEN 0 ELSE c.combo
      counted == IF retried THEN 0 ELSE c.breaks
      breaks  == IF g.combo < before /\ g.miss = c.miss THEN counted + 1 ELSE counted
  IN [c EXCEPT !.breaks = breaks, !.shownBreaks = breaks,
               !.combo = g.combo, !.max = g.max, !.miss = g.miss]

(* The live stars and pp come out of one step of the cursor, when the      *)
(* counts or the mods have changed or a rating before them is void.        *)
LiveIsDue(c, g) ==
  c.live = None \/ c.live.counts # Counts(g) \/ c.live.mods # g.mods
LiveRated(c, g) ==
  IF c.loaded = None THEN c
  ELSE IF LiveIsDue(c, g)
  THEN LET pp == [kind |-> "live", map |-> c.loaded, mods |-> g.mods,
                  full |-> c.rated, counts |-> Counts(g)]
       IN [c EXCEPT !.live = pp, !.pp = pp,
                        !.stars = IF g.hits = 0 THEN None ELSE <<c.loaded, g.mods, g.hits>>]
  ELSE [c EXCEPT !.pp = c.live]

(* The leaderboard is read once in an interval.                            *)
ListRead(c, elapsed) ==
  IF c.listDue \/ elapsed THEN [c EXCEPT !.leaderboard = map, !.listDue = FALSE] ELSE c

PlayRead(c, g, elapsed) ==
  LET errors == ErrorsRead(c, g)
      d == [Inferred(c, g) EXCEPT !.of = g, !.mods = g.mods, !.dirty = TRUE,
                                  !.errors = errors, !.shownErrors = errors]
  IN LiveRated(ListRead(d, elapsed), g)

(* The rating of a result is kept for its counts and mods.                 *)
ResultIsDue(c, g) ==
  c.result = None \/ c.result.counts # Counts(g) \/ c.result.mods # g.mods
ResultRated(c, g) ==
  IF c.loaded = None THEN c
  ELSE LET d  == IF c.rated # g.mods THEN [c EXCEPT !.rated = g.mods] ELSE c
           pp == IF ResultIsDue(c, g)
                 THEN [kind |-> "result", map |-> c.loaded, mods |-> g.mods,
                       full |-> g.mods, counts |-> Counts(g)]
                 ELSE c.result
       IN [d EXCEPT !.result = pp, !.pp = pp]
ResultRead(c, g) ==
  ResultRated([c EXCEPT !.of = g, !.mods = g.mods, !.dirty = TRUE,
                        !.shownErrors = [n |-> g.n, hits |-> g.hits]], g)

(* The pp of the menu, once for a map and its mods.                        *)
IdleRated(c) ==
  IF c.cur \in {"play", "results"} THEN [c EXCEPT !.idle = None]
  ELSE IF c.loaded = None \/ c.idle = <<c.loaded, c.mods>> THEN c
  ELSE [c EXCEPT !.idle = <<c.loaded, c.mods>>,
                 !.pp = [kind |-> "idle", map |-> c.loaded, mods |-> c.mods,
                         full |-> c.mods, counts |-> <<0, 0, 0>>]]

(* read_gameplay_state_cached: the combo is read before the misses, and a  *)
(* judgement may fall between them.                                        *)
GameplayRead == {attempt} \cup
  IF state = "play" THEN {[attempt EXCEPT !.combo = was]} ELSE {}

(* One poll, in which the reads in failed fail.  A state that cannot be    *)
(* read is taken for the main menu, and is not shown; a map that is gone   *)
(* (no pointer, or a record half written) stays, but is not pinned.  g is  *)
(* the attempt as it was read; due: the back-off of the map's file, if it  *)
(* has one, is over; elapsed: so is the interval of the leaderboard.       *)
Polled(failed, g, due, elapsed) ==
  LET now == IF "state" \in failed THEN "menu" ELSE state
      c1  == [(IF "state" \in failed THEN s ELSE StateRead(s, now)) EXCEPT !.cur = now]
      c2  == IF now \in {"play", "results"} THEN c1
             ELSE MenuRead(c1, IF "mods" \in failed THEN c1.mods ELSE menuMods)
      c3  == IF "map" \in failed THEN c2
             ELSE IF "gone" \in failed THEN [c2 EXCEPT !.pinned = FALSE]
             ELSE MapRead(c2, map, map \notin Unreadable /\ due /\ "file" \notin failed)
      c4  == IF now # "results" THEN c3 ELSE [c3 EXCEPT !.stars = "total"]
      c5  == IF "ruleset" \in failed THEN c4
             ELSE IF now = "play"    THEN PlayRead(c4, g, elapsed)
             ELSE IF now = "results" THEN ResultRead(c4, g)
             ELSE c4
  IN IdleRated(c5)

Poll ==
  \E failed \in {{}} \cup {{r} : r \in {"state", "mods", "map", "gone", "file", "ruleset"}},
     g \in GameplayRead, due \in BOOLEAN, elapsed \in BOOLEAN :
    /\ failed # {} => failures < MaxFailures
    /\ failures' = IF failed = {} THEN failures ELSE failures + 1
    /\ elapsed => state = "play" /\ ~s.listDue
    /\ s.failed # map => due
    /\ s' = Polled(failed, g, due, elapsed)
    /\ calm' = IF failed # {} THEN 0 ELSE IF calm = 2 THEN 2 ELSE calm + 1
    /\ slipped' = (s'.live = s.live /\ (slipped \/ s'.cur # "play"))
    /\ was' = attempt.combo
    /\ torn' = IF g = attempt THEN torn ELSE torn + 1
    /\ UNCHANGED <<state, map, menuMods, attempt, moves, late>>

Next == ChangeState \/ Select \/ StartAttempt \/ Judge \/ Poll
Spec == Init /\ [][Next]_vars

-----------------------------------------------------------------------------
(* What an overlay is shown.                                               *)

(* The live pp shown in a play is of the judgements, the mods and the map  *)
(* shown beside it.  So are the live stars and the full difficulty, or     *)
(* else the next poll rates the map again.  Excepted is a rating that a    *)
(* poll outside a play came after: that poll replaces the stars            *)
(* (session.rs:2067, 2654) and may rate the map for a result (2718), and   *)
(* the live rating is kept, for only another judgement voids it.           *)
LiveAgrees ==
  calm > 0 /\ s.cur = "play" /\ s.loaded # None =>
    /\ s.pp.kind = "live" /\ s.pp.counts = Counts(s.of)
    /\ s.pp.mods = s.mods /\ s.pp.map = s.loaded
    /\ ~slipped =>
         /\ s.pp.full # s.mods => s.rated # s.mods
         /\ s.stars = IF s.of.hits = 0 THEN None ELSE <<s.loaded, s.mods, s.of.hits>>

(* What is shown of an attempt, provided it was read before it was judged: *)
(* its hit errors, as many as its judgements, and no more slider breaks    *)
(* than it had and one for each poll whose combo was read just before a    *)
(* judgement and whose misses just after it (client.rs:1271-1294).         *)
ShownIsTheAttempt ==
  calm > 0 /\ s.cur = "play" /\ ~late =>
    /\ s.shownErrors = IF s.of.hits = 0 THEN NoErrors ELSE [n |-> s.of.n, hits |-> s.of.hits]
    /\ s.shownBreaks <= s.of.broke + torn

(* A combo that drops without a miss from one poll to the next, in an      *)
(* attempt and on a map both of them read, is counted as a slider break.   *)
BreakIsCounted(m) ==
  /\ s.cur = "play" /\ s'.cur = "play" /\ s.loaded = m /\ s'.loaded = m
  /\ s.of # None /\ s'.of # None /\ s'.of.n = s.of.n
  /\ s'.of.combo < s.of.combo /\ s'.of.miss = s.of.miss
  => s'.shownBreaks = s.shownBreaks + 1

(* Hit errors and slider breaks are those of the attempt that is played,   *)
(* whatever attempts came before it: none too many but for torn reads, and *)
(* none that a poll could have seen is missing.                            *)
AttemptIsItsOwn == [][ShownIsTheAttempt' /\ \A m \in Maps : BreakIsCounted(m)]_vars

(* The result shown is rated for its own counts, mods and map, whichever   *)
(* results were shown before it.                                           *)
ResultAgrees ==
  calm > 0 /\ s.cur = "results" /\ s.loaded # None =>
    s.pp = [kind |-> "result", map |-> s.loaded, mods |-> s.mods, full |-> s.mods,
            counts |-> Counts(s.of)]

(* The pp beside a play or a result is of what is shown with it.           *)
PpAgrees == LiveAgrees /\ ResultAgrees

(* In song select nothing of a play is left, whatever was read or missed   *)
(* on the way there, and the pp is that of the map and mods selected.      *)
NothingLeaks ==
  calm > 0 /\ s.cur = "select" =>
    /\ s.of = None /\ s.shownErrors = NoErrors /\ s.shownBreaks = 0
    /\ IF s.loaded = None THEN s.pp = None
       ELSE s.pp = [kind |-> "idle", map |-> s.loaded, mods |-> s.mods, full |-> s.mods,
                    counts |-> <<0, 0, 0>>]

(* Two polls after the game last moved the session shows the game's own    *)
(* play, map and mods, rated for those mods, however the reads before      *)
(* failed and whatever was missed.  The map is not there if its file       *)
(* cannot be read, or if a file has failed since one was read whole.       *)
SettlesInTwoPolls ==
  calm = 2 =>
    /\ s.seen = state /\ s.cur = state
    /\ \/ s.loaded = map /\ map \notin Unreadable
       \/ s.loaded = None /\ (map \in Unreadable \/ s.failed # None)
    /\ IF state \in {"play", "results"} THEN s.of = attempt /\ s.mods = attempt.mods
       ELSE s.mods = menuMods
    /\ s.loaded # None =>
         s.rated = s.mods /\ (s.pp.full # s.mods => s.cur = "play" /\ slipped)

-----------------------------------------------------------------------------
(* What the code does not guarantee.                                       *)

(* The live stars of a play are never blank beside its pp.                 *)
StarsStay ==
  calm > 0 /\ s.cur = "play" /\ s.loaded # None /\ s.of.hits > 0 => s.stars # None
(* Main menu and lobby keep the last play as it was, pp included.          *)
FrozenKeepsPp ==
  calm > 0 /\ s.cur \in {"menu", "lobby"} /\ s.of # None /\ s.loaded # None =>
    s.pp.kind # "idle"
(* clear_play_state_for_new_map empties the leaderboard (session.rs:2567). *)
LeaderboardGoes == calm > 0 /\ s.cur = "select" => s.leaderboard = None
(* A map is there two polls after it was selected: from a map to one whose *)
(* file cannot be read and back, the first is restored, not loaded.        *)
ReadableIsLoaded == calm = 2 /\ map \notin Unreadable => s.loaded = map
(* Hit errors and slider breaks are of the attempt shown.                  *)
ErrorsAreTheirs ==
  calm > 0 /\ s.cur = "play" /\ s.of.hits > 0 => s.shownErrors.n = s.of.n
BreaksAreTheirs ==
  calm > 0 /\ s.cur = "play" => s.shownBreaks <= s.of.broke
(* BreakIsCounted of a map whose file cannot be read: every poll loads it  *)
(* anew and clears the combo it would have dropped from.                   *)
BreakIsAlwaysCounted == [][\A m \in Maps \cup {None} : BreakIsCounted(m)]_vars
=============================================================================
