--------------------------- MODULE SoloPlay_proofs ---------------------------
(***************************************************************************)
(* What SoloPlay promises for any maps, mods, unreadable files and number  *)
(* of moves and failures.                                                  *)
(*                                                                         *)
(* A poll takes the session through stages (StateRead, MenuRead, MapRead,  *)
(* PlayRead or ResultRead, IdleRated).  The invariant is a conjunction of  *)
(* parts that are about a session c, so that each stage can be shown to    *)
(* preserve them.                                                          *)
(*                                                                         *)
(* At the end, what SoloPlay takes for granted of the numbers: that a      *)
(* rating is what a new cursor would answer (GradualCursor), and that a    *)
(* grade follows the judgements (PlayNumbers).                             *)
(***************************************************************************)
EXTENDS MCSoloPlay, TLAPS

-----------------------------------------------------------------------------
(* The parts of the invariant.                                             *)

(* The numbers of an attempt grow by one with a move at most.              *)
AttemptCounts ==
  /\ attempt.n <= moves /\ attempt.hits <= moves /\ attempt.combo <= attempt.max
  /\ attempt.max <= moves /\ attempt.miss <= moves /\ attempt.broke <= moves
  /\ was <= attempt.max
  /\ torn + (IF was = attempt.combo THEN 0 ELSE 1) <= moves

(* A cached rating is of the map that is loaded.                           *)
LiveOfMap(c) == c.live # None => c.live.kind = "live" /\ c.live.map = c.loaded
ResultOfMap(c) ==
  c.result # None =>
    /\ c.result.kind = "result" /\ c.result.map = c.loaded
    /\ c.result.full = c.result.mods
RatedIfLoaded(c) ==
  /\ IF c.loaded = None THEN c.pp = None
     ELSE c.rated # None /\ c.loaded \notin Unreadable /\ c.loaded = c.checksum
  /\ c.pinned => c.loaded = c.checksum /\ c.checksum # None
  /\ c.checksum # None => c.loaded = c.checksum \/ c.failed # None

(* The same file is held, for the same map.                                *)
SameFile(d, c) ==
  /\ d.loaded = c.loaded /\ d.checksum = c.checksum
  /\ d.pinned = c.pinned /\ d.failed = c.failed
USE DEF SameFile

(* A live rating is relative to the full difficulty of the moment, and the *)
(* stars came with it.                                                     *)
StarsOf(pp) == IF pp.counts[2] = 0 THEN None ELSE <<pp.map, pp.mods, pp.counts[2]>>
LiveInStep(c) == c.live # None => c.live.full = c.rated /\ c.stars = StarsOf(c.live)

(* The pp of the menu stands as long as its key.                           *)
IdlePp(m, k) == [kind |-> "idle", map |-> m, mods |-> k, full |-> k, counts |-> <<0, 0, 0>>]
IdleIsShown(c) == c.idle # None => c.pp = IdlePp(c.idle[1], c.idle[2])

(* A play that is shown is known to be; song select shows none.            *)
PlayIsDirty(c) ==
  /\ c.seen = "select" => ~c.dirty
  /\ ~c.dirty => c.of = None /\ c.shownErrors = NoErrors /\ c.shownBreaks = 0

SeenIsCurrent(c) == c.cur # "menu" => c.seen = c.cur

(* The attempt shown is not a later one than the game's; and while the     *)
(* game's own is shown, what the next poll compares with is what is shown. *)
ShownNumber(c) == c.of # None => c.of.n <= attempt.n
ReadingIsShown(c) ==
  state = "play" /\ c.of # None /\ c.of.n = attempt.n =>
    /\ c.seen = "play"
    /\ c.combo = c.of.combo /\ c.max = c.of.max /\ c.miss = c.of.miss
    /\ c.breaks = c.shownBreaks
    /\ c.of.combo <= c.of.max /\ c.of.max <= attempt.max

(* An attempt that was neither judged nor read.                            *)
Fresh(c) ==
  /\ attempt.hits = 0 /\ attempt.combo = 0 /\ attempt.max = 0
  /\ attempt.miss = 0 /\ attempt.broke = 0
  /\ c.of = None \/ c.of.n # attempt.n

ErrorsOfAttempt(c) ==
  state = "play" /\ ~late =>
    c.errors.hits = 0 \/ c.errors.n = attempt.n \/ Fresh(c)

(* 1 if the combo has dropped from x to y.                                 *)
Drop(x, y) == IF y < x THEN 1 ELSE 0

(* What the session has counted, and would count next, was broken, or is *)
(* for one of k polls that were torn.  w: the combo a torn poll would read. *)
BreaksHold(c, w, k) ==
  state = "play" /\ ~late =>
    \/ Fresh(c)
    \/ /\ c.breaks <= attempt.broke + k /\ c.miss <= attempt.miss
       /\ attempt.miss = c.miss /\ (attempt.combo < c.combo \/ w < c.combo) =>
            c.breaks + 1 <= attempt.broke + k
BreaksOfAttempt(c) == BreaksHold(c, was, torn)
(* Torn polls after one that reads g.                                      *)
TornBy(g) == IF g = attempt THEN torn ELSE torn + 1

(* Slider breaks are bounded by the moves that dropped the combo, also if  *)
(* the next poll reads the combo of before the last judgement.             *)
BreaksBounded(c) ==
  /\ c.max = 0 => c.breaks = 0
  /\ c.breaks + Drop(c.combo, attempt.combo) <= moves
BreaksBoundedTorn(c) ==
  c.breaks + Drop(c.combo, was) + Drop(was, attempt.combo) <= moves
BreaksInv(c) == BreaksBoundedTorn(c) /\ BreaksOfAttempt(c)

(* After a poll whose reads all succeeded.                                 *)
ShownMods == IF state \in {"play", "results"} THEN attempt.mods ELSE menuMods
MapIsLoaded(c) ==
  \/ c.loaded = map /\ map \notin Unreadable
  \/ c.loaded = None /\ (map \in Unreadable \/ c.failed # None)
CalmIsCurrent ==
  calm > 0 =>
    /\ s.seen = state /\ s.cur = state /\ s.mods = ShownMods
    /\ MapIsLoaded(s) /\ was = attempt.combo

(* What is cached and shown of ratings, and of attempts.                   *)
RatingsInv(c) == LiveOfMap(c) /\ ResultOfMap(c) /\ RatedIfLoaded(c)
AttemptInv(c) ==
  /\ PlayIsDirty(c) /\ ShownNumber(c) /\ ReadingIsShown(c)
  /\ ErrorsOfAttempt(c) /\ BreaksBounded(c)

Inv ==
  /\ TypeOK /\ AttemptCounts
  /\ RatingsInv(s) /\ AttemptInv(s) /\ BreaksInv(s)
  /\ SeenIsCurrent(s) /\ IdleIsShown(s)
  /\ ~slipped => LiveInStep(s)
  /\ CalmIsCurrent

-----------------------------------------------------------------------------
(* Types.                                                                  *)

LEMMA Zeros == 0 \in Upto /\ NoErrors \in Errors /\ Upto \subseteq Nat
  BY PlayAssumption DEF PlayAssumption, NoErrors, Errors, Upto

(* A session with one field replaced.                                      *)
LEMMA SessionWith ==
  ASSUME NEW c \in Session
  PROVE  /\ \A x \in States : [c EXCEPT !.seen = x] \in Session
         /\ \A x \in States : [c EXCEPT !.cur = x] \in Session
         /\ \A x \in BOOLEAN : [c EXCEPT !.dirty = x] \in Session
         /\ \A x \in Maps \cup {None} : [c EXCEPT !.checksum = x] \in Session
         /\ \A x \in BOOLEAN : [c EXCEPT !.pinned = x] \in Session
         /\ \A x \in Maps \cup {None} : [c EXCEPT !.loaded = x] \in Session
         /\ \A x \in Maps \cup {None} : [c EXCEPT !.failed = x] \in Session
         /\ \A x \in Mods \cup {None} : [c EXCEPT !.rated = x] \in Session
         /\ \A x \in Errors : [c EXCEPT !.errors = x] \in Session
         /\ \A x \in Errors : [c EXCEPT !.shownErrors = x] \in Session
         /\ \A x \in Upto : [c EXCEPT !.combo = x] \in Session
         /\ \A x \in Upto : [c EXCEPT !.max = x] \in Session
         /\ \A x \in Upto : [c EXCEPT !.miss = x] \in Session
         /\ \A x \in Upto : [c EXCEPT !.breaks = x] \in Session
         /\ \A x \in Upto : [c EXCEPT !.shownBreaks = x] \in Session
         /\ \A x \in Pp \cup {None} : [c EXCEPT !.live = x] \in Session
         /\ \A x \in Pp \cup {None} : [c EXCEPT !.result = x] \in Session
         /\ \A x \in Pp \cup {None} : [c EXCEPT !.pp = x] \in Session
         /\ \A x \in (Maps \X Mods) \cup {None} : [c EXCEPT !.idle = x] \in Session
         /\ \A x \in BOOLEAN : [c EXCEPT !.listDue = x] \in Session
         /\ \A x \in Attempt \cup {None} : [c EXCEPT !.of = x] \in Session
         /\ \A x \in Mods : [c EXCEPT !.mods = x] \in Session
         /\ \A x \in Maps \cup {None} : [c EXCEPT !.leaderboard = x] \in Session
         /\ \A x \in (Maps \X Mods \X Upto) \cup {None, "total"} :
               [c EXCEPT !.stars = x] \in Session
<1>1. \A x \in States : [c EXCEPT !.seen = x] \in Session
  BY DEF Session
<1>2. \A x \in States : [c EXCEPT !.cur = x] \in Session
  BY DEF Session
<1>3. \A x \in BOOLEAN : [c EXCEPT !.dirty = x] \in Session
  BY DEF Session
<1>4. \A x \in Maps \cup {None} : [c EXCEPT !.loaded = x] \in Session
  BY DEF Session
<1>c. \A x \in Maps \cup {None} : [c EXCEPT !.checksum = x] \in Session
  BY DEF Session
<1>p. \A x \in BOOLEAN : [c EXCEPT !.pinned = x] \in Session
  BY DEF Session
<1>f. \A x \in Maps \cup {None} : [c EXCEPT !.failed = x] \in Session
  BY DEF Session
<1>5. \A x \in Mods \cup {None} : [c EXCEPT !.rated = x] \in Session
  BY DEF Session
<1>6. \A x \in Errors : [c EXCEPT !.errors = x] \in Session
  BY DEF Session
<1>7. \A x \in Errors : [c EXCEPT !.shownErrors = x] \in Session
  BY DEF Session
<1>8. \A x \in Upto : [c EXCEPT !.combo = x] \in Session
  BY DEF Session
<1>9. \A x \in Upto : [c EXCEPT !.max = x] \in Session
  BY DEF Session
<1>10. \A x \in Upto : [c EXCEPT !.miss = x] \in Session
  BY DEF Session
<1>11. \A x \in Upto : [c EXCEPT !.breaks = x] \in Session
  BY DEF Session
<1>12. \A x \in Upto : [c EXCEPT !.shownBreaks = x] \in Session
  BY DEF Session
<1>13. \A x \in Pp \cup {None} : [c EXCEPT !.live = x] \in Session
  BY DEF Session
<1>14. \A x \in Pp \cup {None} : [c EXCEPT !.result = x] \in Session
  BY DEF Session
<1>15. \A x \in Pp \cup {None} : [c EXCEPT !.pp = x] \in Session
  BY DEF Session
<1>16. \A x \in (Maps \X Mods) \cup {None} : [c EXCEPT !.idle = x] \in Session
  BY DEF Session
<1>17. \A x \in BOOLEAN : [c EXCEPT !.listDue = x] \in Session
  BY DEF Session
<1>18. \A x \in Attempt \cup {None} : [c EXCEPT !.of = x] \in Session
  BY DEF Session
<1>19. \A x \in Mods : [c EXCEPT !.mods = x] \in Session
  BY DEF Session
<1>20. \A x \in Maps \cup {None} : [c EXCEPT !.leaderboard = x] \in Session
  BY DEF Session
<1>21. \A x \in (Maps \X Mods \X Upto) \cup {None, "total"} : [c EXCEPT !.stars = x] \in Session
  BY DEF Session
<1> QED
  BY <1>1, <1>2, <1>3, <1>4, <1>5, <1>6, <1>7, <1>8, <1>9, <1>10, <1>11, <1>12, 
     <1>13, <1>14, <1>15, <1>16, <1>17, <1>18, <1>19, <1>20, <1>21, <1>c, <1>p, <1>f

(* An attempt with one number replaced.                                    *)
LEMMA AttemptWith ==
  ASSUME NEW a \in Attempt, NEW x \in Upto
  PROVE  /\ [a EXCEPT !.hits = x] \in Attempt /\ [a EXCEPT !.combo = x] \in Attempt
         /\ [a EXCEPT !.max = x] \in Attempt /\ [a EXCEPT !.miss = x] \in Attempt
         /\ [a EXCEPT !.broke = x] \in Attempt
<1>1. [a EXCEPT !.hits = x] \in Attempt /\ [a EXCEPT !.combo = x] \in Attempt
  BY DEF Attempt
<1>2. [a EXCEPT !.max = x] \in Attempt /\ [a EXCEPT !.miss = x] \in Attempt
  BY DEF Attempt
<1>3. [a EXCEPT !.broke = x] \in Attempt
  BY DEF Attempt
<1>4. QED
  BY <1>1, <1>2, <1>3

LEMMA SessionTypes ==
  ASSUME NEW c \in Session
  PROVE  /\ c.seen \in States /\ c.cur \in States /\ c.dirty \in BOOLEAN
         /\ c.loaded \in Maps \cup {None} /\ c.rated \in Mods \cup {None}
         /\ c.checksum \in Maps \cup {None} /\ c.pinned \in BOOLEAN
         /\ c.failed \in Maps \cup {None}
         /\ c.errors \in Errors /\ c.shownErrors \in Errors
         /\ c.combo \in Upto /\ c.max \in Upto /\ c.miss \in Upto
         /\ c.breaks \in Upto /\ c.shownBreaks \in Upto
         /\ c.live \in Pp \cup {None} /\ c.result \in Pp \cup {None}
         /\ c.pp \in Pp \cup {None} /\ c.idle \in (Maps \X Mods) \cup {None}
         /\ c.of \in Attempt \cup {None} /\ c.mods \in Mods
  BY DEF Session

(* Clearing the play leaves the map, its rating and the stars.             *)
LEMMA ClearedPlay ==
  ASSUME NEW c \in Session
  PROVE  /\ Cleared(c) \in Session
         /\ Cleared(c).seen = c.seen /\ Cleared(c).cur = c.cur /\ Cleared(c).dirty = c.dirty
         /\ SameFile(Cleared(c), c) /\ Cleared(c).rated = c.rated
         /\ Cleared(c).mods = c.mods /\ Cleared(c).stars = c.stars
         /\ Cleared(c).of = None /\ Cleared(c).pp = None
         /\ Cleared(c).shownErrors = NoErrors /\ Cleared(c).shownBreaks = 0
         /\ Cleared(c).errors = NoErrors /\ Cleared(c).combo = 0 /\ Cleared(c).max = 0
         /\ Cleared(c).miss = 0 /\ Cleared(c).breaks = 0
         /\ Cleared(c).live = None /\ Cleared(c).result = None /\ Cleared(c).idle = None
<1>1. Cleared(c) \in Session
  BY Zeros, ZenonT(30) DEF Session, Cleared, PlayCleared
<1>2. QED
  BY <1>1 DEF Session, Cleared, PlayCleared

-----------------------------------------------------------------------------
(* What the stages of a poll do to the play that is shown.                 *)

(* The numbers of the game's attempt are numbers.                          *)
LEMMA GameNumbers ==
  ASSUME TypeOK
  PROVE  /\ attempt.n \in Nat /\ attempt.hits \in Nat /\ attempt.combo \in Nat
         /\ attempt.max \in Nat /\ attempt.miss \in Nat /\ attempt.broke \in Nat
         /\ was \in Nat /\ moves \in Nat /\ torn \in Nat /\ attempt \in Attempt /\ attempt.mods \in Mods
  BY Zeros DEF TypeOK, Attempt

(* A stage that touches nothing of the play keeps what is known of it.     *)
PlayFields(c) ==
  <<c.seen, c.dirty, c.of, c.errors, c.combo, c.max, c.miss, c.breaks,
    c.shownErrors, c.shownBreaks>>
LEMMA SamePlay ==
  ASSUME NEW c \in Session, NEW d \in Session, PlayFields(d) = PlayFields(c)
  PROVE  /\ AttemptInv(c) => AttemptInv(d)
         /\ BreaksInv(c) => BreaksInv(d)
<1>1. /\ d.seen = c.seen /\ d.dirty = c.dirty /\ d.of = c.of /\ d.errors = c.errors
      /\ d.combo = c.combo /\ d.max = c.max /\ d.miss = c.miss /\ d.breaks = c.breaks
      /\ d.shownErrors = c.shownErrors /\ d.shownBreaks = c.shownBreaks
  BY DEF PlayFields
<1>2. QED
  BY <1>1 DEF AttemptInv, PlayIsDirty, ShownNumber, ReadingIsShown, ErrorsOfAttempt,
     BreaksBounded, BreaksInv, BreaksBoundedTorn, BreaksOfAttempt, BreaksHold, Fresh

(* Nothing is claimed of a play that is not shown.                         *)
LEMMA NoPlay ==
  ASSUME TypeOK, AttemptCounts, NEW d \in Session,
         d.of = None, d.shownErrors = NoErrors, d.shownBreaks = 0, d.errors = NoErrors,
         d.combo = 0, d.max = 0, d.miss = 0, d.breaks = 0,
         d.seen = "select" => ~d.dirty
  PROVE  AttemptInv(d) /\ BreaksInv(d)
<1> USE GameNumbers
<1>1. PlayIsDirty(d) /\ ShownNumber(d) /\ ReadingIsShown(d)
  BY DEF PlayIsDirty, ShownNumber, ReadingIsShown
<1>2. ErrorsOfAttempt(d)
  BY DEF ErrorsOfAttempt, NoErrors
<1>3. BreaksBounded(d) /\ BreaksBoundedTorn(d)
  BY DEF BreaksBounded, BreaksBoundedTorn, Drop, AttemptCounts
<1>4. BreaksOfAttempt(d)
  BY DEF BreaksOfAttempt, BreaksHold
<1>5. QED
  BY <1>1, <1>2, <1>3, <1>4 DEF AttemptInv, BreaksInv

(* The first poll of a play starts counting from nothing.                  *)
LEMMA PlayEntered ==
  ASSUME TypeOK, AttemptCounts, NEW c \in Session, NEW d \in Session,
         AttemptInv(c), c.seen # "play", d.seen = "play", d.dirty = c.dirty,
         d.combo = 0, d.max = 0, d.miss = 0, d.breaks = 0,
         d.of = c.of, d.errors = c.errors, d.shownErrors = c.shownErrors,
         d.shownBreaks = c.shownBreaks
  PROVE  AttemptInv(d) /\ BreaksInv(d)
<1> USE GameNumbers
<1>1. PlayIsDirty(d) /\ ShownNumber(d) /\ ReadingIsShown(d)
  BY DEF AttemptInv, PlayIsDirty, ShownNumber, ReadingIsShown
<1>2. ErrorsOfAttempt(d)
  BY DEF AttemptInv, ErrorsOfAttempt, Fresh
<1>3. BreaksBounded(d) /\ BreaksBoundedTorn(d)
  BY DEF BreaksBounded, BreaksBoundedTorn, Drop, AttemptCounts
<1>4. BreaksOfAttempt(d)
  BY DEF BreaksOfAttempt, BreaksHold
<1>5. QED
  BY <1>1, <1>2, <1>3, <1>4 DEF AttemptInv, BreaksInv

(* Another state of the game is seen, neither a play nor the song select.  *)
LEMMA PlayLeft ==
  ASSUME NEW c \in Session, NEW d \in Session,
         AttemptInv(c), BreaksInv(c),
         d.seen \notin {"play", "select"}, state # "play", d.dirty = c.dirty,
         d.combo = c.combo, d.max = c.max, d.miss = c.miss, d.breaks = c.breaks,
         d.of = c.of, d.errors = c.errors, d.shownErrors = c.shownErrors,
         d.shownBreaks = c.shownBreaks
  PROVE  AttemptInv(d) /\ BreaksInv(d)
  BY DEF AttemptInv, PlayIsDirty, ShownNumber, ReadingIsShown, ErrorsOfAttempt,
     BreaksBounded, BreaksInv, BreaksBoundedTorn, BreaksOfAttempt, BreaksHold

(* StateRead, with what it leaves alone.                                   *)
LEMMA StateReadKeeps ==
  ASSUME TypeOK, AttemptCounts, NEW c \in Session,
         AttemptInv(c), BreaksInv(c), RatingsInv(c), IdleIsShown(c)
  PROVE  LET d == StateRead(c, state)
         IN  /\ d \in Session /\ d.seen = state
             /\ AttemptInv(d) /\ BreaksInv(d) /\ RatingsInv(d) /\ IdleIsShown(d)
             /\ SameFile(d, c) /\ d.rated = c.rated /\ d.mods = c.mods
             /\ d.stars = c.stars /\ d.live \in {c.live, None}
             /\ state = "play" => d.live = c.live
             /\ c.seen = state => d = c
<1>s. state \in States
  BY DEF TypeOK
<1> DEFINE d == [c EXCEPT !.seen = state]
<1>d. d \in Session
  BY <1>s, SessionWith
<1>f. /\ d.seen = state /\ d.dirty = c.dirty /\ SameFile(d, c) /\ d.rated = c.rated
      /\ d.mods = c.mods /\ d.stars = c.stars /\ d.live = c.live /\ d.result = c.result
      /\ d.of = c.of /\ d.errors = c.errors /\ d.shownErrors = c.shownErrors
      /\ d.shownBreaks = c.shownBreaks /\ d.idle = c.idle /\ d.pp = c.pp
      /\ d.combo = c.combo /\ d.max = c.max /\ d.miss = c.miss /\ d.breaks = c.breaks
  BY DEF Session
<1> HIDE DEF d
<1>1. CASE c.seen = state
  BY <1>1, <1>s DEF StateRead
<1>2. CASE c.seen # state /\ ClearIsDue(d, state)
  <2> DEFINE e == [Cleared(d) EXCEPT !.dirty = FALSE]
  <2>1. StateRead(c, state) = e
    BY <1>2 DEF StateRead, ClearIsDue, d
  <2>2. e \in Session
    BY <1>d, ClearedPlay, SessionWith
  <2>3. /\ e.seen = state /\ ~e.dirty /\ e.of = None /\ e.errors = NoErrors
        /\ e.shownErrors = NoErrors /\ e.shownBreaks = 0
        /\ e.combo = 0 /\ e.max = 0 /\ e.miss = 0 /\ e.breaks = 0
        /\ e.live = None /\ e.result = None /\ e.idle = None /\ e.pp = None
        /\ SameFile(e, c) /\ e.rated = c.rated /\ e.mods = c.mods /\ e.stars = c.stars
    BY <1>d, <1>f, ClearedPlay DEF Session
  <2> HIDE DEF e
  <2>4. AttemptInv(e) /\ BreaksInv(e)
    BY <2>2, <2>3, NoPlay
  <2>5. RatingsInv(e) /\ IdleIsShown(e)
    BY <2>3 DEF RatingsInv, LiveOfMap, ResultOfMap, RatedIfLoaded, IdleIsShown
  <2>6. state # "play"
    BY <1>2 DEF ClearIsDue
  <2>7. QED
    BY <1>2, <2>1, <2>2, <2>3, <2>4, <2>5, <2>6
<1>3. CASE c.seen # state /\ ~ClearIsDue(d, state) /\ state = "play"
  <2> DEFINE e == [d EXCEPT !.combo = 0, !.max = 0, !.miss = 0, !.breaks = 0]
  <2>1. StateRead(c, state) = e
    BY <1>3 DEF StateRead, ClearIsDue, d
  <2>2. e \in Session
    BY <1>d, Zeros, SessionWith
  <2>3. /\ e.seen = state /\ e.dirty = c.dirty /\ e.of = c.of /\ e.errors = c.errors
        /\ e.shownErrors = c.shownErrors /\ e.shownBreaks = c.shownBreaks
        /\ e.combo = 0 /\ e.max = 0 /\ e.miss = 0 /\ e.breaks = 0
        /\ e.live = c.live /\ e.result = c.result /\ e.idle = c.idle /\ e.pp = c.pp
        /\ SameFile(e, c) /\ e.rated = c.rated /\ e.mods = c.mods /\ e.stars = c.stars
    BY <1>d, <1>f DEF Session
  <2> HIDE DEF e
  <2>4. AttemptInv(e) /\ BreaksInv(e)
    BY <1>3, <2>2, <2>3, PlayEntered
  <2>5. RatingsInv(e) /\ IdleIsShown(e)
    BY <2>3 DEF RatingsInv, LiveOfMap, ResultOfMap, RatedIfLoaded, IdleIsShown
  <2>6. QED
    BY <1>3, <2>1, <2>2, <2>3, <2>4, <2>5
<1>4. CASE c.seen # state /\ ~ClearIsDue(d, state) /\ state # "play"
  <2>1. StateRead(c, state) = d
    BY <1>4 DEF StateRead, ClearIsDue, d
  <2>2. AttemptInv(d) /\ BreaksInv(d)
    <3>1. CASE state = "select"
      <4>1. ~c.dirty
        BY <1>4, <1>f, <3>1 DEF ClearIsDue
      <4>2. QED
        BY <1>f, <3>1, <4>1 DEF AttemptInv, PlayIsDirty, ShownNumber, ReadingIsShown,
           ErrorsOfAttempt, BreaksBounded, BreaksInv, BreaksBoundedTorn, BreaksOfAttempt, BreaksHold
    <3>2. CASE state # "select"
      BY <1>4, <1>d, <1>f, <3>2, PlayLeft
    <3>3. QED
      BY <3>1, <3>2
  <2>3. RatingsInv(d) /\ IdleIsShown(d)
    BY <1>f DEF RatingsInv, LiveOfMap, ResultOfMap, RatedIfLoaded, IdleIsShown
  <2>4. QED
    BY <1>4, <1>d, <1>f, <2>1, <2>2, <2>3
<1>5. QED
  BY <1>1, <1>2, <1>3, <1>4

(* MenuRead, with what it leaves alone.                                    *)
LEMMA MenuReadKeeps ==
  ASSUME NEW c \in Session, NEW k \in Mods,
         AttemptInv(c), BreaksInv(c), RatingsInv(c), IdleIsShown(c)
  PROVE  LET d == MenuRead(c, k)
         IN  /\ d \in Session /\ d.mods = k /\ d.seen = c.seen /\ d.cur = c.cur
             /\ AttemptInv(d) /\ BreaksInv(d) /\ RatingsInv(d) /\ IdleIsShown(d)
             /\ SameFile(d, c) /\ d.live = c.live
<1> DEFINE d == MenuRead(c, k)
<1>1. d \in Session
  BY Zeros, SessionWith DEF MenuRead
<1>2. /\ d.seen = c.seen /\ d.cur = c.cur /\ d.dirty = c.dirty /\ SameFile(d, c)
      /\ d.rated = c.rated /\ d.mods = k /\ d.live = c.live /\ d.result = c.result
      /\ d.of = c.of /\ d.errors = NoErrors /\ d.shownErrors = c.shownErrors
      /\ d.shownBreaks = c.shownBreaks /\ d.idle = c.idle /\ d.pp = c.pp
      /\ d.combo = c.combo /\ d.max = c.max /\ d.miss = c.miss /\ d.breaks = c.breaks
  BY DEF MenuRead, Session
<1> HIDE DEF d
<1>3. PlayIsDirty(d) /\ ShownNumber(d) /\ ReadingIsShown(d)
  BY <1>2 DEF AttemptInv, PlayIsDirty, ShownNumber, ReadingIsShown
<1>4. ErrorsOfAttempt(d)
  BY <1>2 DEF ErrorsOfAttempt, NoErrors
<1>5. BreaksBounded(d) /\ BreaksInv(d)
  BY <1>2 DEF AttemptInv, BreaksBounded, BreaksInv, BreaksBoundedTorn, BreaksOfAttempt, BreaksHold, Fresh
<1>6. RatingsInv(d) /\ IdleIsShown(d)
  BY <1>2 DEF RatingsInv, LiveOfMap, ResultOfMap, RatedIfLoaded, IdleIsShown
<1>7. QED
  BY <1>1, <1>2, <1>3, <1>4, <1>5, <1>6 DEF AttemptInv, d

(* Rated: a live rating goes with the difficulty it is relative to.        *)
LEMMA RatedKeeps ==
  ASSUME NEW c \in Session, c.loaded \in Maps \ Unreadable, c.loaded = c.checksum,
         AttemptInv(c), BreaksInv(c), IdleIsShown(c), ResultOfMap(c)
  PROVE  LET d == Rated(c, c.mods)
         IN  /\ d \in Session /\ d.seen = c.seen /\ d.cur = c.cur /\ d.mods = c.mods
             /\ AttemptInv(d) /\ BreaksInv(d) /\ RatingsInv(d) /\ IdleIsShown(d)
             /\ SameFile(d, c) /\ d.rated = c.mods /\ d.live = None
             /\ PlayFields(d) = PlayFields(c)
<1> DEFINE d == Rated(c, c.mods)
<1>1. d \in Session
  BY SessionWith, SessionTypes DEF Rated
<1>2. /\ d.seen = c.seen /\ d.cur = c.cur /\ SameFile(d, c) /\ d.rated = c.mods
      /\ d.mods = c.mods /\ d.live = None /\ d.result = c.result /\ d.idle = c.idle
      /\ d.pp = c.pp /\ PlayFields(d) = PlayFields(c)
  BY DEF Rated, Session, PlayFields
<1> HIDE DEF d
<1>3. AttemptInv(d) /\ BreaksInv(d)
  BY <1>1, <1>2, SamePlay
<1>4. c.mods # None
  BY SessionTypes, NoneAssumption DEF NoneAssumption
<1>5. RatingsInv(d) /\ IdleIsShown(d)
  BY <1>2, <1>4, NoneAssumption DEF RatingsInv, LiveOfMap, ResultOfMap, RatedIfLoaded,
     IdleIsShown, NoneAssumption
<1>6. QED
  BY <1>1, <1>2, <1>3, <1>5 DEF d

(* MapRead: what is left of the play, its ratings and the menu's pp is of  *)
(* the map that is then loaded, rated for the mods shown.                  *)
LEMMA MapReadKeeps ==
  ASSUME TypeOK, AttemptCounts, NEW c \in Session, NEW readable \in BOOLEAN,
         readable => map \notin Unreadable,
         AttemptInv(c), BreaksInv(c), RatingsInv(c), IdleIsShown(c)
  PROVE  LET d == MapRead(c, map, readable)
         IN  /\ d \in Session /\ d.seen = c.seen /\ d.cur = c.cur /\ d.mods = c.mods
             /\ AttemptInv(d) /\ BreaksInv(d) /\ RatingsInv(d) /\ IdleIsShown(d)
             /\ MapIsLoaded(d) /\ (d.loaded # None => d.rated = c.mods)
             /\ d.live \in {c.live, None}
             /\ d.live # None => d.rated = c.rated /\ d.stars = c.stars
             /\ d.loaded # None /\ d.loaded = c.loaded => PlayFields(d) = PlayFields(c)
<1>m. map \in Maps /\ map # None
  BY NoneAssumption DEF NoneAssumption, TypeOK
<1>s. c.seen = "select" => ~c.dirty
  BY DEF AttemptInv, PlayIsDirty
<1>h. /\ c.loaded # None => c.loaded \in Maps \ Unreadable /\ c.loaded = c.checksum
      /\ c.loaded = None => c.pp = None /\ c.live = None
      /\ c.pinned => c.loaded = c.checksum /\ c.checksum # None
      /\ c.checksum # None => c.loaded = c.checksum \/ c.failed # None
  <2>1. c.live # None => c.live \in Pp /\ c.live.map = c.loaded
    BY SessionTypes DEF RatingsInv, LiveOfMap
  <2>2. c.live # None => c.loaded \in Maps
    BY <2>1 DEF Pp
  <2>3. QED
    BY <2>2, SessionTypes, NoneAssumption DEF RatingsInv, RatedIfLoaded, NoneAssumption
<1>1. CASE c.checksum # map /\ ~readable
  <2> DEFINE d == [Cleared(c) EXCEPT !.pinned = FALSE, !.loaded = None, !.failed = map,
                                     !.rated = None, !.stars = None]
  <2>1. MapRead(c, map, readable) = d
    BY <1>1 DEF MapRead, FileRead
  <2>2. d \in Session
    BY <1>m, ClearedPlay, SessionWith
  <2>3. /\ d.seen = c.seen /\ d.cur = c.cur /\ d.mods = c.mods /\ d.dirty = c.dirty
        /\ d.checksum = c.checksum /\ d.pinned = FALSE /\ d.failed = map
        /\ d.loaded = None /\ d.live = None /\ d.result = None /\ d.idle = None
        /\ d.pp = None /\ d.of = None /\ d.errors = NoErrors
        /\ d.shownErrors = NoErrors /\ d.shownBreaks = 0
        /\ d.combo = 0 /\ d.max = 0 /\ d.miss = 0 /\ d.breaks = 0
    BY ClearedPlay DEF Session
  <2> HIDE DEF d
  <2>4. AttemptInv(d) /\ BreaksInv(d)
    BY <1>s, <2>2, <2>3, NoPlay
  <2>5. RatingsInv(d) /\ IdleIsShown(d)
    BY <1>m, <2>3 DEF RatingsInv, LiveOfMap, ResultOfMap, RatedIfLoaded, IdleIsShown
  <2>6. QED
    BY <1>m, <2>1, <2>2, <2>3, <2>4, <2>5 DEF MapIsLoaded
<1>2. CASE c.checksum # map /\ readable
  <2> DEFINE e == [Cleared(c) EXCEPT !.checksum = map, !.pinned = TRUE, !.loaded = map,
                                     !.failed = None]
  <2>1. MapRead(c, map, readable) = Rated(e, c.mods)
    BY <1>2 DEF MapRead, FileRead
  <2>2. e \in Session
    BY <1>m, ClearedPlay, SessionWith
  <2>3. /\ e.seen = c.seen /\ e.cur = c.cur /\ e.mods = c.mods /\ e.dirty = c.dirty
        /\ e.checksum = map /\ e.pinned = TRUE
        /\ e.loaded = map /\ e.live = None /\ e.result = None /\ e.idle = None
        /\ e.of = None /\ e.errors = NoErrors
        /\ e.shownErrors = NoErrors /\ e.shownBreaks = 0
        /\ e.combo = 0 /\ e.max = 0 /\ e.miss = 0 /\ e.breaks = 0
    BY ClearedPlay DEF Session
  <2> HIDE DEF e
  <2>4. AttemptInv(e) /\ BreaksInv(e)
    BY <1>s, <2>2, <2>3, NoPlay
  <2>5. ResultOfMap(e) /\ IdleIsShown(e)
    BY <2>3 DEF ResultOfMap, IdleIsShown
  <2> DEFINE d == Rated(e, e.mods)
  <2>6. /\ d \in Session /\ d.seen = e.seen /\ d.cur = e.cur /\ d.mods = e.mods
        /\ AttemptInv(d) /\ BreaksInv(d) /\ RatingsInv(d) /\ IdleIsShown(d)
        /\ SameFile(d, e) /\ d.rated = e.mods /\ d.live = None
        /\ PlayFields(d) = PlayFields(e)
    BY <1>2, <1>m, <2>2, <2>3, <2>4, <2>5, RatedKeeps
  <2> HIDE DEF d
  <2>7. MapRead(c, map, readable) = d
    BY <2>1, <2>3 DEF d
  <2>8. c.loaded # map
    BY <1>2, <1>h, <1>m
  <2>9. QED
    BY <1>2, <1>m, <2>3, <2>6, <2>7, <2>8 DEF MapIsLoaded
<1>3. CASE c.checksum = map /\ ~c.pinned /\ c.loaded = None
  <2> DEFINE d == [c EXCEPT !.stars = None]
  <2>1. MapRead(c, map, readable) = d
    BY <1>3 DEF MapRead, Restored
  <2>2. d \in Session
    BY SessionWith
  <2>3. /\ d.seen = c.seen /\ d.cur = c.cur /\ d.mods = c.mods /\ SameFile(d, c)
        /\ d.rated = c.rated /\ d.live = None /\ d.result = c.result /\ d.idle = c.idle
        /\ d.pp = c.pp /\ PlayFields(d) = PlayFields(c)
    BY <1>3, <1>h DEF Session, PlayFields
  <2> HIDE DEF d
  <2>4. AttemptInv(d) /\ BreaksInv(d)
    BY <2>2, <2>3, SamePlay
  <2>5. RatingsInv(d) /\ IdleIsShown(d)
    BY <2>3 DEF RatingsInv, LiveOfMap, ResultOfMap, RatedIfLoaded, IdleIsShown
  <2>6. MapIsLoaded(d)
    BY <1>3, <1>h, <1>m, <2>3 DEF MapIsLoaded
  <2>7. QED
    BY <1>3, <2>1, <2>2, <2>3, <2>4, <2>5, <2>6
<1>4. ASSUME c.checksum = map, c.loaded # None, ~c.pinned \/ c.rated # c.mods
      PROVE  LET d == MapRead(c, map, readable)
             IN  /\ d \in Session /\ d.seen = c.seen /\ d.cur = c.cur /\ d.mods = c.mods
                 /\ AttemptInv(d) /\ BreaksInv(d) /\ RatingsInv(d) /\ IdleIsShown(d)
                 /\ MapIsLoaded(d) /\ d.rated = c.mods /\ d.live = None
                 /\ PlayFields(d) = PlayFields(c)
  <2>1. /\ c.loaded \in Maps \ Unreadable /\ c.loaded = map /\ c.loaded = c.checksum
        /\ ResultOfMap(c)
    BY <1>4, <1>h DEF RatingsInv
  <2> DEFINE d == Rated(c, c.mods)
  <2>2. MapRead(c, map, readable) = d
    BY <1>4 DEF MapRead, Restored
  <2>3. /\ d \in Session /\ d.seen = c.seen /\ d.cur = c.cur /\ d.mods = c.mods
        /\ AttemptInv(d) /\ BreaksInv(d) /\ RatingsInv(d) /\ IdleIsShown(d)
        /\ SameFile(d, c) /\ d.rated = c.mods /\ d.live = None
        /\ PlayFields(d) = PlayFields(c)
    BY <2>1, RatedKeeps
  <2> HIDE DEF d
  <2>4. QED
    BY <2>1, <2>2, <2>3 DEF MapIsLoaded
<1>5. CASE c.checksum = map /\ c.pinned /\ c.rated = c.mods
  <2>1. MapRead(c, map, readable) = c
    BY <1>5 DEF MapRead
  <2>2. c.loaded = map /\ map \notin Unreadable
    BY <1>5, <1>h, <1>m
  <2>3. QED
    BY <1>5, <1>m, <2>1, <2>2 DEF MapIsLoaded
<1>6. c.pinned => c.loaded # None
  BY <1>h
<1>7. QED
  BY <1>1, <1>2, <1>3, <1>4, <1>5, <1>6

-----------------------------------------------------------------------------
(* Reading a play.                                                         *)

(* What is read of a play is the attempt, its combo perhaps an older one.  *)
LEMMA ReadAttempt ==
  ASSUME TypeOK, AttemptCounts, NEW g \in GameplayRead
  PROVE  /\ g \in Attempt /\ g.n = attempt.n /\ g.hits = attempt.hits /\ g.max = attempt.max
         /\ g.miss = attempt.miss /\ g.broke = attempt.broke /\ g.mods = attempt.mods
         /\ g.combo \in {attempt.combo, was} /\ g.combo <= g.max
         /\ state # "play" \/ was = attempt.combo => g = attempt
<1>1. CASE g = attempt
  BY <1>1, GameNumbers DEF AttemptCounts
<1>2. CASE g = [attempt EXCEPT !.combo = was] /\ state = "play"
  BY <1>2, GameNumbers DEF AttemptCounts, TypeOK, Attempt
<1>3. QED
  BY <1>1, <1>2 DEF GameplayRead

(* infer_slider_breaks counts at most one break, and only for a combo that *)
(* dropped without a miss; none in an attempt without any combo.           *)
LEMMA InferredBreaks ==
  ASSUME NEW c \in Session, NEW g \in Attempt, g.combo <= g.max, c.max = 0 => c.breaks = 0
  PROVE  LET b == Inferred(c, g).breaks
         IN  /\ b \in Nat /\ b <= c.breaks + Drop(c.combo, g.combo)
             /\ g.miss # c.miss => b <= c.breaks
             /\ g.max = 0 => b = 0
             /\ c.max <= g.max /\ c.combo <= g.max /\ g.combo < c.combo /\ g.miss = c.miss =>
                  b = c.breaks + 1
<1> DEFINE retried == g.max < c.max
           before  == IF retried \/ c.combo > g.max THEN 0 ELSE c.combo
           counted == IF retried THEN 0 ELSE c.breaks
           b == IF g.combo < before /\ g.miss = c.miss THEN counted + 1 ELSE counted
<1>1. Inferred(c, g).breaks = b
  BY DEF Inferred, Session
<1>2. /\ g.combo \in Nat /\ g.max \in Nat /\ g.miss \in Nat
      /\ c.combo \in Nat /\ c.max \in Nat /\ c.miss \in Nat /\ c.breaks \in Nat
  BY Zeros, SessionTypes DEF Attempt
<1>3. QED
  BY <1>1, <1>2 DEF Drop

(* The live rating after a play was read is of what was read; it is new,   *)
(* in step with the difficulty and the stars, or the one there was.        *)
LEMMA LiveRatedKeeps ==
  ASSUME NEW c \in Session, NEW g \in Attempt, RatingsInv(c)
  PROVE  LET d == LiveRated(c, g)
         IN  /\ d \in Session /\ PlayFields(d) = PlayFields(c) /\ RatingsInv(d)
             /\ d.cur = c.cur /\ d.mods = c.mods /\ SameFile(d, c) /\ d.rated = c.rated
             /\ d.loaded = None => d = c
             /\ d.loaded # None =>
                  /\ d.pp = d.live /\ d.live \in Pp
                  /\ d.live.counts = Counts(g) /\ d.live.mods = g.mods
             /\ LiveInStep(d) \/ (d.live = c.live /\ d.stars = c.stars)
<1>1. CASE c.loaded = None
  BY <1>1 DEF LiveRated
<1>2. CASE c.loaded # None /\ LiveIsDue(c, g)
  <2> DEFINE pp == [kind |-> "live", map |-> c.loaded, mods |-> g.mods,
                    full |-> c.rated, counts |-> Counts(g)]
             stars == IF g.hits = 0 THEN None ELSE <<c.loaded, g.mods, g.hits>>
             d == [c EXCEPT !.live = pp, !.pp = pp, !.stars = stars]
  <2>1. c.loaded \in Maps /\ c.rated \in Mods /\ g.mods \in Mods /\ g.hits \in Upto
        /\ Counts(g) \in Upto \X Upto \X Upto
    BY <1>2, SessionTypes DEF RatingsInv, RatedIfLoaded, Attempt, Counts
  <2>2. pp \in Pp /\ pp # None
    BY <2>1, NoneAssumption DEF Pp, NoneAssumption
  <2>3. stars \in (Maps \X Mods \X Upto) \cup {None, "total"}
    BY <2>1
  <2>4. pp.kind = "live" /\ pp.map = c.loaded /\ pp.mods = g.mods /\ pp.full = c.rated
        /\ pp.counts = Counts(g) /\ Counts(g)[2] = g.hits
    BY DEF Counts
  <2>5. stars = StarsOf(pp)
    BY <2>4 DEF StarsOf
  <2>6. LiveRated(c, g) = d
    BY <1>2 DEF LiveRated
  <2> HIDE DEF pp, stars
  <2>7. d \in Session
    BY <2>2, <2>3, SessionWith
  <2>8. /\ PlayFields(d) = PlayFields(c) /\ d.cur = c.cur /\ d.mods = c.mods
        /\ SameFile(d, c) /\ d.rated = c.rated /\ d.live = pp /\ d.pp = pp
        /\ d.stars = stars /\ d.result = c.result
    BY DEF Session, PlayFields
  <2> HIDE DEF d
  <2>9. RatingsInv(d) /\ LiveInStep(d)
    BY <1>2, <2>2, <2>4, <2>5, <2>8 DEF RatingsInv, LiveOfMap, ResultOfMap, RatedIfLoaded, LiveInStep
  <2>10. QED
    BY <1>2, <2>2, <2>4, <2>6, <2>7, <2>8, <2>9
<1>3. CASE c.loaded # None /\ ~LiveIsDue(c, g)
  <2> DEFINE d == [c EXCEPT !.pp = c.live]
  <2>1. c.live # None /\ c.live.counts = Counts(g) /\ c.live.mods = g.mods /\ c.live \in Pp
    BY <1>3, SessionTypes DEF LiveIsDue
  <2>2. LiveRated(c, g) = d
    BY <1>3 DEF LiveRated
  <2>3. d \in Session
    BY <2>1, SessionWith
  <2>4. /\ PlayFields(d) = PlayFields(c) /\ d.cur = c.cur /\ d.mods = c.mods
        /\ SameFile(d, c) /\ d.rated = c.rated /\ d.live = c.live /\ d.pp = c.live
        /\ d.stars = c.stars /\ d.result = c.result
    BY DEF Session, PlayFields
  <2> HIDE DEF d
  <2>5. RatingsInv(d)
    BY <1>3, <2>4 DEF RatingsInv, LiveOfMap, ResultOfMap, RatedIfLoaded
  <2>6. QED
    BY <1>3, <2>1, <2>2, <2>3, <2>4, <2>5
<1>4. QED
  BY <1>1, <1>2, <1>3

(* PlayRead: the errors and slider breaks are those of the attempt read,   *)
(* the pp is of its judgements and mods.                                   *)
LEMMA PlayReadKeeps ==
  ASSUME TypeOK, AttemptCounts, state = "play",
         NEW c \in Session, c.seen = "play",
         AttemptInv(c), BreaksInv(c), RatingsInv(c),
         NEW g \in GameplayRead, NEW elapsed \in BOOLEAN
  PROVE  LET d == PlayRead(c, g, elapsed)
         IN  /\ d \in Session /\ d.seen = "play" /\ d.cur = c.cur
             /\ d.of = g /\ d.mods = g.mods
             /\ AttemptInv(d) /\ RatingsInv(d)
             /\ SameFile(d, c) /\ d.rated = c.rated
             /\ d.loaded # None =>
                  /\ d.pp = d.live /\ d.live \in Pp
                  /\ d.live.counts = Counts(g) /\ d.live.mods = g.mods
             /\ LiveInStep(d) \/ (d.live = c.live /\ d.stars = c.stars)
             /\ ~late =>
                  d.shownErrors = IF g.hits = 0 THEN NoErrors ELSE [n |-> g.n, hits |-> g.hits]
             /\ ~late => d.shownBreaks <= g.broke + torn
             /\ BreaksHold(d, attempt.combo, TornBy(g))
             /\ d.shownBreaks = Inferred(c, g).breaks
<1> USE GameNumbers, ReadAttempt
<1> DEFINE i == Inferred(c, g)
           errors == ErrorsRead(c, g)
           e == [i EXCEPT !.of = g, !.mods = g.mods, !.dirty = TRUE,
                          !.errors = errors, !.shownErrors = errors]
           f == ListRead(e, elapsed)
           d == LiveRated(f, g)
<1>1. PlayRead(c, g, elapsed) = d
  BY DEF PlayRead
<1>2. g.n \in Upto /\ g.hits \in Upto /\ g.combo \in Upto /\ g.max \in Upto /\ g.miss \in Upto
      /\ g.mods \in Mods /\ g.combo \in Nat
  BY Zeros DEF Attempt
<1>3. errors \in Errors
  BY <1>2, Zeros, SessionTypes DEF ErrorsRead, Errors
<1>4. /\ i.breaks \in Nat /\ i.breaks <= c.breaks + Drop(c.combo, g.combo)
      /\ g.miss # c.miss => i.breaks <= c.breaks
      /\ g.max = 0 => i.breaks = 0
  BY InferredBreaks DEF AttemptInv, BreaksBounded
<1>n. c.breaks \in Nat /\ c.combo \in Nat /\ c.miss \in Nat
  BY Zeros, SessionTypes
<1>5. i.breaks + Drop(g.combo, attempt.combo) <= moves
  BY <1>4, <1>n DEF AttemptInv, BreaksBounded, BreaksInv, BreaksBoundedTorn, Drop
<1>6. i.breaks \in Upto
  BY <1>4, <1>5, PlayAssumption DEF PlayAssumption, Upto, TypeOK, Drop
<1>7. /\ i \in Session /\ i.seen = c.seen /\ i.cur = c.cur /\ SameFile(i, c)
      /\ i.rated = c.rated /\ i.live = c.live /\ i.result = c.result /\ i.stars = c.stars
      /\ i.pp = c.pp
      /\ i.combo = g.combo /\ i.max = g.max /\ i.miss = g.miss /\ i.shownBreaks = i.breaks
  <2> DEFINE b == i.breaks
  <2>1. i = [c EXCEPT !.breaks = b, !.shownBreaks = b, !.combo = g.combo, !.max = g.max,
                      !.miss = g.miss]
    BY DEF Inferred, Session
  <2> HIDE DEF b, i
  <2>2. b \in Upto
    BY <1>6 DEF b
  <2>3. i \in Session
    BY <1>2, <2>1, <2>2, SessionWith
  <2>4. QED
    BY <2>1, <2>3 DEF Session
<1> HIDE DEF i
<1>8. e \in Session
  BY <1>2, <1>3, <1>7, SessionWith
<1>9. /\ e.seen = c.seen /\ e.cur = c.cur /\ SameFile(e, c)
      /\ e.rated = c.rated /\ e.live = c.live /\ e.result = c.result /\ e.stars = c.stars
      /\ e.pp = c.pp /\ e.combo = g.combo /\ e.max = g.max /\ e.miss = g.miss
      /\ e.breaks = i.breaks /\ e.shownBreaks = i.breaks
      /\ e.dirty /\ e.of = g /\ e.mods = g.mods
      /\ e.errors = errors /\ e.shownErrors = errors
  BY <1>7 DEF Session
<1> HIDE DEF e, errors
<1>10. map \in Maps
  BY DEF TypeOK
<1>11. /\ f \in Session /\ PlayFields(f) = PlayFields(e)
       /\ f.cur = e.cur /\ f.mods = e.mods /\ SameFile(f, e)
       /\ f.rated = e.rated /\ f.live = e.live /\ f.result = e.result /\ f.stars = e.stars
       /\ f.pp = e.pp
  <2>1. CASE f = e
    BY <1>8, <2>1
  <2>2. CASE f = [e EXCEPT !.leaderboard = map, !.listDue = FALSE]
    <3>1. f \in Session
      <4> DEFINE h == [e EXCEPT !.leaderboard = map]
      <4>1. h \in Session
        BY <1>8, <1>10, SessionWith
      <4> HIDE DEF h
      <4>2. [h EXCEPT !.listDue = FALSE] \in Session
        BY <4>1, SessionWith
      <4>3. QED
        BY <2>2, <4>2 DEF h
    <3>2. QED
      BY <1>8, <2>2, <3>1 DEF Session, PlayFields
  <2>3. QED
    BY <2>1, <2>2 DEF ListRead
<1> HIDE DEF f
<1>12. RatingsInv(f)
  BY <1>9, <1>11 DEF RatingsInv, LiveOfMap, ResultOfMap, RatedIfLoaded
<1>13. /\ d \in Session /\ PlayFields(d) = PlayFields(f) /\ RatingsInv(d)
       /\ d.cur = f.cur /\ d.mods = f.mods /\ SameFile(d, f) /\ d.rated = f.rated
       /\ d.loaded # None =>
            /\ d.pp = d.live /\ d.live \in Pp
            /\ d.live.counts = Counts(g) /\ d.live.mods = g.mods
       /\ LiveInStep(d) \/ (d.live = f.live /\ d.stars = f.stars)
  BY <1>11, <1>12, LiveRatedKeeps
<1> HIDE DEF d
<1>14. /\ d.seen = "play" /\ d.dirty /\ d.of = g /\ d.errors = errors
       /\ d.combo = g.combo /\ d.max = g.max /\ d.miss = g.miss /\ d.breaks = i.breaks
       /\ d.shownErrors = errors /\ d.shownBreaks = i.breaks
  BY <1>9, <1>11, <1>13 DEF PlayFields
<1>15. PlayIsDirty(d) /\ ShownNumber(d) /\ ReadingIsShown(d)
  BY <1>14 DEF PlayIsDirty, ShownNumber, ReadingIsShown
<1>16. ~late => errors = IF g.hits = 0 THEN NoErrors ELSE [n |-> g.n, hits |-> g.hits]
  <2>1. c.errors = [n |-> c.errors.n, hits |-> c.errors.hits]
    BY SessionTypes DEF Errors
  <2>2. QED
    BY <2>1 DEF AttemptInv, ErrorsOfAttempt, Fresh, ErrorsRead, errors
<1>17. ErrorsOfAttempt(d)
  BY <1>14, <1>16 DEF ErrorsOfAttempt, NoErrors
<1>18. BreaksBounded(d)
  BY <1>4, <1>5, <1>14 DEF BreaksBounded
<1>19. ~late => i.breaks <= g.broke + torn
  BY <1>4, <1>n DEF BreaksInv, BreaksOfAttempt, BreaksHold, Fresh, Drop
<1>20. BreaksHold(d, attempt.combo, TornBy(g))
  <2>1. CASE g = attempt
    BY <1>4, <1>14, <1>19, <2>1 DEF BreaksHold, TornBy
  <2>2. CASE g # attempt
    BY <1>4, <1>14, <1>19, <2>2 DEF BreaksHold, TornBy
  <2>3. QED
    BY <2>1, <2>2
<1>21. AttemptInv(d)
  BY <1>15, <1>17, <1>18 DEF AttemptInv
<1>22. QED
  BY <1>1, <1>9, <1>11, <1>13, <1>14, <1>16, <1>19, <1>20, <1>21 DEF i

-----------------------------------------------------------------------------
(* Reading a result, and the pp of the menu.                               *)

LEMMA ResultReadKeeps ==
  ASSUME TypeOK, AttemptCounts, state = "results",
         NEW c \in Session, c.seen = "results",
         AttemptInv(c), RatingsInv(c), NEW g \in GameplayRead
  PROVE  LET d == ResultRead(c, g)
         IN  /\ d \in Session /\ d.seen = "results" /\ d.cur = c.cur
             /\ d.of = g /\ d.mods = g.mods
             /\ AttemptInv(d) /\ RatingsInv(d)
             /\ SameFile(d, c) /\ d.live = c.live
             /\ d.loaded # None =>
                  /\ d.rated = g.mods
                  /\ d.pp = [kind |-> "result", map |-> d.loaded, mods |-> g.mods,
                             full |-> g.mods, counts |-> Counts(g)]
<1> USE GameNumbers, ReadAttempt
<1> DEFINE errors == [n |-> g.n, hits |-> g.hits]
           e == [c EXCEPT !.of = g, !.mods = g.mods, !.dirty = TRUE, !.shownErrors = errors]
           d == ResultRated(e, g)
<1>1. ResultRead(c, g) = d
  BY DEF ResultRead
<1>2. errors \in Errors /\ g.mods \in Mods /\ g.mods # None
      /\ Counts(g) \in Upto \X Upto \X Upto
  BY NoneAssumption DEF Errors, Attempt, Counts, NoneAssumption
<1> HIDE DEF errors
<1>3. e \in Session
  BY <1>2, SessionWith
<1>4. /\ e.seen = c.seen /\ e.cur = c.cur /\ SameFile(e, c) /\ e.rated = c.rated
      /\ e.live = c.live /\ e.result = c.result /\ e.combo = c.combo /\ e.max = c.max
      /\ e.miss = c.miss /\ e.breaks = c.breaks /\ e.errors = c.errors
      /\ e.dirty /\ e.of = g /\ e.mods = g.mods /\ e.pp = c.pp
  BY DEF Session
<1> HIDE DEF e
<1>5. AttemptInv(e)
  BY <1>4 DEF AttemptInv, PlayIsDirty, ShownNumber, ReadingIsShown, ErrorsOfAttempt,
     BreaksBounded, BreaksOfAttempt
<1>6. RatingsInv(e)
  BY <1>4 DEF RatingsInv, LiveOfMap, ResultOfMap, RatedIfLoaded
<1>7. CASE e.loaded = None
  BY <1>1, <1>3, <1>4, <1>5, <1>6, <1>7 DEF ResultRated
<1>8. CASE e.loaded # None
  <2> DEFINE r == [kind |-> "result", map |-> e.loaded, mods |-> g.mods,
                   full |-> g.mods, counts |-> Counts(g)]
             pp == IF ResultIsDue(e, g) THEN r ELSE e.result
             h == IF e.rated # g.mods THEN [e EXCEPT !.rated = g.mods] ELSE e
             k == [h EXCEPT !.result = pp, !.pp = pp]
  <2>1. d = k
    BY <1>8 DEF ResultRated
  <2>2. r \in Pp /\ r # None
    BY <1>2, <1>3, <1>8, SessionTypes, NoneAssumption DEF Pp, NoneAssumption
  <2>3. pp = r
    <3>1. CASE ResultIsDue(e, g)
      BY <3>1
    <3>2. CASE ~ResultIsDue(e, g)
      <4>1. e.result \in Pp /\ e.result.counts = Counts(g) /\ e.result.mods = g.mods
        BY <1>3, <3>2, SessionTypes DEF ResultIsDue
      <4>2. e.result.kind = "result" /\ e.result.map = e.loaded /\ e.result.full = g.mods
        BY <1>6, <3>2, <4>1 DEF RatingsInv, ResultOfMap, ResultIsDue
      <4>3. e.result = r
        BY <4>1, <4>2 DEF Pp
      <4>4. QED
        BY <3>2, <4>3
    <3>3. QED
      BY <3>1, <3>2
  <2> HIDE DEF pp
  <2>4. /\ h \in Session /\ h.rated = g.mods /\ PlayFields(h) = PlayFields(e)
        /\ h.cur = e.cur /\ h.mods = e.mods /\ SameFile(h, e) /\ h.live = e.live
    <3>1. CASE e.rated # g.mods
      <4>1. h = [e EXCEPT !.rated = g.mods] /\ h \in Session
        BY <1>2, <1>3, <3>1, SessionWith
      <4>2. QED
        BY <1>3, <4>1 DEF Session, PlayFields
    <3>2. CASE e.rated = g.mods
      BY <1>3, <3>2
    <3>3. QED
      BY <3>1, <3>2
  <2> HIDE DEF h
  <2>5. k \in Session
    BY <2>2, <2>3, <2>4, SessionWith
  <2>6. /\ PlayFields(k) = PlayFields(h) /\ k.cur = h.cur /\ k.mods = h.mods
        /\ SameFile(k, h) /\ k.rated = h.rated /\ k.live = h.live
        /\ k.result = r /\ k.pp = r
    BY <2>3, <2>4 DEF Session, PlayFields
  <2> HIDE DEF k
  <2>7. AttemptInv(k)
    BY <1>3, <1>5, <2>4, <2>5, <2>6, SamePlay
  <2>8. e.loaded \notin Unreadable
    BY <1>6, <1>8 DEF RatingsInv, RatedIfLoaded
  <2>9. RatingsInv(k)
    BY <1>2, <1>6, <1>8, <2>4, <2>6, <2>8 DEF RatingsInv, LiveOfMap, ResultOfMap, RatedIfLoaded
  <2>10. k.seen = "results" /\ k.of = g
    BY <1>4, <2>4, <2>6 DEF PlayFields
  <2>11. QED
    BY <1>1, <1>4, <2>1, <2>4, <2>5, <2>6, <2>7, <2>9, <2>10
<1>9. QED
  BY <1>7, <1>8

(* IdleRated: outside plays and results the pp is that of the menu.        *)
LEMMA IdleRatedKeeps ==
  ASSUME NEW c \in Session, RatingsInv(c), AttemptInv(c),
         IdleIsShown(c) \/ c.cur \in {"play", "results"}
  PROVE  LET d == IdleRated(c)
         IN  /\ d \in Session /\ RatingsInv(d) /\ AttemptInv(d) /\ IdleIsShown(d)
             /\ PlayFields(d) = PlayFields(c)
             /\ d.cur = c.cur /\ d.mods = c.mods /\ SameFile(d, c) /\ d.rated = c.rated
             /\ d.live = c.live /\ d.stars = c.stars
             /\ c.cur \in {"play", "results"} \/ c.loaded = None => d.pp = c.pp
             /\ c.cur \notin {"play", "results"} /\ c.loaded # None =>
                  d.pp = IdlePp(c.loaded, c.mods)
<1>1. CASE c.cur \in {"play", "results"}
  <2> DEFINE d == [c EXCEPT !.idle = None]
  <2>1. IdleRated(c) = d
    BY <1>1 DEF IdleRated
  <2>2. d \in Session
    BY SessionWith
  <2>3. /\ PlayFields(d) = PlayFields(c) /\ d.cur = c.cur /\ d.mods = c.mods
        /\ SameFile(d, c) /\ d.rated = c.rated /\ d.live = c.live
        /\ d.result = c.result /\ d.stars = c.stars /\ d.idle = None /\ d.pp = c.pp
    BY DEF Session, PlayFields
  <2> HIDE DEF d
  <2>4. AttemptInv(d)
    BY <2>2, <2>3, SamePlay
  <2>5. RatingsInv(d) /\ IdleIsShown(d)
    BY <2>3 DEF RatingsInv, LiveOfMap, ResultOfMap, RatedIfLoaded, IdleIsShown
  <2>6. QED
    BY <1>1, <2>1, <2>2, <2>3, <2>4, <2>5
<1>2. CASE c.cur \notin {"play", "results"} /\ (c.loaded = None \/ c.idle = <<c.loaded, c.mods>>)
  <2>1. IdleRated(c) = c /\ IdleIsShown(c)
    BY <1>2 DEF IdleRated
  <2>2. ASSUME c.loaded # None
        PROVE  c.pp = IdlePp(c.loaded, c.mods)
    <3>1. c.idle \in Maps \X Mods /\ c.idle[1] = c.loaded /\ c.idle[2] = c.mods
      BY <1>2, <2>2, SessionTypes
    <3>2. c.idle # None
      BY <3>1, NoneAssumption DEF NoneAssumption
    <3>3. QED
      BY <2>1, <3>1, <3>2 DEF IdleIsShown
  <2>3. QED
    BY <1>2, <2>1, <2>2
<1>3. CASE c.cur \notin {"play", "results"} /\ c.loaded # None /\ c.idle # <<c.loaded, c.mods>>
  <2> DEFINE key == <<c.loaded, c.mods>>
             pp == IdlePp(c.loaded, c.mods)
             d == [c EXCEPT !.idle = key, !.pp = pp]
  <2>1. IdleRated(c) = d
    BY <1>3 DEF IdleRated, IdlePp
  <2>2. key \in Maps \X Mods /\ pp \in Pp
    BY <1>3, SessionTypes, Zeros DEF IdlePp, Pp
  <2>3. key[1] = c.loaded /\ key[2] = c.mods
    OBVIOUS
  <2> HIDE DEF key, pp
  <2>4. d \in Session
    BY <2>2, SessionWith
  <2>5. /\ PlayFields(d) = PlayFields(c) /\ d.cur = c.cur /\ d.mods = c.mods
        /\ SameFile(d, c) /\ d.rated = c.rated /\ d.live = c.live
        /\ d.result = c.result /\ d.stars = c.stars /\ d.idle = key /\ d.pp = pp
    BY DEF Session, PlayFields
  <2> HIDE DEF d
  <2>6. AttemptInv(d)
    BY <2>4, <2>5, SamePlay
  <2>7. RatingsInv(d) /\ IdleIsShown(d)
    BY <1>3, <2>3, <2>5 DEF RatingsInv, LiveOfMap, ResultOfMap, RatedIfLoaded, IdleIsShown, pp
  <2>8. QED
    BY <1>3, <2>1, <2>4, <2>5, <2>6, <2>7 DEF pp
<1>4. QED
  BY <1>1, <1>2, <1>3

-----------------------------------------------------------------------------
(* A whole poll.                                                           *)

Failing == {{}} \cup {{r} : r \in {"state", "mods", "map", "gone", "file", "ruleset"}}

(* The state of the game a poll goes by, and its stages: the state, the    *)
(* mods of the menu, the map, and the stars of a result.                   *)
Now(failed) == IF "state" \in failed THEN "menu" ELSE state
AfterState(failed) ==
  [(IF "state" \in failed THEN s ELSE StateRead(s, state)) EXCEPT !.cur = Now(failed)]
AfterMods(failed) ==
  LET c == AfterState(failed)
  IN  IF Now(failed) \in {"play", "results"} THEN c
      ELSE MenuRead(c, IF "mods" \in failed THEN c.mods ELSE menuMods)
AfterMap(failed, due) ==
  IF "map" \in failed THEN AfterMods(failed)
  ELSE IF "gone" \in failed THEN [AfterMods(failed) EXCEPT !.pinned = FALSE]
  ELSE MapRead(AfterMods(failed), map, map \notin Unreadable /\ due /\ "file" \notin failed)
AfterTotal(failed, due) ==
  IF Now(failed) # "results" THEN AfterMap(failed, due)
  ELSE [AfterMap(failed, due) EXCEPT !.stars = "total"]
AfterPlay(failed, g, due, elapsed) ==
  IF "ruleset" \in failed THEN AfterTotal(failed, due)
  ELSE IF Now(failed) = "play"    THEN PlayRead(AfterTotal(failed, due), g, elapsed)
  ELSE IF Now(failed) = "results" THEN ResultRead(AfterTotal(failed, due), g)
  ELSE AfterTotal(failed, due)

LEMMA PolledInStages ==
  ASSUME NEW failed \in Failing, NEW g, NEW due, NEW elapsed
  PROVE  Polled(failed, g, due, elapsed) = IdleRated(AfterPlay(failed, g, due, elapsed))
<1>1. CASE "state" \in failed
  BY <1>1 DEF Polled, AfterPlay, AfterTotal, AfterMap, AfterMods, AfterState, Now
<1>2. CASE "state" \notin failed
  BY <1>2 DEF Polled, AfterPlay, AfterTotal, AfterMap, AfterMods, AfterState, Now
<1>3. QED
  BY <1>1, <1>2

(* What is known after a stage that comes before the play is read.         *)
Staged(c, failed) ==
  /\ c \in Session /\ c.cur = Now(failed) /\ SeenIsCurrent(c)
  /\ AttemptInv(c) /\ BreaksInv(c) /\ RatingsInv(c) /\ IdleIsShown(c)
  /\ c.live \in {s.live, None}

LEMMA StateStage ==
  ASSUME Inv, NEW failed \in Failing
  PROVE  LET c == AfterState(failed)
         IN  /\ Staged(c, failed)
             /\ "state" \notin failed => c.seen = state
             /\ SameFile(c, s) /\ c.rated = s.rated /\ c.mods = s.mods /\ c.stars = s.stars
             /\ s.seen = "play" /\ Now(failed) = "play" => PlayFields(c) = PlayFields(s)
<1> DEFINE b == IF "state" \in failed THEN s ELSE StateRead(s, state)
           c == [b EXCEPT !.cur = Now(failed)]
<1>1. /\ b \in Session /\ AttemptInv(b) /\ BreaksInv(b) /\ RatingsInv(b) /\ IdleIsShown(b)
      /\ SameFile(b, s) /\ b.rated = s.rated /\ b.mods = s.mods
      /\ b.stars = s.stars /\ b.live \in {s.live, None}
      /\ "state" \notin failed => b.seen = state
      /\ s.seen = "play" /\ Now(failed) = "play" => b = s
  <2>1. s \in Session /\ TypeOK /\ AttemptCounts
    BY DEF Inv, TypeOK
  <2>2. CASE "state" \in failed
    BY <2>1, <2>2 DEF Inv
  <2>3. CASE "state" \notin failed
    <3>1. Now(failed) = state
      BY <2>3 DEF Now
    <3>2. QED
      BY <2>1, <2>3, <3>1, StateReadKeeps DEF Inv
  <2>4. QED
    BY <2>2, <2>3
<1> HIDE DEF b
<1>2. Now(failed) \in States
  BY DEF Now, Inv, TypeOK, States
<1>3. c \in Session
  BY <1>1, <1>2, SessionWith
<1>4. /\ PlayFields(c) = PlayFields(b) /\ c.cur = Now(failed) /\ c.seen = b.seen
      /\ SameFile(c, b) /\ c.rated = b.rated /\ c.mods = b.mods /\ c.stars = b.stars
      /\ c.live = b.live /\ c.result = b.result /\ c.idle = b.idle /\ c.pp = b.pp
  BY <1>1 DEF Session, PlayFields
<1> HIDE DEF c
<1>5. AttemptInv(c) /\ BreaksInv(c)
  BY <1>1, <1>3, <1>4, SamePlay
<1>6. RatingsInv(c) /\ IdleIsShown(c)
  BY <1>1, <1>4 DEF RatingsInv, LiveOfMap, ResultOfMap, RatedIfLoaded, IdleIsShown
<1>7. SeenIsCurrent(c)
  BY <1>1, <1>4 DEF SeenIsCurrent, Now
<1>8. c = AfterState(failed)
  BY DEF AfterState, b, c
<1>9. QED
  BY <1>1, <1>3, <1>4, <1>5, <1>6, <1>7, <1>8 DEF Staged

LEMMA ModsStage ==
  ASSUME Inv, NEW failed \in Failing
  PROVE  LET c == AfterMods(failed)
         IN  /\ Staged(c, failed)
             /\ "state" \notin failed => c.seen = state
             /\ SameFile(c, s)
             /\ c.mods \in {s.mods, menuMods}
             /\ Now(failed) \in {"play", "results"} => c.mods = s.mods
             /\ Now(failed) \notin {"play", "results"} /\ "mods" \notin failed =>
                  c.mods = menuMods
             /\ Now(failed) = "play" => c.rated = s.rated /\ c.stars = s.stars
             /\ s.seen = "play" /\ Now(failed) = "play" => PlayFields(c) = PlayFields(s)
<1> DEFINE b == AfterState(failed)
<1>1. /\ Staged(b, failed)
      /\ "state" \notin failed => b.seen = state
      /\ SameFile(b, s) /\ b.rated = s.rated /\ b.mods = s.mods /\ b.stars = s.stars
      /\ s.seen = "play" /\ Now(failed) = "play" => PlayFields(b) = PlayFields(s)
  BY StateStage
<1> HIDE DEF b
<1>2. CASE Now(failed) \in {"play", "results"}
  <2>1. AfterMods(failed) = b
    BY <1>2 DEF AfterMods, b
  <2>2. QED
    BY <1>1, <1>2, <2>1
<1>3. CASE Now(failed) \notin {"play", "results"}
  <2> DEFINE k == IF "mods" \in failed THEN b.mods ELSE menuMods
             d == MenuRead(b, k)
  <2>1. AfterMods(failed) = d
    BY <1>3 DEF AfterMods, b
  <2>2. k \in Mods
    BY <1>1, SessionTypes DEF Staged, Inv, TypeOK
  <2>k. k \in {s.mods, menuMods} /\ ("mods" \notin failed => k = menuMods)
    BY <1>1
  <2> HIDE DEF k
  <2>3. /\ d \in Session /\ d.mods = k /\ d.seen = b.seen /\ d.cur = b.cur
        /\ AttemptInv(d) /\ BreaksInv(d) /\ RatingsInv(d) /\ IdleIsShown(d)
        /\ SameFile(d, b) /\ d.live = b.live
    BY <1>1, <2>2, MenuReadKeeps DEF Staged
  <2> HIDE DEF d
  <2>4. Staged(d, failed)
    BY <1>1, <2>3 DEF Staged, SeenIsCurrent
  <2>5. QED
    BY <1>1, <1>3, <2>1, <2>k, <2>3, <2>4
<1>4. QED
  BY <1>2, <1>3

LEMMA MapStage ==
  ASSUME Inv, NEW failed \in Failing, NEW due \in BOOLEAN
  PROVE  LET c == AfterTotal(failed, due)
         IN  /\ Staged(c, failed)
             /\ "state" \notin failed => c.seen = state
             /\ Now(failed) \in {"play", "results"} => c.mods = s.mods
             /\ Now(failed) \notin {"play", "results"} /\ "mods" \notin failed =>
                  c.mods = menuMods
             /\ failed \cap {"map", "gone"} = {} =>
                  /\ MapIsLoaded(c)
                  /\ c.loaded # None => c.rated = c.mods
             /\ Now(failed) = "play" /\ ~slipped => LiveInStep(c)
             /\ s.seen = "play" /\ Now(failed) = "play" /\ c.loaded = s.loaded /\ c.loaded # None =>
                  PlayFields(c) = PlayFields(s)
<1>t. TypeOK /\ AttemptCounts /\ (~slipped => LiveInStep(s))
  BY DEF Inv
<1> DEFINE b == AfterMods(failed)
           c == AfterMap(failed, due)
           d == AfterTotal(failed, due)
<1>1. /\ Staged(b, failed)
      /\ "state" \notin failed => b.seen = state
      /\ SameFile(b, s)
      /\ Now(failed) \in {"play", "results"} => b.mods = s.mods
      /\ Now(failed) \notin {"play", "results"} /\ "mods" \notin failed => b.mods = menuMods
      /\ Now(failed) = "play" => b.rated = s.rated /\ b.stars = s.stars
      /\ s.seen = "play" /\ Now(failed) = "play" => PlayFields(b) = PlayFields(s)
  BY ModsStage
<1> HIDE DEF b
<1>2. /\ Staged(c, failed) /\ c.seen = b.seen /\ c.mods = b.mods
      /\ failed \cap {"map", "gone"} = {} =>
           /\ MapIsLoaded(c)
           /\ c.loaded # None => c.rated = c.mods
      /\ c.live # None => c.rated = b.rated /\ c.stars = b.stars
      /\ c.loaded = b.loaded /\ c.loaded # None => PlayFields(c) = PlayFields(b)
  <2>1. CASE "map" \in failed
    BY <1>1, <2>1 DEF AfterMap, b
  <2>2. CASE "map" \notin failed /\ "gone" \in failed
    <3>1. c = [b EXCEPT !.pinned = FALSE]
      BY <2>2 DEF AfterMap, b
    <3>2. c \in Session
      BY <1>1, <3>1, SessionWith DEF Staged
    <3>3. /\ PlayFields(c) = PlayFields(b) /\ c.cur = b.cur /\ c.seen = b.seen
          /\ c.mods = b.mods /\ c.loaded = b.loaded /\ c.checksum = b.checksum
          /\ c.pinned = FALSE /\ c.failed = b.failed /\ c.rated = b.rated /\ c.live = b.live
          /\ c.result = b.result /\ c.idle = b.idle /\ c.pp = b.pp /\ c.stars = b.stars
      BY <1>1, <3>1 DEF Staged, Session, PlayFields
    <3> HIDE DEF c
    <3>4. AttemptInv(c) /\ BreaksInv(c)
      BY <1>1, <3>2, <3>3, SamePlay DEF Staged
    <3>5. RatingsInv(c) /\ IdleIsShown(c) /\ SeenIsCurrent(c)
      BY <1>1, <3>3 DEF Staged, RatingsInv, LiveOfMap, ResultOfMap, RatedIfLoaded, IdleIsShown,
         SeenIsCurrent
    <3>6. Staged(c, failed)
      BY <1>1, <3>2, <3>3, <3>4, <3>5 DEF Staged
    <3>7. QED
      BY <2>2, <3>3, <3>6
  <2>3. CASE "map" \notin failed /\ "gone" \notin failed
    <3> DEFINE readable == map \notin Unreadable /\ due /\ "file" \notin failed
    <3>0. readable \in BOOLEAN /\ (readable => map \notin Unreadable)
      OBVIOUS
    <3>1. c = MapRead(b, map, readable)
      BY <2>3 DEF AfterMap, b
    <3> HIDE DEF readable
    <3>2. /\ c \in Session /\ c.seen = b.seen /\ c.cur = b.cur /\ c.mods = b.mods
          /\ AttemptInv(c) /\ BreaksInv(c) /\ RatingsInv(c) /\ IdleIsShown(c)
          /\ MapIsLoaded(c) /\ (c.loaded # None => c.rated = b.mods)
          /\ c.live \in {b.live, None}
          /\ c.live # None => c.rated = b.rated /\ c.stars = b.stars
          /\ c.loaded # None /\ c.loaded = b.loaded => PlayFields(c) = PlayFields(b)
      BY <1>t, <1>1, <3>0, <3>1, MapReadKeeps DEF Staged
    <3> HIDE DEF c
    <3>3. Staged(c, failed)
      BY <1>1, <3>2 DEF Staged, SeenIsCurrent
    <3>4. QED
      BY <3>2, <3>3
  <2>4. QED
    BY <2>1, <2>2, <2>3
<1> HIDE DEF c
<1>3. /\ Staged(d, failed) /\ d.seen = c.seen /\ d.mods = c.mods /\ SameFile(d, c)
      /\ d.rated = c.rated /\ d.pp = c.pp /\ d.live = c.live
      /\ Now(failed) = "play" => d = c
  <2>1. CASE Now(failed) # "results"
    BY <1>2, <2>1 DEF AfterTotal, c
  <2>2. CASE Now(failed) = "results"
    <3>1. d = [c EXCEPT !.stars = "total"]
      BY <2>2 DEF AfterTotal, c
    <3>2. d \in Session
      BY <1>2, <3>1, SessionWith DEF Staged
    <3>3. /\ PlayFields(d) = PlayFields(c) /\ d.cur = c.cur /\ d.seen = c.seen
          /\ d.mods = c.mods /\ SameFile(d, c) /\ d.rated = c.rated /\ d.live = c.live
          /\ d.result = c.result /\ d.idle = c.idle /\ d.pp = c.pp
      BY <1>2, <3>1 DEF Staged, Session, PlayFields
    <3> HIDE DEF d
    <3>4. AttemptInv(d) /\ BreaksInv(d)
      BY <1>2, <3>2, <3>3, SamePlay DEF Staged
    <3>5. RatingsInv(d) /\ IdleIsShown(d) /\ SeenIsCurrent(d)
      BY <1>2, <3>3 DEF Staged, RatingsInv, LiveOfMap, ResultOfMap, RatedIfLoaded, IdleIsShown,
         SeenIsCurrent
    <3>6. Staged(d, failed)
      BY <1>2, <3>2, <3>3, <3>4, <3>5 DEF Staged
    <3>7. QED
      BY <2>2, <3>3, <3>6
  <2>3. QED
    BY <2>1, <2>2
<1> HIDE DEF d
<1>4. ASSUME Now(failed) = "play", ~slipped
      PROVE  LiveInStep(d)
  BY <1>t, <1>1, <1>2, <1>3, <1>4 DEF LiveInStep, Staged
<1>5. QED
  BY <1>1, <1>2, <1>3, <1>4 DEF d, MapIsLoaded

(* What a poll shows of a play, and of a result, that it has read.         *)
PlayPolled(d, g) ==
  /\ d.of = g /\ d.mods = g.mods
  /\ d.loaded # None =>
       /\ d.pp = d.live /\ d.live \in Pp
       /\ d.live.counts = Counts(g) /\ d.live.mods = g.mods
  /\ ~late =>
       d.shownErrors = IF g.hits = 0 THEN NoErrors ELSE [n |-> g.n, hits |-> g.hits]
  /\ ~late => d.shownBreaks <= g.broke + torn
ResultPolled(d, g) ==
  /\ d.of = g /\ d.mods = g.mods
  /\ d.loaded # None =>
       /\ d.rated = g.mods
       /\ d.pp = [kind |-> "result", map |-> d.loaded, mods |-> g.mods,
                  full |-> g.mods, counts |-> Counts(g)]

(* A poll that does not read the play leaves less to be counted.           *)
LEMMA NotRead ==
  ASSUME TypeOK, NEW c \in Session, BreaksOfAttempt(c), NEW g
  PROVE  BreaksHold(c, attempt.combo, TornBy(g))
<1>t. torn \in Nat /\ attempt.broke \in Nat /\ c.breaks \in Nat
  BY GameNumbers, SessionTypes, Zeros
<1>b. TornBy(g) \in Nat /\ torn <= TornBy(g)
  <2>1. TornBy(g) \in {torn, torn + 1}
    BY DEF TornBy
  <2>2. QED
    BY <1>t, <2>1
<1> DEFINE k == TornBy(g)
<1> HIDE DEF k
<1>1. k \in Nat /\ torn <= k
  BY <1>b DEF k
<1>2. BreaksHold(c, attempt.combo, k)
  BY <1>t, <1>1 DEF BreaksOfAttempt, BreaksHold
<1>3. QED
  BY <1>2 DEF k

LEMMA PlayStage ==
  ASSUME Inv, NEW failed \in Failing, NEW g \in GameplayRead, NEW due \in BOOLEAN,
         NEW elapsed \in BOOLEAN
  PROVE  LET c == AfterTotal(failed, due)
             d == AfterPlay(failed, g, due, elapsed)
         IN  /\ d \in Session /\ d.cur = Now(failed) /\ SeenIsCurrent(d)
             /\ AttemptInv(d) /\ RatingsInv(d)
             /\ BreaksHold(d, attempt.combo, TornBy(g))
             /\ IdleIsShown(d) \/ d.cur \in {"play", "results"}
             /\ "state" \notin failed => d.seen = state
             /\ SameFile(d, c)
             /\ d.live # s.live \/ (Now(failed) = "play" /\ ~slipped) => LiveInStep(d)
             /\ "ruleset" \in failed \/ Now(failed) \notin {"play", "results"} => d = c
             /\ "ruleset" \notin failed /\ Now(failed) = "play" =>
                  /\ PlayPolled(d, g) /\ d.rated = c.rated
                  /\ d.shownBreaks = Inferred(c, g).breaks
             /\ "ruleset" \notin failed /\ Now(failed) = "results" => ResultPolled(d, g)
<1>t. TypeOK /\ AttemptCounts
  BY DEF Inv
<1> DEFINE c == AfterTotal(failed, due)
           d == AfterPlay(failed, g, due, elapsed)
<1>1. /\ Staged(c, failed)
      /\ "state" \notin failed => c.seen = state
      /\ Now(failed) = "play" /\ ~slipped => LiveInStep(c)
  BY MapStage
<1>2. /\ c \in Session /\ c.cur = Now(failed) /\ SeenIsCurrent(c)
      /\ AttemptInv(c) /\ BreaksInv(c) /\ RatingsInv(c) /\ IdleIsShown(c)
      /\ c.live \in {s.live, None}
  BY <1>1 DEF Staged
<1>3. c.live # s.live => LiveInStep(c)
  BY <1>2 DEF LiveInStep
<1>4. CASE "ruleset" \in failed \/ Now(failed) \notin {"play", "results"}
  <2>1. d = c
    BY <1>4 DEF AfterPlay
  <2>2. BreaksHold(d, attempt.combo, TornBy(g))
    BY <1>t, <1>2, <2>1, NotRead DEF BreaksInv
  <2>3. QED
    BY <1>1, <1>2, <1>3, <1>4, <2>1, <2>2
<1>5. CASE "ruleset" \notin failed /\ Now(failed) = "play"
  <2>1. d = PlayRead(c, g, elapsed)
    BY <1>5 DEF AfterPlay
  <2>2. state = "play" /\ c.seen = "play"
    BY <1>2, <1>5 DEF Now, SeenIsCurrent
  <2> HIDE DEF c
  <2>3. /\ d \in Session /\ d.seen = "play" /\ d.cur = c.cur
        /\ d.of = g /\ d.mods = g.mods
        /\ AttemptInv(d) /\ RatingsInv(d)
        /\ SameFile(d, c) /\ d.rated = c.rated
        /\ d.loaded # None =>
             /\ d.pp = d.live /\ d.live \in Pp
             /\ d.live.counts = Counts(g) /\ d.live.mods = g.mods
        /\ LiveInStep(d) \/ (d.live = c.live /\ d.stars = c.stars)
        /\ ~late =>
             d.shownErrors = IF g.hits = 0 THEN NoErrors ELSE [n |-> g.n, hits |-> g.hits]
        /\ ~late => d.shownBreaks <= g.broke + torn
        /\ BreaksHold(d, attempt.combo, TornBy(g))
        /\ d.shownBreaks = Inferred(c, g).breaks
    BY <1>t, <1>2, <2>1, <2>2, PlayReadKeeps
  <2> HIDE DEF d
  <2>4. PlayPolled(d, g)
    BY <2>3 DEF PlayPolled
  <2>5. d.live # s.live \/ ~slipped => LiveInStep(d)
    BY <1>1, <1>3, <1>5, <2>3 DEF LiveInStep
  <2>6. SeenIsCurrent(d)
    BY <1>2, <1>5, <2>3 DEF SeenIsCurrent
  <2>7. QED
    BY <1>2, <1>5, <2>2, <2>3, <2>4, <2>5, <2>6 DEF c, d
<1>6. CASE "ruleset" \notin failed /\ Now(failed) = "results"
  <2>1. d = ResultRead(c, g)
    BY <1>6 DEF AfterPlay
  <2>2. state = "results" /\ c.seen = "results"
    BY <1>2, <1>6 DEF Now, SeenIsCurrent
  <2> HIDE DEF c
  <2>3. /\ d \in Session /\ d.seen = "results" /\ d.cur = c.cur
        /\ d.of = g /\ d.mods = g.mods
        /\ AttemptInv(d) /\ RatingsInv(d)
        /\ SameFile(d, c) /\ d.live = c.live
        /\ d.loaded # None =>
             /\ d.rated = g.mods
             /\ d.pp = [kind |-> "result", map |-> d.loaded, mods |-> g.mods,
                        full |-> g.mods, counts |-> Counts(g)]
    BY <1>t, <1>2, <2>1, <2>2, ResultReadKeeps
  <2> HIDE DEF d
  <2>4. ResultPolled(d, g)
    BY <2>3 DEF ResultPolled
  <2>5. d.live # s.live => LiveInStep(d)
    BY <1>2, <2>3 DEF LiveInStep
  <2>6. SeenIsCurrent(d)
    BY <1>2, <1>6, <2>3 DEF SeenIsCurrent
  <2>7. BreaksHold(d, attempt.combo, TornBy(g))
    BY <2>2 DEF BreaksHold
  <2>8. QED
    BY <1>2, <1>6, <2>2, <2>3, <2>4, <2>5, <2>6, <2>7 DEF c, d
<1>7. QED
  BY <1>4, <1>5, <1>6

(* The whole poll: what it keeps, whichever reads fail.                    *)
LEMMA PollKeeps ==
  ASSUME Inv, NEW failed \in Failing, NEW g \in GameplayRead, NEW due \in BOOLEAN,
         NEW elapsed \in BOOLEAN
  PROVE  LET c == AfterPlay(failed, g, due, elapsed)
             d == Polled(failed, g, due, elapsed)
         IN  /\ d \in Session /\ d.cur = Now(failed) /\ SeenIsCurrent(d)
             /\ AttemptInv(d) /\ RatingsInv(d) /\ IdleIsShown(d)
             /\ BreaksHold(d, attempt.combo, TornBy(g))
             /\ "state" \notin failed => d.seen = state
             /\ d.live # s.live \/ (Now(failed) = "play" /\ ~slipped) => LiveInStep(d)
             /\ SameFile(d, c) /\ d.rated = c.rated /\ d.mods = c.mods
             /\ d.live = c.live /\ PlayFields(d) = PlayFields(c)
             /\ Now(failed) \in {"play", "results"} \/ d.loaded = None => d.pp = c.pp
             /\ Now(failed) \notin {"play", "results"} /\ d.loaded # None =>
                  d.pp = IdlePp(d.loaded, d.mods)
<1> DEFINE c == AfterPlay(failed, g, due, elapsed)
           d == Polled(failed, g, due, elapsed)
<1>1. /\ c \in Session /\ c.cur = Now(failed) /\ SeenIsCurrent(c)
      /\ AttemptInv(c) /\ RatingsInv(c)
      /\ BreaksHold(c, attempt.combo, TornBy(g))
      /\ IdleIsShown(c) \/ c.cur \in {"play", "results"}
      /\ "state" \notin failed => c.seen = state
      /\ c.live # s.live \/ (Now(failed) = "play" /\ ~slipped) => LiveInStep(c)
  BY PlayStage
<1>2. d = IdleRated(c)
  BY PolledInStages
<1> HIDE DEF c, d
<1>3. /\ d \in Session /\ RatingsInv(d) /\ AttemptInv(d) /\ IdleIsShown(d)
      /\ PlayFields(d) = PlayFields(c)
      /\ d.cur = c.cur /\ d.mods = c.mods /\ SameFile(d, c) /\ d.rated = c.rated
      /\ d.live = c.live /\ d.stars = c.stars
      /\ c.cur \in {"play", "results"} \/ c.loaded = None => d.pp = c.pp
      /\ c.cur \notin {"play", "results"} /\ c.loaded # None => d.pp = IdlePp(c.loaded, c.mods)
  BY <1>1, <1>2, IdleRatedKeeps
<1>4. d.seen = c.seen
  BY <1>3 DEF PlayFields
<1>5. SeenIsCurrent(d) /\ (LiveInStep(c) => LiveInStep(d))
  BY <1>1, <1>3, <1>4 DEF SeenIsCurrent, LiveInStep
<1>6. BreaksHold(d, attempt.combo, TornBy(g))
  <2> DEFINE k == TornBy(g)
  <2> HIDE DEF k
  <2>1. BreaksHold(c, attempt.combo, k)
    BY <1>1 DEF k
  <2>2. d.breaks = c.breaks /\ d.miss = c.miss /\ d.combo = c.combo /\ d.of = c.of
    BY <1>3 DEF PlayFields
  <2>3. BreaksHold(d, attempt.combo, k)
    BY <2>1, <2>2 DEF BreaksHold, Fresh
  <2>4. QED
    BY <2>3 DEF k
<1>7. QED
  BY <1>1, <1>3, <1>4, <1>5, <1>6 DEF c, d

-----------------------------------------------------------------------------
(* What the poll shows when every read of it succeeds.                     *)


LEMMA CalmPoll ==
  ASSUME Inv, NEW g \in GameplayRead, NEW due \in BOOLEAN,
         NEW elapsed \in BOOLEAN
  PROVE  LET d == Polled({}, g, due, elapsed)
         IN  /\ d.seen = state /\ d.cur = state /\ d.mods = ShownMods
             /\ MapIsLoaded(d)
             /\ state = "play" => PlayPolled(d, g)
             /\ state = "results" => ResultPolled(d, g)
             /\ state = "play" /\ d.loaded # None => d.rated = s.mods
             /\ state \notin {"play", "results"} /\ d.loaded # None => d.rated = d.mods
             /\ state \notin {"play", "results"} =>
                  d.pp = IF d.loaded = None THEN None ELSE IdlePp(d.loaded, d.mods)
<1> DEFINE c == AfterTotal({}, due)
           e == AfterPlay({}, g, due, elapsed)
           d == Polled({}, g, due, elapsed)
<1>f. {} \in Failing /\ Now({}) = state
  BY DEF Failing, Now
<1>1. /\ state \in {"play", "results"} => c.mods = s.mods
      /\ state \notin {"play", "results"} => c.mods = menuMods
      /\ MapIsLoaded(c)
      /\ c.loaded # None => c.rated = c.mods
  BY <1>f, MapStage
<1>2. /\ SameFile(e, c)
      /\ state \notin {"play", "results"} => e = c
      /\ state = "play" => PlayPolled(e, g) /\ e.rated = c.rated
      /\ state = "results" => ResultPolled(e, g)
  BY <1>f, PlayStage
<1>3. /\ d.cur = state /\ d.seen = state
      /\ SameFile(d, e) /\ d.rated = e.rated /\ d.mods = e.mods
      /\ d.live = e.live /\ PlayFields(d) = PlayFields(e)
      /\ state \in {"play", "results"} \/ d.loaded = None => d.pp = e.pp
      /\ state \notin {"play", "results"} /\ d.loaded # None => d.pp = IdlePp(d.loaded, d.mods)
      /\ d.loaded = None => d.pp = None
  BY <1>f, PollKeeps DEF RatingsInv, RatedIfLoaded
<1>4. d.of = e.of /\ d.shownErrors = e.shownErrors /\ d.shownBreaks = e.shownBreaks
  BY <1>3 DEF PlayFields
<1>5. g.mods = attempt.mods
  BY ReadAttempt DEF Inv
<1> HIDE DEF c, d, e
<1>6. state = "play" => PlayPolled(d, g)
  BY <1>2, <1>3, <1>4 DEF PlayPolled
<1>7. state = "results" => ResultPolled(d, g)
  BY <1>2, <1>3, <1>4 DEF ResultPolled
<1>8. d.mods = ShownMods
  BY <1>1, <1>2, <1>3, <1>5, <1>6, <1>7 DEF ShownMods, PlayPolled, ResultPolled
<1>9. MapIsLoaded(d)
  BY <1>1, <1>2, <1>3 DEF MapIsLoaded
<1>10. QED
  BY <1>1, <1>2, <1>3, <1>6, <1>7, <1>8, <1>9 DEF d

(* A break the poll could have seen is counted, whichever reads fail.      *)
LEMMA PollCountsBreaks ==
  ASSUME Inv, NEW failed \in Failing, NEW g \in GameplayRead, NEW due \in BOOLEAN,
         NEW elapsed \in BOOLEAN,
         NEW m \in Maps, s' = Polled(failed, g, due, elapsed)
  PROVE  BreakIsCounted(m)
<1> DEFINE c == AfterTotal(failed, due)
           e == AfterPlay(failed, g, due, elapsed)
<1> SUFFICES ASSUME s.cur = "play", s'.cur = "play", s.loaded = m, s'.loaded = m,
                    s.of # None, s'.of # None, s'.of.n = s.of.n,
                    s'.of.combo < s.of.combo, s'.of.miss = s.of.miss
             PROVE  s'.shownBreaks = s.shownBreaks + 1
  BY DEF BreakIsCounted
<1>t. TypeOK /\ AttemptCounts /\ s \in Session /\ m # None
  BY NoneAssumption DEF Inv, TypeOK, NoneAssumption
<1>1. s'.cur = Now(failed) /\ SameFile(s', e) /\ PlayFields(s') = PlayFields(e)
  BY PollKeeps
<1>2. Now(failed) = "play" /\ state = "play" /\ s.seen = "play"
  BY <1>1 DEF Now, Inv, SeenIsCurrent
<1>3. /\ c \in Session /\ AttemptInv(c)
      /\ c.loaded = s.loaded /\ c.loaded # None => PlayFields(c) = PlayFields(s)
  BY <1>2, MapStage DEF Staged
<1>4. /\ SameFile(e, c)
      /\ "ruleset" \in failed => e = c
      /\ "ruleset" \notin failed =>
           PlayPolled(e, g) /\ e.shownBreaks = Inferred(c, g).breaks
  BY <1>2, PlayStage
<1> HIDE DEF c, e
<1>5. PlayFields(c) = PlayFields(s)
  BY <1>t, <1>1, <1>3, <1>4
<1>6. /\ s'.of = e.of /\ s'.shownBreaks = e.shownBreaks
      /\ c.of = s.of /\ c.combo = s.combo /\ c.max = s.max /\ c.miss = s.miss
      /\ c.breaks = s.breaks
  BY <1>1, <1>5 DEF PlayFields
<1>7. s.of \in Attempt /\ s.of.combo \in Nat
  BY <1>t, SessionTypes, Zeros DEF Attempt
<1>8. "ruleset" \notin failed
  BY <1>4, <1>6, <1>7
<1>9. s'.of = g /\ s'.shownBreaks = Inferred(c, g).breaks
  BY <1>4, <1>6, <1>8 DEF PlayPolled
<1>10. g \in Attempt /\ g.n = attempt.n /\ g.max = attempt.max /\ g.combo <= g.max
  BY <1>t, ReadAttempt
<1>11. /\ s.combo = s.of.combo /\ s.max = s.of.max /\ s.miss = s.of.miss
       /\ s.breaks = s.shownBreaks /\ s.of.combo <= s.of.max /\ s.of.max <= attempt.max
  BY <1>2, <1>9, <1>10 DEF Inv, AttemptInv, ReadingIsShown
<1>12. s.of.max \in Nat /\ attempt.max \in Nat
  BY <1>t, <1>7, GameNumbers, Zeros DEF Attempt
<1>13. /\ c.max <= g.max /\ c.combo <= g.max /\ g.combo < c.combo /\ g.miss = c.miss
  BY <1>6, <1>7, <1>9, <1>10, <1>11, <1>12
<1>14. c.max = 0 => c.breaks = 0
  BY <1>3 DEF AttemptInv, BreaksBounded
<1>15. Inferred(c, g).breaks = c.breaks + 1
  BY <1>3, <1>10, <1>13, <1>14, InferredBreaks
<1>16. QED
  BY <1>6, <1>9, <1>11, <1>15

-----------------------------------------------------------------------------
(* What a poll preserves, and what it shows.                               *)

(* All that is proved of a state.                                          *)
Promised ==
  /\ Inv /\ PpAgrees /\ NothingLeaks /\ SettlesInTwoPolls
  /\ ShownIsTheAttempt

LEMMA PollPreserves ==
  ASSUME Promised, Poll
  PROVE  /\ Promised'
         /\ \A m \in Maps : BreakIsCounted(m)
<1>i. /\ Inv /\ TypeOK /\ AttemptCounts /\ s \in Session /\ SeenIsCurrent(s)
      /\ AttemptInv(s) /\ (~slipped => LiveInStep(s)) /\ CalmIsCurrent
  BY DEF Promised, Inv, TypeOK
<1>1. PICK failed \in Failing, g \in GameplayRead, due \in BOOLEAN, elapsed \in BOOLEAN :
        /\ failures' = (IF failed = {} THEN failures ELSE failures + 1)
        /\ failed # {} => failures < MaxFailures
        /\ s' = Polled(failed, g, due, elapsed)
        /\ calm' = (IF failed # {} THEN 0 ELSE IF calm = 2 THEN 2 ELSE calm + 1)
        /\ slipped' = (s'.live = s.live /\ (slipped \/ s'.cur # "play"))
        /\ was' = attempt.combo /\ torn' = TornBy(g)
        /\ UNCHANGED <<state, map, menuMods, attempt, moves, late>>
  BY DEF Poll, Failing, TornBy
<1>u. /\ state' = state /\ map' = map /\ menuMods' = menuMods /\ attempt' = attempt
      /\ moves' = moves /\ late' = late
  BY <1>1
<1>2. /\ s' \in Session /\ s'.cur = Now(failed) /\ SeenIsCurrent(s')
      /\ AttemptInv(s') /\ RatingsInv(s') /\ IdleIsShown(s')
      /\ BreaksHold(s', attempt.combo, TornBy(g))
      /\ s'.live # s.live \/ (Now(failed) = "play" /\ ~slipped) => LiveInStep(s')
  BY <1>i, <1>1, PollKeeps
<1>w. /\ torn \in Nat /\ torn' \in Nat /\ torn <= torn' /\ torn' <= moves /\ moves \in Nat
  <2>1. g # attempt => was # attempt.combo
    BY <1>i, ReadAttempt
  <2>2. QED
    BY <1>i, <1>1, <2>1, GameNumbers DEF TornBy, AttemptCounts
<1>3. ~slipped' => LiveInStep(s')
  BY <1>1, <1>2
<1>4. failed = {} =>
        /\ s'.seen = state /\ s'.cur = state /\ s'.mods = ShownMods /\ MapIsLoaded(s')
        /\ state = "play" => PlayPolled(s', g)
        /\ state = "results" => ResultPolled(s', g)
        /\ state = "play" /\ s'.loaded # None => s'.rated = s.mods
        /\ state \notin {"play", "results"} /\ s'.loaded # None => s'.rated = s'.mods
        /\ state \notin {"play", "results"} =>
             s'.pp = IF s'.loaded = None THEN None ELSE IdlePp(s'.loaded, s'.mods)
  BY <1>i, <1>1, CalmPoll
<1>5. calm' > 0 => failed = {}
  BY <1>1
<1>6. calm' = 2 => calm > 0
  BY <1>1, <1>i DEF TypeOK
<1>7. Inv'
  <2>t. torn' \in Upto
    BY <1>i, <1>w, PlayAssumption DEF TypeOK, Upto, PlayAssumption
  <2>1. TypeOK'
    BY <1>i, <1>1, <1>u, <1>2, <2>t, PlayAssumption DEF TypeOK, PlayAssumption, Attempt
  <2>2. AttemptCounts'
    BY <1>i, <1>1, <1>u, <1>w, GameNumbers DEF AttemptCounts
  <2>3. RatingsInv(s)' /\ IdleIsShown(s)' /\ SeenIsCurrent(s)' /\ (~slipped => LiveInStep(s))'
    BY <1>2, <1>3 DEF RatingsInv, LiveOfMap, ResultOfMap, RatedIfLoaded, IdleIsShown,
       SeenIsCurrent, LiveInStep
  <2>4. AttemptInv(s)'
    BY <1>2, <1>u DEF AttemptInv, PlayIsDirty, ShownNumber, ReadingIsShown, ErrorsOfAttempt,
       BreaksBounded, BreaksOfAttempt, Fresh
  <2>5. BreaksInv(s)'
    <3>1. s'.breaks \in Nat
      BY <1>2, SessionTypes, Zeros
    <3>2. BreaksBoundedTorn(s)'
      BY <1>i, <1>1, <1>u, <1>2, <3>1, GameNumbers DEF AttemptInv, BreaksBounded,
         BreaksBoundedTorn, Drop
    <3>3. BreaksHold(s', attempt.combo, torn')
      BY <1>1, <1>2
    <3>4. BreaksOfAttempt(s)'
      BY <1>1, <1>u, <3>3 DEF BreaksOfAttempt, BreaksHold, Fresh
    <3>5. QED
      BY <3>2, <3>4 DEF BreaksInv
  <2>6. CalmIsCurrent'
    BY <1>1, <1>u, <1>4, <1>5 DEF CalmIsCurrent, ShownMods, MapIsLoaded
  <2>7. QED
    BY <2>1, <2>2, <2>3, <2>4, <2>5, <2>6 DEF Inv
<1>8. PpAgrees'
  <2>1. LiveAgrees'
    <3> SUFFICES ASSUME calm' > 0, s'.cur = "play", s'.loaded # None
                 PROVE  /\ s'.pp.kind = "live" /\ s'.pp.counts = Counts(s'.of)
                        /\ s'.pp.mods = s'.mods /\ s'.pp.map = s'.loaded
                        /\ ~slipped' =>
                             /\ s'.pp.full # s'.mods => s'.rated # s'.mods
                             /\ s'.stars = IF s'.of.hits = 0 THEN None
                                           ELSE <<s'.loaded, s'.mods, s'.of.hits>>
      BY DEF LiveAgrees
    <3>1. state = "play" /\ PlayPolled(s', g)
      BY <1>4, <1>5
    <3>2. /\ s'.of = g /\ s'.mods = g.mods /\ s'.pp = s'.live /\ s'.live \in Pp
          /\ s'.live.counts = Counts(g) /\ s'.live.mods = g.mods
      BY <3>1 DEF PlayPolled
    <3>3. s'.live # None
      BY <3>2, NoneAssumption DEF NoneAssumption
    <3>4. s'.live.kind = "live" /\ s'.live.map = s'.loaded
      BY <1>2, <3>3 DEF RatingsInv, LiveOfMap
    <3>5. Counts(g)[2] = g.hits
      BY DEF Counts
    <3>6. ~slipped' => s'.live.full = s'.rated /\ s'.stars = StarsOf(s'.live)
      BY <1>3, <3>3 DEF LiveInStep
    <3>7. QED
      BY <3>2, <3>4, <3>5, <3>6 DEF StarsOf
  <2>2. ResultAgrees'
    BY <1>4, <1>5 DEF ResultAgrees, ResultPolled
  <2>3. QED
    BY <2>1, <2>2 DEF PpAgrees
<1>9. NothingLeaks'
  <2> SUFFICES ASSUME calm' > 0, s'.cur = "select"
               PROVE  /\ s'.of = None /\ s'.shownErrors = NoErrors /\ s'.shownBreaks = 0
                      /\ s'.pp = IF s'.loaded = None THEN None ELSE IdlePp(s'.loaded, s'.mods)
    BY DEF NothingLeaks, IdlePp
  <2>1. state = "select" /\ s'.seen = "select"
    BY <1>4, <1>5
  <2>2. QED
    BY <1>2, <1>4, <1>5, <2>1 DEF AttemptInv, PlayIsDirty
<1>10. SettlesInTwoPolls'
  <2> SUFFICES ASSUME calm' = 2
               PROVE  /\ s'.seen = state /\ s'.cur = state
                      /\ MapIsLoaded(s')
                      /\ IF state \in {"play", "results"}
                         THEN s'.of = attempt /\ s'.mods = attempt.mods
                         ELSE s'.mods = menuMods
                      /\ s'.loaded # None =>
                           /\ s'.rated = s'.mods
                           /\ s'.pp.full # s'.mods => s'.cur = "play" /\ slipped'
    BY <1>u DEF SettlesInTwoPolls, MapIsLoaded
  <2>1. failed = {} /\ s.mods = ShownMods /\ was = attempt.combo
    BY <1>i, <1>5, <1>6 DEF CalmIsCurrent
  <2>2. g = attempt
    BY <1>i, <2>1, ReadAttempt
  <2>3. CASE state = "play"
    <3>1. PlayPolled(s', g) /\ s'.mods = ShownMods
      BY <1>4, <2>1, <2>3
    <3>2. s'.of = attempt /\ s'.mods = attempt.mods
      BY <2>2, <2>3, <3>1 DEF PlayPolled, ShownMods
    <3>3. s'.loaded # None => s'.rated = s'.mods
      BY <1>4, <2>1, <2>3, <3>1
    <3>4. ASSUME s'.loaded # None, ~slipped'
          PROVE  s'.pp.full = s'.mods
      <4>1. s'.pp = s'.live /\ s'.live # None
        BY <3>1, <3>4, NoneAssumption DEF PlayPolled, NoneAssumption
      <4>2. s'.live.full = s'.rated
        BY <1>3, <3>4, <4>1 DEF LiveInStep
      <4>3. QED
        BY <3>3, <3>4, <4>1, <4>2
    <3>5. slipped' \in BOOLEAN
      BY <1>7 DEF Inv, TypeOK
    <3>6. QED
      BY <1>4, <2>1, <2>3, <3>2, <3>3, <3>4
  <2>4. CASE state = "results"
    BY <1>4, <2>1, <2>2, <2>4 DEF ResultPolled
  <2>5. CASE state \notin {"play", "results"}
    BY <1>4, <2>1, <2>5 DEF ShownMods, IdlePp
  <2>6. QED
    BY <2>3, <2>4, <2>5
<1>11. ShownIsTheAttempt'
  <2> SUFFICES ASSUME calm' > 0, s'.cur = "play", ~late'
               PROVE  /\ s'.shownErrors = IF s'.of.hits = 0 THEN NoErrors
                                          ELSE [n |-> s'.of.n, hits |-> s'.of.hits]
                      /\ s'.shownBreaks <= s'.of.broke + torn'
    BY DEF ShownIsTheAttempt
  <2>1. PlayPolled(s', g)
    BY <1>4, <1>5
  <2>2. s'.shownBreaks \in Nat /\ g.broke \in Nat
    BY <1>2, <1>i, SessionTypes, ReadAttempt, GameNumbers, Zeros
  <2>3. QED
    BY <1>u, <1>w, <2>1, <2>2 DEF PlayPolled
<1>12. \A m \in Maps : BreakIsCounted(m)
  BY <1>i, <1>1, PollCountsBreaks
<1>13. QED
  BY <1>7, <1>8, <1>9, <1>10, <1>11, <1>12 DEF Promised

-----------------------------------------------------------------------------
(* What the moves of the game preserve.                                    *)

(* A move of the game unsettles the session: what is shown after a poll of *)
(* which nothing failed is asked of it again when the next poll has ended. *)
LEMMA MoveUnsettles ==
  ASSUME TypeOK, GameMoves
  PROVE  /\ s' = s /\ slipped' = slipped /\ failures' = failures /\ calm' = 0
         /\ moves' = moves + 1 /\ moves < MaxMoves
         /\ PpAgrees' /\ NothingLeaks' /\ SettlesInTwoPolls' /\ ShownIsTheAttempt'
         /\ CalmIsCurrent'
         /\ \A m \in Maps : BreakIsCounted(m)
<1>1. /\ s' = s /\ slipped' = slipped /\ failures' = failures /\ calm' = 0
      /\ moves' = moves + 1 /\ moves < MaxMoves
  BY DEF GameMoves
<1>2. PpAgrees' /\ NothingLeaks' /\ SettlesInTwoPolls' /\ ShownIsTheAttempt' /\ CalmIsCurrent'
  BY <1>1 DEF PpAgrees, LiveAgrees, ResultAgrees, NothingLeaks, SettlesInTwoPolls,
     ShownIsTheAttempt, CalmIsCurrent
<1>3. ASSUME NEW m \in Maps
      PROVE  BreakIsCounted(m)
  <2>1. s.of # None => s.of.combo \in Nat
    BY SessionTypes, Zeros DEF TypeOK, Attempt
  <2>2. QED
    BY <1>1, <2>1 DEF BreakIsCounted
<1>4. QED
  BY <1>1, <1>2, <1>3

(* What does not mention the game, and the bounds that grow with moves.    *)
LEMMA MoveKeeps ==
  ASSUME Inv, GameMoves, TypeOK', AttemptCounts', ReadingIsShown(s)', ErrorsOfAttempt(s)',
         BreaksOfAttempt(s)', attempt.n <= attempt'.n,
         Drop(s.combo, was') + Drop(was', attempt'.combo)
           <= Drop(s.combo, attempt.combo) + 1
  PROVE  Inv'
<1>1. /\ s' = s /\ slipped' = slipped /\ moves' = moves + 1 /\ CalmIsCurrent'
  BY MoveUnsettles DEF Inv
<1>2. RatingsInv(s)' /\ IdleIsShown(s)' /\ SeenIsCurrent(s)' /\ (~slipped => LiveInStep(s))'
  BY <1>1 DEF Inv, RatingsInv, LiveOfMap, ResultOfMap, RatedIfLoaded, IdleIsShown,
     SeenIsCurrent, LiveInStep, StarsOf
<1>3. PlayIsDirty(s)'
  BY <1>1 DEF Inv, AttemptInv, PlayIsDirty
<1>4. ShownNumber(s)'
  <2>1. /\ s.of # None => s.of.n \in Nat
        /\ attempt.n \in Nat /\ attempt'.n \in Nat
    BY SessionTypes, Zeros, GameNumbers DEF Inv, TypeOK, Attempt
  <2>2. QED
    BY <1>1, <2>1 DEF Inv, AttemptInv, ShownNumber
<1>5. BreaksBounded(s)' /\ BreaksInv(s)'
  <2>1. s.breaks \in Nat /\ moves \in Nat
    BY SessionTypes, Zeros, GameNumbers DEF Inv, TypeOK
  <2>2. QED
    BY <1>1, <2>1 DEF Inv, AttemptInv, BreaksBounded, BreaksInv, BreaksBoundedTorn, Drop
<1>6. AttemptInv(s)'
  BY <1>3, <1>4, <1>5 DEF AttemptInv
<1>7. QED
  BY <1>1, <1>2, <1>5, <1>6 DEF Inv

(* A combo that has dropped is down for one or two drops of it.            *)
LEMMA OneDropMore ==
  ASSUME Inv
  PROVE  Drop(s.combo, was) + Drop(was, attempt.combo) <= Drop(s.combo, attempt.combo) + 1
<1>1. was \in Nat /\ attempt.combo \in Nat
  BY GameNumbers DEF Inv
<1>2. s.combo \in Nat
  BY SessionTypes, Zeros DEF Inv, TypeOK
<1>3. QED
  BY <1>1, <1>2 DEF Drop

LEMMA ChangeStateKeeps ==
  ASSUME Inv, ChangeState
  PROVE  Inv'
<1>1. /\ s' = s /\ slipped' = slipped /\ failures' = failures /\ calm' = 0
      /\ moves' = moves + 1 /\ moves < MaxMoves /\ GameMoves
      /\ map' = map /\ menuMods' = menuMods /\ attempt' = attempt /\ was' = was /\ late' = late /\ torn' = torn
      /\ state' \in States \ {"play"}
  BY MoveUnsettles DEF ChangeState, States, Inv
<1>2. TypeOK' /\ AttemptCounts'
  BY <1>1, GameNumbers, PlayAssumption DEF Inv, TypeOK, AttemptCounts, Upto, PlayAssumption
<1>3. ReadingIsShown(s)' /\ ErrorsOfAttempt(s)' /\ BreaksOfAttempt(s)'
  BY <1>1 DEF ReadingIsShown, ErrorsOfAttempt, BreaksOfAttempt, BreaksHold
<1>4. QED
  BY <1>1, <1>2, <1>3, OneDropMore, MoveKeeps, GameNumbers DEF Inv

LEMMA SelectKeeps ==
  ASSUME Inv, Select
  PROVE  Inv'
<1>1. /\ s' = s /\ slipped' = slipped /\ failures' = failures /\ calm' = 0
      /\ moves' = moves + 1 /\ moves < MaxMoves /\ GameMoves
      /\ map' \in Maps /\ menuMods' \in Mods /\ attempt' = attempt /\ was' = was
      /\ late' = late /\ torn' = torn /\ state' = state
  BY MoveUnsettles DEF Select, Inv, TypeOK
<1>2. TypeOK' /\ AttemptCounts'
  BY <1>1, GameNumbers, PlayAssumption DEF Inv, TypeOK, AttemptCounts, Upto, PlayAssumption
<1>3. ReadingIsShown(s)' /\ ErrorsOfAttempt(s)' /\ BreaksOfAttempt(s)'
  BY <1>1 DEF Select, ReadingIsShown, ErrorsOfAttempt, BreaksOfAttempt, BreaksHold
<1>4. QED
  BY <1>1, <1>2, <1>3, OneDropMore, MoveKeeps, GameNumbers DEF Inv

(* A new attempt was neither judged nor read, and is a later one than the  *)
(* attempt that is shown.                                                  *)
LEMMA StartAttemptKeeps ==
  ASSUME Inv, StartAttempt
  PROVE  Inv'
<1> USE GameNumbers
<1>0. TypeOK /\ AttemptCounts /\ s \in Session
  BY DEF Inv, TypeOK
<1>1. /\ s' = s /\ slipped' = slipped /\ failures' = failures /\ calm' = 0
      /\ moves' = moves + 1 /\ moves < MaxMoves /\ GameMoves
      /\ map' = map /\ menuMods' = menuMods /\ was' = 0 /\ late' = FALSE /\ torn' = 0
      /\ state' = "play"
  BY <1>0, MoveUnsettles DEF StartAttempt
<1>2. /\ attempt'.n = attempt.n + 1 /\ attempt'.hits = 0 /\ attempt'.combo = 0
      /\ attempt'.max = 0 /\ attempt'.miss = 0 /\ attempt'.broke = 0
  BY DEF StartAttempt, NewAttempt
<1>3. attempt' \in Attempt
  <2>1. attempt.n + 1 \in Upto
    BY <1>0, <1>1, PlayAssumption DEF AttemptCounts, Upto, PlayAssumption
  <2>2. QED
    BY <2>1, Zeros DEF StartAttempt, NewAttempt, Attempt
<1>m. moves' \in Upto
  BY <1>0, <1>1, PlayAssumption DEF Upto, PlayAssumption
<1>4. TypeOK' /\ AttemptCounts'
  <2>1. TypeOK'
    <3>1. failures' \in 0..MaxFailures /\ was' \in Upto /\ calm' \in 0..2
      BY <1>0, <1>1, Zeros DEF TypeOK
    <3>2. state' \in States /\ map' \in Maps /\ menuMods' \in Mods /\ s' \in Session
      BY <1>0, <1>1 DEF TypeOK, States
    <3>3. slipped' \in BOOLEAN /\ late' \in BOOLEAN /\ torn' \in Upto
      BY <1>0, <1>1, Zeros DEF TypeOK
    <3>4. QED
      BY <1>3, <1>m, <3>1, <3>2, <3>3 DEF TypeOK
  <2>2. AttemptCounts'
    BY <1>0, <1>1, <1>2 DEF AttemptCounts
  <2>3. QED
    BY <2>1, <2>2
<1>5. Fresh(s)'
  <2>1. s.of # None => s.of.n \in Nat /\ s.of.n <= attempt.n
    BY <1>0, SessionTypes, Zeros DEF Attempt, Inv, AttemptInv, ShownNumber
  <2>2. QED
    BY <1>0, <1>1, <1>2, <2>1 DEF Fresh
<1>6. ReadingIsShown(s)' /\ ErrorsOfAttempt(s)' /\ BreaksOfAttempt(s)'
  BY <1>5 DEF ReadingIsShown, ErrorsOfAttempt, BreaksOfAttempt, BreaksHold, Fresh
<1>7. Drop(s.combo, 0) + Drop(0, 0) <= Drop(s.combo, attempt.combo) + 1
  BY DEF Drop
<1>8. QED
  BY <1>0, <1>1, <1>2, <1>4, <1>6, <1>7, MoveKeeps

(* A judgement of an attempt that was read leaves what was read behind.    *)
LEMMA JudgeKeeps ==
  ASSUME Inv, Judge
  PROVE  Inv'
<1> USE GameNumbers
<1>0. TypeOK /\ AttemptCounts /\ s \in Session
  BY DEF Inv, TypeOK
<1>1. /\ s' = s /\ slipped' = slipped /\ failures' = failures /\ calm' = 0
      /\ moves' = moves + 1 /\ moves < MaxMoves /\ GameMoves
      /\ map' = map /\ menuMods' = menuMods /\ state' = state /\ state = "play"
      /\ was' = attempt.combo /\ late' = (late \/ s.of = None \/ s.of.n # attempt.n)
      /\ torn' = torn
  BY <1>0, MoveUnsettles DEF Judge
<1>2. /\ attempt'.n = attempt.n /\ attempt'.hits <= attempt.hits + 1
      /\ attempt'.max >= attempt.max /\ attempt'.max <= moves + 1
      /\ attempt'.combo <= attempt'.max
      /\ \/ attempt'.combo = attempt.combo + 1 /\ attempt'.miss = attempt.miss
            /\ attempt'.broke = attempt.broke
         \/ attempt'.combo = 0 /\ attempt'.miss = attempt.miss + 1
            /\ attempt'.broke = attempt.broke
         \/ attempt'.combo = 0 /\ attempt'.miss = attempt.miss
            /\ attempt'.broke = attempt.broke + 1
      /\ attempt'.hits \in Nat /\ attempt'.max \in Nat
      /\ attempt' \in Attempt
  <2>1. /\ attempt.hits + 1 \in Upto /\ attempt.combo + 1 \in Upto
        /\ attempt.miss + 1 \in Upto /\ attempt.broke + 1 \in Upto /\ attempt.max \in Upto
    BY <1>0, <1>1, PlayAssumption DEF AttemptCounts, Upto, PlayAssumption
  <2>2. CASE attempt' = Hit(attempt)
    <3> DEFINE max == IF attempt.combo + 1 > attempt.max THEN attempt.combo + 1
                      ELSE attempt.max
    <3>1. /\ max \in Upto /\ max \in Nat /\ max <= moves + 1 /\ max >= attempt.max
          /\ attempt.combo + 1 <= max
      BY <1>0, <2>1 DEF AttemptCounts
    <3>2. attempt' = [attempt EXCEPT !.hits = attempt.hits + 1, !.combo = attempt.combo + 1,
                                     !.max = max]
      BY <2>2 DEF Hit
    <3> HIDE DEF max
    <3>3. attempt' \in Attempt
      BY <1>0, <2>1, <3>1, <3>2, AttemptWith
    <3>4. /\ attempt'.n = attempt.n /\ attempt'.hits = attempt.hits + 1
          /\ attempt'.combo = attempt.combo + 1 /\ attempt'.miss = attempt.miss
          /\ attempt'.max = max /\ attempt'.broke = attempt.broke
      BY <1>0, <3>2 DEF Attempt
    <3>5. QED
      BY <1>0, <3>1, <3>3, <3>4
  <2>3. CASE attempt' = Miss(attempt)
    <3>1. attempt' = [attempt EXCEPT !.hits = attempt.hits + 1, !.combo = 0,
                                     !.miss = attempt.miss + 1]
      BY <2>3 DEF Miss
    <3>2. attempt' \in Attempt
      BY <1>0, <2>1, <3>1, Zeros, AttemptWith
    <3>3. /\ attempt'.n = attempt.n /\ attempt'.hits = attempt.hits + 1
          /\ attempt'.combo = 0 /\ attempt'.miss = attempt.miss + 1
          /\ attempt'.max = attempt.max /\ attempt'.broke = attempt.broke
      BY <1>0, <3>1 DEF Attempt
    <3>4. QED
      BY <1>0, <3>2, <3>3 DEF AttemptCounts
  <2>4. CASE attempt' = SliderBreak(attempt)
    <3>1. attempt' = [attempt EXCEPT !.combo = 0, !.broke = attempt.broke + 1]
      BY <2>4 DEF SliderBreak
    <3>2. attempt' \in Attempt
      BY <1>0, <2>1, <3>1, Zeros, AttemptWith
    <3>3. /\ attempt'.n = attempt.n /\ attempt'.hits = attempt.hits
          /\ attempt'.combo = 0 /\ attempt'.miss = attempt.miss
          /\ attempt'.max = attempt.max /\ attempt'.broke = attempt.broke + 1
      BY <1>0, <3>1 DEF Attempt
    <3>4. QED
      BY <1>0, <3>2, <3>3 DEF AttemptCounts
  <2>5. QED
    BY <2>2, <2>3, <2>4 DEF Judge
<1>3. AttemptCounts'
  BY <1>0, <1>1, <1>2 DEF AttemptCounts
<1>4. moves' \in Upto /\ attempt.combo \in Upto
  BY <1>0, <1>1, PlayAssumption DEF AttemptCounts, Upto, PlayAssumption
<1>5. TypeOK'
  BY <1>0, <1>1, <1>2, <1>4 DEF TypeOK
<1>n. /\ s.combo \in Nat /\ s.miss \in Nat /\ s.breaks \in Nat
      /\ s.of # None => s.of.max \in Nat
  BY <1>0, SessionTypes, Zeros DEF Attempt
<1>6. ReadingIsShown(s)'
  BY <1>0, <1>1, <1>2, <1>n DEF ReadingIsShown, Inv, AttemptInv
<1>7. ErrorsOfAttempt(s)'
  BY <1>0, <1>1, <1>2 DEF ErrorsOfAttempt, Inv, AttemptInv, Fresh
<1>8. BreaksOfAttempt(s)'
  <2> SUFFICES ASSUME ~late'
               PROVE  /\ s.breaks <= attempt'.broke + torn /\ s.miss <= attempt'.miss
                      /\ /\ attempt'.miss = s.miss
                         /\ attempt'.combo < s.combo \/ attempt.combo < s.combo
                         => s.breaks + 1 <= attempt'.broke + torn
    BY <1>1 DEF BreaksOfAttempt, BreaksHold
  <2>1. state = "play" /\ ~late /\ ~Fresh(s)
    BY <1>1 DEF Fresh
  <2>2. /\ s.breaks <= attempt.broke + torn /\ s.miss <= attempt.miss
        /\ attempt.miss = s.miss /\ attempt.combo < s.combo =>
             s.breaks + 1 <= attempt.broke + torn
    BY <2>1 DEF BreaksOfAttempt, BreaksHold, Inv, BreaksInv
  <2>3. QED
    BY <1>0, <1>2, <1>n, <2>2
<1>9. Drop(s.combo, attempt.combo) + Drop(attempt.combo, attempt'.combo)
        <= Drop(s.combo, attempt.combo) + 1
  BY DEF Drop
<1>10. QED
  BY <1>0, <1>1, <1>2, <1>3, <1>5, <1>6, <1>7, <1>8, <1>9, MoveKeeps

-----------------------------------------------------------------------------
(* The theorems.                                                           *)

LEMMA InitPromised ==
  ASSUME Init
  PROVE  Promised
<1>1. /\ state \in States /\ map \in Maps /\ menuMods \in Mods
      /\ attempt.n = 0 /\ attempt.hits = 0 /\ attempt.combo = 0 /\ attempt.max = 0
      /\ attempt.miss = 0 /\ attempt.broke = 0 /\ attempt.mods = menuMods /\ was = 0
      /\ moves = 0 /\ failures = 0 /\ calm = 0 /\ slipped = FALSE /\ late = FALSE
      /\ torn = 0 /\ s.checksum = None /\ s.pinned = FALSE /\ s.pp = None
      /\ s.seen = "menu" /\ s.cur = "menu" /\ s.dirty = FALSE /\ s.of = None
      /\ s.loaded = None /\ s.live = None /\ s.result = None /\ s.idle = None
      /\ s.errors = NoErrors /\ s.shownErrors = NoErrors /\ s.shownBreaks = 0
      /\ s.combo = 0 /\ s.max = 0 /\ s.miss = 0 /\ s.breaks = 0
  BY PlayAssumption DEF Init, NewAttempt, PlayAssumption
<1>2. TypeOK
  <2>1. attempt \in Attempt
    BY Zeros DEF Init, NewAttempt, Attempt
  <2>2. s \in Session
    BY <1>1, Zeros DEF Init, Session, States
  <2>3. was \in Upto /\ torn \in Upto /\ moves \in Upto /\ failures \in 0..MaxFailures /\ calm \in 0..2
    BY <1>1, Zeros, PlayAssumption DEF PlayAssumption
  <2>4. slipped \in BOOLEAN /\ late \in BOOLEAN
    BY <1>1
  <2>5. QED
    BY <1>1, <2>1, <2>2, <2>3, <2>4 DEF TypeOK
<1>3. AttemptCounts
  BY <1>1 DEF AttemptCounts
<1>4. AttemptInv(s) /\ BreaksInv(s)
  BY <1>1, <1>2, <1>3, NoPlay DEF TypeOK
<1>5. RatingsInv(s) /\ SeenIsCurrent(s) /\ IdleIsShown(s) /\ LiveInStep(s) /\ CalmIsCurrent
  BY <1>1 DEF RatingsInv, LiveOfMap, ResultOfMap, RatedIfLoaded, SeenIsCurrent, IdleIsShown,
     LiveInStep, CalmIsCurrent
<1>6. PpAgrees /\ NothingLeaks /\ SettlesInTwoPolls /\ ShownIsTheAttempt
  BY <1>1 DEF PpAgrees, LiveAgrees, ResultAgrees, NothingLeaks, SettlesInTwoPolls,
     ShownIsTheAttempt
<1>7. QED
  BY <1>2, <1>3, <1>4, <1>5, <1>6 DEF Promised, Inv

LEMMA StepPromised ==
  ASSUME Promised, [Next]_vars
  PROVE  /\ Promised'
         /\ [\A m \in Maps : BreakIsCounted(m)]_vars
<1>1. Inv /\ TypeOK
  BY DEF Promised, Inv
<1>2. ASSUME GameMoves, Inv'
      PROVE  Promised' /\ \A m \in Maps : BreakIsCounted(m)
  BY <1>1, <1>2, MoveUnsettles DEF Promised
<1>3. CASE ChangeState
  BY <1>1, <1>2, <1>3, ChangeStateKeeps DEF ChangeState
<1>4. CASE Select
  BY <1>1, <1>2, <1>4, SelectKeeps DEF Select
<1>5. CASE StartAttempt
  BY <1>1, <1>2, <1>5, StartAttemptKeeps DEF StartAttempt
<1>6. CASE Judge
  BY <1>1, <1>2, <1>6, JudgeKeeps DEF Judge
<1>7. CASE Poll
  BY <1>7, PollPreserves
<1>8. CASE UNCHANGED vars
  BY <1>8 DEF Promised, Inv, vars, theGame, TypeOK, AttemptCounts, RatingsInv, LiveOfMap,
     ResultOfMap, RatedIfLoaded, AttemptInv, PlayIsDirty, ShownNumber, ReadingIsShown,
     ErrorsOfAttempt, BreaksBounded, BreaksInv, BreaksBoundedTorn, BreaksOfAttempt, BreaksHold, Fresh, SeenIsCurrent,
     IdleIsShown, LiveInStep, CalmIsCurrent, ShownMods, MapIsLoaded, PpAgrees, LiveAgrees,
     ResultAgrees, NothingLeaks, SettlesInTwoPolls, ShownIsTheAttempt
<1>9. QED
  BY <1>3, <1>4, <1>5, <1>6, <1>7, <1>8 DEF Next

LEMMA AlwaysPromised == Spec => []Promised
<1>1. Init => Promised
  BY InitPromised
<1>2. Promised /\ [Next]_vars => Promised'
  BY StepPromised
<1>3. QED
  BY <1>1, <1>2, PTL DEF Spec

(* Every value of the game and of the session stays in its range; a        *)
(* session counts no more slider breaks than there were moves.             *)
THEOREM PlayTypes == Spec => []TypeOK
<1>1. Promised => TypeOK
  BY DEF Promised, Inv
<1>2. QED
  BY <1>1, AlwaysPromised, PTL

(* The pp beside a play or a result is of the judgements, the mods and the *)
(* map shown with it, whatever was cached before the poll (session.rs:2718 *)
(* rates a result, 2654 keeps the live rating until the counts change).    *)
THEOREM PpAlwaysAgrees == Spec => []PpAgrees
<1>1. Promised => PpAgrees
  BY DEF Promised
<1>2. QED
  BY <1>1, AlwaysPromised, PTL

(* Song select shows nothing of a play, whichever states of the game the   *)
(* polls have missed on the way there, and the pp of what is selected.     *)
THEOREM NothingEverLeaks == Spec => []NothingLeaks
<1>1. Promised => NothingLeaks
  BY DEF Promised
<1>2. QED
  BY <1>1, AlwaysPromised, PTL

(* After any number of failed reads, two polls in which none fails show    *)
(* the game as it is, rated for its own mods.                              *)
THEOREM TwoPollsSettle == Spec => []SettlesInTwoPolls
<1>1. Promised => SettlesInTwoPolls
  BY DEF Promised
<1>2. QED
  BY <1>1, AlwaysPromised, PTL

(* The hit errors and slider breaks shown are those of the attempt: none   *)
(* missing that a poll could have seen, and no slider break too many but   *)
(* one for each poll whose combo and misses are of before and after a      *)
(* judgement (client.rs:1271-1294 reads them one after the other).         *)
THEOREM EachAttemptItsOwn == Spec => AttemptIsItsOwn
<1>1. Promised /\ [Next]_vars =>
        [ShownIsTheAttempt' /\ \A m \in Maps : BreakIsCounted(m)]_vars
  BY StepPromised DEF Promised
<1>2. QED
  BY <1>1, AlwaysPromised, PTL DEF Spec, AttemptIsItsOwn

-----------------------------------------------------------------------------
(* The cursor behind a live rating, for maps with curves.                  *)
(* A cursor is of one map that converts, and not past the end of its curve *)
(* or of the map.                                                          *)
CursorInv(held) ==
  \/ held = Curve!Cleared
  \/ \E m \in Curves, k \in Mods, n \in Nat :
       /\ held = [key |-> Curve!Key(m, k), built |-> <<m, k>>, processed |-> n]
       /\ m.converts /\ n <= m.objects /\ n <= m.curve

(* The answer of a cursor is that of a new one, whatever it was asked      *)
(* before; maps with one key have one content.                             *)
THEOREM CursorAnswersAfresh ==
  ASSUME NEW held, CursorInv(held),
         NEW m \in Curves, NEW k \in Mods, NEW passed \in Nat
  PROVE  /\ CursorInv(Curve!Cleared)
         /\ CursorInv(Curve!AdvanceTo(held, m, k, passed))
         /\ Curve!IsFresh(held, m, k, passed)
  <1> DEFINE key == Curve!Key(m, k)
             target == Curve!Target(m, passed)
             reached == Curve!Lesser(target, m.curve)
             new == [key |-> key, built |-> <<m, k>>, processed |-> 0]
             there == [key |-> key, built |-> <<m, k>>, processed |-> reached]
             fresh == Curve!AdvanceTo(Curve!Cleared, m, k, passed)
             result == Curve!AdvanceTo(held, m, k, passed)
  <1>1. m.objects \in Nat /\ m.curve \in Nat
    BY NumbersAssumption DEF NumbersAssumption
  <1>2. /\ target \in Nat /\ target <= m.objects
        /\ reached \in Nat /\ reached <= target /\ reached <= m.curve
        /\ reached = target \/ reached = m.curve
    BY <1>1 DEF Curve!Target, Curve!Lesser
  <1>3. ASSUME NEW c, Curve!IsRebuilt(c, m, k, passed)
        PROVE  Curve!AdvanceTo(c, m, k, passed) = IF m.converts THEN there ELSE Curve!Cleared
    <2>1. new.built[1] = m /\ new.processed = 0
      OBVIOUS
    <2>2. Curve!AdvanceTo(c, m, k, passed) =
            IF ~m.converts THEN Curve!Cleared
            ELSE [new EXCEPT !.processed = IF reached > 0 THEN reached ELSE 0]
      BY <1>3, <2>1 DEF Curve!AdvanceTo
    <2>3. (IF reached > 0 THEN reached ELSE 0) = reached
      BY <1>2
    <2>4. [new EXCEPT !.processed = reached] = there
      OBVIOUS
    <2> QED
      BY <2>2, <2>3, <2>4
  <1>4. fresh = IF m.converts THEN there ELSE Curve!Cleared
    <2>1. Curve!IsRebuilt(Curve!Cleared, m, k, passed)
      BY DEF Curve!IsRebuilt, Curve!Cleared
    <2> QED
      BY <1>3, <2>1
  <1>5. result = fresh /\ CursorInv(result)
    <2>1. CASE Curve!IsRebuilt(held, m, k, passed)
      <3>1. result = IF m.converts THEN there ELSE Curve!Cleared
        BY <1>3, <2>1
      <3>2. reached \in Nat /\ reached <= m.objects /\ reached <= m.curve
        BY <1>1, <1>2
      <3> HIDE DEF reached, result, fresh
      <3> QED
        BY <1>4, <3>1, <3>2 DEF CursorInv
    <2>2. CASE ~Curve!IsRebuilt(held, m, k, passed)
      <3>1. /\ held.built # None /\ held.key = key /\ ~(held.processed > target)
            /\ held # Curve!Cleared
        BY <2>2 DEF Curve!IsRebuilt, Curve!Cleared
      <3>2. PICK o \in Curves, j \in Mods, n \in Nat :
              /\ held = [key |-> Curve!Key(o, j), built |-> <<o, j>>, processed |-> n]
              /\ o.converts /\ n <= o.objects /\ n <= o.curve
        BY <3>1 DEF CursorInv
      <3>3. o = m /\ j = k
        <4>1. Curve!Key(o, j) = key
          BY <3>1, <3>2
        <4>2. o.key = m.key /\ j = k
          BY <4>1 DEF Curve!Key
        <4> QED
          BY <4>2, NumbersAssumption DEF NumbersAssumption, Curve!KeysAreOfOneMap
      <3>4. /\ held = [key |-> key, built |-> <<m, k>>, processed |-> n]
            /\ m.converts /\ n <= m.curve
        BY <3>2, <3>3
      <3>5. n <= target /\ n <= reached
        BY <1>2, <3>1, <3>4
      <3>6. held.built[1] = m /\ held.processed = n
        BY <3>4
      <3>7. result = [held EXCEPT !.processed = IF reached > n THEN reached ELSE n]
        BY <2>2, <3>6 DEF Curve!AdvanceTo
      <3>8. (IF reached > n THEN reached ELSE n) = reached
        BY <1>2, <3>5
      <3>9. reached \in Nat /\ reached <= m.objects /\ reached <= m.curve
        BY <1>1, <1>2
      <3> HIDE DEF reached, result, fresh
      <3>10. [held EXCEPT !.processed = reached] = there
        BY <3>4
      <3>11. result = there
        BY <3>7, <3>8, <3>10
      <3> QED
        BY <1>4, <3>4, <3>9, <3>11 DEF CursorInv
    <2> QED
      BY <2>1, <2>2
  <1>6. CursorInv(Curve!Cleared)
    BY DEF CursorInv
  <1> QED
    BY <1>5, <1>6 DEF Curve!IsFresh

(* The cursor of a session, and what it is asked in any order.             *)
THEOREM CursorStaysFresh == AllSpec => []CursorIsFresh
<1> DEFINE I == CursorInv(cursor)
<1>1. AllInit => I
  BY DEF AllInit, CursorInv
<1>2. I /\ [AllNext]_allVars => I'
  <2> SUFFICES ASSUME CursorInv(cursor), [AllNext]_allVars PROVE CursorInv(cursor')
    BY DEF CursorInv
  <2>1. CASE cursor' = cursor
    BY <2>1
  <2>2. CASE Advance
    <3>1. PICK m \in Curves, k \in Mods, passed \in Nat :
            cursor' = Curve!AdvanceTo(cursor, m, k, passed)
      BY <2>2, NumbersAssumption DEF Advance, NumbersAssumption
    <3>2. QED
      BY <3>1, CursorAnswersAfresh
  <2>3. QED
    BY <2>1, <2>2 DEF AllNext, allVars, Judged
<1>3. I => CursorIsFresh
  <2>1. \A passed \in 0..MaxPassed : passed \in Nat
    BY NumbersAssumption DEF NumbersAssumption
  <2>2. QED
    BY <2>1, CursorAnswersAfresh DEF CursorIsFresh
<1>4. QED
  BY <1>1, <1>2, <1>3, PTL DEF AllSpec

(* What is shown of the session in the run is shown of SoloPlay alone.     *)
LEMMA SessionOfAll == AllSpec => Spec
<1>1. AllInit => Init
  BY DEF AllInit
<1>2. [AllNext]_allVars => [Next]_vars
  BY DEF AllNext, allVars, vars, theGame
<1>3. QED
  BY <1>1, <1>2, PTL DEF AllSpec, Spec

-----------------------------------------------------------------------------
(* The grade of a play (PlayNumbers), with counters of any width.          *)
Judgements ==
  [mode : 0..3, n300 : Nat, n100 : Nat, n50 : Nat, miss : Nat, geki : Nat, katu : Nat,
   scoreV2 : BOOLEAN]

(* The grade is that of the highest condition that is met.                 *)
LEMMA TopGrade ==
  ASSUME NEW c, DOMAIN c = 1..6, c[1]
  PROVE  \E g \in 1..6 : /\ c[g] /\ Number!Rank(Number!Best(c)) = g
                         /\ \A h \in 1..6 : c[h] => h <= g
  <1> DEFINE met == {g \in DOMAIN c : c[g]}
             top == CHOOSE g \in met : \A h \in met : h <= g
  <1>1. met \subseteq 1..6 /\ 1 \in met
    OBVIOUS
  <1>2. \E g \in met : \A h \in met : h <= g
    <2> HIDE DEF met
    <2>1. 6 \in met \/ (6 \notin met /\ 5 \in met) \/ (6 \notin met /\ 5 \notin met /\ 4 \in met)
          \/ (6 \notin met /\ 5 \notin met /\ 4 \notin met /\ 3 \in met)
          \/ (6 \notin met /\ 5 \notin met /\ 4 \notin met /\ 3 \notin met /\ 2 \in met)
          \/ (6 \notin met /\ 5 \notin met /\ 4 \notin met /\ 3 \notin met /\ 2 \notin met)
      OBVIOUS
    <2> QED
      BY <1>1, <2>1
  <1>3. top \in met /\ \A h \in met : h <= top
    BY <1>2
  <1>4. Number!Best(c) = Number!Grades[top]
    BY DEF Number!Best
  <1>5. top \in 1..6
    BY <1>1, <1>3
  <1> HIDE DEF top
  <1>6. DOMAIN Number!Grades = 1..6
        /\ \A h \in 1..6 : Number!Grades[h] = Number!Grades[top] => h = top
    BY <1>5 DEF Number!Grades
  <1>7. Number!Rank(Number!Grades[top]) = top
    BY <1>5, <1>6 DEF Number!Rank
  <1> QED
    BY <1>3, <1>4, <1>5, <1>7

LEMMA GradeGrows ==
  ASSUME NEW c, NEW d, DOMAIN c = 1..6, DOMAIN d = 1..6, c[1], d[1],
         \A g \in 1..6 : c[g] => d[g]
  PROVE  Number!Rank(Number!Best(d)) >= Number!Rank(Number!Best(c))
  <1>1. PICK g \in 1..6 : c[g] /\ Number!Rank(Number!Best(c)) = g
    BY TopGrade
  <1>2. PICK h \in 1..6 : /\ Number!Rank(Number!Best(d)) = h
                         /\ \A e \in 1..6 : d[e] => e <= h
    BY TopGrade
  <1> QED
    BY <1>1, <1>2

LEMMA WidthOfFitting ==
  ASSUME MaxCount \in Nat, NEW n \in Nat, n <= MaxCount
  PROVE  Number!InWidth(n) = n
  <1> DEFINE m == n + MaxCount + 1
             d == 2 * (MaxCount + 1)
  <1>1. m \in Int /\ d \in Int /\ 0 <= m /\ m < d
    OBVIOUS
  <1>2. Number!InWidth(n) = (m % d) - (MaxCount + 1)
    BY DEF Number!InWidth
  <1>3. m - (MaxCount + 1) = n
    OBVIOUS
  <1> HIDE DEF m, d
  <1>4. m % d = m
    BY <1>1
  <1> QED
    BY <1>2, <1>3, <1>4

(* The conditions of the grades.                                           *)
ShareConditions(p) ==
  LET total == Number!Judged(p)
      More(n) == 10 * p.n300 > n * total
      clean == p.miss = 0
  IN <<TRUE, More(6), (More(7) /\ clean) \/ More(8), (More(8) /\ clean) \/ More(9),
       More(9) /\ 100 * p.n50 < total /\ clean, total = 0 \/ p.n300 = total>>
CatchConditions(acc) ==
  <<TRUE, Number!Above(acc, 17, 20), Number!Above(acc, 9, 10), Number!Above(acc, 47, 50),
    Number!Above(acc, 49, 50), Number!AtLeast(acc, 1, 1)>>
ManiaConditions(acc) ==
  <<TRUE, Number!AtLeast(acc, 7, 10), Number!AtLeast(acc, 4, 5), Number!AtLeast(acc, 9, 10),
    Number!AtLeast(acc, 19, 20), Number!AtLeast(acc, 1, 1)>>

LEMMA Conditions ==
  ASSUME NEW p, NEW acc
  PROVE  /\ DOMAIN ShareConditions(p) = 1..6 /\ ShareConditions(p)[1]
         /\ DOMAIN CatchConditions(acc) = 1..6 /\ CatchConditions(acc)[1]
         /\ DOMAIN ManiaConditions(acc) = 1..6 /\ ManiaConditions(acc)[1]
  BY DEF ShareConditions, CatchConditions, ManiaConditions

LEMMA ShareConditionsAre ==
  ASSUME NEW p
  PROVE  /\ ShareConditions(p)[2] <=> (10 * p.n300 > 6 * Number!Judged(p))
         /\ ShareConditions(p)[3] <=> ((10 * p.n300 > 7 * Number!Judged(p) /\ p.miss = 0) \/ 10 * p.n300 > 8 * Number!Judged(p))
         /\ ShareConditions(p)[4] <=> ((10 * p.n300 > 8 * Number!Judged(p) /\ p.miss = 0) \/ 10 * p.n300 > 9 * Number!Judged(p))
         /\ ShareConditions(p)[5] <=> (10 * p.n300 > 9 * Number!Judged(p) /\ 100 * p.n50 < Number!Judged(p) /\ p.miss = 0)
         /\ ShareConditions(p)[6] <=> (Number!Judged(p) = 0 \/ p.n300 = Number!Judged(p))
  BY DEF ShareConditions

LEMMA CatchConditionsAre ==
  ASSUME NEW acc
  PROVE  /\ CatchConditions(acc)[2] <=> 20 * acc[1] > 17 * acc[2]
         /\ CatchConditions(acc)[3] <=> 10 * acc[1] > 9 * acc[2]
         /\ CatchConditions(acc)[4] <=> 50 * acc[1] > 47 * acc[2]
         /\ CatchConditions(acc)[5] <=> 50 * acc[1] > 49 * acc[2]
         /\ CatchConditions(acc)[6] <=> 1 * acc[1] >= 1 * acc[2]
  BY DEF CatchConditions, Number!Above, Number!AtLeast

LEMMA ManiaConditionsAre ==
  ASSUME NEW acc
  PROVE  /\ ManiaConditions(acc)[2] <=> 10 * acc[1] >= 7 * acc[2]
         /\ ManiaConditions(acc)[3] <=> 5 * acc[1] >= 4 * acc[2]
         /\ ManiaConditions(acc)[4] <=> 10 * acc[1] >= 9 * acc[2]
         /\ ManiaConditions(acc)[5] <=> 20 * acc[1] >= 19 * acc[2]
         /\ ManiaConditions(acc)[6] <=> 1 * acc[1] >= 1 * acc[2]
  BY DEF ManiaConditions, Number!AtLeast

LEMMA GradeIsBest ==
  ASSUME NEW p, NEW acc
  PROVE  /\ p.mode \in {0, 1} => Number!Grade(p, acc) = Number!Best(ShareConditions(p))
         /\ p.mode = 2 => Number!Grade(p, acc) = Number!Best(CatchConditions(acc))
         /\ p.mode = 3 => Number!Grade(p, acc) = Number!Best(ManiaConditions(acc))
  BY DEF Number!Grade, ShareConditions, CatchConditions, ManiaConditions

(* The conditions that hold of a play hold of a better one: in osu! and    *)
(* taiko by the counters, in catch and mania by the accuracy.              *)
LEMMA SharesGrow ==
  ASSUME NEW p \in Judgements, NEW q \in Judgements, NEW k \in Nat,
         Number!Judged(q) = Number!Judged(p) + k, q.n300 >= p.n300 + k, q.miss <= p.miss,
         q.n50 <= p.n50 \/ p.miss > 0
  PROVE  Number!Rank(Number!Best(ShareConditions(q))) >= Number!Rank(Number!Best(ShareConditions(p)))
  <1> DEFINE c == ShareConditions(p)
             d == ShareConditions(q)
  <1>1. /\ p.n300 \in Nat /\ p.n100 \in Nat /\ p.n50 \in Nat /\ p.miss \in Nat
        /\ q.n300 \in Nat /\ q.n100 \in Nat /\ q.n50 \in Nat /\ q.miss \in Nat
    BY DEF Judgements
  <1>2. c[2] => d[2]
    BY <1>1, ShareConditionsAre DEF Number!Judged
  <1>3. c[3] => d[3]
    BY <1>1, ShareConditionsAre DEF Number!Judged
  <1>4. c[4] => d[4]
    BY <1>1, ShareConditionsAre DEF Number!Judged
  <1>5. c[5] => d[5]
    BY <1>1, ShareConditionsAre DEF Number!Judged
  <1>6. c[6] => d[6]
    <2>1. /\ Number!Judged(p) \in Nat /\ Number!Judged(q) \in Nat
          /\ p.n300 <= Number!Judged(p) /\ q.n300 <= Number!Judged(q)
      BY <1>1 DEF Number!Judged
    <2>2. Number!Judged(p) = 0 \/ p.n300 = Number!Judged(p) => q.n300 = Number!Judged(q)
      BY <1>1, <2>1
    <2> QED
      BY <2>2, ShareConditionsAre
  <1>7. DOMAIN c = 1..6 /\ DOMAIN d = 1..6 /\ c[1] /\ d[1]
    BY Conditions
  <1>8. \A g \in 1..6 : c[g] => d[g]
    BY <1>2, <1>3, <1>4, <1>5, <1>6, <1>7
  <1> HIDE DEF c, d
  <1>9. Number!Rank(Number!Best(d)) >= Number!Rank(Number!Best(c))
    BY <1>7, <1>8, GradeGrows
  <1> QED
    BY <1>9 DEF c, d

LEMMA AccuraciesGrow ==
  ASSUME NEW n \in Int, NEW m \in Int, NEW of \in Int, NEW k \in Nat, n + k <= m
  PROVE  /\ Number!Rank(Number!Best(CatchConditions(<<m, of + k>>)))
              >= Number!Rank(Number!Best(CatchConditions(<<n, of>>)))
         /\ Number!Rank(Number!Best(ManiaConditions(<<m, of + k>>)))
              >= Number!Rank(Number!Best(ManiaConditions(<<n, of>>)))
  <1> DEFINE low == <<n, of>>
             high == <<m, of + k>>
  <1>1. low[1] = n /\ low[2] = of /\ high[1] = m /\ high[2] = of + k
    OBVIOUS
  <1> HIDE DEF low, high
  <1>2. \A g \in 1..6 : CatchConditions(low)[g] => CatchConditions(high)[g]
    <2>2. CatchConditions(low)[2] => CatchConditions(high)[2]
      BY <1>1, CatchConditionsAre
    <2>3. CatchConditions(low)[3] => CatchConditions(high)[3]
      BY <1>1, CatchConditionsAre
    <2>4. CatchConditions(low)[4] => CatchConditions(high)[4]
      BY <1>1, CatchConditionsAre
    <2>5. CatchConditions(low)[5] => CatchConditions(high)[5]
      BY <1>1, CatchConditionsAre
    <2>6. CatchConditions(low)[6] => CatchConditions(high)[6]
      BY <1>1, CatchConditionsAre
    <2> QED
      BY <2>2, <2>3, <2>4, <2>5, <2>6, Conditions
  <1>3. \A g \in 1..6 : ManiaConditions(low)[g] => ManiaConditions(high)[g]
    <2>2. ManiaConditions(low)[2] => ManiaConditions(high)[2]
      BY <1>1, ManiaConditionsAre
    <2>3. ManiaConditions(low)[3] => ManiaConditions(high)[3]
      BY <1>1, ManiaConditionsAre
    <2>4. ManiaConditions(low)[4] => ManiaConditions(high)[4]
      BY <1>1, ManiaConditionsAre
    <2>5. ManiaConditions(low)[5] => ManiaConditions(high)[5]
      BY <1>1, ManiaConditionsAre
    <2>6. ManiaConditions(low)[6] => ManiaConditions(high)[6]
      BY <1>1, ManiaConditionsAre
    <2> QED
      BY <2>2, <2>3, <2>4, <2>5, <2>6, Conditions
  <1>4. Number!Rank(Number!Best(CatchConditions(high))) >= Number!Rank(Number!Best(CatchConditions(low)))
    BY <1>2, Conditions, GradeGrows
  <1>5. Number!Rank(Number!Best(ManiaConditions(high))) >= Number!Rank(Number!Best(ManiaConditions(low)))
    BY <1>3, Conditions, GradeGrows
  <1> QED
    BY <1>4, <1>5 DEF low, high

(* What an accuracy of catch or mania is, when no counter overflows.       *)
LEMMA CatchAccuracy ==
  ASSUME MaxCount \in Nat, NEW p \in Judgements, p.mode = 2, Number!Fits(p), Number!Counted(p) # 0
  PROVE  /\ Number!Accuracy(p) = <<p.n300 + p.n100 + p.n50, Number!Counted(p)>>
         /\ Number!Counted(p) = p.n300 + p.n100 + p.n50 + p.miss + p.katu
  <1>1. p.n300 \in Nat /\ p.n100 \in Nat /\ p.n50 \in Nat /\ p.miss \in Nat /\ p.katu \in Nat
    BY DEF Judgements
  <1>2. Number!Counted(p) = p.n300 + p.n100 + p.n50 + p.miss + p.katu
    BY DEF Number!Counted
  <1>3. Number!Counted(p) <= MaxCount
    BY DEF Number!Fits
  <1>4. Number!InWidth(Number!Counted(p)) = Number!Counted(p)
    BY <1>1, <1>2, <1>3, WidthOfFitting
  <1>5. Number!InWidth(p.n300 + p.n100 + p.n50) = p.n300 + p.n100 + p.n50
    BY <1>1, <1>2, <1>3, WidthOfFitting
  <1> QED
    BY <1>2, <1>4, <1>5 DEF Number!Accuracy

ManiaMax(p) == IF p.scoreV2 THEN 305 ELSE 300
ManiaScore(p) ==
  ManiaMax(p) * p.geki + 300 * p.n300 + 200 * p.katu + 100 * p.n100 + 50 * p.n50

LEMMA ManiaAccuracy ==
  ASSUME MaxCount \in Nat, NEW p \in Judgements, p.mode = 3, Number!Fits(p), Number!Counted(p) # 0
  PROVE  /\ Number!Accuracy(p) = <<ManiaScore(p), ManiaMax(p) * Number!Counted(p)>>
         /\ Number!Counted(p) = p.geki + p.n300 + p.katu + p.n100 + p.n50 + p.miss
  <1>1. /\ p.n300 \in Nat /\ p.n100 \in Nat /\ p.n50 \in Nat /\ p.miss \in Nat
        /\ p.katu \in Nat /\ p.geki \in Nat
    BY DEF Judgements
  <1>2. Number!Counted(p) = p.geki + p.n300 + p.katu + p.n100 + p.n50 + p.miss
    BY DEF Number!Counted
  <1>3. Number!InWidth(Number!Counted(p)) = Number!Counted(p)
    BY <1>1, <1>2, WidthOfFitting DEF Number!Fits
  <1> QED
    BY <1>2, <1>3 DEF Number!Accuracy, ManiaScore, ManiaMax

(* A play with one judgement better.                                       *)
Names == {"n300", "n100", "n50", "miss", "geki", "katu"}
Moved(p, a, b) == [p EXCEPT ![a] = @ - 1, ![b] = @ + 1]

LEMMA MovedIs ==
  ASSUME NEW p \in Judgements, NEW a \in Names, NEW b \in Names, a # b, p[a] > 0
  PROVE  /\ Moved(p, a, b) \in Judgements
         /\ Moved(p, a, b).mode = p.mode /\ Moved(p, a, b).scoreV2 = p.scoreV2
         /\ \A f \in Names : Moved(p, a, b)[f] = IF f = a THEN p[f] - 1 ELSE IF f = b THEN p[f] + 1 ELSE p[f]
  <1> DEFINE q == Moved(p, a, b)
             Fields == Names \cup {"mode", "scoreV2"}
  <1>1. \A f \in Names : p[f] \in Nat
    BY DEF Judgements, Names
  <1>2. /\ DOMAIN p = Fields /\ p.mode \in 0..3 /\ p.scoreV2 \in BOOLEAN
        /\ "mode" \notin Names /\ "scoreV2" \notin Names
    BY DEF Judgements, Names
  <1>3. DOMAIN q = Fields /\ q = [f \in Fields |-> q[f]]
    BY <1>2 DEF Moved
  <1>4. \A f \in Fields : q[f] = IF f = b THEN p[f] + 1 ELSE IF f = a THEN p[f] - 1 ELSE p[f]
    BY <1>2 DEF Moved
  <1>5. \A f \in Names : q[f] \in Nat
    BY <1>1, <1>4
  <1>6. q.mode = p.mode /\ q.scoreV2 = p.scoreV2
    BY <1>2, <1>4
  <1>7. q \in Judgements
    <2> HIDE DEF q
    <2>1. /\ q.n300 \in Nat /\ q.n100 \in Nat /\ q.n50 \in Nat /\ q.miss \in Nat
          /\ q.geki \in Nat /\ q.katu \in Nat /\ q.mode \in 0..3 /\ q.scoreV2 \in BOOLEAN
      BY <1>2, <1>5, <1>6 DEF Names
    <2> QED
      BY <1>3, <2>1 DEF Judgements, Names
  <1> QED
    BY <1>4, <1>6, <1>7

NoWorse(p, q) == Number!Rank(Number!GradeOf(q)) >= Number!Rank(Number!GradeOf(p))

LEMMA SharesOfBetter ==
  ASSUME NEW p \in Judgements, p.mode \in {0, 1}, NEW b \in Number!BetterBy(p.mode), p[b[1]] > 0
  PROVE  NoWorse(p, Moved(p, b[1], b[2]))
  <1> DEFINE q == Moved(p, b[1], b[2])
  <1>1. /\ p.n300 \in Nat /\ p.n100 \in Nat /\ p.n50 \in Nat /\ p.miss \in Nat
    BY DEF Judgements
  <1>2. /\ q \in Judgements /\ q.mode = p.mode
        /\ Number!Judged(q) = Number!Judged(p)
        /\ q.n300 >= p.n300 /\ q.miss <= p.miss /\ (q.n50 <= p.n50 \/ p.miss > 0)
    <2>1. CASE b = <<"miss", "n50">>
      <3>1. "miss" \in Names /\ "n50" \in Names /\ p["miss"] > 0 /\ q = Moved(p, "miss", "n50")
        BY <2>1 DEF Names
      <3>2. /\ q \in Judgements /\ q.mode = p.mode
            /\ \A f \in Names : q[f] = IF f = "miss" THEN p[f] - 1 ELSE IF f = "n50" THEN p[f] + 1 ELSE p[f]
        BY <3>1, MovedIs
      <3> HIDE DEF q
      <3>3. /\ q.n300 = p.n300
            /\ q.n100 = p.n100
            /\ q.n50 = p.n50 + 1
            /\ q.miss = p.miss - 1
        BY <3>2 DEF Names
      <3> QED
        BY <1>1, <3>1, <3>2, <3>3 DEF Number!Judged
    <2>2. CASE b = <<"n50", "n100">>
      <3>1. "n50" \in Names /\ "n100" \in Names /\ p["n50"] > 0 /\ q = Moved(p, "n50", "n100")
        BY <2>2 DEF Names
      <3>2. /\ q \in Judgements /\ q.mode = p.mode
            /\ \A f \in Names : q[f] = IF f = "n50" THEN p[f] - 1 ELSE IF f = "n100" THEN p[f] + 1 ELSE p[f]
        BY <3>1, MovedIs
      <3> HIDE DEF q
      <3>3. /\ q.n300 = p.n300
            /\ q.n100 = p.n100 + 1
            /\ q.n50 = p.n50 - 1
            /\ q.miss = p.miss
        BY <3>2 DEF Names
      <3> QED
        BY <1>1, <3>1, <3>2, <3>3 DEF Number!Judged
    <2>3. CASE b = <<"n100", "n300">>
      <3>1. "n100" \in Names /\ "n300" \in Names /\ p["n100"] > 0 /\ q = Moved(p, "n100", "n300")
        BY <2>3 DEF Names
      <3>2. /\ q \in Judgements /\ q.mode = p.mode
            /\ \A f \in Names : q[f] = IF f = "n100" THEN p[f] - 1 ELSE IF f = "n300" THEN p[f] + 1 ELSE p[f]
        BY <3>1, MovedIs
      <3> HIDE DEF q
      <3>3. /\ q.n300 = p.n300 + 1
            /\ q.n100 = p.n100 - 1
            /\ q.n50 = p.n50
            /\ q.miss = p.miss
        BY <3>2 DEF Names
      <3> QED
        BY <1>1, <3>1, <3>2, <3>3 DEF Number!Judged
    <2>4. CASE b = <<"miss", "n100">>
      <3>1. "miss" \in Names /\ "n100" \in Names /\ p["miss"] > 0 /\ q = Moved(p, "miss", "n100")
        BY <2>4 DEF Names
      <3>2. /\ q \in Judgements /\ q.mode = p.mode
            /\ \A f \in Names : q[f] = IF f = "miss" THEN p[f] - 1 ELSE IF f = "n100" THEN p[f] + 1 ELSE p[f]
        BY <3>1, MovedIs
      <3> HIDE DEF q
      <3>3. /\ q.n300 = p.n300
            /\ q.n100 = p.n100 + 1
            /\ q.n50 = p.n50
            /\ q.miss = p.miss - 1
        BY <3>2 DEF Names
      <3> QED
        BY <1>1, <3>1, <3>2, <3>3 DEF Number!Judged
    <2> QED
      BY <2>1, <2>2, <2>3, <2>4 DEF Number!BetterBy
  <1> HIDE DEF q
  <1>3. Number!GradeOf(p) = Number!Best(ShareConditions(p)) /\ Number!GradeOf(q) = Number!Best(ShareConditions(q))
    BY <1>2, GradeIsBest DEF Number!GradeOf
  <1>4. Number!Rank(Number!Best(ShareConditions(q))) >= Number!Rank(Number!Best(ShareConditions(p)))
    <2>1. /\ 0 \in Nat /\ Number!Judged(q) = Number!Judged(p) + 0 /\ q.n300 >= p.n300 + 0
      BY <1>1, <1>2 DEF Number!Judged
    <2> QED
      BY <1>2, <2>1, SharesGrow
  <1>5. NoWorse(p, q)
    BY <1>3, <1>4 DEF NoWorse
  <1> QED
    BY <1>5 DEF q

LEMMA CatchOfBetter ==
  ASSUME MaxCount \in Nat, NEW p \in Judgements, p.mode = 2, Number!Fits(p),
         NEW b \in Number!BetterBy(p.mode), p[b[1]] > 0
  PROVE  NoWorse(p, Moved(p, b[1], b[2]))
  <1> DEFINE q == Moved(p, b[1], b[2])
  <1>1. /\ p.n300 \in Nat /\ p.n100 \in Nat /\ p.n50 \in Nat /\ p.miss \in Nat
        /\ p.geki \in Nat /\ p.katu \in Nat /\ p.scoreV2 \in BOOLEAN
    BY DEF Judgements
  <1>2. /\ q \in Judgements /\ q.mode = p.mode
        /\ q.n300 + q.n100 + q.n50 = p.n300 + p.n100 + p.n50 + 1
        /\ Number!Counted(q) = Number!Counted(p) /\ Number!Counted(p) > 0
    <2>1. CASE b = <<"miss", "n300">>
      <3>1. "miss" \in Names /\ "n300" \in Names /\ p["miss"] > 0 /\ q = Moved(p, "miss", "n300")
        BY <2>1 DEF Names
      <3>2. /\ q \in Judgements /\ q.mode = p.mode /\ q.scoreV2 = p.scoreV2
            /\ \A f \in Names : q[f] = IF f = "miss" THEN p[f] - 1 ELSE IF f = "n300" THEN p[f] + 1 ELSE p[f]
        BY <3>1, MovedIs
      <3> HIDE DEF q
      <3>3. /\ q.n300 = p.n300 + 1
            /\ q.n100 = p.n100
            /\ q.n50 = p.n50
            /\ q.miss = p.miss - 1
            /\ q.geki = p.geki
            /\ q.katu = p.katu
        BY <3>2 DEF Names
      <3> QED
        BY <1>1, <3>1, <3>2, <3>3 DEF Number!Counted
    <2>2. CASE b = <<"katu", "n50">>
      <3>1. "katu" \in Names /\ "n50" \in Names /\ p["katu"] > 0 /\ q = Moved(p, "katu", "n50")
        BY <2>2 DEF Names
      <3>2. /\ q \in Judgements /\ q.mode = p.mode /\ q.scoreV2 = p.scoreV2
            /\ \A f \in Names : q[f] = IF f = "katu" THEN p[f] - 1 ELSE IF f = "n50" THEN p[f] + 1 ELSE p[f]
        BY <3>1, MovedIs
      <3> HIDE DEF q
      <3>3. /\ q.n300 = p.n300
            /\ q.n100 = p.n100
            /\ q.n50 = p.n50 + 1
            /\ q.miss = p.miss
            /\ q.geki = p.geki
            /\ q.katu = p.katu - 1
        BY <3>2 DEF Names
      <3> QED
        BY <1>1, <3>1, <3>2, <3>3 DEF Number!Counted
    <2> QED
      BY <2>1, <2>2 DEF Number!BetterBy
  <1> HIDE DEF q
  <1>3. /\ Number!Fits(q)
        /\ Number!Accuracy(p) = <<p.n300 + p.n100 + p.n50, Number!Counted(p)>>
        /\ Number!Accuracy(q) = <<q.n300 + q.n100 + q.n50, Number!Counted(p)>>
    BY <1>2, CatchAccuracy DEF Number!Fits
  <1>4. /\ p.n300 + p.n100 + p.n50 \in Int /\ q.n300 + q.n100 + q.n50 \in Int
        /\ p.n300 + p.n100 + p.n50 <= q.n300 + q.n100 + q.n50
        /\ Number!Counted(p) \in Int
    BY <1>1, <1>2 DEF Number!Counted
  <1>5. Number!Rank(Number!Best(CatchConditions(Number!Accuracy(q))))
          >= Number!Rank(Number!Best(CatchConditions(Number!Accuracy(p))))
    <2>1. /\ 0 \in Nat /\ Number!Counted(p) + 0 = Number!Counted(p)
          /\ p.n300 + p.n100 + p.n50 + 0 <= q.n300 + q.n100 + q.n50
      BY <1>4
    <2> QED
      BY <1>2, <1>3, <1>4, <2>1, AccuraciesGrow
  <1>6. /\ Number!GradeOf(p) = Number!Best(CatchConditions(Number!Accuracy(p)))
        /\ Number!GradeOf(q) = Number!Best(CatchConditions(Number!Accuracy(q)))
    BY <1>2, GradeIsBest DEF Number!GradeOf
  <1>7. NoWorse(p, q)
    BY <1>5, <1>6 DEF NoWorse
  <1> QED
    BY <1>7 DEF q

LEMMA ManiaOfBetter ==
  ASSUME MaxCount \in Nat, NEW p \in Judgements, p.mode = 3, Number!Fits(p),
         NEW b \in Number!BetterBy(p.mode), p[b[1]] > 0
  PROVE  NoWorse(p, Moved(p, b[1], b[2]))
  <1> DEFINE q == Moved(p, b[1], b[2])
  <1>1. /\ p.n300 \in Nat /\ p.n100 \in Nat /\ p.n50 \in Nat /\ p.miss \in Nat
        /\ p.geki \in Nat /\ p.katu \in Nat /\ p.scoreV2 \in BOOLEAN
    BY DEF Judgements
  <1>2. /\ q \in Judgements /\ q.mode = p.mode /\ ManiaMax(q) = ManiaMax(p)
        /\ ManiaScore(q) >= ManiaScore(p) /\ ManiaScore(q) \in Int /\ ManiaScore(p) \in Int
        /\ Number!Counted(q) = Number!Counted(p) /\ Number!Counted(p) > 0
    <2>1. CASE b = <<"miss", "n50">>
      <3>1. "miss" \in Names /\ "n50" \in Names /\ p["miss"] > 0 /\ q = Moved(p, "miss", "n50")
        BY <2>1 DEF Names
      <3>2. /\ q \in Judgements /\ q.mode = p.mode /\ q.scoreV2 = p.scoreV2
            /\ \A f \in Names : q[f] = IF f = "miss" THEN p[f] - 1 ELSE IF f = "n50" THEN p[f] + 1 ELSE p[f]
        BY <3>1, MovedIs
      <3> HIDE DEF q
      <3>3. /\ q.n300 = p.n300
            /\ q.n100 = p.n100
            /\ q.n50 = p.n50 + 1
            /\ q.miss = p.miss - 1
            /\ q.geki = p.geki
            /\ q.katu = p.katu
        BY <3>2 DEF Names
      <3>4. /\ Number!Counted(q) = Number!Counted(p) /\ Number!Counted(p) > 0
            /\ ManiaMax(q) = ManiaMax(p)
        BY <1>1, <3>1, <3>2, <3>3 DEF Number!Counted, ManiaMax
      <3>5. CASE p.scoreV2
        BY <1>1, <3>1, <3>2, <3>3, <3>4, <3>5 DEF ManiaScore, ManiaMax
      <3>6. CASE ~p.scoreV2
        BY <1>1, <3>1, <3>2, <3>3, <3>4, <3>6 DEF ManiaScore, ManiaMax
      <3> QED
        BY <3>5, <3>6
    <2>2. CASE b = <<"n50", "n100">>
      <3>1. "n50" \in Names /\ "n100" \in Names /\ p["n50"] > 0 /\ q = Moved(p, "n50", "n100")
        BY <2>2 DEF Names
      <3>2. /\ q \in Judgements /\ q.mode = p.mode /\ q.scoreV2 = p.scoreV2
            /\ \A f \in Names : q[f] = IF f = "n50" THEN p[f] - 1 ELSE IF f = "n100" THEN p[f] + 1 ELSE p[f]
        BY <3>1, MovedIs
      <3> HIDE DEF q
      <3>3. /\ q.n300 = p.n300
            /\ q.n100 = p.n100 + 1
            /\ q.n50 = p.n50 - 1
            /\ q.miss = p.miss
            /\ q.geki = p.geki
            /\ q.katu = p.katu
        BY <3>2 DEF Names
      <3>4. /\ Number!Counted(q) = Number!Counted(p) /\ Number!Counted(p) > 0
            /\ ManiaMax(q) = ManiaMax(p)
        BY <1>1, <3>1, <3>2, <3>3 DEF Number!Counted, ManiaMax
      <3>5. CASE p.scoreV2
        BY <1>1, <3>1, <3>2, <3>3, <3>4, <3>5 DEF ManiaScore, ManiaMax
      <3>6. CASE ~p.scoreV2
        BY <1>1, <3>1, <3>2, <3>3, <3>4, <3>6 DEF ManiaScore, ManiaMax
      <3> QED
        BY <3>5, <3>6
    <2>3. CASE b = <<"n100", "katu">>
      <3>1. "n100" \in Names /\ "katu" \in Names /\ p["n100"] > 0 /\ q = Moved(p, "n100", "katu")
        BY <2>3 DEF Names
      <3>2. /\ q \in Judgements /\ q.mode = p.mode /\ q.scoreV2 = p.scoreV2
            /\ \A f \in Names : q[f] = IF f = "n100" THEN p[f] - 1 ELSE IF f = "katu" THEN p[f] + 1 ELSE p[f]
        BY <3>1, MovedIs
      <3> HIDE DEF q
      <3>3. /\ q.n300 = p.n300
            /\ q.n100 = p.n100 - 1
            /\ q.n50 = p.n50
            /\ q.miss = p.miss
            /\ q.geki = p.geki
            /\ q.katu = p.katu + 1
        BY <3>2 DEF Names
      <3>4. /\ Number!Counted(q) = Number!Counted(p) /\ Number!Counted(p) > 0
            /\ ManiaMax(q) = ManiaMax(p)
        BY <1>1, <3>1, <3>2, <3>3 DEF Number!Counted, ManiaMax
      <3>5. CASE p.scoreV2
        BY <1>1, <3>1, <3>2, <3>3, <3>4, <3>5 DEF ManiaScore, ManiaMax
      <3>6. CASE ~p.scoreV2
        BY <1>1, <3>1, <3>2, <3>3, <3>4, <3>6 DEF ManiaScore, ManiaMax
      <3> QED
        BY <3>5, <3>6
    <2>4. CASE b = <<"katu", "n300">>
      <3>1. "katu" \in Names /\ "n300" \in Names /\ p["katu"] > 0 /\ q = Moved(p, "katu", "n300")
        BY <2>4 DEF Names
      <3>2. /\ q \in Judgements /\ q.mode = p.mode /\ q.scoreV2 = p.scoreV2
            /\ \A f \in Names : q[f] = IF f = "katu" THEN p[f] - 1 ELSE IF f = "n300" THEN p[f] + 1 ELSE p[f]
        BY <3>1, MovedIs
      <3> HIDE DEF q
      <3>3. /\ q.n300 = p.n300 + 1
            /\ q.n100 = p.n100
            /\ q.n50 = p.n50
            /\ q.miss = p.miss
            /\ q.geki = p.geki
            /\ q.katu = p.katu - 1
        BY <3>2 DEF Names
      <3>4. /\ Number!Counted(q) = Number!Counted(p) /\ Number!Counted(p) > 0
            /\ ManiaMax(q) = ManiaMax(p)
        BY <1>1, <3>1, <3>2, <3>3 DEF Number!Counted, ManiaMax
      <3>5. CASE p.scoreV2
        BY <1>1, <3>1, <3>2, <3>3, <3>4, <3>5 DEF ManiaScore, ManiaMax
      <3>6. CASE ~p.scoreV2
        BY <1>1, <3>1, <3>2, <3>3, <3>4, <3>6 DEF ManiaScore, ManiaMax
      <3> QED
        BY <3>5, <3>6
    <2>5. CASE b = <<"n300", "geki">>
      <3>1. "n300" \in Names /\ "geki" \in Names /\ p["n300"] > 0 /\ q = Moved(p, "n300", "geki")
        BY <2>5 DEF Names
      <3>2. /\ q \in Judgements /\ q.mode = p.mode /\ q.scoreV2 = p.scoreV2
            /\ \A f \in Names : q[f] = IF f = "n300" THEN p[f] - 1 ELSE IF f = "geki" THEN p[f] + 1 ELSE p[f]
        BY <3>1, MovedIs
      <3> HIDE DEF q
      <3>3. /\ q.n300 = p.n300 - 1
            /\ q.n100 = p.n100
            /\ q.n50 = p.n50
            /\ q.miss = p.miss
            /\ q.geki = p.geki + 1
            /\ q.katu = p.katu
        BY <3>2 DEF Names
      <3>4. /\ Number!Counted(q) = Number!Counted(p) /\ Number!Counted(p) > 0
            /\ ManiaMax(q) = ManiaMax(p)
        BY <1>1, <3>1, <3>2, <3>3 DEF Number!Counted, ManiaMax
      <3>5. CASE p.scoreV2
        BY <1>1, <3>1, <3>2, <3>3, <3>4, <3>5 DEF ManiaScore, ManiaMax
      <3>6. CASE ~p.scoreV2
        BY <1>1, <3>1, <3>2, <3>3, <3>4, <3>6 DEF ManiaScore, ManiaMax
      <3> QED
        BY <3>5, <3>6
    <2> QED
      BY <2>1, <2>2, <2>3, <2>4, <2>5 DEF Number!BetterBy
  <1> HIDE DEF q
  <1>3. /\ Number!Fits(q)
        /\ Number!Accuracy(p) = <<ManiaScore(p), ManiaMax(p) * Number!Counted(p)>>
        /\ Number!Accuracy(q) = <<ManiaScore(q), ManiaMax(p) * Number!Counted(p)>>
    BY <1>2, ManiaAccuracy DEF Number!Fits
  <1>4. ManiaMax(p) * Number!Counted(p) \in Int
    BY <1>1 DEF Number!Counted, ManiaMax
  <1>5. Number!Rank(Number!Best(ManiaConditions(Number!Accuracy(q))))
          >= Number!Rank(Number!Best(ManiaConditions(Number!Accuracy(p))))
    <2>1. /\ 0 \in Nat /\ ManiaMax(p) * Number!Counted(p) + 0 = ManiaMax(p) * Number!Counted(p)
          /\ ManiaScore(p) + 0 <= ManiaScore(q)
      BY <1>2, <1>4
    <2> QED
      BY <1>2, <1>3, <1>4, <2>1, AccuraciesGrow
  <1>6. /\ Number!GradeOf(p) = Number!Best(ManiaConditions(Number!Accuracy(p)))
        /\ Number!GradeOf(q) = Number!Best(ManiaConditions(Number!Accuracy(q)))
    BY <1>2, GradeIsBest DEF Number!GradeOf
  <1>7. NoWorse(p, q)
    BY <1>5, <1>6 DEF NoWorse
  <1> QED
    BY <1>7 DEF q

(* A judgement that is better never lowers the grade (calculate_tosu_grade *)
(* with calculate_accuracy, client.rs), as long as no counter overflows.   *)
THEOREM BetterIsNeverWorse ==
  ASSUME MaxCount \in Nat, NEW p \in Judgements
  PROVE  Number!BetterIsNoWorse(p)
  <1> SUFFICES ASSUME Number!Fits(p), NEW b \in Number!BetterBy(p.mode), p[b[1]] > 0
               PROVE  NoWorse(p, Moved(p, b[1], b[2]))
    BY DEF Number!BetterIsNoWorse, NoWorse, Moved
  <1>1. p.mode \in {0, 1} \/ p.mode = 2 \/ p.mode = 3
    BY DEF Judgements
  <1> QED
    BY <1>1, SharesOfBetter, CatchOfBetter, ManiaOfBetter

(* A play that goes on with the best judgements of its mode.               *)
More(p, a, r) == [p EXCEPT ![a] = @ + r]

LEMMA MoreIs ==
  ASSUME NEW p \in Judgements, NEW a \in Names, NEW r \in Nat
  PROVE  /\ More(p, a, r) \in Judgements
         /\ More(p, a, r).mode = p.mode /\ More(p, a, r).scoreV2 = p.scoreV2
         /\ \A f \in Names : More(p, a, r)[f] = IF f = a THEN p[f] + r ELSE p[f]
  <1> DEFINE q == More(p, a, r)
             Fields == Names \cup {"mode", "scoreV2"}
  <1>1. \A f \in Names : p[f] \in Nat
    BY DEF Judgements, Names
  <1>2. /\ DOMAIN p = Fields /\ p.mode \in 0..3 /\ p.scoreV2 \in BOOLEAN
        /\ "mode" \notin Names /\ "scoreV2" \notin Names
    BY DEF Judgements, Names
  <1>3. DOMAIN q = Fields /\ q = [f \in Fields |-> q[f]]
    BY <1>2 DEF More
  <1>4. \A f \in Fields : q[f] = IF f = a THEN p[f] + r ELSE p[f]
    BY <1>2 DEF More
  <1>5. \A f \in Names : q[f] \in Nat
    BY <1>1, <1>4
  <1>6. q.mode = p.mode /\ q.scoreV2 = p.scoreV2
    BY <1>2, <1>4
  <1>7. q \in Judgements
    <2> HIDE DEF q
    <2>1. /\ q.n300 \in Nat /\ q.n100 \in Nat /\ q.n50 \in Nat /\ q.miss \in Nat
          /\ q.geki \in Nat /\ q.katu \in Nat /\ q.mode \in 0..3 /\ q.scoreV2 \in BOOLEAN
      BY <1>2, <1>5, <1>6 DEF Names
    <2> QED
      BY <1>3, <2>1 DEF Judgements, Names
  <1> QED
    BY <1>4, <1>6, <1>7

Rest(p, objects) == IF objects > Number!Judged(p) THEN objects - Number!Judged(p) ELSE 0

LEMMA EndedIs ==
  ASSUME NEW p \in Judgements, NEW objects \in Nat
  PROVE  LET r == Rest(p, objects)
             e == Number!Ended(p, objects)
         IN /\ r \in Nat /\ e \in Judgements /\ e.mode = p.mode /\ e.scoreV2 = p.scoreV2
            /\ p.mode = 3 => e.n300 = p.n300 /\ e.geki = p.geki + r
            /\ p.mode # 3 => e.n300 = p.n300 + r /\ e.geki = p.geki
            /\ e.n100 = p.n100 /\ e.n50 = p.n50 /\ e.miss = p.miss /\ e.katu = p.katu
  <1> DEFINE r == Rest(p, objects)
             e == Number!Ended(p, objects)
  <1>1. Number!Judged(p) \in Nat
    BY DEF Number!Judged, Judgements
  <1>2. r \in Nat
    BY <1>1 DEF Rest
  <1>3. CASE p.mode = 3
    <2>1. e = More(p, "geki", r)
      BY <1>3 DEF Number!Ended, Rest, More
    <2> HIDE DEF e, r
    <2>2. /\ e \in Judgements /\ e.mode = p.mode /\ e.scoreV2 = p.scoreV2
          /\ \A f \in Names : e[f] = IF f = "geki" THEN p[f] + r ELSE p[f]
      BY <1>2, <2>1, MoreIs, ZenonT(30) DEF Names
    <2>3. /\ e.n300 = p.n300 /\ e.geki = p.geki + r
          /\ e.n100 = p.n100 /\ e.n50 = p.n50 /\ e.miss = p.miss /\ e.katu = p.katu
      BY <2>2 DEF Names
    <2>4. /\ r \in Nat /\ e \in Judgements /\ e.mode = p.mode /\ e.scoreV2 = p.scoreV2
          /\ p.mode = 3 => e.n300 = p.n300 /\ e.geki = p.geki + r
          /\ p.mode # 3 => e.n300 = p.n300 + r /\ e.geki = p.geki
          /\ e.n100 = p.n100 /\ e.n50 = p.n50 /\ e.miss = p.miss /\ e.katu = p.katu
      BY <1>2, <1>3, <2>2, <2>3
    <2> QED
      BY <2>4 DEF e, r
  <1>4. CASE p.mode # 3
    <2>1. e = More(p, "n300", r)
      BY <1>4 DEF Number!Ended, Rest, More
    <2> HIDE DEF e, r
    <2>2. /\ e \in Judgements /\ e.mode = p.mode /\ e.scoreV2 = p.scoreV2
          /\ \A f \in Names : e[f] = IF f = "n300" THEN p[f] + r ELSE p[f]
      BY <1>2, <2>1, MoreIs, ZenonT(30) DEF Names
    <2>3. /\ e.n300 = p.n300 + r /\ e.geki = p.geki
          /\ e.n100 = p.n100 /\ e.n50 = p.n50 /\ e.miss = p.miss /\ e.katu = p.katu
      BY <2>2 DEF Names
    <2>4. /\ r \in Nat /\ e \in Judgements /\ e.mode = p.mode /\ e.scoreV2 = p.scoreV2
          /\ p.mode = 3 => e.n300 = p.n300 /\ e.geki = p.geki + r
          /\ p.mode # 3 => e.n300 = p.n300 + r /\ e.geki = p.geki
          /\ e.n100 = p.n100 /\ e.n50 = p.n50 /\ e.miss = p.miss /\ e.katu = p.katu
      BY <1>2, <1>4, <2>2, <2>3
    <2> QED
      BY <2>4 DEF e, r
  <1> QED
    BY <1>3, <1>4

LEMMA GradeHasRank ==
  ASSUME NEW p \in Judgements
  PROVE  Number!Rank(Number!GradeOf(p)) \in Int
  <1>1. p.mode \in {0, 1} \/ p.mode = 2 \/ p.mode = 3
    BY DEF Judgements
  <1>2. /\ \E g \in 1..6 : Number!Rank(Number!Best(ShareConditions(p))) = g
        /\ \E g \in 1..6 : Number!Rank(Number!Best(CatchConditions(Number!Accuracy(p)))) = g
        /\ \E g \in 1..6 : Number!Rank(Number!Best(ManiaConditions(Number!Accuracy(p)))) = g
    BY Conditions, TopGrade
  <1> QED
    BY <1>1, <1>2, GradeIsBest DEF Number!GradeOf

LEMMA SharesOfTheEnd ==
  ASSUME MaxCount \in Nat, NEW p \in Judgements, NEW objects \in Nat, p.mode \in {0, 1},
         Number!Fits(Number!Ended(p, objects))
  PROVE  /\ Number!Projected(p, Number!Accuracy(p), objects) = Number!GradeOf(Number!Ended(p, objects))
         /\ NoWorse(p, Number!Ended(p, objects))
  <1> DEFINE r == Rest(p, objects)
             e == Number!Ended(p, objects)
             acc == Number!Accuracy(p)
  <1>1. /\ r \in Nat /\ e \in Judgements /\ e.mode = p.mode /\ e.n300 = p.n300 + r
        /\ e.n100 = p.n100 /\ e.n50 = p.n50 /\ e.miss = p.miss
    <2>1. p.mode # 3
      OBVIOUS
    <2> HIDE DEF e, r
    <2>2. LET x == Rest(p, objects)
              y == Number!Ended(p, objects)
          IN /\ x \in Nat /\ y \in Judgements /\ y.mode = p.mode
             /\ p.mode # 3 => y.n300 = p.n300 + x /\ y.geki = p.geki
             /\ y.n100 = p.n100 /\ y.n50 = p.n50 /\ y.miss = p.miss /\ y.katu = p.katu
      BY EndedIs
    <2> QED
      BY <2>1, <2>2 DEF e, r
  <1>2. /\ p.n300 \in Nat /\ p.n100 \in Nat /\ p.n50 \in Nat /\ p.miss \in Nat
    BY DEF Judgements
  <1>3. Number!Judged(e) = Number!Judged(p) + r /\ Number!Judged(p) \in Nat
    BY <1>1, <1>2 DEF Number!Judged
  <1>4. p.n300 + r <= MaxCount
    <2>1. Number!Counted(e) <= MaxCount
      BY DEF Number!Fits
    <2> HIDE DEF e, r
    <2>2. Number!Counted(e) = p.n300 + r + p.n100 + p.n50 + p.miss
          \/ Number!Counted(e) = p.n300 + r + p.n100 + p.miss
      BY <1>1 DEF Number!Counted
    <2> QED
      BY <1>1, <1>2, <2>1, <2>2
  <1>5. Number!Projected(p, acc, objects) = Number!Best(ShareConditions(e))
    <2>1. CASE objects - Number!Judged(p) <= 0
      <3>1. r = 0
        BY <1>3, <2>1 DEF Rest
      <3>2. Number!Projected(p, acc, objects) = Number!Best(ShareConditions(p))
        BY <2>1, GradeIsBest DEF Number!Projected
      <3> HIDE DEF e, r
      <3>3. Number!Judged(e) = Number!Judged(p) /\ e.n300 = p.n300
        BY <1>1, <1>2, <1>3, <3>1
      <3>4. ShareConditions(e) = ShareConditions(p)
        BY <1>1, <3>3 DEF ShareConditions
      <3> QED
        BY <3>2, <3>4
    <2>2. CASE objects - Number!Judged(p) > 0
      <3>1. r = objects - Number!Judged(p)
        BY <1>3, <2>2 DEF Rest
      <3>2. e = More(p, "n300", r)
        BY <3>1 DEF Number!Ended, Rest, More
      <3>3. Number!Projected(p, acc, objects) = Number!Grade(More(p, "n300", r), acc)
        <4>1. ~(p.n300 + (objects - Number!Judged(p)) > MaxCount)
          BY <1>1, <1>2, <1>4, <3>1
        <4>2. ~(objects - Number!Judged(p) <= 0)
          BY <1>3, <2>2
        <4> QED
          BY <3>1, <4>1, <4>2 DEF Number!Projected, More
      <3> QED
        BY <1>1, <3>2, <3>3, GradeIsBest
    <2> QED
      BY <1>3, <2>1, <2>2
  <1>6. Number!GradeOf(e) = Number!Best(ShareConditions(e)) /\ Number!GradeOf(p) = Number!Best(ShareConditions(p))
    BY <1>1, GradeIsBest DEF Number!GradeOf
  <1> HIDE DEF e, r, acc
  <1>7. Number!Rank(Number!Best(ShareConditions(e))) >= Number!Rank(Number!Best(ShareConditions(p)))
    BY <1>1, <1>2, <1>3, SharesGrow
  <1>8. Number!Projected(p, acc, objects) = Number!GradeOf(e) /\ NoWorse(p, e)
    BY <1>5, <1>6, <1>7 DEF NoWorse
  <1> QED
    BY <1>8 DEF e, acc

LEMMA CatchOfTheEnd ==
  ASSUME MaxCount \in Nat, NEW p \in Judgements, NEW objects \in Nat, p.mode = 2,
         Number!Fits(Number!Ended(p, objects))
  PROVE  /\ Number!Projected(p, Number!Accuracy(p), objects) = Number!GradeOf(p)
         /\ NoWorse(p, Number!Ended(p, objects))
  <1> DEFINE r == Rest(p, objects)
             e == Number!Ended(p, objects)
             acc == Number!Accuracy(p)
  <1>1. /\ r \in Nat /\ e \in Judgements /\ e.mode = 2 /\ e.n300 = p.n300 + r
        /\ e.n100 = p.n100 /\ e.n50 = p.n50 /\ e.miss = p.miss /\ e.katu = p.katu
    <2>1. p.mode # 3
      OBVIOUS
    <2> HIDE DEF e, r
    <2>2. LET x == Rest(p, objects)
              y == Number!Ended(p, objects)
          IN /\ x \in Nat /\ y \in Judgements /\ y.mode = p.mode
             /\ p.mode # 3 => y.n300 = p.n300 + x /\ y.geki = p.geki
             /\ y.n100 = p.n100 /\ y.n50 = p.n50 /\ y.miss = p.miss /\ y.katu = p.katu
      BY EndedIs
    <2> QED
      BY <2>1, <2>2 DEF e, r
  <1>2. /\ p.n300 \in Nat /\ p.n100 \in Nat /\ p.n50 \in Nat /\ p.miss \in Nat /\ p.katu \in Nat
    BY DEF Judgements
  <1>3. Number!Projected(p, acc, objects) = Number!GradeOf(p) /\ Number!GradeOf(p) = Number!Best(CatchConditions(acc))
    <2>1. \A n : Number!Grade([p EXCEPT !.n300 = n], acc) = Number!Best(CatchConditions(acc))
      <3>1. TAKE n
      <3>2. [p EXCEPT !.n300 = n].mode = 2
        BY DEF Judgements
      <3> QED
        BY <3>2, GradeIsBest
    <2>2. Number!Grade(p, acc) = Number!Best(CatchConditions(acc))
      BY GradeIsBest
    <2> QED
      BY <2>1, <2>2 DEF Number!Projected, Number!GradeOf
  <1>4. Number!GradeOf(e) = Number!Best(CatchConditions(Number!Accuracy(e)))
    BY <1>1, GradeIsBest DEF Number!GradeOf
  <1>5. Number!Fits(e)
    OBVIOUS
  <1> HIDE DEF e, r, acc
  <1>6. /\ Number!Counted(e) = Number!Counted(p) + r /\ Number!Counted(p) \in Nat /\ Number!Fits(p)
    BY <1>1, <1>2, <1>5 DEF Number!Counted, Number!Fits
  <1>7. Number!Rank(Number!Best(CatchConditions(Number!Accuracy(e))))
          >= Number!Rank(Number!Best(CatchConditions(Number!Accuracy(p))))
    <2>1. CASE Number!Counted(p) # 0
      <3>1. /\ Number!Accuracy(p) = <<p.n300 + p.n100 + p.n50, Number!Counted(p)>>
            /\ Number!Accuracy(e) = <<e.n300 + e.n100 + e.n50, Number!Counted(p) + r>>
        BY <1>1, <1>5, <1>6, <2>1, CatchAccuracy
      <3>2. /\ p.n300 + p.n100 + p.n50 \in Int /\ e.n300 + e.n100 + e.n50 \in Int
            /\ p.n300 + p.n100 + p.n50 + r <= e.n300 + e.n100 + e.n50
        BY <1>1, <1>2
      <3> QED
        BY <1>1, <1>6, <3>1, <3>2, AccuraciesGrow
    <2>2. CASE Number!Counted(p) = 0
      <3>1. Number!Accuracy(p) = <<1, 1>>
        <4>1. Number!InWidth(0) = 0
          BY WidthOfFitting
        <4> QED
          BY <2>2, <4>1 DEF Number!Accuracy
      <3>2. CASE r = 0
        <4>1. Number!Accuracy(e) = <<1, 1>>
          <5>1. Number!InWidth(0) = 0 /\ Number!Counted(e) = 0
            BY <1>6, <2>2, <3>2, WidthOfFitting
          <5> QED
            BY <5>1 DEF Number!Accuracy
        <4>2. 0 \in Nat /\ 1 \in Int /\ 1 + 0 = 1 /\ 1 + 0 <= 1
          OBVIOUS
        <4> QED
          BY <3>1, <4>1, <4>2, AccuraciesGrow
      <3>3. CASE r > 0
        <4>1. Number!Counted(p) = p.n300 + p.n100 + p.n50 + p.miss + p.katu
          BY DEF Number!Counted
        <4>2. Number!Accuracy(e) = <<e.n300 + e.n100 + e.n50, Number!Counted(e)>>
          BY <1>1, <1>5, <1>6, <3>3, CatchAccuracy
        <4>3. Number!Accuracy(e) = <<r, 1 + (r - 1)>>
          <5>1. p.n300 = 0 /\ p.n100 = 0 /\ p.n50 = 0
            <6>1. p.n300 + p.n100 + p.n50 + p.miss + p.katu <= 0
              BY <1>2, <2>2, <4>1
            <6>2. p.n300 <= 0
              BY <1>2, <6>1
            <6>3. p.n100 <= 0
              BY <1>2, <6>1
            <6>4. p.n50 <= 0
              BY <1>2, <6>1
            <6> QED
              BY <1>2, <6>2, <6>3, <6>4
          <5>2. e.n300 + e.n100 + e.n50 = r
            BY <1>1, <1>2, <5>1
          <5>3. Number!Counted(e) = r /\ r = 1 + (r - 1)
            BY <1>1, <1>6, <2>2
          <5> QED
            BY <4>2, <5>2, <5>3
        <4>4. r \in Int /\ 1 \in Int /\ r - 1 \in Nat /\ 1 + (r - 1) <= r
          BY <1>1, <3>3
        <4> QED
          BY <3>1, <4>3, <4>4, AccuraciesGrow
      <3> QED
        BY <1>1, <3>2, <3>3
    <2> QED
      BY <2>1, <2>2
  <1>8. NoWorse(p, e)
    BY <1>3, <1>4, <1>7 DEF NoWorse, acc
  <1> QED
    BY <1>3, <1>8 DEF e, acc

LEMMA ManiaOfTheEnd ==
  ASSUME MaxCount \in Nat, NEW p \in Judgements, NEW objects \in Nat, p.mode = 3,
         Number!Fits(Number!Ended(p, objects))
  PROVE  /\ Number!Projected(p, Number!Accuracy(p), objects) = Number!GradeOf(p)
         /\ NoWorse(p, Number!Ended(p, objects))
  <1> DEFINE r == Rest(p, objects)
             e == Number!Ended(p, objects)
             acc == Number!Accuracy(p)
  <1>1. /\ r \in Nat /\ e \in Judgements /\ e.mode = 3 /\ e.scoreV2 = p.scoreV2
        /\ e.n300 = p.n300 /\ e.geki = p.geki + r
        /\ e.n100 = p.n100 /\ e.n50 = p.n50 /\ e.miss = p.miss /\ e.katu = p.katu
    BY EndedIs
  <1>2. /\ p.n300 \in Nat /\ p.n100 \in Nat /\ p.n50 \in Nat /\ p.miss \in Nat
        /\ p.katu \in Nat /\ p.geki \in Nat /\ p.scoreV2 \in BOOLEAN
    BY DEF Judgements
  <1>3. Number!Projected(p, acc, objects) = Number!GradeOf(p) /\ Number!GradeOf(p) = Number!Best(ManiaConditions(acc))
    <2>1. \A n : Number!Grade([p EXCEPT !.n300 = n], acc) = Number!Best(ManiaConditions(acc))
      <3>1. TAKE n
      <3>2. [p EXCEPT !.n300 = n].mode = 3
        BY DEF Judgements
      <3> QED
        BY <3>2, GradeIsBest
    <2>2. Number!Grade(p, acc) = Number!Best(ManiaConditions(acc))
      BY GradeIsBest
    <2> QED
      BY <2>1, <2>2 DEF Number!Projected, Number!GradeOf
  <1>4. Number!GradeOf(e) = Number!Best(ManiaConditions(Number!Accuracy(e)))
    BY <1>1, GradeIsBest DEF Number!GradeOf
  <1>5. Number!Fits(e)
    OBVIOUS
  <1> HIDE DEF e, r, acc
  <1>6. /\ Number!Counted(e) = Number!Counted(p) + r /\ Number!Counted(p) \in Nat /\ Number!Fits(p)
    BY <1>1, <1>2, <1>5 DEF Number!Counted, Number!Fits
  <1>7. Number!Rank(Number!Best(ManiaConditions(Number!Accuracy(e))))
          >= Number!Rank(Number!Best(ManiaConditions(Number!Accuracy(p))))
    <2>1. CASE Number!Counted(p) # 0
      <3> DEFINE k == ManiaMax(p) * r
                 C == Number!Counted(p)
      <3>1. /\ Number!Accuracy(p) = <<ManiaScore(p), ManiaMax(p) * C>>
            /\ Number!Accuracy(e) = <<ManiaScore(e), ManiaMax(p) * (C + r)>>
        BY <1>1, <1>5, <1>6, <2>1, ManiaAccuracy DEF ManiaMax
      <3>2. /\ k \in Nat /\ ManiaMax(p) * C \in Int /\ ManiaMax(p) * (C + r) = ManiaMax(p) * C + k
            /\ ManiaScore(p) \in Int /\ ManiaScore(e) \in Int /\ ManiaScore(p) + k <= ManiaScore(e)
        <4>1. C \in Nat
          BY <1>6
        <4> HIDE DEF C
        <4>2. CASE p.scoreV2
          BY <1>1, <1>2, <4>1, <4>2 DEF ManiaScore, ManiaMax
        <4>3. CASE ~p.scoreV2
          BY <1>1, <1>2, <4>1, <4>3 DEF ManiaScore, ManiaMax
        <4> QED
          BY <4>2, <4>3
      <3> HIDE DEF C, k
      <3> QED
        BY <3>1, <3>2, AccuraciesGrow
    <2>2. CASE Number!Counted(p) = 0
      <3>1. Number!Accuracy(p) = <<1, 1>>
        <4>1. Number!InWidth(0) = 0
          BY WidthOfFitting
        <4> QED
          BY <2>2, <4>1 DEF Number!Accuracy
      <3>2. CASE r = 0
        <4>1. Number!Accuracy(e) = <<1, 1>>
          <5>1. Number!InWidth(0) = 0 /\ Number!Counted(e) = 0
            BY <1>6, <2>2, <3>2, WidthOfFitting
          <5> QED
            BY <5>1 DEF Number!Accuracy
        <4>2. 0 \in Nat /\ 1 \in Int /\ 1 + 0 = 1 /\ 1 + 0 <= 1
          OBVIOUS
        <4> QED
          BY <3>1, <4>1, <4>2, AccuraciesGrow
      <3>3. CASE r > 0
        <4> DEFINE k == ManiaMax(p) * r
        <4>1. Number!Counted(p) = p.geki + p.n300 + p.katu + p.n100 + p.n50 + p.miss
          BY DEF Number!Counted
        <4>2. Number!Accuracy(e) = <<ManiaScore(e), ManiaMax(p) * r>>
          BY <1>1, <1>5, <1>6, <2>2, <3>3, ManiaAccuracy DEF ManiaMax
        <4>3. ManiaScore(e) = k /\ k \in Int /\ k - 1 \in Nat
          <5>1. /\ p.geki = 0 /\ p.n300 = 0 /\ p.katu = 0 /\ p.n100 = 0 /\ p.n50 = 0
            <6>1. p.geki + p.n300 + p.katu + p.n100 + p.n50 + p.miss <= 0
              BY <1>2, <2>2, <4>1
            <6>2. p.geki <= 0
              BY <1>2, <6>1
            <6>3. p.n300 <= 0
              BY <1>2, <6>1
            <6>4. p.katu <= 0
              BY <1>2, <6>1
            <6>5. p.n100 <= 0
              BY <1>2, <6>1
            <6>6. p.n50 <= 0
              BY <1>2, <6>1
            <6> QED
              BY <1>2, <6>2, <6>3, <6>4, <6>5, <6>6
          <5>2. CASE p.scoreV2
            BY <1>1, <3>3, <5>1, <5>2 DEF ManiaScore, ManiaMax
          <5>3. CASE ~p.scoreV2
            BY <1>1, <3>3, <5>1, <5>3 DEF ManiaScore, ManiaMax
          <5> QED
            BY <5>2, <5>3
        <4> HIDE DEF k
        <4>4. Number!Accuracy(e) = <<k, 1 + (k - 1)>> /\ 1 \in Int /\ 1 + (k - 1) <= k
          BY <4>2, <4>3 DEF k
        <4> QED
          BY <3>1, <4>3, <4>4, AccuraciesGrow
      <3> QED
        BY <1>1, <3>2, <3>3
    <2> QED
      BY <2>1, <2>2
  <1>8. NoWorse(p, e)
    BY <1>3, <1>4, <1>7 DEF NoWorse, acc
  <1> QED
    BY <1>3, <1>8 DEF e, acc

(* "The grade this play would end on if nothing else is missed"            *)
(* (calculate_tosu_grade_projected, client.rs) is no worse than the grade  *)
(* now and no better than the play can end on; in osu! and taiko exactly   *)
(* that.                                                                   *)
THEOREM ProjectionIsWithinReach ==
  ASSUME MaxCount \in Nat, NEW p \in Judgements, NEW objects \in Nat
  PROVE  Number!ProjectionIsBetween(p, objects)
  <1> SUFFICES ASSUME Number!Fits(Number!Ended(p, objects))
               PROVE  LET projected == Number!Projected(p, Number!Accuracy(p), objects)
                          end == Number!GradeOf(Number!Ended(p, objects))
                      IN /\ Number!Rank(Number!GradeOf(p)) <= Number!Rank(projected)
                         /\ Number!Rank(projected) <= Number!Rank(end)
                         /\ p.mode \in {0, 1} => projected = end
    BY DEF Number!ProjectionIsBetween
  <1>1. \A q \in Judgements : Number!Rank(Number!GradeOf(q)) \in Int
    BY GradeHasRank
  <1>2. Number!Ended(p, objects) \in Judgements
    BY EndedIs
  <1>3. p.mode \in {0, 1} \/ p.mode = 2 \/ p.mode = 3
    BY DEF Judgements
  <1>4. CASE p.mode \in {0, 1}
    BY <1>1, <1>2, <1>4, SharesOfTheEnd DEF NoWorse
  <1>5. CASE p.mode = 2
    BY <1>1, <1>2, <1>5, CatchOfTheEnd DEF NoWorse
  <1>6. CASE p.mode = 3
    BY <1>1, <1>2, <1>6, ManiaOfTheEnd DEF NoWorse
  <1> QED
    BY <1>3, <1>4, <1>5, <1>6

(* What a play may end with counts as one, so the two hold of every play   *)
(* that is graded.                                                         *)
THEOREM PlaysAreScored == AllSpec => []PlayIsScored
<1> DEFINE I == judged \subseteq Judgements
<1>1. Plays \subseteq Judgements
  <2> SUFFICES ASSUME NEW p \in Plays PROVE p \in Judgements
    OBVIOUS
  <2>1. p \in [mode : 0..3, n300 : Hits, n100 : {0, 1, 9}, n50 : {0, 1}, miss : {0, 1, 3},
               geki : Hits, katu : {0, 1}, scoreV2 : BOOLEAN]
    BY DEF Plays
  <2>2. \A h \in Hits : h \in Nat
    BY NumbersAssumption DEF NumbersAssumption
  <2>3. /\ p.n300 \in Nat /\ p.n100 \in Nat /\ p.n50 \in Nat /\ p.miss \in Nat
        /\ p.geki \in Nat /\ p.katu \in Nat
    <3>1. p.n300 \in Hits /\ p.geki \in Hits
      BY <2>1
    <3>2. p.n100 \in {0, 1, 9} /\ p.n50 \in {0, 1} /\ p.miss \in {0, 1, 3} /\ p.katu \in {0, 1}
      BY <2>1
    <3>3. p.n300 \in Nat /\ p.geki \in Nat
      BY <2>2, <3>1, Zenon
    <3>4. p.n100 \in Nat /\ p.n50 \in Nat /\ p.miss \in Nat /\ p.katu \in Nat
      BY <3>2
    <3> QED
      BY <3>3, <3>4
  <2>4. p = [mode |-> p.mode, n300 |-> p.n300, n100 |-> p.n100, n50 |-> p.n50,
             miss |-> p.miss, geki |-> p.geki, katu |-> p.katu, scoreV2 |-> p.scoreV2]
    BY <2>1
  <2>5. p.mode \in 0..3 /\ p.scoreV2 \in BOOLEAN
    BY <2>1
  <2>6. QED
    BY <2>3, <2>4, <2>5 DEF Judgements
<1>2. AllInit => I
  BY DEF AllInit
<1>3. I /\ [AllNext]_allVars => I'
  BY <1>1 DEF AllNext, allVars, Advance, Judged
<1>4. I => PlayIsScored
  <2>1. MaxCount \in Nat /\ ObjectTotals \subseteq Nat
    BY NumbersAssumption DEF NumbersAssumption
  <2>2. QED
    BY <2>1, BetterIsNeverWorse, ProjectionIsWithinReach DEF PlayIsScored
<1>5. QED
  BY <1>2, <1>3, <1>4, PTL DEF AllSpec
=============================================================================
