---------------------------- MODULE TourneyPacket ----------------------------
(***************************************************************************)
(* What a read of the game becomes in the packet: format_tourney_packet    *)
(* and gameplay_to_play (src/src/reader.rs) for the clients of a           *)
(* tournament, and the play block of SoloSession::poll (src/src/session.rs)*)
(* for the one game there is, while it is played and on its results        *)
(* screen.  A score is weighted on the way (ModMultipliers::apply,         *)
(* src/src/scoring.rs).                                                    *)
(***************************************************************************)
EXTENDS Payloads

CONSTANTS
  Nothing,       (* None: not read                                         *)
  MaxScore       (* i32::MAX                                               *)

(* A table: the factor of each set of mods, in hundredths (scoring.rs:     *)
(* PlayNumbers models factor_for).                                         *)
Weighted(table, mods, score) ==
  LET factor == table.factors[mods.number]
      product == RoundTo(score * factor, 100) \div 100
  IN IF table.identity \/ score = 0 \/ factor = 100 THEN score
     ELSE IF score * factor >= MaxScore * 100 THEN MaxScore ELSE product

-----------------------------------------------------------------------------
(* GameplayState (src/src/client.rs).                                      *)
Gameplay ==
  [playerName : STRING, mode : Int, score : Int, accuracy : Num, hp : Int, hpSmooth : Int,
   combo : Int, maxCombo : Int, hits : [Judgements -> Int], hitErrorArray : Seq(Int),
   mods : Mods, grade : STRING, gradeMax : STRING, unstableRate : Num, keyOverlay : KeyOverlay]

NoKeys == [k \in {"k1", "k2", "m1", "m2"} |-> [isPressed |-> FALSE, count |-> 0]]
NoMods == [number |-> 0, name |-> "", rate |-> 4]
NoPp ==
  [current |-> 0, fc |-> 0, maxAchieved |-> 0, maxAchievable |-> 0,
   detailed |-> [w \in {"current", "fc"} |->
     [f \in {"aim", "speed", "accuracy", "difficulty", "flashlight", "total"} |-> 0]]]
NoPlay ==
  [failed |-> FALSE, playerName |-> "", mode |-> [number |-> 0, name |-> ""], score |-> 0,
   accuracy |-> 0, healthBar |-> [normal |-> 0, smooth |-> 0],
   hits |-> [h \in Judgements \cup Ticks \cup {"sliderBreaks"} |-> 0], hitErrorArray |-> <<>>,
   combo |-> [current |-> 0, max |-> 0], mods |-> NoMods,
   rank |-> [current |-> "", maxThisPlay |-> ""], pp |-> NoPp, unstableRate |-> 0,
   keyOverlay |-> NoKeys]

Bar(g) == [normal |-> g.hp \div 2, smooth |-> g.hpSmooth \div 2]
Ruleset(mode) == [number |-> mode, name |-> RulesetName(mode)]

(* gameplay_to_play: what is not read is nothing.                          *)
PlayOf(g) ==
  IF g = Nothing THEN NoPlay
  ELSE [NoPlay EXCEPT
         !.failed = g.hp <= 0, !.playerName = g.playerName, !.mode = Ruleset(g.mode),
         !.score = g.score, !.accuracy = g.accuracy, !.healthBar = Bar(g), !.hits = g.hits @@ @,
         !.hitErrorArray = g.hitErrorArray, !.combo = [current |-> g.combo, max |-> g.maxCombo],
         !.mods = g.mods, !.rank = [current |-> g.grade, maxThisPlay |-> g.gradeMax],
         !.unstableRate = g.unstableRate, !.keyOverlay = g.keyOverlay]

(* What both reads of the solo session overwrite.                          *)
Overwritten(play, g, table) ==
  [play EXCEPT
    !.playerName = g.playerName, !.mode = Ruleset(g.mode),
    !.score = Weighted(table, g.mods, g.score), !.accuracy = g.accuracy,
    !.combo = [current |-> g.combo, max |-> g.maxCombo], !.hits = g.hits @@ @,
    !.healthBar = Bar(g), !.hitErrorArray = g.hitErrorArray, !.unstableRate = g.unstableRate,
    !.rank = [current |-> g.grade, maxThisPlay |-> g.gradeMax],
    !.mods = IF @.number # g.mods.number THEN g.mods ELSE @]

(* In a play.  The slider breaks are inferred (SoloPlay models it).        *)
SoloPlaying(play, g, table, hitErrors, breaks) ==
  [Overwritten(play, g, table) EXCEPT
    !.failed = g.hp <= 0, !.hits["sliderBreaks"] = breaks, !.keyOverlay = g.keyOverlay,
    !.hitErrorArray = IF hitErrors THEN @ ELSE <<>>]

(* On the results screen: keys released, the end of the play as it was,    *)
(* and the hit errors whatever the setting says.                           *)
SoloResults(play, g, table) == [Overwritten(play, g, table) EXCEPT !.keyOverlay = NoKeys]

-----------------------------------------------------------------------------
GuestProfile ==
  [userStatus |-> [number |-> 256, name |-> "guest"], banchoStatus |-> [number |-> 0, name |-> "idle"],
   id |-> -1, name |-> "Guest", mode |-> Ruleset(0), backgroundColour |-> "ff010101",
   countryCode |-> [number |-> 0, name |-> ""]]
  @@ [f \in {"rankedScore", "level", "accuracy", "pp", "playCount", "globalRank"} |-> 0]

(* profile_state: numbers as they are read, each with its name.            *)
LoginNames == 0 :> "reconnecting" @@ 256 :> "guest" @@ 257 :> "recieving_data"
              @@ 65537 :> "disconnected" @@ 65793 :> "connected"
BanchoNames == <<"idle", "afk", "playing", "editing", "modding", "multiplayer", "watching",
  "unknown", "testing", "submitting", "paused", "lobby", "multiplaying", "osuDirect">>
NameIn(names, n) == IF n \in DOMAIN names THEN names[n] ELSE ""
ProfileOf(f, countries) ==
  [userStatus |-> [number |-> f.login, name |-> NameIn(LoginNames, f.login)],
   banchoStatus |-> [number |-> f.bancho, name |-> NameIn(BanchoNames, f.bancho + 1)],
   mode |-> Ruleset(f.playMode),
   countryCode |-> [number |-> f.country, name |-> NameIn(countries, f.country)],
   pp |-> f.performancePoints, globalRank |-> f.rank]
  @@ Only(f, {"id", "name", "rankedScore", "level", "accuracy", "playCount", "backgroundColour"})

NoUser == [id |-> 0, name |-> "", country |-> "", accuracy |-> 0, rankedScore |-> 0,
           playCount |-> 0, globalRank |-> 0, totalPP |-> 0]

ClientOf(c, table, hitErrors) ==
  LET play == PlayOf(c.gameplay) IN
  [ipcId |-> c.ipcId, team |-> c.team, user |-> IF c.user = Nothing THEN NoUser ELSE c.user,
   play |-> [play EXCEPT !.score = Weighted(table, play.mods, @),
                         !.hitErrorArray = IF hitErrors THEN @ ELSE <<>>,
                         !.pp = IF c.pp = Nothing THEN @ ELSE c.pp]]

SumOf(clients, team) ==
  FoldSeq(LAMBDA c, sum : IF c.team = team THEN sum + c.play.score ELSE sum, 0, clients)

(* Mutant: the manager's own totals stand.                                 *)
TotalsOfManager(manager, clients, identity) == manager

(* apply_weighted_total_score                                              *)
Totals(manager, clients, identity) ==
  LET sums == [left |-> SumOf(clients, "left"), right |-> SumOf(clients, "right")] IN
  IF identity \/ sums = [left |-> 0, right |-> 0] THEN manager ELSE sums

(* The manager's part, or none of it; the beatmap, profile and leaderboard *)
(* as the session has them.                                                *)
NoManager ==
  [ipcState |-> 0, bestOF |-> 0, scoreVisible |-> FALSE, starsVisible |-> FALSE,
   points |-> [s \in Sides |-> 0], totalScore |-> [s \in Sides |-> 0],
   team |-> [s \in Sides |-> ""], chat |-> <<>>]

PacketOf(snap, table, hitErrors, countries, empty) ==
  LET clients == [i \in DOMAIN snap.clients |-> ClientOf(snap.clients[i], table, hitErrors)]
      manager == IF snap.manager = Nothing THEN NoManager ELSE snap.manager
  IN [client |-> "stable", state |-> [number |-> 22, name |-> "tourney"], play |-> NoPlay,
      profile |-> IF snap.profile = Nothing THEN GuestProfile ELSE ProfileOf(snap.profile, countries),
      beatmap |-> IF snap.beatmap = Nothing THEN empty.beatmap ELSE snap.beatmap,
      resultsScreen |-> empty.resultsScreen, leaderboard |-> snap.leaderboard,
      performance |-> snap.performance, folders |-> snap.folders,
      tourney |-> [manager EXCEPT !.totalScore = Totals(@, clients, table.identity)]
                  @@ [clients |-> clients]]

-----------------------------------------------------------------------------
(* "A bar that does not equal its own rows": once the table weighs and a   *)
(* team has scored, each total is that of the rows of its side.            *)
TotalsAreTheRows(packet, identity) ==
  LET clients == packet.tourney.clients
      ofSide(s) == {i \in DOMAIN clients : clients[i].team = s}
      total(s) == MapThenSumSet(LAMBDA i : clients[i].play.score, ofSide(s))
  IN identity \/ (total("left") = 0 /\ total("right") = 0)
     \/ packet.tourney.totalScore = [s \in Sides |-> total(s)]

(* A game is reported alike whether it is the only one or the client of a  *)
(* tournament, but for what the solo session infers, and whatever the      *)
(* packet showed before.                                                   *)
IsReportedAlike(client, packet, play) ==
  LET ofClient == packet.tourney.clients[1].play IN
  [play EXCEPT !.hits["sliderBreaks"] = 0, !.pp = NoPp] = [ofClient EXCEPT !.pp = NoPp]

(* Without the setting no hit error is served.                             *)
HidesErrors(packet, play) ==
  play.hitErrorArray = <<>>
  /\ \A i \in DOMAIN packet.tourney.clients : packet.tourney.clients[i].play.hitErrorArray = <<>>
=============================================================================
