------------------------------ MODULE Payloads ------------------------------
(***************************************************************************)
(* One packet, four payloads: /json/v2 is the packet itself (v2.rs),       *)
(* /json and /json/v1 what gosumemory served (v1.rs), /json/sc what        *)
(* StreamCompanion served (sc.rs), and /json/v2/precise its fast part.     *)
(* Each is a function of the packet, written on its own, so what they say  *)
(* in common they say in three ways.  Decimals are integers in 1/10000, a  *)
(* text put together from others is the sequence of those, and a path that *)
(* of its parts.                                                           *)
(***************************************************************************)
EXTENDS Integers, Sequences, SequencesExt

CONSTANTS
  NaN,           (* a float that is no number                              *)
  Absent         (* None: a preview time the file does not give            *)

Unit == 10000
Num == Int \cup {NaN}

(* The fields of r that names lists, each under its new name.              *)
Renamed(r, names) == [n \in DOMAIN names |-> r[names[n]]]
Only(r, fields) == Restrict(r, fields)

-----------------------------------------------------------------------------
(* The packet: v2.rs, and beatmap.rs for what it says of the map.          *)
Named == [number : Int, name : STRING]
Judgements == {"0", "50", "100", "300", "geki", "katu"}
Ticks == {"sliderEndHits", "smallTickHits", "largeTickHits"}
Sides == {"left", "right"}
Accuracies == {"90", "91", "92", "93", "94", "95", "96", "97", "98", "99", "100"}
Texts(fields) == [fields -> STRING]

Combo == [{"current", "max"} -> Int]
(* The rate in quarters.                                                   *)
Mods == [number : Nat, name : STRING, rate : {3, 4, 6}]
Button == [isPressed : BOOLEAN, count : Int]
KeyOverlay == [{"k1", "k2", "m1", "m2"} -> Button]
Breakdown == [{"aim", "speed", "accuracy", "difficulty", "flashlight", "total"} -> Num]
LivePp ==
  [current : Num, fc : Num, maxAchieved : Num, maxAchievable : Num,
   detailed : [{"current", "fc"} -> Breakdown]]

Play ==
  [failed : BOOLEAN, playerName : STRING, mode : Named, score : Int, accuracy : Num,
   healthBar : [{"normal", "smooth"} -> Num],
   hits : [Judgements \cup Ticks \cup {"sliderBreaks"} -> Int],
   hitErrorArray : Seq(Int), combo : Combo, mods : Mods,
   rank : Texts({"current", "maxThisPlay"}), pp : LivePp, unstableRate : Num,
   keyOverlay : KeyOverlay]

Results ==
  [scoreId : Int, playerName : STRING, mode : Named, score : Int, accuracy : Num,
   name : STRING, hits : [Judgements \cup Ticks -> Int], mods : Mods, maxCombo : Int,
   rank : STRING, pp : [{"current", "fc"} -> Num], createdAt : STRING]

Profile ==
  [userStatus : Named, banchoStatus : Named, id : Int, name : STRING, mode : Named,
   rankedScore : Int, level : Num, accuracy : Num, pp : Int, playCount : Int,
   globalRank : Int, countryCode : Named, backgroundColour : STRING]

Graph == [series : Seq([name : STRING, data : Seq(Num)]), xaxis : Seq(Num)]

Entry ==
  [isFailed : BOOLEAN, position : Int, team : Int, id : Int, name : STRING, score : Int,
   accuracy : Num, hits : [Judgements -> Int], combo : Combo, mods : Mods, rank : STRING]

Converted == [{"original", "converted"} -> Num]
Stats ==
  [stars : [{"live", "total"} -> Num],
   ar : Converted, cs : Converted, od : Converted, hp : Converted,
   bpm : [{"realtime", "common", "min", "max"} -> Num],
   objects : [{"circles", "sliders", "spinners", "holds", "total"} -> Int],
   maxCombo : Int]

MetadataTexts == {"checksum", "artist", "artistUnicode", "title", "titleUnicode", "mapper",
  "version", "folder", "filename", "audioFilename", "backgroundFilename"}
Beatmap ==
  [time : [{"live", "firstObject", "lastObject", "mp3Length"} -> Int],
   status : Named, id : Int, set : Int, mode : Named, currentRuleset : Int,
   texts : Texts(MetadataTexts), stats : Stats,
   breaks : Seq([startTime : Int, endTime : Int, hasEffect : BOOLEAN]),
   timingPoints : Seq([time : Int, beatLength : Num]), previewTime : Int \cup {Absent}]

User ==
  [id : Int, name : STRING, country : STRING, accuracy : Num, rankedScore : Int,
   playCount : Int, globalRank : Int, totalPP : Int]
Client == [ipcId : Nat, team : STRING, user : User, play : Play]
Message == Texts({"team", "time", "name", "message"})

Tourney ==
  [scoreVisible : BOOLEAN, starsVisible : BOOLEAN, ipcState : Int, bestOF : Int,
   team : Texts(Sides), points : [Sides -> Int], chat : Seq(Message),
   totalScore : [Sides -> Int], clients : Seq(Client)]

Packet ==
  [client : STRING, state : Named, profile : Profile, beatmap : Beatmap, play : Play,
   leaderboard : Seq(Entry), performance : [accuracy : [Accuracies -> Num], graph : Graph],
   resultsScreen : Results, folders : Texts({"game", "skin", "songs"}), tourney : Tourney]

-----------------------------------------------------------------------------
(* performance_graph (session.rs): the strains of the map, one for each    *)
(* 400 ms from its first object on, set into the length of the song.       *)
(* Times are in thirds of a millisecond, which both rates divide.          *)
Section == 1200
Padding == -1000000          (* -100, in the decimals of the payloads      *)

(* A time of the map as it passes under the mods, in thirds.               *)
AtRate(ms, mods) ==
  IF mods \cap {"DT", "NC"} # {} THEN 2 * ms ELSE IF "HT" \in mods THEN 4 * ms ELSE 3 * ms

(* What the file says, or else the objects of the map.                     *)
FirstTime(map) ==
  IF map.first > 0 THEN map.first ELSE IF map.objects = <<>> THEN 0 ELSE map.objects[1]
EndTime(map) ==
  IF map.mp3 > 0 THEN map.mp3
  ELSE IF map.objects = <<>> THEN FirstTime(map) ELSE map.objects[Len(map.objects)]

AtLeast0(n) == IF n < 0 THEN 0 ELSE n

LeftOf(start) == AtLeast0(start \div Section)
LastStrain(start, strains) == start + AtLeast0(strains - 1) * Section

(* Mutant: the strains are taken to end where the next one would begin.    *)
RightOfNext(start, strains, total) == AtLeast0((total - (start + strains * Section)) \div Section)

RightOf(start, strains, total) ==
  LET last == LastStrain(start, strains) IN
  IF total >= last THEN (total - last) \div Section ELSE 0

Constant(n, value) == [i \in 1..n |-> value]
Skills == <<"aim", "aimNoSliders", "reading", "flashlight", "speed">>

(* The strains of one skill; only osu! has them, so the rest of the modes  *)
(* count none.                                                             *)
GraphOf(map, mods) ==
  LET start == AtRate(FirstTime(map), mods)
      strains == Len(map.strains)
      left == LeftOf(start)
      right == RightOf(start, strains, AtRate(EndTime(map), mods))
      padded == Constant(left, Padding) \o map.strains \o Constant(right, Padding)
      of(skill) == IF skill = "flashlight" /\ "FL" \notin mods
                   THEN Constant(left + right, Padding) ELSE padded
  IN [xaxis |-> [i \in 1..left |-> (i - 1) * Section]
                \o [i \in 1..(strains + right) |-> start + (i - 1) * Section],
      series |-> [i \in DOMAIN Skills |-> [name |-> Skills[i], data |-> of(Skills[i])]]]

-----------------------------------------------------------------------------
(* One backslash between the two, and none beside an empty one.            *)
JoinPath(folder, file) == SelectSeq(<<folder, file>>, LAMBDA part : part # "")

RulesetName(number) ==
  IF number \in 0..3 THEN <<"osu", "taiko", "fruits", "mania">>[number + 1] ELSE ""

(* The series of the graph that stands for it: the first one, aim.         *)
PrimarySeries(graph) == IF graph.series = <<>> THEN <<>> ELSE graph.series[1].data

-----------------------------------------------------------------------------
(* v1.rs                                                                   *)
V1Mods(mods) == Renamed(mods, [num |-> "number", str |-> "name"])

V1Bm(b) ==
  [time |-> Renamed(b.time, [firstObj |-> "firstObject", current |-> "live",
                             full |-> "lastObject", mp3 |-> "mp3Length"]),
   id |-> b.id, set |-> b.set, md5 |-> b.texts.checksum, rankedStatus |-> b.status.number,
   metadata |-> Renamed(b.texts, [artist |-> "artist", artistOriginal |-> "artistUnicode",
     title |-> "title", titleOriginal |-> "titleUnicode", mapper |-> "mapper",
     difficulty |-> "version"]),
   stats |->
     [AR |-> b.stats.ar.converted, CS |-> b.stats.cs.converted,
      OD |-> b.stats.od.converted, HP |-> b.stats.hp.converted,
      memoryAR |-> b.stats.ar.original, memoryCS |-> b.stats.cs.original,
      memoryOD |-> b.stats.od.original, memoryHP |-> b.stats.hp.original,
      SR |-> b.stats.stars.live, fullSR |-> b.stats.stars.total,
      BPM |-> b.stats.bpm, maxCombo |-> b.stats.maxCombo]
     @@ Only(b.stats.objects, {"circles", "sliders", "spinners", "holds"}),
   path |-> [full |-> JoinPath(b.texts.folder, b.texts.backgroundFilename)]
     @@ Renamed(b.texts, [folder |-> "folder", file |-> "filename",
                          bg |-> "backgroundFilename", audio |-> "audioFilename"])]

(* gameMode is the ruleset the game is in, not the map's own.              *)
V1Menu(p) ==
  [bassDensity |-> 0, state |-> p.state.number, gameMode |-> p.beatmap.currentRuleset,
   isChatEnabled |-> 0, bm |-> V1Bm(p.beatmap), mods |-> V1Mods(p.play.mods),
   pp |-> p.performance.accuracy
     @@ [strains |-> PrimarySeries(p.performance.graph), strainsAll |-> p.performance.graph]]

V1Hits(play) ==
  play.hits @@ [grade |-> play.rank] @@ Only(play, {"unstableRate", "hitErrorArray"})

V1Row(e) ==
  Only(e, {"name", "score", "team", "position"})
  @@ [combo |-> e.combo.current, maxCombo |-> e.combo.max, mods |-> e.mods.name]
  @@ Renamed(e.hits, [h300 |-> "300", geki |-> "geki", h100 |-> "100", katu |-> "katu",
                      h50 |-> "50", h0 |-> "0"])
  @@ [isPassing |-> IF e.isFailed THEN 0 ELSE 1]

V1RowTexts == {"name", "mods"}
V1RowCounts == {"score", "combo", "maxCombo", "h300", "geki", "h100", "katu", "h50", "h0",
                "team", "position", "isPassing"}
NoRow == [f \in V1RowTexts |-> ""] @@ [f \in V1RowCounts |-> 0]

(* The first row stands for the player, whoever is in it.                  *)
V1Leaderboard(rows) ==
  [hasLeaderboard |-> rows # <<>>, isVisible |-> rows # <<>>,
   ourplayer |-> IF rows = <<>> THEN NoRow ELSE V1Row(rows[1]),
   slots |-> [i \in DOMAIN rows |-> V1Row(rows[i])]]

V1Gameplay(p) ==
  [gameMode |-> p.play.mode.number, name |-> p.play.playerName, hp |-> p.play.healthBar,
   hits |-> V1Hits(p.play),
   pp |-> Renamed(p.play.pp, [current |-> "current", fc |-> "fc", maxThisPlay |-> "maxAchieved"]),
   leaderboard |-> V1Leaderboard(p.leaderboard), isReplayUiHidden |-> FALSE]
  @@ Only(p.play, {"score", "accuracy", "combo", "keyOverlay"})

(* The mode is that of the play, the rest is the result's.                 *)
V1Results(p) ==
  Only(p.resultsScreen.hits, Judgements)
  @@ Only(p.resultsScreen, {"score", "accuracy", "maxCombo", "createdAt"})
  @@ [mode |-> p.play.mode.number, name |-> p.resultsScreen.playerName,
      mods |-> V1Mods(p.resultsScreen.mods), grade |-> p.resultsScreen.rank]

V1Profile(f) ==
  Only(f, {"name", "accuracy", "rankedScore", "id", "level", "playCount", "backgroundColour"})
  @@ [rawLoginStatus |-> f.userStatus.number, rawBanchoStatus |-> f.banchoStatus.number,
      playMode |-> f.mode.number, countryCode |-> f.countryCode.number,
      rank |-> f.globalRank, performancePoints |-> f.pp]

V1Client(c) ==
  [team |-> c.team,
   spectating |-> Renamed(c.user, [name |-> "name", country |-> "country", userID |-> "id",
     accuracy |-> "accuracy", rankedScore |-> "rankedScore", playCount |-> "playCount",
     globalRank |-> "globalRank", totalPP |-> "totalPP"]),
   gameplay |->
     [gameMode |-> c.play.mode.number, name |-> c.play.playerName, hp |-> c.play.healthBar,
      hits |-> V1Hits(c.play), mods |-> V1Mods(c.play.mods)]
     @@ Only(c.play, {"score", "accuracy", "combo"})]

V1Tourney(t) ==
  [manager |->
     [teamName |-> t.team, stars |-> t.points, score |-> t.totalScore,
      bools |-> Only(t, {"scoreVisible", "starsVisible"}),
      chat |-> [i \in DOMAIN t.chat |-> Renamed(t.chat[i],
        [team |-> "team", time |-> "time", name |-> "name", messageBody |-> "message"])]]
     @@ Only(t, {"ipcState", "bestOF"}),
   ipcClients |-> [i \in DOMAIN t.clients |-> V1Client(t.clients[i])]]

V1Of(p) ==
  [client |-> p.client, folders |-> p.folders, menu |-> V1Menu(p), gameplay |-> V1Gameplay(p),
   resultsScreen |-> V1Results(p), userProfile |-> V1Profile(p.profile),
   tourney |-> V1Tourney(p.tourney)]

-----------------------------------------------------------------------------
(* sc.rs                                                                   *)

(* Away from zero at a half, to so many decimals; no NaN gets through.     *)
RoundTo(v, step) ==
  IF v >= 0 THEN ((v + step \div 2) \div step) * step ELSE -(((step \div 2 - v) \div step) * step)
FixDecimals(v, decimals) == IF v = NaN THEN 0 ELSE RoundTo(v, 10 ^ (4 - decimals))

(* Rust's %: it keeps the sign of the dividend.                            *)
Rest(ms, n) == IF ms >= 0 THEN ms % n ELSE -((-ms) % n)
(* Mutant: the minutes are those of the whole time.                        *)
FormatWholeMinutes(ms) ==
  <<ms \div 3600000, ms \div 60000, Rest(ms, 60000) \div 1000, Rest(ms, 1000)>>

(* <<hours, minutes, seconds, milliseconds>>: the first three are floored, *)
(* % keeps the sign of the dividend, and a clock that went past the end    *)
(* counts below zero in each.                                              *)
FormatMilliseconds(ms) ==
  <<ms \div 3600000, Rest(ms, 3600000) \div 60000, Rest(ms, 60000) \div 1000, Rest(ms, 1000)>>

Grades == <<"XH", "X", "SH", "S", "A", "B", "C", "D">>
GradeEnumIndex(grade) ==
  IF grade \in Range(Grades) THEN (CHOOSE i \in DOMAIN Grades : Grades[i] = grade) - 1 ELSE 8

StreamCompanionStatus(state) ==
  CASE state = 2 -> 2
    [] state \in {1, 4} -> 16
    [] state \in {7, 14, 17, 18} -> 32
    [] OTHER -> 1

(* The order in which JSON.stringify puts the keys: whole ones, ascending, *)
(* then the others as they come.  Tick: the parts of a millisecond.        *)
Tick == 3
StrainOrder(points) ==
  LET whole(p) == p[1] % Tick = 0
      fraction(p) == p[1] % Tick # 0
  IN SortSeq(SelectSeq(points, whole), LAMBDA p, q : p[1] < q[1]) \o SelectSeq(points, fraction)

ScStrains(graph) ==
  LET values == PrimarySeries(graph)
      point(i) == <<graph.xaxis[i],
                    IF i \in DOMAIN values /\ values[i] > 0 THEN values[i] ELSE 0>>
  IN StrainOrder([i \in DOMAIN graph.xaxis |-> point(i)])

ScIdentity(p) ==
  [osuIsRunning |-> 1, banchoIsConnected |-> IF p.profile.userStatus.number = 65793 THEN 1 ELSE 0,
   banchoId |-> p.profile.id, banchoUsername |-> p.profile.name,
   banchoStatus |-> p.profile.userStatus.number, banchoCountry |-> p.profile.countryCode.name,
   rawStatus |-> p.state.number, status |-> StreamCompanionStatus(p.state.number),
   rankedStatus |-> p.beatmap.status.number, skin |-> p.folders.skin, skinPath |-> p.folders.skin]

(* Plain keys are what the file says, those with an m what the mods make   *)
(* of it.                                                                  *)
ScDifficulty(stats) ==
  LET two(v) == FixDecimals(v, 2) IN
  [liveStarRating |-> two(stats.stars.live), mStars |-> two(stats.stars.total),
   ar |-> two(stats.ar.original), mAR |-> two(stats.ar.converted),
   od |-> two(stats.od.original), mOD |-> two(stats.od.converted),
   cs |-> two(stats.cs.original), mCS |-> two(stats.cs.converted),
   hp |-> two(stats.hp.original), mHP |-> two(stats.hp.converted)]

(* The text shows one number where the map has one BPM, or three.          *)
ScBpmText(bpm) ==
  LET whole(v) == IF v = NaN THEN 0 ELSE RoundTo(v, Unit)
  IN IF bpm.min = bpm.max /\ bpm.max # NaN THEN <<bpm.max>>
     ELSE <<whole(bpm.min), whole(bpm.max), whole(bpm.common)>>

ScBpm(bpm) ==
  LET four(v) == FixDecimals(v, 4) IN
  [currentBpm |-> four(bpm.realtime), mBpm |-> ScBpmText(bpm)]
  @@ [f \in {"bpm", "mainBpm", "mMainBpm"} |-> four(bpm.common)]
  @@ [f \in {"maxBpm", "mMaxBpm"} |-> four(bpm.max)]
  @@ [f \in {"minBpm", "mMinBpm"} |-> four(bpm.min)]

(* time is in seconds, the other times in milliseconds.                    *)
ScTiming(b, graph) ==
  [time |-> 10 * b.time.live, previewtime |-> IF b.previewTime = Absent THEN -1 ELSE b.previewTime,
   totaltime |-> b.time.lastObject, mapPosition |-> FormatMilliseconds(b.time.live),
   timeLeft |-> FormatMilliseconds(b.time.lastObject - b.time.live),
   drainingtime |-> b.time.lastObject - b.time.firstObject,
   totalAudioTime |-> b.time.mp3Length, firstHitObjectTime |-> b.time.firstObject,
   mapStrains |-> ScStrains(graph), mapBreaks |-> b.breaks, mapKiaiPoints |-> <<>>,
   mapTimingPoints |-> [i \in DOMAIN b.timingPoints |-> Renamed(b.timingPoints[i],
     [startTime |-> "time", beatLength |-> "beatLength"])]]

ScMap(b, mode) ==
  [gameMode |-> RulesetName(mode), mode |-> mode, mapid |-> b.id, mapsetid |-> b.set,
   dl |-> b.id, maxCombo |-> b.stats.maxCombo,
   mapArtistTitle |-> <<b.texts.artist, b.texts.title>>,
   mapArtistTitleUnicode |-> <<b.texts.artistUnicode, b.texts.titleUnicode>>,
   osuFileLocation |-> JoinPath(b.texts.folder, b.texts.filename),
   backgroundImageLocation |-> JoinPath(b.texts.folder, b.texts.backgroundFilename)]
  @@ Only(b.stats.objects, {"circles", "sliders", "spinners"})
  @@ Renamed(b.texts, [md5 |-> "checksum", artistRoman |-> "artist",
       artistUnicode |-> "artistUnicode", titleRoman |-> "title", titleUnicode |-> "titleUnicode",
       diffName |-> "version", mapDiff |-> "version", creator |-> "mapper", dir |-> "folder",
       mp3Name |-> "audioFilename", osuFileName |-> "filename",
       backgroundImageFileName |-> "backgroundFilename"])

(* The bar of the packet is halved, and doubled again as it comes.         *)
ScPlay(play) ==
  LET two(v) == FixDecimals(v, 2)
      twice(v) == IF v = NaN THEN NaN ELSE 2 * v
      timesRate(v) == IF v = NaN THEN NaN ELSE (v * play.mods.rate) \div 4
  IN [username |-> play.playerName, score |-> play.score, retries |-> 0,
      playerHp |-> twice(play.healthBar.normal), playerHpSmooth |-> twice(play.healthBar.smooth),
      combo |-> play.combo.current, currentMaxCombo |-> play.combo.max,
      keyOverlay |-> play.keyOverlay, acc |-> two(play.accuracy),
      unstableRate |-> two(timesRate(play.unstableRate)),
      convertedUnstableRate |-> two(play.unstableRate),
      grade |-> GradeEnumIndex(play.rank.current), maxGrade |-> GradeEnumIndex(play.rank.maxThisPlay),
      hitErrors |-> play.hitErrorArray, mods |-> play.mods.name, modsEnum |-> play.mods.number,
      ppIfMapEndsNow |-> two(play.pp.current), ppIfRestFced |-> two(play.pp.fc),
      noChokePp |-> two(play.pp.fc), accPpIfMapEndsNow |-> two(play.pp.detailed.current.accuracy),
      aimPpIfMapEndsNow |-> two(play.pp.detailed.current.aim),
      speedPpIfMapEndsNow |-> two(play.pp.detailed.current.speed),
      strainPpIfMapEndsNow |-> two(play.pp.detailed.current.difficulty)]
     @@ Renamed(play.hits, [geki |-> "geki", c300 |-> "300", katsu |-> "katu", c100 |-> "100",
          c50 |-> "50", miss |-> "0", sliderBreaks |-> "sliderBreaks"])

(* Seven of the eleven accuracies, each under two names, and SS again.     *)
ScTable(table) ==
  LET two == [a \in Accuracies |-> FixDecimals(table[a], 2)] IN
  Renamed(two, [osu_90PP |-> "90", osu_95PP |-> "95", osu_96PP |-> "96", osu_97PP |-> "97",
    osu_98PP |-> "98", osu_99PP |-> "99", osu_SSPP |-> "100", osu_m90PP |-> "90",
    osu_m95PP |-> "95", osu_m96PP |-> "96", osu_m97PP |-> "97", osu_m98PP |-> "98",
    osu_m99PP |-> "99", osu_mSSPP |-> "100", simulatedPp |-> "100"])

(* What StreamCompanion has and osu! stable has not: no leaderboard among  *)
(* them, though the packet has one.                                        *)
ScConstants ==
  [leaderBoardPlayers |-> <<>>, songSelectionScores |-> <<>>, tags |-> "", source |-> "", test |-> ""]
  @@ [f \in {"chatIsEnabled", "ingameInterfaceIsEnabled", "isBreakTime", "plays", "localTime",
             "localTimeISO", "threadid", "songSelectionRankingType"} |-> 0]
  @@ [f \in {"songSelectionTotalScores", "osu_99_9PP", "osu_m99_9PP", "mania_1_000_000PP",
             "mania_m1_000_000PP", "starsNomod", "comboLeft", "sl", "sv"} |-> -1]

ScOf(p) ==
  ScIdentity(p) @@ ScDifficulty(p.beatmap.stats) @@ ScBpm(p.beatmap.stats.bpm)
  @@ ScTiming(p.beatmap, p.performance.graph) @@ ScMap(p.beatmap, p.play.mode.number)
  @@ ScPlay(p.play) @@ ScTable(p.performance.accuracy) @@ ScConstants

-----------------------------------------------------------------------------
(* The shapes of v1.rs and sc.rs: for each key of the format the values it *)
(* may have.  A shape is a function of the keys.                           *)
Of(fields, values) == [f \in fields |-> values]
HasShape(r, shape) == DOMAIN r = DOMAIN shape /\ \A f \in DOMAIN r : r[f] \in shape[f]

V1BmShape ==
  [time |-> [{"firstObj", "current", "full", "mp3"} -> Int],
   metadata |-> Texts({"artist", "artistOriginal", "title", "titleOriginal", "mapper", "difficulty"}),
   stats |-> [{"AR", "CS", "OD", "HP", "SR", "circles", "sliders", "spinners", "holds",
       "maxCombo", "fullSR", "memoryAR", "memoryCS", "memoryOD", "memoryHP"} -> Num],
   bpm |-> [{"realtime", "common", "min", "max"} -> Num],
   path |-> Texts({"folder", "file", "bg", "audio"}), md5 |-> STRING]
  @@ Of({"id", "set", "rankedStatus"}, Int)
V1ModsShape == [num : Nat, str : STRING]
V1MenuShape == [strains |-> Seq(Num), strainsAll |-> Graph] @@ Of(Accuracies, Num)
V1HitsShape ==
  [grade |-> Texts({"current", "maxThisPlay"}), unstableRate |-> Num, hitErrorArray |-> Seq(Int)]
  @@ Of(Judgements \cup Ticks \cup {"sliderBreaks"}, Int)
V1RowShape == Of(V1RowTexts, STRING) @@ Of(V1RowCounts, Int)
V1ResultsShape ==
  [mods |-> V1ModsShape, accuracy |-> Num]
  @@ Of(Judgements \cup {"mode", "score", "maxCombo"}, Int)
  @@ Of({"name", "grade", "createdAt"}, STRING)
V1ProfileShape ==
  Of({"rawLoginStatus", "rankedScore", "id", "playCount", "playMode", "rank", "countryCode",
      "performancePoints", "rawBanchoStatus"}, Int)
  @@ Of({"accuracy", "level"}, Num) @@ Of({"name", "backgroundColour"}, STRING)
V1SpectatingShape ==
  Of({"userID", "rankedScore", "playCount", "globalRank", "totalPP"}, Int)
  @@ [name |-> STRING, country |-> STRING, accuracy |-> Num]

IsV1(v) ==
  /\ LET bm == v.menu.bm IN
       HasShape([bm EXCEPT !.stats = [f \in DOMAIN @ \ {"BPM"} |-> @[f]],
                           !.path = [f \in DOMAIN @ \ {"full"} |-> @[f]]] @@ [bpm |-> bm.stats.BPM],
                V1BmShape)
  /\ v.menu.mods \in V1ModsShape /\ HasShape(v.menu.pp, V1MenuShape)
  /\ HasShape(v.gameplay.hits, V1HitsShape)
  /\ \A row \in {v.gameplay.leaderboard.ourplayer} \cup Range(v.gameplay.leaderboard.slots) :
       HasShape(row, V1RowShape)
  /\ HasShape(v.resultsScreen, V1ResultsShape) /\ HasShape(v.userProfile, V1ProfileShape)
  /\ \A c \in Range(v.tourney.ipcClients) :
       /\ HasShape(c.spectating, V1SpectatingShape) /\ HasShape(c.gameplay.hits, V1HitsShape)
       /\ c.gameplay.mods \in V1ModsShape

(* What is left of a number after FixDecimals.                             *)
Fixed == Int
ScPresence ==
  Of({"osuIsRunning", "chatIsEnabled", "ingameInterfaceIsEnabled", "isBreakTime",
      "banchoIsConnected", "banchoId", "banchoStatus"}, Int)
  @@ Of({"banchoUsername", "banchoCountry"}, STRING)
ScMetadata ==
  Of({"artistRoman", "artistUnicode", "titleRoman", "titleUnicode", "diffName", "mapDiff",
      "creator", "md5", "gameMode"}, STRING)
  @@ Of({"mapArtistTitle", "mapArtistTitleUnicode"}, Seq(STRING))
ScNumbers ==
  Of({"liveStarRating", "mStars", "ar", "mAR", "od", "mOD", "cs", "mCS", "hp", "mHP", "currentBpm",
      "bpm", "mainBpm", "maxBpm", "minBpm", "mMainBpm", "mMaxBpm", "mMinBpm"}, Fixed)
  @@ [mBpm |-> Seq(Fixed)]
ScTimes ==
  Of({"mode", "time", "previewtime", "totaltime", "drainingtime", "totalAudioTime",
      "firstHitObjectTime", "mapid", "mapsetid"}, Int)
  @@ Of({"timeLeft", "mapPosition"}, Int \X Int \X Int \X Int)
  @@ [mapStrains |-> Seq(Int \X Int), mapBreaks |-> Seq([startTime : Int, endTime : Int, hasEffect : BOOLEAN]),
      mapKiaiPoints |-> {<<>>}, mapTimingPoints |-> Seq([startTime : Int, beatLength : Num])]
ScPlayed ==
  Of({"sliders", "circles", "spinners", "maxCombo", "retries", "score", "combo", "currentMaxCombo",
      "geki", "c300", "katsu", "c100", "c50", "miss", "sliderBreaks"}, Int)
  @@ Of({"mp3Name", "osuFileName", "backgroundImageFileName", "username"}, STRING)
  @@ Of({"osuFileLocation", "backgroundImageLocation"}, Seq(STRING))
  @@ Of({"playerHp", "playerHpSmooth"}, Num)
  @@ Of({"acc", "unstableRate", "convertedUnstableRate"}, Fixed)
  @@ [keyOverlay |-> KeyOverlay, grade |-> 0..8, maxGrade |-> 0..8, hitErrors |-> Seq(Int)]
ScStatus ==
  Of({"rankedStatus", "songSelectionRankingType", "rawStatus", "modsEnum", "dl"}, Int)
  @@ Of({"ppIfMapEndsNow", "ppIfRestFced"}, Fixed) @@ Of({"mods", "dir"}, STRING)
  @@ [leaderBoardPlayers |-> {<<>>}]
ScTables ==
  Of({"osu_90PP", "osu_95PP", "osu_96PP", "osu_97PP", "osu_98PP", "osu_99PP", "osu_SSPP",
      "osu_m90PP", "osu_m95PP", "osu_m96PP", "osu_m97PP", "osu_m98PP", "osu_m99PP", "osu_mSSPP",
      "accPpIfMapEndsNow", "aimPpIfMapEndsNow", "speedPpIfMapEndsNow", "strainPpIfMapEndsNow",
      "noChokePp"}, Fixed)
ScTail ==
  Of({"skin", "skinPath", "tags", "source", "test"}, STRING) @@ [songSelectionScores |-> {<<>>}]
  @@ [status |-> {1, 2, 16, 32}, simulatedPp |-> Fixed]
  @@ Of({"songSelectionTotalScores", "osu_99_9PP", "osu_m99_9PP", "mania_1_000_000PP",
         "mania_m1_000_000PP", "plays", "starsNomod", "comboLeft", "localTime", "localTimeISO",
         "sl", "sv", "threadid"}, Int)
ScShape ==
  ScPresence @@ ScMetadata @@ ScNumbers @@ ScTimes @@ ScPlayed @@ ScStatus @@ ScTables @@ ScTail

-----------------------------------------------------------------------------
(* TosuPrecisePacket: keys and hit errors, and those of each client, by    *)
(* the number of its window.                                               *)
Precise(play) == [keys |-> play.keyOverlay, hitErrors |-> play.hitErrorArray]
PreciseOf(p) ==
  [tourney |-> SortSeq([i \in DOMAIN p.tourney.clients |->
       [ipcId |-> p.tourney.clients[i].ipcId] @@ Precise(p.tourney.clients[i].play)],
     LAMBDA c, d : c.ipcId < d.ipcId)]
  @@ Precise(p.play)
-----------------------------------------------------------------------------
(* What the formats have in common they say alike.  Without decimals there *)
(* is nothing to round, and what v1 gives as a float sc fixes.             *)
SaysTheSameOfTheMap(v1, sc) ==
  LET bm == v1.menu.bm
      two(v) == FixDecimals(v, 2)
      four(v) == FixDecimals(v, 4)
  IN /\ sc.ar = two(bm.stats.memoryAR) /\ sc.mAR = two(bm.stats.AR)
     /\ sc.od = two(bm.stats.memoryOD) /\ sc.mOD = two(bm.stats.OD)
     /\ sc.cs = two(bm.stats.memoryCS) /\ sc.mCS = two(bm.stats.CS)
     /\ sc.hp = two(bm.stats.memoryHP) /\ sc.mHP = two(bm.stats.HP)
     /\ sc.liveStarRating = two(bm.stats.SR) /\ sc.mStars = two(bm.stats.fullSR)
     /\ <<sc.minBpm, sc.maxBpm, sc.mainBpm, sc.currentBpm>>
          = <<four(bm.stats.BPM.min), four(bm.stats.BPM.max), four(bm.stats.BPM.common),
              four(bm.stats.BPM.realtime)>>
     /\ <<sc.md5, sc.mapid, sc.mapsetid, sc.rankedStatus>> = <<bm.md5, bm.id, bm.set, bm.rankedStatus>>
     /\ <<sc.artistRoman, sc.artistUnicode, sc.titleRoman, sc.titleUnicode, sc.creator, sc.diffName>>
          = <<bm.metadata.artist, bm.metadata.artistOriginal, bm.metadata.title,
              bm.metadata.titleOriginal, bm.metadata.mapper, bm.metadata.difficulty>>
     /\ <<sc.dir, sc.osuFileName, sc.mp3Name, sc.backgroundImageLocation>>
          = <<bm.path.folder, bm.path.file, bm.path.audio, bm.path.full>>
     /\ sc.time = 10 * bm.time.current
     /\ <<sc.totaltime, sc.totalAudioTime, sc.firstHitObjectTime>>
          = <<bm.time.full, bm.time.mp3, bm.time.firstObj>>
     /\ <<sc.circles, sc.sliders, sc.spinners>>
          = <<bm.stats.circles, bm.stats.sliders, bm.stats.spinners>>

SaysTheSameOfThePlay(v1, sc) ==
  LET play == v1.gameplay
      two(v) == FixDecimals(v, 2)
  IN /\ <<sc.c300, sc.c100, sc.c50, sc.miss, sc.geki, sc.katsu, sc.sliderBreaks>>
          = <<play.hits["300"], play.hits["100"], play.hits["50"], play.hits["0"],
              play.hits["geki"], play.hits["katu"], play.hits["sliderBreaks"]>>
     /\ <<sc.username, sc.score, sc.combo, sc.currentMaxCombo, sc.mode>>
          = <<play.name, play.score, play.combo.current, play.combo.max, play.gameMode>>
     /\ <<sc.hitErrors, sc.keyOverlay>> = <<play.hits["hitErrorArray"], play.keyOverlay>>
     /\ play.hp.normal # NaN => sc.playerHp = 2 * play.hp.normal
     /\ sc.acc = two(play.accuracy) /\ sc.convertedUnstableRate = two(play.hits["unstableRate"])
     /\ <<sc.mods, sc.modsEnum, sc.rawStatus>>
          = <<v1.menu.mods.str, v1.menu.mods.num, v1.menu.state>>
     /\ <<sc.ppIfMapEndsNow, sc.ppIfRestFced, sc.simulatedPp>>
          = <<two(play.pp.current), two(play.pp.fc), two(v1.menu.pp["100"])>>
     /\ IF sc.grade = 8 THEN play.hits.grade.current \notin Range(Grades)
        ELSE Grades[sc.grade + 1] = play.hits.grade.current

(* A clock that has not gone past the end reads back.                      *)
ReadsBack(clock, ms) ==
  ms >= 0 => clock[1] * 3600000 + clock[2] * 60000 + clock[3] * 1000 + clock[4] = ms

(* One value for each point (but for flashlight without the mod), points   *)
(* that ascend, and the last of them within a section of the song's end    *)
(* where the song outlasts the strains.                                    *)
GraphFits(map, mods) ==
  LET graph == GraphOf(map, mods)
      points == Len(graph.xaxis)
      total == AtRate(EndTime(map), mods)
      start == AtRate(FirstTime(map), mods)
  IN /\ \A i \in 1..(points - 1) : graph.xaxis[i] < graph.xaxis[i + 1]
     /\ \A line \in {graph.series[i] : i \in DOMAIN graph.series} :
          line.name # "flashlight" \/ "FL" \in mods => Len(line.data) = points
     /\ map.strains # <<>> /\ total >= LastStrain(start, Len(map.strains)) =>
          graph.xaxis[points] \in (total - Section + 1)..total
     /\ \A i \in DOMAIN map.strains : \E k \in 1..points :
          /\ graph.xaxis[k] = start + (i - 1) * Section
          /\ graph.series[1].data[k] = map.strains[i]

(* Each point of the graph is served once, none below zero.                *)
StrainsAreTheGraph(points, graph) ==
  /\ Len(points) = Len(graph.xaxis)
  /\ {p[1] : p \in Range(points)} = Range(graph.xaxis)
  /\ \A i, j \in DOMAIN points :
       i < j /\ points[i][1] % Tick = 0 /\ points[j][1] % Tick = 0 => points[i][1] < points[j][1]
  /\ \A p \in Range(points) : \E i \in DOMAIN graph.xaxis :
       p[1] = graph.xaxis[i] /\ p[2] >= 0
       /\ (i \in DOMAIN PrimarySeries(graph) => p[2] \in {0, PrimarySeries(graph)[i]})
       /\ (i \in DOMAIN PrimarySeries(graph) /\ p[2] = 0 => PrimarySeries(graph)[i] <= 0)

PreciseIsThePlay(precise, v1, clients) ==
  /\ <<precise.keys, precise.hitErrors>>
       = <<v1.gameplay.keyOverlay, v1.gameplay.hits["hitErrorArray"]>>
  /\ \A i, j \in DOMAIN precise.tourney :
       i < j => precise.tourney[i].ipcId < precise.tourney[j].ipcId
  /\ {<<c.ipcId, c.hitErrors>> : c \in Range(precise.tourney)}
       = {<<clients[i].ipcId, v1.tourney.ipcClients[i].gameplay.hits["hitErrorArray"]>> :
          i \in DOMAIN clients}

SayTheSame(p) ==
  LET v1 == V1Of(p)
      sc == ScOf(p)
  IN /\ IsV1(v1) /\ HasShape(sc, ScShape)
     /\ SaysTheSameOfTheMap(v1, sc) /\ SaysTheSameOfThePlay(v1, sc)
     /\ ReadsBack(sc.mapPosition, p.beatmap.time.live)
     /\ ReadsBack(sc.timeLeft, p.beatmap.time.lastObject - p.beatmap.time.live)
     /\ StrainsAreTheGraph(sc.mapStrains, p.performance.graph)
     /\ PreciseIsThePlay(PreciseOf(p), v1, p.tourney.clients)
=============================================================================
