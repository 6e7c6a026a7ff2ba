---------------------------- MODULE SamplePackets ----------------------------
(***************************************************************************)
(* Packets for the payloads: one in which no two fields are alike, and the *)
(* same with one part changed at a time; and what a tournament reads.      *)
(***************************************************************************)
EXTENDS TourneyPacket, FiniteSets

(* Every field its own name, or a number of its own from base on.          *)
Names(fields) == [f \in fields |-> f]
Order ==
  <<"0", "50", "100", "300", "geki", "katu", "sliderEndHits", "smallTickHits", "largeTickHits",
    "sliderBreaks", "left", "right", "aim", "speed", "accuracy", "difficulty", "flashlight", "total",
    "ar", "cs", "od", "hp", "circles", "sliders", "spinners", "holds", "k1", "k2", "m1", "m2",
    "90", "91", "92", "93", "94", "95", "96", "97", "98", "99">>
Numbers(fields, base) ==
  [f \in fields |-> base + 12345 * SelectInSeq(Order, LAMBDA name : name = f)]
Pairs(fields, base) ==
  [f \in fields |-> [original |-> Numbers(fields, base)[f], converted |-> Numbers(fields, base)[f] + 77]]
Mode(n, name) == [number |-> n, name |-> name]

SomeMods == [number |-> 64, name |-> "DT", rate |-> 6]
SomeKeys == [k \in {"k1", "k2", "m1", "m2"} |->
               [isPressed |-> k = "k1", count |-> Numbers({"k1", "k2", "m1", "m2"}, 5)[k]]]

SomePlay ==
  [failed |-> FALSE, playerName |-> "player", mode |-> Mode(1, "taiko"), score |-> 4321,
   accuracy |-> 987654, healthBar |-> [normal |-> 312345, smooth |-> 298765],
   hits |-> Numbers(Judgements \cup Ticks \cup {"sliderBreaks"}, 1),
   hitErrorArray |-> <<3, -4>>, combo |-> [current |-> 11, max |-> 12], mods |-> SomeMods,
   rank |-> [current |-> "SH", maxThisPlay |-> "X"],
   pp |-> [current |-> 1001234, fc |-> 2001234, maxAchieved |-> 1501234, maxAchievable |-> 2501234,
           detailed |-> [which \in {"current", "fc"} |->
             Numbers({"aim", "speed", "accuracy", "difficulty", "flashlight", "total"},
                     IF which = "fc" THEN 9 ELSE 8)]],
   unstableRate |-> 1234567, keyOverlay |-> SomeKeys]

SomeResults ==
  [scoreId |-> 99, playerName |-> "winner", mode |-> Mode(2, "fruits"), score |-> 777,
   accuracy |-> 955555, name |-> "result", hits |-> Numbers(Judgements \cup Ticks, 500),
   mods |-> [number |-> 8, name |-> "HD", rate |-> 4], maxCombo |-> 33, rank |-> "A",
   pp |-> [current |-> 1, fc |-> 2], createdAt |-> "then"]

SomeProfile ==
  [userStatus |-> Mode(65793, "online"), banchoStatus |-> Mode(2, "playing"), id |-> 42,
   name |-> "me", mode |-> Mode(3, "mania"), rankedScore |-> 1234, level |-> 101234,
   accuracy |-> 991234, pp |-> 7777, playCount |-> 55, globalRank |-> 66,
   countryCode |-> Mode(49, "KOREA"), backgroundColour |-> "colour"]

Row(n) ==
  [isFailed |-> n = 2, position |-> n, team |-> n + 10, id |-> n + 20, name |-> "row",
   score |-> n + 30, accuracy |-> n, hits |-> Numbers(Judgements, n), combo |-> [current |-> n, max |-> n + 1],
   mods |-> SomeMods, rank |-> "B"]

Line(name, data) == [name |-> name, data |-> data]
SomeGraph == [series |-> <<Line("aim", <<-1000000, 5, 7>>), Line("speed", <<1, 2, 3>>)>>,
              xaxis |-> <<0, 1202, 2402>>]

SomeBeatmap ==
  [time |-> [live |-> 3723004, firstObject |-> 1000, lastObject |-> 8000000, mp3Length |-> 9000000],
   status |-> Mode(4, "ranked"), id |-> 11, set |-> 22, mode |-> Mode(0, "osu"), currentRuleset |-> 1,
   texts |-> Names(MetadataTexts),
   stats |->
     Pairs({"ar", "cs", "od", "hp"}, 31234)
     @@ [stars |-> [live |-> 45678, total |-> 56789],
         bpm |-> [realtime |-> 1800049, common |-> 1810000, min |-> 1795000, max |-> 1820000],
         objects |-> Numbers({"circles", "sliders", "spinners", "holds", "total"}, 70),
         maxCombo |-> 1000],
   breaks |-> <<[startTime |-> 5, endTime |-> 9, hasEffect |-> TRUE]>>,
   timingPoints |-> <<[time |-> 7, beatLength |-> 333]>>, previewTime |-> 88]

Spectator(id, errors) ==
  [ipcId |-> id, team |-> "left",
   user |-> [id |-> id + 1, name |-> "spectated", country |-> "country", accuracy |-> 9,
             rankedScore |-> 10, playCount |-> 12, globalRank |-> 13, totalPP |-> 14],
   play |-> [SomePlay EXCEPT !.hitErrorArray = errors]]

SomeTourney ==
  [scoreVisible |-> TRUE, starsVisible |-> FALSE, ipcState |-> 3, bestOF |-> 9,
   team |-> Names(Sides), points |-> Numbers(Sides, 100),
   chat |-> <<Names({"team", "time", "name", "message"})>>,
   totalScore |-> Numbers(Sides, 200),
   clients |-> <<Spectator(1, <<1>>), Spectator(0, <<2>>)>>]

SomePacket ==
  [client |-> "stable", state |-> Mode(2, "play"), profile |-> SomeProfile, beatmap |-> SomeBeatmap,
   play |-> SomePlay, leaderboard |-> <<Row(1), Row(2)>>,
   performance |-> [accuracy |-> Numbers(Accuracies, 3000000), graph |-> SomeGraph],
   resultsScreen |-> SomeResults, folders |-> Names({"game", "skin", "songs"}), tourney |-> SomeTourney]

(* Between the rounding steps and beside them, and none at all.            *)
Decimals == {0, 49, 50, -50, 12345, 1800000, NaN}

SamplePacketSet ==
  {SomePacket}
  \cup {[SomePacket EXCEPT !.beatmap.time.live = t] : t \in {0, 999, 59999, 7999999, 8000001, -1}}
  \cup {[SomePacket EXCEPT !.play.accuracy = d, !.play.healthBar.normal = d,
                           !.play.unstableRate = d, !.play.pp.current = d,
                           !.beatmap.stats.stars.live = d, !.beatmap.stats.ar.converted = d]
          : d \in Decimals}
  \cup {[SomePacket EXCEPT !.beatmap.stats.bpm = [k \in DOMAIN @ |-> d]] : d \in Decimals}
  \cup {[SomePacket EXCEPT !.play.rank.current = g, !.state.number = n,
                           !.play.mods.rate = r, !.profile.userStatus.number = n]
          : g \in {"XH", "D", "", "F"}, n \in {0, 1, 2, 7, 22}, r \in {3, 4}}
  \cup {[SomePacket EXCEPT !.leaderboard = rows, !.beatmap.texts.folder = folder,
                           !.beatmap.texts.filename = file, !.beatmap.previewTime = Absent,
                           !.play.mode.number = mode]
          : rows \in {<<>>, <<Row(2)>>}, folder \in {"", "folder"}, file \in {"", "file"},
            mode \in {0, 3, 4}}
  \cup {[SomePacket EXCEPT !.performance.graph.series = series, !.performance.graph.xaxis = axis]
          : series \in {<<>>, <<Line("aim", <<>>)>>, <<Line("aim", <<3, -1>>)>>},
            axis \in {<<>>, <<0, 1200>>, <<1, 1201>>, <<0, 1201, 2401>>}}
  \cup {[SomePacket EXCEPT !.tourney.clients = clients]
          : clients \in {<<>>, <<Spectator(2, <<>>), Spectator(0, <<1>>), Spectator(1, <<2, 3>>)>>}}
-----------------------------------------------------------------------------
(* Games as they are read, with the mods 0 and 64, and the snapshots of a  *)
(* tournament of up to two clients.                                        *)
Game(score, hp, mods) ==
  [playerName |-> "player", mode |-> 0, score |-> score, accuracy |-> 990000 + score, hp |-> hp,
   hpSmooth |-> 150, combo |-> 5, maxCombo |-> 6, hits |-> Numbers(Judgements, score),
   hitErrorArray |-> <<1, 2>>, mods |-> mods, grade |-> "A", gradeMax |-> "S",
   unstableRate |-> 80, keyOverlay |-> SomeKeys]
Games == {Game(0, 200, NoMods), Game(150, 0, NoMods), Game(333, 100, SomeMods), Game(900, 40, SomeMods)}

NoTable == [identity |-> TRUE, factors |-> [n \in {0, 64} |-> 100]]
ModTables == {NoTable, [identity |-> FALSE, factors |-> 0 :> 100 @@ 64 :> 115],
              [identity |-> FALSE, factors |-> 0 :> 1 @@ 64 :> 50]}

SomeReads == [ipcId : {0}, team : {"left", "right"}, user : {Nothing}, gameplay : Games \cup {Nothing},
              pp : {Nothing, SomePlay.pp}]
OtherReads == [ipcId : {1}, team : {"left", "right"}, user : {SomeTourney.clients[1].user},
               gameplay : {Game(333, 100, SomeMods), Nothing}, pp : {Nothing}]

SomeLocalProfile ==
  [login |-> 65793, bancho |-> 2, playMode |-> 1, country |-> 2, performancePoints |-> 7, rank |-> 8]
  @@ Only(SomeProfile, {"id", "name", "rankedScore", "level", "accuracy", "playCount", "backgroundColour"})
Countries == <<"oc", "eu", "ad">>

Snapshot(clients, read) ==
  [manager |-> IF read THEN [n \in DOMAIN NoManager |-> SomeTourney[n]] ELSE Nothing,
   profile |-> IF read THEN SomeLocalProfile ELSE Nothing,
   beatmap |-> IF read THEN SomeBeatmap ELSE Nothing,
   clients |-> clients, leaderboard |-> <<>>, performance |-> SomePacket.performance,
   folders |-> SomePacket.folders]
TourneySnapshots ==
  {Snapshot(<<>>, read) : read \in BOOLEAN}
  \cup {Snapshot(<<c>>, TRUE) : c \in SomeReads}
  \cup {Snapshot(<<c, d>>, read) : c \in SomeReads, d \in OtherReads, read \in BOOLEAN}

PacketOfTourney(snap, table, hitErrors) == PacketOf(snap, table, hitErrors, Countries, SomePacket)
=============================================================================
