--------------------------- MODULE Tourney_proofs ---------------------------
(***************************************************************************)
(* Proofs about a tournament session, for any processes, players, clients, *)
(* maps, mods and bounds, whatever cannot be read, and in whatever order   *)
(* the game writes a record.                                               *)
(*                                                                         *)
(* What clients are shown of their maps (MapsInv): a new checksum empties  *)
(* the statistics kept by mods in the very step that may parse another     *)
(* file, and a pp stands only while its mods and judgements do.            *)
(*                                                                         *)
(* Who is shown, and the chat (PeopleInv): who is kept for a client is who *)
(* its kept pointer was at (UserOfPtr), and the message in the place of    *)
(* the chat's key is the one of the key, with all of the chat where it was *)
(* read, or a later one for ever after (ChatWasTheChannel).                *)
(***************************************************************************)
EXTENDS MCTourney, SequenceTheorems, TLAPS

-----------------------------------------------------------------------------
(* What is shown of the maps.                                              *)

MapsInv == TypeOK /\ StatsOfOneFile /\ PpOfTheJudgements

LEMMA MapsStart == Init => MapsInv
<1>. SUFFICES ASSUME Init PROVE MapsInv
  OBVIOUS
<1>. USE DEF Init
<1>1. PICK m \in [Clients -> Maps] :
        selected = m /\ record = [p \in Clients |-> [f \in Fields |-> m[p]]]
  OBVIOUS
<1>2. /\ selected \in [Clients -> MapOrNone]
      /\ record \in [Clients -> [Fields -> Maps]]
  BY <1>1 DEF MapOrNone
<1>3. moves \in 0..MaxMoves /\ failures \in 0..MaxFailures /\ next \in Clients
  BY MapsAssumption DEF MapsAssumption
<1>4. NoView \in View
  BY MapsAssumption DEF NoView, View, MapOrNone, MapsAssumption
<1>5. rows \in [Mods -> MapOrNone] /\ full \in [Maps \X Mods -> MapOrNone]
  BY DEF NoRows, MapOrNone
<1>6. views \in [Clients -> View]
  BY <1>4
<1>7. TypeOK
  BY <1>2, <1>3, <1>5, <1>6 DEF TypeOK, MapOrNone
<1>8. StatsOfOneFile /\ PpOfTheJudgements
  BY DEF StatsOfOneFile, PpOfTheJudgements, NoRows, NoView
<1>. QED
  BY <1>7, <1>8 DEF MapsInv

(* A step of a game leaves the session and its views alone.                *)
LEMMA GamesKeep ==
  ASSUME MapsInv, SelectMap \/ WriteField \/ StartPlay \/ Hit \/ EndPlay \/ UNCHANGED vars
  PROVE  MapsInv'
<1>. USE DEF MapsInv
<1>1. UNCHANGED <<failures, next, caches, session, views>>
  BY DEF SelectMap, WriteField, StartPlay, Hit, EndPlay, GameMoves, vars
<1>2. StatsOfOneFile' /\ PpOfTheJudgements'
  BY <1>1 DEF StatsOfOneFile, PpOfTheJudgements, session
<1>3. moves' \in 0..MaxMoves
  BY MapsAssumption DEF SelectMap, WriteField, StartPlay, Hit, EndPlay, GameMoves, vars, games,
                        TypeOK, MapsAssumption
<1>4. selected' \in [Clients -> MapOrNone] /\ record' \in [Clients -> [Fields -> Maps]]
  <2>1. CASE SelectMap
    <3>1. PICK p \in Clients, m \in MapOrNone :
            /\ m # selected[p]
            /\ selected' = [selected EXCEPT ![p] = m]
            /\ record' = IF Patient /\ selected[p] = NoMap
                         THEN [record EXCEPT ![p] = [f \in Fields |-> m]] ELSE record
      BY <2>1 DEF SelectMap
    <3>2. selected[p] = NoMap => m \in Maps
      BY <3>1 DEF MapOrNone
    <3>. QED
      BY <3>1, <3>2 DEF TypeOK
  <2>2. CASE WriteField
    <3>1. PICK p \in Clients, f \in Fields :
            selected[p] # NoMap /\ record' = [record EXCEPT ![p] = [record[p] EXCEPT ![f] = selected[p]]]
      BY <2>2 DEF WriteField
    <3>. QED
      BY <2>2, <3>1 DEF WriteField, TypeOK, MapOrNone
  <2>3. CASE StartPlay \/ Hit \/ EndPlay \/ UNCHANGED vars
    BY <2>3 DEF StartPlay, Hit, EndPlay, vars, games, TypeOK
  <2>. QED
    BY <2>1, <2>2, <2>3
<1>5. play' \in [Clients -> Play \cup {NoMap}]
  <2>1. CASE StartPlay
    <3>1. PICK p \in Clients, k \in Mods :
            /\ selected[p] # NoMap
            /\ play' = [play EXCEPT ![p] = [map |-> selected[p], mods |-> k, hits |-> 0]]
      BY <2>1 DEF StartPlay
    <3>2. [map |-> selected[p], mods |-> k, hits |-> 0] \in Play
      BY <3>1, MapsAssumption DEF Play, TypeOK, MapOrNone, MapsAssumption
    <3>. QED
      BY <3>1, <3>2 DEF TypeOK
  <2>2. CASE Hit
    <3>1. PICK p \in Clients :
            /\ play[p] # NoMap /\ play[p].hits < MaxHits
            /\ play' = [play EXCEPT ![p] = [play[p] EXCEPT !.hits = @ + 1]]
      BY <2>2 DEF Hit
    <3>2. play[p] \in Play
      BY <3>1 DEF TypeOK
    <3>3. [play[p] EXCEPT !.hits = @ + 1] \in Play
      BY <3>1, <3>2, MapsAssumption DEF Play, MapsAssumption
    <3>. QED
      BY <3>1, <3>3 DEF TypeOK
  <2>3. CASE SelectMap \/ WriteField \/ EndPlay \/ UNCHANGED vars
    BY <2>3 DEF SelectMap, WriteField, EndPlay, vars, games, TypeOK
  <2>. QED
    BY <2>1, <2>2, <2>3
<1>6. TypeOK'
  BY <1>1, <1>3, <1>4, <1>5 DEF TypeOK, caches, session
<1>. QED
  BY <1>2, <1>6

-----------------------------------------------------------------------------
(* One client of a poll.                                                   *)

(* The play of a tick, and its mods and judgements.                        *)
LEMMA GameplayType ==
  ASSUME TypeOK, NEW p \in Clients, NEW STATE bm
  PROVE  /\ Gameplay(p, bm) \in Play \cup {NoMap}
         /\ ModsOf(Gameplay(p, bm)) \in Mods
         /\ HitsOf(Gameplay(p, bm)) \in 0..MaxHits
<1>1. Gameplay(p, bm) \in Play \cup {NoMap}
  BY DEF Gameplay, TypeOK
<1>2. NoMod \in Mods /\ 0 \in 0..MaxHits
  BY MapsAssumption DEF MapsAssumption
<1>. QED
  BY <1>1, <1>2 DEF ModsOf, HitsOf, Play

(* Another file than the one the statistics were of comes with no          *)
(* statistics; what is made in this step is of the new one.                *)
LEMMA SessionRead ==
  ASSUME TypeOK, StatsOfOneFile, NEW STATE bm, bm \in [Fields -> Maps] \cup {NoMap},
         NEW STATE g, ModsOf(g) \in Mods, LoadFile(bm), StatsByMods(bm, g)
  PROVE  /\ current' \in MapOrNone /\ parsed' \in MapOrNone
         /\ rows' \in [Mods -> MapOrNone] /\ StatsOfOneFile'
         /\ StatsOf(bm, g) \in MapOrNone
<1>1. current' \in MapOrNone /\ parsed' \in MapOrNone
  BY DEF LoadFile, NewForSession, TypeOK, MapOrNone, Fields
<1>. DEFINE kept == IF NewForSession(bm) THEN NoRows ELSE rows
<1>2. kept \in [Mods -> MapOrNone] /\ \A k \in Mods : kept[k] \in {parsed', NoMap}
  <2>1. CASE NewForSession(bm)
    BY <2>1 DEF NoRows, MapOrNone
  <2>2. CASE ~NewForSession(bm)
    BY <2>2 DEF LoadFile, StatsOfOneFile, TypeOK
  <2>. QED
    BY <2>1, <2>2
<1>3. rows' = IF WantsRow(bm, g) /\ kept[ModsOf(g)] = NoMap
              THEN [kept EXCEPT ![ModsOf(g)] = parsed'] ELSE kept
  BY DEF StatsByMods
<1>. HIDE DEF kept
<1>4. rows' \in [Mods -> MapOrNone] /\ \A k \in Mods : rows'[k] \in {parsed', NoMap}
  <2>1. CASE WantsRow(bm, g) /\ kept[ModsOf(g)] = NoMap
    BY <1>1, <1>2, <1>3, <2>1
  <2>2. CASE ~(WantsRow(bm, g) /\ kept[ModsOf(g)] = NoMap)
    BY <1>2, <1>3, <2>2
  <2>. QED
    BY <2>1, <2>2
<1>5. StatsOf(bm, g) \in MapOrNone
  BY <1>1, <1>4 DEF StatsOf, MapOrNone
<1>6. StatsOfOneFile'
  BY <1>4 DEF StatsOfOneFile
<1>. QED
  BY <1>1, <1>4, <1>5, <1>6

(* The pp after a tick: none without a parsed file, else of the judgements *)
(* and the mods of the play.                                               *)
LEMMA PpRead ==
  ASSUME TypeOK, NEW p \in Clients, NEW STATE bm, bm \in [Fields -> Maps] \cup {NoMap}, NEW STATE g,
         ModsOf(g) \in Mods, HitsOf(g) \in 0..MaxHits, parsed' \in MapOrNone, LivePp(p, bm, g)
  PROVE  /\ livePp' \in [Clients -> Pp \cup {NoMap}]
         /\ full' \in [Maps \X Mods -> MapOrNone]
         /\ parsed' # NoMap => /\ livePp'[p] \in Pp
                               /\ livePp'[p].hits = HitsOf(g) /\ livePp'[p].mods = ModsOf(g)
<1>1. CASE parsed' = NoMap
  BY <1>1 DEF LivePp, TypeOK
<1>2. CASE parsed' # NoMap /\ PpStands(p, bm, g)
  <2>1. livePp' = livePp /\ full' = full
    BY <1>2 DEF LivePp
  <2>2. livePp[p] # NoMap /\ livePp[p].mods = ModsOf(g) /\ livePp[p].hits = HitsOf(g)
    BY <1>2 DEF PpStands
  <2>. QED
    BY <2>1, <2>2 DEF TypeOK
<1>3. CASE parsed' # NoMap /\ ~PpStands(p, bm, g)
  <2>1. parsed' \in Maps
    BY <1>3 DEF MapOrNone
  <2>2. FullDifficulty(bm, g) \in Maps
    BY <2>1 DEF FullDifficulty, TypeOK, MapOrNone, Fields
  <2>. DEFINE blind == bm = NoMap
              pp == [mods |-> ModsOf(g), hits |-> HitsOf(g), full |-> FullDifficulty(bm, g),
                     of |-> parsed', blind |-> blind]
  <2>3. livePp' = [livePp EXCEPT ![p] = pp]
    BY <1>3 DEF LivePp
  <2>4. blind \in BOOLEAN
    OBVIOUS
  <2>5. pp \in Pp
    <3>. HIDE DEF blind
    <3>. QED
      BY <2>1, <2>2, <2>4 DEF Pp
  <2>6. pp.hits = HitsOf(g) /\ pp.mods = ModsOf(g)
    OBVIOUS
  <2>. HIDE DEF pp, blind
  <2>7. livePp' \in [Clients -> Pp \cup {NoMap}] /\ livePp'[p] = pp
    BY <2>3, <2>5 DEF TypeOK
  <2>8. full' \in [Maps \X Mods -> MapOrNone]
    <3>1. full' = IF bm = NoMap THEN full
                  ELSE [full EXCEPT ![<<bm["id"], ModsOf(g)>>] = FullDifficulty(bm, g)]
      BY <1>3 DEF LivePp
    <3>. QED
      BY <2>2, <3>1 DEF TypeOK, MapOrNone
  <2>. QED
    BY <2>5, <2>6, <2>7, <2>8
<1>. QED
  BY <1>1, <1>2, <1>3

LEMMA ReadClientKeeps ==
  ASSUME MapsInv, NEW p \in Clients, NEW ok \in BOOLEAN, ReadClient(p, ok), UNCHANGED games,
         next' \in Clients, failures' \in 0..MaxFailures
  PROVE  MapsInv'
<1>. USE DEF MapsInv
<1>. DEFINE bm == Beatmap(p, ok)
            g == Gameplay(p, bm)
<1>1. bm \in [Fields -> Maps] \cup {NoMap}
  BY DEF Beatmap, Reuses, TypeOK
<1>2. g \in Play \cup {NoMap} /\ ModsOf(g) \in Mods /\ HitsOf(g) \in 0..MaxHits
  BY GameplayType
<1>3. /\ HoldBeatmap(p, ok)
      /\ checksum' = [checksum EXCEPT ![p] = IF bm = NoMap THEN @ ELSE bm["md5"]]
      /\ LoadFile(bm)
      /\ game' = [game EXCEPT ![p] = g]
      /\ StatsByMods(bm, g)
      /\ LivePp(p, bm, g)
      /\ ShowView(p, bm, g)
  BY DEF ReadClient
<1>. HIDE DEF bm, g
<1>4. UNCHANGED <<selected, record, play, moves>>
  BY DEF games
<1>5. held' \in [Clients -> [Fields -> Maps] \cup {NoMap}]
  BY <1>3 DEF HoldBeatmap, TypeOK
<1>6. /\ current' \in MapOrNone /\ parsed' \in MapOrNone
      /\ rows' \in [Mods -> MapOrNone] /\ StatsOfOneFile'
      /\ StatsOf(bm, g) \in MapOrNone
  BY <1>1, <1>2, <1>3, SessionRead
<1>7. /\ livePp' \in [Clients -> Pp \cup {NoMap}]
      /\ full' \in [Maps \X Mods -> MapOrNone]
      /\ parsed' # NoMap => /\ livePp'[p] \in Pp
                            /\ livePp'[p].hits = HitsOf(g) /\ livePp'[p].mods = ModsOf(g)
  BY <1>1, <1>2, <1>3, <1>6, PpRead
<1>8. checksum' \in [Clients -> MapOrNone]
  BY <1>1, <1>3 DEF TypeOK, MapOrNone, Fields
<1>9. game' \in [Clients -> Play \cup {NoMap}]
  BY <1>2, <1>3 DEF TypeOK
<1>. DEFINE stars == bm # NoMap /\ parsed' # NoMap /\ HitsOf(g) > 0 /\ ~PpStands(p, bm, g)
            map == IF bm = NoMap THEN NoMap ELSE bm["md5"]
            mods == IF WantsRow(bm, g) THEN ModsOf(g) ELSE NoMod
            pp == IF parsed' = NoMap THEN NoMap ELSE livePp'[p]
            v == [map |-> map, stats |-> StatsOf(bm, g), mods |-> mods, play |-> g, pp |-> pp,
                  stars |-> stars]
<1>10. views' = [views EXCEPT ![p] = v]
  BY <1>3 DEF ShowView
<1>11. /\ map \in MapOrNone /\ mods \in Mods /\ pp \in Pp \cup {NoMap} /\ stars \in BOOLEAN
       /\ pp # NoMap => pp.hits = HitsOf(g) /\ pp.mods = ModsOf(g)
  BY <1>1, <1>2, <1>7, MapsAssumption DEF MapOrNone, Fields, MapsAssumption
<1>. HIDE DEF map, mods, pp, stars
<1>12. v \in View /\ v.play = g /\ v.pp = pp
  BY <1>2, <1>6, <1>11 DEF View
<1>. HIDE DEF v
<1>13. /\ views' \in [Clients -> View]
       /\ views'[p] = v /\ \A q \in Clients \ {p} : views'[q] = views[q]
  BY <1>10, <1>12 DEF TypeOK
<1>14. PpOfTheJudgements'
  BY <1>11, <1>12, <1>13 DEF PpOfTheJudgements
<1>15. TypeOK'
  BY <1>4, <1>5, <1>6, <1>7, <1>8, <1>9, <1>13 DEF TypeOK
<1>. QED
  BY <1>6, <1>14, <1>15

LEMMA MapsStep == MapsInv /\ [Next]_vars => MapsInv'
<1>. SUFFICES ASSUME MapsInv, [Next]_vars PROVE MapsInv'
  OBVIOUS
<1>1. CASE SelectMap \/ WriteField \/ StartPlay \/ Hit \/ EndPlay \/ UNCHANGED vars
  BY <1>1, GamesKeep
<1>2. CASE Tick
  <2>1. next' \in Clients /\ UNCHANGED games
    BY <1>2, MapsAssumption DEF Tick, MapsAssumption
  <2>2. PICK p \in Clients : p = next
    BY DEF MapsInv, TypeOK
  <2>3. PICK ok \in BOOLEAN : ReadClient(p, ok) /\ failures' \in 0..MaxFailures
    <3>1. CASE ReadClient(p, TRUE) /\ UNCHANGED failures
      BY <3>1 DEF MapsInv, TypeOK
    <3>2. CASE ReadClient(p, FALSE) /\ failures < MaxFailures /\ failures' = failures + 1
      <4>1. failures' \in 0..MaxFailures
        BY <3>2, MapsAssumption DEF MapsInv, TypeOK, MapsAssumption
      <4>. QED
        BY <3>2, <4>1
    <3>. QED
      BY <1>2, <2>2, <3>1, <3>2 DEF Tick
  <2>. QED
    BY <2>1, <2>3, ReadClientKeeps
<1>. QED
  BY <1>1, <1>2 DEF Next

(* Beside the clients' half.                                               *)
LEMMA MapsInvHolds == TourneySpec => []MapsInv
<1>1. TourneyInit => MapsInv
  BY MapsStart DEF TourneyInit
<1>2. MapsInv /\ [TourneyNext]_both => MapsInv'
  BY MapsStep DEF TourneyNext, both
<1>. QED
  BY <1>1, <1>2, PTL DEF TourneySpec

-----------------------------------------------------------------------------
(* Who takes part.                                                         *)

LEMMA ClientsConstants ==
  Slot \in [Procs -> Nat] /\ Room \in Nat \ {0} /\ MaxChanges \in Nat /\ None \notin Players
  BY TourneyAssumption DEF C!ClientsAssumption

Messages == [n : Nat, by : Players]

ClientTypes ==
  /\ running \subseteq Procs
  /\ watched \in [Procs -> C!UserOrNone]
  /\ channel \in Seq(Messages)
  /\ changes \in Nat
  /\ DOMAIN clients \subseteq Procs /\ \A p \in DOMAIN clients : clients[p] \in C!Client

(* Who is kept for a client is who its kept pointer was at, but for the    *)
(* pointer that moved in a pass that could not read.                       *)
UserOfPtr ==
  \A p \in DOMAIN clients : clients[p].user \in {None, clients[p].ptr} \/ clients[p].missed

(* The messages of the channel are numbered by the moves up to now, in     *)
(* their order.                                                            *)
ChannelIsPast ==
  /\ \A i \in 1..Len(channel) : channel[i].n <= changes
  /\ \A i, j \in 1..Len(channel) : i < j => channel[i].n < channel[j].n

(* The key is the last line of the kept chat.  As long as its message is   *)
(* where it was, so are all the others; once it has moved it is a later    *)
(* one that is in its place.                                               *)
ChatWasTheChannel ==
  chat # <<>> =>
    /\ chatKey.index \in 1..Len(channel) /\ chatKey.n \in Nat
    /\ DOMAIN chat \subseteq 1..chatKey.index
    /\ channel[chatKey.index].n >= chatKey.n
    /\ channel[chatKey.index].n = chatKey.n =>
         \A i \in DOMAIN chat : channel[i].n = chat[i].n

PeopleInv == ClientTypes /\ UserOfPtr /\ C!UserOfThePointer /\ ChannelIsPast /\ ChatWasTheChannel

-----------------------------------------------------------------------------
LEMMA PeopleStart == C!Init => PeopleInv
  <1> SUFFICES ASSUME C!Init
               PROVE  PeopleInv
    OBVIOUS
  <1>1. /\ running \subseteq Procs /\ watched = [p \in Procs |-> None] /\ channel = <<>> /\ changes = 0
        /\ clients = <<>> /\ chat = <<>> /\ shown = <<>>
    BY DEF C!Init
  <1>2. DOMAIN clients = {} /\ DOMAIN shown = {}
    BY <1>1
  <1>3. ClientTypes
    BY <1>1, <1>2 DEF ClientTypes, C!UserOrNone
  <1>4. UserOfPtr /\ C!UserOfThePointer
    BY <1>2 DEF UserOfPtr, C!UserOfThePointer
  <1>5. ChannelIsPast /\ ChatWasTheChannel
    BY <1>1 DEF ChannelIsPast, ChatWasTheChannel
  <1> QED
    BY <1>3, <1>4, <1>5 DEF PeopleInv

(* What a step leaves alone stays true.                                    *)
LEMMA ChatStays ==
  ASSUME PeopleInv, UNCHANGED <<channel, chat, chatKey>>, changes' \in Nat, changes <= changes'
  PROVE  ChannelIsPast' /\ ChatWasTheChannel'
  <1>1. channel \in Seq(Messages) /\ changes \in Nat
    BY DEF PeopleInv, ClientTypes
  <1>2. \A i \in 1..Len(channel) : channel[i].n <= changes'
    <2> SUFFICES ASSUME NEW i \in 1..Len(channel)
                 PROVE  channel[i].n <= changes'
      OBVIOUS
    <2>1. channel[i] \in Messages
      BY <1>1
    <2>2. channel[i].n \in Nat
      BY <2>1 DEF Messages
    <2>3. channel[i].n <= changes
      BY DEF PeopleInv, ChannelIsPast
    <2> QED
      BY <1>1, <2>2, <2>3
  <1>3. ChannelIsPast'
    BY <1>2 DEF PeopleInv, ChannelIsPast
  <1>4. ChatWasTheChannel'
    BY DEF PeopleInv, ChatWasTheChannel
  <1> QED
    BY <1>3, <1>4

-----------------------------------------------------------------------------
(* What a client that is looked at comes to.                               *)
GoodClient(c) == c \in C!Client /\ (c.user \in {None, c.ptr} \/ c.missed)

(* The first pass (FirstLook).                                             *)
LEMMA FirstLookGood ==
  ASSUME ClientTypes, NEW p \in DOMAIN clients, GoodClient(clients[p]), NEW F
  PROVE  GoodClient(C!FirstLook(p, F))
  <1> DEFINE c == clients[p]
             u == watched[p]
  <1>1. c \in C!Client /\ u \in C!UserOrNone /\ (c.user # None) \in BOOLEAN
    BY DEF ClientTypes
  <1>2. \/ C!FirstLook(p, F) = c
        \/ C!FirstLook(p, F) = [c EXCEPT !.ptr = u, !.missed = (c.user # None)]
        \/ C!FirstLook(p, F) = [c EXCEPT !.ptr = u, !.user = u, !.missed = FALSE]
    BY DEF C!FirstLook
  <1>3. CASE C!FirstLook(p, F) = c
    BY <1>3
  <1> HIDE DEF c, u
  <1>4. CASE C!FirstLook(p, F) = [c EXCEPT !.ptr = u, !.missed = (c.user # None)]
    <2> DEFINE m == c.user # None
               d == [c EXCEPT !.ptr = u, !.missed = m]
    <2>1. m \in BOOLEAN /\ C!FirstLook(p, F) = d
      BY <1>4
    <2> HIDE DEF m
    <2>2. d \in C!Client
      BY <1>1, <2>1 DEF C!Client
    <2>4. d.user = c.user /\ d.missed = m
      BY <1>1, <2>1 DEF C!Client
    <2>3. d.user = None \/ d.missed
      BY <2>4 DEF m
    <2> QED
      BY <2>1, <2>2, <2>3 DEF GoodClient
  <1>5. CASE C!FirstLook(p, F) = [c EXCEPT !.ptr = u, !.user = u, !.missed = FALSE]
    <2> DEFINE m == FALSE
               d == [c EXCEPT !.ptr = u, !.user = u, !.missed = m]
    <2>1. m \in BOOLEAN /\ C!FirstLook(p, F) = d
      BY <1>5
    <2> HIDE DEF m
    <2>2. d \in C!Client
      BY <1>1, <2>1 DEF C!Client
    <2>3. d.user = u /\ d.ptr = u
      BY <1>1, <2>1 DEF C!Client
    <2> QED
      BY <2>1, <2>2, <2>3 DEF GoodClient
  <1> QED
    BY <1>2, <1>3, <1>4, <1>5

(* The patterns looked for again (Retried).                                *)
LEMMA RetriedGood ==
  ASSUME ClientTypes, NEW p \in DOMAIN clients, GoodClient(clients[p]), NEW F
  PROVE  /\ GoodClient(C!Retried(p, F))
         /\ C!Retried(p, F).id = clients[p].id
  <1> DEFINE c == clients[p]
             r == c.ruleset \/ <<p, "ruleset">> \notin F
             t == c.pattern \/ (c.id # 0 /\ <<p, "pattern">> \notin F)
  <1>1. c \in C!Client
    BY DEF ClientTypes
  <1>2. \/ C!Retried(p, F) = c
        \/ C!Retried(p, F) = [c EXCEPT !.ruleset = r, !.pattern = t]
    BY DEF C!Retried
  <1>3. CASE C!Retried(p, F) = c
    BY <1>3
  <1>4. CASE C!Retried(p, F) = [c EXCEPT !.ruleset = r, !.pattern = t]
    <2>1. r \in BOOLEAN /\ t \in BOOLEAN
      BY <1>1 DEF C!Client
    <2> HIDE DEF c, r, t
    <2> DEFINE d == [c EXCEPT !.ruleset = r, !.pattern = t]
    <2>2. d \in C!Client
      BY <1>1, <2>1 DEF C!Client
    <2>3. d.id = c.id /\ d.user = c.user /\ d.ptr = c.ptr /\ d.missed = c.missed
      BY <1>1 DEF C!Client
    <2>4. GoodClient(c)
      BY DEF c
    <2> QED
      BY <1>4, <2>2, <2>3, <2>4 DEF GoodClient, c
  <1> QED
    BY <1>2, <1>3, <1>4

(* The second pass (SecondLook): a client that was read shows the player   *)
(* its pointer is at, or nobody.                                           *)
LEMMA SecondLookGood ==
  ASSUME ClientTypes, NEW p \in DOMAIN clients, GoodClient(clients[p]), NEW F
  PROVE  /\ GoodClient(C!SecondLook(p, F))
         /\ clients[p].id # 0 =>
              \/ C!View(p, F).user \in {None, C!View(p, F).at}
              \/ C!SecondLook(p, F).missed
  <1> DEFINE c == C!Retried(p, F)
             u == watched[p]
             s == C!SecondLook(p, F)
             v == IF <<p, "user">> \in F THEN None ELSE u
             read == s.pattern /\ p \in running /\ <<p, "pointer">> \notin F
  <1>1. GoodClient(c) /\ c.id = clients[p].id
    BY RetriedGood
  <1>2. u \in C!UserOrNone /\ v \in C!UserOrNone /\ FALSE \in BOOLEAN
    BY DEF ClientTypes, C!UserOrNone
  <1>3. \/ /\ s = c
           /\ c.id = 0 \/ ~c.pattern \/ p \notin running \/ <<p, "pointer">> \in F \/ C!IsCached(c, u)
        \/ s = [c EXCEPT !.ptr = u, !.missed = FALSE, !.user = v]
    BY DEF C!SecondLook
  <1>4. C!View(p, F).at = (IF read THEN u ELSE None) /\ C!View(p, F).user = IF read THEN s.user ELSE None
    BY DEF C!View
  <1> HIDE DEF c, u, s, v, read
  <1>5. CASE s = [c EXCEPT !.ptr = u, !.missed = FALSE, !.user = v]
    <2> DEFINE m == FALSE
               e == [c EXCEPT !.ptr = u, !.missed = m, !.user = v]
    <2>0. m \in BOOLEAN /\ c \in C!Client /\ s = e
      BY <1>1, <1>5 DEF GoodClient
    <2> HIDE DEF m
    <2>1. e \in C!Client
      BY <1>2, <2>0 DEF C!Client
    <2>6. e.ptr = u /\ e.user = v
      BY <1>2, <2>0 DEF C!Client
    <2>2. s \in C!Client /\ s.ptr = u /\ s.user = v
      BY <2>0, <2>1, <2>6
    <2>3. v \in {None, u}
      BY DEF v
    <2>4. GoodClient(s)
      BY <2>2, <2>3 DEF GoodClient
    <2>5. C!View(p, F).user \in {None, C!View(p, F).at}
      BY <1>4, <2>2, <2>3
    <2> QED
      BY <2>4, <2>5 DEF s
  <1>6. CASE /\ s = c
             /\ c.id = 0 \/ ~c.pattern \/ p \notin running \/ <<p, "pointer">> \in F \/ C!IsCached(c, u)
    <2>1. GoodClient(s)
      BY <1>1, <1>6
    <2>2. ASSUME clients[p].id # 0
          PROVE  C!View(p, F).user \in {None, C!View(p, F).at} \/ s.missed
      <3>1. CASE read
        <4>1. C!IsCached(c, u)
          BY <1>1, <1>6, <2>2, <3>1 DEF read
        <4>2. u = c.ptr
          BY <4>1 DEF C!IsCached
        <4> QED
          BY <1>1, <1>4, <1>6, <3>1, <4>2 DEF GoodClient
      <3>2. CASE ~read
        BY <1>4, <3>2
      <3> QED
        BY <3>1, <3>2
    <2> QED
      BY <2>1, <2>2 DEF s
  <1> QED
    BY <1>3, <1>5, <1>6

-----------------------------------------------------------------------------
(* The chat that is kept, when the channel goes on: a message that drops   *)
(* the oldest one moves all others a place down, and then a later message  *)
(* than the key's is in the key's place.                                   *)
LEMMA ChatFollows ==
  ASSUME PeopleInv, NEW u \in Players,
         changes' = changes + 1, UNCHANGED <<chat, chatKey>>,
         LET longer == Append(channel, [n |-> changes + 1, by |-> u])
         IN  channel' = IF Len(longer) > Room THEN Tail(longer) ELSE longer
  PROVE  channel' \in Seq(Messages) /\ ChannelIsPast' /\ ChatWasTheChannel'
  <1> DEFINE m == [n |-> changes + 1, by |-> u]
             l == Append(channel, m)
  <1>1. channel \in Seq(Messages) /\ changes \in Nat
    BY DEF PeopleInv, ClientTypes
  <1>2. m \in Messages /\ m.n = changes + 1
    BY <1>1 DEF Messages
  <1> HIDE DEF m
  <1>3. l \in Seq(Messages) /\ Len(l) = Len(channel) + 1
    BY <1>1, <1>2
  <1>4. \A i \in 1..Len(channel) : l[i] = channel[i]
    BY <1>1, <1>2
  <1>5. l[Len(channel) + 1] = m
    BY <1>1, <1>2
  <1> HIDE DEF l
  <1>6. Len(l) \in Nat /\ Len(channel) \in Nat /\ l # <<>>
    BY <1>1, <1>3
  <1>7. \A i \in 1..Len(channel) : l[i].n \in Nat /\ l[i].n <= changes
    <2> SUFFICES ASSUME NEW i \in 1..Len(channel)
                 PROVE  l[i].n \in Nat /\ l[i].n <= changes
      OBVIOUS
    <2>1. channel[i] \in Messages /\ channel[i].n <= changes
      BY <1>1 DEF PeopleInv, ChannelIsPast
    <2> QED
      BY <1>4, <2>1 DEF Messages
  <1>8. \A i \in 1..Len(l) : l[i].n \in Nat /\ l[i].n <= changes + 1
    <2> SUFFICES ASSUME NEW i \in 1..Len(l)
                 PROVE  l[i].n \in Nat /\ l[i].n <= changes + 1
      OBVIOUS
    <2>1. CASE i \in 1..Len(channel)
      BY <1>1, <1>7, <2>1
    <2>2. CASE i = Len(channel) + 1
      BY <1>1, <1>2, <1>5, <2>2
    <2> QED
      BY <1>3, <1>6, <2>1, <2>2
  <1>9. \A i, j \in 1..Len(l) : i < j => l[i].n < l[j].n
    <2> SUFFICES ASSUME NEW i \in 1..Len(l), NEW j \in 1..Len(l), i < j
                 PROVE  l[i].n < l[j].n
      OBVIOUS
    <2>1. i \in 1..Len(channel)
      BY <1>3, <1>6
    <2>2. CASE j \in 1..Len(channel)
      <3>1. channel[i].n < channel[j].n
        BY <2>1, <2>2 DEF PeopleInv, ChannelIsPast
      <3> QED
        BY <1>4, <2>1, <2>2, <3>1
    <2>3. CASE j = Len(channel) + 1
      <3>1. l[i].n \in Nat /\ l[i].n <= changes /\ l[j].n = changes + 1
        BY <1>2, <1>5, <1>7, <2>1, <2>3
      <3> QED
        BY <1>1, <3>1
    <2> QED
      BY <1>3, <1>6, <2>2, <2>3
  <1>10. channel' = l \/ channel' = Tail(l)
    BY DEF l, m
  <1>11. CASE channel' = l
    <2>1. channel' \in Seq(Messages) /\ ChannelIsPast'
      BY <1>3, <1>8, <1>9, <1>11 DEF ChannelIsPast
    <2>2. ASSUME chat # <<>>
          PROVE  /\ chatKey.index \in 1..Len(l) /\ chatKey.n \in Nat
                 /\ DOMAIN chat \subseteq 1..chatKey.index
                 /\ l[chatKey.index].n >= chatKey.n
                 /\ l[chatKey.index].n = chatKey.n => \A i \in DOMAIN chat : l[i].n = chat[i].n
      <3>1. /\ chatKey.index \in 1..Len(channel) /\ chatKey.n \in Nat
            /\ DOMAIN chat \subseteq 1..chatKey.index
            /\ channel[chatKey.index].n >= chatKey.n
            /\ channel[chatKey.index].n = chatKey.n => \A i \in DOMAIN chat : channel[i].n = chat[i].n
        BY <2>2 DEF PeopleInv, ChatWasTheChannel
      <3>2. DOMAIN chat \subseteq 1..Len(channel) /\ chatKey.index \in 1..Len(l)
        BY <1>3, <1>6, <3>1
      <3> QED
        BY <1>4, <3>1, <3>2
    <2>3. ChatWasTheChannel'
      BY <1>11, <2>2 DEF ChatWasTheChannel
    <2> QED
      BY <2>1, <2>3
  <1>12. CASE channel' = Tail(l)
    <2>1. Tail(l) \in Seq(Messages) /\ Len(Tail(l)) = Len(channel)
      BY <1>3, <1>6
    <2>2. \A i \in 1..Len(channel) : i + 1 \in 1..Len(l) /\ Tail(l)[i] = l[i + 1]
      BY <1>3, <1>6
    <2>3. \A i \in 1..Len(channel) : Tail(l)[i].n <= changes + 1
      BY <1>8, <2>2
    <2>4. \A i, j \in 1..Len(channel) : i < j => Tail(l)[i].n < Tail(l)[j].n
      <3> SUFFICES ASSUME NEW i \in 1..Len(channel), NEW j \in 1..Len(channel), i < j
                   PROVE  Tail(l)[i].n < Tail(l)[j].n
        OBVIOUS
      <3>1. i + 1 \in 1..Len(l) /\ j + 1 \in 1..Len(l) /\ i + 1 < j + 1
        BY <1>6, <2>2
      <3>2. l[i + 1].n < l[j + 1].n
        BY <1>9, <3>1
      <3> QED
        BY <2>2, <3>2
    <2>5. ChannelIsPast'
      BY <1>12, <2>1, <2>3, <2>4 DEF ChannelIsPast
    <2>6. ASSUME chat # <<>>
          PROVE  /\ chatKey.index \in 1..Len(channel) /\ chatKey.n \in Nat
                 /\ DOMAIN chat \subseteq 1..chatKey.index
                 /\ Tail(l)[chatKey.index].n > chatKey.n /\ Tail(l)[chatKey.index].n \in Nat
      <3>1. /\ chatKey.index \in 1..Len(channel) /\ chatKey.n \in Nat
            /\ DOMAIN chat \subseteq 1..chatKey.index
            /\ channel[chatKey.index].n >= chatKey.n
        BY <2>6 DEF PeopleInv, ChatWasTheChannel
      <3> DEFINE x == chatKey.index
      <3>2. x \in 1..Len(channel) /\ x \in 1..Len(l) /\ x + 1 \in 1..Len(l) /\ x < x + 1
        BY <1>3, <1>6, <3>1
      <3>3. l[x].n < l[x + 1].n /\ l[x].n = channel[x].n /\ Tail(l)[x] = l[x + 1]
        BY <1>4, <1>9, <2>2, <3>2
      <3>4. l[x].n \in Nat /\ l[x + 1].n \in Nat
        BY <1>8, <3>2
      <3>5. l[x].n >= chatKey.n /\ chatKey.n \in Nat
        BY <3>1, <3>3
      <3> DEFINE before == l[x].n
                 after == l[x + 1].n
                 key == chatKey.n
      <3>6. before \in Nat /\ after \in Nat /\ key \in Nat /\ before >= key /\ before < after
        BY <3>3, <3>4, <3>5
      <3> HIDE DEF before, after, key
      <3>7. after > key
        BY <3>6
      <3>8. Tail(l)[x].n > chatKey.n /\ Tail(l)[x].n \in Nat
        BY <3>3, <3>6, <3>7 DEF after, key
      <3> QED
        BY <3>1, <3>8 DEF x
    <2>7. ChatWasTheChannel'
      <3> SUFFICES ASSUME chat # <<>>
                   PROVE  /\ chatKey.index \in 1..Len(channel) /\ chatKey.n \in Nat
                          /\ DOMAIN chat \subseteq 1..chatKey.index
                          /\ Tail(l)[chatKey.index].n >= chatKey.n
                          /\ Tail(l)[chatKey.index].n # chatKey.n
        BY <1>12, <2>1 DEF ChatWasTheChannel
      <3>1. /\ chatKey.index \in 1..Len(channel) /\ chatKey.n \in Nat
            /\ DOMAIN chat \subseteq 1..chatKey.index
            /\ Tail(l)[chatKey.index].n > chatKey.n /\ Tail(l)[chatKey.index].n \in Nat
        BY <2>6
      <3> DEFINE t == Tail(l)[chatKey.index].n
                 key == chatKey.n
      <3>2. t \in Nat /\ key \in Nat /\ t > key
        BY <3>1
      <3> HIDE DEF t, key
      <3>3. t >= key /\ t # key
        BY <3>2
      <3> QED
        BY <3>1, <3>3 DEF t, key
    <2> QED
      BY <1>12, <2>1, <2>5, <2>7
  <1> QED
    BY <1>10, <1>11, <1>12

(* A chat that is read: the kept one is in the channel because the message *)
(* at its key has not moved, and each new line is in the slot it was read  *)
(* from.                                                                   *)
LEMMA ChatIsRead ==
  ASSUME PeopleInv, NEW F, UNCHANGED <<channel, changes>>,
         (C!ChatIsCached(F) /\ said' = chat /\ UNCHANGED <<chatKey, chat>>) \/ C!ReadChat(F)
  PROVE  /\ ChatWasTheChannel'
         /\ \A i \in DOMAIN said' : i \in DOMAIN channel /\ said'[i].n = channel[i].n
  <1>1. channel \in Seq(Messages)
    BY DEF PeopleInv, ClientTypes
  <1>2. Len(channel) \in Nat /\ DOMAIN channel = 1..Len(channel)
    BY <1>1
  <1>3. CASE C!ChatIsCached(F) /\ said' = chat /\ UNCHANGED <<chatKey, chat>>
    <2>1. chat # <<>> /\ channel[chatKey.index].n = chatKey.n
      BY <1>3 DEF C!ChatIsCached
    <2>2. /\ chatKey.index \in 1..Len(channel) /\ DOMAIN chat \subseteq 1..chatKey.index
          /\ \A i \in DOMAIN chat : channel[i].n = chat[i].n
      BY <2>1 DEF PeopleInv, ChatWasTheChannel
    <2>3. \A i \in DOMAIN chat : i \in DOMAIN channel
      BY <1>2, <2>2
    <2>4. ChatWasTheChannel'
      BY <1>3 DEF PeopleInv, ChatWasTheChannel
    <2> QED
      BY <1>3, <2>2, <2>3, <2>4
  <1>4. CASE C!ReadChat(F)
    <2> DEFINE S == C!LinesRead(F)
    <2>1. S \subseteq DOMAIN channel
      BY DEF C!LinesRead, C!Walked
    <2>2. chat' = [i \in S |-> C!LineRead(i, F)] /\ said' = chat'
      BY <1>4 DEF C!ReadChat
    <2>3. \/ S = {}
          \/ \E i \in S : (\A j \in S : j <= i) /\ chatKey' = [index |-> i, n |-> channel[i].n]
      BY <1>4 DEF C!ReadChat
    <2> HIDE DEF S
    <2>4. \A i \in S : chat'[i].n = channel[i].n
      BY <2>2 DEF C!LineRead
    <2>5. DOMAIN chat' = S
      BY <2>2
    <2>6. ASSUME chat' # <<>>
          PROVE  /\ chatKey'.index \in 1..Len(channel) /\ chatKey'.n \in Nat
                 /\ DOMAIN chat' \subseteq 1..chatKey'.index
                 /\ channel[chatKey'.index].n >= chatKey'.n
      <3>1. S # {}
        BY <2>2, <2>6
      <3>2. PICK i \in S : (\A j \in S : j <= i) /\ chatKey' = [index |-> i, n |-> channel[i].n]
        BY <2>3, <3>1
      <3>3. i \in 1..Len(channel) /\ S \subseteq 1..Len(channel)
        BY <1>2, <2>1
      <3>4. channel[i] \in Messages
        BY <1>1, <3>3
      <3>5. channel[i].n \in Nat
        BY <3>4 DEF Messages
      <3>6. S \subseteq 1..i
        BY <1>2, <3>2, <3>3
      <3> QED
        BY <2>5, <3>2, <3>3, <3>5, <3>6
    <2>7. ChatWasTheChannel'
      BY <2>4, <2>5, <2>6 DEF ChatWasTheChannel
    <2> QED
      BY <2>1, <2>2, <2>4, <2>5, <2>7
  <1> QED
    BY <1>3, <1>4

-----------------------------------------------------------------------------
(* Clients that are left alone.                                            *)
LEMMA ClientsStay ==
  ASSUME PeopleInv, UNCHANGED <<clients, shown, pc>>
  PROVE  UserOfPtr' /\ C!UserOfThePointer'
  BY DEF PeopleInv, UserOfPtr, C!UserOfThePointer

LEMMA TypesStay ==
  ASSUME PeopleInv, UNCHANGED clients,
         running' \subseteq Procs, watched' \in [Procs -> C!UserOrNone],
         channel' \in Seq(Messages), changes' \in Nat
  PROVE  ClientTypes'
  BY DEF PeopleInv, ClientTypes, C!UserOrNone, C!Client

(* A step of the game.                                                     *)
LEMMA GameKeeps ==
  ASSUME PeopleInv, C!ProcessStarts \/ C!ProcessEnds \/ C!PlayerChanges \/ C!MessageArrives
  PROVE  PeopleInv'
  <1>1. C!GameMoves
    BY DEF C!ProcessStarts, C!ProcessEnds, C!PlayerChanges, C!MessageArrives
  <1>2. changes' = changes + 1 /\ UNCHANGED <<pc, clients, chat, chatKey, shown>>
    BY <1>1 DEF C!GameMoves, C!chats, C!snapshot
  <1>3. running \subseteq Procs /\ watched \in [Procs -> C!UserOrNone]
        /\ channel \in Seq(Messages) /\ changes \in Nat
    BY DEF PeopleInv, ClientTypes
  <1>4. changes' \in Nat /\ changes <= changes'
    BY <1>2, <1>3
  <1>5. running' \subseteq Procs
    BY <1>3 DEF C!ProcessStarts, C!ProcessEnds, C!PlayerChanges, C!MessageArrives
  <1>6. watched' \in [Procs -> C!UserOrNone]
    <2>1. CASE C!PlayerChanges
      <3>1. PICK p \in running, u \in C!UserOrNone : watched' = [watched EXCEPT ![p] = u]
        BY <2>1 DEF C!PlayerChanges
      <3> QED
        BY <1>3, <3>1
    <2>2. CASE ~C!PlayerChanges
      BY <1>3, <2>2 DEF C!ProcessStarts, C!ProcessEnds, C!MessageArrives
    <2> QED
      BY <2>1, <2>2
  <1>7. channel' \in Seq(Messages) /\ ChannelIsPast' /\ ChatWasTheChannel'
    <2>1. CASE C!MessageArrives
      <3>1. PICK u \in Players :
              LET longer == Append(channel, [n |-> changes + 1, by |-> u])
              IN  channel' = IF Len(longer) > Room THEN Tail(longer) ELSE longer
        BY <2>1 DEF C!MessageArrives
      <3> QED
        BY <1>2, <3>1, ChatFollows
    <2>2. CASE ~C!MessageArrives
      <3>1. channel' = channel
        BY <2>2 DEF C!ProcessStarts, C!ProcessEnds, C!PlayerChanges
      <3> QED
        BY <1>2, <1>3, <1>4, <3>1, ChatStays
    <2> QED
      BY <2>1, <2>2
  <1>8. ClientTypes'
    BY <1>2, <1>4, <1>5, <1>6, <1>7, TypesStay
  <1> QED
    BY <1>2, <1>7, <1>8, ClientsStay DEF PeopleInv

(* Time, and a step of nothing.                                            *)
LEMMA RestKeeps ==
  ASSUME PeopleInv, UNCHANGED <<running, watched, channel, changes, pc, clients, chat, chatKey, shown>>
  PROVE  PeopleInv'
  <1>1. changes' \in Nat /\ changes <= changes' /\ running' \subseteq Procs
        /\ watched' \in [Procs -> C!UserOrNone] /\ channel' \in Seq(Messages)
    BY DEF PeopleInv, ClientTypes
  <1>2. ClientTypes'
    BY <1>1, TypesStay
  <1> QED
    BY <1>1, <1>2, ClientsStay, ChatStays DEF PeopleInv

(* The list of processes: a client is kept, or opened with nobody.         *)
LEMMA ScanKeeps ==
  ASSUME PeopleInv, C!ScanNotDue \/ C!ScanProcesses \/ C!ScanFails
  PROVE  PeopleInv'
  <1>1. C!EndScan
    BY DEF C!ScanNotDue, C!ScanProcesses, C!ScanFails
  <1>2. /\ UNCHANGED <<running, watched, channel, changes, shown>> /\ pc' = "users"
        /\ \/ UNCHANGED <<chatKey, chat>>
           \/ chat' = <<>>
    BY <1>1 DEF C!EndScan, C!ForgetChat, C!game, C!snapshot, C!chats
  <1>3. DOMAIN clients' \subseteq Procs /\ \A p \in DOMAIN clients' : GoodClient(clients'[p])
    <2>1. CASE clients' = clients
      BY <2>1 DEF PeopleInv, ClientTypes, UserOfPtr, GoodClient
    <2>2. CASE C!ScanProcesses
      <3>1. PICK F : clients' = C!Kept(F)
        BY <2>2 DEF C!ScanProcesses
      <3>2. DOMAIN clients' \subseteq Procs
        BY <3>1 DEF C!Kept, PeopleInv, ClientTypes
      <3>3. ASSUME NEW p \in DOMAIN clients'
            PROVE  GoodClient(clients'[p])
        <4>1. clients'[p] = IF p \in DOMAIN clients THEN clients[p] ELSE C!Opened(p, F)
          BY <3>1, <3>3 DEF C!Kept
        <4>2. CASE p \in DOMAIN clients
          BY <4>1, <4>2 DEF PeopleInv, ClientTypes, UserOfPtr, GoodClient
        <4>3. CASE p \notin DOMAIN clients
          <5>1. C!SpectateArg(p, F) \in Nat
            BY <3>2, <3>3, ClientsConstants DEF C!SpectateArg
          <5>2. C!Opened(p, F) \in C!Client /\ C!Opened(p, F).user = None
            BY <5>1 DEF C!Opened, C!Client, C!UserOrNone
          <5> QED
            BY <4>1, <4>3, <5>2 DEF GoodClient
        <4> QED
          BY <4>2, <4>3
      <3> QED
        BY <3>2, <3>3
    <2>3. CASE C!ScanFails
      BY <2>3 DEF C!ScanFails
    <2> QED
      BY <2>1, <2>2, <2>3 DEF C!ScanNotDue
  <1>4. UserOfPtr' /\ C!UserOfThePointer'
    BY <1>2, <1>3 DEF UserOfPtr, C!UserOfThePointer, GoodClient
  <1>5. ChannelIsPast' /\ ChatWasTheChannel'
    <2>1. CASE UNCHANGED <<chatKey, chat>>
      BY <1>2, <2>1, ChatStays DEF PeopleInv, ClientTypes
    <2>2. CASE chat' = <<>>
      BY <1>2, <2>2 DEF PeopleInv, ClientTypes, ChannelIsPast, ChatWasTheChannel
    <2> QED
      BY <1>2, <2>1, <2>2
  <1>6. ClientTypes'
    <2>1. \A p \in DOMAIN clients' : clients'[p] \in C!Client'
      BY <1>3 DEF GoodClient, C!Client, C!UserOrNone
    <2> QED
      BY <1>2, <1>3, <2>1 DEF PeopleInv, ClientTypes, C!UserOrNone
  <1> QED
    BY <1>4, <1>5, <1>6 DEF PeopleInv

(* The first pass.                                                         *)
LEMMA UsersKeep ==
  ASSUME PeopleInv, C!ReadUsers
  PROVE  PeopleInv'
  <1>1. PICK F : clients' = [p \in DOMAIN clients |-> C!FirstLook(p, F)]
    BY DEF C!ReadUsers
  <1>2. UNCHANGED <<running, watched, channel, changes, chat, chatKey, shown>> /\ pc' = "clients"
    BY DEF C!ReadUsers, C!game, C!chats, C!snapshot
  <1>3. DOMAIN clients' \subseteq Procs /\ \A p \in DOMAIN clients' : GoodClient(clients'[p])
    <2>1. ClientTypes /\ \A p \in DOMAIN clients : GoodClient(clients[p])
      BY DEF PeopleInv, ClientTypes, UserOfPtr, GoodClient
    <2>2. \A p \in DOMAIN clients : GoodClient(C!FirstLook(p, F))
      BY <2>1, FirstLookGood
    <2> QED
      BY <1>1, <2>1, <2>2 DEF ClientTypes
  <1>4. UserOfPtr' /\ C!UserOfThePointer'
    BY <1>2, <1>3 DEF UserOfPtr, C!UserOfThePointer, GoodClient
  <1>5. ChannelIsPast' /\ ChatWasTheChannel'
    BY <1>2, ChatStays DEF PeopleInv, ClientTypes
  <1>6. ClientTypes'
    BY <1>2, <1>3 DEF PeopleInv, ClientTypes, GoodClient, C!Client, C!UserOrNone
  <1> QED
    BY <1>4, <1>5, <1>6 DEF PeopleInv

(* The second pass.                                                        *)
LEMMA ReadManagerKeeps ==
  ASSUME PeopleInv, NEW F, C!ReadManager(F), UNCHANGED <<channel, changes>>
  PROVE  /\ ChatWasTheChannel'
         /\ said' # None =>
              \A i \in DOMAIN said' : i \in DOMAIN channel /\ said'[i].n = channel[i].n
  <1>1. CASE UNCHANGED <<chatKey, chat>> /\ said' \in {None, <<>>}
    BY <1>1, ChatStays DEF PeopleInv, ClientTypes
  <1>2. CASE chat' = <<>> /\ said' = <<>>
    BY <1>2 DEF ChatWasTheChannel
  <1>3. CASE (C!ChatIsCached(F) /\ said' = chat /\ UNCHANGED <<chatKey, chat>>) \/ C!ReadChat(F)
    BY <1>3, ChatIsRead
  <1> QED
    BY <1>1, <1>2, <1>3 DEF C!ReadManager, C!chats

LEMMA ClientsKeep ==
  ASSUME PeopleInv, C!ReadClients
  PROVE  PeopleInv'
  <1>1. PICK F : /\ clients' = [p \in DOMAIN clients |-> C!SecondLook(p, F)]
                 /\ shown' = [p \in C!Spectators(clients) |-> C!View(p, F)]
                 /\ C!ReadManager(F)
    BY DEF C!ReadClients
  <1>2. UNCHANGED <<running, watched, channel, changes>>
    BY DEF C!ReadClients, C!game
  <1>3. ClientTypes /\ \A p \in DOMAIN clients : GoodClient(clients[p])
    BY DEF PeopleInv, ClientTypes, UserOfPtr, GoodClient
  <1>4. \A p \in DOMAIN clients : GoodClient(C!SecondLook(p, F))
    BY <1>3, SecondLookGood
  <1>5. \A p \in DOMAIN clients : clients[p].id # 0 =>
          C!View(p, F).user \in {None, C!View(p, F).at} \/ C!SecondLook(p, F).missed
    BY <1>3, SecondLookGood
  <1>6. DOMAIN clients' \subseteq Procs /\ \A p \in DOMAIN clients' : GoodClient(clients'[p])
    BY <1>1, <1>3, <1>4 DEF ClientTypes
  <1>7. UserOfPtr'
    BY <1>6 DEF UserOfPtr, GoodClient
  <1>8. C!UserOfThePointer'
    <2>1. ASSUME NEW p \in DOMAIN shown'
          PROVE  shown'[p].user \in {None, shown'[p].at} \/ clients'[p].missed
      <3>1. p \in DOMAIN clients /\ clients[p].id # 0
        BY <1>1, <2>1 DEF C!Spectators
      <3>2. shown'[p] = C!View(p, F) /\ clients'[p] = C!SecondLook(p, F)
        BY <1>1, <2>1, <3>1
      <3> QED
        BY <1>5, <3>1, <3>2
    <2> QED
      BY <2>1 DEF C!UserOfThePointer
  <1>9. ChatWasTheChannel'
    BY <1>1, <1>2, ReadManagerKeeps
  <1>10. ChannelIsPast'
    BY <1>2 DEF PeopleInv, ChannelIsPast
  <1>11. ClientTypes'
    BY <1>2, <1>6 DEF PeopleInv, ClientTypes, GoodClient, C!Client, C!UserOrNone
  <1> QED
    BY <1>7, <1>8, <1>9, <1>10, <1>11 DEF PeopleInv

LEMMA PeopleStep == PeopleInv /\ [C!Next]_people => PeopleInv'
  <1> SUFFICES ASSUME PeopleInv, [C!Next]_people
               PROVE  PeopleInv'
    OBVIOUS
  <1>1. CASE C!ProcessStarts \/ C!ProcessEnds \/ C!PlayerChanges \/ C!MessageArrives
    BY <1>1, GameKeeps
  <1>2. CASE C!ScanElapses \/ C!RetryElapses \/ UNCHANGED people
    BY <1>2, RestKeeps DEF C!ScanElapses, C!RetryElapses, people, C!game, C!chats, C!snapshot
  <1>3. CASE C!ScanNotDue \/ C!ScanProcesses \/ C!ScanFails
    BY <1>3, ScanKeeps
  <1>4. CASE C!ReadUsers
    BY <1>4, UsersKeep
  <1>5. CASE C!ReadClients
    BY <1>5, ClientsKeep
  <1> QED
    BY <1>1, <1>2, <1>3, <1>4, <1>5 DEF C!Next

-----------------------------------------------------------------------------
(* The theorems.                                                           *)

(* The games, the caches and the views keep to their types.                *)
THEOREM TypeCorrect == TourneySpec => []TypeOK
<1>1. MapsInv => TypeOK
  BY DEF MapsInv
<1>. QED
  BY <1>1, MapsInvHolds, PTL

(* The statistics kept by mods are all of the file that is parsed, for     *)
(* whichever client they were made, whatever files can be read and in      *)
(* whatever order the game writes a record (cached_stats_by_mods).         *)
THEOREM StatsAreOfOneFile == TourneySpec => []StatsOfOneFile
<1>1. MapsInv => StatsOfOneFile
  BY DEF MapsInv
<1>. QED
  BY <1>1, MapsInvHolds, PTL

(* The pp a client is shown is of the mods and the judgements of the play  *)
(* it is shown with, also when that play could not be read in this poll    *)
(* (cached_live_pp, cached_gameplay).                                      *)
THEOREM PpIsOfTheJudgements == TourneySpec => []PpOfTheJudgements
<1>1. MapsInv => PpOfTheJudgements
  BY DEF MapsInv
<1>. QED
  BY <1>1, MapsInvHolds, PTL

(* The player shown for a client is the one its pointer was at when the    *)
(* packet was made, or nobody; the exception is a pointer that moved while *)
(* the first pass could not read the new object (TournamentSession::poll). *)
THEOREM ClientsShowTheirPlayer == TourneySpec => []UserOfThePointer
  <1>1. TourneyInit => PeopleInv
    BY PeopleStart DEF TourneyInit
  <1>2. PeopleInv /\ [TourneyNext]_both => PeopleInv'
    <2>1. [TourneyNext]_both => [C!Next]_people
      BY DEF TourneyNext, both
    <2> QED
      BY <2>1, PeopleStep
  <1>3. PeopleInv => UserOfThePointer
    BY DEF PeopleInv, UserOfThePointer
  <1> QED
    BY <1>1, <1>2, <1>3, PTL DEF TourneySpec

(* What a packet says of the chat is in the channel as it was then, each   *)
(* line in the slot it was read from, whatever could not be read           *)
(* (read_tournament_chat and the fingerprint of its cache).                *)
THEOREM ChatNeverLies == TourneySpec => ChatIsOfTheChannel
  <1> DEFINE Told == pc = "clients" /\ pc' = "scan" /\ said' # None =>
                       \A i \in DOMAIN said' : i \in DOMAIN channel /\ said'[i].n = channel[i].n
  <1>1. TourneyInit => PeopleInv
    BY PeopleStart DEF TourneyInit
  <1>2. [TourneyNext]_both => [C!Next]_people
    BY DEF TourneyNext, both
  <1>3. PeopleInv /\ [TourneyNext]_both => PeopleInv'
    BY <1>2, PeopleStep
  <1>4. PeopleInv /\ [TourneyNext]_both => [Told]_(C!vars)
    <2> SUFFICES ASSUME PeopleInv, [C!Next]_people, pc = "clients", pc' = "scan", said' # None
                 PROVE  \A i \in DOMAIN said' : i \in DOMAIN channel /\ said'[i].n = channel[i].n
      BY <1>2
    <2>1. C!ReadClients
      BY DEF people, C!Next, C!ProcessStarts, C!ProcessEnds, C!PlayerChanges, C!MessageArrives,
             C!GameMoves, C!ScanElapses, C!RetryElapses, C!ScanNotDue, C!ScanProcesses, C!ScanFails,
             C!ReadUsers
    <2>2. PICK F : C!ReadManager(F)
      BY <2>1 DEF C!ReadClients
    <2>3. UNCHANGED <<channel, changes>>
      BY <2>1 DEF C!ReadClients, C!game
    <2> QED
      BY <2>2, <2>3, ReadManagerKeeps
  <1> HIDE DEF Told
  <1>5. TourneySpec => [][Told]_(C!vars)
    BY <1>1, <1>3, <1>4, PTL DEF TourneySpec
  <1> QED
    BY <1>5 DEF Told, ChatIsOfTheChannel, C!ChatIsOfTheChannel
=============================================================================
