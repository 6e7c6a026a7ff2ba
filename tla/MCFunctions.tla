----------------------------- MODULE MCFunctions -----------------------------
(***************************************************************************)
(* The reader, and the pure functions that make its packet into answers,   *)
(* each called with every input of a small set.  One of the two runs, the  *)
(* other rests, as neither reads what the other one writes.  None is also  *)
(* no name, no attributes, or what was not read.                           *)
(***************************************************************************)
EXTENDS OsuReader, SequencesExt

CONSTANT NaN     (* a float that is no number                              *)

VARIABLES
  part,          (* the one that runs                                      *)
  call           (* the function that is called, with its inputs           *)

M == INSTANCE PlayNumbers WITH MaxCount <- 32767

Y == INSTANCE SamplePackets WITH Absent <- None, Nothing <- None, MaxScore <- 1000

V == INSTANCE Routes WITH Nowhere <- None

Seqs(S, n) == UNION {[1..k -> S] : k \in 0..n}

Idle == [fn |-> "none"]

-----------------------------------------------------------------------------
(* A table of mods, in the order its keys come in, and a play.             *)
Weigh ==
  \E entries \in Seqs({"HD", "DT", "NC", "SD", "NM"} \X {1, 2}, 2),
     mods \in {m \in SUBSET M!Names : M!IsOfTheGame(m)} :
       /\ \A i, j \in DOMAIN entries : i # j => entries[i][1] # entries[j][1]
       /\ call' = [fn |-> "weigh", entries |-> entries, mods |-> mods]

-----------------------------------------------------------------------------
(* A packet for the formats, and the snapshot of a tournament's.           *)
Assemble == \E packet \in Y!SamplePacketSet : call' = [fn |-> "packet", packet |-> packet]

Report ==
  \E snap \in Y!TourneySnapshots, table \in Y!ModTables, hitErrors \in BOOLEAN :
    call' = [fn |-> "tourney", snap |-> snap, table |-> table, hitErrors |-> hitErrors]

(* Songs that begin and end around the sections of the graph.              *)
Songs ==
  [first : {0, 399, 400, 1001}, mp3 : {0, 1000, 1600, 3000},
   objects : {<<>>, <<-200, 1400>>, <<500>>}, strains : {<<>>, <<7>>, <<7, 8, 9>>}]
Plot ==
  \E map \in Songs, mods \in {{}, {"DT"}, {"HT", "FL"}} :
    call' = [fn |-> "graph", map |-> map, mods |-> mods]

-----------------------------------------------------------------------------
(* URLs of overlays, names of folders, pages, and files on a disk.         *)
Urls ==
  [scheme : {"http", "https", "ws", "wss"}, host : {"page", "loopback", "other"},
   path : { <<"">>, <<"ws">>, <<"tokens">>, <<"json">>, <<"json", "v2">>, <<"backgroundImage">>,
            <<"websocket", "v2">>, <<"websocket", "v2", "precise">>, <<"overlays", "x", "">>,
            <<"Songs", "m", "bg">>, <<"Songs", "background">>, <<"files", "beatmap", "background">>,
            <<"files", "beatmap", "m", "bg">>, <<"files", "skin", "x">>, <<"files", "skin">> }]
Configs == [http : BOOLEAN, ws : BOOLEAN, payload : {"v1", "v2", ""}, overlays : BOOLEAN]
Bytes == {"a", "2", "5", "0", "%", "/", " "}
Pieces == {"<!doctype", "<html", "<head", "<script", "<p", "quote", ">"}

In(folder, name) == <<"C:", "songs", folder, name>>
Listed(name, image, set) == [name |-> name, image |-> image, set |-> set]
Disks ==
  {[dirs |-> {<<"C:">>, <<"C:", "songs">>, <<"C:", "else">>, <<"C:", "songs", "m">>, <<"C:", "songs", "n">>},
    files |-> files \cup {<<"C:", "else", "z.png">>, <<"C:", "songs", "background">>},
    links |-> links, listing |-> listing] :
     files \in SUBSET {In("m", "bg.png"), In("m", "7-1.jpg"), In("m", "background.png"),
                       In("m", "map.osu"), In("n", "bg.png")},
     links \in {<<>>, In("m", "l.png") :> In("n", "bg.png") @@ <<"C:", "songs", "e">> :> <<"C:", "else">>},
     listing \in {<<Listed("map.osu", FALSE, 0), Listed("bg.png", TRUE, 0), Listed("7-1.jpg", TRUE, 7)>>}}
Loaded ==
  {[songs |-> songs, folder |-> folder, relative |-> folder \o image, background |-> image, set |-> set] :
     songs \in {<<>>, <<"C:", "songs">>, <<"C:", "gone">>}, folder \in {<<>>, <<"m">>, <<"p", "m">>},
     image \in {<<>>, <<"bg.png">>, <<"l.png">>}, set \in {-1, 7}}
Relatives ==
  { <<>>, <<"">>, <<"m", "bg.png">>, <<"m", ".", "bg.png">>, <<"m", "..", "n", "bg.png">>, <<"m", "l.png">>,
    <<"e", "z.png">>, <<"..", "else", "z.png">>, <<"C:", "else", "z.png">>, <<"m">>, <<"gone">> }

Visit ==
  \/ \E url \in Urls, page \in {"http", "https"} : call' = [fn |-> "url", url |-> url, page |-> page]
  \/ \E config \in Configs : call' = [fn |-> "config", config |-> config]
  \/ \E name \in Seqs(Bytes, 4) : call' = [fn |-> "name", name |-> name]
  \/ \E html \in Seqs(Pieces, 5) : call' = [fn |-> "page", html |-> html]
  \/ \E drive \in Disks, packet \in Loaded, mapset \in {None, -1, 7, 8} :
       call' = [fn |-> "image", drive |-> drive, packet |-> packet, mapset |-> mapset]
  \/ \E drive \in Disks, folder \in {<<"C:", "songs">>, <<"C:", "songs", "m">>}, rel \in Relatives :
       call' = [fn |-> "asset", drive |-> drive, folder |-> folder, rel |-> rel]

-----------------------------------------------------------------------------
(* A reader at rest has no process to look at.                             *)
AllInit ==
  /\ part \in {"reader", "functions"}
  /\ Init /\ (part = "functions" => running = {} /\ mode = "auto")
  /\ call = Idle

Called ==
  \/ /\ call = Idle
     /\ Weigh \/ Assemble \/ Report \/ Plot \/ Visit
  \/ call # Idle /\ call' = Idle

AllNext ==
  /\ UNCHANGED part
  /\ \/ part = "reader" /\ Next /\ UNCHANGED call
     \/ part = "functions" /\ Called /\ UNCHANGED vars

AllSpec ==
  /\ AllInit /\ [][AllNext]_<<vars, part, call>>
  /\ part = "reader" => Fairness

-----------------------------------------------------------------------------
(* What /json, /json/sc and /json/v2/precise have in common with the       *)
(* packet they say as it does, with every key of their format, the packet  *)
(* of a tournament included; the graph of a map fits its song, and the     *)
(* strains of /json/sc are the points of the graph.                        *)
FormatsAgree ==
  /\ call.fn = "packet" => Y!SayTheSame(call.packet)
  /\ call.fn = "tourney" => Y!SayTheSame(Y!PacketOfTourney(call.snap, call.table, call.hitErrors))
  /\ call.fn = "graph" =>
       LET graph == Y!GraphOf(call.map, call.mods) IN
       Y!GraphFits(call.map, call.mods) /\ Y!StrainsAreTheGraph(Y!ScStrains(graph), graph)

(* The formats agree.  The totals of a tournament are those of its rows    *)
(* once they are weighted ("an overlay that draws the total bar beside     *)
(* per-player rows shows a bar that does not equal its own rows",          *)
(* src/src/reader.rs), and a score is weighed once for each acronym that   *)
(* is reported, in whatever order the table's keys come; a game is         *)
(* reported alike from either session, whatever was reported before; and   *)
(* no hit error is served from a play where the setting is off.            *)
GamesAreReportedAlike ==
  /\ FormatsAgree
  /\ call.fn = "weigh" =>
       /\ M!OrderIsNoMatter(call.entries)
       /\ M!Table(call.entries).valid =>
            M!WeighsTheReported(M!Table(call.entries).factors, call.mods)
  /\ call.fn = "tourney" =>
       LET packet == Y!PacketOfTourney(call.snap, call.table, call.hitErrors)
           rows == call.snap.clients
           alone(play, g) == Y!SoloPlaying(play, g, call.table, call.hitErrors, 0)
       IN /\ Y!TotalsAreTheRows(packet, call.table.identity)
          /\ rows # <<>> /\ rows[1].gameplay # None =>
               \A before \in Y!Games :
                 LET play == alone(alone(Y!NoPlay, before), rows[1].gameplay) IN
                 /\ Y!IsReportedAlike(rows[1], packet, play)
                 /\ call.hitErrors \/ Y!HidesErrors(packet, play)

(* What a page asks for is what it is answered: a URL the shim rewrites    *)
(* reaches the handler that was meant, a folder's name comes back from its *)
(* address, the shim goes between the tags of a page, a file that is       *)
(* served is in its folder, and the background is of the map asked for.    *)
RequestsAreServed ==
  /\ call.fn = "url" => V!ShimKeepsMeaning(call.url, call.page)
  /\ call.fn = "name" => V!NamesComeBack(call.name)
  /\ call.fn = "page" => V!ShimIsBetweenTags(call.html)
  /\ call.fn = "asset" => V!FileIsInFolder(call.drive, call.folder, call.rel)
  /\ call.fn = "image" => V!BackgroundIsOfTheMap(call.drive, call.packet, call.mapset)

-----------------------------------------------------------------------------
(* Statements of the sources that the code does not keep.                  *)

(* "Each is collapsed to a single acronym before reporting"                *)
(* (src/src/scoring.rs).                                                   *)
ModsCollapse == call.fn = "weigh" => M!IsCollapsed(call.mods)

(* enable_hit_errors "Include full hit error array in JSON packet"         *)
(* (README.md:210): the results screen includes it all the same.           *)
ErrorsAreHidden ==
  call.fn = "tourney" /\ ~call.hitErrors /\ call.snap.clients # <<>> =>
    \A g \in Y!Games : Y!SoloResults(Y!NoPlay, g, call.table).hitErrorArray = <<>>

(* Those of Routes, on the inputs above.                                   *)
JsonIsHttp == call.fn = "config" => V!JsonIsHttp(call.config)
ApiIsRewritten == call.fn = "url" => V!ApiIsRewritten(call.url, call.page)
ShimRunsFirst == call.fn = "page" => V!ShimRunsFirst(call.html)
NamesOfFilesComeBack == call.fn = "name" => V!NamesOfFilesComeBack(call.name)
=============================================================================
