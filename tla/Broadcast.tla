------------------------------ MODULE Broadcast ------------------------------
(***************************************************************************)
(* The way from a poll to the overlays: the serve loop, which polls the    *)
(* reader and publishes what changed into a watch channel                  *)
(* (run_serve_loop, src/src/main.rs), and the packet sockets, which send   *)
(* the channel's latest value whenever it is new to them                   *)
(* (handle_ws_stream, handle_ws_stream_delta, src/src/server.rs).          *)
(*                                                                         *)
(* A watch channel keeps one value: a connection that is still sending     *)
(* sees only the last of what was published meanwhile.  A plain connection *)
(* (/websocket/v2, /ws, /websocket/v2/precise) sends each packet whole; a  *)
(* delta connection sends the first one whole and then the difference to   *)
(* the last one it sent (JsonDelta), which the consumer merges into what   *)
(* it holds.  A whole packet it can tell from a patch by a key that is     *)
(* null in every packet, and so in no patch (profile.matchmaking).         *)
(* The three plain payloads are views of one packet, computed from it      *)
(* alone, so a frame is identified with the packet it was built from.      *)
(* Frames that arrive from a client are read and dropped, so they leave no *)
(* trace here.                                                             *)
(***************************************************************************)
EXTENDS Naturals

CONSTANTS
  Clients,      (* the connections                                         *)
  DeltaClients, (* the ones to /websocket/v2/delta                         *)
  Packets,      (* the payloads                                            *)
  First,        (* TosuV2Packet::default                                   *)
  WithNaN,      (* payloads with a NaN in a list (a leaderboard accuracy), *)
                (* which equal nothing                                     *)
  None,         (* Option::None                                            *)
  Keys, Scalars, Null, Depth,                               (* JsonDelta   *)
  EarlyClients, (* a client may be served before the first good poll       *)
  MaxMoves,     (* bound: changes of what a poll would return              *)
  MaxRuns       (* bound: processes started                                *)

J == INSTANCE JsonDelta WITH Nothing <- None

(* compute_json_delta, and the consumer's merge.                           *)
Delta(p, q) == J!DeltaOf[p][q]
Merge(p, q) == J!MergeOf[p][q]

Published == [packet : Packets, attached : BOOLEAN]

Patches == {Delta(p, q) : p \in Packets, q \in Packets} \ {None}

ASSUME BroadcastAssumption ==
  /\ DeltaClients \subseteq Clients
  /\ First \in Packets
  /\ WithNaN \subseteq Packets
  /\ None \notin Packets \cup Published
  /\ EarlyClients \in BOOLEAN
  /\ MaxMoves \in Nat
  /\ MaxRuns \in Nat

(* Packets are objects.  A key may come and go (stars.stamina), but a null *)
(* stands only in a list, where it is part of a scalar, or where every     *)
(* packet has one: in profile.matchmaking, by which a packet is known.     *)
ASSUME PacketsAssumption ==
  /\ J!JsonAssumption
  /\ Packets \subseteq J!Json
  /\ \A p, q \in Packets : J!NullsStay[p][q]
  /\ \E profile, matchmaking \in Keys : \A p \in Packets :
       J!IsObject(p) /\ J!IsObject(p[profile]) /\ p[profile][matchmaking] = Null

VARIABLES
  source,  (* what a poll would return now                                 *)
  moves,   (* how often that changed                                       *)
  runs,    (* how many processes were started                              *)
  value,   (* the watch channel's value                                    *)
  last,    (* last_published                                               *)
  games,   (* history: the packets this process polled from a game         *)
  conn,    (* the connections that are open                                *)
  unseen,  (* the connections with a value to see: changed() is ready      *)
  frame,   (* the frame each connection is sending                         *)
  prev,    (* prev_state of a delta connection                             *)
  view     (* the payload the consumer holds                               *)

reader == <<source, moves, runs>>
channel == <<value, last, games>>
sockets == <<conn, unseen, frame, prev, view>>
vars == <<reader, channel, sockets>>

(* A poll fails when a process is listed and cannot be opened; nothing is  *)
(* attached then.                                                          *)
Sources ==
  {s \in [packet : Packets, attached : BOOLEAN, fails : BOOLEAN] :
     s.fails => ~s.attached}

(* A frame's text, and the packet it stands for.                           *)
Frames == [body : Packets \cup Patches, packet : Packets]

Nothing == [c \in Clients |-> None]

TypeOK ==
  /\ source \in Sources
  /\ moves \in Nat
  /\ runs \in Nat
  /\ value \in Published
  /\ last \in Published \cup {None}
  /\ games \subseteq Packets
  /\ conn \subseteq Clients
  /\ unseen \subseteq Clients
  /\ frame \in [Clients -> Frames \cup {None}]
  /\ prev \in [Clients -> Packets \cup {None}]
  /\ view \in [Clients -> Packets \cup {None}]

(* PublishedPacket::default_packet                                         *)
Seed == [packet |-> First, attached |-> TRUE]

Init ==
  /\ source \in {s \in Sources : ~s.attached /\ s.packet = First}
  /\ moves = 0
  /\ runs = 1
  /\ value = Seed
  /\ last = None
  /\ games = {}
  /\ conn = {}
  /\ unseen = {}
  /\ frame = Nothing
  /\ prev = Nothing
  /\ view = Nothing

-----------------------------------------------------------------------------
(* The game, and the process.                                              *)

(* A game appears, exits, or changes what the reader will find in it.      *)
GameMoves ==
  /\ moves < MaxMoves
  /\ source' \in Sources \ {source}
  /\ moves' = moves + 1
  /\ UNCHANGED <<runs, channel, sockets>>

(* Ctrl-C and another start, or the restart of the settings page: the      *)
(* connections are gone and the new process knows nothing.                 *)
Restart ==
  /\ runs < MaxRuns
  /\ runs' = runs + 1
  /\ value' = Seed
  /\ last' = None
  /\ games' = {}
  /\ conn' = {}
  /\ unseen' = {}
  /\ frame' = Nothing
  /\ prev' = Nothing
  /\ view' = Nothing
  /\ UNCHANGED <<source, moves>>

-----------------------------------------------------------------------------
(* The serve loop.                                                         *)

(* Mutant: the packets alone are compared.                                 *)
SamePacket(p, q) == p.packet = q.packet /\ p.packet \notin WithNaN

(* last.attached == attached && *last.packet == packet                     *)
SamePublished(p, q) == SamePacket(p, q) /\ p.attached = q.attached

Polled == [packet |-> source.packet, attached |-> source.attached]

(* An error is dropped, and a repetition skipped.                          *)
Skipped == source.fails \/ (last # None /\ SamePublished(last, Polled))

(* One tick of the loop.                                                   *)
Poll ==
  /\ IF Skipped THEN UNCHANGED <<channel, unseen>>
     ELSE /\ value' = Polled
          /\ last' = Polled
          /\ games' = games \cup (IF source.attached THEN {source.packet} ELSE {})
          /\ unseen' = Clients
  /\ UNCHANGED <<reader, conn, frame, prev, view>>

-----------------------------------------------------------------------------
(* HTTP: the four /json routes answer with the channel's packet, or 500.   *)

Answer == IF value.attached THEN value.packet ELSE None

-----------------------------------------------------------------------------
(* The packet sockets.                                                     *)

Whole(p) == [body |-> p, packet |-> p]
Patch(p, q) == [body |-> Delta(p, q), packet |-> q]

(* v2_frame, v1_frame, precise_frame: no frame while detached.             *)
WholeFrame == IF value.attached THEN Whole(value.packet) ELSE None

(* The upgrade: the current packet is taken at once.                       *)
Connect(c) ==
  /\ c \notin conn
  /\ EarlyClients \/ last # None
  /\ conn' = conn \cup {c}
  /\ unseen' = unseen \ {c}
  /\ frame' = [frame EXCEPT ![c] = WholeFrame]
  /\ UNCHANGED <<reader, channel, prev, view>>

Ready(c) == c \in conn \cap unseen /\ frame[c] = None

Changed(c) ==
  /\ c \notin DeltaClients
  /\ Ready(c)
  /\ unseen' = unseen \ {c}
  /\ frame' = [frame EXCEPT ![c] = WholeFrame]
  /\ UNCHANGED <<reader, channel, conn, prev, view>>

(* Mutant: a tick without a change is sent as a whole packet.              *)
DeltaOrWhole(c) ==
  IF prev[c] = None \/ Delta(prev[c], value.packet) = None
  THEN Whole(value.packet)
  ELSE Patch(prev[c], value.packet)

(* The whole packet first, then patches, and nothing for no difference.    *)
DeltaFrame(c) ==
  IF prev[c] = None THEN Whole(value.packet)
  ELSE IF Delta(prev[c], value.packet) = None THEN None
  ELSE Patch(prev[c], value.packet)

DeltaChanged(c) ==
  /\ c \in DeltaClients
  /\ Ready(c)
  /\ unseen' = unseen \ {c}
  /\ IF value.attached
     THEN frame' = [frame EXCEPT ![c] = DeltaFrame(c)] /\ prev' = prev
     ELSE prev' = [prev EXCEPT ![c] = None] /\ frame' = frame
  /\ UNCHANGED <<reader, channel, conn, view>>

(* A consumer takes a packet as it is, and merges a patch into what it has.*)
Shown(c) ==
  IF frame[c].body \in Packets THEN frame[c].body
  ELSE Merge(view[c], frame[c].body)

(* Mutant: the first packet stays the base of every later patch.           *)
SentKeepsFirst(c) ==
  /\ frame[c] # None
  /\ view' = [view EXCEPT ![c] = Shown(c)]
  /\ frame' = [frame EXCEPT ![c] = None]
  /\ prev' = IF c \in DeltaClients /\ prev[c] = None
             THEN [prev EXCEPT ![c] = frame[c].packet] ELSE prev
  /\ UNCHANGED <<reader, channel, conn, unseen>>

(* Mutant: the value is marked as seen when the frame has gone out.        *)
SentMarksSeen(c) ==
  /\ frame[c] # None
  /\ view' = [view EXCEPT ![c] = Shown(c)]
  /\ frame' = [frame EXCEPT ![c] = None]
  /\ prev' = IF c \in DeltaClients THEN [prev EXCEPT ![c] = frame[c].packet] ELSE prev
  /\ unseen' = unseen \ {c}
  /\ UNCHANGED <<reader, channel, conn>>

(* socket.send returns, and only then prev_state moves on.                 *)
Sent(c) ==
  /\ frame[c] # None
  /\ view' = [view EXCEPT ![c] = Shown(c)]
  /\ frame' = [frame EXCEPT ![c] = None]
  /\ prev' = IF c \in DeltaClients THEN [prev EXCEPT ![c] = frame[c].packet] ELSE prev
  /\ UNCHANGED <<reader, channel, conn, unseen>>

(* A send fails, or the client closes the connection.                      *)
Disconnect(c) ==
  /\ c \in conn
  /\ conn' = conn \ {c}
  /\ frame' = [frame EXCEPT ![c] = None]
  /\ prev' = [prev EXCEPT ![c] = None]
  /\ view' = [view EXCEPT ![c] = None]
  /\ UNCHANGED <<reader, channel, unseen>>

Next ==
  \/ GameMoves
  \/ Restart
  \/ Poll
  \/ \E c \in Clients :
       Connect(c) \/ Changed(c) \/ DeltaChanged(c) \/ Sent(c) \/ Disconnect(c)

Spec == Init /\ [][Next]_vars

(* The loop ticks for ever, and a client that stays connected reads.       *)
Fairness ==
  /\ WF_vars(Poll)
  /\ \A c \in Clients : WF_vars(Changed(c) \/ DeltaChanged(c)) /\ WF_vars(Sent(c))

FairSpec == Spec /\ Fairness

-----------------------------------------------------------------------------
(* Safety.                                                                 *)

(* What a client may show that no poll has read.                           *)
Beginning == IF EarlyClients THEN {First} ELSE {}

(* Whatever a route answers with and whatever a connection shows is a      *)
(* packet this process polled from a game, or the default packet that the  *)
(* channel starts with: a route gives that one out only before the first   *)
(* good poll, and only a client that was there by then can still show it.  *)
(* No frame is made of a detached packet, and no merge makes up a packet   *)
(* that was never published.                                               *)
OnlyGamePackets ==
  /\ Answer \in games \cup {None} \cup (IF last = None THEN {First} ELSE {})
  /\ \A c \in Clients : view[c] \in games \cup {None} \cup Beginning

(* A delta connection's prev_state is what its consumer holds, so the next *)
(* patch is made against the packet it will be merged into.                *)
PatchesMatch ==
  \A c \in DeltaClients : prev[c] # None => view[c] = prev[c]

(* The sockets implement the feed: seen through its consumer's merges, a   *)
(* delta connection is a connection that is sent whole packets.            *)
Feed == INSTANCE PacketFeed WITH
  current <- value,
  pending <- [c \in Clients |-> IF frame[c] = None THEN None ELSE frame[c].packet]

ShowsWholePackets == Feed!Spec

-----------------------------------------------------------------------------
(* Liveness.                                                               *)

(* Once the game is quiet, a connection that stays open ends up showing    *)
(* its packet, however many were published while it was sending another.   *)
ShowsTheGame ==
  \A c \in Clients :
    <>[](c \in conn /\ source.attached) => <>[](view[c] = source.packet)

(* Once the game is gone, and polls say so, the routes answer 500.         *)
NotReadyOnceGone ==
  <>[](~source.attached /\ ~source.fails) => <>[](Answer = None)

(* An unchanged packet costs a delta connection nothing, even one that is  *)
(* published again on every tick because it equals nothing.                *)
DeltaFallsSilent ==
  \A c \in DeltaClients : <>[](c \in conn) => <>[](frame[c] = None)

(* A connection ends on the latest packet, and is sent nothing more.       *)
EndsOnTheGame == ShowsTheGame /\ DeltaFallsSilent

(* "With no osu! attached, all four /json* routes answer 500 ... and the   *)
(* sockets send nothing" (README.md:49).                                   *)
NotReadyWithoutAGame == <>[](~source.attached) => <>[](Answer = None)

(* "RFC 7396 JSON merge patch WebSocket stream" (CHANGELOG.md:45): a whole *)
(* packet, sent when a game is attached again, could be merged like the    *)
(* patches.                                                                *)
WholeIsAPatch == \A p, q \in Packets : Merge(p, q) = q
=============================================================================
