---------------------------- MODULE TokensSocket ----------------------------
(***************************************************************************)
(* The two sockets that read (handle_ws_tokens, src/src/server.rs): a      *)
(* connection to /tokens sends a list of filters and is sent, from then    *)
(* on, what the list leaves of every packet that is published; one to      *)
(* /websocket/commands may send the same and is sent nothing.  The task of *)
(* a connection waits for a message or a new packet, and takes the message *)
(* when both are there; while it sends a frame it waits for nothing else.  *)
(*                                                                         *)
(* A frame is identified with the packet and the list it was built from    *)
(* (WsFilters says what a list leaves).  What the encoder wrote parses and *)
(* is UTF-8, so the ways out for a frame that does not are not taken.      *)
(***************************************************************************)
EXTENDS SequencesExt

CONSTANTS
  Packets,      (* the payloads                                            *)
  Lists,        (* lists of filters                                        *)
  Unfiltered,   (* the empty list                                          *)
  NestedLists,  (* the ones that narrow into a field: their text has a ":" *)
  NotAList,     (* a text that is not a JSON array                         *)
  None,         (* no frame                                                *)
  MaxPackets,   (* bound: packets published                                *)
  MaxMessages   (* bound: messages sent                                    *)

(* What the constants have to be; MCServerParts assumes it.                *)
TokensAssumption ==
  /\ Unfiltered \in Lists
  /\ NestedLists \subseteq Lists \ {Unfiltered}
  /\ NotAList \notin Lists
  /\ None \notin [packet : Packets, list : Lists]
  /\ {MaxPackets, MaxMessages} \subseteq Nat

VARIABLES
  route,      (* TokensRoute                                               *)
  published,  (* the watch channel's value                                 *)
  unseen,     (* it is new to the connection: changed() is ready           *)
  inbox,      (* what the client sent and the task did not take            *)
  filters,    (* the list of the connection                                *)
  stage,      (* "waiting", "sending", "closed"                            *)
  frame,      (* what is being sent                                        *)
  view,       (* the last frame the client got                             *)
  packets,    (* how many packets were published                           *)
  messages,   (* how many messages were sent                               *)
  wanted      (* history: the last list among the messages that arrived    *)

feed == <<published, packets>>
client == <<inbox, messages, wanted>>
vars == <<route, feed, unseen, client, filters, stage, frame, view>>

(* A message: a text, of more than MAX_COMMAND_BYTES or not, with the      *)
(* command it starts with; a close frame; or another frame.                *)
Texts ==
  [kind : {"text"}, large : BOOLEAN, command : {"none", "applyFilters", "other"},
   body : Lists \cup {NotAList}]

Messages == Texts \cup [kind : {"close", "binary"}]

Frames == [packet : Packets, list : Lists]

TypeOK ==
  /\ route \in {"/tokens", "/websocket/commands"}
  /\ published \in [packet : Packets, attached : BOOLEAN]
  /\ unseen \in BOOLEAN
  /\ inbox \in Seq(Messages)
  /\ {filters, wanted} \subseteq Lists
  /\ stage \in {"waiting", "sending", "closed"}
  /\ {frame, view} \subseteq Frames \cup {None}
  /\ packets \in 0..MaxPackets
  /\ messages \in 0..MaxMessages

(* A connection opened after the first packet was published.               *)
Init ==
  /\ route \in {"/tokens", "/websocket/commands"}
  /\ published \in [packet : Packets, attached : BOOLEAN]
  /\ unseen = TRUE
  /\ inbox = <<>>
  /\ filters = Unfiltered
  /\ stage = "waiting"
  /\ frame = None
  /\ view = None
  /\ packets = 0
  /\ messages = 0
  /\ wanted = Unfiltered

(* The serve loop publishes what differs from what it published last.      *)
Publish ==
  /\ packets < MaxPackets
  /\ packets' = packets + 1
  /\ published' \in [packet : Packets, attached : BOOLEAN] \ {published}
  /\ unseen' = TRUE
  /\ UNCHANGED <<route, client, filters, stage, frame, view>>

(* What a message asks for: on either route a list after the command, on   *)
(* /tokens also a bare list, if its text has no ":".                       *)
AsksFor(m) ==
  /\ m.kind = "text"
  /\ ~m.large
  /\ m.body # NotAList
  /\ \/ m.command = "applyFilters"
     \/ m.command = "none" /\ route = "/tokens" /\ m.body \notin NestedLists

ClientSends ==
  /\ messages < MaxMessages
  /\ messages' = messages + 1
  /\ \E m \in Messages :
       /\ inbox' = Append(inbox, m)
       /\ wanted' = IF AsksFor(m) THEN m.body ELSE wanted
  /\ UNCHANGED <<route, feed, unseen, filters, stage, frame, view>>

-----------------------------------------------------------------------------
(* handle_token_message.                                                   *)

(* normalize_socket_command                                                *)
Command(m) ==
  IF m.command = "none" /\ m.body \notin NestedLists \cup {NotAList} /\ route = "/tokens"
  THEN "applyFilters" ELSE m.command

(* Mutant: a list that cannot be read clears the filters.                  *)
FiltersReset(m) ==
  IF m.kind # "text" \/ m.large \/ Command(m) # "applyFilters" THEN filters
  ELSE IF m.body = NotAList THEN Unfiltered ELSE m.body

FiltersAfter(m) ==
  IF m.kind = "text" /\ ~m.large /\ Command(m) = "applyFilters" /\ m.body # NotAList
  THEN m.body ELSE filters

TakeMessage ==
  /\ stage = "waiting"
  /\ inbox # <<>>
  /\ inbox' = Tail(inbox)
  /\ filters' = FiltersAfter(Head(inbox))
  /\ stage' = IF Head(inbox).kind = "close" THEN "closed" ELSE "waiting"
  /\ UNCHANGED <<route, feed, unseen, messages, wanted, frame, view>>

(* The connection breaks: recv returns an error, or nothing more.          *)
ReadFails ==
  /\ stage = "waiting"
  /\ stage' = "closed"
  /\ UNCHANGED <<route, feed, unseen, client, filters, frame, view>>

-----------------------------------------------------------------------------
(* The frames.                                                             *)

PacketIsTurn == stage = "waiting" /\ unseen /\ route = "/tokens" /\ inbox = <<>>

(* Mutant: the packet is marked as seen when the frame has left.           *)
SeenWhenSent(step) == step = "sent"

SeenAt(step) == step = "taken"

(* borrow_and_update; no frame while no game is attached.                  *)
TakePacket ==
  /\ PacketIsTurn
  /\ unseen' = (unseen /\ ~SeenAt("taken"))
  /\ IF published.attached
     THEN /\ frame' = [packet |-> published.packet, list |-> filters]
          /\ stage' = "sending"
     ELSE UNCHANGED <<frame, stage>>
  /\ UNCHANGED <<route, feed, client, filters, view>>

(* The frame is on its way to the client, and the task waits again.        *)
Sent ==
  /\ stage = "sending"
  /\ unseen' = (unseen /\ ~SeenAt("sent"))
  /\ view' = frame
  /\ frame' = None
  /\ stage' = "waiting"
  /\ UNCHANGED <<route, feed, client, filters>>

SendFails ==
  /\ stage = "sending"
  /\ stage' = "closed"
  /\ frame' = None
  /\ UNCHANGED <<route, feed, unseen, client, filters, view>>

Next ==
  \/ Publish \/ ClientSends
  \/ TakeMessage \/ ReadFails
  \/ TakePacket \/ Sent \/ SendFails

(* The task runs, and a client that stays reads what it is sent.           *)
Fairness == WF_vars(TakeMessage) /\ WF_vars(TakePacket) /\ WF_vars(Sent)

Spec == Init /\ [][Next]_vars /\ Fairness

-----------------------------------------------------------------------------
(* Properties.                                                             *)

(* A frame is built with the last list that had arrived by then: "a        *)
(* message that has already arrived is always taken before the next frame  *)
(* is built" (src/src/server.rs), and no message that asks for nothing     *)
(* takes a list away.                                                      *)
FramesFitTheList == [][stage # "sending" /\ stage' = "sending" => frame'.list = wanted]_vars

(* A connection to /tokens that stays open comes to show the packet that   *)
(* stays published, whatever was published while it was sending.           *)
LatestIsShown ==
  <>[](stage # "closed" /\ route = "/tokens" /\ published.attached)
    => <>[](view # None /\ view.packet = published.packet)

(* "the payload is broadcast on a timer" (src/src/server.rs): a list is    *)
(* applied to what the client shows, sooner or later.                      *)
ListIsApplied ==
  <>[](stage # "closed" /\ route = "/tokens" /\ published.attached)
    => <>[](view # None /\ view.list = wanted)
=============================================================================
