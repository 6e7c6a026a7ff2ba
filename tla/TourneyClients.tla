--------------------------- MODULE TourneyClients ---------------------------
(***************************************************************************)
(* Who takes part in a tournament (TournamentSession::poll and             *)
(* init_process_with, src/src/session.rs): the osu! processes, what each   *)
(* is there for, the team and the player it shows, and the manager's chat  *)
(* (read_tournament_chat, src/src/tournament.rs).                          *)
(*                                                                         *)
(* A poll is three steps, because the game goes on between them: the list  *)
(* of processes, a first pass over the players, whose names give the chat  *)
(* its teams, and a second pass over everything.  Lookups and reads fail;  *)
(* a step has at most two failures, all steps together MaxFailures.  What  *)
(* a dead process is asked always fails.                                   *)
(*                                                                         *)
(* The chat is read slot by slot, and each slot can fail in its own way.   *)
(* The Vec of lines is modelled with the slot each line was read from.     *)
(***************************************************************************)
EXTENDS Integers, FiniteSets, Sequences

CONSTANTS
  Procs,       (* the osu! processes there may be; a pid is used once      *)
  Slot,        (* the ipc id of a spectator client; 0 for the manager and  *)
               (* for a referee's own client                               *)
  Manager,     (* the tournament manager                                   *)
  Players,     (* the user objects a client's pointer may be at            *)
  None,        (* a null pointer, Option::None                             *)
  ArgsFail,    (* a command line may be unreadable when a client is opened *)
  Room,        (* messages the channel keeps                               *)
  MaxMoves,    (* bound: changes of processes, players and chat            *)
  MaxFailures  (* bound: lookups and reads that fail                       *)

(* What the constants have to be; MCTourney assumes it.                    *)
ClientsAssumption ==
  /\ Slot \in [Procs -> Nat]
  /\ Manager \in Procs /\ Slot[Manager] = 0
  /\ None \notin Players
  /\ ArgsFail \in BOOLEAN
  /\ Room \in Nat \ {0}
  /\ MaxMoves \in Nat
  /\ MaxFailures \in Nat

VARIABLES
  running,  (* the osu! processes                                          *)
  ended,    (* the ones that were there and are not                        *)
  watched,  (* the user object each client's pointer is at                 *)
  channel,  (* the messages of #multiplayer, oldest first                  *)
  moves,
  failures,
  pc,       (* where the poll is: "scan", "users" or "clients"             *)
  scanDue,  (* 1500 ms have passed since last_proc_scan                    *)
  retryDue, (* clients whose last_pattern_retry is 2000 ms ago             *)
  clients,  (* TournamentSession::clients: pid -> CachedClientState        *)
  chatKey,  (* cached_chat_key: index and message, or None                 *)
  chat,     (* cached_chat: the lines, by the slot each was read from      *)
  teams,    (* spectator_teams, by the name of the player                  *)
  views,    (* TournamentSnapshot::clients: pid -> team and user           *)
  said      (* the snapshot's chat, like chat; None without a manager      *)

game == <<running, ended, watched, channel, moves>>
timers == <<scanDue, retryDue>>
chats == <<chatKey, chat>>
snapshot == <<views, said>>
vars == <<game, failures, pc, timers, clients, chats, teams, snapshot>>

UserOrNone == Players \cup {None}
Teams == {"left", "right"}
TeamOrUnknown == Teams \cup {"unknown"}
Line == [n : 1..MaxMoves, team : TeamOrUnknown]
IsChat(c) == DOMAIN c \subseteq 1..Room /\ \A i \in DOMAIN c : c[i] \in Line
Client == [id : Nat,          (* ipc_id; 0 is None                         *)
           ruleset : BOOLEAN, (* ruleset_container_addr.is_some()          *)
           pattern : BOOLEAN, (* the pattern its role needs was found:     *)
                              (* spectating_user_pattern_addr, or          *)
                              (* chat_engine_pattern_addr                  *)
           ptr : UserOrNone,  (* cached_user_ptr                           *)
           user : UserOrNone, (* cached_user                               *)
           missed : BOOLEAN]  (* history: user was left when ptr was set   *)

TypeOK ==
  /\ running \subseteq Procs /\ ended \subseteq Procs
  /\ watched \in [Procs -> UserOrNone]
  /\ channel \in Seq([n : 1..MaxMoves, by : Players]) /\ Len(channel) <= Room
  /\ moves \in 0..MaxMoves /\ failures \in 0..MaxFailures
  /\ pc \in {"scan", "users", "clients"}
  /\ scanDue \in BOOLEAN /\ retryDue \subseteq Procs
  /\ DOMAIN clients \subseteq Procs
  /\ \A p \in DOMAIN clients : clients[p] \in Client
  /\ chatKey \in {None} \cup [index : 1..Room, n : 1..MaxMoves]
  /\ IsChat(chat) /\ said # None => IsChat(said)
  /\ teams \in [Players -> TeamOrUnknown]
  /\ DOMAIN views \subseteq Procs
  /\ \A p \in DOMAIN views :
       views[p] \in [team : Teams, at : UserOrNone, user : UserOrNone]

Init ==
  /\ running \in SUBSET Procs
  /\ ended = {}
  /\ watched = [p \in Procs |-> None]
  /\ channel = <<>>
  /\ moves = 0 /\ failures = 0
  /\ pc = "scan"
  /\ scanDue = TRUE /\ retryDue = {}
  /\ clients = <<>>
  /\ chatKey = None /\ chat = <<>>
  /\ teams = [u \in Players |-> "unknown"]
  /\ views = <<>> /\ said = None

-----------------------------------------------------------------------------
(* The game.                                                               *)

GameMoves ==
  /\ moves < MaxMoves
  /\ moves' = moves + 1
  /\ UNCHANGED <<failures, pc, timers, clients, chats, teams, snapshot>>

ProcessStarts ==
  /\ GameMoves
  /\ \E p \in Procs \ (running \cup ended) : running' = running \cup {p}
  /\ UNCHANGED <<ended, watched, channel>>

ProcessEnds ==
  /\ GameMoves
  /\ \E p \in running : running' = running \ {p} /\ ended' = ended \cup {p}
  /\ UNCHANGED <<watched, channel>>

PlayerChanges ==
  /\ GameMoves
  /\ \E p \in running, u \in UserOrNone :
       /\ Slot[p] # 0 /\ u # watched[p]
       /\ watched' = [watched EXCEPT ![p] = u]
  /\ UNCHANGED <<running, ended, channel>>

(* A full channel loses its oldest message.                                *)
MessageArrives ==
  /\ GameMoves
  /\ Manager \in running
  /\ \E u \in Players :
       LET longer == Append(channel, [n |-> moves + 1, by |-> u])
       IN  channel' = IF Len(longer) > Room THEN Tail(longer) ELSE longer
  /\ UNCHANGED <<running, ended, watched>>

ScanElapses ==
  /\ ~scanDue /\ scanDue' = TRUE
  /\ UNCHANGED <<game, failures, pc, retryDue, clients, chats, teams, snapshot>>

(* What of S fails in one step.                                            *)
Faults(S) == {F \in {{}} \cup {{x, y} : x, y \in S} :
                Cardinality(F) <= MaxFailures - failures}
Count(F) == failures' = failures + Cardinality(F)

-----------------------------------------------------------------------------
(* The first step: the processes.                                          *)

Spectators(C) == {p \in DOMAIN C : C[p].id # 0}

(* What init_process_with finds; only the ruleset and a spectator's user   *)
(* pattern are looked for again later.                                     *)
SpectateArg(p, F) == IF <<p, "args">> \in F THEN 0 ELSE Slot[p]
Opened(p, F) ==
  [id |-> SpectateArg(p, F),
   ruleset |-> <<p, "ruleset">> \notin F, pattern |-> <<p, "pattern">> \notin F,
   ptr |-> None, user |-> None, missed |-> FALSE]

(* The ruleset of a spectator client is for its play, not modelled here.   *)
LookupsOf(P) ==
  (P \X ({"open", "pattern"} \cup (IF ArgsFail THEN {"args"} ELSE {})))
    \cup (P \cap {Manager} \X {"ruleset"})

Kept(F) == [p \in {q \in running : q \in DOMAIN clients \/ <<q, "open">> \notin F} |->
              IF p \in DOMAIN clients THEN clients[p] ELSE Opened(p, F)]
ScanWhenEmpty == DOMAIN clients = {}
ScanIsDue == DOMAIN clients = {} \/ scanDue

(* The manager's cache goes with its client.                               *)
ForgetChat ==
  IF Manager \in DOMAIN clients' THEN UNCHANGED chats
                                 ELSE chatKey' = None /\ chat' = <<>>

EndScan ==
  /\ pc' = "users"
  /\ ForgetChat
  /\ UNCHANGED <<game, teams, snapshot>>

ScanNotDue ==
  /\ pc = "scan" /\ ~ScanIsDue
  /\ UNCHANGED <<failures, timers, clients>>
  /\ EndScan

ScanProcesses ==
  /\ pc = "scan" /\ ScanIsDue
  /\ scanDue' = FALSE
  /\ \E F \in Faults(LookupsOf(running \ DOMAIN clients)) :
       clients' = Kept(F) /\ Count(F)
  /\ retryDue' = retryDue \cap DOMAIN clients'
  /\ EndScan

(* A listing that fails is an empty one.                                   *)
ScanFails ==
  /\ pc = "scan" /\ ScanIsDue
  /\ failures < MaxFailures /\ failures' = failures + 1
  /\ scanDue' = FALSE
  /\ clients' = <<>> /\ retryDue' = {}
  /\ EndScan

-----------------------------------------------------------------------------
(* The second step: the players, for the chat.                             *)

(* The first half of the ipc ids there are is the left team.               *)
TeamOfFirst(p) ==
  IF \A q \in Spectators(clients) : clients[p].id <= clients[q].id THEN "left" ELSE "unknown"
TeamOf(p) ==
  LET all == {clients[q].id : q \in Spectators(clients)}
      rank == Cardinality({i \in all : i < clients[p].id})
  IN  IF rank < (Cardinality(all) + 1) \div 2 THEN "left" ELSE "right"

Named == {p \in Spectators(clients) :
            clients[p].pattern /\ p \in running /\ watched[p] # None}
CachedAnyhow(c, u) == u # None /\ c.user # None
IsCached(c, u) == u # None /\ u = c.ptr /\ c.user # None

(* A pointer that moved is kept even when its object cannot be read: the   *)
(* player of the old one then stays.                                       *)
FirstLook(p, F) ==
  LET c == clients[p]
  IN  IF p \notin Named \/ <<p, "pointer">> \in F \/ IsCached(c, watched[p]) THEN c
      ELSE IF <<p, "user">> \in F
      THEN [c EXCEPT !.ptr = watched[p], !.missed = c.user # None]
      ELSE [c EXCEPT !.ptr = watched[p], !.user = watched[p], !.missed = FALSE]

(* Of two clients at one player the last one gives the team.               *)
NamesTeams(F) ==
  {f \in [Players -> TeamOrUnknown] : \A u \in Players :
     LET shown == {p \in Named : /\ <<p, "pointer">> \notin F
                                 /\ \/ IsCached(clients[p], watched[p])
                                    \/ <<p, "user">> \notin F
                                 /\ FirstLook(p, F).user = u}
     IN  f[u] \in IF shown = {} THEN {"unknown"} ELSE {TeamOf(p) : p \in shown}}

ReadUsers ==
  /\ pc = "users"
  /\ \E F \in Faults(Named \X {"pointer", "user"}) :
       /\ clients' = [p \in DOMAIN clients |-> FirstLook(p, F)]
       /\ teams' \in NamesTeams(F)
       /\ Count(F)
  /\ pc' = "clients"
  /\ UNCHANGED <<game, timers, chats, snapshot>>

-----------------------------------------------------------------------------
(* The third step: everything, client by client.                           *)

(* The patterns a client still needs are looked for every 2000 ms.         *)
Needs(c) == ~c.ruleset \/ (c.id # 0 /\ ~c.pattern)
RetryElapses ==
  /\ \E p \in DOMAIN clients \ retryDue :
       Needs(clients[p]) /\ retryDue' = retryDue \cup {p}
  /\ UNCHANGED <<game, failures, pc, scanDue, clients, chats, teams, snapshot>>

Retries == {p \in retryDue \cap DOMAIN clients : Needs(clients[p])}
Retried(p, F) ==
  IF p \notin Retries \/ p \notin running THEN clients[p]
  ELSE [clients[p] EXCEPT !.ruleset = @ \/ <<p, "ruleset">> \notin F,
                          !.pattern = @ \/ (clients[p].id # 0 /\ <<p, "pattern">> \notin F)]

(* A pointer that cannot be read shows nobody and leaves the cache alone.  *)
SecondLook(p, F) ==
  LET c == Retried(p, F)
      u == watched[p]
  IN  IF c.id = 0 \/ ~c.pattern \/ p \notin running \/ <<p, "pointer">> \in F \/ IsCached(c, u)
      THEN c
      ELSE [c EXCEPT !.ptr = u, !.missed = FALSE,
                     !.user = IF <<p, "user">> \in F THEN None ELSE u]

View(p, F) ==
  LET read == SecondLook(p, F).pattern /\ p \in running /\ <<p, "pointer">> \notin F
  IN  [team |-> TeamOf(p), at |-> IF read THEN watched[p] ELSE None,
       user |-> IF read THEN SecondLook(p, F).user ELSE None]

(* read_tournament_state: the manager is whoever holds a tournament.       *)
ManagerIsRead(F) ==
  /\ Manager \in DOMAIN clients \cap running
  /\ Retried(Manager, F).ruleset /\ <<Manager, "state">> \notin F

(* The parsed chat is kept as long as its newest line is where it was;     *)
(* when that cannot be told the channel is read again.                     *)
ChatIsThere(F) == chat # <<>> /\ channel # <<>>
ChatIsCached(F) ==
  /\ chat # <<>> /\ <<Manager, "fingerprint">> \notin F
  /\ chatKey.index <= Len(channel)
  /\ channel[chatKey.index].n = chatKey.n

(* The walk ends at a slot that cannot be read, passes over a message      *)
(* without a text or the address of a name, and knows no team of a name it *)
(* cannot read.  The key is the last line.                                 *)
Walked(F) == {i \in DOMAIN channel : \A j \in 1..i : <<j, "slot">> \notin F}
LinesRead(F) == {i \in Walked(F) : <<i, "message">> \notin F}
LineRead(i, F) ==
  [n |-> channel[i].n,
   team |-> IF <<i, "author">> \in F THEN "unknown" ELSE teams[channel[i].by]]

ReadChat(F) ==
  /\ chat' = [i \in LinesRead(F) |-> LineRead(i, F)]
  /\ \/ LinesRead(F) = {} /\ chatKey' = None
     \/ \E i \in LinesRead(F) :
          /\ \A j \in LinesRead(F) : j <= i
          /\ chatKey' = [index |-> i, n |-> channel[i].n]
  /\ said' = chat'

(* "chat": the read is an error, and the chat is empty for this packet     *)
(* only.  "channel": on the way to the messages something is null or       *)
(* unlikely, or no channel reads as #multiplayer; that is an empty chat,   *)
(* and it is kept.                                                         *)
ReadManager(F) ==
  IF ~ManagerIsRead(F)
  THEN said' = None /\ UNCHANGED chats
  ELSE IF ~clients[Manager].pattern \/ <<Manager, "chat">> \in F
  THEN said' = <<>> /\ UNCHANGED chats
  ELSE IF <<Manager, "channel">> \in F
  THEN said' = <<>> /\ chat' = <<>> /\ chatKey' = None
  ELSE IF ChatIsCached(F)
  THEN said' = chat /\ UNCHANGED chats
  ELSE ReadChat(F)

Reads ==
  (Spectators(clients) \cap running \X {"pointer", "user"})
    \cup (Retries \cap running \X {"pattern"})
    \cup (Retries \cap running \cap {Manager} \X {"ruleset"})
    \cup ((DOMAIN clients) \cap running \cap {Manager}
             \X {"state", "chat", "channel", "fingerprint"})
    \cup (IF Manager \in DOMAIN clients \cap running
          THEN (DOMAIN channel) \X {"slot", "message", "author"} ELSE {})

ReadClients ==
  /\ pc = "clients"
  /\ \E F \in Faults(Reads) :
       /\ clients' = [p \in DOMAIN clients |-> SecondLook(p, F)]
       /\ views' = [p \in Spectators(clients) |-> View(p, F)]
       /\ ReadManager(F)
       /\ Count(F)
  /\ retryDue' = retryDue \ Retries
  /\ pc' = "scan"
  /\ UNCHANGED <<game, scanDue, teams>>

Poll == ScanNotDue \/ ScanProcesses \/ ScanFails \/ ReadUsers \/ ReadClients

Next ==
  \/ ProcessStarts \/ ProcessEnds \/ PlayerChanges \/ MessageArrives
  \/ ScanElapses \/ RetryElapses
  \/ ScanNotDue \/ ScanProcesses \/ ScanFails \/ ReadUsers \/ ReadClients

Spec == Init /\ [][Next]_vars

(* run_serve_loop polls for ever, and time passes.                         *)
Fairness == WF_vars(Poll) /\ WF_vars(ScanElapses) /\ WF_vars(RetryElapses)

-----------------------------------------------------------------------------
(* Properties.                                                             *)

(* The player shown for a client is the one its pointer was at when the    *)
(* packet was made, or nobody; the one exception is a pointer that moved   *)
(* while the first pass could not read the new object                      *)
(* (TournamentSession::poll).                                              *)
UserOfThePointer ==
  pc = "scan" =>
    \A p \in DOMAIN views : \/ views[p].user \in {None, views[p].at}
                            \/ clients[p].missed

(* The same without the exception.                                         *)
UserIsTheirs ==
  pc = "scan" => \A p \in DOMAIN views : views[p].user \in {None, views[p].at}

(* What a packet says of the chat is in the channel as it was then, each   *)
(* line in the slot it was read from, so that none is gone, doubled or out *)
(* of order, whatever could not be read (read_tournament_chat and the      *)
(* fingerprint of its cache).                                              *)
ChatIsOfTheChannel ==
  [][pc = "clients" /\ pc' = "scan" /\ said' # None =>
       \A i \in DOMAIN said' :
         i \in DOMAIN channel /\ said'[i].n = channel[i].n]_vars

(* Every message arrives in the packet as long as the manager's chat can   *)
(* be read.                                                                *)
ChatIsWhole ==
  <>[](Manager \in running => /\ Manager \in DOMAIN clients
                              /\ said # None
                              /\ clients[Manager].pattern =>
                                   DOMAIN said = DOMAIN channel)

(* A message whose author is a player on display shows that player's team. *)
ChatTeamsAreKnown ==
  [][pc = "clients" /\ pc' = "scan" /\ said' # None =>
       \A i \in DOMAIN said' :
         teams[channel[i].by] # "unknown" => said'[i].team # "unknown"]_vars

(* A client on display keeps its team.                                     *)
TeamStays ==
  [][\A p \in DOMAIN views \cap DOMAIN views' : views'[p].team = views[p].team]_vars

(* Once nothing fails any more, the packet has exactly the spectator       *)
(* clients that run, the lower half of their ids left and the rest right,  *)
(* each with the player it watches, and the manager, with the chat begun   *)
(* (TournamentSession::poll).                                              *)
Shown ==
  LET S == {p \in running : Slot[p] # 0}
      lower(p) == Cardinality({q \in S : Slot[q] < Slot[p]})
  IN  /\ DOMAIN views = S
      /\ \A p \in S : /\ views[p].team = IF 2 * lower(p) < Cardinality(S) THEN "left" ELSE "right"
                      /\ views[p].at = watched[p]
                      /\ views[p].user = watched[p] \/ clients[p].missed
      /\ Manager \in running =>
           /\ said # None
           /\ clients[Manager].pattern /\ channel # <<>> => said # <<>>
EveryoneIsServed == <>[](pc = "scan" => Shown)

=============================================================================
