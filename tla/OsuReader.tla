------------------------------ MODULE OsuReader ------------------------------
(***************************************************************************)
(* The reader (src/src/reader.rs): which osu! processes there are, whether *)
(* they make a tournament, which session a poll goes to, and whether what  *)
(* comes back counts as attached.  Of the sessions (src/src/session.rs)    *)
(* only the part that opens and drops processes is here.                   *)
(*                                                                         *)
(* A poll is two steps, because processes come and go in between: Check    *)
(* looks at the process list, when that is due, and a session then looks   *)
(* again for itself.  Process listings, openings and command lines fail    *)
(* now and then; all of that is bounded by MaxFailures.                    *)
(***************************************************************************)
EXTENDS Naturals, FiniteSets

CONSTANTS
  Procs,       (* the processes there may be                               *)
  TourneyArgs, (* the ones a tournament client's command line belongs to   *)
  Modes,       (* the modes of OsuReaderMode                               *)
  None,        (* Option::None                                             *)
  MaxMoves,    (* bound: processes started and ended                       *)
  MaxFailures  (* bound: calls of the system that fail                     *)

ASSUME ReaderAssumption ==
  /\ TourneyArgs \subseteq Procs
  /\ Modes \subseteq {"auto", "solo", "tournament"}
  /\ None \notin Procs
  /\ MaxMoves \in Nat
  /\ MaxFailures \in Nat

VARIABLES
  running,      (* the osu! processes                                      *)
  moves,        (* how many were started or ended                          *)
  failures,     (* how many calls failed                                   *)
  mode,         (* builder.mode                                            *)
  pc,           (* where the poll is: "check" or "session"                 *)
  checkDue,     (* proc_check_interval has passed since last_proc_check    *)
  scanDue,      (* 1500 ms have passed since last_proc_scan                *)
  cachedPids,   (* cached_pids                                             *)
  isTournament, (* is_tournament                                           *)
  solo,         (* the process SoloSession holds; None is ~attached        *)
  clients,      (* TournamentSession::clients                              *)
  served        (* what the last poll that succeeded gave the serve loop   *)

system == <<running, moves, failures, mode>>
timers == <<checkDue, scanDue>>
reader == <<cachedPids, isTournament>>
sessions == <<solo, clients>>
vars == <<system, pc, timers, reader, sessions, served>>

Served == [from : {"nobody", "solo", "tourney"}, attached : BOOLEAN]

TypeOK ==
  /\ running \subseteq Procs
  /\ moves \in 0..MaxMoves
  /\ failures \in 0..MaxFailures
  /\ mode \in Modes
  /\ pc \in {"check", "session"}
  /\ checkDue \in BOOLEAN
  /\ scanDue \in BOOLEAN
  /\ cachedPids \subseteq Procs
  /\ isTournament \in BOOLEAN
  /\ solo \in Procs \cup {None}
  /\ clients \subseteq Procs
  /\ served \in Served

Init ==
  /\ running = {}
  /\ moves = 0
  /\ failures = 0
  /\ mode \in Modes
  /\ pc = "check"
  /\ checkDue = TRUE
  /\ scanDue = TRUE
  /\ cachedPids = {}
  /\ isTournament = FALSE
  /\ solo = None
  /\ clients = {}
  /\ served = [from |-> "nobody", attached |-> FALSE]

-----------------------------------------------------------------------------
(* The system.                                                             *)

(* A process starts or ends.                                               *)
ProcessMoves ==
  /\ moves < MaxMoves
  /\ \E p \in Procs :
       running' = IF p \in running THEN running \ {p} ELSE running \cup {p}
  /\ moves' = moves + 1
  /\ UNCHANGED <<failures, mode, pc, timers, reader, sessions, served>>

(* Time passes.                                                            *)
CheckElapses ==
  /\ ~checkDue
  /\ checkDue' = TRUE
  /\ UNCHANGED <<system, pc, scanDue, reader, sessions, served>>

ScanElapses ==
  /\ ~scanDue
  /\ scanDue' = TRUE
  /\ UNCHANGED <<system, pc, checkDue, reader, sessions, served>>

(* n of the calls made in a step fail.                                     *)
Fails(n) == failures + n <= MaxFailures /\ failures' = failures + n

-----------------------------------------------------------------------------
(* The process check.                                                      *)

(* A solo session finds out for itself that its process is gone.           *)
CheckIsDue == cachedPids = {} \/ (mode # "solo" /\ checkDue)

(* Command lines are read when the list has changed, and only then; one    *)
(* that cannot be read (not in readable) counts as empty.                  *)
CheckListed(readable) ==
  /\ Fails(Cardinality(running \ readable))
  /\ cachedPids' = running
  /\ isTournament' =
       IF running \in {{}, cachedPids} THEN isTournament
       ELSE Cardinality(running) > 1 \/ readable \cap TourneyArgs # {}

CheckProcesses ==
  \/ \E readable \in SUBSET running : CheckListed(readable)
  \/ Fails(1) /\ UNCHANGED reader

(* Without a process there is a placeholder to serve.                      *)
Check ==
  /\ pc = "check"
  /\ IF CheckIsDue
     THEN checkDue' = FALSE /\ CheckProcesses
     ELSE UNCHANGED <<checkDue, failures, reader>>
  /\ IF cachedPids' = {}
     THEN pc' = pc /\ served' = [from |-> "nobody", attached |-> FALSE]
     ELSE pc' = "session" /\ served' = served
  /\ UNCHANGED <<running, moves, mode, scanDue, sessions>>

-----------------------------------------------------------------------------
(* The sessions.                                                           *)

IsTourney == mode = "tournament" \/ (mode = "auto" /\ isTournament)

(* Mutant: several processes are taken for a tournament session.           *)
AttachedByCount ==
  /\ cachedPids # {}
  /\ IF Cardinality(cachedPids) > 1 THEN clients # {} ELSE solo # None

(* The `if` of the match arm holds for both of its patterns.               *)
IsAttached ==
  /\ cachedPids # {}
  /\ IF mode \in {"tournament", "auto"} /\ isTournament
     THEN clients # {} ELSE solo # None

Serve(from) == served' = [from |-> from, attached |-> IsAttached']

(* Mutant: the process of the session is not asked whether it is alive.    *)
HoldsDead == solo # None /\ UNCHANGED <<solo, failures>>

(* The process it has is alive.                                            *)
SoloHolds == solo \in running /\ UNCHANGED <<solo, failures>>

(* The process it had is gone: nothing else is tried in this poll.         *)
SoloLoses == solo \notin running \cup {None} /\ solo' = None /\ UNCHANGED failures

SoloOpens == solo = None /\ solo' \in running /\ UNCHANGED failures

(* There is no process, or no list of them.                                *)
SoloFindsNone ==
  /\ solo = None
  /\ IF running = {} THEN UNCHANGED failures ELSE Fails(1)
  /\ UNCHANGED solo

(* The first process listed cannot be opened: the poll is an error, which  *)
(* the serve loop drops.                                                   *)
SoloOpenFails ==
  /\ solo = None
  /\ running # {}
  /\ Fails(1)
  /\ UNCHANGED <<solo, cachedPids, served>>

(* A session that is not attached makes the next poll look again.          *)
PollSolo ==
  /\ pc = "session"
  /\ ~IsTourney
  /\ pc' = "check"
  /\ UNCHANGED <<running, moves, mode, timers, isTournament, clients>>
  /\ \/ /\ SoloHolds \/ SoloLoses \/ SoloOpens \/ SoloFindsNone
        /\ cachedPids' = IF solo' = None THEN {} ELSE cachedPids
        /\ Serve("solo")
     \/ SoloOpenFails

(* Mutant: clients that are gone are kept.                                 *)
KeepDeadClients(opened) ==
  /\ Fails(Cardinality(running \ (clients \cup opened)))
  /\ clients' = clients \cup opened

(* Clients that are gone are dropped, and those not held yet opened.       *)
ScanClients(opened) ==
  /\ Fails(Cardinality(running \ (clients \cup opened)))
  /\ clients' = (clients \cap running) \cup opened

(* A list that cannot be had counts as empty.                              *)
ScanFails == Fails(1) /\ clients' = {}

PollTourney ==
  /\ pc = "session"
  /\ IsTourney
  /\ pc' = "check"
  /\ UNCHANGED <<running, moves, mode, checkDue, reader, solo>>
  /\ IF clients = {} \/ scanDue
     THEN /\ scanDue' = FALSE
          /\ ScanFails \/ \E opened \in SUBSET (running \ clients) : ScanClients(opened)
     ELSE UNCHANGED <<scanDue, failures, clients>>
  /\ Serve("tourney")

Next ==
  \/ ProcessMoves
  \/ CheckElapses
  \/ ScanElapses
  \/ Check
  \/ PollSolo
  \/ PollTourney

Spec == Init /\ [][Next]_vars

(* The serve loop polls for ever, and time passes.                         *)
Fairness ==
  /\ WF_vars(CheckElapses)
  /\ WF_vars(ScanElapses)
  /\ WF_vars(Check)
  /\ WF_vars(PollSolo)
  /\ WF_vars(PollTourney)

FairSpec == Spec /\ Fairness

-----------------------------------------------------------------------------
(* Properties.                                                             *)

(* The flag published with a packet is that of the session the packet came *)
(* from, although the mode and the process list were looked at when the    *)
(* poll began and the flag is asked for when it has ended.                 *)
FlagOfTheSession ==
  served.attached =
    CASE served.from = "nobody" -> FALSE
      [] served.from = "solo" -> solo # None
      [] served.from = "tourney" -> clients # {}

(* A player who is the only one left is served, whatever ran before and    *)
(* whatever failed meanwhile.                                              *)
PlayerIsServed ==
  \A p \in Procs \ TourneyArgs :
    <>[](running = {p} /\ mode # "tournament")
      => <>[](solo = p /\ served = [from |-> "solo", attached |-> TRUE])

(* Several clients that stay are recognised as a tournament, and those and *)
(* no others end up in its session.                                        *)
TournamentIsServed ==
  \A T \in SUBSET Procs :
    Cardinality(T) > 1 /\ <>[](running = T /\ mode = "auto")
      => <>[](clients = T /\ served = [from |-> "tourney", attached |-> TRUE])

(* Once every process is gone the flag goes, in every mode.                *)
GoneIsNotAttached == <>[](running = {}) => <>[](~served.attached)

(* Whoever stays ends up in the session made for it; when nobody does,     *)
(* nobody is reported.                                                     *)
EachIsServed == PlayerIsServed /\ TournamentIsServed /\ GoneIsNotAttached
=============================================================================
