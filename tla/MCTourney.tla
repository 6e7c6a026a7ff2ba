------------------------------ MODULE MCTourney ------------------------------
(***************************************************************************)
(* A tournament session (TournamentSession::poll, src/src/session.rs): who *)
(* takes part in it (TourneyClients) beside what each client is shown to   *)
(* play (TourneyMaps).  A poll goes through both, but neither half reads   *)
(* what the other writes: a step of one leaves the other alone, and what   *)
(* holds of a half on its own holds of both together.  The module also has *)
(* the small instances to check.                                           *)
(***************************************************************************)
EXTENDS TourneyMaps

CONSTANTS
  Procs, Slot, Manager, Players, None, ArgsFail, Room,     (* TourneyClients *)
  MaxChanges, MaxLosses,  (* its bounds                                    *)
  Halves                  (* the halves that run: "clients", "maps"        *)

VARIABLES
  running, ended, watched, channel, changes, losses, pc, scanDue, retryDue,
  clients, chatKey, chat, teams, shown, said                 (* TourneyClients *)

C == INSTANCE TourneyClients WITH MaxMoves <- MaxChanges, MaxFailures <- MaxLosses,
       moves <- changes, failures <- losses, views <- shown

ASSUME TourneyAssumption == C!ClientsAssumption /\ Halves \subseteq {"clients", "maps"}

people == <<running, ended, watched, channel, changes, losses, pc, scanDue, retryDue,
            clients, chatKey, chat, teams, shown, said>>
both == <<vars, people>>

(* A half at rest has no process to look at.                               *)
TourneyInit ==
  /\ Init
  /\ C!Init /\ ("clients" \notin Halves => running = {})

TourneyNext ==
  \/ "maps" \in Halves /\ Next /\ UNCHANGED people
  \/ "clients" \in Halves /\ C!Next /\ UNCHANGED vars

(* Nothing is due of a half at rest.                                       *)
TourneySpec ==
  /\ TourneyInit /\ [][TourneyNext]_both
  /\ "maps" \in Halves => Fairness
  /\ "clients" \in Halves => C!Fairness

-----------------------------------------------------------------------------
(* The properties of the clients, as TourneyClients states them.           *)
UserOfThePointer == C!UserOfThePointer
ChatIsOfTheChannel == C!ChatIsOfTheChannel
EveryoneIsServed == C!EveryoneIsServed

(* Statements that the code does not keep.                                 *)
UserIsTheirs == C!UserIsTheirs
ChatIsWhole == C!ChatIsWhole
ChatTeamsAreKnown == C!ChatTeamsAreKnown
TeamStays == C!TeamStays

-----------------------------------------------------------------------------
(* Small instances of a tournament session.                                *)

CONSTANTS a, b, manager, first, second

(* The path lands before the checksum, and the id last.                    *)
IdLast == {<<"file", "md5">>, <<"file", "id">>, <<"md5", "id">>}
AnyOrder == {}

Slots == [p \in {manager, first, second} |->
            IF p = first THEN 1 ELSE IF p = second THEN 2 ELSE 0]
=============================================================================
