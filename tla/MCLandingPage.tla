---------------------------- MODULE MCLandingPage ----------------------------
(***************************************************************************)
(* The three parts of the landing page's script, which share no state: the *)
(* settings form (SettingsPage), the log console and the JSON inspector.   *)
(* One of them is used, the others rest: as none reads what another one    *)
(* writes, using them together would show nothing more.                    *)
(***************************************************************************)
EXTENDS SettingsPage

CONSTANTS
  Files, Levels, All,       (* LogConsole                                  *)
  Recent, MaxRows, MaxLogged, MaxPageClicks,
  Endpoints, Nothing,       (* JsonInspector                               *)
  Growing,                  (* the endpoints that gain keys                *)
  MaxVersions, MaxFetches

VARIABLES
  part,                                                 (* the one in use    *)
  source, loads, stream, queue, entries, rows, console, level, log,
  lcClicks, shown, skipped, excused,                    (* LogConsole        *)
  opened, endpoint, isPolling, pollTimer, fetches, version, raw, tree,
  jiClicks                                              (* JsonInspector     *)

logConsole ==
  <<source, loads, stream, queue, entries, rows, console, level, log, lcClicks, shown, skipped, excused>>
inspector == <<opened, endpoint, isPolling, pollTimer, fetches, version, raw, tree, jiClicks>>
all3 == <<part, vars, logConsole, inspector>>

(* Some endpoints keep their keys, others gain one with the second         *)
(* version; what is below them changes in all.                             *)
KeysAtTheTop(e, v) == IF e \in Growing /\ v = 2 THEN <<e, "grown">> ELSE <<e, "as before">>
KeysBelow(e, v) == <<e, v>>

L == INSTANCE LogConsole WITH MaxClicks <- MaxPageClicks, clicks <- lcClicks
J == INSTANCE JsonInspector WITH Keys <- KeysAtTheTop, Below <- KeysBelow,
       MaxClicks <- MaxPageClicks, clicks <- jiClicks

ASSUME PartsAssumption == L!LogConsoleAssumption /\ J!JsonInspectorAssumption

(* A console at rest waits for no stream.                                  *)
NoConsole ==
  /\ source = "live" /\ stream = "closed" /\ console = "rows"
  /\ loads = [f \in Files |-> 0]
  /\ queue = <<>> /\ entries = <<>> /\ rows = <<>> /\ log = <<>>
  /\ level = All /\ lcClicks = 0 /\ shown = {} /\ skipped = 0 /\ excused = FALSE

(* The values are alike: the server starts with any of them.               *)
PartsInit ==
  /\ part \in {"settings", "logs", "inspector"}
  /\ Init /\ server = [k \in Keys |-> CHOOSE v \in Values : TRUE]
  /\ IF part = "logs" THEN L!Init ELSE NoConsole
  /\ J!Init /\ (part # "inspector" => endpoint = CHOOSE e \in Endpoints : TRUE)

PartsNext ==
  /\ UNCHANGED part
  /\ \/ part = "settings" /\ Next /\ UNCHANGED <<logConsole, inspector>>
     \/ part = "logs" /\ L!Next /\ UNCHANGED <<vars, inspector>>
     \/ part = "inspector" /\ J!Next /\ UNCHANGED <<vars, logConsole>>

(* Nothing is due of a part at rest.                                       *)
PartsSpec == PartsInit /\ [][PartsNext]_all3 /\ Fairness /\ L!Fairness /\ J!Fairness

-----------------------------------------------------------------------------
PartsTypeOK == TypeOK /\ L!TypeOK /\ J!TypeOK

(* The properties of the parts, under the names their modules state them   *)
(* with.                                                                   *)
ShowsTheSource == L!ShowsTheSource
PollingGoesOn == J!PollingGoesOn
PollShowsTheEndpoint == J!PollShowsTheEndpoint
TreeIsOfTheText == J!TreeIsOfTheText

(* Statements of the sources that the code does not keep.                  *)
ShowsTheFile == L!ShowsTheFile
TreeIsTheText == J!TreeIsTheText
=============================================================================
