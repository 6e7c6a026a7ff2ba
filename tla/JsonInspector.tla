--------------------------- MODULE JsonInspector ---------------------------
(***************************************************************************)
(* The JSON inspector of the landing page (the script in LANDING_SCRIPT,   *)
(* src/src/settings.rs): a window that fetches an endpoint on demand or on *)
(* a timer, and shows the answer as text and as a tree.  Fetches are       *)
(* answered in any order.                                                  *)
(*                                                                         *)
(* An answer is the endpoint it is of and the version of the server's      *)
(* state it was made from; Keys and Below stand for its keys at the top    *)
(* and for those under them.                                               *)
(***************************************************************************)
EXTENDS Naturals, FiniteSets

CONSTANTS
  Endpoints,
  Nothing,      (* no answer yet                                           *)
  Keys(_, _),   (* the keys an endpoint answers with at a version          *)
  Below(_, _),  (* the shape under them                                    *)
  MaxVersions,  (* bound: versions of the server's state                   *)
  MaxFetches,   (* bound: fetches under way                                *)
  MaxClicks     (* bound: what the operator does                           *)

(* What the constants have to be; MCLandingPage assumes it.                *)
JsonInspectorAssumption ==
  Nothing \notin Endpoints /\ {MaxVersions, MaxFetches, MaxClicks} \subseteq Nat

VARIABLES
  opened,       (* the window is shown                                     *)
  endpoint,     (* the endpoint selected                                   *)
  isPolling, pollTimer,
  fetches,      (* those under way                                         *)
  version,      (* the state the server answers from                       *)
  raw,          (* the answer shown as text, which is currentData          *)
  tree,         (* the tree: the answer it was built from, and the one its *)
                (* values are of                                           *)
  clicks

window == <<opened, endpoint>>
shown == <<raw, tree>>
vars == <<window, isPolling, pollTimer, fetches, version, shown, clicks>>

NoAnswer == [of |-> Nothing, version |-> 0]
Answers == [of : Endpoints, version : 1..MaxVersions]

(* A fetch is told from others under way by a number.  Its answer is made  *)
(* when the server gets to it, and shown when it has come back.            *)
Numbers == 1..MaxFetches
Fetches == [no : Numbers, force : BOOLEAN, of : Endpoints, answer : Answers \cup {NoAnswer}]

TypeOK ==
  /\ opened \in BOOLEAN /\ isPolling \in BOOLEAN /\ pollTimer \in BOOLEAN
  /\ endpoint \in Endpoints
  /\ fetches \subseteq Fetches
  /\ version \in 1..MaxVersions
  /\ raw \in Answers \cup {NoAnswer}
  /\ tree \in [built : Answers \cup {NoAnswer}, values : Answers \cup {NoAnswer}]
  /\ clicks \in 0..MaxClicks

Init ==
  /\ opened = FALSE
  /\ endpoint \in Endpoints
  /\ isPolling = FALSE /\ pollTimer = FALSE
  /\ fetches = {}
  /\ version = 1
  /\ raw = NoAnswer /\ tree = [built |-> NoAnswer, values |-> NoAnswer]
  /\ clicks = 0

-----------------------------------------------------------------------------
(* fetchEndpoint                                                           *)
Fetch(url, force) ==
  \E n \in Numbers :
    /\ n \notin {f.no : f \in fetches}
    /\ \A m \in 1..(n - 1) : m \in {f.no : f \in fetches}
    /\ fetches' = fetches \cup {[no |-> n, force |-> force, of |-> url, answer |-> NoAnswer]}

(* The server answers; its state changes between two answers.              *)
Answer(f) ==
  /\ f.answer = NoAnswer
  /\ fetches' = (fetches \ {f}) \cup {[f EXCEPT !.answer = [of |-> f.of, version |-> version]]}
  /\ UNCHANGED <<window, isPolling, pollTimer, version, shown, clicks>>

Change ==
  /\ version < MaxVersions
  /\ version' = version + 1
  /\ UNCHANGED <<window, isPolling, pollTimer, fetches, shown, clicks>>

(* canReconcileInPlace: only the keys at the top are compared.             *)
CanReconcile(old, new) ==
  Keys(old.of, old.version) = Keys(new.of, new.version)

(* updateTreeOrRebuild: a tree that is kept gets the new values where it   *)
(* has a place for them.                                                   *)
Update(answer, force) ==
  /\ raw' = answer
  /\ tree' = IF ~force /\ raw # NoAnswer /\ CanReconcile(raw, answer)
             THEN [tree EXCEPT !.values = answer]
             ELSE [built |-> answer, values |-> answer]

(* Mutant: the next poll is only asked for by the timer.                   *)
ScheduleIfTimed == pollTimer' = pollTimer

(* scheduleNextPoll: one timer, whatever was scheduled before.             *)
Schedule == pollTimer' = (pollTimer \/ isPolling)

Receive(f) ==
  /\ f.answer # NoAnswer
  /\ fetches' = fetches \ {f}
  /\ Update(f.answer, f.force)
  /\ Schedule
  /\ UNCHANGED <<window, isPolling, version, clicks>>

(* The server was not reached: what is shown stays.                        *)
Fail(f) ==
  /\ clicks < MaxClicks
  /\ clicks' = clicks + 1
  /\ fetches' = fetches \ {f}
  /\ Schedule
  /\ UNCHANGED <<window, isPolling, version, shown>>

PollTimer ==
  /\ pollTimer
  /\ pollTimer' = FALSE
  /\ Fetch(endpoint, FALSE)
  /\ UNCHANGED <<window, isPolling, version, shown, clicks>>

-----------------------------------------------------------------------------
(* The operator.                                                           *)
Click == clicks < MaxClicks /\ clicks' = clicks + 1

OpenInspector(e) ==
  /\ ~opened
  /\ Click
  /\ opened' = TRUE
  /\ endpoint' = e
  /\ Fetch(e, TRUE)
  /\ UNCHANGED <<isPolling, pollTimer, version, shown>>

Select(e) ==
  /\ opened /\ e # endpoint
  /\ Click
  /\ endpoint' = e
  /\ Fetch(e, TRUE)
  /\ UNCHANGED <<opened, isPolling, pollTimer, version, shown>>

(* An endpoint of the operator's own is selected while it is typed, and    *)
(* fetched on Enter or with the next poll.                                 *)
Type(e) ==
  /\ opened /\ e # endpoint
  /\ Click
  /\ endpoint' = e
  /\ UNCHANGED <<opened, isPolling, pollTimer, fetches, version, shown>>

Enter ==
  /\ opened
  /\ Click
  /\ Fetch(endpoint, TRUE)
  /\ UNCHANGED <<window, isPolling, pollTimer, version, shown>>

FetchNow ==
  /\ opened
  /\ Click
  /\ Fetch(endpoint, FALSE)
  /\ UNCHANGED <<window, isPolling, pollTimer, version, shown>>

StartPolling ==
  /\ opened /\ ~isPolling
  /\ Click
  /\ isPolling' = TRUE
  /\ Fetch(endpoint, FALSE)
  /\ UNCHANGED <<window, pollTimer, version, shown>>

PollingStops == isPolling' = FALSE /\ pollTimer' = FALSE

StopPolling ==
  /\ opened /\ isPolling
  /\ Click
  /\ PollingStops
  /\ UNCHANGED <<window, fetches, version, shown>>

CloseInspector ==
  /\ opened
  /\ Click
  /\ opened' = FALSE
  /\ PollingStops
  /\ UNCHANGED <<endpoint, fetches, version, shown>>

(* Another rate, for the poll after this one.                              *)
SetRate ==
  /\ opened /\ isPolling
  /\ Click
  /\ Schedule
  /\ UNCHANGED <<window, isPolling, fetches, version, shown>>

Next ==
  \/ \E f \in fetches : Answer(f) \/ Receive(f) \/ Fail(f)
  \/ Change \/ PollTimer
  \/ \E e \in Endpoints : OpenInspector(e) \/ Select(e) \/ Type(e)
  \/ Enter \/ FetchNow \/ StartPolling \/ StopPolling \/ CloseInspector \/ SetRate

(* A fetch ends, and the timer fires.                                      *)
Fairness ==
  /\ \A n \in Numbers :
       WF_vars(\E f \in fetches : f.no = n /\ (Answer(f) \/ Receive(f)))
  /\ WF_vars(PollTimer)

Spec == Init /\ [][Next]_vars /\ Fairness

-----------------------------------------------------------------------------
(* Properties.                                                             *)

(* While it polls, an answer or the timer is to come, so that polling goes *)
(* on; a window that is closed, or does not poll, fetches nothing more.    *)
PollingGoesOn ==
  /\ isPolling => opened /\ (pollTimer \/ fetches # {})
  /\ pollTimer => isPolling

(* Polling comes to show what the server has for the endpoint selected,    *)
(* whatever was under way when it was selected.                            *)
PollShowsTheEndpoint ==
  <>[](isPolling /\ clicks = MaxClicks) => <>[](raw = [of |-> endpoint, version |-> version])

(* The values of the tree are those of the text, and so are its keys.      *)
TreeIsOfTheText ==
  raw # NoAnswer =>
    tree.values = raw
      /\ Keys(tree.built.of, tree.built.version) = Keys(raw.of, raw.version)

(* "JSON API Inspector & Live Poller" (src/src/settings.rs): the tree is   *)
(* that of the answer shown as text.                                       *)
TreeIsTheText ==
  raw # NoAnswer => Below(tree.built.of, tree.built.version) = Below(raw.of, raw.version)
=============================================================================
