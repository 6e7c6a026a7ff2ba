------------------------------ MODULE AtomicSave ------------------------------
(***************************************************************************)
(* What a save of the settings promises (README.md, handle_settings_post   *)
(* and commit in src/src/): the configuration the next start will read and *)
(* the one the process runs with are replaced in one step or not at all,   *)
(* by the running one with the request's own keys changed.                 *)
(***************************************************************************)
CONSTANTS
  Requests, Keys, LiveKeys, Values,
  Defaults,    (* the configuration of a file that names no key            *)
  Legal,       (* the configurations a start accepts                       *)
  PatchOf      (* the keys and values of each request                      *)

VARIABLES
  saved,       (* the configuration the next start reads                   *)
  running,     (* the process, if there is one: what it is configured with *)
               (* and what of that its poll loop is offered                *)
  answer       (* what became of each request                              *)

vars == <<saved, running, answer>>

LiveOf(c) == [k \in LiveKeys |-> c[k]]
Process(c) == [config |-> c, live |-> LiveOf(c)]
Patched(c, patch) == [k \in Keys |-> IF k \in DOMAIN patch THEN patch[k] ELSE c[k]]

Init ==
  /\ saved = Defaults
  /\ running = {Process(Defaults)}
  /\ answer = [r \in Requests |-> "none"]

Save(r) ==
  /\ answer[r] = "none"
  /\ \E p \in running :
       LET c == Patched(p.config, PatchOf[r]) IN
       /\ c \in Legal
       /\ saved' = c
       /\ running' = {Process(c)}
  /\ answer' = [answer EXCEPT ![r] = "saved"]

Refuse(r) ==
  /\ answer[r] = "none"
  /\ running # {}
  /\ answer' = [answer EXCEPT ![r] = "refused"]
  /\ UNCHANGED <<saved, running>>

(* The process is gone, and with it the answers that were not sent: those  *)
(* of requests nothing was done for, and of requests that were saved.      *)
Stop ==
  /\ running # {}
  /\ running' = {}
  /\ \E R \in SUBSET {r \in Requests : answer[r] # "refused"} :
       answer' = [r \in Requests |-> IF r \in R THEN "lost" ELSE answer[r]]
  /\ UNCHANGED saved

Start ==
  /\ running = {}
  /\ running' = {Process(saved)}
  /\ UNCHANGED <<saved, answer>>

(* The operator saves another configuration into the file.                 *)
Edit ==
  /\ saved' \in Legal
  /\ UNCHANGED <<running, answer>>

Next == Stop \/ Start \/ Edit \/ \E r \in Requests : Save(r) \/ Refuse(r)

Spec == Init /\ [][Next]_vars
=============================================================================
