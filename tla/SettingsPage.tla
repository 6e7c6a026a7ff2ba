---------------------------- MODULE SettingsPage ----------------------------
(***************************************************************************)
(* The settings form of the landing page (the script in LANDING_SCRIPT,    *)
(* src/src/settings.rs) and the server behind it: controls that the        *)
(* operator edits at any time, a save that sends the changed ones, an      *)
(* answer that comes later or not at all, a revert, and a restart of the   *)
(* server that ends in a reload.                                           *)
(*                                                                         *)
(* A control shows a value or, being a text, something that is none.  What *)
(* the script keeps of a control twice, its text and its value (originals, *)
(* baseline), is kept once.                                                *)
(***************************************************************************)
EXTENDS Naturals

CONSTANTS
  Keys,         (* the settings                                            *)
  Values,       (* their values                                            *)
  Bad,          (* a text that does not parse                              *)
  MaxSaves,     (* bound: saves, and changes made elsewhere                *)
  MaxProbes     (* 20: how often the page asks for the new process         *)

ASSUME SettingsPageAssumption ==
  /\ Bad \notin Values
  /\ {MaxSaves, MaxProbes} \subseteq Nat

VARIABLES
  server,     (* the settings the server has                               *)
  process,    (* who has the port: "up" is the server, which is "stopping" *)
              (* after a restart was asked for, "down" is nobody, and      *)
              (* "other" another program                                   *)
  control,    (* what the controls show                                    *)
  baseline,   (* baseline and originals                                    *)
  request,    (* the patch under way, and where it is                      *)
  reverted,   (* the status line says so                                   *)
  restart,    (* "none", "asked", or "waiting" for the new process         *)
  probes,     (* how often the page has asked for it                       *)
  saves,      (* how many saves were made, here and elsewhere              *)
  edited,     (* history: the settings edited since the page was loaded    *)
  touched,    (* history: those edited or reverted while a save was under  *)
              (* way                                                       *)
  unsure      (* history: those changed elsewhere, or sent in a save whose *)
              (* answer was lost                                           *)

form == <<control, baseline, request, reverted>>
history == <<edited, touched, unsure>>
vars == <<server, process, form, restart, probes, saves, history>>

Shown == Values \cup {Bad}
NoPatch == [k \in {} |-> Bad]
Idle == [at |-> "none", patch |-> NoPatch]
Patches == UNION {[K -> Values] : K \in SUBSET Keys}

TypeOK ==
  /\ server \in [Keys -> Values]
  /\ {control, baseline} \subseteq [Keys -> Shown]
  /\ request \in [at : {"none", "sent", "saved", "refused", "lost"}, patch : Patches]
  /\ reverted \in BOOLEAN
  /\ process \in {"up", "stopping", "down", "other"}
  /\ restart \in {"none", "asked", "waiting"}
  /\ probes \in 0..MaxProbes
  /\ saves \in 0..MaxSaves
  /\ edited \subseteq Keys /\ touched \subseteq edited /\ unsure \subseteq Keys

(* The page is loaded: every control is remembered as it is.               *)
Loaded ==
  /\ control' = server
  /\ baseline' = server
  /\ request' = Idle
  /\ reverted' = FALSE
  /\ restart' = "none"
  /\ probes' = 0
  /\ edited' = {} /\ touched' = {} /\ unsure' = {}

Init ==
  /\ server \in [Keys -> Values]
  /\ process = "up"
  /\ control = server
  /\ baseline = server
  /\ request = Idle
  /\ reverted = FALSE
  /\ restart = "none"
  /\ probes = 0
  /\ saves = 0
  /\ edited = {} /\ touched = {} /\ unsure = {}

Saving == request.at # "none"

-----------------------------------------------------------------------------
(* The operator.                                                           *)

Touch(ks) ==
  /\ edited' = edited \cup ks
  /\ touched' = IF Saving THEN touched \cup ks ELSE touched
  /\ UNCHANGED unsure

Edit(k, v) ==
  /\ control[k] # v
  /\ control' = [control EXCEPT ![k] = v]
  /\ Touch({k})
  /\ UNCHANGED <<server, process, baseline, request, reverted, restart, probes, saves>>

(* Another page, or an editor and a restart.                               *)
ChangeElsewhere(k, v) ==
  /\ server[k] # v
  /\ saves < MaxSaves
  /\ saves' = saves + 1
  /\ server' = [server EXCEPT ![k] = v]
  /\ unsure' = unsure \cup {k}
  /\ UNCHANGED <<process, form, restart, probes, edited, touched>>

(* Mutant: the whole form is sent.                                         *)
ChangedAll == Keys

Changed == {k \in Keys : control[k] # baseline[k]}

Patch == [k \in Changed |-> control[k]]

(* The save button, which is disabled while a save is under way.  A text   *)
(* that does not parse, or a form without changes, is not sent.            *)
ClickSave ==
  /\ ~Saving
  /\ reverted' = FALSE
  /\ IF Changed = {} \/ \E k \in Keys : control[k] = Bad
     THEN UNCHANGED <<request, saves>>
     ELSE
       /\ saves < MaxSaves
       /\ saves' = saves + 1
       /\ request' = [at |-> "sent", patch |-> Patch]
  /\ UNCHANGED <<server, process, control, baseline, restart, probes, history>>

ClickReset ==
  /\ control' = baseline
  /\ reverted' = TRUE
  /\ Touch({k \in Keys : control[k] # baseline[k]})
  /\ UNCHANGED <<server, process, baseline, request, restart, probes, saves>>

-----------------------------------------------------------------------------
(* The answer to a save.                                                   *)

(* handle_settings_post: all of the patch, or nothing.                     *)
Answer ==
  /\ request.at = "sent"
  /\ process \in {"up", "stopping"}
  /\ \/ /\ server' = [k \in Keys |-> IF k \in DOMAIN request.patch THEN request.patch[k] ELSE server[k]]
        /\ request' = [request EXCEPT !.at = "saved"]
     \/ /\ request' = [request EXCEPT !.at = "refused"]
        /\ UNCHANGED server
  /\ UNCHANGED <<process, control, baseline, reverted, restart, probes, saves, history>>

(* The connection breaks, before or after the server has answered.         *)
Lose ==
  /\ request.at \in {"sent", "saved", "refused"}
  /\ request' = [request EXCEPT !.at = "lost"]
  /\ unsure' = unsure \cup DOMAIN request.patch
  /\ UNCHANGED <<server, process, control, baseline, reverted, restart, probes, saves, edited, touched>>

(* Mutant: whatever is answered is taken for "ok".                         *)
IsConfirmedByAny(answer) == answer # "lost"

IsConfirmed(answer) == answer = "saved"

(* Every control is remembered as it is now, when the answer is in.        *)
Receive ==
  /\ request.at \in {"saved", "refused", "lost"}
  /\ request' = Idle
  /\ reverted' = FALSE
  /\ baseline' = IF IsConfirmed(request.at) THEN control ELSE baseline
  /\ UNCHANGED <<server, process, control, restart, probes, saves, history>>

-----------------------------------------------------------------------------
(* The restart.                                                            *)

(* The restart button, which is disabled until a restart has come to an    *)
(* end.                                                                    *)
ClickRestart ==
  /\ restart = "none"
  /\ restart' = "asked"
  /\ reverted' = FALSE
  /\ UNCHANGED <<server, process, control, baseline, request, probes, saves, history>>

(* handle_restart answers, and the process stops a moment later.           *)
RestartStarts ==
  /\ restart = "asked"
  /\ process = "up"
  /\ process' = "stopping"
  /\ restart' = "waiting"
  /\ reverted' = FALSE
  /\ UNCHANGED <<server, control, baseline, request, probes, saves, history>>

(* It refuses, or cannot be reached.                                       *)
RestartFails ==
  /\ restart = "asked"
  /\ restart' = "none"
  /\ reverted' = FALSE
  /\ UNCHANGED <<server, process, control, baseline, request, probes, saves, history>>

Stop ==
  /\ process = "stopping"
  /\ process' = "down"
  /\ UNCHANGED <<server, form, restart, probes, saves, history>>

(* restart_this_process: the new process has the settings that were saved. *)
(* It may not start, or find the port taken.                               *)
Return ==
  /\ process = "down"
  /\ process' \in {"up", "other"}
  /\ UNCHANGED <<server, form, restart, probes, saves, history>>

(* Mutant: the page gives up without a word.                               *)
GivesUpSilently == UNCHANGED <<restart, reverted, probes>>

GivesUp == restart' = "none" /\ reverted' = FALSE /\ probes' = 0

(* The page asks every second.  The old process stops within the first.    *)
ProbeFails ==
  /\ restart = "waiting"
  /\ process = "down"
  /\ IF probes < MaxProbes
     THEN probes' = probes + 1 /\ UNCHANGED <<restart, reverted>>
     ELSE GivesUp
  /\ UNCHANGED <<server, process, control, baseline, request, saves, history>>

(* Another program answers, and not with 200: the page goes on asking, and *)
(* says nothing when it stops.                                             *)
ProbeRefused ==
  /\ restart = "waiting"
  /\ process = "other"
  /\ probes < MaxProbes
  /\ probes' = probes + 1
  /\ UNCHANGED <<server, process, form, restart, saves, history>>

(* location.replace('/'): what was edited and not saved goes.              *)
ProbeAnswered ==
  /\ restart = "waiting"
  /\ process = "up"
  /\ Loaded
  /\ UNCHANGED <<server, process, saves>>

Next ==
  \/ \E k \in Keys, v \in Shown : Edit(k, v)
  \/ \E k \in Keys, v \in Values : ChangeElsewhere(k, v)
  \/ ClickSave \/ ClickReset \/ Answer \/ Lose \/ Receive
  \/ ClickRestart \/ RestartStarts \/ RestartFails
  \/ Stop \/ Return \/ ProbeFails \/ ProbeRefused \/ ProbeAnswered

(* A request is answered or breaks, a process that stops does so, and the  *)
(* page's timer fires.                                                     *)
Fairness ==
  /\ WF_vars(Answer \/ Lose) /\ WF_vars(Receive)
  /\ WF_vars(RestartStarts \/ RestartFails)
  /\ WF_vars(Stop) /\ WF_vars(ProbeFails \/ ProbeAnswered)

Spec == Init /\ [][Next]_vars /\ Fairness

-----------------------------------------------------------------------------
(* Properties.                                                             *)

(* What the page takes for confirmed is what the server has, but for the   *)
(* settings the operator touched while the save was under way, those that  *)
(* others changed, and those of a save whose answer was lost.              *)
ConfirmedIsServer ==
  request.at \in {"none", "sent", "refused"} =>
    \A k \in Keys \ (touched \cup unsure) : baseline[k] = server[k]

(* A save takes back nothing that others changed while the page was open:  *)
(* it writes only what was edited here.                                    *)
OthersAreKept ==
  [][request.at = "sent" /\ request'.at = "saved" =>
       \A k \in Keys \ edited : server'[k] = server[k]]_vars

(* The buttons come back: a save and a restart come to an end, whatever    *)
(* the server answers and whether it comes up again or not, unless another *)
(* program has taken the port.                                             *)
ButtonsComeBack ==
  /\ request.at # "none" ~> request.at = "none"
  /\ restart # "none" ~> restart = "none" \/ process = "other"

(* "This page reloads when the new process is up."  (src/src/settings.rs)  *)
(* It does so, or says that it gave up.                                    *)
RestartEnds == restart # "none" ~> restart = "none"

(* "Reverted to the values the server last confirmed."                     *)
(* (src/src/settings.rs)                                                   *)
RevertsToConfirmed ==
  reverted /\ ~Saving =>
    \A k \in Keys \ unsure : baseline[k] = server[k]
=============================================================================
