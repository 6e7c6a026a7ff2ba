---------------------------- MODULE SettingsStore ----------------------------
(***************************************************************************)
(* The settings: SettingsStore (src/src/settings.rs), the POST handler     *)
(* that patches it (src/src/server.rs), the file it is saved to            *)
(* (save_preserving_comments, src/src/config.rs) and the poll loop that    *)
(* adopts the live part of it (src/src/main.rs).                           *)
(*                                                                         *)
(* Handlers run on the worker threads of one tokio runtime, and nothing    *)
(* orders the three things a handler does: take a copy of the              *)
(* configuration, replace the file, replace the configuration.  A          *)
(* configuration is a function from keys to values.  A text names some of  *)
(* the keys, in a layout that decides what the line patching of a save     *)
(* makes of it.  A file is an inode, because a handler that opened the     *)
(* shared temporary file goes on writing to it after another handler has   *)
(* renamed it.                                                             *)
(***************************************************************************)
EXTENDS Naturals

CONSTANTS
  Requests,    (* the saves asked for, one POST each                        *)
  Keys,        (* the settings                                             *)
  LiveKeys,    (* the ones the poll loop adopts without a restart          *)
  Values,
  Defaults,    (* what a key missing from the file reads as                *)
  Legal,       (* the configurations AppConfig::validate accepts           *)
  PatchOf,     (* the keys and values of each request                      *)
  EditTexts,   (* what the operator may save into the file by hand         *)
  Serial,      (* a save is not asked for while another one is in progress *)
  Torn,        (* bytes of which a part is missing                         *)
  Doubled,     (* a text that names a section or a key twice               *)
  Original,    (* the file the process was started on, and its author      *)
  Operator,    (* the author of an edit by hand                            *)
  NoFile       (* no temporary file                                        *)

Configs == [Keys -> Values]

(* "template": headers and keys written the way the template writes them,  *)
(* its sections in the template's order; "reordered": the sections in      *)
(* another order; "unseen": TOML that load_from_file accepts and           *)
(* section_header or the line scan does not recognise, as a comment after  *)
(* a header, a quoted key or mod_multipliers as a table of its own.        *)
Layouts == {"template", "reordered", "unseen"}

Texts ==
  [layout : Layouts, says : UNION {[D -> Values] : D \in SUBSET Keys}] \cup {Torn, Doubled}

(* A file just truncated, and generate_documented_template.                *)
Empty == [layout |-> "template", says |-> [k \in {} |-> k]]
Template == [layout |-> "template", says |-> Defaults]

ASSUME SettingsAssumption ==
  /\ LiveKeys \subseteq Keys
  /\ Legal \subseteq Configs
  /\ Defaults \in Legal
  /\ \A r \in Requests : DOMAIN PatchOf[r] \subseteq Keys
  /\ \A r \in Requests : \A k \in DOMAIN PatchOf[r] : PatchOf[r][k] \in Values
  /\ EditTexts \subseteq Texts
  /\ Serial \in BOOLEAN
  /\ Torn # Doubled
  /\ {Torn, Doubled} \cap [layout : Layouts, says : UNION {[D -> Values] : D \in SUBSET Keys}] = {}
  /\ Original \notin Requests
  /\ Operator \notin Requests \cup {Original}
  /\ NoFile \notin Requests \cup {Original}

VARIABLES
  up,        (* the process runs                                           *)
  memory,    (* SettingsStore::config                                      *)
  live,      (* the value in live_tx                                       *)
  changed,   (* live_rx.has_changed()                                      *)
  adopted,   (* the settings the reader runs with                          *)
  phase,     (* where the handler of each request is                       *)
  outcome,   (* PatchOutcome::config of each request                       *)
  draft,     (* the text save_preserving_comments made of it               *)
  handle,    (* the inode fs::write has open for each request              *)
  file,      (* the inode at the configuration's path                      *)
  temp,      (* the inode at the temporary path                           *)
  content    (* what each inode holds, and who wrote it                    *)

process == <<up, memory, live, changed, adopted>>
disk == <<file, temp, content>>
vars == <<process, phase, outcome, draft, handle, disk>>

InFlight == {"merged", "rendered", "created", "written", "replaced", "committed"}
Ended == {"accepted", "refused", "failed", "lost"}

(* The original file, and the one a request creates when it finds no       *)
(* temporary file to truncate.                                             *)
Inodes == Requests \cup {Original}

LiveOf(c) == [k \in LiveKeys |-> c[k]]

Parses(text) == text \notin {Torn, Doubled}

(* A text without a key reads as the default (#[serde(default)]).          *)
Parsed(text) ==
  IF Parses(text)
  THEN [k \in Keys |-> IF k \in DOMAIN text.says THEN text.says[k] ELSE Defaults[k]]
  ELSE text

Loadable(text) == Parses(text) /\ Parsed(text) \in Legal

(* Mutant: only the patched keys' own ranges are checked.                  *)
ValidateNothing(c) == TRUE

Validate(c) == c \in Legal

Busy == \E r \in Requests : phase[r] \in InFlight

Contents == [text : Texts, by : Requests \cup {Original, Operator}]

TypeOK ==
  /\ up \in BOOLEAN
  /\ memory \in Configs
  /\ live \in [LiveKeys -> Values]
  /\ changed \in BOOLEAN
  /\ adopted \in [LiveKeys -> Values]
  /\ phase \in [Requests -> {"new"} \cup InFlight \cup Ended]
  /\ outcome \in [Requests -> Configs]
  /\ draft \in [Requests -> Texts]
  /\ handle \in [Requests -> Inodes]
  /\ file \in Inodes
  /\ temp \in Inodes \cup {NoFile}
  /\ content \in [Inodes -> Contents]

Init ==
  /\ up = TRUE
  /\ memory = Defaults
  /\ live = LiveOf(Defaults)
  /\ changed = FALSE
  /\ adopted = LiveOf(Defaults)
  /\ phase = [r \in Requests |-> "new"]
  /\ outcome = [r \in Requests |-> Defaults]
  /\ draft = [r \in Requests |-> Template]
  /\ handle = [r \in Requests |-> Original]
  /\ file = Original
  /\ temp = NoFile
  /\ content = [i \in Inodes |-> [text |-> Template, by |-> Original]]

-----------------------------------------------------------------------------
(* The process and the operator.                                           *)

(* Ctrl-C, a crash, or the restart the settings page asks for: the process *)
(* is gone, whatever its handlers were doing.  The files stay.             *)
Stop ==
  /\ up
  /\ up' = FALSE
  /\ phase' = [r \in Requests |-> IF phase[r] \in InFlight THEN "lost" ELSE phase[r]]
  /\ UNCHANGED <<memory, live, changed, adopted, outcome, draft, handle, disk>>

(* load_or_init; a file that does not parse or does not validate keeps the *)
(* process from starting.                                                  *)
Start ==
  LET c == Parsed(content[file].text) IN
  /\ ~up
  /\ Loadable(content[file].text)
  /\ up' = TRUE
  /\ memory' = c
  /\ live' = LiveOf(c)
  /\ changed' = FALSE
  /\ adopted' = LiveOf(c)
  /\ UNCHANGED <<phase, outcome, draft, handle, disk>>

(* The operator saves the file from an editor.                             *)
HandEdit(text) ==
  /\ content' = [content EXCEPT ![file] = [text |-> text, by |-> Operator]]
  /\ UNCHANGED <<process, phase, outcome, draft, handle, file, temp>>

(* The poll loop looks at the live settings before every poll.             *)
Adopt ==
  /\ up
  /\ changed
  /\ adopted' = live
  /\ changed' = FALSE
  /\ UNCHANGED <<up, memory, live, phase, outcome, draft, handle, disk>>

-----------------------------------------------------------------------------
(* One POST /api/settings.                                                 *)

GoTo(r, p) == phase' = [phase EXCEPT ![r] = p]

Patched(c, patch) == [k \in Keys |-> IF k \in DOMAIN patch THEN patch[k] ELSE c[k]]

(* write_blocker: not the local machine, or a file that cannot be opened.  *)
Blocked(r) ==
  /\ up
  /\ phase[r] = "new"
  /\ GoTo(r, "refused")
  /\ UNCHANGED <<process, outcome, draft, handle, disk>>

(* apply_patch takes its copy under the read lock and works on the copy.   *)
ApplyPatch(r) ==
  LET merged == Patched(memory, PatchOf[r]) IN
  /\ up
  /\ phase[r] = "new"
  /\ Serial => ~Busy
  /\ IF Validate(merged)
     THEN GoTo(r, "merged") /\ outcome' = [outcome EXCEPT ![r] = merged]
     ELSE GoTo(r, "refused") /\ outcome' = outcome
  /\ UNCHANGED <<process, draft, handle, disk>>

(* patch_base: the file's text if it parses, whatever values it holds;     *)
(* otherwise the template.                                                 *)
Base(text) == IF Parses(text) THEN text ELSE Template

(* What patching the lines of a base can make of it.  A key on a line of   *)
(* its own section gets its new value there.  A missing key goes before    *)
(* the next section in the template's order, which in another order may be *)
(* the middle of a foreign section, where no start reads it and the next   *)
(* save finds it missing again.  A section or key the scan did not         *)
(* recognise is written a second time.                                     *)
Rendered(base, c) ==
  IF base.layout = "template" THEN {[layout |-> "template", says |-> c]}
  ELSE IF base.layout = "unseen" THEN {Doubled}
  ELSE {[layout |-> IF D = Keys THEN "reordered" ELSE "unseen", says |-> [k \in D |-> c[k]]] :
          D \in {E \in SUBSET Keys : DOMAIN base.says \subseteq E}}

(* save_preserving_comments reads the file and makes the text ...          *)
Render(r) ==
  /\ phase[r] = "merged"
  /\ \E text \in Rendered(Base(content[file].text), outcome[r]) :
       draft' = [draft EXCEPT ![r] = text]
  /\ GoTo(r, "rendered")
  /\ UNCHANGED <<process, outcome, handle, disk>>

(* Mutant: the file itself is opened, not a sibling of it.                 *)
CreateInPlace(r) ==
  /\ phase[r] = "rendered"
  /\ content' = [content EXCEPT ![file] = [text |-> Empty, by |-> r]]
  /\ handle' = [handle EXCEPT ![r] = file]
  /\ GoTo(r, "created")
  /\ UNCHANGED <<process, outcome, draft, file, temp>>

(* ... fs::write opens the temporary path, which every request shares,     *)
(* creating the file or truncating the one it finds ...                    *)
CreateTemp(r) ==
  LET i == IF temp = NoFile THEN r ELSE temp IN
  /\ phase[r] = "rendered"
  /\ temp' = i
  /\ content' = [content EXCEPT ![i] = [text |-> Empty, by |-> r]]
  /\ handle' = [handle EXCEPT ![r] = i]
  /\ GoTo(r, "created")
  /\ UNCHANGED <<process, outcome, draft, file>>

(* ... and writes from its start, which leaves the end of a longer text    *)
(* that another request wrote in between.                                  *)
WriteTemp(r) ==
  /\ phase[r] = "created"
  /\ \E text \in {draft[r]} \cup
                 (IF content[handle[r]].text = Empty THEN {} ELSE {Torn}) :
       content' = [content EXCEPT ![handle[r]] = [text |-> text, by |-> r]]
  /\ GoTo(r, "written")
  /\ UNCHANGED <<process, outcome, draft, handle, file, temp>>

(* An fs::write that fails, before or after a part of the text.            *)
WriteFails(r) ==
  /\ phase[r] \in {"rendered", "created"}
  /\ \/ UNCHANGED content
     \/ /\ phase[r] = "created"
        /\ content' = [content EXCEPT ![handle[r]] = [text |-> Torn, by |-> r]]
  /\ GoTo(r, "failed")
  /\ UNCHANGED <<process, outcome, draft, handle, file, temp>>

Rename(r) ==
  /\ phase[r] = "written"
  /\ temp # NoFile
  /\ file' = temp
  /\ temp' = NoFile
  /\ GoTo(r, "replaced")
  /\ UNCHANGED <<process, outcome, draft, handle, content>>

(* The temporary file is gone, or the file is held or read-only; whatever  *)
(* is at the temporary path is removed.                                    *)
RenameFails(r) ==
  /\ phase[r] = "written"
  /\ temp' = NoFile
  /\ GoTo(r, "failed")
  /\ UNCHANGED <<process, outcome, draft, handle, file, content>>

(* Mutant: the configuration in memory is left to the next start.          *)
CommitNothing(r) ==
  /\ phase[r] = "replaced"
  /\ GoTo(r, "committed")
  /\ UNCHANGED <<process, outcome, draft, handle, disk>>

(* commit replaces the configuration under the write lock ...              *)
Commit(r) ==
  /\ phase[r] = "replaced"
  /\ memory' = outcome[r]
  /\ GoTo(r, "committed")
  /\ UNCHANGED <<up, live, changed, adopted, outcome, draft, handle, disk>>

(* Mutant: the poll loop is not told.                                      *)
PublishUnnoticed(r) ==
  /\ phase[r] = "committed"
  /\ live' = LiveOf(outcome[r])
  /\ GoTo(r, "accepted")
  /\ UNCHANGED <<up, memory, changed, adopted, outcome, draft, handle, disk>>

(* Mutant: the receivers are woken without a new value.                    *)
PublishOldValue(r) ==
  /\ phase[r] = "committed"
  /\ changed' = TRUE
  /\ GoTo(r, "accepted")
  /\ UNCHANGED <<up, memory, live, adopted, outcome, draft, handle, disk>>

(* ... and sends the live part of it after the lock is released.           *)
Publish(r) ==
  /\ phase[r] = "committed"
  /\ live' = LiveOf(outcome[r])
  /\ changed' = TRUE
  /\ GoTo(r, "accepted")
  /\ UNCHANGED <<up, memory, adopted, outcome, draft, handle, disk>>

Proceed(r) ==
  \/ Render(r)
  \/ CreateTemp(r)
  \/ WriteTemp(r)
  \/ WriteFails(r)
  \/ Rename(r)
  \/ RenameFails(r)
  \/ Commit(r)
  \/ Publish(r)

Next ==
  \/ Stop
  \/ Start
  \/ \E text \in EditTexts : HandEdit(text)
  \/ Adopt
  \/ \E r \in Requests : Blocked(r) \/ ApplyPatch(r) \/ Proceed(r)

Spec == Init /\ [][Next]_vars

(* A handler has no await point, so it runs to its end; the poll loop polls*)
(* for ever; the operator starts a process that stopped.                   *)
Fairness ==
  /\ WF_vars(Start)
  /\ WF_vars(Adopt)
  /\ \A r \in Requests : WF_vars(Proceed(r))

FairSpec == Spec /\ Fairness

-----------------------------------------------------------------------------
(* Safety.                                                                 *)

(* What the next start reads.                                              *)
Saved == Parsed(content[file].text)

(* Whatever is interrupted where, the file at the configuration's path is  *)
(* one the next start accepts: "an interrupted save cannot leave a         *)
(* truncated config behind", and "a patch cannot satisfy the page and then *)
(* fail to load on the next start" (apply_patch).                          *)
FileAlwaysLoads == Loadable(content[file].text)

(* "Atomic or nothing": the file in place was never written by a request   *)
(* that was answered with an error, and never half written by any.         *)
FileIsWhole ==
  /\ content[file].text # Torn
  /\ \A r \in Requests : phase[r] \in {"refused", "failed"} => content[file].by # r

(* Once the handlers are done the file and the memory say the same, unless *)
(* the operator edited the file.                                           *)
FileIsMemory == up /\ ~Busy /\ content[file].by # Operator => Saved = memory

(* Outside commit, the settings the poll loop is offered are those of the  *)
(* configuration in memory.                                                *)
LiveIsCurrent ==
  up /\ (\A r \in Requests : phase[r] # "committed") => live = LiveOf(memory)

(* A save that has replaced the file and not yet told the process.         *)
HalfDone == {r \in Requests : phase[r] \in {"replaced", "committed"}}

(* A save is one step, taken where the file is replaced: the process of a  *)
(* save half done counts as the one it is about to be.                     *)
Whole == INSTANCE AtomicSave WITH
  saved <- Saved,
  running <- IF ~up THEN {}
             ELSE IF HalfDone = {} THEN {[config |-> memory, live |-> live]}
             ELSE {[config |-> outcome[r], live |-> LiveOf(outcome[r])] : r \in HalfDone},
  answer <- [r \in Requests |->
              IF phase[r] \in {"new", "merged", "rendered", "created", "written"} THEN "none"
              ELSE IF phase[r] \in {"replaced", "committed", "accepted"} THEN "saved"
              ELSE IF phase[r] \in {"refused", "failed"} THEN "refused"
              ELSE "lost"]

(* What a save does in many steps is an atomic save, whatever fails or is  *)
(* interrupted on the way.                                                 *)
SaveIsAtomic == Whole!Spec

(* The file is sound: it loads, and holds nothing that was refused.        *)
FileIsSound == FileAlwaysLoads /\ FileIsWhole

(* File, memory and the settings offered to the poll loop are copies of    *)
(* one configuration.                                                      *)
CopiesAgree == FileIsMemory /\ LiveIsCurrent

(* A save changes the settings it names and no other.                      *)
SavesNothingElse ==
  [][up /\ up' =>
       \A k \in Keys : memory'[k] # memory[k] =>
         \E r \in Requests : phase'[r] # phase[r] /\ k \in DOMAIN PatchOf[r]]_memory

(* Replacing the file changes only the keys the request names, and takes   *)
(* back what the operator edited since, to the value the process runs with.*)
RewritesNothingElse ==
  [][\E r \in Requests :
       /\ phase'[r] = "replaced"
       /\ \A k \in Keys \ DOMAIN PatchOf[r] :
            \/ Saved'[k] = Saved[k]
            \/ content[file].by = Operator /\ Saved'[k] = memory[k]]_file

-----------------------------------------------------------------------------
(* Liveness.                                                               *)

(* A process that stays up ends up running with the settings it holds.     *)
SettingsAdopted == <>[]up => <>[](adopted = LiveOf(memory))

(* A stopped process can always be started again.                          *)
StartsAgain == ~up ~> up

(* However it was stopped, the program can be started, and comes to run    *)
(* with the settings it holds.                                             *)
RunsAsSet == StartsAgain /\ SettingsAdopted
=============================================================================
