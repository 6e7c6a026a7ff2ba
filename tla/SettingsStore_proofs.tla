------------------------- MODULE SettingsStore_proofs -------------------------
(***************************************************************************)
(* What the settings promise for any settings, patches and number of saves *)
(* as long as one save is in progress at a time (Serial), through crashes  *)
(* and failures at every step of a save.                                   *)
(***************************************************************************)
EXTENDS SettingsStore, TLAPS

-----------------------------------------------------------------------------
(* The inductive invariant.                                                *)

OneInFlight ==
  \A r, s \in Requests : phase[r] \in InFlight /\ phase[s] \in InFlight => r = s

DownMeansIdle == ~up => \A r \in Requests : phase[r] \notin InFlight

(* What a handler carries is legal, and is the configuration in memory     *)
(* with its patch applied until it is committed; no rendering tears it.    *)
Merged(r) ==
  /\ phase[r] \in InFlight => outcome[r] \in Legal
  /\ phase[r] \in {"merged", "rendered", "created", "written", "replaced"}
       => outcome[r] = Patched(memory, PatchOf[r])
  /\ phase[r] \in {"rendered", "created", "written"} => draft[r] # Torn

(* The inode a request would create is nowhere yet.                        *)
Fresh(r) == phase[r] \in {"new", "merged", "rendered"} => file # r /\ temp # r

(* The temporary file is the handler's own while it fills it.              *)
OwnTemp(r) ==
  /\ phase[r] = "created" =>
       temp # NoFile /\ handle[r] = temp /\ content[temp].text = Empty
  /\ phase[r] = "written" =>
       temp # NoFile /\ content[temp] = [text |-> draft[r], by |-> r]

(* The file in place is of the handler that replaced it last.              *)
Author(r) ==
  /\ phase[r] = "replaced" => content[file].by \in {r, Operator}
  /\ content[file].by = r => phase[r] \in {"replaced", "committed", "accepted", "lost"}

Committed(r) == phase[r] = "committed" => memory = outcome[r]

FileUntorn == content[file].text # Torn

SaveInv ==
  /\ OneInFlight
  /\ DownMeansIdle
  /\ temp # file
  /\ FileUntorn
  /\ LiveIsCurrent
  /\ \A r \in Requests : Merged(r) /\ Fresh(r) /\ OwnTemp(r) /\ Author(r) /\ Committed(r)

-----------------------------------------------------------------------------
(* Types.                                                                  *)

(* A patch applied to a configuration is a configuration.                  *)
LEMMA PatchedType ==
  ASSUME NEW c \in Configs, NEW r \in Requests
  PROVE  Patched(c, PatchOf[r]) \in Configs
  BY SettingsAssumption DEF SettingsAssumption, Patched, Configs

(* The live part of a configuration is a choice of live settings.          *)
LEMMA LiveType ==
  ASSUME NEW c \in Configs
  PROVE  LiveOf(c) \in [LiveKeys -> Values]
  BY SettingsAssumption DEF SettingsAssumption, LiveOf, Configs

(* What a save makes of a text it found is a text, and a whole one.        *)
LEMMA RenderedWhole ==
  ASSUME NEW text \in Texts, NEW c \in Configs, NEW d \in Rendered(Base(text), c)
  PROVE  d \in Texts /\ d # Torn
<1> DEFINE Said == UNION {[D -> Values] : D \in SUBSET Keys}
<1>1. Torn # Doubled /\ Torn \notin [layout : Layouts, says : Said]
  BY SettingsAssumption DEF SettingsAssumption
<1>2. \A D \in SUBSET Keys : [k \in D |-> c[k]] \in [D -> Values]
  BY DEF Configs
<1>3. \A D \in SUBSET Keys : [k \in D |-> c[k]] \in Said
  BY <1>2
<1>4. c \in Said
  BY DEF Configs
<1>5. CASE d = Doubled
  BY <1>1, <1>5 DEF Texts
<1>6. CASE d = [layout |-> "template", says |-> c]
  BY <1>1, <1>4, <1>6 DEF Texts, Layouts
<1>7. ASSUME NEW D \in SUBSET Keys, NEW l \in {"reordered", "unseen"},
             d = [layout |-> l, says |-> [k \in D |-> c[k]]]
      PROVE  d \in Texts /\ d # Torn
  BY <1>1, <1>3, <1>7 DEF Texts, Layouts
<1>8. \/ d = Doubled \/ d = [layout |-> "template", says |-> c]
      \/ \E D \in SUBSET Keys, l \in {"reordered", "unseen"} :
            d = [layout |-> l, says |-> [k \in D |-> c[k]]]
  BY DEF Rendered
<1>9. QED
  BY <1>5, <1>6, <1>7, <1>8

(* The template and the truncated file are texts.                          *)
LEMMA PlainTexts == Template \in Texts /\ Empty \in Texts /\ Template \notin {Torn, Doubled}
<1>1. [k \in {} |-> k] \in [{} -> Values] /\ {} \in SUBSET Keys
  OBVIOUS
<1>2. Defaults \in [Keys -> Values] /\ Keys \in SUBSET Keys
  BY SettingsAssumption DEF SettingsAssumption, Configs
<1>3. Template \in [layout : Layouts, says : UNION {[D -> Values] : D \in SUBSET Keys}]
  BY <1>2 DEF Template, Layouts
<1>4. Empty \in [layout : Layouts, says : UNION {[D -> Values] : D \in SUBSET Keys}]
  BY <1>1 DEF Empty, Layouts
<1>5. QED
  BY <1>3, <1>4, SettingsAssumption DEF Texts, SettingsAssumption

(* The types hold in every reachable state, torn files included.           *)
THEOREM TypeCorrect == Spec => []TypeOK
<1> USE SettingsAssumption DEF SettingsAssumption
<1>1. Init => TypeOK
  <2> SUFFICES ASSUME Init PROVE TypeOK
    OBVIOUS
  <2>1. Defaults \in Configs /\ Template \in Texts
    BY PlainTexts
  <2>2. content \in [Inodes -> Contents]
    BY <2>1 DEF Init, Contents
  <2>3. live \in [LiveKeys -> Values] /\ adopted \in [LiveKeys -> Values]
    BY <2>1, LiveType DEF Init
  <2>4. /\ outcome \in [Requests -> Configs]
        /\ handle \in [Requests -> Inodes]
        /\ phase \in [Requests -> {"new"} \cup InFlight \cup Ended]
        /\ draft \in [Requests -> Texts]
    BY <2>1 DEF Init, Inodes
  <2>5. up \in BOOLEAN /\ changed \in BOOLEAN
    BY Zenon DEF Init
  <2>6. memory \in Configs /\ file \in Inodes /\ temp \in Inodes \cup {NoFile}
    BY <2>1 DEF Init, Inodes
  <2>7. QED
    BY <2>2, <2>3, <2>4, <2>5, <2>6 DEF TypeOK
<1>2. TypeOK /\ [Next]_vars => TypeOK'
  <2> SUFFICES ASSUME TypeOK, [Next]_vars PROVE TypeOK'
    OBVIOUS
  <2> USE DEF process, disk
  <2>1. CASE Stop
    BY <2>1 DEF Stop, TypeOK, Ended
  <2>2. CASE Start
    <3>1. Parsed(content[file].text) \in Configs
      BY <2>2 DEF Start, Loadable
    <3>2. QED
      BY <2>2, <3>1, LiveType DEF Start, TypeOK
  <2>3. ASSUME NEW text \in EditTexts, HandEdit(text) PROVE TypeOK'
    <3>1. content' \in [Inodes -> Contents]
      BY <2>3 DEF HandEdit, TypeOK, Contents
    <3>2. QED
      BY <2>3, <3>1 DEF HandEdit, TypeOK
  <2>4. CASE Adopt
    BY <2>4 DEF Adopt, TypeOK
  <2>5. ASSUME NEW r \in Requests, Blocked(r) PROVE TypeOK'
    BY <2>5 DEF Blocked, GoTo, TypeOK, Ended
  <2>6. ASSUME NEW r \in Requests, ApplyPatch(r) PROVE TypeOK'
    <3>1. Patched(memory, PatchOf[r]) \in Configs
      BY PatchedType DEF TypeOK
    <3>2. QED
      BY <2>6, <3>1 DEF ApplyPatch, GoTo, TypeOK, InFlight, Ended
  <2>7. ASSUME NEW r \in Requests, CreateTemp(r) PROVE TypeOK'
    <3>1. (IF temp = NoFile THEN r ELSE temp) \in Inodes
      BY DEF TypeOK, Inodes
    <3>2. content' \in [Inodes -> Contents]
      BY <2>7, <3>1, PlainTexts DEF CreateTemp, TypeOK, Contents
    <3>3. QED
      BY <2>7, <3>1, <3>2 DEF CreateTemp, GoTo, TypeOK, InFlight
  <2>8. ASSUME NEW r \in Requests, WriteTemp(r) PROVE TypeOK'
    <3>1. PICK text \in Texts :
            content' = [content EXCEPT ![handle[r]] = [text |-> text, by |-> r]]
      <4>1. Torn \in Texts
        BY DEF Texts
      <4>2. QED
        BY <2>8, <4>1 DEF WriteTemp, TypeOK
    <3>2. content' \in [Inodes -> Contents]
      BY <3>1 DEF TypeOK, Contents
    <3>3. QED
      BY <2>8, <3>2 DEF WriteTemp, GoTo, TypeOK, InFlight
  <2>9. ASSUME NEW r \in Requests, WriteFails(r) PROVE TypeOK'
    <3>1. content' \in [Inodes -> Contents]
      <4>1. Torn \in Texts
        BY DEF Texts
      <4>2. QED
        BY <2>9, <4>1 DEF WriteFails, TypeOK, Contents
    <3>2. QED
      BY <2>9, <3>1 DEF WriteFails, GoTo, TypeOK, Ended
  <2>10. ASSUME NEW r \in Requests, Rename(r) PROVE TypeOK'
    BY <2>10 DEF Rename, GoTo, TypeOK, InFlight
  <2>11. ASSUME NEW r \in Requests, RenameFails(r) PROVE TypeOK'
    BY <2>11 DEF RenameFails, GoTo, TypeOK, Ended
  <2>12. ASSUME NEW r \in Requests, Commit(r) PROVE TypeOK'
    BY <2>12 DEF Commit, GoTo, TypeOK, InFlight
  <2>13. ASSUME NEW r \in Requests, Publish(r) PROVE TypeOK'
    BY <2>13, LiveType DEF Publish, GoTo, TypeOK, Ended
  <2>14. ASSUME NEW r \in Requests, Render(r) PROVE TypeOK'
    <3>1. content[file].text \in Texts /\ outcome[r] \in Configs
      BY DEF TypeOK, Contents
    <3>2. PICK d \in Rendered(Base(content[file].text), outcome[r]) :
            draft' = [draft EXCEPT ![r] = d]
      BY <2>14 DEF Render
    <3>3. d \in Texts
      BY <3>1, RenderedWhole
    <3>4. QED
      BY <2>14, <3>2, <3>3 DEF Render, GoTo, TypeOK, InFlight
  <2>15. CASE UNCHANGED vars
    BY <2>15 DEF vars, TypeOK
  <2>16. QED
    BY <2>1, <2>2, <2>3, <2>4, <2>5, <2>6, <2>7, <2>8, <2>9, <2>10, <2>11, <2>12, <2>13,
       <2>14, <2>15 DEF Next, Proceed
<1>3. QED
  BY <1>1, <1>2, PTL DEF Spec

-----------------------------------------------------------------------------
(* Saves.                                                                  *)

(* The operator's own edits are whole files.                               *)
EditsWhole == Torn \notin EditTexts

(* Steps that touch no file and no handler.                                *)
LEMMA SaveInvKept ==
  ASSUME SaveInv, UNCHANGED <<up, memory, live, phase, outcome, draft, handle, disk>>
  PROVE  SaveInv'
  BY DEF SaveInv, OneInFlight, DownMeansIdle, FileUntorn, LiveIsCurrent, Merged, Fresh,
         OwnTemp, Author, Committed, disk

(* With one save at a time, the temporary file is never the one in place,  *)
(* it is the handler's own while it fills, and the file in place loads and *)
(* is of the request that replaced it last.                                *)
LEMMA SaveInvInductive ==
  ASSUME Serial, EditsWhole, TypeOK, SaveInv, [Next]_vars
  PROVE  SaveInv'
<1> USE SettingsAssumption DEF SettingsAssumption
<1> USE DEF process, disk
<1>a. \A r \in Requests : phase[r] \in InFlight =>
        /\ up
        /\ \A s \in Requests \ {r} : phase[s] \notin InFlight
  BY DEF SaveInv, OneInFlight, DownMeansIdle
<1>1. CASE Stop
  <2>1. \A r \in Requests : phase'[r] \notin InFlight /\ phase'[r] \in {phase[r], "lost"}
    BY <1>1 DEF Stop, InFlight, TypeOK
  <2>2. ~up' /\ UNCHANGED <<memory, live, outcome, draft, handle, disk>>
    BY <1>1 DEF Stop
  <2>3. OneInFlight' /\ DownMeansIdle' /\ temp' # file' /\ FileUntorn' /\ LiveIsCurrent'
    BY <2>1, <2>2 DEF SaveInv, OneInFlight, DownMeansIdle, FileUntorn, LiveIsCurrent
  <2>4. ASSUME NEW s \in Requests
        PROVE  Merged(s)' /\ Fresh(s)' /\ OwnTemp(s)' /\ Author(s)' /\ Committed(s)'
    BY <2>1, <2>2 DEF SaveInv, Merged, Fresh, OwnTemp, Author, Committed, InFlight
  <2>5. QED
    BY <2>3, <2>4 DEF SaveInv
<1>2. CASE Start
  <2>1. \A r \in Requests : phase[r] \notin InFlight
    BY <1>2 DEF Start, SaveInv, DownMeansIdle
  <2>2. up' /\ UNCHANGED <<phase, outcome, draft, handle, disk>>
    BY <1>2 DEF Start
  <2>3. live' = LiveOf(memory')
    BY <1>2 DEF Start
  <2>4. OneInFlight' /\ DownMeansIdle' /\ temp' # file' /\ FileUntorn' /\ LiveIsCurrent'
    BY <2>1, <2>2, <2>3 DEF SaveInv, OneInFlight, DownMeansIdle, FileUntorn, LiveIsCurrent
  <2>5. ASSUME NEW s \in Requests
        PROVE  Merged(s)' /\ Fresh(s)' /\ OwnTemp(s)' /\ Author(s)' /\ Committed(s)'
    BY <2>1, <2>2 DEF SaveInv, Merged, Fresh, OwnTemp, Author, Committed, InFlight
  <2>6. QED
    BY <2>4, <2>5 DEF SaveInv
<1>3. ASSUME NEW text \in EditTexts, HandEdit(text) PROVE SaveInv'
  <2>1. /\ content'[file] = [text |-> text, by |-> Operator]
        /\ \A i \in Inodes \ {file} : content'[i] = content[i]
    BY <1>3 DEF HandEdit, TypeOK
  <2>2. UNCHANGED <<up, memory, live, phase, outcome, draft, handle, file, temp>>
    BY <1>3 DEF HandEdit
  <2>3. OneInFlight' /\ DownMeansIdle' /\ temp' # file' /\ FileUntorn' /\ LiveIsCurrent'
    BY <2>1, <2>2 DEF SaveInv, OneInFlight, DownMeansIdle, FileUntorn, LiveIsCurrent,
                      EditsWhole
  <2>4. ASSUME NEW s \in Requests
        PROVE  Merged(s)' /\ Fresh(s)' /\ OwnTemp(s)' /\ Author(s)' /\ Committed(s)'
    <3>1. Merged(s)' /\ Fresh(s)' /\ Committed(s)'
      BY <2>2 DEF SaveInv, Merged, Fresh, Committed
    <3>2. OwnTemp(s)'
      BY <2>1, <2>2 DEF SaveInv, OwnTemp, TypeOK
    <3>3. Author(s)'
      BY <2>1, <2>2 DEF SaveInv, Author
    <3>4. QED
      BY <3>1, <3>2, <3>3
  <2>5. QED
    BY <2>3, <2>4 DEF SaveInv
<1>4. CASE Adopt
  BY <1>4, SaveInvKept DEF Adopt
<1>5. ASSUME NEW r \in Requests, Blocked(r) PROVE SaveInv'
  <2>1. /\ phase' = [phase EXCEPT ![r] = "refused"] /\ phase[r] = "new"
        /\ UNCHANGED <<up, memory, live, outcome, draft, handle, disk>>
    BY <1>5 DEF Blocked, GoTo
  <2>2. OneInFlight' /\ DownMeansIdle' /\ temp' # file' /\ FileUntorn' /\ LiveIsCurrent'
    BY <2>1 DEF SaveInv, OneInFlight, DownMeansIdle, FileUntorn, LiveIsCurrent, InFlight,
                TypeOK
  <2>3. ASSUME NEW s \in Requests
        PROVE  Merged(s)' /\ Fresh(s)' /\ OwnTemp(s)' /\ Author(s)' /\ Committed(s)'
    BY <2>1 DEF SaveInv, Merged, Fresh, OwnTemp, Author, Committed, InFlight, TypeOK
  <2>4. QED
    BY <2>2, <2>3 DEF SaveInv
<1>6. ASSUME NEW r \in Requests, ApplyPatch(r) PROVE SaveInv'
  <2>1. /\ phase[r] = "new" /\ up /\ \A s \in Requests : phase[s] \notin InFlight
        /\ UNCHANGED <<up, memory, live, draft, handle, disk>>
    BY <1>6 DEF ApplyPatch, Busy
  <2>2. CASE /\ phase' = [phase EXCEPT ![r] = "merged"]
             /\ outcome' = [outcome EXCEPT ![r] = Patched(memory, PatchOf[r])]
             /\ Patched(memory, PatchOf[r]) \in Legal
    <3>1. OneInFlight' /\ DownMeansIdle' /\ temp' # file' /\ FileUntorn' /\ LiveIsCurrent'
      BY <2>1, <2>2 DEF SaveInv, OneInFlight, DownMeansIdle, FileUntorn, LiveIsCurrent,
                        InFlight, TypeOK
    <3>2. ASSUME NEW s \in Requests
          PROVE  Merged(s)' /\ Fresh(s)' /\ OwnTemp(s)' /\ Author(s)' /\ Committed(s)'
      BY <2>1, <2>2 DEF SaveInv, Merged, Fresh, OwnTemp, Author, Committed, InFlight, TypeOK
    <3>3. QED
      BY <3>1, <3>2 DEF SaveInv
  <2>3. CASE phase' = [phase EXCEPT ![r] = "refused"] /\ outcome' = outcome
    <3>1. OneInFlight' /\ DownMeansIdle' /\ temp' # file' /\ FileUntorn' /\ LiveIsCurrent'
      BY <2>1, <2>3 DEF SaveInv, OneInFlight, DownMeansIdle, FileUntorn, LiveIsCurrent,
                        InFlight, TypeOK
    <3>2. ASSUME NEW s \in Requests
          PROVE  Merged(s)' /\ Fresh(s)' /\ OwnTemp(s)' /\ Author(s)' /\ Committed(s)'
      BY <2>1, <2>3 DEF SaveInv, Merged, Fresh, OwnTemp, Author, Committed, InFlight, TypeOK
    <3>3. QED
      BY <3>1, <3>2 DEF SaveInv
  <2>4. QED
    BY <1>6, <2>2, <2>3 DEF ApplyPatch, GoTo, Validate
<1>7. ASSUME NEW r \in Requests, CreateTemp(r) PROVE SaveInv'
  <2>1. up /\ \A s \in Requests \ {r} : phase[s] \notin InFlight
    BY <1>7, <1>a DEF CreateTemp, InFlight
  <2>2. /\ phase[r] = "rendered" /\ phase' = [phase EXCEPT ![r] = "created"]
        /\ UNCHANGED <<up, memory, live, outcome, draft, file>>
        /\ handle' = [handle EXCEPT ![r] = temp']
        /\ temp' = IF temp = NoFile THEN r ELSE temp
    BY <1>7 DEF CreateTemp, GoTo
  <2>3. temp' \in Inodes /\ temp' # file
    BY <2>2 DEF SaveInv, Fresh, TypeOK, Inodes
  <2>4. /\ content'[temp'].text = Empty
        /\ content'[file] = content[file]
    BY <1>7, <2>2, <2>3 DEF CreateTemp, TypeOK
  <2>8. OneInFlight' /\ DownMeansIdle' /\ temp' # file' /\ FileUntorn' /\ LiveIsCurrent'
    BY <2>1, <2>2, <2>3, <2>4 DEF SaveInv, OneInFlight, DownMeansIdle, FileUntorn, LiveIsCurrent,
                InFlight, TypeOK
  <2>9. ASSUME NEW s \in Requests
        PROVE  Merged(s)' /\ Fresh(s)' /\ OwnTemp(s)' /\ Author(s)' /\ Committed(s)'
    BY <2>1, <2>2, <2>3, <2>4 DEF SaveInv, Merged, Fresh, OwnTemp, Author, Committed, InFlight, TypeOK, Inodes
  <2>10. QED
    BY <2>8, <2>9 DEF SaveInv
<1>8. ASSUME NEW r \in Requests, WriteTemp(r) PROVE SaveInv'
  <2>1. up /\ \A s \in Requests \ {r} : phase[s] \notin InFlight
    BY <1>8, <1>a DEF WriteTemp, InFlight
  <2>2. /\ phase[r] = "created" /\ phase' = [phase EXCEPT ![r] = "written"]
        /\ UNCHANGED <<up, memory, live, outcome, draft, handle, file, temp>>
    BY <1>8 DEF WriteTemp, GoTo
  <2>3. temp \in Inodes /\ handle[r] = temp /\ content[temp].text = Empty
    BY <2>2 DEF SaveInv, OwnTemp, TypeOK
  <2>4. content' = [content EXCEPT ![temp] = [text |-> draft[r], by |-> r]]
    BY <1>8, <2>3 DEF WriteTemp
  <2>5. /\ content'[temp] = [text |-> draft[r], by |-> r]
        /\ content'[file] = content[file]
    BY <2>3, <2>4 DEF SaveInv, TypeOK
  <2>8. OneInFlight' /\ DownMeansIdle' /\ temp' # file' /\ FileUntorn' /\ LiveIsCurrent'
    BY <2>1, <2>2, <2>3, <2>5 DEF SaveInv, OneInFlight, DownMeansIdle, FileUntorn, LiveIsCurrent,
                InFlight, TypeOK
  <2>9. ASSUME NEW s \in Requests
        PROVE  Merged(s)' /\ Fresh(s)' /\ OwnTemp(s)' /\ Author(s)' /\ Committed(s)'
    BY <2>1, <2>2, <2>3, <2>5 DEF SaveInv, Merged, Fresh, OwnTemp, Author, Committed, InFlight, TypeOK, Inodes
  <2>10. QED
    BY <2>8, <2>9 DEF SaveInv
<1>9. ASSUME NEW r \in Requests, WriteFails(r) PROVE SaveInv'
  <2>1. up /\ \A s \in Requests \ {r} : phase[s] \notin InFlight
    BY <1>9, <1>a DEF WriteFails, InFlight
  <2>2. /\ phase[r] \in {"rendered", "created"} /\ phase' = [phase EXCEPT ![r] = "failed"]
        /\ UNCHANGED <<up, memory, live, outcome, draft, handle, file, temp>>
    BY <1>9 DEF WriteFails, GoTo
  <2>3. \/ content' = content
        \/ /\ phase[r] = "created"
           /\ content' = [content EXCEPT ![handle[r]] = [text |-> Torn, by |-> r]]
    BY <1>9 DEF WriteFails
  <2>4. phase[r] = "created" => handle[r] # file
    BY DEF SaveInv, OwnTemp
  <2>5. content'[file] = content[file]
    BY <2>3, <2>4 DEF TypeOK
  <2>8. OneInFlight' /\ DownMeansIdle' /\ temp' # file' /\ FileUntorn' /\ LiveIsCurrent'
    BY <2>1, <2>2, <2>5 DEF SaveInv, OneInFlight, DownMeansIdle, FileUntorn, LiveIsCurrent,
                InFlight, TypeOK
  <2>9. ASSUME NEW s \in Requests
        PROVE  Merged(s)' /\ Fresh(s)' /\ OwnTemp(s)' /\ Author(s)' /\ Committed(s)'
    BY <2>1, <2>2, <2>5 DEF SaveInv, Merged, Fresh, OwnTemp, Author, Committed, InFlight, TypeOK, Inodes
  <2>10. QED
    BY <2>8, <2>9 DEF SaveInv
<1>10. ASSUME NEW r \in Requests, Rename(r) PROVE SaveInv'
  <2>1. up /\ \A s \in Requests \ {r} : phase[s] \notin InFlight
    BY <1>10, <1>a DEF Rename, InFlight
  <2>2. /\ phase[r] = "written" /\ phase' = [phase EXCEPT ![r] = "replaced"]
        /\ UNCHANGED <<up, memory, live, outcome, draft, handle, content>>
        /\ file' = temp /\ temp' = NoFile
    BY <1>10 DEF Rename, GoTo
  <2>3. /\ temp \in Inodes /\ content[temp] = [text |-> draft[r], by |-> r]
        /\ draft[r] # Torn
    BY <2>2 DEF SaveInv, OwnTemp, Merged, TypeOK, InFlight
  <2>4. content[temp].text # Torn
    BY <2>3
  <2>8. OneInFlight' /\ DownMeansIdle' /\ temp' # file' /\ FileUntorn' /\ LiveIsCurrent'
    <3>1. OneInFlight' /\ DownMeansIdle'
      BY <2>1, <2>2 DEF OneInFlight, DownMeansIdle, InFlight, TypeOK
    <3>2. temp' # file' /\ FileUntorn'
      BY <2>2, <2>3, <2>4 DEF SaveInv, FileUntorn, TypeOK, Inodes
    <3>3. LiveIsCurrent'
      BY <2>1, <2>2 DEF SaveInv, LiveIsCurrent, TypeOK, InFlight
    <3>4. QED
      BY <3>1, <3>2, <3>3
  <2>9. ASSUME NEW s \in Requests
        PROVE  Merged(s)' /\ Fresh(s)' /\ OwnTemp(s)' /\ Author(s)' /\ Committed(s)'
    <3>1. Merged(s)' /\ Committed(s)'
      BY <2>1, <2>2 DEF SaveInv, Merged, Committed, InFlight, TypeOK
    <3>2. Fresh(s)'
      BY <2>1, <2>2 DEF SaveInv, Fresh, InFlight, TypeOK
    <3>3. OwnTemp(s)'
      BY <2>1, <2>2 DEF OwnTemp, InFlight, TypeOK
    <3>4. Author(s)'
      <4>1. content'[file'] = [text |-> draft[r], by |-> r]
        BY <2>2, <2>3
      <4>2. CASE s = r
        BY <2>2, <4>1, <4>2 DEF Author, TypeOK
      <4>3. CASE s # r
        BY <2>1, <2>2, <4>1, <4>3 DEF Author, TypeOK, InFlight
      <4>4. QED
        BY <4>2, <4>3
    <3>5. QED
      BY <3>1, <3>2, <3>3, <3>4
  <2>10. QED
    BY <2>8, <2>9 DEF SaveInv
<1>11. ASSUME NEW r \in Requests, RenameFails(r) PROVE SaveInv'
  <2>1. up /\ \A s \in Requests \ {r} : phase[s] \notin InFlight
    BY <1>11, <1>a DEF RenameFails, InFlight
  <2>2. /\ phase[r] = "written" /\ phase' = [phase EXCEPT ![r] = "failed"]
        /\ UNCHANGED <<up, memory, live, outcome, draft, handle, file, content>>
        /\ temp' = NoFile
    BY <1>11 DEF RenameFails, GoTo
  <2>8. OneInFlight' /\ DownMeansIdle' /\ temp' # file' /\ FileUntorn' /\ LiveIsCurrent'
    <3>1. OneInFlight' /\ DownMeansIdle'
      BY <2>1, <2>2 DEF OneInFlight, DownMeansIdle, InFlight, TypeOK
    <3>2. temp' # file' /\ FileUntorn'
      BY <2>2 DEF SaveInv, FileUntorn, TypeOK, Inodes
    <3>3. LiveIsCurrent'
      BY <2>1, <2>2 DEF SaveInv, LiveIsCurrent, TypeOK, InFlight
    <3>4. QED
      BY <3>1, <3>2, <3>3
  <2>9. ASSUME NEW s \in Requests
        PROVE  Merged(s)' /\ Fresh(s)' /\ OwnTemp(s)' /\ Author(s)' /\ Committed(s)'
    BY <2>1, <2>2, ZenonT(30) DEF SaveInv, Merged, Fresh, OwnTemp, Author, Committed, InFlight, TypeOK, Inodes
  <2>10. QED
    BY <2>8, <2>9 DEF SaveInv
<1>12. ASSUME NEW r \in Requests, Commit(r) PROVE SaveInv'
  <2>1. up /\ \A s \in Requests \ {r} : phase[s] \notin InFlight
    BY <1>12, <1>a DEF Commit, InFlight
  <2>2. /\ phase[r] = "replaced" /\ phase' = [phase EXCEPT ![r] = "committed"]
        /\ UNCHANGED <<up, live, outcome, draft, handle, file, temp, content>>
        /\ memory' = outcome[r]
    BY <1>12 DEF Commit, GoTo
  <2>8. OneInFlight' /\ DownMeansIdle' /\ temp' # file' /\ FileUntorn' /\ LiveIsCurrent'
    BY <2>1, <2>2 DEF SaveInv, OneInFlight, DownMeansIdle, FileUntorn, LiveIsCurrent,
                InFlight, TypeOK
  <2>9. ASSUME NEW s \in Requests
        PROVE  Merged(s)' /\ Fresh(s)' /\ OwnTemp(s)' /\ Author(s)' /\ Committed(s)'
    BY <2>1, <2>2, ZenonT(30) DEF SaveInv, Merged, Fresh, OwnTemp, Author, Committed, InFlight, TypeOK, Inodes
  <2>10. QED
    BY <2>8, <2>9 DEF SaveInv
<1>13. ASSUME NEW r \in Requests, Publish(r) PROVE SaveInv'
  <2>1. up /\ \A s \in Requests \ {r} : phase[s] \notin InFlight
    BY <1>13, <1>a DEF Publish, InFlight
  <2>2. /\ phase[r] = "committed" /\ phase' = [phase EXCEPT ![r] = "accepted"]
        /\ UNCHANGED <<up, memory, outcome, draft, handle, file, temp, content>>
        /\ live' = LiveOf(outcome[r])
    BY <1>13 DEF Publish, GoTo
  <2>3. live' = LiveOf(memory)
    BY <2>2 DEF SaveInv, Committed
  <2>8. OneInFlight' /\ DownMeansIdle' /\ temp' # file' /\ FileUntorn' /\ LiveIsCurrent'
    BY <2>1, <2>2, <2>3 DEF SaveInv, OneInFlight, DownMeansIdle, FileUntorn, LiveIsCurrent,
                InFlight, TypeOK
  <2>9. ASSUME NEW s \in Requests
        PROVE  Merged(s)' /\ Fresh(s)' /\ OwnTemp(s)' /\ Author(s)' /\ Committed(s)'
    BY <2>1, <2>2, <2>3 DEF SaveInv, Merged, Fresh, OwnTemp, Author, Committed, InFlight, TypeOK, Inodes
  <2>10. QED
    BY <2>8, <2>9 DEF SaveInv
<1>14. ASSUME NEW r \in Requests, Render(r) PROVE SaveInv'
  <2>1. up /\ \A s \in Requests \ {r} : phase[s] \notin InFlight
    BY <1>14, <1>a DEF Render, InFlight
  <2>2. /\ phase[r] = "merged" /\ phase' = [phase EXCEPT ![r] = "rendered"]
        /\ UNCHANGED <<up, memory, live, outcome, handle, file, temp, content>>
    BY <1>14 DEF Render, GoTo
  <2>3. PICK d : d # Torn /\ draft' = [draft EXCEPT ![r] = d]
    <3>1. content[file].text \in Texts /\ outcome[r] \in Configs
      BY DEF TypeOK, Contents
    <3>2. PICK d \in Rendered(Base(content[file].text), outcome[r]) :
            draft' = [draft EXCEPT ![r] = d]
      BY <1>14 DEF Render
    <3>3. QED
      BY <3>1, <3>2, RenderedWhole
  <2>8. OneInFlight' /\ DownMeansIdle' /\ temp' # file' /\ FileUntorn' /\ LiveIsCurrent'
    BY <2>1, <2>2 DEF SaveInv, OneInFlight, DownMeansIdle, FileUntorn, LiveIsCurrent,
                InFlight, TypeOK
  <2>9. ASSUME NEW s \in Requests
        PROVE  Merged(s)' /\ Fresh(s)' /\ OwnTemp(s)' /\ Author(s)' /\ Committed(s)'
    BY <2>1, <2>2, <2>3 DEF SaveInv, Merged, Fresh, OwnTemp, Author, Committed, InFlight, TypeOK
  <2>10. QED
    BY <2>8, <2>9 DEF SaveInv
<1>15. CASE UNCHANGED vars
  BY <1>15, SaveInvKept DEF vars
<1>16. ASSUME NEW r \in Requests, Proceed(r) PROVE SaveInv'
  BY <1>7, <1>8, <1>9, <1>10, <1>11, <1>12, <1>13, <1>14, <1>16 DEF Proceed
<1>17. QED
  BY <1>1, <1>2, <1>3, <1>4, <1>5, <1>6, <1>15, <1>16 DEF Next

(* A process just started has saved nothing.                                *)
LEMMA SaveInvInitially == Init => SaveInv
<1> SUFFICES ASSUME Init PROVE SaveInv
  OBVIOUS
<1> USE SettingsAssumption DEF SettingsAssumption
<1>1. \A r \in Requests : phase[r] = "new"
  BY DEF Init
<1>2. content[file] = [text |-> Template, by |-> Original]
  BY DEF Init, Inodes
<1>3. temp = NoFile /\ file = Original /\ up /\ memory = Defaults /\ live = LiveOf(memory)
  BY DEF Init
<1>4. OneInFlight /\ DownMeansIdle /\ temp # file /\ LiveIsCurrent
  BY <1>1, <1>3 DEF OneInFlight, DownMeansIdle, LiveIsCurrent, InFlight
<1>5. FileUntorn
  BY <1>2, PlainTexts DEF FileUntorn
<1>6. ASSUME NEW r \in Requests
      PROVE  Merged(r) /\ Fresh(r) /\ OwnTemp(r) /\ Author(r) /\ Committed(r)
  BY <1>1, <1>2, <1>3 DEF Merged, Fresh, OwnTemp, Author, Committed, InFlight
<1>7. QED
  BY <1>4, <1>5, <1>6 DEF SaveInv

(* One save at a time, whatever the operator writes by hand and in         *)
(* whatever layout: the file in place is never torn, and never one that a  *)
(* request which was answered with an error wrote.                         *)
THEOREM FileStaysWhole ==
  ASSUME Serial, EditsWhole
  PROVE  Spec => []FileIsWhole
<1>1. TypeOK /\ SaveInv /\ [Next]_vars => SaveInv'
  BY SaveInvInductive
<1>2. SaveInv => FileIsWhole
  BY DEF SaveInv, FileUntorn, Author, FileIsWhole
<1>3. QED
  BY <1>1, <1>2, SaveInvInitially, TypeCorrect, PTL DEF Spec

(* One save at a time: no save takes another setting back.                 *)
THEOREM NoLostUpdate ==
  ASSUME Serial, EditsWhole
  PROVE  Spec => SavesNothingElse
<1> DEFINE A == up /\ up' =>
       \A k \in Keys : memory'[k] # memory[k] =>
         \E r \in Requests : phase'[r] # phase[r] /\ k \in DOMAIN PatchOf[r]
<1>1. TypeOK /\ SaveInv /\ [Next]_vars => SaveInv'
  BY SaveInvInductive
<1>2. TypeOK /\ SaveInv /\ [Next]_vars => [A]_memory
  <2> SUFFICES ASSUME TypeOK, SaveInv, [Next]_vars, memory' # memory, up, up',
                      NEW k \in Keys, memory'[k] # memory[k]
               PROVE  \E r \in Requests : phase'[r] # phase[r] /\ k \in DOMAIN PatchOf[r]
    OBVIOUS
  <2>1. PICK r \in Requests : Commit(r)
    BY DEF Next, Proceed, Stop, Start, HandEdit, Adopt, Blocked, ApplyPatch, Render, CreateTemp,
           WriteTemp, WriteFails, Rename, RenameFails, Publish, vars, process, disk
  <2>2. phase[r] = "replaced" /\ phase'[r] = "committed" /\ memory' = outcome[r]
    BY <2>1 DEF Commit, GoTo, TypeOK
  <2>3. memory' = Patched(memory, PatchOf[r])
    BY <2>2 DEF SaveInv, Merged
  <2>4. k \in DOMAIN PatchOf[r]
    BY <2>3 DEF Patched
  <2>5. QED
    BY <2>2, <2>4
<1>3. QED
  BY <1>1, <1>2, SaveInvInitially, TypeCorrect, PTL DEF Spec, SavesNothingElse

-----------------------------------------------------------------------------
(* Texts in the template's layout.                                         *)

(* A text the next start accepts, whose keys a save finds in their lines.  *)
Known(text) == Loadable(text) /\ text.layout = "template"

(* The operator's own edits are such texts.                                *)
EditsKnown == \A text \in EditTexts : Known(text)

Drafted(c) == [layout |-> "template", says |-> c]

(* The file says what the process holds, or is about to, until somebody    *)
(* edits it.                                                               *)
FileIsHeld ==
  content[file].by # Operator =>
    /\ up /\ (\A r \in Requests : phase[r] # "replaced") => Saved = memory
    /\ \A r \in Requests : phase[r] = "replaced" => Saved = outcome[r]

DraftSays(r) == phase[r] \in {"rendered", "created", "written"} => draft[r] = Drafted(outcome[r])

KnownInv == Known(content[file].text) /\ FileIsHeld /\ \A r \in Requests : DraftSays(r)

(* A text that names every key reads as what it says.                      *)
LEMMA DraftedReads ==
  ASSUME NEW c \in Configs
  PROVE  Parses(Drafted(c)) /\ Parsed(Drafted(c)) = c
<1>1. Drafted(c) \in [layout : Layouts, says : UNION {[D -> Values] : D \in SUBSET Keys}]
  BY DEF Configs, Drafted, Layouts
<1>2. Parses(Drafted(c))
  BY <1>1, SettingsAssumption DEF SettingsAssumption, Parses
<1>3. c = [k \in Keys |-> c[k]] /\ DOMAIN c = Keys
  BY DEF Configs
<1>4. QED
  BY <1>2, <1>3 DEF Parsed, Drafted

LEMMA KnownIsWhole == EditsKnown => EditsWhole
  BY DEF EditsKnown, EditsWhole, Known, Loadable, Parses

(* The text of a handler about to rename reads as its configuration.       *)
LEMMA RenamedReads ==
  ASSUME TypeOK, SaveInv, KnownInv, NEW r \in Requests, Rename(r)
  PROVE  /\ Known(content'[file'].text)
         /\ Saved' = outcome[r]
         /\ outcome[r] = Patched(memory, PatchOf[r])
         /\ outcome[r] \in Legal
<1>1. phase[r] = "written" /\ file' = temp /\ content' = content
  BY DEF Rename
<1>2. OwnTemp(r) /\ Merged(r) /\ DraftSays(r)
  BY DEF SaveInv, KnownInv
<1>3. content[temp].text = draft[r]
  BY <1>1, <1>2 DEF OwnTemp
<1>4. draft[r] = Drafted(outcome[r])
  BY <1>1, <1>2 DEF DraftSays
<1>5. outcome[r] = Patched(memory, PatchOf[r]) /\ outcome[r] \in Legal
  BY <1>1, <1>2, Zenon DEF Merged, InFlight
<1>6. outcome[r] \in Configs
  BY DEF TypeOK
<1>7. content'[file'].text = Drafted(outcome[r])
  BY <1>1, <1>3, <1>4
<1>8. Parses(Drafted(outcome[r])) /\ Parsed(Drafted(outcome[r])) = outcome[r]
  BY <1>6, DraftedReads
<1>9. Drafted(outcome[r]).layout = "template"
  BY DEF Drafted
<1>10. QED
  BY <1>5, <1>7, <1>8, <1>9 DEF Known, Loadable, Saved

(* The file keeps the template's layout, a draft says its configuration,   *)
(* and the file what the process holds.                                    *)
LEMMA KnownInvInductive ==
  ASSUME Serial, EditsKnown, TypeOK, SaveInv, KnownInv, [Next]_vars
  PROVE  KnownInv'
<1> USE DEF process, disk
<1>1. CASE Stop
  <2>1. ~up' /\ UNCHANGED <<outcome, draft, disk>>
    BY <1>1 DEF Stop
  <2>2. \A r \in Requests : phase'[r] \notin InFlight
    BY <1>1 DEF Stop, InFlight, TypeOK
  <2>3. QED
    BY <2>1, <2>2 DEF KnownInv, FileIsHeld, DraftSays, InFlight
<1>2. CASE Start
  <2>1. memory' = Saved' /\ UNCHANGED <<phase, outcome, draft, disk>>
    BY <1>2 DEF Start, Saved
  <2>2. \A r \in Requests : phase'[r] \notin InFlight
    BY <1>2 DEF Start, SaveInv, DownMeansIdle
  <2>3. QED
    BY <2>1, <2>2 DEF KnownInv, FileIsHeld, DraftSays, InFlight
<1>3. ASSUME NEW text \in EditTexts, HandEdit(text) PROVE KnownInv'
  <2>1. /\ content'[file'] = [text |-> text, by |-> Operator]
        /\ UNCHANGED <<phase, outcome, draft>>
    BY <1>3 DEF HandEdit, TypeOK
  <2>2. QED
    BY <2>1 DEF KnownInv, FileIsHeld, DraftSays, EditsKnown
<1>4. CASE Adopt
  BY <1>4 DEF Adopt, KnownInv, FileIsHeld, DraftSays, Saved
<1>5. ASSUME NEW r \in Requests, Blocked(r) \/ ApplyPatch(r) PROVE KnownInv'
  <2>1. UNCHANGED <<up, memory, draft, disk>> /\ Saved' = Saved /\ phase[r] = "new"
    BY <1>5 DEF Blocked, ApplyPatch, Saved
  <2>2. /\ \A q \in Requests \ {r} : phase'[q] = phase[q] /\ outcome'[q] = outcome[q]
        /\ phase'[r] \in {"refused", "merged"}
    BY <1>5 DEF Blocked, ApplyPatch, GoTo, TypeOK
  <2>3. FileIsHeld'
    BY <2>1, <2>2 DEF KnownInv, FileIsHeld
  <2>4. ASSUME NEW q \in Requests PROVE DraftSays(q)'
    BY <2>1, <2>2 DEF KnownInv, DraftSays
  <2>5. QED
    BY <2>1, <2>3, <2>4 DEF KnownInv
<1>6. ASSUME NEW r \in Requests, Render(r) PROVE KnownInv'
  <2>1. /\ UNCHANGED <<up, memory, outcome, disk>> /\ Saved' = Saved
        /\ phase[r] = "merged" /\ phase' = [phase EXCEPT ![r] = "rendered"]
    BY <1>6 DEF Render, GoTo, Saved
  <2>2. Base(content[file].text).layout = "template"
    BY DEF KnownInv, Known, Loadable, Base
  <2>3. draft' = [draft EXCEPT ![r] = Drafted(outcome[r])]
    BY <1>6, <2>2 DEF Render, Rendered, Drafted
  <2>4. FileIsHeld'
    BY <2>1 DEF KnownInv, FileIsHeld, TypeOK
  <2>5. ASSUME NEW q \in Requests PROVE DraftSays(q)'
    BY <2>1, <2>3 DEF KnownInv, DraftSays, TypeOK
  <2>6. QED
    BY <2>1, <2>4, <2>5 DEF KnownInv
<1>7. ASSUME NEW r \in Requests, CreateTemp(r) \/ WriteTemp(r) \/ WriteFails(r) PROVE KnownInv'
  <2>1. UNCHANGED <<up, memory, outcome, draft, file>>
    BY <1>7 DEF CreateTemp, WriteTemp, WriteFails
  <2>2. content'[file] = content[file]
    <3>1. CreateTemp(r) => content'[file] = content[file]
      BY DEF CreateTemp, SaveInv, Fresh, TypeOK
    <3>2. phase[r] = "created" => handle[r] # file
      BY DEF SaveInv, OwnTemp
    <3>3. WriteTemp(r) \/ WriteFails(r) => content'[file] = content[file]
      BY <3>2 DEF WriteTemp, WriteFails, TypeOK
    <3>4. QED
      BY <1>7, <3>1, <3>3
  <2>3. Saved' = Saved
    BY <2>1, <2>2 DEF Saved
  <2>4. /\ phase[r] \in {"rendered", "created"}
        /\ phase'[r] \in {"created", "written", "failed"}
        /\ \A q \in Requests \ {r} : phase'[q] = phase[q]
    BY <1>7 DEF CreateTemp, WriteTemp, WriteFails, GoTo, TypeOK
  <2>5. FileIsHeld'
    BY <2>1, <2>2, <2>3, <2>4 DEF KnownInv, FileIsHeld
  <2>6. ASSUME NEW q \in Requests PROVE DraftSays(q)'
    BY <2>1, <2>4 DEF KnownInv, DraftSays
  <2>7. QED
    BY <2>1, <2>2, <2>5, <2>6 DEF KnownInv
<1>8. ASSUME NEW r \in Requests, Rename(r) PROVE KnownInv'
  <2>1. /\ phase[r] = "written" /\ phase' = [phase EXCEPT ![r] = "replaced"]
        /\ UNCHANGED <<up, memory, outcome, draft>>
    BY <1>8 DEF Rename, GoTo
  <2>2. Known(content'[file'].text) /\ Saved' = outcome[r]
    BY <1>8, RenamedReads
  <2>3. \A q \in Requests : phase'[q] = "replaced" => q = r
    BY <2>1 DEF SaveInv, OneInFlight, InFlight, TypeOK
  <2>4. FileIsHeld'
    BY <2>1, <2>2, <2>3 DEF FileIsHeld, TypeOK
  <2>5. ASSUME NEW q \in Requests PROVE DraftSays(q)'
    BY <2>1 DEF KnownInv, DraftSays, TypeOK
  <2>6. QED
    BY <2>2, <2>4, <2>5 DEF KnownInv
<1>9. ASSUME NEW r \in Requests, RenameFails(r) \/ Commit(r) \/ Publish(r) PROVE KnownInv'
  <2>1. UNCHANGED <<up, outcome, draft, file, content>> /\ Saved' = Saved
    BY <1>9 DEF RenameFails, Commit, Publish, Saved
  <2>2. /\ phase'[r] \in {"failed", "committed", "accepted"}
        /\ \A q \in Requests \ {r} : phase'[q] = phase[q]
    BY <1>9 DEF RenameFails, Commit, Publish, GoTo, TypeOK
  <2>3. \/ phase[r] = "replaced" /\ memory' = outcome[r]
        \/ phase[r] # "replaced" /\ memory' = memory
    BY <1>9 DEF RenameFails, Commit, Publish
  <2>4. FileIsHeld'
    BY <2>1, <2>2, <2>3 DEF KnownInv, FileIsHeld
  <2>5. ASSUME NEW q \in Requests PROVE DraftSays(q)'
    BY <2>1, <2>2 DEF KnownInv, DraftSays
  <2>6. QED
    BY <2>1, <2>4, <2>5 DEF KnownInv
<1>10. CASE UNCHANGED vars
  BY <1>10 DEF vars, KnownInv, FileIsHeld, DraftSays, Saved
<1>11. QED
  BY <1>1, <1>2, <1>3, <1>4, <1>5, <1>6, <1>7, <1>8, <1>9, <1>10 DEF Next, Proceed

(* The process starts on the template, and holds what it says.             *)
LEMMA KnownInvInitially == Init => KnownInv
<1> SUFFICES ASSUME Init PROVE KnownInv
  OBVIOUS
<1>1. content[file] = [text |-> Template, by |-> Original] /\ memory = Defaults
  BY DEF Init, Inodes
<1>2. Template = Drafted(Defaults)
  BY DEF Template, Drafted
<1>3. Defaults \in Configs /\ Defaults \in Legal
  BY SettingsAssumption DEF SettingsAssumption
<1>4. Parses(Template) /\ Saved = Defaults
  BY <1>1, <1>2, <1>3, DraftedReads DEF Saved
<1>5. Template.layout = "template"
  BY DEF Template
<1>6. Known(content[file].text)
  BY <1>1, <1>3, <1>4, <1>5 DEF Known, Loadable, Saved
<1>7. \A r \in Requests : phase[r] = "new"
  BY DEF Init
<1>8. QED
  BY <1>1, <1>4, <1>6, <1>7 DEF KnownInv, FileIsHeld, DraftSays

(* Both invariants.                                                        *)
LEMMA SavesKnown ==
  ASSUME Serial, EditsKnown
  PROVE  Spec => [](TypeOK /\ SaveInv /\ KnownInv)
<1>1. EditsWhole
  BY KnownIsWhole
<1>2. TypeOK /\ SaveInv /\ [Next]_vars => SaveInv'
  BY <1>1, SaveInvInductive
<1>3. TypeOK /\ SaveInv /\ KnownInv /\ [Next]_vars => KnownInv'
  BY KnownInvInductive
<1>4. QED
  BY <1>2, <1>3, SaveInvInitially, KnownInvInitially, TypeCorrect, PTL DEF Spec

(* One save at a time, edits by hand in the template's layout: whatever    *)
(* fails or is interrupted where, the file in place is one the next start  *)
(* accepts, and never one that a request which was answered with an error  *)
(* wrote.                                                                  *)
THEOREM FileSound ==
  ASSUME Serial, EditsKnown
  PROVE  Spec => []FileIsSound
<1>1. SaveInv /\ KnownInv => FileIsSound
  BY DEF SaveInv, FileUntorn, Author, KnownInv, Known, FileIsSound, FileAlwaysLoads, FileIsWhole
<1>2. QED
  BY <1>1, SavesKnown, PTL

(* One save at a time, edits by hand in the template's layout: the file,   *)
(* the memory and the settings offered to the poll loop agree whenever no  *)
(* handler is between two of its steps.                                    *)
THEOREM FileMemoryLiveAgree ==
  ASSUME Serial, EditsKnown
  PROVE  Spec => []CopiesAgree
<1>1. SaveInv /\ KnownInv => CopiesAgree
  <2>1. SaveInv => LiveIsCurrent
    BY DEF SaveInv
  <2>2. ~Busy => \A r \in Requests : phase[r] # "replaced"
    BY DEF Busy, InFlight
  <2>3. KnownInv => FileIsMemory
    BY <2>2 DEF KnownInv, FileIsHeld, FileIsMemory
  <2>4. QED
    BY <2>1, <2>3 DEF CopiesAgree
<1>2. QED
  BY <1>1, SavesKnown, PTL

(* One save at a time, edits by hand in the template's layout: replacing   *)
(* the file changes the keys the request names; of the others only those   *)
(* the operator edited, which go back to what the process runs with.       *)
THEOREM RewritesOnlyItsKeys ==
  ASSUME Serial, EditsKnown
  PROVE  Spec => RewritesNothingElse
<1> DEFINE A == \E r \in Requests :
       /\ phase'[r] = "replaced"
       /\ \A k \in Keys \ DOMAIN PatchOf[r] :
            \/ Saved'[k] = Saved[k]
            \/ content[file].by = Operator /\ Saved'[k] = memory[k]
<1>1. TypeOK /\ SaveInv /\ KnownInv /\ [Next]_vars => [A]_file
  <2> SUFFICES ASSUME TypeOK, SaveInv, KnownInv, [Next]_vars, file' # file
               PROVE  A
    BY Zenon
  <2>1. PICK r \in Requests : Rename(r)
    BY DEF Next, Proceed, Stop, Start, HandEdit, Adopt, Blocked, ApplyPatch, Render, CreateTemp,
           WriteTemp, WriteFails, RenameFails, Commit, Publish, vars, process, disk
  <2>2. phase[r] = "written" /\ phase'[r] = "replaced"
    BY <2>1 DEF Rename, GoTo, TypeOK
  <2>3. Saved' = Patched(memory, PatchOf[r])
    BY <2>1, RenamedReads
  <2>4. \A q \in Requests : phase[q] # "replaced"
    BY <2>2 DEF SaveInv, OneInFlight, InFlight
  <2>5. up
    BY <2>2 DEF SaveInv, DownMeansIdle, InFlight
  <2>6. content[file].by # Operator => Saved = memory
    BY <2>4, <2>5 DEF KnownInv, FileIsHeld
  <2>7. \A k \in Keys \ DOMAIN PatchOf[r] : Saved'[k] = memory[k]
    BY <2>3 DEF Patched
  <2>8. QED
    BY <2>2, <2>6, <2>7, Zenon
<1>2. QED
  BY <1>1, SavesKnown, PTL DEF Spec, RewritesNothingElse

-----------------------------------------------------------------------------
(* The save in one step.                                                   *)

(* What AtomicSave's other variables stand for.                            *)
Running ==
  IF ~up THEN {}
  ELSE IF HalfDone = {} THEN {[config |-> memory, live |-> live]}
  ELSE {[config |-> outcome[r], live |-> LiveOf(outcome[r])] : r \in HalfDone}
AnswerOf(p) ==
  IF p \in {"new", "merged", "rendered", "created", "written"} THEN "none"
  ELSE IF p \in {"replaced", "committed", "accepted"} THEN "saved"
  ELSE IF p \in {"refused", "failed"} THEN "refused"
  ELSE "lost"
Answered == [r \in Requests |-> AnswerOf(phase[r])]

(* A save half done is the only one, and its process runs.                 *)
LEMMA OneHalfDone ==
  ASSUME SaveInv, NEW r \in Requests, phase[r] \in InFlight
  PROVE  /\ up
         /\ HalfDone = IF phase[r] \in {"replaced", "committed"} THEN {r} ELSE {}
  BY DEF SaveInv, OneInFlight, DownMeansIdle, HalfDone, InFlight

(* A step of a handler to a phase with the same answer.                    *)
LEMMA AnswerStays ==
  ASSUME TypeOK, NEW r \in Requests, NEW p, phase' = [phase EXCEPT ![r] = p],
         AnswerOf(p) = AnswerOf(phase[r])
  PROVE  Answered' = Answered
<1>1. \A q \in Requests : AnswerOf(phase'[q]) = AnswerOf(phase[q])
  BY DEF TypeOK
<1>2. QED
  BY <1>1, Zenon DEF Answered

(* A step of a handler to a phase with another one.                        *)
LEMMA AnswerGiven ==
  ASSUME TypeOK, NEW r \in Requests, NEW p, phase' = [phase EXCEPT ![r] = p]
  PROVE  /\ Answered' = [Answered EXCEPT ![r] = AnswerOf(p)]
         /\ Answered[r] = AnswerOf(phase[r])
<1>1. \A q \in Requests : AnswerOf(phase'[q]) = IF q = r THEN AnswerOf(p) ELSE AnswerOf(phase[q])
  BY DEF TypeOK
<1> HIDE DEF AnswerOf
<1>2. QED
  BY <1>1 DEF Answered

(* A step that leaves the file's text, the answers and the process alone.  *)
LEMMA AtomicStutter ==
  ASSUME Saved' = Saved, Running' = Running, Answered' = Answered
  PROVE  UNCHANGED Whole!vars
  BY DEF Whole!vars, Saved, Running, Answered, AnswerOf

(* A handler gives up: nothing but its answer changes.                     *)
LEMMA AtomicRefuse ==
  ASSUME TypeOK, NEW r \in Requests, NEW p \in {"refused", "failed"},
         phase' = [phase EXCEPT ![r] = p],
         phase[r] \in {"new", "merged", "rendered", "created", "written"},
         up, UNCHANGED <<up, memory, live, outcome>>, Saved' = Saved
  PROVE  Whole!Refuse(r)
<1>1. Answered' = [Answered EXCEPT ![r] = "refused"] /\ Answered[r] = "none"
  BY AnswerGiven DEF AnswerOf
<1>2. HalfDone' = HalfDone
  BY DEF HalfDone, TypeOK
<1>3. Running' = Running /\ Running # {}
  BY <1>2 DEF Running
<1>4. QED
  BY <1>1, <1>3 DEF Whole!Refuse, Saved, Running, Answered, AnswerOf

(* Every step of the handlers and of the process is a step of an atomic    *)
(* save, or none.                                                          *)
LEMMA AtomicStep ==
  ASSUME Serial, EditsKnown, TypeOK, SaveInv, SaveInv', KnownInv, [Next]_vars
  PROVE  [Whole!Next]_(Whole!vars)
<1> USE SettingsAssumption DEF SettingsAssumption
<1> USE DEF process, disk
<1>1. CASE Stop
  <2>1. ~up' /\ up /\ Running' = {} /\ Saved' = Saved
    BY <1>1 DEF Stop, Running, Saved
  <2>2. Running # {}
    BY <2>1 DEF Running
  <2> DEFINE R == {r \in Requests : phase[r] \in InFlight \cup {"lost"}}
  <2>3. ASSUME NEW r \in Requests
        PROVE  /\ AnswerOf(phase'[r]) = IF r \in R THEN "lost" ELSE AnswerOf(phase[r])
               /\ r \in R => AnswerOf(phase[r]) # "refused"
    BY <1>1 DEF Stop, InFlight, AnswerOf, TypeOK
  <2>4. R \in SUBSET {r \in Requests : Answered[r] # "refused"}
    BY <2>3 DEF Answered
  <2>5. Answered' = [r \in Requests |-> IF r \in R THEN "lost" ELSE Answered[r]]
    <3> HIDE DEF R, AnswerOf
    <3>1. QED
      BY <2>3 DEF Answered
  <2> HIDE DEF R
  <2>6. Whole!Stop
    BY <2>1, <2>2, <2>4, <2>5 DEF Whole!Stop, Saved, Running, Answered, AnswerOf
  <2>7. QED
    BY <2>6 DEF Whole!Next
<1>2. CASE Start
  <2>1. ~up /\ up' /\ Saved' = Saved /\ Answered' = Answered
    BY <1>2 DEF Start, Saved, Answered
  <2>2. HalfDone' = {}
    BY <1>2 DEF Start, SaveInv, DownMeansIdle, HalfDone, InFlight
  <2>3. Running = {} /\ Running' = {Whole!Process(Saved)}
    BY <1>2, <2>1, <2>2 DEF Start, Running, Saved, Whole!Process, Whole!LiveOf, LiveOf
  <2>4. Whole!Start
    BY <2>1, <2>3 DEF Whole!Start, Saved, Running, Answered, AnswerOf
  <2>5. QED
    BY <2>4 DEF Whole!Next
<1>3. ASSUME NEW text \in EditTexts, HandEdit(text) PROVE [Whole!Next]_(Whole!vars)
  <2>1. Saved' = Parsed(text) /\ Saved' \in Legal
    BY <1>3 DEF HandEdit, Saved, EditsKnown, Known, Loadable, TypeOK
  <2>2. Running' = Running /\ Answered' = Answered
    BY <1>3 DEF HandEdit, Running, HalfDone, Answered
  <2>3. Whole!Edit
    BY <2>1, <2>2 DEF Whole!Edit, Saved, Running, Answered, AnswerOf
  <2>4. QED
    BY <2>3 DEF Whole!Next
<1>4. CASE Adopt
  <2>1. Saved' = Saved /\ Running' = Running /\ Answered' = Answered
    BY <1>4 DEF Adopt, Saved, Running, HalfDone, Answered
  <2>2. QED
    BY <2>1, AtomicStutter
<1>5. ASSUME NEW r \in Requests, Blocked(r) PROVE [Whole!Next]_(Whole!vars)
  <2>1. Saved' = Saved
    BY <1>5 DEF Blocked, Saved
  <2>2. Whole!Refuse(r)
    BY <1>5, <2>1, AtomicRefuse DEF Blocked, GoTo
  <2>3. QED
    BY <2>2 DEF Whole!Next
<1>6. ASSUME NEW r \in Requests, ApplyPatch(r) PROVE [Whole!Next]_(Whole!vars)
  <2>1. Saved' = Saved /\ up /\ phase[r] = "new" /\ UNCHANGED <<up, memory, live>>
    BY <1>6 DEF ApplyPatch, Saved
  <2>2. CASE GoTo(r, "merged")
    <3>1. Answered' = Answered
      BY <2>1, <2>2, AnswerStays DEF GoTo, AnswerOf
    <3>2. HalfDone = {} /\ HalfDone' = {}
      BY <1>6, <2>2 DEF ApplyPatch, Busy, HalfDone, InFlight, GoTo, TypeOK
    <3>3. Running' = Running
      BY <2>1, <3>2 DEF Running
    <3>4. QED
      BY <2>1, <3>1, <3>3, AtomicStutter
  <2>3. CASE GoTo(r, "refused") /\ outcome' = outcome
    <3>1. Whole!Refuse(r)
      BY <2>1, <2>3, AtomicRefuse DEF GoTo
    <3>2. QED
      BY <3>1 DEF Whole!Next
  <2>4. QED
    BY <1>6, <2>2, <2>3 DEF ApplyPatch
<1>7. ASSUME NEW r \in Requests, CreateTemp(r) PROVE [Whole!Next]_(Whole!vars)
  <2>1. phase[r] = "rendered" /\ phase' = [phase EXCEPT ![r] = "created"]
        /\ UNCHANGED <<up, memory, live, outcome, file>>
    BY <1>7 DEF CreateTemp, GoTo
  <2>2. temp' # file
    BY <1>7 DEF CreateTemp, SaveInv
  <2>3. content'[file] = content[file]
    BY <1>7, <2>2 DEF CreateTemp, TypeOK
  <2>4. Saved' = Saved
    BY <2>1, <2>3 DEF Saved
  <2>5. HalfDone' = HalfDone
    BY <2>1 DEF HalfDone, TypeOK
  <2>6. Running' = Running
    BY <2>1, <2>5 DEF Running
  <2>7. Answered' = Answered
    BY <2>1, AnswerStays DEF AnswerOf
  <2>8. QED
    BY <2>4, <2>6, <2>7, AtomicStutter
<1>8. ASSUME NEW r \in Requests, WriteTemp(r) PROVE [Whole!Next]_(Whole!vars)
  <2>1. phase[r] = "created" /\ phase' = [phase EXCEPT ![r] = "written"]
        /\ UNCHANGED <<up, memory, live, outcome, file>>
    BY <1>8 DEF WriteTemp, GoTo
  <2>2. handle[r] # file
    BY <2>1 DEF SaveInv, OwnTemp
  <2>3. content'[file] = content[file]
    BY <1>8, <2>2 DEF WriteTemp, TypeOK
  <2>4. Saved' = Saved
    BY <2>1, <2>3 DEF Saved
  <2>5. HalfDone' = HalfDone
    BY <2>1 DEF HalfDone, TypeOK
  <2>6. Running' = Running
    BY <2>1, <2>5 DEF Running
  <2>7. Answered' = Answered
    BY <2>1, AnswerStays DEF AnswerOf
  <2>8. QED
    BY <2>4, <2>6, <2>7, AtomicStutter
<1>9. ASSUME NEW r \in Requests, WriteFails(r) PROVE [Whole!Next]_(Whole!vars)
  <2>1. phase[r] \in {"rendered", "created"} /\ phase' = [phase EXCEPT ![r] = "failed"]
        /\ UNCHANGED <<up, memory, live, outcome, file>>
    BY <1>9 DEF WriteFails, GoTo
  <2>2. phase[r] = "created" => handle[r] # file
    BY DEF SaveInv, OwnTemp
  <2>3. content'[file] = content[file]
    BY <1>9, <2>2 DEF WriteFails, TypeOK
  <2>4. Saved' = Saved
    BY <2>1, <2>3 DEF Saved
  <2>5. up
    BY <2>1, OneHalfDone DEF InFlight
  <2>6. Whole!Refuse(r)
    BY <2>1, <2>4, <2>5, AtomicRefuse
  <2>7. QED
    BY <2>6 DEF Whole!Next
<1>10. ASSUME NEW r \in Requests, Rename(r) PROVE [Whole!Next]_(Whole!vars)
  <2>1. phase[r] = "written" /\ phase' = [phase EXCEPT ![r] = "replaced"]
        /\ UNCHANGED <<up, memory, live, outcome, content>> /\ file' = temp
    BY <1>10 DEF Rename, GoTo
  <2>2. up /\ HalfDone = {}
    BY <2>1, OneHalfDone DEF InFlight
  <2>3. HalfDone' = {r}
    BY <2>1, <2>2 DEF HalfDone, TypeOK
  <2>4. Saved' = outcome[r] /\ outcome[r] = Patched(memory, PatchOf[r]) /\ outcome[r] \in Legal
    BY <1>10, RenamedReads
  <2>6. /\ Running = {[config |-> memory, live |-> live]}
        /\ Running' = {Whole!Process(outcome[r])}
    BY <2>1, <2>2, <2>3 DEF Running, Whole!Process, Whole!LiveOf, LiveOf
  <2>7. Answered' = [Answered EXCEPT ![r] = "saved"] /\ Answered[r] = "none"
    BY <2>1, AnswerGiven DEF AnswerOf
  <2>8. outcome[r] = Whole!Patched([config |-> memory, live |-> live].config, PatchOf[r])
    BY <2>4 DEF Patched, Whole!Patched
  <2>9. Whole!Save(r)
    <3>1. /\ [config |-> memory, live |-> live] \in Running
          /\ Saved' = Whole!Patched([config |-> memory, live |-> live].config, PatchOf[r])
          /\ Running' = {Whole!Process(Whole!Patched([config |-> memory, live |-> live].config, PatchOf[r]))}
          /\ Whole!Patched([config |-> memory, live |-> live].config, PatchOf[r]) \in Legal
      BY <2>4, <2>6, <2>8
    <3>2. \E p \in Running :
            LET c == Whole!Patched(p.config, PatchOf[r]) IN
            c \in Legal /\ Saved' = c /\ Running' = {Whole!Process(c)}
      <4> HIDE DEF Saved, Running
      <4>1. QED
        BY <3>1, Zenon
    <3>3. QED
      BY <2>7, <3>2, Zenon DEF Whole!Save, Saved, Running, Answered, AnswerOf
  <2>10. QED
    BY <2>9 DEF Whole!Next
<1>11. ASSUME NEW r \in Requests, RenameFails(r) PROVE [Whole!Next]_(Whole!vars)
  <2>1. phase[r] = "written" /\ phase' = [phase EXCEPT ![r] = "failed"]
        /\ UNCHANGED <<up, memory, live, outcome>> /\ Saved' = Saved
    BY <1>11 DEF RenameFails, GoTo, Saved
  <2>2. up
    BY <2>1, OneHalfDone DEF InFlight
  <2>3. Whole!Refuse(r)
    BY <2>1, <2>2, AtomicRefuse
  <2>4. QED
    BY <2>3 DEF Whole!Next
<1>12. ASSUME NEW r \in Requests, Commit(r) PROVE [Whole!Next]_(Whole!vars)
  <2>1. phase[r] = "replaced" /\ phase' = [phase EXCEPT ![r] = "committed"]
        /\ UNCHANGED <<up, outcome>> /\ Saved' = Saved
    BY <1>12 DEF Commit, GoTo, Saved
  <2>2. HalfDone' = HalfDone /\ HalfDone # {}
    BY <2>1 DEF HalfDone, TypeOK
  <2>3. Running' = Running
    BY <2>1, <2>2 DEF Running
  <2>4. Answered' = Answered
    BY <2>1, AnswerStays DEF AnswerOf
  <2>5. QED
    BY <2>1, <2>3, <2>4, AtomicStutter
<1>13. ASSUME NEW r \in Requests, Publish(r) PROVE [Whole!Next]_(Whole!vars)
  <2>1. phase[r] = "committed" /\ phase' = [phase EXCEPT ![r] = "accepted"]
        /\ UNCHANGED <<up, memory, outcome>> /\ Saved' = Saved /\ live' = LiveOf(outcome[r])
    BY <1>13 DEF Publish, GoTo, Saved
  <2>2. up /\ HalfDone = {r} /\ memory = outcome[r]
    BY <2>1, OneHalfDone DEF InFlight, SaveInv, Committed
  <2>3. HalfDone' = {}
    BY <2>1, <2>2 DEF HalfDone, TypeOK
  <2>4. Running' = Running
    BY <2>1, <2>2, <2>3 DEF Running
  <2>5. Answered' = Answered
    BY <2>1, AnswerStays DEF AnswerOf
  <2>6. QED
    BY <2>1, <2>4, <2>5, AtomicStutter
<1>14. ASSUME NEW r \in Requests, Render(r) PROVE [Whole!Next]_(Whole!vars)
  <2>1. /\ phase[r] = "merged" /\ phase' = [phase EXCEPT ![r] = "rendered"]
        /\ UNCHANGED <<up, memory, live, outcome>> /\ Saved' = Saved
    BY <1>14 DEF Render, GoTo, Saved
  <2>2. HalfDone' = HalfDone
    BY <2>1 DEF HalfDone, TypeOK
  <2>3. Running' = Running
    BY <2>1, <2>2 DEF Running
  <2>4. Answered' = Answered
    BY <2>1, AnswerStays DEF AnswerOf
  <2>5. QED
    BY <2>1, <2>3, <2>4, AtomicStutter
<1>15. CASE UNCHANGED vars
  <2>1. Saved' = Saved /\ Running' = Running /\ Answered' = Answered
    BY <1>15 DEF vars, Saved, Running, HalfDone, Answered
  <2>2. QED
    BY <2>1, AtomicStutter
<1>16. QED
  BY <1>1, <1>2, <1>3, <1>4, <1>5, <1>6, <1>7, <1>8, <1>9, <1>10, <1>11, <1>12, <1>13, <1>14, <1>15
     DEF Next, Proceed

(* One save at a time, edits by hand in the template's layout: the steps   *)
(* of a save, with whatever fails in any of them and wherever the process  *)
(* stops, are the one step of AtomicSave: the file, the configuration in   *)
(* memory and the settings offered to the poll loop are replaced together  *)
(* or not at all.                                                          *)
THEOREM ImplementsAtomicSave ==
  ASSUME Serial, EditsKnown
  PROVE  Spec => SaveIsAtomic
<1>1. Init => Whole!Init
  <2> SUFFICES ASSUME Init PROVE Whole!Init
    OBVIOUS
  <2> USE SettingsAssumption DEF SettingsAssumption
  <2>1. \A r \in Requests : phase[r] = "new"
    BY DEF Init
  <2>2. Saved = Defaults
    <3>1. Template = Drafted(Defaults) /\ content[file].text = Template
      BY DEF Init, Inodes, Template, Drafted
    <3>2. QED
      BY <3>1, DraftedReads DEF Saved
  <2>3. HalfDone = {}
    BY <2>1 DEF HalfDone
  <2>4. Running = {Whole!Process(Defaults)}
    BY <2>3 DEF Init, Running, Whole!Process, Whole!LiveOf, LiveOf
  <2>5. Answered = [r \in Requests |-> "none"]
    BY <2>1 DEF Answered, AnswerOf
  <2>6. QED
    BY <2>2, <2>4, <2>5 DEF Whole!Init, Saved, Running, Answered, AnswerOf
<1>2. TypeOK /\ SaveInv /\ SaveInv' /\ KnownInv /\ [Next]_vars => [Whole!Next]_(Whole!vars)
  BY AtomicStep
<1>3. QED
  BY <1>1, <1>2, SavesKnown, PTL DEF Spec, SaveIsAtomic, Whole!Spec
=============================================================================
