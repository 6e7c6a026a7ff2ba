-------------------------- MODULE LandingPage_proofs --------------------------
(***************************************************************************)
(* Proofs about the script of the landing page, for any settings, values,  *)
(* files, endpoints and bounds.                                            *)
(*                                                                         *)
(* The settings form: Receive remembers the controls as they are when the  *)
(* answer is in, not what was sent.  That this is right but for what was   *)
(* touched meanwhile rests on FormIsPatched: while a save is under way, a  *)
(* control that was left alone still shows what the save sends of it.      *)
(*                                                                         *)
(* The log console: the entries and the rows are cut each for themselves,  *)
(* and agree since a row is appended for each entry that matches           *)
(* (MatchingAppend), and dropping the first entry drops no row but the     *)
(* first (MatchingSound).  Both are shown by counting entries.             *)
(*                                                                         *)
(* The JSON inspector: a tree that is kept has the keys of the answer it   *)
(* was built from, each answer after the other.                            *)
(***************************************************************************)
EXTENDS MCLandingPage, FiniteSetTheorems, WellFoundedInduction, SequenceTheorems, TLAPS

(***************************************************************************)
(* The settings form.                                                      *)
(***************************************************************************)
USE DEF vars, form, history

(* What was not edited is as the page was last told.                       *)
Unedited == \A k \in Keys \ edited : control[k] = baseline[k]

(* A save sends only what was edited.                                      *)
SendsEdited == DOMAIN request.patch \subseteq edited

(* While a save is under way, a control left alone shows what is sent of   *)
(* it, or what was confirmed before.                                       *)
FormIsPatched ==
  Saving =>
    \A k \in Keys \ touched :
      control[k] = IF k \in DOMAIN request.patch THEN request.patch[k] ELSE baseline[k]

(* The server has what was confirmed, and once it has answered a save,     *)
(* what that one sent.                                                     *)
ServerIsPatched ==
  \A k \in Keys \ (touched \cup unsure) :
    server[k] = IF request.at = "saved" /\ k \in DOMAIN request.patch
                THEN request.patch[k] ELSE baseline[k]

(* After a lost answer nothing is claimed of what was sent.                *)
LostIsUnsure == request.at = "lost" => DOMAIN request.patch \subseteq unsure

Inv == TypeOK /\ Unedited /\ SendsEdited /\ FormIsPatched /\ ServerIsPatched /\ LostIsUnsure

-----------------------------------------------------------------------------
(* What a save sends of a form whose texts all parse is a patch: a value   *)
(* for each control that differs from what was confirmed.                  *)
LEMMA PatchIsPatch ==
  ASSUME control \in [Keys -> Shown], \A k \in Keys : control[k] # Bad
  PROVE  Patch \in Patches /\ DOMAIN Patch = Changed
<1>1. Changed \in SUBSET Keys
  BY DEF Changed
<1>2. Patch \in [Changed -> Values]
  BY <1>1 DEF Patch, Shown
<1>3. [Changed -> Values] \in {[K -> Values] : K \in SUBSET Keys}
  BY <1>1
<1>. QED
  BY <1>2, <1>3 DEF Patches, Patch

LEMMA IdleIsRequest ==
  /\ Idle \in [at : {"none", "sent", "saved", "refused", "lost"}, patch : Patches]
  /\ Idle.at = "none" /\ DOMAIN Idle.patch = {}
<1>1. NoPatch \in [{} -> Values] /\ DOMAIN NoPatch = {}
  BY DEF NoPatch
<1>2. [{} -> Values] \in {[K -> Values] : K \in SUBSET Keys}
  OBVIOUS
<1>3. NoPatch \in Patches
  BY <1>1, <1>2 DEF Patches
<1>. QED
  BY <1>1, <1>3 DEF Idle

LEMMA PatchOfKeys ==
  ASSUME NEW p \in Patches
  PROVE  DOMAIN p \subseteq Keys /\ \A k \in DOMAIN p : p[k] \in Values
BY DEF Patches

LEMMA InitInv == Init => Inv
<1>. SUFFICES ASSUME Init PROVE Inv
  OBVIOUS
<1>1. TypeOK
  <2>1. request \in [at : {"none", "sent", "saved", "refused", "lost"}, patch : Patches]
    BY IdleIsRequest DEF Init
  <2>2. {control, baseline} \subseteq [Keys -> Shown]
    BY DEF Init, Shown
  <2>3. probes \in 0..MaxProbes /\ saves \in 0..MaxSaves
    BY SettingsPageAssumption DEF Init, SettingsPageAssumption
  <2>. QED
    BY <2>1, <2>2, <2>3 DEF Init, TypeOK
<1>. QED
  BY <1>1, IdleIsRequest
     DEF Init, Inv, Unedited, SendsEdited, FormIsPatched, ServerIsPatched, LostIsUnsure, Saving

-----------------------------------------------------------------------------
(* Types and frames, one lemma per kind of step.                           *)

LEMMA LoadedInv ==
  ASSUME Inv, Loaded, UNCHANGED <<server, process, saves>>
  PROVE  Inv'
<1>1. request' = Idle /\ control' = server /\ baseline' = server /\ server' = server
  BY DEF Loaded
<1>2. TypeOK'
  <2>1. (request \in [at : {"none", "sent", "saved", "refused", "lost"}, patch : Patches])'
    BY <1>1, IdleIsRequest
  <2>2. {control', baseline'} \subseteq [Keys -> Shown]
    BY <1>1 DEF Inv, TypeOK, Shown
  <2>3. (probes \in 0..MaxProbes)'
    BY SettingsPageAssumption DEF Loaded, SettingsPageAssumption
  <2>. QED
    BY <2>1, <2>2, <2>3 DEF Inv, TypeOK, Loaded
<1>3. Unedited' /\ SendsEdited' /\ FormIsPatched'
  BY <1>1, IdleIsRequest DEF Unedited, SendsEdited, FormIsPatched, Saving
<1>4. ServerIsPatched' /\ LostIsUnsure'
  BY <1>1, IdleIsRequest DEF ServerIsPatched, LostIsUnsure
<1>. QED
  BY <1>2, <1>3, <1>4 DEF Inv

LEMMA EditInv ==
  ASSUME Inv, NEW k \in Keys, NEW v \in Shown, Edit(k, v)
  PROVE  Inv'
<1>. USE DEF Inv, Edit, Touch
<1>1. TypeOK'
  <2>1. control' \in [Keys -> Shown]
    BY DEF TypeOK
  <2>. QED
    BY <2>1 DEF TypeOK, Saving
<1>2. \A j \in Keys \ {k} : control'[j] = control[j]
  BY DEF TypeOK
<1>3. Unedited' /\ SendsEdited'
  BY <1>2 DEF Unedited, SendsEdited
<1>4. FormIsPatched'
  BY <1>2 DEF FormIsPatched, Saving
<1>5. ServerIsPatched' /\ LostIsUnsure'
  BY DEF ServerIsPatched, LostIsUnsure
<1>. QED
  BY <1>1, <1>3, <1>4, <1>5

LEMMA ClickResetInv == Inv /\ ClickReset => Inv'
<1>. SUFFICES ASSUME Inv, ClickReset PROVE Inv'
  OBVIOUS
<1>. USE DEF Inv, ClickReset, Touch
<1>1. TypeOK'
  BY DEF TypeOK, Saving
<1>2. Unedited' /\ SendsEdited'
  BY DEF Unedited, SendsEdited
<1>3. FormIsPatched'
  BY DEF FormIsPatched, Saving
<1>4. ServerIsPatched' /\ LostIsUnsure'
  BY DEF ServerIsPatched, LostIsUnsure
<1>. QED
  BY <1>1, <1>2, <1>3, <1>4

LEMMA ChangeElsewhereInv ==
  ASSUME Inv, NEW k \in Keys, NEW v \in Values, ChangeElsewhere(k, v)
  PROVE  Inv'
<1>. USE DEF Inv, ChangeElsewhere
<1>1. TypeOK'
  BY SettingsPageAssumption DEF TypeOK, SettingsPageAssumption
<1>2. Unedited' /\ SendsEdited' /\ FormIsPatched' /\ LostIsUnsure'
  BY DEF Unedited, SendsEdited, FormIsPatched, LostIsUnsure, Saving
<1>3. ServerIsPatched'
  BY DEF ServerIsPatched, TypeOK
<1>. QED
  BY <1>1, <1>2, <1>3

(* A save starts: the form and its patch agree from the first.             *)
LEMMA ClickSaveInv == Inv /\ ClickSave => Inv'
<1>. SUFFICES ASSUME Inv, ClickSave PROVE Inv'
  OBVIOUS
<1>1. CASE UNCHANGED <<request, saves>>
  BY <1>1
     DEF Inv, ClickSave, TypeOK, Unedited, SendsEdited, FormIsPatched, ServerIsPatched, LostIsUnsure, Saving
<1>2. CASE /\ ~ \E k \in Keys : control[k] = Bad
           /\ saves < MaxSaves
           /\ saves' = saves + 1
           /\ request' = [at |-> "sent", patch |-> Patch]
  <2>. USE DEF Inv, ClickSave
  <2>1. Patch \in Patches /\ DOMAIN Patch = Changed
    BY <1>2, PatchIsPatch DEF TypeOK
  <2>2. request'.at = "sent" /\ request'.patch = Patch
    BY <1>2
  <2>3. TypeOK'
    <3>1. (request \in [at : {"none", "sent", "saved", "refused", "lost"}, patch : Patches])'
      BY <1>2, <2>1
    <3>2. (saves \in 0..MaxSaves)'
      BY <1>2, SettingsPageAssumption DEF TypeOK, SettingsPageAssumption
    <3>. QED
      BY <3>1, <3>2 DEF TypeOK
  <2>4. Unedited' /\ LostIsUnsure' /\ SendsEdited'
    BY <2>1, <2>2 DEF Unedited, LostIsUnsure, SendsEdited, Changed
  <2>5. FormIsPatched'
    BY <2>1, <2>2 DEF FormIsPatched, Changed, Patch
  <2>6. ServerIsPatched'
    BY <2>2 DEF ServerIsPatched, Saving
  <2>. QED
    BY <2>3, <2>4, <2>5, <2>6
<1>. QED
  BY <1>1, <1>2 DEF ClickSave

LEMMA AnswerInv == Inv /\ Answer => Inv'
<1>. SUFFICES ASSUME Inv, Answer PROVE Inv'
  OBVIOUS
<1>. USE DEF Inv, Answer
<1>1. /\ request.patch \in Patches
      /\ request'.patch = request.patch
      /\ request'.at \in {"saved", "refused"}
      /\ request' \in [at : {"none", "sent", "saved", "refused", "lost"}, patch : Patches]
  BY DEF TypeOK
<1>2. DOMAIN request.patch \subseteq Keys /\ \A k \in DOMAIN request.patch : request.patch[k] \in Values
  BY <1>1, PatchOfKeys
<1>3. TypeOK'
  BY <1>1, <1>2 DEF TypeOK
<1>4. Unedited' /\ SendsEdited' /\ LostIsUnsure'
  BY <1>1 DEF Unedited, SendsEdited, LostIsUnsure
<1>5. FormIsPatched'
  BY <1>1 DEF FormIsPatched, Saving
<1>6. ServerIsPatched'
  BY <1>1, <1>2 DEF ServerIsPatched, TypeOK
<1>. QED
  BY <1>3, <1>4, <1>5, <1>6

LEMMA LoseInv == Inv /\ Lose => Inv'
<1>. SUFFICES ASSUME Inv, Lose PROVE Inv'
  OBVIOUS
<1>. USE DEF Inv, Lose
<1>1. /\ request.patch \in Patches
      /\ request'.patch = request.patch
      /\ request'.at = "lost"
      /\ request' \in [at : {"none", "sent", "saved", "refused", "lost"}, patch : Patches]
  BY DEF TypeOK
<1>2. TypeOK'
  BY <1>1, PatchOfKeys DEF TypeOK
<1>3. Unedited' /\ SendsEdited' /\ LostIsUnsure'
  BY <1>1 DEF Unedited, SendsEdited, LostIsUnsure
<1>4. FormIsPatched'
  BY <1>1 DEF FormIsPatched, Saving
<1>5. ServerIsPatched'
  BY <1>1 DEF ServerIsPatched
<1>. QED
  BY <1>2, <1>3, <1>4, <1>5

(* The answer is in: what is remembered was sent, or left alone, or is     *)
(* among what was touched meanwhile.                                       *)
LEMMA ReceiveInv == Inv /\ Receive => Inv'
<1>. SUFFICES ASSUME Inv, Receive PROVE Inv'
  OBVIOUS
<1>. USE DEF Inv, Receive
<1>1. request' = Idle /\ request'.at = "none" /\ DOMAIN request'.patch = {}
  BY IdleIsRequest
<1>2. TypeOK'
  BY <1>1, IdleIsRequest DEF TypeOK
<1>3. SendsEdited' /\ FormIsPatched' /\ LostIsUnsure'
  BY <1>1 DEF SendsEdited, FormIsPatched, LostIsUnsure, Saving
<1>4. Unedited'
  BY DEF Unedited
<1>5. ServerIsPatched'
  <2>1. CASE request.at = "saved"
    BY <1>1, <2>1 DEF ServerIsPatched, FormIsPatched, Saving, IsConfirmed
  <2>2. CASE request.at # "saved"
    BY <1>1, <2>2 DEF ServerIsPatched, IsConfirmed
  <2>. QED
    BY <2>1, <2>2
<1>. QED
  BY <1>2, <1>3, <1>4, <1>5

(* The steps of a restart, but for the reload, leave the form alone.       *)
LEMMA RestartInv ==
  ASSUME Inv,
         ClickRestart \/ RestartStarts \/ RestartFails \/ Stop \/ Return \/ ProbeFails \/ ProbeRefused
  PROVE  Inv'
<1>1. UNCHANGED <<server, control, baseline, request, saves, edited, touched, unsure>>
  BY DEF ClickRestart, RestartStarts, RestartFails, Stop, Return, ProbeFails, ProbeRefused
<1>2. TypeOK'
  <2>1. /\ process' \in {"up", "stopping", "down", "other"}
        /\ restart' \in {"none", "asked", "waiting"}
        /\ reverted' \in BOOLEAN
    BY DEF Inv, TypeOK, ClickRestart, RestartStarts, RestartFails, Stop, Return, ProbeFails, ProbeRefused, GivesUp
  <2>2. CASE UNCHANGED probes
    BY <1>1, <2>1, <2>2 DEF Inv, TypeOK
  <2>3. CASE ProbeFails \/ ProbeRefused
    <3>1. probes' \in 0..MaxProbes
      BY <2>3, SettingsPageAssumption
         DEF Inv, TypeOK, ProbeFails, ProbeRefused, GivesUp, SettingsPageAssumption
    <3>. QED
      BY <1>1, <2>1, <3>1 DEF Inv, TypeOK
  <2>. QED
    BY <2>2, <2>3 DEF ClickRestart, RestartStarts, RestartFails, Stop, Return
<1>. QED
  BY <1>1, <1>2
     DEF Inv, Unedited, SendsEdited, FormIsPatched, ServerIsPatched, LostIsUnsure, Saving

LEMMA NextInv == Inv /\ [Next]_vars => Inv'
<1>. SUFFICES ASSUME Inv, [Next]_vars PROVE Inv'
  OBVIOUS
<1>1. CASE \E k \in Keys, v \in Shown : Edit(k, v)
  BY <1>1, EditInv
<1>2. CASE \E k \in Keys, v \in Values : ChangeElsewhere(k, v)
  BY <1>2, ChangeElsewhereInv
<1>3. CASE ClickSave
  BY <1>3, ClickSaveInv
<1>4. CASE ClickReset
  BY <1>4, ClickResetInv
<1>5. CASE Answer
  BY <1>5, AnswerInv
<1>6. CASE Lose
  BY <1>6, LoseInv
<1>7. CASE Receive
  BY <1>7, ReceiveInv
<1>8. CASE ClickRestart \/ RestartStarts \/ RestartFails \/ Stop \/ Return \/ ProbeFails \/ ProbeRefused
  BY <1>8, RestartInv
<1>9. CASE ProbeAnswered
  BY <1>9, LoadedInv DEF ProbeAnswered
<1>10. CASE UNCHANGED vars
  BY <1>10
     DEF Inv, TypeOK, Unedited, SendsEdited, FormIsPatched, ServerIsPatched, LostIsUnsure, Saving
<1>. QED
  BY <1>1, <1>2, <1>3, <1>4, <1>5, <1>6, <1>7, <1>8, <1>9, <1>10 DEF Next

(* The strengthening is an invariant of the form and its server.           *)
THEOREM InvHolds == Spec => []Inv
BY InitInv, NextInv, PTL DEF Spec

-----------------------------------------------------------------------------
(* The theorems.                                                           *)

(* The form, the request and the server keep to their types, whatever the  *)
(* settings and the bounds are.                                            *)
THEOREM TypeCorrect == Spec => []TypeOK
<1>1. Inv => TypeOK
  BY DEF Inv
<1>. QED
  BY <1>1, InvHolds, PTL

(* The page does not take for confirmed what the server does not have: but *)
(* for what was touched while a save was under way, changed elsewhere or   *)
(* sent in a save that got no answer, baseline is the server's settings.   *)
THEOREM ConfirmedStaysServer == Spec => []ConfirmedIsServer
<1>1. Inv => ConfirmedIsServer
  BY DEF Inv, ServerIsPatched, ConfirmedIsServer
<1>. QED
  BY <1>1, InvHolds, PTL

(* A save takes back nothing that others changed while the page was open.  *)
THEOREM OthersStayKept == Spec => OthersAreKept
<1>. DEFINE Kept == request.at = "sent" /\ request'.at = "saved" =>
                     \A k \in Keys \ edited : server'[k] = server[k]
<1>1. ASSUME Inv, Next
      PROVE  Kept
  <2>. SUFFICES ASSUME request.at = "sent", request'.at = "saved"
                PROVE  \A k \in Keys \ edited : server'[k] = server[k]
    OBVIOUS
  <2>1. CASE Answer
    BY <1>1, <2>1 DEF Answer, Inv, SendsEdited, TypeOK
  <2>2. CASE ~Answer
    <3>1. CASE \E k \in Keys, v \in Values : ChangeElsewhere(k, v)
      <4>1. request' = request
        BY <3>1 DEF ChangeElsewhere
      <4>. QED
        BY <4>1
    <3>2. CASE ~ \E k \in Keys, v \in Values : ChangeElsewhere(k, v)
      <4>1. server' = server
        BY <1>1, <2>2, <3>2
           DEF Next, Edit, ClickSave, ClickReset, Lose, Receive, ClickRestart, RestartStarts,
               RestartFails, Stop, Return, ProbeFails, ProbeRefused, ProbeAnswered
      <4>. QED
        BY <4>1
    <3>. QED
      BY <3>1, <3>2
  <2>. QED
    BY <2>1, <2>2
<1>2. Inv /\ [Next]_vars => [Kept]_vars
  BY <1>1
<1>. QED
  BY <1>2, InvHolds, PTL DEF Spec, OthersAreKept
-----------------------------------------------------------------------------
(***************************************************************************)
(* The log console.                                                        *)
(***************************************************************************)

-----------------------------------------------------------------------------
(* Counting: what holds of 0, and of n + 1 if it does of n, holds of every *)
(* number.                                                                 *)

(* A set of numbers below n has a least one: the order of finite subsets   *)
(* by inclusion is well founded, and so is that of the numbers before each.*)
LEMMA LeastBelow ==
  ASSUME NEW n \in Nat, NEW D \in SUBSET (0..n), D # {}
  PROVE  \E m \in D : \A d \in D : m <= d
  <1> DEFINE before(d) == {e \in D : e < d}
             befores == {before(d) : d \in D}
  <1>1. IsWellFoundedOn(StrictSubsetOrdering(D), FiniteSubsetsOf(D))
    BY FS_StrictSubsetOrderingWellFounded
  <1>2. FiniteSubsetsOf(D) = SUBSET D
    <2>1. IsFiniteSet(0..n)
      BY FS_Interval
    <2>2. IsFiniteSet(D)
      BY <2>1, FS_Subset
    <2> QED
      BY <2>2, FS_FiniteSubsetsOfFinite
  <1>3. befores \subseteq SUBSET D /\ befores # {}
    OBVIOUS
  <1>4. PICK s \in befores : \A u \in befores : <<u, s>> \notin StrictSubsetOrdering(D)
    <2>1. befores \subseteq FiniteSubsetsOf(D)
      BY <1>2, <1>3
    <2> HIDE DEF befores
    <2> QED
      BY <1>1, <1>3, <2>1, WFMin
  <1>5. PICK m \in D : s = before(m)
    OBVIOUS
  <1>6. ASSUME NEW d \in D, ~(m <= d)
        PROVE  FALSE
    <2>1. \A e \in D : e \in Int
      OBVIOUS
    <2>2. d < m /\ (\A e \in D : e < d => e < m) /\ ~(d < d)
      BY <1>6, <2>1
    <2>3. <<before(d), before(m)>> \in StrictSubsetOrdering(D)
      <3>1. before(d) \subseteq before(m) /\ d \in before(m) /\ d \notin before(d)
        BY <2>2
      <3> QED
        BY <3>1 DEF StrictSubsetOrdering
    <2> QED
      BY <2>3, <1>4, <1>5
  <1> QED
    BY <1>6

LEMMA Counting ==
  ASSUME NEW G, 0 \in G, \A n \in Nat : n \in G => n + 1 \in G
  PROVE  Nat \subseteq G
  <1> SUFFICES ASSUME NEW n \in Nat, n \notin G
               PROVE  FALSE
    OBVIOUS
  <1> DEFINE D == {i \in 0..n : i \notin G}
  <1>1. D \in SUBSET (0..n) /\ n \in D
    OBVIOUS
  <1>2. PICK m \in D : \A d \in D : m <= d
    <2> HIDE DEF D
    <2> QED
      BY <1>1, LeastBelow
  <1>3. m # 0 /\ m \in Nat /\ m <= n /\ m \notin G
    OBVIOUS
  <1>4. m - 1 \in G
    <2> SUFFICES ASSUME m - 1 \notin G
                 PROVE  FALSE
      OBVIOUS
    <2>1. m - 1 \in D
      BY <1>3
    <2>2. m <= m - 1
      BY <1>2, <2>1
    <2> QED
      BY <1>3, <2>2
  <1> QED
    BY <1>3, <1>4

-----------------------------------------------------------------------------
(* What the filter lets through.                                           *)

(* Matching, up to the n-th entry.                                         *)
Found(g, es, l, n) ==
  g = [i \in 0..n |-> IF i = 0 THEN <<>>
                      ELSE IF L!Matches(es[i], l) THEN Append(g[i - 1], es[i]) ELSE g[i - 1]]

(* There is one such function, over what two sequences have in common.     *)
LEMMA FoundUnique ==
  ASSUME NEW es, NEW fs, NEW l, NEW n \in Nat, NEW m \in Nat, NEW g, NEW h,
         n <= m, Found(g, es, l, n), Found(h, fs, l, m),
         \A i \in 1..n : es[i] = fs[i]
  PROVE  \A i \in 0..n : g[i] = h[i]
  <1> DEFINE G == {i \in Nat : i <= n => g[i] = h[i]}
  <1>1. 0 \in G
    BY DEF Found
  <1>2. ASSUME NEW i \in Nat, i \in G
        PROVE  i + 1 \in G
    <2> SUFFICES ASSUME i + 1 <= n
                 PROVE  g[i + 1] = h[i + 1]
      OBVIOUS
    <2>1. i + 1 \in 0..n /\ i + 1 \in 0..m /\ i + 1 # 0 /\ (i + 1) - 1 = i /\ es[i + 1] = fs[i + 1]
      OBVIOUS
    <2>2. g[i] = h[i]
      BY <1>2
    <2>3. g[i + 1] = IF L!Matches(es[i + 1], l) THEN Append(g[i], es[i + 1]) ELSE g[i]
      BY <2>1 DEF Found
    <2>4. h[i + 1] = IF L!Matches(fs[i + 1], l) THEN Append(h[i], fs[i + 1]) ELSE h[i]
      BY <2>1 DEF Found
    <2> QED
      BY <2>1, <2>2, <2>3, <2>4
  <1>3. Nat \subseteq G
    <2> HIDE DEF G
    <2> QED
      BY <1>1, <1>2, Counting
  <1> QED
    BY <1>3

(* And there is one for every length.                                      *)
LEMMA FoundExists ==
  ASSUME NEW es, NEW l, NEW n \in Nat
  PROVE  \E g : Found(g, es, l, n)
  <1> DEFINE G == {i \in Nat : \E g : Found(g, es, l, i)}
  <1>1. 0 \in G
    <2> DEFINE g == [i \in 0..0 |-> <<>>]
    <2>1. Found(g, es, l, 0)
      BY DEF Found
    <2> HIDE DEF g
    <2> QED
      BY <2>1
  <1>2. ASSUME NEW i \in Nat, i \in G
        PROVE  i + 1 \in G
    <2>1. PICK g : Found(g, es, l, i)
      BY <1>2
    <2> DEFINE h == [j \in 0..(i + 1) |->
                       IF j <= i THEN g[j]
                       ELSE IF L!Matches(es[j], l) THEN Append(g[j - 1], es[j]) ELSE g[j - 1]]
               k == [j \in 0..(i + 1) |->
                       IF j = 0 THEN <<>>
                       ELSE IF L!Matches(es[j], l) THEN Append(h[j - 1], es[j]) ELSE h[j - 1]]
    <2>2. ASSUME NEW j \in 0..(i + 1)
          PROVE  h[j] = k[j]
      <3>1. CASE j = 0
        BY <2>1, <3>1 DEF Found
      <3>2. CASE j # 0
        <4>1. j - 1 \in 0..i /\ j - 1 \in 0..(i + 1)
          BY <3>2
        <4>2. h[j - 1] = g[j - 1]
          BY <4>1
        <4>3. k[j] = IF L!Matches(es[j], l) THEN Append(g[j - 1], es[j]) ELSE g[j - 1]
          BY <3>2, <4>2
        <4>4. h[j] = IF L!Matches(es[j], l) THEN Append(g[j - 1], es[j]) ELSE g[j - 1]
          <5>1. CASE j <= i
            <6>1. j \in 0..i /\ h[j] = g[j]
              BY <5>1
            <6>2. g[j] = IF L!Matches(es[j], l) THEN Append(g[j - 1], es[j]) ELSE g[j - 1]
              BY <2>1, <3>2, <6>1, Zenon DEF Found
            <6> QED
              BY <6>1, <6>2
          <5>2. CASE ~(j <= i)
            BY <5>2
          <5> QED
            BY <5>1, <5>2
        <4> QED
          BY <4>3, <4>4
      <3> QED
        BY <3>1, <3>2
    <2>3. h = k
      BY <2>2
    <2>4. Found(h, es, l, i + 1)
      BY <2>3 DEF Found
    <2> HIDE DEF h
    <2> QED
      BY <2>4
  <1>3. Nat \subseteq G
    <2> HIDE DEF G
    <2> QED
      BY <1>1, <1>2, Counting
  <1> QED
    BY <1>3

(* Matching is its last value.                                             *)
LEMMA MatchingIsFound ==
  ASSUME NEW S, NEW es \in Seq(S), NEW l, NEW g, Found(g, es, l, Len(es))
  PROVE  L!Matching(es, l) = g[Len(es)]
  <1> DEFINE h == CHOOSE f : Found(f, es, l, Len(es))
  <1>1. L!Matching(es, l) = h[Len(es)]
    BY DEF L!Matching, Found
  <1>2. Found(h, es, l, Len(es))
    OBVIOUS
  <1>3. Len(es) \in Nat
    OBVIOUS
  <1> HIDE DEF h
  <1> QED
    BY <1>1, <1>2, <1>3, FoundUnique

(* Nothing matches among no entries.                                       *)
LEMMA MatchingNone ==
  ASSUME NEW l
  PROVE  L!Matching(<<>>, l) = <<>>
  <1>1. PICK g : Found(g, <<>>, l, 0)
    BY FoundExists
  <1>2. <<>> \in Seq({}) /\ Len(<<>>) = 0 /\ g[0] = <<>>
    BY <1>1 DEF Found
  <1> QED
    BY <1>1, <1>2, MatchingIsFound

(* One more entry adds itself, if it matches, behind the others.           *)
LEMMA MatchingAppend ==
  ASSUME NEW S, NEW l, NEW es \in Seq(S), NEW e \in S
  PROVE  L!Matching(Append(es, e), l)
           = IF L!Matches(e, l) THEN Append(L!Matching(es, l), e) ELSE L!Matching(es, l)
  <1> DEFINE n == Len(es)
             fs == Append(es, e)
  <1>1. /\ n \in Nat /\ n + 1 \in Nat /\ n <= n + 1
        /\ fs \in Seq(S) /\ Len(fs) = n + 1 /\ fs[n + 1] = e
        /\ \A i \in 1..n : es[i] = fs[i]
    OBVIOUS
  <1>2. PICK g : Found(g, es, l, n)
    BY <1>1, FoundExists
  <1>3. PICK h : Found(h, fs, l, n + 1)
    BY <1>1, FoundExists
  <1> HIDE DEF n, fs
  <1>4. g[n] = h[n]
    <2> DEFINE m == n + 1
    <2>1. m \in Nat /\ n \in Nat /\ n <= m /\ Found(g, es, l, n) /\ Found(h, fs, l, m)
      BY <1>1, <1>2, <1>3
    <2>2. \A i \in 1..n : es[i] = fs[i]
      BY <1>1
    <2> HIDE DEF m
    <2>3. \A i \in 0..n : g[i] = h[i]
      BY <2>1, <2>2, FoundUnique
    <2> QED
      BY <1>1, <2>3
  <1>5. h[n + 1] = IF L!Matches(e, l) THEN Append(h[n], e) ELSE h[n]
    <2>1. n + 1 \in 0..(n + 1) /\ n + 1 # 0 /\ (n + 1) - 1 = n
      BY <1>1
    <2>2. h[n + 1] = IF L!Matches(fs[n + 1], l) THEN Append(h[(n + 1) - 1], fs[n + 1])
                     ELSE h[(n + 1) - 1]
      BY <1>3, <2>1, Zenon DEF Found
    <2> QED
      BY <1>1, <2>1, <2>2
  <1>6. L!Matching(es, l) = g[n]
    BY <1>2, MatchingIsFound DEF n
  <1>7. L!Matching(fs, l) = h[n + 1]
    BY <1>1, <1>3, MatchingIsFound
  <1> QED
    BY <1>4, <1>5, <1>6, <1>7 DEF fs

(* x is what y ends with.                                                  *)
Ends(x, y) == Len(x) <= Len(y) /\ \A i \in 1..Len(x) : x[i] = y[Len(y) - Len(x) + i]

(* IsSuffix, of sequences reversed, means what Ends says.                  *)
LEMMA SuffixIsEnd ==
  ASSUME NEW S, NEW x \in Seq(S), NEW y \in Seq(S)
  PROVE  L!IsSuffix(x, y) <=> Ends(x, y)
  <1> DEFINE m == Len(x)
             n == Len(y)
             rx == L!Reverse(x)
             ry == L!Reverse(y)
  <1>1. m \in Nat /\ n \in Nat
    OBVIOUS
  <1>2. /\ rx = [i \in 1..m |-> x[(m - i) + 1]]
        /\ ry = [i \in 1..n |-> y[(n - i) + 1]]
    BY DEF L!Reverse
  <1>3. rx \in Seq(S) /\ ry \in Seq(S) /\ Len(rx) = m /\ Len(ry) = n
    <2>1. \A i \in 1..m : x[(m - i) + 1] \in S
      OBVIOUS
    <2>2. \A i \in 1..n : y[(n - i) + 1] \in S
      OBVIOUS
    <2> HIDE DEF rx, ry, m, n
    <2>3. rx \in [1..m -> S] /\ ry \in [1..n -> S]
      BY <1>2, <2>1, <2>2
    <2> QED
      BY <1>1, <2>3
  <1>4. L!IsSuffix(x, y) <=> m <= n /\ SubSeq(rx, 1, m) = SubSeq(ry, 1, m)
    BY <1>3 DEF L!IsSuffix, L!IsPrefix
  <1>5. ASSUME m <= n
        PROVE  SubSeq(rx, 1, m) = SubSeq(ry, 1, m) <=> \A i \in 1..m : rx[i] = ry[i]
    <2> HIDE DEF rx, ry, m, n
    <2>1. /\ SubSeq(rx, 1, m) \in Seq(S) /\ Len(SubSeq(rx, 1, m)) = m
          /\ \A i \in 1..m : SubSeq(rx, 1, m)[i] = rx[i]
      BY <1>1, <1>3
    <2>2. /\ SubSeq(ry, 1, m) \in Seq(S) /\ Len(SubSeq(ry, 1, m)) = m
          /\ \A i \in 1..m : SubSeq(ry, 1, m)[i] = ry[i]
      BY <1>1, <1>3, <1>5
    <2>3. (\A i \in 1..m : rx[i] = ry[i]) => SubSeq(rx, 1, m) = SubSeq(ry, 1, m)
      BY <2>1, <2>2, SeqEqual
    <2>4. SubSeq(rx, 1, m) = SubSeq(ry, 1, m) => \A i \in 1..m : rx[i] = ry[i]
      BY <2>1, <2>2
    <2> QED
      BY <2>3, <2>4
  <1>6. ASSUME m <= n
        PROVE  (\A i \in 1..m : rx[i] = ry[i]) <=> \A i \in 1..m : x[i] = y[n - m + i]
    <2> HIDE DEF rx, ry, m, n
    <2>1. \A i \in 1..m : i \in 1..n /\ rx[i] = x[(m - i) + 1] /\ ry[i] = y[(n - i) + 1]
      BY <1>1, <1>2, <1>6
    <2>2. ASSUME \A i \in 1..m : rx[i] = ry[i], NEW i \in 1..m
          PROVE  x[i] = y[n - m + i]
      <3> DEFINE j == (m - i) + 1
      <3>1. j \in 1..m /\ (m - j) + 1 = i /\ (n - j) + 1 = n - m + i
        BY <1>1
      <3> HIDE DEF j
      <3> QED
        BY <2>1, <2>2, <3>1
    <2>3. ASSUME \A i \in 1..m : x[i] = y[n - m + i], NEW i \in 1..m
          PROVE  rx[i] = ry[i]
      <3> DEFINE j == (m - i) + 1
      <3>1. j \in 1..m /\ n - m + j = (n - i) + 1
        BY <1>1
      <3> HIDE DEF j
      <3>2. x[j] = y[n - m + j]
        BY <2>3, <3>1
      <3> QED
        BY <2>1, <3>1, <3>2 DEF j
    <2> QED
      BY <2>2, <2>3
  <1> QED
    BY <1>4, <1>5, <1>6 DEF Ends

(* What Ends is preserved by: longer sequences, one more element, cuts.    *)
LEMMA EndsFacts ==
  ASSUME NEW S, NEW x \in Seq(S), NEW y \in Seq(S)
  PROVE  /\ Ends(x, x) /\ Ends(<<>>, x)
         /\ \A z \in Seq(S) : Ends(x, y) /\ Ends(y, z) => Ends(x, z)
         /\ \A e \in S : Ends(x, y) => Ends(Append(x, e), Append(y, e))
         /\ x # <<>> => Ends(Tail(x), x)
         /\ \A k \in Nat : Ends(x, y) /\ Len(x) <= k => Ends(x, L!LastOf(y, k))
  <1>1. Ends(x, x) /\ Ends(<<>>, x)
    BY DEF Ends
  <1>2. ASSUME NEW z \in Seq(S), Ends(x, y), Ends(y, z)
        PROVE  Ends(x, z)
    <2>1. Len(x) \in Nat /\ Len(y) \in Nat /\ Len(z) \in Nat /\ Len(x) <= Len(y) /\ Len(y) <= Len(z)
      BY <1>2 DEF Ends
    <2>2. ASSUME NEW i \in 1..Len(x)
          PROVE  x[i] = z[Len(z) - Len(x) + i]
      <3> DEFINE j == Len(y) - Len(x) + i
      <3>1. j \in 1..Len(y) /\ Len(z) - Len(y) + j = Len(z) - Len(x) + i
        BY <2>1
      <3>2. x[i] = y[j]
        BY <1>2 DEF Ends
      <3> HIDE DEF j
      <3>3. y[j] = z[Len(z) - Len(y) + j]
        BY <1>2, <3>1 DEF Ends
      <3> QED
        BY <3>1, <3>2, <3>3
    <2> QED
      BY <2>1, <2>2 DEF Ends
  <1>3. ASSUME NEW e \in S, Ends(x, y)
        PROVE  Ends(Append(x, e), Append(y, e))
    <2> DEFINE u == Append(x, e)
               v == Append(y, e)
    <2>1. /\ Len(u) = Len(x) + 1 /\ Len(v) = Len(y) + 1
          /\ \A i \in 1..Len(x) : u[i] = x[i]
          /\ \A i \in 1..Len(y) : v[i] = y[i]
          /\ u[Len(x) + 1] = e /\ v[Len(y) + 1] = e
      OBVIOUS
    <2>2. Len(x) \in Nat /\ Len(y) \in Nat /\ Len(x) <= Len(y)
      BY <1>3 DEF Ends
    <2>3. \A i \in 1..Len(x) : x[i] = y[Len(y) - Len(x) + i]
      BY <1>3 DEF Ends
    <2> HIDE DEF u, v
    <2>4. ASSUME NEW i \in 1..Len(u)
          PROVE  u[i] = v[Len(v) - Len(u) + i]
      <3> DEFINE j == Len(y) - Len(x) + i
      <3>1. Len(v) - Len(u) + i = j
        BY <2>1, <2>2
      <3>2. CASE i = Len(x) + 1
        BY <2>1, <2>2, <3>1, <3>2
      <3>3. CASE i # Len(x) + 1
        <4>1. i \in 1..Len(x) /\ j \in 1..Len(y)
          BY <2>1, <2>2, <3>3
        <4> QED
          BY <2>1, <2>3, <3>1, <4>1
      <3> QED
        BY <3>2, <3>3
    <2>5. Len(u) <= Len(v)
      BY <2>1, <2>2
    <2> QED
      BY <2>4, <2>5 DEF Ends, u, v
  <1>4. ASSUME x # <<>>
        PROVE  Ends(Tail(x), x)
    BY <1>4 DEF Ends
  <1>5. ASSUME NEW k \in Nat, Ends(x, y), Len(x) <= k
        PROVE  Ends(x, L!LastOf(y, k))
    <2> DEFINE z == L!LastOf(y, k)
    <2>1. CASE Len(y) <= k
      <3>0. ~(Len(y) > k)
        BY <2>1
      <3>1. z = SubSeq(y, 1, Len(y))
        BY <3>0, Zenon DEF L!LastOf
      <3>2. z = y
        BY <3>1, SubSeqFull
      <3> QED
        BY <1>5, <3>2
    <2>2. CASE Len(y) > k
      <3>1. z = SubSeq(y, Len(y) - k + 1, Len(y))
        BY <2>2 DEF L!LastOf
      <3>2. Len(y) \in Nat /\ Len(x) \in Nat
        OBVIOUS
      <3>3. Len(z) = k /\ \A i \in 1..k : z[i] = y[Len(y) - k + i]
        BY <2>2, <3>1, <3>2
      <3> HIDE DEF z
      <3>4. ASSUME NEW i \in 1..Len(x)
            PROVE  x[i] = z[Len(z) - Len(x) + i]
        <4> DEFINE j == k - Len(x) + i
        <4>1. j \in 1..k /\ Len(y) - k + j = Len(y) - Len(x) + i /\ Len(z) - Len(x) + i = j
          BY <1>5, <3>2, <3>3
        <4>2. x[i] = y[Len(y) - Len(x) + i]
          BY <1>5 DEF Ends
        <4> HIDE DEF j
        <4> QED
          BY <3>3, <4>1, <4>2
      <3> QED
        BY <1>5, <3>3, <3>4 DEF Ends, z
    <2> QED
      BY <2>1, <2>2
  <1> QED
    BY <1>1, <1>2, <1>3, <1>4, <1>5

(* What matches is among the entries, and without the first of them it is  *)
(* what it was, or that without its first.                                 *)
LEMMA MatchingSound ==
  ASSUME NEW S, NEW l, NEW es \in Seq(S)
  PROVE  /\ L!Matching(es, l) \in Seq(S)
         /\ Len(L!Matching(es, l)) <= Len(es)
         /\ \A i \in 1..Len(L!Matching(es, l)) : \E j \in 1..Len(es) : L!Matching(es, l)[i] = es[j]
         /\ es # <<>> => Ends(L!Matching(Tail(es), l), L!Matching(es, l))
  <1> DEFINE Sound(x, y) ==
               /\ y \in Seq(S) /\ Len(y) <= Len(x)
               /\ \A i \in 1..Len(y) : \E j \in 1..Len(x) : y[i] = x[j]
             G == {n \in Nat : \A x \in Seq(S) : Len(x) = n =>
                     /\ Sound(x, L!Matching(x, l))
                     /\ x # <<>> => /\ L!Matching(Tail(x), l) \in Seq(S)
                                    /\ Ends(L!Matching(Tail(x), l), L!Matching(x, l))}
  <1>1. 0 \in G
    <2> SUFFICES ASSUME NEW x \in Seq(S), Len(x) = 0
                 PROVE  Sound(x, L!Matching(x, l)) /\ x = <<>>
      OBVIOUS
    <2>1. x = <<>>
      OBVIOUS
    <2>2. L!Matching(x, l) = <<>>
      BY <2>1, MatchingNone
    <2>3. Sound(<<>>, <<>>)
      OBVIOUS
    <2> HIDE DEF Sound
    <2> QED
      BY <2>1, <2>2, <2>3
  <1>2. ASSUME NEW n \in Nat, n \in G
        PROVE  n + 1 \in G
    <2> SUFFICES ASSUME NEW x \in Seq(S), Len(x) = n + 1
                 PROVE  /\ Sound(x, L!Matching(x, l))
                        /\ x # <<>> => /\ L!Matching(Tail(x), l) \in Seq(S)
                                       /\ Ends(L!Matching(Tail(x), l), L!Matching(x, l))
      OBVIOUS
    <2> DEFINE w == SubSeq(x, 1, n)
               e == x[n + 1]
               mw == L!Matching(w, l)
               mx == L!Matching(x, l)
    <2>1. w \in Seq(S) /\ Len(w) = n /\ e \in S /\ x = Append(w, e)
      OBVIOUS
    <2>2. /\ Sound(w, mw)
          /\ w # <<>> => L!Matching(Tail(w), l) \in Seq(S) /\ Ends(L!Matching(Tail(w), l), mw)
      BY <1>2, <2>1
    <2> HIDE DEF w, e, mw, mx, G
    <2>3. mx = IF L!Matches(e, l) THEN Append(mw, e) ELSE mw
      <3>1. L!Matching(Append(w, e), l)
              = IF L!Matches(e, l) THEN Append(L!Matching(w, l), e) ELSE L!Matching(w, l)
        BY <2>1, MatchingAppend
      <3> QED
        BY <2>1, <3>1 DEF mw, mx
    <2>4. \A i \in 1..n : x[i] = w[i] /\ i \in 1..(n + 1)
      BY <2>1
    <2>5. x[n + 1] = e
      BY DEF e
    <2>6. Sound(x, mx)
      <3>1. CASE L!Matches(e, l)
        <4>1. mx = Append(mw, e) /\ mw \in Seq(S) /\ mx \in Seq(S) /\ Len(mx) = Len(mw) + 1
          BY <2>1, <2>2, <2>3, <3>1
        <4>2. ASSUME NEW i \in 1..Len(mx)
              PROVE  \E j \in 1..Len(x) : mx[i] = x[j]
          <5>1. CASE i = Len(mw) + 1
            BY <2>5, <4>1, <5>1
          <5>2. CASE i # Len(mw) + 1
            <6>1. i \in 1..Len(mw) /\ mx[i] = mw[i]
              BY <4>1, <5>2
            <6>2. PICK j \in 1..n : mw[i] = w[j]
              BY <2>1, <2>2, <6>1
            <6> QED
              BY <2>4, <6>1, <6>2
          <5> QED
            BY <5>1, <5>2
        <4>3. Len(mx) <= Len(x)
          BY <2>1, <2>2, <4>1
        <4> QED
          BY <4>1, <4>2, <4>3
      <3>2. CASE ~L!Matches(e, l)
        <4>1. mx = mw
          BY <2>3, <3>2
        <4>2. ASSUME NEW i \in 1..Len(mx)
              PROVE  \E j \in 1..Len(x) : mx[i] = x[j]
          <5>1. PICK j \in 1..n : mw[i] = w[j]
            BY <2>1, <2>2, <4>1
          <5> QED
            BY <2>4, <4>1, <5>1
        <4>3. Len(mx) <= Len(x)
          BY <2>1, <2>2, <4>1
        <4> QED
          BY <2>2, <4>1, <4>2, <4>3
      <3> QED
        BY <3>1, <3>2
    <2>7. L!Matching(Tail(x), l) \in Seq(S) /\ Ends(L!Matching(Tail(x), l), mx)
      <3>1. CASE w = <<>>
        <4>1. Tail(x) = <<>>
          BY <2>1, <3>1
        <4>2. L!Matching(Tail(x), l) = <<>>
          BY <4>1, MatchingNone
        <4>3. Ends(<<>>, mx) /\ <<>> \in Seq(S)
          BY <2>6 DEF Ends
        <4> QED
          BY <4>2, <4>3
      <3>2. CASE w # <<>>
        <4> DEFINE t == Tail(w)
                   mt == L!Matching(t, l)
        <4>1. t \in Seq(S)
          BY <2>1, <3>2
        <4>2. Tail(x) = Append(t, e)
          BY <2>1, <3>2
        <4>4. mt \in Seq(S) /\ Ends(mt, mw)
          BY <2>2, <3>2
        <4> HIDE DEF t
        <4>3. L!Matching(Tail(x), l) = IF L!Matches(e, l) THEN Append(mt, e) ELSE mt
          <5>1. L!Matching(Append(t, e), l)
                  = IF L!Matches(e, l) THEN Append(L!Matching(t, l), e) ELSE L!Matching(t, l)
            BY <2>1, <4>1, MatchingAppend
          <5> QED
            BY <4>2, <5>1
        <4> HIDE DEF mt
        <4>5. Ends(Append(mt, e), Append(mw, e)) /\ mw \in Seq(S)
          BY <2>1, <2>2, <4>4, EndsFacts
        <4>6. CASE L!Matches(e, l)
          <5>1. L!Matching(Tail(x), l) = Append(mt, e) /\ mx = Append(mw, e)
            BY <2>3, <4>3, <4>6
          <5>2. Append(mt, e) \in Seq(S)
            BY <2>1, <4>4
          <5> QED
            BY <4>5, <5>1, <5>2, Zenon
        <4>7. CASE ~L!Matches(e, l)
          <5>1. L!Matching(Tail(x), l) = mt /\ mx = mw
            BY <2>3, <4>3, <4>7
          <5> QED
            BY <4>4, <5>1
        <4> QED
          BY <4>6, <4>7
      <3> QED
        BY <3>1, <3>2
    <2> QED
      BY <2>6, <2>7 DEF mx
  <1>3. Nat \subseteq G
    <2> HIDE DEF G
    <2> QED
      BY <1>1, <1>2, Counting
  <1> QED
    BY <1>3

Entries == [of : Files \cup {"live"}, n : Nat, level : Levels]

(* What the sequence es has is all of the source s.                        *)
AllOf(es, s) == \A i \in 1..Len(es) : es[i].of = s

(* The types the proof needs; the cuts keep entries and rows to MaxRows.   *)
ConsoleTypes ==
  /\ source \in Files \cup {"live"}
  /\ loads \in [Files -> Nat]
  /\ entries \in Seq(Entries) /\ rows \in Seq(Entries) /\ queue \in Seq(Entries)
  /\ Len(entries) <= MaxRows /\ Len(rows) <= MaxRows
  /\ level \in Levels \cup {All}
  /\ log \in Seq(Levels)

(* Only an open stream has events on their way, and only the live source a *)
(* stream; what comes by it is live.                                       *)
StreamIsLive ==
  /\ source # "live" => stream = "closed"
  /\ stream # "open" => queue = <<>>
  /\ AllOf(queue, "live")

(* ShowsTheSource with its sets and sequences opened up.                   *)
IsShown ==
  ~excused /\ (source = "live" \/ loads[source] = 0) =>
    /\ AllOf(entries, source) /\ AllOf(rows, source)
    /\ Ends(L!Matching(entries, level), rows)

(* What always holds of the console.                                      *)
ConsoleInv == ConsoleTypes /\ StreamIsLive /\ IsShown

(* What is assumed of the constants.                                       *)
LEMMA ConsoleConstants ==
  /\ MaxRows \in Nat /\ MaxRows > 0 /\ Recent \in Nat
  /\ "live" \notin Files /\ All \notin Levels
  BY PartsAssumption DEF L!LogConsoleAssumption

(* The invariant says what the property does.                              *)
LEMMA InvShows == ConsoleInv => L!ShowsTheSource
  <1> SUFFICES ASSUME ConsoleInv, ~excused, source = "live" \/ loads[source] = 0
               PROVE  /\ \A e \in L!ToSet(entries) \cup L!ToSet(rows) : e.of = source
                      /\ L!IsSuffix(L!Matching(entries, level), rows)
    BY DEF L!ShowsTheSource
  <1>1. AllOf(entries, source) /\ AllOf(rows, source) /\ Ends(L!Matching(entries, level), rows)
    BY DEF ConsoleInv, IsShown
  <1>2. entries \in Seq(Entries) /\ rows \in Seq(Entries)
    BY DEF ConsoleInv, ConsoleTypes
  <1>3. \A e \in L!ToSet(entries) \cup L!ToSet(rows) : e.of = source
    BY <1>1, <1>2 DEF L!ToSet, AllOf
  <1>4. L!Matching(entries, level) \in Seq(Entries)
    BY <1>2, MatchingSound
  <1> QED
    BY <1>1, <1>2, <1>3, <1>4, SuffixIsEnd

(* The last of some entries are some of them.                              *)
LEMMA LastOfSound ==
  ASSUME NEW S, NEW x \in Seq(S), NEW k \in Nat
  PROVE  /\ L!LastOf(x, k) \in Seq(S)
         /\ Len(L!LastOf(x, k)) <= k
         /\ \A i \in 1..Len(L!LastOf(x, k)) : \E j \in 1..Len(x) : L!LastOf(x, k)[i] = x[j]
         /\ Len(x) <= k => L!LastOf(x, k) = x
         /\ Len(x) = k + 1 => L!LastOf(x, k) = Tail(x)
  <1>1. CASE Len(x) <= k
    <2>1. ~(Len(x) > k) /\ Len(x) # k + 1
      BY <1>1
    <2>2. L!LastOf(x, k) = SubSeq(x, 1, Len(x))
      BY <2>1, Zenon DEF L!LastOf
    <2>3. L!LastOf(x, k) = x
      BY <2>2, SubSeqFull
    <2> QED
      BY <1>1, <2>1, <2>3
  <1>2. CASE Len(x) > k
    <2>1. L!LastOf(x, k) = SubSeq(x, Len(x) - k + 1, Len(x))
      BY <1>2 DEF L!LastOf
    <2>2. Len(x) \in Nat
      OBVIOUS
    <2> DEFINE z == SubSeq(x, Len(x) - k + 1, Len(x))
    <2>3. z \in Seq(S) /\ Len(z) = k /\ \A i \in 1..k : z[i] = x[Len(x) - k + i]
      BY <1>2, <2>2
    <2>4. ASSUME Len(x) = k + 1
          PROVE  z = Tail(x)
      <3>1. x # <<>> /\ Len(x) - k + 1 = 2
        BY <2>4
      <3> QED
        BY <3>1, TailIsSubSeq
    <2> HIDE DEF z
    <2>5. \A i \in 1..Len(z) : \E j \in 1..Len(x) : z[i] = x[j]
      <3> SUFFICES ASSUME NEW i \in 1..Len(z)
                   PROVE  \E j \in 1..Len(x) : z[i] = x[j]
        OBVIOUS
      <3>1. Len(x) - k + i \in 1..Len(x)
        BY <1>2, <2>2, <2>3
      <3> QED
        BY <2>3, <3>1
    <2> QED
      BY <1>2, <2>1, <2>2, <2>3, <2>4, <2>5 DEF z
  <1> QED
    BY <1>1, <1>2

(* refreshConsoleView: rows of these entries are of their source.          *)
LEMMA RefreshShows ==
  ASSUME NEW es \in Seq(Entries), NEW l, Len(es) <= MaxRows, L!Refresh(es, l)
  PROVE  /\ rows' \in Seq(Entries) /\ Len(rows') <= MaxRows
         /\ Ends(L!Matching(es, l), rows')
         /\ \A s : AllOf(es, s) => AllOf(rows', s)
  <1>1. rows' = L!Matching(es, l)
    BY DEF L!Refresh
  <1>2. /\ rows' \in Seq(Entries) /\ Len(rows') <= Len(es)
        /\ \A i \in 1..Len(rows') : \E j \in 1..Len(es) : rows'[i] = es[j]
    BY <1>1, MatchingSound
  <1>3. Len(rows') <= MaxRows
    BY <1>2, ConsoleConstants
  <1>4. Ends(L!Matching(es, l), rows')
    BY <1>1, <1>2, EndsFacts
  <1>5. \A s : AllOf(es, s) => AllOf(rows', s)
    BY <1>2 DEF AllOf
  <1> QED
    BY <1>2, <1>3, <1>4, <1>5

(* appendEntry: one more entry, and the first ones gone when there are too *)
(* many, of the entries and of the rows each for itself.                   *)
LEMMA ShowKeeps ==
  ASSUME ConsoleTypes, NEW e \in Entries, L!Show(e)
  PROVE  /\ entries' \in Seq(Entries) /\ rows' \in Seq(Entries)
         /\ Len(entries') <= MaxRows /\ Len(rows') <= MaxRows
         /\ AllOf(entries, e.of) => AllOf(entries', e.of)
         /\ AllOf(rows, e.of) => AllOf(rows', e.of)
         /\ Ends(L!Matching(entries, level), rows) => Ends(L!Matching(entries', level), rows')
  <1> DEFINE es == Append(entries, e)
             m == L!Matching(entries, level)
             ms == L!Matching(es, level)
             me == L!Matching(entries', level)
             rs == IF L!Matches(e, level) THEN Append(rows, e) ELSE rows
  <1>1. entries \in Seq(Entries) /\ rows \in Seq(Entries) /\ Len(entries) <= MaxRows /\ Len(rows) <= MaxRows
    BY DEF ConsoleTypes
  <1>2. es \in Seq(Entries) /\ Len(es) = Len(entries) + 1 /\ rs \in Seq(Entries)
    BY <1>1
  <1>3. entries' = L!LastOf(es, MaxRows)
    BY DEF L!Show
  <1>4. /\ entries' \in Seq(Entries) /\ Len(entries') <= MaxRows
        /\ \A i \in 1..Len(entries') : \E j \in 1..Len(es) : entries'[i] = es[j]
    <2> HIDE DEF es
    <2> QED
      BY <1>2, <1>3, ConsoleConstants, LastOfSound
  <1>5. entries' = es \/ entries' = Tail(es)
    <2>1. CASE Len(entries) < MaxRows
      <3>1. Len(es) <= MaxRows
        BY <1>1, <1>2, <2>1, ConsoleConstants
      <3> HIDE DEF es
      <3> QED
        BY <1>2, <1>3, <3>1, ConsoleConstants, LastOfSound
    <2>2. CASE Len(entries) = MaxRows
      <3>1. Len(es) = MaxRows + 1
        BY <1>1, <1>2, <2>2, ConsoleConstants
      <3> HIDE DEF es
      <3> QED
        BY <1>2, <1>3, <3>1, ConsoleConstants, LastOfSound
    <2> QED
      BY <1>1, <2>1, <2>2, ConsoleConstants
  <1>6. rows' = L!LastOf(rs, MaxRows)
    <2>1. CASE L!Matches(e, level)
      BY <2>1 DEF L!Show
    <2>2. CASE ~L!Matches(e, level)
      <3>1. rows' = rows /\ rs = rows
        BY <2>2 DEF L!Show
      <3>2. L!LastOf(rows, MaxRows) = rows
        BY <1>1, ConsoleConstants, LastOfSound
      <3> QED
        BY <3>1, <3>2
    <2> QED
      BY <2>1, <2>2
  <1>7. /\ rows' \in Seq(Entries) /\ Len(rows') <= MaxRows
        /\ \A i \in 1..Len(rows') : \E j \in 1..Len(rs) : rows'[i] = rs[j]
    <2> HIDE DEF rs
    <2> QED
      BY <1>2, <1>6, ConsoleConstants, LastOfSound
  <1>8. AllOf(entries, e.of) => AllOf(entries', e.of)
    <2>1. AllOf(entries, e.of) => AllOf(es, e.of)
      BY <1>1 DEF AllOf
    <2> HIDE DEF es
    <2> QED
      BY <1>4, <2>1 DEF AllOf
  <1>9. AllOf(rows, e.of) => AllOf(rows', e.of)
    <2>1. AllOf(rows, e.of) => AllOf(rs, e.of)
      <3>1. AllOf(rows, e.of) => AllOf(Append(rows, e), e.of)
        BY <1>1 DEF AllOf
      <3> QED
        BY <3>1
    <2> HIDE DEF rs
    <2> QED
      BY <1>7, <2>1 DEF AllOf
  <1>10. ASSUME Ends(m, rows)
         PROVE  Ends(me, rows')
    <2>1. m \in Seq(Entries) /\ ms \in Seq(Entries) /\ me \in Seq(Entries) /\ Len(me) <= MaxRows
      <3>1. m \in Seq(Entries) /\ ms \in Seq(Entries) /\ me \in Seq(Entries) /\ Len(me) <= Len(entries')
        <4> HIDE DEF es
        <4> QED
          BY <1>1, <1>2, <1>4, MatchingSound
      <3> HIDE DEF m, ms, me
      <3>2. Len(me) \in Nat /\ Len(entries') \in Nat
        BY <1>4, <3>1
      <3> QED
        BY <1>4, <3>1, <3>2, ConsoleConstants
    <2>2. ms = IF L!Matches(e, level) THEN Append(m, e) ELSE m
      BY <1>1, MatchingAppend
    <2>3. Ends(me, ms)
      <3>1. CASE entries' = es
        <4>1. me = ms
          BY <3>1
        <4> QED
          BY <2>1, <4>1, EndsFacts
      <3>2. CASE entries' = Tail(es)
        <4>1. es # <<>>
          BY <1>1
        <4> HIDE DEF es
        <4>2. Ends(L!Matching(Tail(es), level), ms)
          BY <1>2, <4>1, MatchingSound
        <4> QED
          BY <3>2, <4>2
      <3> QED
        BY <1>5, <3>1, <3>2
    <2> HIDE DEF m, ms, me, es
    <2>4. Ends(ms, rs)
      <3>1. CASE L!Matches(e, level)
        <4>1. ms = Append(m, e) /\ rs = Append(rows, e)
          BY <2>2, <3>1
        <4>2. Ends(Append(m, e), Append(rows, e))
          BY <1>1, <1>10, <2>1, EndsFacts
        <4> QED
          BY <4>1, <4>2
      <3>2. CASE ~L!Matches(e, level)
        BY <1>10, <2>2, <3>2
      <3> QED
        BY <3>1, <3>2
    <2> HIDE DEF rs
    <2>5. Ends(me, rs)
      BY <1>2, <2>1, <2>3, <2>4, EndsFacts
    <2> QED
      BY <1>2, <1>6, <2>1, <2>5, ConsoleConstants, EndsFacts
  <1> QED
    BY <1>4, <1>7, <1>8, <1>9, <1>10

(* An empty console is in order.                                           *)
LEMMA NoRows ==
  /\ <<>> \in Seq(Entries) /\ Len(<<>>) = 0
  /\ \A s : AllOf(<<>>, s)
  /\ \A l : L!Matching(<<>>, l) = <<>>
  /\ Ends(<<>>, <<>>)
  <1>1. <<>> \in Seq(Entries) /\ Len(<<>>) = 0
    OBVIOUS
  <1>2. \A s : AllOf(<<>>, s)
    BY DEF AllOf
  <1>3. Ends(<<>>, <<>>)
    BY DEF Ends
  <1> QED
    BY <1>1, <1>2, <1>3, MatchingNone

(* So are a console that starts and one at rest.                           *)
LEMMA ConsoleStarts ==
  (IF part = "logs" THEN L!Init ELSE NoConsole) => ConsoleInv
  <1> SUFFICES ASSUME L!Init \/ NoConsole
               PROVE  ConsoleInv
    OBVIOUS
  <1>1. /\ source = "live" /\ loads = [f \in Files |-> 0] /\ stream \in {"connecting", "closed"}
        /\ queue = <<>> /\ entries = <<>> /\ rows = <<>> /\ log = <<>> /\ level = All
    BY DEF L!Init, NoConsole
  <1>2. log \in Seq(Levels)
    BY <1>1
  <1>3. ConsoleTypes
    BY <1>1, <1>2, NoRows, ConsoleConstants DEF ConsoleTypes
  <1>4. StreamIsLive
    BY <1>1, NoRows DEF StreamIsLive
  <1>5. IsShown
    BY <1>1, NoRows DEF IsShown
  <1> QED
    BY <1>3, <1>4, <1>5 DEF ConsoleInv

(* One step of the console.                                                *)
LEMMA ConsoleStep == ConsoleInv /\ [L!Next]_(L!vars) => ConsoleInv'
  <1> SUFFICES ASSUME ConsoleInv, [L!Next]_(L!vars)
               PROVE  ConsoleInv'
    OBVIOUS
  <1> USE DEF ConsoleInv
  <1>t. /\ source \in Files \cup {"live"} /\ loads \in [Files -> Nat]
        /\ entries \in Seq(Entries) /\ rows \in Seq(Entries) /\ queue \in Seq(Entries)
        /\ Len(entries) <= MaxRows /\ Len(rows) <= MaxRows
        /\ level \in Levels \cup {All} /\ log \in Seq(Levels)
    BY DEF ConsoleTypes
  <1>s. StreamIsLive /\ IsShown
    OBVIOUS
  <1>1. CASE L!ChooseLive
    <2>1. /\ source' = "live" /\ stream' = "connecting" /\ queue' = <<>> /\ entries' = <<>>
          /\ L!Refresh(<<>>, level) /\ UNCHANGED <<loads, level, log>>
      BY <1>1 DEF L!ChooseLive, L!Connect
    <2>2. rows' = <<>>
      BY <2>1, NoRows DEF L!Refresh
    <2>3. ConsoleTypes'
      BY <1>t, <2>1, <2>2, NoRows, ConsoleConstants DEF ConsoleTypes
    <2>4. StreamIsLive'
      BY <2>1, NoRows DEF StreamIsLive
    <2>5. IsShown'
      BY <2>1, <2>2, NoRows DEF IsShown
    <2> QED
      BY <2>3, <2>4, <2>5
  <1>2. ASSUME NEW f \in Files, L!ChooseFile(f)
        PROVE  ConsoleInv'
    <2>1. /\ source' = f /\ stream' = "closed" /\ queue' = <<>> /\ rows' = <<>>
          /\ loads' = [loads EXCEPT ![f] = @ + 1] /\ UNCHANGED <<entries, level, log>>
      BY <1>2 DEF L!ChooseFile, L!StreamClosed
    <2>2. loads' \in [Files -> Nat] /\ loads'[f] # 0 /\ f # "live"
      BY <1>t, <2>1, ConsoleConstants
    <2>3. ConsoleTypes'
      BY <1>t, <2>1, <2>2, NoRows, ConsoleConstants DEF ConsoleTypes
    <2>4. StreamIsLive'
      BY <2>1, NoRows DEF StreamIsLive
    <2>5. IsShown'
      BY <2>1, <2>2 DEF IsShown
    <2> QED
      BY <2>3, <2>4, <2>5
  <1>3. ASSUME NEW f \in Files, L!FileFails(f)
        PROVE  ConsoleInv'
    <2>1. /\ loads[f] > 0 /\ loads' = [loads EXCEPT ![f] = @ - 1] /\ rows' = <<>> /\ excused' = TRUE
          /\ UNCHANGED <<source, stream, queue, entries, level, log>>
      BY <1>3 DEF L!FileFails
    <2>2. loads' \in [Files -> Nat]
      BY <1>t, <2>1
    <2>3. ConsoleTypes'
      BY <1>t, <2>1, <2>2, NoRows, ConsoleConstants DEF ConsoleTypes
    <2>4. StreamIsLive'
      BY <1>s, <2>1 DEF StreamIsLive
    <2>5. IsShown'
      BY <2>1 DEF IsShown
    <2> QED
      BY <2>3, <2>4, <2>5
  <1>4. ASSUME NEW f \in Files, NEW l \in Levels, L!FileArrives(f, l)
        PROVE  ConsoleInv'
    <2> DEFINE e == L!FileEntry(f, l)
    <2>1. /\ loads[f] > 0 /\ loads' = [loads EXCEPT ![f] = @ - 1]
          /\ entries' = <<e>> /\ L!Refresh(<<e>>, level) /\ excused' = (f # source)
          /\ UNCHANGED <<source, stream, queue, level, log>>
      BY <1>4 DEF L!FileArrives
    <2>2. loads' \in [Files -> Nat]
      BY <1>t, <2>1
    <2>3. e \in Entries /\ e.of = f
      BY DEF L!FileEntry, Entries
    <2> HIDE DEF e
    <2>4. <<e>> \in Seq(Entries) /\ Len(<<e>>) = 1 /\ AllOf(<<e>>, f)
      BY <2>3 DEF AllOf
    <2>5. Len(<<e>>) <= MaxRows
      BY <2>4, ConsoleConstants
    <2>6. /\ rows' \in Seq(Entries) /\ Len(rows') <= MaxRows
          /\ Ends(L!Matching(<<e>>, level), rows') /\ AllOf(rows', f)
      BY <2>1, <2>4, <2>5, RefreshShows
    <2>7. ConsoleTypes'
      BY <1>t, <2>1, <2>2, <2>4, <2>5, <2>6 DEF ConsoleTypes
    <2>8. StreamIsLive'
      BY <1>s, <2>1 DEF StreamIsLive
    <2>9. IsShown'
      BY <2>1, <2>4, <2>6 DEF IsShown
    <2> QED
      BY <2>7, <2>8, <2>9
  <1>5. ASSUME NEW l \in Levels \cup {All}, L!SetLevel(l)
        PROVE  ConsoleInv'
    <2>1. /\ level' = l /\ L!Refresh(entries, l)
          /\ UNCHANGED <<source, loads, stream, queue, entries, log, excused>>
      BY <1>5 DEF L!SetLevel
    <2>2. /\ rows' \in Seq(Entries) /\ Len(rows') <= MaxRows
          /\ Ends(L!Matching(entries, l), rows') /\ \A s : AllOf(entries, s) => AllOf(rows', s)
      BY <1>t, <2>1, RefreshShows
    <2>3. ConsoleTypes'
      BY <1>t, <2>1, <2>2 DEF ConsoleTypes
    <2>4. StreamIsLive'
      BY <1>s, <2>1 DEF StreamIsLive
    <2>5. IsShown'
      BY <1>s, <2>1, <2>2 DEF IsShown
    <2> QED
      BY <2>3, <2>4, <2>5
  <1>6. CASE L!Clear
    <2>1. /\ entries' = <<>> /\ L!Refresh(<<>>, level)
          /\ UNCHANGED <<source, loads, stream, queue, level, log, excused>>
      BY <1>6 DEF L!Clear
    <2>2. rows' = <<>>
      BY <2>1, NoRows DEF L!Refresh
    <2>3. ConsoleTypes'
      BY <1>t, <2>1, <2>2, NoRows, ConsoleConstants DEF ConsoleTypes
    <2>4. StreamIsLive'
      BY <1>s, <2>1 DEF StreamIsLive
    <2>5. IsShown'
      BY <2>1, <2>2, NoRows DEF IsShown
    <2> QED
      BY <2>3, <2>4, <2>5
  <1>7. ASSUME NEW l \in Levels, L!Log(l)
        PROVE  ConsoleInv'
    <2> DEFINE e == [of |-> "live", n |-> Len(log) + 1, level |-> l]
    <2>1. /\ log' = Append(log, l)
          /\ queue' = IF stream = "open" THEN Append(queue, e) ELSE queue
          /\ UNCHANGED <<source, loads, stream, entries, rows, level, excused>>
      BY <1>7 DEF L!Log, L!view
    <2>2. Len(log) \in Nat /\ log' \in Seq(Levels)
      BY <1>t, <2>1
    <2>3. e \in Entries /\ e.of = "live"
      BY <2>2 DEF Entries
    <2> HIDE DEF e
    <2>4. Append(queue, e) \in Seq(Entries) /\ (AllOf(queue, "live") => AllOf(Append(queue, e), "live"))
      BY <1>t, <2>3 DEF AllOf
    <2>5. queue' \in Seq(Entries) /\ (stream # "open" => queue' = queue)
          /\ (AllOf(queue, "live") => AllOf(queue', "live"))
      <3>1. CASE stream = "open"
        BY <2>1, <2>4, <3>1
      <3>2. CASE stream # "open"
        BY <1>t, <2>1, <3>2
      <3> QED
        BY <3>1, <3>2
    <2>6. ConsoleTypes'
      BY <1>t, <2>1, <2>2, <2>5 DEF ConsoleTypes
    <2>7. StreamIsLive'
      BY <1>s, <2>1, <2>5 DEF StreamIsLive
    <2>8. IsShown'
      BY <1>s, <2>1 DEF IsShown
    <2> QED
      BY <2>6, <2>7, <2>8
  <1>8. CASE L!Open
    <2> DEFINE recent == L!LastOf(log, Recent)
               q == [i \in 1..Len(recent) |-> L!Live(Len(log) - Len(recent) + i)]
    <2>1. /\ stream = "connecting" /\ stream' = "open" /\ queue' = q /\ L!Refresh(entries, level)
          /\ UNCHANGED <<source, loads, entries, level, log, excused>>
      BY <1>8 DEF L!Open
    <2>2. /\ rows' \in Seq(Entries) /\ Len(rows') <= MaxRows
          /\ Ends(L!Matching(entries, level), rows') /\ \A s : AllOf(entries, s) => AllOf(rows', s)
      BY <1>t, <2>1, RefreshShows
    <2>3. recent \in Seq(Levels) /\ Len(recent) \in Nat /\ Len(log) \in Nat /\ Len(recent) <= Len(log)
      <3>1. recent \in Seq(Levels) /\ Len(recent) <= Recent
        BY <1>t, ConsoleConstants, LastOfSound
      <3>2. Len(log) <= Recent => recent = log
        BY <1>t, ConsoleConstants, LastOfSound
      <3>3. Len(log) \in Nat
        BY <1>t
      <3> HIDE DEF recent
      <3>4. Len(recent) \in Nat
        BY <3>1
      <3> QED
        BY <3>1, <3>2, <3>3, <3>4, ConsoleConstants
    <2> DEFINE m == Len(recent)
               n == Len(log)
    <2>4. \A i \in 1..m : n - m + i \in 1..n
      <3> HIDE DEF recent
      <3> QED
        BY <2>3
    <2>5. \A i \in 1..n : L!Live(i) \in Entries /\ L!Live(i).of = "live"
      BY <1>t, <2>3 DEF L!Live, Entries
    <2>6. q \in Seq(Entries) /\ Len(q) = m /\ \A i \in 1..m : q[i] = L!Live(n - m + i)
      <3>1. q = [i \in 1..m |-> L!Live(n - m + i)]
        OBVIOUS
      <3> HIDE DEF q, recent, n
      <3>2. q \in [1..m -> Entries]
        BY <2>4, <2>5, <3>1
      <3> HIDE DEF m
      <3> QED
        BY <2>3, <3>1, <3>2 DEF m
    <2> HIDE DEF q, recent, m, n
    <2>7. AllOf(q, "live")
      BY <2>4, <2>5, <2>6 DEF AllOf
    <2>8. ConsoleTypes'
      BY <1>t, <2>1, <2>2, <2>6 DEF ConsoleTypes
    <2>9. StreamIsLive'
      BY <1>s, <2>1, <2>7 DEF StreamIsLive
    <2>10. IsShown'
      BY <1>s, <2>1, <2>2 DEF IsShown
    <2> QED
      BY <2>8, <2>9, <2>10
  <1>9. CASE L!Receive
    <2> DEFINE e == Head(queue)
    <2>1. /\ queue # <<>> /\ L!Show(e) /\ queue' = Tail(queue)
          /\ UNCHANGED <<source, loads, stream, level, log, excused>>
      BY <1>9 DEF L!Receive
    <2>2. e \in Entries /\ e = queue[1] /\ 1 \in 1..Len(queue) /\ queue' \in Seq(Entries)
      BY <1>t, <2>1
    <2>3. source = "live" /\ stream = "open" /\ e.of = "live"
      <3> HIDE DEF e
      <3> QED
        BY <1>s, <2>1, <2>2 DEF StreamIsLive, AllOf
    <2>4. AllOf(queue, "live") => AllOf(queue', "live")
      BY <1>t, <2>1 DEF AllOf
    <2> HIDE DEF e
    <2>5. /\ entries' \in Seq(Entries) /\ rows' \in Seq(Entries)
          /\ Len(entries') <= MaxRows /\ Len(rows') <= MaxRows
          /\ AllOf(entries, "live") => AllOf(entries', "live")
          /\ AllOf(rows, "live") => AllOf(rows', "live")
          /\ Ends(L!Matching(entries, level), rows) => Ends(L!Matching(entries', level), rows')
      BY <2>1, <2>2, <2>3, ShowKeeps
    <2>6. ConsoleTypes'
      BY <1>t, <2>1, <2>2, <2>5 DEF ConsoleTypes
    <2>7. StreamIsLive'
      BY <1>s, <2>1, <2>3, <2>4 DEF StreamIsLive
    <2>8. IsShown'
      BY <1>s, <2>1, <2>3, <2>5 DEF IsShown
    <2> QED
      BY <2>6, <2>7, <2>8
  <1>10. CASE L!Break
    <2>1. /\ stream = "open" /\ stream' = "connecting" /\ queue' = <<>>
          /\ UNCHANGED <<source, loads, entries, rows, level, log, excused>>
      BY <1>10 DEF L!Break, L!view
    <2>2. ConsoleTypes'
      BY <1>t, <2>1, NoRows DEF ConsoleTypes
    <2>3. StreamIsLive'
      BY <1>s, <2>1, NoRows DEF StreamIsLive
    <2>4. IsShown'
      BY <1>s, <2>1 DEF IsShown
    <2> QED
      BY <2>2, <2>3, <2>4
  <1>11. CASE UNCHANGED L!vars
    <2>1. UNCHANGED <<source, loads, stream, queue, entries, rows, level, log, excused>>
      BY <1>11 DEF L!vars, L!view
    <2> QED
      BY <1>s, <2>1 DEF ConsoleTypes, StreamIsLive, IsShown
  <1> QED
    BY <1>1, <1>2, <1>3, <1>4, <1>5, <1>6, <1>7, <1>8, <1>9, <1>10, <1>11 DEF L!Next

(* Once the source that was chosen is there, the console keeps nothing of  *)
(* any other, and shows every entry that matches the filter, whatever      *)
(* order the answers came in and however often the stream broke: but for   *)
(* loads that failed, and answers of a source already left (appendEntry,   *)
(* refreshConsoleView, connectLiveStream, loadHistoricFile).               *)
THEOREM ConsoleShowsTheSource == PartsSpec => []ShowsTheSource
  <1>1. PartsInit => ConsoleInv
    BY ConsoleStarts DEF PartsInit
  <1>2. [PartsNext]_all3 => [L!Next]_(L!vars)
    BY DEF PartsNext, all3, logConsole, L!vars, L!view
  <1>3. ConsoleInv /\ [PartsNext]_all3 => ConsoleInv'
    BY <1>2, ConsoleStep
  <1>4. ConsoleInv => ShowsTheSource
    BY InvShows DEF ShowsTheSource
  <1> QED
    BY <1>1, <1>3, <1>4, PTL DEF PartsSpec

-----------------------------------------------------------------------------
(***************************************************************************)
(* The JSON inspector.                                                     *)
(***************************************************************************)

(* What a fetch may bring, or nothing yet.                                 *)
Seen == [of : Endpoints \cup {Nothing}, version : Nat]

(* Fetches are answered with what an endpoint has at a version.            *)
InspectorTypes ==
  /\ endpoint \in Endpoints /\ version \in Nat
  /\ raw \in Seen /\ tree \in [built : Seen, values : Seen]
  /\ fetches \subseteq [no : Nat, force : BOOLEAN, of : Endpoints, answer : Seen]

(* What always holds of the inspector.                                     *)
InspectorInv == InspectorTypes /\ J!PollingGoesOn /\ J!TreeIsOfTheText

(* What it starts with.                                                    *)
LEMMA InspectorStarts == J!Init => InspectorInv
  <1> SUFFICES ASSUME J!Init
               PROVE  InspectorInv
    OBVIOUS
  <1>1. J!NoAnswer \in Seen
    BY DEF J!NoAnswer, Seen
  <1>2. /\ endpoint \in Endpoints /\ version = 1 /\ fetches = {} /\ ~isPolling /\ ~pollTimer
        /\ raw = J!NoAnswer /\ tree = [built |-> J!NoAnswer, values |-> J!NoAnswer]
    BY DEF J!Init
  <1>3. InspectorTypes
    BY <1>1, <1>2 DEF InspectorTypes
  <1>4. J!PollingGoesOn
    BY <1>2 DEF J!PollingGoesOn
  <1>5. J!TreeIsOfTheText
    BY <1>2 DEF J!TreeIsOfTheText
  <1> QED
    BY <1>3, <1>4, <1>5 DEF InspectorInv

(* fetchEndpoint: one more fetch is under way.                             *)
LEMMA FetchAdds ==
  ASSUME InspectorTypes, NEW url \in Endpoints, NEW force \in BOOLEAN, J!Fetch(url, force)
  PROVE  /\ fetches' # {}
         /\ fetches' \subseteq [no : Nat, force : BOOLEAN, of : Endpoints, answer : Seen]
  <1>1. PICK n \in 1..MaxFetches :
          fetches' = fetches \cup {[no |-> n, force |-> force, of |-> url, answer |-> J!NoAnswer]}
    BY DEF J!Fetch, J!Numbers
  <1>2. J!NoAnswer \in Seen
    BY DEF J!NoAnswer, Seen
  <1>3. MaxFetches \in Nat
    BY PartsAssumption DEF J!JsonInspectorAssumption
  <1>4. [no |-> n, force |-> force, of |-> url, answer |-> J!NoAnswer]
          \in [no : Nat, force : BOOLEAN, of : Endpoints, answer : Seen]
    BY <1>2, <1>3
  <1> QED
    BY <1>1, <1>4 DEF InspectorTypes

(* One step of it.                                                         *)
LEMMA InspectorStep == InspectorInv /\ [J!Next]_(J!vars) => InspectorInv'
  <1> SUFFICES ASSUME InspectorInv, [J!Next]_(J!vars)
               PROVE  InspectorInv'
    OBVIOUS
  <1> USE DEF InspectorInv, J!window, J!shown
  <1>t. /\ endpoint \in Endpoints /\ version \in Nat
        /\ raw \in Seen /\ tree \in [built : Seen, values : Seen]
        /\ fetches \subseteq [no : Nat, force : BOOLEAN, of : Endpoints, answer : Seen]
    BY DEF InspectorTypes
  <1>p. /\ isPolling => opened /\ (pollTimer \/ fetches # {})
        /\ pollTimer => isPolling
    BY DEF J!PollingGoesOn
  <1>k. ASSUME UNCHANGED <<raw, tree>>
        PROVE  J!TreeIsOfTheText'
    BY <1>k DEF J!TreeIsOfTheText
  <1>1. ASSUME NEW f \in fetches, J!Answer(f)
        PROVE  InspectorInv'
    <2> DEFINE a == [of |-> f.of, version |-> version]
    <2>1. /\ fetches' = (fetches \ {f}) \cup {[f EXCEPT !.answer = a]}
          /\ UNCHANGED <<opened, endpoint, isPolling, pollTimer, version, raw, tree>>
      BY <1>1 DEF J!Answer
    <2>2. f \in [no : Nat, force : BOOLEAN, of : Endpoints, answer : Seen] /\ a \in Seen
      BY <1>t DEF Seen
    <2> HIDE DEF a
    <2>3. [f EXCEPT !.answer = a] \in [no : Nat, force : BOOLEAN, of : Endpoints, answer : Seen]
      BY <2>2
    <2>4. InspectorTypes'
      BY <1>t, <2>1, <2>3 DEF InspectorTypes
    <2>5. J!PollingGoesOn'
      BY <1>p, <2>1 DEF J!PollingGoesOn
    <2> QED
      BY <1>k, <2>1, <2>4, <2>5
  <1>2. ASSUME NEW f \in fetches, J!Receive(f)
        PROVE  InspectorInv'
    <2> DEFINE a == f.answer
    <2>1. /\ fetches' = fetches \ {f} /\ J!Update(a, f.force) /\ pollTimer' = (pollTimer \/ isPolling)
          /\ a # J!NoAnswer /\ UNCHANGED <<opened, endpoint, isPolling, version>>
      BY <1>2 DEF J!Receive, J!Schedule
    <2>2. a \in Seen
      BY <1>t
    <2> HIDE DEF a
    <2>3. raw' = a
      BY <2>1 DEF J!Update
    <2>4. \/ tree' = [built |-> a, values |-> a]
          \/ raw # J!NoAnswer /\ J!CanReconcile(raw, a) /\ tree' = [tree EXCEPT !.values = a]
      BY <2>1 DEF J!Update
    <2>5. CASE tree' = [built |-> a, values |-> a]
      <3>1. tree' \in [built : Seen, values : Seen] /\ tree'.built = a /\ tree'.values = a
        BY <2>2, <2>5
      <3>2. InspectorTypes'
        BY <1>t, <2>1, <2>2, <2>3, <3>1 DEF InspectorTypes
      <3>3. J!TreeIsOfTheText'
        BY <2>3, <3>1 DEF J!TreeIsOfTheText
      <3>4. J!PollingGoesOn'
        BY <1>p, <2>1 DEF J!PollingGoesOn
      <3> QED
        BY <3>2, <3>3, <3>4
    <2>6. CASE raw # J!NoAnswer /\ J!CanReconcile(raw, a) /\ tree' = [tree EXCEPT !.values = a]
      <3>1. tree' \in [built : Seen, values : Seen] /\ tree'.built = tree.built /\ tree'.values = a
        BY <1>t, <2>2, <2>6
      <3>2. InspectorTypes'
        BY <1>t, <2>1, <2>2, <2>3, <3>1 DEF InspectorTypes
      <3>3. /\ KeysAtTheTop(tree.built.of, tree.built.version) = KeysAtTheTop(raw.of, raw.version)
            /\ KeysAtTheTop(raw.of, raw.version) = KeysAtTheTop(a.of, a.version)
        BY <2>6 DEF J!TreeIsOfTheText, J!CanReconcile
      <3>4. J!TreeIsOfTheText'
        BY <2>3, <3>1, <3>3 DEF J!TreeIsOfTheText
      <3>5. J!PollingGoesOn'
        BY <1>p, <2>1 DEF J!PollingGoesOn
      <3> QED
        BY <3>2, <3>4, <3>5
    <2> QED
      BY <2>4, <2>5, <2>6
  <1>3. ASSUME NEW f \in fetches, J!Fail(f)
        PROVE  InspectorInv'
    <2>1. /\ fetches' = fetches \ {f} /\ pollTimer' = (pollTimer \/ isPolling)
          /\ UNCHANGED <<opened, endpoint, isPolling, version, raw, tree>>
      BY <1>3 DEF J!Fail, J!Schedule
    <2>2. InspectorTypes'
      BY <1>t, <2>1 DEF InspectorTypes
    <2>3. J!PollingGoesOn'
      BY <1>p, <2>1 DEF J!PollingGoesOn
    <2> QED
      BY <1>k, <2>1, <2>2, <2>3
  <1>4. CASE J!Change
    <2>1. version' = version + 1 /\ UNCHANGED <<opened, endpoint, isPolling, pollTimer, fetches, raw, tree>>
      BY <1>4 DEF J!Change
    <2>2. InspectorTypes'
      BY <1>t, <2>1 DEF InspectorTypes
    <2>3. J!PollingGoesOn'
      BY <1>p, <2>1 DEF J!PollingGoesOn
    <2> QED
      BY <1>k, <2>1, <2>2, <2>3
  (* The steps that fetch.                                                 *)
  <1>f. ASSUME NEW url \in Endpoints, NEW force \in BOOLEAN, J!Fetch(url, force),
               endpoint' \in Endpoints, isPolling' => opened',
               pollTimer' => isPolling', UNCHANGED <<version, raw, tree>>
        PROVE  InspectorInv'
    <2>1. fetches' # {} /\ fetches' \subseteq [no : Nat, force : BOOLEAN, of : Endpoints, answer : Seen]
      BY <1>f, FetchAdds
    <2>2. InspectorTypes'
      BY <1>t, <1>f, <2>1 DEF InspectorTypes
    <2>3. J!PollingGoesOn'
      BY <1>f, <2>1 DEF J!PollingGoesOn
    <2> QED
      BY <1>k, <1>f, <2>2, <2>3
  <1>5. CASE J!PollTimer
    <2>1. /\ pollTimer' = FALSE /\ J!Fetch(endpoint, FALSE)
          /\ UNCHANGED <<opened, endpoint, isPolling, version, raw, tree>>
      BY <1>5 DEF J!PollTimer
    <2> QED
      BY <1>t, <1>p, <1>f, <2>1
  <1>6. ASSUME NEW e \in Endpoints, J!OpenInspector(e)
        PROVE  InspectorInv'
    <2>1. /\ opened' = TRUE /\ endpoint' = e /\ J!Fetch(e, TRUE)
          /\ UNCHANGED <<isPolling, pollTimer, version, raw, tree>>
      BY <1>6 DEF J!OpenInspector
    <2> QED
      BY <1>p, <1>f, <2>1
  <1>7. ASSUME NEW e \in Endpoints, J!Select(e)
        PROVE  InspectorInv'
    <2>1. /\ endpoint' = e /\ J!Fetch(e, TRUE)
          /\ UNCHANGED <<opened, isPolling, pollTimer, version, raw, tree>>
      BY <1>7 DEF J!Select
    <2> QED
      BY <1>p, <1>f, <2>1
  <1>8. ASSUME NEW e \in Endpoints, J!Type(e)
        PROVE  InspectorInv'
    <2>1. endpoint' = e /\ UNCHANGED <<opened, isPolling, pollTimer, fetches, version, raw, tree>>
      BY <1>8 DEF J!Type
    <2>2. InspectorTypes'
      BY <1>t, <2>1 DEF InspectorTypes
    <2>3. J!PollingGoesOn'
      BY <1>p, <2>1 DEF J!PollingGoesOn
    <2> QED
      BY <1>k, <2>1, <2>2, <2>3
  <1>9. CASE J!Enter
    <2>1. /\ J!Fetch(endpoint, TRUE)
          /\ UNCHANGED <<opened, endpoint, isPolling, pollTimer, version, raw, tree>>
      BY <1>9 DEF J!Enter
    <2> QED
      BY <1>t, <1>p, <1>f, <2>1
  <1>10. CASE J!FetchNow
    <2>1. /\ J!Fetch(endpoint, FALSE)
          /\ UNCHANGED <<opened, endpoint, isPolling, pollTimer, version, raw, tree>>
      BY <1>10 DEF J!FetchNow
    <2> QED
      BY <1>t, <1>p, <1>f, <2>1
  <1>11. CASE J!StartPolling
    <2>1. /\ opened /\ isPolling' = TRUE /\ J!Fetch(endpoint, FALSE)
          /\ UNCHANGED <<opened, endpoint, pollTimer, version, raw, tree>>
      BY <1>11 DEF J!StartPolling
    <2> QED
      BY <1>t, <1>p, <1>f, <2>1
  <1>12. CASE J!StopPolling \/ J!CloseInspector
    <2>1. isPolling' = FALSE /\ pollTimer' = FALSE /\ UNCHANGED <<endpoint, fetches, version, raw, tree>>
      BY <1>12 DEF J!StopPolling, J!CloseInspector, J!PollingStops
    <2>2. InspectorTypes'
      BY <1>t, <2>1 DEF InspectorTypes
    <2>3. J!PollingGoesOn'
      BY <2>1 DEF J!PollingGoesOn
    <2> QED
      BY <1>k, <2>1, <2>2, <2>3
  <1>13. CASE J!SetRate
    <2>1. /\ opened /\ isPolling /\ pollTimer' = (pollTimer \/ isPolling)
          /\ UNCHANGED <<opened, endpoint, isPolling, fetches, version, raw, tree>>
      BY <1>13 DEF J!SetRate, J!Schedule
    <2>2. InspectorTypes'
      BY <1>t, <2>1 DEF InspectorTypes
    <2>3. J!PollingGoesOn'
      BY <1>p, <2>1 DEF J!PollingGoesOn
    <2> QED
      BY <1>k, <2>1, <2>2, <2>3
  <1>14. CASE UNCHANGED J!vars
    <2>1. UNCHANGED <<opened, endpoint, isPolling, pollTimer, fetches, version, raw, tree>>
      BY <1>14 DEF J!vars
    <2>2. InspectorTypes'
      BY <1>t, <2>1 DEF InspectorTypes
    <2>3. J!PollingGoesOn'
      BY <1>p, <2>1 DEF J!PollingGoesOn
    <2> QED
      BY <1>k, <2>1, <2>2, <2>3
  <1> QED
    BY <1>1, <1>2, <1>3, <1>4, <1>5, <1>6, <1>7, <1>8, <1>9, <1>10, <1>11, <1>12, <1>13, <1>14
    DEF J!Next

(* While the inspector polls, its window is open and an answer or the      *)
(* timer is to come, so that polling neither stops by itself nor goes on   *)
(* behind a closed window (scheduleNextPoll, fetchEndpoint).  The tree     *)
(* shows the values of the answer shown as text, under its keys, whatever  *)
(* order answers of several endpoints come in (updateTreeOrRebuild).       *)
THEOREM InspectorAgrees == PartsSpec => [](PollingGoesOn /\ TreeIsOfTheText)
  <1>1. PartsInit => InspectorInv
    BY InspectorStarts DEF PartsInit
  <1>2. [PartsNext]_all3 => [J!Next]_(J!vars)
    BY DEF PartsNext, all3, inspector, J!vars, J!window, J!shown
  <1>3. InspectorInv /\ [PartsNext]_all3 => InspectorInv'
    BY <1>2, InspectorStep
  <1>4. InspectorInv => PollingGoesOn /\ TreeIsOfTheText
    BY DEF InspectorInv, PollingGoesOn, TreeIsOfTheText
  <1> QED
    BY <1>1, <1>3, <1>4, PTL DEF PartsSpec
=============================================================================
