------------------------- MODULE ServerParts_proofs -------------------------
(***************************************************************************)
(* Proofs about the parts of MCServerParts, for any threads, tails,        *)
(* folders, requests, packets and lists, and any limits.                   *)
(*                                                                         *)
(* LogTail: that nothing is skipped without a word needs that the last     *)
(* live entry on a page is the one before the receiver's next              *)
(* (LastIsNext), and that the entries still to show count as held (Held).  *)
(* The log files: what was removed has MaxFiles logged days after it, as a *)
(* file later than a logged day was logged to (Keeps).  The overlay list:  *)
(* a scan is true of every request that was stamped at the same time, and  *)
(* of now if the root has not changed (TrueOf, TrueNow).  A file of an     *)
(* overlay: a content is as new as its validator (AssetInv).  The tokens   *)
(* socket: the list wanted is the one the inbox leads to (WantedIsAhead).  *)
(* The threads: a process that was taken is with one of them or reported,  *)
(* once, and the first thread ends when all were taken (PoolInv).          *)
(***************************************************************************)
EXTENDS MCServerParts, FiniteSetTheorems, WellFoundedInduction, SequenceTheorems, TLAPS

-----------------------------------------------------------------------------
(* The live log (LogTail).                                                 *)

LastIsNext ==
  \A t \in Tails :
    Len(events[t]) > 0 /\ events[t][Len(events[t])].kind = "log"
      => next[t] = events[t][Len(events[t])].entry + 1

NextIsSent == \A t \in Tails : next[t] <= sent + 1

(* What a page has shown or is about to show.                              *)
Held(t) == Shown(t) \cup ToSet(initial[t]) \cup excused[t]

NothingMissing ==
  \A t \in Tails :
    stage[t] = "open" /\ [kind |-> "lagged"] \notin ToSet(events[t])
      => 1..next[t] - 1 \subseteq Held(t)

(* A page that is not open was sent nothing.                              *)
OnlyOpenIsSent == \A t \in Tails : stage[t] # "open" => events[t] = <<>>

TailInv ==
  TypeOK /\ OnlyOpenIsSent /\ NextIsSent /\ LastIsNext /\ NoSilentGap /\ NothingMissing

-----------------------------------------------------------------------------
(* Sequences.                                                              *)

LEMMA AppendSet ==
  ASSUME NEW Elements, NEW s \in Seq(Elements), NEW e \in Elements
  PROVE  ToSet(Append(s, e)) = ToSet(s) \cup {e}
  <1>1. /\ Len(s) \in Nat
        /\ DOMAIN s = 1..Len(s)
        /\ DOMAIN Append(s, e) = 1..Len(s) + 1
        /\ \A i \in 1..Len(s) : Append(s, e)[i] = s[i]
        /\ Append(s, e)[Len(s) + 1] = e
    OBVIOUS
  <1> QED
    BY <1>1 DEF ToSet

LEMMA TailSet ==
  ASSUME NEW Elements, NEW s \in Seq(Elements), s # <<>>
  PROVE  /\ Head(s) \in Elements
         /\ Tail(s) \in Seq(Elements)
         /\ Len(Tail(s)) = Len(s) - 1
         /\ ToSet(s) \subseteq {Head(s)} \cup ToSet(Tail(s))
  <1>1. Len(s) \in Nat /\ Len(s) > 0 /\ DOMAIN s = 1..Len(s)
    OBVIOUS
  <1>2. Head(s) = s[1] /\ Head(s) \in Elements
    BY <1>1
  <1>3. Tail(s) \in Seq(Elements) /\ Len(Tail(s)) = Len(s) - 1 /\ DOMAIN Tail(s) = 1..Len(s) - 1
    BY <1>1
  <1>4. ASSUME NEW i \in DOMAIN s
        PROVE  s[i] \in {Head(s)} \cup ToSet(Tail(s))
    <2>1. CASE i = 1
      BY <2>1, <1>2
    <2>2. CASE i # 1
      <3>1. i - 1 \in DOMAIN Tail(s) /\ Tail(s)[i - 1] = s[i]
        BY <1>1, <1>3, <2>2
      <3> QED
        BY <3>1 DEF ToSet
    <2> QED
      BY <2>1, <2>2
  <1>5. ToSet(s) \subseteq {Head(s)} \cup ToSet(Tail(s))
    BY <1>4 DEF ToSet
  <1> QED
    BY <1>2, <1>3, <1>5

(* The copy of the recent entries is no longer than asked for.             *)
LEMMA RecentType ==
  ASSUME TypeOK
  PROVE  Recent(Limit) \in Seq(Numbers) /\ Len(Recent(Limit)) <= Limit
  <1> DEFINE first == IF Limit < Len(entries) THEN Len(entries) - Limit + 1 ELSE 1
             last == Len(entries)
  <1>1. Limit \in Nat \ {0} /\ last \in Nat /\ entries \in Seq(Numbers)
    BY LogAssumption DEF LogAssumption, TypeOK
  <1>2. first \in 1..last + 1 /\ last - first + 1 <= Limit /\ first \in Int /\ last \in Int
    BY <1>1
  <1>3. \A i \in first..last : entries[i] \in Numbers
    BY <1>1, <1>2
  <1>4. /\ SubSeq(entries, first, last) \in Seq(Numbers)
        /\ Len(SubSeq(entries, first, last)) = IF first <= last THEN last - first + 1 ELSE 0
    <2> HIDE DEF first, last
    <2> QED
      BY <1>2, <1>3, SubSeqProperties
  <1>5. Recent(Limit) = SubSeq(entries, first, last)
    BY DEF Recent
  <1> QED
    BY <1>1, <1>2, <1>4, <1>5

(* The ring keeps to its capacity.                                         *)
LEMMA PushedType ==
  ASSUME TypeOK, NEW e \in Numbers
  PROVE  Pushed(e) \in Seq(Numbers) /\ Len(Pushed(e)) <= Capacity
  <1>1. Capacity \in Nat \ {0} /\ Len(entries) \in Nat /\ entries \in Seq(Numbers)
    BY LogAssumption DEF LogAssumption, TypeOK
  <1>2. CASE Len(entries) >= Capacity
    <2>1. Tail(entries) \in Seq(Numbers) /\ Len(Tail(entries)) = Len(entries) - 1
      BY <1>1, <1>2
    <2> QED
      BY <1>1, <1>2, <2>1 DEF Pushed, TypeOK
  <1>3. CASE ~(Len(entries) >= Capacity)
    BY <1>1, <1>3 DEF Pushed
  <1> QED
    BY <1>2, <1>3

(* What sending one event to a page does to what the page was sent.        *)
LEMMA EmitAdds ==
  ASSUME TypeOK, NEW t \in Tails, NEW e \in Events, Emit(t, e)
  PROVE  /\ events' \in [Tails -> Seq(Events)]
         /\ \A u \in Tails \ {t} : events'[u] = events[u]
         /\ events'[t] = Append(events[t], e)
         /\ Len(events[t]) \in Nat
         /\ Len(events'[t]) = Len(events[t]) + 1
         /\ \A i \in 1..Len(events[t]) : events'[t][i] = events[t][i]
         /\ events'[t][Len(events[t]) + 1] = e
         /\ ToSet(events'[t]) = ToSet(events[t]) \cup {e}
  <1>1. events \in [Tails -> Seq(Events)] /\ events[t] \in Seq(Events)
    BY DEF TypeOK
  <1>2. events' = [events EXCEPT ![t] = Append(events[t], e)]
    BY DEF Emit
  <1>3. Append(events[t], e) \in Seq(Events)
    BY <1>1
  <1>4. events'[t] = Append(events[t], e) /\ events' \in [Tails -> Seq(Events)]
    BY <1>1, <1>2, <1>3
  <1>5. \A u \in Tails \ {t} : events'[u] = events[u]
    BY <1>1, <1>2
  <1>6. ToSet(events'[t]) = ToSet(events[t]) \cup {e}
    BY <1>1, <1>4, AppendSet
  <1>7. /\ Len(events[t]) \in Nat
        /\ Len(events'[t]) = Len(events[t]) + 1
        /\ \A i \in 1..Len(events[t]) : events'[t][i] = events[t][i]
        /\ events'[t][Len(events[t]) + 1] = e
    BY <1>1, <1>4
  <1> QED
    BY <1>4, <1>5, <1>6, <1>7

(* An entry that is the receiver's next leaves no gap.                     *)
LEMMA EmitLeavesNoGap ==
  ASSUME TypeOK, LastIsNext, NoSilentGap, NEW t \in Tails, NEW e \in Events, Emit(t, e),
         e.kind = "log" => e.entry = next[t]
  PROVE  NoSilentGap'
  <1> SUFFICES ASSUME NEW u \in Tails, NEW i \in 1..Len(events'[u]) - 1,
                      events'[u][i].kind = "log", events'[u][i + 1].kind = "log"
               PROVE  events'[u][i + 1].entry = events'[u][i].entry + 1
    BY DEF NoSilentGap
  <1>1. CASE u # t
    <2>1. events'[u] = events[u]
      BY <1>1, EmitAdds
    <2> QED
      BY <2>1 DEF NoSilentGap
  <1>2. CASE u = t /\ i < Len(events[t])
    <2>1. /\ i \in 1..Len(events[t]) - 1
          /\ events'[t][i] = events[t][i]
          /\ events'[t][i + 1] = events[t][i + 1]
      BY <1>2, EmitAdds
    <2> QED
      BY <1>2, <2>1 DEF NoSilentGap
  <1>3. CASE u = t /\ ~(i < Len(events[t]))
    <2>1. i = Len(events[t]) /\ Len(events[t]) > 0
      BY <1>3, EmitAdds
    <2>2. events'[t][i] = events[t][Len(events[t])] /\ events'[t][i + 1] = e
      BY <2>1, EmitAdds
    <2> QED
      BY <1>3, <2>1, <2>2 DEF LastIsNext
  <1> QED
    BY <1>1, <1>2, <1>3

(* What the page shows after it was sent one more event.                   *)
LEMMA EmitShows ==
  ASSUME TypeOK, NEW t \in Tails, NEW e \in Events, Emit(t, e)
  PROVE  /\ Shown(t) \subseteq Shown(t)'
         /\ e.kind # "lagged" => e.entry \in Shown(t)'
         /\ \A u \in Tails \ {t} : Shown(u)' = Shown(u)
  BY EmitAdds, ZenonT(30) DEF Shown

-----------------------------------------------------------------------------
(* The invariant holds at the start.                                       *)
LEMMA TailInit == Init => TailInv
  <1> SUFFICES ASSUME Init PROVE TailInv
    OBVIOUS
  <1>1. Len(<<>>) = 0 /\ <<>> \in Seq(Numbers) /\ <<>> \in Seq(Events)
    OBVIOUS
  <1>2. TypeOK
    BY <1>1, LogAssumption DEF Init, TypeOK, LogAssumption
  <1>3. OnlyOpenIsSent /\ NextIsSent /\ LastIsNext /\ NoSilentGap /\ NothingMissing
    BY <1>1 DEF Init, OnlyOpenIsSent, NextIsSent, LastIsNext, NoSilentGap, NothingMissing
  <1> QED
    BY <1>2, <1>3 DEF TailInv

(* The threads that log touch no page, and next to nothing the receivers   *)
(* stand on: sent only grows.                                              *)
LEMMA BufferStep ==
  ASSUME TailInv, NEW p \in Threads, Send(p) \/ AppendEntry(p)
  PROVE  TailInv'
  <1> USE DEF TailInv
  <1>1. UNCHANGED tails /\ sent' >= sent /\ sent \in Nat /\ sent' \in Nat
    BY LogAssumption DEF Send, AppendEntry, TypeOK, LogAssumption
  <1>4. TypeOK'
    <2>1. CASE Send(p)
      <3>1. sent' \in 0..MaxEntries /\ pushing' \in [Threads -> 0..MaxEntries] /\ entries' = entries
        BY <2>1, LogAssumption DEF Send, TypeOK, LogAssumption
      <3> QED
        BY <1>1, <3>1 DEF TypeOK, tails
    <2>2. CASE AppendEntry(p)
      <3>1. pushing[p] \in Numbers
        BY <2>2, LogAssumption DEF AppendEntry, TypeOK, Numbers, LogAssumption
      <3>2. entries' \in Seq(Numbers) /\ Len(entries') <= Capacity
        BY <2>2, <3>1, PushedType DEF AppendEntry
      <3>3. sent' = sent /\ pushing' \in [Threads -> 0..MaxEntries]
        BY <2>2, LogAssumption DEF AppendEntry, TypeOK, LogAssumption
      <3> QED
        BY <1>1, <3>2, <3>3 DEF TypeOK, tails
    <2> QED
      BY <2>1, <2>2
  <1>5. NextIsSent'
    BY <1>1, LogAssumption DEF NextIsSent, TypeOK, tails, LogAssumption
  <1>6. OnlyOpenIsSent' /\ LastIsNext' /\ NoSilentGap' /\ NothingMissing'
    BY <1>1 DEF OnlyOpenIsSent, LastIsNext, NoSilentGap, NothingMissing, Held, Shown, tails
  <1> QED
    BY <1>4, <1>5, <1>6

(* The two calls with which a page is opened.                              *)
LEMMA OpenStep ==
  ASSUME TailInv, NEW t \in Tails, Open(t)
  PROVE  TailInv'
  <1> USE DEF TailInv
  <1>1. /\ UNCHANGED <<sent, pushing, entries, events>>
        /\ stage[t] \in {"closed", "opening"}
        /\ stage' \in [Tails -> {"closed", "opening", "open"}]
        /\ \A u \in Tails \ {t} : stage'[u] = stage[u]
        /\ stage'[t] = IF stage[t] = "closed" THEN "opening" ELSE "open"
        /\ events[t] = <<>>
        /\ sent \in Nat /\ MaxEntries \in Nat
    BY LogAssumption DEF Open, TypeOK, OnlyOpenIsSent, buffer, LogAssumption
  <1>2. NoSilentGap' /\ OnlyOpenIsSent'
    BY <1>1 DEF NoSilentGap, OnlyOpenIsSent
  <1>3. CASE stage[t] = "closed"
    <2>1. next' = [next EXCEPT ![t] = sent + 1] /\ UNCHANGED <<initial, excused>>
      BY <1>3 DEF Open, OpenCall, Subscribe
    <2>2. next' \in [Tails -> 1..MaxEntries + 1]
      BY <1>1, <2>1 DEF TypeOK
    <2>3. TypeOK'
      BY <1>1, <2>1, <2>2 DEF TypeOK
    <2>4. NextIsSent'
      BY <1>1, <2>1 DEF TypeOK, NextIsSent
    <2>5. LastIsNext'
      BY <1>1, <2>1 DEF TypeOK, LastIsNext
    <2>6. NothingMissing'
      BY <1>1, <1>3, <2>1 DEF TypeOK, NothingMissing, Held, Shown
    <2> QED
      BY <1>2, <2>3, <2>4, <2>5, <2>6
  <1>4. CASE stage[t] = "opening"
    <2>1. /\ next' = next
          /\ initial' = [initial EXCEPT ![t] = Recent(Limit)]
          /\ excused' = [excused EXCEPT ![t] = (1..sent) \ ToSet(Recent(Limit))]
      BY <1>4 DEF Open, OpenCall, Copy
    <2>2. Recent(Limit) \in Seq(Numbers) /\ Len(Recent(Limit)) <= Limit
      BY RecentType
    <2>3. initial' \in [Tails -> Seq(Numbers)] /\ \A u \in Tails : Len(initial'[u]) <= Limit
      BY <2>1, <2>2 DEF TypeOK
    <2>4. excused' \in [Tails -> SUBSET Numbers]
      BY <1>1, <2>1 DEF TypeOK, Numbers
    <2>5. TypeOK'
      BY <1>1, <2>1, <2>3, <2>4 DEF TypeOK
    <2>6. NextIsSent' /\ LastIsNext'
      BY <1>1, <2>1 DEF NextIsSent, LastIsNext
    <2>7. ASSUME NEW u \in Tails, stage'[u] = "open", [kind |-> "lagged"] \notin ToSet(events'[u])
          PROVE  1..next'[u] - 1 \subseteq Held(u)'
      <3>1. CASE u # t
        BY <1>1, <2>1, <2>7, <3>1 DEF TypeOK, NothingMissing, Held, Shown
      <3>2. CASE u = t
        <4>1. initial'[t] = Recent(Limit) /\ excused'[t] = (1..sent) \ ToSet(Recent(Limit))
          BY <2>1 DEF TypeOK
        <4>2. 1..next[t] - 1 \subseteq 1..sent
          BY <1>1 DEF TypeOK, NextIsSent
        <4>3. 1..sent \subseteq Held(t)'
          BY <4>1 DEF Held
        <4> QED
          BY <2>1, <3>2, <4>2, <4>3
      <3> QED
        BY <3>1, <3>2
    <2>8. NothingMissing'
      BY <2>7 DEF NothingMissing
    <2> QED
      BY <1>2, <2>5, <2>6, <2>8
  <1> QED
    BY <1>1, <1>3, <1>4

(* A recent entry is shown: what is held moves from one place to another.  *)
LEMMA ShowInitialStep ==
  ASSUME TailInv, NEW t \in Tails, ShowInitial(t)
  PROVE  TailInv'
  <1> USE DEF TailInv
  <1> DEFINE e == [kind |-> "init", entry |-> Head(initial[t])]
  <1>1. /\ UNCHANGED <<sent, pushing, entries, stage, next, excused>>
        /\ initial[t] \in Seq(Numbers) /\ initial[t] # <<>>
        /\ initial' = [initial EXCEPT ![t] = Tail(initial[t])]
        /\ Emit(t, e)
        /\ stage[t] = "open"
    BY DEF ShowInitial, TypeOK, buffer
  <1>2. /\ Head(initial[t]) \in Numbers
        /\ Tail(initial[t]) \in Seq(Numbers)
        /\ Len(Tail(initial[t])) = Len(initial[t]) - 1
        /\ ToSet(initial[t]) \subseteq {Head(initial[t])} \cup ToSet(Tail(initial[t]))
    BY <1>1, TailSet
  <1>3. e \in Events /\ e.kind = "init" /\ e.entry = Head(initial[t])
    BY <1>2 DEF Events
  <1> HIDE DEF e
  <1>4. Len(Tail(initial[t])) <= Limit
    <2>1. Len(initial[t]) \in Nat /\ Len(initial[t]) <= Limit /\ Limit \in Nat
      BY <1>1, LogAssumption DEF TypeOK, LogAssumption
    <2> QED
      BY <1>2, <2>1
  <1>5. initial' \in [Tails -> Seq(Numbers)] /\ \A u \in Tails : Len(initial'[u]) <= Limit
    BY <1>1, <1>2, <1>4 DEF TypeOK
  <1>6. TypeOK'
    <2>1. events' \in [Tails -> Seq(Events)]
      BY <1>1, <1>3, EmitAdds
    <2> QED
      BY <1>1, <1>3, <1>5, <2>1 DEF TypeOK
  <1>7. NextIsSent' /\ OnlyOpenIsSent'
    <2>1. /\ \A u \in Tails \ {t} : events'[u] = events[u]
          /\ stage[t] = "open"
      BY <1>1, <1>3, EmitAdds
    <2> QED
      BY <1>1, <2>1 DEF NextIsSent, OnlyOpenIsSent
  <1>8. NoSilentGap'
    BY <1>1, <1>3, EmitLeavesNoGap
  <1>9. LastIsNext'
    BY <1>1, <1>3, EmitAdds DEF LastIsNext
  <1>10. ASSUME NEW u \in Tails, stage'[u] = "open", [kind |-> "lagged"] \notin ToSet(events'[u])
         PROVE  1..next'[u] - 1 \subseteq Held(u)'
    <2>1. 1..next[u] - 1 \subseteq Held(u)
      BY <1>1, <1>3, <1>10, EmitAdds DEF NothingMissing
    <2>2. CASE u # t
      <3>1. initial'[u] = initial[u] /\ Shown(u)' = Shown(u)
        BY <1>1, <1>3, <2>2, EmitShows DEF TypeOK
      <3> QED
        BY <1>1, <2>1, <3>1 DEF Held
    <2>3. CASE u = t
      <3>1. initial'[t] = Tail(initial[t])
        BY <1>1 DEF TypeOK
      <3>2. Shown(t) \subseteq Shown(t)' /\ Head(initial[t]) \in Shown(t)'
        BY <1>1, <1>3, EmitShows
      <3>3. Held(t) \subseteq Held(t)'
        BY <1>1, <1>2, <3>1, <3>2 DEF Held
      <3> QED
        BY <1>1, <2>1, <2>3, <3>3
    <2> QED
      BY <2>2, <2>3
  <1>11. NothingMissing'
    BY <1>10 DEF NothingMissing
  <1> QED
    BY <1>6, <1>7, <1>8, <1>9, <1>11

(* The receiver is told that it lagged, or its next entry is shown.        *)
LEMMA ShowNextStep ==
  ASSUME TailInv, NEW t \in Tails, ShowNext(t)
  PROVE  TailInv'
  <1> USE DEF TailInv
  <1>1. /\ UNCHANGED <<sent, pushing, entries, stage, initial, excused>>
        /\ stage[t] = "open"
        /\ next[t] <= sent
        /\ sent \in 0..MaxEntries
        /\ next[t] \in 1..MaxEntries + 1
        /\ MaxEntries \in Nat /\ Channel \in Nat \ {0}
    BY LogAssumption DEF ShowNext, TypeOK, buffer, LogAssumption
  <1>2. CASE Lagging(t)
    <2> DEFINE e == [kind |-> "lagged"]
    <2>1. e \in Events /\ e.kind = "lagged" /\ Emit(t, e)
          /\ next' = [next EXCEPT ![t] = sent + 1 - Channel]
      BY <1>2 DEF ShowNext, Receive, Events
    <2> HIDE DEF e
    <2>2. sent + 1 - Channel \in 1..MaxEntries + 1 /\ sent + 1 - Channel <= sent + 1
      BY <1>1, <1>2 DEF Lagging
    <2>3. next' \in [Tails -> 1..MaxEntries + 1]
      BY <2>1, <2>2 DEF TypeOK
    <2>4. e \in ToSet(events'[t])
      <3>1. ToSet(events'[t]) = ToSet(events[t]) \cup {e}
        BY <2>1, EmitAdds
      <3> QED
        BY ONLY <3>1
    <2>5. TypeOK'
      <3>1. events' \in [Tails -> Seq(Events)]
        BY <2>1, EmitAdds
      <3> QED
        BY <1>1, <2>3, <3>1 DEF TypeOK
    <2>6. NextIsSent' /\ OnlyOpenIsSent'
      <3>1. NextIsSent'
        BY <1>1, <2>1, <2>2 DEF NextIsSent, TypeOK
      <3>2. OnlyOpenIsSent'
        <4>1. \A u \in Tails \ {t} : events'[u] = events[u]
          BY <2>1, EmitAdds
        <4> QED
          BY <1>1, <4>1 DEF OnlyOpenIsSent
      <3> QED
        BY <3>1, <3>2
    <2>7. NoSilentGap'
      BY <2>1, EmitLeavesNoGap
    <2>8. LastIsNext'
      BY <2>1, EmitAdds, SMTT(30) DEF LastIsNext, TypeOK
    <2>9. ASSUME NEW u \in Tails, stage'[u] = "open", [kind |-> "lagged"] \notin ToSet(events'[u])
          PROVE  1..next'[u] - 1 \subseteq Held(u)'
      <3>1. u # t
        BY <2>4, <2>9 DEF e
      <3>2. events'[u] = events[u] /\ next'[u] = next[u] /\ Shown(u)' = Shown(u)
        BY <2>1, <3>1, EmitAdds, EmitShows, SMTT(30) DEF TypeOK
      <3> QED
        BY <1>1, <2>9, <3>2 DEF NothingMissing, Held
    <2> QED
      BY <2>5, <2>6, <2>7, <2>8, <2>9 DEF NothingMissing
  <1>3. CASE ~Lagging(t)
    <2> DEFINE e == [kind |-> "log", entry |-> next[t]]
    <2>1. e \in Events /\ e.kind = "log" /\ e.entry = next[t] /\ Emit(t, e)
          /\ next' = [next EXCEPT ![t] = next[t] + 1]
      BY <1>1, <1>3 DEF ShowNext, Receive, Events, Numbers
    <2> HIDE DEF e
    <2>2. next[t] + 1 \in 1..MaxEntries + 1 /\ next[t] + 1 <= sent + 1
      BY <1>1
    <2>3. next' \in [Tails -> 1..MaxEntries + 1] /\ next'[t] = next[t] + 1
      BY <2>1, <2>2 DEF TypeOK
    <2>5. TypeOK'
      <3>1. events' \in [Tails -> Seq(Events)]
        BY <2>1, EmitAdds
      <3> QED
        BY <1>1, <2>3, <3>1 DEF TypeOK
    <2>6. NextIsSent' /\ OnlyOpenIsSent'
      <3>1. \A u \in Tails \ {t} : events'[u] = events[u]
        BY <2>1, EmitAdds
      <3>2. NextIsSent'
        BY <1>1, <2>1, <2>2 DEF NextIsSent, TypeOK
      <3>3. OnlyOpenIsSent'
        BY <1>1, <3>1 DEF OnlyOpenIsSent
      <3> QED
        BY <3>2, <3>3
    <2>7. NoSilentGap'
      BY <2>1, EmitLeavesNoGap
    <2>8. LastIsNext'
      BY <2>1, <2>3, EmitAdds, SMTT(30) DEF LastIsNext, TypeOK
    <2>9. ASSUME NEW u \in Tails, stage'[u] = "open", [kind |-> "lagged"] \notin ToSet(events'[u])
          PROVE  1..next'[u] - 1 \subseteq Held(u)'
      <3>1. 1..next[u] - 1 \subseteq Held(u)
        BY <1>1, <2>1, <2>9, EmitAdds DEF NothingMissing
      <3>2. CASE u # t
        <4>1. next'[u] = next[u] /\ Shown(u)' = Shown(u)
          BY <2>1, <3>2, EmitShows DEF TypeOK
        <4> QED
          BY <1>1, <3>1, <4>1 DEF Held
      <3>3. CASE u = t
        <4>1. Shown(t) \subseteq Shown(t)' /\ next[t] \in Shown(t)'
          BY <2>1, EmitShows
        <4>2. Held(t) \subseteq Held(t)' /\ next[t] \in Held(t)'
          BY <1>1, <4>1 DEF Held
        <4>3. 1..next'[t] - 1 \subseteq (1..next[t] - 1) \cup {next[t]}
          BY <1>1, <2>3
        <4> QED
          BY <3>1, <3>3, <4>2, <4>3
      <3> QED
        BY <3>2, <3>3
    <2> QED
      BY <2>5, <2>6, <2>7, <2>8, <2>9 DEF NothingMissing
  <1> QED
    BY <1>2, <1>3

(* A closed page has been sent nothing.                                    *)
LEMMA CloseStep ==
  ASSUME TailInv, NEW t \in Tails, Close(t)
  PROVE  TailInv'
  <1> USE DEF TailInv
  <1>1. /\ UNCHANGED <<sent, pushing, entries>>
        /\ stage' = [stage EXCEPT ![t] = "closed"]
        /\ next' = [next EXCEPT ![t] = 1]
        /\ initial' = [initial EXCEPT ![t] = <<>>]
        /\ events' = [events EXCEPT ![t] = <<>>]
        /\ excused' = [excused EXCEPT ![t] = {}]
    BY DEF Close, buffer
  <1>2. /\ Len(<<>>) = 0 /\ <<>> \in Seq(Numbers) /\ <<>> \in Seq(Events)
        /\ MaxEntries \in Nat /\ Limit \in Nat
    BY LogAssumption DEF LogAssumption
  <1>3. \A u \in Tails \ {t} :
          /\ stage'[u] = stage[u] /\ next'[u] = next[u] /\ initial'[u] = initial[u]
          /\ events'[u] = events[u] /\ excused'[u] = excused[u]
    BY <1>1 DEF TypeOK
  <1>4. /\ stage'[t] = "closed" /\ next'[t] = 1 /\ initial'[t] = <<>>
        /\ events'[t] = <<>> /\ excused'[t] = {}
    BY <1>1 DEF TypeOK
  <1>5. /\ stage' \in [Tails -> {"closed", "opening", "open"}]
        /\ next' \in [Tails -> 1..MaxEntries + 1]
        /\ initial' \in [Tails -> Seq(Numbers)]
        /\ events' \in [Tails -> Seq(Events)]
        /\ excused' \in [Tails -> SUBSET Numbers]
    BY <1>1, <1>2 DEF TypeOK
  <1>6. TypeOK'
    BY <1>1, <1>2, <1>3, <1>4, <1>5 DEF TypeOK
  <1>7. NextIsSent' /\ OnlyOpenIsSent'
    BY <1>1, <1>3, <1>4, <1>2 DEF NextIsSent, OnlyOpenIsSent, TypeOK
  <1>8. LastIsNext' /\ NoSilentGap'
    <2>1. ASSUME NEW u \in Tails, u # t
          PROVE  events'[u] = events[u] /\ next'[u] = next[u]
      BY <1>3, <2>1
    <2>2. LastIsNext'
      BY <1>2, <1>4, <2>1 DEF LastIsNext
    <2>3. NoSilentGap'
      BY <1>2, <1>4, <2>1 DEF NoSilentGap
    <2> QED
      BY <2>2, <2>3
  <1>9. NothingMissing'
    <2> SUFFICES ASSUME NEW u \in Tails, stage'[u] = "open",
                        [kind |-> "lagged"] \notin ToSet(events'[u])
                 PROVE  1..next'[u] - 1 \subseteq Held(u)'
      BY DEF NothingMissing
    <2>1. u # t
      BY <1>4
    <2>2. Held(u)' = Held(u) /\ stage[u] = "open" /\ events'[u] = events[u] /\ next'[u] = next[u]
      BY <1>3, <1>4, <2>1 DEF Held, Shown
    <2> QED
      BY <2>2 DEF NothingMissing
  <1> QED
    BY <1>6, <1>7, <1>8, <1>9

LEMMA TailStep == TailInv /\ [Next]_vars => TailInv'
  <1> SUFFICES ASSUME TailInv, [Next]_vars PROVE TailInv'
    OBVIOUS
  <1>1. CASE UNCHANGED vars
    BY <1>1 DEF TailInv, TypeOK, OnlyOpenIsSent, NextIsSent, LastIsNext, NoSilentGap,
                NothingMissing, Held, Shown, vars, buffer, tails
  <1>2. CASE Next
    BY <1>2, BufferStep, OpenStep, ShowInitialStep, ShowNextStep, CloseStep DEF Next
  <1> QED
    BY <1>1, <1>2

LEMMA TailHolds == Spec => []TailInv
  BY TailInit, TailStep, PTL DEF Spec

(* The ring never outgrows its capacity and every receiver's next entry is *)
(* one that was or will be the next to be logged (LogTailBuffer::push,     *)
(* handle_logs_tail).                                                      *)
THEOREM TypeCorrect == Spec => []TypeOK
  <1>1. TailInv => TypeOK
    BY DEF TailInv
  <1> QED
    BY <1>1, TailHolds, PTL

(* A page never shows two entries in a row with others missing between     *)
(* them, however slow it is: a warning stands there (handle_logs_tail).    *)
THEOREM GapsAreTold == Spec => []NoSilentGap
  <1>1. TailInv => NoSilentGap
    BY DEF TailInv
  <1> QED
    BY <1>1, TailHolds, PTL

(* Nothing falls between the subscription and the copy of the recent       *)
(* entries, in whatever order threads broadcast and append (push,          *)
(* handle_logs_tail).                                                      *)
THEOREM NothingFallsBetween == Spec => []NothingBetween
  <1>1. TailInv => NothingBetween
    <2> SUFFICES ASSUME TailInv, NEW t \in Tails, stage[t] = "open", initial[t] = <<>>,
                        [kind |-> "lagged"] \notin ToSet(events[t])
                 PROVE  1..next[t] - 1 \subseteq Shown(t) \cup excused[t]
      BY DEF NothingBetween
    <2>1. ToSet(<<>>) = {}
      BY DEF ToSet
    <2> QED
      BY <2>1 DEF TailInv, NothingMissing, Held
  <1> QED
    BY <1>1, TailHolds, PTL

(* What a page does not show it was told of, however slow it is and in     *)
(* whatever order threads log.                                             *)
THEOREM NothingIsEverMissed == Spec => []NothingIsMissed
  <1>1. NoSilentGap /\ NothingBetween => NothingIsMissed
    BY DEF NothingIsMissed
  <1> QED
    BY <1>1, GapsAreTold, NothingFallsBetween, PTL

-----------------------------------------------------------------------------
(* The log files (LogFiles).                                               *)

(* A directory that holds what was logged: each file has the lines of its  *)
(* day, a file later than a logged day was logged to (a file that earlier  *)
(* processes left is older than all that), and what was removed has        *)
(* MaxFiles logged days after it.                                          *)
Keeps(fs, lg) ==
  /\ DOMAIN fs \subseteq {d \in F!Days : d <= today}
  /\ \A d \in DOMAIN fs : fs[d] = lg[d]
  /\ \A d \in DOMAIN fs, e \in F!Days : e < d /\ lg[e] # <<>> => lg[d] # <<>>
  /\ \A d \in F!Days \ DOMAIN fs :
       lg[d] # <<>> => Cardinality({e \in F!Days : e > d /\ lg[e] # <<>>}) >= MaxFiles

FilesInv ==
  /\ today \in F!Days /\ lines \in Nat /\ lfFailures \in Nat
  /\ logged \in [F!Days -> Seq(Nat)]
  /\ \A d \in F!Days : logged[d] # <<>> => d <= today
  /\ open \in DOMAIN files \cup {0}
  /\ Keeps(files, logged)
  /\ Cardinality(DOMAIN files) <= MaxFiles + lfFailures
  /\ DOMAIN listed = {"listing", "day", "lines"} /\ listed.day \in F!Days \cup {0}
  /\ F!PageIsOfTheDay

LEMMA FilesConstants ==
  /\ MaxFiles \in Nat \ {0} /\ Limit \in Nat /\ MaxDays \in Nat
  /\ MaxLines \in Nat /\ MaxFailures \in Nat
  /\ F!Days = 1..MaxDays
  BY PartsAssumption DEF PartsAssumption, F!LogFilesAssumption, F!Days

LEMMA SameCardinality == \A D : F!Cardinality(D) = Cardinality(D)
  BY DEF F!Cardinality, Cardinality

LEMMA DaysAreFinite ==
  ASSUME NEW D \in SUBSET F!Days
  PROVE  IsFiniteSet(D) /\ Cardinality(D) \in Nat
  <1>1. IsFiniteSet(1..MaxDays)
    BY FilesConstants, FS_Interval
  <1> QED
    BY <1>1, FilesConstants, FS_Subset, FS_CardinalityType

(* The first of a set of days: the order of finite subsets by inclusion is *)
(* well founded, and so is that of the days before each day.               *)
LEMMA FirstDay ==
  ASSUME NEW D \in SUBSET F!Days, D # {}
  PROVE  \E m \in D : \A d \in D : m <= d
  <1> DEFINE before(d) == {e \in D : e < d}
             befores == {before(d) : d \in D}
  <1>1. IsWellFoundedOn(StrictSubsetOrdering(D), FiniteSubsetsOf(D))
    BY FS_StrictSubsetOrderingWellFounded
  <1>2. FiniteSubsetsOf(D) = SUBSET D
    BY DaysAreFinite, FS_FiniteSubsetsOfFinite
  <1>3. befores \subseteq SUBSET D /\ befores # {}
    OBVIOUS
  <1>4. PICK s \in befores : \A u \in befores : <<u, s>> \notin StrictSubsetOrdering(D)
    <2>1. befores \subseteq FiniteSubsetsOf(D)
      BY <1>2, <1>3
    <2> HIDE DEF befores
    <2> QED
      BY <1>1, <1>3, <2>1, WFMin
  <1>5. PICK m \in D : s = before(m)
    OBVIOUS
  <1>6. ASSUME NEW d \in D, ~(m <= d)
        PROVE  FALSE
    <2>1. \A e \in D : e \in Int
      BY FilesConstants
    <2>2. d < m /\ (\A e \in D : e < d => e < m) /\ ~(d < d)
      BY <1>6, <2>1
    <2>3. <<before(d), before(m)>> \in StrictSubsetOrdering(D)
      <3>1. before(d) \subseteq before(m) /\ d \in before(m) /\ d \notin before(d)
        BY <2>2
      <3> QED
        BY <3>1 DEF StrictSubsetOrdering
    <2> QED
      BY <2>3, <1>4, <1>5
  <1> QED
    BY <1>6

(* No more than n of the days are among the newest n.                      *)
LEMMA NewestAreFew ==
  ASSUME NEW D \in SUBSET F!Days, NEW n \in Nat
  PROVE  /\ F!Newest(D, n) \subseteq D
         /\ Cardinality(F!Newest(D, n)) <= n
         /\ \A d \in D \ F!Newest(D, n) : Cardinality({e \in D : e > d}) >= n
         /\ \A d \in D : {e \in D : e > d} = {} /\ n > 0 => d \in F!Newest(D, n)
  <1> DEFINE N == F!Newest(D, n)
             after(d) == {e \in D : e > d}
  <1>1. N = {d \in D : Cardinality(after(d)) < n}
    BY SameCardinality DEF F!Newest
  <1>2. \A d \in D : Cardinality(after(d)) \in Nat
    BY DaysAreFinite
  <1> HIDE DEF N
  <1>3. N \in SUBSET D /\ N \in SUBSET F!Days
    BY <1>1
  <1>4. IsFiniteSet(N) /\ Cardinality(N) \in Nat
    BY <1>3, DaysAreFinite
  <1>5. Cardinality(N) <= n
    <2>1. CASE N = {}
      BY <2>1, FS_EmptySet
    <2>2. CASE N # {}
      <3>1. PICK m \in N : \A d \in N : m <= d
        BY <1>3, <2>2, FirstDay
      <3>2. \A d \in N : d \in D /\ d \in Int /\ m \in Int
        BY <1>3, <3>1, FilesConstants
      <3>3. N \ {m} \subseteq after(m) /\ after(m) \in SUBSET F!Days
        BY <3>1, <3>2
      <3>4. Cardinality(N \ {m}) = Cardinality(N) - 1
        BY <1>4, <3>1, FS_RemoveElement
      <3>5. Cardinality(N \ {m}) <= Cardinality(after(m))
        BY <3>3, DaysAreFinite, FS_Subset
      <3>6. Cardinality(after(m)) < n /\ Cardinality(after(m)) \in Nat
        BY <1>1, <1>2, <3>1
      <3> QED
        BY <1>4, <3>4, <3>5, <3>6
    <2> QED
      BY <2>1, <2>2
  <1>6. \A d \in D \ N : Cardinality(after(d)) >= n
    BY <1>1, <1>2
  <1>7. \A d \in D : after(d) = {} /\ n > 0 => d \in N
    BY <1>1, FS_EmptySet
  <1> QED
    BY <1>3, <1>5, <1>6, <1>7 DEF N

(* Pruning removes what MaxFiles newer files are there for.                *)
LEMMA PruneKeeps ==
  ASSUME NEW fs, NEW lg, Keeps(fs, lg), lfFailures \in Nat, F!Prune(fs)
  PROVE  /\ Keeps(files', lg)
         /\ lfFailures' \in Nat /\ Cardinality(DOMAIN files') <= MaxFiles + lfFailures'
         /\ today \in DOMAIN fs => today \in DOMAIN files'
  <1> DEFINE N == F!Newest(DOMAIN fs, MaxFiles)
             logs == {d \in F!Days : lg[d] # <<>>}
  <1>1. MaxFiles \in Nat /\ MaxFiles > 0 /\ DOMAIN fs \in SUBSET F!Days
    BY FilesConstants DEF Keeps
  <1>2. /\ N \subseteq DOMAIN fs /\ Cardinality(N) <= MaxFiles
        /\ \A d \in DOMAIN fs \ N : Cardinality({e \in DOMAIN fs : e > d}) >= MaxFiles
        /\ \A d \in DOMAIN fs : {e \in DOMAIN fs : e > d} = {} => d \in N
    BY <1>1, NewestAreFew
  <1>3. PICK stuck \in SUBSET (DOMAIN fs \ N) :
          /\ lfFailures' = lfFailures + Cardinality(stuck)
          /\ files' = [d \in N \cup stuck |-> fs[d]]
    BY SameCardinality DEF F!Prune, F!Pruned, F!Restrict
  <1> HIDE DEF N
  <1>4. DOMAIN files' = N \cup stuck /\ \A d \in DOMAIN files' : files'[d] = fs[d]
    BY <1>3
  <1>5. lfFailures' \in Nat /\ Cardinality(DOMAIN files') <= MaxFiles + lfFailures'
    <2>1. N \in SUBSET F!Days /\ stuck \in SUBSET F!Days
      BY <1>1, <1>2
    <2>2. /\ IsFiniteSet(N) /\ IsFiniteSet(stuck) /\ Cardinality(N) \in Nat
          /\ Cardinality(stuck) \in Nat /\ Cardinality(N \cap stuck) \in Nat
      BY <2>1, DaysAreFinite
    <2>3. Cardinality(N \cup stuck) = Cardinality(N) + Cardinality(stuck) - Cardinality(N \cap stuck)
      BY <2>2, FS_Union
    <2> QED
      BY <1>1, <1>2, <1>3, <1>4, <2>2, <2>3
  <1>6. today \in DOMAIN fs => today \in DOMAIN files'
    <2>1. ASSUME today \in DOMAIN fs PROVE {e \in DOMAIN fs : e > today} = {}
      BY <2>1, FilesConstants DEF Keeps
    <2> QED
      BY <1>2, <1>4, <2>1
  <1>7. ASSUME NEW d \in F!Days \ DOMAIN files', lg[d] # <<>>
        PROVE  Cardinality({e \in F!Days : e > d /\ lg[e] # <<>>}) >= MaxFiles
    <2>1. CASE d \notin DOMAIN fs
      BY <1>7, <2>1 DEF Keeps
    <2>2. CASE d \in DOMAIN fs
      <3>1. Cardinality({e \in DOMAIN fs : e > d}) >= MaxFiles
        BY <1>2, <1>4, <1>7, <2>2
      <3>2. \A e \in DOMAIN fs : e > d => e \in F!Days /\ lg[e] # <<>>
        BY <1>7, FilesConstants DEF Keeps
      <3>3. {e \in DOMAIN fs : e > d} \subseteq {e \in F!Days : e > d /\ lg[e] # <<>>}
        BY <3>2
      <3>4. /\ Cardinality({e \in DOMAIN fs : e > d})
                 <= Cardinality({e \in F!Days : e > d /\ lg[e] # <<>>})
            /\ Cardinality({e \in DOMAIN fs : e > d}) \in Nat
            /\ Cardinality({e \in F!Days : e > d /\ lg[e] # <<>>}) \in Nat
        <4>1. {e \in F!Days : e > d /\ lg[e] # <<>>} \in SUBSET F!Days
          OBVIOUS
        <4> QED
          BY <1>1, <3>3, <4>1, DaysAreFinite, FS_Subset
      <3> QED
        BY <1>1, <3>1, <3>4
    <2> QED
      BY <2>1, <2>2
  <1>8. Keeps(files', lg)
    BY <1>2, <1>4, <1>7 DEF Keeps
  <1> QED
    BY <1>5, <1>6, <1>8

(* A line goes to the file of today, opened or not.                        *)
Taken == [d \in DOMAIN files \cup {today} |->
            IF d = today THEN Append(IF d \in DOMAIN files THEN files[d] ELSE <<>>, lines + 1)
            ELSE files[d]]

LEMMA TakenKeeps ==
  ASSUME FilesInv, F!IsLogged
  PROVE  /\ Keeps(Taken, logged') /\ today \in DOMAIN Taken
         /\ logged' \in [F!Days -> Seq(Nat)]
         /\ \A d \in F!Days : logged'[d] # <<>> => d <= today
  <1>1. /\ logged' = [logged EXCEPT ![today] = Append(@, lines + 1)]
        /\ today \in F!Days /\ lines + 1 \in Nat
        /\ logged \in [F!Days -> Seq(Nat)] /\ Keeps(files, logged)
        /\ \A d \in F!Days : logged[d] # <<>> => d <= today
    BY DEF F!IsLogged, F!Line, FilesInv
  <1>2. /\ logged' \in [F!Days -> Seq(Nat)]
        /\ logged'[today] = Append(logged[today], lines + 1)
        /\ \A d \in F!Days \ {today} : logged'[d] = logged[d]
    BY <1>1
  <1>3. \A d \in F!Days : d \in Int /\ MaxFiles \in Nat \ {0} /\ today \in Int
    BY <1>1, FilesConstants
  <1>4. ASSUME today \notin DOMAIN files
        PROVE  logged[today] = <<>>
    <2>1. {e \in F!Days : e > today /\ logged[e] # <<>>} = {}
      BY <1>1, <1>3
    <2>2. Cardinality({e \in F!Days : e > today /\ logged[e] # <<>>}) = 0
      BY <2>1, FS_EmptySet
    <2> QED
      BY <1>1, <1>3, <1>4, <2>2, SMTT(30) DEF Keeps
  <1>5. logged'[today] # <<>> /\ \A d \in F!Days : logged[d] # <<>> => logged'[d] # <<>>
    BY <1>1, <1>2
  <1>6. /\ DOMAIN Taken = DOMAIN files \cup {today}
        /\ \A d \in DOMAIN files \ {today} : Taken[d] = files[d]
        /\ Taken[today] = Append(IF today \in DOMAIN files THEN files[today] ELSE <<>>, lines + 1)
    BY DEF Taken
  <1>7. \A d \in DOMAIN Taken : Taken[d] = logged'[d]
    BY <1>1, <1>2, <1>4, <1>6 DEF Keeps
  <1>8. ASSUME NEW d \in DOMAIN Taken, NEW e \in F!Days, e < d, logged'[e] # <<>>
        PROVE  logged'[d] # <<>>
    <2>1. CASE d = today
      BY <1>5, <2>1
    <2>2. CASE d # today
      <3>1. d \in DOMAIN files /\ d <= today /\ d \in F!Days
        BY <1>1, <1>6, <2>2 DEF Keeps
      <3>2. e # today /\ logged[e] # <<>>
        BY <1>2, <1>3, <1>8, <3>1
      <3> QED
        BY <1>1, <1>5, <1>8, <3>1, <3>2 DEF Keeps
    <2> QED
      BY <2>1, <2>2
  <1>9. ASSUME NEW d \in F!Days \ DOMAIN Taken, logged'[d] # <<>>
        PROVE  Cardinality({e \in F!Days : e > d /\ logged'[e] # <<>>}) >= MaxFiles
    <2> DEFINE old == {e \in F!Days : e > d /\ logged[e] # <<>>}
               new == {e \in F!Days : e > d /\ logged'[e] # <<>>}
    <2>1. d # today /\ d \notin DOMAIN files /\ logged[d] # <<>>
      BY <1>2, <1>6, <1>9
    <2>2. Cardinality(old) >= MaxFiles
      BY <1>1, <2>1 DEF Keeps
    <2>3. old \subseteq new /\ new \in SUBSET F!Days
      BY <1>5
    <2>4. Cardinality(old) <= Cardinality(new) /\ Cardinality(old) \in Nat /\ Cardinality(new) \in Nat
      BY <2>3, DaysAreFinite, FS_Subset
    <2> QED
      BY <1>3, <2>2, <2>4
  <1>10. DOMAIN Taken \subseteq {d \in F!Days : d <= today}
    BY <1>1, <1>3, <1>6 DEF Keeps
  <1>11. \A d \in F!Days : logged'[d] # <<>> => d <= today
    BY <1>1, <1>2, <1>3
  <1>12. Keeps(Taken, logged')
    BY <1>7, <1>8, <1>9, <1>10 DEF Keeps
  <1> QED
    BY <1>2, <1>6, <1>11, <1>12

LEMMA PrefixOfAppend ==
  ASSUME NEW s \in Seq(Nat), NEW e \in Nat, NEW n \in 0..Len(s)
  PROVE  SubSeq(Append(s, e), 1, n) = SubSeq(s, 1, n)
  <1>1. /\ Len(s) \in Nat /\ n \in Int /\ Append(s, e) \in Seq(Nat)
        /\ Len(Append(s, e)) = Len(s) + 1
        /\ \A i \in 1..Len(s) : Append(s, e)[i] = s[i] /\ s[i] \in Nat
    OBVIOUS
  <1>2. \A i \in 1..n : Append(s, e)[i] = s[i] /\ s[i] \in Nat /\ Append(s, e)[i] \in Nat
    BY <1>1
  <1>3. SubSeq(s, 1, n) = [i \in 1..n |-> s[i]]
    BY <1>1
  <1>4. SubSeq(Append(s, e), 1, n) = [i \in 1..n |-> Append(s, e)[i]]
    BY <1>1
  <1> QED
    BY <1>2, <1>3, <1>4

(* What the page shows stays the end of what was logged up to some line.   *)
LEMMA PageStays ==
  ASSUME FilesInv, F!IsLogged
  PROVE  F!PageIsOfTheDay'
  <1>1. /\ UNCHANGED listed
        /\ logged' = [logged EXCEPT ![today] = Append(@, lines + 1)]
        /\ logged \in [F!Days -> Seq(Nat)] /\ today \in F!Days /\ lines + 1 \in Nat
        /\ listed.day \in F!Days \cup {0}
    BY DEF F!IsLogged, F!Line, FilesInv
  <1> SUFFICES ASSUME listed.day # 0
               PROVE  \E n \in 0..Len(logged'[listed.day]) :
                        listed.lines = F!LastOf(SubSeq(logged'[listed.day], 1, n), Limit)
    BY <1>1 DEF F!PageIsOfTheDay
  <1>2. PICK n \in 0..Len(logged[listed.day]) :
          listed.lines = F!LastOf(SubSeq(logged[listed.day], 1, n), Limit)
    BY DEF FilesInv, F!PageIsOfTheDay
  <1>3. CASE listed.day # today
    <2>1. logged'[listed.day] = logged[listed.day]
      BY <1>1, <1>3
    <2> QED
      BY <1>2, <2>1
  <1>4. CASE listed.day = today
    <2>1. /\ logged'[today] = Append(logged[today], lines + 1)
          /\ logged[today] \in Seq(Nat)
      BY <1>1
    <2>2. SubSeq(logged'[today], 1, n) = SubSeq(logged[today], 1, n)
      BY <1>1, <1>2, <1>4, <2>1, PrefixOfAppend
    <2>3. n \in 0..Len(logged'[today])
      BY <1>1, <1>2, <1>4, <2>1
    <2> QED
      BY <1>2, <1>4, <2>2, <2>3
  <1> QED
    BY <1>3, <1>4

LEMMA FilesInit == F!Init => FilesInv
  <1> SUFFICES ASSUME F!Init PROVE FilesInv
    OBVIOUS
  <1>1. /\ today \in F!Days /\ logged = [d \in F!Days |-> <<>>] /\ open = 0 /\ lines = 0
        /\ lfFailures = 0 /\ listed = [listing |-> <<>>, day |-> 0, lines |-> <<>>]
    BY DEF F!Init, F!NoPage
  <1>2. PICK before \in SUBSET {d \in F!Days : d <= today} :
          files = [d \in F!Newest(before, MaxFiles) |-> <<>>]
    BY DEF F!Init
  <1>3. /\ F!Newest(before, MaxFiles) \subseteq before
        /\ Cardinality(F!Newest(before, MaxFiles)) <= MaxFiles
    BY FilesConstants, NewestAreFew
  <1> DEFINE N == F!Newest(before, MaxFiles)
  <1> HIDE DEF N
  <1>4. DOMAIN files = N /\ N \subseteq {d \in F!Days : d <= today} /\ \A d \in N : files[d] = <<>>
    BY <1>2, <1>3 DEF N
  <1>5. Keeps(files, logged)
    BY <1>1, <1>4 DEF Keeps
  <1>6. Cardinality(DOMAIN files) <= MaxFiles + lfFailures
    BY <1>1, <1>3, <1>4, FilesConstants DEF N
  <1>7. F!PageIsOfTheDay /\ DOMAIN listed = {"listing", "day", "lines"} /\ listed.day = 0
    BY <1>1 DEF F!PageIsOfTheDay
  <1>8. logged \in [F!Days -> Seq(Nat)] /\ \A d \in F!Days : logged[d] = <<>>
    BY <1>1
  <1> QED
    BY <1>1, <1>5, <1>6, <1>7, <1>8 DEF FilesInv

LEMMA FilesStep == FilesInv /\ [F!Next]_(F!vars) => FilesInv'
  <1> SUFFICES ASSUME FilesInv, [F!Next]_(F!vars) PROVE FilesInv'
    OBVIOUS
  <1>1. CASE UNCHANGED F!vars
    BY <1>1 DEF F!vars, FilesInv, Keeps, F!PageIsOfTheDay
  <1>2. CASE F!ClockTurns
    <2>1. /\ today' \in F!Days /\ today' = today + 1
          /\ UNCHANGED <<files, open, listed, lines, lfFailures, logged>>
      BY <1>2, FilesConstants DEF F!ClockTurns
    <2>2. \A d \in F!Days : d <= today => d <= today'
      BY <2>1, FilesConstants DEF FilesInv
    <2>3. Keeps(files, logged)'
      BY <2>1, <2>2 DEF Keeps, FilesInv
    <2>4. F!PageIsOfTheDay'
      BY <2>1 DEF F!PageIsOfTheDay, FilesInv
    <2> QED
      BY <2>1, <2>2, <2>3, <2>4 DEF FilesInv
  <1>3. CASE F!Log
    <2>1. F!IsLogged /\ lines' = lines + 1 /\ UNCHANGED <<today, listed>>
      BY <1>3 DEF F!Log, F!IsLogged, F!Line
    <2>2. /\ Keeps(Taken, logged') /\ today \in DOMAIN Taken
          /\ logged' \in [F!Days -> Seq(Nat)]
          /\ \A d \in F!Days : logged'[d] # <<>> => d <= today
      BY <2>1, TakenKeeps
    <2>3. /\ Keeps(files', logged') /\ open' \in DOMAIN files' \cup {0}
          /\ lfFailures' \in Nat /\ Cardinality(DOMAIN files') <= MaxFiles + lfFailures'
      <3>1. CASE F!WriteOpen
        <4>1. /\ open = today /\ UNCHANGED <<open, lfFailures>>
              /\ files' = F!Written(files, today)
          BY <3>1 DEF F!WriteOpen
        <4>2. today \in DOMAIN files
          BY <4>1, FilesConstants DEF FilesInv
        <4>3. files' = Taken /\ DOMAIN files' = DOMAIN files
          BY <4>1, <4>2 DEF F!Written, F!Line, Taken
        <4> QED
          BY <2>2, <4>1, <4>2, <4>3 DEF FilesInv
      <3>2. CASE F!Rotated
        <4>1. F!Written(F!Opened(files), today) = Taken
          BY DEF F!Written, F!Opened, F!Line, Taken
        <4>2. open' = today /\ F!Prune(Taken)
          BY <3>2, <4>1 DEF F!Rotated
        <4> QED
          BY <2>2, <4>2, PruneKeeps DEF FilesInv
      <3> QED
        BY <1>3, <3>1, <3>2 DEF F!Log
    <2>4. Keeps(files, logged)'
      BY <2>1, <2>3 DEF Keeps
    <2>5. F!PageIsOfTheDay'
      BY <2>1, PageStays
    <2> QED
      BY <2>1, <2>2, <2>3, <2>4, <2>5 DEF FilesInv
  <1>4. CASE F!OpenFails
    <2>1. /\ UNCHANGED <<today, files, open, listed, lines, logged>>
          /\ lfFailures' = lfFailures + 1
      BY <1>4 DEF F!OpenFails
    <2>2. Cardinality(DOMAIN files) \in Nat
      BY DaysAreFinite DEF FilesInv, Keeps
    <2>3. Cardinality(DOMAIN files) <= MaxFiles + lfFailures' /\ lfFailures' \in Nat
      BY <2>1, <2>2, FilesConstants DEF FilesInv
    <2> QED
      BY <2>1, <2>3 DEF FilesInv, Keeps, F!PageIsOfTheDay
  <1>5. CASE F!Restart
    <2>1. open' = 0 /\ F!Prune(files) /\ UNCHANGED <<today, listed, lines, logged>>
      BY <1>5 DEF F!Restart
    <2>2. /\ Keeps(files', logged)
          /\ lfFailures' \in Nat /\ Cardinality(DOMAIN files') <= MaxFiles + lfFailures'
      BY <2>1, PruneKeeps DEF FilesInv
    <2>3. Keeps(files, logged)'
      BY <2>1, <2>2 DEF Keeps
    <2> QED
      BY <2>1, <2>2, <2>3 DEF FilesInv, F!PageIsOfTheDay
  <1>6. CASE F!List
    <2>1. /\ UNCHANGED <<today, files, open, lines, lfFailures, logged>>
          /\ DOMAIN listed' = {"listing", "day", "lines"} /\ listed'.day = 0
      BY <1>6 DEF F!List, F!NoPage
    <2> QED
      BY <2>1 DEF FilesInv, Keeps, F!PageIsOfTheDay
  <1>7. ASSUME NEW d \in F!Days, F!Read(d)
        PROVE  FilesInv'
    <2>1. /\ UNCHANGED <<today, files, open, lines, lfFailures, logged>>
          /\ d \in DOMAIN files
          /\ listed' = [listed EXCEPT !.day = d, !.lines = F!LastOf(files[d], Limit)]
      BY <1>7 DEF F!Read
    <2>2. /\ DOMAIN listed' = {"listing", "day", "lines"} /\ listed'.day = d
          /\ listed'.lines = F!LastOf(logged[d], Limit)
      BY <2>1 DEF FilesInv, Keeps
    <2>3. logged[d] \in Seq(Nat) /\ Len(logged[d]) \in 0..Len(logged[d])
      BY DEF FilesInv
    <2>4. SubSeq(logged[d], 1, Len(logged[d])) = logged[d]
      BY <2>3
    <2>5. F!PageIsOfTheDay'
      BY <2>1, <2>2, <2>3, <2>4 DEF F!PageIsOfTheDay
    <2> QED
      BY <2>1, <2>2, <2>5 DEF FilesInv, Keeps
  <1> QED
    BY <1>1, <1>2, <1>3, <1>4, <1>5, <1>6, <1>7 DEF F!Next

LEMMA FilesInvKeeps == FilesInv => F!LogIsKept
  <1> SUFFICES ASSUME FilesInv PROVE F!LogIsKept
    OBVIOUS
  <1>1. F!LinesAreKept
    BY SameCardinality DEF F!LinesAreKept, FilesInv, Keeps
  <1>2. F!FilesAreFew
    BY SameCardinality DEF F!FilesAreFew, FilesInv
  <1> QED
    BY <1>1, <1>2 DEF F!LogIsKept, FilesInv

-----------------------------------------------------------------------------
(* The overlay list (OverlayStore).                                        *)

(* An answer being made, or the cached one: when it was stamped, what it   *)
(* lists, and what it has looked at and does not list.                     *)
IsScan(r) == request[r].at \in {"scanning", "found"}
Missed(r) == Folders \ (request[r].left \cup request[r].found)
CacheMissed == Folders \ cache.found

(* It is true of request q, if they have one stamp: whatever it lists was  *)
(* there while q was under way, or is excused; and so for what it misses.  *)
TrueOf(q, stamp, found, missed) ==
  O!UnderWay(q) /\ request[q].stamp = stamp =>
    /\ found \subseteq present[q] \cup ovExcused[q]
    /\ missed \subseteq absent[q] \cup ovExcused[q]

(* It is true now, if the root has not changed since.                      *)
TrueNow(stamp, found, missed) ==
  stamp = time =>
    /\ found \subseteq O!Overlays \cup late
    /\ missed \cap O!Overlays \subseteq late

ScansAreTrue ==
  \A r \in Requests : IsScan(r) =>
    /\ TrueNow(request[r].stamp, request[r].found, Missed(r))
    /\ \A q \in Requests : TrueOf(q, request[r].stamp, request[r].found, Missed(r))

CacheIsTrue ==
  cache.made =>
    /\ TrueNow(cache.stamp, cache.found, CacheMissed)
    /\ \A q \in Requests : TrueOf(q, cache.stamp, cache.found, CacheMissed)

(* What the root is now was seen by every request under way.               *)
NowIsSeen ==
  \A r \in Requests : O!UnderWay(r) =>
    O!Overlays \subseteq present[r] /\ Folders \ O!Overlays \subseteq absent[r]

OverlayTypes ==
  /\ time \in Nat
  /\ DOMAIN disk \subseteq Folders
  /\ cache \in [made : BOOLEAN, stamp : Nat, found : SUBSET Folders]
  /\ request \in [Requests -> [at : O!Stages, stamp : Nat, left : SUBSET Folders,
                               found : SUBSET Folders]]
  /\ {present, absent, ovExcused} \subseteq [Requests -> SUBSET Folders]
  /\ late \subseteq Folders

StagesAgree ==
  /\ cache.made => cache.stamp <= time
  /\ \A r \in Requests :
       /\ request[r].stamp <= time
       /\ request[r].left \cap request[r].found = {}
       /\ request[r].at = "stamped" => request[r].found = {} /\ request[r].left = {}
       /\ request[r].at = "found" => request[r].left = {}

OverlaysInv ==
  /\ OverlayTypes /\ StagesAgree
  /\ NowIsSeen /\ ScansAreTrue /\ CacheIsTrue
  /\ O!AnswerIsOfItsTime

LEMMA RequestWith ==
  ASSUME OverlayTypes, NEW r \in Requests, NEW to, request' = [request EXCEPT ![r] = to]
  PROVE  request'[r] = to /\ \A q \in Requests \ {r} : request'[q] = request[q]
  BY DEF OverlayTypes

LEMMA OverlaysInit == O!Init => OverlaysInv
  BY DEF O!Init, O!New, O!Stages, OverlaysInv, OverlayTypes, StagesAgree, NowIsSeen, ScansAreTrue,
         CacheIsTrue, IsScan, O!UnderWay, O!AnswerIsOfItsTime

(* The folders change: nothing stamped is of the root that comes, or the   *)
(* folder that changed inside is late; what is seen is seen.               *)
LEMMA FoldersStep ==
  ASSUME OverlaysInv, NEW f \in Folders, O!ChangeRoot(f) \/ O!ChangeIndex(f)
  PROVE  OverlaysInv'
  <1> USE DEF OverlaysInv
  <1>1. /\ UNCHANGED <<cache, request, ovFailures, ovExcused>>
        /\ present' = [r \in Requests |-> present[r] \cup IF O!UnderWay(r) THEN O!Overlays' ELSE {}]
        /\ absent' = [r \in Requests |->
                        absent[r] \cup IF O!UnderWay(r) THEN Folders \ O!Overlays' ELSE {}]
    BY DEF O!ChangeRoot, O!ChangeIndex, O!Seen
  <1>2. \A r \in Requests : O!UnderWay(r)' <=> O!UnderWay(r)
    BY <1>1 DEF O!UnderWay
  <1>3. /\ time' \in Nat /\ time' >= time
        /\ DOMAIN disk' \subseteq Folders /\ late' \subseteq Folders
    BY DEF O!ChangeRoot, O!ChangeIndex, OverlayTypes
  <1>4. O!Overlays' \subseteq Folders
    BY <1>3 DEF O!Overlays
  <1>5. /\ OverlayTypes'
        /\ \A r \in Requests :
             present[r] \subseteq present'[r] /\ absent[r] \subseteq absent'[r]
    BY <1>1, <1>3, <1>4 DEF OverlayTypes
  <1>6. StagesAgree'
    BY <1>1, <1>3 DEF StagesAgree, OverlayTypes
  <1>7. NowIsSeen'
    BY <1>1, <1>2 DEF NowIsSeen
  <1>8. ASSUME NEW stamp \in Nat, stamp <= time, NEW found, NEW missed,
               TrueNow(stamp, found, missed)
        PROVE  TrueNow(stamp, found, missed)'
    <2>1. CASE O!ChangeRoot(f)
      <3>1. stamp # time'
        BY <1>8, <2>1 DEF O!ChangeRoot, OverlayTypes
      <3> QED
        BY <3>1 DEF TrueNow
    <2>2. CASE O!ChangeIndex(f)
      <3>1. /\ disk' = [disk EXCEPT ![f] = ~@] /\ f \in DOMAIN disk
            /\ late' = late \cup {f} /\ time' = time
        BY <2>2 DEF O!ChangeIndex
      <3>2. \A g : g # f => (g \in O!Overlays' <=> g \in O!Overlays)
        BY <3>1 DEF O!Overlays
      <3> QED
        BY <1>8, <3>1, <3>2 DEF TrueNow
    <2> QED
      BY <2>1, <2>2
  <1>9. ASSUME NEW q \in Requests, NEW stamp, NEW found, NEW missed,
               TrueOf(q, stamp, found, missed)
        PROVE  TrueOf(q, stamp, found, missed)'
    BY <1>1, <1>2, <1>5, <1>9 DEF TrueOf
  <1>10. ScansAreTrue'
    <2> SUFFICES ASSUME NEW r \in Requests, IsScan(r)'
                 PROVE  /\ TrueNow(request[r].stamp, request[r].found, Missed(r))'
                        /\ \A q \in Requests :
                             TrueOf(q, request[r].stamp, request[r].found, Missed(r))'
      BY DEF ScansAreTrue
    <2>1. request'[r] = request[r] /\ Missed(r)' = Missed(r) /\ IsScan(r)
      BY <1>1 DEF Missed, IsScan
    <2>2. request[r].stamp \in Nat /\ request[r].stamp <= time
      BY DEF OverlayTypes, StagesAgree
    <2>3. /\ TrueNow(request[r].stamp, request[r].found, Missed(r))
          /\ \A q \in Requests : TrueOf(q, request[r].stamp, request[r].found, Missed(r))
      BY <2>1 DEF ScansAreTrue
    <2>4. TrueNow(request[r].stamp, request[r].found, Missed(r))'
      BY <1>8, <2>1, <2>2, <2>3 DEF TrueNow
    <2>5. ASSUME NEW q \in Requests
          PROVE  TrueOf(q, request[r].stamp, request[r].found, Missed(r))'
      BY <1>9, <2>1, <2>3 DEF TrueOf
    <2> QED
      BY <2>4, <2>5
  <1>11. CacheIsTrue'
    <2> SUFFICES ASSUME cache.made
                 PROVE  CacheIsTrue'
      BY <1>1 DEF CacheIsTrue
    <2>1. cache.stamp \in Nat /\ cache.stamp <= time /\ CacheMissed' = CacheMissed
      BY <1>1 DEF OverlayTypes, StagesAgree, CacheMissed
    <2>2. /\ TrueNow(cache.stamp, cache.found, CacheMissed)
          /\ \A q \in Requests : TrueOf(q, cache.stamp, cache.found, CacheMissed)
      BY DEF CacheIsTrue
    <2>3. TrueNow(cache.stamp, cache.found, CacheMissed)'
      BY <1>1, <1>8, <2>1, <2>2 DEF TrueNow
    <2>4. \A q \in Requests : TrueOf(q, cache.stamp, cache.found, CacheMissed)'
      BY <1>1, <1>9, <2>1, <2>2 DEF TrueOf
    <2> QED
      BY <2>3, <2>4 DEF CacheIsTrue
  <1>12. O!AnswerIsOfItsTime'
    BY <1>1, <1>5 DEF O!AnswerIsOfItsTime
  <1> QED
    BY <1>5, <1>6, <1>7, <1>10, <1>11, <1>12

(* A request comes: what is true now is true of it.                        *)
LEMMA StampStep ==
  ASSUME OverlaysInv, NEW r \in Requests, O!Stamp(r)
  PROVE  OverlaysInv'
  <1> USE DEF OverlaysInv
  <1> DEFINE to == [O!New EXCEPT !.at = "stamped", !.stamp = time]
  <1>0. /\ to.at = "stamped" /\ to.stamp = time /\ to.left = {} /\ to.found = {}
        /\ to \in [at : O!Stages, stamp : Nat, left : SUBSET Folders, found : SUBSET Folders]
    BY DEF O!New, O!Stages, OverlayTypes
  <1>1. /\ request' = [request EXCEPT ![r] = to]
        /\ present' = [present EXCEPT ![r] = O!Overlays]
        /\ absent' = [absent EXCEPT ![r] = Folders \ O!Overlays]
        /\ ovExcused' = [ovExcused EXCEPT ![r] = late]
        /\ UNCHANGED <<disk, time, cache, ovFailures, late>>
    BY DEF O!Stamp
  <1> HIDE DEF to
  <1>2. /\ request'[r] = to /\ present'[r] = O!Overlays /\ absent'[r] = Folders \ O!Overlays
        /\ ovExcused'[r] = late
        /\ \A q \in Requests \ {r} :
             /\ request'[q] = request[q] /\ present'[q] = present[q]
             /\ absent'[q] = absent[q] /\ ovExcused'[q] = ovExcused[q]
    BY <1>1 DEF OverlayTypes
  <1>3. O!Overlays \subseteq Folders /\ O!Overlays' = O!Overlays
    BY <1>1 DEF O!Overlays, OverlayTypes
  <1>4. OverlayTypes'
    <2>1. request' \in [Requests -> [at : O!Stages, stamp : Nat, left : SUBSET Folders,
                                     found : SUBSET Folders]]
      BY <1>0, <1>1 DEF OverlayTypes
    <2>2. /\ present' \in [Requests -> SUBSET Folders]
          /\ absent' \in [Requests -> SUBSET Folders]
          /\ ovExcused' \in [Requests -> SUBSET Folders]
      BY <1>1, <1>3 DEF OverlayTypes
    <2> QED
      BY <1>1, <2>1, <2>2 DEF OverlayTypes
  <1>5. StagesAgree'
    BY <1>1, <1>0, <1>2 DEF StagesAgree, OverlayTypes
  <1>6. NowIsSeen'
    BY <1>0, <1>2, <1>3 DEF NowIsSeen, O!UnderWay
  <1>7. ASSUME NEW stamp, NEW found, NEW missed, missed \subseteq Folders,
               TrueNow(stamp, found, missed), NEW q \in Requests,
               TrueOf(q, stamp, found, missed)
        PROVE  TrueOf(q, stamp, found, missed)'
    <2>1. CASE q = r
      BY <1>0, <1>2, <1>7, <2>1 DEF TrueNow, TrueOf
    <2>2. CASE q # r
      BY <1>2, <1>7, <2>2 DEF TrueOf, O!UnderWay
    <2> QED
      BY <2>1, <2>2
  <1>8. ScansAreTrue'
    <2> SUFFICES ASSUME NEW p \in Requests, IsScan(p)'
                 PROVE  /\ TrueNow(request[p].stamp, request[p].found, Missed(p))'
                        /\ \A q \in Requests :
                             TrueOf(q, request[p].stamp, request[p].found, Missed(p))'
      BY DEF ScansAreTrue
    <2>1. p # r
      BY <1>0, <1>2 DEF IsScan
    <2>2. /\ request'[p] = request[p] /\ Missed(p)' = Missed(p) /\ IsScan(p)
          /\ Missed(p) \subseteq Folders
      BY <1>2, <2>1 DEF Missed, IsScan
    <2>3. /\ TrueNow(request[p].stamp, request[p].found, Missed(p))
          /\ \A q \in Requests : TrueOf(q, request[p].stamp, request[p].found, Missed(p))
      BY <2>2 DEF ScansAreTrue
    <2>4. TrueNow(request[p].stamp, request[p].found, Missed(p))'
      BY <1>1, <1>3, <2>2, <2>3 DEF TrueNow
    <2>5. \A q \in Requests : TrueOf(q, request[p].stamp, request[p].found, Missed(p))'
      BY <1>7, <2>2, <2>3 DEF TrueOf
    <2> QED
      BY <2>4, <2>5
  <1>9. CacheIsTrue'
    <2> SUFFICES ASSUME cache.made
                 PROVE  CacheIsTrue'
      BY <1>1 DEF CacheIsTrue
    <2>1. CacheMissed' = CacheMissed /\ CacheMissed \subseteq Folders
      BY <1>1 DEF CacheMissed
    <2>2. /\ TrueNow(cache.stamp, cache.found, CacheMissed)
          /\ \A q \in Requests : TrueOf(q, cache.stamp, cache.found, CacheMissed)
      BY DEF CacheIsTrue
    <2>3. TrueNow(cache.stamp, cache.found, CacheMissed)'
      BY <1>1, <1>3, <2>1, <2>2 DEF TrueNow
    <2>4. \A q \in Requests : TrueOf(q, cache.stamp, cache.found, CacheMissed)'
      BY <1>1, <1>7, <2>1, <2>2 DEF TrueOf
    <2> QED
      BY <2>3, <2>4 DEF CacheIsTrue
  <1>10. O!AnswerIsOfItsTime'
    BY <1>0, <1>2 DEF O!AnswerIsOfItsTime
  <1> QED
    BY <1>4, <1>5, <1>6, <1>8, <1>9, <1>10

(* A request goes on, as the same scan or to its answer: what the scan of  *)
(* another request, or the cache, says stays as true as it was.            *)
LEMMA OthersStay ==
  ASSUME OverlaysInv, NEW r \in Requests, NEW to,
         O!Go(r, to), to.stamp = request[r].stamp, O!UnderWay(r),
         late \subseteq late', late' \subseteq Folders,
         ovExcused' \in [Requests -> SUBSET Folders],
         \A q \in Requests : ovExcused[q] \subseteq ovExcused'[q]
  PROVE  /\ request'[r] = to /\ \A q \in Requests \ {r} : request'[q] = request[q]
         /\ NowIsSeen'
         /\ \A stamp, found, missed :
              /\ TrueNow(stamp, found, missed) => TrueNow(stamp, found, missed)'
              /\ \A q \in Requests :
                   TrueOf(q, stamp, found, missed) => TrueOf(q, stamp, found, missed)'
         /\ \A p \in Requests \ {r} : IsScan(p)' =>
              /\ TrueNow(request[p].stamp, request[p].found, Missed(p))'
              /\ \A q \in Requests :
                   TrueOf(q, request[p].stamp, request[p].found, Missed(p))'
  <1> USE DEF OverlaysInv
  <1>1. /\ request' = [request EXCEPT ![r] = to]
        /\ UNCHANGED <<disk, time, present, absent>>
    BY DEF O!Go
  <1>2. request'[r] = to /\ \A q \in Requests \ {r} : request'[q] = request[q]
    BY <1>1 DEF OverlayTypes
  <1>3. O!Overlays' = O!Overlays
    BY <1>1 DEF O!Overlays
  <1>4. \A q \in Requests : (O!UnderWay(q)' => O!UnderWay(q)) /\ request'[q].stamp = request[q].stamp
    BY <1>2 DEF O!UnderWay
  <1>5. NowIsSeen'
    BY <1>1, <1>3, <1>4 DEF NowIsSeen
  <1>6. ASSUME NEW stamp, NEW found, NEW missed
        PROVE  /\ TrueNow(stamp, found, missed) => TrueNow(stamp, found, missed)'
               /\ \A q \in Requests :
                    TrueOf(q, stamp, found, missed) => TrueOf(q, stamp, found, missed)'
    <2>1. TrueNow(stamp, found, missed) => TrueNow(stamp, found, missed)'
      BY <1>1, <1>3 DEF TrueNow
    <2>2. ASSUME NEW q \in Requests, TrueOf(q, stamp, found, missed)
          PROVE  TrueOf(q, stamp, found, missed)'
      BY <1>1, <1>4, <2>2 DEF TrueOf
    <2> QED
      BY <2>1, <2>2
  <1>7. ASSUME NEW p \in Requests \ {r}, IsScan(p)'
        PROVE  /\ TrueNow(request[p].stamp, request[p].found, Missed(p))'
               /\ \A q \in Requests :
                    TrueOf(q, request[p].stamp, request[p].found, Missed(p))'
    <2>1. request'[p] = request[p] /\ Missed(p)' = Missed(p) /\ IsScan(p)
      BY <1>2, <1>7 DEF Missed, IsScan
    <2>2. /\ TrueNow(request[p].stamp, request[p].found, Missed(p))
          /\ \A q \in Requests : TrueOf(q, request[p].stamp, request[p].found, Missed(p))
      BY <2>1 DEF ScansAreTrue
    <2>3. TrueNow(request[p].stamp, request[p].found, Missed(p))'
      BY <1>6, <2>1, <2>2 DEF TrueNow
    <2>4. \A q \in Requests : TrueOf(q, request[p].stamp, request[p].found, Missed(p))'
      BY <1>6, <2>1, <2>2 DEF TrueOf
    <2> QED
      BY <2>3, <2>4
  <1> QED
    BY <1>2, <1>5, <1>6, <1>7

(* The cache is as true as it was, where what was true stays so.           *)
LEMMA CacheStays ==
  ASSUME OverlaysInv, UNCHANGED cache,
         \A stamp, found, missed :
           /\ TrueNow(stamp, found, missed) => TrueNow(stamp, found, missed)'
           /\ \A q \in Requests :
                TrueOf(q, stamp, found, missed) => TrueOf(q, stamp, found, missed)'
  PROVE  CacheIsTrue'
  <1> SUFFICES ASSUME cache.made
               PROVE  CacheIsTrue'
    BY DEF CacheIsTrue
  <1>1. CacheMissed' = CacheMissed
    BY DEF CacheMissed
  <1>2. /\ TrueNow(cache.stamp, cache.found, CacheMissed)
        /\ \A q \in Requests : TrueOf(q, cache.stamp, cache.found, CacheMissed)
    BY DEF CacheIsTrue, OverlaysInv
  <1>3. TrueNow(cache.stamp, cache.found, CacheMissed)'
    BY <1>1, <1>2 DEF TrueNow
  <1>4. \A q \in Requests : TrueOf(q, cache.stamp, cache.found, CacheMissed)'
    BY <1>1, <1>2 DEF TrueOf
  <1> QED
    BY <1>3, <1>4 DEF CacheIsTrue

(* A request finds its answer in the cache, or begins to look.             *)
LEMMA LookUpStep ==
  ASSUME OverlaysInv, NEW r \in Requests, O!LookUp(r)
  PROVE  OverlaysInv'
  <1> USE DEF OverlaysInv
  <1> DEFINE to == IF O!IsCached(r) THEN O!Answered(r, cache.found)
                   ELSE [request[r] EXCEPT !.at = "scanning", !.left = Folders]
  <1>1. /\ request[r].at = "stamped" /\ O!Go(r, to)
        /\ UNCHANGED <<cache, ovFailures, late, ovExcused>>
    BY DEF O!LookUp
  <1>2. request[r] \in [at : O!Stages, stamp : Nat, left : SUBSET Folders, found : SUBSET Folders]
    BY DEF OverlayTypes
  <1>3. /\ to.stamp = request[r].stamp
        /\ to \in [at : O!Stages, stamp : Nat, left : SUBSET Folders, found : SUBSET Folders]
        /\ O!IsCached(r) => to.at = "answered" /\ to.found = cache.found /\ to.left = request[r].left
        /\ ~O!IsCached(r) => to.at = "scanning" /\ to.left = Folders /\ to.found = request[r].found
    BY <1>2 DEF O!Answered, O!Stages, OverlayTypes
  <1> HIDE DEF to
  <1>4. O!UnderWay(r)
    BY <1>1 DEF O!UnderWay
  <1>5. /\ request'[r] = to /\ \A q \in Requests \ {r} : request'[q] = request[q]
        /\ NowIsSeen'
        /\ \A stamp, found, missed :
             /\ TrueNow(stamp, found, missed) => TrueNow(stamp, found, missed)'
             /\ \A q \in Requests :
                  TrueOf(q, stamp, found, missed) => TrueOf(q, stamp, found, missed)'
        /\ \A p \in Requests \ {r} : IsScan(p)' =>
             /\ TrueNow(request[p].stamp, request[p].found, Missed(p))'
             /\ \A q \in Requests :
                  TrueOf(q, request[p].stamp, request[p].found, Missed(p))'
    BY <1>1, <1>3, <1>4, OthersStay DEF OverlayTypes
  <1>6. request' = [request EXCEPT ![r] = to] /\ UNCHANGED <<disk, time, present, absent>>
    BY <1>1 DEF O!Go
  <1>7. OverlayTypes'
    BY <1>1, <1>3, <1>6 DEF OverlayTypes
  <1>8. StagesAgree'
    <2>1. request[r].found = {} /\ request[r].left = {} /\ request[r].stamp <= time
      BY <1>1 DEF StagesAgree
    <2>2. /\ to.left \cap to.found = {} /\ to.stamp <= time
          /\ to.at \notin {"stamped", "found"}
      BY <1>3, <2>1
    <2> QED
      BY <1>1, <1>5, <1>6, <2>2 DEF StagesAgree
  <1>9. CacheIsTrue'
    BY <1>1, <1>5, CacheStays
  <1>10. ScansAreTrue'
    <2>1. ASSUME IsScan(r)'
          PROVE  request'[r].found = {} /\ Missed(r)' = {}
      BY <1>1, <1>3, <1>5, <2>1 DEF IsScan, Missed, StagesAgree
    <2>2. \A stamp : TrueNow(stamp, {}, {})' /\ \A q \in Requests : TrueOf(q, stamp, {}, {})'
      BY DEF TrueNow, TrueOf
    <2>3. ASSUME IsScan(r)'
          PROVE  /\ TrueNow(request[r].stamp, request[r].found, Missed(r))'
                 /\ \A q \in Requests :
                      TrueOf(q, request[r].stamp, request[r].found, Missed(r))'
      BY <2>1, <2>2, <2>3 DEF TrueNow, TrueOf
    <2> QED
      BY <1>5, <2>3 DEF ScansAreTrue
  <1>11. O!AnswerIsOfItsTime'
    <2>1. ASSUME O!IsCached(r)
          PROVE  /\ cache.found \subseteq present[r] \cup ovExcused[r]
                 /\ Folders \ cache.found \subseteq absent[r] \cup ovExcused[r]
      BY <1>4, <2>1 DEF O!IsCached, CacheIsTrue, CacheMissed, TrueOf
    <2>2. ASSUME NEW q \in Requests, request'[q].at = "answered"
          PROVE  /\ request'[q].found \subseteq present'[q] \cup ovExcused'[q]
                 /\ Folders \ request'[q].found \subseteq absent'[q] \cup ovExcused'[q]
      <3>1. CASE q = r
        BY <1>1, <1>3, <1>5, <1>6, <2>1, <2>2, <3>1
      <3>2. CASE q # r
        BY <1>1, <1>5, <1>6, <2>2, <3>2 DEF O!AnswerIsOfItsTime
      <3> QED
        BY <3>1, <3>2
    <2> QED
      BY <2>2 DEF O!AnswerIsOfItsTime
  <1> QED
    BY <1>5, <1>7, <1>8, <1>9, <1>10, <1>11

(* A scan looks at one more entry: what it finds is there now, which every *)
(* request under way has seen.                                             *)
LEMMA DiscoverStep ==
  ASSUME OverlaysInv, NEW r \in Requests, O!Discover(r)
  PROVE  OverlaysInv'
  <1> USE DEF OverlaysInv
  <1>1. PICK f \in request[r].left :
          O!Go(r, [request[r] EXCEPT
                     !.left = @ \ {f},
                     !.found = IF f \in O!Overlays THEN @ \cup {f} ELSE @,
                     !.at = IF request[r].left = {f} THEN "found" ELSE @])
    BY DEF O!Discover
  <1> DEFINE to == [request[r] EXCEPT
                      !.left = @ \ {f},
                      !.found = IF f \in O!Overlays THEN @ \cup {f} ELSE @,
                      !.at = IF request[r].left = {f} THEN "found" ELSE @]
  <1>2. /\ request[r].at = "scanning" /\ O!Go(r, to)
        /\ UNCHANGED <<cache, ovFailures, late, ovExcused>>
    BY <1>1 DEF O!Discover
  <1>3. /\ request[r] \in [at : O!Stages, stamp : Nat, left : SUBSET Folders, found : SUBSET Folders]
        /\ f \in Folders /\ request[r].left \cap request[r].found = {} /\ request[r].stamp <= time
    BY DEF OverlayTypes, StagesAgree
  <1>4. /\ to.stamp = request[r].stamp /\ to.left = request[r].left \ {f}
        /\ to.found = IF f \in O!Overlays THEN request[r].found \cup {f} ELSE request[r].found
        /\ to.at = IF request[r].left = {f} THEN "found" ELSE "scanning"
    BY <1>2, <1>3
  <1>5. to \in [at : O!Stages, stamp : Nat, left : SUBSET Folders, found : SUBSET Folders]
    BY <1>2, <1>3 DEF O!Stages
  <1> HIDE DEF to
  <1>6. O!UnderWay(r)
    BY <1>2 DEF O!UnderWay
  <1>7. /\ request'[r] = to /\ \A q \in Requests \ {r} : request'[q] = request[q]
        /\ NowIsSeen'
        /\ \A stamp, found, missed :
             /\ TrueNow(stamp, found, missed) => TrueNow(stamp, found, missed)'
             /\ \A q \in Requests :
                  TrueOf(q, stamp, found, missed) => TrueOf(q, stamp, found, missed)'
        /\ \A p \in Requests \ {r} : IsScan(p)' =>
             /\ TrueNow(request[p].stamp, request[p].found, Missed(p))'
             /\ \A q \in Requests :
                  TrueOf(q, request[p].stamp, request[p].found, Missed(p))'
    BY <1>2, <1>4, <1>6, OthersStay DEF OverlayTypes
  <1>8. request' = [request EXCEPT ![r] = to] /\ UNCHANGED <<disk, time, present, absent>>
    BY <1>2 DEF O!Go
  <1>9. OverlayTypes'
    BY <1>2, <1>5, <1>8 DEF OverlayTypes
  <1>10. StagesAgree'
    <2>1. /\ to.left \cap to.found = {} /\ to.stamp <= time
          /\ to.at # "stamped" /\ (to.at = "found" => to.left = {})
      BY <1>3, <1>4
    <2> QED
      BY <1>2, <1>7, <1>8, <2>1 DEF StagesAgree
  <1>11. CacheIsTrue'
    BY <1>2, <1>7, CacheStays
  <1>12. ScansAreTrue'
    <2> DEFINE missed == Folders \ (to.left \cup to.found)
    <2>1. /\ TrueNow(request[r].stamp, request[r].found, Missed(r))
          /\ \A q \in Requests : TrueOf(q, request[r].stamp, request[r].found, Missed(r))
      BY <1>2 DEF ScansAreTrue, IsScan
    <2>2. IF f \in O!Overlays
          THEN to.found = request[r].found \cup {f} /\ missed = Missed(r)
          ELSE to.found = request[r].found /\ missed = Missed(r) \cup {f}
      BY <1>3, <1>4 DEF Missed
    <2> HIDE DEF missed
    <2>3. TrueNow(to.stamp, to.found, missed)
      BY <1>4, <2>1, <2>2 DEF TrueNow
    <2>4. ASSUME NEW q \in Requests
          PROVE  TrueOf(q, to.stamp, to.found, missed)
      <3> SUFFICES ASSUME O!UnderWay(q), request[q].stamp = to.stamp
                   PROVE  /\ to.found \subseteq present[q] \cup ovExcused[q]
                          /\ missed \subseteq absent[q] \cup ovExcused[q]
        BY DEF TrueOf
      <3>1. /\ request[r].found \subseteq present[q] \cup ovExcused[q]
            /\ Missed(r) \subseteq absent[q] \cup ovExcused[q]
        BY <1>4, <2>1 DEF TrueOf
      <3>2. IF f \in O!Overlays THEN f \in present[q] ELSE f \in absent[q]
        BY <1>3 DEF NowIsSeen
      <3> QED
        BY <2>2, <3>1, <3>2
    <2>5. request'[r] = to /\ Missed(r)' = missed
      BY <1>7 DEF Missed, missed
    <2>6. TrueNow(request[r].stamp, request[r].found, Missed(r))'
      BY <1>7, <2>3, <2>5 DEF TrueNow
    <2>7. ASSUME NEW q \in Requests
          PROVE  TrueOf(q, request[r].stamp, request[r].found, Missed(r))'
      <3>1. (O!UnderWay(q)' => O!UnderWay(q)) /\ request'[q].stamp = request[q].stamp
        BY <1>4, <1>6, <1>7 DEF O!UnderWay
      <3>2. TrueOf(q, to.stamp, to.found, missed)
        BY <2>4
      <3> QED
        BY <1>2, <1>7, <1>8, <2>5, <3>1, <3>2 DEF TrueOf
    <2> QED
      BY <1>7, <2>6, <2>7 DEF ScansAreTrue
  <1>13. O!AnswerIsOfItsTime'
    <2>1. to.at # "answered"
      BY <1>4
    <2> QED
      BY <1>2, <1>7, <1>8, <2>1 DEF O!AnswerIsOfItsTime
  <1> QED
    BY <1>7, <1>9, <1>10, <1>11, <1>12, <1>13

(* The root cannot be read: nothing is found, and everything is late until *)
(* the root changes.                                                       *)
LEMMA DiscoverNothingStep ==
  ASSUME OverlaysInv, NEW r \in Requests, O!DiscoverNothing(r)
  PROVE  OverlaysInv'
  <1> USE DEF OverlaysInv
  <1> DEFINE to == [request[r] EXCEPT !.at = "found", !.left = {}]
  <1>1. /\ request[r].at = "scanning" /\ request[r].left = Folders /\ O!Go(r, to)
        /\ late' = Folders
        /\ ovExcused' = [q \in Requests |-> IF O!UnderWay(q) THEN Folders ELSE ovExcused[q]]
        /\ UNCHANGED cache
    BY DEF O!DiscoverNothing
  <1>2. /\ request[r] \in [at : O!Stages, stamp : Nat, left : SUBSET Folders, found : SUBSET Folders]
        /\ request[r].stamp <= time /\ request[r].found = {}
    BY <1>1 DEF OverlayTypes, StagesAgree
  <1>3. to.stamp = request[r].stamp /\ to.left = {} /\ to.found = {} /\ to.at = "found"
    BY <1>2
  <1>4. to \in [at : O!Stages, stamp : Nat, left : SUBSET Folders, found : SUBSET Folders]
    BY <1>2 DEF O!Stages
  <1> HIDE DEF to
  <1>5. O!UnderWay(r)
    BY <1>1 DEF O!UnderWay
  <1>6. /\ ovExcused' \in [Requests -> SUBSET Folders] /\ late \subseteq late'
        /\ \A q \in Requests : ovExcused[q] \subseteq ovExcused'[q]
    BY <1>1 DEF OverlayTypes
  <1>7. /\ request'[r] = to /\ \A q \in Requests \ {r} : request'[q] = request[q]
        /\ NowIsSeen'
        /\ \A stamp, found, missed :
             /\ TrueNow(stamp, found, missed) => TrueNow(stamp, found, missed)'
             /\ \A q \in Requests :
                  TrueOf(q, stamp, found, missed) => TrueOf(q, stamp, found, missed)'
        /\ \A p \in Requests \ {r} : IsScan(p)' =>
             /\ TrueNow(request[p].stamp, request[p].found, Missed(p))'
             /\ \A q \in Requests :
                  TrueOf(q, request[p].stamp, request[p].found, Missed(p))'
    BY <1>1, <1>3, <1>5, <1>6, OthersStay
  <1>8. request' = [request EXCEPT ![r] = to] /\ UNCHANGED <<disk, time, present, absent>>
    BY <1>1 DEF O!Go
  <1>9. OverlayTypes'
    BY <1>1, <1>4, <1>6, <1>8 DEF OverlayTypes
  <1>10. StagesAgree'
    BY <1>1, <1>2, <1>3, <1>7, <1>8 DEF StagesAgree
  <1>11. CacheIsTrue'
    BY <1>1, <1>7, CacheStays
  <1>12. ScansAreTrue'
    <2>1. request'[r].found = {} /\ Missed(r)' = Folders /\ late' = Folders
      BY <1>1, <1>3, <1>7 DEF Missed
    <2>2. TrueNow(request[r].stamp, request[r].found, Missed(r))'
      BY <2>1 DEF TrueNow
    <2>3. ASSUME NEW q \in Requests, O!UnderWay(q)'
          PROVE  ovExcused'[q] = Folders
      BY <1>1, <1>5, <1>7, <2>3 DEF O!UnderWay
    <2>4. \A q \in Requests : TrueOf(q, request[r].stamp, request[r].found, Missed(r))'
      BY <2>1, <2>3 DEF TrueOf
    <2> QED
      BY <1>7, <2>2, <2>4 DEF ScansAreTrue
  <1>13. O!AnswerIsOfItsTime'
    <2>1. \A q \in Requests : request[q].at = "answered" => ovExcused'[q] = ovExcused[q]
      BY <1>1 DEF O!UnderWay
    <2> QED
      BY <1>3, <1>7, <1>8, <2>1 DEF O!AnswerIsOfItsTime
  <1> QED
    BY <1>7, <1>9, <1>10, <1>11, <1>12, <1>13

(* A scan is stored under the time it was stamped with, and answered with. *)
LEMMA StoreStep ==
  ASSUME OverlaysInv, NEW r \in Requests, O!Store(r)
  PROVE  OverlaysInv'
  <1> USE DEF OverlaysInv
  <1> DEFINE to == O!Answered(r, request[r].found)
  <1>1. /\ request[r].at = "found" /\ O!Go(r, to)
        /\ cache' = [made |-> TRUE, stamp |-> request[r].stamp, found |-> request[r].found]
        /\ UNCHANGED <<ovFailures, late, ovExcused>>
    BY DEF O!Store, O!StampOf
  <1>2. /\ request[r] \in [at : O!Stages, stamp : Nat, left : SUBSET Folders, found : SUBSET Folders]
        /\ request[r].stamp <= time /\ request[r].left = {}
    BY <1>1 DEF OverlayTypes, StagesAgree
  <1>3. /\ to.stamp = request[r].stamp /\ to.left = {} /\ to.found = request[r].found
        /\ to.at = "answered"
        /\ to \in [at : O!Stages, stamp : Nat, left : SUBSET Folders, found : SUBSET Folders]
    BY <1>2 DEF O!Answered, O!Stages
  <1> HIDE DEF to
  <1>4. O!UnderWay(r)
    BY <1>1 DEF O!UnderWay
  <1>5. /\ request'[r] = to /\ \A q \in Requests \ {r} : request'[q] = request[q]
        /\ NowIsSeen'
        /\ \A stamp, found, missed :
             /\ TrueNow(stamp, found, missed) => TrueNow(stamp, found, missed)'
             /\ \A q \in Requests :
                  TrueOf(q, stamp, found, missed) => TrueOf(q, stamp, found, missed)'
        /\ \A p \in Requests \ {r} : IsScan(p)' =>
             /\ TrueNow(request[p].stamp, request[p].found, Missed(p))'
             /\ \A q \in Requests :
                  TrueOf(q, request[p].stamp, request[p].found, Missed(p))'
    BY <1>1, <1>3, <1>4, OthersStay DEF OverlayTypes
  <1>6. request' = [request EXCEPT ![r] = to] /\ UNCHANGED <<disk, time, present, absent>>
    BY <1>1 DEF O!Go
  <1>7. OverlayTypes'
    BY <1>1, <1>2, <1>3, <1>6 DEF OverlayTypes
  <1>8. StagesAgree'
    BY <1>1, <1>2, <1>3, <1>5, <1>6 DEF StagesAgree
  <1>9. /\ TrueNow(request[r].stamp, request[r].found, Missed(r))
        /\ \A q \in Requests : TrueOf(q, request[r].stamp, request[r].found, Missed(r))
    BY <1>1 DEF ScansAreTrue, IsScan
  <1>10. Missed(r) = Folders \ request[r].found
    BY <1>2 DEF Missed
  <1>11. CacheIsTrue'
    <2>1. /\ cache'.stamp = request[r].stamp /\ cache'.found = request[r].found
          /\ CacheMissed' = Missed(r)
      BY <1>1, <1>10 DEF CacheMissed
    <2>2. TrueNow(cache.stamp, cache.found, CacheMissed)'
      BY <1>5, <1>9, <2>1 DEF TrueNow
    <2>3. \A q \in Requests : TrueOf(q, cache.stamp, cache.found, CacheMissed)'
      BY <1>5, <1>9, <2>1 DEF TrueOf
    <2> QED
      BY <2>2, <2>3 DEF CacheIsTrue
  <1>12. ScansAreTrue'
    <2>1. ~IsScan(r)'
      BY <1>3, <1>5 DEF IsScan
    <2> QED
      BY <1>5, <2>1 DEF ScansAreTrue
  <1>13. O!AnswerIsOfItsTime'
    <2>1. /\ request[r].found \subseteq present[r] \cup ovExcused[r]
          /\ Folders \ request[r].found \subseteq absent[r] \cup ovExcused[r]
      BY <1>4, <1>9, <1>10 DEF TrueOf
    <2> QED
      BY <1>1, <1>3, <1>5, <1>6, <2>1 DEF O!AnswerIsOfItsTime
  <1> QED
    BY <1>5, <1>7, <1>8, <1>11, <1>12, <1>13

LEMMA OverlaysStep == OverlaysInv /\ [O!Next]_(O!vars) => OverlaysInv'
  <1> SUFFICES ASSUME OverlaysInv, [O!Next]_(O!vars) PROVE OverlaysInv'
    OBVIOUS
  <1>1. CASE UNCHANGED O!vars
    BY <1>1 DEF O!vars, OverlaysInv, OverlayTypes, StagesAgree, NowIsSeen, ScansAreTrue,
                CacheIsTrue, TrueNow, TrueOf, IsScan, Missed, CacheMissed, O!UnderWay,
                O!Overlays, O!AnswerIsOfItsTime
  <1>2. CASE O!Next
    BY <1>2, FoldersStep, StampStep, LookUpStep, DiscoverStep, DiscoverNothingStep, StoreStep
       DEF O!Next
  <1> QED
    BY <1>1, <1>2

-----------------------------------------------------------------------------
(* A file of an overlay (OverlayFile).                                     *)

(* The page's copy: writes are numbered, a file that is there holds the    *)
(* last one, and a content is as new as the validator it goes with; so is  *)
(* whatever the file holds when the validator was taken of a file.         *)
AssetInv ==
  /\ edits \in Nat /\ content \in {None, edits}
  /\ ofStage \in {"idle", "asked", "found", "stated"}
  /\ ofStage # "idle" => content \in seen
  /\ ~unstamped =>
       /\ copy.etag # None =>
            /\ copy.etag \in Nat \ {0} /\ copy.content \in Nat
            /\ copy.etag <= copy.content /\ copy.content <= edits
       /\ ofStage = "stated" => etag \in Nat \ {0} /\ etag <= edits
  /\ edits # 0
  /\ A!CopyIsOfItsTime

LEMMA AssetInit == A!FileInit => AssetInv
  BY DEF A!FileInit, AssetInv, A!CopyIsOfItsTime

LEMMA AssetStep == AssetInv /\ [A!FileNext]_(A!fileVars) => AssetInv'
  <1> SUFFICES ASSUME AssetInv, [A!FileNext]_(A!fileVars) PROVE AssetInv'
    OBVIOUS
  <1>0. None \notin Nat
    BY PartsAssumption DEF PartsAssumption, A!OverlayFileAssumption
  <1>1. CASE UNCHANGED A!fileVars
    BY <1>1 DEF A!fileVars, AssetInv, A!CopyIsOfItsTime
  <1>2. CASE A!Write
    BY <1>2 DEF A!Write, A!Holds, AssetInv, A!CopyIsOfItsTime
  <1>3. CASE A!Remove
    BY <1>3 DEF A!Remove, A!Holds, AssetInv, A!CopyIsOfItsTime
  <1>4. CASE A!Ask
    BY <1>4 DEF A!Ask, AssetInv, A!CopyIsOfItsTime
  <1>5. CASE A!Resolve
    BY <1>5 DEF A!Resolve, A!Answer, AssetInv, A!CopyIsOfItsTime
  <1>6. CASE A!Stat
    <2>1. /\ ofStage = "found" /\ etag' = A!Stamp(content)
          /\ unstamped' = (unstamped \/ content = None)
          /\ \/ copy.etag # None /\ copy.etag = etag' /\ ofStage' = "idle" /\ shown' = copy.content
             \/ ofStage' = "stated" /\ UNCHANGED shown
          /\ UNCHANGED <<content, edits, copy, seen>>
      BY <1>6 DEF A!Stat, A!Answer
    <2>2. ASSUME ~unstamped'
          PROVE  ~unstamped /\ content = edits /\ etag' = edits
      BY <1>0, <2>1, <2>2 DEF A!Stamp, AssetInv
    <2>3. A!CopyIsOfItsTime'
      <3> SUFFICES ASSUME ofStage' = "idle", ~unstamped'
                   PROVE  shown' \in seen'
        BY DEF A!CopyIsOfItsTime
      <3>1. copy.etag # None /\ copy.etag = edits /\ shown' = copy.content
        BY <2>1, <2>2
      <3>2. copy.content = edits
        BY <2>2, <3>1 DEF AssetInv
      <3> QED
        BY <2>1, <2>2, <3>1, <3>2 DEF AssetInv
    <2> QED
      BY <2>1, <2>2, <2>3 DEF AssetInv
  <1>7. CASE A!ReadFile
    <2>1. /\ ofStage = "stated" /\ ofStage' = "idle" /\ shown' = content
          /\ copy' = IF content = None THEN copy ELSE [etag |-> etag, content |-> content]
          /\ UNCHANGED <<content, edits, etag, seen, unstamped>>
      BY <1>7 DEF A!ReadFile, A!Answer
    <2> QED
      BY <2>1 DEF AssetInv, A!CopyIsOfItsTime
  <1> QED
    BY <1>1, <1>2, <1>3, <1>4, <1>5, <1>6, <1>7 DEF A!FileNext

-----------------------------------------------------------------------------
(* The tokens socket (TokensSocket).                                       *)

(* The list the messages that are in the inbox lead to: the last one that  *)
(* asks for one, or else the one that is in force.                         *)
WantedIsAhead ==
  /\ inbox \in Seq(T!Messages)
  /\ \/ \E i \in DOMAIN inbox :
          /\ T!AsksFor(inbox[i]) /\ wanted = inbox[i].body
          /\ \A j \in DOMAIN inbox : j > i => ~T!AsksFor(inbox[j])
     \/ (\A i \in DOMAIN inbox : ~T!AsksFor(inbox[i])) /\ wanted = filters

LEMMA WantedInit == T!Init => WantedIsAhead
  BY DEF T!Init, WantedIsAhead

(* A message sets the list if it asks for one, and not otherwise.          *)
LEMMA FiltersFollow ==
  ASSUME NEW m \in T!Messages, m.kind # "text" \/ m.body \in Lists \cup {NotAList}
  PROVE  T!FiltersAfter(m) = IF T!AsksFor(m) THEN m.body ELSE filters
  BY DEF T!FiltersAfter, T!AsksFor, T!Command

LEMMA WantedStep == WantedIsAhead /\ [T!Next]_(T!vars) => WantedIsAhead'
  <1> SUFFICES ASSUME WantedIsAhead, [T!Next]_(T!vars) PROVE WantedIsAhead'
    OBVIOUS
  <1> USE DEF WantedIsAhead
  <1>0. /\ \A m : (T!AsksFor(m)' <=> T!AsksFor(m)) \/ route' # route
        /\ \A m \in T!Messages : m.kind # "text" \/ m.body \in Lists \cup {NotAList}
    BY DEF T!AsksFor, T!Messages, T!Texts
  <1>1. CASE UNCHANGED <<route, inbox, wanted, filters>>
    BY <1>1 DEF T!AsksFor
  <1>2. CASE T!ClientSends
    <2>1. PICK m \in T!Messages :
            /\ inbox' = Append(inbox, m)
            /\ wanted' = IF T!AsksFor(m) THEN m.body ELSE wanted
            /\ UNCHANGED <<route, filters>>
      BY <1>2 DEF T!ClientSends
    <2>2. /\ Len(inbox) \in Nat /\ DOMAIN inbox = 1..Len(inbox)
          /\ DOMAIN inbox' = 1..Len(inbox) + 1 /\ inbox' \in Seq(T!Messages)
          /\ \A i \in DOMAIN inbox : inbox'[i] = inbox[i]
          /\ inbox'[Len(inbox) + 1] = m
      BY <2>1
    <2>3. \A n : T!AsksFor(n)' <=> T!AsksFor(n)
      BY <2>1 DEF T!AsksFor
    <2>4. CASE T!AsksFor(m)
      BY <2>1, <2>2, <2>3, <2>4
    <2>5. CASE ~T!AsksFor(m)
      BY <2>1, <2>2, <2>3, <2>5
    <2> QED
      BY <2>4, <2>5
  <1>3. CASE T!TakeMessage
    <2>1. /\ inbox # <<>> /\ inbox' = Tail(inbox) /\ filters' = T!FiltersAfter(Head(inbox))
          /\ UNCHANGED <<route, wanted>>
      BY <1>3 DEF T!TakeMessage
    <2>2. /\ Len(inbox) \in Nat \ {0} /\ DOMAIN inbox = 1..Len(inbox)
          /\ DOMAIN inbox' = 1..Len(inbox) - 1 /\ inbox' \in Seq(T!Messages)
          /\ \A i \in 1..Len(inbox) - 1 : inbox'[i] = inbox[i + 1]
          /\ Head(inbox) = inbox[1] /\ Head(inbox) \in T!Messages
      BY <2>1
    <2>3. \A n : T!AsksFor(n)' <=> T!AsksFor(n)
      BY <2>1 DEF T!AsksFor
    <2>4. filters' = IF T!AsksFor(inbox[1]) THEN inbox[1].body ELSE filters
      BY <1>0, <2>1, <2>2, FiltersFollow
    <2>5. CASE \E i \in DOMAIN inbox :
                 /\ T!AsksFor(inbox[i]) /\ wanted = inbox[i].body
                 /\ \A j \in DOMAIN inbox : j > i => ~T!AsksFor(inbox[j])
      <3>1. PICK i \in DOMAIN inbox :
              /\ T!AsksFor(inbox[i]) /\ wanted = inbox[i].body
              /\ \A j \in DOMAIN inbox : j > i => ~T!AsksFor(inbox[j])
        BY <2>5
      <3>2. CASE i = 1
        BY <2>1, <2>2, <2>3, <2>4, <3>1, <3>2
      <3>3. CASE i # 1
        <4>1. i - 1 \in DOMAIN inbox' /\ inbox'[i - 1] = inbox[i]
          BY <2>2, <3>3
        <4>2. ASSUME NEW j \in DOMAIN inbox', j > i - 1 PROVE ~T!AsksFor(inbox'[j])
          <5>1. j + 1 \in DOMAIN inbox /\ inbox'[j] = inbox[j + 1] /\ j + 1 > i
            BY <2>2, <3>1, <4>2
          <5> QED
            BY <3>1, <5>1
        <4> QED
          BY <2>1, <2>2, <2>3, <3>1, <4>1, <4>2
      <3> QED
        BY <3>2, <3>3
    <2>6. CASE (\A i \in DOMAIN inbox : ~T!AsksFor(inbox[i])) /\ wanted = filters
      BY <2>1, <2>2, <2>3, <2>4, <2>6
    <2> QED
      BY <2>5, <2>6
  <1> QED
    BY <1>1, <1>2, <1>3 DEF T!Next, T!vars, T!feed, T!client, T!Publish, T!ReadFails,
                            T!TakePacket, T!Sent, T!SendFails

LEMMA FrameStep ==
  ASSUME WantedIsAhead, [T!Next]_(T!vars), tsStage # "sending", tsStage' = "sending"
  PROVE  frame'.list = wanted
  <1>1. T!TakePacket
    BY DEF T!Next, T!vars, T!Publish, T!ClientSends, T!TakeMessage, T!ReadFails, T!Sent, T!SendFails
  <1>2. inbox = <<>> /\ frame' = [packet |-> published.packet, list |-> filters]
    BY <1>1 DEF T!TakePacket, T!PacketIsTurn
  <1>3. wanted = filters
    BY <1>2 DEF WantedIsAhead
  <1> QED
    BY <1>2, <1>3

-----------------------------------------------------------------------------
(* The threads (SnapshotPool).                                             *)
Ipcs == {None} \cup 0..1
PoolResult == [pid : DOMAIN windows, read : BOOLEAN, ipc : Ipcs]
PoolTypes ==
  /\ windows \in Seq(Ipcs)
  /\ taken \in Nat
  /\ at \in [S!Workers -> {S!Idle, S!Done} \cup DOMAIN windows]
  /\ results \in Seq(PoolResult)

(* A process is with one thread, or reported, once.                        *)
EachOnce ==
  /\ \A v, w \in S!Workers : at[v] > 0 /\ at[v] = at[w] => v = w
  /\ \A i, j \in DOMAIN results : results[i].pid = results[j].pid => i = j
  /\ \A w \in S!Workers, i \in DOMAIN results : at[w] # results[i].pid

(* What was taken is with a thread or reported; and the first thread ends  *)
(* only when all was.                                                      *)
NoneIsLeft ==
  /\ \A p \in DOMAIN windows :
       p <= taken <=> \/ \E w \in S!Workers : at[w] = p
                      \/ \E i \in DOMAIN results : results[i].pid = p
  /\ at[1] = S!Done => Len(windows) < taken

WindowsAreTheirs ==
  \A i \in DOMAIN results :
    results[i].ipc = IF results[i].read THEN windows[results[i].pid] ELSE None

PoolInv == PoolTypes /\ EachOnce /\ NoneIsLeft /\ WindowsAreTheirs

LEMMA PoolConstants == MaxWorkers \in Nat \ {0} /\ 1 \in S!Workers /\ S!Idle = 0 /\ S!Done = -1
  BY PartsAssumption DEF S!PoolAssumption, S!Workers, S!Idle, S!Done

LEMMA ResultFields ==
  ASSUME NEW s \in Seq(PoolResult), NEW i \in DOMAIN s
  PROVE  /\ s[i] \in PoolResult
         /\ s[i].pid \in DOMAIN windows
  <1>1. s[i] \in PoolResult
    OBVIOUS
  <1> QED
    BY <1>1 DEF PoolResult

LEMMA PoolInit == S!Init => PoolInv
  <1> SUFFICES ASSUME S!Init PROVE PoolInv
    OBVIOUS
  <1>1. PICK n \in 0..MaxProcesses : windows \in [1..n -> Ipcs]
    BY DEF S!Init, Ipcs
  <1>2. n \in Nat
    BY PartsAssumption DEF S!PoolAssumption
  <1>3. windows \in Seq(Ipcs) /\ Len(windows) = n /\ DOMAIN windows = 1..n
    BY <1>1, <1>2
  <1>4. taken = 0 /\ results = <<>> /\ DOMAIN results = {}
        /\ at = [w \in S!Workers |-> IF w = 1 \/ w <= Len(windows) THEN S!Idle ELSE S!Done]
    BY DEF S!Init
  <1>5. PoolTypes
    BY <1>3, <1>4 DEF PoolTypes
  <1>6. \A w \in S!Workers : at[w] \in {0, -1}
    BY <1>4, PoolConstants
  <1>7. EachOnce
    BY <1>4, <1>6 DEF EachOnce
  <1>8. at[1] = 0
    BY <1>4, PoolConstants
  <1>9. NoneIsLeft
    <2>1. \A p \in DOMAIN windows : ~(p <= taken) /\ \A w \in S!Workers : at[w] # p
      BY <1>2, <1>3, <1>4, <1>6
    <2> QED
      BY <1>4, <1>8, <2>1, PoolConstants DEF NoneIsLeft
  <1>10. WindowsAreTheirs
    BY <1>4 DEF WindowsAreTheirs
  <1> QED
    BY <1>5, <1>7, <1>9, <1>10 DEF PoolInv

(* A thread takes the next process, or finds none.                         *)
LEMMA ClaimKeeps ==
  ASSUME PoolInv, NEW w \in S!Workers, S!Claim(w)
  PROVE  PoolInv'
  <1>1. /\ at[w] = 0 /\ taken' = taken + 1 /\ UNCHANGED <<windows, results>>
        /\ at' = [at EXCEPT ![w] = IF taken + 1 <= Len(windows) THEN taken + 1 ELSE -1]
    BY PoolConstants DEF S!Claim
  <1>2. /\ windows \in Seq(Ipcs) /\ taken \in Nat /\ results \in Seq(PoolResult)
        /\ at \in [S!Workers -> {0, -1} \cup DOMAIN windows]
    BY PoolConstants DEF PoolInv, PoolTypes
  <1>3. DOMAIN windows = 1..Len(windows) /\ Len(windows) \in Nat
    BY <1>2
  <1>4. at' \in [S!Workers -> {0, -1} \cup DOMAIN windows]
    BY <1>1, <1>2, <1>3
  <1>5. /\ \A v \in S!Workers : v # w => at'[v] = at[v]
        /\ at'[w] = IF taken + 1 <= Len(windows) THEN taken + 1 ELSE -1
    BY <1>1, <1>2
  <1>6. PoolTypes'
    BY <1>1, <1>2, <1>4, PoolConstants DEF PoolTypes, PoolResult, S!Workers, S!Idle, S!Done, Ipcs
  <1>7. /\ \A v \in S!Workers : at[v] # taken + 1
        /\ \A i \in DOMAIN results : results[i].pid # taken + 1
    <2>1. taken + 1 \in DOMAIN windows => ~(taken + 1 <= taken)
      BY <1>2
    <2>2. \A v \in S!Workers : at[v] \in {0, -1} \cup DOMAIN windows
      BY <1>2
    <2>3. \A i \in DOMAIN results : results[i].pid \in DOMAIN windows
      BY <1>2, ResultFields
    <2>4. taken + 1 \notin {0, -1}
      BY <1>2
    <2> QED
      BY <2>1, <2>2, <2>3, <2>4 DEF PoolInv, NoneIsLeft
  <1>8. EachOnce'
    <2>1. \A v \in S!Workers : v # w => at'[v] # at'[w] \/ ~(at'[v] > 0)
      BY <1>2, <1>3, <1>5, <1>7
    <2>2. \A i \in DOMAIN results : at'[w] # results[i].pid
      <3>1. \A i \in DOMAIN results : results[i].pid \in DOMAIN windows
        BY <1>2, ResultFields
      <3> QED
        BY <1>3, <1>5, <1>7, <3>1
    <2>3. \A v, u \in S!Workers : at'[v] > 0 /\ at'[v] = at'[u] => v = u
      BY <1>5, <2>1 DEF PoolInv, EachOnce
    <2>4. \A v \in S!Workers, i \in DOMAIN results : at'[v] # results[i].pid
      BY <1>5, <2>2 DEF PoolInv, EachOnce
    <2>5. S!Workers' = S!Workers
      BY DEF S!Workers
    <2> QED
      BY <1>1, <2>3, <2>4, <2>5 DEF PoolInv, EachOnce
  <1>9. NoneIsLeft'
    <2>1. ASSUME NEW p \in DOMAIN windows
          PROVE  p <= taken + 1 <=> \/ \E v \in S!Workers : at'[v] = p
                                    \/ \E i \in DOMAIN results : results[i].pid = p
      <3>1. p \in Nat \ {0}
        BY <1>3
      <3>2. CASE p = taken + 1
        <4>1. at'[w] = p
          BY <1>3, <1>5, <3>2
        <4> QED
          BY <1>2, <3>2, <4>1
      <3>3. CASE p # taken + 1
        <4>1. p <= taken + 1 <=> p <= taken
          BY <1>2, <3>1, <3>3
        <4>2. (\E v \in S!Workers : at'[v] = p) <=> (\E v \in S!Workers : at[v] = p)
          BY <1>1, <1>5, <3>1, <3>3
        <4> QED
          BY <4>1, <4>2 DEF PoolInv, NoneIsLeft
      <3> QED
        BY <3>2, <3>3
    <2>2. at'[1] = -1 => Len(windows) < taken + 1
      BY <1>2, <1>3, <1>5, PoolConstants DEF PoolInv, NoneIsLeft
    <2> QED
      BY <1>1, <2>1, <2>2, PoolConstants DEF NoneIsLeft, S!Workers, S!Done
  <1>10. WindowsAreTheirs'
    BY <1>1 DEF PoolInv, WindowsAreTheirs
  <1> QED
    BY <1>6, <1>8, <1>9, <1>10 DEF PoolInv

(* A thread reports its process, read or not.                              *)
LEMMA ReportKeeps ==
  ASSUME PoolInv, NEW w \in S!Workers, NEW read \in BOOLEAN, NEW ipc, at[w] > 0,
         ipc = (IF read THEN windows[at[w]] ELSE None), S!Report(w, read, ipc)
  PROVE  PoolInv'
  <1> DEFINE r == [pid |-> at[w], read |-> read, ipc |-> ipc]
  <1>1. results' = Append(results, r) /\ at' = [at EXCEPT ![w] = 0] /\ UNCHANGED <<windows, taken>>
    BY PoolConstants DEF S!Report
  <1>2. /\ windows \in Seq(Ipcs) /\ taken \in Nat /\ results \in Seq(PoolResult)
        /\ at \in [S!Workers -> {0, -1} \cup DOMAIN windows]
    BY PoolConstants DEF PoolInv, PoolTypes
  <1>3. at[w] \in DOMAIN windows
    BY <1>2
  <1>4. ipc \in Ipcs
    BY <1>2, <1>3 DEF Ipcs
  <1>5. r \in PoolResult /\ r.pid = at[w] /\ r.read = read /\ r.ipc = ipc
    BY <1>3, <1>4 DEF PoolResult
  <1> HIDE DEF r
  <1>6. /\ results' \in Seq(PoolResult) /\ DOMAIN results = 1..Len(results) /\ Len(results) \in Nat
        /\ DOMAIN results' = 1..Len(results) + 1
    BY <1>1, <1>2, <1>5
  <1>7. /\ \A i \in DOMAIN results : results'[i] = results[i]
        /\ results'[Len(results) + 1] = r
    BY <1>1, <1>2, <1>5
  <1>8. DOMAIN results' = DOMAIN results \cup {Len(results) + 1} /\ Len(results) + 1 \notin DOMAIN results
    BY <1>6
  <1>9. at' \in [S!Workers -> {0, -1} \cup DOMAIN windows]
        /\ at'[w] = 0 /\ \A v \in S!Workers : v # w => at'[v] = at[v]
    BY <1>1, <1>2
  <1>10. S!Workers' = S!Workers /\ S!Done' = S!Done /\ S!Idle' = S!Idle /\ Ipcs' = Ipcs /\ PoolResult' = PoolResult
    BY <1>1 DEF S!Workers, S!Done, S!Idle, Ipcs, PoolResult
  <1>11. PoolTypes'
    BY <1>1, <1>2, <1>6, <1>9, <1>10, PoolConstants DEF PoolTypes
  <1>12. EachOnce'
    <2>1. \A v, u \in S!Workers : at'[v] > 0 /\ at'[v] = at'[u] => v = u
      BY <1>9 DEF PoolInv, EachOnce
    <2>2. \A i, j \in DOMAIN results' : results'[i].pid = results'[j].pid => i = j
      BY <1>5, <1>7, <1>8 DEF PoolInv, EachOnce
    <2>3. \A v \in S!Workers, i \in DOMAIN results' : at'[v] # results'[i].pid
      <3> SUFFICES ASSUME NEW v \in S!Workers, NEW i \in DOMAIN results'
                   PROVE  at'[v] # results'[i].pid
        OBVIOUS
      <3>1. results'[i].pid \in DOMAIN windows
        BY <1>6, ResultFields
      <3>2. results'[i].pid # 0
        BY <1>2, <3>1
      <3>3. CASE v = w
        BY <1>9, <3>2, <3>3
      <3>4. CASE v # w /\ i \in DOMAIN results
        BY <1>7, <1>9, <3>4 DEF PoolInv, EachOnce
      <3>5. CASE v # w /\ i = Len(results) + 1
        BY <1>5, <1>7, <1>9, <3>5 DEF PoolInv, EachOnce
      <3> QED
        BY <1>8, <3>3, <3>4, <3>5
    <2> QED
      BY <1>10, <2>1, <2>2, <2>3 DEF EachOnce
  <1>13. NoneIsLeft'
    <2>1. ASSUME NEW p \in DOMAIN windows
          PROVE  p <= taken <=> \/ \E v \in S!Workers : at'[v] = p
                                \/ \E i \in DOMAIN results' : results'[i].pid = p
      <3>1. p # 0
        BY <1>2
      <3>2. CASE p = at[w]
        <4>1. p <= taken
          BY <3>2 DEF PoolInv, NoneIsLeft
        <4>2. \E i \in DOMAIN results' : results'[i].pid = p
          BY <1>5, <1>7, <1>8, <3>2
        <4> QED
          BY <4>1, <4>2
      <3>3. CASE p # at[w]
        <4>1. (\E v \in S!Workers : at'[v] = p) <=> (\E v \in S!Workers : at[v] = p)
          BY <1>9, <3>1, <3>3
        <4>2. (\E i \in DOMAIN results' : results'[i].pid = p) <=> (\E i \in DOMAIN results : results[i].pid = p)
          BY <1>5, <1>7, <1>8, <3>3
        <4> QED
          BY <4>1, <4>2 DEF PoolInv, NoneIsLeft
      <3> QED
        BY <3>2, <3>3
    <2>2. at'[1] = S!Done => Len(windows) < taken
      BY <1>9, PoolConstants DEF PoolInv, NoneIsLeft
    <2> QED
      BY <1>1, <1>10, <2>1, <2>2 DEF NoneIsLeft
  <1>14. WindowsAreTheirs'
    BY <1>1, <1>5, <1>7, <1>8 DEF PoolInv, WindowsAreTheirs
  <1> QED
    BY <1>11, <1>12, <1>13, <1>14 DEF PoolInv

LEMMA PoolRests ==
  ASSUME PoolInv, UNCHANGED <<windows, taken, at, results>>
  PROVE  PoolInv'
  <1>1. PoolTypes'
    BY DEF PoolInv, PoolTypes, PoolResult, Ipcs, S!Workers, S!Idle, S!Done
  <1>2. EachOnce' /\ NoneIsLeft' /\ WindowsAreTheirs'
    BY DEF PoolInv, EachOnce, NoneIsLeft, WindowsAreTheirs, S!Workers, S!Done
  <1> QED
    BY <1>1, <1>2 DEF PoolInv

LEMMA PoolStep == PoolInv /\ [S!Next]_(S!poolVars) => PoolInv'
  <1> SUFFICES ASSUME PoolInv, [S!Next]_(S!poolVars) PROVE PoolInv'
    OBVIOUS
  <1>1. CASE UNCHANGED <<windows, taken, at, results>>
    BY <1>1, PoolRests
  <1>2. ASSUME NEW w \in S!Workers, S!Claim(w) PROVE PoolInv'
    BY <1>2, ClaimKeeps
  <1>3. ASSUME NEW w \in S!Workers, S!Snapshot(w) PROVE PoolInv'
    <2>1. at[w] > 0 /\ S!Report(w, TRUE, windows[at[w]])
      BY <1>3 DEF S!Snapshot
    <2> QED
      BY <1>3, <2>1, ReportKeeps
  <1>4. ASSUME NEW w \in S!Workers, S!Fail(w) PROVE PoolInv'
    <2>1. at[w] > 0 /\ S!Report(w, FALSE, None)
      BY <1>4 DEF S!Fail
    <2> QED
      BY <1>4, <2>1, ReportKeeps
  <1> QED
    BY <1>1, <1>2, <1>3, <1>4 DEF S!Next, S!poolVars, S!Return, S!Retry

(* The results are a permutation of the processes, and so is what is       *)
(* returned.                                                               *)
LEMMA ReturnIsWhole ==
  ASSUME PoolInv, S!Return
  PROVE  S!IsListed(answer')
  <1> DEFINE n == Len(results)
             m == Len(windows)
             f == [i \in 1..n |-> results[i].pid]
  <1>1. /\ windows \in Seq(Ipcs) /\ taken \in Nat /\ results \in Seq(PoolResult)
        /\ \A w \in S!Workers : at[w] = -1
    BY PoolConstants DEF PoolInv, PoolTypes, S!Return
  <1>2. n \in Nat /\ m \in Nat /\ DOMAIN results = 1..n /\ DOMAIN windows = 1..m
    BY <1>1
  <1>3. \A i \in 1..n : results[i].pid \in 1..m
    <2>1. \A i \in 1..n : results[i] \in PoolResult
      BY <1>1
    <2> QED
      BY <1>2, <2>1 DEF PoolResult
  <1>4. m < taken
    BY <1>1, PoolConstants DEF PoolInv, NoneIsLeft
  <1>5. \A p \in 1..m : \E i \in 1..n : results[i].pid = p
    BY <1>1, <1>2, <1>4 DEF PoolInv, NoneIsLeft
  <1>6. \A i, j \in 1..n : results[i].pid = results[j].pid => i = j
    BY <1>2 DEF PoolInv, EachOnce
  <1>7. n = m
    <2>1. f \in [1..n -> 1..m]
      BY <1>3
    <2>2. f \in Injection(1..n, 1..m)
      BY <1>6, <2>1 DEF Injection, IsInjective
    <2>3. f \in Surjection(1..n, 1..m)
      BY <1>5, <2>1 DEF Surjection
    <2>4. /\ IsFiniteSet(1..m) /\ Cardinality(1..m) = m /\ Cardinality(1..n) = n
      <3> HIDE DEF n, m
      <3>1. 1 \in Int /\ n \in Int /\ m \in Int
        BY <1>2
      <3>2. /\ IsFiniteSet(1..m) /\ Cardinality(1..m) = (IF 1 > m THEN 0 ELSE m-1+1)
            /\ Cardinality(1..n) = IF 1 > n THEN 0 ELSE n-1+1
        BY <3>1, FS_Interval
      <3>3. (IF 1 > m THEN 0 ELSE m-1+1) = m /\ (IF 1 > n THEN 0 ELSE n-1+1) = n
        BY <1>2
      <3> QED
        BY <3>2, <3>3
    <2> HIDE DEF f
    <2>5. Cardinality(1..n) = Cardinality(1..m)
      BY <2>2, <2>3, <2>4, FS_Injection
    <2> QED
      BY <2>4, <2>5
  <1> HIDE DEF n, m
  <1>8. PICK o \in S!Bijection(1..n, 1..n) :
          S!InOrder(results, o) /\ answer' = [i \in 1..n |-> results[o[i]]]
    BY <1>2 DEF S!Return, S!Sorted
  <1>9. o \in [1..n -> 1..n] /\ \A j \in 1..n : \E i \in 1..n : o[i] = j
    BY DEF S!Bijection, S!Surjection, S!Injection
  <1>10. DOMAIN answer' = 1..n /\ Len(answer') = n
    BY <1>2, <1>8
  <1>11. {answer'[i].pid : i \in 1..n} = 1..m
    <2>1. \A i \in 1..n : answer'[i].pid \in 1..m
      BY <1>3, <1>8, <1>9
    <2>2. ASSUME NEW p \in 1..m
          PROVE  \E i \in 1..n : answer'[i].pid = p
      <3>1. PICK j \in 1..n : results[j].pid = p
        BY <1>5
      <3>2. PICK i \in 1..n : o[i] = j
        BY <1>9
      <3> QED
        BY <1>8, <3>1, <3>2
    <2> QED
      BY <2>1, <2>2
  <1>12. \A i \in 1..n : answer'[i].ipc = IF answer'[i].read THEN windows[answer'[i].pid] ELSE None
    BY <1>2, <1>8, <1>9 DEF PoolInv, WindowsAreTheirs
  <1>13. ASSUME NEW i \in 1..n, NEW j \in 1..n, i < j
         PROVE  ~S!Before(answer'[j], answer'[i])
    <2> DEFINE r == results[o[i]]
               q == results[o[j]]
    <2>0. o[i] \in DOMAIN results /\ o[j] \in DOMAIN results
      BY <1>2, <1>9
    <2>1. answer'[i] = r /\ answer'[j] = q /\ r \in PoolResult /\ q \in PoolResult
      BY <1>1, <1>8, <2>0, ResultFields
    <2>2. S!Before(r, q) \/ ~S!Before(q, r)
      BY <1>2, <1>8, <1>13 DEF S!InOrder
    <2> HIDE DEF r, q
    <2>3. r.pid \in Nat /\ q.pid \in Nat /\ r.ipc \in Ipcs /\ q.ipc \in Ipcs
      BY <1>2, <2>1 DEF PoolResult
    <2>4. S!Before(r, q) => ~S!Before(q, r)
      BY <2>3 DEF S!Before, Ipcs
    <2> QED
      BY <2>1, <2>2, <2>4
  <1> QED
    BY <1>2, <1>7, <1>10, <1>11, <1>12, <1>13 DEF S!IsListed, n, m

-----------------------------------------------------------------------------
(* The parts together.                                                     *)

(* A line that was logged stays in its file, in its order, and the file in *)
(* the directory, whatever is restarted and pruned, until max_log_files    *)
(* later days have files; the directory keeps to its size; the page shows  *)
(* the end of a day (DailyLogWriter, prune_old_log_files, read_log_file).  *)
THEOREM LogStaysKept == PartsSpec => []LogIsKept
  <1>1. PartsInit => FilesInv
    BY FilesInit DEF PartsInit
  <1>2. [PartsNext]_parts => [F!Next]_(F!vars)
    BY DEF PartsNext, parts, logFiles, F!vars
  <1>3. FilesInv /\ [PartsNext]_parts => FilesInv'
    BY <1>2, FilesStep
  <1>4. FilesInv => LogIsKept
    BY FilesInvKeeps DEF LogIsKept
  <1> QED
    BY <1>1, <1>3, <1>4, PTL DEF PartsSpec

(* An answer lists an overlay only if it was there while the answer was    *)
(* made, and misses one only if it was not: no scan stored late, and no    *)
(* cached one, hides a change of the root that came before the request     *)
(* (OverlayStore::list).  A page shows what a file of an overlay held      *)
(* since it asked, a copy with a matching validator included               *)
(* (handle_overlay_file).                                                  *)
THEOREM AnswersAreOfTheirTime == PartsSpec => []AnswerIsOfItsTime
  <1>1. PartsInit => OverlaysInv /\ AssetInv
    BY OverlaysInit, AssetInit DEF PartsInit
  <1>2. [PartsNext]_parts => [O!Next]_(O!vars) /\ [A!FileNext]_(A!fileVars)
    BY DEF PartsNext, parts, overlays, O!vars, asset, A!fileVars
  <1>3. OverlaysInv /\ AssetInv /\ [PartsNext]_parts => OverlaysInv' /\ AssetInv'
    BY <1>2, OverlaysStep, AssetStep
  <1>4. OverlaysInv /\ AssetInv => AnswerIsOfItsTime
    BY DEF AnswerIsOfItsTime, OverlaysInv, AssetInv
  <1> QED
    BY <1>1, <1>3, <1>4, PTL DEF PartsSpec

(* A frame is built with the last list that had arrived: "a message that   *)
(* has already arrived is always taken before the next frame is built"     *)
(* (handle_ws_tokens), and one that asks for nothing takes no list away.   *)
THEOREM FramesAlwaysFit == PartsSpec => FramesFitTheList
  <1>1. PartsInit => WantedIsAhead
    BY WantedInit DEF PartsInit
  <1>2. [PartsNext]_parts => [T!Next]_(T!vars)
    BY DEF PartsNext, parts, tokens, T!vars, T!feed, T!client
  <1>3. WantedIsAhead /\ [PartsNext]_parts => WantedIsAhead'
    BY <1>2, WantedStep
  <1>4. WantedIsAhead /\ [PartsNext]_parts
          => [tsStage # "sending" /\ tsStage' = "sending" => frame'.list = wanted]_(T!vars)
    BY <1>2, FrameStep
  <1> QED
    BY <1>1, <1>3, <1>4, PTL DEF PartsSpec, FramesFitTheList, T!FramesFitTheList

(* Whichever thread was first: the list that is returned has every process *)
(* once, read or with its error, the windows in their order and before the *)
(* processes without one (snapshot_processes).                             *)
THEOREM ListsAreAlwaysWhole == PartsSpec => S!ListsAreWhole
  <1>1. PartsInit => PoolInv
    BY PoolInit DEF PartsInit
  <1>2. [PartsNext]_parts => [S!Next]_(S!poolVars)
    BY DEF PartsNext, parts, pool, S!poolVars
  <1>3. PoolInv /\ [PartsNext]_parts => PoolInv'
    BY <1>2, PoolStep
  <1>4. PoolInv /\ [PartsNext]_parts => [answer' # answer => S!IsListed(answer')]_(S!poolVars)
    <2> SUFFICES ASSUME PoolInv, S!Next, answer' # answer PROVE S!IsListed(answer')
      BY <1>2
    <2>1. S!Return
      BY DEF S!Next, S!Claim, S!Snapshot, S!Retry, S!Fail, S!Report
    <2> QED
      BY <2>1, ReturnIsWhole
  <1> QED
    BY <1>1, <1>3, <1>4, PTL DEF PartsSpec, S!ListsAreWhole
=============================================================================
