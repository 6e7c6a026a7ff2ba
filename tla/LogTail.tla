------------------------------- MODULE LogTail -------------------------------
(***************************************************************************)
(* The live log (LogTailBuffer, src/src/logging.rs; handle_logs_tail,      *)
(* src/src/server.rs).  A thread that logs broadcasts the entry to the     *)
(* open tails and then appends it to a ring of recent ones.  A tail that   *)
(* is opened subscribes, copies the recent entries, shows those, and then  *)
(* what it receives.  Entries are numbered in the order of the broadcast.  *)
(*                                                                         *)
(* The broadcast channel (tokio's) keeps the last Channel entries for      *)
(* everybody: a receiver that is further behind is told that it lagged and *)
(* goes on with the oldest one that is left.                               *)
(***************************************************************************)
EXTENDS Naturals, SequencesExt

CONSTANTS
  Threads,    (* the threads that log                                      *)
  Tails,      (* the open tails                                            *)
  Capacity,   (* of the ring: 500                                          *)
  Channel,    (* of the broadcast channel: 1024                            *)
  Limit,      (* how many recent entries a tail asks for: 100              *)
  MaxEntries  (* bound: entries logged                                     *)

ASSUME LogAssumption ==
  /\ Capacity \in Nat \ {0}
  /\ Channel \in Nat \ {0}
  /\ Limit \in Nat \ {0}
  /\ MaxEntries \in Nat

VARIABLES
  sent,     (* how many entries were broadcast                             *)
  pushing,  (* the entry each thread has broadcast and not appended, or 0  *)
  entries,  (* LogTailBuffer::entries                                      *)
  stage,    (* "closed", "opening" (between the two calls), "open"         *)
  next,     (* the next entry each receiver is to get                      *)
  initial,  (* the recent entries still to show                            *)
  events,   (* history: what the page was sent                             *)
  excused   (* history: what the recent entries need not have held         *)

buffer == <<sent, pushing, entries>>
tails == <<stage, next, initial, events, excused>>
vars == <<buffer, tails>>

Numbers == 1..MaxEntries

Events == [kind : {"init", "log"}, entry : Numbers] \cup {[kind |-> "lagged"]}

TypeOK ==
  /\ sent \in 0..MaxEntries
  /\ pushing \in [Threads -> 0..MaxEntries]
  /\ entries \in Seq(Numbers) /\ Len(entries) <= Capacity
  /\ stage \in [Tails -> {"closed", "opening", "open"}]
  /\ next \in [Tails -> 1..MaxEntries + 1]
  /\ initial \in [Tails -> Seq(Numbers)]
  /\ \A t \in Tails : Len(initial[t]) <= Limit
  /\ events \in [Tails -> Seq(Events)]
  /\ excused \in [Tails -> SUBSET Numbers]

Init ==
  /\ sent = 0
  /\ pushing = [p \in Threads |-> 0]
  /\ entries = <<>>
  /\ stage = [t \in Tails |-> "closed"]
  /\ next = [t \in Tails |-> 1]
  /\ initial = [t \in Tails |-> <<>>]
  /\ events = [t \in Tails |-> <<>>]
  /\ excused = [t \in Tails |-> {}]

-----------------------------------------------------------------------------
(* LogTailBuffer::push: two steps, and only the second takes the lock.     *)

Send(p) ==
  /\ pushing[p] = 0
  /\ sent < MaxEntries
  /\ sent' = sent + 1
  /\ pushing' = [pushing EXCEPT ![p] = sent']
  /\ UNCHANGED <<entries, tails>>

Pushed(e) == Append(IF Len(entries) >= Capacity THEN Tail(entries) ELSE entries, e)

AppendEntry(p) ==
  /\ pushing[p] # 0
  /\ entries' = Pushed(pushing[p])
  /\ pushing' = [pushing EXCEPT ![p] = 0]
  /\ UNCHANGED <<sent, tails>>

-----------------------------------------------------------------------------
(* handle_logs_tail.                                                       *)

(* recent: the last n entries, or all of them.                             *)
Recent(n) == SubSeq(entries, IF n < Len(entries) THEN Len(entries) - n + 1 ELSE 1, Len(entries))

Subscribe(t) == next' = [next EXCEPT ![t] = sent + 1] /\ UNCHANGED <<initial, excused>>

(* What the copy does not hold is older, or on its way to the ring.        *)
Copy(t) ==
  /\ initial' = [initial EXCEPT ![t] = Recent(Limit)]
  /\ excused' = [excused EXCEPT ![t] = (1..sent) \ ToSet(Recent(Limit))]
  /\ UNCHANGED next

(* Mutant: the entries are copied before the subscription.                 *)
CopyFirst(t) == IF stage[t] = "closed" THEN Copy(t) ELSE Subscribe(t)

(* Two calls, one after the other.                                         *)
OpenCall(t) == IF stage[t] = "closed" THEN Subscribe(t) ELSE Copy(t)

Open(t) ==
  /\ stage[t] # "open"
  /\ stage' = [stage EXCEPT ![t] = IF @ = "closed" THEN "opening" ELSE "open"]
  /\ OpenCall(t)
  /\ UNCHANGED <<buffer, events>>

Emit(t, event) == events' = [events EXCEPT ![t] = Append(@, event)]

ShowInitial(t) ==
  /\ stage[t] = "open"
  /\ initial[t] # <<>>
  /\ Emit(t, [kind |-> "init", entry |-> Head(initial[t])])
  /\ initial' = [initial EXCEPT ![t] = Tail(@)]
  /\ UNCHANGED <<buffer, stage, next, excused>>

Lagging(t) == next[t] + Channel <= sent

(* Mutant: a receiver that lagged goes on without a word.                  *)
ReceiveQuietly(t) ==
  LET e == IF Lagging(t) THEN sent + 1 - Channel ELSE next[t]
  IN  /\ Emit(t, [kind |-> "log", entry |-> e])
      /\ next' = [next EXCEPT ![t] = e + 1]

(* Mutant: the warning leaves the receiver where it was.                   *)
ReceiveStuck(t) ==
  IF Lagging(t)
  THEN (IF Len(events[t]) > 0 /\ events[t][Len(events[t])].kind = "lagged"
        THEN UNCHANGED events ELSE Emit(t, [kind |-> "lagged"]))
       /\ UNCHANGED next
  ELSE /\ Emit(t, [kind |-> "log", entry |-> next[t]])
       /\ next' = [next EXCEPT ![t] = @ + 1]

(* rx.recv(): the next entry, or a warning and on to the oldest one left.  *)
Receive(t) ==
  IF Lagging(t)
  THEN /\ Emit(t, [kind |-> "lagged"])
       /\ next' = [next EXCEPT ![t] = sent + 1 - Channel]
  ELSE /\ Emit(t, [kind |-> "log", entry |-> next[t]])
       /\ next' = [next EXCEPT ![t] = @ + 1]

ShowNext(t) ==
  /\ stage[t] = "open"
  /\ initial[t] = <<>>
  /\ next[t] <= sent
  /\ Receive(t)
  /\ UNCHANGED <<buffer, stage, initial, excused>>

(* The page is closed: the stream and its receiver are dropped.            *)
Close(t) ==
  /\ stage[t] = "open"
  /\ stage' = [stage EXCEPT ![t] = "closed"]
  /\ next' = [next EXCEPT ![t] = 1]
  /\ initial' = [initial EXCEPT ![t] = <<>>]
  /\ events' = [events EXCEPT ![t] = <<>>]
  /\ excused' = [excused EXCEPT ![t] = {}]
  /\ UNCHANGED buffer

Next ==
  \/ \E p \in Threads : Send(p) \/ AppendEntry(p)
  \/ \E t \in Tails : Open(t) \/ ShowInitial(t) \/ ShowNext(t) \/ Close(t)

Spec == Init /\ [][Next]_vars

(* A request that was taken up is handled, and a page that stays open      *)
(* reads.                                                                  *)
Fairness ==
  \A t \in Tails :
    /\ WF_vars(stage[t] = "opening" /\ Open(t))
    /\ WF_vars(ShowInitial(t) \/ ShowNext(t))

FairSpec == Spec /\ Fairness

-----------------------------------------------------------------------------
(* Properties.                                                             *)

(* Between two live entries that follow one another on the page nothing    *)
(* was logged: where something is missing, a warning stands.               *)
NoSilentGap ==
  \A t \in Tails : \A i \in 1..Len(events[t]) - 1 :
    LET a == events[t][i]
        b == events[t][i + 1]
    IN  a.kind = "log" /\ b.kind = "log" => b.entry = a.entry + 1

Shown(t) == {e.entry : e \in {x \in ToSet(events[t]) : x.kind # "lagged"}}

(* A page that was never told it lagged holds every entry up to the one it *)
(* has come to, but for those that were old, or on their way to the ring,  *)
(* when it opened: none falls between the copy and the subscription.       *)
NothingBetween ==
  \A t \in Tails :
    stage[t] = "open" /\ initial[t] = <<>> /\ [kind |-> "lagged"] \notin ToSet(events[t])
      => 1..next[t] - 1 \subseteq Shown(t) \cup excused[t]

(* What a page does not show it was told of, or knows to be older.          *)
NothingIsMissed == NoSilentGap /\ NothingBetween

(* A page that stays open comes to the last entry, whatever it missed.     *)
TailCatchesUp ==
  \A t \in Tails :
    <>[](stage[t] = "open") => <>[](initial[t] = <<>> /\ next[t] = sent + 1)
=============================================================================
