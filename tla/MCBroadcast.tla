----------------------------- MODULE MCBroadcast -----------------------------
(***************************************************************************)
(* Broadcast, and the two functions that make a frame of a packet: the     *)
(* delta (JsonDelta), from any value to any other, and the filters         *)
(* (WsFilters), with any list.  One of the three runs, the others rest, as *)
(* none reads what another one writes.                                     *)
(***************************************************************************)
EXTENDS Broadcast

CONSTANTS
  Samples,      (* values: what the functions are asked about              *)
  SampleLists,  (* lists of filters                                        *)
  Nesting,      (* how deep they are nested                                *)
  s1, s2,       (* two scalars                                             *)
  c1, c2        (* a plain connection and a delta connection               *)

VARIABLES
  part,         (* the one that runs                                       *)
  asked         (* what a function is asked about, if it is asked          *)

allVars == <<vars, part, asked>>

W == INSTANCE WsFilters WITH Values <- J!Json, Nothing <- None, Unfiltered <- None

ASSUME SamplesAssumption ==
  /\ Samples \subseteq J!Json
  /\ SampleLists \subseteq W!Lists
  /\ Nesting \in Nat

Ask(questions) ==
  /\ IF asked = {} THEN \E q \in questions : asked' = {q} ELSE asked' = {}
  /\ UNCHANGED vars

(* What rests has no game.                                                 *)
AllInit ==
  /\ part \in {"feed", "delta", "filter"}
  /\ Init /\ (part # "feed" => source.fails)
  /\ asked = {}

AllNext ==
  /\ UNCHANGED part
  /\ \/ part = "feed" /\ Next /\ UNCHANGED asked
     \/ part = "delta" /\ Ask(Samples)
     \/ part = "filter" /\ Ask(SampleLists)

AllSpec == AllInit /\ [][AllNext]_allVars /\ Fairness

-----------------------------------------------------------------------------
(* A page has of the packet what it asked for: all of it, by its deltas    *)
(* ("an RFC 7396 merge diff", src/src/v2.rs), unless something became      *)
(* null; or the keys its list names, where the first entry to name them    *)
(* stands, with what the last one asks for.                                *)
FramesGiveThePacket ==
  /\ part = "delta" => \A p \in asked, q \in Samples : J!MergeGivesCurr(p, q)
  /\ part = "filter" => \A list \in asked, data \in Samples : W!FilterGivesTheList(list, data)

(* "An RFC 7396 merge diff" (src/src/v2.rs), which the code does not keep: *)
(* to become null is to go.                                                *)
DeltasAlwaysMerge ==
  part = "delta" => \A p \in asked, q \in Samples :
    p # q => J!MergeOf[p][J!DeltaOf[p][q]] = q

-----------------------------------------------------------------------------
(* Packets of a few keys: a score that moves, a map that changes with it   *)
(* and brings a key of its own, a null that stays.                         *)
MCKeys == {"play", "score", "combo", "beatmap", "stamina", "profile", "matchmaking"}

Object(r) == [k \in MCKeys |-> IF k \in DOMAIN r THEN r[k] ELSE None]
Packet(score, combo, beatmap) ==
  Object([play |-> Object([score |-> score, combo |-> combo]), beatmap |-> beatmap,
          profile |-> Object([matchmaking |-> Null])])

MCFirst == Packet(s1, s1, s1)
OfTaiko == Packet(s2, s2, Object([stamina |-> s2]))
MCPackets == {MCFirst, Packet(s2, s1, s1), OfTaiko}
MCWithNaN == {OfTaiko}

(* Values of two keys and two levels, and lists of two entries and more.   *)
Some == {"play", "score"}
Pairs(plays, scores) == {Object([play |-> m[1], score |-> m[2]]) : m \in plays \X scores}
MCSamples ==
  LET flat == {s1, s2, Null}
      inner == {s1, Null, None}
  IN flat \cup Pairs(flat \cup Pairs(inner, inner) \cup {None}, flat \cup {None})

ListsOf(entries, n) == UNION {[1..k -> entries] : k \in 0..n}
MCLists ==
  LET flat == [kind : {"key"}, field : Some] \cup [kind : {"bad"}]
      deep == [kind : {"nested"}, field : Some, keys : ListsOf(flat, 2)]
  IN ListsOf(flat \cup deep, 2) \cup ListsOf(flat, 3)
=============================================================================
