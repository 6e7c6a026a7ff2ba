----------------------------- MODULE MCSoloPlay -----------------------------
(***************************************************************************)
(* SoloPlay, and two things it takes as given: the cursor a live rating    *)
(* comes out of (GradualCursor), under calls in any order, and the grades  *)
(* of a play (PlayNumbers), from the counts it may end with.  One of the   *)
(* three runs, the others rest, as none reads what another one writes.     *)
(***************************************************************************)
EXTENDS SoloPlay

CONSTANTS
  Curves,         (* the maps of the cursor                                *)
  MaxPassed,      (* bound: objects the cursor is asked for                *)
  MaxCount,       (* PlayNumbers: i16::MAX                                 *)
  Hits,           (* how often a judgement may occur                       *)
  ObjectTotals    (* how many objects a map may have                       *)

VARIABLES
  part,           (* the one that runs                                     *)
  cursor,         (* the cursor                                            *)
  judged          (* the counts of a play, if there is one                 *)

allVars == <<vars, part, cursor, judged>>

Curve == INSTANCE GradualCursor WITH Maps <- Curves, Nothing <- None
Number == INSTANCE PlayNumbers

ASSUME NumbersAssumption ==
  /\ \A m \in Curves : m.objects \in Nat /\ m.curve \in Nat
  /\ Curve!KeysAreOfOneMap
  /\ MaxPassed \in Nat /\ MaxCount \in Nat
  /\ Hits \subseteq Nat /\ ObjectTotals \subseteq Nat

(* Only mania counts geki, and only there is ScoreV2 looked at.            *)
Plays ==
  {p \in [mode : 0..3, n300 : Hits, n100 : {0, 1, 9}, n50 : {0, 1}, miss : {0, 1, 3},
          geki : Hits, katu : {0, 1}, scoreV2 : BOOLEAN] :
     p.scoreV2 \/ p.geki # 0 => p.mode = 3}

Advance ==
  /\ \E m \in Curves, mods \in Mods, passed \in 0..MaxPassed :
       cursor' = Curve!AdvanceTo(cursor, m, mods, passed)
  /\ UNCHANGED judged

Judged ==
  /\ IF judged = {} THEN \E p \in Plays : judged' = {p} ELSE judged' = {}
  /\ UNCHANGED cursor

AllInit ==
  /\ part \in {"session", "cursor", "grades"}
  /\ Init /\ cursor = Curve!Cleared /\ judged = {}

AllNext ==
  /\ UNCHANGED part
  /\ \/ part = "session" /\ Next /\ UNCHANGED <<cursor, judged>>
     \/ part = "cursor" /\ Advance /\ UNCHANGED vars
     \/ part = "grades" /\ Judged /\ UNCHANGED vars

AllSpec == AllInit /\ [][AllNext]_allVars

-----------------------------------------------------------------------------
(* Whatever the cursor was asked before, it answers what a new one would.  *)
CursorIsFresh ==
  part = "cursor" =>
    \A m \in Curves, mods \in Mods, passed \in 0..MaxPassed :
      Curve!IsFresh(cursor, m, mods, passed)

(* A judgement that is better never lowers the grade, and "the grade this  *)
(* play would end on if nothing else is missed" (src/src/client.rs) is no  *)
(* worse than the grade now and within reach.                              *)
PlayIsScored ==
  \A p \in judged :
    /\ Number!BetterIsNoWorse(p)
    /\ \A objects \in ObjectTotals : Number!ProjectionIsBetween(p, objects)

(* "accuracy as a percentage, from the raw result-screen judgement         *)
(* counters" (src/src/client.rs), which the code does not keep.            *)
AccuracyIsPercentage == \A p \in judged : Number!IsPercentage(Number!Accuracy(p))

(* Maps of two and more objects, with a short curve, one that cannot be    *)
(* converted.                                                              *)
ThreeCurves ==
  {[key |-> 1, objects |-> 3, curve |-> 2, converts |-> TRUE],
   [key |-> 2, objects |-> 4, curve |-> 4, converts |-> TRUE],
   [key |-> 3, objects |-> 2, curve |-> 2, converts |-> FALSE]}
=============================================================================
