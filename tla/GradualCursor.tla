---------------------------- MODULE GradualCursor ----------------------------
(***************************************************************************)
(* The cursor on the difficulty curve of a play (GradualCursor,            *)
(* src/src/pp.rs): it folds one object after the other into its state, so  *)
(* it can only go forward, and is built anew for another map, other mods   *)
(* or a smaller number of objects.                                         *)
(*                                                                         *)
(* The attributes are those of (map, mods, objects folded), and so is that *)
(* triple.  A curve may be shorter than its map has objects, and a map may *)
(* be one the ruleset cannot convert.                                      *)
(***************************************************************************)
EXTENDS Integers

CONSTANTS
  Maps,     (* records: key, objects, curve, converts                      *)
  Mods,
  Nothing   (* None                                                        *)

Cleared == [key |-> Nothing, built |-> Nothing, processed |-> 0]

Key(map, mods) == <<map.key, mods>>

Lesser(a, b) == IF a < b THEN a ELSE b

Target(map, passed) == Lesser(passed, map.objects)

(* Mutant: a count that goes back is taken for an old one.                 *)
IsRebuiltForward(cursor, map, mods, passed) ==
  cursor.built = Nothing \/ cursor.key # Key(map, mods)

IsRebuilt(cursor, map, mods, passed) ==
  \/ cursor.built = Nothing
  \/ cursor.key # Key(map, mods)
  \/ cursor.processed > Target(map, passed)

(* The cursor after advance_to: its curve is of the map and mods it was    *)
(* built with, and ends where that curve does.                             *)
AdvanceTo(cursor, map, mods, passed) ==
  LET ready == IF IsRebuilt(cursor, map, mods, passed)
               THEN [key |-> Key(map, mods), built |-> <<map, mods>>, processed |-> 0]
               ELSE cursor
      reached == Lesser(Target(map, passed), ready.built[1].curve)
  IN IF IsRebuilt(cursor, map, mods, passed) /\ ~map.converts THEN Cleared
     ELSE [ready EXCEPT !.processed = IF reached > @ THEN reached ELSE @]

(* What it answers: nothing before the first object.                       *)
Attributes(cursor) ==
  IF cursor.built = Nothing \/ cursor.processed = 0 THEN Nothing
  ELSE <<cursor.built, cursor.processed>>

(* Two maps with one key have one content: the key is the map's id, or a   *)
(* hash of its first and last objects when it has none.                    *)
KeysAreOfOneMap == \A m, n \in Maps : m.key = n.key => m = n

(* Whatever was asked of it before, it answers what a new cursor would.    *)
IsFresh(cursor, map, mods, passed) ==
  Attributes(AdvanceTo(cursor, map, mods, passed)) =
    Attributes(AdvanceTo(Cleared, map, mods, passed))
=============================================================================
