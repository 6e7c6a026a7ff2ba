------------------------------ MODULE JsonDelta ------------------------------
(***************************************************************************)
(* compute_json_delta (src/src/v2.rs): the RFC 7396 merge patch between    *)
(* two JSON values, and the merge its consumer applies.                    *)
(*                                                                         *)
(* An object is a function from keys to what its map has there, a value or *)
(* Nothing.  An array is replaced as a whole, like a number or a string,   *)
(* so all of them are Scalars.                                             *)
(***************************************************************************)
EXTENDS Naturals

CONSTANTS
  Keys,     (* the keys there are                                          *)
  Scalars,  (* the values that are not objects, null excepted              *)
  Null,     (* Value::Null                                                 *)
  Nothing,  (* Option::None: no value at a key, no difference              *)
  Depth     (* how deep objects are nested                                 *)

Leaves == Scalars \cup {Null}
Objects(values) == [Keys -> values \cup {Nothing}]

(* The values with objects in objects up to n times.                       *)
Below[n \in 0..Depth] == IF n = 0 THEN Leaves ELSE Leaves \cup Objects(Below[n - 1])
Json == Below[Depth]

(* What the constants have to be; the modules that use them assume it.     *)
JsonAssumption ==
  /\ Depth \in Nat
  /\ Null \notin Scalars /\ Nothing \notin Leaves
  /\ \A v \in Leaves \cup {Nothing} : v \notin Objects(Json)

IsObject(v) == v \notin Leaves \cup {Nothing}

Empty == [k \in Keys |-> Nothing]

-----------------------------------------------------------------------------
(* One level of each recursion, for what deeper levels gave.               *)

(* Mutant: a key that only curr has is forgotten.                          *)
DeltaOfCommon(deeper, prev, curr) ==
  IF prev = curr THEN Nothing
  ELSE IF ~(IsObject(prev) /\ IsObject(curr)) THEN curr
  ELSE [k \in Keys |-> IF curr[k] = Nothing THEN IF prev[k] = Nothing THEN Nothing ELSE Null
                       ELSE IF prev[k] = Nothing THEN Nothing
                       ELSE deeper[prev[k]][curr[k]]]

(* compute_json_delta: a key that is gone gets a null.                     *)
DeltaBody(deeper, prev, curr) ==
  IF prev = curr THEN Nothing
  ELSE IF ~(IsObject(prev) /\ IsObject(curr)) THEN curr
  ELSE LET delta == [k \in Keys |->
             IF curr[k] = Nothing THEN IF prev[k] = Nothing THEN Nothing ELSE Null
             ELSE IF prev[k] = Nothing THEN curr[k]
             ELSE deeper[prev[k]][curr[k]]]
       IN IF delta = Empty THEN Nothing ELSE delta

(* MergePatch of RFC 7396, which the consumer runs.                        *)
MergeBody(deeper, target, patch) ==
  IF ~IsObject(patch) THEN patch
  ELSE LET base == IF IsObject(target) THEN target ELSE Empty
       IN [k \in Keys |->
             IF patch[k] = Nothing THEN base[k]
             ELSE IF patch[k] = Null THEN Nothing
             ELSE deeper[IF base[k] = Nothing THEN Null ELSE base[k]][patch[k]]]

(* A null stands in curr only where one stood in prev: to a consumer it    *)
(* says that the key is gone.                                              *)
StayBody(deeper, prev, curr) ==
  /\ curr = Null => prev = Null
  /\ IsObject(curr) => \A k \in Keys : curr[k] # Nothing =>
       deeper[IF IsObject(prev) THEN prev[k] ELSE Nothing][curr[k]]

DeltaOf[prev \in Json] == [curr \in Json |-> DeltaBody(DeltaOf, prev, curr)]
MergeOf[target \in Json] == [patch \in Json |-> MergeBody(MergeOf, target, patch)]
NullsStay[prev \in Json \cup {Nothing}] == [curr \in Json |-> StayBody(NullsStay, prev, curr)]

-----------------------------------------------------------------------------
(* What the consumer has after a patch is what the patch was made for, and *)
(* there is a patch unless nothing changed.                                *)
MergeGivesCurr(prev, curr) ==
  /\ DeltaOf[prev][curr] = Nothing <=> prev = curr
  /\ NullsStay[prev][curr] /\ prev # curr => MergeOf[prev][DeltaOf[prev][curr]] = curr
=============================================================================
