------------------------------ MODULE WsFilters ------------------------------
(***************************************************************************)
(* What a list of filters leaves of a packet (src/src/ws_filters.rs).      *)
(*                                                                         *)
(* The packet is a JSON value, as in JsonDelta.  A list is a sequence of   *)
(* entries: a key, an object with a field and a list of its own, or bad,   *)
(* which no filter parses from; a bad entry is skipped wherever it stands, *)
(* so it stays in its list here and adds nothing.  What the walk builds is *)
(* a Filtered: keys and values in the order they are written to the wire.  *)
(***************************************************************************)
EXTENDS Naturals, Sequences

CONSTANTS
  Keys,        (* the keys there are                                       *)
  Values,      (* the JSON values                                          *)
  Scalars,     (* the ones that are not objects, null excepted             *)
  Null,        (* Value::Null                                              *)
  Nothing,     (* Option::None: no value at a key                          *)
  Unfiltered,  (* Option::None: send the whole packet                      *)
  Nesting      (* how deep lists are nested                                *)

Flat == [kind : {"key"}, field : Keys] \cup [kind : {"bad"}]

(* The lists with lists in lists up to n times.                            *)
ListsBelow[n \in 0..Nesting] ==
  IF n = 0 THEN Seq(Flat)
  ELSE Seq(Flat \cup [kind : {"nested"}, field : Keys, keys : ListsBelow[n - 1]])
Lists == ListsBelow[Nesting]

IsObject(v) == v \notin Scalars \cup {Null, Nothing}

(* A filter names a key that is there, or a parent that is not null.       *)
Names(f, data) ==
  /\ f.kind # "bad"
  /\ IsObject(data) /\ data[f.field] # Nothing
  /\ f.kind = "nested" => data[f.field] # Null

-----------------------------------------------------------------------------
(* Mutant: a key that is named again goes to the end.                      *)
InsertedLast(out, key, value) ==
  Append(SelectSeq(out, LAMBDA e : e.key # key), [key |-> key, value |-> value])

(* Filtered::insert                                                        *)
Inserted(out, key, value) ==
  IF \E i \in DOMAIN out : out[i].key = key
  THEN [i \in DOMAIN out |-> IF out[i].key = key THEN [key |-> key, value |-> value] ELSE out[i]]
  ELSE Append(out, [key |-> key, value |-> value])

(* What an entry asks for; deeper says what nested lists leave.            *)
Asked(deeper, f, data) ==
  IF f.kind = "key" THEN data[f.field] ELSE deeper[f.keys][data[f.field]]

(* write_filter                                                            *)
Written(deeper, out, f, data) ==
  IF Names(f, data) THEN Inserted(out, f.field, Asked(deeper, f, data)) ELSE out

(* The loop over a list, and what it has after each entry.                 *)
WrittenUpTo(deeper, list, data) ==
  LET out[i \in 0..Len(list)] ==
        IF i = 0 THEN <<>> ELSE Written(deeper, out[i - 1], list[i], data)
  IN out

LeftBody(deeper, list, data) == WrittenUpTo(deeper, list, data)[Len(list)]

LeftBy[list \in Lists] == [data \in Values |-> LeftBody(LeftBy, list, data)]

(* apply_filters                                                           *)
Filtered(list, data) ==
  IF \A i \in DOMAIN list : list[i].kind = "bad" THEN Unfiltered ELSE LeftBy[list][data]

-----------------------------------------------------------------------------
(* The walk's output, said without the walk: the keys that some entry      *)
(* names, each once, in the order of the first entries that name them,     *)
(* each with what the last entry that names it asks for.                   *)
IsLeftBy(out, list, data) ==
  LET naming(key) == {i \in DOMAIN list : Names(list[i], data) /\ list[i].field = key}
  IN /\ \A key \in Keys : naming(key) # {} <=> \E i \in DOMAIN out : out[i].key = key
     /\ \A i, j \in DOMAIN out : i < j =>
          \E m \in naming(out[i].key) : \A n \in naming(out[j].key) : m < n
     /\ \A i \in DOMAIN out :
          \E m \in naming(out[i].key) :
            /\ \A n \in naming(out[i].key) : n <= m
            /\ out[i].value = Asked(LeftBy, list[m], data)

(* Without a filter the packet is sent whole.                              *)
FilterGivesTheList(list, data) ==
  IF \A i \in DOMAIN list : list[i].kind = "bad" THEN Filtered(list, data) = Unfiltered
  ELSE IsLeftBy(Filtered(list, data), list, data)
=============================================================================
