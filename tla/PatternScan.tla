----------------------------- MODULE PatternScan -----------------------------
(***************************************************************************)
(* The search for a byte pattern in the memory of the game                 *)
(* (ProcessMemory::scan_pattern, src/src/process.rs; BytePattern::find_all, *)
(* src/src/pattern.rs): region after region, each read in chunks that      *)
(* overlap by one byte less than the pattern is long.                      *)
(*                                                                         *)
(* A region is the half-open range of addresses [base, end), in the order  *)
(* the system lists them.  A read of a chunk may fail.                     *)
(***************************************************************************)
EXTENDS Integers, Sequences, FiniteSets

CONSTANTS
  Searches,   (* what may be searched for, and where                       *)
  Wild,       (* a token that every byte matches                           *)
  Chunk,      (* SCAN_CHUNK_SIZE                                           *)
  Nothing     (* no search                                                 *)

VARIABLES
  search,     (* what is searched for: the arguments of the call           *)
  todo,       (* the regions that are still to be looked at                *)
  region,     (* the one that is searched, 0 for none                      *)
  limit,      (* region_limit: how many bytes of it                        *)
  offset,     (* how many of those are behind                              *)
  chunk,      (* the chunk that was read, how far it was compared, and how *)
              (* many more may be found in it                              *)
  budget,     (* bytes that may still be read                              *)
  matches,    (* the addresses found                                       *)
  failed      (* history: regions given up as a read failed                *)

(* What a call may ask for.  query_regions goes upwards from 0, so that    *)
(* the regions do not overlap; a pattern has a token and fits in a chunk.  *)
IsSearch(s) ==
  /\ Len(s.pattern) \in 1..Chunk
  /\ Len(s.regions) \in Nat /\ DOMAIN s.regions = 1..Len(s.regions)
  /\ \A i \in DOMAIN s.regions :
       /\ s.regions[i].base \in Int /\ s.regions[i].end \in Int
       /\ \A j \in DOMAIN s.regions : i < j => s.regions[i].end <= s.regions[j].base
  /\ s.low \in Int /\ s.high \in Int
  /\ s.max \in Nat /\ s.budget \in Nat

(* What is assumed of the constants.                                       *)
SearchesAssumption ==
  /\ Chunk \in Nat
  /\ Nothing \notin Searches
  /\ \A s \in Searches : IsSearch(s)

Lesser(x, y) == IF x < y THEN x ELSE y
Greater(x, y) == IF x > y THEN x ELSE y

-----------------------------------------------------------------------------
Size == Len(search.pattern)

(* BytePattern::matches_at *)
MatchesAt(address) ==
  \A i \in DOMAIN search.pattern : search.pattern[i] \in {Wild, search.memory[address + i - 1]}

(* What the range leaves of a region.                                      *)
From(i) == Greater(search.regions[i].base, search.low)
To(i) == Lesser(search.regions[i].end, search.high)

(* The executable ones come first (sort_by_key keeps the order otherwise). *)
Before(i, j) ==
  \/ search.regions[i].executable /\ ~search.regions[j].executable
  \/ search.regions[i].executable = search.regions[j].executable /\ i < j

NoChunk == [size |-> 0, at |-> 0, left |-> 0]

IsDone == region = 0 /\ todo = {}

(* The call: the regions of which something is in the range.               *)
Begin ==
  /\ search = Nothing
  /\ search' \in Searches
  /\ todo' = {i \in DOMAIN search'.regions : From(i)' < To(i)'}
  /\ budget' = search'.budget
  /\ UNCHANGED <<region, limit, offset, chunk, matches, failed>>

(* for region in regions                                                   *)
NextRegion ==
  /\ search # Nothing /\ region = 0
  /\ \E i \in todo :
       /\ \A j \in todo \ {i} : Before(i, j)
       /\ todo' = todo \ {i}
       /\ region' = IF search.regions[i].readable /\ Len(matches) < search.max /\ budget > 0
                    THEN i ELSE 0
       /\ limit' = Lesser(To(i) - From(i), budget)
  /\ offset' = 0
  /\ UNCHANGED <<search, chunk, budget, matches, failed>>

ChunkSize == Lesser(limit - offset, Chunk)
GoesOn == offset < limit /\ Len(matches) < search.max /\ ChunkSize >= Size

(* read_bytes                                                              *)
ReadChunk ==
  /\ region # 0 /\ chunk = NoChunk /\ GoesOn
  /\ chunk' = [size |-> ChunkSize, at |-> 0, left |-> search.max - Len(matches)]
  /\ UNCHANGED <<search, todo, region, limit, offset, budget, matches, failed>>

ReadFails ==
  /\ region # 0 /\ chunk = NoChunk /\ GoesOn
  /\ region' = 0
  /\ failed' = failed \cup {region}
  /\ UNCHANGED <<search, todo, limit, offset, chunk, budget, matches>>

EndRegion ==
  /\ region # 0 /\ chunk = NoChunk /\ ~GoesOn
  /\ region' = 0
  /\ UNCHANGED <<search, todo, limit, offset, chunk, budget, matches, failed>>

(* BytePattern::find_all, an offset after the other.  What was found twice *)
(* in a row is kept once.                                                  *)
IsCompared == chunk.at > chunk.size - Size \/ chunk.left = 0

Compare ==
  /\ chunk # NoChunk /\ ~IsCompared
  /\ LET address == From(region) + offset + chunk.at IN
       IF MatchesAt(address)
       THEN /\ chunk' = [chunk EXCEPT !.at = @ + 1, !.left = @ - 1]
            /\ matches' = IF matches # <<>> /\ matches[Len(matches)] = address THEN matches
                          ELSE Append(matches, address)
       ELSE /\ chunk' = [chunk EXCEPT !.at = @ + 1]
            /\ UNCHANGED matches
  /\ UNCHANGED <<search, todo, region, limit, offset, budget, failed>>

(* Mutant: the chunks overlap by one byte too few.                         *)
OverlapShort == Greater(Size - 2, 0)

Overlap == Size - 1

EndChunk ==
  /\ chunk # NoChunk /\ IsCompared
  /\ chunk' = NoChunk
  /\ offset' = offset + (chunk.size - Overlap)
  /\ budget' = Greater(budget - (chunk.size - Overlap), 0)
  /\ UNCHANGED <<search, todo, region, limit, matches, failed>>

(* The matches are returned, and the state of the call is gone.            *)
Return ==
  /\ search # Nothing /\ IsDone
  /\ search' = Nothing
  /\ limit' = 0 /\ offset' = 0 /\ budget' = 0 /\ matches' = <<>> /\ failed' = {}
  /\ UNCHANGED <<todo, region, chunk>>

Init ==
  /\ search = Nothing /\ todo = {} /\ region = 0 /\ chunk = NoChunk
  /\ limit = 0 /\ offset = 0 /\ budget = 0 /\ matches = <<>> /\ failed = {}

Next ==
  \/ Begin \/ NextRegion \/ ReadChunk \/ ReadFails \/ EndRegion
  \/ Compare \/ EndChunk \/ Return

-----------------------------------------------------------------------------
(* The pattern lies at an address, inside what is searched of a region.    *)
IsPlace(i, address) ==
  /\ search.regions[i].readable
  /\ From(i) <= address /\ address + Size <= To(i)
  /\ MatchesAt(address)

ComesBefore(i, x, j, y) == Before(i, j) \/ (i = j /\ x < y)

(* What there is to read.                                                  *)
Cells(i) == {<<i, x>> : x \in From(i)..(To(i) - 1)}
AllCells == UNION {Cells(i) : i \in DOMAIN search.regions}

(* What is found is a place, none twice, in the order of the regions; no   *)
(* more than what was asked for.                                           *)
IsFoundInOrder ==
  /\ Len(matches) <= search.max
  /\ \A m \in DOMAIN matches : \E i \in DOMAIN search.regions : IsPlace(i, matches[m])
  /\ \A m, n \in DOMAIN matches : m < n =>
       \E i, j \in DOMAIN search.regions :
         /\ IsPlace(i, matches[m]) /\ IsPlace(j, matches[n])
         /\ ComesBefore(i, matches[m], j, matches[n])

(* Each place is found, across the seams of the chunks, or comes after all *)
(* that were asked for, as long as its region can be read and the budget   *)
(* covers the regions.                                                     *)
IsFoundEverywhere ==
  IsDone /\ Cardinality(AllCells) <= search.budget =>
    \A i \in DOMAIN search.regions \ failed : \A x \in From(i)..To(i) :
      IsPlace(i, x) =>
        \/ \E m \in DOMAIN matches : matches[m] = x
        \/ /\ Len(matches) = search.max
           /\ \A m \in DOMAIN matches : \E j \in DOMAIN search.regions :
                IsPlace(j, matches[m]) /\ ComesBefore(j, matches[m], i, x)

PatternIsFound == search # Nothing => IsFoundInOrder /\ IsFoundEverywhere
=============================================================================
