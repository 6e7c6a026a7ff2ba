---------------------------- MODULE OverlayStore ----------------------------
(***************************************************************************)
(* The overlays on disk and the list of them the server answers with       *)
(* (OverlayStore, discover, src/src/overlays.rs).  A request takes the     *)
(* modification time of the root, answers from the cache if that was made  *)
(* at the same time, and otherwise looks at every folder, stores what it   *)
(* found under the time it took, and answers with that.  Requests run side *)
(* by side; the cache's lock is held for one read or one write.            *)
(*                                                                         *)
(* An overlay is a folder with an index.html.  Creating or removing a      *)
(* folder changes the time of the root, a file inside a folder does not.   *)
(***************************************************************************)
EXTENDS Naturals

CONSTANTS
  Folders,      (* the names of overlays                                   *)
  Requests,     (* the requests under way                                  *)
  MaxChanges,   (* bound: changes of the root                              *)
  MaxFailures   (* bound: scans of a root that cannot be read              *)

(* What the constants have to be; MCServerParts assumes it.                *)
OverlayAssumption ==
  /\ MaxChanges \in Nat
  /\ MaxFailures \in Nat

VARIABLES
  disk,      (* the folders that exist, and whether each has an index.html *)
  time,      (* the modification time of the root                          *)
  cache,     (* OverlayStore::cache                                        *)
  request,   (* where each request is                                      *)
  failures,  (* how many scans could not read the root                     *)
  present,   (* history: the overlays there were at some time of a request *)
  absent,    (* history: those there were not                              *)
  late,      (* history: the folders changed inside, or hidden by a scan   *)
             (* that failed, since the root last changed                   *)
  excused    (* history: what was late when a request came                 *)

vars == <<disk, time, cache, request, failures, present, absent, late, excused>>

Overlays == {f \in DOMAIN disk : disk[f]}

Stages == {"none", "stamped", "scanning", "found", "answered"}

Request == [at : Stages, stamp : 0..MaxChanges, left : SUBSET Folders, found : SUBSET Folders]

TypeOK ==
  /\ disk \in UNION {[D -> BOOLEAN] : D \in SUBSET Folders}
  /\ time \in 0..MaxChanges
  /\ cache \in [made : BOOLEAN, stamp : 0..MaxChanges, found : SUBSET Folders]
  /\ request \in [Requests -> Request]
  /\ failures \in 0..MaxFailures
  /\ {present, absent, excused} \subseteq [Requests -> SUBSET Folders]
  /\ late \subseteq Folders

New == [at |-> "none", stamp |-> 0, left |-> {}, found |-> {}]

Init ==
  /\ disk \in {[f \in D |-> TRUE] : D \in SUBSET Folders}
  /\ time = 0
  /\ cache = [made |-> FALSE, stamp |-> 0, found |-> {}]
  /\ request = [r \in Requests |-> New]
  /\ failures = 0
  /\ present = [r \in Requests |-> {}]
  /\ absent = [r \in Requests |-> {}]
  /\ late = {}
  /\ excused = [r \in Requests |-> {}]

-----------------------------------------------------------------------------
(* The folders.                                                            *)

UnderWay(r) == request[r].at \in {"stamped", "scanning", "found"}

Seen ==
  /\ present' = [r \in Requests |-> present[r] \cup IF UnderWay(r) THEN Overlays' ELSE {}]
  /\ absent' = [r \in Requests |-> absent[r] \cup IF UnderWay(r) THEN Folders \ Overlays' ELSE {}]
  /\ UNCHANGED <<cache, request, failures, excused>>

(* A folder is moved in with what is in it, or made; or one is removed; or *)
(* another file in the root is.                                            *)
ChangeRoot(f) ==
  /\ time < MaxChanges
  /\ time' = time + 1
  /\ \/ /\ f \notin DOMAIN disk
        /\ \E filled \in BOOLEAN :
             disk' = [g \in DOMAIN disk \cup {f} |-> IF g = f THEN filled ELSE disk[g]]
     \/ /\ f \in DOMAIN disk
        /\ disk' = [g \in DOMAIN disk \ {f} |-> disk[g]]
     \/ UNCHANGED disk
  /\ late' = {}
  /\ Seen

(* index.html is put into a folder, or taken out of it.                    *)
ChangeIndex(f) ==
  /\ f \in DOMAIN disk \ late
  /\ disk' = [disk EXCEPT ![f] = ~@]
  /\ late' = late \cup {f}
  /\ UNCHANGED time
  /\ Seen

-----------------------------------------------------------------------------
(* OverlayStore::list.                                                     *)

(* A request comes.                                                        *)
Stamp(r) ==
  /\ ~UnderWay(r)
  /\ request' = [request EXCEPT ![r] = [New EXCEPT !.at = "stamped", !.stamp = time]]
  /\ present' = [present EXCEPT ![r] = Overlays]
  /\ absent' = [absent EXCEPT ![r] = Folders \ Overlays]
  /\ excused' = [excused EXCEPT ![r] = late]
  /\ UNCHANGED <<disk, time, cache, failures, late>>

Go(r, to) ==
  /\ request' = [request EXCEPT ![r] = to]
  /\ UNCHANGED <<disk, time, present, absent>>

IsCached(r) == cache.made /\ cache.stamp = request[r].stamp

Answered(r, found) == [request[r] EXCEPT !.at = "answered", !.found = found]

LookUp(r) ==
  /\ request[r].at = "stamped"
  /\ Go(r, IF IsCached(r) THEN Answered(r, cache.found)
           ELSE [request[r] EXCEPT !.at = "scanning", !.left = Folders])
  /\ UNCHANGED <<cache, failures, late, excused>>

(* discover: one entry of the directory after the other.                   *)
Discover(r) ==
  /\ request[r].at = "scanning"
  /\ \E f \in request[r].left :
       Go(r, [request[r] EXCEPT
                !.left = @ \ {f},
                !.found = IF f \in Overlays THEN @ \cup {f} ELSE @,
                !.at = IF request[r].left = {f} THEN "found" ELSE @])
  /\ UNCHANGED <<cache, failures, late, excused>>

(* read_dir fails: no overlays.                                            *)
DiscoverNothing(r) ==
  /\ request[r].at = "scanning"
  /\ request[r].left = Folders
  /\ failures < MaxFailures
  /\ failures' = failures + 1
  /\ Go(r, [request[r] EXCEPT !.at = "found", !.left = {}])
  /\ late' = Folders
  /\ excused' = [q \in Requests |-> IF UnderWay(q) THEN Folders ELSE excused[q]]
  /\ UNCHANGED cache

(* Mutant: the time is taken after the scan.                               *)
StampLate(r) == time

StampOf(r) == request[r].stamp

Store(r) ==
  /\ request[r].at = "found"
  /\ cache' = [made |-> TRUE, stamp |-> StampOf(r), found |-> request[r].found]
  /\ Go(r, Answered(r, request[r].found))
  /\ UNCHANGED <<failures, late, excused>>

Next ==
  \/ \E f \in Folders : ChangeRoot(f) \/ ChangeIndex(f)
  \/ \E r \in Requests :
       Stamp(r) \/ LookUp(r) \/ Discover(r) \/ DiscoverNothing(r) \/ Store(r)

Spec == Init /\ [][Next]_vars

-----------------------------------------------------------------------------
(* Properties.                                                             *)

(* An answer lists an overlay only if it was there at some time while the  *)
(* answer was made, and misses one only if it was not there at some time:  *)
(* neither an older scan that is stored late nor a cached one hides what   *)
(* was put in before.  A folder that changed inside, or a scan that        *)
(* failed, is excused until the root changes.                              *)
AnswerIsOfItsTime ==
  \A r \in Requests : request[r].at = "answered" =>
    /\ request[r].found \subseteq present[r] \cup excused[r]
    /\ Folders \ request[r].found \subseteq absent[r] \cup excused[r]

(* "A folder dropped in during a tournament shows up without a restart"    *)
(* (src/src/overlays.rs): a page that is asked for again shows it.         *)
DroppedInShowsUp ==
  \A r \in Requests : request[r].at = "answered" /\ failures = 0 =>
    Folders \ request[r].found \subseteq absent[r]
=============================================================================
