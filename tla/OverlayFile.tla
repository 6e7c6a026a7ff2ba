----------------------------- MODULE OverlayFile -----------------------------
(***************************************************************************)
(* One file of an overlay, edited while it is served, and the page that    *)
(* has it open (handle_overlay_file, src/src/server.rs).  The page keeps a *)
(* copy and asks with its validator; the server finds the file, takes its  *)
(* validator, and reads it if the copy is another one.  Each is a call of  *)
(* its own to the file system.  A write replaces the whole file.           *)
(***************************************************************************)
EXTENDS Naturals

CONSTANTS
  MaxEdits,  (* bound: contents of the file, one after the other           *)
  None       (* no validator, no content                                   *)

(* What the constants have to be; MCServerParts assumes it.                *)
OverlayFileAssumption == MaxEdits \in Nat /\ None \notin Nat

VARIABLES
  content,   (* of the file, by the write it is of, or None                *)
  edits,     (* writes so far                                              *)
  stage,     (* of the request: idle, asked, found, stated                 *)
  etag,      (* the validator the server took                              *)
  copy,      (* what the page keeps: a validator and a content             *)
  shown,     (* what it was answered: a content, or None for a 404         *)
  seen,      (* history: what the file held since the request came         *)
  unstamped  (* history: some validator was taken of no file               *)

fileVars == <<content, edits, stage, etag, copy, shown, seen, unstamped>>

FileInit ==
  /\ content = 1 /\ edits = 1
  /\ stage = "idle" /\ etag = None
  /\ copy = [etag |-> None, content |-> None] /\ shown = None
  /\ seen = {} /\ unstamped = FALSE

Holds(new) ==
  /\ content' = new
  /\ seen' = seen \cup {new}
  /\ UNCHANGED <<stage, etag, copy, shown, unstamped>>

(* The operator saves the file; some editors remove it first.              *)
Write == edits < MaxEdits /\ edits' = edits + 1 /\ Holds(edits + 1)
Remove == content # None /\ edits < MaxEdits /\ Holds(None) /\ UNCHANGED edits

-----------------------------------------------------------------------------
Ask ==
  /\ stage = "idle"
  /\ stage' = "asked" /\ seen' = {content}
  /\ UNCHANGED <<content, edits, etag, copy, shown, unstamped>>

Answer(body) ==
  /\ stage' = "idle" /\ shown' = body

(* resolve_within: a file that is not there is a 404.                      *)
Resolve ==
  /\ stage = "asked"
  /\ IF content = None THEN Answer(None) ELSE stage' = "found" /\ UNCHANGED shown
  /\ UNCHANGED <<content, edits, etag, copy, seen, unstamped>>

(* Mutant: the validator is of the size alone.                             *)
SizeOf(c) == 1

(* file_etag: of the size and the time, or "0" without a file.             *)
Stamp(c) == IF c = None THEN 0 ELSE c

(* matches_etag: a match is answered with 304, and the page shows its copy. *)
Stat ==
  /\ stage = "found"
  /\ etag' = Stamp(content)
  /\ unstamped' = (unstamped \/ content = None)
  /\ IF copy.etag # None /\ copy.etag = etag' THEN Answer(copy.content)
     ELSE stage' = "stated" /\ UNCHANGED shown
  /\ UNCHANGED <<content, edits, copy, seen>>

ReadFile ==
  /\ stage = "stated"
  /\ Answer(content)
  /\ copy' = IF content = None THEN copy ELSE [etag |-> etag, content |-> content]
  /\ UNCHANGED <<content, edits, etag, seen, unstamped>>

FileNext == Write \/ Remove \/ Ask \/ Resolve \/ Stat \/ ReadFile

-----------------------------------------------------------------------------
FileTypeOK ==
  /\ edits \in 1..MaxEdits /\ content \in {None} \cup 1..MaxEdits
  /\ stage \in {"idle", "asked", "found", "stated"}

(* A page shows what the file held at some time since it asked, however    *)
(* the file is saved meanwhile: the validator is older than the content it *)
(* goes with.  (Unless the file was missing when one was taken.)           *)
CopyIsOfItsTime == stage = "idle" /\ ~unstamped => shown \in seen \cup {None}

(* "a reloaded page always picks up new content" (src/src/server.rs).      *)
ReloadIsNew == stage = "idle" => shown \in seen \cup {None}
=============================================================================
