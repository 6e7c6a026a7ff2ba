----------------------------- MODULE SnapshotPool -----------------------------
(***************************************************************************)
(* snapshot_processes (src/src/client.rs): the processes of the game, read *)
(* by up to four threads that take the next one off a shared counter and   *)
(* push what they get to a shared list, which is sorted when all are done. *)
(***************************************************************************)
EXTENDS Integers, Sequences, SequencesExt

CONSTANTS
  MaxProcesses,  (* bound: processes of one list                           *)
  MaxWorkers,    (* clamp(1, 4)                                            *)
  Attempts,      (* three, 25 ms apart                                     *)
  None

(* What the constants have to be; MCServerParts assumes it.                *)
PoolAssumption ==
  MaxProcesses \in Nat /\ MaxWorkers \in Nat \ {0} /\ Attempts \in Nat \ {0}

VARIABLES
  windows,       (* of each process, by pid: its ipc id, or None           *)
  taken,         (* next: processes taken so far                           *)
  at,            (* of each worker: Idle, the process it reads, or Done    *)
  tries,         (* of each worker: attempts that failed                   *)
  results,       (* Mutex<Vec<ProcessSnapshotResult>>                      *)
  answer         (* what is returned, None until then                      *)

poolVars == <<windows, taken, at, tries, results, answer>>

Idle == 0
Done == -1
Workers == 1..MaxWorkers

Init ==
  /\ windows \in UNION {[1..n -> {None} \cup 0..1] : n \in 0..MaxProcesses}
  /\ taken = 0
  /\ at = [w \in Workers |-> IF w = 1 \/ w <= Len(windows) THEN Idle ELSE Done]
  /\ tries = [w \in Workers |-> 0]
  /\ results = <<>> /\ answer = None

Claim(w) ==
  /\ at[w] = Idle
  /\ taken' = taken + 1
  /\ at' = [at EXCEPT ![w] = IF taken + 1 <= Len(windows) THEN taken + 1 ELSE Done]
  /\ UNCHANGED <<windows, tries, results, answer>>

Report(w, read, ipc) ==
  /\ results' = Append(results, [pid |-> at[w], read |-> read, ipc |-> ipc])
  /\ at' = [at EXCEPT ![w] = Idle]
  /\ tries' = [tries EXCEPT ![w] = 0]
  /\ UNCHANGED <<windows, taken, answer>>

(* Attempts are apart, so each one is a step; a process that cannot be     *)
(* read is reported with the error, and without its window.                *)
Snapshot(w) == at[w] > 0 /\ Report(w, TRUE, windows[at[w]])

Retry(w) ==
  /\ at[w] > 0 /\ tries[w] + 1 < Attempts
  /\ tries' = [tries EXCEPT ![w] = @ + 1]
  /\ UNCHANGED <<windows, taken, at, results, answer>>

(* Mutant: a process that cannot be read is not reported.                  *)
FailUnreported(w) ==
  /\ at[w] > 0 /\ tries[w] + 1 = Attempts
  /\ at' = [at EXCEPT ![w] = Idle]
  /\ tries' = [tries EXCEPT ![w] = 0]
  /\ UNCHANGED <<windows, taken, results, answer>>

Fail(w) == at[w] > 0 /\ tries[w] + 1 = Attempts /\ Report(w, FALSE, None)

(* A stable sort: by window, then those without one, by pid.               *)
Before(r, q) ==
  IF r.ipc # None /\ q.ipc # None THEN r.ipc < q.ipc
  ELSE IF r.ipc = None /\ q.ipc = None THEN r.pid < q.pid
  ELSE r.ipc # None

InOrder(s, order) ==
  \A i, j \in DOMAIN s : i < j =>
    LET r == s[order[i]]
        q == s[order[j]]
    IN  Before(r, q) \/ (~Before(q, r) /\ order[i] < order[j])
Sorted(s) ==
  {[i \in DOMAIN s |-> s[order[i]]] :
     order \in {o \in Bijection(DOMAIN s, DOMAIN s) : InOrder(s, o)}}

Return ==
  /\ answer = None /\ \A w \in Workers : at[w] = Done
  /\ answer' \in Sorted(results)
  /\ UNCHANGED <<windows, taken, at, tries, results>>

Next == Return \/ \E w \in Workers : Claim(w) \/ Snapshot(w) \/ Retry(w) \/ Fail(w)

(* Threads run, and an attempt ends.                                       *)
Fairness == WF_poolVars(Next)

Spec == Init /\ [][Next]_poolVars /\ Fairness

-----------------------------------------------------------------------------
TypeOK ==
  /\ taken \in 0..(MaxProcesses + MaxWorkers)
  /\ at \in [Workers -> {Idle, Done} \cup 1..MaxProcesses]
  /\ tries \in [Workers -> 0..(Attempts - 1)]

(* Whichever thread was first: every process once, the windows in their    *)
(* order and before the processes without one, these by pid.               *)
IsListed(list) ==
  /\ Len(list) = Len(windows) /\ {list[i].pid : i \in DOMAIN list} = DOMAIN windows
  /\ \A i \in DOMAIN list : list[i].ipc = IF list[i].read THEN windows[list[i].pid] ELSE None
  /\ \A i, j \in DOMAIN list : i < j => ~Before(list[j], list[i])

(* The list is returned, and is whole.                                     *)
ListsAreWhole == [][answer' # answer => IsListed(answer')]_poolVars
EachIsListed == ListsAreWhole /\ <>(answer # None)
=============================================================================
