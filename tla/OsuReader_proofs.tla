-------------------------- MODULE OsuReader_proofs --------------------------
(***************************************************************************)
(* Proofs about OsuReader, for any processes, any tournament clients among *)
(* them and any bounds.  A poll reaches a session only when there is a     *)
(* process (SessionHasProcess); with that, and without a reader locked to  *)
(* tournaments, the flag is always that of the session that was asked.     *)
(***************************************************************************)
EXTENDS OsuReader, FiniteSetTheorems, TLAPS

SessionHasProcess == pc = "session" => cachedPids # {}

LEMMA ServedTypes ==
  /\ [from |-> "nobody", attached |-> FALSE] \in Served
  /\ \A from \in {"solo", "tourney"}, b \in BOOLEAN :
       [from |-> from, attached |-> b] \in Served
  BY DEF Served

LEMMA TypeInit ==
  ASSUME Init
  PROVE  TypeOK
  <1>1. served \in Served
    BY ServedTypes DEF Init
  <1>2. checkDue \in BOOLEAN /\ scanDue \in BOOLEAN /\ isTournament \in BOOLEAN
    BY Zenon DEF Init
  <1> QED
    BY <1>1, <1>2, ReaderAssumption DEF ReaderAssumption, Init, TypeOK

(* A step that lets n calls fail keeps within the bound.                   *)
LEMMA FailsType ==
  ASSUME failures \in 0..MaxFailures, NEW n \in Nat, Fails(n)
  PROVE  failures' \in 0..MaxFailures
  BY ReaderAssumption DEF ReaderAssumption, Fails

LEMMA IsAttachedType == IsAttached \in BOOLEAN /\ IsAttached' \in BOOLEAN
  BY DEF IsAttached

LEMMA TypeStep ==
  ASSUME IsFiniteSet(Procs), TypeOK, [Next]_vars
  PROVE  TypeOK'
  <1>0. \A S \in SUBSET Procs : Cardinality(S) \in Nat
    BY FS_Subset, FS_CardinalityType
  <1>1. CASE ProcessMoves
    <2>1. PICK p \in Procs :
            running' = IF p \in running THEN running \ {p} ELSE running \cup {p}
      BY <1>1 DEF ProcessMoves
    <2>2. running' \subseteq Procs /\ moves' \in 0..MaxMoves
      BY <1>1, <2>1, ReaderAssumption DEF ProcessMoves, TypeOK, ReaderAssumption
    <2> QED
      BY <1>1, <2>2 DEF ProcessMoves, TypeOK, timers, reader, sessions
  <1>2. CASE CheckElapses
    BY <1>2 DEF CheckElapses, TypeOK, system, reader, sessions
  <1>3. CASE ScanElapses
    BY <1>3 DEF ScanElapses, TypeOK, system, reader, sessions
  <1>4. CASE Check
    <2>1. failures' \in 0..MaxFailures /\ cachedPids' \subseteq Procs /\ isTournament' \in BOOLEAN
      <3>1. CASE UNCHANGED <<failures, reader>>
        BY <3>1 DEF TypeOK, reader
      <3>2. ASSUME NEW readable \in SUBSET running, CheckListed(readable)
            PROVE  /\ failures' \in 0..MaxFailures
                   /\ cachedPids' \subseteq Procs
                   /\ isTournament' \in BOOLEAN
        <4>1. Cardinality(running \ readable) \in Nat
          BY <1>0 DEF TypeOK
        <4>2. failures' \in 0..MaxFailures
          BY <3>2, <4>1, FailsType DEF CheckListed, TypeOK
        <4>3. isTournament' \in BOOLEAN
          BY <3>2, Zenon DEF CheckListed, TypeOK
        <4> QED
          BY <3>2, <4>2, <4>3 DEF CheckListed, TypeOK
      <3>3. CASE Fails(1) /\ UNCHANGED reader
        BY <3>3, FailsType DEF TypeOK, reader
      <3> QED
        BY <1>4, <3>1, <3>2, <3>3 DEF Check, CheckProcesses
    <2>2. checkDue' \in BOOLEAN
      BY <1>4 DEF Check, TypeOK
    <2>3. pc' \in {"check", "session"}
      BY <1>4 DEF Check
    <2>4. served' \in Served
      BY <1>4, ServedTypes DEF Check, TypeOK
    <2> QED
      BY <1>4, <2>1, <2>2, <2>3, <2>4 DEF Check, TypeOK, sessions
  <1>5. CASE PollSolo
    <2>1. failures' \in 0..MaxFailures
      BY <1>5, FailsType, Zenon
      DEF PollSolo, SoloHolds, SoloLoses, SoloOpens, SoloFindsNone, SoloOpenFails, TypeOK
    <2>2. solo' \in Procs \cup {None}
      BY <1>5 DEF PollSolo, SoloHolds, SoloLoses, SoloOpens, SoloFindsNone, SoloOpenFails, TypeOK
    <2>3. cachedPids' \subseteq Procs
      BY <1>5 DEF PollSolo, SoloOpenFails, TypeOK
    <2>4. served' \in Served
      BY <1>5, IsAttachedType DEF PollSolo, SoloOpenFails, Serve, TypeOK, Served
    <2> QED
      BY <1>5, <2>1, <2>2, <2>3, <2>4 DEF PollSolo, TypeOK, timers
  <1>6. CASE PollTourney
    <2>1. failures' \in 0..MaxFailures /\ clients' \subseteq Procs
      <3>1. CASE UNCHANGED <<failures, clients>>
        BY <3>1 DEF TypeOK
      <3>2. ASSUME NEW opened \in SUBSET (running \ clients), ScanClients(opened)
            PROVE  failures' \in 0..MaxFailures /\ clients' \subseteq Procs
        <4>1. Cardinality(running \ (clients \cup opened)) \in Nat
          BY <1>0 DEF TypeOK
        <4> QED
          BY <3>2, <4>1, FailsType DEF ScanClients, TypeOK
      <3>3. CASE ScanFails
        BY <3>3, FailsType DEF ScanFails, TypeOK
      <3> QED
        BY <1>6, <3>1, <3>2, <3>3 DEF PollTourney
    <2>2. served' \in Served /\ scanDue' \in BOOLEAN
      BY <1>6, IsAttachedType DEF PollTourney, Serve, TypeOK, Served
    <2> QED
      BY <1>6, <2>1, <2>2 DEF PollTourney, TypeOK, reader
  <1>7. CASE UNCHANGED vars
    BY <1>7 DEF vars, system, timers, reader, sessions, TypeOK
  <1> QED
    BY <1>1, <1>2, <1>3, <1>4, <1>5, <1>6, <1>7 DEF Next

(* The types of the reader hold for any finite set of processes.           *)
THEOREM TypeCorrect ==
  ASSUME IsFiniteSet(Procs)
  PROVE  Spec => []TypeOK
  <1>1. TypeOK /\ [Next]_vars => TypeOK'
    BY TypeStep
  <1> QED
    BY TypeInit, <1>1, PTL DEF Spec

-----------------------------------------------------------------------------
FlagInv == mode \in Modes /\ SessionHasProcess /\ FlagOfTheSession

LEMMA FlagInit == Init => FlagInv
  BY DEF Init, FlagInv, SessionHasProcess, FlagOfTheSession

LEMMA FlagStep ==
  ASSUME "tournament" \notin Modes, FlagInv, [Next]_vars
  PROVE  FlagInv'
  <1> USE DEF FlagInv, SessionHasProcess
  <1>0. mode \in {"auto", "solo"}
    BY ReaderAssumption DEF ReaderAssumption
  <1>1. CASE ProcessMoves \/ CheckElapses \/ ScanElapses \/ UNCHANGED vars
    BY <1>1
    DEF ProcessMoves, CheckElapses, ScanElapses, vars, system, reader, sessions, FlagOfTheSession
  <1>2. CASE Check
    <2>1. mode' \in Modes /\ SessionHasProcess'
      BY <1>2 DEF Check
    <2>2. CASE cachedPids' = {}
      <3>1. served'.from = "nobody" /\ served'.attached = FALSE
        BY <1>2, <2>2 DEF Check
      <3> QED
        BY <2>1, <3>1 DEF FlagOfTheSession
    <2>3. CASE cachedPids' # {}
      <3>1. UNCHANGED <<served, solo, clients>>
        BY <1>2, <2>3 DEF Check, sessions
      <3> QED
        BY <2>1, <3>1 DEF FlagOfTheSession
    <2> QED
      BY <2>1, <2>2, <2>3
  <1>3. CASE PollSolo
    <2>0. mode' = mode /\ pc' = "check" /\ UNCHANGED <<isTournament, clients>>
      BY <1>3 DEF PollSolo
    <2>1. cachedPids # {}
      BY <1>3 DEF PollSolo
    <2>2. CASE SoloOpenFails
      BY <2>0, <2>2 DEF SoloOpenFails, FlagOfTheSession
    <2>3. CASE Serve("solo") /\ cachedPids' = IF solo' = None THEN {} ELSE cachedPids
      <3>1. ~(mode' \in {"tournament", "auto"} /\ isTournament')
        BY <1>0, <1>3, <2>0 DEF PollSolo, IsTourney
      <3>2. IsAttached' = (solo' # None)
        BY <2>1, <2>3, <3>1 DEF IsAttached
      <3>3. served'.from = "solo" /\ served'.attached = (solo' # None)
        BY <2>3, <3>2 DEF Serve
      <3> QED
        BY <2>0, <3>3 DEF FlagOfTheSession
    <2> QED
      BY <1>3, <2>2, <2>3 DEF PollSolo
  <1>4. CASE PollTourney
    <2>0. mode' = mode /\ pc' = "check" /\ UNCHANGED <<cachedPids, isTournament, solo>>
      BY <1>4 DEF PollTourney, reader
    <2>1. cachedPids' # {} /\ mode' = "auto" /\ isTournament'
      BY <1>0, <1>4, <2>0 DEF PollTourney, IsTourney
    <2>2. IsAttached' = (clients' # {})
      BY <2>1 DEF IsAttached
    <2>3. served'.from = "tourney" /\ served'.attached = (clients' # {})
      BY <1>4, <2>2 DEF PollTourney, Serve
    <2> QED
      BY <2>0, <2>3 DEF FlagOfTheSession
  <1> QED
    BY <1>1, <1>2, <1>3, <1>4 DEF Next

(* Unless the reader is locked to tournaments, the flag served with a      *)
(* packet is that of the session it came from, whatever processes start,   *)
(* end or fail to answer between the steps of a poll.                      *)
THEOREM FlagAgrees ==
  ASSUME "tournament" \notin Modes
  PROVE  Spec => []FlagOfTheSession
  <1>1. FlagInv /\ [Next]_vars => FlagInv'
    BY FlagStep
  <1>2. FlagInv => FlagOfTheSession
    BY DEF FlagInv
  <1> QED
    BY FlagInit, <1>1, <1>2, PTL DEF Spec
=============================================================================
