-------------------------- MODULE Broadcast_proofs --------------------------
(***************************************************************************)
(* Proofs about Broadcast, for any clients, packets, patches and bounds.   *)
(* The invariant says what each frame on its way will show (FrameShows):   *)
(* the packet it was built from, which for a patch needs that prev_state   *)
(* is what the consumer holds (PatchesMatch).  From it follow the types,   *)
(* the implementation of PacketFeed and, with the packets of the games     *)
(* followed along (GamesInv), that only those are ever shown.              *)
(* That a patch leads to its packet, and is told from a packet, is proved  *)
(* of compute_json_delta for values of any depth (DeltasMerge): the three  *)
(* recursions are unfolded level by level, and followed by counting levels.*)
(***************************************************************************)
EXTENDS MCBroadcast, FiniteSetTheorems, WellFoundedInduction, SequenceTheorems, TLAPS

(* Only an open connection is sending a frame.                             *)
FramesAreOpen == \A c \in Clients : frame[c] # None => c \in conn

(* A frame, once sent, will leave its consumer with the packet it is of.   *)
FrameShows == \A c \in Clients : frame[c] # None => Shown(c) = frame[c].packet

SocketInv == TypeOK /\ FramesAreOpen /\ PatchesMatch /\ FrameShows

-----------------------------------------------------------------------------
(* What the operators return.                                              *)

LEMMA NoneIsNoFrame == None \notin Packets /\ None \notin Patches
  BY BroadcastAssumption DEF BroadcastAssumption, Patches

-----------------------------------------------------------------------------
(* Counting: what holds of 0, and of n + 1 if it does of n, holds of every *)
(* number.                                                                 *)

(* A set of numbers below n has a least one: the order of finite subsets   *)
(* by inclusion is well founded, and so is that of the numbers before each.*)
LEMMA LeastBelow ==
  ASSUME NEW n \in Nat, NEW D \in SUBSET (0..n), D # {}
  PROVE  \E m \in D : \A d \in D : m <= d
  <1> DEFINE before(d) == {e \in D : e < d}
             befores == {before(d) : d \in D}
  <1>1. IsWellFoundedOn(StrictSubsetOrdering(D), FiniteSubsetsOf(D))
    BY FS_StrictSubsetOrderingWellFounded
  <1>2. FiniteSubsetsOf(D) = SUBSET D
    <2>1. IsFiniteSet(0..n)
      BY FS_Interval
    <2>2. IsFiniteSet(D)
      BY <2>1, FS_Subset
    <2> QED
      BY <2>2, FS_FiniteSubsetsOfFinite
  <1>3. befores \subseteq SUBSET D /\ befores # {}
    OBVIOUS
  <1>4. PICK s \in befores : \A u \in befores : <<u, s>> \notin StrictSubsetOrdering(D)
    <2>1. befores \subseteq FiniteSubsetsOf(D)
      BY <1>2, <1>3
    <2> HIDE DEF befores
    <2> QED
      BY <1>1, <1>3, <2>1, WFMin
  <1>5. PICK m \in D : s = before(m)
    OBVIOUS
  <1>6. ASSUME NEW d \in D, ~(m <= d)
        PROVE  FALSE
    <2>1. \A e \in D : e \in Int
      OBVIOUS
    <2>2. d < m /\ (\A e \in D : e < d => e < m) /\ ~(d < d)
      BY <1>6, <2>1
    <2>3. <<before(d), before(m)>> \in StrictSubsetOrdering(D)
      <3>1. before(d) \subseteq before(m) /\ d \in before(m) /\ d \notin before(d)
        BY <2>2
      <3> QED
        BY <3>1 DEF StrictSubsetOrdering
    <2> QED
      BY <2>3, <1>4, <1>5
  <1> QED
    BY <1>6

LEMMA Counting ==
  ASSUME NEW G, 0 \in G, \A n \in Nat : n \in G => n + 1 \in G
  PROVE  Nat \subseteq G
  <1> SUFFICES ASSUME NEW n \in Nat, n \notin G
               PROVE  FALSE
    OBVIOUS
  <1> DEFINE D == {i \in 0..n : i \notin G}
  <1>1. D \in SUBSET (0..n) /\ n \in D
    OBVIOUS
  <1>2. PICK m \in D : \A d \in D : m <= d
    <2> HIDE DEF D
    <2> QED
      BY <1>1, LeastBelow
  <1>3. m # 0 /\ m \in Nat /\ m <= n /\ m \notin G
    OBVIOUS
  <1>4. m - 1 \in G
    <2> SUFFICES ASSUME m - 1 \notin G
                 PROVE  FALSE
      OBVIOUS
    <2>1. m - 1 \in D
      BY <1>3
    <2>2. m <= m - 1
      BY <1>2, <2>1
    <2> QED
      BY <1>3, <2>2
  <1> QED
    BY <1>3, <1>4

-----------------------------------------------------------------------------
(* The values, level by level.                                             *)
LEMMA BelowIs ==
  \A n \in 0..Depth :
    J!Below[n] = IF n = 0 THEN J!Leaves ELSE J!Leaves \cup J!Objects(J!Below[n - 1])
  <1> DEFINE IsBelow(B, m) ==
               B = [n \in 0..m |-> IF n = 0 THEN J!Leaves ELSE J!Leaves \cup J!Objects(B[n - 1])]
             G == {m \in Nat : \E B : IsBelow(B, m)}
  <1>1. 0 \in G
    <2> DEFINE B == [n \in 0..0 |-> J!Leaves]
    <2>1. IsBelow(B, 0)
      OBVIOUS
    <2> HIDE DEF B, IsBelow
    <2> QED
      BY <2>1
  <1>2. ASSUME NEW m \in Nat, m \in G
        PROVE  m + 1 \in G
    <2>1. PICK B : IsBelow(B, m)
      BY <1>2
    <2> DEFINE C == [n \in 0..(m + 1) |-> IF n <= m THEN B[n] ELSE J!Leaves \cup J!Objects(B[m])]
               E == [n \in 0..(m + 1) |-> IF n = 0 THEN J!Leaves
                                          ELSE J!Leaves \cup J!Objects(C[n - 1])]
    <2>2. ASSUME NEW n \in 0..(m + 1)
          PROVE  C[n] = E[n]
      <3>1. CASE n = 0
        BY <2>1, <3>1
      <3>2. CASE n # 0 /\ n <= m
        <4>1. n \in 0..m /\ n - 1 \in 0..m /\ n - 1 \in 0..(m + 1)
          BY <3>2
        <4>2. B[n] = J!Leaves \cup J!Objects(B[n - 1])
          BY <2>1, <3>2, <4>1
        <4>3. C[n] = B[n] /\ C[n - 1] = B[n - 1]
          BY <3>2, <4>1
        <4> QED
          BY <3>2, <4>2, <4>3
      <3>3. CASE n = m + 1
        <4>1. C[n] = J!Leaves \cup J!Objects(B[m]) /\ C[m] = B[m] /\ n - 1 = m /\ n # 0
          BY <3>3
        <4> QED
          BY <4>1
      <3> QED
        BY <3>1, <3>2, <3>3
    <2>3. C = E
      BY <2>2
    <2>4. IsBelow(C, m + 1)
      BY <2>3
    <2> HIDE DEF C, E, IsBelow
    <2> QED
      BY <2>4
  <1>3. Depth \in G
    <2> HIDE DEF G
    <2> QED
      BY <1>1, <1>2, Counting, PacketsAssumption DEF J!JsonAssumption
  <1>4. IsBelow(J!Below, Depth)
    BY <1>3 DEF J!Below
  <1> QED
    BY <1>4

LEMMA Levels ==
  /\ \A n \in 1..Depth : J!Below[n - 1] \subseteq J!Below[n]
  /\ \A n \in 0..Depth : J!Leaves \subseteq J!Below[n] /\ J!Below[n] \subseteq J!Json
  <1> USE PacketsAssumption DEF J!JsonAssumption
  <1>1. \A n \in 0..Depth : J!Leaves \subseteq J!Below[n]
    BY BelowIs
  <1>2. \A n \in 1..Depth : J!Below[n - 1] \subseteq J!Below[n]
    <2> DEFINE G == {m \in Nat : m + 1 \in 1..Depth => J!Below[m] \subseteq J!Below[m + 1]}
    <2>1. 0 \in G
      <3>0. 0 \in 0..Depth
        OBVIOUS
      <3>1. J!Below[0] = J!Leaves
        BY <3>0, BelowIs, Zenon
      <3>2. 0 + 1 \in 1..Depth => 0 + 1 \in 0..Depth
        OBVIOUS
      <3> QED
        BY <1>1, <3>1, <3>2
    <2>2. ASSUME NEW m \in Nat, m \in G
          PROVE  m + 1 \in G
      <3> SUFFICES ASSUME m + 2 \in 1..Depth
                   PROVE  J!Below[m + 1] \subseteq J!Below[m + 2]
        OBVIOUS
      <3>1. m + 1 \in 0..Depth /\ m + 2 \in 0..Depth /\ m + 1 # 0 /\ m + 2 # 0
            /\ (m + 1) - 1 = m /\ (m + 2) - 1 = m + 1
        OBVIOUS
      <3>2. J!Below[m] \subseteq J!Below[m + 1]
        BY <2>2, <3>1
      <3>3. J!Objects(J!Below[m]) \subseteq J!Objects(J!Below[m + 1])
        <4> HIDE PacketsAssumption
        <4> QED
          BY <3>2 DEF J!Objects
      <3>4. J!Below[m + 1] = J!Leaves \cup J!Objects(J!Below[m])
            /\ J!Below[m + 2] = J!Leaves \cup J!Objects(J!Below[m + 1])
        BY <3>1, BelowIs
      <3> QED
        BY <3>3, <3>4
    <2>3. Nat \subseteq G
      <3> HIDE DEF G
      <3> QED
        BY <2>1, <2>2, Counting
    <2>4. ASSUME NEW n \in 1..Depth
          PROVE  J!Below[n - 1] \subseteq J!Below[n]
      <3>1. n - 1 \in Nat /\ (n - 1) + 1 = n
        OBVIOUS
      <3> QED
        BY <2>3, <3>1
    <2> QED
      BY <2>4
  <1>3. \A n \in 0..Depth : J!Below[n] \subseteq J!Json
    <2> DEFINE G == {m \in Nat : m \in 0..Depth => J!Below[Depth - m] \subseteq J!Json}
    <2>1. 0 \in G
      BY DEF J!Json
    <2>2. ASSUME NEW m \in Nat, m \in G
          PROVE  m + 1 \in G
      <3> SUFFICES ASSUME m + 1 \in 0..Depth
                   PROVE  J!Below[Depth - (m + 1)] \subseteq J!Json
        OBVIOUS
      <3>1. Depth - m \in 1..Depth /\ (Depth - m) - 1 = Depth - (m + 1) /\ m \in 0..Depth
        OBVIOUS
      <3>2. J!Below[(Depth - m) - 1] \subseteq J!Below[Depth - m]
        BY <1>2, <3>1
      <3> QED
        BY <2>2, <3>1, <3>2
    <2>3. Nat \subseteq G
      <3> HIDE DEF G
      <3> QED
        BY <2>1, <2>2, Counting
    <2>4. ASSUME NEW n \in 0..Depth
          PROVE  J!Below[n] \subseteq J!Json
      <3>1. Depth - n \in Nat /\ Depth - n \in 0..Depth /\ Depth - (Depth - n) = n
        OBVIOUS
      <3>2. Depth - n \in G
        BY <2>3, <3>1
      <3> QED
        BY <3>1, <3>2
    <2> QED
      BY <2>4
  <1> QED
    BY <1>1, <1>2, <1>3

(* An object has members a level below; and what has is one.               *)
LEMMA ObjectIs ==
  ASSUME NEW n \in 0..Depth, NEW v \in J!Below[n], J!IsObject(v)
  PROVE  /\ n - 1 \in 0..Depth /\ n # 0
         /\ v = [k \in Keys |-> v[k]]
         /\ \A k \in Keys : v[k] # None =>
              v[k] \in J!Below[n - 1] /\ v[k] \in J!Below[n] /\ v[k] \in J!Json
  <1>1. v \notin J!Leaves
    BY DEF J!IsObject
  <1>2. n # 0 /\ v \in J!Objects(J!Below[n - 1])
    BY <1>1, BelowIs
  <1>3. n \in 1..Depth /\ n - 1 \in 0..Depth
    BY <1>2, PacketsAssumption DEF J!JsonAssumption
  <1>4. v \in [Keys -> J!Below[n - 1] \cup {None}]
    BY <1>2 DEF J!Objects
  <1>5. J!Below[n - 1] \subseteq J!Below[n] /\ J!Below[n] \subseteq J!Json
    BY <1>3, Levels
  <1> QED
    BY <1>2, <1>3, <1>4, <1>5

LEMMA IsAnObject ==
  ASSUME NEW n \in 1..Depth, NEW v \in [Keys -> J!Below[n - 1] \cup {None}]
  PROVE  v \in J!Below[n] /\ J!IsObject(v)
  <1> USE PacketsAssumption DEF J!JsonAssumption
  <1>1. n \in 0..Depth /\ n - 1 \in 0..Depth /\ n # 0
    OBVIOUS
  <1>2. v \in J!Objects(J!Below[n - 1])
    BY DEF J!Objects
  <1>3. v \in J!Below[n]
    BY <1>1, <1>2, BelowIs
  <1>4. J!Below[n - 1] \subseteq J!Json
    BY <1>1, Levels
  <1>5. v \in J!Objects(J!Json)
    <2> HIDE PacketsAssumption
    <2> QED
      BY <1>4 DEF J!Objects
  <1>6. v \notin J!Leaves \cup {None}
    BY <1>5
  <1> QED
    BY <1>3, <1>6 DEF J!IsObject

-----------------------------------------------------------------------------
(* The three recursions, unfolded: what a level asks of the deeper ones is *)
(* about the members alone, so there is one function that each defines.    *)
LEMMA DeltaAsksMembers ==
  ASSUME NEW f, NEW g, NEW p, NEW q,
         J!IsObject(p) /\ J!IsObject(q) =>
           \A k \in Keys : p[k] # None /\ q[k] # None => f[p[k]][q[k]] = g[p[k]][q[k]]
  PROVE  J!DeltaBody(f, p, q) = J!DeltaBody(g, p, q)
  <1>1. CASE p = q \/ ~(J!IsObject(p) /\ J!IsObject(q))
    BY <1>1 DEF J!DeltaBody
  <1>2. CASE p # q /\ J!IsObject(p) /\ J!IsObject(q)
    <2> DEFINE delta(h) == [k \in Keys |->
                 IF q[k] = None THEN IF p[k] = None THEN None ELSE Null
                 ELSE IF p[k] = None THEN q[k]
                 ELSE h[p[k]][q[k]]]
    <2>1. delta(f) = delta(g)
      BY <1>2
    <2>2. J!DeltaBody(f, p, q) = IF delta(f) = J!Empty THEN None ELSE delta(f)
      BY <1>2 DEF J!DeltaBody
    <2>3. J!DeltaBody(g, p, q) = IF delta(g) = J!Empty THEN None ELSE delta(g)
      BY <1>2 DEF J!DeltaBody
    <2> HIDE DEF delta
    <2> QED
      BY <2>1, <2>2, <2>3
  <1> QED
    BY <1>1, <1>2

LEMMA DeltaIs ==
  \A p, q \in J!Json : J!DeltaOf[p][q] = J!DeltaBody(J!DeltaOf, p, q)
  <1> DEFINE IsDelta(f, n) ==
               f = [p \in J!Below[n] |-> [q \in J!Below[n] |-> J!DeltaBody(f, p, q)]]
             G == {n \in Nat : n \in 0..Depth => \E f : IsDelta(f, n)}
  <1>1. 0 \in G
    <2> DEFINE f == [p \in J!Below[0] |-> [q \in J!Below[0] |-> IF p = q THEN None ELSE q]]
    <2>1. ASSUME 0 \in 0..Depth, NEW p \in J!Below[0], NEW q \in J!Below[0]
          PROVE  J!DeltaBody(f, p, q) = IF p = q THEN None ELSE q
      <3>1. ~J!IsObject(p)
        BY <2>1, ObjectIs
      <3> QED
        BY <3>1 DEF J!DeltaBody
    <2>2. 0 \in 0..Depth => IsDelta(f, 0)
      BY <2>1
    <2> HIDE DEF f, IsDelta
    <2> QED
      BY <2>2
  <1>2. ASSUME NEW n \in Nat, n \in G
        PROVE  n + 1 \in G
    <2> SUFFICES ASSUME n + 1 \in 0..Depth
                 PROVE  \E f : IsDelta(f, n + 1)
      OBVIOUS
    <2>1. n \in 0..Depth /\ n + 1 \in 1..Depth /\ (n + 1) - 1 = n
      BY PacketsAssumption DEF J!JsonAssumption
    <2>2. PICK f : IsDelta(f, n)
      BY <1>2, <2>1
    <2> DEFINE g == [p \in J!Below[n + 1] |-> [q \in J!Below[n + 1] |-> J!DeltaBody(f, p, q)]]
    <2>3. J!Below[n] \subseteq J!Below[n + 1]
      BY <2>1, Levels
    <2>4. ASSUME NEW p \in J!Below[n], NEW q \in J!Below[n]
          PROVE  g[p][q] = f[p][q]
      <3>1. f[p][q] = J!DeltaBody(f, p, q)
        BY <2>2
      <3>2. g[p][q] = J!DeltaBody(f, p, q)
        BY <2>3
      <3> QED
        BY <3>1, <3>2
    <2>5. ASSUME NEW p \in J!Below[n + 1], NEW q \in J!Below[n + 1]
          PROVE  J!DeltaBody(f, p, q) = J!DeltaBody(g, p, q)
      <3>1. ASSUME J!IsObject(p), J!IsObject(q), NEW k \in Keys, p[k] # None, q[k] # None
            PROVE  f[p[k]][q[k]] = g[p[k]][q[k]]
        <4>1. p[k] \in J!Below[n] /\ q[k] \in J!Below[n]
          BY <2>1, <3>1, ObjectIs
        <4> HIDE DEF g
        <4> QED
          BY <2>4, <4>1
      <3> HIDE DEF g
      <3> QED
        BY <3>1, DeltaAsksMembers
    <2>6. IsDelta(g, n + 1)
      BY <2>5
    <2> HIDE DEF g, IsDelta
    <2> QED
      BY <2>6
  <1>3. Depth \in G /\ Depth \in 0..Depth
    <2>1. Depth \in Nat /\ Depth \in 0..Depth
      BY PacketsAssumption DEF J!JsonAssumption
    <2> HIDE DEF G
    <2>2. Nat \subseteq G
      BY <1>1, <1>2, Counting
    <2> QED
      BY <2>1, <2>2
  <1>4. IsDelta(J!DeltaOf, Depth)
    BY Zenon, <1>3 DEF J!DeltaOf, J!Json, J!DeltaBody
  <1> QED
    BY <1>4 DEF J!Json

(* What a value has at a key.                                              *)
At(v, k) == IF J!IsObject(v) THEN v[k] ELSE None

(* What a key is merged into.                                              *)
Into(v, k) == IF At(v, k) = None THEN Null ELSE At(v, k)

LEMMA MergeAsksMembers ==
  ASSUME NEW f, NEW g, NEW t, NEW p,
         J!IsObject(p) => \A k \in Keys : p[k] # None => f[Into(t, k)][p[k]] = g[Into(t, k)][p[k]]
  PROVE  J!MergeBody(f, t, p) = J!MergeBody(g, t, p)
  <1>1. CASE ~J!IsObject(p)
    BY <1>1 DEF J!MergeBody
  <1>2. CASE J!IsObject(p)
    <2> DEFINE base == IF J!IsObject(t) THEN t ELSE J!Empty
               of(h) == [k \in Keys |->
                           IF p[k] = None THEN base[k]
                           ELSE IF p[k] = Null THEN None
                           ELSE h[IF base[k] = None THEN Null ELSE base[k]][p[k]]]
    <2>1. \A k \in Keys : (IF base[k] = None THEN Null ELSE base[k]) = Into(t, k)
      BY DEF Into, At, J!Empty
    <2>2. J!MergeBody(f, t, p) = of(f) /\ J!MergeBody(g, t, p) = of(g)
      BY <1>2 DEF J!MergeBody
    <2> HIDE DEF base
    <2>3. of(f) = of(g)
      BY <1>2, <2>1
    <2> HIDE DEF of
    <2> QED
      BY <2>2, <2>3
  <1> QED
    BY <1>1, <1>2

(* The members of what is merged into are a level below.                   *)
LEMMA MemberOf ==
  ASSUME NEW n \in 0..Depth, n # 0, NEW t \in J!Below[n] \cup {None}, NEW k \in Keys
  PROVE  At(t, k) \in J!Below[n - 1] \cup {None}
  <1>1. CASE J!IsObject(t)
    <2>1. t \in J!Below[n]
      BY <1>1 DEF J!IsObject
    <2> QED
      BY <1>1, <2>1, ObjectIs DEF At
  <1>2. CASE ~J!IsObject(t)
    BY <1>2 DEF At
  <1> QED
    BY <1>1, <1>2

LEMMA MergeIs ==
  \A t, p \in J!Json : J!MergeOf[t][p] = J!MergeBody(J!MergeOf, t, p)
  <1> DEFINE IsMerge(f, n) ==
               f = [t \in J!Below[n] |-> [p \in J!Below[n] |-> J!MergeBody(f, t, p)]]
             G == {n \in Nat : n \in 0..Depth => \E f : IsMerge(f, n)}
  <1>1. 0 \in G
    <2> DEFINE f == [t \in J!Below[0] |-> [p \in J!Below[0] |-> p]]
    <2>1. ASSUME 0 \in 0..Depth, NEW t \in J!Below[0], NEW p \in J!Below[0]
          PROVE  J!MergeBody(f, t, p) = p
      <3>1. ~J!IsObject(p)
        BY <2>1, ObjectIs
      <3> QED
        BY <3>1 DEF J!MergeBody
    <2>2. 0 \in 0..Depth => IsMerge(f, 0)
      BY <2>1
    <2> HIDE DEF f, IsMerge
    <2> QED
      BY <2>2
  <1>2. ASSUME NEW n \in Nat, n \in G
        PROVE  n + 1 \in G
    <2> SUFFICES ASSUME n + 1 \in 0..Depth
                 PROVE  \E f : IsMerge(f, n + 1)
      OBVIOUS
    <2>1. n \in 0..Depth /\ n + 1 \in 1..Depth /\ (n + 1) - 1 = n /\ n + 1 # 0
      BY PacketsAssumption DEF J!JsonAssumption
    <2>2. PICK f : IsMerge(f, n)
      BY <1>2, <2>1
    <2> DEFINE g == [t \in J!Below[n + 1] |-> [p \in J!Below[n + 1] |-> J!MergeBody(f, t, p)]]
    <2>3. J!Below[n] \subseteq J!Below[n + 1] /\ Null \in J!Below[n]
      BY <2>1, Levels DEF J!Leaves
    <2>4. ASSUME NEW t \in J!Below[n], NEW p \in J!Below[n]
          PROVE  g[t][p] = f[t][p]
      <3>1. f[t][p] = J!MergeBody(f, t, p)
        BY <2>2
      <3>2. g[t][p] = J!MergeBody(f, t, p)
        BY <2>3
      <3> QED
        BY <3>1, <3>2
    <2>5. ASSUME NEW t \in J!Below[n + 1], NEW p \in J!Below[n + 1]
          PROVE  J!MergeBody(f, t, p) = J!MergeBody(g, t, p)
      <3>1. ASSUME J!IsObject(p), NEW k \in Keys, p[k] # None
            PROVE  f[Into(t, k)][p[k]] = g[Into(t, k)][p[k]]
        <4>1. p[k] \in J!Below[n]
          BY <2>1, <3>1, ObjectIs
        <4>2. Into(t, k) \in J!Below[n]
          <5>1. At(t, k) \in J!Below[n] \cup {None}
            BY <2>1, MemberOf
          <5> QED
            BY <2>3, <5>1 DEF Into
        <4> HIDE DEF g
        <4> QED
          BY <2>4, <4>1, <4>2
      <3> HIDE DEF g
      <3> QED
        BY <3>1, MergeAsksMembers
    <2>6. IsMerge(g, n + 1)
      BY <2>5
    <2> HIDE DEF g, IsMerge
    <2> QED
      BY <2>6
  <1>3. Depth \in G /\ Depth \in 0..Depth
    <2>1. Depth \in Nat /\ Depth \in 0..Depth
      BY PacketsAssumption DEF J!JsonAssumption
    <2> HIDE DEF G
    <2>2. Nat \subseteq G
      BY <1>1, <1>2, Counting
    <2> QED
      BY <2>1, <2>2
  <1>4. IsMerge(J!MergeOf, Depth)
    BY Zenon, <1>3 DEF J!MergeOf, J!Json, J!MergeBody
  <1> QED
    BY <1>4 DEF J!Json

LEMMA StayAsksMembers ==
  ASSUME NEW f, NEW g, NEW p, NEW q,
         J!IsObject(q) => \A k \in Keys : q[k] # None => f[At(p, k)][q[k]] = g[At(p, k)][q[k]]
  PROVE  J!StayBody(f, p, q) = J!StayBody(g, p, q)
  BY DEF J!StayBody, At

IsStay(f, n) ==
  f = [p \in J!Below[n] \cup {None} |-> [q \in J!Below[n] |-> J!StayBody(f, p, q)]]

LEMMA StayIs ==
  \A p \in J!Json \cup {None}, q \in J!Json : J!NullsStay[p][q] = J!StayBody(J!NullsStay, p, q)
  <1> DEFINE G == {n \in Nat : n \in 0..Depth => \E f : IsStay(f, n)}
  <1>1. 0 \in G
    <2> DEFINE f == [p \in J!Below[0] \cup {None} |-> [q \in J!Below[0] |-> q = Null => p = Null]]
    <2>1. ASSUME 0 \in 0..Depth, NEW p \in J!Below[0] \cup {None}, NEW q \in J!Below[0]
          PROVE  J!StayBody(f, p, q) = (q = Null => p = Null)
      <3>1. ~J!IsObject(q)
        BY <2>1, ObjectIs
      <3> QED
        BY <3>1 DEF J!StayBody
    <2>2. 0 \in 0..Depth => IsStay(f, 0)
      BY <2>1 DEF IsStay
    <2> HIDE DEF f
    <2> QED
      BY <2>2
  <1>2. ASSUME NEW n \in Nat, n \in G
        PROVE  n + 1 \in G
    <2> SUFFICES ASSUME n + 1 \in 0..Depth
                 PROVE  \E f : IsStay(f, n + 1)
      OBVIOUS
    <2>1. n \in 0..Depth /\ n + 1 \in 1..Depth /\ (n + 1) - 1 = n /\ n + 1 # 0
      BY PacketsAssumption DEF J!JsonAssumption
    <2>2. PICK f : IsStay(f, n)
      BY <1>2, <2>1
    <2> DEFINE g == [p \in J!Below[n + 1] \cup {None} |->
                       [q \in J!Below[n + 1] |-> J!StayBody(f, p, q)]]
    <2>3. J!Below[n] \subseteq J!Below[n + 1]
      BY <2>1, Levels
    <2>4. ASSUME NEW p \in J!Below[n] \cup {None}, NEW q \in J!Below[n]
          PROVE  g[p][q] = f[p][q]
      <3>1. f[p][q] = J!StayBody(f, p, q)
        BY <2>2 DEF IsStay
      <3>2. g[p][q] = J!StayBody(f, p, q)
        BY <2>3
      <3> QED
        BY <3>1, <3>2
    <2>5. ASSUME NEW p \in J!Below[n + 1] \cup {None}, NEW q \in J!Below[n + 1]
          PROVE  J!StayBody(f, p, q) = J!StayBody(g, p, q)
      <3>1. ASSUME J!IsObject(q), NEW k \in Keys, q[k] # None
            PROVE  f[At(p, k)][q[k]] = g[At(p, k)][q[k]]
        <4>1. q[k] \in J!Below[n]
          BY <2>1, <3>1, ObjectIs
        <4>2. At(p, k) \in J!Below[n] \cup {None}
          BY <2>1, MemberOf
        <4> HIDE DEF g
        <4> QED
          BY <2>4, <4>1, <4>2
      <3> HIDE DEF g
      <3> QED
        BY <3>1, StayAsksMembers
    <2>6. IsStay(g, n + 1)
      BY Zenon, <2>5 DEF IsStay
    <2> HIDE DEF g
    <2> QED
      BY <2>6
  <1>3. Depth \in G /\ Depth \in 0..Depth
    <2>1. Depth \in Nat /\ Depth \in 0..Depth
      BY PacketsAssumption DEF J!JsonAssumption
    <2> HIDE DEF G
    <2>2. Nat \subseteq G
      BY <1>1, <1>2, Counting
    <2> QED
      BY <2>1, <2>2
  <1>4. IsStay(J!NullsStay, Depth)
    BY Zenon, <1>3 DEF J!NullsStay, J!Json, J!StayBody, IsStay
  <1> QED
    BY <1>4 DEF J!Json, IsStay

-----------------------------------------------------------------------------
(* What a patch is.                                                        *)

LEMMA ValuesAre == None \notin J!Json /\ Null # None /\ J!Leaves \subseteq J!Json
  <1> USE PacketsAssumption DEF J!JsonAssumption
  <1>1. Depth \in 0..Depth
    OBVIOUS
  <1>2. None \notin J!Leaves /\ None \notin J!Objects(J!Json)
    OBVIOUS
  <1>3. ASSUME Depth # 0
        PROVE  J!Objects(J!Below[Depth - 1]) \subseteq J!Objects(J!Json)
    <2>1. J!Below[Depth - 1] \subseteq J!Json
      BY <1>3, Levels
    <2> HIDE PacketsAssumption
    <2> QED
      BY <2>1 DEF J!Objects
  <1>4. J!Json = IF Depth = 0 THEN J!Leaves ELSE J!Leaves \cup J!Objects(J!Below[Depth - 1])
    BY <1>1, BelowIs DEF J!Json
  <1> QED
    BY <1>2, <1>3, <1>4 DEF J!Leaves

(* There is a patch unless nothing changed, and it is a value itself.      *)
LEMMA PatchIs ==
  \A n \in 0..Depth : \A p, q \in J!Below[n] :
    /\ J!DeltaOf[p][q] = None <=> p = q
    /\ p # q => J!DeltaOf[p][q] \in J!Below[n]
  <1> DEFINE P(n) == \A p, q \in J!Below[n] : /\ J!DeltaOf[p][q] = None <=> p = q
                                              /\ p # q => J!DeltaOf[p][q] \in J!Below[n]
             G == {n \in Nat : n \in 0..Depth => P(n)}
  <1>1. ASSUME NEW n \in 0..Depth, NEW p \in J!Below[n], NEW q \in J!Below[n],
               J!IsObject(p), J!IsObject(q), p # q, P(n - 1)
        PROVE  /\ J!DeltaOf[p][q] # None
               /\ J!DeltaOf[p][q] \in J!Below[n]
    <2> HIDE DEF P
    <2> DEFINE delta == [k \in Keys |->
                 IF q[k] = None THEN IF p[k] = None THEN None ELSE Null
                 ELSE IF p[k] = None THEN q[k]
                 ELSE J!DeltaOf[p[k]][q[k]]]
    <2>1. /\ n \in 1..Depth /\ n - 1 \in 0..Depth
          /\ p = [k \in Keys |-> p[k]] /\ q = [k \in Keys |-> q[k]]
          /\ \A k \in Keys : p[k] \in J!Below[n - 1] \cup {None}
          /\ \A k \in Keys : q[k] \in J!Below[n - 1] \cup {None}
      BY <1>1, ObjectIs
    <2>2. \A k \in Keys : p[k] # None /\ q[k] # None =>
            /\ J!DeltaOf[p[k]][q[k]] = None <=> p[k] = q[k]
            /\ p[k] # q[k] => J!DeltaOf[p[k]][q[k]] \in J!Below[n - 1]
      BY <1>1, <2>1 DEF P
    <2>3. delta # J!Empty
      <3>1. PICK k \in Keys : p[k] # q[k]
        BY <1>1, <2>1
      <3>2. delta[k] # None
        BY <2>2, <3>1, ValuesAre
      <3> QED
        BY <3>2 DEF J!Empty
    <2>4. p \in J!Json /\ q \in J!Json
      BY Levels
    <2>5. J!DeltaOf[p][q] = delta
      <3>1. J!DeltaOf[p][q] = J!DeltaBody(J!DeltaOf, p, q)
        BY <2>4, DeltaIs
      <3>2. J!DeltaBody(J!DeltaOf, p, q) = IF delta = J!Empty THEN None ELSE delta
        BY <1>1 DEF J!DeltaBody
      <3> HIDE DEF delta
      <3> QED
        BY <2>3, <3>1, <3>2
    <2>6. Null \in J!Below[n - 1]
      BY <2>1, Levels DEF J!Leaves
    <2>7. \A k \in Keys : delta[k] \in J!Below[n - 1] \cup {None}
      BY <2>1, <2>2, <2>6
    <2>8. delta \in [Keys -> J!Below[n - 1] \cup {None}]
      BY <2>7
    <2> HIDE DEF delta
    <2>9. delta \in J!Below[n] /\ J!IsObject(delta)
      BY <2>1, <2>8, IsAnObject
    <2> QED
      BY <2>5, <2>9 DEF J!IsObject
  <1>2. ASSUME NEW n \in 0..Depth, n # 0 => P(n - 1)
        PROVE  P(n)
    <2> SUFFICES ASSUME NEW p \in J!Below[n], NEW q \in J!Below[n]
                 PROVE  /\ J!DeltaOf[p][q] = None <=> p = q
                        /\ p # q => J!DeltaOf[p][q] \in J!Below[n]
      OBVIOUS
    <2> HIDE DEF P
    <2>1. p \in J!Json /\ q \in J!Json
      BY Levels
    <2>2. J!DeltaOf[p][q] = J!DeltaBody(J!DeltaOf, p, q)
      BY <2>1, DeltaIs
    <2>3. CASE p = q
      BY <2>2, <2>3 DEF J!DeltaBody
    <2>4. CASE p # q /\ ~(J!IsObject(p) /\ J!IsObject(q))
      <3>1. J!DeltaOf[p][q] = q
        BY <2>2, <2>4 DEF J!DeltaBody
      <3> QED
        BY <2>1, <2>4, <3>1, ValuesAre
    <2>5. CASE p # q /\ J!IsObject(p) /\ J!IsObject(q)
      <3>1. n # 0
        BY <2>5, ObjectIs
      <3> QED
        BY <1>1, <1>2, <2>5, <3>1
    <2> QED
      BY <2>3, <2>4, <2>5
  <1> HIDE DEF P
  <1>3. 0 \in G
    BY <1>2
  <1>4. ASSUME NEW n \in Nat, n \in G
        PROVE  n + 1 \in G
    <2> SUFFICES ASSUME n + 1 \in 0..Depth
                 PROVE  P(n + 1)
      OBVIOUS
    <2>1. n \in 0..Depth /\ (n + 1) - 1 = n
      BY PacketsAssumption DEF J!JsonAssumption
    <2>2. P((n + 1) - 1)
      BY <1>4, <2>1
    <2> QED
      BY <1>2, <2>2
  <1>5. Nat \subseteq G
    <2> HIDE DEF G
    <2> QED
      BY <1>3, <1>4, Counting
  <1>6. \A n \in 0..Depth : P(n)
    BY <1>5, PacketsAssumption DEF J!JsonAssumption
  <1> QED
    BY <1>6 DEF P

(* Members of what keeps its nulls keep theirs.                            *)
LEMMA MembersStay ==
  ASSUME NEW p \in J!Json \cup {None}, NEW q \in J!Json, J!NullsStay[p][q]
  PROVE  /\ q = Null => p = Null
         /\ J!IsObject(q) => \A k \in Keys : q[k] # None => J!NullsStay[At(p, k)][q[k]]
  <1>1. J!StayBody(J!NullsStay, p, q)
    BY StayIs
  <1> QED
    BY <1>1 DEF J!StayBody, At

(* A value without nulls that replaces no object arrives as it is.         *)
LEMMA ArrivesWhole ==
  \A n \in 0..Depth : \A v \in J!Below[n], t \in J!Json :
    ~J!IsObject(t) /\ J!NullsStay[None][v] => J!MergeOf[t][v] = v
  <1> DEFINE P(n) == \A v \in J!Below[n], t \in J!Json :
                       ~J!IsObject(t) /\ J!NullsStay[None][v] => J!MergeOf[t][v] = v
             G == {n \in Nat : n \in 0..Depth => P(n)}
  <1>1. ASSUME NEW n \in 0..Depth, n # 0 => P(n - 1)
        PROVE  P(n)
    <2> SUFFICES ASSUME NEW v \in J!Below[n], NEW t \in J!Json, ~J!IsObject(t), J!NullsStay[None][v]
                 PROVE  J!MergeOf[t][v] = v
      OBVIOUS
    <2> HIDE DEF P
    <2>1. v \in J!Json
      BY Levels
    <2>2. J!MergeOf[t][v] = J!MergeBody(J!MergeOf, t, v)
      BY <2>1, MergeIs
    <2>3. CASE ~J!IsObject(v)
      BY <2>2, <2>3 DEF J!MergeBody
    <2>4. CASE J!IsObject(v)
      <3>1. /\ n # 0 /\ n - 1 \in 0..Depth
            /\ v = [k \in Keys |-> v[k]]
            /\ \A k \in Keys : v[k] # None => v[k] \in J!Below[n - 1] /\ v[k] \in J!Json
        BY <2>4, ObjectIs
      <3>2. \A k \in Keys : v[k] # None => J!NullsStay[None][v[k]]
        <4>1. \A k : At(None, k) = None
          BY DEF At, J!IsObject
        <4> QED
          BY <2>1, <2>4, <4>1, MembersStay
      <3>3. \A k \in Keys : v[k] # Null
        BY <3>1, <3>2, MembersStay, ValuesAre
      <3>4. Null \in J!Json /\ ~J!IsObject(Null)
        BY ValuesAre DEF J!Leaves, J!IsObject
      <3>5. \A k \in Keys : v[k] # None => J!MergeOf[Null][v[k]] = v[k]
        BY <1>1, <3>1, <3>2, <3>4 DEF P
      <3>6. J!MergeBody(J!MergeOf, t, v) =
              [k \in Keys |-> IF v[k] = None THEN None ELSE J!MergeOf[Null][v[k]]]
        BY <2>4, <3>3 DEF J!MergeBody, J!Empty
      <3>7. [k \in Keys |-> IF v[k] = None THEN None ELSE J!MergeOf[Null][v[k]]]
              = [k \in Keys |-> v[k]]
        BY <3>5
      <3> QED
        BY <2>2, <3>1, <3>6, <3>7
    <2> QED
      BY <2>3, <2>4
  <1> HIDE DEF P
  <1>2. 0 \in G
    BY <1>1
  <1>3. ASSUME NEW n \in Nat, n \in G
        PROVE  n + 1 \in G
    <2> SUFFICES ASSUME n + 1 \in 0..Depth
                 PROVE  P(n + 1)
      OBVIOUS
    <2>1. n \in 0..Depth /\ (n + 1) - 1 = n
      BY PacketsAssumption DEF J!JsonAssumption
    <2>2. P((n + 1) - 1)
      BY <1>3, <2>1
    <2> QED
      BY <1>1, <2>2
  <1>4. Nat \subseteq G
    <2> HIDE DEF G
    <2> QED
      BY <1>2, <1>3, Counting
  <1>5. \A n \in 0..Depth : P(n)
    BY <1>4, PacketsAssumption DEF J!JsonAssumption
  <1> QED
    BY <1>5 DEF P

LEMMA PatchesMerge ==
  \A n \in 0..Depth : \A p, q \in J!Below[n] :
    p # q /\ J!NullsStay[p][q] =>
      J!MergeOf[p][J!DeltaOf[p][q]] = q /\ J!DeltaOf[p][q] # Null
  <1> DEFINE P(n) == \A p, q \in J!Below[n] :
                       p # q /\ J!NullsStay[p][q] =>
                         J!MergeOf[p][J!DeltaOf[p][q]] = q /\ J!DeltaOf[p][q] # Null
             G == {n \in Nat : n \in 0..Depth => P(n)}
  <1>1. ASSUME NEW n \in 0..Depth, NEW p \in J!Below[n], NEW q \in J!Below[n],
               p # q, J!NullsStay[p][q], J!IsObject(p), J!IsObject(q), P(n - 1)
        PROVE  J!MergeOf[p][J!DeltaOf[p][q]] = q /\ J!DeltaOf[p][q] # Null
    <2> HIDE DEF P
    <2> DEFINE delta == [k \in Keys |->
                 IF q[k] = None THEN IF p[k] = None THEN None ELSE Null
                 ELSE IF p[k] = None THEN q[k]
                 ELSE J!DeltaOf[p[k]][q[k]]]
    <2>1. p \in J!Json /\ q \in J!Json
      BY Levels
    <2>2. /\ n \in 1..Depth /\ n - 1 \in 0..Depth
          /\ q = [k \in Keys |-> q[k]]
          /\ \A k \in Keys : p[k] # None => p[k] \in J!Below[n - 1] /\ p[k] \in J!Json
          /\ \A k \in Keys : q[k] # None => q[k] \in J!Below[n - 1] /\ q[k] \in J!Json
      BY <1>1, ObjectIs
    <2>3. J!DeltaOf[p][q] = delta
      <3>1. J!DeltaOf[p][q] # None
        BY <1>1, PatchIs
      <3>2. J!DeltaOf[p][q] = J!DeltaBody(J!DeltaOf, p, q)
        BY <2>1, DeltaIs
      <3>3. J!DeltaBody(J!DeltaOf, p, q) = IF delta = J!Empty THEN None ELSE delta
        BY <1>1 DEF J!DeltaBody
      <3> HIDE DEF delta
      <3> QED
        BY <3>1, <3>2, <3>3
    <2>4. delta \in J!Json /\ J!IsObject(delta)
      <3>1. Null \in J!Below[n - 1]
        BY <2>2, Levels DEF J!Leaves
      <3>2. ASSUME NEW k \in Keys
            PROVE  delta[k] \in J!Below[n - 1] \cup {None}
        BY <2>2, <3>1, PatchIs
      <3>3. delta \in [Keys -> J!Below[n - 1] \cup {None}]
        BY <3>2
      <3> HIDE DEF delta
      <3>4. delta \in J!Below[n] /\ J!IsObject(delta)
        BY <2>2, <3>3, IsAnObject
      <3> QED
        BY <3>4, Levels
    <2>5. \A k \in Keys : q[k] # None => J!NullsStay[p[k]][q[k]]
      <3>1. \A k : At(p, k) = p[k]
        BY <1>1 DEF At
      <3> QED
        BY <1>1, <2>1, <3>1, MembersStay
    <2>6. J!MergeBody(J!MergeOf, p, delta) =
            [k \in Keys |-> IF delta[k] = None THEN p[k]
                            ELSE IF delta[k] = Null THEN None
                            ELSE J!MergeOf[IF p[k] = None THEN Null ELSE p[k]][delta[k]]]
      <3> HIDE DEF delta
      <3> QED
        BY <1>1, <2>4 DEF J!MergeBody
    <2>7. ASSUME NEW k \in Keys
          PROVE  q[k] = IF delta[k] = None THEN p[k]
                        ELSE IF delta[k] = Null THEN None
                        ELSE J!MergeOf[IF p[k] = None THEN Null ELSE p[k]][delta[k]]
      <3>1. CASE q[k] = None
        BY <3>1, ValuesAre
      <3>2. CASE q[k] # None /\ p[k] = None
        <4>1. delta[k] = q[k] /\ J!NullsStay[None][q[k]]
          BY <2>5, <3>2
        <4>2. q[k] # Null
          BY <2>2, <3>2, <4>1, MembersStay, ValuesAre
        <4>3. Null \in J!Json /\ ~J!IsObject(Null)
          BY ValuesAre DEF J!Leaves, J!IsObject
        <4>4. J!MergeOf[Null][q[k]] = q[k]
          BY <2>2, <3>2, <4>1, <4>3, ArrivesWhole
        <4> QED
          BY <3>2, <4>1, <4>2, <4>4
      <3>3. CASE q[k] # None /\ p[k] # None /\ p[k] = q[k]
        <4>1. delta[k] = None
          BY <2>2, <3>3, PatchIs
        <4> QED
          BY <3>3, <4>1
      <3>4. CASE q[k] # None /\ p[k] # None /\ p[k] # q[k]
        <4>1. delta[k] = J!DeltaOf[p[k]][q[k]]
          BY <3>4
        <4>2. delta[k] # None
          BY <2>2, <3>4, <4>1, PatchIs
        <4>3. J!MergeOf[p[k]][J!DeltaOf[p[k]][q[k]]] = q[k] /\ J!DeltaOf[p[k]][q[k]] # Null
          BY <1>1, <2>2, <2>5, <3>4 DEF P
        <4> QED
          BY <3>4, <4>1, <4>2, <4>3
      <3> QED
        BY <3>1, <3>2, <3>3, <3>4
    <2> HIDE DEF delta
    <2>8. J!MergeOf[p][delta] = J!MergeBody(J!MergeOf, p, delta)
      BY <2>1, <2>4, MergeIs
    <2>9. J!MergeBody(J!MergeOf, p, delta) = [k \in Keys |-> q[k]]
      BY <2>6, <2>7
    <2> QED
      BY <2>2, <2>3, <2>4, <2>8, <2>9 DEF J!IsObject, J!Leaves
  <1>2. ASSUME NEW n \in 0..Depth, n # 0 => P(n - 1)
        PROVE  P(n)
    <2> SUFFICES ASSUME NEW p \in J!Below[n], NEW q \in J!Below[n], p # q, J!NullsStay[p][q]
                 PROVE  J!MergeOf[p][J!DeltaOf[p][q]] = q /\ J!DeltaOf[p][q] # Null
      OBVIOUS
    <2> HIDE DEF P
    <2>1. p \in J!Json /\ q \in J!Json
      BY Levels
    <2>2. CASE J!IsObject(p) /\ J!IsObject(q)
      BY <1>1, <1>2, <2>2, ObjectIs
    <2>3. CASE ~(J!IsObject(p) /\ J!IsObject(q))
      <3>1. J!DeltaOf[p][q] = q
        <4>1. J!DeltaOf[p][q] = J!DeltaBody(J!DeltaOf, p, q)
          BY <2>1, DeltaIs
        <4> QED
          BY <2>3, <4>1 DEF J!DeltaBody
      <3>2. q # Null
        BY <2>1, MembersStay
      <3>3. CASE ~J!IsObject(q)
        <4>1. J!MergeOf[p][q] = J!MergeBody(J!MergeOf, p, q)
          BY <2>1, MergeIs
        <4> QED
          BY <3>1, <3>2, <3>3, <4>1 DEF J!MergeBody
      <3>4. CASE J!IsObject(q) /\ ~J!IsObject(p)
        <4>1. \A k \in Keys : q[k] # None => J!NullsStay[None][q[k]]
          <5>1. \A k : At(p, k) = None
            BY <3>4 DEF At
          <5> QED
            BY <2>1, <3>4, <5>1, MembersStay
        <4>2. J!NullsStay[None][q]
          <5>1. J!StayBody(J!NullsStay, None, q)
            BY <3>2, <4>1 DEF J!StayBody, J!IsObject
          <5> QED
            BY <2>1, <5>1, StayIs
        <4> QED
          BY <2>1, <3>1, <3>2, <3>4, <4>2, ArrivesWhole
      <3> QED
        BY <2>3, <3>3, <3>4
    <2> QED
      BY <2>2, <2>3
  <1> HIDE DEF P
  <1>3. 0 \in G
    BY <1>2
  <1>4. ASSUME NEW n \in Nat, n \in G
        PROVE  n + 1 \in G
    <2> SUFFICES ASSUME n + 1 \in 0..Depth
                 PROVE  P(n + 1)
      OBVIOUS
    <2>1. n \in 0..Depth /\ (n + 1) - 1 = n
      BY PacketsAssumption DEF J!JsonAssumption
    <2>2. P((n + 1) - 1)
      BY <1>4, <2>1
    <2> QED
      BY <1>2, <2>2
  <1>5. Nat \subseteq G
    <2> HIDE DEF G
    <2> QED
      BY <1>3, <1>4, Counting
  <1>6. \A n \in 0..Depth : P(n)
    BY <1>5, PacketsAssumption DEF J!JsonAssumption
  <1> QED
    BY <1>6 DEF P

(* Values of any depth, with any keys: there is a patch unless nothing     *)
(* changed (compute_json_delta), and merging it into the first value gives *)
(* the second, unless something became null.                               *)
THEOREM DeltasMerge == \A p, q \in J!Json : J!MergeGivesCurr(p, q)
  <1>1. Depth \in 0..Depth
    BY PacketsAssumption DEF J!JsonAssumption
  <1> QED
    BY <1>1, PatchIs, PatchesMerge DEF J!Json, J!MergeGivesCurr

-----------------------------------------------------------------------------
(***************************************************************************)
(* The filters (WsFilters).                                                *)
(***************************************************************************)

LEMMA MemberValues ==
  ASSUME NEW v \in J!Json, W!IsObject(v), NEW k \in Keys, v[k] # None
  PROVE  v[k] \in J!Json
  <1>1. J!IsObject(v)
    BY DEF W!IsObject, J!IsObject, J!Leaves
  <1>2. Depth \in 0..Depth
    BY PacketsAssumption DEF J!JsonAssumption
  <1> QED
    BY <1>1, <1>2, ObjectIs DEF J!Json

(* The entries of a list, given the lists its nested entries have.         *)
EntriesOver(lists) == W!Flat \cup [kind : {"nested"}, field : Keys, keys : lists]

LEMMA ListsAre ==
  \A n \in 0..Nesting :
    W!ListsBelow[n] = IF n = 0 THEN Seq(W!Flat) ELSE Seq(EntriesOver(W!ListsBelow[n - 1]))
  <1> DEFINE IsBelow(B, m) ==
               B = [n \in 0..m |-> IF n = 0 THEN Seq(W!Flat) ELSE Seq(EntriesOver(B[n - 1]))]
             G == {m \in Nat : \E B : IsBelow(B, m)}
  <1>1. 0 \in G
    <2> DEFINE B == [n \in 0..0 |-> Seq(W!Flat)]
    <2>1. IsBelow(B, 0)
      OBVIOUS
    <2> HIDE DEF B, IsBelow
    <2> QED
      BY <2>1
  <1>2. ASSUME NEW m \in Nat, m \in G
        PROVE  m + 1 \in G
    <2>1. PICK B : IsBelow(B, m)
      BY <1>2
    <2> DEFINE C == [n \in 0..(m + 1) |-> IF n <= m THEN B[n] ELSE Seq(EntriesOver(B[m]))]
               E == [n \in 0..(m + 1) |-> IF n = 0 THEN Seq(W!Flat) ELSE Seq(EntriesOver(C[n - 1]))]
    <2>2. ASSUME NEW n \in 0..(m + 1)
          PROVE  C[n] = E[n]
      <3>1. CASE n = 0
        BY <2>1, <3>1
      <3>2. CASE n # 0 /\ n <= m
        <4>1. n \in 0..m /\ n - 1 \in 0..m /\ n - 1 \in 0..(m + 1)
          BY <3>2
        <4>2. B[n] = Seq(EntriesOver(B[n - 1]))
          BY <2>1, <3>2, <4>1
        <4>3. C[n] = B[n] /\ C[n - 1] = B[n - 1]
          BY <3>2, <4>1
        <4> QED
          BY <3>2, <4>2, <4>3
      <3>3. CASE n = m + 1
        <4>1. C[n] = Seq(EntriesOver(B[m])) /\ C[m] = B[m] /\ n - 1 = m /\ n # 0
          BY <3>3
        <4> QED
          BY <4>1
      <3> QED
        BY <3>1, <3>2, <3>3
    <2>3. C = E
      BY <2>2
    <2>4. IsBelow(C, m + 1)
      BY <2>3
    <2> HIDE DEF C, E, IsBelow
    <2> QED
      BY <2>4
  <1>3. Nesting \in G
    <2> HIDE DEF G
    <2> QED
      BY <1>1, <1>2, Counting, SamplesAssumption
  <1>4. IsBelow(W!ListsBelow, Nesting)
    BY <1>3 DEF W!ListsBelow, EntriesOver
  <1> QED
    BY <1>4

(* What an entry of a list has.                                            *)
LEMMA EntryIs ==
  ASSUME NEW n \in 0..Nesting, NEW list \in W!ListsBelow[n], NEW i \in 1..Len(list)
  PROVE  /\ list[i].kind \in {"key", "nested", "bad"}
         /\ list[i].kind # "bad" => list[i].field \in Keys
         /\ list[i].kind = "nested" =>
              n # 0 /\ n - 1 \in 0..Nesting /\ list[i].keys \in W!ListsBelow[n - 1]
  <1>1. CASE n = 0
    <2>1. list \in Seq(W!Flat)
      BY <1>1, ListsAre
    <2>2. list[i] \in W!Flat
      BY <2>1
    <2> QED
      BY <2>2 DEF W!Flat
  <1>2. CASE n # 0
    <2>1. list \in Seq(EntriesOver(W!ListsBelow[n - 1]))
      BY <1>2, ListsAre
    <2>2. list[i] \in EntriesOver(W!ListsBelow[n - 1])
      BY <2>1
    <2>3. n - 1 \in 0..Nesting
      BY <1>2, SamplesAssumption
    <2> QED
      BY <1>2, <2>2, <2>3 DEF EntriesOver, W!Flat
  <1> QED
    BY <1>1, <1>2

LEMMA ListLevels ==
  /\ \A n \in 1..Nesting : W!ListsBelow[n - 1] \subseteq W!ListsBelow[n]
  /\ \A n \in 0..Nesting : W!ListsBelow[n] \subseteq W!Lists
  <1> USE SamplesAssumption
  <1>1. \A n \in 1..Nesting : W!ListsBelow[n - 1] \subseteq W!ListsBelow[n]
    <2> DEFINE G == {m \in Nat : m + 1 \in 1..Nesting => W!ListsBelow[m] \subseteq W!ListsBelow[m + 1]}
    <2>1. 0 \in G
      <3> SUFFICES ASSUME 1 \in 1..Nesting
                   PROVE  W!ListsBelow[0] \subseteq W!ListsBelow[1]
        OBVIOUS
      <3>1. 0 \in 0..Nesting /\ 1 \in 0..Nesting /\ 1 # 0 /\ 1 - 1 = 0
        OBVIOUS
      <3>2. W!ListsBelow[0] = Seq(W!Flat) /\ W!ListsBelow[1] = Seq(EntriesOver(W!ListsBelow[0]))
        BY <3>1, ListsAre
      <3>3. W!Flat \subseteq EntriesOver(W!ListsBelow[0])
        BY DEF EntriesOver
      <3> QED
        BY <3>2, <3>3, SeqMonotonic
    <2>2. ASSUME NEW m \in Nat, m \in G
          PROVE  m + 1 \in G
      <3> SUFFICES ASSUME m + 2 \in 1..Nesting
                   PROVE  W!ListsBelow[m + 1] \subseteq W!ListsBelow[m + 2]
        OBVIOUS
      <3>1. m + 1 \in 0..Nesting /\ m + 2 \in 0..Nesting /\ m + 1 # 0 /\ m + 2 # 0
            /\ (m + 1) - 1 = m /\ (m + 2) - 1 = m + 1
        OBVIOUS
      <3>2. W!ListsBelow[m] \subseteq W!ListsBelow[m + 1]
        BY <2>2, <3>1
      <3>3. EntriesOver(W!ListsBelow[m]) \subseteq EntriesOver(W!ListsBelow[m + 1])
        <4> HIDE SamplesAssumption
        <4> QED
          BY <3>2 DEF EntriesOver
      <3>4. W!ListsBelow[m + 1] = Seq(EntriesOver(W!ListsBelow[m]))
            /\ W!ListsBelow[m + 2] = Seq(EntriesOver(W!ListsBelow[m + 1]))
        BY <3>1, ListsAre
      <3> QED
        BY <3>3, <3>4, SeqMonotonic
    <2>3. Nat \subseteq G
      <3> HIDE DEF G
      <3> QED
        BY <2>1, <2>2, Counting
    <2>4. ASSUME NEW n \in 1..Nesting
          PROVE  W!ListsBelow[n - 1] \subseteq W!ListsBelow[n]
      <3>1. n - 1 \in Nat /\ (n - 1) + 1 = n
        OBVIOUS
      <3> QED
        BY <2>3, <3>1
    <2> QED
      BY <2>4
  <1>2. \A n \in 0..Nesting : W!ListsBelow[n] \subseteq W!Lists
    <2> DEFINE G == {m \in Nat : m \in 0..Nesting => W!ListsBelow[Nesting - m] \subseteq W!Lists}
    <2>1. 0 \in G
      BY DEF W!Lists
    <2>2. ASSUME NEW m \in Nat, m \in G
          PROVE  m + 1 \in G
      <3> SUFFICES ASSUME m + 1 \in 0..Nesting
                   PROVE  W!ListsBelow[Nesting - (m + 1)] \subseteq W!Lists
        OBVIOUS
      <3>1. Nesting - m \in 1..Nesting /\ (Nesting - m) - 1 = Nesting - (m + 1) /\ m \in 0..Nesting
        OBVIOUS
      <3>2. W!ListsBelow[(Nesting - m) - 1] \subseteq W!ListsBelow[Nesting - m]
        BY <1>1, <3>1
      <3> QED
        BY <2>2, <3>1, <3>2
    <2>3. Nat \subseteq G
      <3> HIDE DEF G
      <3> QED
        BY <2>1, <2>2, Counting
    <2>4. ASSUME NEW n \in 0..Nesting
          PROVE  W!ListsBelow[n] \subseteq W!Lists
      <3>1. Nesting - n \in Nat /\ Nesting - n \in 0..Nesting /\ Nesting - (Nesting - n) = n
        OBVIOUS
      <3>2. Nesting - n \in G
        BY <2>3, <3>1
      <3> QED
        BY <3>1, <3>2
    <2> QED
      BY <2>4
  <1> QED
    BY <1>1, <1>2

(* What the loop has after each entry.                                     *)
LEMMA LoopIs ==
  ASSUME NEW f, NEW list, Len(list) \in Nat, NEW data
  PROVE  /\ W!WrittenUpTo(f, list, data)[0] = <<>>
         /\ \A i \in 1..Len(list) :
              W!WrittenUpTo(f, list, data)[i]
                = W!Written(f, W!WrittenUpTo(f, list, data)[i - 1], list[i], data)
  <1> DEFINE Step(F, i) == IF i = 0 THEN <<>> ELSE W!Written(f, F[i - 1], list[i], data)
             IsLoop(F, m) == F = [i \in 0..m |-> Step(F, i)]
             G == {m \in Nat : \E F : IsLoop(F, m)}
  <1>1. 0 \in G
    <2> DEFINE F == [i \in 0..0 |-> <<>>]
    <2>1. F = [i \in 0..0 |-> Step(F, i)]
      OBVIOUS
    <2>2. IsLoop(F, 0)
      BY <2>1
    <2> HIDE DEF F, IsLoop
    <2> QED
      BY <2>2
  <1>2. ASSUME NEW m \in Nat, m \in G
        PROVE  m + 1 \in G
    <2>1. PICK F : IsLoop(F, m)
      BY <1>2
    <2> DEFINE H == [i \in 0..(m + 1) |-> IF i <= m THEN F[i] ELSE W!Written(f, F[m], list[m + 1], data)]
               E == [i \in 0..(m + 1) |-> Step(H, i)]
    <2>2. ASSUME NEW i \in 0..(m + 1)
          PROVE  H[i] = E[i]
      <3>1. CASE i = 0
        BY <2>1, <3>1
      <3>2. CASE i # 0 /\ i <= m
        <4>1. i \in 0..m /\ i - 1 \in 0..m /\ i - 1 \in 0..(m + 1)
          BY <3>2
        <4>2. F[i] = W!Written(f, F[i - 1], list[i], data)
          BY <2>1, <3>2, <4>1
        <4>3. H[i] = F[i] /\ H[i - 1] = F[i - 1]
          BY <3>2, <4>1
        <4> QED
          BY <3>2, <4>2, <4>3
      <3>3. CASE i = m + 1
        <4>1. /\ H[i] = W!Written(f, F[m], list[m + 1], data)
              /\ H[m] = F[m] /\ i - 1 = m /\ i # 0
          BY <3>3
        <4> QED
          BY <3>3, <4>1
      <3> QED
        BY <3>1, <3>2, <3>3
    <2>3. H = E
      BY <2>2
    <2>4. IsLoop(H, m + 1)
      BY <2>3
    <2> HIDE DEF H, E, IsLoop
    <2> QED
      BY <2>4
  <1>3. Len(list) \in G
    <2> HIDE DEF G
    <2> QED
      BY <1>1, <1>2, Counting
  <1>4. IsLoop(W!WrittenUpTo(f, list, data), Len(list))
    BY <1>3 DEF W!WrittenUpTo
  <1>5. 0 \in 0..Len(list) /\ \A i \in 1..Len(list) : i \in 0..Len(list) /\ i # 0
    OBVIOUS
  <1> QED
    BY <1>4, <1>5

(* It asks of the nested lists what each entry asks.                       *)
LEMMA LeftAsksEntries ==
  ASSUME NEW f, NEW g, NEW list, Len(list) \in Nat, NEW data,
         \A i \in 1..Len(list) : \A out :
           W!Written(f, out, list[i], data) = W!Written(g, out, list[i], data)
  PROVE  W!LeftBody(f, list, data) = W!LeftBody(g, list, data)
  <1> DEFINE F == W!WrittenUpTo(f, list, data)
             H == W!WrittenUpTo(g, list, data)
             G == {i \in Nat : i <= Len(list) => F[i] = H[i]}
  <1>2. 0 \in G
    BY LoopIs
  <1>3. ASSUME NEW i \in Nat, i \in G
        PROVE  i + 1 \in G
    <2> SUFFICES ASSUME i + 1 <= Len(list)
                 PROVE  F[i + 1] = H[i + 1]
      OBVIOUS
    <2>1. i + 1 \in 1..Len(list) /\ (i + 1) - 1 = i /\ i <= Len(list)
      OBVIOUS
    <2>2. F[i] = H[i]
      BY <1>3, <2>1
    <2>3. \A j \in 1..Len(list) : /\ F[j] = W!Written(f, F[j - 1], list[j], data)
                                  /\ H[j] = W!Written(g, H[j - 1], list[j], data)
      BY LoopIs
    <2> HIDE DEF F, H
    <2>4. /\ F[i + 1] = W!Written(f, F[i], list[i + 1], data)
          /\ H[i + 1] = W!Written(g, H[i], list[i + 1], data)
      BY <2>1, <2>3
    <2> QED
      BY <2>1, <2>2, <2>4
  <1>4. F[Len(list)] = H[Len(list)]
    <2>1. Nat \subseteq G
      <3> HIDE DEF G
      <3> QED
        BY <1>2, <1>3, Counting
    <2> QED
      BY <2>1
  <1> QED
    BY <1>4 DEF W!LeftBody

(* The recursion over nested lists, unfolded.                              *)
LEMMA LeftIs ==
  \A list \in W!Lists, data \in J!Json :
    W!LeftBy[list][data] = W!LeftBody(W!LeftBy, list, data)
  <1> DEFINE IsLeft(f, n) ==
               f = [list \in W!ListsBelow[n] |-> [data \in J!Json |-> W!LeftBody(f, list, data)]]
             G == {n \in Nat : n \in 0..Nesting => \E f : IsLeft(f, n)}
  <1>0. \A n \in 0..Nesting : \A list \in W!ListsBelow[n] : Len(list) \in Nat
    BY ListsAre
  <1>1. 0 \in G
    <2> DEFINE f == [list \in W!ListsBelow[0] |-> [data \in J!Json |-> W!LeftBody(Null, list, data)]]
    <2>1. ASSUME 0 \in 0..Nesting, NEW list \in W!ListsBelow[0], NEW data \in J!Json
          PROVE  W!LeftBody(f, list, data) = W!LeftBody(Null, list, data)
      <3> HIDE DEF f
      <3>1. \A i \in 1..Len(list) : list[i].kind = "key" \/ list[i].kind = "bad"
        BY <2>1, EntryIs
      <3>2. Len(list) \in Nat
        BY <1>0, <2>1
      <3>3. \A i \in 1..Len(list) : \A out :
              W!Written(f, out, list[i], data) = W!Written(Null, out, list[i], data)
        BY <3>1 DEF W!Written, W!Asked, W!Names
      <3> QED
        BY <3>2, <3>3, LeftAsksEntries
    <2>2. 0 \in 0..Nesting => IsLeft(f, 0)
      BY <2>1
    <2> HIDE DEF f, IsLeft
    <2> QED
      BY <2>2
  <1>2. ASSUME NEW n \in Nat, n \in G
        PROVE  n + 1 \in G
    <2> SUFFICES ASSUME n + 1 \in 0..Nesting
                 PROVE  \E f : IsLeft(f, n + 1)
      OBVIOUS
    <2>1. n \in 0..Nesting /\ n + 1 \in 1..Nesting /\ (n + 1) - 1 = n
      BY SamplesAssumption
    <2>2. PICK f : IsLeft(f, n)
      BY <1>2, <2>1
    <2> DEFINE g == [list \in W!ListsBelow[n + 1] |-> [data \in J!Json |-> W!LeftBody(f, list, data)]]
    <2>3. W!ListsBelow[n] \subseteq W!ListsBelow[n + 1]
      BY <2>1, ListLevels
    <2>4. ASSUME NEW list \in W!ListsBelow[n], NEW data \in J!Json
          PROVE  g[list][data] = f[list][data]
      <3>1. f[list][data] = W!LeftBody(f, list, data)
        BY <2>2
      <3>2. g[list][data] = W!LeftBody(f, list, data)
        BY <2>3
      <3> QED
        BY <3>1, <3>2
    <2>5. ASSUME NEW list \in W!ListsBelow[n + 1], NEW data \in J!Json
          PROVE  W!LeftBody(f, list, data) = W!LeftBody(g, list, data)
      <3> HIDE DEF g
      <3>1. ASSUME NEW i \in 1..Len(list), W!Names(list[i], data), list[i].kind # "key"
            PROVE  f[list[i].keys][data[list[i].field]] = g[list[i].keys][data[list[i].field]]
        <4>1. /\ list[i].kind \in {"key", "nested", "bad"}
              /\ list[i].kind # "bad" => list[i].field \in Keys
              /\ list[i].kind = "nested" => list[i].keys \in W!ListsBelow[(n + 1) - 1]
          BY <2>1, <2>5, EntryIs
        <4>2. list[i].field \in Keys /\ list[i].keys \in W!ListsBelow[n]
          BY <2>1, <3>1, <4>1 DEF W!Names
        <4>3. data[list[i].field] \in J!Json
          BY <3>1, <4>2, MemberValues DEF W!Names
        <4> QED
          BY <2>4, <4>2, <4>3
      <3>2. Len(list) \in Nat
        BY <1>0, <2>5
      <3>3. \A i \in 1..Len(list) : \A out :
              W!Written(f, out, list[i], data) = W!Written(g, out, list[i], data)
        BY <3>1 DEF W!Written, W!Asked
      <3> QED
        BY <3>2, <3>3, LeftAsksEntries
    <2>6. IsLeft(g, n + 1)
      BY <2>5
    <2> HIDE DEF g, IsLeft
    <2> QED
      BY <2>6
  <1>3. Nesting \in G /\ Nesting \in 0..Nesting
    <2> HIDE DEF G
    <2> QED
      BY <1>1, <1>2, Counting, SamplesAssumption
  <1>4. IsLeft(W!LeftBy, Nesting)
    BY <1>3 DEF W!LeftBy, W!Lists
  <1> QED
    BY <1>4 DEF W!Lists

(* An output, given what the entries that name something name, and what    *)
(* they ask for, up to the m-th entry.                                     *)
NamingUpTo(field, m, key) == {i \in DOMAIN field : i <= m /\ field[i] = key}

LeftUpTo(out, field, told, m) ==
  /\ \A key \in Keys : NamingUpTo(field, m, key) # {} <=> \E i \in DOMAIN out : out[i].key = key
  /\ \A i, j \in DOMAIN out : i < j =>
       \E p \in NamingUpTo(field, m, out[i].key) :
         \A q \in NamingUpTo(field, m, out[j].key) : p < q
  /\ \A i \in DOMAIN out :
       \E p \in NamingUpTo(field, m, out[i].key) :
         /\ \A q \in NamingUpTo(field, m, out[i].key) : q <= p
         /\ out[i].value = told[p]

LEMMA NamingStep ==
  ASSUME NEW N \in SUBSET Nat, NEW field \in [N -> Keys], NEW m \in Nat, NEW key
  PROVE  NamingUpTo(field, m + 1, key) =
           NamingUpTo(field, m, key) \cup
             (IF m + 1 \in N /\ field[m + 1] = key THEN {m + 1} ELSE {})
  <1>1. DOMAIN field = N /\ \A i \in N : i \in Nat /\ (i <= m + 1 <=> i <= m \/ i = m + 1)
    OBVIOUS
  <1>2. ASSUME NEW i
        PROVE  i \in NamingUpTo(field, m + 1, key) <=>
                 i \in NamingUpTo(field, m, key) \/ (i = m + 1 /\ i \in N /\ field[i] = key)
    BY <1>1 DEF NamingUpTo
  <1> HIDE DEF NamingUpTo
  <1> QED
    BY <1>2

(* An entry that names nothing adds nothing; one that names a key takes    *)
(* the place of the last entry that did, or comes last.                    *)
LEMMA InsertedStep ==
  ASSUME NEW N \in SUBSET Nat, NEW field \in [N -> Keys], NEW V, NEW told \in [N -> V],
         NEW m \in Nat, m + 1 \in N,
         NEW out \in Seq([key : Keys, value : V]), LeftUpTo(out, field, told, m)
  PROVE  LET next == W!Inserted(out, field[m + 1], told[m + 1])
         IN next \in Seq([key : Keys, value : V]) /\ LeftUpTo(next, field, told, m + 1)
  <1> DEFINE key == field[m + 1]
             next == W!Inserted(out, key, told[m + 1])
             old(k) == NamingUpTo(field, m, k)
             new(k) == NamingUpTo(field, m + 1, k)
  <1> SUFFICES next \in Seq([key : Keys, value : V]) /\ LeftUpTo(next, field, told, m + 1)
    OBVIOUS
  <1>1. key \in Keys /\ told[m + 1] \in V
    OBVIOUS
  <1>2. /\ \A k : k # key => new(k) = old(k)
        /\ new(key) = old(key) \cup {m + 1}
        /\ \A k : \A p \in old(k) : p <= m /\ p \in Nat
    <2>1. ASSUME NEW k
          PROVE  new(k) = old(k) \cup (IF m + 1 \in N /\ key = k THEN {m + 1} ELSE {})
      BY NamingStep
    <2>2. ASSUME NEW k, NEW p \in old(k)
          PROVE  p <= m /\ p \in Nat
      BY DEF NamingUpTo
    <2> HIDE DEF old, new, key
    <2> QED
      BY <2>1, <2>2
  <1>3. /\ Len(out) \in Nat /\ DOMAIN out = 1..Len(out)
        /\ \A i \in DOMAIN out : out[i] \in [key : Keys, value : V]
    <2> HIDE DEF key, next, old, new
    <2>1. Len(out) \in Nat /\ DOMAIN out = 1..Len(out)
      OBVIOUS
    <2> QED
      BY <2>1, ElementOfSeq
  <1>4. /\ \A k \in Keys : old(k) # {} <=> \E i \in DOMAIN out : out[i].key = k
        /\ \A i, j \in DOMAIN out : i < j =>
             \E p \in old(out[i].key) : \A q \in old(out[j].key) : p < q
        /\ \A i \in DOMAIN out :
             \E p \in old(out[i].key) :
               /\ \A q \in old(out[i].key) : q <= p
               /\ out[i].value = told[p]
    BY DEF LeftUpTo
  <1>5. CASE \E i \in DOMAIN out : out[i].key = key
    <2>1. next = [i \in DOMAIN out |->
                    IF out[i].key = key THEN [key |-> key, value |-> told[m + 1]] ELSE out[i]]
      BY <1>5 DEF W!Inserted
    <2>2. /\ DOMAIN next = DOMAIN out
          /\ \A i \in DOMAIN out : /\ next[i].key = out[i].key
                                   /\ out[i].key = key => next[i].value = told[m + 1]
                                   /\ out[i].key # key => next[i].value = out[i].value
          /\ next \in Seq([key : Keys, value : V])
      <3>1. next \in [1..Len(out) -> [key : Keys, value : V]]
        BY <1>1, <1>3, <2>1
      <3>2. next \in Seq([key : Keys, value : V])
        <4> HIDE DEF next
        <4> QED
          BY <1>3, <3>1, IsASeq
      <3> QED
        BY <1>3, <2>1, <3>2
    <2> HIDE DEF old, new, key, next
    <2>3. ASSUME NEW k \in Keys
          PROVE  new(k) # {} <=> \E i \in DOMAIN next : next[i].key = k
      <3>1. (\E i \in DOMAIN next : next[i].key = k) <=> \E i \in DOMAIN out : out[i].key = k
        BY <2>2
      <3>2. CASE k = key
        <4>1. new(k) # {}
          BY <1>2, <3>2
        <4> QED
          BY <1>5, <3>1, <3>2, <4>1
      <3>3. CASE k # key
        <4>1. new(k) = old(k)
          BY <1>2, <3>3
        <4> QED
          BY <1>4, <3>1, <4>1
      <3> QED
        BY <3>2, <3>3
    <2>4. ASSUME NEW i \in DOMAIN next, NEW j \in DOMAIN next, i < j
          PROVE  \E p \in new(next[i].key) : \A q \in new(next[j].key) : p < q
      <3>1. PICK p \in old(out[i].key) : \A q \in old(out[j].key) : p < q
        BY <1>4, <2>2, <2>4
      <3>2. p < m + 1 /\ p \in new(out[i].key)
        BY <1>2, <3>1
      <3>3. \A q \in new(out[j].key) : p < q
        BY <1>2, <3>1, <3>2
      <3> QED
        BY <2>2, <3>2, <3>3
    <2>5. ASSUME NEW i \in DOMAIN next
          PROVE  \E p \in new(next[i].key) : /\ \A q \in new(next[i].key) : q <= p
                                             /\ next[i].value = told[p]
      <3>1. CASE out[i].key = key
        <4>1. m + 1 \in new(key) /\ \A q \in new(key) : q <= m + 1
          BY <1>2
        <4> QED
          BY <2>2, <2>5, <3>1, <4>1
      <3>2. CASE out[i].key # key
        <4>1. new(out[i].key) = old(out[i].key)
          BY <1>2, <3>2
        <4>2. next[i].key = out[i].key /\ next[i].value = out[i].value /\ i \in DOMAIN out
          BY <2>2, <2>5, <3>2
        <4>3. \E p \in old(out[i].key) : /\ \A q \in old(out[i].key) : q <= p
                                         /\ out[i].value = told[p]
          BY <1>4, <4>2
        <4> QED
          BY <4>1, <4>2, <4>3
      <3> QED
        BY <3>1, <3>2
    <2> QED
      BY <2>2, <2>3, <2>4, <2>5 DEF LeftUpTo, new
  <1>6. CASE ~\E i \in DOMAIN out : out[i].key = key
    <2>1. next = Append(out, [key |-> key, value |-> told[m + 1]])
      BY <1>6 DEF W!Inserted
    <2>2. /\ DOMAIN next = 1..Len(out) + 1
          /\ \A i \in 1..Len(out) : next[i] = out[i]
          /\ next[Len(out) + 1] = [key |-> key, value |-> told[m + 1]]
          /\ next \in Seq([key : Keys, value : V])
      BY <1>1, <1>3, <2>1
    <2>3. /\ next[Len(out) + 1].key = key /\ next[Len(out) + 1].value = told[m + 1]
          /\ \A i \in DOMAIN next : i \in DOMAIN out \/ i = Len(out) + 1
          /\ \A i \in DOMAIN out : i \in DOMAIN next /\ i < Len(out) + 1 /\ out[i].key # key
          /\ Len(out) + 1 \in DOMAIN next
      BY <1>3, <1>6, <2>2
    <2>4. old(key) = {} /\ new(key) = {m + 1}
      BY <1>1, <1>2, <1>4, <1>6
    <2> HIDE DEF old, new, key, next
    <2>5. ASSUME NEW k \in Keys
          PROVE  new(k) # {} <=> \E i \in DOMAIN next : next[i].key = k
      <3>1. CASE k = key
        <4>1. new(k) # {}
          BY <2>4, <3>1
        <4> QED
          BY <2>3, <3>1, <4>1
      <3>2. CASE k # key
        <4>1. new(k) = old(k)
          BY <1>2, <3>2
        <4>2. (\E i \in DOMAIN next : next[i].key = k) <=> \E i \in DOMAIN out : out[i].key = k
          BY <1>3, <2>2, <2>3, <3>2
        <4> QED
          BY <1>4, <4>1, <4>2
      <3> QED
        BY <3>1, <3>2
    <2>6. ASSUME NEW i \in DOMAIN next, NEW j \in DOMAIN next, i < j
          PROVE  \E p \in new(next[i].key) : \A q \in new(next[j].key) : p < q
      <3>1. i \in DOMAIN out /\ next[i] = out[i] /\ out[i].key # key
        BY <1>3, <2>2, <2>3, <2>6
      <3>2. CASE j \in DOMAIN out
        <4>1. next[j] = out[j] /\ out[j].key # key
          BY <1>3, <2>2, <2>3, <3>2
        <4>2. new(out[i].key) = old(out[i].key) /\ new(out[j].key) = old(out[j].key)
          BY <1>2, <3>1, <4>1
        <4>3. \E p \in old(out[i].key) : \A q \in old(out[j].key) : p < q
          BY <1>4, <2>6, <3>1, <3>2
        <4> QED
          BY <3>1, <4>1, <4>2, <4>3
      <3>3. CASE j = Len(out) + 1
        <4>1. PICK p \in old(out[i].key) : TRUE
          BY <1>4, <3>1
        <4>2. p < m + 1 /\ p \in new(out[i].key)
          BY <1>2, <4>1
        <4> QED
          BY <2>3, <2>4, <3>1, <3>3, <4>2
      <3> QED
        BY <2>3, <3>2, <3>3
    <2>7. ASSUME NEW i \in DOMAIN next
          PROVE  \E p \in new(next[i].key) : /\ \A q \in new(next[i].key) : q <= p
                                             /\ next[i].value = told[p]
      <3>1. CASE i \in DOMAIN out
        <4>1. next[i] = out[i] /\ out[i].key # key
          BY <1>3, <2>2, <2>3, <3>1
        <4>2. new(out[i].key) = old(out[i].key)
          BY <1>2, <4>1
        <4>3. \E p \in old(out[i].key) : /\ \A q \in old(out[i].key) : q <= p
                                         /\ out[i].value = told[p]
          BY <1>4, <3>1
        <4> QED
          BY <4>1, <4>2, <4>3
      <3>2. CASE i = Len(out) + 1
        <4>1. next[i].key = key /\ next[i].value = told[m + 1] /\ new(next[i].key) = {m + 1}
          BY <2>3, <2>4, <3>2
        <4>2. m + 1 \in new(next[i].key) /\ \A q \in new(next[i].key) : q <= m + 1
          BY <4>1
        <4> QED
          BY <4>1, <4>2
      <3> QED
        BY <2>3, <3>1, <3>2
    <2> QED
      BY <2>2, <2>5, <2>6, <2>7 DEF LeftUpTo, new
  <1> QED
    BY <1>5, <1>6

(* The first m entries of a list leave what they name, where the first of  *)
(* them stands, with what the last of them asks for.                       *)
LEMMA ListLeaves ==
  ASSUME NEW list \in W!Lists, NEW data \in J!Json
  PROVE  W!IsLeftBy(W!LeftBy[list][data], list, data)
  <1> DEFINE N == {i \in 1..Len(list) : W!Names(list[i], data)}
             field == [i \in N |-> list[i].field]
             told == [i \in N |-> W!Asked(W!LeftBy, list[i], data)]
             V == {told[i] : i \in N}
             F == W!WrittenUpTo(W!LeftBy, list, data)
             G == {m \in Nat : m <= Len(list) =>
                     F[m] \in Seq([key : Keys, value : V]) /\ LeftUpTo(F[m], field, told, m)}
  <1>1. Len(list) \in Nat /\ DOMAIN list = 1..Len(list)
    <2>1. \E S : list \in Seq(S)
      BY ListsAre, SamplesAssumption DEF W!Lists
    <2> QED
      BY <2>1
  <1>2. N \in SUBSET Nat /\ field \in [N -> Keys] /\ told \in [N -> V]
    <2>1. N \subseteq Nat
      BY <1>1
    <2>2. ASSUME NEW i \in N
          PROVE  list[i].field \in Keys
      <3>1. Nesting \in 0..Nesting
        BY SamplesAssumption
      <3> QED
        BY <3>1, EntryIs DEF W!Lists, W!Names
    <2>3. told \in [N -> V]
      OBVIOUS
    <2> HIDE DEF N, told
    <2> QED
      BY <2>1, <2>2, <2>3
  <1>3. ASSUME NEW m \in 1..Len(list)
        PROVE  F[m] = IF m \in N THEN W!Inserted(F[m - 1], field[m], told[m]) ELSE F[m - 1]
    <2>1. F[m] = W!Written(W!LeftBy, F[m - 1], list[m], data)
      BY <1>1, LoopIs
    <2>2. CASE m \in N
      <3>1. field[m] = list[m].field /\ told[m] = W!Asked(W!LeftBy, list[m], data)
        BY <2>2
      <3>2. W!Names(list[m], data)
        BY <2>2
      <3> HIDE DEF F, field, told, N
      <3> QED
        BY <2>1, <2>2, <3>1, <3>2 DEF W!Written
    <2>3. CASE m \notin N
      <3>1. ~W!Names(list[m], data)
        BY <2>3
      <3> HIDE DEF F, field, told, N
      <3> QED
        BY <2>1, <2>3, <3>1 DEF W!Written
    <2> QED
      BY <2>2, <2>3
  <1>4. 0 \in G
    <2>1. F[0] = <<>>
      BY <1>1, LoopIs
    <2>2. \A k : NamingUpTo(field, 0, k) = {}
      BY <1>1 DEF NamingUpTo
    <2> HIDE DEF F, field, told, N, V
    <2>3. LeftUpTo(<<>>, field, told, 0)
      BY <2>2 DEF LeftUpTo
    <2>4. <<>> \in Seq([key : Keys, value : V])
      OBVIOUS
    <2> QED
      BY <2>1, <2>3, <2>4
  <1>5. ASSUME NEW m \in Nat, m \in G
        PROVE  m + 1 \in G
    <2> SUFFICES ASSUME m + 1 <= Len(list)
                 PROVE  F[m + 1] \in Seq([key : Keys, value : V])
                        /\ LeftUpTo(F[m + 1], field, told, m + 1)
      OBVIOUS
    <2>1. F[m] \in Seq([key : Keys, value : V]) /\ LeftUpTo(F[m], field, told, m)
      BY <1>1, <1>5
    <2>2. m + 1 \in 1..Len(list) /\ (m + 1) - 1 = m
      BY <1>1
    <2> HIDE DEF F, field, told, N, V
    <2>3. F[m + 1] = IF m + 1 \in N THEN W!Inserted(F[m], field[m + 1], told[m + 1]) ELSE F[m]
      BY <1>3, <2>2
    <2>4. CASE m + 1 \in N
      <3> DEFINE next == W!Inserted(F[m], field[m + 1], told[m + 1])
      <3>1. next \in Seq([key : Keys, value : V]) /\ LeftUpTo(next, field, told, m + 1)
        BY <1>2, <2>1, <2>4, InsertedStep
      <3>2. F[m + 1] = next
        BY <2>3, <2>4
      <3> HIDE DEF next
      <3> QED
        BY <3>1, <3>2
    <2>5. CASE m + 1 \notin N
      <3> DEFINE old(k) == NamingUpTo(field, m, k)
                 new(k) == NamingUpTo(field, m + 1, k)
      <3>1. \A k : new(k) = old(k)
        <4> SUFFICES ASSUME NEW k
                     PROVE  new(k) = old(k)
          OBVIOUS
        <4>1. new(k) = old(k) \cup (IF m + 1 \in N /\ field[m + 1] = k THEN {m + 1} ELSE {})
          BY <1>2, NamingStep
        <4> HIDE DEF old, new
        <4> QED
          BY <2>5, <4>1
      <3>2. LeftUpTo(F[m], field, told, m + 1)
        <4>1. /\ \A k \in Keys : old(k) # {} <=> \E i \in DOMAIN F[m] : F[m][i].key = k
              /\ \A i, j \in DOMAIN F[m] : i < j =>
                   \E p \in old(F[m][i].key) : \A q \in old(F[m][j].key) : p < q
              /\ \A i \in DOMAIN F[m] :
                   \E p \in old(F[m][i].key) :
                     /\ \A q \in old(F[m][i].key) : q <= p
                     /\ F[m][i].value = told[p]
          BY <2>1 DEF LeftUpTo
        <4> HIDE DEF old
        <4>2. /\ \A k \in Keys : new(k) # {} <=> \E i \in DOMAIN F[m] : F[m][i].key = k
              /\ \A i, j \in DOMAIN F[m] : i < j =>
                   \E p \in new(F[m][i].key) : \A q \in new(F[m][j].key) : p < q
              /\ \A i \in DOMAIN F[m] :
                   \E p \in new(F[m][i].key) :
                     /\ \A q \in new(F[m][i].key) : q <= p
                     /\ F[m][i].value = told[p]
          <5> HIDE DEF new
          <5>1. \A k \in Keys : new(k) # {} <=> \E i \in DOMAIN F[m] : F[m][i].key = k
            BY <3>1, <4>1
          <5>2. ASSUME NEW i \in DOMAIN F[m], NEW j \in DOMAIN F[m], i < j
                PROVE  \E p \in new(F[m][i].key) : \A q \in new(F[m][j].key) : p < q
            <6>1. new(F[m][i].key) = old(F[m][i].key) /\ new(F[m][j].key) = old(F[m][j].key)
              BY <3>1
            <6>2. \E p \in old(F[m][i].key) : \A q \in old(F[m][j].key) : p < q
              BY <4>1, <5>2
            <6> QED
              BY <6>1, <6>2
          <5>3. ASSUME NEW i \in DOMAIN F[m]
                PROVE  \E p \in new(F[m][i].key) : /\ \A q \in new(F[m][i].key) : q <= p
                                                   /\ F[m][i].value = told[p]
            <6>1. new(F[m][i].key) = old(F[m][i].key)
              BY <3>1
            <6> QED
              BY <4>1, <6>1
          <5> QED
            BY <5>1, <5>2, <5>3
        <4> QED
          BY <4>2 DEF LeftUpTo
      <3>3. F[m + 1] = F[m]
        BY <2>3, <2>5
      <3> QED
        BY <2>1, <3>2, <3>3
    <2> QED
      BY <2>4, <2>5
  <1>6. F[Len(list)] \in Seq([key : Keys, value : V]) /\ LeftUpTo(F[Len(list)], field, told, Len(list))
    <2>1. Nat \subseteq G
      <3> HIDE DEF G
      <3> QED
        BY <1>4, <1>5, Counting
    <2>2. Len(list) \in G
      BY <1>1, <2>1
    <2> QED
      BY <2>2
  <1>7. W!LeftBy[list][data] = F[Len(list)]
    BY LeftIs DEF W!LeftBody
  <1> DEFINE out == F[Len(list)]
             named(k) == {i \in DOMAIN list : W!Names(list[i], data) /\ list[i].field = k}
  <1>8. \A k : NamingUpTo(field, Len(list), k) = named(k)
    <2>1. \A i \in N : i <= Len(list) /\ field[i] = list[i].field
      BY <1>1
    <2>2. ASSUME NEW k, NEW i
          PROVE  i \in NamingUpTo(field, Len(list), k) <=> i \in named(k)
      BY <1>1, <2>1 DEF NamingUpTo
    <2>3. \A k, i : i \in NamingUpTo(field, Len(list), k) => i \in DOMAIN field
      BY DEF NamingUpTo
    <2>4. \A k : NamingUpTo(field, Len(list), k) = named(k)
      <3> SUFFICES ASSUME NEW k
                   PROVE  NamingUpTo(field, Len(list), k) = named(k)
        OBVIOUS
      <3>1. \A i : i \in NamingUpTo(field, Len(list), k) <=> i \in named(k)
        BY <2>2
      <3> HIDE DEF named, field, N, NamingUpTo
      <3> QED
        BY <3>1
    <2> QED
      BY <2>4
  <1>9. \A k : \A p \in named(k) : told[p] = W!Asked(W!LeftBy, list[p], data)
    BY <1>1
  <1>10. /\ \A k \in Keys : named(k) # {} <=> \E i \in DOMAIN out : out[i].key = k
         /\ \A i, j \in DOMAIN out : i < j =>
              \E p \in named(out[i].key) : \A q \in named(out[j].key) : p < q
         /\ \A i \in DOMAIN out :
              \E p \in named(out[i].key) :
                /\ \A q \in named(out[i].key) : q <= p
                /\ out[i].value = W!Asked(W!LeftBy, list[p], data)
    <2>1. LeftUpTo(out, field, told, Len(list))
      BY <1>6
    <2> HIDE DEF out, field, told
    <2> DEFINE upTo(k) == NamingUpTo(field, Len(list), k)
    <2>2. /\ \A k \in Keys : upTo(k) # {} <=> \E i \in DOMAIN out : out[i].key = k
          /\ \A i, j \in DOMAIN out : i < j =>
               \E p \in upTo(out[i].key) : \A q \in upTo(out[j].key) : p < q
          /\ \A i \in DOMAIN out :
               \E p \in upTo(out[i].key) :
                 /\ \A q \in upTo(out[i].key) : q <= p
                 /\ out[i].value = told[p]
      BY <2>1 DEF LeftUpTo
    <2>3. \A k : upTo(k) = named(k)
      BY <1>8
    <2> HIDE DEF upTo, named
    <2>4. \A k \in Keys : named(k) # {} <=> \E i \in DOMAIN out : out[i].key = k
      BY <2>2, <2>3
    <2>5. ASSUME NEW i \in DOMAIN out, NEW j \in DOMAIN out, i < j
          PROVE  \E p \in named(out[i].key) : \A q \in named(out[j].key) : p < q
      <3>1. upTo(out[i].key) = named(out[i].key) /\ upTo(out[j].key) = named(out[j].key)
        BY <2>3
      <3> QED
        BY <2>2, <2>5, <3>1
    <2>6. ASSUME NEW i \in DOMAIN out
          PROVE  \E p \in named(out[i].key) :
                   /\ \A q \in named(out[i].key) : q <= p
                   /\ out[i].value = W!Asked(W!LeftBy, list[p], data)
      <3>1. upTo(out[i].key) = named(out[i].key)
        BY <2>3
      <3>2. PICK p \in named(out[i].key) : /\ \A q \in named(out[i].key) : q <= p
                                           /\ out[i].value = told[p]
        BY <2>2, <3>1
      <3>3. told[p] = W!Asked(W!LeftBy, list[p], data)
        BY <1>9
      <3> QED
        BY <3>2, <3>3
    <2> QED
      BY <2>4, <2>5, <2>6
  <1> QED
    <2> HIDE DEF out
    <2> QED
      BY <1>7, <1>10 DEF W!IsLeftBy, out

(* Whatever is filtered by whatever list, the page gets the keys some      *)
(* entry names, each once, or the whole packet without a filter.           *)
THEOREM FiltersGiveTheList ==
  \A list \in W!Lists, data \in J!Json : W!FilterGivesTheList(list, data)
  <1> SUFFICES ASSUME NEW list \in W!Lists, NEW data \in J!Json
               PROVE  W!FilterGivesTheList(list, data)
    OBVIOUS
  <1>1. W!IsLeftBy(W!LeftBy[list][data], list, data)
    BY ListLeaves
  <1> QED
    BY <1>1 DEF W!FilterGivesTheList, W!Filtered

(* What the functions are asked about is what they may be asked about.     *)
AskedOf ==
  /\ part = "delta" => asked \subseteq Samples
  /\ part = "filter" => asked \subseteq SampleLists

(* Every frame gives the page what it asked for of the packet: the deltas  *)
(* all of it, the filters the keys their list names.                       *)
THEOREM FramesAreGiven == AllSpec => []FramesGiveThePacket
  <1>1. AllInit => AskedOf
    BY DEF AllInit, AskedOf
  <1>2. AskedOf /\ [AllNext]_allVars => AskedOf'
    <2> SUFFICES ASSUME AskedOf, [AllNext]_allVars
                 PROVE  AskedOf'
      OBVIOUS
    <2>1. CASE UNCHANGED allVars
      BY <2>1 DEF AskedOf, allVars
    <2>2. CASE AllNext
      <3>1. part' = part
        BY <2>2 DEF AllNext
      <3>2. CASE part = "feed" /\ UNCHANGED asked
        BY <3>1, <3>2 DEF AskedOf
      <3>3. CASE part = "delta" /\ Ask(Samples)
        BY <3>1, <3>3 DEF AskedOf, Ask
      <3>4. CASE part = "filter" /\ Ask(SampleLists)
        BY <3>1, <3>4 DEF AskedOf, Ask
      <3> QED
        BY <2>2, <3>2, <3>3, <3>4 DEF AllNext
    <2> QED
      BY <2>1, <2>2
  <1>3. AskedOf => FramesGiveThePacket
    BY SamplesAssumption, DeltasMerge, FiltersGiveTheList DEF AskedOf, FramesGiveThePacket
  <1> QED
    BY <1>1, <1>2, <1>3, PTL DEF AllSpec

(* One behaviour of the run is one of Broadcast: what is proved of Spec    *)
(* holds of what the run checks.                                           *)
THEOREM RunIsBroadcast == AllSpec => Spec
  <1>1. AllInit => Init
    BY DEF AllInit
  <1>2. [AllNext]_allVars => [Next]_vars
    BY DEF AllNext, allVars, Ask
  <1> QED
    BY <1>1, <1>2, PTL DEF AllSpec, Spec

-----------------------------------------------------------------------------
(* The members of an object, and of a patch between two.                   *)
LEMMA PacketMember ==
  ASSUME NEW v \in J!Json, J!IsObject(v), NEW k \in Keys, J!IsObject(v[k])
  PROVE  v[k] \in J!Json /\ v[k] # None
  <1>1. Depth \in 0..Depth
    BY PacketsAssumption DEF J!JsonAssumption
  <1>2. v[k] # None
    BY DEF J!IsObject
  <1> QED
    BY <1>1, <1>2, ObjectIs DEF J!Json

LEMMA PatchMember ==
  ASSUME NEW p \in J!Json, NEW q \in J!Json, J!IsObject(p), J!IsObject(q),
         J!DeltaOf[p][q] # None, NEW k \in Keys, p[k] # None, q[k] # None
  PROVE  J!DeltaOf[p][q][k] = J!DeltaOf[p[k]][q[k]]
  <1> DEFINE delta == [i \in Keys |->
               IF q[i] = None THEN IF p[i] = None THEN None ELSE Null
               ELSE IF p[i] = None THEN q[i]
               ELSE J!DeltaOf[p[i]][q[i]]]
  <1>1. J!DeltaOf[p][q] = J!DeltaBody(J!DeltaOf, p, q)
    BY DeltaIs
  <1>2. J!DeltaBody(J!DeltaOf, p, q) \in {None, delta}
    BY DEF J!DeltaBody
  <1>3. J!DeltaOf[p][q] = delta
    BY <1>1, <1>2
  <1> QED
    BY <1>3

-----------------------------------------------------------------------------
(* What a patch between two packets is to their consumer: it leads to the  *)
(* second packet, and, as the key that is null in both of them is not in   *)
(* it, it is no packet itself.                                             *)
LEMMA PacketPatches ==
  ASSUME NEW p \in Packets, NEW q \in Packets
  PROVE  /\ Delta(p, q) = None <=> p = q
         /\ p # q => Merge(p, Delta(p, q)) = q /\ Delta(p, q) \notin Packets
  <1>1. p \in J!Json /\ q \in J!Json /\ J!NullsStay[p][q]
    BY PacketsAssumption
  <1>2. J!MergeGivesCurr(p, q)
    BY <1>1, DeltasMerge
  <1>3. ASSUME p # q, Delta(p, q) \in Packets
        PROVE  FALSE
    <2>1. PICK profile \in Keys, matchmaking \in Keys : \A r \in Packets :
            J!IsObject(r) /\ J!IsObject(r[profile]) /\ r[profile][matchmaking] = Null
      BY PacketsAssumption
    <2>2. /\ J!IsObject(p) /\ J!IsObject(p[profile]) /\ p[profile][matchmaking] = Null
          /\ J!IsObject(q) /\ J!IsObject(q[profile]) /\ q[profile][matchmaking] = Null
      BY <2>1
    <2>3. J!IsObject(Delta(p, q)[profile]) /\ Delta(p, q)[profile][matchmaking] = Null
      BY <1>3, <2>1
    <2>4. /\ p[profile] \in J!Json /\ q[profile] \in J!Json
          /\ p[profile] # None /\ q[profile] # None
      BY <1>1, <2>2, PacketMember
    <2>5. Delta(p, q)[profile] = J!DeltaOf[p[profile]][q[profile]]
      BY <1>1, <1>3, <2>2, <2>4, PatchMember, NoneIsNoFrame DEF Delta
    <2>6. J!DeltaOf[p[profile]][q[profile]] # None
      BY <2>3, <2>5 DEF J!IsObject
    <2>7. J!DeltaOf[p[profile]][q[profile]][matchmaking] = J!DeltaOf[Null][Null]
      BY <2>2, <2>4, <2>6, PatchMember, ValuesAre
    <2>8. Null \in J!Json /\ J!DeltaOf[Null][Null] = None
      <3>1. Null \in J!Json
        BY ValuesAre DEF J!Leaves
      <3> QED
        BY <3>1, DeltasMerge DEF J!MergeGivesCurr
    <2> QED
      BY <2>3, <2>5, <2>7, <2>8, ValuesAre
  <1> QED
    BY <1>1, <1>2, <1>3 DEF J!MergeGivesCurr, Delta, Merge

-----------------------------------------------------------------------------
(* The frames.                                                             *)

LEMMA WholeFrameType ==
  ASSUME value \in Published
  PROVE  WholeFrame = None \/ (WholeFrame = Whole(value.packet) /\ Whole(value.packet) \in Frames)
  BY DEF WholeFrame, Whole, Frames, Published

LEMMA DeltaFrameType ==
  ASSUME value \in Published, NEW c \in Clients, prev[c] \in Packets \cup {None}
  PROVE  DeltaFrame(c) \in Frames \cup {None}
  <1>1. CASE DeltaFrame(c) = Whole(value.packet)
    BY <1>1 DEF Whole, Frames, Published
  <1>2. CASE DeltaFrame(c) = None
    BY <1>2
  <1>3. CASE /\ prev[c] # None
             /\ Delta(prev[c], value.packet) # None
             /\ DeltaFrame(c) = Patch(prev[c], value.packet)
    <2>1. Delta(prev[c], value.packet) \in Patches
      BY <1>3 DEF Patches, Published
    <2> QED
      BY <1>3, <2>1 DEF Patch, Frames, Published
  <1> QED
    BY <1>1, <1>2, <1>3 DEF DeltaFrame

(* The one step that shows something shows the frame's packet.             *)
LEMMA SentShows ==
  ASSUME SocketInv, NEW c \in Clients, Sent(c)
  PROVE  /\ frame[c] \in Frames
         /\ frame[c].packet \in Packets
         /\ view' = [view EXCEPT ![c] = frame[c].packet]
  BY DEF Sent, SocketInv, TypeOK, FrameShows, Frames

-----------------------------------------------------------------------------
(* The types.                                                              *)

LEMMA TypeInit == Init => TypeOK
  BY BroadcastAssumption
  DEF BroadcastAssumption, Init, TypeOK, Sources, Seed, Published, Nothing

LEMMA TypeStep ==
  ASSUME SocketInv, [Next]_vars
  PROVE  TypeOK'
  <1> USE DEF TypeOK
  <1>0. TypeOK
    BY DEF SocketInv
  <1>1. CASE GameMoves
    BY <1>0, <1>1 DEF GameMoves, channel, sockets
  <1>2. CASE Restart
    BY <1>0, <1>2, BroadcastAssumption
    DEF Restart, BroadcastAssumption, Seed, Published, Nothing
  <1>3. CASE Poll
    <2>1. Polled \in Published /\ source.packet \in Packets
      BY <1>0 DEF Polled, Published, Sources
    <2> QED
      BY <1>0, <1>3, <2>1 DEF Poll, reader, channel
  <1>4. ASSUME NEW c \in Clients, Connect(c)
        PROVE  TypeOK'
    <2>1. WholeFrame \in Frames \cup {None}
      BY <1>0, WholeFrameType
    <2> QED
      BY <1>0, <1>4, <2>1 DEF Connect, reader, channel
  <1>5. ASSUME NEW c \in Clients, Changed(c)
        PROVE  TypeOK'
    <2>1. WholeFrame \in Frames \cup {None}
      BY <1>0, WholeFrameType
    <2> QED
      BY <1>0, <1>5, <2>1 DEF Changed, reader, channel
  <1>6. ASSUME NEW c \in Clients, DeltaChanged(c)
        PROVE  TypeOK'
    <2>1. DeltaFrame(c) \in Frames \cup {None}
      BY <1>0, DeltaFrameType
    <2>2. /\ frame' \in [Clients -> Frames \cup {None}]
          /\ prev' \in [Clients -> Packets \cup {None}]
      BY <1>0, <1>6, <2>1 DEF DeltaChanged
    <2> QED
      BY <1>0, <1>6, <2>2 DEF DeltaChanged, reader, channel
  <1>7. ASSUME NEW c \in Clients, Sent(c)
        PROVE  TypeOK'
    <2>1. frame[c].packet \in Packets /\ view' = [view EXCEPT ![c] = frame[c].packet]
      BY <1>7, SentShows
    <2>2. /\ view' \in [Clients -> Packets \cup {None}]
          /\ frame' \in [Clients -> Frames \cup {None}]
          /\ prev' \in [Clients -> Packets \cup {None}]
      BY <1>0, <1>7, <2>1 DEF Sent
    <2> QED
      BY <1>0, <1>7, <2>2 DEF Sent, reader, channel
  <1>8. ASSUME NEW c \in Clients, Disconnect(c)
        PROVE  TypeOK'
    BY <1>0, <1>8 DEF Disconnect, reader, channel
  <1>9. CASE UNCHANGED vars
    BY <1>0, <1>9 DEF vars, reader, channel, sockets
  <1> QED
    BY <1>1, <1>2, <1>3, <1>4, <1>5, <1>6, <1>7, <1>8, <1>9 DEF Next

-----------------------------------------------------------------------------
(* The sockets.                                                            *)

LEMMA SocketInit == Init => SocketInv
  BY TypeInit DEF Init, SocketInv, FramesAreOpen, PatchesMatch, FrameShows, Nothing

(* A whole packet shows itself, whatever the consumer holds.               *)
LEMMA WholeShows ==
  ASSUME TypeOK, NEW c \in Clients, NEW p \in Packets, frame'[c] = Whole(p)
  PROVE  Shown(c)' = frame'[c].packet
  BY DEF Shown, Whole

(* A patch shows the packet it leads to, if it was made against what the   *)
(* consumer holds.                                                         *)
LEMMA PatchShows ==
  ASSUME TypeOK, NEW c \in DeltaClients, NEW p \in Packets,
         view[c] \in Packets, Delta(view[c], p) # None,
         frame'[c] = Patch(view[c], p), view'[c] = view[c]
  PROVE  Shown(c)' = frame'[c].packet
  <1>1. /\ Merge(view[c], Delta(view[c], p)) = p
        /\ Delta(view[c], p) \notin Packets
    BY PacketPatches
  <1>2. frame'[c].body = Delta(view[c], p) /\ frame'[c].packet = p
    BY DEF Patch
  <1>3. Shown(c)' = IF frame'[c].body \in Packets THEN frame'[c].body
                    ELSE Merge(view'[c], frame'[c].body)
    BY DEF Shown
  <1> QED
    BY <1>1, <1>2, <1>3

LEMMA SocketStep ==
  ASSUME SocketInv, [Next]_vars
  PROVE  SocketInv'
  <1>0. TypeOK /\ FramesAreOpen /\ PatchesMatch /\ FrameShows
    BY DEF SocketInv
  <1>t. TypeOK'
    BY TypeStep
  <1> SUFFICES FramesAreOpen' /\ PatchesMatch' /\ FrameShows'
    BY <1>t DEF SocketInv
  <1>1. CASE UNCHANGED <<conn, frame, prev, view>>
    BY <1>0, <1>1 DEF FramesAreOpen, PatchesMatch, FrameShows, Shown
  <1>2. CASE Restart
    BY <1>2 DEF Restart, FramesAreOpen, PatchesMatch, FrameShows, Nothing
  <1>3. ASSUME NEW c \in Clients, Connect(c)
        PROVE  FramesAreOpen' /\ PatchesMatch' /\ FrameShows'
    <2>1. /\ UNCHANGED <<prev, view>>
          /\ conn' = conn \cup {c}
          /\ frame' = [frame EXCEPT ![c] = WholeFrame]
      BY <1>3 DEF Connect
    <2>2. value.packet \in Packets /\ value \in Published
      BY <1>0 DEF TypeOK, Published
    <2>3. FramesAreOpen'
      BY <1>0, <2>1 DEF FramesAreOpen, TypeOK
    <2>4. PatchesMatch'
      BY <1>0, <2>1 DEF PatchesMatch
    <2>5. ASSUME NEW d \in Clients, frame'[d] # None
          PROVE  Shown(d)' = frame'[d].packet
      <3>1. CASE d = c
        <4>1. frame'[c] = Whole(value.packet)
          BY <1>0, <2>1, <2>2, <2>5, <3>1, WholeFrameType DEF TypeOK
        <4> QED
          BY <1>0, <2>1, <2>2, <3>1, <4>1, WholeShows
      <3>2. CASE d # c
        BY <1>0, <2>1, <2>5, <3>2 DEF FrameShows, Shown, TypeOK
      <3> QED
        BY <3>1, <3>2
    <2> QED
      BY <2>3, <2>4, <2>5 DEF FrameShows
  <1>4. ASSUME NEW c \in Clients, Changed(c)
        PROVE  FramesAreOpen' /\ PatchesMatch' /\ FrameShows'
    <2>1. /\ UNCHANGED <<conn, prev, view>>
          /\ c \in conn
          /\ frame' = [frame EXCEPT ![c] = WholeFrame]
      BY <1>4 DEF Changed, Ready
    <2>2. value.packet \in Packets /\ value \in Published
      BY <1>0 DEF TypeOK, Published
    <2>3. FramesAreOpen'
      BY <1>0, <2>1 DEF FramesAreOpen, TypeOK
    <2>4. PatchesMatch'
      BY <1>0, <2>1 DEF PatchesMatch
    <2>5. ASSUME NEW d \in Clients, frame'[d] # None
          PROVE  Shown(d)' = frame'[d].packet
      <3>1. CASE d = c
        <4>1. frame'[c] = Whole(value.packet)
          BY <1>0, <2>1, <2>2, <2>5, <3>1, WholeFrameType DEF TypeOK
        <4> QED
          BY <1>0, <2>1, <2>2, <3>1, <4>1, WholeShows
      <3>2. CASE d # c
        BY <1>0, <2>1, <2>5, <3>2 DEF FrameShows, Shown, TypeOK
      <3> QED
        BY <3>1, <3>2
    <2> QED
      BY <2>3, <2>4, <2>5 DEF FrameShows
  <1>5. ASSUME NEW c \in Clients, DeltaChanged(c), value.attached
        PROVE  FramesAreOpen' /\ PatchesMatch' /\ FrameShows'
    <2>1. /\ UNCHANGED <<conn, prev, view>>
          /\ c \in conn
          /\ c \in DeltaClients
          /\ frame' = [frame EXCEPT ![c] = DeltaFrame(c)]
      BY <1>5 DEF DeltaChanged, Ready
    <2>2. value.packet \in Packets
      BY <1>0 DEF TypeOK, Published
    <2>3. FramesAreOpen'
      BY <1>0, <2>1 DEF FramesAreOpen, TypeOK
    <2>4. PatchesMatch'
      BY <1>0, <2>1 DEF PatchesMatch
    <2>5. ASSUME NEW d \in Clients, frame'[d] # None
          PROVE  Shown(d)' = frame'[d].packet
      <3>1. CASE d # c
        BY <1>0, <2>1, <2>5, <3>1 DEF FrameShows, Shown, TypeOK
      <3>2. CASE d = c /\ prev[c] = None
        <4>1. frame'[c] = Whole(value.packet)
          BY <1>0, <2>1, <3>2 DEF DeltaFrame, TypeOK
        <4> QED
          BY <1>0, <2>1, <2>2, <3>2, <4>1, WholeShows
      <3>3. CASE d = c /\ prev[c] # None
        <4>1. view[c] = prev[c] /\ view[c] \in Packets
          BY <1>0, <2>1, <3>3 DEF PatchesMatch, TypeOK
        <4>2. frame'[c] = DeltaFrame(c)
          BY <1>0, <2>1 DEF TypeOK
        <4>3. /\ Delta(view[c], value.packet) # None
              /\ frame'[c] = Patch(view[c], value.packet)
          BY <2>5, <3>3, <4>1, <4>2 DEF DeltaFrame
        <4> QED
          BY <1>0, <2>1, <2>2, <3>3, <4>1, <4>3, PatchShows
      <3> QED
        BY <3>1, <3>2, <3>3
    <2> QED
      BY <2>3, <2>4, <2>5 DEF FrameShows
  <1>6. ASSUME NEW c \in Clients, DeltaChanged(c), ~value.attached
        PROVE  FramesAreOpen' /\ PatchesMatch' /\ FrameShows'
    <2>1. UNCHANGED <<conn, frame, view>> /\ prev' = [prev EXCEPT ![c] = None]
      BY <1>6 DEF DeltaChanged
    <2> QED
      BY <1>0, <2>1 DEF FramesAreOpen, PatchesMatch, FrameShows, Shown, TypeOK
  <1>7. ASSUME NEW c \in Clients, Sent(c)
        PROVE  FramesAreOpen' /\ PatchesMatch' /\ FrameShows'
    <2>1. frame[c].packet \in Packets /\ view' = [view EXCEPT ![c] = frame[c].packet]
      BY <1>7, SentShows
    <2>2. /\ conn' = conn
          /\ frame' = [frame EXCEPT ![c] = None]
          /\ prev' = IF c \in DeltaClients THEN [prev EXCEPT ![c] = frame[c].packet] ELSE prev
      BY <1>7 DEF Sent
    <2>3. FramesAreOpen'
      BY <1>0, <2>2 DEF FramesAreOpen, TypeOK
    <2>4. PatchesMatch'
      BY <1>0, <2>1, <2>2 DEF PatchesMatch, TypeOK
    <2>5. FrameShows'
      BY <1>0, <2>1, <2>2 DEF FrameShows, Shown, TypeOK
    <2> QED
      BY <2>3, <2>4, <2>5
  <1>8. ASSUME NEW c \in Clients, Disconnect(c)
        PROVE  FramesAreOpen' /\ PatchesMatch' /\ FrameShows'
    <2>1. /\ conn' = conn \ {c}
          /\ frame' = [frame EXCEPT ![c] = None]
          /\ prev' = [prev EXCEPT ![c] = None]
          /\ view' = [view EXCEPT ![c] = None]
      BY <1>8 DEF Disconnect
    <2> QED
      BY <1>0, <2>1 DEF FramesAreOpen, PatchesMatch, FrameShows, Shown, TypeOK
  <1>9. CASE GameMoves \/ Poll \/ UNCHANGED vars
    BY <1>1, <1>9 DEF GameMoves, Poll, vars, channel, sockets
  <1> QED
    BY <1>2, <1>3, <1>4, <1>5, <1>6, <1>7, <1>8, <1>9 DEF Next

LEMMA SocketInvariant == Spec => []SocketInv
  <1>1. SocketInv /\ [Next]_vars => SocketInv'
    BY SocketStep
  <1> QED
    BY SocketInit, <1>1, PTL DEF Spec

(* The types of the serve loop and of the sockets hold for any clients and *)
(* packets: what a consumer has merged is always a packet.                 *)
THEOREM TypeCorrect == Spec => []TypeOK
  <1>1. SocketInv => TypeOK
    BY DEF SocketInv
  <1> QED
    BY SocketInvariant, <1>1, PTL

(* prev_state is what the consumer of a delta connection holds, whatever   *)
(* was published, missed or detached in between.                           *)
THEOREM PatchesAlwaysMatch == Spec => []PatchesMatch
  <1>1. SocketInv => PatchesMatch
    BY DEF SocketInv
  <1> QED
    BY SocketInvariant, <1>1, PTL

-----------------------------------------------------------------------------
(* Only packets of a game.                                                 *)

GamesInv ==
  /\ conn # {} => EarlyClients \/ last # None
  /\ value.attached => value.packet \in games \/ (last = None /\ value.packet = First)
  /\ \A c \in Clients : frame[c] # None => frame[c].packet \in games \cup Beginning
  /\ \A c \in Clients : view[c] \in games \cup {None} \cup Beginning

LEMMA GamesInit == Init => GamesInv
  BY DEF Init, GamesInv, Nothing, Seed

LEMMA GamesStep ==
  ASSUME SocketInv, GamesInv, [Next]_vars
  PROVE  GamesInv'
  <1>0. TypeOK /\ FramesAreOpen
    BY DEF SocketInv
  <1>1. CASE GameMoves \/ UNCHANGED vars
    BY <1>1 DEF GamesInv, GameMoves, vars, channel, sockets
  <1>2. CASE Restart
    BY <1>2 DEF GamesInv, Restart, Nothing, Seed
  <1>3. CASE Poll
    <2>1. CASE Skipped
      BY <1>3, <2>1 DEF GamesInv, Poll, channel
    <2>2. CASE ~Skipped
      <3>1. /\ value' = Polled
            /\ last' = Polled
            /\ games' = games \cup (IF source.attached THEN {source.packet} ELSE {})
            /\ UNCHANGED <<conn, frame, view>>
        BY <1>3, <2>2 DEF Poll
      <3>2. Polled # None
        <4>1. Polled \in Published
          BY <1>0 DEF TypeOK, Polled, Sources, Published
        <4> QED
          BY <4>1, BroadcastAssumption DEF BroadcastAssumption
      <3> QED
        BY <3>1, <3>2 DEF GamesInv, Polled
    <2> QED
      BY <2>1, <2>2
  <1>4. ASSUME NEW c \in Clients, Connect(c) \/ Changed(c) \/ DeltaChanged(c)
        PROVE  GamesInv'
    <2>1. UNCHANGED <<value, last, games, view>> /\ conn' \subseteq conn \cup {c}
      BY <1>4 DEF Connect, Changed, DeltaChanged, channel
    <2>2. EarlyClients \/ last # None
      BY <1>4 DEF GamesInv, Connect, Changed, DeltaChanged, Ready
    <2>3. value.attached => value.packet \in games \cup Beginning
      BY <2>2 DEF GamesInv, Beginning
    <2>4. ASSUME NEW f, frame' = [frame EXCEPT ![c] = f],
                 f # None => value.attached /\ f.packet = value.packet
          PROVE  GamesInv'
      <3>1. \A d \in Clients : frame'[d] # None => frame'[d].packet \in games \cup Beginning
        BY <1>0, <2>3, <2>4 DEF GamesInv, TypeOK
      <3> QED
        BY <2>1, <2>2, <3>1 DEF GamesInv
    <2>5. CASE Connect(c) \/ Changed(c)
      <3>1. frame' = [frame EXCEPT ![c] = WholeFrame]
        BY <2>5 DEF Connect, Changed
      <3>2. WholeFrame # None => value.attached /\ WholeFrame.packet = value.packet
        BY DEF WholeFrame, Whole
      <3> QED
        BY <2>4, <3>1, <3>2
    <2>6. CASE DeltaChanged(c) /\ value.attached
      <3>1. frame' = [frame EXCEPT ![c] = DeltaFrame(c)]
        BY <2>6 DEF DeltaChanged
      <3>2. DeltaFrame(c) # None => DeltaFrame(c).packet = value.packet
        BY DEF DeltaFrame, Whole, Patch
      <3> QED
        BY <2>4, <2>6, <3>1, <3>2
    <2>7. CASE DeltaChanged(c) /\ ~value.attached
      BY <2>1, <2>2, <2>7 DEF GamesInv, DeltaChanged
    <2> QED
      BY <1>4, <2>5, <2>6, <2>7
  <1>5. ASSUME NEW c \in Clients, Sent(c)
        PROVE  GamesInv'
    <2>1. view' = [view EXCEPT ![c] = frame[c].packet]
      BY <1>5, SentShows
    <2>2. /\ UNCHANGED <<value, last, games, conn>>
          /\ frame[c] # None
          /\ frame' = [frame EXCEPT ![c] = None]
      BY <1>5 DEF Sent, channel
    <2> QED
      BY <1>0, <2>1, <2>2 DEF GamesInv, TypeOK
  <1>6. ASSUME NEW c \in Clients, Disconnect(c)
        PROVE  GamesInv'
    BY <1>0, <1>6 DEF GamesInv, Disconnect, TypeOK, channel
  <1> QED
    BY <1>1, <1>2, <1>3, <1>4, <1>5, <1>6 DEF Next

(* The routes and the sockets give out packets that this process polled    *)
(* from a game, and beside them only the default packet the channel starts *)
(* with: the routes until the first good poll, the sockets to clients that *)
(* came before it.                                                         *)
THEOREM ServesOnlyGames == Spec => []OnlyGamePackets
  <1>1. SocketInv /\ GamesInv /\ [Next]_vars => GamesInv'
    BY GamesStep
  <1>2. GamesInv => OnlyGamePackets
    BY DEF GamesInv, OnlyGamePackets, Answer
  <1> QED
    BY SocketInvariant, GamesInit, <1>1, <1>2, PTL DEF Spec

-----------------------------------------------------------------------------
(* The delta stream implements the feed of whole packets.                  *)

Pending == [c \in Clients |-> IF frame[c] = None THEN None ELSE frame[c].packet]

LEMMA FeedInit == Init => Feed!Init
  BY DEF Init, Feed!Init, Seed, Nothing, Feed!Nothing

LEMMA FeedStep ==
  ASSUME SocketInv, [Next]_vars
  PROVE  [Feed!Next]_Feed!vars
  <1> USE DEF Pending
  <1>0. TypeOK /\ FramesAreOpen
    BY DEF SocketInv
  <1>1. CASE UNCHANGED <<value, frame, view>>
    BY <1>1 DEF Feed!vars
  <1>2. CASE Restart
    <2>1. Feed!Restart
      BY <1>2 DEF Restart, Feed!Restart, Seed, Nothing, Feed!Nothing
    <2> QED
      BY <2>1 DEF Feed!Next
  <1>3. CASE Poll /\ ~Skipped
    <2>1. Polled \in Feed!Published
      BY <1>0 DEF TypeOK, Polled, Sources, Feed!Published
    <2>2. Feed!Publish
      BY <1>3, <2>1 DEF Poll, Feed!Publish
    <2> QED
      BY <2>2 DEF Feed!Next
  <1>4. ASSUME NEW c \in Clients,
               frame[c] = None, UNCHANGED <<value, view>>,
               NEW f, frame' = [frame EXCEPT ![c] = f],
               f # None => value.attached /\ f.packet = value.packet
        PROVE  [Feed!Next]_Feed!vars
    <2>1. CASE f = None
      <3>1. frame' = frame
        BY <1>0, <1>4, <2>1 DEF TypeOK
      <3> QED
        BY <1>1, <1>4, <3>1
    <2>2. CASE f # None
      <3>1. Pending' = [Pending EXCEPT ![c] = value.packet]
        BY <1>0, <1>4, <2>2 DEF TypeOK
      <3>2. Feed!Take(c)
        BY <1>4, <2>2, <3>1 DEF Feed!Take
      <3> QED
        BY <3>2 DEF Feed!Next
    <2> QED
      BY <2>1, <2>2
  <1>5. ASSUME NEW c \in Clients, Connect(c) \/ Changed(c)
        PROVE  [Feed!Next]_Feed!vars
    <2>1. /\ frame[c] = None
          /\ UNCHANGED <<value, view>>
          /\ frame' = [frame EXCEPT ![c] = WholeFrame]
      BY <1>0, <1>5 DEF Connect, Changed, Ready, FramesAreOpen, channel
    <2>2. WholeFrame # None => value.attached /\ WholeFrame.packet = value.packet
      BY DEF WholeFrame, Whole
    <2> QED
      BY <1>4, <2>1, <2>2
  <1>6. ASSUME NEW c \in Clients, DeltaChanged(c)
        PROVE  [Feed!Next]_Feed!vars
    <2>1. CASE value.attached
      <3>1. /\ frame[c] = None
            /\ UNCHANGED <<value, view>>
            /\ frame' = [frame EXCEPT ![c] = DeltaFrame(c)]
        BY <1>6, <2>1 DEF DeltaChanged, Ready, channel
      <3>2. DeltaFrame(c) # None => DeltaFrame(c).packet = value.packet
        BY DEF DeltaFrame, Whole, Patch
      <3> QED
        BY <1>4, <2>1, <3>1, <3>2
    <2>2. CASE ~value.attached
      BY <1>1, <1>6, <2>2 DEF DeltaChanged, channel
    <2> QED
      BY <2>1, <2>2
  <1>7. ASSUME NEW c \in Clients, Sent(c)
        PROVE  [Feed!Next]_Feed!vars
    <2>1. frame[c].packet \in Packets /\ view' = [view EXCEPT ![c] = frame[c].packet]
      BY <1>7, SentShows
    <2>2. UNCHANGED value /\ frame[c] # None /\ frame' = [frame EXCEPT ![c] = None]
      BY <1>7 DEF Sent, channel
    <2>3. Pending[c] = frame[c].packet /\ Pending[c] # None
      BY <2>1, <2>2, NoneIsNoFrame
    <2>4. Pending' = [Pending EXCEPT ![c] = None]
      BY <1>0, <2>2 DEF TypeOK
    <2>5. Feed!Show(c)
      BY <2>1, <2>2, <2>3, <2>4 DEF Feed!Show
    <2> QED
      BY <2>5 DEF Feed!Next
  <1>8. ASSUME NEW c \in Clients, Disconnect(c)
        PROVE  [Feed!Next]_Feed!vars
    <2>1. UNCHANGED value /\ frame' = [frame EXCEPT ![c] = None]
                          /\ view' = [view EXCEPT ![c] = None]
      BY <1>8 DEF Disconnect, channel
    <2>2. Pending' = [Pending EXCEPT ![c] = None]
      BY <1>0, <2>1 DEF TypeOK
    <2>3. Feed!Leave(c)
      BY <2>1, <2>2 DEF Feed!Leave
    <2> QED
      BY <2>3 DEF Feed!Next
  <1>9. CASE GameMoves \/ (Poll /\ Skipped) \/ UNCHANGED vars
    BY <1>1, <1>9 DEF GameMoves, Poll, vars, channel, sockets
  <1> QED
    BY <1>2, <1>3, <1>5, <1>6, <1>7, <1>8, <1>9 DEF Next

(* Every connection, a delta connection seen through its consumer's merges *)
(* included, is a connection of PacketFeed: it shows whole packets, in the *)
(* order it took them, each one current and attached when it was taken.    *)
THEOREM ImplementsFeed == Spec => ShowsWholePackets
  <1>1. SocketInv /\ [Next]_vars => [Feed!Next]_Feed!vars
    BY FeedStep
  <1> QED
    BY SocketInvariant, FeedInit, <1>1, PTL DEF Spec, ShowsWholePackets, Feed!Spec
=============================================================================
