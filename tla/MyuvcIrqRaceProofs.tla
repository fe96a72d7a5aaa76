------------------------- MODULE MyuvcIrqRaceProofs -------------------------
(***************************************************************************)
(* Proofs about irqqueue pointer by pointer, for any number of buffers and *)
(* wherever in QBUF a completion interrupt arrives.                        *)
(***************************************************************************)
EXTENDS MyuvcIrqRace, FiniteSetTheorems, SequenceTheorems, WellFoundedInduction, TLAPS

(* Every set of natural numbers that has an element has a least one. *)
LEMMA LeastNumber ==
  ASSUME NEW T, T \subseteq Nat, T # {}
  PROVE  \E m \in T : \A n \in T : m <= n
<1> DEFINE R == OpToRel(<, Nat)
<1>1. IsWellFoundedOn(R, Nat)
  BY NatLessThanWellFounded
<1> HIDE DEF R
<1>2. PICK m \in T : \A n \in T : ~(<<n, m>> \in R)
  BY <1>1, WFMin
<1> USE DEF R
<1>3. \A n \in T : ~(n < m)
  BY <1>2 DEF OpToRel
<1> QED
  BY <1>3

(***************************************************************************)
(* Following pointers that link the buffers of t leads from one to the     *)
(* next, and after the last one back to the head of the list.              *)
(***************************************************************************)
LEMMA HopFollows ==
  ASSUME NEW ptr, NEW t \in Seq(Buffers),
         \A i \in 0 .. Len(t) : ptr[At(t, i)] = At(t, i + 1),
         NEW k \in 0 .. Len(t) + 1
  PROVE  Hop(ptr, k) = At(t, k)
<1> DEFINE Walks(h) == h = [ i \in 0 .. k |-> IF i = 0 THEN HEAD
                                             ELSE IF h[i - 1] \in Nodes THEN ptr[h[i - 1]] ELSE POISON ]
           walk == [ i \in 0 .. k |-> At(t, i) ]
           loop == CHOOSE h : Walks(h)
<1>0. Len(t) \in Nat /\ At(t, 0) = HEAD /\ \A i : At(t, i) \in Nodes
  BY DEF At, Nodes
<1>1. ASSUME NEW i \in 0 .. k, i # 0
      PROVE  i - 1 \in 0 .. k /\ ptr[At(t, i - 1)] = At(t, i)
  BY <1>0, <1>1
<1>2. Walks(walk)
  <2> HIDE DEF walk
  <2>1. walk = [ i \in 0 .. k |-> At(t, i) ]
    BY DEF walk
  <2>2. ASSUME NEW i \in 0 .. k
        PROVE  At(t, i) = IF i = 0 THEN HEAD
                          ELSE IF walk[i - 1] \in Nodes THEN ptr[walk[i - 1]] ELSE POISON
    BY <1>0, <1>1, <2>1
  <2> QED
    BY <2>1, <2>2
<1>3. Walks(loop)
  <2> HIDE DEF Walks, walk
  <2> QED
    BY <1>2
<1>4. Hop(ptr, k) = loop[k]
  BY DEF Hop
<1> HIDE DEF loop
<1>5. \A i \in 0 .. k : loop[i] = At(t, i)
  <2> SUFFICES ASSUME { i \in 0 .. k : loop[i] # At(t, i) } # {} PROVE FALSE
    OBVIOUS
  <2>1. PICK m \in 0 .. k : /\ loop[m] # At(t, m)
                            /\ \A n \in 0 .. k : loop[n] # At(t, n) => m <= n
    <3> DEFINE T == { i \in 0 .. k : loop[i] # At(t, i) }
    <3>1. \E m \in T : \A n \in T : m <= n
      <4>1. T \subseteq Nat /\ T # {}
        OBVIOUS
      <4> HIDE DEF T
      <4> QED
        BY <4>1, LeastNumber
    <3> QED
      BY <3>1
  <2>2. m # 0
    BY <1>0, <1>3, <2>1
  <2>3. m - 1 \in 0 .. k /\ loop[m - 1] = At(t, m - 1)
    BY <1>1, <2>1, <2>2
  <2>4. loop[m] = ptr[At(t, m - 1)]
    BY <1>0, <1>3, <2>2, <2>3
  <2> QED
    BY <1>1, <2>1, <2>2, <2>4
<1> QED
  BY <1>4, <1>5

(* A list of distinct buffers is no longer than there are buffers. *)
LEMMA ListIsShort ==
  ASSUME NEW t \in Seq(Buffers), \A i, j \in 1 .. Len(t) : t[i] = t[j] => i = j
  PROVE  N \in Nat /\ Len(t) < N
<1>1. Len(t) \in Nat /\ t \in [1 .. Len(t) -> Buffers]
  OBVIOUS
<1>2. IsFiniteSet(Buffers) /\ IsFiniteSet(1 .. Len(t)) /\ Cardinality(1 .. Len(t)) = Len(t)
  BY <1>1, RaceAssumption, FS_Interval
<1>3. Cardinality(Buffers) \in Nat /\ N = Cardinality(Buffers) + 1
  BY <1>2, RaceAssumption, FS_AddElement, FS_CardinalityType DEF N, Nodes
<1>4. Len(t) <= Cardinality(Buffers)
  BY <1>1, <1>2, FS_Injection DEF Injection, IsInjective
<1> QED
  BY <1>1, <1>3, <1>4

(***************************************************************************)
(* list_for_each, along pointers that link the distinct buffers of t,      *)
(* visits t.                                                               *)
(***************************************************************************)
LEMMA ChainFollows ==
  ASSUME NEW ptr, NEW t \in Seq(Buffers),
         \A i, j \in 1 .. Len(t) : t[i] = t[j] => i = j,
         \A i \in 0 .. Len(t) : ptr[At(t, i)] = At(t, i + 1)
  PROVE  Chain(ptr) = t
<1> DEFINE Closes(n) == /\ \A k \in 1 .. n : Hop(ptr, k) # HEAD
                        /\ n = N \/ Hop(ptr, n + 1) = HEAD
           len == CHOOSE n \in 0 .. N : Closes(n)
<1>0. Len(t) \in Nat /\ N \in Nat /\ Len(t) < N
  BY ListIsShort
<1>1. \A k \in 1 .. Len(t) : Hop(ptr, k) = t[k] /\ t[k] # HEAD
  BY HopFollows, RaceAssumption DEF At
<1>2. Hop(ptr, Len(t) + 1) = HEAD
  BY <1>0, HopFollows DEF At
<1>3. Closes(Len(t)) /\ Len(t) \in 0 .. N
  BY <1>0, <1>1, <1>2
<1>4. len \in 0 .. N /\ Closes(len)
  <2> HIDE DEF Closes
  <2> QED
    BY <1>3
<1>5. Chain(ptr) = [ k \in 1 .. len |-> Hop(ptr, k) ]
  BY DEF Chain
<1> HIDE DEF len
<1>6. len = Len(t)
  <2>1. ~(len > Len(t))
    <3> SUFFICES ASSUME len > Len(t) PROVE FALSE
      OBVIOUS
    <3>1. Len(t) + 1 \in 1 .. len
      BY <1>0, <1>4
    <3> QED
      BY <1>2, <1>4, <3>1
  <2>2. ~(len < Len(t))
    <3> SUFFICES ASSUME len < Len(t) PROVE FALSE
      OBVIOUS
    <3>1. len + 1 \in 1 .. Len(t) /\ len # N
      BY <1>0, <1>4
    <3> QED
      BY <1>1, <1>4, <3>1
  <2> QED
    BY <1>0, <1>4, <2>1, <2>2
<1>7. t = [ k \in 1 .. Len(t) |-> t[k] ]
  OBVIOUS
<1> QED
  BY <1>1, <1>5, <1>6, <1>7

-----------------------------------------------------------------------------
(* What At says of the buffers of a list and of its two ends. *)
LEMMA AtFacts ==
  ASSUME NEW s \in Seq(Buffers)
  PROVE  /\ Len(s) \in Nat
         /\ \A i : At(s, i) \in Nodes
         /\ \A i \in 1 .. Len(s) : At(s, i) = s[i] /\ s[i] \in Buffers /\ s[i] # HEAD
         /\ At(s, 0) = HEAD /\ At(s, Len(s) + 1) = HEAD
         /\ HEAD \in Nodes /\ HEAD \notin Buffers /\ POISON \notin Nodes
<1>1. Len(s) \in Nat /\ \A i \in 1 .. Len(s) : s[i] \in Buffers
  OBVIOUS
<1> QED
  BY <1>1, RaceAssumption DEF At, Nodes

(* The first buffer of irqqueue, if the handler has found one. *)
LEMMA HandlerHasFirst ==
  ASSUME NEW s \in Seq(Buffers), Linked(s), HandlerAtFirst, hpc # "out", buf \in Buffers
  PROVE  Len(s) >= 1 /\ buf = s[1]
<1>1. buf = At(s, 1)
  <2>1. 0 \in 0 .. Len(s)
    BY AtFacts
  <2>2. next[At(s, 0)] = At(s, 0 + 1)
    BY <2>1 DEF Linked
  <2> QED
    BY <2>2, AtFacts DEF HandlerAtFirst
<1> QED
  BY <1>1, AtFacts DEF At

(* Before the first QBUF the list is empty. *)
LEMMA InitEstablishes == Init => RInv
<1> SUFFICES ASSUME Init PROVE RInv
  OBVIOUS
<1>1. TypeOK /\ HandlerAtFirst
  <2>1. next \in [Nodes -> Nodes \cup {POISON}] /\ next[HEAD] = HEAD /\ HEAD \in Nodes /\ prev = next
    BY DEF Init, Nodes
  <2>2. mainqueue \in Seq(Buffers) /\ state \in [Buffers -> {"IDLE", "QUEUED", "ACTIVE", "DONE"}]
    BY DEF Init
  <2> QED
    BY <2>1, <2>2 DEF Init, TypeOK, HandlerAtFirst
<1>2. next[HEAD] = HEAD /\ prev[HEAD] = HEAD
  BY DEF Init, Nodes
<1>3. <<>> \in Seq(Buffers) /\ Len(<<>>) = 0 /\ \A i : At(<<>>, i) = HEAD
  BY DEF At
<1>4. Linked(<<>>)
  BY <1>2, <1>3 DEF Linked
<1>5. QbufAtEnd(<<>>)
  BY <1>2, <1>3 DEF Init, QbufAtEnd, Ends
<1>6. InOrder(<<>>)
  BY <1>3 DEF Init, InOrder, Done, Queued
<1> QED
  BY <1>1, <1>3, <1>4, <1>5, <1>6 DEF RInv, IrqqueueIs

(***************************************************************************)
(* QBUF takes an IDLE buffer, which is on no list, and reads the last      *)
(* entry of irqqueue; no pointer changes yet.                              *)
(***************************************************************************)
LEMMA QbufPreserves ==
  ASSUME TypeOK, HandlerAtFirst, NEW s \in Seq(Buffers), IrqqueueIs(s), NEW b \in Buffers, Qbuf(b)
  PROVE  TypeOK' /\ HandlerAtFirst' /\ IrqqueueIs(s)'
<1> USE DEF Qbuf, ProcessRuns, handlerVars, IrqqueueIs
<1>0. /\ mainqueue \in Seq(Buffers) /\ state \in [Buffers -> {"IDLE", "QUEUED", "ACTIVE", "DONE"}]
      /\ Len(s) \in Nat /\ Len(mainqueue) \in Nat
      /\ \A i \in 1 .. Len(s) : s[i] \in Buffers
  BY DEF TypeOK
<1>1. TypeOK' /\ HandlerAtFirst'
  <2>1. mainqueue' \in Seq(Buffers)
    BY <1>0
  <2> QED
    BY <2>1 DEF TypeOK, HandlerAtFirst, Nodes
<1>2. \A i \in 1 .. Len(s) : s[i] # b
  BY DEF Linked
<1>3. state'[b] = "QUEUED" /\ \A c \in Buffers : c # b => state'[c] = state[c]
  BY <1>0
<1>4. Linked(s)'
  BY <1>0, <1>2, <1>3 DEF Linked, At
<1>5. QbufAtEnd(s)'
  BY <1>2, <1>3 DEF QbufAtEnd, Ends
<1>6. InOrder(s)'
  <2> SUFFICES ASSUME ~torn PROVE InOrder(s)'
    BY DEF InOrder
  <2>1. Queued(s) = s /\ Queued(s)' = Append(s, b)
    BY DEF Queued
  <2>2. /\ Len(Append(s, b)) = Len(s) + 1
        /\ \A i \in 1 .. Len(s) : Append(s, b)[i] = s[i]
        /\ Append(s, b)[Len(s) + 1] = b
    BY AppendProperties
  <2>3. /\ Len(mainqueue') = Len(mainqueue) + 1
        /\ \A i \in 1 .. Len(mainqueue) : mainqueue'[i] = mainqueue[i]
        /\ mainqueue'[Len(mainqueue) + 1] = b
    BY <1>0, AppendProperties
  <2>4. Done(s)' = Done(s) /\ Done(s) \in Nat /\ Done(s) + Len(s) = Len(mainqueue)
    BY <1>0, <2>1, <2>2, <2>3 DEF Done, InOrder
  <2>5. ASSUME NEW i \in 1 .. Len(mainqueue) PROVE mainqueue[i] # b /\ mainqueue[i] \in Buffers
    <3>0. mainqueue[i] \in Buffers
      BY <1>0
    <3>1. CASE i <= Done(s)
      BY <2>4, <3>0, <3>1 DEF InOrder
    <3>2. CASE i > Done(s)
      <4>1. i - Done(s) \in 1 .. Len(s) /\ Done(s) + (i - Done(s)) = i
        BY <1>0, <2>4, <3>2
      <4>2. mainqueue[i] = s[i - Done(s)]
        BY <2>1, <4>1 DEF InOrder
      <4> QED
        BY <1>2, <3>0, <4>1, <4>2
    <3> QED
      BY <2>4, <3>1, <3>2
  <2>6. \A i \in 1 .. Done(s)' : state'[mainqueue'[i]] = "DONE"
    BY <1>0, <1>3, <2>3, <2>4, <2>5 DEF InOrder
  <2>7. ASSUME NEW i \in 1 .. Len(Queued(s)')
        PROVE  mainqueue'[Done(s)' + i] = Queued(s)'[i]
    <3>1. CASE i = Len(s) + 1
      BY <1>0, <2>1, <2>2, <2>3, <2>4, <3>1
    <3>2. CASE i \in 1 .. Len(s)
      <4>1. Done(s) + i \in 1 .. Len(mainqueue)
        BY <1>0, <2>4, <3>2
      <4> QED
        BY <2>1, <2>2, <2>3, <2>4, <3>2, <4>1 DEF InOrder
    <3>3. i \in 1 .. Len(s) + 1
      BY <2>1, <2>2
    <3>4. i = Len(s) + 1 \/ i \in 1 .. Len(s)
      BY <1>0, <3>3
    <3> QED
      BY <3>1, <3>2, <3>4, Zenon
  <2>8. ASSUME NEW i \in 1 .. Len(mainqueue'), NEW j \in 1 .. Len(mainqueue'),
               mainqueue'[i] = mainqueue'[j]
        PROVE  i = j
    <3>1. \/ i \in 1 .. Len(mainqueue) /\ j \in 1 .. Len(mainqueue)
          \/ i = Len(mainqueue) + 1 /\ j \in 1 .. Len(mainqueue)
          \/ i \in 1 .. Len(mainqueue) /\ j = Len(mainqueue) + 1
          \/ i = Len(mainqueue) + 1 /\ j = Len(mainqueue) + 1
      BY <1>0, <2>3
    <3> QED
      BY <2>3, <2>5, <2>8, <3>1 DEF InOrder
  <2> QED
    BY <2>4, <2>6, <2>7, <2>8 DEF InOrder
<1> QED
  BY <1>1, <1>4, <1>5, <1>6

(* next->prev = new, then the pointers of the new entry: the list is still s. *)
LEMMA ListAdd12Preserves ==
  ASSUME TypeOK, HandlerAtFirst, NEW s \in Seq(Buffers), IrqqueueIs(s), ListAdd1 \/ ListAdd2
  PROVE  TypeOK' /\ HandlerAtFirst' /\ IrqqueueIs(s)'
<1> USE DEF ProcessRuns, queueVars, handlerVars, IrqqueueIs
<1>0. /\ next \in [Nodes -> Nodes \cup {POISON}] /\ prev \in [Nodes -> Nodes \cup {POISON}]
      /\ new \in Buffers /\ new # HEAD /\ new \in Nodes /\ HEAD \in Nodes
      /\ \A i \in 1 .. Len(s) : s[i] # new /\ s[i] \in Nodes /\ s[i] # HEAD
      /\ qpc # "user" /\ qpc' # "user"
      /\ UNCHANGED <<state, mainqueue, new, last, hpc, buf, torn>>
  BY AtFacts DEF TypeOK, QbufAtEnd, Nodes, ListAdd1, ListAdd2
<1>1. InOrder(s)'
  BY <1>0 DEF InOrder, Done, Queued
<1>2. CASE ListAdd1
  <2>1. /\ next' = next /\ prev'[HEAD] = new
        /\ \A x \in Nodes : x # HEAD => prev'[x] = prev[x]
        /\ prev' \in [Nodes -> Nodes \cup {POISON}]
    BY <1>0, <1>2 DEF ListAdd1
  <2>2. TypeOK' /\ HandlerAtFirst'
    BY <1>0, <1>2, <2>1 DEF TypeOK, HandlerAtFirst, ListAdd1
  <2>3. Linked(s)'
    BY <1>0, <2>1 DEF Linked, At
  <2>4. QbufAtEnd(s)'
    BY <1>0, <1>2, <2>1 DEF QbufAtEnd, Ends, ListAdd1, At
  <2> QED
    BY <1>1, <2>2, <2>3, <2>4
<1>3. CASE ListAdd2
  <2>1. /\ next'[new] = HEAD /\ prev'[new] = last
        /\ \A x \in Nodes : x # new => prev'[x] = prev[x] /\ next'[x] = next[x]
    BY <1>0, <1>3 DEF ListAdd2
  <2>2. TypeOK' /\ HandlerAtFirst'
    BY <1>0, <1>3, <2>1 DEF TypeOK, HandlerAtFirst, ListAdd2
  <2>3. \A i : At(s, i) \in Nodes /\ At(s, i) # new
    BY <1>0 DEF At
  <2>4. Linked(s)'
    BY <1>0, <2>1, <2>3 DEF Linked, At
  <2>5. QbufAtEnd(s)'
    BY <1>0, <1>3, <2>1 DEF QbufAtEnd, Ends, ListAdd2, At
  <2> QED
    BY <1>1, <2>2, <2>4, <2>5
<1> QED
  BY <1>2, <1>3

(***************************************************************************)
(* prev->next = new: the list grows by the new entry, or, when the list    *)
(* was torn, stays empty.                                                  *)
(***************************************************************************)
LEMMA ListAdd3Preserves ==
  ASSUME TypeOK, HandlerAtFirst, NEW s \in Seq(Buffers), IrqqueueIs(s), ListAdd3
  PROVE  TypeOK' /\ HandlerAtFirst' /\ \E t \in Seq(Buffers) : IrqqueueIs(t)'
<1> USE DEF ProcessRuns, queueVars, handlerVars, IrqqueueIs
<1>0. /\ next \in [Nodes -> Nodes \cup {POISON}] /\ prev \in [Nodes -> Nodes \cup {POISON}]
      /\ last \in Nodes /\ new \in Buffers /\ new # HEAD /\ new \in Nodes /\ HEAD \in Nodes
      /\ \A i \in 1 .. Len(s) : s[i] # new /\ s[i] \in Nodes /\ s[i] # HEAD
      /\ qpc = "add3" /\ qpc' = "user" /\ hpc = "out" /\ state[new] = "QUEUED"
      /\ next[new] = HEAD /\ prev[new] = last
      /\ UNCHANGED <<prev, state, mainqueue, hpc, buf, torn>>
      /\ next' = [next EXCEPT ![last] = new]
      /\ Len(s) \in Nat
  BY AtFacts DEF TypeOK, QbufAtEnd, Nodes, ListAdd3
<1>1. /\ next'[last] = new /\ \A x \in Nodes : x # last => next'[x] = next[x]
      /\ next' \in [Nodes -> Nodes \cup {POISON}] /\ next'[HEAD] \in Nodes
  BY <1>0 DEF TypeOK
<1>2. TypeOK' /\ HandlerAtFirst'
  BY <1>0, <1>1 DEF TypeOK, HandlerAtFirst, ListAdd3
<1>3. CASE last = At(s, Len(s))
  <2>0. PICK t \in Seq(Buffers) : t = Append(s, new)
    <3>1. Append(s, new) \in Seq(Buffers)
      BY <1>0, AppendProperties
    <3> QED
      BY <3>1, Zenon
  <2>1. /\ t \in Seq(Buffers) /\ Len(t) = Len(s) + 1
        /\ \A i \in 1 .. Len(s) : t[i] = s[i]
        /\ t[Len(s) + 1] = new
    BY <1>0, <2>0, AppendProperties
  <2>2. /\ \A i \in 0 .. Len(s) : At(t, i) = At(s, i)
        /\ At(t, Len(s) + 1) = new /\ At(t, Len(s) + 2) = HEAD
    BY <1>0, <2>1 DEF At
  <2>3. \A i \in 0 .. Len(s) - 1 : At(s, i) # last /\ At(s, i) \in Nodes
    BY <1>0, <1>3 DEF At, Linked
  <2>4. new # last
    BY <1>0, <1>3 DEF At
  <2>5. \A i \in 0 .. Len(t) : next'[At(t, i)] = At(t, i + 1)
    <3> SUFFICES ASSUME NEW i \in 0 .. Len(t) PROVE next'[At(t, i)] = At(t, i + 1)
      OBVIOUS
    <3>1. CASE i \in 0 .. Len(s) - 1
      <4>1. i \in 0 .. Len(s) /\ i + 1 \in 0 .. Len(s)
        BY <1>0, <3>1
      <4>2. next[At(s, i)] = At(s, i + 1)
        BY <4>1 DEF Linked
      <4> QED
        BY <1>1, <2>2, <2>3, <3>1, <4>1, <4>2
    <3>2. CASE i = Len(s)
      BY <1>0, <1>1, <1>3, <2>2, <3>2
    <3>3. CASE i = Len(s) + 1
      <4>1. i + 1 = Len(s) + 2
        BY <1>0, <3>3
      <4> QED
        BY <1>0, <1>1, <2>2, <2>4, <3>3, <4>1
    <3> QED
      BY <1>0, <2>1, <3>1, <3>2, <3>3
  <2>6. \A i \in 1 .. Len(t) : prev'[t[i]] = At(t, i - 1)
    <3> SUFFICES ASSUME NEW i \in 1 .. Len(t) PROVE prev[t[i]] = At(t, i - 1)
      BY <1>0
    <3>1. CASE i \in 1 .. Len(s)
      <4>1. i - 1 \in 0 .. Len(s) /\ prev[s[i]] = At(s, i - 1)
        BY <1>0, <3>1 DEF Linked
      <4> QED
        BY <2>1, <2>2, <3>1, <4>1
    <3>2. CASE i = Len(s) + 1
      <4>1. i - 1 = Len(s) /\ Len(s) \in 0 .. Len(s)
        BY <1>0, <3>2
      <4> QED
        BY <1>0, <1>3, <2>1, <2>2, <3>2, <4>1
    <3> QED
      BY <1>0, <2>1, <3>1, <3>2
  <2>7. Linked(t)'
    <3>1. \A i, j \in 1 .. Len(t) : t[i] = t[j] => i = j
      BY <1>0, <2>1 DEF Linked
    <3>2. \A i \in 1 .. Len(t) : state'[t[i]] \in {"QUEUED", "ACTIVE"}
      BY <1>0, <2>1 DEF Linked
    <3> QED
      BY <2>5, <2>6, <3>1, <3>2 DEF Linked, At
  <2>8. QbufAtEnd(t)'
    <3>1. prev'[HEAD] = At(t, Len(t))
      BY <1>0, <1>3, <2>1, <2>2 DEF QbufAtEnd
    <3> QED
      BY <1>0, <3>1 DEF QbufAtEnd, Ends, At
  <2>9. InOrder(t)'
    <3>1. Queued(t)' = Queued(s)
      BY <1>0, <2>0 DEF Queued
    <3> QED
      BY <1>0, <3>1 DEF InOrder, Done
  <2> QED
    BY <1>2, <2>1, <2>7, <2>8, <2>9
<1>4. CASE last # At(s, Len(s))
  <2>1. torn /\ s = <<>> /\ last # HEAD
    BY <1>0, <1>4 DEF QbufAtEnd, Ends, At
  <2>2. Linked(s)'
    BY <1>0, <1>1, <2>1 DEF Linked, At
  <2>3. QbufAtEnd(s)'
    BY <1>0, <2>1 DEF QbufAtEnd, Ends, TypeOK
  <2>4. InOrder(s)'
    BY <1>0, <2>1 DEF InOrder
  <2> QED
    BY <1>2, <2>2, <2>3, <2>4
<1> QED
  BY <1>3, <1>4

(***************************************************************************)
(* DQBUF takes a DONE buffer, which is not on irqqueue, off the front of   *)
(* mainqueue.                                                              *)
(***************************************************************************)
LEMMA DqbufPreserves ==
  ASSUME TypeOK, HandlerAtFirst, NEW s \in Seq(Buffers), IrqqueueIs(s), Dqbuf
  PROVE  TypeOK' /\ HandlerAtFirst' /\ IrqqueueIs(s)'
<1> USE DEF ProcessRuns, qbufVars, handlerVars, IrqqueueIs
<1>0. PICK b : b = Head(mainqueue)
  OBVIOUS
<1>1. /\ mainqueue \in Seq(Buffers) /\ Len(mainqueue) \in Nat /\ Len(mainqueue) >= 1
      /\ b \in Buffers /\ b = mainqueue[1]
      /\ mainqueue' \in Seq(Buffers) /\ Len(mainqueue') = Len(mainqueue) - 1
      /\ \A i \in 1 .. Len(mainqueue') : mainqueue'[i] = mainqueue[i + 1]
  BY <1>0, HeadTailProperties DEF TypeOK, Dqbuf
<1>2. /\ state \in [Buffers -> {"IDLE", "QUEUED", "ACTIVE", "DONE"}]
      /\ state[b] = "DONE" /\ state'[b] = "IDLE"
      /\ \A c \in Buffers : c # b => state'[c] = state[c]
      /\ state' \in [Buffers -> {"IDLE", "QUEUED", "ACTIVE", "DONE"}]
      /\ hpc = "out" /\ qpc = "user"
      /\ UNCHANGED <<next, prev, qpc, new, last, hpc, buf, torn>>
  BY <1>0, <1>1 DEF TypeOK, Dqbuf
<1>3. TypeOK' /\ HandlerAtFirst'
  BY <1>1, <1>2 DEF TypeOK, HandlerAtFirst
<1>4. Len(s) \in Nat /\ \A i \in 1 .. Len(s) : s[i] \in Buffers /\ s[i] # b
  BY <1>2 DEF Linked
<1>5. Linked(s)' /\ QbufAtEnd(s)'
  BY <1>2, <1>4 DEF Linked, QbufAtEnd, Ends, At
<1>6. InOrder(s)'
  <2> SUFFICES ASSUME ~torn PROVE InOrder(s)'
    BY <1>2 DEF InOrder
  <2>1. Queued(s) = s /\ Queued(s)' = s
    BY <1>2 DEF Queued
  <2>2. Done(s)' = Done(s) - 1 /\ Done(s) \in Nat /\ Done(s) + Len(s) = Len(mainqueue)
    BY <1>1, <1>4, <2>1 DEF Done, InOrder
  <2>3. Done(s) # 0
    <3> SUFFICES ASSUME Done(s) = 0 PROVE FALSE
      OBVIOUS
    <3>1. 1 \in 1 .. Len(s) /\ Done(s) + 1 = 1
      BY <1>1, <2>2
    <3>2. mainqueue[Done(s) + 1] = s[1]
      BY <2>1, <3>1 DEF InOrder
    <3> QED
      BY <1>1, <1>4, <3>1, <3>2
  <2>4. ASSUME NEW i \in 1 .. Len(mainqueue')
        PROVE  i + 1 \in 1 .. Len(mainqueue) /\ mainqueue'[i] \in Buffers /\ mainqueue'[i] # b
    <3>1. i + 1 \in 1 .. Len(mainqueue) /\ 1 \in 1 .. Len(mainqueue) /\ i + 1 # 1
      BY <1>1
    <3>2. mainqueue[i + 1] # mainqueue[1]
      BY <3>1 DEF InOrder
    <3> QED
      BY <1>1, <3>1, <3>2
  <2>5. \A i \in 1 .. Done(s)' : state'[mainqueue'[i]] = "DONE"
    <3> SUFFICES ASSUME NEW i \in 1 .. Done(s) - 1 PROVE state'[mainqueue'[i]] = "DONE"
      BY <2>2
    <3>1. i \in 1 .. Len(mainqueue') /\ i + 1 \in 1 .. Done(s)
      BY <1>1, <1>4, <2>2
    <3>2. state[mainqueue[i + 1]] = "DONE"
      BY <3>1 DEF InOrder
    <3> QED
      BY <1>1, <1>2, <2>4, <3>1, <3>2
  <2>6. \A i \in 1 .. Len(s) : mainqueue'[(Done(s) - 1) + i] = s[i]
    <3> SUFFICES ASSUME NEW i \in 1 .. Len(s) PROVE mainqueue'[(Done(s) - 1) + i] = s[i]
      OBVIOUS
    <3>1. (Done(s) - 1) + i \in 1 .. Len(mainqueue') /\ ((Done(s) - 1) + i) + 1 = Done(s) + i
      BY <1>1, <1>4, <2>2, <2>3
    <3>2. mainqueue[Done(s) + i] = s[i]
      BY <2>1 DEF InOrder
    <3> QED
      BY <1>1, <3>1, <3>2
  <2>7. ASSUME NEW i \in 1 .. Len(mainqueue'), NEW j \in 1 .. Len(mainqueue'),
               mainqueue'[i] = mainqueue'[j]
        PROVE  i = j
    <3>1. i + 1 = j + 1
      BY <1>1, <2>4, <2>7 DEF InOrder
    <3> QED
      BY <1>1, <3>1
  <2>8. Done(s)' >= 0
    BY <2>2, <2>3
  <2>9. \A i \in 1 .. Len(Queued(s)') : mainqueue'[Done(s)' + i] = Queued(s)'[i]
    BY <2>1, <2>2, <2>6
  <2> QED
    BY <2>5, <2>7, <2>8, <2>9 DEF InOrder
<1> QED
  BY <1>3, <1>5, <1>6

-----------------------------------------------------------------------------
(* The handler starts, or returns: the list is not touched. *)
LEMMA InterruptPreserves ==
  ASSUME TypeOK, HandlerAtFirst, NEW s \in Seq(Buffers), IrqqueueIs(s), Interrupt \/ Return
  PROVE  TypeOK' /\ HandlerAtFirst' /\ IrqqueueIs(s)'
<1> USE DEF queueVars, qbufVars, IrqqueueIs
<1>1. /\ hpc # "unlink" /\ hpc' \in {"out", "loop"} /\ HEAD \in Nodes
      /\ UNCHANGED <<next, prev, state, mainqueue, qpc, new, last, torn>>
      /\ hpc' = "loop" => buf' = next[HEAD]
      /\ buf' \in {HEAD, next[HEAD]}
  BY DEF Interrupt, Return, Nodes
<1>2. TypeOK' /\ HandlerAtFirst'
  BY <1>1 DEF TypeOK, HandlerAtFirst
<1>3. Linked(s)' /\ QbufAtEnd(s)'
  BY <1>1 DEF Linked, QbufAtEnd, Ends, At
<1>4. InOrder(s)'
  BY <1>1 DEF InOrder, Done, Queued
<1> QED
  BY <1>2, <1>3, <1>4

(***************************************************************************)
(* A packet is stored in the first buffer of the list, or completes it: no *)
(* buffer that is DONE, and not the one QBUF is about to link, is touched. *)
(***************************************************************************)
LEMMA StorePreserves ==
  ASSUME TypeOK, HandlerAtFirst, NEW s \in Seq(Buffers), IrqqueueIs(s), Store \/ Finish
  PROVE  TypeOK' /\ HandlerAtFirst' /\ IrqqueueIs(s)'
<1> USE DEF qbufVars, handlerVars, IrqqueueIs
<1>0. /\ hpc = "loop" /\ buf \in Buffers
      /\ UNCHANGED <<next, prev, mainqueue, qpc, new, last, buf, torn>>
      /\ state \in [Buffers -> {"IDLE", "QUEUED", "ACTIVE", "DONE"}]
      /\ state' \in [Buffers -> {"IDLE", "QUEUED", "ACTIVE", "DONE"}]
      /\ \A c \in Buffers : c # buf => state'[c] = state[c]
      /\ \/ hpc' = "loop" /\ state'[buf] = "ACTIVE"
         \/ hpc' = "unlink" /\ state'[buf] = "DONE"
  BY DEF Store, Finish, TypeOK
<1>1. Len(s) \in Nat /\ Len(s) >= 1 /\ buf = s[1] /\ \A i \in 1 .. Len(s) : s[i] \in Buffers
  BY <1>0, HandlerHasFirst
<1>2. TypeOK' /\ HandlerAtFirst'
  BY <1>0 DEF TypeOK, HandlerAtFirst
<1>3. Linked(s)'
  <2>1. ASSUME NEW i \in 1 .. Len(s)
        PROVE  state'[s[i]] \in {"QUEUED", "ACTIVE"} \/ (i = 1 /\ hpc' = "unlink")
    <3>1. CASE i = 1
      BY <1>0, <1>1, <3>1
    <3>2. CASE i # 1
      <4>1. s[i] # buf
        BY <1>1, <3>2 DEF Linked
      <4> QED
        BY <1>0, <1>1, <3>2, <4>1 DEF Linked
    <3> QED
      BY <3>1, <3>2
  <2> QED
    BY <1>0, <2>1 DEF Linked, At
<1>4. QbufAtEnd(s)'
  <2>1. qpc # "user" => new # buf
    BY <1>1 DEF QbufAtEnd
  <2> QED
    BY <1>0, <2>1 DEF QbufAtEnd, Ends, At
<1>5. InOrder(s)'
  <2> SUFFICES ASSUME ~torn PROVE InOrder(s)'
    BY <1>0 DEF InOrder
  <2>1. Queued(s)' = Queued(s) /\ Done(s)' = Done(s)
    BY <1>0 DEF Queued, Done
  <2>2. state[buf] \in {"QUEUED", "ACTIVE"}
    BY <1>0, <1>1 DEF Linked
  <2>3. ASSUME NEW i \in 1 .. Done(s) PROVE state'[mainqueue[i]] = "DONE"
    <3>1. state[mainqueue[i]] = "DONE"
      BY DEF InOrder
    <3>2. i \in 1 .. Len(mainqueue) /\ mainqueue \in Seq(Buffers)
      <4>1. Len(Queued(s)) \in Nat /\ Len(mainqueue) \in Nat /\ mainqueue \in Seq(Buffers)
        <5>1. CASE qpc = "user"
          BY <1>1, <5>1 DEF Queued, TypeOK
        <5>2. CASE qpc # "user"
          BY <1>1, <5>2, AppendProperties DEF Queued, QbufAtEnd, TypeOK
        <5> QED
          BY <5>1, <5>2
      <4> QED
        BY <4>1 DEF Done
    <3>3. mainqueue[i] \in Buffers
      BY <3>2
    <3> QED
      BY <1>0, <2>2, <3>1, <3>3
  <2> QED
    BY <1>0, <2>1, <2>3 DEF InOrder
<1> QED
  BY <1>2, <1>3, <1>4, <1>5

(***************************************************************************)
(* list_del takes the first buffer off the list.  The entry list_add_tail  *)
(* links to is still the last one, unless it is the buffer that has just   *)
(* been removed: then the list is torn, and empty.                         *)
(***************************************************************************)
LEMMA ListDelPreserves ==
  ASSUME TypeOK, HandlerAtFirst, NEW s \in Seq(Buffers), IrqqueueIs(s), ListDel
  PROVE  TypeOK' /\ HandlerAtFirst' /\ \E t \in Seq(Buffers) : IrqqueueIs(t)'
<1> USE DEF queueVars, qbufVars, IrqqueueIs
<1>0. /\ Len(s) \in Nat /\ Len(s) >= 1 /\ buf = s[1] /\ buf \in Buffers /\ state[buf] = "DONE"
      /\ \A i \in 1 .. Len(s) : s[i] \in Buffers /\ s[i] \in Nodes /\ s[i] # HEAD /\ At(s, i) = s[i]
      /\ \A i \in 1 .. Len(s) : i # 1 => s[i] # buf
      /\ HEAD \in Nodes /\ HEAD # buf
      /\ \A i : At(s, i) \in Nodes
      /\ At(s, 0) = HEAD /\ At(s, Len(s) + 1) = HEAD
  <2>1. Len(s) >= 1 /\ buf = s[1] /\ buf \in Buffers /\ state[buf] = "DONE"
    BY HandlerHasFirst DEF ListDel, HandlerAtFirst
  <2>2. \A i \in 1 .. Len(s) : i # 1 => s[i] # buf
    BY <2>1, AtFacts DEF Linked
  <2> QED
    BY <2>1, <2>2, AtFacts DEF Nodes
<1>1. PICK n : n = At(s, 2)
  OBVIOUS
<1>2. next[buf] = n /\ prev[buf] = HEAD /\ n \in Nodes /\ n # buf
  <2>1. 1 \in 0 .. Len(s) /\ 1 \in 1 .. Len(s)
    BY <1>0
  <2>2. next[At(s, 1)] = At(s, 1 + 1) /\ prev[s[1]] = At(s, 1 - 1)
    BY <2>1 DEF Linked
  <2>3. At(s, 1) = buf /\ At(s, 1 + 1) = n /\ At(s, 1 - 1) = HEAD
    BY <1>0, <1>1, <2>1
  <2>4. n # buf
    BY <1>0, <1>1 DEF At
  <2> QED
    BY <1>0, <1>1, <2>2, <2>3, <2>4
<1>3. /\ prev'[n] = HEAD /\ \A x \in Nodes : x # n /\ x # buf => prev'[x] = prev[x]
      /\ next'[HEAD] = n /\ \A x \in Nodes : x # HEAD /\ x # buf => next'[x] = next[x]
      /\ next' \in [Nodes -> Nodes \cup {POISON}] /\ prev' \in [Nodes -> Nodes \cup {POISON}]
      /\ hpc' = "loop" /\ buf' = n
      /\ torn' = (torn \/ (qpc # "user" /\ buf = last))
      /\ UNCHANGED <<state, mainqueue, qpc, new, last>>
  <2>1. /\ prev' = [prev EXCEPT ![n] = HEAD, ![buf] = POISON]
        /\ next' = [next EXCEPT ![HEAD] = n, ![buf] = POISON]
        /\ next \in [Nodes -> Nodes \cup {POISON}] /\ prev \in [Nodes -> Nodes \cup {POISON}]
    BY <1>2 DEF ListDel, TypeOK
  <2>2. buf \in Nodes
    BY <1>0 DEF Nodes
  <2>3. /\ prev'[n] = HEAD /\ \A x \in Nodes : x # n /\ x # buf => prev'[x] = prev[x]
        /\ next'[HEAD] = n /\ \A x \in Nodes : x # HEAD /\ x # buf => next'[x] = next[x]
        /\ next' \in [Nodes -> Nodes \cup {POISON}] /\ prev' \in [Nodes -> Nodes \cup {POISON}]
    BY <1>0, <1>2, <2>1, <2>2
  <2> QED
    BY <2>3 DEF ListDel
<1>4. prev'[HEAD] \in Nodes
  BY <1>0, <1>3 DEF TypeOK
<1>5. TypeOK' /\ HandlerAtFirst'
  <2>1. torn' \in BOOLEAN
    BY <1>3, Zenon DEF TypeOK
  <2> QED
    BY <1>0, <1>2, <1>3, <1>4, <2>1 DEF TypeOK, HandlerAtFirst
<1>6. PICK t \in Seq(Buffers) : /\ t = Tail(s) /\ Len(t) = Len(s) - 1
                                /\ \A i \in 1 .. Len(t) : t[i] = s[i + 1]
  <2>1. s # <<>>
    BY <1>0
  <2>2. Tail(s) \in Seq(Buffers) /\ Len(Tail(s)) = Len(s) - 1
        /\ \A i \in 1 .. Len(Tail(s)) : Tail(s)[i] = s[i + 1]
    BY <2>1, HeadTailProperties
  <2> QED
    BY <2>2
<1>7. /\ At(t, 0) = HEAD
      /\ \A i \in 1 .. Len(t) + 1 : At(t, i) = At(s, i + 1)
      /\ \A i \in 1 .. Len(t) : i + 1 \in 1 .. Len(s) /\ i + 1 # 1
  BY <1>0, <1>6 DEF At
<1>8. Linked(t)'
  <2>1. \A i, j \in 1 .. Len(t) : t[i] = t[j] => i = j
    <3> SUFFICES ASSUME NEW i \in 1 .. Len(t), NEW j \in 1 .. Len(t), t[i] = t[j] PROVE i = j
      OBVIOUS
    <3>1. i + 1 = j + 1
      BY <1>6, <1>7 DEF Linked
    <3> QED
      BY <3>1
  <2>2. ASSUME NEW i \in 0 .. Len(t) PROVE next'[At(t, i)] = At(t, i + 1)
    <3>1. CASE i = 0
      <4>1. 1 \in 1 .. Len(t) + 1 /\ 0 + 1 = 1 /\ 1 + 1 = 2
        BY <1>0, <1>6
      <4> QED
        BY <1>1, <1>3, <1>7, <3>1, <4>1
    <3>2. CASE i # 0
      <4>1. /\ i \in 1 .. Len(t) /\ i + 1 \in 1 .. Len(t) + 1
            /\ i + 1 \in 1 .. Len(s) /\ i + 1 \in 0 .. Len(s) /\ i + 1 # 1
        BY <1>0, <1>6, <3>2
      <4>2. next[At(s, i + 1)] = At(s, (i + 1) + 1)
        BY <4>1 DEF Linked
      <4>3. At(t, i) = s[i + 1] /\ At(s, i + 1) = s[i + 1] /\ At(t, i + 1) = At(s, (i + 1) + 1)
        BY <1>0, <1>7, <4>1
      <4>4. s[i + 1] \in Nodes /\ s[i + 1] # HEAD /\ s[i + 1] # buf
        BY <1>0, <4>1
      <4> QED
        BY <1>3, <4>2, <4>3, <4>4
    <3> QED
      BY <3>1, <3>2
  <2>3. ASSUME NEW i \in 1 .. Len(t) PROVE prev'[t[i]] = At(t, i - 1)
    <3>0. i + 1 \in 1 .. Len(s) /\ i + 1 # 1 /\ t[i] = s[i + 1]
      BY <1>6, <1>7
    <3>1. CASE i = 1
      <4>1. t[i] = n
        BY <1>0, <1>1, <3>0, <3>1
      <4> QED
        BY <1>3, <1>7, <3>1, <4>1
    <3>2. CASE i # 1
      <4>1. i - 1 \in 1 .. Len(t) + 1 /\ (i - 1) + 1 = i /\ (i + 1) - 1 = i
        BY <1>0, <1>6, <3>2
      <4>2. prev[s[i + 1]] = At(s, i)
        BY <3>0, <4>1 DEF Linked
      <4>3. At(t, i - 1) = At(s, i)
        BY <1>7, <4>1
      <4>4. s[i + 1] \in Nodes /\ s[i + 1] # buf /\ s[i + 1] # HEAD
        BY <1>0, <3>0
      <4>5. s[i + 1] # n
        <5>1. CASE Len(s) < 2
          BY <1>0, <3>0, <3>2, <5>1
        <5>2. CASE Len(s) >= 2
          <6>1. 2 \in 1 .. Len(s) /\ n = s[2] /\ i + 1 # 2
            BY <1>0, <1>1, <3>2, <5>2
          <6> QED
            BY <3>0, <6>1 DEF Linked
        <5> QED
          BY <1>0, <5>1, <5>2
      <4> QED
        BY <1>3, <3>0, <4>2, <4>3, <4>4, <4>5
    <3> QED
      BY <3>1, <3>2
  <2>4. ASSUME NEW i \in 1 .. Len(t) PROVE state'[t[i]] \in {"QUEUED", "ACTIVE"}
    BY <1>3, <1>6, <1>7 DEF Linked
  <2> QED
    BY <2>1, <2>2, <2>3, <2>4 DEF Linked, At
<1>9. s # <<>>
  BY <1>0
<1>10. qpc # "user" => new \in Buffers /\ new \in Nodes /\ new # HEAD /\ new # buf /\ new # n
  BY <1>0, <1>1, RaceAssumption DEF QbufAtEnd, Nodes, At
<1>11. QbufAtEnd(t)'
  <2>1. qpc' # "user" => /\ new' \in Buffers /\ state'[new'] = "QUEUED"
                         /\ \A i \in 1 .. Len(t) : t[i] # new'
    BY <1>3, <1>6, <1>7 DEF QbufAtEnd
  <2>2. qpc' = "add3" => next'[new'] = HEAD /\ prev'[new'] = last'
    BY <1>3, <1>10 DEF QbufAtEnd
  <2>3. /\ qpc = "user" => prev[HEAD] = At(s, Len(s))
        /\ qpc # "user" => last = At(s, Len(s))
    BY <1>9 DEF QbufAtEnd, Ends
  <2>4. CASE Len(s) = 1
    <3>1. t = <<>> /\ At(t, Len(t)) = HEAD /\ n = HEAD /\ At(s, Len(s)) = buf
      <4>1. Len(t) = 0
        BY <1>6, <2>4
      <4> QED
        BY <4>1, <1>0, <1>1, <1>7, <2>4
    <3>2. prev'[HEAD] = HEAD
      BY <1>3, <3>1
    <3>3. qpc' # "user" => last' = buf /\ buf \in Nodes /\ torn' = TRUE
      BY <1>0, <1>3, <2>3, <3>1 DEF Nodes
    <3>4. qpc' = "user" => Ends(t, prev[HEAD])'
      BY <3>1, <3>2 DEF Ends, At
    <3>5. qpc' # "user" => Ends(t, last)' /\ last' # At(t, Len(t))
      BY <1>0, <3>1, <3>3 DEF Ends
    <3> QED
      BY <2>1, <2>2, <3>4, <3>5 DEF QbufAtEnd, At
  <2>5. CASE Len(s) # 1
    <3>1. Len(s) >= 2 /\ Len(t) \in 1 .. Len(t) + 1 /\ Len(t) + 1 = Len(s)
      BY <1>0, <1>6, <2>5
    <3>2. At(t, Len(t)) = At(s, Len(s)) /\ n # HEAD
      BY <1>0, <1>1, <1>7, <3>1
    <3>3. prev'[HEAD] = prev[HEAD]
      BY <1>0, <1>3, <3>2
    <3>4. qpc' = "user" => Ends(t, prev[HEAD])'
      BY <1>3, <2>3, <3>2, <3>3 DEF Ends, At
    <3>5. qpc' # "user" => Ends(t, last)'
      BY <1>3, <2>3, <3>2 DEF Ends, At
    <3>6. qpc' \in {"add2", "add3"} => prev'[HEAD] = new'
      BY <1>3, <2>3, <3>3 DEF QbufAtEnd
    <3> QED
      BY <2>1, <2>2, <3>4, <3>5, <3>6 DEF QbufAtEnd, At
  <2> QED
    BY <2>4, <2>5
<1>12. InOrder(t)'
  <2> SUFFICES ASSUME ~torn' PROVE InOrder(t)'
    BY DEF InOrder
  <2>0. ~torn
    BY <1>3
  <2>1. /\ Len(Queued(s)) \in Nat /\ Len(Queued(s)) >= 1 /\ Queued(s)[1] = buf
        /\ Len(Queued(t)') = Len(Queued(s)) - 1
        /\ \A i \in 1 .. Len(Queued(t)') : Queued(t)'[i] = Queued(s)[i + 1]
    <3>1. CASE qpc = "user"
      BY <1>0, <1>3, <1>6, <3>1 DEF Queued
    <3>2. CASE qpc # "user"
      <4>1. Queued(s) = Append(s, new) /\ Queued(t)' = Append(t, new) /\ new \in Buffers
        BY <1>3, <1>10, <3>2 DEF Queued
      <4>2. /\ Len(Append(s, new)) = Len(s) + 1 /\ Append(s, new)[Len(s) + 1] = new
            /\ \A i \in 1 .. Len(s) : Append(s, new)[i] = s[i]
        BY <4>1, AppendProperties
      <4>3. /\ Len(Append(t, new)) = Len(t) + 1 /\ Append(t, new)[Len(t) + 1] = new
            /\ \A i \in 1 .. Len(t) : Append(t, new)[i] = t[i]
        BY <4>1, AppendProperties
      <4>4. ASSUME NEW i \in 1 .. Len(t) + 1
            PROVE  Append(t, new)[i] = Append(s, new)[i + 1]
        <5>1. CASE i = Len(t) + 1
          BY <1>0, <1>6, <4>2, <4>3, <5>1
        <5>2. CASE i # Len(t) + 1
          <6>0. Len(t) \in Nat /\ Len(s) = Len(t) + 1
            BY <1>0, <1>6
          <6>1. i \in 1 .. Len(t) /\ i + 1 \in 1 .. Len(s)
            BY <5>2, <6>0
          <6> QED
            BY <1>6, <4>2, <4>3, <6>1
        <5> QED
          BY <5>1, <5>2
      <4>5. Len(Append(t, new)) = Len(Append(s, new)) - 1 /\ Append(s, new)[1] = buf
            /\ Len(Append(s, new)) \in Nat /\ Len(Append(s, new)) >= 1
        BY <1>0, <1>6, <4>2, <4>3
      <4> QED
        BY <4>1, <4>3, <4>4, <4>5
    <3> QED
      BY <3>1, <3>2
  <2>2. Len(mainqueue) \in Nat /\ Done(s) \in Nat /\ Done(t)' = Done(s) + 1
    BY <1>3, <2>0, <2>1 DEF Done, InOrder, TypeOK
  <2>3. ASSUME NEW i \in 1 .. Done(s) + 1 PROVE state'[mainqueue'[i]] = "DONE"
    <3>1. CASE i = Done(s) + 1
      <4>1. 1 \in 1 .. Len(Queued(s))
        BY <2>1
      <4>2. mainqueue[Done(s) + 1] = buf
        BY <2>0, <2>1, <4>1 DEF InOrder
      <4> QED
        BY <1>0, <1>3, <3>1, <4>2
    <3>2. CASE i # Done(s) + 1
      <4>1. i \in 1 .. Done(s)
        BY <2>2, <3>2
      <4> QED
        BY <1>3, <2>0, <4>1 DEF InOrder
    <3> QED
      BY <3>1, <3>2
  <2>4. ASSUME NEW i \in 1 .. Len(Queued(t)')
        PROVE  mainqueue'[(Done(s) + 1) + i] = Queued(t)'[i]
    <3>0. i \in 1 .. Len(Queued(s)) - 1
      BY <2>1, Zenon
    <3>1. i + 1 \in 1 .. Len(Queued(s)) /\ (Done(s) + 1) + i = Done(s) + (i + 1)
      <4>1. Len(Queued(s)) \in Nat /\ Done(s) \in Nat
        BY <2>1, <2>2
      <4> QED
        BY <3>0, <4>1
    <3>2. mainqueue[Done(s) + (i + 1)] = Queued(s)[i + 1]
      BY <2>0, <3>1 DEF InOrder
    <3> QED
      BY <1>3, <2>1, <3>1, <3>2
  <2>5. Done(t)' >= 0
    BY <2>2
  <2>6. \A i \in 1 .. Done(t)' : state'[mainqueue'[i]] = "DONE"
    BY <2>2, <2>3
  <2>7. \A i \in 1 .. Len(Queued(t)') : mainqueue'[Done(t)' + i] = Queued(t)'[i]
    BY <2>2, <2>4
  <2>8. \A i, j \in 1 .. Len(mainqueue') : mainqueue'[i] = mainqueue'[j] => i = j
    BY <1>3, <2>0 DEF InOrder
  <2> QED
    BY <2>5, <2>6, <2>7, <2>8 DEF InOrder
<1> QED
  BY <1>5, <1>8, <1>11, <1>12

-----------------------------------------------------------------------------
(* Every step of QBUF, of DQBUF and of the handler keeps a good list. *)
LEMMA NextPreserves == RInv /\ [Next]_vars => RInv'
<1> SUFFICES ASSUME RInv, [Next]_vars PROVE RInv'
  OBVIOUS
<1>0. TypeOK /\ HandlerAtFirst
  BY DEF RInv
<1>1. PICK s \in Seq(Buffers) : IrqqueueIs(s)
  BY DEF RInv
<1>2. CASE UNCHANGED vars
  <2>1. TypeOK' /\ HandlerAtFirst'
    BY <1>0, <1>2 DEF vars, queueVars, qbufVars, handlerVars, TypeOK, HandlerAtFirst
  <2>2. Linked(s)' /\ QbufAtEnd(s)'
    BY <1>1, <1>2 DEF vars, queueVars, qbufVars, handlerVars, IrqqueueIs, Linked, QbufAtEnd, Ends, At
  <2>3. InOrder(s)'
    BY <1>1, <1>2 DEF vars, queueVars, qbufVars, handlerVars, IrqqueueIs, InOrder, Done, Queued
  <2> QED
    BY <2>1, <2>2, <2>3 DEF RInv, IrqqueueIs
<1>3. ASSUME NEW b \in Buffers, Qbuf(b) PROVE RInv'
  BY <1>0, <1>1, <1>3, QbufPreserves DEF RInv
<1>4. CASE ListAdd1 \/ ListAdd2
  BY <1>0, <1>1, <1>4, ListAdd12Preserves DEF RInv
<1>5. CASE ListAdd3
  BY <1>0, <1>1, <1>5, ListAdd3Preserves DEF RInv
<1>6. CASE Dqbuf
  BY <1>0, <1>1, <1>6, DqbufPreserves DEF RInv
<1>7. CASE Interrupt \/ Return
  BY <1>0, <1>1, <1>7, InterruptPreserves DEF RInv
<1>8. CASE Store \/ Finish
  BY <1>0, <1>1, <1>8, StorePreserves DEF RInv
<1>9. CASE ListDel
  BY <1>0, <1>1, <1>9, ListDelPreserves DEF RInv
<1> QED
  BY <1>2, <1>3, <1>4, <1>5, <1>6, <1>7, <1>8, <1>9 DEF Next

(***************************************************************************)
(* Forwards from its head irqqueue is a good list of waiting buffers at    *)
(* every moment, also between two pointer writes of QBUF and also after a  *)
(* completion has torn it.                                                 *)
(***************************************************************************)
THEOREM RaceInvariant == Spec => []RInv
  BY InitEstablishes, NextPreserves, PTL DEF Spec

(***************************************************************************)
(* Wherever the completion interrupts QBUF, neither list_del nor           *)
(* list_add_tail ever writes through a poisoned pointer.                   *)
(***************************************************************************)
THEOREM PoisonNeverFollowed == Spec => []NeverFollowsPoison
<1>1. RInv => NeverFollowsPoison
  <2> SUFFICES ASSUME RInv PROVE NeverFollowsPoison
    OBVIOUS
  <2>1. PICK s \in Seq(Buffers) : Linked(s) /\ QbufAtEnd(s)
    BY DEF RInv, IrqqueueIs
  <2>2. ASSUME hpc = "unlink" PROVE {next[buf], prev[buf]} \subseteq Nodes
    <3>1. Len(s) \in Nat /\ Len(s) >= 1 /\ buf = s[1]
      BY <2>1, <2>2, HandlerHasFirst DEF RInv, HandlerAtFirst
    <3>2. 1 \in 0 .. Len(s) /\ 1 \in 1 .. Len(s)
      BY <3>1
    <3>3. At(s, 1) = buf
      BY <3>1, <3>2 DEF At
    <3>4. next[buf] = At(s, 1 + 1) /\ prev[buf] = At(s, 1 - 1)
      BY <2>1, <3>1, <3>2, <3>3 DEF Linked
    <3> QED
      BY <3>4, AtFacts
  <2>3. ASSUME qpc # "user" PROVE last \in Nodes
    BY <2>1, <2>3, AtFacts DEF QbufAtEnd, Ends
  <2> QED
    BY <2>2, <2>3 DEF NeverFollowsPoison
<1> QED
  BY <1>1, RaceInvariant, PTL

(***************************************************************************)
(* A completion never finds a buffer on irqqueue that is DONE or that the  *)
(* application has dequeued, even if QBUF was interrupted or a list torn.  *)
(***************************************************************************)
THEOREM FinishedAlwaysOffList == Spec => []FinishedIsOffList
<1>1. RInv => FinishedIsOffList
  <2> SUFFICES ASSUME RInv PROVE FinishedIsOffList
    OBVIOUS
  <2>1. PICK s \in Seq(Buffers) : Linked(s)
    BY DEF RInv, IrqqueueIs
  <2>2. Chain(next) = s
    BY <2>1, ChainFollows DEF Linked
  <2>3. ASSUME hpc = "out", NEW i \in 1 .. Len(s)
        PROVE  s[i] \in Buffers /\ state[s[i]] \in {"QUEUED", "ACTIVE"}
    BY <2>1, <2>3, AtFacts DEF Linked
  <2> QED
    BY <2>2, <2>3 DEF FinishedIsOffList
<1> QED
  BY <1>1, RaceInvariant, PTL

(***************************************************************************)
(* Only a completion that removes the very entry list_add_tail has read    *)
(* as the last one makes irqqueue differ from the sequence MyuvcQueue      *)
(* takes it for; any other, between whichever two pointer writes of QBUF,  *)
(* does not.                                                               *)
(***************************************************************************)
THEOREM AlwaysOnlyTornListsBreak == Spec => []OnlyTornListsBreak
<1>1. RInv => OnlyTornListsBreak
  <2> SUFFICES ASSUME RInv, ~torn, qpc = "user", hpc = "out"
               PROVE  /\ Ready >= 0
                      /\ \A i \in 1 .. Len(mainqueue) : state[mainqueue[i]] = "DONE" <=> i <= Ready
                      /\ \A i \in 1 .. Len(Chain(next)) : mainqueue[Ready + i] = Chain(next)[i]
                      /\ Chain(prev) = Reverse(Chain(next))
    BY DEF OnlyTornListsBreak, ListIsQueue
  <2>1. PICK s \in Seq(Buffers) : Linked(s) /\ QbufAtEnd(s) /\ InOrder(s)
    BY DEF RInv, IrqqueueIs
  <2>2. Chain(next) = s
    BY <2>1, ChainFollows DEF Linked
  <2>3. /\ Queued(s) = s /\ Done(s) = Ready /\ Len(s) \in Nat /\ Len(mainqueue) \in Nat
        /\ Ready + Len(s) = Len(mainqueue) /\ Ready >= 0 /\ Ready \in Nat
    <3>1. Queued(s) = s /\ Len(s) \in Nat /\ Len(mainqueue) \in Nat
      BY DEF Queued, RInv, TypeOK
    <3>2. Done(s) = Len(mainqueue) - Len(s) /\ Ready = Len(mainqueue) - Len(s) /\ Done(s) >= 0
      BY <2>1, <2>2, <3>1 DEF Done, Ready, InOrder
    <3> QED
      BY <3>1, <3>2
  <2>4. ASSUME NEW i \in 1 .. Len(s) PROVE mainqueue[Ready + i] = s[i]
    BY <2>1, <2>3 DEF InOrder
  <2>5. ASSUME NEW i \in 1 .. Len(mainqueue)
        PROVE  state[mainqueue[i]] = "DONE" <=> i <= Ready
    <3>1. CASE i <= Ready
      <4>1. i \in 1 .. Done(s)
        BY <2>3, <3>1
      <4> QED
        BY <2>1, <3>1, <4>1 DEF InOrder
    <3>2. CASE ~(i <= Ready)
      <4>1. i - Ready \in 1 .. Len(s) /\ Ready + (i - Ready) = i
        BY <2>3, <3>2
      <4>2. mainqueue[i] = s[i - Ready]
        BY <2>4, <4>1
      <4>3. state[s[i - Ready]] \in {"QUEUED", "ACTIVE"}
        BY <2>1, <4>1 DEF Linked
      <4> QED
        BY <3>2, <4>2, <4>3
    <3> QED
      BY <3>1, <3>2
  <2>6. Chain(prev) = Reverse(s)
    <3>1. PICK t \in Seq(Buffers) : /\ t = Reverse(s) /\ Len(t) = Len(s)
                                    /\ \A i \in 1 .. Len(s) : t[i] = s[(Len(s) - i) + 1]
      <4>1. \A i \in 1 .. Len(s) : (Len(s) - i) + 1 \in 1 .. Len(s)
        BY <2>3
      <4>2. Reverse(s) = [ i \in 1 .. Len(s) |-> s[(Len(s) - i) + 1] ]
        BY DEF Reverse
      <4>3. \A i \in 1 .. Len(s) : s[(Len(s) - i) + 1] \in Buffers
        BY <4>1, AtFacts
      <4>4. Reverse(s) \in Seq(Buffers) /\ Len(Reverse(s)) = Len(s)
        BY <2>3, <4>2, <4>3
      <4> QED
        BY <4>2, <4>4
    <3>2. \A i \in 0 .. Len(s) + 1 : At(t, i) = At(s, (Len(s) - i) + 1)
      BY <2>3, <3>1 DEF At
    <3>3. ASSUME NEW i \in 1 .. Len(t), NEW j \in 1 .. Len(t), t[i] = t[j] PROVE i = j
      <4>1. (Len(s) - i) + 1 \in 1 .. Len(s) /\ (Len(s) - j) + 1 \in 1 .. Len(s)
        BY <2>3, <3>1
      <4>2. PICK p \in 1 .. Len(s), q \in 1 .. Len(s) : p = (Len(s) - i) + 1 /\ q = (Len(s) - j) + 1
        BY <4>1, Zenon
      <4>3. s[p] = s[q]
        BY <3>1, <3>3, <4>2, Zenon
      <4>4. p = q
        BY <2>1, <4>3, Zenon DEF Linked
      <4> QED
        BY <2>3, <4>2, <4>4
    <3>4. ASSUME NEW i \in 0 .. Len(t) PROVE prev[At(t, i)] = At(t, i + 1)
      <4>1. i \in 0 .. Len(s) + 1 /\ i + 1 \in 0 .. Len(s) + 1 /\ (Len(s) - (i + 1)) + 1 = Len(s) - i
        BY <2>3, <3>1
      <4>2. At(t, i) = At(s, (Len(s) - i) + 1) /\ At(t, i + 1) = At(s, Len(s) - i)
        BY <3>2, <4>1
      <4>3. CASE i = 0
        <5>1. (Len(s) - i) + 1 = Len(s) + 1 /\ Len(s) - i = Len(s)
          BY <2>3, <4>3
        <5>2. prev[HEAD] = At(s, Len(s))
          BY <2>1 DEF QbufAtEnd, Ends
        <5> QED
          BY <4>2, <5>1, <5>2, AtFacts
      <4>4. CASE i # 0
        <5>1. (Len(s) - i) + 1 \in 1 .. Len(s) /\ ((Len(s) - i) + 1) - 1 = Len(s) - i
          BY <2>3, <3>1, <4>4
        <5>2. prev[s[(Len(s) - i) + 1]] = At(s, Len(s) - i)
          BY <2>1, <5>1 DEF Linked
        <5> QED
          BY <4>2, <5>1, <5>2, AtFacts
      <4> QED
        BY <4>3, <4>4
    <3> QED
      BY <3>1, <3>3, <3>4, ChainFollows
  <2> QED
    BY <2>2, <2>3, <2>4, <2>5, <2>6
<1> QED
  BY <1>1, RaceInvariant, PTL
=============================================================================
