------------------------- MODULE MyuvcBuffersProofs -------------------------
(***************************************************************************)
(* Proofs about MyuvcBuffers, for every number and size of buffers, every  *)
(* page size and every set of mappings.                                    *)
(***************************************************************************)
EXTENDS MyuvcBuffers, FiniteSetTheorems, TLAPS

(***************************************************************************)
(* Division and the page arithmetic                                        *)
(***************************************************************************)
LEMMA DivUnique ==
  ASSUME NEW n \in Nat, NEW p \in Nat \ {0}, NEW q \in Nat, q * p <= n, n < q * p + p
  PROVE  n \div p = q
OBVIOUS

(* The pages of one buffer. *)
BufPages == (SizeImage + PageSize - 1) \div PageSize

(* An image fits into the pages of a buffer, and PAGE_ALIGN adds less than one. *)
LEMMA BufPagesFit ==
  /\ BufPages \in Nat \ {0}
  /\ PAGE_ALIGN(SizeImage) = BufPages * PageSize
  /\ SizeImage <= BufPages * PageSize
  /\ BufPages * PageSize <= SizeImage + PageSize - 1
  /\ BufPages <= SizeImage + PageSize
<1> DEFINE n == SizeImage + PageSize - 1
           k == n \div PageSize
<1>1. n \in Nat /\ PageSize \in Nat \ {0} /\ SizeImage \in Nat \ {0} /\ n = SizeImage + PageSize - 1
  BY BuffersAssumption
<1> HIDE DEF n
<1>2. k \in Nat /\ k * PageSize <= n /\ n < k * PageSize + PageSize
  BY <1>1
<1>3. BufPages = k /\ PAGE_ALIGN(SizeImage) = k * PageSize
  BY DEF BufPages, PAGE_ALIGN, n
<1> HIDE DEF k
<1>4. SizeImage <= k * PageSize
  BY <1>1, <1>2
<1>5. k # 0
  BY <1>1, <1>2
<1>6. k <= k * PageSize
  BY <1>1, <1>2
<1> QED
  BY <1>1, <1>2, <1>3, <1>4, <1>5, <1>6

(* Byte i of buffer b is on a page of buffer b. *)
LEMMA PageOfByte ==
  ASSUME NEW b \in Nat, NEW i \in 0 .. SizeImage - 1
  PROVE  (b * (BufPages * PageSize) + i) \div PageSize \in b * BufPages .. b * BufPages + BufPages - 1
<1> DEFINE q == i \div PageSize
           n == b * (BufPages * PageSize) + i
<1>1. /\ PageSize \in Nat \ {0} /\ SizeImage \in Nat \ {0} /\ i \in Nat
      /\ BufPages \in Nat \ {0} /\ i < BufPages * PageSize
  BY BuffersAssumption, BufPagesFit
<1>2. q \in Nat /\ q * PageSize <= i /\ i < q * PageSize + PageSize
  BY <1>1
<1> HIDE DEF q
<1>3. q < BufPages
  <2>1. ASSUME q >= BufPages PROVE FALSE
    <3>1. q * PageSize >= BufPages * PageSize
      BY <2>1, <1>1, <1>2
    <3> QED
      BY <3>1, <1>1, <1>2
  <2> QED
    BY <2>1, <1>1, <1>2
<1>4. n \in Nat /\ b * BufPages + q \in Nat
  BY <1>1, <1>2
<1>5. (b * BufPages + q) * PageSize = b * (BufPages * PageSize) + q * PageSize
  BY <1>1, <1>2
<1>6. (b * BufPages + q) * PageSize <= n /\ n < (b * BufPages + q) * PageSize + PageSize
  BY <1>1, <1>2, <1>5
<1> HIDE DEF n
<1>7. n \div PageSize = b * BufPages + q
  BY <1>1, <1>4, <1>6, DivUnique
<1>8. b * BufPages + q \in b * BufPages .. b * BufPages + BufPages - 1
  BY <1>1, <1>2, <1>3
<1> QED
  BY <1>7, <1>8 DEF n

(* mmap maps the pages of buffer b, and they begin where its offset says. *)
LEMMA PagesOfBuffer ==
  ASSUME NEW b \in Nat
  PROVE  /\ (b * (BufPages * PageSize)) \div PageSize = b * BufPages
         /\ PagesFrom(b * BufPages, BufPages * PageSize) = b * BufPages .. b * BufPages + BufPages - 1
<1>1. PageSize \in Nat \ {0} /\ BufPages \in Nat \ {0}
  BY BuffersAssumption, BufPagesFit
<1>2. (b * (BufPages * PageSize)) \div PageSize = b * BufPages
  <2>1. b * BufPages \in Nat /\ b * (BufPages * PageSize) = (b * BufPages) * PageSize
    BY <1>1
  <2>2. b * (BufPages * PageSize) \in Nat
    BY <1>1
  <2> QED
    BY <2>1, <2>2, <1>1, DivUnique
<1>3. (BufPages * PageSize + PageSize - 1) \div PageSize = BufPages
  <2>1. BufPages * PageSize + PageSize - 1 \in Nat
    BY <1>1
  <2> QED
    BY <2>1, <1>1, DivUnique
<1> QED
  BY <1>2, <1>3 DEF PagesFrom

(* Different buffers have different pages. *)
LEMMA PagesApart ==
  ASSUME NEW b \in Nat, NEW c \in Nat, b # c
  PROVE  (b * BufPages .. b * BufPages + BufPages - 1) \cap (c * BufPages .. c * BufPages + BufPages - 1) = {}
<1>1. BufPages \in Nat \ {0}
  BY BufPagesFit
<1>2. ASSUME NEW d \in Nat, NEW e \in Nat, d < e PROVE d * BufPages + BufPages <= e * BufPages
  <2>1. (d + 1) * BufPages <= e * BufPages
    BY <1>1, <1>2
  <2> QED
    BY <2>1, <1>1
<1>3. b * BufPages + BufPages <= c * BufPages \/ c * BufPages + BufPages <= b * BufPages
  BY <1>2
<1> QED
  BY <1>1, <1>3

(* The page numbers that mmap can produce. *)
LEMMA PagesInBlock ==
  ASSUME NEW b \in Buffers
  PROVE  b * BufPages .. b * BufPages + BufPages - 1 \subseteq Pages
<1>1. BufPages \in Nat \ {0} /\ BufPages <= SizeImage + PageSize /\ MaxBufs \in Nat \ {0}
      /\ SizeImage + PageSize \in Nat /\ b \in Nat /\ b + 1 <= MaxBufs
  BY BufPagesFit, BuffersAssumption DEF Buffers
<1>2. (b + 1) * BufPages <= MaxBufs * BufPages
  BY <1>1
<1>3. MaxBufs * BufPages <= MaxBufs * (SizeImage + PageSize)
  BY <1>1
<1>4. b * BufPages + BufPages - 1 <= MaxBufs * (SizeImage + PageSize)
  BY <1>1, <1>2, <1>3
<1>5. b * BufPages >= 0
  BY <1>1
<1> QED
  BY <1>1, <1>4, <1>5 DEF Pages

-----------------------------------------------------------------------------
(***************************************************************************)
(* The inductive invariant                                                 *)
(***************************************************************************)

(* What TypeOK says of a single mapping *)
LEMMA MappingType ==
  ASSUME TypeOK, NEW v \in Vmas
  PROVE  /\ vma[v] \in Mappings
         /\ Mapped(v) => /\ vma[v].buf \in Buffers /\ vma[v].buf \in Nat
                         /\ vma[v].pages \in SUBSET Pages /\ vma[v].stale \in BOOLEAN
         /\ ~Mapped(v) => vma[v] = Unmapped
  BY BuffersAssumption DEF TypeOK, Mappings, Mapped, Buffers

(* The mappings of a buffer are finitely many, and at most all there are. *)
LEMMA MappingsCounted ==
  ASSUME TypeOK, NEW b \in Buffers
  PROVE  /\ IsFiniteSet(MappingsOf(b))
         /\ Cardinality(Vmas) \in Nat
         /\ Cardinality(MappingsOf(b)) \in 0 .. Cardinality(Vmas)
<1>1. MappingsOf(b) \subseteq Vmas /\ IsFiniteSet(Vmas)
  BY BuffersAssumption DEF MappingsOf
<1> QED
  BY <1>1, FS_Subset, FS_CardinalityType

(* Without a mapping MappingsOf is empty. *)
LEMMA NothingMapped ==
  ASSUME TypeOK, \A v \in Vmas : ~Mapped(v), NEW b \in Buffers
  PROVE  Cardinality(MappingsOf(b)) = 0
<1>1. \A v \in Vmas : vma[v].buf = -1
  BY MappingType DEF Unmapped
<1>2. MappingsOf(b) = {}
  BY <1>1, BuffersAssumption DEF MappingsOf, Buffers
<1> QED
  BY <1>2, FS_EmptySet

LEMMA InitEstablishes == Init => BInv
<1> SUFFICES ASSUME Init PROVE BInv
  OBVIOUS
<1>1. Cardinality(Vmas) \in Nat
  BY BuffersAssumption, FS_CardinalityType
<1>2. TypeOK
  <2>1. 0 \in -Cardinality(Vmas) .. Cardinality(Vmas)
    BY <1>1
  <2>2. vma \in [Vmas -> Mappings]
    BY DEF Init, Mappings
  <2>3. vma_use_count \in [Buffers -> -Cardinality(Vmas) .. Cardinality(Vmas)]
    BY <2>1 DEF Init
  <2>4. count \in 0 .. MaxBufs /\ buf_size \in 0 .. SizeImage + PageSize
    BY BuffersAssumption DEF Init
  <2> QED
    BY <2>2, <2>3, <2>4 DEF Init, TypeOK
<1>3. SideBySide
  BY DEF Init, SideBySide, Mapped
<1>4. UseCounted
  <2>1. \A b \in Buffers : Cardinality(MappingsOf(b)) = 0
    BY <1>2, NothingMapped DEF Init, Mapped
  <2> QED
    BY <2>1, <1>1 DEF Init, UseCounted
<1>5. StaleIsOrphaned
  BY DEF Init, StaleIsOrphaned, Unmapped
<1> QED
  BY <1>2, <1>3, <1>4, <1>5 DEF BInv

LEMMA SFmtPreserves == ASSUME BInv, SFmt PROVE BInv'
<1>1. TypeOK'
  BY DEF BInv, TypeOK, SFmt
<1>2. SideBySide'
  BY DEF BInv, SideBySide, SFmt, Mapped, Offset
<1>3. UseCounted' /\ StaleIsOrphaned'
  BY DEF BInv, UseCounted, StaleIsOrphaned, MappingsOf, SFmt
<1> QED
  BY <1>1, <1>2, <1>3 DEF BInv

(* REQBUFS leaves every mapping as it is and marks it stale. *)
LEMMA ReqbufsPreserves == ASSUME BInv, NEW n \in 0 .. MaxBufs, Reqbufs(n) PROVE BInv'
<1>0. TypeOK
  BY DEF BInv, TypeOK
<1>1. \A v \in Vmas :
        /\ vma'[v] \in Mappings
        /\ vma'[v].buf = vma[v].buf
        /\ vma'[v] = Unmapped <=> ~Mapped(v)
        /\ vma'[v].stale => Mapped(v)
        /\ vma'[v] # Unmapped => vma'[v].stale
  <2> TAKE v \in Vmas
  <2>1. CASE Mapped(v)
    <3>1. vma[v] \in [buf : Buffers, pages : SUBSET Pages, stale : BOOLEAN]
      BY <2>1, <1>0, MappingType DEF Mapped, Mappings
    <3>2. vma'[v] = [vma[v] EXCEPT !.stale = TRUE]
      BY <2>1 DEF Reqbufs
    <3>3. vma'[v] \in Mappings /\ vma'[v].buf = vma[v].buf /\ vma'[v].stale = TRUE
      BY <3>1, <3>2 DEF Mappings
    <3>4. Unmapped.stale = FALSE
      BY DEF Unmapped
    <3> QED
      BY <3>3, <3>4, <2>1
  <2>2. CASE ~Mapped(v)
    BY <2>2, <1>0, MappingType DEF Reqbufs, Mappings, Unmapped
  <2> QED
    BY <2>1, <2>2
<1>2. TypeOK'
  <2>1. vma' \in [Vmas -> Mappings]
    BY <1>1 DEF Reqbufs
  <2>2. buf_size' \in 0 .. SizeImage + PageSize
    <3>1. n > 0 => sizeimage = SizeImage
      BY <1>0, BuffersAssumption DEF Reqbufs, TypeOK
    <3> QED
      BY <3>1, BufPagesFit, BuffersAssumption DEF Reqbufs
  <2>3. vma_use_count' \in [Buffers -> -Cardinality(Vmas) .. Cardinality(Vmas)]
    <3>1. Cardinality(Vmas) \in Nat
      BY BuffersAssumption, FS_CardinalityType
    <3>2. 0 \in -Cardinality(Vmas) .. Cardinality(Vmas)
      BY <3>1
    <3> QED
      BY <1>0, <3>2 DEF TypeOK, Reqbufs
  <2> QED
    BY <2>1, <2>2, <2>3, <1>0 DEF TypeOK, Reqbufs
<1>3. SideBySide'
  <2>1. (count > 0 => sizeimage = SizeImage)'
    BY <1>0, BuffersAssumption DEF Reqbufs, TypeOK
  <2>2. (buf_size = IF count > 0 THEN PAGE_ALIGN(SizeImage) ELSE 0)'
    BY <2>1 DEF Reqbufs
  <2>3. \A v \in Vmas : ~ (Mapped(v)' /\ ~vma'[v].stale)
    BY <1>1 DEF Mapped
  <2> QED
    BY <2>1, <2>2, <2>3 DEF SideBySide
<1>4. \A b \in Buffers : MappingsOf(b)' = MappingsOf(b)
  BY <1>1 DEF MappingsOf
<1>5. UseCounted'
  <2> SUFFICES ASSUME NEW b \in Buffers
      PROVE /\ vma_use_count'[b] \in Cardinality(MappingsOf(b)) - Cardinality(Vmas) .. Cardinality(MappingsOf(b))
            /\ ~orphaned' /\ count' > 0 => vma_use_count'[b] = Cardinality(MappingsOf(b))
    BY <1>4 DEF UseCounted
  <2>1. /\ Cardinality(Vmas) \in Nat
        /\ Cardinality(MappingsOf(b)) \in 0 .. Cardinality(Vmas)
    BY <1>0, MappingsCounted
  <2>2. CASE count > 0 \/ n > 0
    <3>1. vma_use_count'[b] = 0
      BY <2>2 DEF Reqbufs
    <3>2. ~orphaned' => Cardinality(MappingsOf(b)) = 0
      BY <1>0, NothingMapped DEF Reqbufs
    <3> QED
      BY <2>1, <3>1, <3>2
  <2>3. CASE ~ (count > 0 \/ n > 0)
    BY <2>3 DEF Reqbufs, BInv, UseCounted
  <2> QED
    BY <2>2, <2>3
<1>6. StaleIsOrphaned'
  BY <1>1 DEF StaleIsOrphaned, Reqbufs
<1> QED
  BY <1>2, <1>3, <1>5, <1>6 DEF BInv

(* A mapping that is added to, or taken from, those of buffer b *)
LEMMA OneMappingMore ==
  ASSUME TypeOK, NEW v \in Vmas, NEW b \in Buffers, vma[v].buf # b, NEW m,
         vma' = [vma EXCEPT ![v] = m], m.buf = b
  PROVE  /\ Cardinality(MappingsOf(b)') = Cardinality(MappingsOf(b)) + 1
         /\ \A c \in Buffers : c # b /\ vma[v].buf # c => MappingsOf(c)' = MappingsOf(c)
<1>1. vma \in [Vmas -> Mappings]
  BY DEF TypeOK
<1>2. MappingsOf(b)' = MappingsOf(b) \cup {v} /\ v \notin MappingsOf(b)
  BY <1>1 DEF MappingsOf
<1>3. Cardinality(MappingsOf(b) \cup {v}) = Cardinality(MappingsOf(b)) + 1
  BY <1>2, MappingsCounted, FS_AddElement
<1>4. \A c \in Buffers : c # b /\ vma[v].buf # c => MappingsOf(c)' = MappingsOf(c)
  BY <1>1 DEF MappingsOf
<1> QED
  BY <1>2, <1>3, <1>4

LEMMA OneMappingLess ==
  ASSUME TypeOK, NEW v \in Vmas, NEW b \in Buffers, vma[v].buf = b, NEW m,
         vma' = [vma EXCEPT ![v] = m], m.buf \notin Buffers
  PROVE  /\ Cardinality(MappingsOf(b)') = Cardinality(MappingsOf(b)) - 1
         /\ \A c \in Buffers : c # b => MappingsOf(c)' = MappingsOf(c)
<1>1. vma \in [Vmas -> Mappings]
  BY DEF TypeOK
<1>2. MappingsOf(b)' = MappingsOf(b) \ {v} /\ v \in MappingsOf(b)
  BY <1>1 DEF MappingsOf
<1>3. Cardinality(MappingsOf(b) \ {v}) = Cardinality(MappingsOf(b)) - 1
  BY <1>2, MappingsCounted, FS_RemoveElement
<1>4. \A c \in Buffers : c # b => MappingsOf(c)' = MappingsOf(c)
  BY <1>1 DEF MappingsOf
<1> QED
  BY <1>2, <1>3, <1>4

(***************************************************************************)
(* mmap and vm_open count the new mapping, whatever it shows: a mapping m  *)
(* of buffer b in a free place v.                                          *)
(***************************************************************************)
LEMMA CountsUp ==
  ASSUME BInv, NEW v \in Vmas, ~Mapped(v), NEW b \in Buffers,
         NEW m \in [buf : Buffers, pages : SUBSET Pages, stale : BOOLEAN], m.buf = b,
         vma' = [vma EXCEPT ![v] = m],
         vma_use_count' = [vma_use_count EXCEPT ![b] = @ + 1],
         UNCHANGED <<sizeimage, count, buf_size, orphaned>>
  PROVE  TypeOK' /\ UseCounted'
<1>0. /\ TypeOK /\ vma \in [Vmas -> Mappings] /\ vma[v] = Unmapped
      /\ vma_use_count \in [Buffers -> -Cardinality(Vmas) .. Cardinality(Vmas)]
  BY MappingType DEF BInv, TypeOK
<1>1. \A c \in Buffers : vma[v].buf # c
  BY <1>0, BuffersAssumption DEF Unmapped, Buffers
<1>2. /\ Cardinality(MappingsOf(b)') = Cardinality(MappingsOf(b)) + 1
      /\ \A c \in Buffers : c # b => MappingsOf(c)' = MappingsOf(c)
  BY <1>0, <1>1, OneMappingMore
<1>3. vma' \in [Vmas -> Mappings]
  BY <1>0 DEF Mappings
<1>4. MappingsOf(b)' \subseteq Vmas
  BY DEF MappingsOf
<1>5. /\ Cardinality(Vmas) \in Nat
      /\ Cardinality(MappingsOf(b)) \in 0 .. Cardinality(Vmas)
      /\ Cardinality(MappingsOf(b)') <= Cardinality(Vmas)
  BY <1>0, <1>4, MappingsCounted, BuffersAssumption, FS_Subset
<1>6. UseCounted'
  <2>1. ASSUME NEW c \in Buffers
        PROVE  /\ vma_use_count'[c] \in Cardinality(MappingsOf(c)') - Cardinality(Vmas) .. Cardinality(MappingsOf(c)')
               /\ ~orphaned' /\ count' > 0 => vma_use_count'[c] = Cardinality(MappingsOf(c)')
    <3>1. CASE c = b
      <4>1. vma_use_count'[c] = vma_use_count[c] + 1
        BY <3>1, <1>0
      <4> HIDE DEF MappingsOf
      <4> QED
        BY <4>1, <3>1, <1>2, <1>5 DEF BInv, UseCounted
    <3>2. CASE c # b
      BY <3>2, <1>0, <1>2 DEF BInv, UseCounted
    <3> QED
      BY <3>1, <3>2
  <2> QED
    BY <2>1 DEF UseCounted
<1>7. vma_use_count' \in [Buffers -> -Cardinality(Vmas) .. Cardinality(Vmas)]
  <2>1. vma_use_count'[b] \in -Cardinality(Vmas) .. Cardinality(Vmas)
    BY <1>2, <1>5, <1>6 DEF UseCounted
  <2>2. vma_use_count'[b] = vma_use_count[b] + 1
    BY <1>0
  <2> QED
    BY <2>1, <2>2, <1>0
<1>8. TypeOK'
  BY <1>0, <1>3, <1>7 DEF TypeOK
<1> QED
  BY <1>6, <1>8

(* mmap finds the only buffer with that offset, and maps all of its pages. *)
LEMMA MmapPreserves ==
  ASSUME BInv, NEW v \in Vmas, NEW pgoff \in Pages, NEW size, Mmap(v, pgoff, size)
  PROVE  BInv'
<1>1. PICK b \in Buffers :
        /\ b < count
        /\ Offset(b) \div PageSize = pgoff
        /\ vma' = [vma EXCEPT ![v] = [buf |-> b, pages |-> PagesFrom(Offset(b) \div PageSize, size), stale |-> FALSE]]
        /\ vma_use_count' = [vma_use_count EXCEPT ![b] = @ + 1]
  BY DEF Mmap
<1> DEFINE m == [buf |-> b, pages |-> PagesFrom(Offset(b) \div PageSize, size), stale |-> FALSE]
<1>2. /\ TypeOK /\ vma \in [Vmas -> Mappings] /\ ~Mapped(v) /\ size = buf_size
      /\ UNCHANGED <<sizeimage, count, buf_size, orphaned>>
      /\ b \in Nat /\ count \in Nat
  BY BuffersAssumption DEF BInv, TypeOK, Mmap, Buffers
<1>3. buf_size = BufPages * PageSize /\ Offset(b) = b * (BufPages * PageSize)
  BY <1>1, <1>2, BufPagesFit DEF BInv, SideBySide, Offset
<1>4. PagesFrom(Offset(b) \div PageSize, size) = b * BufPages .. b * BufPages + BufPages - 1
  BY <1>1, <1>2, <1>3, PagesOfBuffer
<1>5. m \in [buf : Buffers, pages : SUBSET Pages, stale : BOOLEAN] /\ m.buf = b
  BY <1>4, PagesInBlock
<1>6. TypeOK' /\ UseCounted'
  BY <1>1, <1>2, <1>5, CountsUp
<1>7. SideBySide'
  <2>1. ASSUME NEW w \in Vmas, vma'[w] # Unmapped, ~vma'[w].stale
        PROVE  /\ vma'[w].buf < count
               /\ vma'[w].pages = PagesFrom((vma'[w].buf * buf_size) \div PageSize, buf_size)
    <3>1. CASE w = v
      <4>1. vma'[w] = m
        BY <3>1, <1>1, <1>2
      <4> QED
        BY <4>1, <1>1, <1>2 DEF Offset
    <3>2. CASE w # v
      <4>1. vma'[w] = vma[w]
        BY <3>2, <1>1, <1>2
      <4> QED
        BY <4>1, <2>1 DEF BInv, SideBySide, Mapped, Offset
    <3> QED
      BY <3>1, <3>2
  <2> QED
    BY <2>1, <1>2 DEF BInv, SideBySide, Mapped, Offset
<1>8. StaleIsOrphaned'
  BY <1>1, <1>2 DEF BInv, StaleIsOrphaned
<1> QED
  BY <1>6, <1>7, <1>8 DEF BInv

(* vm_open: the copy shows what the original shows. *)
LEMMA VmOpenPreserves ==
  ASSUME BInv, NEW v \in Vmas, NEW w \in Vmas, VmOpen(v, w)
  PROVE  BInv'
<1>1. /\ TypeOK /\ vma \in [Vmas -> Mappings] /\ Mapped(v) /\ ~Mapped(w)
      /\ vma' = [vma EXCEPT ![w] = vma[v]]
      /\ vma_use_count' = [vma_use_count EXCEPT ![vma[v].buf] = @ + 1]
      /\ UNCHANGED <<sizeimage, count, buf_size, orphaned>>
  BY DEF BInv, TypeOK, VmOpen
<1>2. vma[v] \in [buf : Buffers, pages : SUBSET Pages, stale : BOOLEAN] /\ vma[v].buf \in Buffers
  BY <1>1, MappingType DEF Mappings, Mapped
<1>3. TypeOK' /\ UseCounted'
  BY <1>1, <1>2, CountsUp
<1>4. \A x \in Vmas : vma'[x] = vma[x] \/ vma'[x] = vma[v]
  BY <1>1
<1>5. SideBySide'
  BY <1>1, <1>4 DEF BInv, SideBySide, Mapped, Offset
<1>6. StaleIsOrphaned'
  BY <1>1, <1>4 DEF BInv, StaleIsOrphaned
<1> QED
  BY <1>3, <1>5, <1>6 DEF BInv

(* vm_close counts the use of the buffer with the number of the mapping down. *)
LEMMA VmClosePreserves ==
  ASSUME BInv, NEW v \in Vmas, VmClose(v)
  PROVE  BInv'
<1>0. PICK b \in Buffers : b = vma[v].buf
  BY MappingType DEF BInv, VmClose
<1>1. /\ TypeOK /\ vma \in [Vmas -> Mappings] /\ Mapped(v)
      /\ vma_use_count \in [Buffers -> -Cardinality(Vmas) .. Cardinality(Vmas)]
      /\ vma' = [vma EXCEPT ![v] = Unmapped]
      /\ vma_use_count' = [vma_use_count EXCEPT ![b] = @ - 1]
      /\ UNCHANGED <<sizeimage, count, buf_size, orphaned>>
  BY <1>0 DEF BInv, TypeOK, VmClose
<1>2. vma[v].buf = b /\ Unmapped.buf \notin Buffers /\ Unmapped.stale = FALSE
  BY <1>0, BuffersAssumption DEF Unmapped, Buffers
<1>3. /\ Cardinality(MappingsOf(b)') = Cardinality(MappingsOf(b)) - 1
      /\ \A c \in Buffers : c # b => MappingsOf(c)' = MappingsOf(c)
  BY <1>1, <1>2, OneMappingLess
<1>4. vma' \in [Vmas -> Mappings] /\ \A x \in Vmas : vma'[x] = vma[x] \/ vma'[x] = Unmapped
  BY <1>1 DEF Mappings
<1>5. MappingsOf(b)' \subseteq Vmas
  BY DEF MappingsOf
<1>6. /\ Cardinality(Vmas) \in Nat
      /\ Cardinality(MappingsOf(b)) \in 0 .. Cardinality(Vmas)
      /\ Cardinality(MappingsOf(b)') \in Nat
  BY <1>1, <1>2, <1>5, MappingsCounted, BuffersAssumption, FS_Subset, FS_CardinalityType
<1>7. UseCounted'
  <2>1. ASSUME NEW c \in Buffers
        PROVE  /\ vma_use_count'[c] \in Cardinality(MappingsOf(c)') - Cardinality(Vmas) .. Cardinality(MappingsOf(c)')
               /\ ~orphaned' /\ count' > 0 => vma_use_count'[c] = Cardinality(MappingsOf(c)')
    <3>1. CASE c = b
      <4>1. vma_use_count'[c] = vma_use_count[c] - 1
        BY <3>1, <1>1
      <4> QED
        BY <4>1, <3>1, <1>1, <1>3, <1>6 DEF BInv, UseCounted
    <3>2. CASE c # b
      BY <3>2, <1>1, <1>3 DEF BInv, UseCounted
    <3> QED
      BY <3>1, <3>2
  <2> QED
    BY <2>1 DEF UseCounted
<1>8. vma_use_count' \in [Buffers -> -Cardinality(Vmas) .. Cardinality(Vmas)]
  <2>1. vma_use_count'[b] \in -Cardinality(Vmas) .. Cardinality(Vmas)
    BY <1>2, <1>3, <1>6, <1>7 DEF UseCounted
  <2>2. vma_use_count'[b] = vma_use_count[b] - 1
    BY <1>1, <1>2
  <2> QED
    BY <2>1, <2>2, <1>1
<1>9. TypeOK'
  BY <1>1, <1>4, <1>8 DEF TypeOK
<1>10. SideBySide'
  BY <1>1, <1>4 DEF BInv, SideBySide, Mapped, Offset
<1>11. StaleIsOrphaned'
  BY <1>1, <1>2, <1>4 DEF BInv, StaleIsOrphaned
<1> QED
  BY <1>7, <1>9, <1>10, <1>11 DEF BInv

LEMMA NextPreserves == BInv /\ [Next]_vars => BInv'
<1>1. ASSUME BInv, UNCHANGED vars PROVE BInv'
  BY <1>1 DEF BInv, TypeOK, SideBySide, UseCounted, StaleIsOrphaned, Mapped, MappingsOf, Offset, vars
<1> QED
  BY <1>1, SFmtPreserves, ReqbufsPreserves, MmapPreserves, VmOpenPreserves, VmClosePreserves DEF Next

(* BInv is an invariant of the memory behind the buffers. *)
THEOREM BuffersInvariant == Spec => []BInv
<1> QED
  BY InitEstablishes, NextPreserves, PTL DEF Spec

-----------------------------------------------------------------------------
(***************************************************************************)
(* The sizes of mmap in the model include that of a buffer, whatever the   *)
(* size of an image and of a page: no claim about mappings is empty.       *)
(***************************************************************************)
LEMMA BufferSizeOffered == PAGE_ALIGN(SizeImage) \in MmapSizes
<1> DEFINE k == SizeImage \div PageSize
<1>1. SizeImage \in Nat /\ PageSize \in Nat \ {0}
  BY BuffersAssumption
<1>2. k \in Nat /\ SizeImage < k * PageSize + PageSize
  BY <1>1
<1>3. /\ BufPages \in Nat \ {0} /\ PAGE_ALIGN(SizeImage) = BufPages * PageSize
      /\ BufPages * PageSize <= SizeImage + PageSize - 1
  BY BufPagesFit
<1> HIDE DEF k
<1>4. BufPages * PageSize < (k + 2) * PageSize
  BY <1>1, <1>2, <1>3
<1>5. BufPages < k + 2
  BY <1>1, <1>2, <1>3, <1>4
<1>6. PAGE_ALIGN(SizeImage) = PageSize * BufPages /\ BufPages \in 1 .. k + 2
  BY <1>1, <1>2, <1>3, <1>5
<1> QED
  BY <1>6 DEF MmapSizes, k

(***************************************************************************)
(* The types, with the bounds they put on what the driver counts: neither  *)
(* fork nor REQBUFS with buffers mapped drives vma_use_count further from  *)
(* zero than there are mappings, and no mapping reaches past the block.    *)
(***************************************************************************)
THEOREM BuffersTypeOK == Spec => []TypeOK
<1>1. BInv => TypeOK
  BY DEF BInv
<1> QED
  BY <1>1, BuffersInvariant, PTL

(***************************************************************************)
(* A mapping of the block there is shows every page the completion handler *)
(* writes for its buffer and none it writes for another, for all image and *)
(* page sizes: PAGE_ALIGN, the offsets and mmap's search fit together.     *)
(***************************************************************************)
THEOREM MappedAlwaysFilled == Spec => []MappedIsFilled
<1>1. ASSUME BInv PROVE MappedIsFilled
  <2> SUFFICES ASSUME NEW v \in Vmas, Mapped(v), ~vma[v].stale
      PROVE /\ vma[v].buf < count
            /\ Written(vma[v].buf) \subseteq vma[v].pages
            /\ \A c \in Buffers : c < count /\ c # vma[v].buf => Written(c) \cap vma[v].pages = {}
    BY DEF MappedIsFilled
  <2> DEFINE b == vma[v].buf
  <2>1. b \in Nat /\ b < count /\ count \in Nat /\ vma[v].pages = PagesFrom(Offset(b) \div PageSize, buf_size)
    BY <1>1, MappingType DEF BInv, TypeOK, SideBySide
  <2>2. buf_size = BufPages * PageSize
    BY <1>1, <2>1, BufPagesFit DEF BInv, SideBySide
  <2> HIDE DEF b
  <2>3. vma[v].pages = b * BufPages .. b * BufPages + BufPages - 1
    BY <2>1, <2>2, PagesOfBuffer DEF Offset
  <2>4. ASSUME NEW c \in Nat PROVE Written(c) \subseteq c * BufPages .. c * BufPages + BufPages - 1
    BY <2>2, PageOfByte DEF Written, Offset
  <2>5. \A c \in Buffers : c \in Nat
    BY DEF Buffers
  <2> QED
    BY <2>1, <2>3, <2>4, <2>5, PagesApart DEF b
<1> QED
  BY <1>1, BuffersInvariant, PTL

(***************************************************************************)
(* QUERYBUF says MAPPED of exactly the mapped buffers, unless REQBUFS was  *)
(* called with a buffer mapped: then, and only then, vma_use_count differs *)
(* from the number of mappings.                                            *)
(***************************************************************************)
THEOREM MappedFlagAlwaysTrue == Spec => []MappedFlagTrue
<1>1. ASSUME BInv PROVE MappedFlagTrue
  <2> SUFFICES ASSUME ~orphaned, NEW b \in Buffers, b < count
      PROVE QuerybufMapped(b) <=> \E v \in Vmas : vma[v].buf = b /\ ~vma[v].stale
    BY DEF MappedFlagTrue
  <2>1. count > 0 /\ vma_use_count[b] = Cardinality(MappingsOf(b))
    BY <1>1 DEF BInv, TypeOK, UseCounted, Buffers
  <2>2. Cardinality(MappingsOf(b)) = 0 <=> MappingsOf(b) = {}
    BY <1>1, MappingsCounted, FS_EmptySet DEF BInv
  <2>3. MappingsOf(b) = {v \in Vmas : vma[v].buf = b /\ ~vma[v].stale}
    BY <1>1 DEF BInv, StaleIsOrphaned, MappingsOf
  <2> QED
    BY <2>1, <2>2, <2>3 DEF QuerybufMapped
<1> QED
  BY <1>1, BuffersInvariant, PTL
=============================================================================
