---------------------------- MODULE MyuvcBuffers ----------------------------
(***************************************************************************)
(* The memory behind the buffers of myuvc/10_th/uvc.c: VIDIOC_S_FMT fixes  *)
(* the size of an image, VIDIOC_REQBUFS allocates all buffers as one block *)
(* and mmap maps one of them, found by its offset, into the application.   *)
(*                                                                         *)
(* A mapping keeps its pages when the block is freed (vm_insert_page takes *)
(* a reference), and vm_open and vm_close count the mappings of a buffer   *)
(* in a field of myuvc_queue, which VIDIOC_REQBUFS clears.                 *)
(***************************************************************************)
EXTENDS Integers, FiniteSets

CONSTANTS
  MaxBufs,
  PageSize,
  SizeImage,    (* dwMaxVideoFrameSize                                      *)
  Vmas          (* identities of mappings                                   *)

ASSUME BuffersAssumption ==
  /\ MaxBufs \in Nat \ {0}
  /\ PageSize \in Nat \ {0}
  /\ SizeImage \in Nat \ {0}
  /\ IsFiniteSet(Vmas)

VARIABLES
  sizeimage,      (* myuvc_format.fmt.pix.sizeimage                         *)
  count,          (* myuvc_queue.count                                      *)
  buf_size,       (* myuvc_queue.buf_size                                   *)
  vma_use_count,  (* buffer[i].vma_use_count                                *)
  vma,            (* the mappings of the application                        *)
  orphaned        (* history: something was mapped at the last REQBUFS      *)

vars == <<sizeimage, count, buf_size, vma_use_count, vma, orphaned>>

Buffers == 0 .. MaxBufs - 1

(* Numbers of pages in the block. *)
Pages == 0 .. MaxBufs * (SizeImage + PageSize)

Unmapped == [buf |-> -1, pages |-> {}, stale |-> FALSE]

(* stale: the block it maps has been freed by REQBUFS. *)
Mappings == [buf : Buffers, pages : SUBSET Pages, stale : BOOLEAN] \cup {Unmapped}

Mapped(v) == vma[v] # Unmapped

TypeOK ==
  /\ sizeimage \in {0, SizeImage}
  /\ count \in 0 .. MaxBufs
  /\ buf_size \in 0 .. SizeImage + PageSize
  /\ vma_use_count \in [Buffers -> -Cardinality(Vmas) .. Cardinality(Vmas)]
  /\ vma \in [Vmas -> Mappings]
  /\ orphaned \in BOOLEAN

Init ==
  /\ sizeimage = 0
  /\ count = 0
  /\ buf_size = 0
  /\ vma_use_count = [b \in Buffers |-> 0]
  /\ vma = [v \in Vmas |-> Unmapped]
  /\ orphaned = FALSE

-----------------------------------------------------------------------------
(* One slip away: shifted left twice. *)
PAGE_SHIFTED(n) == (n + PageSize - 1) * PageSize

PAGE_ALIGN(n) == ((n + PageSize - 1) \div PageSize) * PageSize

(* buffer[b].buf.m.offset *)
Offset(b) == b * buf_size

(***************************************************************************)
(* VIDIOC_S_FMT with the one format the camera has; any other is refused.  *)
(* Every accepted format has the same size.                                *)
(***************************************************************************)
SFmt ==
  /\ sizeimage' = SizeImage
  /\ UNCHANGED <<count, buf_size, vma_use_count, vma, orphaned>>

(***************************************************************************)
(* VIDIOC_REQBUFS that gets n buffers.  Without S_FMT the size is zero,    *)
(* vmalloc_32(0) fails and n is 0.  free_buffers clears myuvc_queue if     *)
(* there was a block, and so does a new allocation.  Mappings do not stop  *)
(* it.                                                                     *)
(***************************************************************************)
Reqbufs(n) ==
  /\ n > 0 => sizeimage > 0
  /\ count' = n
  /\ buf_size' = IF n > 0 THEN PAGE_ALIGN(sizeimage) ELSE 0
  /\ vma_use_count' = IF count > 0 \/ n > 0 THEN [b \in Buffers |-> 0] ELSE vma_use_count
  /\ vma' = [v \in Vmas |-> IF Mapped(v) THEN [vma[v] EXCEPT !.stale = TRUE] ELSE Unmapped]
  /\ orphaned' = \E v \in Vmas : Mapped(v)
  /\ UNCHANGED sizeimage

(* The page numbers from first on that hold size bytes. *)
PagesFrom(first, size) == first .. first + (size + PageSize - 1) \div PageSize - 1

(* One slip away: the size is not compared with that of a buffer. *)
MmapAnySize(v, pgoff, size) ==
  /\ ~Mapped(v)
  /\ \E b \in Buffers :
       /\ b < count
       /\ Offset(b) \div PageSize = pgoff
       /\ \A c \in Buffers : c < b => Offset(c) \div PageSize # pgoff
       /\ vma' = [vma EXCEPT ![v] = [buf |-> b, pages |-> PagesFrom(Offset(b) \div PageSize, size), stale |-> FALSE]]
       /\ vma_use_count' = [vma_use_count EXCEPT ![b] = @ + 1]
  /\ UNCHANGED <<sizeimage, count, buf_size, orphaned>>

(***************************************************************************)
(* mmap of size bytes at page pgoff: the loop looks for the buffer with    *)
(* that offset; the size must be that of a buffer.  The pages are those    *)
(* from the offset of the buffer found on.                                 *)
(***************************************************************************)
Mmap(v, pgoff, size) ==
  /\ ~Mapped(v)
  /\ size = buf_size
  /\ \E b \in Buffers :
       /\ b < count
       /\ Offset(b) \div PageSize = pgoff
       /\ \A c \in Buffers : c < b => Offset(c) \div PageSize # pgoff
       /\ vma' = [vma EXCEPT ![v] = [buf |-> b, pages |-> PagesFrom(Offset(b) \div PageSize, size), stale |-> FALSE]]
       /\ vma_use_count' = [vma_use_count EXCEPT ![b] = @ + 1]
  /\ UNCHANGED <<sizeimage, count, buf_size, orphaned>>

(* myuvc_vm_open: a mapping is duplicated, as by fork. *)
VmOpen(v, w) ==
  /\ Mapped(v)
  /\ ~Mapped(w)
  /\ vma' = [vma EXCEPT ![w] = vma[v]]
  /\ vma_use_count' = [vma_use_count EXCEPT ![vma[v].buf] = @ + 1]
  /\ UNCHANGED <<sizeimage, count, buf_size, orphaned>>

(* One slip away: nothing is counted when a mapping goes away. *)
VmCloseUncounted(v) ==
  /\ Mapped(v)
  /\ vma' = [vma EXCEPT ![v] = Unmapped]
  /\ UNCHANGED <<sizeimage, count, buf_size, vma_use_count, orphaned>>

(* myuvc_vm_close: a mapping goes away. *)
VmClose(v) ==
  /\ Mapped(v)
  /\ vma' = [vma EXCEPT ![v] = Unmapped]
  /\ vma_use_count' = [vma_use_count EXCEPT ![vma[v].buf] = @ - 1]
  /\ UNCHANGED <<sizeimage, count, buf_size, orphaned>>

(* V4L2_BUF_FLAG_MAPPED in the answer of VIDIOC_QUERYBUF. *)
QuerybufMapped(b) == vma_use_count[b] # 0

(***************************************************************************)
(* The sizes an application maps: whole pages, from one page to one more   *)
(* than any buffer has.                                                    *)
(***************************************************************************)
MmapSizes == {PageSize * n : n \in 1 .. SizeImage \div PageSize + 2}

Next ==
  \/ SFmt
  \/ \E n \in 0 .. MaxBufs : Reqbufs(n)
  \/ \E v \in Vmas, pgoff \in Pages, size \in MmapSizes : Mmap(v, pgoff, size)
  \/ \E v, w \in Vmas : VmOpen(v, w)
  \/ \E v \in Vmas : VmClose(v)

Spec == Init /\ [][Next]_vars

-----------------------------------------------------------------------------
(* Properties *)

(* The pages the completion handler writes when it fills buffer b. *)
Written(b) == { (Offset(b) + i) \div PageSize : i \in 0 .. SizeImage - 1 }

(***************************************************************************)
(* A mapping that no REQBUFS has made stale shows all of its buffer and    *)
(* nothing of any other: the offsets REQBUFS hands out, the page arithmetic*)
(* of mmap and the bytes the completion handler writes fit together.       *)
(***************************************************************************)
MappedIsFilled ==
  \A v \in Vmas :
    Mapped(v) /\ ~vma[v].stale =>
      /\ vma[v].buf < count
      /\ Written(vma[v].buf) \subseteq vma[v].pages
      /\ \A c \in Buffers : c < count /\ c # vma[v].buf => Written(c) \cap vma[v].pages = {}

(***************************************************************************)
(* QUERYBUF says MAPPED of exactly the buffers that are mapped, through    *)
(* fork, unmapping in any order and new allocations, unless REQBUFS was    *)
(* called with a buffer mapped: vm_close of such a mapping counts the use  *)
(* of a new buffer down.  The next REQBUFS with nothing mapped mends it.   *)
(***************************************************************************)
MappedFlagTrue ==
  ~orphaned =>
    \A b \in Buffers : b < count =>
      (QuerybufMapped(b) <=> \E v \in Vmas : vma[v].buf = b /\ ~vma[v].stale)

-----------------------------------------------------------------------------
(* Why they hold *)

(* The mappings of buffer b, of the block there is or of one freed before. *)
MappingsOf(b) == {v \in Vmas : vma[v].buf = b}

(* The buffers lie side by side in whole pages, and mmap has found its own. *)
SideBySide ==
  /\ count > 0 => sizeimage = SizeImage
  /\ buf_size = IF count > 0 THEN PAGE_ALIGN(SizeImage) ELSE 0
  /\ \A v \in Vmas :
       Mapped(v) /\ ~vma[v].stale =>
         /\ vma[v].buf < count
         /\ vma[v].pages = PagesFrom(Offset(vma[v].buf) \div PageSize, buf_size)

(***************************************************************************)
(* vma_use_count is behind the number of mappings by those that were there *)
(* at the last REQBUFS that cleared it, and there were none unless         *)
(* something is orphaned.                                                  *)
(***************************************************************************)
UseCounted ==
  \A b \in Buffers :
    /\ vma_use_count[b] \in Cardinality(MappingsOf(b)) - Cardinality(Vmas) .. Cardinality(MappingsOf(b))
    /\ ~orphaned /\ count > 0 => vma_use_count[b] = Cardinality(MappingsOf(b))

StaleIsOrphaned == ~orphaned => \A v \in Vmas : ~vma[v].stale

(* The inductive invariant *)
BInv == TypeOK /\ SideBySide /\ UseCounted /\ StaleIsOrphaned
=============================================================================
