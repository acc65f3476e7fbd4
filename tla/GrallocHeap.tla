------------------------------ MODULE GrallocHeap ------------------------------
(***************************************************************************)
(* The sub-allocator of the graphics memory: SimpleBestFitAllocator        *)
(* (msm7k/libgralloc-qsd8k/allocator.cpp; the allocators of                *)
(* msm7k/libgralloc and of the i.MX5 gralloc are the same code).           *)
(*                                                                         *)
(* mList, the list of chunks in address order, is a function from the      *)
(* start of each chunk to its size and whether it is free.  Starts and     *)
(* sizes are counted, as in the code, in units of kMemoryAlign bytes.      *)
(***************************************************************************)
EXTENDS Integers

kMemoryAlign == 32

pagesize == 4096                        \* getpagesize() on these devices
Page == pagesize \div kMemoryAlign

Units(bytes) == (bytes + kMemoryAlign - 1) \div kMemoryAlign

Chunk(size, free) == [size |-> size, free |-> free]

\* The list of a heap that has been given its size, rounded up to whole pages.
RoundUpToPage(bytes) == pagesize * ((bytes + pagesize - 1) \div pagesize)
HeapOf(bytes) == RoundUpToPage(bytes) \div kMemoryAlign
OneChunk(size) == [start \in {0} |-> Chunk(size, TRUE)]

-----------------------------------------------------------------------------
(* alloc                                                                   *)

\* What is skipped at the start of a chunk to begin on a page.
Extra(start) == (-start) % Page

\* Variant: the page alignment is forgotten when a chunk is chosen.
FitsUnaligned(list, start, size) == list[start].free /\ list[start].size >= size
\* Variant: a chunk must be larger than what is taken of it.
FitsLoosely(list, start, size) == list[start].free /\ list[start].size > size + Extra(start)
Fits(list, start, size) == list[start].free /\ list[start].size >= size + Extra(start)

HasFit(list, size) == \E start \in DOMAIN list : Fits(list, start, size)

\* The smallest chunk that fits, the first of them in the list.
BestFit(list, size) ==
  CHOOSE start \in DOMAIN list :
    /\ Fits(list, start, size)
    /\ \A other \in DOMAIN list :
         Fits(list, other, size) =>
           \/ list[start].size < list[other].size
           \/ list[start].size = list[other].size /\ start <= other

Placed(list, size) == BestFit(list, size) + Extra(BestFit(list, size))

\* The chunk at start becomes a block of that size on a page, with what is left
\* before and after it as free chunks.
Carve(list, start, size) ==
  LET extra == Extra(start)
      block == start + extra
      tail  == list[start].size - size - extra
  IN [x \in DOMAIN list \cup {block} \cup (IF tail > 0 THEN {block + size} ELSE {}) |->
        IF x = block THEN Chunk(size, FALSE)
        ELSE IF x = start THEN Chunk(extra, TRUE)
        ELSE IF x = block + size /\ tail > 0 THEN Chunk(tail, TRUE)
        ELSE list[x]]

AfterAlloc(list, size) == Carve(list, BestFit(list, size), size)

-----------------------------------------------------------------------------
(* dealloc                                                                 *)

\* p->next = n
Follows(list, p, n) ==
  /\ {p, n} \subseteq DOMAIN list
  /\ p < n
  /\ \A x \in DOMAIN list : x <= p \/ n <= x

Absorb(list, p, n) ==
  [x \in DOMAIN list \ {n} |->
     IF x = p THEN Chunk(list[p].size + list[n].size, list[p].free) ELSE list[x]]

MarkFree(list, start) == [list EXCEPT ![start].free = TRUE]

\* A pass of the loop: the chunk joins the one before it, if that is free.
MergeBack(list, start) ==
  IF \E p \in DOMAIN list : Follows(list, p, start) /\ list[p].free
    THEN Absorb(list, CHOOSE p \in DOMAIN list : Follows(list, p, start), start)
    ELSE list

\* Variant: the block is joined with what is before it only.
MergeOnce(list, start) == MergeBack(MarkFree(list, start), start)

\* The block is freed and joined with the chunk before it; the chunk after it, if
\* it is free, is then joined with the result.  The loop ends there, because no
\* two chunks in a row are free (invariant Coalesced of module Gralloc).
AfterDealloc(list, start) ==
  LET merged == MergeBack(MarkFree(list, start), start) IN
    IF \E n \in DOMAIN list : Follows(list, start, n) /\ list[n].free
      THEN MergeBack(merged, CHOOSE n \in DOMAIN list : Follows(list, start, n))
      ELSE merged
=============================================================================
