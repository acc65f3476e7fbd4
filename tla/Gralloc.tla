------------------------------- MODULE Gralloc -------------------------------
(***************************************************************************)
(* The graphics memory of the MSM7k/QSD8k gralloc: buffers that are cut    *)
(* out of one pmem region (PmemUserspaceAllocator, pmemalloc.cpp), asked   *)
(* for and given back by any number of threads (gpu.cpp).                  *)
(*                                                                         *)
(* pc[b] is where the thread that allocates or frees buffer b is.  The     *)
(* initialisation runs under PmemUserspaceAllocator's lock and the         *)
(* sub-allocator under mLock; between them the threads interleave.  The    *)
(* kernel's pmem driver is what it has mapped for each buffer: maps.       *)
(***************************************************************************)
EXTENDS GrallocHeap

CONSTANTS
  Buffers,     \* the buffers that may be in use at a time
  Sizes,       \* the sizes alloc_pmem_buffer is called with, in bytes: whole
               \* pages in gpu.cpp, 256 in the tests
  PmemBytes,   \* the size of the pmem region
  LimpBytes    \* what init_pmem_area_locked takes when it cannot ask for it

ASSUME SizesAssumption == Sizes \subseteq Nat \ {0}
ASSUME RegionAssumption ==
  PmemBytes \in Nat \ {0} /\ LimpBytes \in Nat \ {0}

VARIABLES
  master_fd,   \* "init": MASTER_FD_INIT, "open", or "failed": an error, kept for good
  mapped,      \* how much of the region is mapped at master_base
  mHeapSize, mList,
  pc,          \* of each buffer: "none", "allocate", "refused", "connect", "undo",
               \* "live", "deallocate", "close"
  size,        \* the size it was asked for
  offset,      \* where its block begins
  maps,        \* the buffers whose block the kernel has mapped for their sub-heap
  lost         \* history: the blocks of buffers the kernel did not unmap

heap == <<mHeapSize, mList>>
master == <<master_fd, mapped>>
buffers == <<pc, size, offset>>
vars == <<heap, master, buffers, maps, lost>>

Init ==
  /\ master_fd = "init"
  /\ mapped = 0
  /\ mHeapSize = 0
  /\ mList = [start \in {} |-> Chunk(0, TRUE)]
  /\ pc = [b \in Buffers |-> "none"]
  /\ size = [b \in Buffers |-> 0]
  /\ offset = [b \in Buffers |-> 0]
  /\ maps = {}
  /\ lost = {}

Go(b, from, to) ==
  /\ pc[b] = from
  /\ pc' = [pc EXCEPT ![b] = to]

\* The call is over: nothing is left of its arguments, or of the handle.
Forget(b) ==
  /\ size' = [size EXCEPT ![b] = 0]
  /\ offset' = [offset EXCEPT ![b] = 0]

-----------------------------------------------------------------------------
(* init_pmem_area, at the start of every alloc_pmem_buffer.  An error is    *)
(* kept in master_fd; -EPERM is -1, which is MASTER_FD_INIT again.          *)

SetSize(bytes) ==
  IF mHeapSize # 0 THEN UNCHANGED heap
  ELSE /\ mHeapSize' = HeapOf(bytes)
       /\ mList' = OneChunk(HeapOf(bytes))

CannotOpen ==
  /\ master_fd = "init"
  /\ master_fd' \in {"init", "failed"}
  /\ UNCHANGED <<heap, mapped, buffers, maps, lost>>

CannotMap ==
  /\ master_fd = "init"
  /\ \E bytes \in {PmemBytes, LimpBytes} : SetSize(bytes)
  /\ master_fd' \in {"init", "failed"}
  /\ UNCHANGED <<mapped, buffers, maps, lost>>

\* Variant: the descriptor is kept in limp mode, as the log message there says.
LimpModeOpens ==
  /\ master_fd = "init"
  /\ SetSize(LimpBytes)
  /\ mapped' = HeapOf(LimpBytes)
  /\ master_fd' = "open"
  /\ UNCHANGED <<buffers, maps, lost>>

\* "Limp mode": the region is mapped, but the error of PMEM_GET_TOTAL_SIZE, an
\* ioctl's -1, then replaces the descriptor.
LimpMode ==
  /\ master_fd = "init"
  /\ SetSize(LimpBytes)
  /\ mapped' = HeapOf(LimpBytes)
  /\ UNCHANGED <<master_fd, buffers, maps, lost>>

InitPmemArea ==
  /\ master_fd = "init"
  /\ SetSize(PmemBytes)
  /\ mapped' = HeapOf(PmemBytes)
  /\ master_fd' = "open"
  /\ UNCHANGED <<buffers, maps, lost>>

-----------------------------------------------------------------------------
(* alloc_pmem_buffer, once init_pmem_area has returned 0                   *)

AllocPmemBuffer(b) ==
  /\ master_fd = "open"
  /\ Go(b, "none", "allocate")
  /\ \E bytes \in Sizes : size' = [size EXCEPT ![b] = Units(bytes)]
  /\ UNCHANGED <<heap, master, offset, maps, lost>>

Allocate(b) ==
  /\ HasFit(mList, size[b])
  /\ Go(b, "allocate", "connect")
  /\ offset' = [offset EXCEPT ![b] = Placed(mList, size[b])]
  /\ mList' = AfterAlloc(mList, size[b])
  /\ UNCHANGED <<mHeapSize, master, size, maps, lost>>

NoMemory(b) ==
  /\ ~HasFit(mList, size[b])
  /\ Go(b, "allocate", "refused")
  /\ UNCHANGED <<heap, master, size, offset, maps, lost>>

\* gralloc_alloc_buffer takes ashmem instead, or fails.
TryAshmem(b) ==
  /\ Go(b, "refused", "none")
  /\ Forget(b)
  /\ UNCHANGED <<heap, master, maps, lost>>

\* open, PMEM_CONNECT and PMEM_MAP of the sub-heap.
MapPmem(b) ==
  /\ Go(b, "connect", "live")
  /\ maps' = maps \cup {b}
  /\ UNCHANGED <<heap, master, size, offset, lost>>

CannotConnect(b) ==
  /\ Go(b, "connect", "undo")
  /\ UNCHANGED <<heap, master, size, offset, maps, lost>>

Deallocate(b) ==
  /\ mList' = AfterDealloc(mList, offset[b])
  /\ UNCHANGED <<mHeapSize, master, maps, lost>>

Undo(b) ==
  /\ Go(b, "undo", "none")
  /\ Deallocate(b)
  /\ Forget(b)

-----------------------------------------------------------------------------
(* free_pmem_buffer, and what free_impl does after it                      *)

\* Variant: the block is given back before the kernel has unmapped it.
UnmapLate(b) ==
  /\ Go(b, "live", "deallocate")
  /\ UNCHANGED <<heap, master, size, offset, maps, lost>>

UnmapPmem(b) ==
  /\ Go(b, "live", "deallocate")
  /\ maps' = maps \ {b}
  /\ UNCHANGED <<heap, master, size, offset, lost>>

FreeBlock(b) ==
  /\ Go(b, "deallocate", "close")
  /\ Deallocate(b)
  /\ UNCHANGED <<size, offset>>

\* The block is not given back: someone might still reach it.
CannotUnmap(b) ==
  /\ Go(b, "live", "close")
  /\ lost' = lost \cup {[start |-> offset[b], size |-> size[b]]}
  /\ UNCHANGED <<heap, master, size, offset, maps>>

\* With the descriptor goes what the kernel had mapped for it.
Close(b) ==
  /\ Go(b, "close", "none")
  /\ maps' = maps \ {b}
  /\ Forget(b)
  /\ UNCHANGED <<heap, master, lost>>

Next ==
  \/ CannotOpen \/ CannotMap \/ LimpMode \/ InitPmemArea
  \/ \E b \in Buffers :
       \/ AllocPmemBuffer(b) \/ Allocate(b) \/ NoMemory(b) \/ TryAshmem(b)
       \/ MapPmem(b) \/ CannotConnect(b) \/ Undo(b)
       \/ UnmapPmem(b) \/ FreeBlock(b) \/ CannotUnmap(b) \/ Close(b)

Spec == Init /\ [][Next]_vars

-----------------------------------------------------------------------------
(* Correctness                                                             *)

Pcs == {"none", "allocate", "refused", "connect", "undo", "live", "deallocate", "close"}

\* A value of the expected kind for every variable: starts and sizes of chunks
\* are natural numbers, however the subtractions of alloc came out.
TypeOK ==
  /\ master_fd \in {"init", "open", "failed"}
  /\ mapped \in Nat /\ mHeapSize \in Nat
  /\ DOMAIN mList \subseteq Nat
  /\ mList \in [DOMAIN mList -> [size : Nat, free : BOOLEAN]]
  /\ pc \in [Buffers -> Pcs]
  /\ size \in [Buffers -> Nat] /\ offset \in [Buffers -> Nat]
  /\ maps \subseteq Buffers
  /\ lost \subseteq [start : Nat, size : Nat]

End(start) == start + mList[start].size

\* The chunks tile the heap: none is empty, none reaches into another or past the
\* end, and every unit of the heap is in one (allocator.cpp:107-130 and 146-160,
\* the splits and the merges).
Tiled ==
  /\ \A c \in DOMAIN mList : mList[c].size > 0 /\ End(c) <= mHeapSize
  /\ \A c, d \in DOMAIN mList : c < d => End(c) <= d
  /\ \A x \in 0..mHeapSize - 1 : \E c \in DOMAIN mList : c <= x /\ x < End(c)

\* No free chunk follows a free chunk: "merge freed blocks together"
\* (allocator.cpp:143), whatever the order in which buffers are freed.
Coalesced ==
  \A c \in DOMAIN mList :
    mList[c].free /\ End(c) \in DOMAIN mList => ~mList[End(c)].free

Holding == {b \in Buffers : pc[b] \in {"connect", "undo", "live", "deallocate"}}

\* The pages the kernel maps for a buffer.
Pages(start, length) == (start \div Page)..((start + length - 1) \div Page)

\* What the kernel has mapped for one buffer is on no page of a block that another
\* buffer holds: a client never sees the surfaces of someone else
\* (pmemalloc.cpp:206), while buffers are allocated and freed by several threads.
NoSharedPage ==
  \A b \in maps, c \in Holding \cup maps :
    b # c => Pages(offset[b], size[b]) \cap Pages(offset[c], size[c]) = {}

\* Every block handed out lies in what is mapped at master_base, so that the
\* memset of alloc_pmem_buffer stays in it, also after a first initialisation
\* that failed and left the heap its size (pmemalloc.cpp:104, allocator.cpp:46).  Unless
\* that size is the one of limp mode and the region is smaller: nothing compares them.
BlocksMapped ==
  mHeapSize <= HeapOf(PmemBytes) => \A b \in Holding : offset[b] + size[b] <= mapped

Pool == INSTANCE BlockPool WITH
  Amounts <- {Units(bytes) : bytes \in Sizes},
  PageSize <- Page,
  heap <- mHeapSize,
  asked <- [b \in Buffers |-> IF pc[b] = "allocate" THEN size[b] ELSE 0],
  held <- [b \in Buffers |->
             IF b \in Holding THEN [start |-> offset[b], size |-> size[b]]
                              ELSE [start |-> 0, size |-> 0]],
  refused <- {b \in Buffers : pc[b] = "refused"}

\* Blocks are apart, begin on a page, and are refused only when there is no room:
\* the chunks and the best fit implement BlockPool.
ImplementsPool == Pool!PSpec
=============================================================================
