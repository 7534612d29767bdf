--------------------------- MODULE PoolAllocator ---------------------------
(***************************************************************************)
(* pool_allocator (internal/pool_allocator.h): every thread has its own    *)
(* pools for small and for medium sizes, larger objects go to the heap,    *)
(* and an allocation whose pool cannot grow falls back to the heap.        *)
(* deallocate routes by the size it is told and by the calling thread; the *)
(* pool it reaches ignores an address that is not in its chunks.           *)
(*                                                                         *)
(* Each pool is the abstract BlockPool: its free blocks are a set.  A size *)
(* is its size class, which is all the code looks at; callers pass the     *)
(* size they allocated, as pool_deallocate does, and may deallocate in     *)
(* another thread.  A chunk is grown by one block at a time.  Allocation   *)
(* statistics and allocations that yield nullptr are left out.             *)
(***************************************************************************)
EXTENDS Naturals, FiniteSets

CONSTANTS
  Threads,
  Ptrs,     \* addresses
  Heap,     \* the origin of heap memory
  Nowhere,  \* the origin of an address that is not allocated from the system
  NotLive   \* the size class of an address no object is at

PoolClasses == {"small", "medium"}
Classes == PoolClasses \union {"large"}
Pools == Threads \X PoolClasses

ASSUME OriginsAssumption == Heap # Nowhere /\ {Heap, Nowhere} \cap Pools = {}
ASSUME NotLiveAssumption == NotLive \notin Classes

VARIABLES
  origin,  \* per address, the pool whose chunk holds it, or the heap
  free,    \* per pool, the blocks on its free list
  live     \* per address, the size class of the object there

allocatorVars == <<origin, free, live>>

AllocatorInit ==
  /\ origin = [p \in Ptrs |-> Nowhere]
  /\ free = [q \in Pools |-> {}]
  /\ live = [p \in Ptrs |-> NotLive]

\* allocate(size): a block of the thread's own pool for that size.
AllocateFromPool(t, c, p) ==
  /\ c \in PoolClasses /\ p \in free[<<t, c>>]
  /\ free' = [free EXCEPT ![<<t, c>>] = @ \ {p}]
  /\ live' = [live EXCEPT ![p] = c]
  /\ UNCHANGED origin

\* allocate(size): the pool is empty and grows.
AllocateFromNewChunk(t, c, p) ==
  /\ c \in PoolClasses /\ free[<<t, c>>] = {}
  /\ origin[p] = Nowhere
  /\ origin' = [origin EXCEPT ![p] = <<t, c>>]
  /\ live' = [live EXCEPT ![p] = c]
  /\ UNCHANGED free

\* allocate(size): a large object, or a pool that is empty and threw.
AllocateFromHeap(t, c, p) ==
  /\ c \in PoolClasses => free[<<t, c>>] = {}
  /\ origin[p] = Nowhere
  /\ origin' = [origin EXCEPT ![p] = Heap]
  /\ live' = [live EXCEPT ![p] = c]
  /\ UNCHANGED free

\* Mutant: the pool takes any address.
DeallocateToPoolAny(t, p) ==
  /\ live[p] \in PoolClasses
  /\ free' = [free EXCEPT ![<<t, live[p]>>] = @ \union {p}]
  /\ live' = [live EXCEPT ![p] = NotLive]
  /\ UNCHANGED origin

\* deallocate(ptr, size) of a small or medium size: the caller's pool of that
\* class takes the block if it is one of its own and does nothing otherwise.
DeallocateToPool(t, p) ==
  /\ live[p] \in PoolClasses
  /\ free' = [free EXCEPT ![<<t, live[p]>>] =
                IF origin[p] = <<t, live[p]>> THEN @ \union {p} ELSE @]
  /\ live' = [live EXCEPT ![p] = NotLive]
  /\ UNCHANGED origin

\* deallocate(ptr, size) of a large size: ::operator delete.
DeallocateToHeap(p) ==
  /\ live[p] = "large"
  /\ origin' = [origin EXCEPT ![p] = Nowhere]
  /\ live' = [live EXCEPT ![p] = NotLive]
  /\ UNCHANGED free

\* The thread ends and its pools are destroyed with all their chunks.  Their
\* documentation puts the lifetime of the memory at that of the thread: no
\* object is left in them.
ThreadExit(t) ==
  /\ \A p \in Ptrs, c \in PoolClasses : origin[p] = <<t, c>> => live[p] = NotLive
  /\ origin' = [p \in Ptrs |-> IF origin[p] \in {t} \X PoolClasses THEN Nowhere ELSE origin[p]]
  /\ free' = [q \in Pools |-> IF q[1] = t THEN {} ELSE free[q]]
  /\ UNCHANGED live

AllocatorNext ==
  \/ \E t \in Threads, c \in Classes, p \in Ptrs :
       AllocateFromPool(t, c, p) \/ AllocateFromNewChunk(t, c, p) \/ AllocateFromHeap(t, c, p)
  \/ \E t \in Threads, p \in Ptrs : DeallocateToPool(t, p)
  \/ \E p \in Ptrs : DeallocateToHeap(p)
  \/ \E t \in Threads : ThreadExit(t)

AllocatorSpec == AllocatorInit /\ [][AllocatorNext]_allocatorVars

-----------------------------------------------------------------------------
(* Properties *)

\* A free list holds only blocks of its own chunks, none of which an object
\* still occupies, whatever thread deallocates whatever came from wherever:
\* no two threads, and no two size classes, can be given the same memory.
OwnBlocksOnly ==
  \A q \in Pools : \A p \in free[q] : origin[p] = q /\ live[p] = NotLive
=============================================================================
