--------------------------- MODULE FixedBlockPool ---------------------------
(***************************************************************************)
(* fixed_block_pool (internal/memory_pool.h): blocks of one size, carved   *)
(* out of chunks, whose free list is threaded through the blocks           *)
(* themselves.  The first word of a free block is the pointer to the next  *)
(* free block; the first word of a block in use belongs to its holder, who *)
(* may store anything there, block addresses included.                     *)
(*                                                                         *)
(* allocate, deallocate and get_statistics hold mutex_ from their first to *)
(* their last access, so each is one action, and whose thread runs it does *)
(* not matter.  A block is the number of its position in allocation order; *)
(* Nil is the null pointer.  Callers return each block they were given at  *)
(* most once: the pool does not detect a second return.                    *)
(***************************************************************************)
EXTENDS Naturals, Sequences, FiniteSets

CONSTANTS
  BlocksPerChunk,   \* blocks_per_chunk_; zero is accepted by the constructor
  Words,            \* what a holder may store in the first word of its block
  MaxBlocks         \* bound on the size the pool grows to

ASSUME BlocksAssumption == BlocksPerChunk \in Nat
ASSUME MaxAssumption == MaxBlocks \in Nat

VARIABLES
  capacity,         \* chunks_.size() * blocks_per_chunk_
  link,             \* the first word of every block
  free_list,        \* free_list_
  allocated_count,  \* allocated_count_
  held,             \* the blocks that callers hold
  chain             \* history: the free blocks in the order of the list

poolVars == <<capacity, link, free_list, allocated_count, held, chain>>

Nil == 0
Blocks == 1..capacity

PoolInit ==
  /\ capacity = 0
  /\ link = [b \in 1..0 |-> Nil]
  /\ free_list = Nil
  /\ allocated_count = 0
  /\ held = {}
  /\ chain = <<>>

\* allocate_chunk_unlocked(): the blocks of the new chunk are pushed in
\* address order, so the last one becomes the head.
GrownLink ==
  [b \in 1..(capacity + BlocksPerChunk) |->
     IF b <= capacity THEN link[b]
     ELSE IF b = capacity + 1 THEN free_list ELSE b - 1]

GrownChain == [i \in 1..BlocksPerChunk |-> capacity + BlocksPerChunk + 1 - i]

\* Mutant: the head stays where it is.
PopStays(h, lk, ch) ==
  /\ link' = lk
  /\ free_list' = h
  /\ allocated_count' = allocated_count + 1
  /\ held' = held \union {h}
  /\ chain' = ch

\* Mutant: a block handed out is not counted.
PopUncounted(h, lk, ch) ==
  /\ link' = lk
  /\ free_list' = lk[h]
  /\ allocated_count' = allocated_count
  /\ held' = held \union {h}
  /\ chain' = Tail(ch)

\* The removal of the head h from the list (lk, ch).
Pop(h, lk, ch) ==
  /\ link' = lk
  /\ free_list' = lk[h]
  /\ allocated_count' = allocated_count + 1
  /\ held' = held \union {h}
  /\ chain' = Tail(ch)

\* allocate() with a free block at hand.
AllocateFree ==
  /\ free_list # Nil
  /\ Pop(free_list, link, chain)
  /\ UNCHANGED capacity

\* allocate() with an empty list: grow, then take the head.
AllocateGrow ==
  /\ free_list = Nil
  /\ BlocksPerChunk # 0
  /\ capacity + BlocksPerChunk <= MaxBlocks
  /\ capacity' = capacity + BlocksPerChunk
  /\ Pop(capacity + BlocksPerChunk, GrownLink, GrownChain)

\* allocate() when the chunk cannot be obtained (std::bad_alloc), or when it
\* holds no block (std::runtime_error): the list stays empty.
AllocateThrows == free_list = Nil /\ UNCHANGED poolVars

\* Mutant: the caller loses the block and the list does not get it.
DeallocateDropped(b) ==
  /\ b \in held
  /\ allocated_count' = allocated_count - 1
  /\ held' = held \ {b}
  /\ UNCHANGED <<capacity, link, free_list, chain>>

\* Mutant: the word that held the link is left as the holder wrote it.
DeallocateUnlinked(b) ==
  /\ b \in held
  /\ link' = link
  /\ free_list' = b
  /\ allocated_count' = allocated_count - 1
  /\ held' = held \ {b}
  /\ chain' = <<b>> \o chain
  /\ UNCHANGED capacity

\* deallocate(p) of a block of this pool.
Deallocate(b) ==
  /\ b \in held
  /\ link' = [link EXCEPT ![b] = free_list]
  /\ free_list' = b
  /\ allocated_count' = allocated_count - 1
  /\ held' = held \ {b}
  /\ chain' = <<b>> \o chain
  /\ UNCHANGED capacity

\* deallocate(p) of the null pointer or of an address outside every chunk.
DeallocateForeign == UNCHANGED poolVars

\* A holder writes to the first word of its block.
Store(b, w) ==
  /\ b \in held
  /\ link' = [link EXCEPT ![b] = w]
  /\ UNCHANGED <<capacity, free_list, allocated_count, held, chain>>

PoolNext ==
  \/ AllocateFree
  \/ AllocateGrow
  \/ AllocateThrows
  \/ \E b \in held : Deallocate(b)
  \/ DeallocateForeign
  \/ \E b \in held, w \in Words : Store(b, w)

PoolSpec == PoolInit /\ [][PoolNext]_poolVars

-----------------------------------------------------------------------------
(* Properties *)

ListRange == {chain[i] : i \in DOMAIN chain}

PoolTypeOK ==
  /\ capacity \in Nat
  /\ link \in [Blocks -> Words \union Nat]
  /\ free_list \in Blocks \union {Nil}
  /\ allocated_count \in Nat
  /\ held \subseteq Blocks
  /\ chain \in Seq(Blocks)

\* The pool keeps the promise of BlockPool: a block leaves the free list only
\* for a caller nobody shares it with and comes back when it is deallocated.
Abstract == INSTANCE BlockPool WITH Addresses <- 1..MaxBlocks, free <- ListRange
ImplementsBlockPool == Abstract!Spec

\* The pointers really form the list: following free_list_ and then the first
\* word of each block visits the free blocks in order and ends at nullptr,
\* whatever holders have written into their own blocks.
ListIntact ==
  /\ free_list = IF chain = <<>> THEN Nil ELSE chain[1]
  /\ \A i \in DOMAIN chain :
       link[chain[i]] = IF i = Len(chain) THEN Nil ELSE chain[i + 1]

\* No block is handed out twice: a block in use is not on the free list, and
\* no block is on the list twice.
NoAliasing ==
  /\ held \cap ListRange = {}
  /\ \A i, j \in DOMAIN chain : chain[i] = chain[j] => i = j

\* Every block of every chunk is either held or free, and what get_statistics
\* reports adds up: allocated_count_ counts the held blocks, and together with
\* the length of the free list it makes up the capacity.
StatisticsAgree ==
  /\ held \union ListRange = Blocks
  /\ allocated_count = Cardinality(held)
  /\ Len(chain) + allocated_count = capacity
=============================================================================
