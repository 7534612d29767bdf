---------------------------- MODULE PoolsProofs ----------------------------
(***************************************************************************)
(* The free list of fixed_block_pool is intact, hands out no block twice   *)
(* and loses none, for every chunk size (zero included), every bound and   *)
(* every content holders store in their blocks; and pool_allocator never   *)
(* lets two of its pools, or a pool and the heap, serve the same address.  *)
(***************************************************************************)
EXTENDS FixedBlockPool, PoolAllocator, FiniteSetTheorems, SequenceTheorems, TLAPS

\* The inductive invariant: the properties themselves, together.  Each needs
\* the others: a pushed block is new to the list only because held and free
\* blocks are disjoint, and a holder's store spares the list for the same
\* reason; the list is empty when the pool grows only because the pointer
\* agrees with it.
IInv ==
  /\ PoolTypeOK
  /\ ListIntact
  /\ NoAliasing
  /\ StatisticsAgree
  /\ IsFiniteSet(held)

\* A fresh pool satisfies the invariant.
LEMMA InitIInv == PoolInit => IInv
  <1> SUFFICES ASSUME PoolInit PROVE IInv
    OBVIOUS
  <1>1. PoolTypeOK /\ ListIntact /\ NoAliasing
    BY DEF PoolInit, PoolTypeOK, ListIntact, NoAliasing, ListRange, Blocks, Nil
  <1>2. IsFiniteSet(held) /\ Cardinality(held) = 0
    BY FS_EmptySet DEF PoolInit
  <1>3. StatisticsAgree
    BY <1>2 DEF PoolInit, StatisticsAgree, ListRange, Blocks
  <1> QED
    BY <1>1, <1>2, <1>3 DEF IInv

\* Taking the head off the list: allocate() with a free block at hand.
LEMMA AllocateFreeStep == IInv /\ AllocateFree => IInv'
  <1> SUFFICES ASSUME IInv, AllocateFree PROVE IInv'
    OBVIOUS
  <1> USE DEF Nil, Blocks
  <1>1. /\ chain # <<>> /\ free_list = chain[1]
        /\ chain \in Seq(Blocks) /\ chain' = Tail(chain)
        /\ capacity' = capacity /\ link' = link
        /\ held' = held \union {chain[1]}
        /\ free_list' = link[chain[1]]
        /\ allocated_count' = allocated_count + 1
    BY DEF IInv, PoolTypeOK, ListIntact, AllocateFree, Pop
  <1>2. /\ Len(chain) \in Nat \ {0}
        /\ Len(chain') = Len(chain) - 1
        /\ DOMAIN chain' = 1..(Len(chain) - 1)
        /\ \A i \in 1..(Len(chain) - 1) : chain'[i] = chain[i + 1]
        /\ \A i \in 1..Len(chain) : chain[i] \in Blocks
        /\ DOMAIN chain = 1..Len(chain)
        /\ chain' \in Seq(Blocks)
    <2>1. Len(chain) \in Nat \ {0} /\ DOMAIN chain = 1..Len(chain)
      BY <1>1, EmptySeq, LenProperties
    <2>2. \A i \in 1..Len(chain) : chain[i] \in Blocks
      BY <1>1, ElementOfSeq
    <2>3. /\ chain' \in Seq(Blocks) /\ Len(chain') = Len(chain) - 1
          /\ \A i \in 1..Len(chain') : chain'[i] = chain[i + 1]
      BY <1>1, HeadTailProperties
    <2>4. DOMAIN chain' = 1..Len(chain')
      BY <2>3, LenProperties
    <2> QED
      BY <2>1, <2>2, <2>3, <2>4
  <1>3. chain[1] \notin held /\ chain[1] \in Blocks
    BY <1>1, <1>2 DEF IInv, NoAliasing, ListRange
  <1>4. PoolTypeOK'
    <2>1. free_list' \in Blocks \union {Nil}
      BY <1>1, <1>2 DEF IInv, ListIntact
    <2>2. chain' \in Seq(Blocks')
      BY <1>1, <1>2
    <2>3. /\ \A x \in held' : x \in held \/ x = chain[1]
          /\ \A x \in held : x \in Blocks
          /\ Blocks' = Blocks
      BY <1>1 DEF IInv, PoolTypeOK
    <2>4. held' \subseteq Blocks'
      BY <1>3, <2>3
    <2>5. allocated_count' \in Nat
      BY <1>1 DEF IInv, PoolTypeOK
    <2>6. capacity' \in Nat /\ link' \in [Blocks' -> Words \union Nat]
      BY <1>1 DEF IInv, PoolTypeOK
    <2> QED
      BY <2>1, <2>2, <2>3, <2>4, <2>5, <2>6 DEF PoolTypeOK
  <1>5. ListIntact'
    <2>1. free_list' = IF chain' = <<>> THEN Nil ELSE chain'[1]
      BY <1>1, <1>2 DEF IInv, ListIntact
    <2>2. ASSUME NEW i \in DOMAIN chain'
          PROVE  link'[chain'[i]] = IF i = Len(chain') THEN Nil ELSE chain'[i + 1]
      BY <1>1, <1>2, <2>2 DEF IInv, ListIntact
    <2> QED
      BY <2>1, <2>2 DEF ListIntact
  <1>6. NoAliasing'
    <2>1. \A i, j \in 1..Len(chain) : chain[i] = chain[j] => i = j
      BY <1>2 DEF IInv, NoAliasing
    <2>2. ASSUME NEW i \in DOMAIN chain' PROVE chain'[i] \notin held'
      <3>1. i + 1 \in 1..Len(chain) /\ chain'[i] = chain[i + 1] /\ i + 1 # 1 /\ 1 \in 1..Len(chain)
        BY <1>2, <2>2
      <3>2. chain[i + 1] # chain[1]
        BY <2>1, <3>1
      <3>3. chain[i + 1] \notin held
        BY <1>2, <3>1 DEF IInv, NoAliasing, ListRange
      <3> QED
        BY <1>1, <3>1, <3>2, <3>3
    <2>3. ASSUME NEW i \in DOMAIN chain', NEW j \in DOMAIN chain', chain'[i] = chain'[j]
          PROVE  i = j
      <3>1. /\ i \in Nat /\ j \in Nat
            /\ i + 1 \in 1..Len(chain) /\ chain'[i] = chain[i + 1]
            /\ j + 1 \in 1..Len(chain) /\ chain'[j] = chain[j + 1]
        BY <1>2, <2>3
      <3>2. i + 1 = j + 1
        BY <2>1, <2>3, <3>1
      <3> QED
        BY <3>1, <3>2
    <2> QED
      BY <2>2, <2>3 DEF NoAliasing, ListRange
  <1>7. IsFiniteSet(held') /\ Cardinality(held') = Cardinality(held) + 1
    BY <1>1, <1>3, FS_AddElement DEF IInv
  <1>8. held' \union ListRange' = Blocks'
    <2>1. ListRange = {chain[1]} \union ListRange'
      <3>1. ASSUME NEW x \in ListRange PROVE x = chain[1] \/ x \in ListRange'
        <4>1. PICK i \in 1..Len(chain) : x = chain[i]
          BY <1>2 DEF ListRange
        <4>2. i = 1 \/ (i - 1 \in 1..(Len(chain) - 1) /\ chain'[i - 1] = chain[i])
          BY <1>2
        <4> QED
          BY <1>2, <4>1, <4>2 DEF ListRange
      <3>2. chain[1] \in ListRange
        BY <1>2 DEF ListRange
      <3>3. ASSUME NEW x \in ListRange' PROVE x \in ListRange
        <4>1. PICK i \in 1..(Len(chain) - 1) : x = chain'[i]
          BY <1>2 DEF ListRange
        <4>2. x = chain[i + 1] /\ i + 1 \in DOMAIN chain
          BY <1>2, <4>1
        <4> QED
          BY <4>2 DEF ListRange
      <3> QED
        BY <3>1, <3>2, <3>3
    <2> QED
      BY <1>1, <2>1 DEF IInv, StatisticsAgree
  <1>9. StatisticsAgree'
    <2>1. allocated_count' = Cardinality(held')
      BY <1>1, <1>7 DEF IInv, StatisticsAgree
    <2>2. Len(chain') + allocated_count' = capacity'
      BY <1>1, <1>2 DEF IInv, StatisticsAgree, PoolTypeOK
    <2> QED
      BY <1>8, <2>1, <2>2 DEF StatisticsAgree
  <1> QED
    BY <1>4, <1>5, <1>6, <1>7, <1>9 DEF IInv

\* Growing an empty pool by one chunk and taking the last block of it.
LEMMA AllocateGrowStep == IInv /\ AllocateGrow => IInv'
  <1> SUFFICES ASSUME IInv, AllocateGrow PROVE IInv'
    OBVIOUS
  <1> USE BlocksAssumption DEF Nil, Blocks
  <1> DEFINE B == BlocksPerChunk
             top == capacity + B
  <1>1. /\ B \in Nat \ {0} /\ capacity \in Nat
        /\ capacity' = top
        /\ link' = GrownLink
        /\ free_list = Nil
        /\ free_list' = GrownLink[top]
        /\ held' = held \union {top}
        /\ allocated_count' = allocated_count + 1
        /\ chain' = Tail(GrownChain)
    BY DEF IInv, PoolTypeOK, AllocateGrow, Pop
  <1>2. chain = <<>>
    BY <1>1 DEF IInv, PoolTypeOK, ListIntact
  <1>3. held = 1..capacity /\ top \notin held
    <2>1. ListRange = {}
      BY <1>2 DEF ListRange
    <2>2. held = 1..capacity
      BY <2>1 DEF IInv, StatisticsAgree
    <2>3. top \notin 1..capacity
      BY <1>1
    <2> QED
      BY <2>2, <2>3
  <1>4. /\ GrownChain \in Seq(1..top)
        /\ Len(GrownChain) = B
        /\ \A i \in 1..B : GrownChain[i] = top + 1 - i
    <2>1. GrownChain \in [1..B -> 1..top] /\ \A i \in 1..B : GrownChain[i] = top + 1 - i
      BY <1>1 DEF GrownChain
    <2>2. GrownChain \in Seq(1..top)
      BY <1>1, <2>1, SeqDef
    <2>3. Len(GrownChain) \in Nat /\ DOMAIN GrownChain = 1..Len(GrownChain)
      BY <2>2, LenProperties
    <2>4. Len(GrownChain) = B
      BY <1>1, <2>1, <2>3
    <2> QED
      BY <2>1, <2>2, <2>4
  <1>5. /\ chain' \in Seq(1..top)
        /\ Len(chain') = B - 1
        /\ DOMAIN chain' = 1..(B - 1)
        /\ \A i \in 1..(B - 1) : chain'[i] = top - i
    <2>1. GrownChain # <<>>
      BY <1>1, <1>4, EmptySeq
    <2>2. /\ chain' \in Seq(1..top) /\ Len(chain') = B - 1
          /\ \A i \in 1..(B - 1) : chain'[i] = GrownChain[i + 1]
      BY <1>1, <1>4, <2>1, HeadTailProperties
    <2>3. DOMAIN chain' = 1..(B - 1)
      BY <2>2, LenProperties
    <2>4. \A i \in 1..(B - 1) : chain'[i] = top - i
      BY <1>1, <1>4, <2>2
    <2> QED
      BY <2>2, <2>3, <2>4
  <1>6. /\ GrownLink \in [1..top -> Words \union Nat]
        /\ \A b \in (capacity + 2)..top : GrownLink[b] = b - 1
        /\ GrownLink[capacity + 1] = Nil
    BY <1>1 DEF GrownLink, IInv, PoolTypeOK
  <1>7. PoolTypeOK'
    <2>1. free_list' \in 0..top
      BY <1>1, <1>6
    <2> QED
      BY <1>1, <1>3, <1>5, <1>6, <2>1 DEF IInv, PoolTypeOK
  <1>8. ListIntact'
    <2>1. free_list' = IF chain' = <<>> THEN Nil ELSE chain'[1]
      <3>1. CASE B = 1
        <4>1. chain' = <<>>
          BY <1>5, <3>1, EmptySeq
        <4>2. free_list' = Nil
          BY <1>1, <1>6, <3>1
        <4> QED
          BY <4>1, <4>2
      <3>2. CASE B # 1
        <4>1. chain' # <<>>
          <5>1. Len(chain') # 0
            BY <1>1, <1>5, <3>2
          <5> QED
            BY <5>1, EmptySeq
        <4>3. chain'[1] = top - 1
          <5>1. 1 \in 1..(B - 1)
            BY <1>1, <3>2
          <5> QED
            BY <1>5, <5>1
        <4>2. free_list' = top - 1
          BY <1>1, <1>6, <3>2
        <4> QED
          BY <4>1, <4>2, <4>3
      <3> QED
        BY <3>1, <3>2
    <2>2. ASSUME NEW i \in DOMAIN chain'
          PROVE  link'[chain'[i]] = IF i = Len(chain') THEN Nil ELSE chain'[i + 1]
      <3>1. i \in 1..(B - 1) /\ chain'[i] = top - i
        BY <1>5, <2>2
      <3>2. CASE i = B - 1
        <4>1. chain'[i] = capacity + 1
          BY <1>1, <3>1, <3>2
        <4> QED
          BY <1>1, <1>5, <1>6, <3>2, <4>1
      <3>3. CASE i # B - 1
        <4>1. top - i \in (capacity + 2)..top /\ i + 1 \in 1..(B - 1)
          BY <1>1, <3>1, <3>3
        <4>2. link'[top - i] = top - i - 1 /\ chain'[i + 1] = top - (i + 1)
          BY <1>1, <1>5, <1>6, <4>1
        <4>3. top - i - 1 = top - (i + 1)
          BY <1>1, <3>1
        <4>4. link'[chain'[i]] = chain'[i + 1]
          BY <3>1, <4>2, <4>3
        <4> QED
          BY <1>5, <3>3, <4>4
      <3> QED
        BY <3>2, <3>3
    <2> QED
      BY <2>1, <2>2 DEF ListIntact
  <1>9. ListRange' = (capacity + 1)..(top - 1)
    <2>1. ASSUME NEW x \in (capacity + 1)..(top - 1) PROVE x \in ListRange'
      <3>1. top - x \in 1..(B - 1) /\ top - (top - x) = x
        BY <1>1
      <3>2. chain'[top - x] = x
        BY <1>5, <3>1
      <3> QED
        BY <1>5, <3>1, <3>2 DEF ListRange
    <2>2. ASSUME NEW x \in ListRange' PROVE x \in (capacity + 1)..(top - 1)
      <3>1. PICK i \in 1..(B - 1) : x = chain'[i]
        BY <1>5 DEF ListRange
      <3> QED
        BY <1>1, <1>5, <3>1
    <2> QED
      BY <2>1, <2>2
  <1>10. NoAliasing'
    <2>1. held' \cap ListRange' = {}
      BY <1>1, <1>3, <1>9
    <2>2. ASSUME NEW i \in DOMAIN chain', NEW j \in DOMAIN chain', chain'[i] = chain'[j]
          PROVE  i = j
      <3>1. i \in Nat /\ j \in Nat /\ top - i = top - j
        BY <1>5, <2>2
      <3> QED
        BY <1>1, <3>1
    <2> QED
      BY <2>1, <2>2 DEF NoAliasing
  <1>11. IsFiniteSet(held') /\ Cardinality(held') = Cardinality(held) + 1
    BY <1>1, <1>3, FS_AddElement DEF IInv
  <1>12. StatisticsAgree'
    <2>1. held' \union ListRange' = Blocks'
      BY <1>1, <1>3, <1>9
    <2> QED
      BY <1>1, <1>2, <1>5, <1>11, <2>1 DEF IInv, StatisticsAgree, PoolTypeOK
  <1> QED
    BY <1>7, <1>8, <1>10, <1>11, <1>12 DEF IInv

\* Returning a block: it becomes the head of the list.
LEMMA DeallocateStep == ASSUME NEW b, IInv, Deallocate(b) PROVE IInv'
  <1> USE DEF Nil, Blocks
  <1>1. /\ b \in held /\ b \in Blocks
        /\ capacity' = capacity /\ capacity \in Nat
        /\ link' = [link EXCEPT ![b] = free_list]
        /\ free_list' = b
        /\ held' = held \ {b}
        /\ allocated_count' = allocated_count - 1
        /\ chain' = <<b>> \o chain
        /\ chain \in Seq(Blocks)
    BY DEF IInv, PoolTypeOK, Deallocate
  <1>2. /\ Len(chain) \in Nat /\ DOMAIN chain = 1..Len(chain)
        /\ chain' \in Seq(Blocks)
        /\ Len(chain') = Len(chain) + 1
        /\ DOMAIN chain' = 1..(Len(chain) + 1)
        /\ chain'[1] = b
        /\ \A i \in 1..Len(chain) : chain'[i + 1] = chain[i]
    BY <1>1
  <1>3. \A i \in 1..Len(chain) : chain[i] # b
    <2>1. held \cap {chain[i] : i \in DOMAIN chain} = {}
      BY DEF IInv, NoAliasing, ListRange
    <2>2. \A i \in DOMAIN chain : chain[i] \notin held
      BY <2>1, Zenon
    <2> QED
      BY <1>1, <1>2, <2>2
  <1>4. /\ IsFiniteSet(held')
        /\ Cardinality(held') = Cardinality(held) - 1
        /\ Cardinality(held') \in Nat
    BY <1>1, FS_RemoveElement, FS_CardinalityType DEF IInv
  <1>5. PoolTypeOK'
    <2>1. allocated_count' \in Nat
      BY <1>1, <1>4 DEF IInv, StatisticsAgree
    <2>2. free_list \in Words \union Nat
      BY <1>1 DEF IInv, PoolTypeOK
    <2> QED
      BY <1>1, <1>2, <2>1, <2>2 DEF IInv, PoolTypeOK
  <1>6. ListIntact'
    <2>1. free_list' = IF chain' = <<>> THEN Nil ELSE chain'[1]
      BY <1>1, <1>2
    <2>2. ASSUME NEW i \in DOMAIN chain'
          PROVE  link'[chain'[i]] = IF i = Len(chain') THEN Nil ELSE chain'[i + 1]
      <3>1. CASE i = 1
        <4>1. link'[b] = free_list
          BY <1>1 DEF IInv, PoolTypeOK
        <4>2. free_list = IF chain = <<>> THEN Nil ELSE chain[1]
          BY DEF IInv, ListIntact
        <4> QED
          BY <1>1, <1>2, <3>1, <4>1, <4>2
      <3>2. CASE i # 1
        <4>1. i - 1 \in 1..Len(chain) /\ chain'[i] = chain[i - 1]
          BY <1>2, <2>2, <3>2
        <4>2. link'[chain[i - 1]] = link[chain[i - 1]]
          BY <1>1, <1>2, <1>3, <4>1 DEF IInv, PoolTypeOK
        <4>3. link[chain[i - 1]] = IF i - 1 = Len(chain) THEN Nil ELSE chain[i]
          BY <1>2, <4>1 DEF IInv, ListIntact
        <4>4. i - 1 # Len(chain) => chain'[i + 1] = chain[i]
          BY <1>2, <4>1
        <4> QED
          BY <1>2, <4>1, <4>2, <4>3, <4>4
      <3> QED
        BY <3>1, <3>2
    <2> QED
      BY <2>1, <2>2 DEF ListIntact
  <1>7. ListRange' = ListRange \union {b}
    <2>1. ASSUME NEW x \in ListRange' PROVE x = b \/ x \in ListRange
      <3>1. PICK i \in 1..(Len(chain) + 1) : x = chain'[i]
        BY <1>2 DEF ListRange
      <3>2. i = 1 \/ (i - 1 \in 1..Len(chain) /\ chain'[i] = chain[i - 1])
        BY <1>2
      <3> QED
        BY <1>2, <3>1, <3>2 DEF ListRange
    <2>2. ASSUME NEW x \in ListRange PROVE x \in ListRange'
      <3>1. PICK i \in 1..Len(chain) : x = chain[i]
        BY <1>2 DEF ListRange
      <3>2. i + 1 \in DOMAIN chain' /\ chain'[i + 1] = x
        BY <1>2, <3>1
      <3> QED
        BY <3>2 DEF ListRange
    <2>3. b \in ListRange'
      BY <1>2 DEF ListRange
    <2> QED
      BY <2>1, <2>2, <2>3
  <1>8. NoAliasing'
    <2>1. held' \cap ListRange' = {}
      BY <1>1, <1>7 DEF IInv, NoAliasing
    <2>2. ASSUME NEW i \in DOMAIN chain', NEW j \in DOMAIN chain', chain'[i] = chain'[j]
          PROVE  i = j
      <3>1. \A k \in DOMAIN chain' :
              k = 1 \/ (k - 1 \in 1..Len(chain) /\ chain'[k] = chain[k - 1])
        BY <1>2
      <3> QED
        BY <1>2, <1>3, <2>2, <3>1 DEF IInv, NoAliasing
    <2> QED
      BY <2>1, <2>2 DEF NoAliasing
  <1>9. StatisticsAgree'
    <2>1. held' \union ListRange' = Blocks'
      BY <1>1, <1>7 DEF IInv, StatisticsAgree
    <2>2. allocated_count' = Cardinality(held')
      BY <1>1, <1>4 DEF IInv, StatisticsAgree
    <2>3. Len(chain') + allocated_count' = capacity'
      BY <1>1, <1>2 DEF IInv, StatisticsAgree, PoolTypeOK
    <2> QED
      BY <2>1, <2>2, <2>3 DEF StatisticsAgree
  <1> QED
    BY <1>4, <1>5, <1>6, <1>8, <1>9 DEF IInv

\* A holder's store does not reach the list.
LEMMA StoreStep == ASSUME NEW b, NEW w \in Words, IInv, Store(b, w) PROVE IInv'
  <1> USE DEF Blocks
  <1>1. /\ b \in held
        /\ link' = [link EXCEPT ![b] = w]
        /\ capacity' = capacity /\ free_list' = free_list /\ held' = held
        /\ allocated_count' = allocated_count /\ chain' = chain
    BY DEF Store
  <1>2. PoolTypeOK' /\ NoAliasing' /\ StatisticsAgree' /\ IsFiniteSet(held')
    BY <1>1 DEF IInv, PoolTypeOK, NoAliasing, StatisticsAgree, ListRange
  <1>3. \A i \in DOMAIN chain : link'[chain[i]] = link[chain[i]]
    BY <1>1 DEF IInv, PoolTypeOK, NoAliasing, ListRange
  <1>4. ListIntact'
    BY <1>1, <1>3 DEF IInv, ListIntact
  <1> QED
    BY <1>2, <1>4 DEF IInv

\* Steps that change nothing.
LEMMA StutterStep == IInv /\ UNCHANGED poolVars => IInv'
  BY DEF IInv, poolVars, PoolTypeOK, ListIntact, NoAliasing, StatisticsAgree, ListRange, Blocks

\* Every reachable state of the pool satisfies the inductive invariant.
THEOREM Invariance == PoolSpec => []IInv
  <1>1. IInv /\ [PoolNext]_poolVars => IInv'
    <2> SUFFICES ASSUME IInv, [PoolNext]_poolVars PROVE IInv'
      OBVIOUS
    <2>1. CASE AllocateFree
      BY <2>1, AllocateFreeStep
    <2>2. CASE AllocateGrow
      BY <2>2, AllocateGrowStep
    <2>3. CASE AllocateThrows \/ DeallocateForeign \/ UNCHANGED poolVars
      BY <2>3, StutterStep DEF AllocateThrows, DeallocateForeign
    <2>4. CASE \E b \in held : Deallocate(b)
      BY <2>4, DeallocateStep
    <2>5. CASE \E b \in held, w \in Words : Store(b, w)
      BY <2>5, StoreStep
    <2> QED
      BY <2>1, <2>2, <2>3, <2>4, <2>5 DEF PoolNext
  <1> QED
    BY InitIInv, <1>1, PTL DEF PoolSpec

\* allocate() and deallocate() keep the variables in their types; in
\* particular allocated_count_ never wraps below zero.
THEOREM TypeCorrect == PoolSpec => []PoolTypeOK
  <1>1. IInv => PoolTypeOK
    BY DEF IInv
  <1> QED
    BY Invariance, <1>1, PTL

\* The links written through the blocks themselves always form the free list.
THEOREM FreeListIntact == PoolSpec => []ListIntact
  <1>1. IInv => ListIntact
    BY DEF IInv
  <1> QED
    BY Invariance, <1>1, PTL

\* allocate() never returns a block that somebody still holds.
THEOREM NoBlockSharedTwice == PoolSpec => []NoAliasing
  <1>1. IInv => NoAliasing
    BY DEF IInv
  <1> QED
    BY Invariance, <1>1, PTL

\* No block is lost and get_statistics adds up to the capacity.
THEOREM NoBlockLost == PoolSpec => []StatisticsAgree
  <1>1. IInv => StatisticsAgree
    BY DEF IInv
  <1> QED
    BY Invariance, <1>1, PTL

-----------------------------------------------------------------------------
(* The pool implements BlockPool *)

\* Under the invariant the free blocks are exactly those nobody holds.
LEMMA FreeIsNotHeld == IInv => ListRange = Blocks \ held
  BY DEF IInv, NoAliasing, StatisticsAgree

\* Every step of the pool is a step of the abstract pool or changes nothing
\* in it.
LEMMA StepSimulation == IInv /\ IInv' /\ [PoolNext]_poolVars => [Abstract!Next]_(Abstract!vars)
  <1> SUFFICES ASSUME IInv, IInv', [PoolNext]_poolVars PROVE [Abstract!Next]_(Abstract!vars)
    OBVIOUS
  <1>0. ListRange = Blocks \ held /\ ListRange' = Blocks' \ held'
    BY FreeIsNotHeld DEF IInv, NoAliasing, StatisticsAgree
  <1>1. CASE AllocateFree
    <2>1. /\ chain # <<>> /\ free_list = chain[1] /\ Blocks' = Blocks
          /\ held' = held \union {free_list}
      BY <1>1 DEF IInv, PoolTypeOK, ListIntact, AllocateFree, Pop, Nil, Blocks
    <2>2. free_list \in ListRange
      <3>1. 1 \in DOMAIN chain
        BY <2>1, EmptySeq, LenProperties DEF IInv, PoolTypeOK
      <3> QED
        BY <2>1, <3>1 DEF ListRange
    <2>3. ListRange' = ListRange \ {free_list}
      BY <1>0, <2>1
    <2>4. Abstract!Allocate
      BY <2>1, <2>2, <2>3 DEF Abstract!Allocate
    <2> QED
      BY <2>4 DEF Abstract!Next
  <1>2. CASE AllocateGrow
    <2> DEFINE top == capacity + BlocksPerChunk
               fresh == (capacity + 1)..top
    <2>1. /\ capacity \in Nat /\ top \in Nat /\ capacity + 1 <= top /\ top <= MaxBlocks
          /\ capacity' = top /\ held' = held \union {top}
      BY <1>2, BlocksAssumption DEF AllocateGrow, Pop, IInv, PoolTypeOK
    <2>2. ListRange = {}
      BY <1>2 DEF AllocateGrow, IInv, PoolTypeOK, ListIntact, ListRange, Blocks, Nil
    <2>3. held = 1..capacity
      BY <1>0, <2>2 DEF IInv, PoolTypeOK, Blocks
    <2>4. fresh \in SUBSET ((1..MaxBlocks) \ held) /\ top \in fresh
      BY <2>1, <2>3, MaxAssumption
    <2>5. ListRange' = fresh \ {top}
      BY <1>0, <2>1, <2>3 DEF Blocks
    <2>6. Abstract!GrowAndAllocate
      BY <2>1, <2>2, <2>4, <2>5 DEF Abstract!GrowAndAllocate
    <2> QED
      BY <2>6 DEF Abstract!Next
  <1>3. ASSUME NEW b \in held, Deallocate(b) PROVE Abstract!Next
    <2>1. held' = held \ {b} /\ Blocks' = Blocks /\ b \in Blocks
      BY <1>3 DEF Deallocate, Blocks, IInv, PoolTypeOK
    <2>2. ListRange' = ListRange \union {b}
      BY <1>0, <2>1
    <2>3. Abstract!Deallocate
      BY <2>1, <2>2 DEF Abstract!Deallocate
    <2> QED
      BY <2>3 DEF Abstract!Next
  <1>4. ASSUME NEW b \in held, NEW w \in Words, Store(b, w) PROVE UNCHANGED Abstract!vars
    BY <1>4 DEF Store, Abstract!vars, ListRange
  <1>5. CASE AllocateThrows \/ DeallocateForeign \/ UNCHANGED poolVars
    BY <1>5 DEF AllocateThrows, DeallocateForeign, poolVars, Abstract!vars, ListRange
  <1> QED
    BY <1>1, <1>2, <1>3, <1>4, <1>5 DEF PoolNext

\* fixed_block_pool implements the abstract pool of blocks.
THEOREM Refinement == PoolSpec => ImplementsBlockPool
  <1>1. PoolInit => Abstract!Init
    BY DEF PoolInit, Abstract!Init, ListRange
  <1> QED
    BY <1>1, Invariance, StepSimulation, PTL DEF PoolSpec, Abstract!Spec, ImplementsBlockPool

-----------------------------------------------------------------------------
(* pool_allocator *)

AllocatorTypeOK ==
  /\ origin \in [Ptrs -> Pools \union {Heap, Nowhere}]
  /\ free \in [Pools -> SUBSET Ptrs]
  /\ live \in [Ptrs -> Classes \union {NotLive}]

\* An object's memory is large enough for it, and was not given back while the
\* object is there: it is heap memory, or a block of a pool of its class.
ObjectsFit ==
  \A p \in Ptrs :
    /\ live[p] \in PoolClasses => origin[p] \in (Threads \X {live[p]}) \union {Heap}
    /\ live[p] = "large" => origin[p] = Heap

AllocatorInv == AllocatorTypeOK /\ OwnBlocksOnly /\ ObjectsFit

\* No call of allocate or deallocate, in whatever thread, and no end of a
\* thread breaks the invariant.
LEMMA AllocatorStepInv == AllocatorInv /\ [AllocatorNext]_allocatorVars => AllocatorInv'
  <1> SUFFICES ASSUME AllocatorInv, [AllocatorNext]_allocatorVars PROVE AllocatorInv'
    OBVIOUS
  <1> USE OriginsAssumption, NotLiveAssumption DEF AllocatorInv, AllocatorTypeOK, OwnBlocksOnly,
          ObjectsFit, Classes, PoolClasses, Pools
  <1>1. ASSUME NEW t \in Threads, NEW c \in Classes, NEW p \in Ptrs, AllocateFromPool(t, c, p)
        PROVE  AllocatorInv'
    BY <1>1 DEF AllocateFromPool
  <1>2. ASSUME NEW t \in Threads, NEW c \in Classes, NEW p \in Ptrs, AllocateFromNewChunk(t, c, p)
        PROVE  AllocatorInv'
    BY <1>2 DEF AllocateFromNewChunk
  <1>3. ASSUME NEW t \in Threads, NEW c \in Classes, NEW p \in Ptrs, AllocateFromHeap(t, c, p)
        PROVE  AllocatorInv'
    BY <1>3 DEF AllocateFromHeap
  <1>4. ASSUME NEW t \in Threads, NEW p \in Ptrs, DeallocateToPool(t, p)
        PROVE  AllocatorInv'
    BY <1>4 DEF DeallocateToPool
  <1>5. ASSUME NEW p \in Ptrs, DeallocateToHeap(p)
        PROVE  AllocatorInv'
    BY <1>5 DEF DeallocateToHeap
  <1>6. ASSUME NEW t \in Threads, ThreadExit(t)
        PROVE  AllocatorInv'
    BY <1>6 DEF ThreadExit
  <1>7. CASE UNCHANGED allocatorVars
    BY <1>7 DEF allocatorVars
  <1> HIDE DEF AllocatorInv, Classes, PoolClasses, Pools
  <1> QED
    BY <1>1, <1>2, <1>3, <1>4, <1>5, <1>6, <1>7 DEF AllocatorNext

\* The invariant of the allocator holds of every behaviour.
THEOREM AllocatorInvariance == AllocatorSpec => []AllocatorInv
  <1>1. AllocatorInit => AllocatorInv
    BY NotLiveAssumption DEF AllocatorInit, AllocatorInv, AllocatorTypeOK, OwnBlocksOnly,
       ObjectsFit, Classes, PoolClasses, Pools
  <1> QED
    BY <1>1, AllocatorStepInv, PTL DEF AllocatorSpec

\* However threads exchange the memory they allocate and free, the free list
\* of a pool holds only blocks of its own chunks that no object occupies.
THEOREM OwnBlocks == AllocatorSpec => []OwnBlocksOnly
  BY AllocatorInvariance, PTL DEF AllocatorInv

\* Neither a size class nor a thread lends its memory to another: an object
\* stays in a block of its own class, or on the heap, until it is deallocated.
THEOREM ObjectsStayBacked == AllocatorSpec => []ObjectsFit
  BY AllocatorInvariance, PTL DEF AllocatorInv
=============================================================================
