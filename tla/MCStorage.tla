----------------------------- MODULE MCStorage -----------------------------
(***************************************************************************)
(* What values are stored in: the storage policies of                      *)
(* basic_value_container, the pool of one thread in detail, and the        *)
(* allocator over the pools of two threads.  They do not touch one         *)
(* another: a behaviour is of one of them, and the others rest.            *)
(*                                                                         *)
(* The policies have two containers, three keys, and calls that set,       *)
(* overwrite and remove up to two keys at once; one of the payloads is of  *)
(* a type the static policy does not allow.  The pool has two chunks of    *)
(* two blocks, whose holders may store the null pointer or the address of  *)
(* any block in them.                                                      *)
(***************************************************************************)
EXTENDS PolicyContainer, FixedBlockPool, PoolAllocator, TLC

CONSTANTS v1, v2

VARIABLE component

storageVars == <<component, vars, poolVars, allocatorVars>>

StorageInit ==
  /\ component \in {"policies", "pool", "allocator"}
  /\ Init /\ PoolInit /\ AllocatorInit
  /\ component # "policies" => policy = "dynamic"

PolicyStep == component = "policies" /\ Next /\ UNCHANGED <<component, poolVars, allocatorVars>>
PoolStep == component = "pool" /\ PoolNext /\ UNCHANGED <<component, vars, allocatorVars>>
AllocatorStep == component = "allocator" /\ AllocatorNext /\ UNCHANGED <<component, vars, poolVars>>

StorageNext == PolicyStep \/ PoolStep \/ AllocatorStep
StorageSpec == StorageInit /\ [][StorageNext]_storageVars

Pairs == {<<k, l>> \in Keys \X Keys : k # l}
SomeBatches ==
  {<<SetOp(k, v)>> : k \in Keys, v \in Vals}
    \union {<<RemoveOp(k)>> : k \in Keys}
    \union {<<SetOp(k, v1), SetOp(l, v2)>> : <<k, l>> \in Pairs}
    \union {<<RemoveOp(k), RemoveOp(l)>> : <<k, l>> \in Pairs}
AnyWord == 0..MaxBlocks

Symmetry == Permutations(Keys) \union Permutations(Containers)
=============================================================================
