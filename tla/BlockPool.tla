----------------------------- MODULE BlockPool -----------------------------
(***************************************************************************)
(* What a pool of equal blocks promises its users, without free lists,     *)
(* pointers or counters: a block is handed out only when nobody holds it,  *)
(* and a block that is given back can be handed out again.                 *)
(* FixedBlockPool implements it; PoolAllocator relies on it.               *)
(***************************************************************************)
EXTENDS Naturals

CONSTANT Addresses   \* the addresses blocks may have

VARIABLES
  free,   \* blocks that can be handed out
  held    \* blocks that callers hold

vars == <<free, held>>

Init == free = {} /\ held = {}

Allocate ==
  \E b \in free : free' = free \ {b} /\ held' = held \union {b}

\* New blocks are only made when none is free.
GrowAndAllocate ==
  /\ free = {}
  /\ \E fresh \in SUBSET (Addresses \ held) : \E b \in fresh :
       free' = fresh \ {b} /\ held' = held \union {b}

Deallocate ==
  \E b \in held : free' = free \union {b} /\ held' = held \ {b}

Next == Allocate \/ GrowAndAllocate \/ Deallocate

Spec == Init /\ [][Next]_vars
=============================================================================
