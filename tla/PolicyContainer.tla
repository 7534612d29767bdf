-------------------------- MODULE PolicyContainer --------------------------
(***************************************************************************)
(* basic_value_container (policy_container.h) over the three storage       *)
(* policies of storage_policy.h, which promise one interface:              *)
(*   dynamic  a vector, searched from its front;                           *)
(*   indexed  a vector and a hash index from keys to positions in it;      *)
(*   static   the dynamic one, which ignores values of types outside its   *)
(*            list.                                                        *)
(*                                                                         *)
(* The template parameter is the variable policy, chosen once.  Every      *)
(* public operation holds the container's lock; a batch operation holds it *)
(* from its first element to its last and is stepped through element by    *)
(* element, so that a failing allocation can end it in the middle.  The    *)
(* header fields, which the container shares with value_container, are     *)
(* left out.                                                               *)
(*                                                                         *)
(* data() gives callers the vector itself.  Whoever rearranges it has to   *)
(* call rebuild_index() next; what an indexed container does in between,   *)
(* and after a failed push_back that has already been indexed, is          *)
(* undefined, and stale keeps callers from every call that does not repair *)
(* the index.                                                              *)
(***************************************************************************)
EXTENDS Naturals, Sequences, SequencesExt

CONSTANTS
  Containers,  \* the containers, all of one policy
  Keys,        \* value names
  Vals,        \* payloads
  Allowed,     \* the payloads whose type the static policy allows
  Batches,     \* the sequences of operations callers make in one call
  Absent       \* no payload

VARIABLES
  policy,      \* the StoragePolicy template argument
  values,      \* values_ of each container
  index,       \* index_ of each container, positions counted from 1
  batch,       \* what is left of the operation that holds the lock
  stale,       \* containers whose index does not describe their vector
  map          \* history: the map each container stands for

vars == <<policy, values, index, batch, stale, map>>

Policies == {"dynamic", "indexed", "static"}
Unit == [name : Keys, val : Vals]
SetOp(k, v) == [op |-> "set", name |-> k, val |-> v]
RemoveOp(k) == [op |-> "remove", name |-> k, val |-> Absent]
Ops == [op : {"set"}, name : Keys, val : Vals] \union [op : {"remove"}, name : Keys, val : {Absent}]

ASSUME AbsentAssumption == Absent \notin Vals
ASSUME AllowedAssumption == Allowed \subseteq Vals
ASSUME BatchesAssumption == Batches \subseteq Seq(Ops)

NoIndex == [k \in {} |-> 0]
EmptyMap == [k \in Keys |-> Absent]

Init ==
  /\ policy \in Policies
  /\ values = [c \in Containers |-> <<>>]
  /\ index = [c \in Containers |-> NoIndex]
  /\ batch = [c \in Containers |-> <<>>]
  /\ stale = {}
  /\ map = [c \in Containers |-> EmptyMap]

-----------------------------------------------------------------------------
(* The policies *)

\* find_by_key(): the first value of that name, 0 when there is none.
FindByKey(vs, k) == SelectInSeq(vs, LAMBDA u : u.name = k)

\* Where an operation on key k of container c finds its value.
Position(c, k) ==
  IF policy # "indexed" THEN FindByKey(values[c], k)
  ELSE IF k \in DOMAIN index[c] THEN index[c][k] ELSE 0

\* get(key)
Lookup(c, k) ==
  LET i == Position(c, k) IN IF i = 0 THEN Absent ELSE values[c][i].val

Ignored(u) == policy = "static" /\ u.val \notin Allowed

\* Mutant: a value that is there is kept.
ReplacedKept(c, i, u) == values[c]

\* set(key, value) of a key that is there: *it = value
Replaced(c, i, u) == ReplaceAt(values[c], i, u)

Entered(ix, k, i) == [j \in DOMAIN ix \union {k} |-> IF j = k THEN i ELSE ix[j]]

\* index_[key] = values_.size(), ahead of the push_back of a new key.
Indexed(c, k) ==
  IF policy = "indexed" THEN Entered(index[c], k, Len(values[c]) + 1) ELSE index[c]

\* Mutant: positions behind the erased value are not moved up.
UnindexedKept(c, k) == [j \in DOMAIN index[c] \ {k} |-> index[c][j]]

\* index_.erase(key), and the positions behind the erased value move up.
Unindexed(c, k) ==
  [j \in DOMAIN index[c] \ {k} |->
     IF index[c][j] > index[c][k] THEN index[c][j] - 1 ELSE index[c][j]]

\* Mutant: the last value takes the place of the erased one.
ErasedBySwap(vs, i) == IF i = Len(vs) THEN Front(vs) ELSE ReplaceAt(Front(vs), i, Last(vs))

\* values_.erase(it)
Erased(vs, i) == RemoveAt(vs, i)

-----------------------------------------------------------------------------
(* Calls *)

Free(c) == batch[c] = <<>> /\ c \notin stale

\* A call takes the lock: set, set_result, set_all, both bulk_inserts, remove
\* and remove_batch, each as the sequence of what it does to the storage.
Begin(c, ops) ==
  /\ Free(c)
  /\ batch' = [batch EXCEPT ![c] = ops]
  /\ UNCHANGED <<policy, values, index, stale, map>>

Ended(c) == batch' = [batch EXCEPT ![c] = Tail(@)]

\* storage_.set(key, value)
SetStep(c) ==
  LET o == Head(batch[c])
      u == [name |-> o.name, val |-> o.val]
      i == Position(c, o.name)
  IN  /\ batch[c] # <<>> /\ o.op = "set"
      /\ IF Ignored(u) THEN UNCHANGED <<values, index, map>>
         ELSE /\ values' = [values EXCEPT ![c] = IF i = 0 THEN Append(@, u) ELSE Replaced(c, i, u)]
              /\ index' = [index EXCEPT ![c] = IF i = 0 THEN Indexed(c, o.name) ELSE @]
              /\ map' = [map EXCEPT ![c][o.name] = o.val]
      /\ Ended(c)
      /\ UNCHANGED <<policy, stale>>

\* storage_.remove(key)
RemoveStep(c) ==
  LET k == Head(batch[c]).name
      i == Position(c, k)
  IN  /\ batch[c] # <<>> /\ Head(batch[c]).op = "remove"
      /\ values' = [values EXCEPT ![c] = IF i = 0 THEN @ ELSE Erased(@, i)]
      /\ index' = [index EXCEPT ![c] = IF policy = "indexed" /\ i # 0 THEN Unindexed(c, k) ELSE @]
      /\ map' = [map EXCEPT ![c][k] = Absent]
      /\ Ended(c)
      /\ UNCHANGED <<policy, stale>>

\* push_back throws std::bad_alloc: the call ends with what it has done so
\* far, and the indexed policy has already entered the key in its index.
AllocFails(c) ==
  LET o == Head(batch[c])
  IN  /\ batch[c] # <<>> /\ o.op = "set"
      /\ Position(c, o.name) = 0 /\ ~Ignored(o)
      /\ index' = [index EXCEPT ![c] = Indexed(c, o.name)]
      /\ stale' = IF policy = "indexed" THEN stale \union {c} ELSE stale
      /\ batch' = [batch EXCEPT ![c] = <<>>]
      /\ UNCHANGED <<policy, values, map>>

\* Another allocation of the call throws (the copy of a key, a node of the
\* index, reserve): the call ends with what it has done so far.
CopyFails(c) ==
  /\ batch[c] # <<>>
  /\ batch' = [batch EXCEPT ![c] = <<>>]
  /\ UNCHANGED <<policy, values, index, stale, map>>

\* clear_value()
ClearValue(c) ==
  /\ batch[c] = <<>>
  /\ values' = [values EXCEPT ![c] = <<>>]
  /\ index' = [index EXCEPT ![c] = NoIndex]
  /\ map' = [map EXCEPT ![c] = EmptyMap]
  /\ stale' = stale \ {c}
  /\ UNCHANGED <<policy, batch>>

\* The copy constructor and copy assignment of d to c: both locks are taken
\* together.
CopyAssign(c, d) ==
  /\ c # d /\ Free(d) /\ batch[c] = <<>>
  /\ values' = [values EXCEPT ![c] = values[d]]
  /\ index' = [index EXCEPT ![c] = index[d]]
  /\ map' = [map EXCEPT ![c] = map[d]]
  /\ stale' = stale \ {c}
  /\ UNCHANGED <<policy, batch>>

\* The move constructor and move assignment: vector and index leave d empty.
MoveAssign(c, d) ==
  /\ c # d /\ Free(d) /\ batch[c] = <<>>
  /\ values' = [values EXCEPT ![c] = values[d], ![d] = <<>>]
  /\ index' = [index EXCEPT ![c] = index[d], ![d] = NoIndex]
  /\ map' = [map EXCEPT ![c] = map[d], ![d] = EmptyMap]
  /\ stale' = stale \ {c}
  /\ UNCHANGED <<policy, batch>>

\* A caller turns the vector that data() gives it around.
Edit(c) ==
  /\ Free(c) /\ values[c] # <<>>
  /\ values' = [values EXCEPT ![c] = Reverse(@)]
  /\ stale' = IF policy = "indexed" THEN stale \union {c} ELSE stale
  /\ UNCHANGED <<policy, index, batch, map>>

\* rebuild_index()
RebuildIndex(c) ==
  /\ policy = "indexed" /\ batch[c] = <<>>
  /\ index' = [index EXCEPT ![c] =
       [k \in {values[c][i].name : i \in DOMAIN values[c]} |->
          CHOOSE i \in DOMAIN values[c] : /\ values[c][i].name = k
                                          /\ \A j \in DOMAIN values[c] : values[c][j].name = k => j <= i]]
  /\ stale' = stale \ {c}
  /\ UNCHANGED <<policy, values, batch, map>>

Next ==
  \E c \in Containers :
    \/ \E ops \in Batches : Begin(c, ops)
    \/ SetStep(c) \/ RemoveStep(c) \/ AllocFails(c) \/ CopyFails(c)
    \/ ClearValue(c) \/ Edit(c) \/ RebuildIndex(c)
    \/ \E d \in Containers : CopyAssign(c, d) \/ MoveAssign(c, d)

Spec == Init /\ [][Next]_vars

-----------------------------------------------------------------------------
(* Properties *)

TypeOK ==
  /\ policy \in Policies
  /\ values \in [Containers -> Seq(Unit)]
  /\ index = [c \in Containers |-> index[c]]
  /\ \A c \in Containers : DOMAIN index[c] \subseteq Keys /\ index[c] \in [DOMAIN index[c] -> Nat \ {0}]
  /\ batch \in [Containers -> Seq(Ops)]
  /\ stale \subseteq Containers
  /\ map \in [Containers -> [Keys -> Vals \union {Absent}]]

\* Names occur once in a vector, and the index of the indexed policy maps
\* every one of them to its position and nothing else, through erasures in
\* the middle, moves out of the container and back, and failed insertions
\* that were repaired with rebuild_index or clear_value.
IndexSound ==
  \A c \in Containers :
    /\ \A i, j \in DOMAIN values[c] : values[c][i].name = values[c][j].name => i = j
    /\ policy = "indexed" /\ c \notin stale =>
         /\ \A k \in DOMAIN index[c] : /\ index[c][k] \in DOMAIN values[c]
                                       /\ values[c][index[c][k]].name = k
         /\ \A i \in DOMAIN values[c] : values[c][i].name \in DOMAIN index[c]

\* Whatever the policy, get answers like one and the same map (for the
\* static policy, of the values it accepts).
AnswersLikeMap ==
  \A c \in Containers : c \notin stale => \A k \in Keys : Lookup(c, k) = map[c][k]

Before(vs, k, l) == FindByKey(vs, k) < FindByKey(vs, l)
Held(vs) == {vs[i].name : i \in DOMAIN vs}

\* Iteration keeps the order of insertion under every policy: no set or
\* remove makes two values that stay change places.
OrderKept ==
  [][\A c \in Containers : SetStep(c) \/ RemoveStep(c) =>
       \A k, l \in Held(values[c]) \cap Held(values'[c]) :
         Before(values[c], k, l) => Before(values'[c], k, l)]_vars
=============================================================================
