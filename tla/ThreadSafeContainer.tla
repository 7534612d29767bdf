------------------------ MODULE ThreadSafeContainer ------------------------
(***************************************************************************)
(* thread_safe_container (internal/thread_safe_container.{h,cpp}): a map   *)
(* behind a shared_mutex.  A call that only holds the exclusive lock for   *)
(* one update is one action; bulk_update and for_each_mut run the caller's *)
(* code under the lock and take a step per element; operator[] hands out a *)
(* reference that its caller may write through after the lock is gone.     *)
(* Whoever copies the map (for_each, bulk_read) holds the shared lock for  *)
(* several steps: LockFreeReader adds those actors.                        *)
(*                                                                         *)
(* A value is a model value; its name_ and the call statistics are left    *)
(* out.  set_variant and set_container are Set.                            *)
(***************************************************************************)
EXTENDS Naturals, Sequences

CONSTANTS
  Writers,     \* threads that modify the container
  RefWriters,  \* those of them that keep writing through operator[]'s reference
  Keys, Vals,  \* keys, and the values callers store
  Null,        \* the value operator[] creates
  Absent,      \* no entry
  NoThread, NoKey,
  MaxPast      \* bound on the number of states the map goes through

ASSUME RefWritersAssumption == RefWriters \subseteq Writers
ASSUME SymbolsAssumption ==
  /\ Absent \notin Vals \union {Null}
  /\ NoThread \notin Writers
  /\ NoKey \notin Keys
ASSUME PastBound == MaxPast \in Nat \ {0}

VARIABLES
  values,  \* values_
  excl,    \* the writer inside bulk_update or for_each_mut
  shared,  \* threads that hold mutex_ shared
  refs,    \* per writer, the element its reference from operator[] denotes
  past,    \* history: the successive contents of the container
  lastRef  \* history: which of them the last write through a reference made

containerVars == <<values, excl, shared, refs, past, lastRef>>

Entries == Vals \union {Null, Absent}
Contents == [Keys -> Entries]

ContainerInit ==
  /\ values = [k \in Keys |-> Absent]
  /\ excl = NoThread
  /\ shared = {}
  /\ refs = [w \in Writers |-> NoKey]
  /\ past = <<values>>
  /\ lastRef = 0

CanLock == excl = NoThread /\ shared = {}

\* One update under the exclusive lock, and the history of it.
Commit(new) ==
  /\ CanLock
  /\ Len(past) < MaxPast
  /\ values' = new
  /\ past' = Append(past, new)
  /\ UNCHANGED <<excl, shared, lastRef>>

\* set(key, value)
Set(k, v) ==
  /\ Commit([values EXCEPT ![k] = v])
  /\ UNCHANGED refs

\* remove(key).  References to the element die with it.
Remove(k) ==
  /\ Commit([values EXCEPT ![k] = Absent])
  /\ refs' = [w \in Writers |-> IF refs[w] = k THEN NoKey ELSE refs[w]]

\* clear(), and being the source of a move.
Clear ==
  /\ Commit([k \in Keys |-> Absent])
  /\ refs' = [w \in Writers |-> NoKey]

\* Copy and move assignment from another container, both locks held: the
\* old elements, and references to them, are gone.
Assign(new) ==
  /\ Commit(new)
  /\ refs' = [w \in Writers |-> NoKey]

\* compare_exchange(key, expected, desired)
CompareExchange(k, expected, desired) ==
  /\ Commit([values EXCEPT ![k] = IF @ = expected THEN desired ELSE @])
  /\ UNCHANGED refs

\* operator[](key): the element is created if need be, the lock released,
\* and the reference returned.
Index(w, k) ==
  /\ Commit([values EXCEPT ![k] = IF @ = Absent THEN Null ELSE @])
  /\ refs' = [refs EXCEPT ![w] = IF w \in RefWriters THEN k ELSE NoKey]

\* An assignment through that reference takes the element's own mutex, not
\* the container's.
RefWrite(w, v) ==
  /\ refs[w] # NoKey
  /\ Len(past) + (IF excl = NoThread THEN 0 ELSE 1) < MaxPast
  /\ values' = [values EXCEPT ![refs[w]] = v]
  /\ past' = Append(past, values')
  /\ lastRef' = Len(past')
  /\ UNCHANGED <<excl, shared, refs>>

\* bulk_update(updater) and for_each_mut(func)
BulkBegin(w) ==
  /\ CanLock
  /\ Len(past) < MaxPast
  /\ excl' = w
  /\ UNCHANGED <<values, shared, refs, past, lastRef>>

\* The updater stores or erases one element.
BulkStep(w, k, v) ==
  /\ excl = w
  /\ values' = [values EXCEPT ![k] = v]
  /\ refs' = [x \in Writers |-> IF v = Absent /\ refs[x] = k THEN NoKey ELSE refs[x]]
  /\ UNCHANGED <<excl, shared, past, lastRef>>

BulkEnd(w) ==
  /\ excl = w
  /\ excl' = NoThread
  /\ past' = Append(past, values)
  /\ UNCHANGED <<values, shared, refs, lastRef>>

Write ==
  \/ \E k \in Keys, v \in Vals : Set(k, v)
  \/ \E k \in Keys : Remove(k)
  \/ Clear
  \/ \E new \in Contents : Assign(new)
  \/ \E k \in Keys, e, d \in Vals : CompareExchange(k, e, d)
  \/ \E w \in Writers, k \in Keys : Index(w, k)
  \/ \E w \in Writers, v \in Vals : RefWrite(w, v)
  \/ \E w \in Writers : BulkBegin(w) \/ BulkEnd(w)
  \/ \E w \in Writers, k \in Keys, v \in Vals \union {Absent} : BulkStep(w, k, v)

ContainerTypeOK ==
  /\ values \in Contents
  /\ excl \in Writers \union {NoThread}
  /\ refs \in [Writers -> Keys \union {NoKey}]
  /\ past \in Seq(Contents)
  /\ lastRef \in 0..MaxPast
=============================================================================
