------------------------------ MODULE RcuValue ------------------------------
(***************************************************************************)
(* rcu_value (internal/rcu_value.h): the current version behind an atomic  *)
(* shared_ptr.  Versions live at addresses; an address is used again as    *)
(* soon as no pointer that owns it is left, which is what makes a          *)
(* comparison of pointers a comparison of versions.                        *)
(***************************************************************************)
EXTENDS Naturals, Sequences, FiniteSets

CONSTANTS
  RcuValues,   \* the rcu_value objects
  RcuThreads,
  Addresses,   \* where make_shared may put a version
  Nil,         \* the null pointer
  MaxCalls     \* bound on the calls of update, compare_and_update and operator=

VARIABLES
  memory,       \* per address: the version that is, or was last, there
  current,      \* per object: current_
  update_count, \* per object: update_count_
  calls,        \* the calls so far that publish a version, or try to
  thread,       \* per thread: the call it is in and its pointers
  published     \* history, per object: what was stored in current_, and on which version it was based

rcuVars == <<memory, current, update_count, calls, thread, published>>

ASSUME RcuAssumption ==
  /\ Nil \notin Addresses /\ MaxCalls \in Nat
  /\ IsFiniteSet(RcuValues) /\ IsFiniteSet(Addresses)
  /\ Cardinality(RcuValues) <= Cardinality(Addresses)

\* A thread's snapshot is the shared_ptr it got from read; "fresh" is the
\* pointer a call is about to store, "object" the rcu_value it works on.
NoRcuCall == [call |-> "none", object |-> Nil, snapshot |-> Nil, owns |-> TRUE, based |-> 0, of |-> Nil, fresh |-> Nil]

\* rcu_value(initial): a version of its own for each object
RcuInit ==
  /\ current = CHOOSE place \in [RcuValues -> Addresses] : \A o, p \in RcuValues : place[o] = place[p] => o = p
  /\ memory = CHOOSE m \in [Addresses -> 0..Cardinality(RcuValues)] :
                /\ \A a \in Addresses : m[a] = 0 <=> a \notin {current[o] : o \in RcuValues}
                /\ \A o, p \in RcuValues : m[current[o]] = m[current[p]] => o = p
  /\ update_count = [o \in RcuValues |-> 0]
  /\ calls = 0
  /\ thread = [t \in RcuThreads |-> NoRcuCall]
  /\ published = [o \in RcuValues |-> <<[version |-> memory[current[o]], how |-> "initial", base |-> 0]>>]

\* shared_ptr: the addresses that some owner keeps from being used again
Owned ==
  {current[o] : o \in RcuValues} \cup {thread[t].fresh : t \in RcuThreads}
  \cup {thread[t].snapshot : t \in {u \in RcuThreads : thread[u].owns}}

\* make_shared<const T>
MakeShared(a) == a \notin Owned /\ memory' = [memory EXCEPT ![a] = Cardinality(RcuValues) + calls + 1]

Free(t) == thread[t].call = "none"

\* Mutant: the address is returned without sharing the ownership.
ReadRaw(t, o) ==
  /\ Free(t)
  /\ thread' = [thread EXCEPT ![t] = [NoRcuCall EXCEPT !.snapshot = current[o], !.owns = FALSE, !.of = o,
                                                    !.based = memory[current[o]]]]
  /\ UNCHANGED <<memory, current, update_count, calls, published>>

\* read
Read(t, o) ==
  /\ Free(t)
  /\ thread' = [thread EXCEPT ![t] = [NoRcuCall EXCEPT !.snapshot = current[o], !.of = o,
                                                    !.based = memory[current[o]]]]
  /\ UNCHANGED <<memory, current, update_count, calls, published>>

\* The reader lets its snapshot go.
Release(t) ==
  /\ Free(t) /\ thread[t].snapshot # Nil
  /\ thread' = [thread EXCEPT ![t] = NoRcuCall]
  /\ UNCHANGED <<memory, current, update_count, calls, published>>

\* update and compare_and_update: the new version is made first.
BeginUpdate(t, o, a) ==
  /\ Free(t) /\ calls < MaxCalls /\ calls' = calls + 1 /\ MakeShared(a)
  /\ thread' = [thread EXCEPT ![t].call = "update", ![t].object = o, ![t].fresh = a]
  /\ UNCHANGED <<current, update_count, published>>

BeginCompare(t, a) ==
  /\ Free(t) /\ thread[t].snapshot # Nil /\ calls < MaxCalls /\ calls' = calls + 1 /\ MakeShared(a)
  /\ thread' = [thread EXCEPT ![t].call = "compare", ![t].object = thread[t].of, ![t].fresh = a]
  /\ UNCHANGED <<current, update_count, published>>

\* operator=: the other object's pointer is loaded, ...
BeginAssign(t, o, p) ==
  /\ Free(t) /\ calls < MaxCalls /\ calls' = calls + 1 /\ o # p
  /\ thread' = [thread EXCEPT ![t].call = "assign", ![t].object = o, ![t].fresh = current[p]]
  /\ UNCHANGED <<memory, current, update_count, published>>

\* ... then stored; the count of updates stays.
Publish(t, how, base) ==
  /\ current' = [current EXCEPT ![thread[t].object] = thread[t].fresh]
  /\ published' = [published EXCEPT ![thread[t].object] =
                     Append(@, [version |-> memory[thread[t].fresh], how |-> how, base |-> base])]

FinishAssign(t) ==
  /\ thread[t].call = "assign"
  /\ Publish(t, "assign", 0)
  /\ thread' = [thread EXCEPT ![t].call = "none", ![t].fresh = Nil]
  /\ UNCHANGED <<memory, update_count, calls>>

StoreNew(t) ==
  /\ thread[t].call = "update"
  /\ Publish(t, "update", 0)
  /\ thread' = [thread EXCEPT ![t].call = "count", ![t].fresh = Nil]
  /\ UNCHANGED <<memory, update_count, calls>>

\* atomic_compare_exchange_strong: pointers are compared, not versions.
CompareExchange(t) ==
  /\ thread[t].call = "compare"
  /\ IF current[thread[t].object] = thread[t].snapshot
     THEN Publish(t, "compare", thread[t].based)
          /\ thread' = [thread EXCEPT ![t].call = "count", ![t].fresh = Nil]
     ELSE UNCHANGED <<current, published>>
          /\ thread' = [thread EXCEPT ![t].call = "none", ![t].fresh = Nil]
  /\ UNCHANGED <<memory, update_count, calls>>

\* update_count_.fetch_add, after the version is visible
CountUpdate(t) ==
  /\ thread[t].call = "count"
  /\ update_count' = [update_count EXCEPT ![thread[t].object] = @ + 1]
  /\ thread' = [thread EXCEPT ![t].call = "none"]
  /\ UNCHANGED <<memory, current, calls, published>>

RcuNext ==
  \E t \in RcuThreads :
    \/ \E o \in RcuValues : Read(t, o) \/ \E p \in RcuValues : BeginAssign(t, o, p)
    \/ \E a \in Addresses : BeginCompare(t, a) \/ \E o \in RcuValues : BeginUpdate(t, o, a)
    \/ Release(t) \/ FinishAssign(t) \/ StoreNew(t) \/ CompareExchange(t) \/ CountUpdate(t)

RcuSpec == RcuInit /\ [][RcuNext]_rcuVars

-----------------------------------------------------------------------------
(* Properties *)

\* A compare_and_update that succeeds replaces the very version that the
\* caller read, even when addresses are used again in between: no update is
\* lost.  And the count of updates is that of the versions published by update
\* and compare_and_update, less those whose call has not returned.
SwapsHonest ==
  \A o \in RcuValues :
    /\ \A i \in DOMAIN published[o] :
         published[o][i].how = "compare" => published[o][i].base = published[o][i - 1].version
    /\ update_count[o] + Cardinality({t \in RcuThreads : thread[t].call = "count" /\ thread[t].object = o})
         = Cardinality({i \in DOMAIN published[o] : published[o][i].how \in {"update", "compare"}})
=============================================================================
