---------------------------- MODULE EpochManager ----------------------------
(***************************************************************************)
(* epoch_manager and epoch_guard (internal/epoch_manager.h): three retire  *)
(* lists, a global epoch, and readers that pin themselves to an epoch.     *)
(*                                                                         *)
(* Readers and writers follow the header's usage example.  A reader enters *)
(* a critical section, picks up objects that are linked in the protected   *)
(* structure and drops them when its outermost guard goes; a writer        *)
(* unlinks an object, hands it to defer_delete and calls try_gc.  Each     *)
(* atomic access and each section under a retire_mutex_ is one action, so  *)
(* the gap between reading the epoch and locking the list is explicit in   *)
(* defer_delete and in try_gc.                                             *)
(***************************************************************************)
EXTENDS Naturals, FiniteSets

CONSTANTS
  Readers,    \* threads that call enter_critical and exit_critical
  Writers,    \* threads that call defer_delete
  Collectors, \* threads that call try_gc and force_gc
  Objs,       \* objects of the protected structure
  MaxEpoch,   \* bound on the global epoch
  MaxDepth,   \* bound on the nesting of guards in one reader
  NoObj       \* no object

NUM_EPOCHS == 3
INACTIVE == MaxEpoch + 1      \* any value that is not an epoch

ASSUME EpochBound == MaxEpoch \in Nat
ASSUME DepthBound == MaxDepth \in Nat
ASSUME NoObjAssumption == NoObj \notin Objs

VARIABLES
  global_epoch,   \* global_epoch_
  reclaimed,      \* reclaimed_count_
  gc_count,       \* gc_count_
  retired,        \* retired_: the retire list of each bucket
  thread_epoch,   \* thread_epoch() of each reader
  guards,         \* live epoch_guards of each reader
  refs,           \* objects each reader is using
  linked,         \* objects reachable in the protected structure
  deferring,      \* per writer, the defer_delete call between its load and its push
  gc,             \* per collector, the collection in progress
  deleted         \* objects whose deleter has run

vars == <<global_epoch, reclaimed, gc_count, retired, thread_epoch, guards, refs,
          linked, deferring, gc, deleted>>

Buckets == 0..(NUM_EPOCHS - 1)
Idle == [phase |-> "idle", current |-> 0, bucket |-> 0, todo |-> {}, total |-> 0]
NotDeferring == [obj |-> NoObj, bucket |-> 0]

Init ==
  /\ global_epoch = 0
  /\ reclaimed = 0
  /\ gc_count = 0
  /\ retired = [b \in Buckets |-> {}]
  /\ thread_epoch = [r \in Readers |-> INACTIVE]
  /\ guards = [r \in Readers |-> 0]
  /\ refs = [r \in Readers |-> {}]
  /\ linked = Objs
  /\ deferring = [w \in Writers |-> NotDeferring]
  /\ gc = [t \in Collectors |-> Idle]
  /\ deleted = {}

readerVars == <<thread_epoch, guards, refs>>
countVars == <<reclaimed, gc_count>>

-----------------------------------------------------------------------------
(* Readers *)

Forcing == \E t \in Collectors : gc[t].phase \in {"force", "force_delete"}

\* enter_critical(), and the constructor of epoch_guard.  Nobody enters
\* while force_gc runs: that is its documented precondition.
EnterCritical(r) ==
  /\ guards[r] < MaxDepth
  /\ ~Forcing
  /\ thread_epoch' = [thread_epoch EXCEPT ![r] = global_epoch]
  /\ guards' = [guards EXCEPT ![r] = @ + 1]
  /\ UNCHANGED <<global_epoch, countVars, retired, refs, linked, deferring, gc, deleted>>

\* exit_critical(), and the destructor of epoch_guard: the thread becomes
\* inactive whatever the number of guards that are still alive.
ExitCritical(r) ==
  /\ guards[r] > 0
  /\ thread_epoch' = [thread_epoch EXCEPT ![r] = INACTIVE]
  /\ guards' = [guards EXCEPT ![r] = @ - 1]
  /\ refs' = [refs EXCEPT ![r] = IF guards[r] = 1 THEN {} ELSE @]
  /\ UNCHANGED <<global_epoch, countVars, retired, linked, deferring, gc, deleted>>

\* The reader finds an object by following the structure.
Acquire(r, o) ==
  /\ guards[r] > 0 /\ o \in linked
  /\ refs' = [refs EXCEPT ![r] = @ \union {o}]
  /\ UNCHANGED <<global_epoch, countVars, retired, thread_epoch, guards, linked,
                 deferring, gc, deleted>>

-----------------------------------------------------------------------------
(* Writers *)

\* The writer unlinks o and calls defer_delete, which loads the epoch.
DeferLoad(w, o) ==
  /\ deferring[w] = NotDeferring
  /\ o \in linked
  /\ linked' = linked \ {o}
  /\ deferring' = [deferring EXCEPT ![w] = [obj |-> o, bucket |-> global_epoch % NUM_EPOCHS]]
  /\ UNCHANGED <<global_epoch, countVars, retired, readerVars, gc, deleted>>

\* defer_delete appends to the list of the bucket it computed, under the lock.
DeferPush(w) ==
  LET d == deferring[w]
  IN  /\ d # NotDeferring
      /\ retired' = [retired EXCEPT ![d.bucket] = @ \union {d.obj}]
      /\ deferring' = [deferring EXCEPT ![w] = NotDeferring]
      /\ UNCHANGED <<global_epoch, countVars, readerVars, linked, gc, deleted>>

-----------------------------------------------------------------------------
(* Collectors *)

\* The bucket of safe_epoch = current - 2.
SafeBucket(current) == (current - 2) % NUM_EPOCHS

\* try_gc(): the epoch advances before the list to collect is chosen; the
\* first two calls return at once.
GcAdvance(t) ==
  /\ gc[t] = Idle
  /\ global_epoch < MaxEpoch
  /\ global_epoch' = global_epoch + 1
  /\ gc' = [gc EXCEPT ![t] =
       IF global_epoch < 2 THEN Idle
       ELSE [Idle EXCEPT !.phase = "take", !.current = global_epoch,
                         !.bucket = SafeBucket(global_epoch)]]
  /\ UNCHANGED <<countVars, retired, readerVars, linked, deferring, deleted>>

\* Mutant: the list is copied, not moved and cleared.
TakeCopy(t) ==
  /\ gc[t].phase \in {"take", "force"}
  /\ gc' = [gc EXCEPT ![t].phase = IF @ = "take" THEN "delete" ELSE "force_delete",
                      ![t].todo = retired[gc[t].bucket],
                      ![t].total = @ + Cardinality(retired[gc[t].bucket])]
  /\ UNCHANGED <<global_epoch, countVars, retired, readerVars, linked, deferring, deleted>>

\* try_gc() and force_gc() move the list of a bucket out, under its lock.
Take(t) ==
  /\ gc[t].phase \in {"take", "force"}
  /\ gc' = [gc EXCEPT ![t].phase = IF @ = "take" THEN "delete" ELSE "force_delete",
                      ![t].todo = retired[gc[t].bucket],
                      ![t].total = @ + Cardinality(retired[gc[t].bucket])]
  /\ retired' = [retired EXCEPT ![gc[t].bucket] = {}]
  /\ UNCHANGED <<global_epoch, countVars, readerVars, linked, deferring, deleted>>

\* One deleter runs.
Delete(t, o) ==
  /\ gc[t].phase \in {"delete", "force_delete"}
  /\ o \in gc[t].todo
  /\ deleted' = deleted \union {o}
  /\ gc' = [gc EXCEPT ![t].todo = @ \ {o}]
  /\ UNCHANGED <<global_epoch, countVars, retired, readerVars, linked, deferring>>

\* try_gc() counts what it reclaimed.
GcCount(t) ==
  /\ gc[t].phase = "delete" /\ gc[t].todo = {}
  /\ gc_count' = gc_count + 1
  /\ reclaimed' = reclaimed + gc[t].total
  /\ gc' = [gc EXCEPT ![t] = Idle]
  /\ UNCHANGED <<global_epoch, retired, readerVars, linked, deferring, deleted>>

\* force_gc(), which "should only be called when no threads are accessing
\* lock-free data structures", walks the buckets from the first to the last.
ForceStart(t) ==
  /\ gc[t] = Idle
  /\ \A r \in Readers : guards[r] = 0
  /\ gc' = [gc EXCEPT ![t].phase = "force"]
  /\ UNCHANGED <<global_epoch, countVars, retired, readerVars, linked, deferring, deleted>>

ForceNext(t) ==
  /\ gc[t].phase = "force_delete" /\ gc[t].todo = {} /\ gc[t].bucket < NUM_EPOCHS - 1
  /\ gc' = [gc EXCEPT ![t].phase = "force", ![t].bucket = @ + 1]
  /\ UNCHANGED <<global_epoch, countVars, retired, readerVars, linked, deferring, deleted>>

ForceCount(t) ==
  /\ gc[t].phase = "force_delete" /\ gc[t].todo = {} /\ gc[t].bucket = NUM_EPOCHS - 1
  /\ gc_count' = IF gc[t].total > 0 THEN gc_count + 1 ELSE gc_count
  /\ reclaimed' = reclaimed + gc[t].total
  /\ gc' = [gc EXCEPT ![t] = Idle]
  /\ UNCHANGED <<global_epoch, retired, readerVars, linked, deferring, deleted>>

Next ==
  \/ \E r \in Readers : EnterCritical(r) \/ ExitCritical(r)
  \/ \E r \in Readers, o \in Objs : Acquire(r, o)
  \/ \E w \in Writers, o \in Objs : DeferLoad(w, o)
  \/ \E w \in Writers : DeferPush(w)
  \/ \E t \in Collectors : GcAdvance(t) \/ Take(t) \/ GcCount(t)
  \/ \E t \in Collectors, o \in Objs : Delete(t, o)
  \/ \E t \in Collectors : ForceStart(t) \/ ForceNext(t) \/ ForceCount(t)

Spec == Init /\ [][Next]_vars

-----------------------------------------------------------------------------
(* Properties *)

Epochs == 0..MaxEpoch
Phases == {"idle", "take", "delete", "force", "force_delete"}

TypeOK ==
  /\ global_epoch \in Epochs
  /\ reclaimed \in Nat /\ gc_count \in Nat
  /\ retired \in [Buckets -> SUBSET Objs]
  /\ thread_epoch \in [Readers -> Epochs \union {INACTIVE}]
  /\ guards \in [Readers -> 0..MaxDepth]
  /\ refs \in [Readers -> SUBSET Objs]
  /\ linked \subseteq Objs
  /\ deferring \in [Writers -> [obj : Objs \union {NoObj}, bucket : Buckets]]
  /\ gc \in [Collectors -> [phase : Phases, current : Epochs, bucket : Buckets,
                          todo : SUBSET Objs, total : Nat]]
  /\ deleted \subseteq Objs

\* The stages an object passes through, each with the actor that has it.
Places ==
  {<<"linked">>, <<"deleted">>}
    \union {<<"deferring", w>> : w \in Writers}
    \union {<<"retired", b>> : b \in Buckets}
    \union {<<"collecting", t>> : t \in Collectors}

Position(o, p) ==
  \/ p[1] = "linked" /\ o \in linked
  \/ p[1] = "deleted" /\ o \in deleted
  \/ p[1] = "deferring" /\ deferring[p[2]].obj = o
  \/ p[1] = "retired" /\ o \in retired[p[2]]
  \/ p[1] = "collecting" /\ o \in gc[p[2]].todo

\* Nothing is lost and nothing is deleted twice: with any number of
\* collectors, an object is at exactly one place between its unlinking and
\* its deleter, and a deleted object is nowhere else.
DeletedExactlyOnce ==
  \A o \in Objs : \E p \in Places : Position(o, p) /\ \A q \in Places : Position(o, q) => q = p

(* What the header promises and the code does not do. *)

\* defer_delete: "The deleter will be called when it's safe to reclaim the
\* memory (when all readers from the current epoch have exited)."
SafeReclamation == \A r \in Readers : refs[r] \cap deleted = {}
=============================================================================
