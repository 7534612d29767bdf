--------------------------- MODULE LockFreeReader ---------------------------
(***************************************************************************)
(* lockfree_container_reader and auto_refresh_reader                       *)
(* (internal/thread_safe_container.h) over a ThreadSafeContainer that      *)
(* writers keep changing.                                                  *)
(*                                                                         *)
(* refresh() copies the map element by element under the shared lock and,  *)
(* after releasing it, publishes the copy with one atomic store.  It is    *)
(* called by any number of threads and by the background thread of the     *)
(* auto-refreshing reader, which sleeps on a condition variable for the    *)
(* interval and leaves when stop() clears running_.  Reads (get, contains, *)
(* keys, for_each) load the published pointer once and change nothing.     *)
(* snapshot_reader::update_snapshot has the shape of refresh().  mutex_ of *)
(* the auto reader is only held within one action; refresh_count_ is left  *)
(* out.                                                                    *)
(***************************************************************************)
EXTENDS ThreadSafeContainer

CONSTANTS
  Manual,      \* threads that call refresh()
  Background,  \* the background thread
  Stoppers     \* threads that call stop()

ASSUME BackgroundAssumption == Background \notin Manual

VARIABLES
  snapshot,  \* the published snapshot_
  rf,        \* per refreshing thread, its refresh() call in progress
  bg,        \* the place of refresh_loop()
  running,   \* running_
  stop,      \* per stopper, its stop() call
  snapVer,   \* history: which of the past contents the snapshot was copied from
  snapMixed, \* history: somebody wrote through a reference while it was copied
  loneVer    \* history: the newest contents copied by a refresh that overlapped no other

readerVars == <<snapshot, rf, bg, running, stop, snapVer, snapMixed, loneVer>>
vars == <<containerVars, readerVars>>

Refreshers == Manual \union {Background}
NoSnapshot == [k \in Keys |-> Absent]
NoRefresh == [phase |-> "idle", todo |-> {}, copy |-> NoSnapshot, ver |-> 0,
              mixed |-> FALSE, lone |-> FALSE]
NewerOf(i, j) == IF i >= j THEN i ELSE j

\* Both constructors have returned: the first refresh() is done and the
\* background thread is started.
Init ==
  /\ ContainerInit
  /\ snapshot = values
  /\ rf = [t \in Refreshers |-> NoRefresh]
  /\ bg = "loop"
  /\ running = TRUE
  /\ stop = [s \in Stoppers |-> "idle"]
  /\ snapVer = 1 /\ snapMixed = FALSE /\ loneVer = 1

-----------------------------------------------------------------------------
(* refresh() *)

Busy(t) == rf[t].phase # "idle"

\* container_->for_each takes the shared lock.
RefreshLock(t) ==
  /\ ~Busy(t)
  /\ t = Background => bg = "refresh"
  /\ excl = NoThread
  /\ shared' = shared \union {t}
  /\ rf' = [u \in Refreshers |->
       IF u = t
       THEN [phase |-> "copy", todo |-> Keys, copy |-> NoSnapshot,
             ver |-> Len(past), mixed |-> FALSE, lone |-> \A o \in Refreshers : ~Busy(o)]
       ELSE [rf[u] EXCEPT !.lone = FALSE]]
  /\ UNCHANGED <<values, excl, refs, past, lastRef, snapshot, bg, running, stop, snapVer, snapMixed, loneVer>>

\* new_snapshot->emplace(key, val)
RefreshCopy(t, k) ==
  /\ rf[t].phase = "copy" /\ k \in rf[t].todo
  /\ rf' = [rf EXCEPT ![t] =
       [phase |-> "copy", todo |-> rf[t].todo \ {k}, ver |-> rf[t].ver, mixed |-> rf[t].mixed,
        lone |-> rf[t].lone, copy |-> [rf[t].copy EXCEPT ![k] = values[k]]]]
  /\ UNCHANGED <<containerVars, snapshot, bg, running, stop, snapVer, snapMixed, loneVer>>

\* Mutant: the shared lock is released before the map has been copied.
RefreshUnlockEarly(t) ==
  /\ rf[t].phase = "copy"
  /\ shared' = shared \ {t}
  /\ rf' = [rf EXCEPT ![t].phase = IF rf[t].todo = {} THEN "store" ELSE @,
                       ![t].mixed = lastRef > rf[t].ver]
  /\ UNCHANGED <<values, excl, refs, past, lastRef, snapshot, bg, running, stop, snapVer, snapMixed, loneVer>>

\* for_each returns.
RefreshUnlock(t) ==
  /\ rf[t].phase = "copy" /\ rf[t].todo = {}
  /\ shared' = shared \ {t}
  /\ rf' = [rf EXCEPT ![t].phase = "store", ![t].mixed = lastRef > rf[t].ver]
  /\ UNCHANGED <<values, excl, refs, past, lastRef, snapshot, bg, running, stop, snapVer, snapMixed, loneVer>>

\* Mutant: a snapshot that is already there is kept.
RefreshStoreOnce(t) ==
  /\ rf[t].phase = "store"
  /\ rf' = [rf EXCEPT ![t].phase = "return"]
  /\ UNCHANGED <<containerVars, snapshot, bg, running, stop, snapVer, snapMixed, loneVer>>

\* The atomic store of snapshot_.
RefreshStore(t) ==
  /\ rf[t].phase = "store"
  /\ snapshot' = rf[t].copy
  /\ snapVer' = rf[t].ver /\ snapMixed' = rf[t].mixed
  /\ rf' = [rf EXCEPT ![t].phase = "return"]
  /\ UNCHANGED <<containerVars, bg, running, stop, loneVer>>

\* refresh_count_ is incremented and the call returns.
RefreshReturn(t) ==
  /\ rf[t].phase = "return"
  /\ rf' = [rf EXCEPT ![t] = NoRefresh]
  /\ bg' = IF t = Background THEN "loop" ELSE bg
  /\ loneVer' = IF rf[t].lone THEN NewerOf(loneVer, rf[t].ver) ELSE loneVer
  /\ UNCHANGED <<containerVars, snapshot, running, stop, snapVer, snapMixed>>

-----------------------------------------------------------------------------
(* auto_refresh_reader *)

\* refresh_loop() enters wait_for, whose predicate is tested first.
LoopWait ==
  /\ bg = "loop"
  /\ bg' = IF running THEN "waiting" ELSE "exited"
  /\ UNCHANGED <<containerVars, snapshot, rf, running, stop, snapVer, snapMixed, loneVer>>

\* wait_for ends: the interval has elapsed, or stop() notified.  (A wakeup
\* that finds running_ before the interval has elapsed sleeps on.)
LoopWake ==
  /\ bg = "waiting"
  /\ bg' = IF running THEN "refresh" ELSE "exited"
  /\ UNCHANGED <<containerVars, snapshot, rf, running, stop, snapVer, snapMixed, loneVer>>

\* Mutant: running_ is not cleared before the join.
StopFlagKept(s) ==
  /\ stop[s] = "idle"
  /\ stop' = [stop EXCEPT ![s] = IF running THEN "joining" ELSE "returned"]
  /\ UNCHANGED <<containerVars, snapshot, rf, bg, running, snapVer, snapMixed, loneVer>>

\* stop(): only the call that clears running_ goes on to notify and join.
Stop(s) ==
  /\ stop[s] = "idle"
  /\ running' = FALSE
  /\ stop' = [stop EXCEPT ![s] = IF running THEN "joining" ELSE "returned"]
  /\ UNCHANGED <<containerVars, snapshot, rf, bg, snapVer, snapMixed, loneVer>>

\* Mutant: the thread is not joined.
StopReturnEarly(s) ==
  /\ stop[s] = "joining"
  /\ stop' = [stop EXCEPT ![s] = "returned"]
  /\ UNCHANGED <<containerVars, snapshot, rf, bg, running, snapVer, snapMixed, loneVer>>

\* refresh_thread_.join() returns.
StopReturn(s) ==
  /\ stop[s] = "joining" /\ bg = "exited"
  /\ stop' = [stop EXCEPT ![s] = "returned"]
  /\ UNCHANGED <<containerVars, snapshot, rf, bg, running, snapVer, snapMixed, loneVer>>

-----------------------------------------------------------------------------
(* The specification *)

Refresh(t) ==
  \/ RefreshLock(t) \/ RefreshUnlock(t) \/ RefreshStore(t) \/ RefreshReturn(t)
  \/ \E k \in Keys : RefreshCopy(t, k)

Next ==
  \/ Write /\ UNCHANGED readerVars
  \/ \E t \in Refreshers : Refresh(t)
  \/ LoopWait \/ LoopWake
  \/ \E s \in Stoppers : Stop(s) \/ StopReturn(s)

Spec == Init /\ [][Next]_vars

\* The background thread and a thread inside stop() or bulk_update keep
\* being scheduled, the wait interval elapses, and the shared lock is
\* eventually granted to a reader when no writer holds the mutex.
Fairness ==
  /\ WF_vars(Refresh(Background))
  /\ WF_vars(LoopWait)
  /\ WF_vars(LoopWake)
  /\ \A s \in Stoppers : WF_vars(StopReturn(s))
  /\ \A w \in Writers : WF_vars(BulkEnd(w) /\ UNCHANGED readerVars)

FairSpec == Spec /\ Fairness

-----------------------------------------------------------------------------
(* Properties *)

Phases == {"idle", "copy", "store", "return"}

TypeOK ==
  /\ ContainerTypeOK
  /\ shared \subseteq Refreshers
  /\ snapshot \in Contents
  /\ rf \in [Refreshers -> [phase : Phases, todo : SUBSET Keys, copy : Contents,
                            ver : 0..MaxPast, mixed : BOOLEAN, lone : BOOLEAN]]
  /\ bg \in {"loop", "waiting", "refresh", "exited"}
  /\ running \in BOOLEAN
  /\ stop \in [Stoppers -> {"idle", "joining", "returned"}]
  /\ snapVer \in 1..MaxPast /\ snapMixed \in BOOLEAN /\ loneVer \in 1..MaxPast

\* What readers see is a state the whole map was in at one moment, although
\* it is copied element by element among concurrent set, remove and
\* bulk_update calls and published long after.  Only writes through the
\* reference of an earlier operator[] can get into the middle of a copy.
SnapshotConsistent == snapMixed \/ (snapVer \in DOMAIN past /\ snapshot = past[snapVer])

\* A refresh() that overlapped no other refresh is never undone: readers go
\* on seeing its data or newer.
LoneRefreshHolds == loneVer <= snapVer

\* However many threads stop the reader: one of them joins the background
\* thread (a second join would be an error), and when a call has returned and
\* none is left joining, the thread has ended.
LastStopJoins ==
  /\ \A s, x \in Stoppers : stop[s] = "joining" /\ stop[x] = "joining" => s = x
  /\ (\E s \in Stoppers : stop[s] = "returned") /\ (\A s \in Stoppers : stop[s] # "joining")
       => bg = "exited"


\* stop() returns: it waits neither for a sleep nobody ends nor for a lock.
StopReturns == \A s \in Stoppers : stop[s] = "joining" ~> stop[s] = "returned"

\* While it is running, the auto-refreshing reader ends up with the data of
\* a container that has stopped changing, whatever manual refreshes do.
EventuallyFresh == <>[](running => snapshot = values)
=============================================================================
