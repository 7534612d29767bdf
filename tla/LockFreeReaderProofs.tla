------------------------ MODULE LockFreeReaderProofs ------------------------
(***************************************************************************)
(* What readers of a lockfree_container_reader see, for any number of      *)
(* writers, keys, values and refreshing threads: a snapshot is a state the *)
(* container was in, a refresh nobody overlapped is never undone, and of   *)
(* any number of stop() calls one joins the background thread.             *)
(***************************************************************************)
EXTENDS LockFreeReader, TLAPS

\* The bookkeeping of the history variables.
VersionsOK ==
  /\ Len(past) \in 1..MaxPast
  /\ excl # NoThread => Len(past) < MaxPast
  /\ \A t \in Refreshers : Busy(t) => rf[t].ver \in 1..Len(past)
  /\ snapVer <= Len(past) /\ loneVer <= Len(past)

TInv == TypeOK /\ VersionsOK

\* The records TypeOK has for refresh() calls.
Refreshing == [phase : Phases, todo : SUBSET Keys, copy : Contents,
               ver : 0..MaxPast, mixed : BOOLEAN, lone : BOOLEAN]

\* What every step of the container's writers does: the past only grows.
Effect ==
  /\ ContainerTypeOK'
  /\ shared' = shared
  /\ Len(past') \in 1..MaxPast
  /\ Len(past') >= Len(past)
  /\ excl' # NoThread => Len(past') < MaxPast
  /\ \A i \in 1..Len(past) : past'[i] = past[i]

\* Each kind of write, from set to the steps of bulk_update, has that effect.
LEMMA WriteEffect ==
  ASSUME ContainerTypeOK, Len(past) \in 1..MaxPast,
         excl # NoThread => Len(past) < MaxPast, Write
  PROVE  Effect
  <1> USE PastBound, SymbolsAssumption, RefWritersAssumption
          DEF ContainerTypeOK, Contents, Entries
  <1>0. \A new \in Contents :
          /\ Append(past, new) \in Seq(Contents)
          /\ Len(Append(past, new)) = Len(past) + 1
          /\ \A i \in 1..Len(past) : Append(past, new)[i] = past[i]
    OBVIOUS
  <1>1. ASSUME NEW new \in Contents, Commit(new), refs' \in [Writers -> Keys \union {NoKey}]
        PROVE  Effect
    BY <1>0, <1>1 DEF Commit, CanLock, Effect
  <1>2. ASSUME NEW k \in Keys, NEW v \in Vals, Set(k, v) PROVE Effect
    <2>1. [values EXCEPT ![k] = v] \in Contents
      OBVIOUS
    <2> QED
      BY <1>1, <1>2, <2>1 DEF Set
  <1>3. ASSUME NEW k \in Keys, Remove(k) PROVE Effect
    <2>1. [values EXCEPT ![k] = Absent] \in Contents
      OBVIOUS
    <2> QED
      BY <1>1, <1>3, <2>1 DEF Remove
  <1>4. ASSUME Clear PROVE Effect
    <2>1. [k \in Keys |-> Absent] \in Contents
      OBVIOUS
    <2> QED
      BY <1>1, <1>4, <2>1 DEF Clear
  <1>11. ASSUME NEW new \in Contents, Assign(new) PROVE Effect
    BY <1>1, <1>11 DEF Assign
  <1>5. ASSUME NEW k \in Keys, NEW e \in Vals, NEW d \in Vals, CompareExchange(k, e, d)
        PROVE  Effect
    <2>1. [values EXCEPT ![k] = IF @ = e THEN d ELSE @] \in Contents
      OBVIOUS
    <2> QED
      BY <1>1, <1>5, <2>1 DEF CompareExchange
  <1>6. ASSUME NEW w \in Writers, NEW k \in Keys, Index(w, k) PROVE Effect
    <2>1. [values EXCEPT ![k] = IF @ = Absent THEN Null ELSE @] \in Contents
      OBVIOUS
    <2> QED
      BY <1>1, <1>6, <2>1 DEF Index
  <1>7. ASSUME NEW w \in Writers, NEW v \in Vals, RefWrite(w, v) PROVE Effect
    <2>1. refs[w] \in Keys /\ values' \in Contents
      BY <1>7 DEF RefWrite
    <2> QED
      BY <1>0, <1>7, <2>1 DEF RefWrite, Effect
  <1>8. ASSUME NEW w \in Writers, BulkBegin(w) PROVE Effect
    BY <1>8 DEF BulkBegin, CanLock, Effect
  <1>9. ASSUME NEW w \in Writers, BulkEnd(w) PROVE Effect
    BY <1>0, <1>9 DEF BulkEnd, Effect
  <1>10. ASSUME NEW w \in Writers, NEW k \in Keys, NEW v \in Vals \union {Absent},
                BulkStep(w, k, v)
         PROVE  Effect
    BY <1>10 DEF BulkStep, Effect
  <1> QED
    BY <1>2, <1>3, <1>4, <1>5, <1>6, <1>7, <1>8, <1>9, <1>10, <1>11 DEF Write

-----------------------------------------------------------------------------
(* Type correctness *)

\* Both constructors establish the typing invariant.
LEMMA InitTInv == Init => TInv
  <1> SUFFICES ASSUME Init PROVE TInv
    OBVIOUS
  <1> USE PastBound, SymbolsAssumption
  <1>1. NoSnapshot \in Contents /\ values \in Contents
    BY DEF Init, ContainerInit, NoSnapshot, Contents, Entries
  <1>2. NoRefresh \in Refreshing /\ NoRefresh.phase = "idle"
    BY <1>1 DEF NoRefresh, Refreshing, Phases
  <1>3. rf \in [Refreshers -> Refreshing] /\ \A t \in Refreshers : ~Busy(t)
    BY <1>2 DEF Init, Busy
  <1>4. past = <<values>> /\ past \in Seq(Contents) /\ Len(past) = 1
    BY <1>1 DEF Init, ContainerInit
  <1>5. ContainerTypeOK
    BY <1>1, <1>4 DEF Init, ContainerInit, ContainerTypeOK
  <1>6. TypeOK
    <2>1. /\ shared = {} /\ snapshot = values /\ bg = "loop" /\ running = TRUE /\ snapMixed = FALSE
          /\ snapVer = 1 /\ loneVer = 1 /\ stop = [s \in Stoppers |-> "idle"]
      BY DEF Init, ContainerInit
    <2>2. stop \in [Stoppers -> {"idle", "joining", "returned"}]
      BY <2>1
    <2>3. rf \in [Refreshers -> [phase : Phases, todo : SUBSET Keys, copy : Contents,
                                 ver : 0..MaxPast, mixed : BOOLEAN, lone : BOOLEAN]]
      BY <1>3 DEF Refreshing
    <2>4. 1 \in 1..MaxPast
      OBVIOUS
    <2> QED
      BY <1>1, <1>5, <2>1, <2>2, <2>3, <2>4, Zenon DEF TypeOK
  <1>7. VersionsOK
    BY <1>3, <1>4 DEF Init, ContainerInit, VersionsOK
  <1> QED
    BY <1>6, <1>7 DEF TInv

\* Every step preserves the typing invariant.
LEMMA NextTInv == TInv /\ [Next]_vars => TInv'
  <1> SUFFICES ASSUME TInv, [Next]_vars PROVE TInv'
    OBVIOUS
  <1> USE PastBound, SymbolsAssumption DEF TInv
  <1>1. CASE Write /\ UNCHANGED readerVars
    <2>1. Effect
      BY <1>1, WriteEffect DEF TypeOK, VersionsOK
    <2>2. TypeOK'
      BY <1>1, <2>1 DEF Effect, TypeOK, readerVars
    <2>3. VersionsOK'
      BY <1>1, <2>1 DEF Effect, TypeOK, VersionsOK, Busy, readerVars
    <2> QED
      BY <2>2, <2>3
  <1>2. ASSUME NEW t \in Refreshers, RefreshLock(t) PROVE TInv'
    <2> DEFINE r == [phase |-> "copy", todo |-> Keys, copy |-> NoSnapshot,
                     ver |-> Len(past), mixed |-> FALSE, lone |-> \A o \in Refreshers : ~Busy(o)]
    <2>1. r \in Refreshing /\ r.ver = Len(past)
      <3>1. NoSnapshot \in Contents
        BY DEF NoSnapshot, Contents, Entries
      <3> QED
        BY <3>1 DEF VersionsOK, Phases, Refreshing
    <2>2. \A u \in Refreshers : /\ [rf[u] EXCEPT !.lone = FALSE] \in Refreshing
                                /\ [rf[u] EXCEPT !.lone = FALSE].ver = rf[u].ver
                                /\ [rf[u] EXCEPT !.lone = FALSE].phase = rf[u].phase
      BY DEF TypeOK, Refreshing
    <2>3. rf' = [u \in Refreshers |-> IF u = t THEN r ELSE [rf[u] EXCEPT !.lone = FALSE]]
      BY <1>2 DEF RefreshLock
    <2> HIDE DEF r
    <2>4. rf' \in [Refreshers -> Refreshing]
      BY <2>1, <2>2, <2>3
    <2>5. TypeOK'
      BY <1>2, <2>4 DEF RefreshLock, TypeOK, ContainerTypeOK, Refreshing
    <2>6. VersionsOK'
      <3>1. \A u \in Refreshers : Busy(u)' => rf'[u].ver \in 1..Len(past)
        BY <2>1, <2>2, <2>3 DEF VersionsOK, Busy
      <3> QED
        BY <1>2, <3>1 DEF RefreshLock, VersionsOK
    <2> QED
      BY <2>5, <2>6
  <1>3. ASSUME NEW t \in Refreshers, NEW k \in Keys, RefreshCopy(t, k) PROVE TInv'
    <2>1. TypeOK'
      <3>1. rf[t].copy \in Contents /\ values[k] \in Entries
        BY DEF TypeOK, ContainerTypeOK, Contents
      <3>2. [rf[t].copy EXCEPT ![k] = values[k]] \in Contents
        BY <3>1 DEF Contents
      <3>3. rf' \in [Refreshers -> Refreshing]
        BY <1>3, <3>2 DEF RefreshCopy, TypeOK, Refreshing, Phases
      <3> QED
        BY <1>3, <3>3 DEF RefreshCopy, TypeOK, ContainerTypeOK, containerVars, Refreshing
    <2>2. VersionsOK'
      BY <1>3 DEF RefreshCopy, TypeOK, ContainerTypeOK, VersionsOK, Busy, containerVars
    <2> QED
      BY <2>1, <2>2
  <1>4. ASSUME NEW t \in Refreshers, RefreshUnlock(t) PROVE TInv'
    <2>1. TypeOK'
      <3>1. (lastRef > rf[t].ver) \in BOOLEAN /\ rf[t] \in Refreshing
        BY DEF TypeOK, Refreshing
      <3>2. [rf[t] EXCEPT !.phase = "store", !.mixed = lastRef > rf[t].ver] \in Refreshing
        BY <3>1 DEF Refreshing, Phases
      <3>3. rf' \in [Refreshers -> Refreshing]
        BY <1>4, <3>2 DEF RefreshUnlock, TypeOK, Refreshing
      <3> QED
        BY <1>4, <3>3 DEF RefreshUnlock, TypeOK, ContainerTypeOK, Refreshing
    <2>2. VersionsOK'
      BY <1>4 DEF RefreshUnlock, TypeOK, ContainerTypeOK, VersionsOK, Busy
    <2> QED
      BY <2>1, <2>2
  <1>5. ASSUME NEW t \in Refreshers, RefreshStore(t) PROVE TInv'
    <2>1. TypeOK'
      <3>1. rf[t].ver \in 1..Len(past) /\ rf[t].copy \in Contents
        BY <1>5 DEF RefreshStore, TypeOK, VersionsOK, Busy
      <3>2. rf' \in [Refreshers -> Refreshing]
        BY <1>5 DEF RefreshStore, TypeOK, Refreshing, Phases
      <3>3. snapVer' \in 1..MaxPast /\ snapshot' \in Contents
        BY <1>5, <3>1 DEF RefreshStore, VersionsOK
      <3> QED
        BY <1>5, <3>2, <3>3 DEF RefreshStore, TypeOK, ContainerTypeOK, Refreshing, containerVars
    <2>2. VersionsOK'
      BY <1>5 DEF RefreshStore, TypeOK, ContainerTypeOK, VersionsOK, Busy, containerVars
    <2> QED
      BY <2>1, <2>2
  <1>6. ASSUME NEW t \in Refreshers, RefreshReturn(t) PROVE TInv'
    <2>0. rf' = [rf EXCEPT ![t] = NoRefresh]
      BY <1>6 DEF RefreshReturn
    <2>1. rf[t].ver \in 1..Len(past)
      BY <1>6 DEF RefreshReturn, VersionsOK, Busy
    <2>2. TypeOK'
      BY <1>6, <2>1 DEF RefreshReturn, TypeOK, ContainerTypeOK, VersionsOK, Phases,
                        containerVars, NoRefresh, NoSnapshot, NewerOf, Contents, Entries
    <2>3. VersionsOK'
      BY <1>6, <2>1 DEF RefreshReturn, TypeOK, ContainerTypeOK, VersionsOK, Busy,
                        containerVars, NoRefresh, NewerOf
    <2> QED
      BY <2>2, <2>3
  <1>7. CASE LoopWait \/ LoopWake
    BY <1>7 DEF LoopWait, LoopWake, TypeOK, ContainerTypeOK, VersionsOK, Busy, containerVars
  <1>8. ASSUME NEW s \in Stoppers, Stop(s) \/ StopReturn(s) PROVE TInv'
    BY <1>8 DEF Stop, StopReturn, TypeOK, ContainerTypeOK, VersionsOK, Busy, containerVars
  <1>9. CASE UNCHANGED vars
    BY <1>9 DEF vars, containerVars, readerVars, TypeOK, ContainerTypeOK, VersionsOK, Busy
  <1> QED
    BY <1>1, <1>2, <1>3, <1>4, <1>5, <1>6, <1>7, <1>8, <1>9 DEF Next, Refresh

\* Type correctness of readers and container, and of the history variables.
THEOREM TypeCorrect == Spec => [](TypeOK /\ VersionsOK)
  <1>1. Spec => []TInv
    BY InitTInv, NextTInv, PTL DEF Spec
  <1> QED
    BY <1>1, PTL DEF TInv

-----------------------------------------------------------------------------
(* A refresh that overlapped no other is never undone *)

\* A lone refresh has the field to itself until it returns, every refresh in
\* progress copied contents at least as new as the lone ones that returned,
\* and what a lone refresh published is still there when it returns.
LInv ==
  /\ LoneRefreshHolds
  /\ \A t \in Refreshers : Busy(t) => loneVer <= rf[t].ver
  /\ \A t, u \in Refreshers : Busy(t) /\ rf[t].lone /\ Busy(u) => u = t
  /\ \A t \in Refreshers : rf[t].phase = "return" /\ rf[t].lone => rf[t].ver <= snapVer

\* Every step preserves it.
LEMMA NextLInv == TInv /\ LInv /\ [Next]_vars => LInv'
  <1> SUFFICES ASSUME TInv, LInv, [Next]_vars PROVE LInv'
    OBVIOUS
  <1> USE DEF TInv
  <1>1. CASE Write /\ UNCHANGED readerVars
    BY <1>1 DEF LInv, LoneRefreshHolds, Busy, readerVars
  <1>2. ASSUME NEW t \in Refreshers, RefreshLock(t) PROVE LInv'
    <2>1. /\ rf'[t].phase = "copy" /\ rf'[t].ver = Len(past)
          /\ rf'[t].lone <=> \A o \in Refreshers : ~Busy(o)
      BY <1>2 DEF RefreshLock
    <2>2. \A u \in Refreshers : u # t => /\ rf'[u].ver = rf[u].ver
                                         /\ rf'[u].phase = rf[u].phase
                                         /\ ~rf'[u].lone
      BY <1>2 DEF RefreshLock, TypeOK
    <2>3. loneVer' = loneVer /\ snapVer' = snapVer
      BY <1>2 DEF RefreshLock
    <2>4. \A u \in Refreshers : u # t => (Busy(u)' <=> Busy(u))
      BY <2>2 DEF Busy
    <2>5. \A u \in Refreshers : Busy(u)' => loneVer' <= rf'[u].ver
      BY <2>1, <2>2, <2>3, <2>4 DEF LInv, VersionsOK
    <2>6. \A u, x \in Refreshers : Busy(u)' /\ rf'[u].lone /\ Busy(x)' => x = u
      BY <2>1, <2>2, <2>4
    <2>7. \A u \in Refreshers : rf'[u].phase = "return" /\ rf'[u].lone => rf'[u].ver <= snapVer'
      BY <2>1, <2>2
    <2> QED
      BY <2>3, <2>5, <2>6, <2>7 DEF LInv, LoneRefreshHolds
  <1>3. ASSUME NEW t \in Refreshers, NEW k \in Keys, RefreshCopy(t, k) PROVE LInv'
    BY <1>3 DEF RefreshCopy, LInv, LoneRefreshHolds, Busy, TypeOK
  <1>4. ASSUME NEW t \in Refreshers, RefreshUnlock(t) PROVE LInv'
    BY <1>4 DEF RefreshUnlock, LInv, LoneRefreshHolds, Busy, TypeOK
  <1>5. ASSUME NEW t \in Refreshers, RefreshStore(t) PROVE LInv'
    BY <1>5 DEF RefreshStore, LInv, LoneRefreshHolds, Busy, TypeOK
  <1>6. ASSUME NEW t \in Refreshers, RefreshReturn(t) PROVE LInv'
    <2>1. /\ Busy(t) /\ rf[t].ver \in Nat /\ loneVer \in Nat /\ snapVer \in Nat
          /\ snapVer' = snapVer
          /\ loneVer' = IF rf[t].lone THEN NewerOf(loneVer, rf[t].ver) ELSE loneVer
      BY <1>6 DEF RefreshReturn, Busy, TypeOK
    <2>2. ~Busy(t)' /\ rf'[t].phase = "idle"
      BY <1>6 DEF RefreshReturn, Busy, TypeOK, NoRefresh
    <2>3. \A u \in Refreshers : u # t => rf'[u] = rf[u] /\ (Busy(u)' <=> Busy(u))
      BY <1>6 DEF RefreshReturn, Busy, TypeOK
    <2>4. loneVer' <= snapVer'
      BY <1>6, <2>1 DEF RefreshReturn, LInv, LoneRefreshHolds, NewerOf
    <2>5. \A u \in Refreshers : Busy(u)' => loneVer' <= rf'[u].ver
      BY <2>1, <2>2, <2>3 DEF LInv
    <2> QED
      BY <2>1, <2>2, <2>3, <2>4, <2>5 DEF LInv, LoneRefreshHolds
  <1>7. CASE LoopWait \/ LoopWake
    BY <1>7 DEF LoopWait, LoopWake, LInv, LoneRefreshHolds, Busy
  <1>8. ASSUME NEW s \in Stoppers, Stop(s) \/ StopReturn(s) PROVE LInv'
    BY <1>8 DEF Stop, StopReturn, LInv, LoneRefreshHolds, Busy
  <1>9. CASE UNCHANGED vars
    BY <1>9 DEF vars, readerVars, LInv, LoneRefreshHolds, Busy
  <1> QED
    BY <1>1, <1>2, <1>3, <1>4, <1>5, <1>6, <1>7, <1>8, <1>9 DEF Next, Refresh

\* Readers never lose the data of a refresh() that ran alone, even with
\* writers that keep references from operator[].
THEOREM LoneRefreshKept == Spec => []LoneRefreshHolds
  <1>1. Init => LInv
    BY DEF Init, LInv, LoneRefreshHolds, Busy, NoRefresh
  <1>2. Spec => [](TInv /\ LInv)
    BY <1>1, InitTInv, NextTInv, NextLInv, PTL DEF Spec
  <1> QED
    BY <1>2, PTL DEF LInv

-----------------------------------------------------------------------------
(* A snapshot is a state the container was in *)

\* The shared lock is held exactly while copying and excludes bulk_update;
\* outside a bulk_update the newest of the past contents is the map itself.
LocksOK ==
  /\ \A t \in Refreshers : rf[t].phase = "copy" => t \in shared
  /\ excl # NoThread => shared = {}
  /\ excl = NoThread => values = past[Len(past)]
  /\ lastRef <= Len(past)

\* What has been copied so far agrees with the map, which cannot have changed
\* since the lock was taken unless through a reference; a finished copy is
\* the contents it started from.
CopiesOK ==
  \A t \in Refreshers :
    /\ rf[t].phase = "copy" =>
         \/ lastRef > rf[t].ver
         \/ /\ rf[t].ver = Len(past)
            /\ \A k \in Keys \ rf[t].todo : rf[t].copy[k] = values[k]
    /\ rf[t].phase = "store" => rf[t].mixed \/ rf[t].copy = past[rf[t].ver]

SInv == LocksOK /\ CopiesOK /\ (snapMixed \/ snapshot = past[snapVer])

\* A write happens under the exclusive lock or through a reference, and the
\* map it leaves is the newest of the past.
LockedStep ==
  /\ excl # NoThread \/ shared = {} \/ lastRef' = Len(past')
  /\ excl # NoThread \/ shared = {} \/ Len(past') = Len(past) + 1
  /\ excl' # NoThread => shared = {}
  /\ excl' = NoThread => values' = past'[Len(past')]
  /\ lastRef' <= Len(past') /\ (lastRef' = lastRef \/ lastRef' = Len(past'))

\* Each kind of write is such a step.
LEMMA LockedWrite ==
  ASSUME TInv, LocksOK, Write
  PROVE  LockedStep
  <1> USE PastBound, SymbolsAssumption DEF TInv, TypeOK, ContainerTypeOK, Contents, Entries, LocksOK
  <1>0. /\ Len(past) \in Nat
        /\ \A new \in Contents : /\ Append(past, new)[Len(Append(past, new))] = new
                                 /\ Len(Append(past, new)) = Len(past) + 1
    OBVIOUS
  <1>1. ASSUME NEW new \in Contents, Commit(new)
        PROVE  LockedStep
    BY <1>0, <1>1 DEF Commit, CanLock, LockedStep
  <1>2. ASSUME NEW k \in Keys, NEW v \in Vals, Set(k, v) PROVE LockedStep
    <2>1. [values EXCEPT ![k] = v] \in Contents
      OBVIOUS
    <2> QED
      BY <1>1, <1>2, <2>1 DEF Set
  <1>3. ASSUME NEW k \in Keys, Remove(k) PROVE LockedStep
    <2>1. [values EXCEPT ![k] = Absent] \in Contents
      OBVIOUS
    <2> QED
      BY <1>1, <1>3, <2>1 DEF Remove
  <1>4. ASSUME Clear PROVE LockedStep
    <2>1. [k \in Keys |-> Absent] \in Contents
      OBVIOUS
    <2> QED
      BY <1>1, <1>4, <2>1 DEF Clear
  <1>11. ASSUME NEW new \in Contents, Assign(new) PROVE LockedStep
    BY <1>1, <1>11 DEF Assign
  <1>5. ASSUME NEW k \in Keys, NEW e \in Vals, NEW d \in Vals, CompareExchange(k, e, d)
        PROVE  LockedStep
    <2>1. [values EXCEPT ![k] = IF @ = e THEN d ELSE @] \in Contents
      OBVIOUS
    <2> QED
      BY <1>1, <1>5, <2>1 DEF CompareExchange
  <1>6. ASSUME NEW w \in Writers, NEW k \in Keys, Index(w, k) PROVE LockedStep
    <2>1. [values EXCEPT ![k] = IF @ = Absent THEN Null ELSE @] \in Contents
      OBVIOUS
    <2> QED
      BY <1>1, <1>6, <2>1 DEF Index
  <1>7. ASSUME NEW w \in Writers, NEW v \in Vals, RefWrite(w, v) PROVE LockedStep
    <2>1. refs[w] \in Keys /\ values' \in Contents
      BY <1>7 DEF RefWrite
    <2> QED
      BY <1>0, <1>7, <2>1 DEF RefWrite, LockedStep
  <1>8. ASSUME NEW w \in Writers, BulkBegin(w) PROVE LockedStep
    BY <1>8 DEF BulkBegin, CanLock, LockedStep
  <1>9. ASSUME NEW w \in Writers, BulkEnd(w) PROVE LockedStep
    BY <1>0, <1>9 DEF BulkEnd, LockedStep
  <1>10. ASSUME NEW w \in Writers, NEW k \in Keys, NEW v \in Vals \union {Absent},
                BulkStep(w, k, v)
         PROVE  LockedStep
    BY <1>10 DEF BulkStep, LockedStep
  <1> QED
    BY <1>2, <1>3, <1>4, <1>5, <1>6, <1>7, <1>8, <1>9, <1>10, <1>11 DEF Write

\* Every step preserves the invariant.
LEMMA NextSInv == TInv /\ SInv /\ [Next]_vars => SInv'
  <1> SUFFICES ASSUME TInv, SInv, [Next]_vars PROVE SInv'
    OBVIOUS
  <1> USE PastBound, SymbolsAssumption DEF TInv, SInv
  <1>1. CASE Write /\ UNCHANGED readerVars
    <2>1. Effect
      BY <1>1, WriteEffect DEF TypeOK, VersionsOK
    <2>2. LockedStep
      BY <1>1, LockedWrite
    <2>0. Len(past) \in Nat /\ Len(past') \in Nat /\ lastRef \in Nat /\ lastRef' \in Nat
      BY <2>1 DEF Effect, TypeOK, ContainerTypeOK, VersionsOK
    <2>3. LocksOK'
      BY <1>1, <2>1, <2>2 DEF Effect, LocksOK, LockedStep, readerVars
    <2>4. ASSUME NEW t \in Refreshers, rf[t].phase = "copy"
          PROVE  lastRef' = Len(past') /\ lastRef' > rf[t].ver
      <3>1. shared # {} /\ excl = NoThread
        BY <2>4 DEF LocksOK
      <3>2. lastRef' = Len(past') /\ Len(past') = Len(past) + 1
        BY <2>2, <3>1 DEF LockedStep
      <3>3. rf[t].ver \in 1..Len(past)
        BY <2>4 DEF VersionsOK, Busy
      <3> QED
        BY <2>0, <3>2, <3>3
    <2>5. CopiesOK'
      <3>1. ASSUME NEW t \in Refreshers, rf[t].phase = "store", ~rf[t].mixed
            PROVE  rf[t].copy = past'[rf[t].ver]
        <4>1. rf[t].copy = past[rf[t].ver] /\ rf[t].ver \in 1..Len(past)
          BY <3>1 DEF CopiesOK, VersionsOK, Busy
        <4> QED
          BY <2>1, <4>1 DEF Effect
      <3>2. rf' = rf
        BY <1>1 DEF readerVars
      <3> QED
        BY <2>4, <3>1, <3>2 DEF CopiesOK
    <2>6. snapMixed' \/ snapshot' = past'[snapVer']
      BY <1>1, <2>1 DEF Effect, TypeOK, VersionsOK, readerVars
    <2> QED
      BY <2>3, <2>5, <2>6
  <1>2. ASSUME NEW t \in Refreshers, RefreshLock(t) PROVE SInv'
    <2>1. /\ rf'[t].phase = "copy" /\ rf'[t].ver = Len(past) /\ rf'[t].todo = Keys
      BY <1>2 DEF RefreshLock
    <2>2. \A u \in Refreshers : u # t => /\ rf'[u].ver = rf[u].ver
                                         /\ rf'[u].phase = rf[u].phase
                                         /\ rf'[u].todo = rf[u].todo
                                         /\ rf'[u].copy = rf[u].copy
                                         /\ rf'[u].mixed = rf[u].mixed
      BY <1>2 DEF RefreshLock, TypeOK
    <2>3. /\ excl = NoThread /\ shared' = shared \union {t}
          /\ UNCHANGED <<values, excl, refs, past, lastRef, snapshot, snapVer, snapMixed>>
      BY <1>2 DEF RefreshLock
    <2>4. LocksOK'
      BY <2>1, <2>2, <2>3 DEF LocksOK
    <2>5. CopiesOK'
      BY <2>1, <2>2, <2>3 DEF CopiesOK
    <2> QED
      BY <2>3, <2>4, <2>5
  <1>3. ASSUME NEW t \in Refreshers, NEW k \in Keys, RefreshCopy(t, k) PROVE SInv'
    <2>1. /\ rf'[t].phase = "copy" /\ rf[t].phase = "copy" /\ rf'[t].ver = rf[t].ver
          /\ rf'[t].todo = rf[t].todo \ {k}
          /\ rf'[t].copy = [rf[t].copy EXCEPT ![k] = values[k]]
          /\ rf[t].copy \in [Keys -> Entries]
      BY <1>3 DEF RefreshCopy, TypeOK, Contents
    <2>2. \A u \in Refreshers : u # t => rf'[u] = rf[u]
      BY <1>3 DEF RefreshCopy, TypeOK
    <2>3. UNCHANGED <<values, excl, shared, refs, past, lastRef, snapshot, snapVer, snapMixed>>
      BY <1>3 DEF RefreshCopy, containerVars
    <2>4. LocksOK'
      BY <2>1, <2>2, <2>3 DEF LocksOK
    <2>5. CopiesOK'
      <3>1. \/ lastRef > rf[t].ver
            \/ \A x \in Keys \ rf'[t].todo : rf'[t].copy[x] = values[x]
        BY <2>1 DEF CopiesOK
      <3> QED
        BY <2>1, <2>2, <2>3, <3>1 DEF CopiesOK
    <2> QED
      BY <2>3, <2>4, <2>5
  <1>4. ASSUME NEW t \in Refreshers, RefreshUnlock(t) PROVE SInv'
    <2>1. /\ rf'[t].phase = "store" /\ rf'[t].ver = rf[t].ver /\ rf'[t].copy = rf[t].copy
          /\ rf[t].phase = "copy" /\ rf[t].todo = {}
          /\ rf'[t].mixed = (lastRef > rf[t].ver)
          /\ \A u \in Refreshers : u # t => rf'[u] = rf[u]
      BY <1>4 DEF RefreshUnlock, TypeOK
    <2>2. /\ shared' = shared \ {t}
          /\ UNCHANGED <<values, excl, refs, past, lastRef, snapshot, snapVer, snapMixed>>
      BY <1>4 DEF RefreshUnlock
    <2>3. LocksOK'
      BY <2>1, <2>2 DEF LocksOK
    <2>4. ASSUME ~(lastRef > rf[t].ver) PROVE rf[t].copy = past[rf[t].ver]
      <3>1. excl = NoThread /\ values = past[rf[t].ver]
        BY <2>1, <2>4 DEF LocksOK, CopiesOK
      <3>2. \A k \in Keys : rf[t].copy[k] = values[k]
        BY <2>1, <2>4 DEF CopiesOK
      <3>3. rf[t].copy \in [Keys -> Entries] /\ values \in [Keys -> Entries]
        BY DEF TypeOK, ContainerTypeOK, Contents
      <3> QED
        BY <3>1, <3>2, <3>3
    <2>5. CopiesOK'
      <3>1. rf'[t].mixed \/ rf'[t].copy = past'[rf'[t].ver]
        BY <2>1, <2>2, <2>4
      <3>2. ASSUME NEW u \in Refreshers, u # t
            PROVE  /\ rf'[u].phase = "copy" =>
                        \/ lastRef' > rf'[u].ver
                        \/ /\ rf'[u].ver = Len(past')
                           /\ \A k \in Keys \ rf'[u].todo : rf'[u].copy[k] = values'[k]
                   /\ rf'[u].phase = "store" => rf'[u].mixed \/ rf'[u].copy = past'[rf'[u].ver]
        BY <2>1, <2>2, <3>2 DEF CopiesOK
      <3> QED
        BY <2>1, <3>1, <3>2 DEF CopiesOK
    <2> QED
      BY <2>2, <2>3, <2>5
  <1>5. ASSUME NEW t \in Refreshers, RefreshStore(t) PROVE SInv'
    BY <1>5 DEF RefreshStore, containerVars, TypeOK, LocksOK, CopiesOK
  <1>6. ASSUME NEW t \in Refreshers, RefreshReturn(t) PROVE SInv'
    <2>1. rf'[t].phase = "idle" /\ \A u \in Refreshers : u # t => rf'[u] = rf[u]
      BY <1>6 DEF RefreshReturn, TypeOK, NoRefresh
    <2>2. UNCHANGED <<values, excl, shared, refs, past, lastRef, snapshot, snapVer, snapMixed>>
      BY <1>6 DEF RefreshReturn, containerVars
    <2> QED
      BY <2>1, <2>2 DEF LocksOK, CopiesOK
  <1>7. CASE LoopWait \/ LoopWake
    BY <1>7 DEF LoopWait, LoopWake, containerVars, LocksOK, CopiesOK
  <1>8. ASSUME NEW s \in Stoppers, Stop(s) \/ StopReturn(s) PROVE SInv'
    BY <1>8 DEF Stop, StopReturn, containerVars, LocksOK, CopiesOK
  <1>9. CASE UNCHANGED vars
    BY <1>9 DEF vars, readerVars, containerVars, LocksOK, CopiesOK
  <1> QED
    BY <1>1, <1>2, <1>3, <1>4, <1>5, <1>6, <1>7, <1>8, <1>9 DEF Next, Refresh

\* Readers only ever see the contents the whole container had at one moment,
\* unless a write through an operator[] reference got into the copying.
THEOREM SnapshotIsPastState == Spec => []SnapshotConsistent
  <1>1. Init => SInv
    BY DEF Init, ContainerInit, SInv, LocksOK, CopiesOK, NoRefresh
  <1>2. TInv /\ SInv => SnapshotConsistent
    BY DEF TInv, TypeOK, ContainerTypeOK, VersionsOK, SInv, SnapshotConsistent
  <1>3. TInv /\ SInv /\ [Next]_vars => SInv'
    BY NextSInv
  <1>4. Spec => [](TInv /\ SInv)
    BY <1>1, <1>3, InitTInv, NextTInv, PTL DEF Spec
  <1> QED
    BY <1>2, <1>4, PTL

-----------------------------------------------------------------------------
(* stop() *)

\* While running_ is set nobody has got anywhere in stop(); once it is cleared
\* the call that cleared it is joining until the background thread has ended.
\* That thread refreshes only in the refreshing part of its loop, and it never
\* comes back from its exit.
EInv ==
  /\ running => \A s \in Stoppers : stop[s] = "idle"
  /\ ~running => bg = "exited" \/ \E s \in Stoppers : stop[s] = "joining"
  /\ \A s, x \in Stoppers : stop[s] = "joining" /\ stop[x] = "joining" => s = x
  /\ Busy(Background) => bg = "refresh"

\* However many threads call stop(), one joins, and after the last of them has
\* returned no automatic refresh follows.
THEOREM StopIsFinal == Spec => []LastStopJoins
  <1>0. Background \in Refreshers
    BY DEF Refreshers
  <1>1. Init => EInv
    BY <1>0 DEF Init, EInv, Busy, NoRefresh
  <1>2. TInv /\ EInv /\ [Next]_vars => EInv'
    <2> SUFFICES ASSUME TInv, EInv, [Next]_vars PROVE EInv'
      OBVIOUS
    <2> USE <1>0 DEF EInv, TInv
    <2>0. ASSUME UNCHANGED <<bg, running, stop>>, Busy(Background)' => bg = "refresh"
          PROVE  EInv'
      BY <2>0
    <2>1. CASE Write /\ UNCHANGED readerVars
      BY <2>1 DEF readerVars, Busy
    <2>2. ASSUME NEW t \in Refreshers, RefreshLock(t) PROVE EInv'
      <3>1. t # Background => rf'[Background].phase = rf[Background].phase
        BY <2>2 DEF RefreshLock, TypeOK
      <3>2. t = Background => bg = "refresh"
        BY <2>2 DEF RefreshLock
      <3> QED
        BY <2>0, <2>2, <3>1, <3>2 DEF RefreshLock, Busy
    <2>3. ASSUME NEW t \in Refreshers, NEW k \in Keys, RefreshCopy(t, k) PROVE EInv'
      <3>1. rf[t].phase = "copy" /\ rf'[Background].phase = rf[Background].phase
        BY <2>3 DEF RefreshCopy, TypeOK
      <3> QED
        BY <2>0, <2>3, <3>1 DEF RefreshCopy, Busy
    <2>4. ASSUME NEW t \in Refreshers, RefreshUnlock(t) \/ RefreshStore(t) PROVE EInv'
      <3>1. /\ rf[t].phase \in {"copy", "store"}
            /\ t # Background => rf'[Background].phase = rf[Background].phase
        BY <2>4 DEF RefreshUnlock, RefreshStore, TypeOK
      <3> QED
        BY <2>0, <2>4, <3>1 DEF RefreshUnlock, RefreshStore, Busy
    <2>5. ASSUME NEW t \in Refreshers, RefreshReturn(t) PROVE EInv'
      <3>1. /\ t = Background => rf'[Background].phase = "idle" /\ bg = "refresh"
            /\ t # Background => rf'[Background] = rf[Background] /\ bg' = bg
        BY <2>5 DEF RefreshReturn, NoRefresh, TypeOK, Busy
      <3>2. UNCHANGED <<running, stop>>
        BY <2>5 DEF RefreshReturn
      <3> QED
        BY <3>1, <3>2 DEF Busy
    <2>6. CASE LoopWait \/ LoopWake
      BY <2>6 DEF LoopWait, LoopWake, Busy
    <2>7. ASSUME NEW s \in Stoppers, Stop(s) PROVE EInv'
      <3>1. /\ stop'[s] = IF running THEN "joining" ELSE "returned"
            /\ \A x \in Stoppers : x # s => stop'[x] = stop[x]
            /\ running' = FALSE /\ bg' = bg /\ rf' = rf /\ stop[s] = "idle"
        BY <2>7 DEF Stop, TypeOK
      <3> QED
        BY <3>1 DEF Busy
    <2>9. ASSUME NEW s \in Stoppers, StopReturn(s) PROVE EInv'
      <3>1. /\ stop'[s] = "returned" /\ stop[s] = "joining" /\ bg = "exited"
            /\ \A x \in Stoppers : x # s => stop'[x] = stop[x]
            /\ running' = running /\ bg' = bg /\ rf' = rf
        BY <2>9 DEF StopReturn, TypeOK
      <3> QED
        BY <3>1 DEF Busy
    <2>8. CASE UNCHANGED vars
      BY <2>8 DEF vars, readerVars, Busy
    <2> QED
      BY <2>1, <2>2, <2>3, <2>4, <2>5, <2>6, <2>7, <2>8, <2>9 DEF Next, Refresh
  <1>3. Spec => [](TInv /\ EInv)
    BY <1>1, <1>2, InitTInv, NextTInv, PTL DEF Spec
  <1>4. EInv => LastStopJoins
    BY DEF EInv, LastStopJoins
  <1> QED
    BY <1>3, <1>4, PTL
=============================================================================
