---------------------------- MODULE SharedProofs ----------------------------
(***************************************************************************)
(* Objects that threads share without one lock over all of their fields,   *)
(* for every number of threads: the header of a container under a          *)
(* serializer, rcu_value, the callbacks and builders of the messaging      *)
(* integration, and the lists of the epoch manager, in which an object is  *)
(* exactly once until its deleter runs; and a message with its reply.      *)
(***************************************************************************)
EXTENDS ContainerRaces, RcuValue, EpochManager, Messaging, MessageContainer, FiniteSetTheorems,
        SequenceTheorems, WellFoundedInduction, TLAPS

-----------------------------------------------------------------------------
(* The header of a container *)

\* What a serializer has still to read is the end of its list of fields.
SendSuffixes ==
  {SendOrder, <<"tgt", "tgt_sub", "src", "src_sub">>, <<"tgt_sub", "src", "src_sub">>,
   <<"src", "src_sub">>, <<"src_sub">>, <<>>}

\* The fields a suffix still holds.
Unread(todo) == {todo[i] : i \in DOMAIN todo}

HeaderTypeOK ==
  /\ ver \in [IdFields -> Nat]
  /\ typeVer \in [IdFields -> Nat]
  /\ tx \in [Senders -> [todo : SendSuffixes, need : [IdFields -> Nat], got : [IdFields -> Nat]]]

\* The message type was set when the ids had at most the versions they have
\* now; the type a sender has read asks for no version that does not exist
\* yet; and an id it has read since is at least as new as the type asks for.
HeaderInv ==
  /\ HeaderTypeOK
  /\ \A f \in IdFields : typeVer[f] <= ver[f]
  /\ \A s \in Senders, f \in IdFields : tx[s].need[f] <= ver[f]
  /\ \A s \in Senders : \A f \in IdFields \ Unread(tx[s].todo) : tx[s].got[f] >= tx[s].need[f]

\* Reading the next field of a suffix leaves a suffix.
LEMMA SuffixStep ==
  ASSUME NEW todo \in SendSuffixes, todo # <<>>
  PROVE  /\ Tail(todo) \in SendSuffixes
         /\ Head(todo) \in IdFields \union {"type"}
         /\ Unread(Tail(todo)) = Unread(todo) \ {Head(todo)}
         /\ Head(todo) = "type" => IdFields \subseteq Unread(Tail(todo))
  <1> USE DEF Unread, IdFields, SendSuffixes
  <1>1. CASE todo = SendOrder
    BY <1>1 DEF SendOrder
  <1>2. CASE todo = <<"tgt", "tgt_sub", "src", "src_sub">>
    BY <1>2
  <1>3. CASE todo = <<"tgt_sub", "src", "src_sub">>
    BY <1>3
  <1>4. CASE todo = <<"src", "src_sub">>
    BY <1>4
  <1>5. CASE todo = <<"src_sub">>
    BY <1>5
  <1> QED
    BY <1>1, <1>2, <1>3, <1>4, <1>5

\* A write of header fields only makes them newer.
LEMMA WriteInv ==
  ASSUME HeaderInv, NEW fs, Written(fs), UNCHANGED <<tx, typeVer>>
  PROVE  HeaderInv'
  <1>1. ver' \in [IdFields -> Nat] /\ \A f \in IdFields : ver'[f] >= ver[f]
    BY DEF HeaderInv, HeaderTypeOK, Written
  <1>2. HeaderTypeOK'
    BY <1>1 DEF HeaderInv, HeaderTypeOK
  <1>3. \A f \in IdFields : typeVer'[f] <= ver'[f]
    BY <1>1 DEF HeaderInv, HeaderTypeOK
  <1>4. \A s \in Senders, f \in IdFields : tx'[s].need[f] <= ver'[f]
    BY <1>1 DEF HeaderInv, HeaderTypeOK
  <1> QED
    BY <1>2, <1>3, <1>4 DEF HeaderInv

\* One getter call of a serializer.
LEMMA SendReadInv ==
  ASSUME HeaderInv, NEW s \in Senders, SendRead(s)
  PROVE  HeaderInv'
  <1> DEFINE todo == tx[s].todo
             f == Head(todo)
  <1>1. /\ todo \in SendSuffixes /\ todo # <<>>
        /\ tx[s].need \in [IdFields -> Nat] /\ tx[s].got \in [IdFields -> Nat]
        /\ ver' = ver /\ typeVer' = typeVer
        /\ ver \in [IdFields -> Nat] /\ typeVer \in [IdFields -> Nat]
    BY DEF SendRead, HeaderInv, HeaderTypeOK
  <1>2. /\ Tail(todo) \in SendSuffixes /\ f \in IdFields \union {"type"}
        /\ Unread(Tail(todo)) = Unread(todo) \ {f}
        /\ f = "type" => IdFields \subseteq Unread(Tail(todo))
    BY <1>1, SuffixStep
  <1>3. /\ \A u \in Senders \ {s} : tx'[u] = tx[u]
        /\ tx'[s] = [todo |-> Tail(todo),
                     need |-> IF f = "type" THEN typeVer ELSE tx[s].need,
                     got |-> IF f = "type" THEN tx[s].got ELSE [tx[s].got EXCEPT ![f] = ver[f]]]
        /\ tx' = [tx EXCEPT ![s] = tx'[s]]
    <2>1. tx[s] \in [todo : SendSuffixes, need : [IdFields -> Nat], got : [IdFields -> Nat]]
      BY DEF HeaderInv, HeaderTypeOK
    <2>2. tx' = [tx EXCEPT ![s] = [tx[s] EXCEPT
                   !.todo = Tail(todo),
                   !.need = IF f = "type" THEN typeVer ELSE tx[s].need,
                   !.got = IF f = "type" THEN tx[s].got ELSE [tx[s].got EXCEPT ![f] = ver[f]]]]
      BY DEF SendRead, HeaderInv, HeaderTypeOK
    <2> HIDE DEF todo, f
    <2>3. /\ \A u \in Senders \ {s} : tx'[u] = tx[u]
          /\ tx' = [tx EXCEPT ![s] = tx'[s]]
      BY <2>2 DEF HeaderInv, HeaderTypeOK
    <2> QED
      BY <2>1, <2>2, <2>3 DEF HeaderInv, HeaderTypeOK
  <1> HIDE DEF todo, f
  <1>4. tx' \in [Senders -> [todo : SendSuffixes, need : [IdFields -> Nat], got : [IdFields -> Nat]]]
    <2>1. tx'[s] \in [todo : SendSuffixes, need : [IdFields -> Nat], got : [IdFields -> Nat]]
      BY <1>1, <1>2, <1>3
    <2> QED
      BY <1>3, <2>1 DEF HeaderInv, HeaderTypeOK
  <1>5. \A g \in IdFields : tx'[s].need[g] <= ver[g]
    BY <1>1, <1>3 DEF HeaderInv
  <1>6. \A g \in IdFields \ Unread(tx'[s].todo) : tx'[s].got[g] >= tx'[s].need[g]
    <2>1. CASE f = "type"
      BY <1>2, <1>3, <2>1
    <2>2. CASE f # "type"
      <3> SUFFICES ASSUME NEW g \in IdFields, g \notin Unread(Tail(todo))
                   PROVE  [tx[s].got EXCEPT ![f] = ver[f]][g] >= tx[s].need[g]
        BY <1>3, <2>2
      <3>1. CASE g = f
        BY <1>1, <2>2, <3>1 DEF HeaderInv
      <3>2. CASE g # f
        BY <1>1, <1>2, <3>2 DEF HeaderInv, todo
      <3> QED
        BY <3>1, <3>2
    <2> QED
      BY <2>1, <2>2
  <1> QED
    BY <1>1, <1>3, <1>4, <1>5, <1>6 DEF HeaderInv, HeaderTypeOK

\* Every step of setters, senders and viewers keeps the invariant.
LEMMA HeaderStepInv == HeaderInv /\ [RacesNext]_racesVars => HeaderInv'
  <1> SUFFICES ASSUME HeaderInv, [RacesNext]_racesVars PROVE HeaderInv'
    OBVIOUS
  <1>1. ASSUME UNCHANGED <<tx, ver, typeVer>> PROVE HeaderInv'
    BY <1>1 DEF HeaderInv, HeaderTypeOK
  <1>2. CASE ViewNext
    BY <1>1, <1>2 DEF ViewNext, View, ViewBegin, IndexClear, IndexPush, IndexBuilt, ViewSearch,
       ViewReturn, headerVars
  <1>3. ASSUME NEW id, NEW sub, SetSource(id, sub) \/ SetTarget(id, sub) PROVE HeaderInv'
    BY <1>3, WriteInv DEF SetSource, SetTarget
  <1>4. ASSUME NEW t, SetMessageType(t) PROVE HeaderInv'
    BY <1>4 DEF SetMessageType, HeaderInv, HeaderTypeOK
  <1>5. ASSUME NEW w, SwapRead(w) \/ SwapSource(w) \/ SwapTarget(w) PROVE HeaderInv'
    BY <1>1, <1>5, WriteInv DEF SwapRead, SwapSource, SwapTarget
  <1>6. ASSUME NEW s \in Senders, SendBegin(s) PROVE HeaderInv'
    <2>1. /\ ver' = ver /\ typeVer' = typeVer
          /\ \A u \in Senders \ {s} : tx'[u] = tx[u]
          /\ tx'[s] = [todo |-> SendOrder, need |-> [f \in IdFields |-> 0],
                       got |-> [f \in IdFields |-> 0]]
          /\ tx' = [tx EXCEPT ![s] = tx'[s]]
      <3>1. /\ tx' = [tx EXCEPT ![s] = [NotSending EXCEPT !.todo = SendOrder]]
            /\ ver' = ver /\ typeVer' = typeVer /\ DOMAIN tx = Senders
        BY <1>6 DEF SendBegin, HeaderInv, HeaderTypeOK
      <3>2. [NotSending EXCEPT !.todo = SendOrder]
              = [todo |-> SendOrder, need |-> [f \in IdFields |-> 0], got |-> [f \in IdFields |-> 0]]
        BY DEF NotSending
      <3> QED
        BY <3>1, <3>2
    <2>2. tx' \in [Senders -> [todo : SendSuffixes, need : [IdFields -> Nat], got : [IdFields -> Nat]]]
      <3>1. tx'[s] \in [todo : SendSuffixes, need : [IdFields -> Nat], got : [IdFields -> Nat]]
        BY <2>1 DEF SendSuffixes
      <3> QED
        BY <2>1, <3>1 DEF HeaderInv, HeaderTypeOK
    <2>3. \A f \in IdFields : tx'[s].need[f] = 0 /\ tx'[s].got[f] = 0 /\ ver[f] \in Nat
      BY <2>1 DEF HeaderInv, HeaderTypeOK
    <2>4. HeaderTypeOK'
      BY <2>1, <2>2 DEF HeaderInv, HeaderTypeOK
    <2>5. \A u \in Senders, f \in IdFields : tx'[u].need[f] <= ver'[f]
      BY <2>1, <2>3 DEF HeaderInv
    <2>6. \A u \in Senders : \A f \in IdFields \ Unread(tx'[u].todo) : tx'[u].got[f] >= tx'[u].need[f]
      <3> SUFFICES ASSUME NEW u \in Senders, NEW f \in IdFields \ Unread(tx'[u].todo)
                   PROVE  tx'[u].got[f] >= tx'[u].need[f]
        OBVIOUS
      <3>1. CASE u = s
        BY <2>3, <3>1
      <3>2. CASE u # s
        BY <2>1, <3>2 DEF HeaderInv
      <3> QED
        BY <3>1, <3>2
    <2> QED
      BY <2>1, <2>4, <2>5, <2>6 DEF HeaderInv
  <1>7. CASE UNCHANGED racesVars
    BY <1>1, <1>7 DEF racesVars
  <1> QED
    BY <1>2, <1>3, <1>4, <1>5, <1>6, <1>7, SendReadInv DEF RacesNext, HeaderNext

\* A packet's ids are no older than the ones its message type was set with,
\* for every number of threads that set, swap and serialise the header.
THEOREM TypedCarries == RacesSpec => []TypedCarriesIds
  <1>1. RacesInit => HeaderInv
    BY DEF RacesInit, HeaderInv, HeaderTypeOK, NotSending, SendSuffixes
  <1>2. HeaderInv => TypedCarriesIds
    BY DEF HeaderInv, TypedCarriesIds, Unread
  <1> QED
    BY <1>1, <1>2, HeaderStepInv, PTL DEF RacesSpec

-----------------------------------------------------------------------------
(* rcu_value *)

RcuCall ==
  [call : {"none", "update", "compare", "assign", "count"}, object : RcuValues \union {Nil},
   snapshot : Addresses \union {Nil}, owns : BOOLEAN, based : Nat, of : RcuValues \union {Nil},
   fresh : Addresses \union {Nil}]
Publication == [version : Nat, how : {"initial", "assign", "update", "compare"}, base : Nat]

RcuTypeOK ==
  /\ memory \in [Addresses -> Nat]
  /\ current \in [RcuValues -> Addresses]
  /\ update_count \in [RcuValues -> Nat]
  /\ calls \in Nat
  /\ thread \in [RcuThreads -> RcuCall]
  /\ published \in [RcuValues -> Seq(Publication)]

\* A call has what it works on; and what a snapshot points to is still the
\* version that was read, because the snapshot owns it.
CallSound(c) ==
  /\ c.owns = TRUE
  /\ c.call # "none" => c.object \in RcuValues
  /\ c.call \in {"update", "compare", "assign"} => c.fresh \in Addresses
  /\ c.call = "compare" => c.snapshot # Nil
  /\ c.snapshot # Nil => c.of \in RcuValues /\ memory[c.snapshot] = c.based

\* A history starts with the initial version, and ends with the one in place.
InPlace(o) ==
  /\ published[o] # <<>> /\ published[o][1].how = "initial"
  /\ published[o][Len(published[o])].version = memory[current[o]]

\* The entries of a history that count as updates, and the threads that have
\* published one and not counted it yet.
Marked(q) == {i \in DOMAIN q : q[i].how \in {"update", "compare"}}
Counting(o) == {t \in RcuThreads : thread[t].call = "count" /\ thread[t].object = o}

ComparesHonest(q) ==
  \A i \in DOMAIN q : q[i].how = "compare" => q[i].base = q[i - 1].version

CountMatches(o) ==
  /\ IsFiniteSet(Counting(o))
  /\ update_count[o] + Cardinality(Counting(o)) = Cardinality(Marked(published[o]))

RcuInv ==
  /\ RcuTypeOK
  /\ \A t \in RcuThreads : CallSound(thread[t])
  /\ \A o \in RcuValues : InPlace(o) /\ ComparesHonest(published[o]) /\ CountMatches(o)

\* A history that grows by one entry.
LEMMA HistoryAppend ==
  ASSUME NEW q \in Seq(Publication), q # <<>>, q[1].how = "initial", ComparesHonest(q),
         NEW e \in Publication, e.how = "compare" => e.base = q[Len(q)].version
  PROVE  /\ Append(q, e) \in Seq(Publication) /\ Append(q, e) # <<>>
         /\ Append(q, e)[1].how = "initial" /\ Append(q, e)[Len(Append(q, e))] = e
         /\ ComparesHonest(Append(q, e))
         /\ IsFiniteSet(Marked(q)) /\ Cardinality(Marked(q)) \in Nat
         /\ Cardinality(Marked(Append(q, e))) =
              Cardinality(Marked(q)) + (IF e.how \in {"update", "compare"} THEN 1 ELSE 0)
  <1>1. /\ Len(q) \in Nat \ {0} /\ DOMAIN q = 1..Len(q)
        /\ Append(q, e) \in Seq(Publication) /\ Len(Append(q, e)) = Len(q) + 1
        /\ DOMAIN Append(q, e) = 1..(Len(q) + 1)
        /\ Append(q, e)[Len(q) + 1] = e
        /\ \A i \in 1..Len(q) : Append(q, e)[i] = q[i]
    BY EmptySeq, LenProperties, AppendProperties
  <1>2. Append(q, e) # <<>> /\ Append(q, e)[1].how = "initial"
    BY <1>1
  <1>3. ComparesHonest(Append(q, e))
    <2> SUFFICES ASSUME NEW i \in 1..(Len(q) + 1), Append(q, e)[i].how = "compare"
                 PROVE  Append(q, e)[i].base = Append(q, e)[i - 1].version
      BY <1>1 DEF ComparesHonest
    <2>1. i # 1 /\ i - 1 \in 1..Len(q) /\ Append(q, e)[i - 1] = q[i - 1]
      BY <1>1
    <2>2. CASE i = Len(q) + 1
      BY <1>1, <2>1, <2>2
    <2>3. CASE i \in 1..Len(q)
      BY <1>1, <2>1, <2>3 DEF ComparesHonest
    <2> QED
      BY <1>1, <2>2, <2>3
  <1>4. IsFiniteSet(Marked(q)) /\ Cardinality(Marked(q)) \in Nat
    <2>1. Marked(q) \in SUBSET (1..Len(q)) /\ IsFiniteSet(1..Len(q))
      BY <1>1, FS_Interval DEF Marked
    <2> QED
      BY <2>1, FS_Subset, FS_CardinalityType
  <1>5. CASE e.how \in {"update", "compare"}
    <2>1. Marked(Append(q, e)) = Marked(q) \union {Len(q) + 1} /\ Len(q) + 1 \notin Marked(q)
      BY <1>1, <1>5 DEF Marked
    <2> QED
      BY <1>1, <1>2, <1>3, <1>4, <1>5, <2>1, FS_AddElement
  <1>6. CASE e.how \notin {"update", "compare"}
    <2>1. Marked(Append(q, e)) = Marked(q)
      BY <1>1, <1>6 DEF Marked
    <2> QED
      BY <1>1, <1>2, <1>3, <1>4, <1>6, <2>1
  <1> QED
    BY <1>5, <1>6

\* A step of one thread leaves the calls of the others sound as long as it
\* writes to no version that one of them still owns.
LEMMA OthersSound ==
  ASSUME RcuInv, NEW t \in RcuThreads,
         thread' = [thread EXCEPT ![t] = thread'[t]], thread'[t] \in RcuCall,
         CallSound(thread[t])',
         \A u \in RcuThreads : thread[u].snapshot # Nil =>
           memory'[thread[u].snapshot] = memory[thread[u].snapshot]
  PROVE  /\ thread' \in [RcuThreads -> RcuCall]
         /\ (\A u \in RcuThreads : CallSound(thread[u]))'
  <1>1. thread' \in [RcuThreads -> RcuCall]
    BY DEF RcuInv, RcuTypeOK
  <1>2. ASSUME NEW u \in RcuThreads PROVE CallSound(thread[u])'
    <2>1. CASE u = t
      BY <2>1
    <2>2. CASE u # t
      <3>1. thread'[u] = thread[u]
        BY <2>2 DEF RcuInv, RcuTypeOK
      <3>2. CallSound(thread[u])
        BY DEF RcuInv
      <3> QED
        BY <3>1, <3>2 DEF CallSound
    <2> QED
      BY <2>1, <2>2
  <1> QED
    BY <1>1, <1>2

\* A thread that enters or leaves no fetch_add leaves the others to count.
LEMMA CountingKept ==
  ASSUME RcuInv, NEW t \in RcuThreads, thread' = [thread EXCEPT ![t] = thread'[t]],
         thread[t].call # "count", thread'[t].call # "count"
  PROVE  \A o : Counting(o)' = Counting(o)
  BY DEF RcuInv, RcuTypeOK, Counting

\* A step that publishes nothing and counts nothing.
LEMMA QuietStep ==
  ASSUME RcuInv, NEW t \in RcuThreads,
         thread' = [thread EXCEPT ![t] = thread'[t]], thread'[t] \in RcuCall,
         CallSound(thread[t])', thread[t].call # "count", thread'[t].call # "count",
         memory' \in [Addresses -> Nat], calls' \in Nat,
         UNCHANGED <<current, update_count, published>>,
         \A u \in RcuThreads : thread[u].snapshot # Nil =>
           memory'[thread[u].snapshot] = memory[thread[u].snapshot],
         \A o \in RcuValues : memory'[current[o]] = memory[current[o]]
  PROVE  RcuInv'
  <1>1. RcuTypeOK' /\ (\A u \in RcuThreads : CallSound(thread[u]))'
    BY OthersSound DEF RcuInv, RcuTypeOK
  <1>2. ASSUME NEW o \in RcuValues
        PROVE  (InPlace(o) /\ ComparesHonest(published[o]) /\ CountMatches(o))'
    <2>1. InPlace(o) /\ ComparesHonest(published[o]) /\ CountMatches(o)
      BY DEF RcuInv
    <2>2. InPlace(o)'
      BY <2>1 DEF InPlace
    <2>3. ComparesHonest(published[o])'
      BY <2>1 DEF ComparesHonest
    <2>4. CountMatches(o)'
      BY <2>1, CountingKept DEF CountMatches, Marked
    <2> QED
      BY <2>2, <2>3, <2>4
  <1> QED
    BY <1>1, <1>2 DEF RcuInv

\* A store to current_, by a call that goes on to count it or by operator=.
LEMMA PublishStep ==
  ASSUME RcuInv, NEW t \in RcuThreads, NEW how \in {"assign", "update", "compare"}, NEW base \in Nat,
         thread[t].call \in {"update", "compare", "assign"}, Publish(t, how, base),
         how = "compare" => base = memory[current[thread[t].object]],
         UNCHANGED <<memory, update_count, calls>>,
         thread' = [thread EXCEPT ![t] = thread'[t]], thread'[t] \in RcuCall,
         CallSound(thread[t])', thread'[t].object = thread[t].object,
         thread'[t].call = IF how = "assign" THEN "none" ELSE "count"
  PROVE  RcuInv'
  <1> DEFINE x == thread[t].object
             e == [version |-> memory[thread[t].fresh], how |-> how, base |-> base]
  <1>1. CallSound(thread[t]) /\ RcuTypeOK
    BY DEF RcuInv
  <1>2. x \in RcuValues /\ thread[t].fresh \in Addresses /\ e \in Publication
    BY <1>1 DEF CallSound, RcuTypeOK, Publication
  <1>3. /\ current' = [current EXCEPT ![x] = thread[t].fresh]
        /\ published' = [published EXCEPT ![x] = Append(published[x], e)]
    BY DEF Publish
  <1>4. /\ InPlace(x) /\ ComparesHonest(published[x]) /\ CountMatches(x)
        /\ published[x] \in Seq(Publication)
    BY <1>2 DEF RcuInv, RcuTypeOK
  <1>5. /\ published'[x] \in Seq(Publication) /\ published'[x] # <<>>
        /\ published'[x][1].how = "initial"
        /\ published'[x][Len(published'[x])].version = memory[thread[t].fresh]
        /\ ComparesHonest(published'[x])
        /\ IsFiniteSet(Marked(published[x])) /\ Cardinality(Marked(published[x])) \in Nat
        /\ Cardinality(Marked(published'[x])) =
             Cardinality(Marked(published[x])) + (IF how = "assign" THEN 0 ELSE 1)
    <2>1. e.how = "compare" => e.base = published[x][Len(published[x])].version
      BY <1>4 DEF InPlace
    <2>2. published'[x] = Append(published[x], e)
      BY <1>1, <1>2, <1>3 DEF RcuTypeOK
    <2>3. e.version = memory[thread[t].fresh] /\ e.how = how
      OBVIOUS
    <2> HIDE DEF e, x
    <2> QED
      BY <1>2, <1>4, <2>1, <2>2, <2>3, HistoryAppend DEF InPlace
  <1> HIDE DEF e
  <1>6. RcuTypeOK' /\ (\A u \in RcuThreads : CallSound(thread[u]))'
    <2>1. published' \in [RcuValues -> Seq(Publication)]
      BY <1>1, <1>3, <1>5, <1>2 DEF RcuTypeOK
    <2>2. thread' \in [RcuThreads -> RcuCall] /\ (\A u \in RcuThreads : CallSound(thread[u]))'
      BY OthersSound
    <2> QED
      BY <1>1, <1>2, <1>3, <2>1, <2>2 DEF RcuTypeOK
  <1>7. (InPlace(x) /\ ComparesHonest(published[x]))'
    <2>1. current'[x] = thread[t].fresh
      BY <1>1, <1>2, <1>3 DEF RcuTypeOK
    <2>2. x' = x
      OBVIOUS
    <2> QED
      BY <1>5, <2>1, <2>2 DEF InPlace, ComparesHonest
  <1>8. CountMatches(x)'
    <2>1. CASE how = "assign"
      <3>1. Counting(x)' = Counting(x)
        BY <1>1, <2>1 DEF Counting, RcuTypeOK
      <3> QED
        BY <1>4, <1>5, <2>1, <3>1 DEF CountMatches
    <2>2. CASE how # "assign"
      <3>1. Counting(x)' = Counting(x) \union {t} /\ t \notin Counting(x)
        BY <1>1, <2>2 DEF Counting, RcuTypeOK
      <3>2. /\ IsFiniteSet(Counting(x)') /\ Cardinality(Counting(x)) \in Nat
            /\ Cardinality(Counting(x)') = Cardinality(Counting(x)) + 1
        BY <1>4, <3>1, FS_AddElement, FS_CardinalityType DEF CountMatches
      <3> QED
        BY <1>1, <1>2, <1>4, <1>5, <2>2, <3>2 DEF CountMatches, RcuTypeOK
    <2> QED
      BY <2>1, <2>2
  <1>9. ASSUME NEW o \in RcuValues, o # x
        PROVE  (InPlace(o) /\ ComparesHonest(published[o]) /\ CountMatches(o))'
    <2>1. InPlace(o) /\ ComparesHonest(published[o]) /\ CountMatches(o)
      BY DEF RcuInv
    <2>2. published'[o] = published[o] /\ current'[o] = current[o]
      BY <1>1, <1>3, <1>9 DEF RcuTypeOK
    <2>3. Counting(o)' = Counting(o)
      BY <1>1, <1>9 DEF Counting, RcuTypeOK
    <2> QED
      BY <2>1, <2>2, <2>3 DEF InPlace, ComparesHonest, CountMatches, Marked
  <1> QED
    BY <1>6, <1>7, <1>8, <1>9 DEF RcuInv

\* update_count_.fetch_add
LEMMA CountStep ==
  ASSUME RcuInv, NEW t \in RcuThreads, CountUpdate(t)
  PROVE  RcuInv'
  <1> DEFINE x == thread[t].object
  <1>1. RcuTypeOK /\ CallSound(thread[t]) /\ thread[t].call = "count" /\ x \in RcuValues
    BY DEF RcuInv, CountUpdate, CallSound
  <1>2. /\ thread'[t] = [thread[t] EXCEPT !.call = "none"]
        /\ thread' = [thread EXCEPT ![t] = thread'[t]]
        /\ update_count' = [update_count EXCEPT ![x] = @ + 1]
        /\ UNCHANGED <<memory, current, calls, published>>
    BY <1>1 DEF CountUpdate, RcuTypeOK
  <1>3. thread'[t] \in RcuCall /\ thread'[t].call = "none" /\ CallSound(thread[t])'
    <2>1. thread[t] \in RcuCall
      BY <1>1 DEF RcuTypeOK
    <2>2. thread'[t] = [call |-> "none", object |-> x, snapshot |-> thread[t].snapshot,
                        owns |-> thread[t].owns, based |-> thread[t].based, of |-> thread[t].of,
                        fresh |-> thread[t].fresh]
      BY <1>2, <2>1 DEF RcuCall
    <2>3. thread'[t] \in RcuCall
      BY <2>1, <2>2 DEF RcuCall
    <2> QED
      BY <1>1, <1>2, <2>2, <2>3 DEF CallSound
  <1>4. RcuTypeOK' /\ (\A u \in RcuThreads : CallSound(thread[u]))'
    <2>1. thread' \in [RcuThreads -> RcuCall] /\ (\A u \in RcuThreads : CallSound(thread[u]))'
      BY <1>2, <1>3, OthersSound
    <2> QED
      BY <1>1, <1>2, <2>1 DEF RcuTypeOK
  <1>5. ASSUME NEW o \in RcuValues
        PROVE  (InPlace(o) /\ ComparesHonest(published[o]) /\ CountMatches(o))'
    <2>1. InPlace(o) /\ ComparesHonest(published[o]) /\ CountMatches(o)
      BY DEF RcuInv
    <2>2. InPlace(o)' /\ ComparesHonest(published[o])'
      BY <1>2, <2>1 DEF InPlace, ComparesHonest
    <2>3. CASE o = x
      <3>1. Counting(o)' = Counting(o) \ {t} /\ t \in Counting(o)
        BY <1>1, <1>2, <1>3, <2>3 DEF Counting, RcuTypeOK
      <3>2. /\ IsFiniteSet(Counting(o)') /\ Cardinality(Counting(o)) \in Nat
            /\ Cardinality(Counting(o)') = Cardinality(Counting(o)) - 1
        BY <2>1, <3>1, FS_RemoveElement, FS_CardinalityType DEF CountMatches
      <3>3. update_count'[o] = update_count[o] + 1 /\ update_count[o] \in Nat
        BY <1>1, <1>2, <2>3 DEF RcuTypeOK
      <3> QED
        BY <1>2, <2>1, <2>2, <3>2, <3>3 DEF CountMatches, Marked
    <2>4. CASE o # x
      <3>1. Counting(o)' = Counting(o) /\ update_count'[o] = update_count[o]
        BY <1>1, <1>2, <1>3, <2>4 DEF Counting, RcuTypeOK
      <3> QED
        BY <1>2, <2>1, <2>2, <3>1 DEF CountMatches, Marked
    <2> QED
      BY <2>3, <2>4
  <1> QED
    BY <1>4, <1>5 DEF RcuInv

\* A call is its fields.
LEMMA CallFields ==
  ASSUME NEW c \in RcuCall
  PROVE  c = [call |-> c.call, object |-> c.object, snapshot |-> c.snapshot, owns |-> c.owns,
              based |-> c.based, of |-> c.of, fresh |-> c.fresh]
  BY DEF RcuCall

\* read, and the end of a snapshot.
LEMMA ReadStep ==
  ASSUME RcuInv, NEW t \in RcuThreads, (\E o \in RcuValues : Read(t, o)) \/ Release(t)
  PROVE  RcuInv'
  <1>1. RcuTypeOK /\ thread[t].call = "none"
    BY DEF RcuInv, Read, Release, Free
  <1>2. CASE \E o \in RcuValues : Read(t, o)
    <2>1. PICK o \in RcuValues : Read(t, o)
      BY <1>2
    <2>2. /\ thread'[t] = [NoRcuCall EXCEPT !.snapshot = current[o], !.of = o,
                                            !.based = memory[current[o]]]
          /\ thread' = [thread EXCEPT ![t] = thread'[t]]
          /\ UNCHANGED <<memory, current, update_count, calls, published>>
      BY <1>1, <2>1 DEF Read, RcuTypeOK
    <2>3. thread'[t] = [call |-> "none", object |-> Nil, snapshot |-> current[o], owns |-> TRUE,
                        based |-> memory[current[o]], of |-> o, fresh |-> Nil]
      BY <2>2 DEF NoRcuCall
    <2>4. current[o] \in Addresses /\ memory[current[o]] \in Nat
      BY <1>1 DEF RcuTypeOK
    <2>5. thread'[t] \in RcuCall /\ CallSound(thread[t])' /\ thread'[t].call # "count"
      <3>1. thread'[t] \in RcuCall
        BY <2>3, <2>4 DEF RcuCall
      <3>2. /\ thread'[t].call = "none" /\ thread'[t].owns = TRUE /\ thread'[t].of = o
            /\ thread'[t].snapshot = current[o] /\ thread'[t].based = memory[current[o]]
        BY <2>3
      <3>3. memory' = memory
        BY <2>2
      <3> QED
        BY <3>1, <3>2, <3>3 DEF CallSound
    <2>6. memory' \in [Addresses -> Nat] /\ calls' \in Nat
      BY <1>1, <2>2 DEF RcuTypeOK
    <2> QED
      BY <1>1, <2>2, <2>5, <2>6, QuietStep
  <1>3. CASE Release(t)
    <2>1. /\ thread'[t] = NoRcuCall
          /\ thread' = [thread EXCEPT ![t] = thread'[t]]
          /\ UNCHANGED <<memory, current, update_count, calls, published>>
      BY <1>1, <1>3 DEF Release, RcuTypeOK
    <2>2. thread'[t] \in RcuCall /\ CallSound(thread[t])' /\ thread'[t].call # "count"
      BY <2>1 DEF RcuCall, CallSound, NoRcuCall
    <2>3. memory' \in [Addresses -> Nat] /\ calls' \in Nat
      BY <1>1, <2>1 DEF RcuTypeOK
    <2> QED
      BY <1>1, <2>1, <2>2, <2>3, QuietStep
  <1> QED
    BY <1>2, <1>3

\* The start of update, compare_and_update and operator=: make_shared uses an
\* address that nobody owns, so no version that can still be seen changes.
LEMMA BeginStep ==
  ASSUME RcuInv, NEW t \in RcuThreads,
         \/ \E o, p \in RcuValues : BeginAssign(t, o, p)
         \/ \E a \in Addresses : BeginCompare(t, a) \/ \E o \in RcuValues : BeginUpdate(t, o, a)
  PROVE  RcuInv'
  <1>1. /\ RcuTypeOK /\ thread[t].call = "none" /\ calls' \in Nat /\ CallSound(thread[t])
        /\ thread[t] \in RcuCall
        /\ UNCHANGED <<current, update_count, published>>
    <2>1. RcuTypeOK /\ CallSound(thread[t]) /\ thread[t] \in RcuCall
      BY DEF RcuInv, RcuTypeOK
    <2>2. /\ thread[t].call = "none" /\ calls' = calls + 1
          /\ UNCHANGED <<current, update_count, published>>
      BY DEF BeginAssign, BeginCompare, BeginUpdate, Free
    <2> QED
      BY <2>1, <2>2 DEF RcuTypeOK
  <1> DEFINE Begun(kind, x, b) ==
               /\ thread' = [thread EXCEPT ![t].call = kind, ![t].object = x, ![t].fresh = b]
               /\ kind = "compare" => thread[t].snapshot # Nil
  <1>2. PICK kind \in {"update", "compare", "assign"}, x \in RcuValues, b \in Addresses :
          Begun(kind, x, b)
    <2>1. ASSUME NEW o \in RcuValues, NEW p \in RcuValues, BeginAssign(t, o, p)
          PROVE  Begun("assign", o, current[p]) /\ current[p] \in Addresses
      BY <1>1, <2>1 DEF BeginAssign, RcuTypeOK
    <2>2. ASSUME NEW a \in Addresses, BeginCompare(t, a)
          PROVE  Begun("compare", thread[t].of, a) /\ thread[t].of \in RcuValues
      BY <1>1, <2>2 DEF BeginCompare, CallSound
    <2>3. ASSUME NEW a \in Addresses, NEW o \in RcuValues, BeginUpdate(t, o, a)
          PROVE  Begun("update", o, a)
      BY <2>3 DEF BeginUpdate
    <2> HIDE DEF Begun
    <2> QED
      BY <2>1, <2>2, <2>3
  <1>3. /\ thread'[t] = [call |-> kind, object |-> x, snapshot |-> thread[t].snapshot,
                         owns |-> thread[t].owns, based |-> thread[t].based, of |-> thread[t].of,
                         fresh |-> b]
        /\ thread' = [thread EXCEPT ![t] = thread'[t]]
    <2>1. thread'[t] = [thread[t] EXCEPT !.call = kind, !.object = x, !.fresh = b]
      BY <1>1, <1>2 DEF RcuTypeOK
    <2>2. thread' = [thread EXCEPT ![t] = thread'[t]]
      BY <1>1, <1>2 DEF RcuTypeOK
    <2> QED
      BY <1>1, <2>1, <2>2, CallFields
  <1>4. /\ memory' \in [Addresses -> Nat]
        /\ \A y \in Owned : y \in Addresses => memory'[y] = memory[y]
    <2>1. CASE UNCHANGED memory
      BY <1>1, <2>1 DEF RcuTypeOK
    <2>2. CASE \E a \in Addresses : MakeShared(a)
      <3>1. Cardinality(RcuValues) + calls + 1 \in Nat
        BY <1>1, RcuAssumption, FS_CardinalityType DEF RcuTypeOK
      <3> QED
        BY <1>1, <2>2, <3>1 DEF MakeShared, RcuTypeOK
    <2> QED
      BY <2>1, <2>2 DEF BeginAssign, BeginCompare, BeginUpdate
  <1>5. /\ \A u \in RcuThreads : thread[u].snapshot # Nil =>
             memory'[thread[u].snapshot] = memory[thread[u].snapshot]
        /\ \A o \in RcuValues : memory'[current[o]] = memory[current[o]]
    <2>1. ASSUME NEW u \in RcuThreads, thread[u].snapshot # Nil
          PROVE  thread[u].snapshot \in Owned /\ thread[u].snapshot \in Addresses
      <3>1. CallSound(thread[u]) /\ thread[u] \in RcuCall
        BY DEF RcuInv, RcuTypeOK
      <3>2. u \in {v \in RcuThreads : thread[v].owns}
        BY <3>1 DEF CallSound
      <3> QED
        BY <2>1, <3>1, <3>2 DEF Owned, RcuCall
    <2>2. \A o \in RcuValues : current[o] \in Owned /\ current[o] \in Addresses
      BY <1>1 DEF Owned, RcuTypeOK
    <2> QED
      BY <1>4, <2>1, <2>2
  <1>6. thread'[t] \in RcuCall /\ CallSound(thread[t])' /\ thread'[t].call # "count"
    <2>1. thread'[t] \in RcuCall /\ thread'[t].call # "count"
      BY <1>1, <1>3 DEF RcuCall
    <2>2. thread[t].snapshot # Nil => memory'[thread[t].snapshot] = thread[t].based
      BY <1>1, <1>5 DEF CallSound
    <2> QED
      BY <1>1, <1>2, <1>3, <2>1, <2>2 DEF CallSound
  <1> QED
    BY <1>1, <1>3, <1>4, <1>5, <1>6, QuietStep

\* The stores and the compare-and-swap.
LEMMA StoreStep ==
  ASSUME RcuInv, NEW t \in RcuThreads, FinishAssign(t) \/ StoreNew(t) \/ CompareExchange(t)
  PROVE  RcuInv'
  <1>1. /\ RcuTypeOK /\ CallSound(thread[t]) /\ thread[t] \in RcuCall
        /\ thread[t].call \in {"update", "compare", "assign"}
        /\ UNCHANGED <<memory, update_count, calls>>
    BY DEF RcuInv, RcuTypeOK, FinishAssign, StoreNew, CompareExchange
  <1>2. ASSUME NEW next \in {"none", "count"},
               thread' = [thread EXCEPT ![t].call = next, ![t].fresh = Nil]
        PROVE  /\ thread' = [thread EXCEPT ![t] = thread'[t]] /\ thread'[t] \in RcuCall
               /\ CallSound(thread[t])' /\ thread'[t].object = thread[t].object
               /\ thread'[t].call = next
    <2>1. thread'[t] = [thread[t] EXCEPT !.call = next, !.fresh = Nil]
      BY <1>1, <1>2 DEF RcuTypeOK
    <2>2. thread'[t] = [call |-> next, object |-> thread[t].object,
                        snapshot |-> thread[t].snapshot, owns |-> thread[t].owns,
                        based |-> thread[t].based, of |-> thread[t].of, fresh |-> Nil]
      BY <1>1, <2>1, CallFields
    <2>3. thread' = [thread EXCEPT ![t] = thread'[t]]
      BY <1>1, <1>2 DEF RcuTypeOK
    <2>4. thread'[t] \in RcuCall
      BY <1>1, <2>2 DEF RcuCall
    <2>5. memory' = memory
      BY <1>1
    <2> QED
      BY <1>1, <2>2, <2>3, <2>4, <2>5 DEF CallSound
  <1>3. CASE FinishAssign(t)
    <2>1. Publish(t, "assign", 0) /\ thread' = [thread EXCEPT ![t].call = "none", ![t].fresh = Nil]
      BY <1>3 DEF FinishAssign
    <2> QED
      BY <1>1, <1>2, <2>1, PublishStep
  <1>4. CASE StoreNew(t)
    <2>1. Publish(t, "update", 0) /\ thread' = [thread EXCEPT ![t].call = "count", ![t].fresh = Nil]
      BY <1>4 DEF StoreNew
    <2> QED
      BY <1>1, <1>2, <2>1, PublishStep
  <1>5. CASE CompareExchange(t) /\ current[thread[t].object] = thread[t].snapshot
    <2>1. /\ Publish(t, "compare", thread[t].based)
          /\ thread' = [thread EXCEPT ![t].call = "count", ![t].fresh = Nil]
      BY <1>5 DEF CompareExchange
    <2>2. thread[t].based \in Nat /\ thread[t].based = memory[current[thread[t].object]]
      BY <1>1, <1>5 DEF CompareExchange, CallSound, RcuCall
    <2> QED
      BY <1>1, <1>2, <2>1, <2>2, PublishStep
  <1>6. CASE CompareExchange(t) /\ current[thread[t].object] # thread[t].snapshot
    <2>1. /\ UNCHANGED <<current, published>>
          /\ thread' = [thread EXCEPT ![t].call = "none", ![t].fresh = Nil]
      BY <1>6 DEF CompareExchange
    <2>2. memory' \in [Addresses -> Nat] /\ calls' \in Nat
      BY <1>1 DEF RcuTypeOK
    <2> QED
      BY <1>1, <1>2, <2>1, <2>2, QuietStep
  <1> QED
    BY <1>3, <1>4, <1>5, <1>6

\* There is an address for every object, and a version for every address.
LEMMA InitialPlaces ==
  /\ \E place \in [RcuValues -> Addresses] : \A o, p \in RcuValues : place[o] = place[p] => o = p
  /\ \A place \in [RcuValues -> Addresses] :
       (\A o, p \in RcuValues : place[o] = place[p] => o = p) =>
         \E m \in [Addresses -> 0..Cardinality(RcuValues)] :
           /\ \A a \in Addresses : m[a] = 0 <=> a \notin {place[o] : o \in RcuValues}
           /\ \A o, p \in RcuValues : m[place[o]] = m[place[p]] => o = p
  <1> DEFINE n == Cardinality(RcuValues)
             k == Cardinality(Addresses)
  <1>1. /\ n \in Nat /\ k \in Nat /\ n <= k
        /\ ExistsBijection(1..n, RcuValues) /\ ExistsBijection(1..k, Addresses)
    BY RcuAssumption, FS_CardinalityType
  <1>2. PICK g \in [1..k -> Addresses] : \A i, j \in 1..k : g[i] = g[j] => i = j
    BY <1>1 DEF ExistsBijection, Bijection, Injection, IsInjective
  <1>3. PICK h \in [1..n -> RcuValues] : /\ \A i, j \in 1..n : h[i] = h[j] => i = j
                                         /\ \A o \in RcuValues : \E i \in 1..n : h[i] = o
    BY <1>1 DEF ExistsBijection, Bijection, Injection, Surjection, IsInjective
  <1> HIDE DEF n, k
  <1> DEFINE num == [o \in RcuValues |-> CHOOSE i \in 1..n : h[i] = o]
  <1>4. \A o \in RcuValues : num[o] \in 1..n /\ h[num[o]] = o
    BY <1>3
  <1> HIDE DEF num
  <1>5. \E place \in [RcuValues -> Addresses] : \A o, p \in RcuValues : place[o] = place[p] => o = p
    <2> DEFINE place == [o \in RcuValues |-> g[num[o]]]
    <2>1. place \in [RcuValues -> Addresses]
      BY <1>1, <1>2, <1>4
    <2>2. \A o, p \in RcuValues : place[o] = place[p] => o = p
      <3> SUFFICES ASSUME NEW o \in RcuValues, NEW p \in RcuValues, g[num[o]] = g[num[p]]
                   PROVE  o = p
        OBVIOUS
      <3>1. num[o] \in 1..k /\ num[p] \in 1..k
        BY <1>1, <1>4
      <3>2. num[o] = num[p]
        BY <1>2, <3>1
      <3> QED
        BY <1>4, <3>2
    <2> QED
      BY <2>1, <2>2
  <1>6. ASSUME NEW place \in [RcuValues -> Addresses],
               \A o, p \in RcuValues : place[o] = place[p] => o = p
        PROVE  \E m \in [Addresses -> 0..n] :
                 /\ \A a \in Addresses : m[a] = 0 <=> a \notin {place[o] : o \in RcuValues}
                 /\ \A o, p \in RcuValues : m[place[o]] = m[place[p]] => o = p
    <2> DEFINE At(a) == CHOOSE o \in RcuValues : place[o] = a
               m == [a \in Addresses |-> IF a \in {place[o] : o \in RcuValues} THEN num[At(a)] ELSE 0]
    <2>1. \A o \in RcuValues : At(place[o]) = o
      BY <1>6
    <2>2. \A o \in RcuValues : m[place[o]] = num[o]
      BY <2>1
    <2>3. \A a \in Addresses : a \in {place[o] : o \in RcuValues} => m[a] \in 1..n
      BY <1>4, <2>2
    <2>4. \A a \in Addresses : a \notin {place[o] : o \in RcuValues} => m[a] = 0
      OBVIOUS
    <2>5. m \in [Addresses -> 0..n]
      BY <1>1, <2>3, <2>4
    <2> HIDE DEF m, At
    <2>6. \A a \in Addresses : m[a] = 0 <=> a \notin {place[o] : o \in RcuValues}
      BY <1>1, <2>3, <2>4
    <2>7. \A o, p \in RcuValues : m[place[o]] = m[place[p]] => o = p
      BY <1>4, <2>2
    <2> QED
      BY <2>5, <2>6, <2>7
  <1> QED
    BY <1>5, <1>6 DEF n

\* rcu_value(initial)
LEMMA RcuInitInv == RcuInit => RcuInv
  <1> SUFFICES ASSUME RcuInit PROVE RcuInv
    OBVIOUS
  <1>1. /\ current \in [RcuValues -> Addresses]
        /\ \A o, p \in RcuValues : current[o] = current[p] => o = p
    BY InitialPlaces DEF RcuInit
  <1>2. memory \in [Addresses -> 0..Cardinality(RcuValues)]
    BY <1>1, InitialPlaces DEF RcuInit
  <1>3. memory \in [Addresses -> Nat]
    BY <1>2, RcuAssumption, FS_CardinalityType
  <1>4. NoRcuCall \in RcuCall /\ CallSound(NoRcuCall)
    BY DEF NoRcuCall, RcuCall, CallSound
  <1>5. ASSUME NEW o \in RcuValues
        PROVE  /\ published[o] \in Seq(Publication)
               /\ InPlace(o) /\ ComparesHonest(published[o]) /\ CountMatches(o)
    <2>1. /\ published[o] = <<[version |-> memory[current[o]], how |-> "initial", base |-> 0]>>
          /\ [version |-> memory[current[o]], how |-> "initial", base |-> 0] \in Publication
      BY <1>1, <1>3 DEF RcuInit, Publication
    <2>2. /\ published[o] \in Seq(Publication) /\ Len(published[o]) = 1
          /\ DOMAIN published[o] = {1} /\ published[o] # <<>>
          /\ published[o][1].how = "initial" /\ published[o][1].version = memory[current[o]]
      BY <2>1
    <2>3. Counting(o) = {} /\ Marked(published[o]) = {} /\ update_count[o] = 0
      BY <2>2 DEF RcuInit, Counting, Marked, NoRcuCall
    <2> QED
      BY <2>2, <2>3, FS_EmptySet DEF InPlace, ComparesHonest, CountMatches
  <1>6. RcuTypeOK
    BY <1>1, <1>3, <1>4, <1>5 DEF RcuInit, RcuTypeOK
  <1> QED
    BY <1>4, <1>5, <1>6 DEF RcuInit, RcuInv

\* Compare-and-swap compares addresses, which are used again; yet a swap that
\* succeeds replaces the version its caller read, and the count of updates is
\* exact, for every number of threads, objects and addresses.
THEOREM RcuSwapsHonest == RcuSpec => []SwapsHonest
  <1>1. RcuInv /\ [RcuNext]_rcuVars => RcuInv'
    <2> SUFFICES ASSUME RcuInv, [RcuNext]_rcuVars PROVE RcuInv'
      OBVIOUS
    <2>1. CASE UNCHANGED rcuVars
      <3>1. UNCHANGED <<memory, current, update_count, calls, thread, published>>
        BY <2>1 DEF rcuVars
      <3>2. RcuTypeOK'
        BY <3>1 DEF RcuInv, RcuTypeOK
      <3>3. (\A t \in RcuThreads : CallSound(thread[t]))'
        BY <3>1 DEF RcuInv, CallSound
      <3>4. ASSUME NEW o \in RcuValues
            PROVE  (InPlace(o) /\ ComparesHonest(published[o]) /\ CountMatches(o))'
        <4>1. Counting(o)' = Counting(o)
          BY <3>1 DEF Counting
        <4> QED
          BY <3>1, <4>1 DEF RcuInv, InPlace, ComparesHonest, CountMatches, Marked
      <3> QED
        BY <3>2, <3>3, <3>4 DEF RcuInv
    <2>2. ASSUME NEW t \in RcuThreads,
                 \/ \E o \in RcuValues : Read(t, o) \/ \E p \in RcuValues : BeginAssign(t, o, p)
                 \/ \E a \in Addresses : BeginCompare(t, a) \/ \E o \in RcuValues : BeginUpdate(t, o, a)
                 \/ Release(t) \/ FinishAssign(t) \/ StoreNew(t) \/ CompareExchange(t) \/ CountUpdate(t)
          PROVE  RcuInv'
      BY <2>2, ReadStep, BeginStep, StoreStep, CountStep
    <2> QED
      BY <2>1, <2>2 DEF RcuNext
  <1>2. RcuInv => SwapsHonest
    BY DEF RcuInv, SwapsHonest, ComparesHonest, CountMatches, Counting, Marked
  <1> QED
    BY <1>1, <1>2, RcuInitInv, PTL DEF RcuSpec

-----------------------------------------------------------------------------
(* Callbacks and builders of the messaging integration *)

IsSequence(s) == s \in Seq(ToSet(s))

IsContainer(c) ==
  /\ DOMAIN c = {"source", "target", "type", "values"} /\ c = [f \in DOMAIN c |-> c[f]]
  /\ IsSequence(c.values)

IsCall(r) ==
  /\ DOMAIN r = {"at", "kind", "object", "text", "ran", "before", "since"} /\ r = [f \in DOMAIN r |-> r[f]]
  /\ r.at \in {"idle", "locking", "calling", "served"} /\ r.kind \in Kinds
  /\ r.ran \in Seq(Callbacks) /\ r.before \in Seq(Callbacks) /\ r.since \in Nat
  /\ IsContainer(r.text)

Begins(s, t) == Len(s) <= Len(t) /\ \A i \in 1..Len(s) : s[i] = t[i]

Unmarked(w) == IsContainer(w) /\ \A i \in 1..Len(w.values) : w.values[i][1] \notin Callbacks

\* Container c is what was asked for, w, and marks of callbacks behind it.
BuiltAs(c, w) ==
  /\ Unmarked(w) /\ IsContainer(c)
  /\ [c EXCEPT !.values = w.values] = w
  /\ Begins(w.values, c.values)
  /\ \A i \in (Len(w.values) + 1)..Len(c.values) : c.values[i][1] \in Callbacks

\* The callbacks that a call ran left their marks on its container, which is
\* not the builder's own.
HasMarks(r, os, own) ==
  /\ r.object \in 1..Len(os) /\ r.object # own
  /\ \A i \in DOMAIN r.ran : <<r.ran[i], Seen>> \in ToSet(os[r.object].values)

\* Which callbacks a call saw when it began, and which it has run.
CallLists(r, lists, since) ==
  /\ r.since <= since
  /\ r.since = since => Begins(r.before, lists[r.kind])
  /\ r.at = "calling" => Begins(r.ran, lists[r.kind])
  /\ r.at = "locking" => r.ran = <<>>

DoneLists(e, lists, since) ==
  /\ e.since <= since
  /\ e.since = since => Begins(e.before, e.ran) /\ Begins(e.ran, lists[e.kind])

MessagingTypes ==
  /\ callbacks \in [Kinds -> Seq(Callbacks)]
  /\ asked = [lists |-> callbacks, since |-> asked.since] /\ asked.since \in Nat
  /\ counters \in [created : Nat, serialized : Nat, deserialized : Nat] /\ forgotten \in Nat
  /\ DOMAIN caller = Callers /\ caller = [t \in Callers |-> caller[t]]
  /\ \A t \in Callers : IsCall(caller[t])
  /\ \A e \in served : IsCall(e)

OneHolder == \A t \in Callers : caller[t].at = "calling" => holder = {t}

ListsSound ==
  /\ \A t \in Callers : caller[t].at # "idle" => CallLists(caller[t], callbacks, asked.since)
  /\ \A e \in served : DoneLists(e, callbacks, asked.since)

MarksSound ==
  /\ \A t \in Callers : caller[t].at # "idle" => HasMarks(caller[t], objects, builder.object)
  /\ \A e \in served : HasMarks(e, objects, builder.object)

ObjectsSound ==
  /\ IsSequence(objects) /\ \A i \in 1..Len(objects) : IsContainer(objects[i])
  /\ builder = [object |-> builder.object, wants |-> builder.wants]
  /\ builder.object \in 1..Len(objects) /\ objects[builder.object] = builder.wants
  /\ Unmarked(builder.wants)

BuiltSound ==
  /\ IsFiniteSet(built)
  /\ \A b \in built : /\ b.object \in 1..Len(objects) /\ b.object # builder.object
                      /\ BuiltAs(objects[b.object], b.wants)

Counted == Len(objects) = 1 + Cardinality(built) + counters.created + counters.deserialized + forgotten

MessagingInv ==
  MessagingTypes /\ OneHolder /\ ListsSound /\ MarksSound /\ ObjectsSound /\ BuiltSound /\ Counted

-----------------------------------------------------------------------------

LEMMA LeastNumber ==
  ASSUME NEW T, T \subseteq Nat, T # {}
  PROVE  \E x \in T : \A y \in T : x <= y
<1> DEFINE R == OpToRel(<, Nat)
<1>1. IsWellFoundedOn(R, Nat)
  BY NatLessThanWellFounded
<1>2. \A x, y \in Nat : x < y => <<x, y>> \in R
  BY DEF OpToRel
<1> HIDE DEF R
<1>3. PICK x \in T : \A y \in T : ~ (<<y, x>> \in R)
  BY <1>1, WFMin
<1>4. \A y \in T : ~ (y < x)
  BY <1>2, <1>3
<1>5. \A y \in T : x <= y
  BY <1>4
<1> QED
  BY <1>5

\* Sequences over any set are sequences.
LEMMA SequenceOf ==
  ASSUME NEW S, NEW s \in Seq(S)
  PROVE  IsSequence(s)
<1>1. \A i \in 1..Len(s) : s[i] \in ToSet(s)
  BY DEF ToSet
<1> QED
  BY <1>1 DEF IsSequence

LEMMA SequenceFacts ==
  ASSUME NEW s, IsSequence(s)
  PROVE  Len(s) \in Nat /\ DOMAIN s = 1..Len(s)
BY DEF IsSequence

\* push_back on a sequence of anything.
LEMMA AppendFacts ==
  ASSUME NEW s, IsSequence(s), NEW x
  PROVE  /\ IsSequence(Append(s, x)) /\ Len(Append(s, x)) = Len(s) + 1
         /\ Append(s, x)[Len(s) + 1] = x /\ \A i \in 1..Len(s) : Append(s, x)[i] = s[i]
<1> DEFINE S == ToSet(s) \union {x}
<1>1. s \in Seq(S) /\ x \in S
  BY DEF IsSequence
<1> HIDE DEF S
<1>2. /\ Append(s, x) \in Seq(S) /\ Len(Append(s, x)) = Len(s) + 1
      /\ Append(s, x)[Len(s) + 1] = x /\ \A i \in 1..Len(s) : Append(s, x)[i] = s[i]
  BY <1>1, AppendProperties
<1> QED
  BY <1>2, SequenceOf

\* An element of a sequence is replaced.
Put(s, p, x) == [s EXCEPT ![p] = x]

LEMMA PutFacts ==
  ASSUME NEW s, IsSequence(s), NEW p \in 1..Len(s), NEW x
  PROVE  /\ IsSequence(Put(s, p, x)) /\ Len(Put(s, p, x)) = Len(s)
         /\ Put(s, p, x)[p] = x /\ \A i \in 1..Len(s) : i # p => Put(s, p, x)[i] = s[i]
<1> DEFINE S == ToSet(s) \union {x}
<1>1. s \in Seq(S) /\ x \in S
  BY DEF IsSequence
<1> HIDE DEF S
<1>2. Put(s, p, x) \in Seq(S) /\ Len(Put(s, p, x)) = Len(s)
  BY <1>1, ExceptSeq DEF Put
<1>3. IsSequence(Put(s, p, x))
  BY <1>2, SequenceOf
<1>4. Put(s, p, x)[p] = x /\ \A i \in 1..Len(s) : i # p => Put(s, p, x)[i] = s[i]
  BY <1>1 DEF Put
<1> QED
  BY <1>2, <1>3, <1>4

\* vs became ws when <<name, x>> took place p: that of its name, or a new one
\* at the end.
Placed(vs, ws, name, x, p) ==
  /\ Len(ws) = IF p <= Len(vs) THEN Len(vs) ELSE Len(vs) + 1
  /\ ws[p] = <<name, x>>
  /\ \A i \in 1..Len(vs) : i # p => ws[i] = vs[i]
  /\ p <= Len(vs) => vs[p][1] = name

\* What value_container::set does.
LEMMA AssignedFacts ==
  ASSUME NEW vs, IsSequence(vs), NEW name, NEW x
  PROVE  /\ IsSequence(Assigned(vs, name, x))
         /\ \E p \in 1..(Len(vs) + 1) : Placed(vs, Assigned(vs, name, x), name, x, p)
<1> DEFINE I == {i \in 1..Len(vs) : vs[i][1] = name}
           ws == Assigned(vs, name, x)
           n == Len(vs)
<1>0. n \in Nat
  BY SequenceFacts
<1>1. CASE I = {}
  <2>1. ws = Append(vs, <<name, x>>)
    BY <1>1 DEF Assigned, SelectInSeq
  <2>2. /\ IsSequence(ws) /\ Len(ws) = n + 1
        /\ ws[n + 1] = <<name, x>> /\ \A i \in 1..n : ws[i] = vs[i]
    BY <2>1, AppendFacts
  <2>3. n + 1 \in 1..(n + 1) /\ ~(n + 1 <= n)
    BY <1>0
  <2> HIDE DEF ws
  <2>4. Placed(vs, ws, name, x, n + 1)
    BY <2>2, <2>3 DEF Placed
  <2> QED
    BY <2>2, <2>3, <2>4 DEF ws
<1>2. CASE I # {}
  <2> DEFINE p == Min(I)
  <2>0. I \subseteq Nat
    BY <1>0
  <2>1. \E m \in I : \A y \in I : m <= y
    <3> HIDE DEF I
    <3> QED
      BY <1>2, <2>0, LeastNumber
  <2>2. p \in I
    BY <2>1 DEF Min
  <2>3. p \in 1..n /\ vs[p][1] = name /\ p # 0 /\ p <= n /\ p \in 1..(n + 1)
    BY <1>0, <2>2
  <2>4. ws = [vs EXCEPT ![p] = <<name, x>>]
    BY <1>2, <2>3 DEF Assigned, SelectInSeq
  <2> DEFINE e == <<name, x>>
  <2>6. ws = Put(vs, p, e)
    BY <2>4 DEF Put
  <2> HIDE DEF p, e, ws
  <2>7. /\ IsSequence(ws) /\ Len(ws) = n
        /\ ws[p] = e /\ \A i \in 1..n : i # p => ws[i] = vs[i]
    BY <2>3, <2>6, PutFacts
  <2> HIDE DEF n
  <2>8. Placed(vs, ws, name, x, p)
    BY <2>3, <2>7 DEF Placed, n, e
  <2> QED
    BY <2>3, <2>7, <2>8 DEF ws, n
<1> QED
  BY <1>1, <1>2

\* A container with other values.
LEMMA ValuesReplaced ==
  ASSUME NEW c, IsContainer(c), NEW vs, IsSequence(vs)
  PROVE  /\ IsContainer([c EXCEPT !.values = vs]) /\ [c EXCEPT !.values = vs].values = vs
         /\ \A f \in {"source", "target", "type"} : [c EXCEPT !.values = vs][f] = c[f]
<1> DEFINE d == [c EXCEPT !.values = vs]
<1>1. /\ DOMAIN d = {"source", "target", "type", "values"} /\ d = [f \in DOMAIN d |-> d[f]]
      /\ d.values = vs /\ \A f \in {"source", "target", "type"} : d[f] = c[f]
  BY DEF IsContainer
<1> HIDE DEF d
<1>2. IsContainer(d)
  BY <1>1 DEF IsContainer
<1> QED
  BY <1>1, <1>2 DEF d

LEMMA NewContainerFacts == IsContainer(NewContainer) /\ Unmarked(NewContainer) /\ NewContainer.values = <<>>
<1>1. /\ DOMAIN NewContainer = {"source", "target", "type", "values"}
      /\ NewContainer = [f \in DOMAIN NewContainer |-> NewContainer[f]]
      /\ NewContainer.values = <<>>
  BY DEF NewContainer
<1>2. IsSequence(<<>>) /\ Len(<<>>) = 0
  BY DEF IsSequence
<1>3. IsContainer(NewContainer)
  BY <1>1, <1>2 DEF IsContainer
<1>4. Unmarked(NewContainer)
  BY <1>1, <1>2, <1>3 DEF Unmarked
<1> QED
  BY <1>1, <1>3, <1>4

\* What a text is read back as is a container.
LEMMA TextIsContainer ==
  ASSUME NEW c, IsContainer(c)
  PROVE  IsContainer(TextOf(c))
<1> DEFINE Id(id) == IF c.type = NewContainer.type THEN "" ELSE id
           V(v) == IF v[2][1] = "bytes" THEN <<v[1], <<"bytes", "">>>> ELSE v
           vs == [i \in DOMAIN c.values |-> V(c.values[i])]
           d == TextOf(c)
<1>1. d = [c EXCEPT !.source = Id(@), !.target = Id(@), !.values = vs]
  BY DEF TextOf
<1>2. DOMAIN c.values = 1..Len(c.values) /\ Len(c.values) \in Nat
  BY SequenceFacts DEF IsContainer
<1> DEFINE S == {V(c.values[i]) : i \in 1..Len(c.values)}
<1>3. \A i \in 1..Len(c.values) : V(c.values[i]) \in S
  OBVIOUS
<1> HIDE DEF V, S, Id
<1>4. [i \in 1..Len(c.values) |-> V(c.values[i])] \in Seq(S)
  BY <1>2, <1>3
<1>5. IsSequence(vs)
  BY <1>2, <1>4, SequenceOf
<1> HIDE DEF vs, d
<1>6. DOMAIN d = {"source", "target", "type", "values"} /\ d = [f \in DOMAIN d |-> d[f]] /\ d.values = vs
  BY <1>1 DEF IsContainer
<1> QED
  BY <1>5, <1>6 DEF IsContainer, d

-----------------------------------------------------------------------------
(* How a container and the list of containers may change *)

\* What was true of container c stays true of what became of it, d.
MarksKept(c, d) == \A n \in Callbacks : <<n, Seen>> \in ToSet(c.values) => <<n, Seen>> \in ToSet(d.values)
Later(c, d) == MarksKept(c, d) /\ \A w : BuiltAs(c, w) => BuiltAs(d, w)

LEMMA SameIsLater ==
  ASSUME NEW c
  PROVE  Later(c, c)
BY DEF Later, MarksKept

\* A callback's mark takes none away, and goes behind what was asked for.
LEMMA MarkIsLater ==
  ASSUME NEW c, IsContainer(c), NEW cb \in Callbacks
  PROVE  LET d == [c EXCEPT !.values = Assigned(@, cb, Seen)]
         IN  IsContainer(d) /\ Later(c, d) /\ <<cb, Seen>> \in ToSet(d.values)
<1> DEFINE vs == c.values
           ws == Assigned(vs, cb, Seen)
           d == [c EXCEPT !.values = ws]
<1>1. IsSequence(vs)
  BY DEF IsContainer
<1>2. IsSequence(ws)
  BY <1>1, AssignedFacts
<1>0. PICK p \in 1..(Len(vs) + 1) : Placed(vs, ws, cb, Seen, p)
  BY <1>1, AssignedFacts
<1>3. /\ Len(ws) = IF p <= Len(vs) THEN Len(vs) ELSE Len(vs) + 1
      /\ ws[p] = <<cb, Seen>>
      /\ \A i \in 1..Len(vs) : i # p => ws[i] = vs[i]
      /\ p <= Len(vs) => vs[p][1] = cb
  BY <1>0 DEF Placed
<1> HIDE DEF ws
<1>4. /\ IsContainer(d) /\ d.values = ws
      /\ \A f \in {"source", "target", "type"} : d[f] = c[f]
  BY <1>2, ValuesReplaced
<1> HIDE DEF d
<1>5. /\ Len(vs) \in Nat /\ DOMAIN vs = 1..Len(vs) /\ Len(ws) \in Nat /\ DOMAIN ws = 1..Len(ws)
  BY <1>1, <1>2, SequenceFacts
<1>6. p \in DOMAIN ws /\ DOMAIN vs \subseteq DOMAIN ws
  BY <1>3, <1>5
<1>7. <<cb, Seen>> \in ToSet(ws)
  BY <1>3, <1>6 DEF ToSet
<1>8. MarksKept(c, d)
  <2> SUFFICES ASSUME NEW n \in Callbacks, <<n, Seen>> \in ToSet(vs) PROVE <<n, Seen>> \in ToSet(ws)
    BY <1>4 DEF MarksKept
  <2>1. PICK i \in DOMAIN vs : vs[i] = <<n, Seen>>
    BY DEF ToSet
  <2>2. CASE i # p
    BY <1>3, <1>5, <1>6, <2>1, <2>2 DEF ToSet
  <2>3. CASE i = p
    <3>1. vs[p][1] = cb
      BY <1>3, <1>5, <2>1, <2>3
    <3>2. n = cb
      BY <2>1, <2>3, <3>1
    <3> QED
      BY <1>7, <3>2
  <2> QED
    BY <2>2, <2>3
<1>9. ASSUME NEW w, BuiltAs(c, w) PROVE BuiltAs(d, w)
  <2> DEFINE k == Len(w.values)
  <2>1. /\ Unmarked(w) /\ IsContainer(w) /\ [c EXCEPT !.values = w.values] = w
        /\ k <= Len(vs) /\ \A i \in 1..k : w.values[i] = vs[i]
        /\ \A i \in (k + 1)..Len(vs) : vs[i][1] \in Callbacks
        /\ \A i \in 1..k : w.values[i][1] \notin Callbacks
    BY <1>9 DEF BuiltAs, Begins, Unmarked
  <2>2. k \in Nat
    BY <2>1, SequenceFacts DEF IsContainer
  <2>3. p > k
    <3> SUFFICES ASSUME p \in 1..k PROVE FALSE
      BY <1>3, <1>5, <2>2
    <3>1. p <= Len(vs)
      BY <1>5, <2>1, <2>2
    <3>2. vs[p][1] = cb /\ w.values[p] = vs[p] /\ w.values[p][1] \notin Callbacks
      BY <1>3, <2>1, <3>1
    <3> QED
      BY <3>2
  <2>4. \A i \in 1..k : w.values[i] = ws[i]
    <3> SUFFICES ASSUME NEW i \in 1..k PROVE w.values[i] = ws[i]
      OBVIOUS
    <3>1. i \in 1..Len(vs) /\ i # p
      BY <1>3, <1>5, <2>1, <2>2, <2>3
    <3> QED
      BY <1>3, <2>1, <3>1
  <2>5. \A i \in (k + 1)..Len(ws) : ws[i][1] \in Callbacks
    <3> SUFFICES ASSUME NEW i \in (k + 1)..Len(ws) PROVE ws[i][1] \in Callbacks
      OBVIOUS
    <3>1. CASE i = p
      BY <1>3, <3>1
    <3>2. CASE i # p
      <4>1. i \in (k + 1)..Len(vs) /\ i \in 1..Len(vs)
        BY <1>3, <1>5, <2>2, <3>2
      <4> QED
        BY <1>3, <2>1, <3>2, <4>1
    <3> QED
      BY <3>1, <3>2
  <2>6. k <= Len(ws)
    BY <1>3, <1>5, <2>1, <2>2
  <2>7. [d EXCEPT !.values = w.values] = w
    <3>1. [d EXCEPT !.values = w.values] = [c EXCEPT !.values = w.values]
      BY <1>4 DEF IsContainer
    <3> QED
      BY <2>1, <3>1
  <2> QED
    BY <1>4, <2>1, <2>4, <2>5, <2>6, <2>7 DEF BuiltAs, Begins
<1> QED
  BY <1>4, <1>7, <1>8, <1>9 DEF Later, d, ws

\* The list of containers grows, and only the builder's own changes otherwise.
Grown(os, ps, own) ==
  /\ Len(os) \in Nat /\ Len(ps) \in Nat /\ Len(os) <= Len(ps)
  /\ \A i \in 1..Len(os) : i # own => Later(os[i], ps[i])

LEMMA MarksStay ==
  ASSUME NEW os, NEW ps, NEW own, NEW own2, Grown(os, ps, own), own2 = own \/ own2 = Len(os) + 1,
         NEW r, r.ran \in Seq(Callbacks), HasMarks(r, os, own)
  PROVE  HasMarks(r, ps, own2)
<1>1. r.object \in 1..Len(os) /\ r.object # own /\ Len(os) \in Nat /\ Len(ps) \in Nat /\ Len(os) <= Len(ps)
  BY DEF HasMarks, Grown
<1>2. r.object \in 1..Len(ps) /\ r.object # own2
  BY <1>1
<1>3. MarksKept(os[r.object], ps[r.object])
  BY <1>1 DEF Grown, Later
<1>4. \A i \in DOMAIN r.ran : r.ran[i] \in Callbacks
  OBVIOUS
<1> QED
  BY <1>2, <1>3, <1>4 DEF HasMarks, MarksKept

LEMMA BuiltStays ==
  ASSUME NEW os, NEW ps, NEW own, NEW own2, Grown(os, ps, own), own2 = own \/ own2 = Len(os) + 1,
         NEW b, b.object \in 1..Len(os), b.object # own, BuiltAs(os[b.object], b.wants)
  PROVE  b.object \in 1..Len(ps) /\ b.object # own2 /\ BuiltAs(ps[b.object], b.wants)
<1>1. Len(os) \in Nat /\ Len(ps) \in Nat /\ Len(os) <= Len(ps)
  BY DEF Grown
<1>2. b.object \in 1..Len(ps) /\ b.object # own2
  BY <1>1
<1> QED
  BY <1>2 DEF Grown, Later

-----------------------------------------------------------------------------
(* Parts of the invariant under a step *)

LEMMA ObjectsAppended ==
  ASSUME ObjectsSound, NEW x, IsContainer(x), objects' = Append(objects, x)
  PROVE  /\ Grown(objects, objects', builder.object)
         /\ IsSequence(objects') /\ \A i \in 1..Len(objects') : IsContainer(objects'[i])
         /\ Len(objects') = Len(objects) + 1 /\ objects'[Len(objects')] = x
         /\ \A i \in 1..Len(objects) : objects'[i] = objects[i] /\ i \in 1..Len(objects')
<1>1. IsSequence(objects) /\ Len(objects) \in Nat
  BY SequenceFacts DEF ObjectsSound
<1>2. /\ IsSequence(objects') /\ Len(objects') = Len(objects) + 1
      /\ objects'[Len(objects) + 1] = x /\ \A i \in 1..Len(objects) : objects'[i] = objects[i]
  BY <1>1, AppendFacts
<1>3. \A i \in 1..Len(objects') : i \in 1..Len(objects) \/ i = Len(objects) + 1
  BY <1>1, <1>2
<1>4. \A i \in 1..Len(objects') : IsContainer(objects'[i])
  BY <1>2, <1>3 DEF ObjectsSound
<1>5. Grown(objects, objects', builder.object)
  BY <1>1, <1>2, SameIsLater DEF Grown
<1>6. \A i \in 1..Len(objects) : i \in 1..Len(objects')
  BY <1>1, <1>2
<1> QED
  BY <1>2, <1>4, <1>5, <1>6

LEMMA ObjectChanged ==
  ASSUME ObjectsSound, NEW o \in 1..Len(objects), NEW x, IsContainer(x),
         o = builder.object \/ Later(objects[o], x), objects' = Put(objects, o, x)
  PROVE  /\ Grown(objects, objects', builder.object)
         /\ IsSequence(objects') /\ \A i \in 1..Len(objects') : IsContainer(objects'[i])
         /\ Len(objects') = Len(objects) /\ objects'[o] = x
         /\ \A i \in 1..Len(objects) : i # o => objects'[i] = objects[i]
<1>1. IsSequence(objects) /\ Len(objects) \in Nat
  BY SequenceFacts DEF ObjectsSound
<1>2. /\ IsSequence(objects') /\ Len(objects') = Len(objects)
      /\ objects'[o] = x /\ \A i \in 1..Len(objects) : i # o => objects'[i] = objects[i]
  BY <1>1, PutFacts
<1>3. \A i \in 1..Len(objects') : IsContainer(objects'[i])
  BY <1>2 DEF ObjectsSound
<1>4. \A i \in 1..Len(objects) : i # builder.object => Later(objects[i], objects'[i])
  BY <1>2, SameIsLater
<1>5. Grown(objects, objects', builder.object)
  BY <1>1, <1>2, <1>4 DEF Grown
<1> QED
  BY <1>2, <1>3, <1>5

LEMMA ObjectsSame ==
  ASSUME ObjectsSound, objects' = objects
  PROVE  Grown(objects, objects', builder.object)
<1>1. IsSequence(objects) /\ Len(objects) \in Nat
  BY SequenceFacts DEF ObjectsSound
<1> QED
  BY <1>1, SameIsLater DEF Grown

LEMMA MarksCarry ==
  ASSUME MessagingTypes, MarksSound, Grown(objects, objects', builder.object),
         builder'.object = builder.object \/ builder'.object = Len(objects) + 1,
         \A s \in Callers : caller'[s].at # "idle" =>
           caller'[s] = caller[s] \/ HasMarks(caller'[s], objects', builder'.object),
         \A e \in served' : e \in served \/ HasMarks(e, objects', builder'.object)
  PROVE  MarksSound'
<1>1. ASSUME NEW s \in Callers, caller'[s].at # "idle"
      PROVE  HasMarks(caller'[s], objects', builder'.object)
  <2>1. CASE caller'[s] = caller[s]
    <3>1. HasMarks(caller[s], objects, builder.object) /\ caller[s].ran \in Seq(Callbacks)
      BY <1>1, <2>1 DEF MarksSound, MessagingTypes, IsCall
    <3> QED
      BY <2>1, <3>1, MarksStay
  <2> QED
    BY <1>1, <2>1
<1>2. ASSUME NEW e \in served'
      PROVE  HasMarks(e, objects', builder'.object)
  <2>1. CASE e \in served
    <3>1. HasMarks(e, objects, builder.object) /\ e.ran \in Seq(Callbacks)
      BY <2>1 DEF MarksSound, MessagingTypes, IsCall
    <3> QED
      BY <3>1, MarksStay
  <2> QED
    BY <1>2, <2>1
<1> QED
  BY <1>1, <1>2 DEF MarksSound

LEMMA BuiltCarry ==
  ASSUME BuiltSound, Grown(objects, objects', builder.object), built' = built,
         builder'.object = builder.object
  PROVE  BuiltSound'
<1>1. ASSUME NEW b \in built
      PROVE  b.object \in 1..Len(objects') /\ b.object # builder'.object /\ BuiltAs(objects'[b.object], b.wants)
  BY <1>1, BuiltStays DEF BuiltSound
<1> QED
  BY <1>1 DEF BuiltSound

LEMMA ListsCarry ==
  ASSUME ListsSound, callbacks' = callbacks, asked' = asked,
         \A s \in Callers : caller'[s].at # "idle" =>
           caller'[s] = caller[s] \/ CallLists(caller'[s], callbacks, asked.since),
         \A e \in served' : e \in served \/ DoneLists(e, callbacks, asked.since)
  PROVE  ListsSound'
<1>1. ASSUME NEW s \in Callers, caller'[s].at # "idle"
      PROVE  CallLists(caller'[s], callbacks, asked.since)
  BY <1>1 DEF ListsSound
<1>2. ASSUME NEW e \in served' PROVE DoneLists(e, callbacks, asked.since)
  BY <1>2 DEF ListsSound
<1> QED
  BY <1>1, <1>2 DEF ListsSound

\* A thread's call changes and no other does.
LEMMA CallerChanged ==
  ASSUME MessagingTypes, NEW t \in Callers, NEW r, IsCall(r), caller' = [caller EXCEPT ![t] = r]
  PROVE  /\ DOMAIN caller' = Callers /\ caller' = [s \in Callers |-> caller'[s]]
         /\ caller'[t] = r /\ \A s \in Callers : s # t => caller'[s] = caller[s]
         /\ \A s \in Callers : IsCall(caller'[s])
<1>1. /\ DOMAIN caller' = Callers /\ caller' = [s \in Callers |-> caller'[s]]
      /\ caller'[t] = r /\ \A s \in Callers : s # t => caller'[s] = caller[s]
  BY DEF MessagingTypes
<1>2. \A s \in Callers : IsCall(caller'[s])
  BY <1>1 DEF MessagingTypes
<1> QED
  BY <1>1, <1>2

LEMMA NotCallingFacts ==
  IsCall(NotCalling) /\ NotCalling.at = "idle" /\ NotCalling.ran = <<>>
<1>1. /\ DOMAIN NotCalling = {"at", "kind", "object", "text", "ran", "before", "since"}
      /\ NotCalling = [f \in DOMAIN NotCalling |-> NotCalling[f]]
      /\ NotCalling.at = "idle" /\ NotCalling.kind = "creation" /\ NotCalling.ran = <<>>
      /\ NotCalling.before = <<>> /\ NotCalling.since = 0 /\ NotCalling.text = NewContainer
  BY DEF NotCalling
<1>2. <<>> \in Seq(Callbacks)
  OBVIOUS
<1> QED
  BY <1>1, <1>2, NewContainerFacts DEF IsCall, Kinds

\* A call begins: its thread waits for the lock.
LEMMA EnterFacts ==
  ASSUME MessagingTypes, NEW t \in Callers, NEW kind \in Kinds, NEW o, Enter(t, kind, o), IsContainer(objects'[o])
  PROVE  \E r : /\ IsCall(r) /\ caller' = [caller EXCEPT ![t] = r]
                /\ r.at = "locking" /\ r.object = o /\ r.ran = <<>>
                /\ CallLists(r, callbacks, asked.since)
<1> DEFINE x == TextOf(objects'[o])
           bf == callbacks[kind]
           si == asked.since
           r == [NotCalling EXCEPT !.at = "locking", !.kind = kind, !.object = o, !.text = x,
                                   !.before = bf, !.since = si]
<1>1. IsContainer(x)
  BY TextIsContainer
<1>2. bf \in Seq(Callbacks) /\ si \in Nat /\ asked.lists = callbacks
  BY DEF MessagingTypes
<1>3. caller' = [caller EXCEPT ![t] = r]
  BY <1>2 DEF Enter
<1> HIDE DEF x, bf, si
<1>4. /\ DOMAIN r = {"at", "kind", "object", "text", "ran", "before", "since"} /\ r = [f \in DOMAIN r |-> r[f]]
      /\ r.at = "locking" /\ r.kind = kind /\ r.object = o /\ r.text = x
      /\ r.ran = <<>> /\ r.before = bf /\ r.since = si
  BY DEF NotCalling
<1> HIDE DEF r
<1>5. IsCall(r)
  BY <1>1, <1>2, <1>4 DEF IsCall
<1>6. CallLists(r, callbacks, asked.since)
  <2>1. Begins(bf, bf) /\ si <= si
    BY <1>2 DEF Begins
  <2> QED
    BY <1>4, <2>1 DEF CallLists, bf, si
<1> QED
  BY <1>3, <1>4, <1>5, <1>6

-----------------------------------------------------------------------------
(* The operations *)

LEMMA CreateInv ==
  ASSUME MessagingInv, NEW t \in Callers, NEW type, CreateOptimizedContainer(t, type)
  PROVE  MessagingInv'
<1> DEFINE x == [NewContainer EXCEPT !.type = type]
<1>0. MessagingTypes /\ OneHolder /\ ListsSound /\ MarksSound /\ ObjectsSound /\ BuiltSound /\ Counted
  BY DEF MessagingInv
<1>1. /\ Outside(t) /\ objects' = Append(objects, x)
      /\ counters' = [counters EXCEPT !.created = @ + 1]
      /\ Enter(t, "creation", Len(objects'))
      /\ UNCHANGED <<callbacks, holder, builder, built, asked, served, forgotten>>
  BY DEF CreateOptimizedContainer
<1>2. IsContainer(x)
  <2>1. DOMAIN x = {"source", "target", "type", "values"} /\ x = [f \in DOMAIN x |-> x[f]] /\ x.values = <<>>
    BY DEF NewContainer
  <2>2. IsSequence(<<>>)
    BY NewContainerFacts DEF IsContainer
  <2> QED
    BY <2>1, <2>2 DEF IsContainer
<1> HIDE DEF x
<1>3. /\ Grown(objects, objects', builder.object)
      /\ IsSequence(objects') /\ \A i \in 1..Len(objects') : IsContainer(objects'[i])
      /\ Len(objects') = Len(objects) + 1 /\ objects'[Len(objects')] = x
      /\ \A i \in 1..Len(objects) : objects'[i] = objects[i] /\ i \in 1..Len(objects')
  BY <1>0, <1>1, <1>2, ObjectsAppended
<1>4. PICK r : /\ IsCall(r) /\ caller' = [caller EXCEPT ![t] = r]
               /\ r.at = "locking" /\ r.object = Len(objects') /\ r.ran = <<>>
               /\ CallLists(r, callbacks, asked.since)
  <2>1. IsContainer(objects'[Len(objects')]) /\ "creation" \in Kinds
    BY <1>2, <1>3 DEF Kinds
  <2> QED
    BY <1>0, <1>1, <2>1, EnterFacts
<1>5. /\ DOMAIN caller' = Callers /\ caller' = [s \in Callers |-> caller'[s]]
      /\ caller'[t] = r /\ \A s \in Callers : s # t => caller'[s] = caller[s]
      /\ \A s \in Callers : IsCall(caller'[s])
  BY <1>0, <1>4, CallerChanged
<1>6. Len(objects) \in Nat /\ builder.object \in 1..Len(objects)
  BY <1>0, SequenceFacts DEF ObjectsSound
<1>7. HasMarks(r, objects', builder'.object)
  <2>1. Len(objects') \in 1..Len(objects') /\ Len(objects') # builder.object
    BY <1>3, <1>6
  <2> QED
    BY <1>1, <1>4, <2>1 DEF HasMarks
<1>8. MessagingTypes'
  <2>1. counters' \in [created : Nat, serialized : Nat, deserialized : Nat]
    BY <1>0, <1>1 DEF MessagingTypes
  <2> QED
    BY <1>0, <1>1, <1>5, <2>1 DEF MessagingTypes
<1>9. OneHolder'
  BY <1>0, <1>1, <1>4, <1>5 DEF OneHolder
<1>10. ListsSound'
  BY <1>0, <1>1, <1>4, <1>5, ListsCarry
<1>11. MarksSound'
  BY <1>0, <1>1, <1>3, <1>5, <1>7, MarksCarry
<1>12. ObjectsSound'
  BY <1>0, <1>1, <1>3 DEF ObjectsSound
<1>13. BuiltSound'
  BY <1>0, <1>1, <1>3, BuiltCarry
<1>14. Counted'
  <2>1. counters'.created = counters.created + 1 /\ counters'.deserialized = counters.deserialized
    BY <1>0, <1>1 DEF MessagingTypes
  <2>2. Cardinality(built) \in Nat /\ counters.created \in Nat /\ counters.deserialized \in Nat /\ forgotten \in Nat
    BY <1>0, FS_CardinalityType DEF BuiltSound, MessagingTypes
  <2> QED
    BY <1>0, <1>1, <1>3, <2>1, <2>2 DEF Counted
<1> QED
  BY <1>8, <1>9, <1>10, <1>11, <1>12, <1>13, <1>14 DEF MessagingInv

\* Where containers that callers know of are.
LEMMA KnownFacts ==
  ASSUME MessagingInv, NEW o \in Known
  PROVE  o \in 1..Len(objects) /\ o # builder.object
BY DEF MessagingInv, Known, MarksSound, HasMarks, BuiltSound

LEMMA SerializeInv ==
  ASSUME MessagingInv, NEW t \in Callers, NEW o \in Known, SerializeForMessaging(t, o)
  PROVE  MessagingInv'
<1>0. MessagingTypes /\ OneHolder /\ ListsSound /\ MarksSound /\ ObjectsSound /\ BuiltSound /\ Counted
  BY DEF MessagingInv
<1>1. /\ Outside(t) /\ objects' = objects
      /\ counters' = [counters EXCEPT !.serialized = @ + 1]
      /\ Enter(t, "serialization", o)
      /\ UNCHANGED <<callbacks, holder, builder, built, asked, served, forgotten>>
  BY DEF SerializeForMessaging
<1>2. o \in 1..Len(objects) /\ o # builder.object /\ IsContainer(objects[o])
  BY <1>0, KnownFacts DEF ObjectsSound
<1>3. Grown(objects, objects', builder.object)
  BY <1>0, <1>1, ObjectsSame
<1>4. PICK r : /\ IsCall(r) /\ caller' = [caller EXCEPT ![t] = r]
               /\ r.at = "locking" /\ r.object = o /\ r.ran = <<>>
               /\ CallLists(r, callbacks, asked.since)
  <2>1. IsContainer(objects'[o]) /\ "serialization" \in Kinds
    BY <1>1, <1>2 DEF Kinds
  <2> QED
    BY <1>0, <1>1, <2>1, EnterFacts
<1>5. /\ DOMAIN caller' = Callers /\ caller' = [s \in Callers |-> caller'[s]]
      /\ caller'[t] = r /\ \A s \in Callers : s # t => caller'[s] = caller[s]
      /\ \A s \in Callers : IsCall(caller'[s])
  BY <1>0, <1>4, CallerChanged
<1>6. HasMarks(r, objects', builder'.object)
  BY <1>1, <1>2, <1>4 DEF HasMarks
<1>7. /\ counters' \in [created : Nat, serialized : Nat, deserialized : Nat]
      /\ counters'.created = counters.created /\ counters'.deserialized = counters.deserialized
  BY <1>0, <1>1 DEF MessagingTypes
<1>8. MessagingTypes'
  BY <1>0, <1>1, <1>5, <1>7 DEF MessagingTypes
<1>9. OneHolder'
  BY <1>0, <1>1, <1>4, <1>5 DEF OneHolder
<1>10. ListsSound'
  BY <1>0, <1>1, <1>4, <1>5, ListsCarry
<1>11. MarksSound'
  BY <1>0, <1>1, <1>3, <1>5, <1>6, MarksCarry
<1>12. ObjectsSound'
  BY <1>0, <1>1 DEF ObjectsSound
<1>13. BuiltSound'
  BY <1>0, <1>1, <1>3, BuiltCarry
<1>14. Counted'
  BY <1>0, <1>1, <1>7 DEF Counted
<1> QED
  BY <1>8, <1>9, <1>10, <1>11, <1>12, <1>13, <1>14 DEF MessagingInv

LEMMA DeserializeInv ==
  ASSUME MessagingInv, NEW t \in Callers, NEW text \in Texts, DeserializeFromMessaging(t, text)
  PROVE  MessagingInv'
<1>0. MessagingTypes /\ OneHolder /\ ListsSound /\ MarksSound /\ ObjectsSound /\ BuiltSound /\ Counted
  BY DEF MessagingInv
<1>1. /\ objects' = Append(objects, text)
      /\ counters' = [counters EXCEPT !.deserialized = @ + 1]
      /\ UNCHANGED <<callbacks, holder, caller, builder, built, asked, served, forgotten>>
  BY DEF DeserializeFromMessaging
<1>2. IsContainer(text)
  BY <1>0 DEF Texts, MessagingTypes, IsCall
<1>3. /\ Grown(objects, objects', builder.object)
      /\ IsSequence(objects') /\ \A i \in 1..Len(objects') : IsContainer(objects'[i])
      /\ Len(objects') = Len(objects) + 1
      /\ \A i \in 1..Len(objects) : objects'[i] = objects[i] /\ i \in 1..Len(objects')
  BY <1>0, <1>1, <1>2, ObjectsAppended
<1>4. /\ counters' \in [created : Nat, serialized : Nat, deserialized : Nat]
      /\ counters'.created = counters.created /\ counters'.deserialized = counters.deserialized + 1
  BY <1>0, <1>1 DEF MessagingTypes
<1>5. MessagingTypes' /\ OneHolder' /\ ListsSound'
  BY <1>0, <1>1, <1>4 DEF MessagingTypes, OneHolder, ListsSound
<1>6. MarksSound'
  BY <1>0, <1>1, <1>3, MarksCarry
<1>7. ObjectsSound'
  BY <1>0, <1>1, <1>3 DEF ObjectsSound
<1>8. BuiltSound'
  BY <1>0, <1>1, <1>3, BuiltCarry
<1>9. Counted'
  <2>1. Cardinality(built) \in Nat /\ counters.created \in Nat /\ counters.deserialized \in Nat /\ forgotten \in Nat
    BY <1>0, FS_CardinalityType DEF BuiltSound, MessagingTypes
  <2> QED
    BY <1>0, <1>1, <1>3, <1>4, <2>1 DEF Counted
<1> QED
  BY <1>5, <1>6, <1>7, <1>8, <1>9 DEF MessagingInv

\* What does not touch containers, builder and counters keeps what is said of
\* them.
LEMMA ObjectsApart ==
  ASSUME MessagingInv, UNCHANGED <<objects, builder, built, counters, forgotten>>
  PROVE  ObjectsSound' /\ BuiltSound' /\ Counted' /\ Grown(objects, objects', builder.object)
<1>1. ObjectsSound /\ BuiltSound /\ Counted
  BY DEF MessagingInv
<1> QED
  BY <1>1, ObjectsSame DEF ObjectsSound, BuiltSound, Counted

LEMMA LockInv ==
  ASSUME MessagingInv, NEW t \in Callers, LockCallbacks(t)
  PROVE  MessagingInv'
<1> DEFINE r == [caller[t] EXCEPT !.at = "calling"]
<1>0. MessagingTypes /\ OneHolder /\ ListsSound /\ MarksSound /\ ObjectsSound
  BY DEF MessagingInv
<1>1. /\ caller[t].at = "locking" /\ holder = {} /\ holder' = {t}
      /\ caller' = [caller EXCEPT ![t] = r]
      /\ UNCHANGED <<callbacks, counters, objects, builder, built, used, asked, served, forgotten>>
  BY <1>0 DEF LockCallbacks, MessagingTypes
<1>2. /\ IsCall(caller[t]) /\ CallLists(caller[t], callbacks, asked.since)
      /\ HasMarks(caller[t], objects, builder.object) /\ callbacks[caller[t].kind] \in Seq(Callbacks)
  BY <1>0, <1>1 DEF MessagingTypes, ListsSound, MarksSound, IsCall
<1>3. /\ DOMAIN r = {"at", "kind", "object", "text", "ran", "before", "since"} /\ r = [f \in DOMAIN r |-> r[f]]
      /\ r.at = "calling" /\ r.kind = caller[t].kind /\ r.object = caller[t].object
      /\ r.text = caller[t].text /\ r.ran = caller[t].ran /\ r.before = caller[t].before
      /\ r.since = caller[t].since
  BY <1>2 DEF IsCall
<1> HIDE DEF r
<1>4. IsCall(r)
  BY <1>2, <1>3 DEF IsCall
<1>5. CallLists(r, callbacks, asked.since)
  <2>1. caller[t].ran = <<>>
    BY <1>1, <1>2 DEF CallLists
  <2>2. Begins(<<>>, callbacks[caller[t].kind])
    BY <1>2 DEF Begins
  <2> QED
    BY <1>2, <1>3, <2>1, <2>2 DEF CallLists
<1>6. HasMarks(r, objects', builder'.object)
  BY <1>1, <1>2, <1>3 DEF HasMarks
<1>7. /\ DOMAIN caller' = Callers /\ caller' = [s \in Callers |-> caller'[s]]
      /\ caller'[t] = r /\ \A s \in Callers : s # t => caller'[s] = caller[s]
      /\ \A s \in Callers : IsCall(caller'[s])
  BY <1>0, <1>1, <1>4, CallerChanged
<1>8. ObjectsSound' /\ BuiltSound' /\ Counted' /\ Grown(objects, objects', builder.object)
  BY <1>1, ObjectsApart
<1>9. MessagingTypes'
  BY <1>0, <1>1, <1>7 DEF MessagingTypes
<1>10. OneHolder'
  <2>1. \A s \in Callers : s # t => caller'[s].at # "calling"
    BY <1>0, <1>1, <1>7 DEF OneHolder
  <2> QED
    BY <1>1, <2>1 DEF OneHolder
<1>11. ListsSound'
  BY <1>0, <1>1, <1>5, <1>7, ListsCarry
<1>12. MarksSound'
  BY <1>0, <1>1, <1>6, <1>7, <1>8, MarksCarry
<1> QED
  BY <1>8, <1>9, <1>10, <1>11, <1>12 DEF MessagingInv

\* The call of thread t ends.
LEMMA CallEnds ==
  ASSUME MessagingInv, NEW t \in Callers, caller[t].at = "calling",
         caller' = [caller EXCEPT ![t] = NotCalling], holder' = {},
         UNCHANGED <<callbacks, counters, objects, builder, built, asked, forgotten>>,
         \A e \in served' : e \in served \/ /\ IsCall(e) /\ DoneLists(e, callbacks, asked.since)
                                            /\ HasMarks(e, objects, builder.object)
  PROVE  MessagingInv'
<1>0. MessagingTypes /\ OneHolder /\ ListsSound /\ MarksSound /\ ObjectsSound
  BY DEF MessagingInv
<1>1. /\ DOMAIN caller' = Callers /\ caller' = [s \in Callers |-> caller'[s]]
      /\ caller'[t] = NotCalling /\ \A s \in Callers : s # t => caller'[s] = caller[s]
      /\ \A s \in Callers : IsCall(caller'[s])
  BY <1>0, NotCallingFacts, CallerChanged
<1>2. ObjectsSound' /\ BuiltSound' /\ Counted' /\ Grown(objects, objects', builder.object)
  BY ObjectsApart
<1>3. MessagingTypes'
  BY <1>0, <1>1 DEF MessagingTypes
<1>4. OneHolder'
  <2>1. \A s \in Callers : s # t => caller[s].at # "calling"
    BY <1>0 DEF OneHolder
  <2>2. \A s \in Callers : caller'[s].at # "calling"
    BY <1>1, <2>1, NotCallingFacts
  <2> QED
    BY <2>2 DEF OneHolder
<1>5. ListsSound'
  BY <1>0, <1>1, NotCallingFacts, ListsCarry
<1>6. MarksSound'
  BY <1>0, <1>1, <1>2, NotCallingFacts, MarksCarry
<1> QED
  BY <1>2, <1>3, <1>4, <1>5, <1>6 DEF MessagingInv

LEMMA RunInv ==
  ASSUME MessagingInv, NEW t \in Callers, RunCallback(t)
  PROVE  MessagingInv'
<1> DEFINE list == callbacks[caller[t].kind]
           n == Len(caller[t].ran)
           cb == list[n + 1]
           o == caller[t].object
           x == [objects[o] EXCEPT !.values = Assigned(@, cb, Seen)]
           ran == Append(caller[t].ran, cb)
           r == [caller[t] EXCEPT !.ran = ran]
<1>0. MessagingTypes /\ OneHolder /\ ListsSound /\ MarksSound /\ ObjectsSound /\ BuiltSound /\ Counted
  BY DEF MessagingInv
<1>1. /\ caller[t].at = "calling" /\ n < Len(list)
      /\ UNCHANGED <<callbacks, counters, builder, built, used, asked, served, forgotten>>
  BY DEF RunCallback
<1>2. /\ IsCall(caller[t]) /\ CallLists(caller[t], callbacks, asked.since)
      /\ HasMarks(caller[t], objects, builder.object) /\ list \in Seq(Callbacks)
  BY <1>0, <1>1 DEF MessagingTypes, ListsSound, MarksSound, IsCall
<1>3. CASE cb \in Throwing
  <2>1. caller' = [caller EXCEPT ![t] = NotCalling] /\ holder' = {} /\ objects' = objects
    BY <1>3 DEF RunCallback
  <2> QED
    BY <1>1, <2>1, CallEnds
<1>4. CASE cb \notin Throwing
  <2>1. /\ caller' = [caller EXCEPT ![t].ran = Append(@, cb)]
        /\ objects' = [objects EXCEPT ![o].values = Assigned(@, cb, Seen)]
        /\ holder' = holder
    BY <1>4 DEF RunCallback
  <2>2. n \in Nat /\ caller[t].ran \in Seq(Callbacks) /\ cb \in Callbacks
    BY <1>1, <1>2 DEF IsCall
  <2>3. o \in 1..Len(objects) /\ o # builder.object /\ IsContainer(objects[o]) /\ Len(objects) \in Nat
        /\ DOMAIN objects = 1..Len(objects)
    BY <1>0, <1>2, SequenceFacts DEF HasMarks, ObjectsSound
  <2>4. caller' = [caller EXCEPT ![t] = r] /\ objects' = Put(objects, o, x)
    BY <1>0, <2>1, <2>3 DEF MessagingTypes, Put
  <2> HIDE DEF cb
  <2>5. IsContainer(x) /\ Later(objects[o], x) /\ <<cb, Seen>> \in ToSet(x.values)
    BY <2>2, <2>3, MarkIsLater
  <2>6. /\ ran \in Seq(Callbacks) /\ Len(ran) = n + 1 /\ ran[n + 1] = cb
        /\ \A i \in 1..n : ran[i] = caller[t].ran[i]
    BY <2>2
  <2> HIDE DEF x, ran
  <2>7. /\ DOMAIN r = {"at", "kind", "object", "text", "ran", "before", "since"} /\ r = [f \in DOMAIN r |-> r[f]]
        /\ r.at = "calling" /\ r.kind = caller[t].kind /\ r.object = o
        /\ r.text = caller[t].text /\ r.ran = ran /\ r.before = caller[t].before
        /\ r.since = caller[t].since
    BY <1>1, <1>2 DEF IsCall
  <2> HIDE DEF r
  <2>8. IsCall(r)
    BY <1>2, <2>6, <2>7 DEF IsCall
  <2>9. CallLists(r, callbacks, asked.since)
    <3>1. Begins(caller[t].ran, list)
      BY <1>1, <1>2 DEF CallLists
    <3>2. \A i \in 1..(n + 1) : ran[i] = list[i]
      <4>1. \A i \in 1..(n + 1) : i \in 1..n \/ i = n + 1
        BY <2>2
      <4>2. cb = list[n + 1]
        BY DEF cb
      <4> QED
        BY <2>6, <3>1, <4>1, <4>2 DEF Begins
    <3>3. n + 1 <= Len(list)
      BY <1>1, <1>2, <2>2
    <3>4. Begins(ran, list)
      BY <2>6, <3>2, <3>3 DEF Begins
    <3> QED
      BY <1>2, <2>7, <3>4 DEF CallLists
  <2>10. /\ Grown(objects, objects', builder.object)
         /\ IsSequence(objects') /\ \A i \in 1..Len(objects') : IsContainer(objects'[i])
         /\ Len(objects') = Len(objects) /\ objects'[o] = x
         /\ \A i \in 1..Len(objects) : i # o => objects'[i] = objects[i]
    BY <1>0, <2>3, <2>4, <2>5, ObjectChanged
  <2>11. HasMarks(r, objects', builder'.object)
    <3>1. \A i \in DOMAIN caller[t].ran : <<caller[t].ran[i], Seen>> \in ToSet(x.values)
      <4>1. \A i \in DOMAIN caller[t].ran : caller[t].ran[i] \in Callbacks
        BY <2>2
      <4>2. \A i \in DOMAIN caller[t].ran : <<caller[t].ran[i], Seen>> \in ToSet(objects[o].values)
        BY <1>2 DEF HasMarks
      <4> QED
        BY <2>5, <4>1, <4>2 DEF Later, MarksKept
    <3>2. \A i \in DOMAIN ran : <<ran[i], Seen>> \in ToSet(x.values)
      <4>1. \A i \in DOMAIN ran : i \in DOMAIN caller[t].ran \/ i = n + 1
        BY <2>2, <2>6
      <4>2. DOMAIN caller[t].ran = 1..n
        BY <2>2
      <4> QED
        BY <2>5, <2>6, <3>1, <4>1, <4>2
    <3> QED
      BY <1>1, <2>3, <2>7, <2>10, <3>2 DEF HasMarks
  <2>12. /\ DOMAIN caller' = Callers /\ caller' = [s \in Callers |-> caller'[s]]
         /\ caller'[t] = r /\ \A s \in Callers : s # t => caller'[s] = caller[s]
         /\ \A s \in Callers : IsCall(caller'[s])
    BY <1>0, <2>4, <2>8, CallerChanged
  <2>13. MessagingTypes'
    BY <1>0, <1>1, <2>12 DEF MessagingTypes
  <2>14. OneHolder'
    BY <1>0, <1>1, <2>1, <2>12 DEF OneHolder
  <2>15. ListsSound'
    BY <1>0, <1>1, <2>9, <2>12, ListsCarry
  <2>16. MarksSound'
    BY <1>0, <1>1, <2>10, <2>11, <2>12, MarksCarry
  <2>17. ObjectsSound'
    BY <1>0, <1>1, <2>3, <2>10 DEF ObjectsSound
  <2>18. BuiltSound'
    BY <1>0, <1>1, <2>10, BuiltCarry
  <2>19. Counted'
    BY <1>0, <1>1, <2>10 DEF Counted
  <2> QED
    BY <2>13, <2>14, <2>15, <2>16, <2>17, <2>18, <2>19 DEF MessagingInv
<1> QED
  BY <1>3, <1>4

LEMMA DoneInv ==
  ASSUME MessagingInv, NEW t \in Callers, CallbacksDone(t)
  PROVE  MessagingInv'
<1> DEFINE e == [caller[t] EXCEPT !.at = "served"]
           list == callbacks[caller[t].kind]
<1>0. MessagingTypes /\ ListsSound /\ MarksSound
  BY DEF MessagingInv
<1>1. /\ caller[t].at = "calling" /\ Len(caller[t].ran) = Len(list)
      /\ served' = served \union {e} /\ holder' = {} /\ caller' = [caller EXCEPT ![t] = NotCalling]
      /\ UNCHANGED <<callbacks, counters, objects, builder, built, used, asked, forgotten>>
  BY DEF CallbacksDone
<1>2. /\ IsCall(caller[t]) /\ CallLists(caller[t], callbacks, asked.since)
      /\ HasMarks(caller[t], objects, builder.object) /\ list \in Seq(Callbacks)
  BY <1>0, <1>1 DEF MessagingTypes, ListsSound, MarksSound, IsCall
<1>3. /\ DOMAIN e = {"at", "kind", "object", "text", "ran", "before", "since"} /\ e = [f \in DOMAIN e |-> e[f]]
      /\ e.at = "served" /\ e.kind = caller[t].kind /\ e.object = caller[t].object
      /\ e.text = caller[t].text /\ e.ran = caller[t].ran /\ e.before = caller[t].before
      /\ e.since = caller[t].since
  BY <1>2 DEF IsCall
<1> HIDE DEF e
<1>4. IsCall(e)
  BY <1>2, <1>3 DEF IsCall
<1>5. HasMarks(e, objects, builder.object)
  BY <1>2, <1>3 DEF HasMarks
<1>6. DoneLists(e, callbacks, asked.since)
  <2>1. Begins(e.ran, list) /\ e.since <= asked.since /\ (e.since = asked.since => Begins(e.before, list))
    BY <1>1, <1>2, <1>3 DEF CallLists
  <2>2. Begins(e.before, list) => Begins(e.before, e.ran)
    <3> SUFFICES ASSUME Begins(e.before, list) PROVE Begins(e.before, e.ran)
      OBVIOUS
    <3>1. Len(e.before) \in Nat /\ Len(e.ran) \in Nat /\ Len(e.ran) = Len(list)
      BY <1>1, <1>3, <1>4 DEF IsCall
    <3>2. \A i \in 1..Len(e.before) : i \in 1..Len(e.ran)
      BY <3>1 DEF Begins
    <3> QED
      BY <2>1, <3>1, <3>2 DEF Begins
  <2> QED
    BY <1>3, <2>1, <2>2 DEF DoneLists
<1> QED
  BY <1>1, <1>4, <1>5, <1>6, CallEnds

\* Nobody runs callbacks while the lists change: the lock is free.
LEMMA NobodyRuns ==
  ASSUME OneHolder, holder = {}, NEW s \in Callers
  PROVE  caller[s].at # "calling"
BY DEF OneHolder

LEMMA RegisterInv ==
  ASSUME MessagingInv, NEW t \in Callers, NEW kind \in Kinds, NEW cb \in Callbacks, Registered(t, kind, kind, cb)
  PROVE  MessagingInv'
<1>0. MessagingTypes /\ OneHolder /\ ListsSound /\ MarksSound /\ ObjectsSound
  BY DEF MessagingInv
<1>1. /\ holder = {} /\ callbacks' = Added(callbacks, kind, cb)
      /\ asked' = [asked EXCEPT !.lists = Added(@, kind, cb)]
      /\ UNCHANGED <<holder, caller, counters, objects, builder, built, served, forgotten>>
  BY DEF Registered
<1>2. callbacks' \in [Kinds -> Seq(Callbacks)]
  BY <1>0, <1>1 DEF MessagingTypes, Added
<1>3. asked' = [lists |-> callbacks', since |-> asked.since] /\ asked'.since = asked.since /\ asked.since \in Nat
  <2> DEFINE si == asked.since
             cs == Added(callbacks, kind, cb)
  <2>1. asked = [lists |-> callbacks, since |-> si] /\ si \in Nat
    BY <1>0 DEF MessagingTypes
  <2> HIDE DEF si
  <2>2. asked.lists = callbacks /\ DOMAIN asked = {"lists", "since"}
    BY <2>1
  <2>4. asked' = [asked EXCEPT !.lists = cs]
    BY <1>1, <2>2
  <2> HIDE DEF cs
  <2>5. asked' = [lists |-> cs, since |-> si]
    BY <2>1, <2>4
  <2>6. cs = callbacks'
    BY <1>1 DEF cs
  <2> QED
    BY <2>1, <2>5, <2>6 DEF si
<1>4. \A k \in Kinds : callbacks[k] \in Seq(Callbacks) /\ callbacks'[k] \in Seq(Callbacks)
  BY <1>0, <1>2 DEF MessagingTypes
<1>5. \A k \in Kinds : Begins(callbacks[k], callbacks'[k])
  <2> SUFFICES ASSUME NEW k \in Kinds PROVE Begins(callbacks[k], callbacks'[k])
    OBVIOUS
  <2>1. CASE k = kind
    <3>1. callbacks'[k] = Append(callbacks[k], cb)
      BY <1>0, <1>1, <2>1 DEF MessagingTypes, Added
    <3> QED
      BY <1>4, <3>1 DEF Begins
  <2>2. CASE k # kind
    <3>1. callbacks'[k] = callbacks[k]
      BY <1>0, <1>1, <2>2 DEF MessagingTypes, Added
    <3> QED
      BY <1>4, <3>1 DEF Begins
  <2> QED
    BY <2>1, <2>2
<1>6. MessagingTypes'
  BY <1>0, <1>1, <1>2, <1>3 DEF MessagingTypes
<1>7. OneHolder'
  BY <1>0, <1>1 DEF OneHolder
<1>8. \A k \in Kinds : \A s \in Seq(Callbacks) : Begins(s, callbacks[k]) => Begins(s, callbacks'[k])
  <2> SUFFICES ASSUME NEW k \in Kinds, NEW s \in Seq(Callbacks), Begins(s, callbacks[k])
               PROVE  Begins(s, callbacks'[k])
    OBVIOUS
  <2>1. Len(s) \in Nat /\ Len(callbacks[k]) \in Nat /\ Len(callbacks'[k]) \in Nat
    BY <1>4
  <2>2. Len(s) <= Len(callbacks'[k]) /\ \A i \in 1..Len(s) : i \in 1..Len(callbacks[k])
    BY <1>5, <2>1 DEF Begins
  <2> QED
    BY <1>5, <2>2 DEF Begins
<1>9. ASSUME NEW s \in Callers, caller[s].at # "idle" PROVE CallLists(caller[s], callbacks', asked'.since)
  <2>1. /\ caller[s].at # "calling" /\ CallLists(caller[s], callbacks, asked.since)
        /\ caller[s].kind \in Kinds /\ caller[s].before \in Seq(Callbacks)
    BY <1>0, <1>1, <1>9, NobodyRuns DEF ListsSound, MessagingTypes, IsCall
  <2> QED
    BY <1>3, <1>8, <2>1 DEF CallLists
<1>10. ASSUME NEW e \in served PROVE DoneLists(e, callbacks', asked'.since)
  <2>1. DoneLists(e, callbacks, asked.since) /\ e.kind \in Kinds /\ e.ran \in Seq(Callbacks)
    BY <1>0 DEF ListsSound, MessagingTypes, IsCall
  <2> QED
    BY <1>3, <1>8, <2>1 DEF DoneLists
<1>11. ListsSound'
  BY <1>1, <1>9, <1>10 DEF ListsSound
<1>12. ObjectsSound' /\ BuiltSound' /\ Counted' /\ Grown(objects, objects', builder.object)
  BY <1>1, ObjectsApart
<1>13. MarksSound'
  BY <1>0, <1>1, <1>12, MarksCarry
<1> QED
  BY <1>6, <1>7, <1>11, <1>12, <1>13 DEF MessagingInv

LEMMA UnregisterInv ==
  ASSUME MessagingInv, NEW t \in Callers, UnregisterCallbacks(t)
  PROVE  MessagingInv'
<1>0. MessagingTypes /\ OneHolder /\ ListsSound /\ MarksSound /\ ObjectsSound
  BY DEF MessagingInv
<1>1. /\ holder = {} /\ callbacks' = [k \in Kinds |-> <<>>]
      /\ asked' = [lists |-> callbacks', since |-> asked.since + 1]
      /\ UNCHANGED <<holder, caller, counters, objects, builder, built, served, forgotten>>
  BY DEF UnregisterCallbacks
<1>2. callbacks' \in [Kinds -> Seq(Callbacks)] /\ asked.since \in Nat /\ asked'.since = asked.since + 1
  BY <1>0, <1>1 DEF MessagingTypes
<1>3. MessagingTypes'
  BY <1>0, <1>1, <1>2 DEF MessagingTypes
<1>4. OneHolder'
  BY <1>0, <1>1 DEF OneHolder
<1>5. ASSUME NEW s \in Callers, caller[s].at # "idle" PROVE CallLists(caller[s], callbacks', asked'.since)
  <2>1. /\ caller[s].at # "calling" /\ CallLists(caller[s], callbacks, asked.since) /\ caller[s].since \in Nat
    BY <1>0, <1>1, <1>5, NobodyRuns DEF ListsSound, MessagingTypes, IsCall
  <2>2. caller[s].since <= asked'.since /\ caller[s].since # asked'.since
    BY <1>2, <2>1 DEF CallLists
  <2> QED
    BY <2>1, <2>2 DEF CallLists
<1>6. ASSUME NEW e \in served PROVE DoneLists(e, callbacks', asked'.since)
  <2>1. DoneLists(e, callbacks, asked.since) /\ e.since \in Nat
    BY <1>0 DEF ListsSound, MessagingTypes, IsCall
  <2>2. e.since <= asked'.since /\ e.since # asked'.since
    BY <1>2, <2>1 DEF DoneLists
  <2> QED
    BY <2>2 DEF DoneLists
<1>7. ListsSound'
  BY <1>1, <1>5, <1>6 DEF ListsSound
<1>8. ObjectsSound' /\ BuiltSound' /\ Counted' /\ Grown(objects, objects', builder.object)
  BY <1>1, ObjectsApart
<1>9. MarksSound'
  BY <1>0, <1>1, <1>8, MarksCarry
<1> QED
  BY <1>3, <1>4, <1>7, <1>8, <1>9 DEF MessagingInv

LEMMA ResetInv ==
  ASSUME MessagingInv, NEW t \in Callers, ResetMetrics(t)
  PROVE  MessagingInv'
<1>0. MessagingTypes /\ OneHolder /\ ListsSound /\ MarksSound /\ ObjectsSound /\ BuiltSound /\ Counted
  BY DEF MessagingInv
<1>1. /\ counters' = [f \in DOMAIN counters |-> 0]
      /\ forgotten' = forgotten + counters.created + counters.deserialized
      /\ UNCHANGED <<callbacks, holder, caller, objects, builder, built, asked, served>>
  BY DEF ResetMetrics
<1>2. /\ counters' \in [created : Nat, serialized : Nat, deserialized : Nat]
      /\ counters'.created = 0 /\ counters'.deserialized = 0
      /\ counters.created \in Nat /\ counters.deserialized \in Nat /\ forgotten \in Nat
  BY <1>0, <1>1 DEF MessagingTypes
<1>3. Cardinality(built) \in Nat
  BY <1>0, FS_CardinalityType DEF BuiltSound
<1>4. MessagingTypes'
  BY <1>0, <1>1, <1>2 DEF MessagingTypes
<1>5. OneHolder' /\ ListsSound' /\ MarksSound' /\ ObjectsSound' /\ BuiltSound'
  BY <1>0, <1>1 DEF OneHolder, ListsSound, MarksSound, ObjectsSound, BuiltSound
<1>6. Counted'
  BY <1>0, <1>1, <1>2, <1>3 DEF Counted
<1> QED
  BY <1>4, <1>5, <1>6 DEF MessagingInv

\* The builder changes its own container, which no call and no caller has.
LEMMA BuilderInv ==
  ASSUME MessagingInv, NEW x, Unmarked(x), objects' = Put(objects, builder.object, x),
         builder' = [builder EXCEPT !.wants = x],
         UNCHANGED <<callbacks, holder, caller, counters, built, asked, served, forgotten>>
  PROVE  MessagingInv'
<1>0. MessagingTypes /\ OneHolder /\ ListsSound /\ MarksSound /\ ObjectsSound /\ BuiltSound /\ Counted
  BY DEF MessagingInv
<1>1. /\ builder'.object = builder.object /\ builder'.wants = x
      /\ builder' = [object |-> builder'.object, wants |-> builder'.wants]
      /\ builder.object \in 1..Len(objects) /\ IsContainer(x)
  BY <1>0 DEF ObjectsSound, Unmarked
<1>2. /\ Grown(objects, objects', builder.object)
      /\ IsSequence(objects') /\ \A i \in 1..Len(objects') : IsContainer(objects'[i])
      /\ Len(objects') = Len(objects) /\ objects'[builder.object] = x
  BY <1>0, <1>1, ObjectChanged
<1>3. MessagingTypes' /\ OneHolder' /\ ListsSound'
  BY <1>0 DEF MessagingTypes, OneHolder, ListsSound
<1>4. MarksSound'
  BY <1>0, <1>1, <1>2, MarksCarry
<1>5. ObjectsSound'
  BY <1>1, <1>2 DEF ObjectsSound
<1>6. BuiltSound'
  BY <1>0, <1>1, <1>2, BuiltCarry
<1>7. Counted'
  BY <1>0, <1>2 DEF Counted
<1> QED
  BY <1>3, <1>4, <1>5, <1>6, <1>7 DEF MessagingInv

\* source, target and type of the builder.
LEMMA FieldInv ==
  ASSUME MessagingInv, NEW id, Source(id) \/ Target(id) \/ TypeOf(id)
  PROVE  MessagingInv'
<1> DEFINE w == builder.wants
           x == [w EXCEPT !.source = id]
           y == [w EXCEPT !.target = id]
           z == [w EXCEPT !.type = id]
<1>0. ObjectsSound
  BY DEF MessagingInv
<1>1. /\ Unmarked(w) /\ objects[builder.object] = w /\ builder.object \in 1..Len(objects)
      /\ builder = [object |-> builder.object, wants |-> w]
      /\ IsContainer(w) /\ DOMAIN w = {"source", "target", "type", "values"}
  BY <1>0 DEF ObjectsSound, Unmarked, IsContainer
<1>2. Unmarked(x) /\ Unmarked(y) /\ Unmarked(z)
  <2> SUFFICES ASSUME NEW v, v \in {x, y, z} PROVE Unmarked(v)
    OBVIOUS
  <2>1. DOMAIN v = {"source", "target", "type", "values"} /\ v = [f \in DOMAIN v |-> v[f]] /\ v.values = w.values
    BY <1>1 DEF IsContainer
  <2> HIDE DEF x, y, z
  <2> QED
    BY <1>1, <2>1 DEF Unmarked, IsContainer
<1>3. UNCHANGED <<callbacks, holder, caller, counters, built, asked, served, forgotten>>
  BY DEF Source, Target, TypeOf, OnBuilder
<1>4. CASE Source(id)
  <2>1. /\ objects' = [objects EXCEPT ![builder.object] = [objects[builder.object] EXCEPT !.source = id]]
        /\ builder' = [builder EXCEPT !.wants = [builder.wants EXCEPT !.source = id]]
    BY <1>4 DEF Source, OnBuilder
  <2>2. objects' = Put(objects, builder.object, x) /\ builder' = [builder EXCEPT !.wants = x]
    BY <1>1, <2>1 DEF Put
  <2> HIDE DEF x
  <2> QED
    BY <1>2, <1>3, <2>2, BuilderInv
<1>5. CASE Target(id)
  <2>1. /\ objects' = [objects EXCEPT ![builder.object] = [objects[builder.object] EXCEPT !.target = id]]
        /\ builder' = [builder EXCEPT !.wants = [builder.wants EXCEPT !.target = id]]
    BY <1>5 DEF Target, OnBuilder
  <2>2. objects' = Put(objects, builder.object, y) /\ builder' = [builder EXCEPT !.wants = y]
    BY <1>1, <2>1 DEF Put
  <2> HIDE DEF y
  <2> QED
    BY <1>2, <1>3, <2>2, BuilderInv
<1>6. CASE TypeOf(id)
  <2>1. /\ objects' = [objects EXCEPT ![builder.object] = [objects[builder.object] EXCEPT !.type = id]]
        /\ builder' = [builder EXCEPT !.wants = [builder.wants EXCEPT !.type = id]]
    BY <1>6 DEF TypeOf, OnBuilder
  <2>2. objects' = Put(objects, builder.object, z) /\ builder' = [builder EXCEPT !.wants = z]
    BY <1>1, <2>1 DEF Put
  <2> HIDE DEF z
  <2> QED
    BY <1>2, <1>3, <2>2, BuilderInv
<1> QED
  BY <1>4, <1>5, <1>6

\* set of the builder, under a name that is no callback's.
LEMMA SetValueInv ==
  ASSUME MessagingInv, NEW name \in Labels, NEW input, SetValueOf(name, input)
  PROVE  MessagingInv'
<1> DEFINE w == builder.wants
           y == Converted(input)
           V(c) == [c EXCEPT !.values = Assigned(c.values, name, y)]
           x == V(w)
<1>0. ObjectsSound
  BY DEF MessagingInv
<1>1. /\ Unmarked(w) /\ objects[builder.object] = w /\ builder.object \in 1..Len(objects)
      /\ builder = [object |-> builder.object, wants |-> w]
      /\ IsContainer(w) /\ IsSequence(w.values)
  BY <1>0 DEF ObjectsSound, Unmarked, IsContainer
<1>2. /\ UNCHANGED <<callbacks, holder, caller, counters, built, asked, served, forgotten>>
      /\ objects' = [objects EXCEPT ![builder.object] = V(objects[builder.object])]
      /\ builder' = [builder EXCEPT !.wants = V(builder.wants)]
  BY DEF SetValueOf, OnBuilder
<1>3. objects' = Put(objects, builder.object, x) /\ builder' = [builder EXCEPT !.wants = x]
  <2> HIDE DEF V
  <2> QED
    BY <1>1, <1>2 DEF Put
<1> DEFINE vs == w.values
           ws == Assigned(vs, name, y)
<1> HIDE DEF y
<1>4. IsSequence(ws) /\ \E p \in 1..(Len(vs) + 1) : Placed(vs, ws, name, y, p)
  BY <1>1, AssignedFacts
<1>5. PICK p \in 1..(Len(vs) + 1) : Placed(vs, ws, name, y, p)
  BY <1>4
<1>6. x = [w EXCEPT !.values = ws]
  OBVIOUS
<1> HIDE DEF ws, x
<1>7. IsContainer(x) /\ x.values = ws
  BY <1>1, <1>4, <1>6, ValuesReplaced
<1>8. \A i \in 1..Len(ws) : ws[i][1] \notin Callbacks
  <2> SUFFICES ASSUME NEW i \in 1..Len(ws) PROVE ws[i][1] \notin Callbacks
    OBVIOUS
  <2>1. CASE i = p
    BY <1>5, <2>1, MessagingAssumption DEF Placed
  <2>2. CASE i # p
    <3>1. Len(vs) \in Nat /\ Len(ws) \in Nat
      BY <1>1, <1>4, SequenceFacts
    <3>2. i \in 1..Len(vs)
      BY <1>5, <2>2, <3>1 DEF Placed
    <3> QED
      BY <1>1, <1>5, <2>2, <3>2 DEF Placed, Unmarked
  <2> QED
    BY <2>1, <2>2
<1>9. Unmarked(x)
  BY <1>7, <1>8 DEF Unmarked
<1> QED
  BY <1>2, <1>3, <1>9, BuilderInv

LEMMA BuildInv ==
  ASSUME MessagingInv, Build
  PROVE  MessagingInv'
<1>0. MessagingTypes /\ OneHolder /\ ListsSound /\ MarksSound /\ ObjectsSound /\ BuiltSound /\ Counted
  BY DEF MessagingInv
<1>1. /\ built' = built \union {builder} /\ objects' = Append(objects, NewContainer)
      /\ builder' = [object |-> Len(objects'), wants |-> NewContainer]
      /\ UNCHANGED <<callbacks, holder, caller, counters, asked, served, forgotten>>
  BY DEF Build
<1>2. /\ Grown(objects, objects', builder.object)
      /\ IsSequence(objects') /\ \A i \in 1..Len(objects') : IsContainer(objects'[i])
      /\ Len(objects') = Len(objects) + 1 /\ objects'[Len(objects')] = NewContainer
      /\ \A i \in 1..Len(objects) : objects'[i] = objects[i] /\ i \in 1..Len(objects')
  BY <1>0, <1>1, NewContainerFacts, ObjectsAppended
<1>3. /\ builder'.object = Len(objects) + 1 /\ builder'.wants = NewContainer /\ Len(objects) \in Nat
      /\ builder' = [object |-> builder'.object, wants |-> builder'.wants]
      /\ builder'.object \in 1..Len(objects')
  BY <1>0, <1>1, <1>2, SequenceFacts DEF ObjectsSound
<1>4. /\ builder.object \in 1..Len(objects) /\ objects[builder.object] = builder.wants /\ Unmarked(builder.wants)
      /\ builder \notin built
  BY <1>0 DEF ObjectsSound, BuiltSound
<1>5. MessagingTypes' /\ OneHolder' /\ ListsSound'
  BY <1>0, <1>1 DEF MessagingTypes, OneHolder, ListsSound
<1>6. MarksSound'
  BY <1>0, <1>1, <1>2, <1>3, MarksCarry
<1>7. ObjectsSound'
  BY <1>1, <1>2, <1>3, NewContainerFacts DEF ObjectsSound
<1>8. BuiltAs(builder.wants, builder.wants)
  <2> DEFINE w == builder.wants
  <2>1. IsContainer(w) /\ Len(w.values) \in Nat
    BY <1>4, SequenceFacts DEF Unmarked, IsContainer
  <2>2. [w EXCEPT !.values = w.values] = w
    BY <2>1 DEF IsContainer
  <2>3. Begins(w.values, w.values) /\ (Len(w.values) + 1)..Len(w.values) = {}
    BY <2>1 DEF Begins
  <2> HIDE DEF w
  <2>4. BuiltAs(w, w)
    BY <1>4, <2>1, <2>2, <2>3 DEF BuiltAs, w
  <2> QED
    BY <2>4 DEF w
<1>9. ASSUME NEW b \in built'
      PROVE  b.object \in 1..Len(objects') /\ b.object # builder'.object /\ BuiltAs(objects'[b.object], b.wants)
  <2>1. CASE b \in built
    <3>1. b.object \in 1..Len(objects) /\ b.object # builder.object /\ BuiltAs(objects[b.object], b.wants)
      BY <1>0, <2>1 DEF BuiltSound
    <3> QED
      BY <1>2, <1>3, <3>1, BuiltStays
  <2>2. CASE b = builder
    BY <1>2, <1>3, <1>4, <1>8, <2>2
  <2> QED
    BY <1>1, <1>9, <2>1, <2>2
<1>10. /\ IsFiniteSet(built') /\ Cardinality(built') = Cardinality(built) + 1 /\ Cardinality(built) \in Nat
  BY <1>0, <1>1, <1>4, FS_AddElement, FS_CardinalityType DEF BuiltSound
<1>11. BuiltSound'
  BY <1>9, <1>10 DEF BuiltSound
<1>12. Counted'
  <2>1. counters.created \in Nat /\ counters.deserialized \in Nat /\ forgotten \in Nat
    BY <1>0 DEF MessagingTypes
  <2> DEFINE k == Cardinality(built)
             l == Len(objects)
             c == counters.created
             d == counters.deserialized
  <2>2. l = 1 + k + c + d + forgotten
    BY <1>0 DEF Counted
  <2>3. Len(objects') = l + 1 /\ Cardinality(built') = k + 1 /\ k \in Nat
    BY <1>2, <1>10
  <2>4. counters'.created = c /\ counters'.deserialized = d /\ forgotten' = forgotten
    BY <1>1
  <2> HIDE DEF k, l, c, d
  <2>5. l + 1 = 1 + (k + 1) + c + d + forgotten
    BY <2>1, <2>2, <2>3 DEF c, d
  <2>6. Len(objects') = 1 + Cardinality(built') + counters'.created + counters'.deserialized + forgotten'
    BY <2>3, <2>4, <2>5
  <2> QED
    BY <2>6 DEF Counted
<1> QED
  BY <1>5, <1>6, <1>7, <1>11, <1>12 DEF MessagingInv

LEMMA MessagingInitInv == MessagingInit => MessagingInv
<1> SUFFICES ASSUME MessagingInit PROVE MessagingInv
  OBVIOUS
<1>1. /\ callbacks = [k \in Kinds |-> <<>>] /\ holder = {} /\ caller = [t \in Callers |-> NotCalling]
      /\ counters = [created |-> 0, serialized |-> 0, deserialized |-> 0]
      /\ objects = <<NewContainer>> /\ builder = [object |-> 1, wants |-> NewContainer] /\ built = {}
      /\ asked = [lists |-> callbacks, since |-> 0] /\ served = {} /\ forgotten = 0
  BY DEF MessagingInit
<1>2. callbacks \in [Kinds -> Seq(Callbacks)] /\ asked.since = 0
  BY <1>1
<1>3. MessagingTypes
  BY <1>1, <1>2, NotCallingFacts DEF MessagingTypes
<1>4. OneHolder /\ ListsSound /\ MarksSound
  BY <1>1, NotCallingFacts DEF OneHolder, ListsSound, MarksSound
<1>5. Len(objects) = 1 /\ objects[1] = NewContainer /\ objects \in Seq({NewContainer})
  BY <1>1
<1>6. IsSequence(objects)
  BY <1>5, SequenceOf
<1>7. ObjectsSound
  BY <1>1, <1>5, <1>6, NewContainerFacts DEF ObjectsSound
<1>8. BuiltSound /\ Cardinality(built) = 0
  BY <1>1, FS_EmptySet DEF BuiltSound
<1>9. Counted
  BY <1>1, <1>5, <1>8 DEF Counted
<1> QED
  BY <1>3, <1>4, <1>7, <1>8, <1>9 DEF MessagingInv

LEMMA MessagingStepInv == MessagingInv /\ [MessagingNext]_messagingVars => MessagingInv'
<1> SUFFICES ASSUME MessagingInv, [MessagingNext]_messagingVars PROVE MessagingInv'
  OBVIOUS
<1>1. CASE UNCHANGED messagingVars
  <2>1. UNCHANGED <<callbacks, holder, caller, counters, objects, builder, built, asked, served, forgotten>>
    BY <1>1 DEF messagingVars
  <2> QED
    BY <2>1 DEF MessagingInv, MessagingTypes, OneHolder, ListsSound, MarksSound, ObjectsSound, BuiltSound, Counted
<1>2. ASSUME NEW t \in Callers, NEW cb \in Callbacks,
             RegisterCreationCallback(t, cb) \/ RegisterSerializationCallback(t, cb)
      PROVE  MessagingInv'
  <2>1. "creation" \in Kinds /\ "serialization" \in Kinds
    BY DEF Kinds
  <2> QED
    BY <1>2, <2>1, RegisterInv DEF RegisterCreationCallback, RegisterSerializationCallback
<1>3. ASSUME NEW t \in Callers,
             \/ \E type \in Labels : CreateOptimizedContainer(t, type)
             \/ \E o \in Known : SerializeForMessaging(t, o)
             \/ \E text \in Texts : DeserializeFromMessaging(t, text)
             \/ LockCallbacks(t) \/ RunCallback(t) \/ CallbacksDone(t)
             \/ UnregisterCallbacks(t) \/ ResetMetrics(t)
      PROVE  MessagingInv'
  BY <1>3, CreateInv, SerializeInv, DeserializeInv, LockInv, RunInv, DoneInv, UnregisterInv, ResetInv
<1>4. ASSUME NEW input \in Inputs, SetFails(input)
      PROVE  MessagingInv'
  <2>1. UNCHANGED <<callbacks, holder, caller, counters, objects, builder, built, asked, served, forgotten>>
    BY <1>4 DEF SetFails
  <2> QED
    BY <2>1 DEF MessagingInv, MessagingTypes, OneHolder, ListsSound, MarksSound, ObjectsSound, BuiltSound, Counted
<1> QED
  BY <1>1, <1>2, <1>3, <1>4, FieldInv, SetValueInv, BuildInv DEF MessagingNext

\* A beginning, as the sequences library states it.
LEMMA BeginsIsPrefix ==
  ASSUME NEW s, NEW t, IsSequence(s), IsSequence(t), Begins(s, t)
  PROVE  IsPrefix(s, t)
<1> DEFINE S == ToSet(s) \union ToSet(t)
           n == Len(s)
           a == SubSeq(s, 1, n)
           b == SubSeq(t, 1, n)
<1>1. s \in Seq(S) /\ t \in Seq(S) /\ n \in Nat /\ Len(t) \in Nat /\ n <= Len(t)
  BY DEF IsSequence, Begins
<1> HIDE DEF S
<1>2. a \in Seq(S) /\ Len(a) = n /\ \A i \in 1..n : a[i] = s[i]
  BY <1>1
<1>3. b \in Seq(S) /\ Len(b) = n /\ \A i \in 1..n : b[i] = t[i]
  BY <1>1
<1>4. \A i \in 1..n : a[i] = b[i]
  BY <1>2, <1>3 DEF Begins
<1> HIDE DEF a, b
<1>5. a = b
  BY <1>2, <1>3, <1>4, SeqEqual
<1> QED
  BY <1>1, <1>5 DEF IsPrefix, a, b

\* Whatever the threads and the callbacks they register, callbacks run one at
\* a time and in the order of registration, leave their marks, every container
\* is counted, and a container that was built stays what was asked for.
THEOREM CallbacksAreServed == MessagingSpec => []CallbacksServed
<1>1. MessagingInv => CallbacksServed
  <2> SUFFICES ASSUME MessagingInv PROVE CallbacksServed
    OBVIOUS
  <2>0. MessagingTypes /\ OneHolder /\ ListsSound /\ MarksSound /\ ObjectsSound /\ BuiltSound /\ Counted
    BY DEF MessagingInv
  <2>1. Cardinality({t \in Callers : caller[t].at = "calling"}) <= 1
    <3> DEFINE T == {t \in Callers : caller[t].at = "calling"}
    <3>1. CASE T = {}
      BY <3>1, FS_EmptySet
    <3>2. CASE T # {}
      <4>1. PICK t \in T : TRUE
        BY <3>2
      <4>2. T = {t}
        BY <2>0, <4>1 DEF OneHolder
      <4>3. Cardinality({t}) = 1
        BY FS_Singleton
      <4> HIDE DEF T
      <4>4. Cardinality(T) = 1
        BY <4>2, <4>3
      <4> QED
        BY <4>4 DEF T
    <3> QED
      BY <3>1, <3>2
  <2>2. ASSUME NEW e \in served
        PROVE  /\ e.since = asked.since => IsPrefix(e.before, e.ran) /\ IsPrefix(e.ran, asked.lists[e.kind])
               /\ \A i \in DOMAIN e.ran : <<e.ran[i], Seen>> \in ToSet(objects[e.object].values)
    <3>1. IsCall(e) /\ DoneLists(e, callbacks, asked.since) /\ HasMarks(e, objects, builder.object)
      BY <2>0 DEF MessagingTypes, ListsSound, MarksSound
    <3>2. /\ e.before \in Seq(Callbacks) /\ e.ran \in Seq(Callbacks)
          /\ callbacks[e.kind] \in Seq(Callbacks) /\ asked.lists = callbacks
      BY <2>0, <3>1 DEF IsCall, MessagingTypes
    <3>3. IsSequence(e.before) /\ IsSequence(e.ran) /\ IsSequence(callbacks[e.kind])
      BY <3>2, SequenceOf
    <3>4. e.since = asked.since => IsPrefix(e.before, e.ran) /\ IsPrefix(e.ran, callbacks[e.kind])
      BY <3>1, <3>3, BeginsIsPrefix DEF DoneLists
    <3> QED
      BY <3>1, <3>2, <3>4 DEF HasMarks
  <2>3. ASSUME NEW b \in built
        PROVE  LET c == objects[b.object]
                   n == Len(b.wants.values)
               IN  /\ [c EXCEPT !.values = b.wants.values] = b.wants
                   /\ IsPrefix(b.wants.values, c.values)
                   /\ \A i \in (n + 1)..Len(c.values) : c.values[i][1] \in Callbacks
    <3>1. BuiltAs(objects[b.object], b.wants)
      BY <2>0 DEF BuiltSound
    <3>2. IsPrefix(b.wants.values, objects[b.object].values)
      BY <3>1, BeginsIsPrefix DEF BuiltAs, Unmarked, IsContainer
    <3> QED
      BY <3>1, <3>2 DEF BuiltAs
  <2> QED
    BY <2>0, <2>1, <2>2, <2>3 DEF CallbacksServed, Counted
<1> QED
  BY <1>1, MessagingInitInv, MessagingStepInv, PTL DEF MessagingSpec

-----------------------------------------------------------------------------
(* A message and its reply *)

Swapped(h) ==
  [source_id |-> h.target_id, source_sub_id |-> h.target_sub_id, target_id |-> h.source_id,
   target_sub_id |-> h.source_sub_id, message_type |-> h.message_type, version |-> h.version]

\* Every header has the same fields, and a payload is a sequence.
FieldSet == {"source_id", "source_sub_id", "target_id", "target_sub_id", "message_type", "version"}
Formed(m) ==
  /\ DOMAIN m = {"header", "payload"} /\ m = [f \in DOMAIN m |-> m[f]]
  /\ DOMAIN m.header = FieldSet /\ m.header = [f \in FieldSet |-> m.header[f]]
  /\ m.payload \in Seq(ToSet(m.payload))

\* What is left on the wire is the beginning of a message with header h.
Carries(w, h) ==
  /\ DOMAIN w = {"format", "cells", "size"} /\ w = [f \in DOMAIN w |-> w[f]]
  /\ w.cells \in Seq(ToSet(w.cells))
  /\ w.format \in {"binary", "json"}
  /\ w.format = "binary" =>
       \A i \in 1..Len(w.cells) : /\ i = 1 => w.cells[i] = Len(Fields)
                                  /\ i \in 2..7 => w.cells[i] = h[Fields[i - 1]]
  /\ w.format = "json" =>
       /\ w.size \in Nat /\ w.size >= 6
       /\ \A i \in 1..Len(w.cells) : i <= 6 => w.cells[i] = h[Fields[i]]

\* JSON leaves every field as it is.
AllPlain(h) == \A f \in ToSet(Fields) : Plain(h[f])

MessageInv ==
  /\ unescaped \in BOOLEAN
  /\ hasJson \in BOOLEAN /\ stage \in {"request", "asked", "reply", "answered"}
  /\ Formed(request)
  /\ stage = "request" => message = request
  /\ stage \in {"asked", "reply"} /\ message # Refused => Formed(message)
  /\ wire # Nothing => /\ stage \in {"request", "reply"} /\ message # Refused
                       /\ Carries(wire, message.header)
                       /\ wire.format = "binary" /\ ~unescaped => AllPlain(message.header)
  /\ hasJson /\ message # Refused /\ ~unescaped =>
       /\ stage = "asked" => message.header = request.header
       /\ stage \in {"reply", "answered"} => message.header = Swapped(request.header)

LEMMA FieldsFacts ==
  /\ Len(Fields) = 6 /\ DOMAIN Fields = 1..6 /\ ToSet(Fields) = FieldSet
  /\ \A i \in 1..6 : Fields[i] \in FieldSet
<1>1. Len(Fields) = 6 /\ DOMAIN Fields = 1..6
  BY DEF Fields
<1>2. /\ Fields[1] = "source_id" /\ Fields[2] = "source_sub_id" /\ Fields[3] = "target_id"
      /\ Fields[4] = "target_sub_id" /\ Fields[5] = "message_type" /\ Fields[6] = "version"
  BY DEF Fields
<1>3. ToSet(Fields) = {Fields[1], Fields[2], Fields[3], Fields[4], Fields[5], Fields[6]}
  BY <1>1 DEF ToSet
<1>4. ToSet(Fields) = FieldSet
  BY <1>2, <1>3 DEF FieldSet
<1> QED
  BY <1>1, <1>4 DEF ToSet

LEMMA WithFieldsFormed ==
  ASSUME NEW m, NEW fs, Formed(m)
  PROVE  /\ Formed(WithFields(m, fs))
         /\ WithFields(m, fs).header = [f \in FieldSet |-> IF f \in DOMAIN fs THEN fs[f] ELSE m.header[f]]
         /\ WithFields(m, fs).payload = m.payload
<1> DEFINE h == [f \in FieldSet |-> IF f \in DOMAIN fs THEN fs[f] ELSE m.header[f]]
           w == [m EXCEPT !.header = h]
<1>1. WithFields(m, fs) = w
  BY DEF WithFields, Formed
<1> HIDE DEF h
<1>2. DOMAIN w = {"header", "payload"} /\ w = [f \in DOMAIN w |-> w[f]] /\ w.header = h /\ w.payload = m.payload
  BY DEF Formed
<1>3. DOMAIN h = FieldSet /\ h = [f \in FieldSet |-> h[f]]
  BY DEF h
<1> HIDE DEF w
<1>4. Formed(w)
  BY <1>2, <1>3 DEF Formed
<1> QED
  BY <1>1, <1>2, <1>4 DEF h

LEMMA NewFormed == Formed(NewMessage)
<1> DEFINE h == [f \in FieldSet |-> IF f = "version" THEN "1.0.0.0" ELSE ""]
<1>1. NewMessage = [header |-> h, payload |-> <<>>]
  BY FieldsFacts DEF NewMessage
<1>2. DOMAIN h = FieldSet /\ h = [f \in FieldSet |-> h[f]]
  OBVIOUS
<1>3. <<>> \in Seq(ToSet(<<>>))
  OBVIOUS
<1> HIDE DEF h
<1> QED
  BY <1>1, <1>2, <1>3 DEF Formed

\* Reading the fields back in their places gives the header they were written
\* from.
LEMMA HeaderReadBack ==
  ASSUME NEW h, h = [f \in FieldSet |-> h[f]], NEW cells,
         \A i \in 1..6 : cells[i] = h[Fields[i]]
  PROVE  LET m == WithFields(NewMessage, [f \in ToSet(Fields) |-> cells[CHOOSE i \in DOMAIN Fields : Fields[i] = f]])
         IN  Formed(m) /\ m.header = h
<1> DEFINE fs == [f \in ToSet(Fields) |-> cells[CHOOSE i \in DOMAIN Fields : Fields[i] = f]]
<1>1. ASSUME NEW f \in FieldSet PROVE fs[f] = h[f]
  <2> DEFINE p == CHOOSE i \in DOMAIN Fields : Fields[i] = f
  <2>1. \E i \in DOMAIN Fields : Fields[i] = f
    BY <1>1, FieldsFacts DEF ToSet
  <2>2. p \in DOMAIN Fields /\ Fields[p] = f
    BY <2>1
  <2>3. fs[f] = cells[p]
    BY <1>1, FieldsFacts
  <2> HIDE DEF p
  <2> QED
    BY <2>2, <2>3, FieldsFacts
<1>2. DOMAIN fs = FieldSet
  BY FieldsFacts
<1> HIDE DEF fs
<1>3. /\ Formed(WithFields(NewMessage, fs))
      /\ WithFields(NewMessage, fs).header =
           [f \in FieldSet |-> IF f \in DOMAIN fs THEN fs[f] ELSE NewMessage.header[f]]
  BY NewFormed, WithFieldsFormed
<1>4. WithFields(NewMessage, fs).header = h
  BY <1>1, <1>2, <1>3
<1> QED
  BY <1>3, <1>4 DEF fs

\* A text of plain fields has one pair for each of them.
LEMMA PlainField ==
  ASSUME NEW h, AllPlain(h), NEW cells, \A i \in 1..6 : cells[i] = h[Fields[i]], NEW f \in FieldSet
  PROVE  FieldOf(cells, f) = h[f]
<1>1. PICK p \in 1..6 : Fields[p] = f
  BY FieldsFacts DEF ToSet
<1>2. \A i \in 1..6 : Fields[i] = f => i = p
  <2>1. \A i \in 1..6, j \in 1..6 : Fields[i] = Fields[j] => i = j
    BY DEF Fields
  <2> QED
    BY <1>1, <2>1
<1>3. \A i \in 1..6 : Reads[cells[i]] = [text |-> cells[i], also |-> <<>>]
  BY FieldsFacts DEF AllPlain, Plain
<1>4. DOMAIN (<<>>) = {}
  OBVIOUS
<1> DEFINE S == {i \in DOMAIN Fields : Fields[i] = f \/ f \in DOMAIN Reads[cells[i]].also}
<1>5. S = {p}
  <2>1. ASSUME NEW i \in 1..6 PROVE DOMAIN Reads[cells[i]].also = {}
    BY <1>3, <1>4
  <2> QED
    BY <1>1, <1>2, <2>1, FieldsFacts
<1>6. LastPair(cells, f) = p
  <2>1. LastPair(cells, f) = Max(S)
    BY DEF LastPair
  <2> HIDE DEF S
  <2>2. p \in S /\ \A y \in S : p >= y
    BY <1>5
  <2>3. Max(S) \in S
    BY <2>2 DEF Max
  <2> QED
    BY <1>5, <2>1, <2>3
<1>7. Reads[cells[p]].text = cells[p] /\ f \notin DOMAIN Reads[cells[p]].also
  BY <1>1, <1>3, <1>4
<1> QED
  BY <1>1, <1>6, <1>7 DEF FieldOf

\* swap_header turns a header around.
LEMMA SwapTurns ==
  ASSUME NEW m, Formed(m)
  PROVE  Formed(SwapHeaderOf(m)) /\ SwapHeaderOf(m).header = Swapped(m.header)
<1> DEFINE fs == [source_id |-> m.header.target_id, target_id |-> m.header.source_id,
                  source_sub_id |-> m.header.target_sub_id, target_sub_id |-> m.header.source_sub_id]
           h == [f \in FieldSet |-> IF f \in DOMAIN fs THEN fs[f] ELSE m.header[f]]
<1>1. SwapHeaderOf(m) = WithFields(m, fs)
  BY DEF SwapHeaderOf
<1>2. h = Swapped(m.header)
  BY DEF FieldSet, Swapped
<1> HIDE DEF fs
<1> QED
  BY <1>1, <1>2, WithFieldsFormed

LEMMA HeaderCells ==
  ASSUME NEW m, Formed(m)
  PROVE  /\ Header(m) \in Seq(ToSet(Header(m))) /\ Len(Header(m)) = 6
         /\ \A i \in 1..6 : Header(m)[i] = m.header[Fields[i]]
<1>1. DOMAIN Header(m) = 1..6 /\ \A i \in 1..6 : Header(m)[i] = m.header[Fields[i]]
  BY FieldsFacts DEF Header
<1>2. Header(m) = [i \in 1..6 |-> m.header[Fields[i]]]
  BY FieldsFacts DEF Header
<1>3. \A i \in 1..6 : m.header[Fields[i]] \in ToSet(Header(m))
  BY <1>1 DEF ToSet
<1> DEFINE S == ToSet(Header(m))
<1> HIDE DEF S
<1>4. [i \in 1..6 |-> m.header[Fields[i]]] \in Seq(S)
  BY <1>3 DEF S
<1>5. Len([i \in 1..6 |-> m.header[Fields[i]]]) = 6
  OBVIOUS
<1> QED
  BY <1>1, <1>2, <1>4, <1>5 DEF S

\* Appending a sequence changes nothing in front of it.
LEMMA LongerBegins ==
  ASSUME NEW S, NEW s \in Seq(S), NEW t \in Seq(S)
  PROVE  s \o t \in Seq(S) /\ \A i \in 1..Len(s) : (s \o t)[i] = s[i]
<1>1. /\ s \o t \in Seq(S) /\ Len(s) \in Nat /\ Len(t) \in Nat
      /\ \A i \in 1..(Len(s) + Len(t)) : (s \o t)[i] = IF i <= Len(s) THEN s[i] ELSE t[i - Len(s)]
  BY ConcatProperties
<1>2. \A i \in 1..Len(s) : i \in 1..(Len(s) + Len(t)) /\ i <= Len(s)
  BY <1>1
<1> QED
  BY <1>1, <1>2

\* One cell and six, and what comes behind them.
ThreeParts(a, b, c) == (a \o b) \o c
BeginsWith(w, S, a, b) == w \in Seq(S) /\ w[1] = a[1] /\ \A i \in 2..7 : w[i] = b[i - 1]
Cells(s, S, n) == s \in Seq(S) /\ Len(s) = n

LEMMA SevenCells ==
  ASSUME NEW S, NEW a, NEW b, NEW c, Cells(a, S, 1), Cells(b, S, 6), c \in Seq(S)
  PROVE  BeginsWith(ThreeParts(a, b, c), S, a, b)
<1>0. a \in Seq(S) /\ b \in Seq(S) /\ Len(a) = 1 /\ Len(b) = 6
  BY DEF Cells
<1>1. /\ a \o b \in Seq(S) /\ Len(a \o b) = 7
      /\ \A i \in 1..7 : (a \o b)[i] = IF i <= 1 THEN a[i] ELSE b[i - 1]
  <2>1. /\ a \o b \in Seq(S) /\ Len(a \o b) = Len(a) + Len(b)
        /\ \A i \in 1..(Len(a) + Len(b)) : (a \o b)[i] = IF i <= Len(a) THEN a[i] ELSE b[i - Len(a)]
    BY <1>0, ConcatProperties
  <2>2. Len(a) + Len(b) = 7
    BY <1>0
  <2> QED
    BY <1>0, <2>1, <2>2
<1>2. /\ (a \o b) \o c \in Seq(S)
      /\ \A i \in 1..7 : ((a \o b) \o c)[i] = (a \o b)[i]
  BY <1>1, LongerBegins
<1>3. 1 \in 1..7 /\ \A i \in 2..7 : i \in 1..7 /\ ~(i <= 1)
  OBVIOUS
<1> QED
  BY <1>1, <1>2, <1>3 DEF BeginsWith, ThreeParts

\* Both serialisations put a header on the wire.
LEMMA BinaryCarries ==
  ASSUME NEW m, Formed(m)
  PROVE  Carries(SerializeBinary(m), m.header)
<1> DEFINE S == ToSet(Header(m)) \union ToSet(m.payload) \union {Len(Fields)}
           a == <<Len(Fields)>>
           b == Header(m)
           c == m.payload
           w == SerializeBinary(m)
<1>1. a \in Seq(S) /\ Len(a) = 1 /\ a[1] = Len(Fields)
  OBVIOUS
<1>2. b \in Seq(S) /\ Len(b) = 6
  BY HeaderCells
<1>3. \A i \in 1..6 : b[i] = m.header[Fields[i]]
  BY HeaderCells
<1>4. c \in Seq(S)
  BY DEF Formed
<1>5. w = [format |-> "binary", cells |-> (a \o b) \o c, size |-> 1]
  BY DEF SerializeBinary
<1> HIDE DEF S, a, b, c, w
<1>6. /\ (a \o b) \o c \in Seq(S) /\ ((a \o b) \o c)[1] = a[1]
      /\ \A i \in 2..7 : ((a \o b) \o c)[i] = b[i - 1]
  <2>1. Cells(a, S, 1) /\ Cells(b, S, 6)
    BY ONLY <1>1, <1>2 DEF Cells
  <2>2. BeginsWith(ThreeParts(a, b, c), S, a, b)
    BY ONLY <1>4, <2>1, SevenCells
  <2> QED
    BY ONLY <2>2 DEF BeginsWith, ThreeParts
<1>7. w.cells = (a \o b) \o c /\ w.format = "binary" /\ DOMAIN w = {"format", "cells", "size"} /\ w = [f \in DOMAIN w |-> w[f]]
  BY <1>5
<1>8. w.cells \in Seq(ToSet(w.cells))
  BY <1>6, <1>7, SequenceOf DEF IsSequence
<1>9. \A i \in 2..7 : w.cells[i] = m.header[Fields[i - 1]]
  <2>1. \A i \in 2..7 : i - 1 \in 1..6
    OBVIOUS
  <2>2. \A i \in 2..7 : b[i - 1] = m.header[Fields[i - 1]]
    BY <1>3, <2>1, Zenon
  <2>3. \A i \in 2..7 : w.cells[i] = b[i - 1]
    BY <1>6, <1>7
  <2> QED
    BY <2>2, <2>3, Zenon
<1>10. w.cells[1] = Len(Fields)
  BY <1>1, <1>6, <1>7
<1> HIDE DEF w
<1> QED
  BY <1>7, <1>8, <1>9, <1>10 DEF Carries, w

LEMMA JsonCarries ==
  ASSUME NEW m, Formed(m)
  PROVE  Carries(SerializeJson(m), m.header)
<1> DEFINE S == ToSet(Header(m)) \union ToSet(m.payload)
           b == Header(m)
           c == m.payload
           w == SerializeJson(m)
<1>1. b \in Seq(S) /\ Len(b) = 6
  BY HeaderCells
<1>2. \A i \in 1..6 : b[i] = m.header[Fields[i]]
  BY HeaderCells
<1>3. c \in Seq(S) /\ Len(c) \in Nat
  BY DEF Formed
<1>4. w = [format |-> "json", cells |-> b \o c, size |-> Len(Fields) + Len(c)]
  BY DEF SerializeJson
<1> HIDE DEF S, b, c, w
<1>5. /\ b \o c \in Seq(S)
      /\ \A i \in 1..6 : (b \o c)[i] = b[i]
  <2>1. b \o c \in Seq(S) /\ \A i \in 1..Len(b) : (b \o c)[i] = b[i]
    BY <1>1, <1>3, LongerBegins, Zenon
  <2> QED
    BY <1>1, <2>1
<1>6. /\ w.cells = b \o c /\ w.format = "json" /\ w.size = 6 + Len(c)
      /\ DOMAIN w = {"format", "cells", "size"} /\ w = [f \in DOMAIN w |-> w[f]]
  BY <1>4, FieldsFacts
<1>7. w.cells \in Seq(ToSet(w.cells))
  BY <1>5, <1>6, SequenceOf DEF IsSequence
<1>8. \A i \in 1..Len(w.cells) : i <= 6 => w.cells[i] = m.header[Fields[i]]
  <2>1. \A i \in 1..Len(w.cells) : i <= 6 => i \in 1..6
    BY <1>7
  <2>2. \A i \in 1..6 : w.cells[i] = m.header[Fields[i]]
    BY <1>2, <1>5, <1>6, Zenon
  <2> QED
    BY <2>1, <2>2, Zenon
<1>9. w.size \in Nat /\ w.size >= 6
  BY <1>3, <1>6
<1> QED
  BY <1>6, <1>7, <1>8, <1>9 DEF Carries, w

\* The wire without its end carries the same header.
LEMMA FrontCarries ==
  ASSUME NEW w, NEW h, Carries(w, h), w.cells # <<>>
  PROVE  Carries([w EXCEPT !.cells = Front(@)], h) /\ [w EXCEPT !.cells = Front(@)] # Nothing
<1> DEFINE v == [w EXCEPT !.cells = Front(@)]
           S == ToSet(w.cells)
           n == Len(w.cells)
<1>1. w.cells \in Seq(S) /\ n \in Nat /\ n >= 1
  BY DEF Carries
<1>2. /\ v.cells = Front(w.cells) /\ v.format = w.format /\ v.size = w.size
      /\ DOMAIN v = {"format", "cells", "size"} /\ v = [f \in DOMAIN v |-> v[f]]
  BY DEF Carries
<1>3. /\ Front(w.cells) \in Seq(S) /\ Len(Front(w.cells)) = n - 1
      /\ \A i \in 1..(n - 1) : Front(w.cells)[i] = w.cells[i]
  BY <1>1 DEF Front
<1>4. v.cells \in Seq(ToSet(v.cells))
  BY <1>2, <1>3, SequenceOf DEF IsSequence
<1> HIDE DEF v, n
<1>5. \A i \in 1..Len(v.cells) : i \in 1..Len(w.cells) /\ v.cells[i] = w.cells[i]
  BY <1>1, <1>2, <1>3 DEF n
<1>6. Carries(v, h)
  BY <1>2, <1>4, <1>5 DEF Carries
<1>7. v # Nothing
  BY <1>2 DEF Carries, Nothing
<1> QED
  BY <1>6, <1>7 DEF v

\* What is accepted of the wire has, with the JSON library, the header that
\* was sent, if that was escaped or needed no escaping.
LEMMA FetchedIsSent ==
  ASSUME hasJson \in BOOLEAN, NEW w, NEW h, h = [f \in FieldSet |-> h[f]], Carries(w, h),
         NEW m, m = IF w.format = "binary" THEN DeserializeBinary(w.cells) ELSE DeserializeJson(w),
         m # Refused
  PROVE  Formed(m) /\ (hasJson /\ (w.format = "binary" => AllPlain(h)) => m.header = h)
<1>0. w.cells \in Seq(ToSet(w.cells)) /\ Len(w.cells) \in Nat /\ w.format \in {"binary", "json"}
  BY DEF Carries
<1>1. CASE w.format = "binary"
  <2>1. m = DeserializeBinary(w.cells) /\ w.cells # <<>>
    BY <1>1 DEF DeserializeBinary
  <2>2. w.cells[1] = 6
    <3>1. 1 \in 1..Len(w.cells)
      BY <1>0, <2>1, EmptySeq
    <3> QED
      BY <1>1, <3>1, FieldsFacts DEF Carries
  <2>3. Len(w.cells) >= 7 /\ m = IF hasJson THEN Parse(SubSeq(w.cells, 2, 7)) ELSE NewMessage
    BY <1>0, <2>1, <2>2 DEF DeserializeBinary
  <2>4. CASE ~hasJson
    BY <2>3, <2>4, NewFormed
  <2>5. CASE hasJson
    <3> DEFINE cells == SubSeq(w.cells, 2, 7)
    <3>1. \A i \in 1..6 : cells[i] = w.cells[i + 1]
      BY <1>0, <2>3
    <3> HIDE DEF cells
    <3>2. \A i \in 1..6 : cells[i] = h[Fields[i]]
      <4> SUFFICES ASSUME NEW i \in 1..6 PROVE cells[i] = h[Fields[i]]
        OBVIOUS
      <4>1. i + 1 \in 2..7 /\ i + 1 \in 1..Len(w.cells) /\ (i + 1) - 1 = i
        BY <1>0, <2>3
      <4>2. w.cells[i + 1] = h[Fields[(i + 1) - 1]]
        BY <1>1, <4>1 DEF Carries
      <4> QED
        BY <3>1, <4>1, <4>2
    <3> DEFINE fs == [f \in ToSet(Fields) |-> FieldOf(cells, f)]
    <3>3. m = WithFields(NewMessage, fs)
      BY <2>3, <2>5 DEF Parse, cells
    <3>4. ASSUME AllPlain(h) PROVE \A f \in FieldSet : fs[f] = h[f]
      BY <3>2, <3>4, FieldsFacts, PlainField
    <3>5. DOMAIN fs = FieldSet
      BY FieldsFacts
    <3> HIDE DEF fs
    <3>6. Formed(m) /\ m.header = [f \in FieldSet |-> IF f \in DOMAIN fs THEN fs[f] ELSE NewMessage.header[f]]
      BY <3>3, NewFormed, WithFieldsFormed
    <3>7. ASSUME AllPlain(h) PROVE m.header = h
      BY <3>4, <3>5, <3>6, <3>7
    <3> QED
      BY <1>1, <3>6, <3>7
  <2> QED
    BY <2>4, <2>5
<1>2. CASE w.format = "json"
  <2>1. m = DeserializeJson(w)
    BY <1>2
  <2>2. hasJson /\ ~(Len(w.cells) < w.size)
    BY <2>1 DEF DeserializeJson
  <2>3. m = WithFields(NewMessage, [f \in ToSet(Fields) |-> w.cells[CHOOSE i \in DOMAIN Fields : Fields[i] = f]])
    BY <2>1, <2>2 DEF DeserializeJson
  <2>4. \A i \in 1..6 : w.cells[i] = h[Fields[i]]
    <3>1. w.size \in Nat /\ w.size >= 6 /\ \A i \in 1..Len(w.cells) : i <= 6 => w.cells[i] = h[Fields[i]]
      BY <1>2 DEF Carries
    <3>2. \A i \in 1..6 : i \in 1..Len(w.cells) /\ i <= 6
      BY <1>0, <2>2, <3>1
    <3> QED
      BY <3>1, <3>2
  <2> QED
    BY <2>3, <2>4, HeaderReadBack
<1> QED
  BY <1>0, <1>1, <1>2

\* The four constructors.
LEMMA MessageInitInv == MessageInit => MessageInv
<1> SUFFICES ASSUME MessageInit PROVE MessageInv
  OBVIOUS
<1>1. PICK payload \in Payloads, a \in Idents, b \in Idents :
         message \in {[m EXCEPT !.payload = payload] :
                        m \in {NewMessage, OfType(a), ForTarget(a, b, a), Between(a, b, b, b, a)}}
  BY DEF MessageInit
<1>2. PICK m \in {NewMessage, OfType(a), ForTarget(a, b, a), Between(a, b, b, b, a)} :
         message = [m EXCEPT !.payload = payload]
  BY <1>1
<1>3. Formed(m)
  <2>1. Formed(OfType(a)) /\ Formed(ForTarget(a, b, a)) /\ Formed(Between(a, b, b, b, a))
    BY NewFormed, WithFieldsFormed DEF OfType, ForTarget, Between
  <2> QED
    BY <1>2, <2>1, NewFormed
<1>4. payload \in Seq(ToSet(payload))
  BY MessageAssumption
<1>5. /\ DOMAIN message = {"header", "payload"} /\ message = [f \in DOMAIN message |-> message[f]]
      /\ message.header = m.header /\ message.payload = payload
  BY <1>2, <1>3 DEF Formed
<1>6. Formed(message)
  BY <1>3, <1>4, <1>5 DEF Formed
<1> QED
  BY <1>6 DEF MessageInit, MessageInv

LEMMA ConfigureInv ==
  ASSUME MessageInv, NEW fs, Configure(WithFields(message, fs))
  PROVE  MessageInv'
<1>1. Formed(message) /\ stage = "request" /\ wire = Nothing
  BY DEF MessageInv, Configure
<1>2. Formed(WithFields(message, fs))
  BY <1>1, WithFieldsFormed
<1>3. /\ request' = WithFields(message, fs) /\ message' = request'
      /\ hasJson' = hasJson /\ unescaped' = unescaped /\ stage' = "request" /\ wire' = Nothing
  BY <1>1 DEF Configure
<1>4. Formed(request)'
  BY <1>2, <1>3 DEF Formed
<1> QED
  BY <1>1, <1>3, <1>4 DEF MessageInv

LEMMA PostInv ==
  ASSUME MessageInv, Post(SerializeBinary(message)) \/ Post(SerializeJson(message))
  PROVE  MessageInv'
<1>1. /\ stage \in {"request", "reply"} /\ message # Refused
      /\ UNCHANGED <<hasJson, stage, request, message>>
      /\ wire' = SerializeBinary(message) \/ wire' = SerializeJson(message)
      /\ unescaped' = (unescaped \/ (wire'.format = "binary" /\ \E f \in ToSet(Fields) : ~Plain(message.header[f])))
  BY DEF Post
<1>2. Formed(message)
  BY <1>1 DEF MessageInv
<1>3. Carries(wire', message.header)
  BY <1>1, <1>2, BinaryCarries, JsonCarries
<1>4. Carries(wire, message.header)'
  BY <1>1, <1>3
<1>5. unescaped' \in BOOLEAN /\ (~unescaped' => ~unescaped) /\ (wire'.format = "binary" /\ ~unescaped' => AllPlain(message.header))
  BY <1>1 DEF AllPlain
<1>6. (wire.format = "binary" /\ ~unescaped => AllPlain(message.header))'
  BY <1>1, <1>5 DEF AllPlain
<1> QED
  BY <1>1, <1>4, <1>5, <1>6 DEF MessageInv

LEMMA LoseEndInv ==
  ASSUME MessageInv, LoseEnd
  PROVE  MessageInv'
<1>1. Carries(wire, message.header) /\ wire.cells # <<>>
  BY DEF MessageInv, LoseEnd
<1>2. /\ wire # Nothing /\ UNCHANGED <<hasJson, stage, request, message, unescaped>>
      /\ wire' = [wire EXCEPT !.cells = Front(@)]
  BY DEF LoseEnd
<1>3. Carries(wire', message.header) /\ wire' # Nothing
  BY <1>1, <1>2, FrontCarries
<1>4. Carries(wire, message.header)' /\ wire'.format = wire.format
  BY <1>1, <1>2, <1>3 DEF Carries
<1>5. (wire.format = "binary" /\ ~unescaped => AllPlain(message.header))'
  BY <1>2, <1>4 DEF MessageInv, AllPlain
<1> QED
  BY <1>2, <1>4, <1>5 DEF MessageInv

LEMMA FetchInv ==
  ASSUME MessageInv, Fetch
  PROVE  MessageInv'
<1>1. /\ wire # Nothing /\ wire' = Nothing /\ UNCHANGED <<hasJson, request, unescaped>>
      /\ message' = IF wire.format = "binary" THEN DeserializeBinary(wire.cells) ELSE DeserializeJson(wire)
      /\ stage' = IF stage = "request" THEN "asked" ELSE "answered"
  BY DEF Fetch
<1>2. /\ hasJson \in BOOLEAN /\ stage \in {"request", "reply"} /\ message # Refused
      /\ Carries(wire, message.header) /\ Formed(message)
      /\ stage = "request" => message = request
      /\ hasJson /\ ~unescaped /\ stage = "reply" => message.header = Swapped(request.header)
      /\ wire.format = "binary" /\ ~unescaped => AllPlain(message.header)
  BY <1>1 DEF MessageInv
<1>3. ASSUME message' # Refused PROVE Formed(message') /\ (hasJson /\ ~unescaped => message'.header = message.header)
  <2>1. message.header = [f \in FieldSet |-> message.header[f]]
    BY <1>2 DEF Formed
  <2> QED
    BY <1>1, <1>2, <1>3, <2>1, FetchedIsSent
<1>4. /\ message' # Refused => Formed(message)'
      /\ Formed(request)'
  BY <1>1, <1>3 DEF Formed, MessageInv
<1>5. CASE stage = "request"
  BY <1>1, <1>2, <1>3, <1>4, <1>5 DEF MessageInv
<1>6. CASE stage = "reply"
  BY <1>1, <1>2, <1>3, <1>4, <1>6 DEF MessageInv
<1> QED
  BY <1>2, <1>5, <1>6

LEMMA RespondInv ==
  ASSUME MessageInv, Respond
  PROVE  MessageInv'
<1>1. /\ stage = "asked" /\ message # Refused /\ stage' = "reply"
      /\ message' = SwapHeaderOf(message) /\ UNCHANGED <<hasJson, request, wire, unescaped>>
  BY DEF Respond
<1>2. Formed(message) /\ wire = Nothing /\ (hasJson /\ ~unescaped => message.header = request.header)
  BY <1>1 DEF MessageInv
<1>3. Formed(message') /\ message'.header = Swapped(message.header)
  BY <1>1, <1>2, SwapTurns
<1>4. Formed(message)' /\ Formed(request)' /\ (hasJson' /\ ~unescaped' => message'.header = Swapped(request.header)')
  BY <1>1, <1>2, <1>3 DEF Formed, MessageInv
<1> QED
  BY <1>1, <1>2, <1>4 DEF MessageInv

\* Of a request and its reply, in any two formats, over a wire that loses any
\* part of their ends: what is accepted is addressed as the request asked,
\* whatever its fields hold in JSON, and in binary whatever plain fields.
THEOREM RepliesReach == MessageSpec => []ReplyReaches
<1>1. MessageInv /\ [MessageNext]_messageVars => MessageInv'
  <2> SUFFICES ASSUME MessageInv, [MessageNext]_messageVars PROVE MessageInv'
    OBVIOUS
  <2>1. CASE UNCHANGED messageVars
    BY <2>1 DEF messageVars, MessageInv, Formed, Carries, AllPlain
  <2>2. ASSUME NEW a \in Idents, NEW b \in Idents,
               \/ Configure(SetSourceOf(message, a, b)) \/ Configure(SetTargetOf(message, a, b))
               \/ Configure(SetTypeOf(message, a)) \/ Configure(SetVersionOf(message, a))
        PROVE  MessageInv'
    BY <2>2, ConfigureInv DEF SetSourceOf, SetTargetOf, SetTypeOf, SetVersionOf
  <2> QED
    BY <2>1, <2>2, PostInv, LoseEndInv, FetchInv, RespondInv DEF MessageNext
<1>2. MessageInv => ReplyReaches
  BY DEF MessageInv, ReplyReaches, Swapped
<1> QED
  BY <1>1, <1>2, MessageInitInv, PTL DEF MessageSpec

-----------------------------------------------------------------------------
(* The epoch manager *)

\* What else holds between the steps of the three kinds of thread.  A call of
\* defer_delete that carries no object is no call; a collector holds objects
\* only while it runs deleters, so that taking a list overwrites nothing; the
\* lists are finite, so that they have a size to count.
CallsWellFormed ==
  /\ \A w \in Writers : deferring[w].obj = NoObj => deferring[w] = NotDeferring
  /\ \A t \in Collectors : gc[t].phase \notin {"delete", "force_delete"} => gc[t].todo = {}
  /\ \A b \in Buckets : IsFiniteSet(retired[b])

IInv ==
  /\ TypeOK
  /\ CallsWellFormed
  /\ DeletedExactlyOnce

-----------------------------------------------------------------------------
(* Types and the shape of the calls in progress *)

\* What one thread of each role does, the choice of the object included.
ReaderStep(r) == EnterCritical(r) \/ ExitCritical(r) \/ \E o \in Objs : Acquire(r, o)
WriterStep(w) == DeferPush(w) \/ \E o \in Objs : DeferLoad(w, o)
CollectorStep(t) ==
  \/ GcAdvance(t) \/ Take(t) \/ GcCount(t) \/ ForceStart(t) \/ ForceNext(t) \/ ForceCount(t)
  \/ \E o \in Objs : Delete(t, o)

\* Every step is a step of one thread.
LEMMA NextIsThreadStep ==
  Next => \/ \E r \in Readers : ReaderStep(r)
          \/ \E w \in Writers : WriterStep(w)
          \/ \E t \in Collectors : CollectorStep(t)
  BY Zenon DEF Next, ReaderStep, WriterStep, CollectorStep

\* A fresh manager, before any thread has called it.
LEMMA InitTypes == Init => TypeOK /\ CallsWellFormed
  <1> SUFFICES ASSUME Init PROVE TypeOK /\ CallsWellFormed
    OBVIOUS
  <1> USE EpochBound, DepthBound
  <1>1. TypeOK
    BY DEF Init, TypeOK, Epochs, Phases, Buckets, NUM_EPOCHS, Idle, NotDeferring, INACTIVE
  <1>2. CallsWellFormed
    BY FS_EmptySet DEF Init, CallsWellFormed, Buckets, Idle, NotDeferring
  <1> QED
    BY <1>1, <1>2

\* defer_delete is carrying an object between its load and its push.
LEMMA CarriesObject ==
  ASSUME TypeOK, CallsWellFormed, NEW w \in Writers, deferring[w] # NotDeferring
  PROVE  deferring[w].obj \in Objs /\ deferring[w].bucket \in Buckets
  BY DEF TypeOK, CallsWellFormed

\* The steps of readers leave the lists and every collection alone.
LEMMA ReaderTypes ==
  ASSUME TypeOK, CallsWellFormed, NEW r \in Readers, ReaderStep(r)
  PROVE  TypeOK' /\ CallsWellFormed'
  <1> USE EpochBound, DepthBound
  <1>1. CallsWellFormed'
    BY DEF ReaderStep, EnterCritical, ExitCritical, Acquire, CallsWellFormed
  <1>2. CASE EnterCritical(r)
    BY <1>1, <1>2 DEF EnterCritical, TypeOK, countVars
  <1>3. CASE ExitCritical(r)
    BY <1>1, <1>3 DEF ExitCritical, TypeOK, countVars
  <1>4. CASE \E o \in Objs : Acquire(r, o)
    BY <1>1, <1>4 DEF Acquire, TypeOK, countVars
  <1> QED
    BY <1>2, <1>3, <1>4 DEF ReaderStep

\* The two halves of defer_delete.
LEMMA WriterTypes ==
  ASSUME TypeOK, CallsWellFormed, NEW w \in Writers, WriterStep(w)
  PROVE  TypeOK' /\ CallsWellFormed'
  <1> USE EpochBound, NoObjAssumption
  <1>1. ASSUME NEW o \in Objs, DeferLoad(w, o) PROVE TypeOK' /\ CallsWellFormed'
    <2>1. global_epoch % NUM_EPOCHS \in Buckets
      BY DEF TypeOK, Epochs, NUM_EPOCHS, Buckets
    <2>2. TypeOK'
      BY <1>1, <2>1 DEF DeferLoad, TypeOK, countVars, readerVars
    <2>3. CallsWellFormed'
      BY <1>1, <2>1 DEF DeferLoad, TypeOK, CallsWellFormed
    <2> QED
      BY <2>2, <2>3
  <1>2. CASE DeferPush(w)
    <2>1. deferring[w].obj \in Objs /\ deferring[w].bucket \in Buckets
      BY <1>2, CarriesObject DEF DeferPush
    <2>2. NotDeferring \in [obj : Objs \union {NoObj}, bucket : Buckets]
      BY DEF NotDeferring, Buckets, NUM_EPOCHS
    <2>3. TypeOK'
      BY <1>2, <2>1, <2>2 DEF DeferPush, TypeOK, countVars, readerVars
    <2>4. \A b \in Buckets : IsFiniteSet(retired'[b])
      <3> SUFFICES ASSUME NEW b \in Buckets PROVE IsFiniteSet(retired'[b])
        OBVIOUS
      <3>1. retired'[b] = retired[b] \/ retired'[b] = retired[b] \union {deferring[w].obj}
        BY <1>2, <2>1 DEF DeferPush, TypeOK
      <3>2. IsFiniteSet(retired[b])
        BY DEF CallsWellFormed
      <3>3. IsFiniteSet(retired[b] \union {deferring[w].obj})
        BY <3>2, FS_AddElement
      <3> QED
        BY <3>1, <3>2, <3>3
    <2>5. CallsWellFormed'
      BY <1>2, <2>1, <2>4 DEF DeferPush, TypeOK, CallsWellFormed, NotDeferring
    <2> QED
      BY <2>3, <2>5
  <1> QED
    BY <1>1, <1>2 DEF WriterStep

\* The steps of try_gc and force_gc.
LEMMA CollectorTypes ==
  ASSUME TypeOK, CallsWellFormed, NEW t \in Collectors, CollectorStep(t)
  PROVE  TypeOK' /\ CallsWellFormed'
  <1> USE EpochBound
  <1> DEFINE Call == [phase : Phases, current : Epochs, bucket : Buckets,
                      todo : SUBSET Objs, total : Nat]
  <1>0. Idle \in Call /\ gc[t] \in Call /\ gc \in [Collectors -> Call]
    BY DEF TypeOK, Idle, Phases, Epochs, Buckets, NUM_EPOCHS
  <1>1. CASE GcAdvance(t)
    <2>1. global_epoch >= 2 => SafeBucket(global_epoch) \in Buckets
      BY DEF TypeOK, Epochs, NUM_EPOCHS, Buckets, SafeBucket
    <2>2. gc'[t] \in Call /\ gc'[t].todo = {}
      <3>1. CASE global_epoch < 2
        BY <1>0, <1>1, <3>1 DEF GcAdvance, Idle
      <3>2. CASE ~(global_epoch < 2)
        <4>1. gc'[t] = [phase |-> "take", current |-> global_epoch,
                        bucket |-> SafeBucket(global_epoch), todo |-> {}, total |-> 0]
          BY <1>0, <1>1, <3>2 DEF GcAdvance, Idle
        <4> QED
          BY <2>1, <3>2, <4>1 DEF TypeOK, Phases, Epochs
      <3> QED
        BY <3>1, <3>2
    <2>3. gc' \in [Collectors -> Call] /\ \A u \in Collectors \ {t} : gc'[u] = gc[u]
      BY <1>0, <1>1, <2>2 DEF GcAdvance
    <2>4. TypeOK'
      BY <1>1, <2>3 DEF GcAdvance, TypeOK, Epochs, countVars, readerVars
    <2>5. \A u \in Collectors : gc'[u].phase \notin {"delete", "force_delete"} => gc'[u].todo = {}
      BY <2>2, <2>3 DEF CallsWellFormed
    <2>6. retired' = retired /\ deferring' = deferring
      BY <1>1 DEF GcAdvance
    <2> QED
      BY <2>4, <2>5, <2>6 DEF CallsWellFormed
  <1>2. CASE Take(t)
    <2>1. Cardinality(retired[gc[t].bucket]) \in Nat
      BY <1>0, FS_CardinalityType DEF CallsWellFormed
    <2>2. gc'[t] \in Call /\ gc'[t].phase \in {"delete", "force_delete"}
      <3>1. gc'[t] = [phase |-> IF gc[t].phase = "take" THEN "delete" ELSE "force_delete",
                      current |-> gc[t].current, bucket |-> gc[t].bucket,
                      todo |-> retired[gc[t].bucket],
                      total |-> gc[t].total + Cardinality(retired[gc[t].bucket])]
        BY <1>0, <1>2 DEF Take
      <3> QED
        BY <1>0, <2>1, <3>1 DEF TypeOK, Phases
    <2>3. gc' \in [Collectors -> Call] /\ \A u \in Collectors \ {t} : gc'[u] = gc[u]
      BY <1>0, <1>2, <2>2 DEF Take
    <2>4. TypeOK'
      BY <1>0, <1>2, <2>3 DEF Take, TypeOK, countVars, readerVars
    <2>5. \A b \in Buckets : retired'[b] = retired[b] \/ retired'[b] = {}
      BY <1>0, <1>2 DEF Take, TypeOK
    <2>6. \A u \in Collectors : gc'[u].phase \notin {"delete", "force_delete"} => gc'[u].todo = {}
      BY <2>2, <2>3 DEF CallsWellFormed
    <2>7. (\A b \in Buckets : IsFiniteSet(retired'[b])) /\ deferring' = deferring
      BY <1>2, <2>5, FS_EmptySet DEF Take, CallsWellFormed
    <2> QED
      BY <2>4, <2>6, <2>7 DEF CallsWellFormed
  <1>3. ASSUME NEW o \in Objs, Delete(t, o) PROVE TypeOK' /\ CallsWellFormed'
    BY <1>0, <1>3 DEF Delete, TypeOK, CallsWellFormed, countVars, readerVars
  <1>4. CASE GcCount(t)
    <2>1. gc'[t] = Idle /\ \A u \in Collectors \ {t} : gc'[u] = gc[u]
      BY <1>0, <1>4 DEF GcCount
    <2> QED
      BY <1>0, <1>4, <2>1 DEF GcCount, TypeOK, CallsWellFormed, Idle, readerVars
  <1>5. CASE ForceStart(t)
    BY <1>0, <1>5 DEF ForceStart, TypeOK, CallsWellFormed, Idle, Phases, countVars, readerVars
  <1>6. CASE ForceNext(t)
    BY <1>0, <1>6 DEF ForceNext, TypeOK, CallsWellFormed, Phases, Buckets, NUM_EPOCHS,
                      countVars, readerVars
  <1>7. CASE ForceCount(t)
    <2>1. gc'[t] = Idle /\ \A u \in Collectors \ {t} : gc'[u] = gc[u]
      BY <1>0, <1>7 DEF ForceCount
    <2> QED
      BY <1>0, <1>7, <2>1 DEF ForceCount, TypeOK, CallsWellFormed, Idle, readerVars
  <1> QED
    BY <1>1, <1>2, <1>3, <1>4, <1>5, <1>6, <1>7 DEF CollectorStep

\* No step of any thread breaks the types.
LEMMA StepTypes == TypeOK /\ CallsWellFormed /\ [Next]_vars => TypeOK' /\ CallsWellFormed'
  <1> SUFFICES ASSUME TypeOK, CallsWellFormed, [Next]_vars PROVE TypeOK' /\ CallsWellFormed'
    OBVIOUS
  <1>1. CASE UNCHANGED vars
    BY <1>1 DEF vars, TypeOK, CallsWellFormed
  <1> QED
    BY <1>1, NextIsThreadStep, ReaderTypes, WriterTypes, CollectorTypes

-----------------------------------------------------------------------------
(* Where an object is *)

\* The places, one disjunct per kind.
LEMMA PlaceKinds ==
  ASSUME NEW p \in Places
  PROVE  \/ p = <<"linked">>
         \/ p = <<"deleted">>
         \/ \E w \in Writers : p = <<"deferring", w>>
         \/ \E b \in Buckets : p = <<"retired", b>>
         \/ \E t \in Collectors : p = <<"collecting", t>>
  BY DEF Places

\* What it is to be at each of them, in this state and in the next.
LEMMA PlaceMeaning ==
  ASSUME NEW o
  PROVE  /\ Position(o, <<"linked">>) <=> o \in linked
         /\ Position(o, <<"deleted">>) <=> o \in deleted
         /\ \A w : Position(o, <<"deferring", w>>) <=> deferring[w].obj = o
         /\ \A b : Position(o, <<"retired", b>>) <=> o \in retired[b]
         /\ \A t : Position(o, <<"collecting", t>>) <=> o \in gc[t].todo
  BY DEF Position

\* Distinct kinds are distinct places.
LEMMA PlacesDiffer ==
  /\ <<"linked">> # <<"deleted">>
  /\ \A x : <<"linked">> # <<"deferring", x>> /\ <<"linked">> # <<"retired", x>>
            /\ <<"linked">> # <<"collecting", x>> /\ <<"deleted">> # <<"deferring", x>>
            /\ <<"deleted">> # <<"retired", x>> /\ <<"deleted">> # <<"collecting", x>>
  /\ \A x, y : /\ <<"deferring", x>> # <<"retired", y>>
               /\ <<"deferring", x>> # <<"collecting", y>>
               /\ <<"retired", x>> # <<"collecting", y>>
  OBVIOUS

\* A step that moves some objects from one place to another, and no object
\* elsewhere, keeps every object at exactly one place.
LEMMA MoveKeepsOnePlace ==
  ASSUME DeletedExactlyOnce, NEW M, NEW src \in Places, NEW dst \in Places,
         \A o \in M : Position(o, src),
         \A o \in Objs \ M : \A p \in Places : Position(o, p)' <=> Position(o, p),
         \A o \in Objs \cap M : \A p \in Places :
           Position(o, p)' <=> (p = dst \/ (p # src /\ Position(o, p)))
  PROVE  DeletedExactlyOnce'
  <1> SUFFICES ASSUME NEW o \in Objs
               PROVE  \E p \in Places : /\ Position(o, p)'
                                        /\ \A q \in Places : Position(o, q)' => q = p
    BY Zenon DEF DeletedExactlyOnce, Places, Buckets
  <1>1. PICK p \in Places : Position(o, p) /\ \A q \in Places : Position(o, q) => q = p
    BY Zenon DEF DeletedExactlyOnce
  <1>2. CASE o \in M
    <2>1. p = src
      BY <1>1, <1>2
    <2>2. Position(o, dst)' /\ \A q \in Places : Position(o, q)' => q = dst
      BY <1>1, <1>2, <2>1
    <2> QED
      BY <2>2
  <1>3. CASE o \notin M
    BY <1>1, <1>3
  <1> QED
    BY <1>2, <1>3

\* A step that changes no list moves nothing.
LEMMA NoMove ==
  ASSUME DeletedExactlyOnce,
         linked' = linked, deleted' = deleted, deferring' = deferring, retired' = retired,
         \A t \in Collectors : gc'[t].todo = gc[t].todo
  PROVE  DeletedExactlyOnce'
  <1>1. \A o \in Objs \ {} : \A p \in Places : Position(o, p)' <=> Position(o, p)
    BY PlaceKinds DEF Position
  <1>2. <<"linked">> \in Places
    BY DEF Places
  <1>3. /\ \A o \in {} : Position(o, <<"linked">>)
        /\ \A o \in Objs \cap {} : \A p \in Places : Position(o, p)' <=>
             (p = <<"linked">> \/ (p # <<"linked">> /\ Position(o, p)))
    OBVIOUS
  <1> QED
    BY <1>1, <1>2, <1>3, MoveKeepsOnePlace, Zenon

\* defer_delete takes the object over from the structure and passes it to a
\* list; a collector takes the list and passes its objects to their deleters.
LEMMA StepPlaces ==
  TypeOK /\ CallsWellFormed /\ DeletedExactlyOnce /\ [Next]_vars => DeletedExactlyOnce'
  <1> SUFFICES ASSUME TypeOK, CallsWellFormed, DeletedExactlyOnce, [Next]_vars
               PROVE  DeletedExactlyOnce'
    OBVIOUS
  <1>1. CASE UNCHANGED vars
    BY <1>1, NoMove DEF vars
  <1>2. ASSUME NEW r \in Readers, ReaderStep(r) PROVE DeletedExactlyOnce'
    <2>1. /\ linked' = linked /\ deleted' = deleted /\ deferring' = deferring
          /\ retired' = retired /\ gc' = gc
      BY <1>2 DEF ReaderStep, EnterCritical, ExitCritical, Acquire
    <2> QED
      BY <2>1, NoMove
  <1>3. ASSUME NEW w \in Writers, NEW o \in Objs, DeferLoad(w, o) PROVE DeletedExactlyOnce'
    <2> DEFINE dst == <<"deferring", w>>
    <2>1. <<"linked">> \in Places /\ dst \in Places
      BY DEF Places
    <2>2. \A x \in {o} : Position(x, <<"linked">>)
      BY <1>3, PlaceMeaning DEF DeferLoad
    <2>3. /\ linked' = linked \ {o} /\ deleted' = deleted /\ retired' = retired /\ gc' = gc
          /\ deferring'[w].obj = o /\ deferring[w].obj = NoObj
          /\ \A v \in Writers \ {w} : deferring'[v] = deferring[v]
      BY <1>3 DEF DeferLoad, TypeOK, NotDeferring
    <2>4. \A x \in Objs \ {o} : \A p \in Places : Position(x, p)' <=> Position(x, p)
      BY <2>3, PlaceKinds, NoObjAssumption DEF Position
    <2>5. \A x \in Objs \cap {o} : \A p \in Places :
            Position(x, p)' <=> (p = dst \/ (p # <<"linked">> /\ Position(x, p)))
      BY <2>3, PlaceKinds, PlacesDiffer, NoObjAssumption DEF Position
    <2> QED
      BY <2>1, <2>2, <2>4, <2>5, MoveKeepsOnePlace, Zenon
  <1>4. ASSUME NEW w \in Writers, DeferPush(w) PROVE DeletedExactlyOnce'
    <2> DEFINE o == deferring[w].obj
               b == deferring[w].bucket
               src == <<"deferring", w>>
               dst == <<"retired", b>>
    <2>0. o \in Objs /\ b \in Buckets
      BY <1>4, CarriesObject DEF DeferPush
    <2>1. src \in Places /\ dst \in Places
      BY <2>0 DEF Places
    <2>2. \A x \in {o} : Position(x, src)
      BY PlaceMeaning
    <2>3. /\ linked' = linked /\ deleted' = deleted /\ gc' = gc
          /\ deferring'[w].obj = NoObj
          /\ \A v \in Writers \ {w} : deferring'[v] = deferring[v]
          /\ retired'[b] = retired[b] \union {o}
          /\ \A c \in Buckets \ {b} : retired'[c] = retired[c]
      BY <1>4, <2>0 DEF DeferPush, TypeOK, NotDeferring
    <2>4. \A x \in Objs \ {o} : \A p \in Places : Position(x, p)' <=> Position(x, p)
      BY <2>3, PlaceKinds, NoObjAssumption DEF Position
    <2>5. \A x \in Objs \cap {o} : \A p \in Places :
            Position(x, p)' <=> (p = dst \/ (p # src /\ Position(x, p)))
      BY <2>3, <2>0, PlaceKinds, PlacesDiffer, NoObjAssumption DEF Position
    <2> HIDE DEF o, src, dst
    <2> QED
      BY <2>1, <2>2, <2>4, <2>5, MoveKeepsOnePlace, Zenon
  <1>5. ASSUME NEW t \in Collectors, Take(t) PROVE DeletedExactlyOnce'
    <2> DEFINE b == gc[t].bucket
               M == retired[b]
               src == <<"retired", b>>
               dst == <<"collecting", t>>
    <2>0. b \in Buckets /\ gc[t].todo = {}
      BY <1>5 DEF Take, TypeOK, CallsWellFormed
    <2>1. src \in Places /\ dst \in Places
      BY <2>0 DEF Places
    <2>2. \A x \in M : Position(x, src)
      BY PlaceMeaning
    <2>3. /\ linked' = linked /\ deleted' = deleted /\ deferring' = deferring
          /\ gc'[t].todo = M /\ \A u \in Collectors \ {t} : gc'[u] = gc[u]
          /\ retired'[b] = {} /\ \A c \in Buckets \ {b} : retired'[c] = retired[c]
      BY <1>5, <2>0 DEF Take, TypeOK
    <2>4. \A x \in Objs \ M : \A p \in Places : Position(x, p)' <=> Position(x, p)
      BY <2>0, <2>3, PlaceKinds DEF Position
    <2>5. \A x \in Objs \cap M : \A p \in Places :
            Position(x, p)' <=> (p = dst \/ (p # src /\ Position(x, p)))
      BY <2>0, <2>3, PlaceKinds, PlacesDiffer DEF Position
    <2> HIDE DEF M, src, dst
    <2> QED
      BY <2>1, <2>2, <2>4, <2>5, MoveKeepsOnePlace, Zenon
  <1>6. ASSUME NEW t \in Collectors, NEW o \in Objs, Delete(t, o) PROVE DeletedExactlyOnce'
    <2> DEFINE src == <<"collecting", t>>
    <2>1. src \in Places /\ <<"deleted">> \in Places
      BY DEF Places
    <2>2. \A x \in {o} : Position(x, src)
      BY <1>6, PlaceMeaning DEF Delete
    <2>3. /\ linked' = linked /\ deleted' = deleted \union {o}
          /\ deferring' = deferring /\ retired' = retired
          /\ gc'[t].todo = gc[t].todo \ {o} /\ \A u \in Collectors \ {t} : gc'[u] = gc[u]
      BY <1>6 DEF Delete, TypeOK
    <2>4. \A x \in Objs \ {o} : \A p \in Places : Position(x, p)' <=> Position(x, p)
      BY <2>3, PlaceKinds DEF Position
    <2>5. \A x \in Objs \cap {o} : \A p \in Places :
            Position(x, p)' <=> (p = <<"deleted">> \/ (p # src /\ Position(x, p)))
      BY <2>3, PlaceKinds, PlacesDiffer DEF Position
    <2> HIDE DEF src
    <2> QED
      BY <2>1, <2>2, <2>4, <2>5, MoveKeepsOnePlace, Zenon
  <1>7. ASSUME NEW t \in Collectors, GcAdvance(t) \/ ForceStart(t) \/ ForceNext(t)
                                     \/ GcCount(t) \/ ForceCount(t)
        PROVE  DeletedExactlyOnce'
    <2>1. gc'[t].todo = gc[t].todo
      <3>1. CASE GcAdvance(t)
        <4>1. \/ gc'[t] = Idle
              \/ gc'[t] = [phase |-> "take", current |-> global_epoch,
                           bucket |-> SafeBucket(global_epoch), todo |-> {}, total |-> 0]
          BY <3>1 DEF GcAdvance, TypeOK, Idle
        <4> QED
          BY <3>1, <4>1 DEF GcAdvance, Idle
      <3>2. CASE GcCount(t) \/ ForceCount(t)
        <4>1. gc'[t] = Idle /\ gc[t].todo = {}
          BY <3>2 DEF GcCount, ForceCount, TypeOK
        <4> QED
          BY <4>1 DEF Idle
      <3>3. CASE ForceStart(t) \/ ForceNext(t)
        BY <3>3 DEF ForceStart, ForceNext, TypeOK
      <3> QED
        BY <1>7, <3>1, <3>2, <3>3
    <2>2. /\ linked' = linked /\ deleted' = deleted /\ deferring' = deferring
          /\ retired' = retired /\ \A u \in Collectors \ {t} : gc'[u] = gc[u]
      BY <1>7 DEF GcAdvance, ForceStart, ForceNext, GcCount, ForceCount, TypeOK
    <2> QED
      BY <2>1, <2>2, NoMove
  <1> QED
    BY <1>1, <1>2, <1>3, <1>4, <1>5, <1>6, <1>7, NextIsThreadStep
       DEF WriterStep, CollectorStep

\* At first every object is linked.
LEMMA InitPlaces == Init => DeletedExactlyOnce
  <1> SUFFICES ASSUME Init, NEW o \in Objs
               PROVE  \E p \in Places : Position(o, p) /\ \A q \in Places : Position(o, q) => q = p
    BY Zenon DEF DeletedExactlyOnce
  <1>1. <<"linked">> \in Places /\ Position(o, <<"linked">>)
    BY DEF Init, Places, Position
  <1>2. \A q \in Places : Position(o, q) => q = <<"linked">>
    BY PlaceKinds, NoObjAssumption DEF Init, Position, NotDeferring, Idle
  <1> QED
    BY <1>1, <1>2

-----------------------------------------------------------------------------
(* Epochs and lists *)

-----------------------------------------------------------------------------
(* The theorems *)

\* The inductive invariant holds of every behaviour.
THEOREM Invariance == Spec => []IInv
  <1>1. Init => IInv
    BY InitTypes, InitPlaces DEF IInv
  <1>2. IInv /\ [Next]_vars => IInv'
    BY StepTypes, StepPlaces DEF IInv
  <1> QED
    BY <1>1, <1>2, PTL DEF Spec

\* The variables of the manager keep their types; in particular the retire
\* lists stay finite and hold objects of the structure only.
THEOREM TypeCorrect == Spec => []TypeOK
  BY Invariance, PTL DEF IInv

\* Whatever the interleaving of defer_delete, try_gc and force_gc, an object is
\* never lost between the lists and never handed to two deleters.
THEOREM ExactlyOnce == Spec => []DeletedExactlyOnce
  BY Invariance, PTL DEF IInv
=============================================================================
