----------------------- MODULE PolicyContainerProofs -----------------------
(***************************************************************************)
(* Proofs about PolicyContainer, for every set of containers, keys and     *)
(* values and every batch callers may make: the index describes the        *)
(* vector, every policy answers like one map, and iteration keeps its      *)
(* order.                                                                  *)
(***************************************************************************)
EXTENDS PolicyContainer, SequenceTheorems, TLAPS

\* The invariants for one container: its vector vs, index ix and map m.
Unique(vs) == \A i, j \in DOMAIN vs : vs[i].name = vs[j].name => i = j
Describes(ix, vs) ==
  /\ \A k \in DOMAIN ix : ix[k] \in DOMAIN vs /\ vs[ix[k]].name = k
  /\ \A i \in DOMAIN vs : vs[i].name \in DOMAIN ix
StandsFor(vs, m) ==
  /\ \A i \in DOMAIN vs : m[vs[i].name] = vs[i].val
  /\ \A k \in Keys : (\A i \in DOMAIN vs : vs[i].name # k) => m[k] = Absent

Maps == [Keys -> Vals \union {Absent}]
IndexType(ix) == DOMAIN ix \subseteq Keys /\ ix \in [DOMAIN ix -> Nat \ {0}]

\* The inductive invariant: also, a container that is in a call is not stale,
\* and vector and map agree even when the index does not.
Sound ==
  \A c \in Containers :
    /\ Unique(values[c])
    /\ StandsFor(values[c], map[c])
    /\ policy = "indexed" /\ c \notin stale => Describes(index[c], values[c])
    /\ batch[c] # <<>> => c \notin stale
IInv == TypeOK /\ Sound

-----------------------------------------------------------------------------
(* Vectors, indexes and maps *)

\* find_by_key returns the position of a name, and 0 exactly when it is absent.
LEMMA FindByKeyCorrect ==
  ASSUME NEW vs \in Seq(Unit), NEW k, Unique(vs)
  PROVE  /\ FindByKey(vs, k) = 0 => \A i \in DOMAIN vs : vs[i].name # k
         /\ FindByKey(vs, k) # 0 => /\ FindByKey(vs, k) \in DOMAIN vs
                                    /\ vs[FindByKey(vs, k)].name = k
<1> DEFINE I == {i \in 1..Len(vs) : vs[i].name = k}
<1>1. FindByKey(vs, k) = IF I # {} THEN Min(I) ELSE 0
  BY DEF FindByKey, SelectInSeq
<1>2. ASSUME I # {} PROVE Min(I) \in I
  <2>1. PICK i \in I : TRUE
    BY <1>2
  <2>2. \A j \in I : i <= j
    BY <2>1 DEF Unique
  <2>3. QED
    BY <2>1, <2>2 DEF Min
<1>3. CASE I = {}
  BY <1>1, <1>3
<1>4. CASE I # {}
  BY <1>1, <1>2, <1>4
<1>5. QED
  BY <1>3, <1>4

\* The values of a vector have a key and a payload.
LEMMA UnitFields ==
  ASSUME NEW vs \in Seq(Unit), NEW i \in DOMAIN vs
  PROVE  vs[i].name \in Keys /\ vs[i].val \in Vals
<1>1. vs[i] \in Unit
  OBVIOUS
<1>2. QED
  BY <1>1 DEF Unit

\* A value of a new name, appended and indexed.
LEMMA AppendSound ==
  ASSUME NEW vs \in Seq(Unit), NEW ix, NEW m \in Maps, NEW u \in Unit,
         IndexType(ix), Unique(vs), StandsFor(vs, m),
         \A i \in DOMAIN vs : vs[i].name # u.name
  PROVE  /\ Append(vs, u) \in Seq(Unit)
         /\ Unique(Append(vs, u))
         /\ StandsFor(Append(vs, u), [m EXCEPT ![u.name] = u.val])
         /\ IndexType(Entered(ix, u.name, Len(vs) + 1))
         /\ Describes(ix, vs) => Describes(Entered(ix, u.name, Len(vs) + 1), Append(vs, u))
<1> DEFINE ws == Append(vs, u)
           n == Len(vs)
           jx == Entered(ix, u.name, n + 1)
<1>1. /\ ws \in Seq(Unit) /\ n \in Nat /\ DOMAIN ws = 1..(n + 1) /\ DOMAIN vs = 1..n
      /\ ws[n + 1] = u /\ \A i \in 1..n : ws[i] = vs[i]
  OBVIOUS
<1>2. u.name \in Keys /\ u.val \in Vals
  BY DEF Unit
<1>3. \A i \in 1..n : vs[i].name \in Keys /\ vs[i].val \in Vals
  BY <1>1, UnitFields
<1> HIDE DEF ws, n
<1>4. Unique(ws)
  BY <1>1 DEF Unique
<1>5. StandsFor(ws, [m EXCEPT ![u.name] = u.val])
  BY <1>1, <1>2, <1>3 DEF StandsFor, Maps
<1>6. IndexType(jx)
  BY <1>1, <1>2 DEF IndexType, Entered
<1>7. Describes(ix, vs) => Describes(jx, ws)
  BY <1>1 DEF Describes, Entered
<1>8. QED
  BY <1>1, <1>4, <1>5, <1>6, <1>7 DEF ws, n

\* A value of a name that is there, overwritten in its place.
LEMMA ReplaceSound ==
  ASSUME NEW vs \in Seq(Unit), NEW ix, NEW m \in Maps, NEW u \in Unit, NEW i \in DOMAIN vs,
         Unique(vs), StandsFor(vs, m), vs[i].name = u.name
  PROVE  /\ ReplaceAt(vs, i, u) \in Seq(Unit)
         /\ Unique(ReplaceAt(vs, i, u))
         /\ StandsFor(ReplaceAt(vs, i, u), [m EXCEPT ![u.name] = u.val])
         /\ Describes(ix, vs) => Describes(ix, ReplaceAt(vs, i, u))
<1> DEFINE ws == ReplaceAt(vs, i, u)
<1>1. /\ ws \in Seq(Unit) /\ DOMAIN ws = DOMAIN vs
      /\ ws[i] = u /\ \A j \in DOMAIN vs \ {i} : ws[j] = vs[j]
  BY DEF ReplaceAt
<1>2. u.name \in Keys /\ \A j \in DOMAIN vs : vs[j].name \in Keys
  BY UnitFields DEF Unit
<1>3. \A j \in DOMAIN vs : ws[j].name = vs[j].name
  BY <1>1
<1> HIDE DEF ws
<1>4. Unique(ws)
  BY <1>1, <1>3 DEF Unique
<1>5. StandsFor(ws, [m EXCEPT ![u.name] = u.val])
  BY <1>1, <1>2, <1>3 DEF StandsFor, Maps, Unique
<1>6. Describes(ix, vs) => Describes(ix, ws)
  BY <1>1, <1>3 DEF Describes
<1>7. QED
  BY <1>1, <1>4, <1>5, <1>6 DEF ws

\* The index without a key whose position was given to values behind it.
Closed(ix, k) ==
  [j \in DOMAIN ix \ {k} |-> IF ix[j] > ix[k] THEN ix[j] - 1 ELSE ix[j]]

\* What values_.erase(it) leaves of the vector.
LEMMA ErasedAt ==
  ASSUME NEW vs \in Seq(Unit), NEW i \in DOMAIN vs
  PROVE  /\ RemoveAt(vs, i) \in Seq(Unit) /\ DOMAIN RemoveAt(vs, i) = 1..(Len(vs) - 1)
         /\ \A j \in 1..(Len(vs) - 1) : RemoveAt(vs, i)[j] = IF j < i THEN vs[j] ELSE vs[j + 1]
<1> DEFINE ws == RemoveAt(vs, i)
           n == Len(vs)
<1>0. n \in Nat /\ DOMAIN vs = 1..n /\ i \in 1..n
  OBVIOUS
<1> DEFINE a == SubSeq(vs, 1, i - 1)
           b == SubSeq(vs, i + 1, n)
<1>1. a \in Seq(Unit) /\ Len(a) = i - 1 /\ \A j \in 1..(i - 1) : a[j] = vs[j]
  BY <1>0
<1>2. b \in Seq(Unit) /\ Len(b) = n - i /\ \A j \in 1..(n - i) : b[j] = vs[i + j]
  BY <1>0
<1>3. ws = a \o b
  BY DEF RemoveAt
<1> HIDE DEF a, b, ws, n
<1>4. /\ ws \in Seq(Unit) /\ Len(ws) = n - 1
      /\ \A j \in 1..(n - 1) : ws[j] = IF j <= i - 1 THEN a[j] ELSE b[j - (i - 1)]
  <2>1. /\ a \o b \in Seq(Unit) /\ Len(a \o b) = Len(a) + Len(b)
        /\ \A j \in 1..(Len(a) + Len(b)) :
             (a \o b)[j] = IF j <= Len(a) THEN a[j] ELSE b[j - Len(a)]
    BY <1>1, <1>2, ConcatProperties
  <2>2. Len(a) = i - 1 /\ Len(a) + Len(b) = n - 1
    BY <1>0, <1>1, <1>2
  <2>3. QED
    BY <1>3, <2>1, <2>2
<1>5. ASSUME NEW j \in 1..(n - 1) PROVE ws[j] = IF j < i THEN vs[j] ELSE vs[j + 1]
  <2>1. CASE j < i
    BY <1>0, <1>1, <1>4, <1>5, <2>1
  <2>2. CASE ~(j < i)
    <3>1. j - (i - 1) \in 1..(n - i) /\ i + (j - (i - 1)) = j + 1 /\ ~(j <= i - 1)
      BY <1>0, <1>5, <2>2
    <3>2. QED
      BY <1>2, <1>4, <1>5, <2>2, <3>1
  <2>3. QED
    BY <2>1, <2>2
<1>6. QED
  BY <1>4, <1>5 DEF ws, n

\* Erasing the value at i: what was behind it moves up, in the vector and in
\* the index.
LEMMA EraseSound ==
  ASSUME NEW vs \in Seq(Unit), NEW ix, NEW m \in Maps, NEW i \in DOMAIN vs,
         IndexType(ix), Unique(vs), StandsFor(vs, m)
  PROVE  /\ RemoveAt(vs, i) \in Seq(Unit)
         /\ Unique(RemoveAt(vs, i))
         /\ StandsFor(RemoveAt(vs, i), [m EXCEPT ![vs[i].name] = Absent])
         /\ Describes(ix, vs) /\ ix[vs[i].name] = i =>
              /\ IndexType(Closed(ix, vs[i].name))
              /\ Describes(Closed(ix, vs[i].name), RemoveAt(vs, i))
<1> DEFINE ws == RemoveAt(vs, i)
           n == Len(vs)
           k == vs[i].name
           jx == Closed(ix, k)
<1>1. n \in Nat /\ DOMAIN vs = 1..n /\ i \in 1..n
  OBVIOUS
<1>2. /\ ws \in Seq(Unit) /\ DOMAIN ws = 1..(n - 1)
      /\ \A j \in 1..(n - 1) : ws[j] = IF j < i THEN vs[j] ELSE vs[j + 1]
  BY <1>1, ErasedAt
<1>3. \A j \in 1..n : vs[j].name \in Keys
  BY <1>1, UnitFields
<1>4. \A j \in 1..n : j # i => \E l \in 1..(n - 1) : ws[l] = vs[j]
  <2> SUFFICES ASSUME NEW j \in 1..n, j # i PROVE \E l \in 1..(n - 1) : ws[l] = vs[j]
    OBVIOUS
  <2>1. CASE j < i
    BY <1>1, <1>2, <2>1
  <2>2. CASE j > i
    <3>1. j - 1 \in 1..(n - 1) /\ ~(j - 1 < i) /\ (j - 1) + 1 = j
      BY <1>1, <2>2
    <3>2. QED
      BY <1>2, <3>1
  <2>3. QED
    BY <1>1, <2>1, <2>2
<1>5. \A l \in 1..(n - 1) : \E j \in 1..n : /\ ws[l] = vs[j] /\ j # i
                                            /\ j = IF l < i THEN l ELSE l + 1
  BY <1>1, <1>2
<1> HIDE DEF ws, n
<1>6. Unique(ws)
  <2> SUFFICES ASSUME NEW l \in 1..(n - 1), NEW o \in 1..(n - 1), ws[l].name = ws[o].name
               PROVE  l = o
    BY <1>2 DEF Unique
  <2> DEFINE Old(x) == IF x < i THEN x ELSE x + 1
  <2>1. Old(l) \in 1..n /\ Old(o) \in 1..n /\ ws[l] = vs[Old(l)] /\ ws[o] = vs[Old(o)]
    BY <1>1, <1>2
  <2>2. Old(l) = Old(o)
    BY <1>1, <2>1 DEF Unique
  <2>3. QED
    BY <1>1, <2>2
<1>7. \A l \in 1..(n - 1) : ws[l].name # k
  BY <1>1, <1>5 DEF Unique
<1>8. StandsFor(ws, [m EXCEPT ![k] = Absent])
  <2> DEFINE mm == [m EXCEPT ![k] = Absent]
  <2>1. mm[k] = Absent /\ \A j \in Keys : j # k => mm[j] = m[j]
    BY <1>1, <1>3 DEF Maps
  <2>2. ASSUME NEW l \in 1..(n - 1) PROVE mm[ws[l].name] = ws[l].val
    <3>1. PICK j \in 1..n : ws[l] = vs[j]
      BY <1>5
    <3>2. QED
      BY <1>1, <1>3, <1>7, <2>1, <3>1 DEF StandsFor
  <2>3. ASSUME NEW j \in Keys, \A l \in 1..(n - 1) : ws[l].name # j
        PROVE  mm[j] = Absent
    <3>1. CASE j = k
      BY <2>1, <3>1
    <3>2. CASE j # k
      <4>1. \A o \in 1..n : vs[o].name # j
        BY <1>4, <2>3, <3>2
      <4>2. QED
        BY <1>1, <2>1, <3>2, <4>1 DEF StandsFor
    <3>3. QED
      BY <3>1, <3>2
  <2>4. QED
    BY <1>2, <2>2, <2>3 DEF StandsFor
<1>9. ASSUME Describes(ix, vs), ix[k] = i
      PROVE  IndexType(jx) /\ Describes(jx, ws)
  <2>1. k \in DOMAIN ix
    BY <1>1, <1>9 DEF Describes
  <2>2. DOMAIN jx = DOMAIN ix \ {k}
    BY DEF Closed
  <2>3. ASSUME NEW j \in DOMAIN jx
        PROVE  /\ jx[j] \in 1..(n - 1)
               /\ ws[jx[j]].name = j
    <3>1. ix[j] \in 1..n /\ vs[ix[j]].name = j /\ ix[j] # i
      BY <1>1, <1>9, <2>2, <2>3 DEF Describes
    <3>2. jx[j] = IF ix[j] > i THEN ix[j] - 1 ELSE ix[j]
      BY <1>9, <2>2, <2>3 DEF Closed
    <3>3. CASE ix[j] > i
      <4>1. jx[j] = ix[j] - 1 /\ jx[j] \in 1..(n - 1) /\ ~(jx[j] < i) /\ jx[j] + 1 = ix[j]
        BY <1>1, <3>1, <3>2, <3>3
      <4>2. QED
        BY <1>2, <3>1, <4>1
    <3>4. CASE ix[j] < i
      <4>1. jx[j] = ix[j] /\ jx[j] \in 1..(n - 1) /\ jx[j] < i
        BY <1>1, <3>1, <3>2, <3>4
      <4>2. QED
        BY <1>2, <3>1, <4>1
    <3>5. QED
      BY <1>1, <3>1, <3>3, <3>4
  <2>4. IndexType(jx)
    <3>1. \A j \in DOMAIN jx : jx[j] \in Nat \ {0}
      BY <1>1, <2>3
    <3>2. QED
      BY <2>2, <3>1 DEF IndexType, Closed
  <2>5. \A l \in 1..(n - 1) : ws[l].name \in DOMAIN jx
    BY <1>1, <1>5, <1>7, <1>9, <2>2 DEF Describes
  <2>6. QED
    BY <1>2, <2>3, <2>4, <2>5 DEF Describes
<1>10. QED
  BY <1>2, <1>6, <1>8, <1>9 DEF ws

\* A rearranged vector stands for the same map.
LEMMA ReverseSound ==
  ASSUME NEW vs \in Seq(Unit), NEW m \in Maps, Unique(vs), StandsFor(vs, m)
  PROVE  Reverse(vs) \in Seq(Unit) /\ Unique(Reverse(vs)) /\ StandsFor(Reverse(vs), m)
<1> DEFINE ws == Reverse(vs)
           n == Len(vs)
<1>1. /\ n \in Nat /\ DOMAIN vs = 1..n /\ ws \in Seq(Unit) /\ DOMAIN ws = 1..n
      /\ \A i \in 1..n : ws[i] = vs[(n - i) + 1] /\ (n - i) + 1 \in 1..n
  BY DEF Reverse
<1>2. \A j \in 1..n : \E i \in 1..n : ws[i] = vs[j]
  <2> SUFFICES ASSUME NEW j \in 1..n PROVE \E i \in 1..n : ws[i] = vs[j]
    OBVIOUS
  <2>1. (n - j) + 1 \in 1..n /\ (n - ((n - j) + 1)) + 1 = j
    BY <1>1
  <2>2. QED
    BY <1>1, <2>1
<1> HIDE DEF ws, n
<1>3. Unique(ws)
  BY <1>1 DEF Unique
<1>4. StandsFor(ws, m)
  <2>1. \A i \in 1..n : m[ws[i].name] = ws[i].val
    BY <1>1 DEF StandsFor
  <2>2. ASSUME NEW k \in Keys, \A i \in 1..n : ws[i].name # k PROVE m[k] = Absent
    <3>1. \A j \in 1..n : vs[j].name # k
      BY <1>2, <2>2
    <3>2. QED
      BY <1>1, <3>1 DEF StandsFor
  <2>3. QED
    BY <1>1, <2>1, <2>2 DEF StandsFor
<1>5. QED
  BY <1>1, <1>3, <1>4 DEF ws

\* The index that rebuild_index makes.
Rebuilt(vs) ==
  [k \in {vs[i].name : i \in DOMAIN vs} |->
     CHOOSE i \in DOMAIN vs : /\ vs[i].name = k
                              /\ \A j \in DOMAIN vs : vs[j].name = k => j <= i]

\* With unique names it describes the vector.
LEMMA RebuildSound ==
  ASSUME NEW vs \in Seq(Unit), Unique(vs)
  PROVE  IndexType(Rebuilt(vs)) /\ Describes(Rebuilt(vs), vs)
<1> DEFINE K == {vs[i].name : i \in DOMAIN vs}
<1>1. DOMAIN vs = 1..Len(vs) /\ K \subseteq Keys
  BY UnitFields
<1>2. ASSUME NEW k \in K
      PROVE  Rebuilt(vs)[k] \in DOMAIN vs /\ vs[Rebuilt(vs)[k]].name = k
  <2>1. PICK i \in DOMAIN vs : vs[i].name = k
    BY <1>2
  <2>2. \A j \in DOMAIN vs : vs[j].name = k => j <= i
    BY <1>1, <2>1 DEF Unique
  <2>3. QED
    BY <1>2, <2>1, <2>2 DEF Rebuilt
<1>3. DOMAIN Rebuilt(vs) = K
  BY DEF Rebuilt
<1>4. Rebuilt(vs) \in [K -> Nat \ {0}]
  <2>1. \A k \in K : Rebuilt(vs)[k] \in Nat \ {0}
    BY <1>1, <1>2
  <2>2. QED
    BY <2>1 DEF Rebuilt
<1>5. QED
  BY <1>1, <1>2, <1>3, <1>4 DEF IndexType, Describes

-----------------------------------------------------------------------------
(* The invariant *)

\* An action that gives container c the vector vs, the index ix, the map m,
\* the call b, and leaves its index stale or not, and all others alone.
LEMMA OneChanges ==
  ASSUME IInv, NEW c \in Containers, NEW vs \in Seq(Unit), NEW ix, NEW m \in Maps,
         NEW b \in Seq(Ops), NEW st \in BOOLEAN,
         IndexType(ix), Unique(vs), StandsFor(vs, m),
         policy = "indexed" /\ ~st => Describes(ix, vs),
         b # <<>> => ~st,
         policy' = policy,
         values' = [values EXCEPT ![c] = vs],
         index' = [index EXCEPT ![c] = ix],
         map' = [map EXCEPT ![c] = m],
         batch' = [batch EXCEPT ![c] = b],
         stale' = IF st THEN stale \union {c} ELSE stale \ {c}
  PROVE  IInv'
<1>1. TypeOK'
  <2>1. /\ policy' \in Policies /\ stale' \subseteq Containers
        /\ values' \in [Containers -> Seq(Unit)]
        /\ batch' \in [Containers -> Seq(Ops)]
        /\ map' \in [Containers -> [Keys -> Vals \union {Absent}]]
    BY DEF IInv, TypeOK, Maps
  <2>2. index' = [d \in Containers |-> index'[d]]
    BY DEF IInv, TypeOK
  <2>3. \A d \in Containers : index'[d] = IF d = c THEN ix ELSE index[d]
    BY DEF IInv, TypeOK
  <2>4. \A d \in Containers : /\ DOMAIN index'[d] \subseteq Keys
                              /\ index'[d] \in [DOMAIN index'[d] -> Nat \ {0}]
    BY <2>3 DEF IInv, TypeOK, IndexType
  <2>5. QED
    BY <2>1, <2>2, <2>4 DEF TypeOK
<1>2. ASSUME NEW d \in Containers
      PROVE  /\ Unique(values'[d])
             /\ StandsFor(values'[d], map'[d])
             /\ policy' = "indexed" /\ d \notin stale' => Describes(index'[d], values'[d])
             /\ batch'[d] # <<>> => d \notin stale'
  <2>1. CASE d = c
    <3>1. values'[d] = vs /\ index'[d] = ix /\ map'[d] = m /\ batch'[d] = b
      BY <2>1 DEF IInv, TypeOK
    <3>2. d \in stale' <=> st
      BY <2>1
    <3>3. QED
      BY <3>1, <3>2
  <2>2. CASE d # c
    <3>1. /\ values'[d] = values[d] /\ index'[d] = index[d]
          /\ map'[d] = map[d] /\ batch'[d] = batch[d]
      BY <2>2 DEF IInv, TypeOK
    <3>2. d \in stale' <=> d \in stale
      BY <2>2
    <3>3. QED
      BY <3>1, <3>2 DEF IInv, Sound
  <2>3. QED
    BY <2>1, <2>2
<1>3. Sound'
  BY <1>2 DEF Sound
<1>4. QED
  BY <1>1, <1>3 DEF IInv

\* What the invariant says of one container.
LEMMA OneHolds ==
  ASSUME IInv, NEW c \in Containers
  PROVE  /\ values[c] \in Seq(Unit) /\ IndexType(index[c]) /\ map[c] \in Maps
         /\ batch[c] \in Seq(Ops)
         /\ Unique(values[c]) /\ StandsFor(values[c], map[c])
         /\ policy = "indexed" /\ c \notin stale => Describes(index[c], values[c])
         /\ batch[c] # <<>> => c \notin stale
         /\ values = [values EXCEPT ![c] = values[c]]
         /\ index = [index EXCEPT ![c] = index[c]]
         /\ map = [map EXCEPT ![c] = map[c]]
         /\ batch = [batch EXCEPT ![c] = batch[c]]
         /\ <<>> \in Seq(Ops)
BY DEF IInv, TypeOK, Sound, IndexType, Maps

\* An empty container.
LEMMA EmptySound ==
  /\ <<>> \in Seq(Unit) /\ EmptyMap \in Maps /\ IndexType(NoIndex)
  /\ Unique(<<>>) /\ StandsFor(<<>>, EmptyMap) /\ Describes(NoIndex, <<>>)
<1>1. DOMAIN NoIndex = {} /\ NoIndex \in [DOMAIN NoIndex -> Nat \ {0}]
  BY DEF NoIndex
<1>2. EmptyMap \in Maps /\ \A k \in Keys : EmptyMap[k] = Absent
  BY DEF EmptyMap, Maps
<1>3. QED
  BY <1>1, <1>2 DEF IndexType, Unique, StandsFor, Describes

\* Where a key of a container in good order is found.
LEMMA PositionCorrect ==
  ASSUME IInv, NEW c \in Containers, c \notin stale, NEW k \in Keys
  PROVE  /\ Position(c, k) = 0 => \A i \in DOMAIN values[c] : values[c][i].name # k
         /\ Position(c, k) # 0 => /\ Position(c, k) \in DOMAIN values[c]
                                  /\ values[c][Position(c, k)].name = k
         /\ policy = "indexed" /\ Position(c, k) # 0 =>
              k \in DOMAIN index[c] /\ index[c][k] = Position(c, k)
<1>1. CASE policy = "indexed"
  <2>1. Describes(index[c], values[c]) /\ IndexType(index[c])
    BY <1>1, OneHolds
  <2>2. k \in DOMAIN index[c] => index[c][k] \in Nat \ {0}
    BY <2>1 DEF IndexType
  <2>3. QED
    BY <1>1, <2>1, <2>2 DEF Position, Describes
<1>2. CASE policy # "indexed"
  BY <1>2, OneHolds, FindByKeyCorrect DEF Position
<1>3. QED
  BY <1>1, <1>2

\* A default-constructed container is empty and in good order.
LEMMA InitSound == Init => IInv
<1> SUFFICES ASSUME Init PROVE IInv
  OBVIOUS
<1>1. TypeOK
  BY EmptySound DEF Init, TypeOK, IndexType, Maps
<1>2. Sound
  BY EmptySound DEF Init, Sound
<1>3. QED
  BY <1>1, <1>2 DEF IInv

\* Taking the lock changes nothing but the call in progress.
LEMMA BeginSound ==
  ASSUME IInv, NEW c \in Containers, NEW ops \in Batches, Begin(c, ops)
  PROVE  IInv'
<1>1. ops \in Seq(Ops)
  BY BatchesAssumption
<1>2. c \notin stale /\ stale' = stale \ {c}
  BY DEF Begin, Free
<1>3. /\ policy' = policy /\ values' = values /\ index' = index /\ map' = map
      /\ batch' = [batch EXCEPT ![c] = ops]
  BY DEF Begin
<1>4. QED
  BY <1>1, <1>2, <1>3, OneHolds, OneChanges

\* The fields of the operation a call does next.
LEMMA HeadFields ==
  ASSUME IInv, NEW c \in Containers, batch[c] # <<>>
  PROVE  /\ Head(batch[c]).name \in Keys
         /\ Head(batch[c]).op = "set" => Head(batch[c]).val \in Vals
         /\ Tail(batch[c]) \in Seq(Ops)
<1>1. batch[c] \in Seq(Ops)
  BY OneHolds
<1>2. Head(batch[c]) \in Ops /\ Tail(batch[c]) \in Seq(Ops)
  BY <1>1
<1>3. QED
  BY <1>2 DEF Ops

\* storage_.set: ignored, appended and indexed, or overwritten.
LEMMA SetSound ==
  ASSUME IInv, NEW c \in Containers, SetStep(c)
  PROVE  IInv'
<1> DEFINE o == Head(batch[c])
           u == [name |-> o.name, val |-> o.val]
           i == Position(c, o.name)
<1>1. /\ batch[c] # <<>> /\ o.op = "set"
      /\ policy' = policy /\ stale' = stale /\ batch' = [batch EXCEPT ![c] = Tail(@)]
  BY DEF SetStep, Ended
<1>2. /\ o.name \in Keys /\ o.val \in Vals /\ Tail(batch[c]) \in Seq(Ops)
      /\ c \notin stale /\ stale' = stale \ {c} /\ u \in Unit
      /\ u.name = o.name /\ u.val = o.val
  BY <1>1, HeadFields, OneHolds DEF Unit
<1>3. batch' = [batch EXCEPT ![c] = Tail(batch[c])]
  BY <1>1 DEF IInv, TypeOK
<1>4. CASE Ignored(u)
  <2>1. values' = values /\ index' = index /\ map' = map
    BY <1>4 DEF SetStep
  <2>2. QED
    BY <1>1, <1>2, <1>3, <2>1, OneHolds, OneChanges
<1>5. CASE ~Ignored(u)
  <2>1. /\ values' = [values EXCEPT ![c] = IF i = 0 THEN Append(@, u) ELSE Replaced(c, i, u)]
        /\ index' = [index EXCEPT ![c] = IF i = 0 THEN Indexed(c, o.name) ELSE @]
        /\ map' = [map EXCEPT ![c][o.name] = o.val]
    BY <1>5 DEF SetStep
  <2>2. map' = [map EXCEPT ![c] = [map[c] EXCEPT ![u.name] = u.val]]
    BY <1>2, <2>1 DEF IInv, TypeOK
  <2>3. [map[c] EXCEPT ![u.name] = u.val] \in Maps
    BY <1>2, OneHolds DEF Maps
  <2>4. CASE i = 0
    <3> DEFINE ix == IF policy = "indexed" THEN Entered(index[c], u.name, Len(values[c]) + 1)
                     ELSE index[c]
    <3>1. /\ values' = [values EXCEPT ![c] = Append(values[c], u)]
          /\ index' = [index EXCEPT ![c] = ix]
      BY <1>2, <2>1, <2>4 DEF Indexed, IInv, TypeOK
    <3>2. \A j \in DOMAIN values[c] : values[c][j].name # u.name
      BY <1>2, <2>4, PositionCorrect
    <3>3. /\ Append(values[c], u) \in Seq(Unit)
          /\ Unique(Append(values[c], u))
          /\ StandsFor(Append(values[c], u), [map[c] EXCEPT ![u.name] = u.val])
          /\ IndexType(ix)
          /\ policy = "indexed" => Describes(ix, Append(values[c], u))
      BY <1>2, <3>2, OneHolds, AppendSound
    <3> HIDE DEF ix, u
    <3>4. QED
      BY <1>1, <1>2, <1>3, <2>2, <2>3, <3>1, <3>3, OneChanges
  <2>5. CASE i # 0
    <3>1. /\ values' = [values EXCEPT ![c] = ReplaceAt(values[c], i, u)]
          /\ index' = index
      BY <2>1, <2>5 DEF Replaced, IInv, TypeOK
    <3>2. i \in DOMAIN values[c] /\ values[c][i].name = u.name
      BY <1>2, <2>5, PositionCorrect
    <3>3. /\ ReplaceAt(values[c], i, u) \in Seq(Unit)
          /\ Unique(ReplaceAt(values[c], i, u))
          /\ StandsFor(ReplaceAt(values[c], i, u), [map[c] EXCEPT ![u.name] = u.val])
          /\ policy = "indexed" => Describes(index[c], ReplaceAt(values[c], i, u))
      BY <1>2, <3>2, OneHolds, ReplaceSound
    <3>4. index' = [index EXCEPT ![c] = index[c]] /\ IndexType(index[c])
      BY <3>1, OneHolds
    <3> HIDE DEF i, u
    <3>5. QED
      BY <1>1, <1>2, <1>3, <2>2, <2>3, <3>1, <3>3, <3>4, OneChanges
  <2>6. QED
    BY <2>4, <2>5
<1>6. QED
  BY <1>4, <1>5

\* storage_.remove: nothing found, or erased from vector and index.
LEMMA RemoveSound ==
  ASSUME IInv, NEW c \in Containers, RemoveStep(c)
  PROVE  IInv'
<1> DEFINE k == Head(batch[c]).name
           i == Position(c, k)
<1>1. /\ batch[c] # <<>> /\ policy' = policy /\ stale' = stale
      /\ batch' = [batch EXCEPT ![c] = Tail(@)]
      /\ values' = [values EXCEPT ![c] = IF i = 0 THEN @ ELSE Erased(@, i)]
      /\ index' = [index EXCEPT ![c] = IF policy = "indexed" /\ i # 0 THEN Unindexed(c, k) ELSE @]
      /\ map' = [map EXCEPT ![c][k] = Absent]
  BY DEF RemoveStep, Ended
<1>2. /\ k \in Keys /\ Tail(batch[c]) \in Seq(Ops)
      /\ c \notin stale /\ stale' = stale \ {c}
  BY <1>1, HeadFields, OneHolds
<1>3. batch' = [batch EXCEPT ![c] = Tail(batch[c])]
  BY <1>1 DEF IInv, TypeOK
<1>4. /\ map' = [map EXCEPT ![c] = [map[c] EXCEPT ![k] = Absent]]
      /\ [map[c] EXCEPT ![k] = Absent] \in Maps
  BY <1>1, <1>2 DEF IInv, TypeOK, Maps
<1>5. CASE i = 0
  <2>1. values' = values /\ index' = index
    BY <1>1, <1>5 DEF IInv, TypeOK
  <2>2. \A j \in DOMAIN values[c] : values[c][j].name # k
    BY <1>2, <1>5, PositionCorrect
  <2>3. StandsFor(values[c], [map[c] EXCEPT ![k] = Absent])
    <3>1. StandsFor(values[c], map[c]) /\ map[c] \in Maps /\ values[c] \in Seq(Unit)
      BY OneHolds
    <3>2. \A j \in DOMAIN values[c] : values[c][j].name \in Keys
      BY <3>1, UnitFields
    <3>3. QED
      BY <1>2, <2>2, <3>1, <3>2 DEF StandsFor, Maps
  <2>4. /\ values' = [values EXCEPT ![c] = values[c]] /\ index' = [index EXCEPT ![c] = index[c]]
        /\ values[c] \in Seq(Unit) /\ IndexType(index[c]) /\ Unique(values[c])
        /\ policy = "indexed" => Describes(index[c], values[c])
    BY <1>2, <2>1, OneHolds
  <2> HIDE DEF k
  <2>5. QED
    BY <1>1, <1>2, <1>3, <1>4, <2>3, <2>4, OneChanges
<1>6. CASE i # 0
  <2> DEFINE ix == IF policy = "indexed" THEN Closed(index[c], k) ELSE index[c]
  <2>1. /\ values' = [values EXCEPT ![c] = RemoveAt(values[c], i)]
        /\ index' = [index EXCEPT ![c] = ix]
    BY <1>1, <1>6 DEF Erased, Unindexed, Closed, IInv, TypeOK
  <2>2. /\ i \in DOMAIN values[c] /\ values[c][i].name = k
        /\ policy = "indexed" => index[c][k] = i
    BY <1>2, <1>6, PositionCorrect
  <2>3. /\ RemoveAt(values[c], i) \in Seq(Unit)
        /\ Unique(RemoveAt(values[c], i))
        /\ StandsFor(RemoveAt(values[c], i), [map[c] EXCEPT ![k] = Absent])
        /\ IndexType(ix)
        /\ policy = "indexed" => Describes(ix, RemoveAt(values[c], i))
    <3>1. /\ values[c] \in Seq(Unit) /\ IndexType(index[c]) /\ map[c] \in Maps
          /\ Unique(values[c]) /\ StandsFor(values[c], map[c])
          /\ policy = "indexed" => Describes(index[c], values[c])
      BY <1>2, OneHolds
    <3> HIDE DEF k, i
    <3>2. /\ RemoveAt(values[c], i) \in Seq(Unit)
          /\ Unique(RemoveAt(values[c], i))
          /\ StandsFor(RemoveAt(values[c], i), [map[c] EXCEPT ![k] = Absent])
          /\ Describes(index[c], values[c]) /\ index[c][k] = i =>
               /\ IndexType(Closed(index[c], k))
               /\ Describes(Closed(index[c], k), RemoveAt(values[c], i))
      BY <2>2, <3>1, EraseSound
    <3>3. QED
      BY <2>2, <3>1, <3>2
  <2> HIDE DEF k, i, ix
  <2>4. QED
    BY <1>1, <1>2, <1>3, <1>4, <2>1, <2>3, OneChanges
<1>7. QED
  BY <1>5, <1>6

\* An exception leaves vector and map as they were; after AllocFails an
\* indexed container is stale.
LEMMA FailuresSound ==
  ASSUME IInv, NEW c \in Containers, AllocFails(c) \/ CopyFails(c)
  PROVE  IInv'
<1>1. /\ batch[c] # <<>> /\ policy' = policy /\ values' = values /\ map' = map
      /\ batch' = [batch EXCEPT ![c] = <<>>]
  BY DEF AllocFails, CopyFails
<1>2. /\ values' = [values EXCEPT ![c] = values[c]] /\ map' = [map EXCEPT ![c] = map[c]]
      /\ values[c] \in Seq(Unit) /\ IndexType(index[c]) /\ map[c] \in Maps
      /\ Unique(values[c]) /\ StandsFor(values[c], map[c])
      /\ policy = "indexed" => Describes(index[c], values[c])
      /\ c \notin stale /\ <<>> \in Seq(Ops)
  BY <1>1, OneHolds
<1>3. CASE index' = index /\ stale' = stale
  <2>1. index' = [index EXCEPT ![c] = index[c]] /\ stale' = stale \ {c}
    BY <1>2, <1>3, OneHolds
  <2>2. QED
    BY <1>1, <1>2, <2>1, OneChanges
<1>4. CASE AllocFails(c) /\ policy = "indexed"
  <2> DEFINE ix == Entered(index[c], Head(batch[c]).name, Len(values[c]) + 1)
  <2>1. index' = [index EXCEPT ![c] = ix] /\ stale' = stale \union {c}
    BY <1>4 DEF AllocFails, Indexed
  <2>2. IndexType(ix)
    <3>1. Head(batch[c]).name \in Keys /\ Len(values[c]) + 1 \in Nat \ {0}
      BY <1>1, <1>2, HeadFields
    <3>2. QED
      BY <1>2, <3>1 DEF IndexType, Entered
  <2> HIDE DEF ix
  <2>3. QED
    BY <1>1, <1>2, <2>1, <2>2, OneChanges
<1>5. CASE AllocFails(c) /\ policy # "indexed"
  <2>1. index' = index /\ stale' = stale
    BY <1>5, OneHolds DEF AllocFails, Indexed
  <2>2. QED
    BY <1>3, <2>1
<1>6. CopyFails(c) => index' = index /\ stale' = stale
  BY DEF CopyFails
<1>7. QED
  BY <1>3, <1>4, <1>5, <1>6

\* clear_value empties vector and index.
LEMMA ClearSound ==
  ASSUME IInv, NEW c \in Containers, ClearValue(c)
  PROVE  IInv'
<1>1. /\ policy' = policy /\ values' = [values EXCEPT ![c] = <<>>]
      /\ index' = [index EXCEPT ![c] = NoIndex] /\ map' = [map EXCEPT ![c] = EmptyMap]
      /\ stale' = stale \ {c} /\ batch' = batch
  BY DEF ClearValue
<1>2. batch' = [batch EXCEPT ![c] = batch[c]] /\ batch[c] \in Seq(Ops)
  BY <1>1, OneHolds
<1>3. QED
  BY <1>1, <1>2, EmptySound, OneChanges

\* A copy of a container in good order is in good order.
LEMMA CopySound ==
  ASSUME IInv, NEW c \in Containers, NEW d \in Containers, CopyAssign(c, d)
  PROVE  IInv'
<1>1. /\ policy' = policy /\ values' = [values EXCEPT ![c] = values[d]]
      /\ index' = [index EXCEPT ![c] = index[d]] /\ map' = [map EXCEPT ![c] = map[d]]
      /\ stale' = stale \ {c} /\ batch' = batch /\ d \notin stale
  BY DEF CopyAssign, Free
<1>2. batch' = [batch EXCEPT ![c] = batch[c]] /\ batch[c] \in Seq(Ops)
  BY <1>1, OneHolds
<1>3. /\ values[d] \in Seq(Unit) /\ IndexType(index[d]) /\ map[d] \in Maps
      /\ Unique(values[d]) /\ StandsFor(values[d], map[d])
      /\ policy = "indexed" => Describes(index[d], values[d])
  BY <1>1, OneHolds
<1>4. QED
  BY <1>1, <1>2, <1>3, OneChanges

\* A move hands over vector and index together and leaves an empty container.
LEMMA MoveSound ==
  ASSUME IInv, NEW c \in Containers, NEW d \in Containers, MoveAssign(c, d)
  PROVE  IInv'
<1>1. /\ policy' = policy /\ c # d /\ d \notin stale /\ stale' = stale \ {c} /\ batch' = batch
      /\ values' = [values EXCEPT ![c] = values[d], ![d] = <<>>]
      /\ index' = [index EXCEPT ![c] = index[d], ![d] = NoIndex]
      /\ map' = [map EXCEPT ![c] = map[d], ![d] = EmptyMap]
  BY DEF MoveAssign, Free
<1>2. \A e \in Containers :
        /\ values'[e] = IF e = d THEN <<>> ELSE IF e = c THEN values[d] ELSE values[e]
        /\ index'[e] = IF e = d THEN NoIndex ELSE IF e = c THEN index[d] ELSE index[e]
        /\ map'[e] = IF e = d THEN EmptyMap ELSE IF e = c THEN map[d] ELSE map[e]
        /\ batch'[e] = batch[e]
  BY <1>1 DEF IInv, TypeOK
<1>3. ASSUME NEW e \in Containers
      PROVE  /\ values'[e] \in Seq(Unit) /\ IndexType(index'[e]) /\ map'[e] \in Maps
             /\ Unique(values'[e]) /\ StandsFor(values'[e], map'[e])
             /\ policy' = "indexed" /\ e \notin stale' => Describes(index'[e], values'[e])
             /\ batch'[e] # <<>> => e \notin stale'
  <2>1. CASE e = d
    BY <1>1, <1>2, <2>1, EmptySound
  <2>2. CASE e = c
    <3>1. values'[e] = values[d] /\ index'[e] = index[d] /\ map'[e] = map[d] /\ e \notin stale'
      BY <1>1, <1>2, <2>2
    <3>2. /\ values[d] \in Seq(Unit) /\ IndexType(index[d]) /\ map[d] \in Maps
          /\ Unique(values[d]) /\ StandsFor(values[d], map[d])
          /\ policy = "indexed" => Describes(index[d], values[d])
      BY <1>1, OneHolds
    <3>3. QED
      BY <1>1, <3>1, <3>2
  <2>3. CASE e # c /\ e # d
    BY <1>1, <1>2, <2>3, OneHolds
  <2>4. QED
    BY <2>1, <2>2, <2>3
<1>4. /\ values' = [e \in Containers |-> values'[e]] /\ map' = [e \in Containers |-> map'[e]]
      /\ index' = [e \in Containers |-> index'[e]]
      /\ batch' \in [Containers -> Seq(Ops)] /\ stale' \subseteq Containers /\ policy' \in Policies
  BY <1>1 DEF IInv, TypeOK
<1>5. TypeOK'
  BY <1>3, <1>4 DEF TypeOK, IndexType, Maps
<1>6. Sound'
  BY <1>3 DEF Sound
<1>7. QED
  BY <1>5, <1>6 DEF IInv

\* Rearranging the vector through data() makes an index stale.
LEMMA EditSound ==
  ASSUME IInv, NEW c \in Containers, Edit(c)
  PROVE  IInv'
<1>1. /\ policy' = policy /\ index' = index /\ batch' = batch /\ map' = map
      /\ values' = [values EXCEPT ![c] = Reverse(@)]
      /\ stale' = IF policy = "indexed" THEN stale \union {c} ELSE stale
      /\ c \notin stale /\ batch[c] = <<>>
  BY DEF Edit, Free
<1>2. /\ index' = [index EXCEPT ![c] = index[c]] /\ map' = [map EXCEPT ![c] = map[c]]
      /\ batch' = [batch EXCEPT ![c] = batch[c]] /\ batch[c] \in Seq(Ops)
      /\ IndexType(index[c]) /\ map[c] \in Maps
      /\ values[c] \in Seq(Unit) /\ Unique(values[c]) /\ StandsFor(values[c], map[c])
  BY <1>1, OneHolds
<1>3. values' = [values EXCEPT ![c] = Reverse(values[c])]
  BY <1>1 DEF IInv, TypeOK
<1>4. /\ Reverse(values[c]) \in Seq(Unit) /\ Unique(Reverse(values[c]))
      /\ StandsFor(Reverse(values[c]), map[c])
  BY <1>2, ReverseSound
<1>5. CASE policy = "indexed"
  BY <1>1, <1>2, <1>3, <1>4, <1>5, OneChanges
<1>6. CASE policy # "indexed"
  <2>1. stale' = stale \ {c}
    BY <1>1, <1>6
  <2>2. QED
    BY <1>1, <1>2, <1>3, <1>4, <1>6, <2>1, OneChanges
<1>7. QED
  BY <1>5, <1>6

\* rebuild_index repairs the index, whatever it was.
LEMMA RebuildIndexSound ==
  ASSUME IInv, NEW c \in Containers, RebuildIndex(c)
  PROVE  IInv'
<1>1. /\ policy' = policy /\ values' = values /\ batch' = batch /\ map' = map
      /\ index' = [index EXCEPT ![c] = Rebuilt(values[c])] /\ stale' = stale \ {c}
  BY DEF RebuildIndex, Rebuilt
<1>2. /\ values' = [values EXCEPT ![c] = values[c]] /\ map' = [map EXCEPT ![c] = map[c]]
      /\ batch' = [batch EXCEPT ![c] = batch[c]] /\ batch[c] \in Seq(Ops) /\ map[c] \in Maps
      /\ values[c] \in Seq(Unit) /\ Unique(values[c]) /\ StandsFor(values[c], map[c])
  BY <1>1, OneHolds
<1>3. IndexType(Rebuilt(values[c])) /\ Describes(Rebuilt(values[c]), values[c])
  BY <1>2, RebuildSound
<1>4. QED
  BY <1>1, <1>2, <1>3, OneChanges

\* Every step keeps the invariant.
LEMMA NextSound == IInv /\ [Next]_vars => IInv'
<1> SUFFICES ASSUME IInv, [Next]_vars PROVE IInv'
  OBVIOUS
<1>1. ASSUME NEW c \in Containers, NEW ops \in Batches, Begin(c, ops) PROVE IInv'
  BY <1>1, BeginSound
<1>2. ASSUME NEW c \in Containers, SetStep(c) PROVE IInv'
  BY <1>2, SetSound
<1>3. ASSUME NEW c \in Containers, RemoveStep(c) PROVE IInv'
  BY <1>3, RemoveSound
<1>4. ASSUME NEW c \in Containers, AllocFails(c) \/ CopyFails(c) PROVE IInv'
  BY <1>4, FailuresSound
<1>5. ASSUME NEW c \in Containers, ClearValue(c) PROVE IInv'
  BY <1>5, ClearSound
<1>6. ASSUME NEW c \in Containers, Edit(c) PROVE IInv'
  BY <1>6, EditSound
<1>7. ASSUME NEW c \in Containers, RebuildIndex(c) PROVE IInv'
  BY <1>7, RebuildIndexSound
<1>8. ASSUME NEW c \in Containers, NEW d \in Containers, CopyAssign(c, d) PROVE IInv'
  BY <1>8, CopySound
<1>9. ASSUME NEW c \in Containers, NEW d \in Containers, MoveAssign(c, d) PROVE IInv'
  BY <1>9, MoveSound
<1>10. CASE UNCHANGED vars
  BY <1>10 DEF vars, IInv, TypeOK, Sound, Unique, StandsFor, Describes
<1>11. QED
  BY <1>1, <1>2, <1>3, <1>4, <1>5, <1>6, <1>7, <1>8, <1>9, <1>10 DEF Next

-----------------------------------------------------------------------------
(* Theorems *)

\* The fields of every container keep their types (policy_container.h).
THEOREM TypeCorrect == Spec => []TypeOK
<1>1. IInv => TypeOK
  BY DEF IInv
<1>2. QED
  BY <1>1, InitSound, NextSound, PTL DEF Spec

\* The index of indexed_storage_policy maps exactly the names of the vector to
\* their positions, for any number of containers, keys and batches.
THEOREM IndexStaysSound == Spec => []IndexSound
<1>1. IInv => IndexSound
  BY DEF IInv, Sound, IndexSound, Unique, Describes
<1>2. QED
  BY <1>1, InitSound, NextSound, PTL DEF Spec

\* Every storage policy answers get like the map of what was set and removed.
THEOREM PoliciesAreMaps == Spec => []AnswersLikeMap
<1>1. IInv => AnswersLikeMap
  <2> SUFFICES ASSUME IInv, NEW c \in Containers, c \notin stale, NEW k \in Keys
               PROVE  Lookup(c, k) = map[c][k]
    BY DEF AnswersLikeMap
  <2>1. StandsFor(values[c], map[c])
    BY OneHolds
  <2>2. CASE Position(c, k) = 0
    BY <2>1, <2>2, PositionCorrect DEF Lookup, StandsFor
  <2>3. CASE Position(c, k) # 0
    BY <2>1, <2>3, PositionCorrect DEF Lookup, StandsFor
  <2>4. QED
    BY <2>2, <2>3
<1>2. QED
  BY <1>1, InitSound, NextSound, PTL DEF Spec

-----------------------------------------------------------------------------
(* The order of iteration *)

\* Two names that both vectors hold are in the same order in both.
KeepsOrder(vs, ws) ==
  \A k, l \in Held(vs) \cap Held(ws) : Before(vs, k, l) => Before(ws, k, l)

\* find_by_key finds a name where it stands.
LEMMA FoundInPlace ==
  ASSUME NEW vs \in Seq(Unit), Unique(vs), NEW k \in Held(vs)
  PROVE  FindByKey(vs, k) \in DOMAIN vs /\ vs[FindByKey(vs, k)].name = k
<1>1. PICK i \in DOMAIN vs : vs[i].name = k
  BY DEF Held
<1>2. QED
  BY <1>1, FindByKeyCorrect

\* Names that move together, each from i to a place p of its own, keep their
\* order when the places keep theirs.
LEMMA OrderByPlace ==
  ASSUME NEW vs \in Seq(Unit), NEW ws \in Seq(Unit), Unique(vs), Unique(ws),
         \A i, j \in DOMAIN vs : \A p, q \in DOMAIN ws :
           vs[i].name = ws[p].name /\ vs[j].name = ws[q].name /\ i < j => p < q
  PROVE  KeepsOrder(vs, ws)
<1> SUFFICES ASSUME NEW k \in Held(vs) \cap Held(ws), NEW l \in Held(vs) \cap Held(ws),
                    Before(vs, k, l)
             PROVE  Before(ws, k, l)
  BY DEF KeepsOrder
<1>1. /\ FindByKey(vs, k) \in DOMAIN vs /\ vs[FindByKey(vs, k)].name = k
      /\ FindByKey(vs, l) \in DOMAIN vs /\ vs[FindByKey(vs, l)].name = l
      /\ FindByKey(ws, k) \in DOMAIN ws /\ ws[FindByKey(ws, k)].name = k
      /\ FindByKey(ws, l) \in DOMAIN ws /\ ws[FindByKey(ws, l)].name = l
  BY FoundInPlace
<1>2. QED
  BY <1>1 DEF Before

\* A vector keeps its own order, and so does one with a new value at its end.
LEMMA AppendKeepsOrder ==
  ASSUME NEW vs \in Seq(Unit), Unique(vs), NEW u \in Unit,
         \A i \in DOMAIN vs : vs[i].name # u.name, Unique(Append(vs, u))
  PROVE  KeepsOrder(vs, Append(vs, u))
<1> DEFINE ws == Append(vs, u)
           n == Len(vs)
<1>1. /\ ws \in Seq(Unit) /\ n \in Nat /\ DOMAIN ws = 1..(n + 1) /\ DOMAIN vs = 1..n
      /\ ws[n + 1] = u /\ \A i \in 1..n : ws[i] = vs[i]
  OBVIOUS
<1> HIDE DEF ws, n
<1>2. ASSUME NEW i \in DOMAIN vs, NEW p \in DOMAIN ws, vs[i].name = ws[p].name
      PROVE  p = i
  BY <1>1, <1>2 DEF Unique
<1>3. QED
  BY <1>1, <1>2, OrderByPlace DEF ws

\* Overwriting a value in its place moves nothing.
LEMMA ReplaceKeepsOrder ==
  ASSUME NEW vs \in Seq(Unit), Unique(vs), NEW u \in Unit, NEW i \in DOMAIN vs,
         vs[i].name = u.name, Unique(ReplaceAt(vs, i, u))
  PROVE  KeepsOrder(vs, ReplaceAt(vs, i, u))
<1> DEFINE ws == ReplaceAt(vs, i, u)
<1>1. /\ ws \in Seq(Unit) /\ DOMAIN ws = DOMAIN vs
      /\ \A j \in DOMAIN vs : ws[j].name = vs[j].name
  BY DEF ReplaceAt
<1> HIDE DEF ws
<1>2. ASSUME NEW j \in DOMAIN vs, NEW p \in DOMAIN ws, vs[j].name = ws[p].name
      PROVE  p = j
  BY <1>1, <1>2 DEF Unique
<1>3. QED
  BY <1>1, <1>2, OrderByPlace DEF ws

\* Erasing a value closes the gap and lets no value pass another.
LEMMA EraseKeepsOrder ==
  ASSUME NEW vs \in Seq(Unit), Unique(vs), NEW i \in DOMAIN vs, Unique(RemoveAt(vs, i))
  PROVE  KeepsOrder(vs, RemoveAt(vs, i))
<1> DEFINE ws == RemoveAt(vs, i)
           n == Len(vs)
<1>1. n \in Nat /\ DOMAIN vs = 1..n /\ i \in 1..n
  OBVIOUS
<1>2. /\ ws \in Seq(Unit) /\ DOMAIN ws = 1..(n - 1)
      /\ \A j \in 1..(n - 1) : ws[j] = IF j < i THEN vs[j] ELSE vs[j + 1]
  BY <1>1, ErasedAt
<1> HIDE DEF ws, n
<1>3. ASSUME NEW j \in DOMAIN vs, NEW p \in DOMAIN ws, vs[j].name = ws[p].name
      PROVE  j = IF p < i THEN p ELSE p + 1
  <2> DEFINE o == IF p < i THEN p ELSE p + 1
  <2>1. o \in DOMAIN vs /\ ws[p] = vs[o]
    BY <1>1, <1>2, <1>3
  <2>2. QED
    BY <1>3, <2>1 DEF Unique
<1>4. ASSUME NEW j \in DOMAIN vs, NEW l \in DOMAIN vs, NEW p \in DOMAIN ws, NEW q \in DOMAIN ws,
             vs[j].name = ws[p].name, vs[l].name = ws[q].name, j < l
      PROVE  p < q
  <2>1. j = (IF p < i THEN p ELSE p + 1) /\ l = (IF q < i THEN q ELSE q + 1)
    BY <1>3, <1>4
  <2>2. p \in Nat /\ q \in Nat /\ i \in Nat /\ j < l
    BY <1>1, <1>2, <1>4
  <2>3. QED
    BY <2>1, <2>2
<1>5. QED
  BY <1>2, <1>4, OrderByPlace DEF ws

\* Nothing done, nothing moved.
LEMMA SameKeepsOrder ==
  ASSUME NEW vs
  PROVE  KeepsOrder(vs, vs)
BY DEF KeepsOrder

\* storage_.set of every policy.
LEMMA SetKeepsOrder ==
  ASSUME IInv, NEW c \in Containers, SetStep(c)
  PROVE  KeepsOrder(values[c], values'[c])
<1> DEFINE o == Head(batch[c])
           u == [name |-> o.name, val |-> o.val]
           i == Position(c, o.name)
<1>1. batch[c] # <<>> /\ o.op = "set"
  BY DEF SetStep
<1>2. /\ o.name \in Keys /\ c \notin stale /\ u \in Unit /\ u.name = o.name
      /\ values[c] \in Seq(Unit) /\ Unique(values[c])
  BY <1>1, HeadFields, OneHolds DEF Unit
<1>3. Unique(values'[c])
  BY SetSound DEF IInv, Sound
<1>4. CASE Ignored(u)
  <2>1. values'[c] = values[c]
    BY <1>4 DEF SetStep
  <2>2. QED
    BY <2>1, SameKeepsOrder
<1>5. CASE ~Ignored(u)
  <2>1. values' = [values EXCEPT ![c] = IF i = 0 THEN Append(@, u) ELSE Replaced(c, i, u)]
    BY <1>5 DEF SetStep
  <2>2. CASE i = 0
    <3>1. values'[c] = Append(values[c], u)
      BY <2>1, <2>2 DEF IInv, TypeOK
    <3>2. \A j \in DOMAIN values[c] : values[c][j].name # u.name
      BY <1>2, <2>2, PositionCorrect
    <3> HIDE DEF u
    <3>3. QED
      BY <1>2, <1>3, <3>1, <3>2, AppendKeepsOrder
  <2>3. CASE i # 0
    <3>1. values'[c] = ReplaceAt(values[c], i, u)
      BY <2>1, <2>3 DEF Replaced, IInv, TypeOK
    <3>2. i \in DOMAIN values[c] /\ values[c][i].name = u.name
      BY <1>2, <2>3, PositionCorrect
    <3> HIDE DEF i, u
    <3>3. QED
      BY <1>2, <1>3, <3>1, <3>2, ReplaceKeepsOrder
  <2>4. QED
    BY <2>2, <2>3
<1>6. QED
  BY <1>4, <1>5

\* storage_.remove of every policy.
LEMMA RemoveKeepsOrder ==
  ASSUME IInv, NEW c \in Containers, RemoveStep(c)
  PROVE  KeepsOrder(values[c], values'[c])
<1> DEFINE k == Head(batch[c]).name
           i == Position(c, k)
<1>1. /\ batch[c] # <<>>
      /\ values' = [values EXCEPT ![c] = IF i = 0 THEN @ ELSE Erased(@, i)]
  BY DEF RemoveStep
<1>2. k \in Keys /\ c \notin stale /\ values[c] \in Seq(Unit) /\ Unique(values[c])
  BY <1>1, HeadFields, OneHolds
<1>3. Unique(values'[c])
  BY RemoveSound DEF IInv, Sound
<1>4. CASE i = 0
  <2>1. values'[c] = values[c]
    BY <1>1, <1>4 DEF IInv, TypeOK
  <2>2. QED
    BY <2>1, SameKeepsOrder
<1>5. CASE i # 0
  <2>1. values'[c] = RemoveAt(values[c], i)
    BY <1>1, <1>5 DEF Erased, IInv, TypeOK
  <2>2. i \in DOMAIN values[c]
    BY <1>2, <1>5, PositionCorrect
  <2> HIDE DEF i
  <2>3. QED
    BY <1>2, <1>3, <2>1, <2>2, EraseKeepsOrder
<1>6. QED
  BY <1>4, <1>5

\* Iteration keeps the order of insertion: no storage_.set and no
\* storage_.remove, of any policy, makes two values that stay change places.
THEOREM IterationOrderKept == Spec => OrderKept
<1>1. IInv => \A c \in Containers : SetStep(c) \/ RemoveStep(c) =>
                \A k, l \in Held(values[c]) \cap Held(values'[c]) :
                  Before(values[c], k, l) => Before(values'[c], k, l)
  <2> SUFFICES ASSUME IInv, NEW c \in Containers, SetStep(c) \/ RemoveStep(c)
               PROVE  KeepsOrder(values[c], values'[c])
    BY DEF KeepsOrder
  <2>1. QED
    BY SetKeepsOrder, RemoveKeepsOrder
<1>2. QED
  BY <1>1, InitSound, NextSound, PTL DEF Spec, OrderKept
=============================================================================
