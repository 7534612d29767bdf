----------------------- MODULE ValueContainerProofs -----------------------
(***************************************************************************)
(* The properties of ValueContainer, for every set of names, packets,      *)
(* batches and updates, and that of Simd, which reduces the values of a    *)
(* container, for vectors of every length.  The loops of the code are      *)
(* recursive functions in the models: what they compute is shown by        *)
(* induction, which rests on the least-number principle that WFMin gives.  *)
(***************************************************************************)
EXTENDS ValueContainer, Simd, WellFoundedInduction, FiniteSetTheorems, SequenceTheorems, TLAPS

-----------------------------------------------------------------------------
(* Induction *)

\* A set of natural numbers that is not empty has a least element.
LEMMA LeastNumber ==
  ASSUME NEW T, T \subseteq Nat, T # {}
  PROVE  \E x \in T : \A y \in T : x <= y
<1> DEFINE R == OpToRel(<, Nat)
<1>1. IsWellFoundedOn(R, Nat)
  BY NatLessThanWellFounded
<1>2. \A x, y \in Nat : x < y => <<x, y>> \in R
  BY DEF OpToRel
<1> HIDE DEF R
<1>3. PICK x \in T : \A y \in T : ~ (<<y, x>> \in R)
  BY <1>1, WFMin
<1>4. \A y \in T : ~ (y < x)
  BY <1>2, <1>3
<1>5. \A y \in T : x <= y
  BY <1>4
<1> QED
  BY <1>5

\* Induction over the natural numbers, for a set.
LEMMA SetInduction ==
  ASSUME NEW S, 0 \in S, \A n \in Nat : n \in S => n + 1 \in S
  PROVE  Nat \subseteq S
<1> SUFFICES ASSUME ~ (Nat \subseteq S) PROVE FALSE
  OBVIOUS
<1> DEFINE T == Nat \ S
<1>1. PICK x \in T : \A y \in T : x <= y
  <2>1. T \subseteq Nat /\ T # {}
    OBVIOUS
  <2> HIDE DEF T
  <2> QED
    BY <2>1, LeastNumber
<1>2. x \in Nat /\ x # 0 /\ x - 1 \in Nat /\ x - 1 \notin T
  BY <1>1
<1> QED
  BY <1>2

-----------------------------------------------------------------------------
(* The first value of a name *)

First(us, k, i) ==
  /\ i \in 1..Len(us) /\ us[i].name = k
  /\ \A j \in 1..Len(us) : us[j].name = k => i <= j
FirstIs(us, k, u) == \E i : First(us, k, i) /\ us[i] = u
SameFirst(as, bs, k) == \A u : FirstIs(as, k, u) <=> FirstIs(bs, k, u)

\* A name that occurs has a first value, which FirstNamed finds.
LEMMA FirstNamedFinds ==
  ASSUME NEW T, NEW us \in Seq(T), NEW k
  PROVE  /\ FirstNamed(us, k) = 0 <=> ~HasName(us, k)
         /\ HasName(us, k) => First(us, k, FirstNamed(us, k))
<1> DEFINE I == {i \in 1..Len(us) : us[i].name = k}
<1>0. Len(us) \in Nat /\ DOMAIN us = 1..Len(us)
  BY LenProperties
<1>1. FirstNamed(us, k) = IF I # {} THEN Min(I) ELSE 0
  BY DEF FirstNamed, SelectInSeq
<1>2. I # {} <=> HasName(us, k)
  BY <1>0 DEF HasName
<1>3. I \subseteq Nat /\ 0 \notin I
  BY <1>0
<1>4. ASSUME I # {} PROVE Min(I) \in I /\ \A y \in I : Min(I) <= y
  <2> HIDE DEF I
  <2>1. \E x \in I : \A y \in I : x <= y
    BY <1>3, <1>4, LeastNumber
  <2> QED
    BY <2>1 DEF Min
<1>5. ASSUME HasName(us, k) PROVE First(us, k, FirstNamed(us, k))
  <2>1. FirstNamed(us, k) \in I /\ \A y \in I : FirstNamed(us, k) <= y
    BY <1>1, <1>2, <1>4, <1>5
  <2> QED
    BY <2>1 DEF First
<1>6. HasName(us, k) => FirstNamed(us, k) # 0
  <2> HIDE DEF I
  <2> QED
    BY <1>1, <1>2, <1>3, <1>4
<1>7. ~HasName(us, k) => FirstNamed(us, k) = 0
  BY <1>1, <1>2
<1> QED
  BY <1>5, <1>6, <1>7

\* There is one first value at most.
LEMMA FirstUnique ==
  ASSUME NEW T, NEW us \in Seq(T), NEW k, NEW i, NEW j,
         First(us, k, i), First(us, k, j)
  PROVE  i = j
<1>1. Len(us) \in Nat
  BY LenProperties
<1> QED
  BY <1>1 DEF First

\* FirstNamed finds the value that is first.
LEMMA FirstNamedIs ==
  ASSUME NEW T, NEW us \in Seq(T), NEW k, NEW u
  PROVE  FirstIs(us, k, u) <=> HasName(us, k) /\ us[FirstNamed(us, k)] = u
<1>1. ASSUME FirstIs(us, k, u) PROVE HasName(us, k) /\ us[FirstNamed(us, k)] = u
  <2>1. PICK i : First(us, k, i) /\ us[i] = u
    BY <1>1 DEF FirstIs
  <2>2. HasName(us, k)
    BY <2>1, LenProperties DEF HasName, First
  <2>3. FirstNamed(us, k) = i
    BY <2>1, <2>2, FirstNamedFinds, FirstUnique
  <2> QED
    BY <2>1, <2>2, <2>3
<1>2. ASSUME HasName(us, k), us[FirstNamed(us, k)] = u PROVE FirstIs(us, k, u)
  BY <1>2, FirstNamedFinds DEF FirstIs
<1> QED
  BY <1>1, <1>2

\* A name occurs when it has a first value.
LEMMA NamedIffFirst ==
  ASSUME NEW T, NEW us \in Seq(T), NEW k
  PROVE  HasName(us, k) <=> \E u : FirstIs(us, k, u)
BY FirstNamedIs

-----------------------------------------------------------------------------
(* Keep *)

IsKept(f, s, names, m) ==
  f = [i \in 0..m |->
        IF i = 0 THEN <<>>
        ELSE IF s[i].name \in names THEN Append(f[i - 1], s[i]) ELSE f[i - 1]]

\* The recursion of Keep has a solution.
LEMMA KeptExists ==
  ASSUME NEW s, NEW names
  PROVE  \A m \in Nat : \E f : IsKept(f, s, names, m)
<1> DEFINE S == {m \in Nat : \E f : IsKept(f, s, names, m)}
<1>1. 0 \in S
  <2>1. IsKept([i \in 0..0 |-> <<>>], s, names, 0)
    BY DEF IsKept
  <2> QED
    BY <2>1
<1>2. ASSUME NEW n \in Nat, n \in S PROVE n + 1 \in S
  <2>1. PICK f : IsKept(f, s, names, n)
    BY <1>2
  <2> DEFINE last == IF s[n + 1].name \in names THEN Append(f[n], s[n + 1]) ELSE f[n]
  <2> DEFINE g == [i \in 0..(n + 1) |-> IF i = n + 1 THEN last ELSE f[i]]
  <2>2. IsKept(g, s, names, n + 1)
    <3>1. ASSUME NEW i \in 0..(n + 1)
          PROVE  g[i] = IF i = 0 THEN <<>>
                        ELSE IF s[i].name \in names THEN Append(g[i - 1], s[i])
                        ELSE g[i - 1]
      <4>1. CASE i = n + 1
        BY <4>1
      <4>2. CASE i # n + 1
        <5>1. i \in 0..n /\ g[i] = f[i] /\ (i # 0 => g[i - 1] = f[i - 1])
          BY <4>2
        <5> QED
          BY <2>1, <5>1 DEF IsKept
      <4> QED
        BY <4>1, <4>2
    <3> HIDE DEF last
    <3> QED
      BY <3>1 DEF IsKept
  <2> QED
    BY <2>2
<1> HIDE DEF S
<1>3. Nat \subseteq S
  BY <1>1, <1>2, SetInduction
<1> QED
  BY <1>3 DEF S

\* Keep is the last value of that solution.
LEMMA KeepUnfolds ==
  ASSUME NEW s, NEW names, Len(s) \in Nat
  PROVE  \E f : IsKept(f, s, names, Len(s)) /\ Keep(s, names) = f[Len(s)]
<1> DEFINE F == CHOOSE f : IsKept(f, s, names, Len(s))
<1>1. IsKept(F, s, names, Len(s))
  BY KeptExists
<1>2. Keep(s, names) = F[Len(s)]
  BY DEF Keep, IsKept
<1> QED
  BY <1>1, <1>2

\* What holds of the elements kept of the first m.
KeptSoFar(r, T, s, names, m) ==
  /\ r \in Seq(T) /\ Len(r) <= m
  /\ \A j \in 1..Len(r) : r[j].name \in names /\ \E i \in 1..m : r[j] = s[i]
  /\ \A k \in names, i \in 1..m : First(s, k, i) => FirstIs(r, k, s[i])
  /\ (\A i \in 1..m : s[i].name \in names) =>
       Len(r) = m /\ \A i \in 1..m : r[i] = s[i]

LEMMA KeptAppend ==
  ASSUME NEW T, NEW s \in Seq(T), NEW names, NEW m \in Nat, m + 1 <= Len(s),
         NEW r, KeptSoFar(r, T, s, names, m), s[m + 1].name \in names
  PROVE  KeptSoFar(Append(r, s[m + 1]), T, s, names, m + 1)
<1> DEFINE q == Append(r, s[m + 1])
<1>0. Len(s) \in Nat /\ s[m + 1] \in T
  BY LenProperties
<1>1. r \in Seq(T) /\ Len(r) \in Nat /\ Len(r) <= m
  BY LenProperties DEF KeptSoFar
<1>2. /\ q \in Seq(T) /\ Len(q) = Len(r) + 1
      /\ \A i \in 1..Len(r) : q[i] = r[i]
      /\ q[Len(r) + 1] = s[m + 1]
  BY <1>0, <1>1, AppendProperties
<1> HIDE DEF q
<1>3. \A j \in 1..Len(q) : q[j].name \in names /\ \E i \in 1..(m + 1) : q[j] = s[i]
  <2> SUFFICES ASSUME NEW j \in 1..Len(q)
               PROVE  q[j].name \in names /\ \E i \in 1..(m + 1) : q[j] = s[i]
    OBVIOUS
  <2>1. CASE j = Len(r) + 1
    BY <1>1, <1>2, <2>1
  <2>2. CASE j \in 1..Len(r)
    <3>1. r[j].name \in names /\ \E i \in 1..m : r[j] = s[i]
      BY <2>2 DEF KeptSoFar
    <3> QED
      BY <1>1, <1>2, <2>2, <3>1
  <2> QED
    BY <1>1, <1>2, <2>1, <2>2
<1>4. ASSUME NEW k \in names, NEW i \in 1..(m + 1), First(s, k, i)
      PROVE  FirstIs(q, k, s[i])
  <2>1. CASE i \in 1..m
    <3>1. PICK j : First(r, k, j) /\ r[j] = s[i]
      BY <1>4, <2>1 DEF KeptSoFar, FirstIs
    <3>2. /\ j \in 1..Len(r) /\ r[j].name = k
          /\ \A h \in 1..Len(r) : r[h].name = k => j <= h
      BY <3>1 DEF First
    <3>3. j \in 1..Len(q) /\ q[j] = r[j]
      BY <1>1, <1>2, <3>2
    <3>4. \A h \in 1..Len(q) : q[h].name = k => j <= h
      <4> SUFFICES ASSUME NEW h \in 1..Len(q), q[h].name = k PROVE j <= h
        OBVIOUS
      <4>1. CASE h \in 1..Len(r)
        BY <1>2, <3>2, <4>1
      <4>2. CASE h = Len(r) + 1
        BY <1>1, <3>2, <4>2
      <4> QED
        BY <1>1, <1>2, <4>1, <4>2
    <3> QED
      BY <3>1, <3>2, <3>3, <3>4 DEF FirstIs, First
  <2>2. CASE i = m + 1
    <3>1. \A j \in 1..Len(r) : r[j].name # k
      <4> SUFFICES ASSUME NEW j \in 1..Len(r), r[j].name = k PROVE FALSE
        OBVIOUS
      <4>1. PICK h \in 1..m : r[j] = s[h]
        BY DEF KeptSoFar
      <4> QED
        BY <1>0, <1>4, <2>2, <4>1 DEF First
    <3>2. s[i].name = k
      BY <1>4 DEF First
    <3>3. First(q, k, Len(r) + 1)
      <4>1. \A j \in 1..Len(q) : q[j].name = k => Len(r) + 1 <= j
        BY <1>1, <1>2, <3>1
      <4>2. Len(r) + 1 \in 1..Len(q) /\ q[Len(r) + 1].name = k
        BY <1>1, <1>2, <2>2, <3>2
      <4> QED
        BY <4>1, <4>2 DEF First
    <3> QED
      BY <1>2, <2>2, <3>3 DEF FirstIs
  <2> QED
    BY <2>1, <2>2
<1>5. ASSUME \A i \in 1..(m + 1) : s[i].name \in names
      PROVE  Len(q) = m + 1 /\ \A i \in 1..(m + 1) : q[i] = s[i]
  <2>1. Len(r) = m /\ \A i \in 1..m : r[i] = s[i]
    BY <1>5 DEF KeptSoFar
  <2> QED
    BY <1>2, <2>1
<1> QED
  BY <1>1, <1>2, <1>3, <1>4, <1>5 DEF KeptSoFar, q

LEMMA KeptSkip ==
  ASSUME NEW T, NEW s \in Seq(T), NEW names, NEW m \in Nat, m + 1 <= Len(s),
         NEW r, KeptSoFar(r, T, s, names, m), s[m + 1].name \notin names
  PROVE  KeptSoFar(r, T, s, names, m + 1)
<1>1. r \in Seq(T) /\ Len(r) \in Nat /\ Len(r) <= m + 1
  BY LenProperties DEF KeptSoFar
<1>2. \A j \in 1..Len(r) : r[j].name \in names /\ \E i \in 1..(m + 1) : r[j] = s[i]
  BY DEF KeptSoFar
<1>3. ASSUME NEW k \in names, NEW i \in 1..(m + 1), First(s, k, i)
      PROVE  FirstIs(r, k, s[i])
  <2>1. i # m + 1
    BY <1>3 DEF First
  <2> QED
    BY <1>3, <2>1 DEF KeptSoFar
<1>4. ~ \A i \in 1..(m + 1) : s[i].name \in names
  OBVIOUS
<1> QED
  BY <1>1, <1>2, <1>3, <1>4 DEF KeptSoFar

\* Keep leaves elements of the sequence, those with one of the names; the
\* first of each such name stays the first, and nothing else goes.
LEMMA KeepProperties ==
  ASSUME NEW T, NEW s \in Seq(T), NEW names
  PROVE  KeptSoFar(Keep(s, names), T, s, names, Len(s))
<1>0. Len(s) \in Nat
  BY LenProperties
<1>1. PICK f : IsKept(f, s, names, Len(s)) /\ Keep(s, names) = f[Len(s)]
  BY <1>0, KeepUnfolds
<1> DEFINE S == {m \in Nat : m <= Len(s) => KeptSoFar(f[m], T, s, names, m)}
<1>2. 0 \in S
  <2>1. f[0] = <<>>
    BY <1>0, <1>1 DEF IsKept
  <2>2. KeptSoFar(<<>>, T, s, names, 0)
    <3>1. <<>> \in Seq(T) /\ Len(<<>>) = 0
      BY EmptySeq
    <3> QED
      BY <3>1 DEF KeptSoFar
  <2> QED
    BY <2>1, <2>2
<1>3. ASSUME NEW m \in Nat, m \in S PROVE m + 1 \in S
  <2> SUFFICES ASSUME m + 1 <= Len(s) PROVE KeptSoFar(f[m + 1], T, s, names, m + 1)
    OBVIOUS
  <2>1. KeptSoFar(f[m], T, s, names, m)
    BY <1>0, <1>3
  <2>2. f[m + 1] = IF s[m + 1].name \in names THEN Append(f[m], s[m + 1]) ELSE f[m]
    <3>1. m + 1 \in 0..Len(s) /\ m + 1 # 0 /\ (m + 1) - 1 = m
      BY <1>0
    <3> QED
      BY <1>1, <3>1 DEF IsKept
  <2> QED
    BY <2>1, <2>2, KeptAppend, KeptSkip
<1> HIDE DEF S
<1>4. Nat \subseteq S
  BY <1>2, <1>3, SetInduction
<1> QED
  BY <1>0, <1>1, <1>4 DEF S

\* Nothing is lost when every name is kept.
LEMMA KeepAll ==
  ASSUME NEW T, NEW s \in Seq(T), NEW names, \A i \in 1..Len(s) : s[i].name \in names
  PROVE  Keep(s, names) = s
<1>1. /\ Keep(s, names) \in Seq(T) /\ Len(Keep(s, names)) = Len(s)
      /\ \A i \in 1..Len(s) : Keep(s, names)[i] = s[i]
  BY KeepProperties DEF KeptSoFar
<1> QED
  BY <1>1, SeqEqual

-----------------------------------------------------------------------------
(* set_all and update_batch_if *)

Fields == {"header", "parsed", "changed", "data", "units", "raw", "zero", "index"}

\* w differs from v in the value vector and the changed flag only.
SameBut(v, w) ==
  /\ DOMAIN w = Fields
  /\ w.header = v.header /\ w.parsed = v.parsed /\ w.data = v.data
  /\ w.raw = v.raw /\ w.zero = v.zero /\ w.index = v.index

Holds(v) ==
  DOMAIN v = Fields /\ v.units \in Seq(UnitSet) /\ v.changed \in BOOLEAN

\* set_unit_impl makes u the first value of its name and leaves what the other
\* names answer.
LEMMA WithUnitStores ==
  ASSUME NEW v, Holds(v), NEW u \in UnitSet
  PROVE  LET w == WithUnit(v, u)
         IN  /\ SameBut(v, w) /\ Holds(w)
             /\ FirstIs(w.units, u.name, u)
             /\ \A k : k # u.name => SameFirst(v.units, w.units, k)
<1> DEFINE i == FirstNamed(v.units, u.name)
<1> DEFINE us == v.units
<1> DEFINE ws == IF i = 0 THEN Append(us, u) ELSE ReplaceAt(us, i, u)
<1> DEFINE w == WithUnit(v, u)
<1>1. us \in Seq(UnitSet) /\ Len(us) \in Nat
  BY LenProperties DEF Holds
<1>2. SameBut(v, w) /\ w.changed = TRUE /\ w.units = ws
  BY DEF WithUnit, SameBut, Holds, Fields
<1>3. CASE i = 0
  <2>1. ~HasName(us, u.name) /\ \A j \in 1..Len(us) : us[j].name # u.name
    BY <1>1, <1>3, FirstNamedFinds, LenProperties DEF HasName
  <2>2. /\ ws \in Seq(UnitSet) /\ Len(ws) = Len(us) + 1
        /\ \A j \in 1..Len(us) : ws[j] = us[j]
        /\ ws[Len(us) + 1] = u
    BY <1>1, <1>3, AppendProperties
  <2> HIDE DEF ws, us, i
  <2>3. FirstIs(ws, u.name, u)
    <3>1. First(ws, u.name, Len(us) + 1)
      BY <1>1, <2>1, <2>2 DEF First
    <3> QED
      BY <2>2, <3>1 DEF FirstIs
  <2>4. ASSUME NEW k, k # u.name PROVE SameFirst(us, ws, k)
    <3>1. \A j : First(us, k, j) <=> First(ws, k, j)
      BY <1>1, <2>2, <2>4 DEF First
    <3>2. \A j : First(us, k, j) => us[j] = ws[j]
      BY <2>2 DEF First
    <3> QED
      BY <3>1, <3>2 DEF SameFirst, FirstIs
  <2> QED
    BY <1>2, <2>2, <2>3, <2>4 DEF Holds, us, SameBut
<1>4. CASE i # 0
  <2>1. First(us, u.name, i)
    BY <1>1, <1>4, FirstNamedFinds
  <2>2. /\ ws \in Seq(UnitSet) /\ Len(ws) = Len(us)
        /\ \A j \in 1..Len(us) : ws[j] = IF j = i THEN u ELSE us[j]
    <3>1. i \in 1..Len(us)
      BY <2>1 DEF First
    <3> QED
      BY <1>1, <1>4, <3>1, ExceptSeq DEF ReplaceAt
  <2> HIDE DEF ws, us, i
  <2>3. FirstIs(ws, u.name, u)
    <3>1. First(ws, u.name, i) /\ ws[i] = u
      BY <1>1, <2>1, <2>2 DEF First
    <3> QED
      BY <3>1 DEF FirstIs
  <2>4. ASSUME NEW k, k # u.name PROVE SameFirst(us, ws, k)
    <3>1. \A j : First(us, k, j) <=> First(ws, k, j)
      BY <1>1, <2>1, <2>2, <2>4 DEF First
    <3>2. \A j : First(us, k, j) => us[j] = ws[j]
      BY <2>1, <2>2, <2>4 DEF First
    <3> QED
      BY <3>1, <3>2 DEF SameFirst, FirstIs
  <2> QED
    BY <1>2, <2>2, <2>3, <2>4 DEF Holds, us, SameBut
<1> QED
  BY <1>3, <1>4

IsStored(f, v, us, m) ==
  f = [i \in 0..m |-> IF i = 0 THEN v ELSE WithUnit(f[i - 1], us[i])]

\* The loop of set_all has a result.
LEMMA StoredExists ==
  ASSUME NEW v, NEW us
  PROVE  \A m \in Nat : \E f : IsStored(f, v, us, m)
<1> DEFINE S == {m \in Nat : \E f : IsStored(f, v, us, m)}
<1>1. 0 \in S
  <2>1. IsStored([i \in 0..0 |-> v], v, us, 0)
    BY DEF IsStored
  <2> QED
    BY <2>1
<1>2. ASSUME NEW n \in Nat, n \in S PROVE n + 1 \in S
  <2>1. PICK f : IsStored(f, v, us, n)
    BY <1>2
  <2> DEFINE g == [i \in 0..(n + 1) |-> IF i = n + 1 THEN WithUnit(f[n], us[n + 1]) ELSE f[i]]
  <2>2. IsStored(g, v, us, n + 1)
    <3>1. ASSUME NEW i \in 0..(n + 1)
          PROVE  g[i] = IF i = 0 THEN v ELSE WithUnit(g[i - 1], us[i])
      <4>1. CASE i = n + 1
        BY <4>1
      <4>2. CASE i # n + 1
        <5>1. i \in 0..n /\ g[i] = f[i] /\ (i # 0 => g[i - 1] = f[i - 1])
          BY <4>2
        <5> QED
          BY <2>1, <5>1 DEF IsStored
      <4> QED
        BY <4>1, <4>2
    <3> QED
      BY <3>1 DEF IsStored
  <2> QED
    BY <2>2
<1> HIDE DEF S
<1>3. Nat \subseteq S
  BY <1>1, <1>2, SetInduction
<1> QED
  BY <1>3 DEF S

LEMMA WithUnitsUnfolds ==
  ASSUME NEW v, NEW us, Len(us) \in Nat
  PROVE  \E f : IsStored(f, v, us, Len(us)) /\ WithUnits(v, us) = f[Len(us)]
<1> DEFINE F == CHOOSE f : IsStored(f, v, us, Len(us))
<1>1. IsStored(F, v, us, Len(us))
  BY StoredExists
<1>2. WithUnits(v, us) = F[Len(us)]
  BY DEF WithUnits, IsStored
<1> QED
  BY <1>1, <1>2

\* i is the last of the first m elements that has the name k.
LastAt(us, k, m, i) ==
  /\ i \in 1..m /\ us[i].name = k
  /\ \A j \in 1..m : us[j].name = k => j <= i

StoredSoFar(w, v, us, m) ==
  /\ SameBut(v, w) /\ Holds(w)
  /\ \A k : \/ /\ \A i \in 1..m : us[i].name # k
               /\ SameFirst(v.units, w.units, k)
            \/ \E i : LastAt(us, k, m, i) /\ FirstIs(w.units, k, us[i])

\* set_all leaves the last value it was given of every name as the first one
\* of that name, and the other names as they were.
LEMMA WithUnitsStores ==
  ASSUME NEW v, Holds(v), NEW us \in Seq(UnitSet)
  PROVE  StoredSoFar(WithUnits(v, us), v, us, Len(us))
<1>0. Len(us) \in Nat
  BY LenProperties
<1>1. PICK f : IsStored(f, v, us, Len(us)) /\ WithUnits(v, us) = f[Len(us)]
  BY <1>0, WithUnitsUnfolds
<1> DEFINE S == {m \in Nat : m <= Len(us) => StoredSoFar(f[m], v, us, m)}
<1>2. 0 \in S
  <2>1. f[0] = v
    BY <1>0, <1>1 DEF IsStored
  <2>2. StoredSoFar(v, v, us, 0)
    BY DEF StoredSoFar, SameBut, Holds, SameFirst
  <2> QED
    BY <2>1, <2>2
<1>3. ASSUME NEW m \in Nat, m \in S PROVE m + 1 \in S
  <2> SUFFICES ASSUME m + 1 <= Len(us) PROVE StoredSoFar(f[m + 1], v, us, m + 1)
    OBVIOUS
  <2> DEFINE u == us[m + 1]
  <2> DEFINE w == f[m]
  <2> DEFINE x == f[m + 1]
  <2>1. StoredSoFar(w, v, us, m)
    BY <1>0, <1>3
  <2>2. x = WithUnit(w, u)
    <3>1. m + 1 \in 0..Len(us) /\ m + 1 # 0 /\ (m + 1) - 1 = m
      BY <1>0
    <3> QED
      BY <1>1, <3>1 DEF IsStored
  <2>3. u \in UnitSet
    BY <1>0, LenProperties
  <2> HIDE DEF w, x
  <2>4. /\ SameBut(w, x) /\ Holds(x)
        /\ FirstIs(x.units, u.name, u)
        /\ \A k : k # u.name => SameFirst(w.units, x.units, k)
    BY <2>1, <2>2, <2>3, WithUnitStores DEF StoredSoFar
  <2>5. SameBut(v, x)
    BY <2>1, <2>4 DEF StoredSoFar, SameBut
  <2>6. ASSUME NEW k
        PROVE  \/ /\ \A i \in 1..(m + 1) : us[i].name # k
                  /\ SameFirst(v.units, x.units, k)
               \/ \E i : LastAt(us, k, m + 1, i) /\ FirstIs(x.units, k, us[i])
    <3>1. CASE k = u.name
      <4>1. LastAt(us, k, m + 1, m + 1)
        BY <3>1 DEF LastAt
      <4> QED
        BY <2>4, <3>1, <4>1
    <3>2. CASE k # u.name
      <4>1. SameFirst(w.units, x.units, k)
        BY <2>4, <3>2
      <4>2. CASE (\A i \in 1..m : us[i].name # k) /\ SameFirst(v.units, w.units, k)
        <5>1. \A i \in 1..(m + 1) : us[i].name # k
          <6>1. \A i \in 1..(m + 1) : i \in 1..m \/ i = m + 1
            OBVIOUS
          <6> QED
            BY <3>2, <4>2, <6>1
        <5>2. SameFirst(v.units, x.units, k)
          BY <4>1, <4>2 DEF SameFirst
        <5> QED
          BY <5>1, <5>2
      <4>3. CASE \E i : LastAt(us, k, m, i) /\ FirstIs(w.units, k, us[i])
        <5>1. PICK i : LastAt(us, k, m, i) /\ FirstIs(w.units, k, us[i])
          BY <4>3
        <5>2. LastAt(us, k, m + 1, i)
          <6>1. i \in 1..m /\ us[i].name = k /\ \A j \in 1..m : us[j].name = k => j <= i
            BY <5>1 DEF LastAt
          <6>2. \A j \in 1..(m + 1) : j \in 1..m \/ j = m + 1
            OBVIOUS
          <6> QED
            BY <3>2, <6>1, <6>2 DEF LastAt
        <5>3. FirstIs(x.units, k, us[i])
          BY <4>1, <5>1 DEF SameFirst
        <5> QED
          BY <5>2, <5>3
      <4> QED
        BY <2>1, <4>2, <4>3 DEF StoredSoFar
    <3> QED
      BY <3>1, <3>2
  <2> QED
    BY <2>4, <2>5, <2>6 DEF StoredSoFar, x
<1> HIDE DEF S
<1>4. Nat \subseteq S
  BY <1>2, <1>3, SetInduction
<1> QED
  BY <1>0, <1>1, <1>4 DEF S

\* The names of the values stay where they are.
Renamed(v, w) ==
  /\ SameBut(v, w) /\ Holds(w) /\ Len(w.units) = Len(v.units)
  /\ \A i \in 1..Len(v.units) : w.units[i].name = v.units[i].name

Update == [key : AnyName, expected : PayloadSet, new : PayloadSet]

\* One update replaces a value by one of the same name, or nothing.
LEMMA WithUpdateKeepsNames ==
  ASSUME NEW v, Holds(v), NEW s \in Update
  PROVE  Renamed(v, WithUpdate(v, s))
<1>1. v.units \in Seq(UnitSet) /\ Len(v.units) \in Nat
  BY LenProperties DEF Holds
<1>2. CASE ~UpdateMatches(v, s.key, s.expected)
  BY <1>2 DEF WithUpdate, Renamed, SameBut, Holds
<1>3. CASE UpdateMatches(v, s.key, s.expected)
  <2> DEFINE i == FirstNamed(v.units, s.key)
  <2> DEFINE u == Unit(s.key, s.new)
  <2> DEFINE ws == ReplaceAt(v.units, i, u)
  <2> DEFINE w == WithUpdate(v, s)
  <2>1. First(v.units, s.key, i)
    BY <1>1, <1>3, FirstNamedFinds DEF UpdateMatches
  <2>2. u \in UnitSet /\ u.name = s.key
    BY DEF Update, Unit, UnitSet, PayloadSet
  <2>3. /\ ws \in Seq(UnitSet) /\ Len(ws) = Len(v.units)
        /\ \A j \in 1..Len(v.units) : ws[j] = IF j = i THEN u ELSE v.units[j]
    <3>1. i \in 1..Len(v.units)
      BY <2>1 DEF First
    <3> QED
      BY <1>1, <2>2, <3>1, ExceptSeq DEF ReplaceAt
  <2>4. SameBut(v, w) /\ w.changed = TRUE /\ w.units = ws
    BY <1>3 DEF WithUpdate, SameBut, Holds, Fields
  <2> HIDE DEF ws, u, i, w
  <2>5. \A j \in 1..Len(v.units) : ws[j].name = v.units[j].name
    BY <2>1, <2>2, <2>3 DEF First
  <2>6. Holds(w)
    BY <2>3, <2>4 DEF Holds, SameBut
  <2> QED
    BY <2>3, <2>4, <2>5, <2>6 DEF Renamed, w
<1> QED
  BY <1>2, <1>3

IsUpdated(f, v, specs, m) ==
  f = [i \in 0..m |-> IF i = 0 THEN v ELSE WithUpdate(f[i - 1], specs[i])]

\* The loop of update_batch_if has a result.
LEMMA UpdatedExists ==
  ASSUME NEW v, NEW specs
  PROVE  \A m \in Nat : \E f : IsUpdated(f, v, specs, m)
<1> DEFINE S == {m \in Nat : \E f : IsUpdated(f, v, specs, m)}
<1>1. 0 \in S
  <2>1. IsUpdated([i \in 0..0 |-> v], v, specs, 0)
    BY DEF IsUpdated
  <2> QED
    BY <2>1
<1>2. ASSUME NEW n \in Nat, n \in S PROVE n + 1 \in S
  <2>1. PICK f : IsUpdated(f, v, specs, n)
    BY <1>2
  <2> DEFINE g ==
        [i \in 0..(n + 1) |-> IF i = n + 1 THEN WithUpdate(f[n], specs[n + 1]) ELSE f[i]]
  <2>2. IsUpdated(g, v, specs, n + 1)
    <3>1. ASSUME NEW i \in 0..(n + 1)
          PROVE  g[i] = IF i = 0 THEN v ELSE WithUpdate(g[i - 1], specs[i])
      <4>1. CASE i = n + 1
        BY <4>1
      <4>2. CASE i # n + 1
        <5>1. i \in 0..n /\ g[i] = f[i] /\ (i # 0 => g[i - 1] = f[i - 1])
          BY <4>2
        <5> QED
          BY <2>1, <5>1 DEF IsUpdated
      <4> QED
        BY <4>1, <4>2
    <3> QED
      BY <3>1 DEF IsUpdated
  <2> QED
    BY <2>2
<1> HIDE DEF S
<1>3. Nat \subseteq S
  BY <1>1, <1>2, SetInduction
<1> QED
  BY <1>3 DEF S

\* update_batch_if leaves every name where it was.
LEMMA WithUpdatesKeepsNames ==
  ASSUME NEW v, Holds(v), NEW specs \in Seq(Update)
  PROVE  Renamed(v, WithUpdates(v, specs))
<1>0. Len(specs) \in Nat
  BY LenProperties
<1>1. PICK f : IsUpdated(f, v, specs, Len(specs)) /\ WithUpdates(v, specs) = f[Len(specs)]
  <2> DEFINE F == CHOOSE f : IsUpdated(f, v, specs, Len(specs))
  <2>1. IsUpdated(F, v, specs, Len(specs))
    BY <1>0, UpdatedExists
  <2>2. WithUpdates(v, specs) = F[Len(specs)]
    BY DEF WithUpdates, IsUpdated
  <2> QED
    BY <2>1, <2>2
<1> DEFINE S == {m \in Nat : m <= Len(specs) => Renamed(v, f[m])}
<1>2. 0 \in S
  <2>1. f[0] = v
    BY <1>0, <1>1 DEF IsUpdated
  <2>2. Renamed(v, v)
    BY DEF Renamed, SameBut, Holds
  <2> QED
    BY <2>1, <2>2
<1>3. ASSUME NEW m \in Nat, m \in S PROVE m + 1 \in S
  <2> SUFFICES ASSUME m + 1 <= Len(specs) PROVE Renamed(v, f[m + 1])
    OBVIOUS
  <2>1. Renamed(v, f[m])
    BY <1>0, <1>3
  <2>2. f[m + 1] = WithUpdate(f[m], specs[m + 1])
    <3>1. m + 1 \in 0..Len(specs) /\ m + 1 # 0 /\ (m + 1) - 1 = m
      BY <1>0
    <3> QED
      BY <1>1, <3>1 DEF IsUpdated
  <2>3. specs[m + 1] \in Update
    BY <1>0, LenProperties
  <2>4. Renamed(f[m], f[m + 1])
    BY <2>1, <2>2, <2>3, WithUpdateKeepsNames DEF Renamed
  <2> QED
    BY <2>1, <2>4 DEF Renamed, SameBut
<1> HIDE DEF S
<1>4. Nat \subseteq S
  BY <1>2, <1>3, SetInduction
<1> QED
  BY <1>0, <1>1, <1>4 DEF S

\* Where the names are the same, FirstNamed is.
LEMMA FirstNamedByNames ==
  ASSUME NEW T, NEW U, NEW as \in Seq(T), NEW bs \in Seq(U), NEW k,
         Len(as) = Len(bs), \A i \in 1..Len(as) : as[i].name = bs[i].name
  PROVE  FirstNamed(as, k) = FirstNamed(bs, k) /\ (HasName(as, k) <=> HasName(bs, k))
<1>1. {i \in 1..Len(as) : as[i].name = k} = {i \in 1..Len(bs) : bs[i].name = k}
  OBVIOUS
<1>2. FirstNamed(as, k) = FirstNamed(bs, k)
  BY <1>1 DEF FirstNamed, SelectInSeq
<1>3. HasName(as, k) <=> HasName(bs, k)
  BY LenProperties DEF HasName
<1> QED
  BY <1>2, <1>3

-----------------------------------------------------------------------------
(* The text format *)

WrittenVal(u) ==
  IF u.kind \in {"scalar", "string", "unsafe"} THEN u.val
  ELSE IF u.kind = "real" THEN Rounded(u.val) ELSE Empty

ReadKind(t) == IF t.kind = "unsafe" THEN "string" ELSE t.kind

ReadVal(t) ==
  IF t.kind = "unsafe" THEN Mangled
  ELSE IF t.kind \in {"string", "bytes"} THEN Stripped(t.val)
  ELSE IF t.kind \in {"nested", "array"} THEN Empty ELSE t.val

\* The text of a value is a value of the same name.
LEMMA TextOfType ==
  ASSUME NEW u \in UnitSet
  PROVE  /\ TextOf(u) = [name |-> u.name, kind |-> u.kind, val |-> WrittenVal(u)]
         /\ TextOf(u) \in UnitSet /\ TextOf(u) \in TextItem /\ TextOf(u).name = u.name
<1>1. TextOf(u) = [name |-> u.name, kind |-> u.kind, val |-> WrittenVal(u)]
  BY DEF TextOf, UnitSet, WrittenVal
<1>2. WrittenVal(u) \in AllVals
  BY RoundedAssumption DEF UnitSet, AllVals, WrittenVal
<1> QED
  BY <1>1, <1>2 DEF UnitSet, TextItem

\* An item that converts is read as a value of the same name.
LEMMA ParseItemType ==
  ASSUME NEW t \in TextItem, t.kind # "bad"
  PROVE  /\ ParseItem(t) = [name |-> t.name, kind |-> ReadKind(t), val |-> ReadVal(t)]
         /\ ParseItem(t) \in UnitSet /\ ParseItem(t).name = t.name
<1>1. ParseItem(t) = [name |-> t.name, kind |-> ReadKind(t), val |-> ReadVal(t)]
  BY DEF ParseItem, ReadKind, ReadVal
<1>2. ReadVal(t) \in AllVals
  BY StrippedAssumption DEF TextItem, AllVals, ReadVal
<1>3. ReadKind(t) \in Kinds
  BY DEF ReadKind, TextItem, Kinds, TextKinds
<1> QED
  BY <1>1, <1>2, <1>3 DEF UnitSet, TextItem

\* The items before the first that does not convert are units with word names.
LEMMA ParsedPrefixType ==
  ASSUME NEW items \in Seq(TextItem)
  PROVE  ParsedPrefix(items) \in Seq(UnitSet)
<1> DEFINE m == Matches(items)
<1> DEFINE B == {i \in 1..Len(m) : m[i].kind = "bad"}
<1> DEFINE bad == SelectInSeq(m, LAMBDA t : t.kind = "bad")
<1> DEFINE n == IF bad = 0 THEN Len(m) ELSE bad - 1
<1>1. m \in Seq(TextItem) /\ Len(m) \in Nat
  BY KeepProperties, LenProperties DEF KeptSoFar, Matches
<1>2. bad = IF B # {} THEN Min(B) ELSE 0
  BY DEF SelectInSeq
<1> HIDE DEF m
<1>3. n \in Nat /\ n <= Len(m) /\ \A i \in 1..n : m[i].kind # "bad"
  <2>1. CASE B = {}
    BY <1>1, <1>2, <2>1
  <2>2. CASE B # {}
    <3>1. B \subseteq Nat /\ 0 \notin B
      BY <1>1
    <3>2. \E x \in B : \A y \in B : x <= y
      <4> HIDE DEF B
      <4> QED
        BY <2>2, <3>1, LeastNumber
    <3>3. Min(B) \in B /\ \A y \in B : Min(B) <= y
      <4> HIDE DEF B
      <4> QED
        BY <3>2 DEF Min
    <3>4. bad \in B /\ \A y \in B : bad <= y
      BY <1>2, <2>2, <3>3
    <3> HIDE DEF bad
    <3> QED
      BY <1>1, <3>4
  <2> QED
    BY <2>1, <2>2
<1>4. ParsedPrefix(items) = [i \in 1..n |-> ParseItem(m[i])]
  BY DEF ParsedPrefix, m
<1> HIDE DEF n
<1>5. ASSUME NEW i \in 1..n PROVE ParseItem(m[i]) \in UnitSet
  <2>1. m[i] \in TextItem /\ m[i].kind # "bad"
    BY <1>1, <1>3, <1>5, LenProperties
  <2> QED
    BY <2>1, ParseItemType
<1> QED
  BY <1>3, <1>4, <1>5

\* The container as an object, field by field.
IsContainer(v) ==
  /\ Holds(v)
  /\ v.header \in Header /\ v.parsed \in BOOLEAN /\ v.zero \in BOOLEAN
  /\ v.data \in Section
  /\ v.raw = NoRaw \/ IsPacket(v.raw)
  /\ v.index = NoIndex \/ (v.raw # NoRaw /\ v.index \in Section)

\* Reading back what was written and read once changes nothing, and what the
\* text format has a form for comes back in its normal form.
LEMMA ParseIdempotent ==
  ASSUME NEW u \in UnitSet
  PROVE  /\ ParseItem(TextOf(u)) \in UnitSet
         /\ ParseItem(TextOf(u)).name = u.name
         /\ ParseItem(TextOf(ParseItem(TextOf(u)))) = ParseItem(TextOf(u))
         /\ u.kind \in TextKinds => Payload(ParseItem(TextOf(u))) = TextNormal(Payload(u))
<1> DEFINE t == TextOf(u)
<1> DEFINE w == ParseItem(t)
<1> DEFINE x == TextOf(w)
<1>0. u.val \in AllVals /\ Empty \in AllVals /\ u.kind \in Kinds /\ u.kind # "bad"
  BY DEF UnitSet, AllVals, Kinds, TextKinds
<1>1. t \in TextItem /\ t.name = u.name /\ t.kind = u.kind /\ t.val = WrittenVal(u)
  BY TextOfType
<1> HIDE DEF t
<1>2. /\ w \in UnitSet /\ w.name = u.name /\ w.kind = ReadKind(u) /\ w.val = ReadVal(t)
      /\ w = [name |-> w.name, kind |-> w.kind, val |-> w.val]
  BY <1>0, <1>1, ParseItemType DEF ReadKind
<1> HIDE DEF w
<1>3. x \in TextItem /\ x.name = w.name /\ x.kind = w.kind /\ x.val = WrittenVal(w)
  BY <1>2, TextOfType
<1>4. w.kind # "bad" /\ w.kind # "unsafe"
  BY <1>0, <1>2 DEF ReadKind
<1> HIDE DEF x
<1>5. ParseItem(x) = [name |-> x.name, kind |-> ReadKind(x), val |-> ReadVal(x)]
  BY <1>3, <1>4, ParseItemType
<1>6. ReadKind(x) = w.kind
  BY <1>3, <1>4 DEF ReadKind
<1>7. ReadVal(x) = w.val
  <2>1. CASE u.kind = "real"
    BY <1>0, <1>1, <1>2, <1>3, <2>1, RoundedAssumption DEF ReadVal, WrittenVal, ReadKind
  <2>2. CASE u.kind = "unsafe"
    BY <1>1, <1>2, <1>3, <2>2, StrippedAssumption DEF ReadVal, WrittenVal, ReadKind
  <2>3. CASE u.kind = "string"
    BY <1>0, <1>1, <1>2, <1>3, <2>3, StrippedAssumption DEF ReadVal, WrittenVal, ReadKind
  <2>4. CASE u.kind = "bytes"
    BY <1>1, <1>2, <1>3, <2>4, StrippedAssumption DEF ReadVal, WrittenVal, ReadKind
  <2>5. CASE u.kind \in {"scalar", "nested", "array"}
    BY <1>1, <1>2, <1>3, <2>5 DEF ReadVal, WrittenVal, ReadKind
  <2> QED
    BY <1>0, <2>1, <2>2, <2>3, <2>4, <2>5 DEF Kinds, TextKinds
<1>8. ParseItem(x) = w
  BY <1>2, <1>3, <1>5, <1>6, <1>7
<1>9. u.kind \in TextKinds => Payload(w) = TextNormal(Payload(u))
  BY <1>0, <1>1, <1>2 DEF Payload, TextNormal, TextKinds, ReadVal, WrittenVal, ReadKind
<1> QED
  BY <1>2, <1>8, <1>9 DEF t, w, x

\* Without an item that does not convert everything that matches is parsed.
LEMMA ParsedWhole ==
  ASSUME NEW items \in Seq(UnitSet)
  PROVE  /\ Matches(items) \in Seq(UnitSet)
         /\ ParsedPrefix(items) =
              [i \in 1..Len(Matches(items)) |-> ParseItem(Matches(items)[i])]
<1> DEFINE m == Matches(items)
<1>1. m \in Seq(UnitSet)
  BY KeepProperties DEF KeptSoFar, Matches
<1>2. {i \in 1..Len(m) : m[i].kind = "bad"} = {}
  <2> HIDE DEF m
  <2> SUFFICES ASSUME NEW i \in 1..Len(m) PROVE m[i].kind # "bad"
    OBVIOUS
  <2>1. m[i] \in UnitSet
    BY <1>1, LenProperties
  <2> QED
    BY <2>1 DEF UnitSet, Kinds, TextKinds
<1>3. SelectInSeq(m, LAMBDA t : t.kind = "bad") = 0
  BY <1>2 DEF SelectInSeq
<1> QED
  BY <1>1, <1>3 DEF ParsedPrefix

\* The data section that a container is written with.
LEMMA DatasType ==
  ASSUME NEW v, IsContainer(v)
  PROVE  /\ Datas(v) \in Section
         /\ v.parsed => /\ Datas(v) \in Seq(UnitSet) /\ Len(Datas(v)) = Len(v.units)
                        /\ \A i \in 1..Len(v.units) : Datas(v)[i] = TextOf(v.units[i])
                        /\ \A i \in 1..Len(v.units) : Datas(v)[i].name = v.units[i].name
<1>0. /\ v.units \in Seq(UnitSet) /\ Len(v.units) \in Nat
      /\ DOMAIN v.units = 1..Len(v.units)
  BY LenProperties DEF IsContainer, Holds
<1>1. CASE ~v.parsed
  BY <1>1 DEF Datas, IsContainer
<1>2. CASE v.parsed
  <2>1. Datas(v) = [i \in 1..Len(v.units) |-> TextOf(v.units[i])]
    BY <1>0, <1>2 DEF Datas
  <2>2. ASSUME NEW i \in 1..Len(v.units)
        PROVE  /\ TextOf(v.units[i]) \in UnitSet /\ TextOf(v.units[i]) \in TextItem
               /\ TextOf(v.units[i]).name = v.units[i].name
    BY <1>0, <2>2, TextOfType, LenProperties
  <2>3. Datas(v) \in Seq(UnitSet) /\ Datas(v) \in Seq(TextItem)
    BY <1>0, <2>1, <2>2
  <2>4. Len(Datas(v)) = Len(v.units)
    BY <1>0, <2>1
  <2>5. \A i \in 1..Len(v.units) : Datas(v)[i] = TextOf(v.units[i])
    BY <2>1
  <2>6. \A i \in 1..Len(v.units) : Datas(v)[i].name = v.units[i].name
    BY <2>2, <2>5
  <2> QED
    BY <2>3, <2>4, <2>5, <2>6 DEF Section
<1> QED
  BY <1>1, <1>2 DEF IsContainer

\* What is sent is a packet.
LEMMA SerializeType ==
  ASSUME NEW v, IsContainer(v)
  PROVE  /\ SerializeBinary(v).data = Datas(v)
         /\ SerializeBinary(v).hdr \in Header
         /\ IsPacket(SerializeBinary(v))
<1>1. SerializeBinary(v).data = Datas(v) /\ Datas(v) \in Section
  BY DatasType DEF SerializeBinary
<1>2. SerializeBinary(v).hdr \in Header
  BY DEF SerializeBinary, IsContainer, Header
<1> QED
  BY <1>1, <1>2 DEF IsPacket, Section

-----------------------------------------------------------------------------
(* Construction and deserialisation *)

\* A packet is read into a container: the raw packet and its index stay, and
\* unparsed values are the section that was given.
Reads(w, v, section, lazy) ==
  /\ IsContainer(w) /\ w.raw = v.raw /\ w.index = v.index
  /\ ~w.parsed => lazy /\ section # NoData /\ w.data = section

LEMMA NewContainerType ==
  IsContainer(NewContainer) /\ NewContainer.index = NoIndex /\ NewContainer.parsed
<1>1. <<>> \in Seq(UnitSet) /\ <<>> \in Seq(TextItem)
  BY EmptySeq
<1>2. EmptyHeader("1.0.0.0") \in Header
  BY DEF EmptyHeader, Header
<1> QED
  BY <1>1, <1>2 DEF NewContainer, IsContainer, Holds, Fields, Section

LEMMA InitializedType ==
  ASSUME NEW v, IsContainer(v)
  PROVE  /\ Reads(ClearedValue(v), v, NoData, FALSE)
         /\ Reads(Initialized(v), v, NoData, FALSE)
         /\ ClearedValue(v).parsed /\ Initialized(v).parsed
         /\ Initialized(v).header = EmptyHeader("1.0")
<1>1. <<>> \in Seq(UnitSet) /\ <<>> \in Seq(TextItem)
  BY EmptySeq
<1>2. EmptyHeader("1.0") \in Header
  BY DEF EmptyHeader, Header
<1>3. Reads(ClearedValue(v), v, NoData, FALSE) /\ ClearedValue(v).parsed
  BY <1>1 DEF ClearedValue, Reads, IsContainer, Holds, Fields, Section
<1>4. /\ Reads(Initialized(v), v, NoData, FALSE) /\ Initialized(v).parsed
      /\ Initialized(v).header = EmptyHeader("1.0")
  BY <1>2, <1>3 DEF Initialized, Reads, IsContainer, Holds, Fields
<1> QED
  BY <1>3, <1>4

LEMMA WithValuesType ==
  ASSUME NEW v, IsContainer(v), NEW section, section = NoData \/ section \in Section,
         NEW lazy \in BOOLEAN
  PROVE  /\ Reads(WithValues(v, section, lazy), v, section, lazy)
         /\ WithValues(v, section, lazy).header = v.header
         /\ section # NoData /\ ~lazy =>
              WithValues(v, section, lazy).units = ParsedPrefix(section)
<1>1. <<>> \in Seq(UnitSet) /\ <<>> \in Seq(TextItem)
  BY EmptySeq
<1>2. section # NoData => ParsedPrefix(section) \in Seq(UnitSet)
  BY ParsedPrefixType DEF Section
<1>3. CASE section = NoData
  BY <1>1, <1>3 DEF WithValues, Reads, IsContainer, Holds, Fields, Section
<1>4. CASE section # NoData
  <2> DEFINE pp == ParsedPrefix(section)
  <2> DEFINE us == IF lazy THEN <<>> ELSE pp
  <2> DEFINE w == [v EXCEPT !.changed = FALSE, !.data = section, !.parsed = ~lazy, !.units = us]
  <2>1. us \in Seq(UnitSet)
    BY <1>1, <1>2, <1>4
  <2>2. WithValues(v, section, lazy) = w
    BY <1>4 DEF WithValues
  <2>3. ~lazy => us = pp
    OBVIOUS
  <2> HIDE DEF us, pp
  <2>4. /\ DOMAIN w = Fields /\ w.changed = FALSE /\ w.data = section
        /\ w.parsed = ~lazy /\ w.units = us /\ w.header = v.header
        /\ w.raw = v.raw /\ w.zero = v.zero /\ w.index = v.index
    BY DEF IsContainer, Holds, Fields
  <2> HIDE DEF w
  <2>5. IsContainer(w)
    BY <1>4, <2>1, <2>4 DEF IsContainer, Holds
  <2> QED
    BY <1>4, <2>2, <2>3, <2>4, <2>5 DEF Reads, pp
<1> QED
  BY <1>3, <1>4

LEMMA DeserializedType ==
  ASSUME NEW v, IsContainer(v), NEW p, IsPacket(p), NEW lazy \in BOOLEAN
  PROVE  /\ Reads(Deserialized(v, p, lazy), v, p.data, lazy)
         /\ p.hdr # NoHeader => Deserialized(v, p, lazy).header = p.hdr
         /\ p.data # NoData /\ ~lazy => Deserialized(v, p, lazy).units = ParsedPrefix(p.data)
<1> DEFINE w == Initialized(v)
<1> DEFINE h == IF p.hdr = NoHeader THEN w ELSE [w EXCEPT !.header = p.hdr]
<1>1. IsContainer(w) /\ w.raw = v.raw /\ w.index = v.index
  BY InitializedType DEF Reads
<1> HIDE DEF w
<1>2. /\ IsContainer(h) /\ h.raw = v.raw /\ h.index = v.index
      /\ p.hdr # NoHeader => h.header = p.hdr
  BY <1>1 DEF IsContainer, Holds, Fields, IsPacket
<1>3. Deserialized(v, p, lazy) = WithValues(h, p.data, lazy)
  BY DEF Deserialized, w
<1> HIDE DEF h
<1>4. p.data = NoData \/ p.data \in Section
  BY DEF IsPacket, Section
<1> QED
  BY <1>2, <1>3, <1>4, WithValuesType DEF Reads

LEMMA ConstructedType ==
  ASSUME NEW p, IsPacket(p), NEW lazy \in BOOLEAN
  PROVE  /\ IsContainer(Constructed(p, lazy)) /\ Constructed(p, lazy).index = NoIndex
         /\ ~Constructed(p, lazy).parsed =>
              lazy /\ p.data # NoData /\ Constructed(p, lazy).data = p.data
<1> DEFINE n == [NewContainer EXCEPT !.raw = IF lazy THEN p ELSE NoRaw, !.zero = lazy]
<1>1. IsContainer(n) /\ n.index = NoIndex
  BY NewContainerType DEF IsContainer, Holds, Fields
<1> HIDE DEF n
<1>2. Constructed(p, lazy) = Deserialized(n, p, lazy)
  BY DEF Constructed, n
<1> QED
  BY <1>1, <1>2, DeserializedType DEF Reads

LEMMA CopyConstructedType ==
  ASSUME NEW v, IsContainer(v), NEW lazy \in BOOLEAN
  PROVE  /\ IsContainer(CopyConstructed(v, lazy)) /\ CopyConstructed(v, lazy).index = NoIndex
         /\ ~CopyConstructed(v, lazy).parsed =>
              /\ lazy /\ SerializeBinary(v).data # NoData
              /\ CopyConstructed(v, lazy).data = SerializeBinary(v).data
         /\ CopyConstructed(v, lazy).header = SerializeBinary(v).hdr
         /\ ~lazy => CopyConstructed(v, lazy).units = ParsedPrefix(Datas(v))
<1> DEFINE p == SerializeBinary(v)
<1>1. IsPacket(p) /\ p.data = Datas(v) /\ p.hdr # NoHeader /\ p.data # NoData
  BY SerializeType, DatasType, AbsentAssumption DEF Section
<1> HIDE DEF p
<1>2. CopyConstructed(v, lazy) = Deserialized(NewContainer, p, lazy)
  BY DEF CopyConstructed, p
<1>3. IsContainer(NewContainer) /\ NewContainer.index = NoIndex
  BY NewContainerType
<1>4. /\ Reads(Deserialized(NewContainer, p, lazy), NewContainer, p.data, lazy)
      /\ Deserialized(NewContainer, p, lazy).header = p.hdr
      /\ ~lazy => Deserialized(NewContainer, p, lazy).units = ParsedPrefix(p.data)
  BY <1>1, <1>3, DeserializedType
<1> QED
  BY <1>1, <1>2, <1>3, <1>4 DEF Reads, p

-----------------------------------------------------------------------------
(* Copies *)

\* An eager copy of a parsed container, value by value.
LEMMA CopiedUnits ==
  ASSUME NEW v, IsContainer(v), v.parsed
  PROVE  LET d == CopyConstructed(v, FALSE)
             m == Matches(Datas(v))
         IN  /\ IsContainer(d) /\ d.parsed /\ d.header = SerializeBinary(v).hdr
             /\ m \in Seq(UnitSet) /\ Len(d.units) = Len(m)
             /\ \A i \in 1..Len(m) : d.units[i] = ParseItem(m[i])
             /\ \A i \in 1..Len(m) :
                  m[i].name \in WordNames /\ \E u \in UnitSet : m[i] = TextOf(u)
<1> DEFINE d == CopyConstructed(v, FALSE)
<1> DEFINE text == Datas(v)
<1> DEFINE m == Matches(text)
<1>1. /\ IsContainer(d) /\ d.parsed /\ d.header = SerializeBinary(v).hdr
      /\ d.units = ParsedPrefix(text)
  BY CopyConstructedType DEF IsContainer
<1>2. /\ text \in Seq(UnitSet) /\ Len(text) = Len(v.units)
      /\ \A i \in 1..Len(v.units) : text[i] = TextOf(v.units[i])
  BY DatasType
<1>3. v.units \in Seq(UnitSet)
  BY DEF IsContainer, Holds
<1> HIDE DEF text, d
<1>4. m \in Seq(UnitSet) /\ Len(m) \in Nat /\ ParsedPrefix(text) = [i \in 1..Len(m) |-> ParseItem(m[i])]
  BY <1>2, ParsedWhole, LenProperties
<1>5. KeptSoFar(m, UnitSet, text, WordNames, Len(text))
  BY <1>2, KeepProperties DEF Matches
<1> HIDE DEF m
<1>6. ASSUME NEW i \in 1..Len(m)
      PROVE  m[i].name \in WordNames /\ \E u \in UnitSet : m[i] = TextOf(u)
  <2>1. m[i].name \in WordNames /\ \E j \in 1..Len(text) : m[i] = text[j]
    BY <1>5 DEF KeptSoFar
  <2>2. PICK j \in 1..Len(text) : m[i] = text[j]
    BY <2>1
  <2>3. v.units[j] \in UnitSet /\ text[j] = TextOf(v.units[j])
    BY <1>2, <1>3, LenProperties
  <2> QED
    BY <2>1, <2>2, <2>3
<1>7. Len(d.units) = Len(m) /\ \A i \in 1..Len(m) : d.units[i] = ParseItem(m[i])
  BY <1>1, <1>4
<1> QED
  BY <1>1, <1>4, <1>6, <1>7 DEF d, m, text

\* Copying a copy changes nothing more.
LEMMA CopyTwice ==
  ASSUME NEW v, IsContainer(v), v.parsed
  PROVE  LET d == CopyConstructed(v, FALSE)
             e == CopyConstructed(d, FALSE)
         IN  e.units = d.units /\ e.header = d.header
<1> DEFINE d == CopyConstructed(v, FALSE)
<1> DEFINE e == CopyConstructed(d, FALSE)
<1> DEFINE m == Matches(Datas(v))
<1> DEFINE text == Datas(d)
<1>1. /\ IsContainer(d) /\ d.parsed /\ d.header = SerializeBinary(v).hdr
      /\ m \in Seq(UnitSet) /\ Len(d.units) = Len(m)
      /\ \A i \in 1..Len(m) : d.units[i] = ParseItem(m[i])
      /\ \A i \in 1..Len(m) :
           m[i].name \in WordNames /\ \E u \in UnitSet : m[i] = TextOf(u)
  BY CopiedUnits
<1> HIDE DEF d, m
<1>2. /\ text \in Seq(UnitSet) /\ Len(text) = Len(d.units)
      /\ \A i \in 1..Len(d.units) : text[i] = TextOf(d.units[i])
      /\ \A i \in 1..Len(d.units) : text[i].name = d.units[i].name
  BY <1>1, DatasType
<1>3. ASSUME NEW i \in 1..Len(d.units)
      PROVE  d.units[i].name \in WordNames /\ ParseItem(TextOf(d.units[i])) = d.units[i]
  <2>1. PICK u \in UnitSet : m[i] = TextOf(u)
    BY <1>1
  <2>2. d.units[i] = ParseItem(TextOf(u)) /\ m[i].name \in WordNames
    BY <1>1, <2>1
  <2>3. TextOf(u).name = u.name
    BY TextOfType
  <2> QED
    BY <2>1, <2>2, <2>3, ParseIdempotent
<1> HIDE DEF text
<1>4. Matches(text) = text
  BY <1>2, <1>3, KeepAll DEF Matches
<1>5. /\ IsContainer(e) /\ e.header = SerializeBinary(d).hdr
      /\ Len(e.units) = Len(text)
      /\ \A i \in 1..Len(text) : e.units[i] = ParseItem(text[i])
  BY <1>1, <1>4, CopiedUnits DEF text
<1> HIDE DEF e
<1>6. e.units = d.units
  <2>1. e.units \in Seq(UnitSet) /\ d.units \in Seq(UnitSet)
    BY <1>1, <1>5 DEF IsContainer, Holds
  <2>2. \A i \in 1..Len(e.units) : e.units[i] = d.units[i]
    BY <1>2, <1>3, <1>5
  <2> QED
    BY <1>2, <1>5, <2>1, <2>2, SeqEqual
<1>7. e.header = d.header
  BY <1>1, <1>5 DEF SerializeBinary, IsContainer, Header
<1> QED
  BY <1>6, <1>7 DEF d, e

\* The first value of a word name is the first of the copy.
LEMMA CopyKeepsFirst ==
  ASSUME NEW v, IsContainer(v), v.parsed, NEW n \in WordNames, HasName(v.units, n)
  PROVE  LET d == CopyConstructed(v, FALSE)
             i == FirstNamed(v.units, n)
             j == FirstNamed(d.units, n)
         IN  j # 0 /\ d.units[j] = ParseItem(TextOf(v.units[i])) /\ v.units[i] \in UnitSet
<1> DEFINE d == CopyConstructed(v, FALSE)
<1> DEFINE i == FirstNamed(v.units, n)
<1> DEFINE j == FirstNamed(d.units, n)
<1> DEFINE text == Datas(v)
<1> DEFINE m == Matches(text)
<1>1. /\ IsContainer(d) /\ m \in Seq(UnitSet) /\ Len(d.units) = Len(m)
      /\ \A h \in 1..Len(m) : d.units[h] = ParseItem(m[h])
      /\ \A h \in 1..Len(m) : \E u \in UnitSet : m[h] = TextOf(u)
  BY CopiedUnits
<1>2. /\ text \in Seq(UnitSet) /\ Len(text) = Len(v.units)
      /\ \A h \in 1..Len(v.units) : text[h] = TextOf(v.units[h])
      /\ \A h \in 1..Len(v.units) : text[h].name = v.units[h].name
  BY DatasType
<1>3. v.units \in Seq(UnitSet) /\ d.units \in Seq(UnitSet)
  BY <1>1 DEF IsContainer, Holds
<1> HIDE DEF text, d
<1>4. First(v.units, n, i)
  BY <1>3, FirstNamedFinds
<1>5. First(text, n, i) /\ i \in 1..Len(text)
  BY <1>2, <1>4 DEF First
<1>6. FirstIs(m, n, text[i])
  BY <1>2, <1>5, KeepProperties DEF KeptSoFar, Matches
<1> HIDE DEF m, i
<1>7. HasName(m, n) /\ m[FirstNamed(m, n)] = text[i] /\ FirstNamed(m, n) \in 1..Len(m)
  <2>1. HasName(m, n) /\ m[FirstNamed(m, n)] = text[i]
    BY <1>1, <1>6, FirstNamedIs
  <2> QED
    BY <1>1, <2>1, FirstNamedFinds DEF First
<1>8. \A h \in 1..Len(m) : m[h].name = d.units[h].name
  <2> SUFFICES ASSUME NEW h \in 1..Len(m) PROVE m[h].name = d.units[h].name
    OBVIOUS
  <2>1. PICK u \in UnitSet : m[h] = TextOf(u)
    BY <1>1
  <2>2. d.units[h] = ParseItem(TextOf(u))
    BY <1>1, <2>1
  <2> QED
    BY <2>1, <2>2, TextOfType, ParseIdempotent
<1>9. j = FirstNamed(m, n)
  BY <1>1, <1>3, <1>8, FirstNamedByNames
<1>10. d.units[j] = ParseItem(TextOf(v.units[i])) /\ j # 0
  BY <1>1, <1>2, <1>5, <1>7, <1>9
<1>11. v.units[i] \in UnitSet
  BY <1>3, <1>4, LenProperties DEF First
<1> QED
  BY <1>10, <1>11 DEF i, d

\* An eager copy loses only what the text format loses.
LEMMA CopiesNormalise ==
  ASSUME IsContainer(c)
  PROVE  CopyNormalises
<1> SUFFICES ASSUME c.parsed
             PROVE  LET d == CopyConstructed(c, FALSE)
                        e == CopyConstructed(d, FALSE)
                    IN  /\ e.units = d.units /\ e.header = d.header
                        /\ c.header.type # DataContainer => d.header = c.header
                        /\ \A n \in WordNames : Get(n) # None =>
                             LET i == FirstNamed(d.units, n)
                             IN  /\ i # 0
                                 /\ Get(n).kind \in TextKinds =>
                                      Payload(d.units[i]) = TextNormal(Get(n))
  BY DEF CopyNormalises
<1> DEFINE d == CopyConstructed(c, FALSE)
<1>1. LET e == CopyConstructed(d, FALSE) IN e.units = d.units /\ e.header = d.header
  BY CopyTwice
<1>2. c.header.type # DataContainer => d.header = c.header
  BY CopyConstructedType DEF SerializeBinary
<1>3. ASSUME NEW n \in WordNames, Get(n) # None
      PROVE  LET j == FirstNamed(d.units, n)
             IN  j # 0 /\ (Get(n).kind \in TextKinds => Payload(d.units[j]) = TextNormal(Get(n)))
  <2> DEFINE i == FirstNamed(c.units, n)
  <2> DEFINE j == FirstNamed(d.units, n)
  <2>1. i # 0 /\ Get(n) = Payload(c.units[i])
    BY <1>3 DEF Get
  <2>2. HasName(c.units, n)
    BY <2>1, FirstNamedFinds DEF IsContainer, Holds
  <2>3. j # 0 /\ d.units[j] = ParseItem(TextOf(c.units[i])) /\ c.units[i] \in UnitSet
    BY <2>2, CopyKeepsFirst
  <2> HIDE DEF i, j, d
  <2>4. ASSUME Get(n).kind \in TextKinds PROVE Payload(d.units[j]) = TextNormal(Get(n))
    <3>1. c.units[i].kind \in TextKinds
      BY <2>1, <2>4 DEF Payload
    <3>2. Payload(d.units[j]) = TextNormal(Payload(c.units[i]))
      BY <2>3, <3>1, ParseIdempotent
    <3> QED
      BY <2>1, <3>2
  <2> QED
    BY <2>3, <2>4 DEF j
<1> QED
  BY <1>1, <1>2, <1>3

-----------------------------------------------------------------------------
(* The inductive invariant *)

TypePart ==
  /\ IsContainer(c) /\ gone \subseteq Names /\ received \in Section
  /\ terminated \in BOOLEAN

\* The index for views is the one of the packet kept for them.
IndexPart == c.index # NoIndex => c.index = BuildIndex(c.raw)

\* Nothing was removed from a container whose values are unparsed, and they are
\* what it was given.
LazyPart == ~c.parsed => c.data = received /\ gone = {}

GonePart == \A k \in gone : ~HasName(c.units, k)

\* A value that was stored in a parsed container is the first of its name, and
\* the container is parsed still.
WrittenPart ==
  \A n \in Names : written[n] # None /\ ~written[n].lazy =>
    /\ c.parsed /\ written[n].pay \in PayloadSet
    /\ FirstIs(c.units, n, Unit(n, written[n].pay))

Inv == TypePart /\ IndexPart /\ LazyPart /\ GonePart /\ WrittenPart

LEMMA InitInv == Init => Inv
<1> SUFFICES ASSUME Init PROVE Inv
  OBVIOUS
<1>1. TypePart /\ IndexPart /\ LazyPart
  <2>1. <<>> \in Section
    BY EmptySeq DEF Section
  <2> QED
    BY <2>1, NewContainerType DEF Init, TypePart, IndexPart, LazyPart
<1>2. GonePart /\ WrittenPart
  BY DEF Init, GonePart, WrittenPart
<1> QED
  BY <1>1, <1>2 DEF Inv

\* A call that replaces the values: the histories start anew.
LEMMA RefillStep ==
  ASSUME IsContainer(c'), c'.index # NoIndex => c'.index = BuildIndex(c'.raw),
         NEW section, section = NoData \/ section \in Section, NEW lazy \in BOOLEAN,
         Refilled(section, lazy), terminated' \in BOOLEAN,
         ~c'.parsed => lazy /\ section # NoData /\ c'.data = section
  PROVE  Inv'
<1>0. <<>> \in Section
  BY EmptySeq DEF Section
<1>1. TypePart'
  BY <1>0 DEF TypePart, Refilled
<1>2. IndexPart' /\ LazyPart'
  BY DEF IndexPart, LazyPart, Refilled
<1>3. GonePart' /\ WrittenPart'
  BY DEF GonePart, WrittenPart, Refilled, NothingWritten
<1> QED
  BY <1>1, <1>2, <1>3 DEF Inv

\* A call that leaves the values: header edits, views, a move assignment.
LEMMA SameValuesStep ==
  ASSUME Inv, IsContainer(c'), c'.index # NoIndex => c'.index = BuildIndex(c'.raw),
         c'.units = c.units, c'.parsed = c.parsed, c'.data = c.data,
         UNCHANGED <<gone, written, received, terminated>>
  PROVE  Inv'
<1>1. TypePart' /\ IndexPart' /\ LazyPart'
  BY DEF Inv, TypePart, IndexPart, LazyPart
<1>2. GonePart' /\ WrittenPart'
  BY DEF Inv, GonePart, WrittenPart
<1> QED
  BY <1>1, <1>2 DEF Inv

\* A call that changes values one by one.
LEMMA VectorStep ==
  ASSUME Inv, SameBut(c, c'), Holds(c'), gone' \subseteq gone, GonePart', WrittenPart',
         UNCHANGED <<received, terminated>>
  PROVE  Inv'
<1>1. TypePart'
  BY DEF Inv, TypePart, IsContainer, SameBut
<1>2. IndexPart' /\ LazyPart'
  BY DEF Inv, IndexPart, LazyPart, SameBut
<1> QED
  BY <1>1, <1>2 DEF Inv

-----------------------------------------------------------------------------
(* The calls that refill *)

LEMMA ConstructInv ==
  ASSUME Inv, NEW p \in Packets, NEW lazy \in BOOLEAN, Construct(p, lazy), UNCHANGED terminated
  PROVE  Inv'
<1>0. IsPacket(p) /\ (p.data = NoData \/ p.data \in Section)
  BY PacketsAssumption DEF IsPacket, Section
<1>1. CASE DeserializeThrows(p, lazy)
  BY <1>1 DEF Construct, vars, Inv, TypePart, IndexPart, LazyPart, GonePart, WrittenPart
<1>2. CASE ~DeserializeThrows(p, lazy)
  <2>1. c' = Constructed(p, lazy) /\ Refilled(p.data, lazy) /\ terminated' \in BOOLEAN
    BY <1>2 DEF Construct, Inv, TypePart
  <2> QED
    BY <1>0, <2>1, ConstructedType, RefillStep
<1> QED
  BY <1>1, <1>2

LEMMA DeserializeInv ==
  ASSUME Inv, NEW p \in Packets, NEW lazy \in BOOLEAN, DeserializeResult(p, lazy),
         UNCHANGED terminated
  PROVE  Inv'
<1>0. IsPacket(p) /\ (p.data = NoData \/ p.data \in Section)
  BY PacketsAssumption DEF IsPacket, Section
<1>1. /\ c' = Deserialized(c, p, lazy) /\ Refilled(p.data, lazy) /\ terminated' \in BOOLEAN
      /\ IsContainer(c) /\ (c.index # NoIndex => c.index = BuildIndex(c.raw))
  BY DEF DeserializeResult, Inv, TypePart, IndexPart
<1>2. Reads(c', c, p.data, lazy)
  BY <1>0, <1>1, DeserializedType
<1> QED
  BY <1>0, <1>1, <1>2, RefillStep DEF Reads

LEMMA TerminateInv ==
  ASSUME Inv, NEW p \in Packets, NEW lazy \in BOOLEAN, DeserializeTerminates(p, lazy)
  PROVE  Inv'
BY NewContainerType, RefillStep DEF DeserializeTerminates

LEMMA CopyConstructInv ==
  ASSUME Inv, NEW lazy \in BOOLEAN, CopyConstruct(lazy), UNCHANGED terminated
  PROVE  Inv'
<1> DEFINE p == SerializeBinary(c)
<1>0. IsContainer(c) /\ IsPacket(p) /\ (p.data = NoData \/ p.data \in Section)
  BY SerializeType, DatasType DEF Inv, TypePart
<1>1. CASE DeserializeThrows(p, lazy)
  BY <1>1 DEF CopyConstruct, vars, Inv, TypePart, IndexPart, LazyPart, GonePart, WrittenPart
<1>2. CASE ~DeserializeThrows(p, lazy)
  <2>1. c' = CopyConstructed(c, lazy) /\ Refilled(p.data, lazy) /\ terminated' \in BOOLEAN
    BY <1>2 DEF CopyConstruct, Inv, TypePart
  <2>2. /\ IsContainer(c') /\ c'.index = NoIndex
        /\ ~c'.parsed => lazy /\ p.data # NoData /\ c'.data = p.data
    BY <1>0, <2>1, CopyConstructedType
  <2> HIDE DEF p
  <2> QED
    BY <1>0, <2>1, <2>2, RefillStep
<1> QED
  BY <1>1, <1>2

LEMMA CopyInv ==
  ASSUME Inv, NEW containing \in BOOLEAN, Copy(containing), UNCHANGED terminated
  PROVE  Inv'
<1> DEFINE p == SerializeBinary(c)
<1> DEFINE n == Constructed(p, ~containing)
<1>0. IsContainer(c) /\ IsPacket(p)
  BY SerializeType DEF Inv, TypePart
<1>1. CASE DeserializeThrows(p, ~containing)
  BY <1>1 DEF Copy, vars, Inv, TypePart, IndexPart, LazyPart, GonePart, WrittenPart
<1>2. CASE ~DeserializeThrows(p, ~containing)
  <2>1. /\ c' = IF containing THEN n ELSE ClearedValue(n)
        /\ Refilled(NoData, FALSE) /\ terminated' \in BOOLEAN
    BY <1>2 DEF Copy, Inv, TypePart
  <2>2. IsContainer(n) /\ n.index = NoIndex /\ (~n.parsed => ~containing)
    <3>1. (~containing) \in BOOLEAN
      OBVIOUS
    <3> HIDE DEF p
    <3> QED
      BY <1>0, <3>1, ConstructedType
  <2> HIDE DEF n
  <2>3. IsContainer(c') /\ c'.index = NoIndex /\ c'.parsed
    BY <2>1, <2>2, InitializedType DEF Reads
  <2> QED
    BY <2>1, <2>3, RefillStep
<1> QED
  BY <1>1, <1>2

LEMMA ClearInv ==
  ASSUME Inv, ClearValue \/ Initialize, UNCHANGED terminated
  PROVE  Inv'
<1>1. /\ IsContainer(c) /\ (c.index # NoIndex => c.index = BuildIndex(c.raw))
      /\ terminated' \in BOOLEAN
  BY DEF Inv, TypePart, IndexPart
<1>2. /\ c' = ClearedValue(c) \/ c' = Initialized(c)
      /\ Refilled(NoData, FALSE)
  BY DEF ClearValue, Initialize
<1>3. Reads(c', c, NoData, FALSE)
  BY <1>1, <1>2, InitializedType
<1> QED
  BY <1>1, <1>2, <1>3, RefillStep DEF Reads

LEMMA MsgpackInv ==
  ASSUME Inv, NEW d \in MsgDocs \union (IF MsgpackThrows(c) THEN {} ELSE {ToMsgpack(c)}),
         DeserializeMsgpack(d), UNCHANGED terminated
  PROVE  Inv'
<1>1. /\ IsContainer(c) /\ (c.index # NoIndex => c.index = BuildIndex(c.raw))
      /\ terminated' \in BOOLEAN
  BY DEF Inv, TypePart, IndexPart
<1>2. c' = FromMsgpack(c, d) /\ Refilled(NoData, FALSE)
  BY DEF DeserializeMsgpack
<1>3. d.hdr \in Header /\ d.vals \in Seq(UnitSet)
  <2>1. CASE d \in MsgDocs
    BY <2>1, DocsAssumption DEF IsDoc
  <2>2. CASE d = ToMsgpack(c)
    <3>1. SerializeBinary(c).hdr \in Header
      BY <1>1, SerializeType
    <3> QED
      BY <1>1, <2>2, <3>1 DEF ToMsgpack, IsContainer, Holds
  <2> QED
    BY <2>1, <2>2
<1> DEFINE w == Initialized(c)
<1>4. Reads(w, c, NoData, FALSE) /\ w.parsed
  BY <1>1, InitializedType
<1> HIDE DEF w
<1>5. c' = IF ~d.map THEN w ELSE [w EXCEPT !.header = d.hdr, !.units = d.vals]
  BY <1>2 DEF FromMsgpack, w
<1>6. Reads(c', c, NoData, FALSE)
  BY <1>3, <1>4, <1>5 DEF Reads, IsContainer, Holds, Fields
<1> QED
  BY <1>1, <1>2, <1>6, RefillStep DEF Reads

-----------------------------------------------------------------------------
(* The calls that leave the values, and moves *)

LEMMA MoveConstructInv ==
  ASSUME Inv, MoveConstruct, UNCHANGED terminated
  PROVE  Inv'
<1>0. IsContainer(c)
  BY DEF Inv, TypePart
<1>1. /\ DOMAIN c' = Fields /\ c'.header = c.header /\ c'.parsed = c.parsed
      /\ c'.changed = c.changed /\ c'.data = c.data /\ c'.units = <<>>
      /\ c'.raw = NoRaw /\ c'.zero = FALSE /\ c'.index = NoIndex
  BY DEF MoveConstruct, MoveConstructed, NewContainer, Fields
<1>2. IsContainer(c')
  BY <1>0, <1>1, EmptySeq DEF IsContainer, Holds
<1>3. TypePart' /\ IndexPart' /\ LazyPart'
  BY <1>1, <1>2 DEF MoveConstruct, Inv, TypePart, IndexPart, LazyPart
<1>4. GonePart'
  <2>1. \A k : ~HasName(<<>>, k)
    BY DEF HasName
  <2> QED
    BY <1>1, <2>1 DEF GonePart
<1>5. WrittenPart'
  BY DEF MoveConstruct, NothingWritten, WrittenPart
<1> QED
  BY <1>3, <1>4, <1>5 DEF Inv

LEMMA MoveAssignInv ==
  ASSUME Inv, MoveAssign, UNCHANGED terminated
  PROVE  Inv'
<1>0. IsContainer(c)
  BY DEF Inv, TypePart
<1>1. /\ DOMAIN c' = Fields /\ c'.header = c.header /\ c'.parsed = c.parsed
      /\ c'.changed = c.changed /\ c'.data = c.data /\ c'.units = c.units
      /\ c'.raw = NoRaw /\ c'.zero = FALSE /\ c'.index = NoIndex
  BY DEF MoveAssign, MoveAssigned, MoveConstructed, NewContainer, Fields
<1>2. IsContainer(c')
  BY <1>0, <1>1 DEF IsContainer, Holds
<1> QED
  BY <1>1, <1>2, SameValuesStep DEF MoveAssign

LEMMA HeaderInv ==
  ASSUME Inv, UNCHANGED terminated,
         \/ \E id \in Ids : SetSource(id) \/ SetTarget(id)
         \/ \E t \in Types \union {DataContainer} : SetMessageType(t)
         \/ SwapHeader
  PROVE  Inv'
<1>0. IsContainer(c) /\ (c.index # NoIndex => c.index = BuildIndex(c.raw))
  BY DEF Inv, TypePart, IndexPart
<1>1. PICK h \in Header : c' = [c EXCEPT !.header = h]
  <2>1. c.header \in Header
    BY <1>0 DEF IsContainer
  <2>2. CASE \E id \in Ids : SetSource(id)
    <3>1. PICK id \in Ids : SetSource(id)
      BY <2>2
    <3> DEFINE h == [c.header EXCEPT !.src = id]
    <3>2. h \in Header
      BY <2>1 DEF Header
    <3>3. c' = [c EXCEPT !.header = h]
      BY <3>1 DEF SetSource
    <3> QED
      BY <3>2, <3>3
  <2>3. CASE \E id \in Ids : SetTarget(id)
    <3>1. PICK id \in Ids : SetTarget(id)
      BY <2>3
    <3> DEFINE h == [c.header EXCEPT !.tgt = id]
    <3>2. h \in Header
      BY <2>1 DEF Header
    <3>3. c' = [c EXCEPT !.header = h]
      BY <3>1 DEF SetTarget
    <3> QED
      BY <3>2, <3>3
  <2>4. CASE \E t \in Types \union {DataContainer} : SetMessageType(t)
    <3>1. PICK t \in Types \union {DataContainer} : SetMessageType(t)
      BY <2>4
    <3> DEFINE h == [c.header EXCEPT !.type = t]
    <3>2. h \in Header
      BY <2>1 DEF Header
    <3>3. c' = [c EXCEPT !.header = h]
      BY <3>1 DEF SetMessageType
    <3> QED
      BY <3>2, <3>3
  <2>5. CASE SwapHeader
    <3> DEFINE h == [c.header EXCEPT !.src = c.header.tgt, !.tgt = c.header.src]
    <3>2. h \in Header
      BY <2>1 DEF Header
    <3>3. c' = [c EXCEPT !.header = h]
      BY <1>0, <2>5 DEF SwapHeader, IsContainer, Holds, Fields
    <3> QED
      BY <3>2, <3>3
  <2> QED
    BY <2>2, <2>3, <2>4, <2>5
<1>2. UNCHANGED <<gone, written, received, terminated>>
  BY DEF SetSource, SetTarget, SetMessageType, SwapHeader
<1>3. /\ DOMAIN c' = Fields /\ c'.header = h /\ c'.parsed = c.parsed
      /\ c'.changed = c.changed /\ c'.data = c.data /\ c'.units = c.units
      /\ c'.raw = c.raw /\ c'.zero = c.zero /\ c'.index = c.index
  BY <1>0, <1>1 DEF IsContainer, Holds, Fields
<1>4. IsContainer(c')
  BY <1>0, <1>3 DEF IsContainer, Holds
<1> QED
  BY <1>0, <1>2, <1>3, <1>4, SameValuesStep

LEMMA IndexInv ==
  ASSUME Inv, EnsureIndexBuilt, UNCHANGED terminated
  PROVE  Inv'
<1>0. IsContainer(c)
  BY DEF Inv, TypePart
<1>1. BuildIndex(c.raw) \in Section
  <2>1. IsPacket(c.raw)
    BY <1>0 DEF EnsureIndexBuilt, IsContainer
  <2>2. CASE c.raw.data = NoData
    BY <2>2, EmptySeq DEF BuildIndex, Section
  <2>3. CASE c.raw.data # NoData
    BY <2>1, <2>3, KeepProperties DEF BuildIndex, IsPacket, KeptSoFar, Matches, Section
  <2> QED
    BY <2>2, <2>3
<1>2. /\ DOMAIN c' = Fields /\ c'.header = c.header /\ c'.parsed = c.parsed
      /\ c'.changed = c.changed /\ c'.data = c.data /\ c'.units = c.units
      /\ c'.raw = c.raw /\ c'.zero = c.zero /\ c'.index = BuildIndex(c.raw)
  BY <1>0 DEF EnsureIndexBuilt, IsContainer, Holds, Fields
<1>3. IsContainer(c')
  BY <1>0, <1>1, <1>2 DEF EnsureIndexBuilt, IsContainer, Holds
<1> QED
  BY <1>2, <1>3, SameValuesStep DEF EnsureIndexBuilt

-----------------------------------------------------------------------------
(* The calls that store *)

\* A value is its name and its payload.
LEMMA UnitOfPayload ==
  ASSUME NEW u \in UnitSet
  PROVE  Unit(u.name, Payload(u)) = u /\ Payload(u) \in PayloadSet
BY DEF Unit, Payload, UnitSet, PayloadSet

\* set_all, and set_all_result up to the first empty name.
LEMMA StoreInv ==
  ASSUME Inv, NEW us \in Seq(UnitSet), c' = WithUnits(c, us), Stored(us), UNCHANGED terminated
  PROVE  Inv'
<1>0. Holds(c) /\ c.units \in Seq(UnitSet) /\ Len(us) \in Nat /\ DOMAIN us = 1..Len(us)
  BY LenProperties DEF Inv, TypePart, IsContainer, Holds
<1>1. StoredSoFar(c', c, us, Len(us))
  BY <1>0, WithUnitsStores
<1>2. SameBut(c, c') /\ Holds(c') /\ c'.units \in Seq(UnitSet)
  BY <1>1 DEF StoredSoFar, Holds
<1>3. gone' \subseteq gone /\ UNCHANGED received
  BY DEF Stored
<1>4. GonePart'
  <2> SUFFICES ASSUME NEW k \in gone' PROVE ~HasName(c'.units, k)
    BY DEF GonePart
  <2>1. k \in gone /\ \A i \in 1..Len(us) : us[i].name # k
    BY <1>0 DEF Stored
  <2>2. SameFirst(c.units, c'.units, k)
    BY <1>1, <2>1 DEF StoredSoFar, LastAt
  <2>3. ~HasName(c.units, k)
    BY <2>1 DEF Inv, GonePart
  <2> QED
    BY <1>0, <1>2, <2>2, <2>3, NamedIffFirst DEF SameFirst
<1>5. WrittenPart'
  <2> SUFFICES ASSUME NEW n \in Names, written'[n] # None, ~written'[n].lazy
               PROVE  /\ c'.parsed /\ written'[n].pay \in PayloadSet
                      /\ FirstIs(c'.units, n, Unit(n, written'[n].pay))
    BY DEF WrittenPart
  <2>1. CASE ~HasName(us, n)
    <3>1. written'[n] = written[n]
      BY <2>1 DEF Stored
    <3>2. /\ c.parsed /\ written[n].pay \in PayloadSet
          /\ FirstIs(c.units, n, Unit(n, written[n].pay))
      BY <3>1 DEF Inv, WrittenPart
    <3>3. SameFirst(c.units, c'.units, n)
      BY <1>0, <1>1, <2>1 DEF StoredSoFar, LastAt, HasName
    <3> QED
      BY <1>2, <3>1, <3>2, <3>3 DEF SameBut, SameFirst
  <2>2. CASE HasName(us, n)
    <3> DEFINE l == CHOOSE i \in DOMAIN us :
                      us[i].name = n /\ \A j \in DOMAIN us : us[j].name = n => j <= i
    <3>1. PICK i : LastAt(us, n, Len(us), i) /\ FirstIs(c'.units, n, us[i])
      BY <1>0, <1>1, <2>2 DEF StoredSoFar, HasName
    <3>2. i \in DOMAIN us /\ us[i].name = n /\ \A j \in DOMAIN us : us[j].name = n => j <= i
      BY <1>0, <3>1 DEF LastAt
    <3>3. l \in DOMAIN us /\ us[l].name = n /\ \A j \in DOMAIN us : us[j].name = n => j <= l
      BY <3>2, Zenon
    <3>4. written'[n] = [pay |-> Payload(us[l]), lazy |-> ~c.parsed]
      BY <2>2 DEF Stored
    <3> HIDE DEF l
    <3>5. l = i
      BY <1>0, <3>2, <3>3
    <3>6. us[i] \in UnitSet /\ us[i].name = n
      BY <1>0, <3>2, LenProperties
    <3>7. written'[n].pay = Payload(us[i]) /\ c.parsed
      <4>1. written'[n].pay = Payload(us[i])
        BY <3>4, <3>5
      <4>2. written'[n].lazy = ~c.parsed
        BY <3>4
      <4>3. c.parsed
        BY <4>2, Zenon
      <4> QED
        BY <4>1, <4>3
    <3>8. Unit(n, written'[n].pay) = us[i] /\ written'[n].pay \in PayloadSet
      <4>1. Unit(us[i].name, Payload(us[i])) = us[i] /\ Payload(us[i]) \in PayloadSet
        BY <3>6, UnitOfPayload
      <4> QED
        BY <3>6, <3>7, <4>1
    <3> QED
      BY <1>2, <3>1, <3>7, <3>8 DEF SameBut
  <2> QED
    BY <2>1, <2>2
<1> QED
  BY <1>2, <1>3, <1>4, <1>5, VectorStep

LEMMA SetAllInv ==
  ASSUME Inv, NEW us \in Batches, SetAll(us) \/ SetAllResult(us), UNCHANGED terminated
  PROVE  Inv'
<1>0. us \in Seq(UnitSet)
  BY BatchesAssumption
<1>1. CASE SetAll(us)
  BY <1>0, <1>1, StoreInv DEF SetAll
<1>2. CASE SetAllResult(us)
  <2> DEFINE e == FirstNamed(us, EmptyName)
  <2> DEFINE done == IF e = 0 THEN us ELSE SubSeq(us, 1, e - 1)
  <2>1. c' = WithUnits(c, done) /\ Stored(done)
    BY <1>2 DEF SetAllResult
  <2>2. done \in Seq(UnitSet)
    <3>1. CASE e = 0
      BY <1>0, <3>1
    <3>2. CASE e # 0
      <4>1. Len(us) \in Nat /\ e \in 1..Len(us)
        BY <1>0, <3>2, FirstNamedFinds, LenProperties DEF First
      <4>2. \A i \in 1..(e - 1) : us[i] \in UnitSet
        BY <1>0, <4>1, LenProperties
      <4> HIDE DEF e
      <4> QED
        BY <3>2, <4>1, <4>2, SubSeqProperties
    <3> QED
      BY <3>1, <3>2
  <2> HIDE DEF done
  <2> QED
    BY <2>1, <2>2, StoreInv
<1> QED
  BY <1>1, <1>2

\* Positions in a vector that another is appended to.
LEMMA InFront ==
  ASSUME NEW a \in Nat, NEW b \in Nat, NEW i \in 1..a
  PROVE  i \in 1..(a + b) /\ i <= a
OBVIOUS

LEMMA Behind ==
  ASSUME NEW a \in Nat, NEW b \in Nat, NEW i \in 1..b
  PROVE  a + i \in 1..(a + b) /\ ~(a + i <= a) /\ (a + i) - a = i
OBVIOUS

LEMMA NotInFront ==
  ASSUME NEW a \in Nat, NEW b \in Nat, NEW j \in 1..(a + b), j \notin 1..a
  PROVE  /\ ~(j <= a) /\ j - a \in 1..b
         /\ \A i \in 1..a : i <= j
         /\ \A i \in 1..b : i <= j - a => a + i <= j
OBVIOUS

\* The first value of a name in a vector that another is appended to.
LEMMA ConcatFirst ==
  ASSUME NEW as \in Seq(UnitSet), NEW bs \in Seq(UnitSet), NEW k
  PROVE  /\ HasName(as \o bs, k) <=> HasName(as, k) \/ HasName(bs, k)
         /\ HasName(as, k) => SameFirst(as, as \o bs, k)
         /\ ~HasName(bs, k) => SameFirst(as, as \o bs, k)
         /\ ~HasName(as, k) /\ HasName(bs, k) =>
              FirstIs(as \o bs, k, bs[FirstNamed(bs, k)])
<1> DEFINE q == as \o bs
<1>1. /\ q \in Seq(UnitSet) /\ Len(q) = Len(as) + Len(bs)
      /\ \A i \in 1..(Len(as) + Len(bs)) : q[i] = IF i <= Len(as) THEN as[i] ELSE bs[i - Len(as)]
  BY ConcatProperties, Zenon
<1>2. /\ Len(as) \in Nat /\ Len(bs) \in Nat /\ DOMAIN as = 1..Len(as)
      /\ DOMAIN bs = 1..Len(bs) /\ DOMAIN q = 1..Len(q)
  BY <1>1, LenProperties
<1> HIDE DEF q
<1>3. /\ \A i \in 1..Len(as) : i \in 1..Len(q) /\ q[i] = as[i]
      /\ \A i \in 1..Len(bs) : Len(as) + i \in 1..Len(q) /\ q[Len(as) + i] = bs[i]
      /\ \A i \in 1..Len(q) : i \in 1..Len(as) \/ (i - Len(as) \in 1..Len(bs) /\ q[i] = bs[i - Len(as)])
  <2>1. ASSUME NEW i \in 1..Len(as) PROVE i \in 1..Len(q) /\ q[i] = as[i]
    <3>1. i \in 1..(Len(as) + Len(bs)) /\ i <= Len(as)
      BY <1>2, InFront
    <3> QED
      BY <1>1, <3>1
  <2>2. ASSUME NEW i \in 1..Len(bs) PROVE Len(as) + i \in 1..Len(q) /\ q[Len(as) + i] = bs[i]
    <3>1. /\ Len(as) + i \in 1..(Len(as) + Len(bs)) /\ ~(Len(as) + i <= Len(as))
          /\ (Len(as) + i) - Len(as) = i
      BY <1>2, Behind
    <3> QED
      BY <1>1, <3>1
  <2>3. ASSUME NEW i \in 1..Len(q), i \notin 1..Len(as)
        PROVE  i - Len(as) \in 1..Len(bs) /\ q[i] = bs[i - Len(as)]
    <3>1. i \in 1..(Len(as) + Len(bs)) /\ ~(i <= Len(as)) /\ i - Len(as) \in 1..Len(bs)
      BY <1>1, <1>2, <2>3, NotInFront
    <3> QED
      BY <1>1, <3>1
  <2> QED
    BY <2>1, <2>2, <2>3
<1>4. HasName(q, k) <=> HasName(as, k) \/ HasName(bs, k)
  <2>1. ASSUME HasName(as, k) PROVE HasName(q, k)
    <3>1. PICK i \in 1..Len(as) : as[i].name = k
      BY <1>2, <2>1 DEF HasName
    <3> QED
      BY <1>2, <1>3, <3>1 DEF HasName
  <2>2. ASSUME HasName(bs, k) PROVE HasName(q, k)
    <3>1. PICK i \in 1..Len(bs) : bs[i].name = k
      BY <1>2, <2>2 DEF HasName
    <3> QED
      BY <1>2, <1>3, <3>1 DEF HasName
  <2>3. ASSUME HasName(q, k) PROVE HasName(as, k) \/ HasName(bs, k)
    <3>1. PICK i \in 1..Len(q) : q[i].name = k
      BY <1>2, <2>3 DEF HasName
    <3> QED
      BY <1>2, <1>3, <3>1 DEF HasName
  <2> QED
    BY <2>1, <2>2, <2>3
<1>5. ASSUME HasName(as, k) PROVE SameFirst(as, q, k)
  <2> DEFINE i == FirstNamed(as, k)
  <2>1. First(as, k, i)
    BY <1>5, FirstNamedFinds
  <2> HIDE DEF i
  <2>2. First(q, k, i) /\ q[i] = as[i]
    <3>1. i \in 1..Len(as) /\ as[i].name = k /\ \A j \in 1..Len(as) : as[j].name = k => i <= j
      BY <2>1 DEF First
    <3>2. i \in 1..Len(q) /\ q[i] = as[i]
      BY <1>3, <3>1
    <3>3. ASSUME NEW j \in 1..Len(q), q[j].name = k PROVE i <= j
      <4>1. CASE j \in 1..Len(as)
        BY <1>3, <3>1, <3>3, <4>1
      <4>2. CASE j \notin 1..Len(as)
        <5>1. j \in 1..(Len(as) + Len(bs))
          BY <1>1
        <5> QED
          BY <1>2, <3>1, <4>2, <5>1, NotInFront
      <4> QED
        BY <4>1, <4>2
    <3> QED
      BY <3>1, <3>2, <3>3 DEF First
  <2>3. \A u : FirstIs(as, k, u) <=> u = as[i]
    BY <2>1, FirstUnique DEF FirstIs
  <2>4. \A u : FirstIs(q, k, u) <=> u = q[i]
    BY <1>1, <2>2, FirstUnique DEF FirstIs
  <2> QED
    BY <2>2, <2>3, <2>4 DEF SameFirst
<1>6. ASSUME ~HasName(bs, k) PROVE SameFirst(as, q, k)
  <2>1. CASE HasName(as, k)
    BY <1>5, <2>1
  <2>2. CASE ~HasName(as, k)
    BY <1>1, <1>4, <1>6, <2>2, NamedIffFirst DEF SameFirst
  <2> QED
    BY <2>1, <2>2
<1>7. ASSUME ~HasName(as, k), HasName(bs, k) PROVE FirstIs(q, k, bs[FirstNamed(bs, k)])
  <2> DEFINE i == FirstNamed(bs, k)
  <2>1. First(bs, k, i)
    BY <1>7, FirstNamedFinds
  <2> HIDE DEF i
  <2>2. \A j \in 1..Len(as) : as[j].name # k
    BY <1>2, <1>7 DEF HasName
  <2>3. i \in 1..Len(bs) /\ bs[i].name = k /\ \A j \in 1..Len(bs) : bs[j].name = k => i <= j
    BY <2>1 DEF First
  <2>4. ASSUME NEW j \in 1..Len(q), q[j].name = k PROVE Len(as) + i <= j
    <3>1. j \notin 1..Len(as)
      BY <1>3, <2>2, <2>4
    <3>2. j - Len(as) \in 1..Len(bs) /\ q[j] = bs[j - Len(as)]
      BY <1>3, <3>1
    <3>3. i <= j - Len(as)
      BY <2>3, <2>4, <3>2
    <3>4. j \in 1..(Len(as) + Len(bs)) /\ i \in 1..Len(bs)
      BY <1>1, <2>3
    <3> QED
      BY <1>2, <3>1, <3>3, <3>4, NotInFront
  <2>5. First(q, k, Len(as) + i) /\ q[Len(as) + i] = bs[i]
    BY <1>3, <2>3, <2>4 DEF First
  <2> QED
    BY <2>5 DEF FirstIs, i
<1> QED
  BY <1>4, <1>5, <1>6, <1>7 DEF q

LEMMA BulkInv ==
  ASSUME Inv, NEW us \in Batches, BulkInsert(us), UNCHANGED terminated
  PROVE  Inv'
<1>0. us \in Seq(UnitSet) /\ Holds(c) /\ c.units \in Seq(UnitSet)
  BY BatchesAssumption DEF Inv, TypePart, IsContainer, Holds
<1>1. /\ SameBut(c, c') /\ c'.units = c.units \o us
      /\ c'.changed \in BOOLEAN
  <2>1. CASE us = <<>>
    <3>1. c.units \o us = c.units
      BY <1>0, <2>1, ConcatEmptySeq
    <3> QED
      BY <1>0, <2>1, <3>1 DEF BulkInsert, WithBulk, SameBut, Holds
  <2>2. CASE us # <<>>
    BY <1>0, <2>2 DEF BulkInsert, WithBulk, SameBut, Holds, Fields
  <2> QED
    BY <2>1, <2>2
<1>2. Holds(c') /\ c'.units \in Seq(UnitSet)
  <2>1. c.units \o us \in Seq(UnitSet)
    BY <1>0, ConcatProperties
  <2> QED
    BY <1>1, <2>1 DEF Holds, SameBut
<1>3. gone' \subseteq gone /\ UNCHANGED received
  BY DEF BulkInsert
<1>4. GonePart'
  <2> SUFFICES ASSUME NEW k \in gone' PROVE ~HasName(c'.units, k)
    BY DEF GonePart
  <2>1. k \in gone /\ ~HasName(us, k)
    BY DEF BulkInsert, HasName
  <2>2. ~HasName(c.units, k)
    BY <2>1 DEF Inv, GonePart
  <2> QED
    BY <1>0, <1>1, <2>1, <2>2, ConcatFirst
<1>5. WrittenPart'
  <2> SUFFICES ASSUME NEW n \in Names, written'[n] # None, ~written'[n].lazy
               PROVE  /\ c'.parsed /\ written'[n].pay \in PayloadSet
                      /\ FirstIs(c'.units, n, Unit(n, written'[n].pay))
    BY DEF WrittenPart
  <2>1. CASE ~(HasName(us, n) /\ ~HasName(c.units, n))
    <3>1. written'[n] = written[n]
      BY <2>1 DEF BulkInsert
    <3>2. /\ c.parsed /\ written[n].pay \in PayloadSet
          /\ FirstIs(c.units, n, Unit(n, written[n].pay))
      BY <3>1 DEF Inv, WrittenPart
    <3>3. SameFirst(c.units, c'.units, n)
      BY <1>0, <1>1, <2>1, ConcatFirst
    <3> QED
      BY <1>1, <3>1, <3>2, <3>3 DEF SameBut, SameFirst
  <2>2. CASE HasName(us, n) /\ ~HasName(c.units, n)
    <3> DEFINE u == us[FirstNamed(us, n)]
    <3>1. FirstIs(c'.units, n, u)
      BY <1>0, <1>1, <2>2, ConcatFirst
    <3>2. u \in UnitSet /\ u.name = n
      BY <1>0, <2>2, FirstNamedFinds, LenProperties DEF First
    <3>3. written'[n] = [pay |-> Payload(u), lazy |-> ~c.parsed]
      BY <2>2 DEF BulkInsert
    <3> HIDE DEF u
    <3>4. c.parsed
      <4>1. written'[n].lazy = ~c.parsed
        BY <3>3
      <4> QED
        BY <4>1, Zenon
    <3>5. Unit(n, written'[n].pay) = u /\ written'[n].pay \in PayloadSet
      <4>1. Unit(u.name, Payload(u)) = u /\ Payload(u) \in PayloadSet
        BY <3>2, UnitOfPayload
      <4> QED
        BY <3>2, <3>3, <4>1
    <3> QED
      BY <1>1, <3>1, <3>4, <3>5 DEF SameBut
  <2> QED
    BY <2>1, <2>2
<1> QED
  BY <1>1, <1>2, <1>3, <1>4, <1>5, VectorStep

-----------------------------------------------------------------------------
(* The calls that remove and update *)

\* The lazy parse leaves a parsed container with the same raw packet and index.
LEMMA ForcedParseType ==
  ASSUME NEW v, IsContainer(v)
  PROVE  /\ IsContainer(ForcedParse(v)) /\ ForcedParse(v).parsed
         /\ ForcedParse(v).raw = v.raw /\ ForcedParse(v).index = v.index
         /\ v.parsed => ForcedParse(v) = v
<1>1. CASE v.parsed
  BY <1>1 DEF ForcedParse
<1>2. CASE ~v.parsed
  <2>1. ForcedParse(v) = WithValues(v, v.data, FALSE)
    BY <1>2 DEF ForcedParse
  <2>2. v.data \in Section
    BY DEF IsContainer
  <2>3. Reads(WithValues(v, v.data, FALSE), v, v.data, FALSE)
    BY <2>2, WithValuesType
  <2> QED
    BY <1>2, <2>1, <2>3 DEF Reads
<1> QED
  BY <1>1, <1>2

\* A removal that throws, or finds nothing, after the lazy parse.
LEMMA ForcedParseInv ==
  ASSUME Inv, c' = ForcedParse(c), received' = <<>>, UNCHANGED <<gone, written, terminated>>
  PROVE  Inv'
<1>0. IsContainer(c) /\ (c.index # NoIndex => c.index = BuildIndex(c.raw))
  BY DEF Inv, TypePart, IndexPart
<1>1. /\ IsContainer(c') /\ c'.parsed /\ c'.raw = c.raw /\ c'.index = c.index
      /\ c.parsed => c' = c
  BY <1>0, ForcedParseType
<1>2. TypePart' /\ IndexPart' /\ LazyPart'
  <2>1. <<>> \in Section
    BY EmptySeq DEF Section
  <2> QED
    BY <1>0, <1>1, <2>1 DEF Inv, TypePart, IndexPart, LazyPart
<1>3. GonePart'
  <2>1. CASE c.parsed
    BY <1>1, <2>1 DEF Inv, GonePart
  <2>2. CASE ~c.parsed
    BY <2>2 DEF Inv, LazyPart, GonePart
  <2> QED
    BY <2>1, <2>2
<1>4. WrittenPart'
  BY <1>1 DEF Inv, WrittenPart
<1> QED
  BY <1>2, <1>3, <1>4 DEF Inv

\* A removal that goes through.
LEMMA WithoutNamesInv ==
  ASSUME Inv, NEW ks \in SUBSET Names, c' = WithoutNames(c, ks), gone' = gone \union ks,
         written' = Unwritten(ks), received' = <<>>, UNCHANGED terminated
  PROVE  Inv'
<1> DEFINE w == ForcedParse(c)
<1> DEFINE kept == Keep(w.units, AnyName \ ks)
<1>0. IsContainer(c) /\ (c.index # NoIndex => c.index = BuildIndex(c.raw))
  BY DEF Inv, TypePart, IndexPart
<1>1. /\ IsContainer(w) /\ w.parsed /\ w.raw = c.raw /\ w.index = c.index
      /\ c.parsed => w = c
  BY <1>0, ForcedParseType
<1>2. c' = [w EXCEPT !.units = kept, !.changed = @ \/ Len(kept) < Len(w.units)]
  BY DEF WithoutNames
<1> HIDE DEF w
<1>3. w.units \in Seq(UnitSet) /\ Len(w.units) \in Nat
  BY <1>1, LenProperties DEF IsContainer, Holds
<1>4. KeptSoFar(kept, UnitSet, w.units, AnyName \ ks, Len(w.units))
  BY <1>3, KeepProperties
<1> HIDE DEF kept
<1>5. kept \in Seq(UnitSet) /\ DOMAIN kept = 1..Len(kept)
  BY <1>4, LenProperties DEF KeptSoFar
<1>6. /\ DOMAIN c' = Fields /\ c'.header = w.header /\ c'.parsed = w.parsed
      /\ c'.data = w.data /\ c'.units = kept
      /\ c'.raw = w.raw /\ c'.zero = w.zero /\ c'.index = w.index
  BY <1>1, <1>2 DEF IsContainer, Holds, Fields
<1>7. c'.changed \in BOOLEAN
  BY <1>1, <1>2 DEF IsContainer, Holds, Fields
<1>8. IsContainer(c')
  BY <1>1, <1>5, <1>6, <1>7 DEF IsContainer, Holds
<1>9. TypePart' /\ IndexPart' /\ LazyPart'
  <2>1. <<>> \in Section
    BY EmptySeq DEF Section
  <2> QED
    BY <1>0, <1>1, <1>6, <1>8, <2>1 DEF Inv, TypePart, IndexPart, LazyPart
<1>10. GonePart'
  <2> SUFFICES ASSUME NEW k \in gone', NEW j \in 1..Len(kept), kept[j].name = k PROVE FALSE
    BY <1>5, <1>6 DEF GonePart, HasName
  <2>1. k \notin ks
    BY <1>4 DEF KeptSoFar
  <2>2. k \in gone
    BY <2>1
  <2>3. c.parsed
    BY <2>2 DEF Inv, LazyPart
  <2>4. PICK i \in 1..Len(w.units) : kept[j] = w.units[i]
    BY <1>4 DEF KeptSoFar
  <2>5. HasName(c.units, k)
    BY <1>1, <1>3, <2>3, <2>4, LenProperties DEF HasName
  <2> QED
    BY <2>2, <2>5 DEF Inv, GonePart
<1>11. WrittenPart'
  <2> SUFFICES ASSUME NEW n \in Names, written'[n] # None, ~written'[n].lazy
               PROVE  /\ c'.parsed /\ written'[n].pay \in PayloadSet
                      /\ FirstIs(c'.units, n, Unit(n, written'[n].pay))
    BY DEF WrittenPart
  <2>1. n \notin ks /\ written'[n] = written[n]
    BY DEF Unwritten
  <2>2. /\ c.parsed /\ written[n].pay \in PayloadSet
          /\ FirstIs(c.units, n, Unit(n, written[n].pay))
    BY <2>1 DEF Inv, WrittenPart
  <2>3. PICK i : First(w.units, n, i) /\ w.units[i] = Unit(n, written[n].pay)
    BY <1>1, <2>2 DEF FirstIs
  <2>4. FirstIs(kept, n, w.units[i])
    <3>1. n \in AnyName \ ks /\ i \in 1..Len(w.units)
      BY <2>1, <2>3 DEF AnyName, First
    <3> QED
      BY <1>4, <2>3, <3>1 DEF KeptSoFar
  <2> QED
    BY <1>1, <1>6, <2>1, <2>2, <2>3, <2>4
<1> QED
  BY <1>9, <1>10, <1>11 DEF Inv

LEMMA RemoveInv ==
  ASSUME Inv, UNCHANGED terminated,
         (\E ks \in SUBSET Names : RemoveBatch(ks)) \/ (\E k \in Names : RemoveResult(k))
  PROVE  Inv'
<1>1. CASE \E ks \in SUBSET Names : RemoveBatch(ks)
  <2>1. PICK ks \in SUBSET Names : RemoveBatch(ks)
    BY <1>1
  <2>2. CASE ForcedParseThrows(c)
    BY <2>1, <2>2, ForcedParseInv DEF RemoveBatch
  <2>3. CASE ~ForcedParseThrows(c)
    BY <2>1, <2>3, WithoutNamesInv DEF RemoveBatch
  <2> QED
    BY <2>2, <2>3
<1>2. CASE \E k \in Names : RemoveResult(k)
  <2>1. PICK k \in Names : RemoveResult(k)
    BY <1>2
  <2>2. CASE ForcedParseThrows(c) \/ ~HasName(ForcedParse(c).units, k)
    BY <2>1, <2>2, ForcedParseInv DEF RemoveResult
  <2>3. CASE ~(ForcedParseThrows(c) \/ ~HasName(ForcedParse(c).units, k))
    <3>1. {k} \in SUBSET Names
      OBVIOUS
    <3> QED
      BY <2>1, <2>3, <3>1, WithoutNamesInv DEF RemoveResult
  <2> QED
    BY <2>2, <2>3
<1> QED
  BY <1>1, <1>2

LEMMA UpdateInv ==
  ASSUME Inv, NEW specs \in Updates, UpdateBatchIf(specs), UNCHANGED terminated
  PROVE  Inv'
<1>0. specs \in Seq(Update) /\ Holds(c) /\ c.units \in Seq(UnitSet) /\ Len(c.units) \in Nat
  BY UpdatesAssumption, LenProperties DEF Update, Inv, TypePart, IsContainer, Holds
<1>1. c' = WithUpdates(c, specs) /\ UNCHANGED <<gone, received>>
  BY DEF UpdateBatchIf
<1>2. Renamed(c, c')
  BY <1>0, <1>1, WithUpdatesKeepsNames
<1>3. /\ SameBut(c, c') /\ Holds(c') /\ c'.units \in Seq(UnitSet)
      /\ Len(c.units) = Len(c'.units)
      /\ \A i \in 1..Len(c.units) : c.units[i].name = c'.units[i].name
  BY <1>2 DEF Renamed, Holds
<1>4. ASSUME NEW k
      PROVE  /\ FirstNamed(c.units, k) = FirstNamed(c'.units, k)
             /\ HasName(c.units, k) <=> HasName(c'.units, k)
  BY <1>0, <1>3, FirstNamedByNames
<1>5. GonePart'
  BY <1>1, <1>4 DEF Inv, GonePart
<1>6. WrittenPart'
  <2> SUFFICES ASSUME NEW n \in Names, written'[n] # None, ~written'[n].lazy
               PROVE  /\ c'.parsed /\ written'[n].pay \in PayloadSet
                      /\ FirstIs(c'.units, n, Unit(n, written'[n].pay))
    BY DEF WrittenPart
  <2> DEFINE i == FirstNamed(c'.units, n)
  <2> DEFINE u == c'.units[i]
  <2>1. ASSUME i # 0
        PROVE  /\ FirstIs(c'.units, n, u) /\ u \in UnitSet /\ u.name = n
               /\ Unit(n, Payload(u)) = u /\ Payload(u) \in PayloadSet
    <3>1. First(c'.units, n, i)
      BY <1>3, <2>1, FirstNamedFinds
    <3>2. u \in UnitSet /\ u.name = n
      BY <1>3, <3>1, LenProperties DEF First
    <3>3. Unit(u.name, Payload(u)) = u /\ Payload(u) \in PayloadSet
      BY <3>2, UnitOfPayload
    <3> QED
      BY <3>1, <3>2, <3>3 DEF FirstIs
  <2>2. written'[n] = IF i # 0 /\ Payload(u) # Get(n)
                      THEN [pay |-> Payload(u), lazy |-> ~c.parsed]
                      ELSE written[n]
    BY <1>1 DEF UpdateBatchIf
  <2> HIDE DEF u, i
  <2>3. CASE i # 0 /\ Payload(u) # Get(n)
    <3>1. written'[n] = [pay |-> Payload(u), lazy |-> ~c.parsed]
      BY <2>2, <2>3
    <3>2. written'[n].lazy = ~c.parsed
      BY <3>1
    <3>3. c.parsed
      BY <3>2, Zenon
    <3>4. Unit(n, written'[n].pay) = u /\ written'[n].pay \in PayloadSet
      BY <2>1, <2>3, <3>1
    <3> QED
      BY <1>3, <2>1, <2>3, <3>3, <3>4 DEF SameBut
  <2>4. CASE ~(i # 0 /\ Payload(u) # Get(n))
    <3>1. written'[n] = written[n]
      BY <2>2, <2>4
    <3>2. /\ c.parsed /\ written[n].pay \in PayloadSet
          /\ FirstIs(c.units, n, Unit(n, written[n].pay))
      BY <3>1 DEF Inv, WrittenPart
    <3>3. HasName(c.units, n) /\ c.units[FirstNamed(c.units, n)] = Unit(n, written[n].pay)
      BY <1>0, <3>2, FirstNamedIs
    <3>4. i # 0 /\ Get(n) = Payload(Unit(n, written[n].pay))
      BY <1>0, <1>4, <3>3, FirstNamedFinds DEF Get, i
    <3>5. Unit(n, Payload(u)) = Unit(n, written[n].pay)
      BY <2>4, <3>4 DEF Unit, Payload
    <3> QED
      BY <1>3, <2>1, <3>1, <3>2, <3>4, <3>5 DEF SameBut
  <2> QED
    BY <2>3, <2>4
<1> QED
  BY <1>1, <1>3, <1>5, <1>6, VectorStep

-----------------------------------------------------------------------------
(* The theorems *)

LEMMA NextInv == Inv /\ [Next]_vars => Inv'
<1> SUFFICES ASSUME Inv, [Next]_vars PROVE Inv'
  OBVIOUS
<1>1. CASE UNCHANGED vars
  BY <1>1 DEF vars, Inv, TypePart, IndexPart, LazyPart, GonePart, WrittenPart
<1>2. CASE \E p \in Packets, lazy \in BOOLEAN : DeserializeTerminates(p, lazy)
  BY <1>2, TerminateInv
<1>3. CASE Call /\ UNCHANGED terminated
  <2>1. CASE \E p \in Packets, lazy \in BOOLEAN : Construct(p, lazy) \/ DeserializeResult(p, lazy)
    BY <1>3, <2>1, ConstructInv, DeserializeInv
  <2>2. CASE \E lazy \in BOOLEAN : CopyConstruct(lazy) \/ Copy(lazy)
    BY <1>3, <2>2, CopyConstructInv, CopyInv
  <2>3. CASE MoveConstruct \/ MoveAssign
    BY <1>3, <2>3, MoveConstructInv, MoveAssignInv
  <2>4. CASE \/ \E id \in Ids : SetSource(id) \/ SetTarget(id)
             \/ \E t \in Types \union {DataContainer} : SetMessageType(t)
             \/ SwapHeader
    BY <1>3, <2>4, HeaderInv
  <2>5. CASE ClearValue \/ Initialize
    BY <1>3, <2>5, ClearInv
  <2>6. CASE \E us \in Batches : SetAll(us) \/ SetAllResult(us) \/ BulkInsert(us)
    BY <1>3, <2>6, SetAllInv, BulkInv
  <2>7. CASE (\E ks \in SUBSET Names : RemoveBatch(ks)) \/ (\E k \in Names : RemoveResult(k))
    BY <1>3, <2>7, RemoveInv
  <2>8. CASE \E specs \in Updates : UpdateBatchIf(specs)
    BY <1>3, <2>8, UpdateInv
  <2>9. CASE EnsureIndexBuilt
    BY <1>3, <2>9, IndexInv
  <2>10. CASE \E d \in MsgDocs \union (IF MsgpackThrows(c) THEN {} ELSE {ToMsgpack(c)}) :
                DeserializeMsgpack(d)
    BY <1>3, <2>10, MsgpackInv
  <2> QED
    BY <1>3, <2>1, <2>2, <2>3, <2>4, <2>5, <2>6, <2>7, <2>8, <2>9, <2>10 DEF Call
<1> QED
  BY <1>1, <1>2, <1>3 DEF Next

\* The inductive invariant holds: every call of value_container keeps it.
THEOREM ContainerInvariance == Spec => []Inv
BY InitInv, NextInv, PTL DEF Spec

\* After any calls the container is a well-formed object (TypeOK).
THEOREM ContainerTypes == Spec => []TypeOK
<1>1. Inv => TypeOK
  BY DEF Inv, TypePart, IsContainer, Holds, TypeOK
<1> QED
  BY <1>1, ContainerInvariance, PTL

\* A container that was filled lazily sends on the section that it was given,
\* as long as nobody writes into it.
THEOREM LazyForwards == Spec => []LazyForwardsReceived
<1>1. Inv => LazyForwardsReceived
  BY DEF Inv, LazyPart, LazyForwardsReceived, SerializeBinary, Datas
<1> QED
  BY <1>1, ContainerInvariance, PTL

\* What remove_batch and remove_result removed answers no get and is in no
\* packet, until it is stored or received again.
THEOREM RemovedIsGone == Spec => []RemovedStaysGone
<1>1. ASSUME Inv PROVE RemovedStaysGone
  <2> SUFFICES ASSUME NEW k \in gone
               PROVE  ~HasName(c.units, k) /\ ~HasName(SerializeBinary(c).data, k)
    BY DEF RemovedStaysGone
  <2>1. ~HasName(c.units, k) /\ c.parsed /\ IsContainer(c)
    BY <1>1 DEF Inv, GonePart, LazyPart, TypePart
  <2>2. /\ Datas(c) \in Seq(UnitSet) /\ Len(Datas(c)) = Len(c.units)
        /\ \A i \in 1..Len(c.units) : Datas(c)[i].name = c.units[i].name
    BY <2>1, DatasType
  <2>3. c.units \in Seq(UnitSet)
    BY <2>1 DEF IsContainer, Holds
  <2>4. HasName(c.units, k) <=> HasName(Datas(c), k)
    BY <2>2, <2>3, FirstNamedByNames
  <2> QED
    BY <2>1, <2>4, SerializeType
<1>2. Inv => RemovedStaysGone
  BY <1>1
<1> QED
  BY <1>2, ContainerInvariance, PTL

\* What set, bulk_insert and update_if stored is what get returns and what the
\* packet says, until something stores, removes or replaces it.
THEOREM WritesAreReadBack == Spec => []WritesReadBack
<1>1. ASSUME Inv PROVE WritesReadBack
  <2> DEFINE text == SerializeBinary(c).data
  <2> SUFFICES ASSUME NEW n \in Names, written[n] # None, ~written[n].lazy
               PROVE  /\ Get(n) = written[n].pay
                      /\ HasName(text, n)
                      /\ text[FirstNamed(text, n)] = TextOf(Unit(n, written[n].pay))
    BY DEF WritesReadBack
  <2> DEFINE i == FirstNamed(c.units, n)
  <2> DEFINE u == Unit(n, written[n].pay)
  <2>1. IsContainer(c) /\ c.parsed /\ written[n].pay \in PayloadSet /\ FirstIs(c.units, n, u)
    BY <1>1 DEF Inv, WrittenPart, TypePart
  <2>2. c.units \in Seq(UnitSet)
    BY <2>1 DEF IsContainer, Holds
  <2>3. HasName(c.units, n) /\ c.units[i] = u
    BY <2>1, <2>2, FirstNamedIs
  <2>4. i # 0 /\ i \in 1..Len(c.units)
    BY <2>2, <2>3, FirstNamedFinds DEF First
  <2>5. Get(n) = Payload(u)
    BY <2>3, <2>4 DEF Get
  <2>6. Payload(u) = written[n].pay
    BY <2>1 DEF Payload, Unit, PayloadSet
  <2>7. text = Datas(c)
    BY <2>1, SerializeType
  <2> HIDE DEF text, i, u
  <2>8. /\ text \in Seq(UnitSet) /\ Len(text) = Len(c.units)
        /\ \A j \in 1..Len(c.units) : text[j] = TextOf(c.units[j])
        /\ \A j \in 1..Len(c.units) : text[j].name = c.units[j].name
    BY <2>1, <2>7, DatasType
  <2>9. FirstNamed(text, n) = i /\ HasName(text, n)
    BY <2>2, <2>3, <2>8, FirstNamedByNames DEF i
  <2> QED
    BY <2>3, <2>4, <2>5, <2>6, <2>8, <2>9 DEF u
<1>2. Inv => WritesReadBack
  BY <1>1
<1> QED
  BY <1>2, ContainerInvariance, PTL

\* An eager copy keeps every first value that the text format can carry, and a
\* copy of the copy is the same.
THEOREM CopiesAreNormal == Spec => []CopyNormalises
<1>1. Inv => CopyNormalises
  BY CopiesNormalise DEF Inv, TypePart
<1> QED
  BY <1>1, ContainerInvariance, PTL

-----------------------------------------------------------------------------
(* Reductions.  R and Q relate results to the sets of values they are the   *)
(* results of; what op makes of a result of each is one of R, for both sets *)
(* together, when they share no value.                                     *)

Joins(op, R, Q) ==
  \A x, y, I, J : <<x, I>> \in R /\ <<y, J>> \in Q /\ I \cap J = {} => <<Apply(op, x, y), I \cup J>> \in R

\* The first n lanes of v are the results of n sets that make up U.
Parts(R, v, n, U, P) ==
  /\ \A l \in 1..n : <<v[l], P[l]>> \in R
  /\ \A l, m \in 1..n : l # m => P[l] \cap P[m] = {}
  /\ U = UNION {P[l] : l \in 1..n}
Covers(R, v, n, U) == \E P : Parts(R, v, n, U, P)

IsLoop(f, op, start, s, m) == f = [n \in 0..m |-> IF n = 0 THEN start ELSE Apply(op, f[n - 1], s[n])]

\* The recursion of Loop has a solution.
LEMMA LoopExists ==
  ASSUME NEW op, NEW start, NEW s
  PROVE  \A m \in Nat : \E f : IsLoop(f, op, start, s, m)
  <1> DEFINE S == {m \in Nat : \E f : IsLoop(f, op, start, s, m)}
  <1>1. 0 \in S
    <2>1. IsLoop([n \in 0..0 |-> start], op, start, s, 0)
      BY DEF IsLoop
    <2> QED
      BY <2>1
  <1>2. ASSUME NEW m \in Nat, m \in S PROVE m + 1 \in S
    <2>1. PICK f : IsLoop(f, op, start, s, m)
      BY <1>2
    <2> DEFINE last == Apply(op, f[m], s[m + 1])
               g == [n \in 0..(m + 1) |-> IF n = m + 1 THEN last ELSE f[n]]
    <2>2. IsLoop(g, op, start, s, m + 1)
      <3>1. ASSUME NEW n \in 0..(m + 1)
            PROVE  g[n] = IF n = 0 THEN start ELSE Apply(op, g[n - 1], s[n])
        <4>1. CASE n = m + 1
          BY <4>1
        <4>2. CASE n # m + 1
          <5>1. n \in 0..m /\ g[n] = f[n] /\ (n # 0 => g[n - 1] = f[n - 1])
            BY <4>2
          <5> QED
            BY <2>1, <5>1 DEF IsLoop
        <4> QED
          BY <4>1, <4>2
      <3> HIDE DEF last
      <3> QED
        BY <3>1 DEF IsLoop
    <2> QED
      BY <2>2
  <1> HIDE DEF S
  <1>3. Nat \subseteq S
    BY <1>1, <1>2, SetInduction
  <1> QED
    BY <1>3 DEF S

\* Loop is its recursion's solution.
LEMMA LoopUnfolds ==
  ASSUME NEW op, NEW start, NEW s, Len(s) \in Nat
  PROVE  \E f : IsLoop(f, op, start, s, Len(s)) /\ Loop(op, start, s) = f[Len(s)]
  <1> DEFINE F == CHOOSE f : IsLoop(f, op, start, s, Len(s))
  <1>1. IsLoop(F, op, start, s, Len(s))
    BY LoopExists
  <1>2. Loop(op, start, s) = F[Len(s)]
    BY DEF Loop, IsLoop
  <1> QED
    BY <1>1, <1>2

\* A loop over results of sets
LEMMA LoopJoins ==
  ASSUME NEW op, NEW R, NEW Q, Joins(op, R, Q), NEW s, Len(s) \in Nat, NEW start, NEW I, <<start, I>> \in R,
         NEW U, NEW P, Parts(Q, s, Len(s), U, P), I \cap U = {}
  PROVE  <<Loop(op, start, s), I \cup U>> \in R
  <1> DEFINE N == Len(s)
             Upto(n) == UNION {P[l] : l \in 1..n}
  <1>1. PICK f : IsLoop(f, op, start, s, N) /\ Loop(op, start, s) = f[N]
    BY LoopUnfolds
  <1>2. N \in Nat
    OBVIOUS
  <1> HIDE DEF N
  <1> DEFINE S == {n \in Nat : n <= N => <<f[n], I \cup Upto(n)>> \in R}
  <1>3. 0 \in S
    <2>1. f[0] = start
      BY <1>1, <1>2 DEF IsLoop
    <2>2. I \cup Upto(0) = I
      OBVIOUS
    <2> QED
      BY <2>1, <2>2
  <1>4. ASSUME NEW n \in Nat, n \in S PROVE n + 1 \in S
    <2> SUFFICES ASSUME n + 1 <= N PROVE <<f[n + 1], I \cup Upto(n + 1)>> \in R
      OBVIOUS
    <2>1. f[n + 1] = Apply(op, f[n], s[n + 1])
      BY <1>1, <1>2 DEF IsLoop
    <2>2. <<f[n], I \cup Upto(n)>> \in R
      BY <1>2, <1>4
    <2>3. n + 1 \in 1..N /\ 1..(n + 1) \subseteq 1..N /\ 1..(n + 1) = 1..n \cup {n + 1}
      BY <1>2
    <2>4. <<s[n + 1], P[n + 1]>> \in Q
      BY <2>3 DEF Parts, N
    <2>5. P[n + 1] \subseteq U
      BY <2>3 DEF Parts, N
    <2>6. \A l \in 1..n : P[l] \cap P[n + 1] = {}
      BY <2>3 DEF Parts, N
    <2>7. (I \cup Upto(n)) \cap P[n + 1] = {}
      BY <2>5, <2>6
    <2>8. Upto(n + 1) = Upto(n) \cup P[n + 1]
      BY <2>3
    <2>9. I \cup Upto(n + 1) = (I \cup Upto(n)) \cup P[n + 1]
      BY <2>8
    <2> HIDE DEF Upto
    <2> QED
      BY <2>1, <2>2, <2>4, <2>7, <2>9 DEF Joins
  <1> HIDE DEF S
  <1>5. N \in S
    BY <1>2, <1>3, <1>4, SetInduction
  <1>6. U = Upto(N)
    BY DEF Parts, N
  <1> HIDE DEF Upto
  <1> QED
    BY <1>1, <1>2, <1>5, <1>6 DEF S

\* The lanes of a vector, from the first
LEMMA LoopLanesJoins ==
  ASSUME NEW op, NEW R, Joins(op, R, R), NEW T, NEW v \in Seq(T), Len(v) > 0, NEW U, Covers(R, v, Len(v), U)
  PROVE  <<LoopLanes(op, v), U>> \in R
  <1>1. PICK P : Parts(R, v, Len(v), U, P)
    BY DEF Covers
  <1> DEFINE n == Len(v)
             s == Tail(v)
             Q == [l \in 1..(n - 1) |-> P[l + 1]]
             V == UNION {Q[l] : l \in 1..(n - 1)}
  <1>2. n \in Nat /\ n > 0 /\ s \in Seq(T) /\ Len(s) = n - 1 /\ \A l \in 1..(n - 1) : s[l] = v[l + 1]
    OBVIOUS
  <1> HIDE DEF n, s
  <1>3. 1 \in 1..n /\ \A l \in 1..(n - 1) : l + 1 \in 1..n
    BY <1>2
  <1>4. Parts(R, s, n - 1, V, Q)
    <2>1. \A l \in 1..(n - 1) : <<s[l], Q[l]>> \in R
      BY <1>1, <1>2, <1>3 DEF Parts, n
    <2>2. \A l, m \in 1..(n - 1) : l # m => Q[l] \cap Q[m] = {}
      BY <1>1, <1>2, <1>3 DEF Parts, n
    <2> QED
      BY <2>1, <2>2 DEF Parts
  <1>5. P[1] \cap V = {}
    <2>1. \A l \in 1..(n - 1) : l + 1 # 1 /\ Q[l] = P[l + 1]
      BY <1>2
    <2>2. \A l \in 1..(n - 1) : P[1] \cap Q[l] = {}
      BY <1>1, <1>3, <2>1 DEF Parts, n
    <2> HIDE DEF Q
    <2> QED
      BY <2>2
  <1>6. P[1] \cup V = U
    <2>1. ASSUME NEW x \in U PROVE x \in P[1] \cup V
      <3>1. PICK l \in 1..n : x \in P[l]
        BY <1>1 DEF Parts, n
      <3>2. CASE l = 1
        BY <3>1, <3>2
      <3>3. CASE l # 1
        <4>1. l - 1 \in 1..(n - 1) /\ (l - 1) + 1 = l
          BY <1>2, <3>1, <3>3
        <4>2. x \in Q[l - 1]
          BY <3>1, <4>1
        <4> QED
          BY <4>1, <4>2
      <3> QED
        BY <3>2, <3>3
    <2>2. P[1] \cup V \subseteq U
      BY <1>1, <1>3 DEF Parts, n
    <2> QED
      BY <2>1, <2>2
  <1>7. <<v[1], P[1]>> \in R
    BY <1>1, <1>3 DEF Parts, n
  <1> HIDE DEF Q, V
  <1>8. Len(s) \in Nat /\ Parts(R, s, Len(s), V, Q)
    BY <1>2, <1>4
  <1>9. <<Loop(op, v[1], s), P[1] \cup V>> \in R
    BY <1>5, <1>7, <1>8, LoopJoins
  <1> QED
    BY <1>6, <1>9 DEF LoopLanes, s
Vec(v, n) == v = [l \in 1..n |-> v[l]]

\* A vector is a sequence of its lanes.
LEMMA VecLen ==
  ASSUME NEW n \in Nat, NEW v, Vec(v, n)
  PROVE  \E T : v \in Seq(T) /\ Len(v) = n /\ DOMAIN v = 1..n
  <1> DEFINE T == {v[l] : l \in 1..n}
  <1>1. v \in [1..n -> T]
    BY DEF Vec
  <1>2. v \in Seq(T)
    BY <1>1, SeqDef
  <1> HIDE DEF T
  <1>3. DOMAIN v = 1..n
    BY <1>1
  <1> QED
    BY <1>2, <1>3

\* Adding the upper half of a vector to the lower one
LEMMA HalveCovers ==
  ASSUME NEW op, NEW R, Joins(op, R, R), NEW n \in Nat, NEW v, Vec(v, 2 * n), NEW U, Covers(R, v, 2 * n, U)
  PROVE  Vec(Halve(op, v), n) /\ Covers(R, Halve(op, v), n, U)
  <1>1. PICK P : Parts(R, v, 2 * n, U, P)
    BY DEF Covers
  <1> DEFINE h == Halve(op, v)
             Q == [l \in 1..n |-> P[l] \cup P[l + n]]
  <1>2. Len(v) = 2 * n
    <2>1. 2 * n \in Nat
      OBVIOUS
    <2> QED
      BY <2>1, VecLen
  <1>3. Len(v) \div 2 = n
    BY <1>2
  <1>4. h = [l \in 1..n |-> Apply(op, v[l], v[l + n])]
    BY <1>3 DEF Halve
  <1>5. \A l \in 1..n : l \in 1..(2 * n) /\ l + n \in 1..(2 * n) /\ l # l + n
    OBVIOUS
  <1>6. ASSUME NEW l \in 1..n PROVE <<h[l], Q[l]>> \in R
    <2>1. /\ <<v[l], P[l]>> \in R /\ <<v[l + n], P[l + n]>> \in R /\ P[l] \cap P[l + n] = {}
      BY <1>1, <1>5 DEF Parts
    <2>2. h[l] = Apply(op, v[l], v[l + n]) /\ Q[l] = P[l] \cup P[l + n]
      BY <1>4
    <2> HIDE DEF h, Q
    <2> QED
      BY <2>1, <2>2 DEF Joins
  <1>7. ASSUME NEW l \in 1..n, NEW m \in 1..n, l # m PROVE Q[l] \cap Q[m] = {}
    <2>1. l # m + n /\ l + n # m /\ l + n # m + n
      BY <1>7
    <2>2. /\ P[l] \cap P[m] = {} /\ P[l] \cap P[m + n] = {} /\ P[l + n] \cap P[m] = {} /\ P[l + n] \cap P[m + n] = {}
      BY <1>1, <1>5, <1>7, <2>1 DEF Parts
    <2> QED
      BY <2>2
  <1>8. U = UNION {Q[l] : l \in 1..n}
    <2>1. ASSUME NEW x \in U PROVE \E l \in 1..n : x \in Q[l]
      <3>1. PICK l \in 1..(2 * n) : x \in P[l]
        BY <1>1 DEF Parts
      <3>2. CASE l \in 1..n
        BY <3>1, <3>2
      <3>3. CASE l \notin 1..n
        <4>1. l - n \in 1..n /\ (l - n) + n = l
          BY <3>1, <3>3
        <4>2. x \in Q[l - n]
          BY <3>1, <4>1
        <4> QED
          BY <4>1, <4>2
      <3> QED
        BY <3>2, <3>3
    <2>2. ASSUME NEW l \in 1..n PROVE Q[l] \subseteq U
      <3>1. P[l] \subseteq U /\ P[l + n] \subseteq U
        BY <1>1, <1>5 DEF Parts
      <3> QED
        BY <3>1
    <2> HIDE DEF Q
    <2> QED
      BY <2>1, <2>2
  <1>9. Vec(h, n)
    BY <1>4 DEF Vec
  <1> HIDE DEF h, Q
  <1>10. Parts(R, h, n, U, Q)
    BY <1>6, <1>7, <1>8 DEF Parts
  <1> QED
    BY <1>9, <1>10 DEF Covers, h

\* One lane is left.
LEMMA LastLane ==
  ASSUME NEW R, NEW v, NEW U, Covers(R, v, 1, U)
  PROVE  <<v[1], U>> \in R
  <1>1. PICK P : Parts(R, v, 1, U, P)
    BY DEF Covers
  <1>2. 1..1 = {1}
    OBVIOUS
  <1>3. U = P[1]
    BY <1>1, <1>2 DEF Parts
  <1> QED
    BY <1>1, <1>2, <1>3 DEF Parts

\* Two lanes, added
LEMMA TwoLanes ==
  ASSUME NEW op, NEW R, Joins(op, R, R), NEW v, NEW U, Covers(R, v, 2, U)
  PROVE  <<Apply(op, v[1], v[2]), U>> \in R
  <1>1. PICK P : Parts(R, v, 2, U, P)
    BY DEF Covers
  <1>2. 1..2 = {1, 2}
    OBVIOUS
  <1>3. U = P[1] \cup P[2] /\ P[1] \cap P[2] = {} /\ <<v[1], P[1]>> \in R /\ <<v[2], P[2]>> \in R
    BY <1>1, <1>2 DEF Parts
  <1> QED
    BY <1>3 DEF Joins

\* Sixteen lanes, halved to one
LEMMA Reduce16Joins ==
  ASSUME NEW op, NEW R, Joins(op, R, R), NEW v, Vec(v, 16), NEW U, Covers(R, v, 16, U)
  PROVE  <<Reduce16(op, v), U>> \in R
  <1> DEFINE a == Halve(op, v)
             b == Halve(op, a)
             g == Halve(op, b)
             d == Halve(op, g)
  <1>1. 16 = 2 * 8 /\ 8 = 2 * 4 /\ 4 = 2 * 2 /\ 2 = 2 * 1
    OBVIOUS
  <1>2. Vec(a, 8) /\ Covers(R, a, 8, U)
    BY <1>1, HalveCovers
  <1> HIDE DEF a
  <1>3. Vec(b, 4) /\ Covers(R, b, 4, U)
    BY <1>1, <1>2, HalveCovers
  <1> HIDE DEF b
  <1>4. Vec(g, 2) /\ Covers(R, g, 2, U)
    BY <1>1, <1>3, HalveCovers
  <1> HIDE DEF g
  <1>5. Vec(d, 1) /\ Covers(R, d, 1, U)
    BY <1>1, <1>4, HalveCovers
  <1> HIDE DEF d
  <1>6. <<d[1], U>> \in R
    BY <1>5, LastLane
  <1> QED
    BY <1>6 DEF Reduce16, a, b, g, d

\* Eight lanes, halved to one
LEMMA Reduce8Joins ==
  ASSUME NEW op, NEW R, Joins(op, R, R), NEW v, Vec(v, 8), NEW U, Covers(R, v, 8, U)
  PROVE  <<Reduce8(op, v), U>> \in R
  <1> DEFINE a == Halve(op, v)
             b == Halve(op, a)
             g == Halve(op, b)
  <1>1. 8 = 2 * 4 /\ 4 = 2 * 2 /\ 2 = 2 * 1
    OBVIOUS
  <1>2. Vec(a, 4) /\ Covers(R, a, 4, U)
    BY <1>1, HalveCovers
  <1> HIDE DEF a
  <1>3. Vec(b, 2) /\ Covers(R, b, 2, U)
    BY <1>1, <1>2, HalveCovers
  <1> HIDE DEF b
  <1>4. Vec(g, 1) /\ Covers(R, g, 1, U)
    BY <1>1, <1>3, HalveCovers
  <1> HIDE DEF g
  <1>5. <<g[1], U>> \in R
    BY <1>4, LastLane
  <1> QED
    BY <1>5 DEF Reduce8, a, b, g

\* Two horizontal additions
LEMMA HAddJoins ==
  ASSUME NEW R, Joins("add", R, R), NEW v, NEW U, Covers(R, v, 4, U)
  PROVE  <<HAdd(HAdd(v))[1], U>> \in R
  <1>1. PICK P : Parts(R, v, 4, U, P)
    BY DEF Covers
  <1> DEFINE a == Plus(v[1], v[2])
             b == Plus(v[3], v[4])
  <1>2. HAdd(HAdd(v))[1] = Plus(a, b)
    <2>1. HAdd(v) = <<a, b, a, b>>
      BY DEF HAdd
    <2> HIDE DEF a, b
    <2> DEFINE w == HAdd(v)
    <2>2. w[1] = a /\ w[2] = b
      BY <2>1
    <2> HIDE DEF w
    <2>3. HAdd(w)[1] = Plus(w[1], w[2])
      BY DEF HAdd
    <2> QED
      BY <2>2, <2>3 DEF w
  <1>3. \A x, y : Apply("add", x, y) = Plus(x, y)
    BY DEF Apply
  <1>4. 1..4 = {1, 2, 3, 4}
    OBVIOUS
  <1>5. /\ <<v[1], P[1]>> \in R /\ <<v[2], P[2]>> \in R /\ <<v[3], P[3]>> \in R /\ <<v[4], P[4]>> \in R
        /\ P[1] \cap P[2] = {} /\ P[3] \cap P[4] = {} /\ P[1] \cap P[3] = {} /\ P[1] \cap P[4] = {}
        /\ P[2] \cap P[3] = {} /\ P[2] \cap P[4] = {}
    BY <1>1, <1>4 DEF Parts
  <1>6. <<a, P[1] \cup P[2]>> \in R /\ <<b, P[3] \cup P[4]>> \in R
    BY <1>3, <1>5 DEF Joins
  <1> HIDE DEF a, b
  <1>7. (P[1] \cup P[2]) \cap (P[3] \cup P[4]) = {}
    BY <1>5
  <1>8. <<Plus(a, b), (P[1] \cup P[2]) \cup (P[3] \cup P[4])>> \in R
    BY <1>3, <1>6, <1>7 DEF Joins
  <1>9. U = (P[1] \cup P[2]) \cup (P[3] \cup P[4])
    BY <1>1, <1>4 DEF Parts
  <1> QED
    BY <1>2, <1>8, <1>9
IsAccumulation(f, op, start, data, width, m) ==
  f = [k \in 0..m |-> IF k = 0 THEN Lanes(width, start) ELSE Vertical(op, f[k - 1], Vector(data, width, k))]

\* The recursion of Accumulate has a solution.
LEMMA AccumulationExists ==
  ASSUME NEW op, NEW start, NEW data, NEW width
  PROVE  \A m \in Nat : \E f : IsAccumulation(f, op, start, data, width, m)
  <1> DEFINE S == {m \in Nat : \E f : IsAccumulation(f, op, start, data, width, m)}
  <1>1. 0 \in S
    <2>1. IsAccumulation([k \in 0..0 |-> Lanes(width, start)], op, start, data, width, 0)
      BY DEF IsAccumulation
    <2> QED
      BY <2>1
  <1>2. ASSUME NEW m \in Nat, m \in S PROVE m + 1 \in S
    <2>1. PICK f : IsAccumulation(f, op, start, data, width, m)
      BY <1>2
    <2> DEFINE last == Vertical(op, f[m], Vector(data, width, m + 1))
               g == [k \in 0..(m + 1) |-> IF k = m + 1 THEN last ELSE f[k]]
    <2>2. IsAccumulation(g, op, start, data, width, m + 1)
      <3>1. ASSUME NEW k \in 0..(m + 1)
            PROVE  g[k] = IF k = 0 THEN Lanes(width, start) ELSE Vertical(op, g[k - 1], Vector(data, width, k))
        <4>1. CASE k = m + 1
          BY <4>1
        <4>2. CASE k # m + 1
          <5>1. k \in 0..m /\ g[k] = f[k] /\ (k # 0 => g[k - 1] = f[k - 1])
            BY <4>2
          <5> QED
            BY <2>1, <5>1 DEF IsAccumulation
        <4> QED
          BY <4>1, <4>2
      <3> HIDE DEF last
      <3> QED
        BY <3>1 DEF IsAccumulation
    <2> QED
      BY <2>2
  <1> HIDE DEF S
  <1>3. Nat \subseteq S
    BY <1>1, <1>2, SetInduction
  <1> QED
    BY <1>3 DEF S

\* Accumulate is its recursion's solution.
LEMMA AccumulateUnfolds ==
  ASSUME NEW op, NEW start, NEW data, NEW width, NEW N \in Nat, N = Vectors(data, width)
  PROVE  \E f : IsAccumulation(f, op, start, data, width, N) /\ Accumulate(op, start, data, width) = f[N]
  <1> DEFINE F == CHOOSE f : IsAccumulation(f, op, start, data, width, N)
  <1>1. IsAccumulation(F, op, start, data, width, N)
    BY AccumulationExists
  <1>2. Accumulate(op, start, data, width) = F[N]
    BY DEF Accumulate, IsAccumulation
  <1> QED
    BY <1>1, <1>2

\* The elements before simd_end are the lanes of the whole vectors, each once.
Place(width, k, l) == (k - 1) * width + l
Placed(width, N, E, n) ==
  /\ N \in Nat /\ E \in Nat /\ E <= n
  /\ \A k \in 1..N, l \in 1..width : Place(width, k, l) \in 1..E
  /\ \A k, i \in 1..N, l, m \in 1..width : Place(width, k, l) = Place(width, i, m) => k = i /\ l = m
  /\ \A j \in 1..E : \E k \in 1..N, l \in 1..width : j = Place(width, k, l)

\* Every place before simd_end is a lane of exactly one whole vector.
LEMMA Places ==
  ASSUME NEW width \in {4, 8, 16}, NEW data, Len(data) \in Nat
  PROVE  Placed(width, Vectors(data, width), SimdEnd(data, width), Len(data))
  <1> DEFINE N == Vectors(data, width)
             E == SimdEnd(data, width)
  <1> DEFINE n == Len(data)
  <1>1. n \in Nat /\ E = n - (n % width) /\ N = E \div width
    BY DEF SimdEnd, Vectors
  <1> HIDE DEF n, N, E
  <1>2. \A j \in Nat : (j \div 4) * 4 + (j % 4) = j /\ j \div 4 \in Nat /\ j % 4 \in 0..3
    OBVIOUS
  <1>3. \A j \in Nat : (j \div 8) * 8 + (j % 8) = j /\ j \div 8 \in Nat /\ j % 8 \in 0..7
    OBVIOUS
  <1>4. \A j \in Nat : (j \div 16) * 16 + (j % 16) = j /\ j \div 16 \in Nat /\ j % 16 \in 0..15
    OBVIOUS
  <1>5. N \in Nat /\ E = N * width /\ E <= n /\ E \in Nat
    <2>1. CASE width = 4
      BY <1>1, <1>2, <2>1
    <2>2. CASE width = 8
      BY <1>1, <1>3, <2>2
    <2>3. CASE width = 16
      BY <1>1, <1>4, <2>3
    <2> QED
      BY <2>1, <2>2, <2>3
  <1>6. \A k \in 1..N, l \in 1..width : (k - 1) * width + l \in 1..E
    <2>1. CASE width = 4
      BY <1>5, <2>1
    <2>2. CASE width = 8
      BY <1>5, <2>2
    <2>3. CASE width = 16
      BY <1>5, <2>3
    <2> QED
      BY <2>1, <2>2, <2>3
  <1>7. \A k, i \in 1..N, l, m \in 1..width : (k - 1) * width + l = (i - 1) * width + m => k = i /\ l = m
    <2>1. CASE width = 4
      BY <1>5, <2>1
    <2>2. CASE width = 8
      BY <1>5, <2>2
    <2>3. CASE width = 16
      BY <1>5, <2>3
    <2> QED
      BY <2>1, <2>2, <2>3
  <1>8. ASSUME NEW j \in 1..E PROVE \E k \in 1..N, l \in 1..width : j = (k - 1) * width + l
    <2> DEFINE k == (j - 1) \div width + 1
               l == ((j - 1) % width) + 1
    <2>1. k \in 1..N /\ l \in 1..width /\ j = (k - 1) * width + l
      <3>1. CASE width = 4
        BY <1>2, <1>5, <3>1
      <3>2. CASE width = 8
        BY <1>3, <1>5, <3>2
      <3>3. CASE width = 16
        BY <1>4, <1>5, <3>3
      <3> QED
        BY <3>1, <3>2, <3>3
    <2> QED
      BY <2>1
  <1> QED
    <2>1. Placed(width, N, E, n)
      BY <1>5, <1>6, <1>7, <1>8 DEF Placed, Place
    <2> QED
      BY <2>1 DEF N, E, n

\* The elements that lane l has taken after k vectors
LaneOf(pos, width, k, l) == {pos[Place(width, i, l)] : i \in 1..k}
Accumulated(R, v, pos, width, k) ==
  /\ Vec(v, width)
  /\ \A l \in 1..width : <<v[l], LaneOf(pos, width, k, l)>> \in R

\* Every element is the result of its own position.
Singly(R, data, pos, n) ==
  /\ \A j \in 1..n : <<data[j], {pos[j]}>> \in R
  /\ \A i, j \in 1..n : pos[i] = pos[j] => i = j

\* The positions of all elements, and of those in whole vectors
Positions(data, pos) == {pos[j] : j \in 1..Len(data)}
WholePart(data, pos, width) == {pos[j] : j \in 1..SimdEnd(data, width)}

\* One more vector
LEMMA AccumulateOneMore ==
  ASSUME NEW op, NEW R, NEW Q, Joins(op, R, Q), NEW width \in Nat, NEW data, NEW pos, NEW n \in Nat, Singly(Q, data, pos, n),
         NEW N, NEW E, Placed(width, N, E, n), NEW k \in Nat, k + 1 <= N, NEW v, Accumulated(R, v, pos, width, k)
  PROVE  Accumulated(R, Vertical(op, v, Vector(data, width, k + 1)), pos, width, k + 1)
  <1> DEFINE w == Vertical(op, v, Vector(data, width, k + 1))
             At(l) == Place(width, k + 1, l)
  <1>1. k + 1 \in 1..N /\ 1..(k + 1) = 1..k \cup {k + 1} /\ 1..k \subseteq 1..N /\ k + 1 \notin 1..k /\ 1..E \subseteq 1..n
    BY DEF Placed
  <1>2. w = [l \in 1..width |-> Apply(op, v[l], data[At(l)])]
    <2>1. DOMAIN v = 1..width
      BY DEF Accumulated, Vec
    <2>2. \A l \in 1..width : Vector(data, width, k + 1)[l] = data[At(l)]
      BY DEF Vector, Place
    <2> QED
      BY <2>1, <2>2 DEF Vertical
  <1> HIDE DEF w
  <1>3. ASSUME NEW l \in 1..width PROVE <<w[l], LaneOf(pos, width, k + 1, l)>> \in R
    <2>1. At(l) \in 1..n /\ \A i \in 1..k : Place(width, i, l) \in 1..n /\ Place(width, i, l) # At(l)
      BY <1>1 DEF Placed
    <2>2. <<data[At(l)], {pos[At(l)]}>> \in Q
      BY <2>1 DEF Singly
    <2>3. LaneOf(pos, width, k, l) \cap {pos[At(l)]} = {}
      BY <2>1 DEF LaneOf, Singly
    <2>4. LaneOf(pos, width, k + 1, l) = LaneOf(pos, width, k, l) \cup {pos[At(l)]}
      BY <1>1 DEF LaneOf
    <2>5. <<v[l], LaneOf(pos, width, k, l)>> \in R
      BY DEF Accumulated
    <2>6. <<Apply(op, v[l], data[At(l)]), LaneOf(pos, width, k + 1, l)>> \in R
      BY <2>2, <2>3, <2>4, <2>5 DEF Joins
    <2> QED
      BY <1>2, <2>6
  <1>4. Vec(w, width)
    BY <1>2 DEF Vec
  <1>5. Accumulated(R, w, pos, width, k + 1)
    BY <1>3, <1>4 DEF Accumulated
  <1> QED
    BY <1>5 DEF w

\* The lanes after the last whole vector
LEMMA AccumulateCovers ==
  ASSUME NEW op, NEW R, NEW Q, Joins(op, R, Q), NEW width \in {4, 8, 16}, NEW data, Len(data) \in Nat,
         NEW start, <<start, {}>> \in R, NEW pos, Singly(Q, data, pos, Len(data))
  PROVE  /\ Vec(Accumulate(op, start, data, width), width)
         /\ Covers(R, Accumulate(op, start, data, width), width, WholePart(data, pos, width))
  <1> DEFINE N == Vectors(data, width)
             E == SimdEnd(data, width)
             n == Len(data)
             A == Accumulate(op, start, data, width)
  <1>1. Placed(width, N, E, n) /\ n \in Nat /\ Singly(Q, data, pos, n)
    BY Places
  <1>2. N \in Nat /\ E \in Nat /\ E <= n /\ width \in Nat /\ 1..E \subseteq 1..n
    BY <1>1 DEF Placed
  <1>3. PICK f : IsAccumulation(f, op, start, data, width, N) /\ A = f[N]
    BY <1>2, AccumulateUnfolds
  <1> HIDE DEF N, E, n, A
  <1> DEFINE S == {k \in Nat : k <= N => Accumulated(R, f[k], pos, width, k)}
  <1>4. 0 \in S
    <2>1. f[0] = Lanes(width, start)
      BY <1>2, <1>3 DEF IsAccumulation
    <2>2. Vec(f[0], width) /\ \A l \in 1..width : f[0][l] = start
      BY <2>1 DEF Lanes, Vec
    <2>3. \A l : LaneOf(pos, width, 0, l) = {}
      BY DEF LaneOf
    <2> QED
      BY <2>2, <2>3 DEF Accumulated
  <1>5. ASSUME NEW k \in Nat, k \in S PROVE k + 1 \in S
    <2> SUFFICES ASSUME k + 1 <= N PROVE Accumulated(R, f[k + 1], pos, width, k + 1)
      OBVIOUS
    <2>1. Accumulated(R, f[k], pos, width, k)
      BY <1>2, <1>5
    <2> DEFINE a == k + 1
    <2>2. a \in 0..N /\ a # 0 /\ a - 1 = k
      BY <1>2
    <2> HIDE DEF a
    <2>3. f[a] = Vertical(op, f[a - 1], Vector(data, width, a))
      BY <1>2, <1>3, <2>2 DEF IsAccumulation
    <2>4. f[k + 1] = Vertical(op, f[k], Vector(data, width, k + 1))
      BY <2>2, <2>3 DEF a
    <2> HIDE DEF S
    <2>5. Accumulated(R, Vertical(op, f[k], Vector(data, width, k + 1)), pos, width, k + 1)
      BY <1>1, <1>2, <2>1, AccumulateOneMore
    <2> QED
      BY <2>4, <2>5
  <1> HIDE DEF S
  <1>6. N \in S
    BY <1>2, <1>4, <1>5, SetInduction
  <1>7. Accumulated(R, A, pos, width, N)
    BY <1>2, <1>3, <1>6 DEF S
  <1> DEFINE P == [l \in 1..width |-> LaneOf(pos, width, N, l)]
             U == {pos[j] : j \in 1..E}
  <1>8. ASSUME NEW l \in 1..width, NEW m \in 1..width, l # m PROVE P[l] \cap P[m] = {}
    <2> SUFFICES ASSUME NEW x, x \in LaneOf(pos, width, N, l), x \in LaneOf(pos, width, N, m)
                 PROVE  FALSE
      OBVIOUS
    <2>1. PICK k \in 1..N : x = pos[Place(width, k, l)]
      BY DEF LaneOf
    <2>2. PICK i \in 1..N : x = pos[Place(width, i, m)]
      BY DEF LaneOf
    <2>3. Place(width, k, l) \in 1..n /\ Place(width, i, m) \in 1..n
      BY <1>1, <1>2 DEF Placed
    <2>4. Place(width, k, l) = Place(width, i, m)
      BY <1>1, <2>1, <2>2, <2>3 DEF Singly
    <2> QED
      BY <1>1, <1>8, <2>4 DEF Placed
  <1>9. U = UNION {P[l] : l \in 1..width}
    <2>1. ASSUME NEW j \in 1..E PROVE \E l \in 1..width : pos[j] \in P[l]
      <3>1. PICK k \in 1..N, l \in 1..width : j = Place(width, k, l)
        BY <1>1 DEF Placed
      <3>2. pos[j] \in LaneOf(pos, width, N, l)
        BY <3>1 DEF LaneOf
      <3> QED
        BY <3>2
    <2>2. ASSUME NEW l \in 1..width, NEW x \in P[l] PROVE x \in U
      <3>1. PICK k \in 1..N : x = pos[Place(width, k, l)]
        BY <2>2 DEF LaneOf
      <3> QED
        BY <1>1, <3>1 DEF Placed
    <2> HIDE DEF P
    <2> QED
      BY <2>1, <2>2
  <1>10. \A l \in 1..width : <<A[l], P[l]>> \in R
    BY <1>7 DEF Accumulated
  <1> HIDE DEF P, U
  <1>11. Parts(R, A, width, U, P)
    BY <1>8, <1>9, <1>10 DEF Parts
  <1>12. Vec(A, width) /\ Covers(R, A, width, U)
    BY <1>7, <1>11 DEF Accumulated, Covers
  <1> QED
    BY <1>12 DEF A, U, E, WholePart

\* The tail is added to the result of the whole vectors.
LEMMA RestJoins ==
  ASSUME NEW op, NEW R, NEW Q, Joins(op, R, Q), NEW width \in {4, 8, 16}, NEW T, NEW data \in Seq(T),
         NEW pos, Singly(Q, data, pos, Len(data)), NEW x, <<x, WholePart(data, pos, width)>> \in R
  PROVE  <<Rest(op, x, data, width), Positions(data, pos)>> \in R
  <1> DEFINE n == Len(data)
             E == SimdEnd(data, width)
             s == SubSeq(data, E + 1, n)
             P == [l \in 1..(n - E) |-> {pos[E + l]}]
             I == {pos[j] : j \in 1..E}
             U == UNION {P[l] : l \in 1..(n - E)}
  <1>1. n \in Nat /\ E \in Nat /\ E <= n
    BY Places DEF Placed
  <1>2. Len(s) = n - E /\ \A l \in 1..(n - E) : s[l] = data[E + l]
    <2>1. E + 1 \in 1..(n + 1) /\ n \in E..n
      BY <1>1
    <2>2. data \in Seq(T)
      OBVIOUS
    <2> HIDE DEF E
    <2> QED
      BY <1>1, <2>1, SubSeqProperties
  <1>3. \A l \in 1..(n - E) : E + l \in 1..n /\ E + l \notin 1..E
    BY <1>1
  <1> HIDE DEF E, s
  <1>4. Parts(Q, s, n - E, U, P)
    <2>1. \A l \in 1..(n - E) : <<s[l], P[l]>> \in Q
      BY <1>2, <1>3 DEF Singly
    <2>2. ASSUME NEW l \in 1..(n - E), NEW m \in 1..(n - E), l # m PROVE P[l] \cap P[m] = {}
      <3>1. E + l # E + m
        BY <1>1, <2>2
      <3> QED
        BY <1>3, <3>1 DEF Singly
    <2> HIDE DEF P
    <2> QED
      BY <2>1, <2>2 DEF Parts
  <1>5. I \cap U = {}
    <2>1. 1..E \subseteq 1..n
      BY <1>1
    <2> QED
      BY <1>3, <2>1 DEF Singly
  <1>6. I \cup U = {pos[j] : j \in 1..n}
    <2>1. 1..E \subseteq 1..n
      BY <1>1
    <2>2. ASSUME NEW j \in 1..n, j \notin 1..E PROVE pos[j] \in U
      <3>1. j - E \in 1..(n - E) /\ E + (j - E) = j
        BY <1>1, <2>2
      <3>2. pos[j] \in P[j - E]
        BY <3>1
      <3> QED
        BY <3>1, <3>2
    <2>3. U \subseteq {pos[j] : j \in 1..n}
      BY <1>3
    <2> HIDE DEF U
    <2> QED
      BY <2>1, <2>2, <2>3
  <1>7. Len(s) \in Nat /\ Parts(Q, s, Len(s), U, P)
    BY <1>1, <1>2, <1>4
  <1>8. <<x, I>> \in R
    BY DEF E, WholePart
  <1> HIDE DEF P, U, I
  <1>9. <<Loop(op, x, s), I \cup U>> \in R
    BY <1>5, <1>7, <1>8, LoopJoins
  <1> QED
    BY <1>6, <1>9 DEF Rest, s, E, Positions

-----------------------------------------------------------------------------
(* The values that are reduced: those of one type, in their order *)

Rank(kept, i) == Cardinality(kept \cap 1..i)

\* The rank grows by one at a member and nowhere else.
LEMMA RankStep ==
  ASSUME NEW kept, kept \subseteq Nat \ {0}, NEW i \in Nat
  PROVE  /\ Rank(kept, i) \in Nat /\ Rank(kept, 0) = 0
         /\ Rank(kept, i + 1) = IF i + 1 \in kept THEN Rank(kept, i) + 1 ELSE Rank(kept, i)
  <1>1. IsFiniteSet(kept \cap 1..i)
    <2>1. IsFiniteSet(1..i)
      BY FS_Interval
    <2>2. kept \cap 1..i \subseteq 1..i
      OBVIOUS
    <2> QED
      BY ONLY <2>1, <2>2, FS_Subset
  <1>2. Rank(kept, i) \in Nat
    BY <1>1, FS_CardinalityType DEF Rank
  <1>3. kept \cap 1..0 = {}
    OBVIOUS
  <1>4. Rank(kept, 0) = 0
    BY <1>3, FS_EmptySet DEF Rank
  <1>5. CASE i + 1 \in kept
    <2>1. kept \cap 1..(i + 1) = (kept \cap 1..i) \cup {i + 1} /\ i + 1 \notin kept \cap 1..i
      BY <1>5
    <2> QED
      BY <1>1, <1>2, <1>4, <1>5, <2>1, FS_AddElement DEF Rank
  <1>6. CASE i + 1 \notin kept
    <2>1. kept \cap 1..(i + 1) = kept \cap 1..i
      BY <1>6
    <2> QED
      BY <1>2, <1>4, <1>6, <2>1 DEF Rank
  <1> QED
    BY <1>5, <1>6

\* Ranks are in the order of the numbers.
LEMMA RankGrows ==
  ASSUME NEW kept, kept \subseteq Nat \ {0}, NEW i \in Nat, NEW m \in Nat, i <= m
  PROVE  /\ Rank(kept, i) \in Nat /\ Rank(kept, m) \in Nat /\ Rank(kept, i) <= Rank(kept, m)
         /\ m \in kept /\ i < m => Rank(kept, i) < Rank(kept, m)
  <1>1. ASSUME NEW a \in Nat, NEW b \in Nat, a <= b PROVE Rank(kept, a) <= Rank(kept, b)
    <2>1. IsFiniteSet(kept \cap 1..b)
      <3>1. IsFiniteSet(1..b)
        BY FS_Interval
      <3>2. kept \cap 1..b \subseteq 1..b
        OBVIOUS
      <3> QED
        BY ONLY <3>1, <3>2, FS_Subset
    <2>2. kept \cap 1..a \subseteq kept \cap 1..b
      <3>1. 1..a \subseteq 1..b
        BY <1>1
      <3> QED
        BY <3>1
    <2> QED
      BY <2>1, <2>2, FS_Subset DEF Rank
  <1>2. Rank(kept, i) \in Nat /\ Rank(kept, m) \in Nat
    BY RankStep
  <1>3. ASSUME m \in kept, i < m PROVE Rank(kept, i) < Rank(kept, m)
    <2> DEFINE b == m - 1
    <2>1. b \in Nat /\ b + 1 = m /\ i <= b
      BY <1>3
    <2> HIDE DEF b
    <2>2. Rank(kept, i) <= Rank(kept, b)
      BY <1>1, <2>1
    <2>3. Rank(kept, b) \in Nat /\ Rank(kept, b + 1) = Rank(kept, b) + 1
      BY <1>3, <2>1, RankStep
    <2> QED
      BY <1>2, <2>1, <2>2, <2>3
  <1> QED
    BY <1>1, <1>2, <1>3

\* There is an element of every rank.
LEMMA RankHit ==
  ASSUME NEW kept, kept \subseteq Nat \ {0}, NEW m \in Nat, NEW j \in 1..Rank(kept, m)
  PROVE  \E i \in kept : Rank(kept, i) = j
  <1> DEFINE S == {n \in Nat : \A r \in 1..Rank(kept, n) : \E i \in kept : Rank(kept, i) = r}
  <1>1. 0 \in S
    <2>1. Rank(kept, 0) = 0
      BY RankStep
    <2>2. 1..Rank(kept, 0) = {}
      BY <2>1
    <2> QED
      BY <2>2
  <1>2. ASSUME NEW n \in Nat, n \in S PROVE n + 1 \in S
    <2> SUFFICES ASSUME NEW r \in 1..Rank(kept, n + 1) PROVE \E i \in kept : Rank(kept, i) = r
      OBVIOUS
    <2>1. Rank(kept, n) \in Nat /\ Rank(kept, n + 1) = IF n + 1 \in kept THEN Rank(kept, n) + 1 ELSE Rank(kept, n)
      BY RankStep
    <2>2. CASE r \in 1..Rank(kept, n)
      BY <1>2, <2>2
    <2>3. CASE r \notin 1..Rank(kept, n)
      <3>1. n + 1 \in kept /\ Rank(kept, n + 1) = r
        BY <2>1, <2>3
      <3> QED
        BY <3>1
    <2> QED
      BY <2>2, <2>3
  <1> HIDE DEF S
  <1>3. m \in S
    BY <1>1, <1>2, SetInduction
  <1> QED
    BY <1>3 DEF S

\* Ascending takes every position once, in order.
LEMMA AscendingOrder ==
  ASSUME NEW N \in Nat, NEW kept, kept \subseteq 1..N
  PROVE  /\ Cardinality(kept) \in Nat /\ Vec(Ascending(kept), Cardinality(kept))
         /\ {Ascending(kept)[j] : j \in 1..Cardinality(kept)} = kept
         /\ \A j, k \in 1..Cardinality(kept) : j < k => Ascending(kept)[j] < Ascending(kept)[k]
         /\ \A j, k \in 1..Cardinality(kept) : Ascending(kept)[j] = Ascending(kept)[k] => j = k
  <1> DEFINE n == Cardinality(kept)
             at == Ascending(kept)
  <1>1. kept \subseteq Nat \ {0} /\ kept \cap 1..N = kept
    <2>1. 1..N \subseteq Nat \ {0}
      OBVIOUS
    <2>2. kept \subseteq 1..N
      OBVIOUS
    <2> QED
      BY ONLY <2>1, <2>2
  <1>2. n = Rank(kept, N) /\ n \in Nat
    BY <1>1, RankStep DEF Rank
  <1>3. at = [j \in 1..n |-> CHOOSE i \in kept : Rank(kept, i) = j]
    BY DEF Ascending, Rank
  <1> HIDE DEF n, at
  <1>4. ASSUME NEW j \in 1..n PROVE at[j] \in kept /\ Rank(kept, at[j]) = j
    <2>1. \E i \in kept : Rank(kept, i) = j
      BY <1>1, <1>2, RankHit
    <2> QED
      BY <1>3, <2>1
  <1>5. ASSUME NEW i \in kept PROVE \E j \in 1..n : at[j] = i
    <2> DEFINE j == Rank(kept, i)
    <2>1. i \in Nat /\ i # 0 /\ i <= N /\ 0 < i
      OBVIOUS
    <2>2. j \in Nat /\ j <= n
      BY <1>1, <1>2, <2>1, RankGrows
    <2>3. Rank(kept, 0) = 0 /\ Rank(kept, 0) < j
      BY <1>1, <2>1, RankGrows, RankStep
    <2>4. j \in 1..n
      BY <1>2, <2>2, <2>3
    <2>5. at[j] \in kept /\ Rank(kept, at[j]) = j /\ at[j] \in Nat
      BY <1>1, <1>4, <2>4
    <2>6. Rank(kept, i) = j
      OBVIOUS
    <2> HIDE DEF j
    <2>7. ~(at[j] < i)
      BY <1>1, <2>1, <2>2, <2>5, <2>6, RankGrows
    <2>8. ~(i < at[j])
      BY <1>1, <2>1, <2>2, <2>5, <2>6, RankGrows
    <2> QED
      BY <2>1, <2>4, <2>5, <2>7, <2>8
  <1>6. ASSUME NEW j \in 1..n, NEW k \in 1..n, j < k PROVE at[j] < at[k]
    <2>1. /\ at[j] \in Nat /\ at[k] \in Nat /\ Rank(kept, at[j]) = j /\ Rank(kept, at[k]) = k
      BY <1>1, <1>4
    <2> SUFFICES ASSUME at[k] <= at[j] PROVE FALSE
      BY <2>1
    <2>2. Rank(kept, at[k]) <= Rank(kept, at[j])
      BY <1>1, <2>1, RankGrows
    <2> QED
      BY <1>6, <2>1, <2>2
  <1>7. \A j, k \in 1..n : at[j] = at[k] => j = k
    BY <1>4
  <1>8. Vec(at, n)
    BY <1>3 DEF Vec
  <1>9. {at[j] : j \in 1..n} = kept
    BY <1>4, <1>5
  <1> QED
    BY <1>2, <1>6, <1>7, <1>8, <1>9 DEF n, at

-----------------------------------------------------------------------------
(* Least and greatest *)

\* x is the least of the values in I and of L, or at least one of them when
\* there is a NaN.
Leasts(values, E, L) ==
  {p \in Int \X SUBSET E :
     /\ p[1] \in DataIn(values, p[2]) \cup L
     /\ NaN \notin DataIn(values, p[2]) => \A y \in DataIn(values, p[2]) \cup L : p[1] <= y}
Greatests(values, E, L) ==
  {p \in Int \X SUBSET E :
     /\ p[1] \in DataIn(values, p[2]) \cup L
     /\ NaN \notin DataIn(values, p[2]) => \A y \in DataIn(values, p[2]) \cup L : y <= p[1]}

\* Membership in Leasts, spelt out
LEMMA InLeasts ==
  ASSUME NEW values, NEW E, NEW L, NEW x, NEW I
  PROVE  <<x, I>> \in Leasts(values, E, L) <=>
           /\ x \in Int /\ I \subseteq E /\ x \in DataIn(values, I) \cup L
           /\ NaN \notin DataIn(values, I) => \A y \in DataIn(values, I) \cup L : x <= y
  BY DEF Leasts

\* Membership in Greatests, spelt out
LEMMA InGreatests ==
  ASSUME NEW values, NEW E, NEW L, NEW x, NEW I
  PROVE  <<x, I>> \in Greatests(values, E, L) <=>
           /\ x \in Int /\ I \subseteq E /\ x \in DataIn(values, I) \cup L
           /\ NaN \notin DataIn(values, I) => \A y \in DataIn(values, I) \cup L : y <= x
  BY DEF Greatests

\* The data of two sets together
LEMMA DataJoin ==
  ASSUME NEW values, NEW I, NEW J
  PROVE  DataIn(values, I \cup J) = DataIn(values, I) \cup DataIn(values, J)
  BY DEF DataIn

\* The instructions give one of their operands, the smaller when none is NaN.
LEMMA LessOf ==
  ASSUME NEW op \in {"less", "min_ps", "vmin"}, NEW x \in Int, NEW y \in Int
  PROVE  /\ Apply(op, x, y) \in {x, y} /\ Apply(op, x, y) \in Int
         /\ x # NaN /\ y # NaN => Apply(op, x, y) <= x /\ Apply(op, x, y) <= y
  <1>1. CASE op = "less"
    BY <1>1 DEF Apply, KeepLess, Less
  <1>2. CASE op = "min_ps"
    BY <1>2 DEF Apply, MinPs, Less
  <1>3. CASE op = "vmin"
    <2>1. Apply(op, x, y) = IF x = NaN \/ y = NaN THEN NaN ELSE MinPs(x, y)
      BY <1>3 DEF Apply, VMin
    <2> QED
      BY <2>1 DEF MinPs, Less
  <1> QED
    BY <1>1, <1>2, <1>3

\* The instructions give one of their operands, the greater when none is NaN.
LEMMA MoreOf ==
  ASSUME NEW op \in {"more", "max_ps", "vmax"}, NEW x \in Int, NEW y \in Int
  PROVE  /\ Apply(op, x, y) \in {x, y} /\ Apply(op, x, y) \in Int
         /\ x # NaN /\ y # NaN => x <= Apply(op, x, y) /\ y <= Apply(op, x, y)
  <1>1. CASE op = "more"
    BY <1>1 DEF Apply, KeepMore, Less
  <1>2. CASE op = "max_ps"
    BY <1>2 DEF Apply, MaxPs, Less
  <1>3. CASE op = "vmax"
    <2>1. Apply(op, x, y) = IF x = NaN \/ y = NaN THEN NaN ELSE MaxPs(x, y)
      BY <1>3 DEF Apply, VMax
    <2> QED
      BY <2>1 DEF MaxPs, Less
  <1> QED
    BY <1>1, <1>2, <1>3

\* The least of two leasts is the least of both sets.
LEMMA LeastsJoin ==
  ASSUME NEW values, NEW E, \A i \in E : values[i].data \in Int,
         NEW L, L \subseteq Int, NaN \notin L, NEW M, M \subseteq L, NEW op \in {"less", "min_ps", "vmin"}
  PROVE  Joins(op, Leasts(values, E, L), Leasts(values, E, M))
  <1> SUFFICES ASSUME NEW x, NEW y, NEW I, NEW J, <<x, I>> \in Leasts(values, E, L), <<y, J>> \in Leasts(values, E, M)
               PROVE  <<Apply(op, x, y), I \cup J>> \in Leasts(values, E, L)
    BY DEF Joins
  <1> DEFINE z == Apply(op, x, y)
             DI == DataIn(values, I)
             DJ == DataIn(values, J)
  <1>1. /\ x \in Int /\ I \subseteq E /\ x \in DI \cup L
        /\ NaN \notin DI => \A w \in DI \cup L : x <= w
    BY InLeasts
  <1>2. /\ y \in Int /\ J \subseteq E /\ y \in DJ \cup M
        /\ NaN \notin DJ => \A w \in DJ \cup M : y <= w
    BY InLeasts
  <1>3. DI \subseteq Int /\ DJ \subseteq Int
    BY <1>1, <1>2 DEF DataIn
  <1>4. z \in {x, y} /\ z \in Int /\ (x # NaN /\ y # NaN => z <= x /\ z <= y)
    BY <1>1, <1>2, LessOf
  <1> HIDE DEF z, DI, DJ
  <1>5. z \in (DI \cup DJ) \cup L
    BY <1>1, <1>2, <1>4
  <1>6. ASSUME NaN \notin DI \cup DJ, NEW w \in (DI \cup DJ) \cup L PROVE z <= w
    <2>1. x # NaN /\ y # NaN
      BY <1>1, <1>2, <1>6
    <2>2. w \in Int
      BY <1>3
    <2>3. x <= w \/ y <= w
      BY <1>1, <1>2, <1>6
    <2> QED
      BY <1>1, <1>2, <1>4, <2>1, <2>2, <2>3
  <1>7. DataIn(values, I \cup J) = DI \cup DJ
    BY DataJoin DEF DI, DJ
  <1> QED
    <2> DEFINE K == I \cup J
    <2>1. K \subseteq E /\ DataIn(values, K) = DI \cup DJ
      BY <1>1, <1>2, <1>7
    <2> HIDE DEF K
    <2>2. z \in DataIn(values, K) \cup L
      BY <1>5, <2>1
    <2>3. NaN \notin DataIn(values, K) => \A w \in DataIn(values, K) \cup L : z <= w
      BY <1>6, <2>1
    <2>4. <<z, K>> \in Leasts(values, E, L)
      BY <1>4, <2>1, <2>2, <2>3, InLeasts
    <2> QED
      BY <2>4 DEF z, K

\* The greatest of two greatests is the greatest of both sets.
LEMMA GreatestsJoin ==
  ASSUME NEW values, NEW E, \A i \in E : values[i].data \in Int,
         NEW L, L \subseteq Int, NaN \notin L, NEW M, M \subseteq L, NEW op \in {"more", "max_ps", "vmax"}
  PROVE  Joins(op, Greatests(values, E, L), Greatests(values, E, M))
  <1> SUFFICES ASSUME NEW x, NEW y, NEW I, NEW J, <<x, I>> \in Greatests(values, E, L), <<y, J>> \in Greatests(values, E, M)
               PROVE  <<Apply(op, x, y), I \cup J>> \in Greatests(values, E, L)
    BY DEF Joins
  <1> DEFINE z == Apply(op, x, y)
             DI == DataIn(values, I)
             DJ == DataIn(values, J)
  <1>1. /\ x \in Int /\ I \subseteq E /\ x \in DI \cup L
        /\ NaN \notin DI => \A w \in DI \cup L : w <= x
    BY InGreatests
  <1>2. /\ y \in Int /\ J \subseteq E /\ y \in DJ \cup M
        /\ NaN \notin DJ => \A w \in DJ \cup M : w <= y
    BY InGreatests
  <1>3. DI \subseteq Int /\ DJ \subseteq Int
    BY <1>1, <1>2 DEF DataIn
  <1>4. z \in {x, y} /\ z \in Int /\ (x # NaN /\ y # NaN => x <= z /\ y <= z)
    BY <1>1, <1>2, MoreOf
  <1> HIDE DEF z, DI, DJ
  <1>5. z \in (DI \cup DJ) \cup L
    BY <1>1, <1>2, <1>4
  <1>6. ASSUME NaN \notin DI \cup DJ, NEW w \in (DI \cup DJ) \cup L PROVE w <= z
    <2>1. x # NaN /\ y # NaN
      BY <1>1, <1>2, <1>6
    <2>2. w \in Int
      BY <1>3
    <2>3. w <= x \/ w <= y
      BY <1>1, <1>2, <1>6
    <2> QED
      BY <1>1, <1>2, <1>4, <2>1, <2>2, <2>3
  <1>7. DataIn(values, I \cup J) = DI \cup DJ
    BY DataJoin DEF DI, DJ
  <1> QED
    <2> DEFINE K == I \cup J
    <2>1. K \subseteq E /\ DataIn(values, K) = DI \cup DJ
      BY <1>1, <1>2, <1>7
    <2> HIDE DEF K
    <2>2. z \in DataIn(values, K) \cup L
      BY <1>5, <2>1
    <2>3. NaN \notin DataIn(values, K) => \A w \in DataIn(values, K) \cup L : w <= z
      BY <1>6, <2>1
    <2>4. <<z, K>> \in Greatests(values, E, L)
      BY <1>4, <2>1, <2>2, <2>3, InGreatests
    <2> QED
      BY <2>4 DEF z, K

\* Every value is the least and the greatest of itself.
LEMMA SelfExtreme ==
  ASSUME NEW values, NEW E, NEW i \in E, values[i].data \in Int
  PROVE  /\ <<values[i].data, {i}>> \in Leasts(values, E, {})
         /\ <<values[i].data, {i}>> \in Greatests(values, E, {})
  <1>1. DataIn(values, {i}) = {values[i].data}
    BY DEF DataIn
  <1> DEFINE x == values[i].data
             K == {i}
  <1>2. x \in Int /\ K \subseteq E /\ DataIn(values, K) = {x}
    BY <1>1
  <1> HIDE DEF x, K
  <1>3. <<x, K>> \in Leasts(values, E, {}) /\ <<x, K>> \in Greatests(values, E, {})
    BY <1>2, InLeasts, InGreatests
  <1> QED
    BY <1>3 DEF x, K

\* The value that every lane starts with
LEMMA StartExtreme ==
  ASSUME NEW values, NEW E, NEW x \in Int
  PROVE  <<x, {}>> \in Leasts(values, E, {x}) /\ <<x, {}>> \in Greatests(values, E, {x})
  <1>1. DataIn(values, {}) = {}
    BY DEF DataIn
  <1> QED
    BY <1>1, InLeasts, InGreatests

-----------------------------------------------------------------------------
(* Sums *)

\* What is known of the values that are added
Addable(values, E) ==
  /\ Largest \in Nat /\ IsFiniteSet(E)
  /\ \A i \in E : values[i].data \in (-Infinity)..NaN
  /\ LET I == {i \in E : values[i].data \in Finite}
     IN  Cardinality(Ones(values, I, 1)) + Cardinality(Ones(values, I, -1)) <= Largest
Clean(values, I) == \A i \in I : values[i].data \in Finite
CountOf(values, I) == Cardinality(Ones(values, I, 1)) - Cardinality(Ones(values, I, -1))

\* The infinities, NaN and the finite floats are apart.
LEMMA SpecialValues ==
  ASSUME Largest \in Nat
  PROVE  /\ Infinity \in Int /\ -Infinity \in Int /\ NaN \in Int /\ Finite \subseteq Int
         /\ Infinity # -Infinity /\ NaN # Infinity /\ NaN # -Infinity
         /\ Infinity \notin Finite /\ -Infinity \notin Finite /\ NaN \notin Finite
         /\ \A x \in (-Infinity)..NaN : x \in Int /\ (x \in Finite \/ x = Infinity \/ x = -Infinity \/ x = NaN)
         /\ \A x \in Int : x \in Finite <=> -Largest <= x /\ x <= Largest
  BY DEF Infinity, NaN, Finite

\* The ones of some of the values are finitely many.
LEMMA OnesFinite ==
  ASSUME NEW values, NEW E, Addable(values, E), NEW I, I \subseteq E, NEW sign \in {1, -1}
  PROVE  IsFiniteSet(Ones(values, I, sign)) /\ Cardinality(Ones(values, I, sign)) \in Nat
  <1> DEFINE all == E \X (1..(Largest + 2))
  <1>1. IsFiniteSet(1..(Largest + 2))
    BY FS_Interval DEF Addable
  <1>2. IsFiniteSet(all)
    BY <1>1, FS_Product DEF Addable
  <1>3. ASSUME NEW i \in I PROVE {i} \X (1..(sign * values[i].data)) \subseteq all
    <2>1. values[i].data \in Int /\ sign * values[i].data <= Largest + 2 /\ Largest \in Nat /\ sign * values[i].data \in Int
      <3>1. values[i].data \in Int /\ -(Largest + 1) <= values[i].data /\ values[i].data <= Largest + 2 /\ Largest \in Nat
        BY DEF Addable, Infinity, NaN
      <3>2. CASE sign = 1
        BY <3>1, <3>2
      <3>3. CASE sign = -1
        BY <3>1, <3>3
      <3> QED
        BY <3>2, <3>3
    <2> DEFINE d == sign * values[i].data
    <2> HIDE DEF d
    <2>2. 1..d \subseteq 1..(Largest + 2)
      BY <2>1 DEF d
    <2> QED
      BY <2>2 DEF d
  <1> HIDE DEF all
  <1>4. Ones(values, I, sign) \subseteq all
    BY <1>3 DEF Ones
  <1>5. IsFiniteSet(Ones(values, I, sign))
    BY <1>2, <1>4, FS_Subset
  <1> QED
    BY <1>5, FS_CardinalityType

\* A sum of finite values is finite.
LEMMA CountBounded ==
  ASSUME NEW values, NEW E, Addable(values, E), NEW I, I \subseteq E, Clean(values, I)
  PROVE  CountOf(values, I) \in Int /\ CountOf(values, I) \in Finite
  <1> DEFINE K == {i \in E : values[i].data \in Finite}
             a == Cardinality(Ones(values, I, 1))
             b == Cardinality(Ones(values, I, -1))
             p == Cardinality(Ones(values, K, 1))
             q == Cardinality(Ones(values, K, -1))
  <1>1. I \subseteq K /\ K \subseteq E
    BY DEF Clean
  <1>2. p + q <= Largest /\ Largest \in Nat
    BY DEF Addable
  <1> HIDE DEF K
  <1>3. /\ IsFiniteSet(Ones(values, K, 1)) /\ IsFiniteSet(Ones(values, K, -1))
        /\ p \in Nat /\ q \in Nat /\ a \in Nat /\ b \in Nat
    BY <1>1, OnesFinite
  <1>4. Ones(values, I, 1) \subseteq Ones(values, K, 1) /\ Ones(values, I, -1) \subseteq Ones(values, K, -1)
    BY <1>1 DEF Ones
  <1>5. a <= p /\ b <= q
    BY <1>3, <1>4, FS_Subset
  <1>6. CountOf(values, I) = a - b
    BY DEF CountOf
  <1> HIDE DEF a, b, p, q
  <1> QED
    BY <1>2, <1>3, <1>5, <1>6 DEF Finite

\* The counts of two sets add up.
LEMMA CountJoins ==
  ASSUME NEW values, NEW E, Addable(values, E), NEW I, I \subseteq E, NEW J, J \subseteq E, I \cap J = {}
  PROVE  CountOf(values, I \cup J) = CountOf(values, I) + CountOf(values, J)
  <1>1. ASSUME NEW sign \in {1, -1}
        PROVE  /\ Cardinality(Ones(values, I \cup J, sign)) =
                    Cardinality(Ones(values, I, sign)) + Cardinality(Ones(values, J, sign))
               /\ Cardinality(Ones(values, I, sign)) \in Nat /\ Cardinality(Ones(values, J, sign)) \in Nat
    <2> DEFINE A == Ones(values, I, sign)
               B == Ones(values, J, sign)
    <2>1. IsFiniteSet(A) /\ IsFiniteSet(B) /\ Cardinality(A) \in Nat /\ Cardinality(B) \in Nat
      BY OnesFinite
    <2>2. A \cap B = {}
      <3> SUFFICES ASSUME NEW o, o \in A, o \in B PROVE FALSE
        OBVIOUS
      <3>1. PICK i \in I : o \in {i} \X (1..(sign * values[i].data))
        BY DEF Ones
      <3>2. PICK j \in J : o \in {j} \X (1..(sign * values[j].data))
        BY DEF Ones
      <3>3. o[1] = i /\ o[1] = j
        BY <3>1, <3>2
      <3> QED
        BY <3>3
    <2>3. Ones(values, I \cup J, sign) = A \cup B
      BY DEF Ones
    <2> HIDE DEF A, B
    <2>4. Cardinality(A \cup B) = Cardinality(A) + Cardinality(B) - Cardinality({})
      BY <2>1, <2>2, FS_Union
    <2>5. Cardinality(A \cup B) = Cardinality(A) + Cardinality(B)
      BY <2>1, <2>4, FS_EmptySet
    <2> QED
      BY <2>1, <2>3, <2>5 DEF A, B
  <1>2. 1 \in {1, -1} /\ -1 \in {1, -1}
    OBVIOUS
  <1> DEFINE a == Cardinality(Ones(values, I, 1))
             b == Cardinality(Ones(values, I, -1))
             g == Cardinality(Ones(values, J, 1))
             d == Cardinality(Ones(values, J, -1))
             e == Cardinality(Ones(values, I \cup J, 1))
             f == Cardinality(Ones(values, I \cup J, -1))
  <1>3. e = a + g /\ f = b + d /\ a \in Nat /\ b \in Nat /\ g \in Nat /\ d \in Nat
    BY <1>1, <1>2
  <1>4. CountOf(values, I \cup J) = e - f /\ CountOf(values, I) = a - b /\ CountOf(values, J) = g - d
    BY DEF CountOf
  <1> HIDE DEF a, b, g, d, e, f
  <1> QED
    BY <1>3, <1>4

\* What the sum is, by what is among the values
LEMMA SumCases ==
  ASSUME NEW values, NEW E, Addable(values, E), NEW I, I \subseteq E
  PROVE  LET D == DataIn(values, I)
         IN  /\ NaN \in D => SumOf(values, I) = NaN
             /\ Infinity \in D /\ -Infinity \in D => SumOf(values, I) = NaN
             /\ NaN \notin D /\ Infinity \in D /\ -Infinity \notin D => SumOf(values, I) = Infinity
             /\ NaN \notin D /\ Infinity \notin D /\ -Infinity \in D => SumOf(values, I) = -Infinity
             /\ NaN \notin D /\ Infinity \notin D /\ -Infinity \notin D =>
                  Clean(values, I) /\ SumOf(values, I) = CountOf(values, I)
  <1> DEFINE D == DataIn(values, I)
  <1>1. SumOf(values, I) = IF NaN \in D \/ (Infinity \in D /\ -Infinity \in D) THEN NaN
                           ELSE IF Infinity \in D THEN Infinity ELSE IF -Infinity \in D THEN -Infinity
                           ELSE CountOf(values, I)
    BY DEF SumOf, CountOf, DataIn
  <1>2. Largest \in Nat /\ \A i \in I : values[i].data \in (-Infinity)..NaN /\ values[i].data \in D
    BY DEF Addable, DataIn
  <1> HIDE DEF D
  <1>3. NaN \notin D /\ Infinity \notin D /\ -Infinity \notin D => Clean(values, I)
    BY <1>2, SpecialValues DEF Clean
  <1> QED
    BY <1>1, <1>3 DEF D

\* Plus, case by case
LEMMA PlusIs ==
  ASSUME NEW a, NEW b, Largest \in Nat
  PROVE  Plus(a, b) = IF a = NaN \/ b = NaN \/ (a = Infinity /\ b = -Infinity) \/ (a = -Infinity /\ b = Infinity) THEN NaN
                      ELSE IF a \notin Finite THEN a ELSE IF b \notin Finite THEN b ELSE a + b
  <1>1. {a, b} = {Infinity, -Infinity} <=> (a = Infinity /\ b = -Infinity) \/ (a = -Infinity /\ b = Infinity)
    <2>1. Infinity # -Infinity
      BY SpecialValues
    <2> DEFINE p == Infinity
               m == -Infinity
    <2> HIDE DEF p, m
    <2>2. p # m => ({a, b} = {p, m} <=> (a = p /\ b = m) \/ (a = m /\ b = p))
      OBVIOUS
    <2> QED
      BY <2>1, <2>2 DEF p, m
  <1>2. NaN \in {a, b} <=> a = NaN \/ b = NaN
    OBVIOUS
  <1> QED
    BY <1>1, <1>2 DEF Plus

Sums(values, E) == {p \in Int \X SUBSET E : p[1] = SumOf(values, p[2])}

\* Membership in Sums, spelt out
LEMMA InSums ==
  ASSUME NEW values, NEW E, NEW x, NEW I
  PROVE  <<x, I>> \in Sums(values, E) <=> x \in Int /\ I \subseteq E /\ x = SumOf(values, I)
  BY DEF Sums

\* The kinds of a sum
SumKinds(values, I, x) ==
  LET D == DataIn(values, I)
  IN  \/ (NaN \in D \/ (Infinity \in D /\ -Infinity \in D)) /\ x = NaN
      \/ NaN \notin D /\ Infinity \in D /\ -Infinity \notin D /\ x = Infinity
      \/ NaN \notin D /\ Infinity \notin D /\ -Infinity \in D /\ x = -Infinity
      \/ /\ NaN \notin D /\ Infinity \notin D /\ -Infinity \notin D
         /\ Clean(values, I) /\ x = CountOf(values, I) /\ x \in Finite

\* A number is the sum exactly when it is of the right kind.
LEMMA SumKind ==
  ASSUME NEW values, NEW E, Addable(values, E), NEW I, I \subseteq E, NEW x
  PROVE  x = SumOf(values, I) <=> SumKinds(values, I, x)
  <1>1. Clean(values, I) => CountOf(values, I) \in Finite
    BY CountBounded
  <1> DEFINE D == DataIn(values, I)
  <1>2. /\ NaN \in D => SumOf(values, I) = NaN
        /\ Infinity \in D /\ -Infinity \in D => SumOf(values, I) = NaN
        /\ NaN \notin D /\ Infinity \in D /\ -Infinity \notin D => SumOf(values, I) = Infinity
        /\ NaN \notin D /\ Infinity \notin D /\ -Infinity \in D => SumOf(values, I) = -Infinity
        /\ NaN \notin D /\ Infinity \notin D /\ -Infinity \notin D =>
             Clean(values, I) /\ SumOf(values, I) = CountOf(values, I)
    BY SumCases
  <1> HIDE DEF D
  <1> QED
    BY <1>1, <1>2 DEF SumKinds, D

\* Adding the sums of two sets gives the sum of both.
LEMMA SumsJoin ==
  ASSUME NEW values, NEW E, Addable(values, E)
  PROVE  Joins("add", Sums(values, E), Sums(values, E))
  <1> SUFFICES ASSUME NEW x, NEW y, NEW I, NEW J, <<x, I>> \in Sums(values, E), <<y, J>> \in Sums(values, E), I \cap J = {}
               PROVE  <<Apply("add", x, y), I \cup J>> \in Sums(values, E)
    BY DEF Joins
  <1> DEFINE DI == DataIn(values, I)
             DJ == DataIn(values, J)
             K == I \cup J
             z == Plus(x, y)
  <1>1. x \in Int /\ I \subseteq E /\ SumKinds(values, I, x)
    BY InSums, SumKind
  <1>2. y \in Int /\ J \subseteq E /\ SumKinds(values, J, y)
    BY InSums, SumKind
  <1>3. K \subseteq E /\ DataIn(values, K) = DI \cup DJ
    BY <1>1, <1>2, DataJoin
  <1>4. CountOf(values, K) = CountOf(values, I) + CountOf(values, J)
    BY <1>1, <1>2, CountJoins
  <1>5. Clean(values, I) /\ Clean(values, J) => Clean(values, K) /\ CountOf(values, K) \in Finite
    <2>1. Clean(values, I) /\ Clean(values, J) => Clean(values, K)
      BY DEF Clean
    <2> QED
      BY <1>3, <2>1, CountBounded
  <1>6. /\ Infinity \in Int /\ -Infinity \in Int /\ NaN \in Int
        /\ Infinity # -Infinity /\ NaN # Infinity /\ NaN # -Infinity
        /\ Infinity \notin Finite /\ -Infinity \notin Finite /\ NaN \notin Finite
    BY SpecialValues DEF Addable
  <1>7. z = IF x = NaN \/ y = NaN \/ (x = Infinity /\ y = -Infinity) \/ (x = -Infinity /\ y = Infinity) THEN NaN
            ELSE IF x \notin Finite THEN x ELSE IF y \notin Finite THEN y ELSE x + y
    BY PlusIs DEF Addable
  <1> DEFINE p == Infinity
             m == -Infinity
             q == NaN
  <1> HIDE DEF z, DI, DJ, K, p, m, q
  <1>8. SumKinds(values, K, z)
    <2>1. \/ (q \in DI \/ (p \in DI /\ m \in DI)) /\ x = q
          \/ q \notin DI /\ p \in DI /\ m \notin DI /\ x = p
          \/ q \notin DI /\ p \notin DI /\ m \in DI /\ x = m
          \/ /\ q \notin DI /\ p \notin DI /\ m \notin DI
             /\ Clean(values, I) /\ x = CountOf(values, I) /\ x \in Finite
      BY <1>1 DEF SumKinds, DI, p, m, q
    <2>2. \/ (q \in DJ \/ (p \in DJ /\ m \in DJ)) /\ y = q
          \/ q \notin DJ /\ p \in DJ /\ m \notin DJ /\ y = p
          \/ q \notin DJ /\ p \notin DJ /\ m \in DJ /\ y = m
          \/ /\ q \notin DJ /\ p \notin DJ /\ m \notin DJ
             /\ Clean(values, J) /\ y = CountOf(values, J) /\ y \in Finite
      BY <1>2 DEF SumKinds, DJ, p, m, q
    <2>3. /\ p # m /\ q # p /\ q # m /\ p \notin Finite /\ m \notin Finite /\ q \notin Finite
      BY <1>6 DEF p, m, q
    <2>4. z = IF x = q \/ y = q \/ (x = p /\ y = m) \/ (x = m /\ y = p) THEN q
              ELSE IF x \notin Finite THEN x ELSE IF y \notin Finite THEN y ELSE x + y
      BY <1>7 DEF p, m, q
    <2> DEFINE D == DI \cup DJ
    <2>5. \/ (q \in D \/ (p \in D /\ m \in D)) /\ z = q
          \/ q \notin D /\ p \in D /\ m \notin D /\ z = p
          \/ q \notin D /\ p \notin D /\ m \in D /\ z = m
          \/ /\ q \notin D /\ p \notin D /\ m \notin D
             /\ Clean(values, K) /\ z = CountOf(values, K) /\ z \in Finite
      BY <1>4, <1>5, <2>1, <2>2, <2>3, <2>4
    <2> QED
      BY <1>3, <2>5 DEF SumKinds, p, m, q
  <1>9. z \in Int
    BY <1>1, <1>2, <1>6, <1>7
  <1>10. z = SumOf(values, K)
    BY <1>3, <1>8, SumKind
  <1>11. <<z, K>> \in Sums(values, E)
    BY <1>3, <1>9, <1>10, InSums
  <1>12. Apply("add", x, y) = z
    BY DEF Apply, z
  <1> QED
    BY <1>11, <1>12 DEF K

\* Every value is the sum of itself.
LEMMA SelfSum ==
  ASSUME NEW values, NEW E, Addable(values, E), NEW i \in E
  PROVE  <<values[i].data, {i}>> \in Sums(values, E)
  <1> DEFINE x == values[i].data
             K == {i}
  <1>1. DataIn(values, K) = {x} /\ K \subseteq E /\ x \in (-Infinity)..NaN /\ Largest \in Nat
    BY DEF DataIn, Addable
  <1>2. x \in Int /\ (x \in Finite \/ x = Infinity \/ x = -Infinity \/ x = NaN)
    BY <1>1, SpecialValues
  <1>3. ASSUME x \in Finite PROVE Clean(values, K) /\ CountOf(values, K) = x
    <2>1. Clean(values, K)
      BY <1>3 DEF Clean
    <2>2. ASSUME NEW d \in Int PROVE Cardinality({i} \X (1..d)) = IF d < 1 THEN 0 ELSE d
      <3>1. IsFiniteSet({i}) /\ Cardinality({i}) = 1
        BY FS_Singleton
      <3>2. IsFiniteSet(1..d) /\ Cardinality(1..d) = IF 1 > d THEN 0 ELSE d - 1 + 1
        BY FS_Interval
      <3>3. Cardinality({i} \X (1..d)) = 1 * Cardinality(1..d)
        BY <3>1, <3>2, FS_Product
      <3> QED
        BY <3>2, <3>3
    <2>3. Ones(values, K, 1) = {i} \X (1..(1 * x)) /\ Ones(values, K, -1) = {i} \X (1..((-1) * x))
      BY DEF Ones
    <2>4. 1 * x = x /\ (-1) * x = -x /\ -x \in Int
      BY <1>2
    <2> HIDE DEF x, K
    <2>5. /\ Cardinality(Ones(values, K, 1)) = IF x < 1 THEN 0 ELSE x
          /\ Cardinality(Ones(values, K, -1)) = IF -x < 1 THEN 0 ELSE -x
      BY <1>2, <2>2, <2>3, <2>4
    <2> QED
      BY <1>2, <2>1, <2>5 DEF CountOf
  <1> HIDE DEF x, K
  <1>4. SumKinds(values, K, x)
    BY <1>1, <1>2, <1>3, SpecialValues DEF SumKinds
  <1>5. x = SumOf(values, K)
    BY <1>1, <1>4, SumKind
  <1>6. <<x, K>> \in Sums(values, E)
    BY <1>1, <1>2, <1>5, InSums
  <1> QED
    BY <1>6 DEF x, K

\* The value that every sum starts with
LEMMA StartSum ==
  ASSUME NEW values, NEW E, Addable(values, E)
  PROVE  <<0, {}>> \in Sums(values, E)
  <1>1. Ones(values, {}, 1) = {} /\ Ones(values, {}, -1) = {}
    BY DEF Ones
  <1>2. SumOf(values, {}) = 0
    BY <1>1, FS_EmptySet DEF SumOf, DataIn
  <1> QED
    BY <1>2, InSums

-----------------------------------------------------------------------------
(* The builds *)

\* The elements, each the result of itself, cover their positions.
LEMMA SinglyCovers ==
  ASSUME NEW R, NEW data, Len(data) \in Nat, NEW pos, Singly(R, data, pos, Len(data))
  PROVE  Covers(R, data, Len(data), Positions(data, pos))
  <1> DEFINE n == Len(data)
             P == [l \in 1..n |-> {pos[l]}]
             U == Positions(data, pos)
  <1>1. \A l \in 1..n : <<data[l], P[l]>> \in R
    BY DEF Singly
  <1>2. \A l, m \in 1..n : l # m => P[l] \cap P[m] = {}
    BY DEF Singly
  <1>3. U = UNION {P[l] : l \in 1..n}
    BY DEF Positions
  <1> HIDE DEF P, U
  <1>4. Parts(R, data, n, U, P)
    BY <1>1, <1>2, <1>3 DEF Parts
  <1> QED
    BY <1>4 DEF Covers, U

\* The loop of a scalar build, from a start value
LEMMA ScalarJoins ==
  ASSUME NEW op, NEW R, NEW Q, Joins(op, R, Q), NEW data, Len(data) \in Nat, NEW start, <<start, {}>> \in R,
         NEW pos, Singly(Q, data, pos, Len(data))
  PROVE  <<Loop(op, start, data), Positions(data, pos)>> \in R
  <1> DEFINE U == Positions(data, pos)
  <1>1. PICK P : Parts(Q, data, Len(data), U, P)
    BY SinglyCovers DEF Covers
  <1>2. {} \cap U = {} /\ {} \cup U = U
    OBVIOUS
  <1> HIDE DEF U
  <1>3. <<Loop(op, start, data), {} \cup U>> \in R
    BY <1>1, <1>2, LoopJoins
  <1> QED
    BY <1>2, <1>3 DEF U

\* The sums of all builds, of floats and of doubles
LEMMA SumBuilds ==
  ASSUME NEW R, Joins("add", R, R), <<0, {}>> \in R, NEW T, NEW data \in Seq(T),
         NEW pos, Singly(R, data, pos, Len(data))
  PROVE  LET U == Positions(data, pos)
         IN  /\ <<Loop("add", 0, data), U>> \in R /\ <<SseSum(data), U>> \in R /\ <<Avx2Sum(data), U>> \in R
             /\ <<Avx512Sum(data), U>> \in R /\ <<NeonSum(data), U>> \in R /\ <<Avx512SumDoubles(data), U>> \in R
  <1> DEFINE U == Positions(data, pos)
             W(width) == WholePart(data, pos, width)
             A(width) == Accumulate("add", 0, data, width)
  <1>1. Len(data) \in Nat
    OBVIOUS
  <1>2. <<Loop("add", 0, data), U>> \in R
    BY <1>1, ScalarJoins
  <1>3. ASSUME NEW width \in {4, 8, 16} PROVE Vec(A(width), width) /\ Covers(R, A(width), width, W(width))
    BY <1>1, AccumulateCovers
  <1> HIDE DEF A, W
  <1>4. ASSUME NEW width \in {4, 8, 16}, NEW x, <<x, W(width)>> \in R PROVE <<Rest("add", x, data, width), U>> \in R
    BY <1>4, RestJoins DEF W
  <1> HIDE DEF U
  <1>5. 16 \in {4, 8, 16} /\ 8 \in {4, 8, 16} /\ 4 \in {4, 8, 16} /\ 8 = 2 * 4 /\ 4 = 2 * 2
    OBVIOUS
  <1>6. <<SseSum(data), U>> \in R
    <2>1. <<HAdd(HAdd(A(4)))[1], W(4)>> \in R
      BY <1>3, <1>5, HAddJoins
    <2> QED
      BY <1>4, <1>5, <2>1 DEF SseSum, A
  <1>7. <<Avx2Sum(data), U>> \in R
    <2>1. Covers(R, Halve("add", A(8)), 4, W(8))
      BY <1>3, <1>5, HalveCovers
    <2>2. <<HAdd(HAdd(Halve("add", A(8))))[1], W(8)>> \in R
      BY <2>1, HAddJoins
    <2> QED
      BY <1>4, <1>5, <2>2 DEF Avx2Sum, A
  <1>8. <<Avx512Sum(data), U>> \in R
    <2>1. <<Reduce16("add", A(16)), W(16)>> \in R
      BY <1>3, <1>5, Reduce16Joins
    <2> QED
      BY <1>4, <1>5, <2>1 DEF Avx512Sum, A
  <1>9. <<Avx512SumDoubles(data), U>> \in R
    <2>1. <<Reduce8("add", A(8)), W(8)>> \in R
      BY <1>3, <1>5, Reduce8Joins
    <2> QED
      BY <1>4, <1>5, <2>1 DEF Avx512SumDoubles, A
  <1>10. <<NeonSum(data), U>> \in R
    <2> DEFINE h == Halve("add", A(4))
    <2>1. Covers(R, h, 2, W(4))
      BY <1>3, <1>5, HalveCovers
    <2> HIDE DEF h
    <2>2. <<Apply("add", h[1], h[2]), W(4)>> \in R
      BY <2>1, TwoLanes
    <2>3. Apply("add", h[1], h[2]) = Plus(h[1], h[2])
      BY DEF Apply
    <2>4. <<Rest("add", Plus(h[1], h[2]), data, 4), U>> \in R
      BY <1>4, <1>5, <2>2, <2>3
    <2> QED
      BY <2>4 DEF NeonSum, A, h
  <1> QED
    BY <1>2, <1>6, <1>7, <1>8, <1>9, <1>10 DEF U

\* The least float in all builds
LEMMA MinBuilds ==
  ASSUME NEW R, NEW Q, Joins("less", R, R), Joins("less", R, Q), Joins("less", Q, Q), Joins("min_ps", R, R),
         Joins("min_ps", R, Q), Joins("vmin", R, Q), <<Largest, {}>> \in R, NEW T, NEW data \in Seq(T), data # <<>>,
         NEW pos, Singly(Q, data, pos, Len(data))
  PROVE  LET U == Positions(data, pos)
         IN  /\ <<ScalarMin(data), U>> \in Q
             /\ <<SseMin(data), U>> \in R /\ <<Avx2Min(data), U>> \in R
             /\ <<Avx512Min(data), U>> \in R /\ <<NeonMin(data), U>> \in R
  <1> DEFINE U == Positions(data, pos)
             W(width) == WholePart(data, pos, width)
  <1>1. Len(data) \in Nat /\ Len(data) > 0
    OBVIOUS
  <1>2. <<ScalarMin(data), U>> \in Q
    <2>1. Covers(Q, data, Len(data), U)
      BY <1>1, SinglyCovers
    <2>2. <<LoopLanes("less", data), U>> \in Q
      BY <1>1, <2>1, LoopLanesJoins
    <2> QED
      BY <2>2 DEF ScalarMin
  <1>3. ASSUME NEW width \in {4, 8}, NEW op \in {"min_ps", "vmin"}
        PROVE  <<Rest("less", LoopLanes("less", Accumulate(op, Largest, data, width)), data, width), U>> \in R
    <2> DEFINE A == Accumulate(op, Largest, data, width)
    <2>1. width \in {4, 8, 16} /\ width \in Nat /\ width > 0 /\ Joins(op, R, Q)
      OBVIOUS
    <2>2. Vec(A, width) /\ Covers(R, A, width, W(width))
      BY <1>1, <2>1, AccumulateCovers
    <2> HIDE DEF A, W
    <2>3. PICK S : A \in Seq(S) /\ Len(A) = width
      BY <2>1, <2>2, VecLen
    <2>4. <<LoopLanes("less", A), W(width)>> \in R
      BY <2>1, <2>2, <2>3, LoopLanesJoins
    <2> QED
      BY <2>1, <2>4, RestJoins DEF A, W
  <1>4. <<SseMin(data), U>> \in R
    BY <1>3 DEF SseMin
  <1>5. <<Avx2Min(data), U>> \in R
    BY <1>3 DEF Avx2Min
  <1>6. <<NeonMin(data), U>> \in R
    BY <1>3 DEF NeonMin
  <1>7. <<Avx512Min(data), U>> \in R
    <2> DEFINE A == Accumulate("min_ps", Largest, data, 16)
    <2>1. Vec(A, 16) /\ Covers(R, A, 16, W(16))
      BY <1>1, AccumulateCovers
    <2> HIDE DEF A, W
    <2>2. <<Reduce16("min_ps", A), W(16)>> \in R
      BY <2>1, Reduce16Joins
    <2>3. <<Rest("less", Reduce16("min_ps", A), data, 16), U>> \in R
      BY <2>2, RestJoins DEF W
    <2> QED
      BY <2>3 DEF Avx512Min, A
  <1> QED
    BY <1>2, <1>4, <1>5, <1>6, <1>7

\* The greatest float in all builds
LEMMA MaxBuilds ==
  ASSUME NEW R, NEW Q, Joins("more", R, R), Joins("more", R, Q), Joins("more", Q, Q), Joins("max_ps", R, R),
         Joins("max_ps", R, Q), Joins("vmax", R, Q), <<-Largest, {}>> \in R, NEW T, NEW data \in Seq(T), data # <<>>,
         NEW pos, Singly(Q, data, pos, Len(data))
  PROVE  LET U == Positions(data, pos)
         IN  /\ <<ScalarMax(data), U>> \in Q
             /\ <<SseMax(data), U>> \in R /\ <<Avx2Max(data), U>> \in R
             /\ <<Avx512Max(data), U>> \in R /\ <<NeonMax(data), U>> \in R
  <1> DEFINE U == Positions(data, pos)
             W(width) == WholePart(data, pos, width)
  <1>1. Len(data) \in Nat /\ Len(data) > 0
    OBVIOUS
  <1>2. <<ScalarMax(data), U>> \in Q
    <2>1. Covers(Q, data, Len(data), U)
      BY <1>1, SinglyCovers
    <2>2. <<LoopLanes("more", data), U>> \in Q
      BY <1>1, <2>1, LoopLanesJoins
    <2> QED
      BY <2>2 DEF ScalarMax
  <1>3. ASSUME NEW width \in {4, 8}, NEW op \in {"max_ps", "vmax"}
        PROVE  <<Rest("more", LoopLanes("more", Accumulate(op, -Largest, data, width)), data, width), U>> \in R
    <2> DEFINE A == Accumulate(op, -Largest, data, width)
    <2>1. width \in {4, 8, 16} /\ width \in Nat /\ width > 0 /\ Joins(op, R, Q)
      OBVIOUS
    <2>2. Vec(A, width) /\ Covers(R, A, width, W(width))
      BY <1>1, <2>1, AccumulateCovers
    <2> HIDE DEF A, W
    <2>3. PICK S : A \in Seq(S) /\ Len(A) = width
      BY <2>1, <2>2, VecLen
    <2>4. <<LoopLanes("more", A), W(width)>> \in R
      BY <2>1, <2>2, <2>3, LoopLanesJoins
    <2> QED
      BY <2>1, <2>4, RestJoins DEF A, W
  <1>4. <<SseMax(data), U>> \in R
    BY <1>3 DEF SseMax
  <1>5. <<Avx2Max(data), U>> \in R
    BY <1>3 DEF Avx2Max
  <1>6. <<NeonMax(data), U>> \in R
    BY <1>3 DEF NeonMax
  <1>7. <<Avx512Max(data), U>> \in R
    <2> DEFINE A == Accumulate("max_ps", -Largest, data, 16)
    <2>1. Vec(A, 16) /\ Covers(R, A, 16, W(16))
      BY <1>1, AccumulateCovers
    <2> HIDE DEF A, W
    <2>2. <<Reduce16("max_ps", A), W(16)>> \in R
      BY <2>1, Reduce16Joins
    <2>3. <<Rest("more", Reduce16("max_ps", A), data, 16), U>> \in R
      BY <2>2, RestJoins DEF W
    <2> QED
      BY <2>3 DEF Avx512Max, A
  <1> QED
    BY <1>2, <1>4, <1>5, <1>6, <1>7

-----------------------------------------------------------------------------
(* The reductions of a container *)

\* data are the values of E in the order of their positions pos.
Taken(values, E, data, pos) ==
  /\ Addable(values, E) /\ data \in Seq(Int) /\ Positions(data, pos) = E
  /\ \A j \in 1..Len(data) : pos[j] \in E /\ data[j] = values[pos[j]].data
  /\ \A i, j \in 1..Len(data) : pos[i] = pos[j] => i = j

\* What a reduction takes out of a container
LEMMA DataTaken ==
  ASSUME NEW values \in Inputs, NEW type \in {"float_value", "double_value"}
  PROVE  Taken(values, OfType(values, type), DataOf(values, type), Ascending(OfType(values, type)))
  <1> DEFINE E == OfType(values, type)
             pos == Ascending(E)
             data == DataOf(values, type)
             n == Cardinality(E)
             N == Len(values)
  <1>1. N \in Nat /\ E \subseteq 1..N
    <2>1. values \in Seq(ToSet(values))
      BY SimdAssumption
    <2> QED
      BY <2>1 DEF OfType
  <1>2. data = [j \in DOMAIN pos |-> values[pos[j]].data]
    BY DEF DataOf
  <1>3. Addable(values, E)
    <2>1. IsFiniteSet(1..N)
      BY <1>1, FS_Interval
    <2>2. IsFiniteSet(E)
      BY ONLY <1>1, <2>1, FS_Subset
    <2> QED
      BY <2>2, SimdAssumption DEF Addable
  <1> HIDE DEF E, data, N
  <1>4. /\ n \in Nat /\ Vec(pos, n) /\ {pos[j] : j \in 1..n} = E
        /\ \A j, k \in 1..n : pos[j] = pos[k] => j = k
    BY <1>1, AscendingOrder
  <1> HIDE DEF n, pos
  <1>5. DOMAIN pos = 1..n
    BY <1>4 DEF Vec
  <1>6. \A j \in 1..n : pos[j] \in E /\ values[pos[j]].data \in Int
    <2>1. \A j \in 1..n : pos[j] \in E
      BY <1>4
    <2>2. \A i \in E : values[i].data \in Int
      BY <1>3, SpecialValues DEF Addable
    <2> QED
      BY <2>1, <2>2
  <1>7. data \in [1..n -> Int] /\ \A j \in 1..n : data[j] = values[pos[j]].data
    BY <1>2, <1>5, <1>6
  <1>8. data \in Seq(Int) /\ Len(data) = n
    BY <1>4, <1>7, SeqDef
  <1>9. Positions(data, pos) = E
    BY <1>4, <1>8 DEF Positions
  <1>10. Taken(values, E, data, pos)
    BY <1>3, <1>4, <1>6, <1>7, <1>8, <1>9 DEF Taken
  <1> QED
    BY <1>10 DEF E, pos, data

\* Nothing to take
LEMMA NothingTaken ==
  ASSUME NEW values, NEW E, NEW data, NEW pos, Taken(values, E, data, pos)
  PROVE  /\ data = <<>> <=> E = {}
         /\ data = <<>> <=> DataIn(values, E) = {}
  <1>1. data = <<>> <=> Len(data) = 0
    BY DEF Taken
  <1>2. Len(data) \in Nat /\ E = {pos[j] : j \in 1..Len(data)}
    BY DEF Taken, Positions
  <1> DEFINE n == Len(data)
  <1> HIDE DEF n
  <1>3. n \in Nat /\ E = {pos[j] : j \in 1..n}
    BY <1>2 DEF n
  <1>4. n = 0 <=> E = {}
    <2>1. n # 0 => 1 \in 1..n
      BY <1>3
    <2>2. n = 0 => 1..n = {}
      OBVIOUS
    <2> QED
      BY <1>3, <2>1, <2>2
  <1>5. E = {} <=> DataIn(values, E) = {}
    BY DEF DataIn
  <1> QED
    BY <1>1, <1>4, <1>5 DEF n

\* Each build adds every value once.
LEMMA SumTaken ==
  ASSUME NEW values, NEW E, NEW data, NEW pos, Taken(values, E, data, pos)
  PROVE  LET sum == SumOf(values, E)
         IN  /\ Loop("add", 0, data) = sum /\ SseSum(data) = sum /\ Avx2Sum(data) = sum
             /\ Avx512Sum(data) = sum /\ NeonSum(data) = sum /\ Avx512SumDoubles(data) = sum
             /\ E = {} => sum = 0
  <1> DEFINE R == Sums(values, E)
  <1>1. Addable(values, E) /\ data \in Seq(Int) /\ Positions(data, pos) = E
    BY DEF Taken
  <1>2. Joins("add", R, R) /\ <<0, {}>> \in R
    BY <1>1, SumsJoin, StartSum
  <1>3. Singly(R, data, pos, Len(data))
    BY <1>1, SelfSum DEF Taken, Singly
  <1>4. \A x : <<x, E>> \in R => x = SumOf(values, E)
    BY InSums
  <1>5. E = {} => SumOf(values, E) = 0
    BY <1>2, InSums
  <1> HIDE DEF R
  <1>6. /\ <<Loop("add", 0, data), E>> \in R /\ <<SseSum(data), E>> \in R /\ <<Avx2Sum(data), E>> \in R
        /\ <<Avx512Sum(data), E>> \in R /\ <<NeonSum(data), E>> \in R /\ <<Avx512SumDoubles(data), E>> \in R
    BY <1>1, <1>2, <1>3, SumBuilds
  <1> QED
    BY <1>4, <1>5, <1>6

\* Each build finds the least value, a vector build among its start values too.
LEMMA LeastTaken ==
  ASSUME NEW values, NEW E, NEW data, NEW pos, Taken(values, E, data, pos), data # <<>>
  PROVE  LET Q == Leasts(values, E, {})
             R == Leasts(values, E, {Largest})
         IN  /\ <<ScalarMin(data), E>> \in Q
             /\ <<SseMin(data), E>> \in R /\ <<Avx2Min(data), E>> \in R
             /\ <<Avx512Min(data), E>> \in R /\ <<NeonMin(data), E>> \in R
  <1> DEFINE Q == Leasts(values, E, {})
             R == Leasts(values, E, {Largest})
  <1>1. Addable(values, E) /\ data \in Seq(Int) /\ Positions(data, pos) = E
    BY DEF Taken
  <1>2. Largest \in Nat /\ Largest \in Int /\ NaN # Largest
    BY <1>1 DEF Addable, NaN
  <1>3. \A i \in E : values[i].data \in Int
    BY <1>1, SpecialValues DEF Addable
  <1>4. /\ {Largest} \subseteq Int /\ NaN \notin {Largest} /\ {Largest} \subseteq {Largest} /\ {} \subseteq {Largest}
        /\ {} \subseteq Int /\ NaN \notin {} /\ {} \subseteq {}
    BY <1>2
  <1>5. \A op \in {"less", "min_ps", "vmin"} : Joins(op, R, R) /\ Joins(op, R, Q) /\ Joins(op, Q, Q)
    BY <1>3, <1>4, LeastsJoin
  <1>6. <<Largest, {}>> \in R
    BY <1>2, StartExtreme
  <1>7. Singly(Q, data, pos, Len(data))
    BY <1>3, SelfExtreme DEF Taken, Singly
  <1> HIDE DEF Q, R
  <1>8. /\ Joins("less", R, R) /\ Joins("less", R, Q) /\ Joins("less", Q, Q) /\ Joins("min_ps", R, R)
        /\ Joins("min_ps", R, Q) /\ Joins("vmin", R, Q)
    BY <1>5
  <1>9. /\ <<ScalarMin(data), E>> \in Q
        /\ <<SseMin(data), E>> \in R /\ <<Avx2Min(data), E>> \in R
        /\ <<Avx512Min(data), E>> \in R /\ <<NeonMin(data), E>> \in R
    BY <1>1, <1>6, <1>7, <1>8, MinBuilds
  <1> QED
    BY <1>9 DEF Q, R

\* Each build finds the greatest value, a vector build among its start values too.
LEMMA GreatestTaken ==
  ASSUME NEW values, NEW E, NEW data, NEW pos, Taken(values, E, data, pos), data # <<>>
  PROVE  LET Q == Greatests(values, E, {})
             R == Greatests(values, E, {-Largest})
         IN  /\ <<ScalarMax(data), E>> \in Q
             /\ <<SseMax(data), E>> \in R /\ <<Avx2Max(data), E>> \in R
             /\ <<Avx512Max(data), E>> \in R /\ <<NeonMax(data), E>> \in R
  <1> DEFINE Q == Greatests(values, E, {})
             low == -Largest
             R == Greatests(values, E, {low})
  <1>1. Addable(values, E) /\ data \in Seq(Int) /\ Positions(data, pos) = E
    BY DEF Taken
  <1>2. low \in Int /\ NaN # low
    BY <1>1 DEF Addable, NaN
  <1>3. \A i \in E : values[i].data \in Int
    BY <1>1, SpecialValues DEF Addable
  <1> HIDE DEF low
  <1>4. /\ {low} \subseteq Int /\ NaN \notin {low} /\ {low} \subseteq {low} /\ {} \subseteq {low}
        /\ {} \subseteq Int /\ NaN \notin {} /\ {} \subseteq {}
    BY <1>2
  <1>5. \A op \in {"more", "max_ps", "vmax"} : Joins(op, R, R) /\ Joins(op, R, Q) /\ Joins(op, Q, Q)
    BY <1>3, <1>4, GreatestsJoin
  <1>6. <<low, {}>> \in R
    BY <1>2, StartExtreme
  <1>7. Singly(Q, data, pos, Len(data))
    BY <1>3, SelfExtreme DEF Taken, Singly
  <1> HIDE DEF Q, R
  <1>8. /\ Joins("more", R, R) /\ Joins("more", R, Q) /\ Joins("more", Q, Q) /\ Joins("max_ps", R, R)
        /\ Joins("max_ps", R, Q) /\ Joins("vmax", R, Q) /\ <<-Largest, {}>> \in R
    BY <1>5, <1>6 DEF low
  <1>9. /\ <<ScalarMax(data), E>> \in Q
        /\ <<SseMax(data), E>> \in R /\ <<Avx2Max(data), E>> \in R
        /\ <<Avx512Max(data), E>> \in R /\ <<NeonMax(data), E>> \in R
    BY <1>1, <1>7, <1>8, MaxBuilds
  <1> QED
    BY <1>9 DEF Q, R, low

\* sum_floats, sum_doubles and the policies' sum_doubles
LEMMA SumsExact ==
  ASSUME NEW values \in Inputs, NEW build \in Builds
  PROVE  /\ SumFloats(build, values) = SumOf(values, OfType(values, "float_value"))
         /\ PolicySumDoubles(build, Floats(values)) = SumOf(values, OfType(values, "float_value"))
         /\ SumDoubles(build, values) = SumOf(values, OfType(values, "double_value"))
  <1> DEFINE E == OfType(values, "float_value")
             data == Floats(values)
             pos == Ascending(E)
  <1>1. Taken(values, E, data, pos)
    BY DataTaken DEF Floats
  <1> HIDE DEF E, data, pos
  <1>2. /\ Loop("add", 0, data) = SumOf(values, E) /\ SseSum(data) = SumOf(values, E)
        /\ Avx2Sum(data) = SumOf(values, E) /\ Avx512Sum(data) = SumOf(values, E)
        /\ NeonSum(data) = SumOf(values, E) /\ Avx512SumDoubles(data) = SumOf(values, E)
        /\ data = <<>> => SumOf(values, E) = 0
    BY <1>1, SumTaken, NothingTaken
  <1>3. SumFloats(build, values) = SumOf(values, E)
    BY <1>2 DEF SumFloats, Builds, SumFloatsAvx512, SumFloatsAvx2, SumFloatsSse, SumFloatsNeon, SumFloatsScalar, ScalarSum, data
  <1>4. PolicySumDoubles(build, data) = SumOf(values, E)
    BY <1>2 DEF PolicySumDoubles, Builds, Avx2SumDoubles, SseSumDoubles, NeonSumDoubles, ScalarSumDoubles
  <1>5. SumDoubles(build, values) = SumOf(values, OfType(values, "double_value"))
    <2> DEFINE F == OfType(values, "double_value")
    <2>1. Taken(values, F, DataOf(values, "double_value"), Ascending(F))
      BY DataTaken
    <2> HIDE DEF F
    <2>2. Loop("add", 0, DataOf(values, "double_value")) = SumOf(values, F)
      BY <2>1, SumTaken
    <2> QED
      BY <2>2 DEF SumDoubles, F
  <1> QED
    BY <1>3, <1>4, <1>5 DEF E, data

\* min_float
LEMMA MinFloatExact ==
  ASSUME NEW values \in Inputs, NEW build \in Builds
  PROVE  Exact("min_float", build, values, MinFloat(build, values))
  <1> DEFINE E == OfType(values, "float_value")
             data == Floats(values)
             fs == DataIn(values, E)
             least == Capped(build, fs, Largest)
             result == MinFloat(build, values)
  <1>1. Taken(values, E, data, Ascending(E))
    BY DataTaken DEF Floats
  <1>2. data = <<>> => result = NoAnswer
    BY DEF MinFloat
  <1>3. ASSUME data # <<>> PROVE \E x : result = <<x>> /\ <<x, E>> \in Leasts(values, E, IF build = "scalar" THEN {} ELSE {Largest})
    <2> HIDE DEF E, data
    <2>1. /\ <<ScalarMin(data), E>> \in Leasts(values, E, {}) /\ <<SseMin(data), E>> \in Leasts(values, E, {Largest})
          /\ <<Avx2Min(data), E>> \in Leasts(values, E, {Largest}) /\ <<Avx512Min(data), E>> \in Leasts(values, E, {Largest})
          /\ <<NeonMin(data), E>> \in Leasts(values, E, {Largest})
      BY <1>1, <1>3, LeastTaken
    <2>2. CASE build = "scalar"
      <3>1. result = <<ScalarMin(data)>>
        BY <1>3, <2>2 DEF MinFloat, MinFloatScalar, data
      <3> QED
        BY <2>1, <2>2, <3>1
    <2>3. CASE build # "scalar"
      <3>1. result \in {<<SseMin(data)>>, <<Avx2Min(data)>>, <<Avx512Min(data)>>, <<NeonMin(data)>>}
        BY <1>3, <2>3 DEF MinFloat, Builds, MinFloatAvx512, MinFloatAvx2, MinFloatSse, MinFloatNeon, data
      <3> QED
        BY <2>1, <2>3, <3>1
    <2> QED
      BY <2>2, <2>3
  <1>4. data = <<>> <=> fs = {}
    BY <1>1, NothingTaken
  <1>5. least = fs \cup (IF build = "scalar" THEN {} ELSE {Largest})
    BY DEF Capped
  <1> HIDE DEF E, data, fs, least, result
  <1>6. ASSUME fs # {}
        PROVE  result # NoAnswer /\ result[1] \in least /\ (NaN \notin fs => \A x \in least : result[1] <= x)
    <2>1. PICK x : result = <<x>> /\ <<x, E>> \in Leasts(values, E, IF build = "scalar" THEN {} ELSE {Largest})
      BY <1>3, <1>4, <1>6
    <2>2. x \in least /\ (NaN \notin fs => \A y \in least : x <= y)
      BY <1>5, <2>1, InLeasts DEF fs
    <2> QED
      BY <2>1, <2>2 DEF NoAnswer
  <1> QED
    BY <1>2, <1>4, <1>6 DEF Exact, E, fs, least, result

\* max_float
LEMMA MaxFloatExact ==
  ASSUME NEW values \in Inputs, NEW build \in Builds
  PROVE  Exact("max_float", build, values, MaxFloat(build, values))
  <1> DEFINE E == OfType(values, "float_value")
             data == Floats(values)
             fs == DataIn(values, E)
             greatest == Capped(build, fs, -Largest)
             result == MaxFloat(build, values)
  <1>1. Taken(values, E, data, Ascending(E))
    BY DataTaken DEF Floats
  <1>2. data = <<>> => result = NoAnswer
    BY DEF MaxFloat
  <1>3. ASSUME data # <<>> PROVE \E x : result = <<x>> /\ <<x, E>> \in Greatests(values, E, IF build = "scalar" THEN {} ELSE {-Largest})
    <2> HIDE DEF E, data
    <2>1. /\ <<ScalarMax(data), E>> \in Greatests(values, E, {}) /\ <<SseMax(data), E>> \in Greatests(values, E, {-Largest})
          /\ <<Avx2Max(data), E>> \in Greatests(values, E, {-Largest}) /\ <<Avx512Max(data), E>> \in Greatests(values, E, {-Largest})
          /\ <<NeonMax(data), E>> \in Greatests(values, E, {-Largest})
      BY <1>1, <1>3, GreatestTaken
    <2>2. CASE build = "scalar"
      <3>1. result = <<ScalarMax(data)>>
        BY <1>3, <2>2 DEF MaxFloat, MaxFloatScalar, data
      <3> QED
        BY <2>1, <2>2, <3>1
    <2>3. CASE build # "scalar"
      <3>1. result \in {<<SseMax(data)>>, <<Avx2Max(data)>>, <<Avx512Max(data)>>, <<NeonMax(data)>>}
        BY <1>3, <2>3 DEF MaxFloat, Builds, MaxFloatAvx512, MaxFloatAvx2, MaxFloatSse, MaxFloatNeon, data
      <3> QED
        BY <2>1, <2>3, <3>1
    <2> QED
      BY <2>2, <2>3
  <1>4. data = <<>> <=> fs = {}
    BY <1>1, NothingTaken
  <1>5. greatest = fs \cup (IF build = "scalar" THEN {} ELSE {-Largest})
    BY DEF Capped
  <1>6. Largest \in Nat
    BY SimdAssumption
  <1>7. \A i \in E : values[i].data \in Int
    BY <1>1, SpecialValues DEF Taken, Addable
  <1>8. greatest \subseteq Int
    <2>1. fs \subseteq Int
      BY <1>7 DEF DataIn
    <2> QED
      BY <1>5, <1>6, <2>1
  <1> HIDE DEF E, data, fs, greatest, result
  <1>9. ASSUME fs # {}
        PROVE  result # NoAnswer /\ result[1] \in greatest /\ (NaN \notin fs => \A x \in greatest : result[1] >= x)
    <2>1. PICK x : result = <<x>> /\ <<x, E>> \in Greatests(values, E, IF build = "scalar" THEN {} ELSE {-Largest})
      BY <1>3, <1>4, <1>9
    <2>2. x \in Int /\ x \in greatest /\ (NaN \notin fs => \A y \in greatest : y <= x)
      BY <1>5, <2>1, InGreatests DEF fs
    <2>3. NaN \notin fs => \A y \in greatest : x >= y
      BY <1>8, <2>2
    <2> QED
      BY <2>1, <2>2, <2>3 DEF NoAnswer
  <1> QED
    BY <1>2, <1>4, <1>9 DEF Exact, E, fs, greatest, result

\* find_equal_floats
LEMMA FindExact ==
  ASSUME NEW values \in Inputs, NEW build \in Builds
  PROVE  Exact("find_equal_floats", build, values, FindEqualFloats(values, 1))
  <1> DEFINE E == OfType(values, "float_value")
             kept == {i \in E : values[i].data # NaN /\ values[i].data = 1}
             equal == {i \in E : values[i].data = 1}
             n == Cardinality(kept)
             N == Len(values)
             result == Ascending(kept)
  <1>1. N \in Nat /\ E \subseteq 1..N
    <2>1. values \in Seq(ToSet(values))
      BY SimdAssumption
    <2> QED
      BY <2>1 DEF OfType
  <1>2. kept = equal
    <2>1. Largest \in Nat
      BY SimdAssumption
    <2>2. NaN # 1
      BY <2>1 DEF NaN
    <2> QED
      BY <2>2
  <1>3. kept \subseteq 1..N
    BY <1>1
  <1>4. FindEqualFloats(values, 1) = result
    BY DEF FindEqualFloats
  <1> HIDE DEF kept, N
  <1>5. /\ n \in Nat /\ Vec(result, n) /\ {result[j] : j \in 1..n} = kept
        /\ \A j, k \in 1..n : j < k => result[j] < result[k]
    BY <1>1, <1>3, AscendingOrder
  <1> HIDE DEF n, result
  <1>6. DOMAIN result = 1..n
    BY <1>5 DEF Vec
  <1>7. {result[j] : j \in DOMAIN result} = equal
    BY <1>2, <1>5, <1>6
  <1>8. \A j, k \in DOMAIN result : j < k => result[j] < result[k]
    BY <1>5, <1>6
  <1>9. Exact("find_equal_floats", build, values, result)
    BY <1>7, <1>8 DEF Exact
  <1> QED
    BY <1>4, <1>9

\* Every reduction of simd_processor and of the SIMD policies gives in every
\* build, for any number of values, what the values owe: whole vectors, the
\* folding of the lanes and the tail together take each value exactly once.
THEOREM ReductionsAreExact == SimdSpec => []ReductionsExact
  <1>1. SimdInit => ReductionsExact
    BY DEF SimdInit, ReductionsExact, Exact
  <1>2. ReductionsExact /\ [SimdNext]_simdVars => ReductionsExact'
    <2> SUFFICES ASSUME ReductionsExact, [SimdNext]_simdVars
                 PROVE  Exact(call'[1], call'[2], input', answer')
      BY DEF ReductionsExact
    <2>1. CASE UNCHANGED simdVars
      <3>1. call' = call /\ input' = input /\ answer' = answer
        BY <2>1 DEF simdVars
      <3> QED
        BY <3>1 DEF ReductionsExact
    <2>2. ASSUME NEW op \in Operations, NEW build \in Builds, NEW values \in Inputs, Reduce(op, build, values)
          PROVE  Exact(op, build, values, answer')
      <3>1. CASE op \in {"sum_floats", "policy_sum_doubles"}
        <4>1. answer' = <<SumOf(values, OfType(values, "float_value"))>>
          BY <2>2, <3>1, SumsExact DEF Reduce
        <4> QED
          BY <3>1, <4>1 DEF Exact
      <3>2. CASE op = "sum_doubles"
        <4>1. answer' = <<SumOf(values, OfType(values, "double_value"))>>
          BY <2>2, <3>2, SumsExact DEF Reduce
        <4> QED
          BY <3>2, <4>1 DEF Exact
      <3>3. CASE op = "min_float"
        <4>1. answer' = MinFloat(build, values)
          BY <2>2, <3>3 DEF Reduce
        <4> QED
          BY <3>3, <4>1, MinFloatExact
      <3>4. CASE op = "max_float"
        <4>1. answer' = MaxFloat(build, values)
          BY <2>2, <3>4 DEF Reduce
        <4> QED
          BY <3>4, <4>1, MaxFloatExact
      <3>5. CASE op = "find_equal_floats"
        <4>1. answer' = FindEqualFloats(values, 1)
          BY <2>2, <3>5 DEF Reduce
        <4> QED
          BY <3>5, <4>1, FindExact
      <3> QED
        BY <3>1, <3>2, <3>3, <3>4, <3>5 DEF Operations
    <2>3. CASE SimdNext
      <3>1. PICK op \in Operations, build \in Builds, values \in Inputs : Reduce(op, build, values)
        BY <2>3 DEF SimdNext
      <3>2. Exact(op, build, values, answer')
        BY <2>2, <3>1
      <3>3. input' = values /\ call'[1] = op /\ call'[2] = build
        BY <3>1 DEF Reduce
      <3> QED
        BY <3>2, <3>3
    <2> QED
      BY <2>1, <2>3
  <1> QED
    BY <1>1, <1>2, PTL DEF SimdSpec
=============================================================================
