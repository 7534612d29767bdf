--------------------------- MODULE MetricsProofs ---------------------------
(***************************************************************************)
(* The counters, sums and extremes of the metrics are exact once everybody *)
(* is done, for every number of recorders and every interleaving of their  *)
(* relaxed accesses; the reservoir count passes the reservoir's size by    *)
(* less than the number of recorders; and as long as no two of them fill   *)
(* the reservoir at once, the percentiles are those of recorded samples.   *)
(***************************************************************************)
EXTENDS Metrics, FiniteSetTheorems, SequenceTheorems, WellFoundedInduction, TLAPS

\* Where a recorder may be, in the order of record().
BeforeMax == {"load_max", "cas_max"}
BeforeMin == BeforeMax \union {"load_min", "cas_min"}
BeforeSum == BeforeMin \union {"summing"}
BeforeTotal == BeforeSum \union {"load_count", "reservoir", "total"}
Stages == BeforeTotal \union {"idle", "counting", "sampling"}

In(P) == {r \in Recorders : rec[r].at \in P}

\* The latencies that recorders in P carry.
Pending(P) == [r \in In(P) |-> rec[r].latency]

MetricsRecord ==
  [operations : Nat, total : Nat, sample_count : Nat, max : Nat, min : Nat, sum : Nat,
   reservoir_count : Nat, reservoir : [Slots -> Nat]]
RecorderState ==
  [at : Stages, timed : BOOLEAN, latency : Nat, count : Nat, current : Nat, idx : Nat,
   todo : SUBSET {"slot", "count"}]

\* What a reset has still to clear is the end of its list of fields.
ResetSuffixes ==
  {<<"operations", "total", "sample_count", "max", "min", "sum", "reservoir_count", "reservoir">>,
   <<"total", "sample_count", "max", "min", "sum", "reservoir_count", "reservoir">>,
   <<"sample_count", "max", "min", "sum", "reservoir_count", "reservoir">>,
   <<"max", "min", "sum", "reservoir_count", "reservoir">>,
   <<"min", "sum", "reservoir_count", "reservoir">>,
   <<"sum", "reservoir_count", "reservoir">>,
   <<"reservoir_count", "reservoir">>, <<"reservoir">>, <<>>}
Uncleared == {resetter[i] : i \in DOMAIN resetter}

MetricsTypeOK ==
  /\ enabled \in BOOLEAN
  /\ metrics \in MetricsRecord
  /\ rec \in [Recorders -> RecorderState]
  /\ \A r \in Recorders : rec[r].at # "idle" => rec[r].latency \in Latencies
  /\ resetter \in ResetSuffixes
  /\ truth \in Seq(Latencies)

\* Every recorder that has seen room will count once.
Adding == {r \in Recorders : rec[r].at = "reservoir" /\ "count" \in rec[r].todo}
RoomInv == metrics.reservoir_count + Cardinality(Adding) <= ReservoirSize + Cardinality(Recorders) - 1

\* Counters and sums are behind the samples by what recorders still carry.
CountsInv ==
  /\ \A r \in Recorders : At(r, "counting") => rec[r].timed = enabled
  /\ metrics.operations = Len(truth) + Cardinality(In({"sampling"}))
  /\ metrics.sample_count = Len(truth)

SumsInv ==
  /\ IsFiniteSet(Units(truth))
  /\ IsFiniteSet(Units(Pending(BeforeSum))) /\ IsFiniteSet(Units(Pending(BeforeTotal)))
  /\ metrics.sum + Total(Pending(BeforeSum)) = Total(truth)
  /\ metrics.total + Total(Pending(BeforeTotal)) = Total(truth)

\* An extreme is one of the samples, and covers all of them but those whose
\* recorders have still to compare; a value loaded for the comparison was
\* the extreme at some time, and extremes move one way only.
ExtremesInv ==
  /\ \A r \in Recorders : rec[r].at \in BeforeTotal => rec[r].latency \in Sampled
  /\ metrics.max \in Sampled \union {0} /\ metrics.min \in Sampled \union {UINT64_MAX}
  /\ \A r \in Recorders : At(r, "cas_max") => rec[r].current <= metrics.max
  /\ \A r \in Recorders : At(r, "cas_min") => rec[r].current >= metrics.min
  /\ \A x \in Sampled : x <= metrics.max \/ \E r \in In(BeforeMax) : rec[r].latency = x
  /\ \A x \in Sampled : x >= metrics.min \/ \E r \in In(BeforeMin) : rec[r].latency = x

\* A reset that no operation overlaps: what it has passed is clear.
ClearingInv ==
  /\ ~Busy /\ truth = <<>>
  /\ \A f \in DOMAIN NoMetrics \ Uncleared : metrics[f] = NoMetrics[f]

MetricsInv ==
  /\ MetricsTypeOK
  /\ RoomInv
  /\ ~blurred /\ resetter = <<>> => CountsInv /\ SumsInv /\ ExtremesInv
  /\ ~blurred /\ resetter # <<>> => ClearingInv

-----------------------------------------------------------------------------
(* Sums *)

\* One more summand.
LEMMA UnitsAdd ==
  ASSUME NEW f, NEW g, NEW x, x \notin DOMAIN f, DOMAIN g = DOMAIN f \union {x},
         \A y \in DOMAIN f : g[y] = f[y], g[x] \in Nat
  PROVE  /\ IsFiniteSet(Units(f)) <=> IsFiniteSet(Units(g))
         /\ IsFiniteSet(Units(f)) => Total(f) \in Nat /\ Total(g) = Total(f) + g[x]
  <1> DEFINE n == g[x]
             C == {x} \X (1..n)
             h == [i \in 1..n |-> <<x, i>>]
  <1>1. IsFiniteSet(C) /\ Cardinality(C) = n
    <2>1. h \in Bijection(1..n, C)
      <3>1. h \in [1..n -> C] /\ \A i, j \in 1..n : h[i] = h[j] => i = j
        OBVIOUS
      <3>2. \A c \in C : \E i \in 1..n : h[i] = c
        OBVIOUS
      <3> QED
        BY <3>1, <3>2 DEF Bijection, Injection, Surjection, IsInjective
    <2>2. ExistsBijection(1..n, C)
      BY <2>1 DEF ExistsBijection
    <2>3. IsFiniteSet(1..n) /\ Cardinality(1..n) = n
      BY FS_Interval
    <2> HIDE DEF n, C
    <2> QED
      BY <2>2, <2>3, FS_Bijection
  <1>2. Units(g) = Units(f) \union C /\ Units(f) \cap C = {}
    BY DEF Units
  <1>3. ASSUME IsFiniteSet(Units(g)) PROVE IsFiniteSet(Units(f))
    BY <1>2, <1>3, FS_Subset
  <1>4. ASSUME IsFiniteSet(Units(f))
        PROVE  IsFiniteSet(Units(g)) /\ Total(f) \in Nat /\ Total(g) = Total(f) + n
    <2>1. n \in Nat
      OBVIOUS
    <2> HIDE DEF C, n
    <2>2. Cardinality(Units(f)) \in Nat
      BY <1>4, FS_CardinalityType
    <2>3. /\ IsFiniteSet(Units(f) \union C)
          /\ Cardinality(Units(f) \union C) = Cardinality(Units(f)) + n - Cardinality(Units(f) \cap C)
      BY <1>1, <1>4, FS_Union
    <2>4. Cardinality(Units(f) \cap C) = 0
      BY <1>2, FS_EmptySet
    <2> QED
      BY <1>2, <2>1, <2>2, <2>3, <2>4 DEF Total
  <1> QED
    BY <1>3, <1>4

-----------------------------------------------------------------------------
(* What the steps of a recorder do *)

\* The fields of the records.
LEMMA MetricsFields ==
  ASSUME NEW m \in MetricsRecord
  PROVE  /\ m.operations \in Nat /\ m.total \in Nat /\ m.sample_count \in Nat /\ m.max \in Nat
         /\ m.min \in Nat /\ m.sum \in Nat /\ m.reservoir_count \in Nat
         /\ m.reservoir \in [Slots -> Nat]
         /\ m = [operations |-> m.operations, total |-> m.total, sample_count |-> m.sample_count,
                 max |-> m.max, min |-> m.min, sum |-> m.sum,
                 reservoir_count |-> m.reservoir_count, reservoir |-> m.reservoir]
  BY DEF MetricsRecord

LEMMA RecorderFields ==
  ASSUME NEW c \in RecorderState
  PROVE  /\ c.at \in Stages /\ c.timed \in BOOLEAN /\ c.latency \in Nat /\ c.count \in Nat
         /\ c.current \in Nat /\ c.idx \in Nat /\ c.todo \in SUBSET {"slot", "count"}
         /\ c = [at |-> c.at, timed |-> c.timed, latency |-> c.latency, count |-> c.count,
                 current |-> c.current, idx |-> c.idx, todo |-> c.todo]
  BY DEF RecorderState

\* A step changes one field.
SameBut(n, m, f) ==
  /\ n \in MetricsRecord
  /\ f # "operations" => n.operations = m.operations
  /\ f # "total" => n.total = m.total
  /\ f # "sample_count" => n.sample_count = m.sample_count
  /\ f # "max" => n.max = m.max
  /\ f # "min" => n.min = m.min
  /\ f # "sum" => n.sum = m.sum
  /\ f # "reservoir_count" => n.reservoir_count = m.reservoir_count
  /\ f # "reservoir" => n.reservoir = m.reservoir

LEMMA SetField ==
  ASSUME NEW m \in MetricsRecord, NEW v \in Nat
  PROVE  /\ SameBut([m EXCEPT !.operations = v], m, "operations") /\ [m EXCEPT !.operations = v].operations = v
         /\ SameBut([m EXCEPT !.total = v], m, "total") /\ [m EXCEPT !.total = v].total = v
         /\ SameBut([m EXCEPT !.sample_count = v], m, "sample_count")
         /\ [m EXCEPT !.sample_count = v].sample_count = v
         /\ SameBut([m EXCEPT !.max = v], m, "max") /\ [m EXCEPT !.max = v].max = v
         /\ SameBut([m EXCEPT !.min = v], m, "min") /\ [m EXCEPT !.min = v].min = v
         /\ SameBut([m EXCEPT !.sum = v], m, "sum") /\ [m EXCEPT !.sum = v].sum = v
         /\ SameBut([m EXCEPT !.reservoir_count = v], m, "reservoir_count")
         /\ [m EXCEPT !.reservoir_count = v].reservoir_count = v
  <1>1. SameBut([m EXCEPT !.operations = v], m, "operations") /\ [m EXCEPT !.operations = v].operations = v
    BY MetricsFields DEF SameBut, MetricsRecord
  <1>2. SameBut([m EXCEPT !.total = v], m, "total") /\ [m EXCEPT !.total = v].total = v
    BY MetricsFields DEF SameBut, MetricsRecord
  <1>3. /\ SameBut([m EXCEPT !.sample_count = v], m, "sample_count")
        /\ [m EXCEPT !.sample_count = v].sample_count = v
    BY MetricsFields DEF SameBut, MetricsRecord
  <1>4. SameBut([m EXCEPT !.max = v], m, "max") /\ [m EXCEPT !.max = v].max = v
    BY MetricsFields DEF SameBut, MetricsRecord
  <1>5. SameBut([m EXCEPT !.min = v], m, "min") /\ [m EXCEPT !.min = v].min = v
    BY MetricsFields DEF SameBut, MetricsRecord
  <1>6. SameBut([m EXCEPT !.sum = v], m, "sum") /\ [m EXCEPT !.sum = v].sum = v
    BY MetricsFields DEF SameBut, MetricsRecord
  <1>7. /\ SameBut([m EXCEPT !.reservoir_count = v], m, "reservoir_count")
        /\ [m EXCEPT !.reservoir_count = v].reservoir_count = v
    BY MetricsFields DEF SameBut, MetricsRecord
  <1> QED
    BY <1>1, <1>2, <1>3, <1>4, <1>5, <1>6, <1>7

\* The ways a step changes the state of a recorder.
Kept(n, c) == n \in RecorderState /\ n.latency = c.latency

LEMMA SetAt ==
  ASSUME NEW c \in RecorderState, NEW a \in Stages
  PROVE  /\ Kept([c EXCEPT !.at = a], c)
         /\ [c EXCEPT !.at = a].at = a
         /\ [c EXCEPT !.at = a].todo = c.todo
  BY RecorderFields DEF Kept, RecorderState

LEMMA SetCurrent ==
  ASSUME NEW c \in RecorderState, NEW n \in Nat
  PROVE  /\ Kept([c EXCEPT !.current = n], c)
         /\ [c EXCEPT !.current = n].at = c.at
         /\ [c EXCEPT !.current = n].current = n
  BY RecorderFields DEF Kept, RecorderState

\* A recorder goes from a to b; nobody else moves, and no reset or switch happens.
Moves(r, a, b) ==
  /\ rec' = [rec EXCEPT ![r] = rec'[r]] /\ rec'[r] \in RecorderState
  /\ rec[r].at = a /\ rec'[r].at = b
  /\ b # "idle" => rec'[r].latency = rec[r].latency
  /\ UNCHANGED <<enabled, resetter, blurred>>

LEMMA StagesAre ==
  Stages = {"idle", "counting", "sampling", "load_max", "cas_max", "load_min", "cas_min", "summing",
            "load_count", "reservoir", "total"}
  BY DEF Stages, BeforeTotal, BeforeSum, BeforeMin, BeforeMax

\* make_timer's second half: the operation counter
LEMMA CountOperationEffect ==
  ASSUME MetricsTypeOK, NEW r \in Recorders, CountOperation(r)
  PROVE  /\ Moves(r, "counting", IF rec[r].timed THEN "sampling" ELSE "idle") /\ truth' = truth
         /\ SameBut(metrics', metrics, "operations")
         /\ metrics'.operations = (IF enabled THEN metrics.operations + 1 ELSE metrics.operations)
  <1>0. metrics \in MetricsRecord /\ rec[r] \in RecorderState
    BY DEF MetricsTypeOK
  <1> DEFINE b == IF rec[r].timed THEN "sampling" ELSE "idle"
  <1>1. rec'[r] = [rec[r] EXCEPT !.at = b] /\ rec' = [rec EXCEPT ![r] = rec'[r]]
    BY DEF CountOperation, MetricsTypeOK
  <1>2. Kept(rec'[r], rec[r]) /\ rec'[r].at = b
    <2>1. b \in Stages
      BY StagesAre
    <2> HIDE DEF b
    <2> QED
      BY <1>0, <1>1, <2>1, SetAt
  <1>3. Moves(r, "counting", b)
    BY <1>1, <1>2 DEF Moves, CountOperation, Kept, At
  <1> DEFINE v == IF enabled THEN metrics.operations + 1 ELSE metrics.operations
  <1>4. v \in Nat /\ metrics' = [metrics EXCEPT !.operations = v] /\ truth' = truth
    BY <1>0, MetricsFields DEF CountOperation
  <1> HIDE DEF b, v
  <1>5. SameBut(metrics', metrics, "operations") /\ metrics'.operations = v
    BY <1>0, <1>4, SetField
  <1> QED
    BY <1>3, <1>4, <1>5 DEF b, v

\* record(): the sample is counted
LEMMA CountSampleEffect ==
  ASSUME MetricsTypeOK, NEW r \in Recorders, CountSample(r)
  PROVE  /\ Moves(r, "sampling", "load_max")
         /\ truth' = Append(truth, rec[r].latency)
         /\ SameBut(metrics', metrics, "sample_count") /\ metrics'.sample_count = metrics.sample_count + 1
  <1>0. /\ metrics \in MetricsRecord /\ rec[r] \in RecorderState
        /\ "load_max" \in Stages
    BY StagesAre DEF MetricsTypeOK
  <1>1. /\ rec'[r] = [rec[r] EXCEPT !.at = "load_max", !.count = metrics.sample_count + 1]
        /\ rec' = [rec EXCEPT ![r] = rec'[r]]
    BY DEF CountSample, MetricsTypeOK
  <1>2. metrics.max \in Nat /\ metrics.min \in Nat /\ metrics.sample_count + 1 \in Nat
    BY <1>0, MetricsFields
  <1>3. Kept(rec'[r], rec[r]) /\ rec'[r].at = "load_max"
    BY <1>0, <1>1, <1>2, RecorderFields DEF Kept, RecorderState
  <1>4. Moves(r, "sampling", "load_max")
    BY <1>1, <1>3 DEF Moves, CountSample, Kept, At
  <1>5. metrics' = [metrics EXCEPT !.sample_count = metrics.sample_count + 1] /\ metrics.sample_count + 1 \in Nat
    BY <1>0, MetricsFields, RecorderFields DEF CountSample
  <1>6. SameBut(metrics', metrics, "sample_count") /\ metrics'.sample_count = metrics.sample_count + 1
    BY <1>0, <1>5, SetField
  <1> QED
    BY <1>3, <1>4, <1>6 DEF CountSample

\* The maximum is loaded
LEMMA LoadMaxEffect ==
  ASSUME MetricsTypeOK, NEW r \in Recorders, LoadMax(r)
  PROVE  /\ Moves(r, "load_max", "cas_max") /\ rec'[r].current = metrics.max
         /\ truth' = truth
         /\ metrics' = metrics
  <1>0. /\ metrics \in MetricsRecord /\ rec[r] \in RecorderState
        /\ "cas_max" \in Stages
    BY StagesAre DEF MetricsTypeOK
  <1>1. /\ rec'[r] = [rec[r] EXCEPT !.at = "cas_max", !.current = metrics.max]
        /\ rec' = [rec EXCEPT ![r] = rec'[r]]
    BY DEF LoadMax, MetricsTypeOK
  <1>2. metrics.max \in Nat /\ metrics.min \in Nat /\ metrics.sample_count + 1 \in Nat
    BY <1>0, MetricsFields
  <1>3. Kept(rec'[r], rec[r]) /\ rec'[r].at = "cas_max" /\ rec'[r].current = metrics.max
    BY <1>0, <1>1, <1>2, RecorderFields DEF Kept, RecorderState
  <1>4. Moves(r, "load_max", "cas_max")
    BY <1>1, <1>3 DEF Moves, LoadMax, Kept, At
  <1> QED
    BY <1>3, <1>4 DEF LoadMax

\* The maximum is compared and exchanged, or loaded again.
LEMMA CasMaxEffect ==
  ASSUME MetricsTypeOK, NEW r \in Recorders, CasMax(r)
  PROVE  /\ truth' = truth
         /\ \/ /\ Moves(r, "cas_max", "cas_max") /\ rec'[r].current = metrics.max
               /\ metrics' = metrics
            \/ /\ Moves(r, "cas_max", "load_min")
               /\ SameBut(metrics', metrics, "max")
               /\ \/ /\ rec[r].latency > rec[r].current /\ metrics.max = rec[r].current
                     /\ metrics'.max = rec[r].latency
                  \/ ~(rec[r].latency > rec[r].current) /\ metrics'.max = metrics.max
  <1>0. /\ metrics \in MetricsRecord /\ rec[r] \in RecorderState /\ metrics.max \in Nat
        /\ "load_min" \in Stages /\ rec[r].latency \in Nat
    BY StagesAre, MetricsFields, RecorderFields DEF MetricsTypeOK
  <1>1. CASE rec[r].latency > rec[r].current /\ metrics.max # rec[r].current
    <2>1. /\ rec'[r] = [rec[r] EXCEPT !.current = metrics.max] /\ rec' = [rec EXCEPT ![r] = rec'[r]]
          /\ metrics' = metrics /\ truth' = truth
      BY <1>1 DEF CasMax, MetricsTypeOK
    <2>2. Kept(rec'[r], rec[r]) /\ rec'[r].at = rec[r].at /\ rec'[r].current = metrics.max
      BY <1>0, <2>1, SetCurrent
    <2>3. Moves(r, "cas_max", "cas_max")
      BY <2>1, <2>2 DEF Moves, CasMax, Kept, At
    <2> QED
      BY <2>1, <2>2, <2>3
  <1>2. CASE ~(rec[r].latency > rec[r].current /\ metrics.max # rec[r].current)
    <2> DEFINE v == IF rec[r].latency > rec[r].current THEN rec[r].latency ELSE metrics.max
    <2>1. /\ rec'[r] = [rec[r] EXCEPT !.at = "load_min"] /\ rec' = [rec EXCEPT ![r] = rec'[r]]
          /\ truth' = truth
      BY <1>2 DEF CasMax, MetricsTypeOK
    <2>2. Kept(rec'[r], rec[r]) /\ rec'[r].at = "load_min"
      BY <1>0, <2>1, SetAt
    <2>3. Moves(r, "cas_max", "load_min")
      BY <2>1, <2>2 DEF Moves, CasMax, Kept, At
    <2>4. metrics' = [metrics EXCEPT !.max = v] /\ v \in Nat
      BY <1>0, <1>2 DEF CasMax
    <2> HIDE DEF v
    <2>5. SameBut(metrics', metrics, "max") /\ metrics'.max = v
      BY <1>0, <2>4, SetField
    <2> QED
      BY <1>2, <2>1, <2>3, <2>5 DEF v
  <1> QED
    BY <1>1, <1>2

\* The minimum is loaded
LEMMA LoadMinEffect ==
  ASSUME MetricsTypeOK, NEW r \in Recorders, LoadMin(r)
  PROVE  /\ Moves(r, "load_min", "cas_min") /\ rec'[r].current = metrics.min
         /\ truth' = truth
         /\ metrics' = metrics
  <1>0. /\ metrics \in MetricsRecord /\ rec[r] \in RecorderState
        /\ "cas_min" \in Stages
    BY StagesAre DEF MetricsTypeOK
  <1>1. /\ rec'[r] = [rec[r] EXCEPT !.at = "cas_min", !.current = metrics.min]
        /\ rec' = [rec EXCEPT ![r] = rec'[r]]
    BY DEF LoadMin, MetricsTypeOK
  <1>2. metrics.max \in Nat /\ metrics.min \in Nat /\ metrics.sample_count + 1 \in Nat
    BY <1>0, MetricsFields
  <1>3. Kept(rec'[r], rec[r]) /\ rec'[r].at = "cas_min" /\ rec'[r].current = metrics.min
    BY <1>0, <1>1, <1>2, RecorderFields DEF Kept, RecorderState
  <1>4. Moves(r, "load_min", "cas_min")
    BY <1>1, <1>3 DEF Moves, LoadMin, Kept, At
  <1> QED
    BY <1>3, <1>4 DEF LoadMin

\* The minimum is compared and exchanged, or loaded again.
LEMMA CasMinEffect ==
  ASSUME MetricsTypeOK, NEW r \in Recorders, CasMin(r)
  PROVE  /\ truth' = truth
         /\ \/ /\ Moves(r, "cas_min", "cas_min") /\ rec'[r].current = metrics.min
               /\ metrics' = metrics
            \/ /\ Moves(r, "cas_min", "summing")
               /\ SameBut(metrics', metrics, "min")
               /\ \/ /\ rec[r].latency < rec[r].current /\ metrics.min = rec[r].current
                     /\ metrics'.min = rec[r].latency
                  \/ ~(rec[r].latency < rec[r].current) /\ metrics'.min = metrics.min
  <1>0. /\ metrics \in MetricsRecord /\ rec[r] \in RecorderState /\ metrics.min \in Nat
        /\ "summing" \in Stages /\ rec[r].latency \in Nat
    BY StagesAre, MetricsFields, RecorderFields DEF MetricsTypeOK
  <1>1. CASE rec[r].latency < rec[r].current /\ metrics.min # rec[r].current
    <2>1. /\ rec'[r] = [rec[r] EXCEPT !.current = metrics.min] /\ rec' = [rec EXCEPT ![r] = rec'[r]]
          /\ metrics' = metrics /\ truth' = truth
      BY <1>1 DEF CasMin, MetricsTypeOK
    <2>2. Kept(rec'[r], rec[r]) /\ rec'[r].at = rec[r].at /\ rec'[r].current = metrics.min
      BY <1>0, <2>1, SetCurrent
    <2>3. Moves(r, "cas_min", "cas_min")
      BY <2>1, <2>2 DEF Moves, CasMin, Kept, At
    <2> QED
      BY <2>1, <2>2, <2>3
  <1>2. CASE ~(rec[r].latency < rec[r].current /\ metrics.min # rec[r].current)
    <2> DEFINE v == IF rec[r].latency < rec[r].current THEN rec[r].latency ELSE metrics.min
    <2>1. /\ rec'[r] = [rec[r] EXCEPT !.at = "summing"] /\ rec' = [rec EXCEPT ![r] = rec'[r]]
          /\ truth' = truth
      BY <1>2 DEF CasMin, MetricsTypeOK
    <2>2. Kept(rec'[r], rec[r]) /\ rec'[r].at = "summing"
      BY <1>0, <2>1, SetAt
    <2>3. Moves(r, "cas_min", "summing")
      BY <2>1, <2>2 DEF Moves, CasMin, Kept, At
    <2>4. metrics' = [metrics EXCEPT !.min = v] /\ v \in Nat
      BY <1>0, <1>2 DEF CasMin
    <2> HIDE DEF v
    <2>5. SameBut(metrics', metrics, "min") /\ metrics'.min = v
      BY <1>0, <2>4, SetField
    <2> QED
      BY <1>2, <2>1, <2>3, <2>5 DEF v
  <1> QED
    BY <1>1, <1>2

\* sum_ns.fetch_add
LEMMA AddSumEffect ==
  ASSUME MetricsTypeOK, NEW r \in Recorders, AddSum(r)
  PROVE  /\ Moves(r, "summing", "load_count") /\ rec'[r].todo = rec[r].todo
         /\ truth' = truth
         /\ SameBut(metrics', metrics, "sum") /\ metrics'.sum = metrics.sum + rec[r].latency
  <1>0. /\ metrics \in MetricsRecord /\ rec[r] \in RecorderState
        /\ "load_count" \in Stages
    BY StagesAre DEF MetricsTypeOK
  <1>1. /\ rec'[r] = [rec[r] EXCEPT !.at = "load_count"]
        /\ rec' = [rec EXCEPT ![r] = rec'[r]]
    BY DEF AddSum, MetricsTypeOK
  <1>2. metrics.max \in Nat /\ metrics.min \in Nat /\ metrics.sample_count + 1 \in Nat
    BY <1>0, MetricsFields
  <1>3. Kept(rec'[r], rec[r]) /\ rec'[r].at = "load_count" /\ rec'[r].todo = rec[r].todo
    BY <1>0, <1>1, <1>2, SetAt
  <1>4. Moves(r, "summing", "load_count")
    BY <1>1, <1>3 DEF Moves, AddSum, Kept, At
  <1>5. metrics' = [metrics EXCEPT !.sum = metrics.sum + rec[r].latency] /\ metrics.sum + rec[r].latency \in Nat
    BY <1>0, MetricsFields, RecorderFields DEF AddSum
  <1>6. SameBut(metrics', metrics, "sum") /\ metrics'.sum = metrics.sum + rec[r].latency
    BY <1>0, <1>5, SetField
  <1> QED
    BY <1>3, <1>4, <1>6 DEF AddSum

\* idx = reservoir_count.load()
LEMMA LoadCountEffect ==
  ASSUME MetricsTypeOK, NEW r \in Recorders, LoadCount(r)
  PROVE  /\ Moves(r, "load_count", "reservoir") /\ truth' = truth /\ metrics' = metrics
         /\ rec'[r].idx = metrics.reservoir_count
         /\ rec'[r].todo = (IF RoomLeft(metrics.reservoir_count) THEN {"slot", "count"} ELSE {})
  <1>0. /\ metrics.reservoir_count \in Nat /\ rec[r] \in RecorderState
        /\ "reservoir" \in Stages
    BY StagesAre, MetricsFields DEF MetricsTypeOK
  <1> DEFINE T == IF RoomLeft(metrics.reservoir_count) THEN {"slot", "count"} ELSE {}
  <1>1. /\ rec'[r] = [rec[r] EXCEPT !.at = "reservoir", !.idx = metrics.reservoir_count, !.todo = T]
        /\ rec' = [rec EXCEPT ![r] = rec'[r]]
    BY DEF LoadCount, MetricsTypeOK
  <1>2. T \in SUBSET {"slot", "count"}
    OBVIOUS
  <1>3. /\ Kept(rec'[r], rec[r]) /\ rec'[r].at = "reservoir" /\ rec'[r].todo = T
        /\ rec'[r].idx = metrics.reservoir_count
    <2> HIDE DEF T
    <2> QED
      BY <1>0, <1>1, <1>2, RecorderFields DEF Kept, RecorderState
  <1>4. Moves(r, "load_count", "reservoir")
    BY <1>1, <1>3 DEF Moves, LoadCount, Kept, At
  <1> QED
    BY <1>3, <1>4 DEF LoadCount

\* The array of samples is no counter.
LEMMA SetReservoir ==
  ASSUME NEW m \in MetricsRecord, NEW v \in [Slots -> Nat]
  PROVE  SameBut([m EXCEPT !.reservoir = v], m, "reservoir") /\ [m EXCEPT !.reservoir = v].reservoir = v
  BY MetricsFields DEF SameBut, MetricsRecord

\* reservoir[idx].store
LEMMA FillSlotEffect ==
  ASSUME MetricsTypeOK, NEW r \in Recorders, FillSlot(r)
  PROVE  /\ \/ Moves(r, "reservoir", "reservoir")
            \/ Moves(r, "reservoir", "total")
         /\ "slot" \in rec[r].todo /\ rec'[r].todo = rec[r].todo \ {"slot"} /\ rec'[r].idx = rec[r].idx
         /\ rec'[r].at = (IF rec[r].todo = {"slot"} THEN "total" ELSE "reservoir")
         /\ truth' = truth
         /\ SameBut(metrics', metrics, "reservoir")
         /\ metrics'.reservoir = [i \in Slots |-> IF i = rec[r].idx + 1 THEN rec[r].latency ELSE metrics.reservoir[i]]
  <1>0. /\ metrics \in MetricsRecord /\ rec[r] \in RecorderState /\ rec[r].at = "reservoir"
        /\ "total" \in Stages /\ "reservoir" \in Stages
    BY StagesAre DEF MetricsTypeOK, FillSlot, Filling, At
  <1> DEFINE b == IF rec[r].todo = {"slot"} THEN "total" ELSE "reservoir"
             T == rec[r].todo \ {"slot"}
  <1>1. /\ rec'[r] = [rec[r] EXCEPT !.todo = T, !.at = b]
        /\ rec' = [rec EXCEPT ![r] = rec'[r]]
    BY <1>0 DEF FillSlot, MetricsTypeOK
  <1>2. b \in Stages /\ T \in SUBSET {"slot", "count"} /\ b \in {"total", "reservoir"}
    BY <1>0, RecorderFields
  <1>3. Kept(rec'[r], rec[r]) /\ rec'[r].at = b /\ rec'[r].todo = T /\ rec'[r].idx = rec[r].idx
    <2> HIDE DEF b, T
    <2> QED
      BY <1>0, <1>1, <1>2, RecorderFields DEF Kept, RecorderState
  <1>4. Moves(r, "reservoir", b)
    BY <1>0, <1>1, <1>3 DEF Moves, FillSlot, Kept
  <1> DEFINE v == [i \in Slots |-> IF i = rec[r].idx + 1 THEN rec[r].latency ELSE metrics.reservoir[i]]
  <1>5. SameBut(metrics', metrics, "reservoir") /\ metrics'.reservoir = v
    <2>1. v \in [Slots -> Nat] /\ metrics' = [metrics EXCEPT !.reservoir = v]
      BY <1>0, MetricsFields, RecorderFields DEF FillSlot
    <2> HIDE DEF v
    <2> QED
      BY <1>0, <2>1, SetReservoir
  <1> QED
    BY <1>2, <1>3, <1>4, <1>5 DEF FillSlot

\* reservoir_count.fetch_add(1)
LEMMA FillCountEffect ==
  ASSUME MetricsTypeOK, NEW r \in Recorders, FillCount(r)
  PROVE  /\ \/ Moves(r, "reservoir", "reservoir")
            \/ Moves(r, "reservoir", "total")
         /\ "count" \in rec[r].todo /\ rec'[r].todo = rec[r].todo \ {"count"} /\ rec'[r].idx = rec[r].idx
         /\ rec'[r].at = (IF rec[r].todo = {"count"} THEN "total" ELSE "reservoir")
         /\ truth' = truth
         /\ SameBut(metrics', metrics, "reservoir_count")
         /\ metrics'.reservoir_count = metrics.reservoir_count + 1
  <1>0. /\ metrics \in MetricsRecord /\ rec[r] \in RecorderState /\ rec[r].at = "reservoir"
        /\ "total" \in Stages /\ "reservoir" \in Stages
    BY StagesAre DEF MetricsTypeOK, FillCount, Filling, At
  <1> DEFINE b == IF rec[r].todo = {"count"} THEN "total" ELSE "reservoir"
             T == rec[r].todo \ {"count"}
  <1>1. /\ rec'[r] = [rec[r] EXCEPT !.todo = T, !.at = b]
        /\ rec' = [rec EXCEPT ![r] = rec'[r]]
    BY <1>0 DEF FillCount, MetricsTypeOK
  <1>2. b \in Stages /\ T \in SUBSET {"slot", "count"} /\ b \in {"total", "reservoir"}
    BY <1>0, RecorderFields
  <1>3. Kept(rec'[r], rec[r]) /\ rec'[r].at = b /\ rec'[r].todo = T /\ rec'[r].idx = rec[r].idx
    <2> HIDE DEF b, T
    <2> QED
      BY <1>0, <1>1, <1>2, RecorderFields DEF Kept, RecorderState
  <1>4. Moves(r, "reservoir", b)
    BY <1>0, <1>1, <1>3 DEF Moves, FillCount, Kept
  <1>5. /\ SameBut(metrics', metrics, "reservoir_count")
        /\ metrics'.reservoir_count = metrics.reservoir_count + 1
    <2>1. /\ metrics' = [metrics EXCEPT !.reservoir_count = metrics.reservoir_count + 1]
          /\ metrics.reservoir_count + 1 \in Nat
      BY <1>0, MetricsFields DEF FillCount
    <2> QED
      BY <1>0, <2>1, SetField
  <1> QED
    BY <1>2, <1>3, <1>4, <1>5 DEF FillCount

\* The reservoir is full: a sample is replaced, or not.
LEMMA ReplaceEffect ==
  ASSUME MetricsTypeOK, NEW r \in Recorders, Replace(r)
  PROVE  /\ Moves(r, "reservoir", "total") /\ truth' = truth
         /\ SameBut(metrics', metrics, "reservoir")
         /\ \A i \in Slots : metrics'.reservoir[i] \in {metrics.reservoir[i], rec[r].latency}
  <1>0. /\ metrics \in MetricsRecord /\ rec[r] \in RecorderState
        /\ "total" \in Stages
    BY StagesAre DEF MetricsTypeOK
  <1>1. rec'[r] = [rec[r] EXCEPT !.at = "total"] /\ rec' = [rec EXCEPT ![r] = rec'[r]]
    BY DEF Replace, MetricsTypeOK
  <1>2. Kept(rec'[r], rec[r]) /\ rec'[r].at = "total"
    BY <1>0, <1>1, SetAt
  <1>3. Moves(r, "reservoir", "total")
    BY <1>1, <1>2 DEF Moves, Replace, Kept, At
  <1>4. /\ SameBut(metrics', metrics, "reservoir")
        /\ \A i \in Slots : metrics'.reservoir[i] \in {metrics.reservoir[i], rec[r].latency}
    <2> DEFINE w == [metrics.reservoir EXCEPT ![HashLow(rec[r].count) + 1] = rec[r].latency]
               v == IF HashHigh(rec[r].count) % rec[r].count < ReservoirSize THEN w ELSE metrics.reservoir
    <2>1. metrics.reservoir \in [Slots -> Nat] /\ rec[r].latency \in Nat
      BY <1>0, MetricsFields, RecorderFields
    <2>2. w \in [Slots -> Nat] /\ \A i \in Slots : w[i] \in {metrics.reservoir[i], rec[r].latency}
      BY <2>1
    <2>3. metrics' = [metrics EXCEPT !.reservoir = v]
      BY DEF Replace
    <2> HIDE DEF w
    <2>4. v \in [Slots -> Nat] /\ \A i \in Slots : v[i] \in {metrics.reservoir[i], rec[r].latency}
      BY <2>1, <2>2
    <2> HIDE DEF v
    <2> QED
      BY <1>0, <2>3, <2>4, SetReservoir
  <1> QED
    BY <1>3, <1>4 DEF Replace

\* timing_total_->fetch_add
LEMMA AddTotalEffect ==
  ASSUME MetricsTypeOK, NEW r \in Recorders, AddTotal(r)
  PROVE  /\ Moves(r, "total", "idle") /\ truth' = truth
         /\ SameBut(metrics', metrics, "total") /\ metrics'.total = metrics.total + rec[r].latency
  <1>0. metrics \in MetricsRecord /\ rec[r] \in RecorderState /\ NoRecord \in RecorderState
    BY StagesAre DEF MetricsTypeOK, NoRecord, RecorderState
  <1>1. rec'[r] = NoRecord /\ rec' = [rec EXCEPT ![r] = rec'[r]]
    BY DEF AddTotal, MetricsTypeOK
  <1>2. rec'[r].at = "idle"
    BY <1>1 DEF NoRecord
  <1>3. Moves(r, "total", "idle")
    BY <1>0, <1>1, <1>2 DEF Moves, AddTotal, At
  <1>4. metrics' = [metrics EXCEPT !.total = metrics.total + rec[r].latency] /\ metrics.total + rec[r].latency \in Nat
    BY <1>0, MetricsFields, RecorderFields DEF AddTotal
  <1> QED
    BY <1>0, <1>3, <1>4, SetField DEF AddTotal

-----------------------------------------------------------------------------
(* What a move preserves *)

\* Only the recorder that moves enters or leaves a part of record().
LEMMA InMove ==
  ASSUME MetricsTypeOK, NEW r \in Recorders, NEW a, NEW b, Moves(r, a, b), NEW P
  PROVE  /\ \A s \in Recorders \ {r} : rec'[s] = rec[s]
         /\ (a \in P <=> b \in P) => In(P)' = In(P)
         /\ a \notin P /\ b \in P => In(P)' = In(P) \union {r} /\ r \notin In(P)
         /\ a \in P /\ b \notin P => In(P)' = In(P) \ {r} /\ r \in In(P)
  <1>1. /\ \A s \in Recorders \ {r} : rec'[s] = rec[s]
        /\ rec[r].at = a /\ rec'[r].at = b
    BY DEF Moves, MetricsTypeOK
  <1> QED
    BY <1>1 DEF In

LEMMA TypeMove ==
  ASSUME MetricsTypeOK, NEW r \in Recorders, NEW a, NEW b, Moves(r, a, b), a # "idle",
         metrics' \in MetricsRecord, truth' \in Seq(Latencies)
  PROVE  MetricsTypeOK'
  <1>1. rec' \in [Recorders -> RecorderState] /\ resetter' = resetter /\ enabled' = enabled
    BY DEF Moves, MetricsTypeOK
  <1>2. ASSUME NEW s \in Recorders, rec'[s].at # "idle" PROVE rec'[s].latency \in Latencies
    <2>1. CASE s = r
      BY <1>2, <2>1 DEF Moves, MetricsTypeOK
    <2>2. CASE s # r
      BY <1>2, <2>2, InMove DEF MetricsTypeOK
    <2> QED
      BY <2>1, <2>2
  <1> QED
    BY <1>1, <1>2 DEF MetricsTypeOK

\* The carried latencies change by the one of the recorder that enters or leaves.
LEMMA PendingMove ==
  ASSUME MetricsTypeOK, NEW r \in Recorders, NEW a, NEW b, Moves(r, a, b),
         NEW P, "idle" \notin P, IsFiniteSet(Units(Pending(P)))
  PROVE  /\ IsFiniteSet(Units(Pending(P)')) /\ Total(Pending(P)) \in Nat /\ Total(Pending(P)') \in Nat
         /\ (a \in P <=> b \in P) => Pending(P)' = Pending(P)
         /\ a \notin P /\ b \in P => Total(Pending(P)') = Total(Pending(P)) + rec[r].latency
         /\ a \in P /\ b \notin P => Total(Pending(P)) = Total(Pending(P)') + rec[r].latency
  <1>1. /\ rec[r].at = a /\ rec'[r].at = b /\ rec[r].latency \in Nat
        /\ b # "idle" => rec'[r].latency = rec[r].latency
    BY RecorderFields DEF Moves, MetricsTypeOK
  <1>2. \A s \in Recorders \ {r} : rec'[s] = rec[s]
    BY InMove
  <1>3. Total(Pending(P)) \in Nat
    BY FS_CardinalityType DEF Total
  <1> DEFINE f == Pending(P)
             g == Pending(P)'
  <1>4. CASE a \in P <=> b \in P
    <2>1. In(P)' = In(P)
      BY <1>4, InMove
    <2>2. \A s \in In(P) : rec'[s].latency = rec[s].latency
      BY <1>1, <1>2, <1>4 DEF In
    <2>3. g = f
      BY <2>1, <2>2 DEF Pending
    <2> HIDE DEF f, g
    <2> QED
      BY <1>3, <1>4, <2>3 DEF f, g
  <1>5. CASE a \notin P /\ b \in P
    <2>1. In(P)' = In(P) \union {r} /\ r \notin In(P)
      BY <1>5, InMove
    <2>2. /\ r \notin DOMAIN f /\ DOMAIN g = DOMAIN f \union {r}
          /\ \A s \in DOMAIN f : g[s] = f[s]
          /\ g[r] = rec[r].latency
      BY <1>1, <1>2, <1>5, <2>1 DEF Pending, In
    <2> HIDE DEF f, g
    <2>3. /\ IsFiniteSet(Units(f)) <=> IsFiniteSet(Units(g))
          /\ IsFiniteSet(Units(f)) => Total(f) \in Nat /\ Total(g) = Total(f) + g[r]
      BY <1>1, <2>2, UnitsAdd
    <2> QED
      BY <1>1, <1>3, <1>5, <2>2, <2>3 DEF f, g
  <1>6. CASE a \in P /\ b \notin P
    <2>1. In(P)' = In(P) \ {r} /\ r \in In(P)
      BY <1>6, InMove
    <2>2. /\ r \notin DOMAIN g /\ DOMAIN f = DOMAIN g \union {r}
          /\ \A s \in DOMAIN g : f[s] = g[s]
          /\ f[r] = rec[r].latency
      BY <1>1, <1>2, <1>6, <2>1 DEF Pending, In
    <2> HIDE DEF f, g
    <2>3. /\ IsFiniteSet(Units(g)) <=> IsFiniteSet(Units(f))
          /\ IsFiniteSet(Units(g)) => Total(g) \in Nat /\ Total(f) = Total(g) + f[r]
      BY <1>1, <2>2, UnitsAdd
    <2> QED
      BY <1>1, <1>3, <1>6, <2>2, <2>3 DEF f, g
  <1> QED
    BY <1>4, <1>5, <1>6

\* Nobody new sees room, and the count does not grow.
LEMMA RoomSame ==
  ASSUME RoomInv, metrics \in MetricsRecord, metrics' \in MetricsRecord, Adding' \subseteq Adding,
         metrics'.reservoir_count <= metrics.reservoir_count
  PROVE  RoomInv'
  <1>1. IsFiniteSet(Adding) /\ IsFiniteSet(Recorders)
    BY MetricsAssumption, FS_Subset DEF Adding
  <1>2. /\ Cardinality(Adding') <= Cardinality(Adding) /\ Cardinality(Adding) \in Nat
        /\ Cardinality(Adding') \in Nat /\ Cardinality(Recorders) \in Nat
    BY <1>1, FS_Subset, FS_CardinalityType
  <1>3. metrics.reservoir_count \in Nat /\ metrics'.reservoir_count \in Nat /\ ReservoirSize \in Nat
    BY MetricsFields, MetricsAssumption
  <1> QED
    BY <1>2, <1>3 DEF RoomInv

LEMMA RoomMove ==
  ASSUME MetricsTypeOK, RoomInv, NEW r \in Recorders, NEW a, NEW b, Moves(r, a, b),
         b = "reservoir" => r \in Adding \/ "count" \notin rec'[r].todo,
         NEW f, f # "reservoir_count", SameBut(metrics', metrics, f)
  PROVE  RoomInv'
  <1>1. Adding' \subseteq Adding
    <2>1. \A s \in Recorders \ {r} : rec'[s] = rec[s]
      BY InMove
    <2>2. rec'[r].at = b
      BY DEF Moves
    <2> QED
      BY <2>1, <2>2 DEF Adding
  <1>2. /\ metrics \in MetricsRecord /\ metrics' \in MetricsRecord
        /\ metrics'.reservoir_count = metrics.reservoir_count
    BY DEF SameBut, MetricsTypeOK
  <1> QED
    BY <1>1, <1>2, RoomSame, MetricsFields

LEMMA SampledLatencies ==
  ASSUME MetricsTypeOK
  PROVE  Sampled \subseteq Latencies /\ Sampled \subseteq Nat
  <1>1. truth \in Seq(Latencies) /\ Latencies \subseteq Nat
    BY MetricsAssumption DEF MetricsTypeOK
  <1>2. \A i \in DOMAIN truth : truth[i] \in Latencies
    BY <1>1
  <1> QED
    BY <1>1, <1>2 DEF Sampled

LEMMA NothingSet ==
  ASSUME metrics \in MetricsRecord, metrics' = metrics, NEW f
  PROVE  SameBut(metrics', metrics, f)
  BY DEF SameBut

LEMMA CountsMove ==
  ASSUME MetricsTypeOK, CountsInv, NEW r \in Recorders, NEW a, NEW b, Moves(r, a, b),
         a # "sampling", b # "sampling", b # "counting", truth' = truth,
         NEW f, f # "operations", f # "sample_count", SameBut(metrics', metrics, f)
  PROVE  CountsInv'
  <1>1. In({"sampling"})' = In({"sampling"}) /\ \A s \in Recorders \ {r} : rec'[s] = rec[s]
    BY InMove
  <1>2. metrics'.operations = metrics.operations /\ metrics'.sample_count = metrics.sample_count
    BY DEF SameBut
  <1>3. enabled' = enabled /\ rec'[r].at = b
    BY DEF Moves
  <1>4. \A s \in Recorders : At(s, "counting")' => rec'[s].timed = enabled'
    BY <1>1, <1>3 DEF CountsInv, At
  <1> QED
    BY <1>1, <1>2, <1>4 DEF CountsInv

LEMMA SumsMove ==
  ASSUME MetricsTypeOK, SumsInv, NEW r \in Recorders, NEW a, NEW b, Moves(r, a, b),
         a \in BeforeSum <=> b \in BeforeSum, a \in BeforeTotal <=> b \in BeforeTotal, truth' = truth,
         NEW f, f # "sum", f # "total", SameBut(metrics', metrics, f)
  PROVE  SumsInv'
  <1>1. "idle" \notin BeforeSum /\ "idle" \notin BeforeTotal
    BY DEF BeforeSum, BeforeTotal, BeforeMin, BeforeMax
  <1>2. Pending(BeforeSum)' = Pending(BeforeSum)
    BY <1>1, PendingMove DEF SumsInv
  <1>3. Pending(BeforeTotal)' = Pending(BeforeTotal)
    BY <1>1, PendingMove DEF SumsInv
  <1>4. metrics'.sum = metrics.sum /\ metrics'.total = metrics.total
    BY DEF SameBut
  <1> QED
    BY <1>2, <1>3, <1>4 DEF SumsInv

LEMMA ExtremesMove ==
  ASSUME MetricsTypeOK, ExtremesInv, NEW r \in Recorders, NEW a, NEW b, Moves(r, a, b),
         a \in BeforeMax <=> b \in BeforeMax, a \in BeforeMin <=> b \in BeforeMin,
         b \in BeforeTotal => a \in BeforeTotal, truth' = truth,
         b = "cas_max" => rec'[r].current = metrics.max,
         b = "cas_min" => rec'[r].current = metrics.min,
         NEW f, f # "max", f # "min", SameBut(metrics', metrics, f)
  PROVE  ExtremesInv'
  <1>1. metrics'.max = metrics.max /\ metrics'.min = metrics.min /\ Sampled' = Sampled
        /\ metrics.max \in Nat /\ metrics.min \in Nat
    BY MetricsFields DEF SameBut, Sampled, MetricsTypeOK
  <1>2. In(BeforeMax)' = In(BeforeMax) /\ In(BeforeMin)' = In(BeforeMin)
    BY InMove
  <1>3. /\ \A s \in Recorders \ {r} : rec'[s] = rec[s]
        /\ rec[r].at = a /\ rec'[r].at = b /\ (b # "idle" => rec'[r].latency = rec[r].latency)
    BY InMove DEF Moves
  <1>4. "idle" \notin BeforeMax /\ "idle" \notin BeforeMin /\ "idle" \notin BeforeTotal
    BY DEF BeforeSum, BeforeTotal, BeforeMin, BeforeMax
  <1>5. \A s \in In(BeforeMax) \union In(BeforeMin) : rec'[s].latency = rec[s].latency
    BY <1>3, <1>4 DEF In
  <1>6. \A s \in Recorders : rec'[s].at \in BeforeTotal => rec'[s].latency \in Sampled'
    BY <1>1, <1>3, <1>4 DEF ExtremesInv
  <1>7. \A s \in Recorders : At(s, "cas_max")' => rec'[s].current <= metrics'.max
    BY <1>1, <1>3 DEF ExtremesInv, At
  <1>8. \A s \in Recorders : At(s, "cas_min")' => rec'[s].current >= metrics'.min
    BY <1>1, <1>3 DEF ExtremesInv, At
  <1>9. \A x \in Sampled' : x <= metrics'.max \/ \E s \in In(BeforeMax)' : rec'[s].latency = x
    BY <1>1, <1>2, <1>5 DEF ExtremesInv
  <1>10. \A x \in Sampled' : x >= metrics'.min \/ \E s \in In(BeforeMin)' : rec'[s].latency = x
    BY <1>1, <1>2, <1>5 DEF ExtremesInv
  <1> QED
    BY <1>1, <1>6, <1>7, <1>8, <1>9, <1>10 DEF ExtremesInv

\* A recorder that moves finds no reset under way, and starts none.
LEMMA QuietMove ==
  ASSUME MetricsInv, ~blurred, NEW r \in Recorders, NEW a, NEW b, Moves(r, a, b), a # "idle"
  PROVE  /\ MetricsTypeOK /\ RoomInv /\ CountsInv /\ SumsInv /\ ExtremesInv
         /\ MetricsTypeOK' /\ RoomInv' /\ CountsInv' /\ SumsInv' /\ ExtremesInv' => MetricsInv'
  <1>1. resetter = <<>>
    BY DEF MetricsInv, ClearingInv, Busy, At, Moves
  <1>2. resetter' = <<>>
    BY <1>1 DEF Moves
  <1> QED
    BY <1>1, <1>2 DEF MetricsInv

-----------------------------------------------------------------------------
(* The steps of a recorder keep the invariant *)

\* The operation is counted exactly when the sample will be: nobody switched meanwhile.
LEMMA CountOperationKeeps ==
  ASSUME MetricsInv, ~blurred, NEW r \in Recorders, CountOperation(r)
  PROVE  MetricsInv'
  <1>0. MetricsTypeOK
    BY DEF MetricsInv
  <1> DEFINE b == IF rec[r].timed THEN "sampling" ELSE "idle"
  <1>1. /\ Moves(r, "counting", b) /\ truth' = truth
        /\ SameBut(metrics', metrics, "operations")
        /\ metrics'.operations = (IF enabled THEN metrics.operations + 1 ELSE metrics.operations)
    BY <1>0, CountOperationEffect
  <1>2. b \in {"sampling", "idle"} /\ (b = "sampling" <=> rec[r].timed)
    OBVIOUS
  <1> HIDE DEF b
  <1>3. RoomInv /\ CountsInv /\ SumsInv /\ ExtremesInv
    BY <1>1, QuietMove
  <1>4. MetricsTypeOK'
    BY <1>0, <1>1, TypeMove DEF MetricsTypeOK, SameBut
  <1>5. RoomInv'
    BY <1>0, <1>1, <1>2, <1>3, RoomMove
  <1>6. SumsInv'
    BY <1>0, <1>1, <1>2, <1>3, SumsMove DEF BeforeTotal, BeforeSum, BeforeMin, BeforeMax
  <1>7. ExtremesInv'
    BY <1>0, <1>1, <1>2, <1>3, ExtremesMove DEF BeforeTotal, BeforeSum, BeforeMin, BeforeMax
  <1>8. CountsInv'
    <2>1. /\ rec[r].at = "counting" /\ rec'[r].at = b /\ enabled' = enabled
          /\ \A s \in Recorders \ {r} : rec'[s] = rec[s]
      BY <1>0, <1>1, InMove DEF Moves
    <2>2. \A s \in Recorders : At(s, "counting")' => rec'[s].timed = enabled'
      BY <1>2, <1>3, <2>1 DEF CountsInv, At
    <2>3. rec[r].timed = enabled
      BY <1>3, <2>1 DEF CountsInv, At
    <2>4. IsFiniteSet(In({"sampling"})) /\ Cardinality(In({"sampling"})) \in Nat
      BY MetricsAssumption, FS_Subset, FS_CardinalityType DEF In
    <2>5. /\ metrics'.sample_count = metrics.sample_count /\ metrics.operations \in Nat
          /\ Len(truth) \in Nat /\ Len(truth') = Len(truth)
      BY <1>0, <1>1, MetricsFields DEF SameBut, MetricsTypeOK
    <2>6. CASE b = "sampling"
      <3>1. In({"sampling"})' = In({"sampling"}) \union {r} /\ r \notin In({"sampling"})
        BY <1>0, <1>1, <2>6, InMove
      <3>2. Cardinality(In({"sampling"})') = Cardinality(In({"sampling"})) + 1
        BY <2>4, <3>1, FS_AddElement
      <3>3. metrics'.operations = metrics.operations + 1
        BY <1>1, <1>2, <2>3, <2>6
      <3> QED
        BY <1>3, <2>2, <2>4, <2>5, <3>2, <3>3 DEF CountsInv
    <2>7. CASE b = "idle"
      <3>1. In({"sampling"})' = In({"sampling"})
        BY <1>0, <1>1, <2>7, InMove
      <3>3. metrics'.operations = metrics.operations
        BY <1>1, <1>2, <2>3, <2>7
      <3> QED
        BY <1>3, <2>2, <2>5, <3>1, <3>3 DEF CountsInv
    <2> QED
      BY <1>2, <2>6, <2>7
  <1> QED
    BY <1>1, <1>4, <1>5, <1>6, <1>7, <1>8, QuietMove

\* The sample enters the history, and its recorder carries it to the extremes and the sums.
LEMMA CountSampleKeeps ==
  ASSUME MetricsInv, ~blurred, NEW r \in Recorders, CountSample(r)
  PROVE  MetricsInv'
  <1>0. MetricsTypeOK
    BY DEF MetricsInv
  <1> DEFINE l == rec[r].latency
  <1>1. /\ Moves(r, "sampling", "load_max") /\ truth' = Append(truth, l)
        /\ SameBut(metrics', metrics, "sample_count")
        /\ metrics'.sample_count = metrics.sample_count + 1
    BY <1>0, CountSampleEffect
  <1>2. RoomInv /\ CountsInv /\ SumsInv /\ ExtremesInv
    BY <1>1, QuietMove
  <1>3. l \in Latencies /\ truth \in Seq(Latencies) /\ l \in Nat /\ Latencies \subseteq Nat
    BY <1>0, <1>1, RecorderFields, MetricsAssumption DEF MetricsTypeOK, Moves
  <1>4. MetricsTypeOK'
    BY <1>0, <1>1, <1>3, TypeMove DEF SameBut
  <1>5. RoomInv'
    BY <1>0, <1>1, <1>2, RoomMove
  <1>6. /\ rec[r].at = "sampling" /\ rec'[r].at = "load_max" /\ rec'[r].latency = l /\ enabled' = enabled
        /\ \A s \in Recorders \ {r} : rec'[s] = rec[s]
    BY <1>0, <1>1, InMove DEF Moves
  <1>7. CountsInv'
    <2>1. \A s \in Recorders : At(s, "counting")' => rec'[s].timed = enabled'
      BY <1>2, <1>6 DEF CountsInv, At
    <2>2. IsFiniteSet(In({"sampling"})) /\ Cardinality(In({"sampling"})) \in Nat
      BY MetricsAssumption, FS_Subset, FS_CardinalityType DEF In
    <2>3. In({"sampling"})' = In({"sampling"}) \ {r} /\ r \in In({"sampling"})
      BY <1>0, <1>1, InMove
    <2>4. Cardinality(In({"sampling"})') = Cardinality(In({"sampling"})) - 1
      BY <2>2, <2>3, FS_RemoveElement
    <2>5. Len(truth) \in Nat /\ Len(truth') = Len(truth) + 1
      BY <1>1, <1>3
    <2>6. metrics'.operations = metrics.operations
      BY <1>1 DEF SameBut
    <2> QED
      BY <1>1, <1>2, <2>1, <2>2, <2>4, <2>5, <2>6 DEF CountsInv
  <1>8. SumsInv'
    <2>1. "idle" \notin BeforeSum /\ "sampling" \notin BeforeSum /\ "load_max" \in BeforeSum
      BY DEF BeforeSum, BeforeMin, BeforeMax
    <2>2. "idle" \notin BeforeTotal /\ "sampling" \notin BeforeTotal /\ "load_max" \in BeforeTotal
      BY DEF BeforeTotal, BeforeSum, BeforeMin, BeforeMax
    <2>3. /\ IsFiniteSet(Units(Pending(BeforeSum)'))
          /\ Total(Pending(BeforeSum)') = Total(Pending(BeforeSum)) + l
          /\ Total(Pending(BeforeSum)) \in Nat
      BY <1>0, <1>1, <1>2, <2>1, PendingMove DEF SumsInv
    <2>4. /\ IsFiniteSet(Units(Pending(BeforeTotal)'))
          /\ Total(Pending(BeforeTotal)') = Total(Pending(BeforeTotal)) + l
          /\ Total(Pending(BeforeTotal)) \in Nat
      BY <1>0, <1>1, <1>2, <2>2, PendingMove DEF SumsInv
    <2>5. /\ IsFiniteSet(Units(truth')) /\ Total(truth) \in Nat
          /\ Total(truth') = Total(truth) + l
      <3> DEFINE k == Len(truth) + 1
      <3>1. /\ k \notin DOMAIN truth /\ DOMAIN truth' = DOMAIN truth \union {k}
            /\ \A j \in DOMAIN truth : truth'[j] = truth[j]
            /\ truth'[k] = l
        BY <1>1, <1>3
      <3> HIDE DEF k, l
      <3> QED
        BY <1>2, <1>3, <3>1, UnitsAdd DEF SumsInv
    <2>6. /\ metrics'.sum = metrics.sum /\ metrics'.total = metrics.total
          /\ metrics.sum \in Nat /\ metrics.total \in Nat
      BY <1>0, <1>1, MetricsFields DEF SameBut, MetricsTypeOK
    <2>7. /\ metrics.sum + Total(Pending(BeforeSum)) = Total(truth)
          /\ metrics.total + Total(Pending(BeforeTotal)) = Total(truth)
      BY <1>2 DEF SumsInv
    <2> HIDE DEF l
    <2>8. /\ metrics'.sum + Total(Pending(BeforeSum)') = Total(truth')
          /\ metrics'.total + Total(Pending(BeforeTotal)') = Total(truth')
      BY <1>3, <2>3, <2>4, <2>5, <2>6, <2>7
    <2> QED
      BY <2>3, <2>4, <2>5, <2>8 DEF SumsInv
  <1>9. ExtremesInv'
    <2>1. Sampled' = Sampled \union {l}
      BY <1>1, <1>3 DEF Sampled
    <2>2. metrics'.max = metrics.max /\ metrics'.min = metrics.min
      BY <1>1 DEF SameBut
    <2>3. In(BeforeMax)' = In(BeforeMax) \union {r} /\ In(BeforeMin)' = In(BeforeMin) \union {r}
          /\ r \notin In(BeforeMax) /\ r \notin In(BeforeMin)
      BY <1>0, <1>1, InMove DEF BeforeMin, BeforeMax
    <2>4. \A s \in Recorders : rec'[s].at \in BeforeTotal => rec'[s].latency \in Sampled'
      BY <1>2, <1>6, <2>1 DEF ExtremesInv
    <2>5. \A s \in Recorders : At(s, "cas_max")' => rec'[s].current <= metrics'.max
      BY <1>2, <1>6, <2>2 DEF ExtremesInv, At
    <2>6. \A s \in Recorders : At(s, "cas_min")' => rec'[s].current >= metrics'.min
      BY <1>2, <1>6, <2>2 DEF ExtremesInv, At
    <2>7. \A s \in In(BeforeMax) \union In(BeforeMin) : rec'[s].latency = rec[s].latency
      BY <1>6, <2>3 DEF In
    <2>8. \A x \in Sampled' : x <= metrics'.max \/ \E s \in In(BeforeMax)' : rec'[s].latency = x
      BY <1>2, <1>6, <2>1, <2>2, <2>3, <2>7 DEF ExtremesInv
    <2>9. \A x \in Sampled' : x >= metrics'.min \/ \E s \in In(BeforeMin)' : rec'[s].latency = x
      BY <1>2, <1>6, <2>1, <2>2, <2>3, <2>7 DEF ExtremesInv
    <2>10. metrics'.max \in Sampled' \union {0} /\ metrics'.min \in Sampled' \union {UINT64_MAX}
      BY <1>2, <2>1, <2>2 DEF ExtremesInv
    <2> QED
      BY <2>4, <2>5, <2>6, <2>8, <2>9, <2>10 DEF ExtremesInv
  <1> QED
    BY <1>1, <1>4, <1>5, <1>7, <1>8, <1>9, QuietMove

\* The value loaded for the comparison is the maximum.
LEMMA LoadMaxKeeps ==
  ASSUME MetricsInv, ~blurred, NEW r \in Recorders, LoadMax(r)
  PROVE  MetricsInv'
  <1>0. MetricsTypeOK
    BY DEF MetricsInv
  <1>1. /\ Moves(r, "load_max", "cas_max") /\ rec'[r].current = metrics.max /\ truth' = truth
        /\ SameBut(metrics', metrics, "none")
    BY <1>0, LoadMaxEffect, NothingSet DEF MetricsTypeOK
  <1>2. RoomInv /\ CountsInv /\ SumsInv /\ ExtremesInv
    BY <1>1, QuietMove
  <1>3. MetricsTypeOK'
    BY <1>0, <1>1, <1>2, TypeMove DEF MetricsTypeOK, SameBut
  <1>4. RoomInv'
    BY <1>0, <1>1, <1>2, RoomMove
  <1>5. CountsInv'
    BY <1>0, <1>1, <1>2, CountsMove
  <1>6. SumsInv'
    BY <1>0, <1>1, <1>2, SumsMove DEF BeforeTotal, BeforeSum, BeforeMin, BeforeMax
  <1>7. ExtremesInv'
    BY <1>0, <1>1, <1>2, ExtremesMove DEF BeforeTotal, BeforeSum, BeforeMin, BeforeMax
  <1> QED
    BY <1>1, <1>3, <1>4, <1>5, <1>6, <1>7, QuietMove

\* A value that is not recorded by the exchange is covered by the maximum.
LEMMA CasMaxKeeps ==
  ASSUME MetricsInv, ~blurred, NEW r \in Recorders, CasMax(r)
  PROVE  MetricsInv'
  <1>0. MetricsTypeOK
    BY DEF MetricsInv
  <1>1. CASE Moves(r, "cas_max", "cas_max") /\ rec'[r].current = metrics.max /\ metrics' = metrics /\ truth' = truth
    <2>1. SameBut(metrics', metrics, "none")
      BY <1>0, <1>1, NothingSet DEF MetricsTypeOK
    <2>2. RoomInv /\ CountsInv /\ SumsInv /\ ExtremesInv
      BY <1>1, QuietMove
    <2>3. MetricsTypeOK'
      BY <1>0, <1>1, <2>1, TypeMove DEF MetricsTypeOK, SameBut
    <2>4. RoomInv'
      BY <1>0, <1>1, <2>1, <2>2, RoomMove
    <2>5. CountsInv'
      BY <1>0, <1>1, <2>1, <2>2, CountsMove
    <2>6. SumsInv'
      BY <1>0, <1>1, <2>1, <2>2, SumsMove
    <2>7. ExtremesInv'
      BY <1>0, <1>1, <2>1, <2>2, ExtremesMove
    <2> QED
      BY <1>1, <2>3, <2>4, <2>5, <2>6, <2>7, QuietMove
  <1>2. CASE /\ Moves(r, "cas_max", "load_min") /\ SameBut(metrics', metrics, "max") /\ truth' = truth
             /\ \/ /\ rec[r].latency > rec[r].current /\ metrics.max = rec[r].current
                   /\ metrics'.max = rec[r].latency
                \/ ~(rec[r].latency > rec[r].current) /\ metrics'.max = metrics.max
    <2>2. RoomInv /\ CountsInv /\ SumsInv /\ ExtremesInv
      BY <1>2, QuietMove
    <2>3. MetricsTypeOK'
      BY <1>0, <1>2, TypeMove DEF MetricsTypeOK, SameBut
    <2>4. RoomInv'
      BY <1>0, <1>2, <2>2, RoomMove
    <2>5. CountsInv'
      BY <1>0, <1>2, <2>2, CountsMove
    <2>6. SumsInv'
      BY <1>0, <1>2, <2>2, SumsMove DEF BeforeTotal, BeforeSum, BeforeMin, BeforeMax
    <2>7. ExtremesInv'
      <3>1. /\ \A s \in Recorders \ {r} : rec'[s] = rec[s]
            /\ rec[r].at = "cas_max" /\ rec'[r].at = "load_min" /\ rec'[r].latency = rec[r].latency
        BY <1>0, <1>2, InMove DEF Moves
      <3>2. /\ rec[r].latency \in Nat /\ rec[r].current \in Nat /\ metrics.max \in Nat /\ metrics'.max \in Nat
            /\ \A s \in Recorders : rec[s].current \in Nat
        BY <1>0, <2>3, MetricsFields, RecorderFields DEF MetricsTypeOK
      <3>3. Sampled' = Sampled /\ Sampled \subseteq Nat
        BY <1>0, <1>2, SampledLatencies DEF Sampled
      <3>4. /\ rec[r].latency \in Sampled /\ rec[r].current <= metrics.max
            /\ "cas_max" \in BeforeTotal
        BY <2>2, <3>1 DEF ExtremesInv, At, BeforeTotal, BeforeSum, BeforeMin, BeforeMax
      <3>5. /\ metrics.max <= metrics'.max /\ rec[r].latency <= metrics'.max
            /\ metrics'.max = metrics.max \/ metrics'.max = rec[r].latency
        BY <1>2, <3>2, <3>4
      <3>6. /\ In(BeforeMax)' = In(BeforeMax) \ {r} /\ r \in In(BeforeMax)
            /\ In(BeforeMin)' = In(BeforeMin)
        BY <1>0, <1>2, InMove DEF BeforeMin, BeforeMax
      <3>7. metrics'.min = metrics.min
        BY <1>2 DEF SameBut
      <3>8. \A s \in Recorders : rec'[s].at \in BeforeTotal => rec'[s].latency \in Sampled'
        BY <2>2, <3>1, <3>3, <3>4 DEF ExtremesInv
      <3>9. \A s \in Recorders : At(s, "cas_max")' => rec'[s].current <= metrics'.max
        BY <2>2, <3>1, <3>2, <3>5 DEF ExtremesInv, At
      <3>10. \A s \in Recorders : At(s, "cas_min")' => rec'[s].current >= metrics'.min
        BY <2>2, <3>1, <3>7 DEF ExtremesInv, At
      <3>11. \A y \in Sampled' : y <= metrics'.max \/ \E s \in In(BeforeMax)' : rec'[s].latency = y
        BY <2>2, <3>1, <3>2, <3>3, <3>5, <3>6 DEF ExtremesInv, In
      <3>12. \A y \in Sampled' : y >= metrics'.min \/ \E s \in In(BeforeMin)' : rec'[s].latency = y
        BY <2>2, <3>1, <3>3, <3>6, <3>7 DEF ExtremesInv, In
      <3>13. metrics'.max \in Sampled' \union {0} /\ metrics'.min \in Sampled' \union {UINT64_MAX}
        BY <2>2, <3>3, <3>4, <3>5, <3>7 DEF ExtremesInv
      <3> QED
        BY <3>8, <3>9, <3>10, <3>11, <3>12, <3>13 DEF ExtremesInv
    <2> QED
      BY <1>2, <2>3, <2>4, <2>5, <2>6, <2>7, QuietMove
  <1> QED
    BY <1>0, <1>1, <1>2, CasMaxEffect

\* The value loaded for the comparison is the minimum.
LEMMA LoadMinKeeps ==
  ASSUME MetricsInv, ~blurred, NEW r \in Recorders, LoadMin(r)
  PROVE  MetricsInv'
  <1>0. MetricsTypeOK
    BY DEF MetricsInv
  <1>1. /\ Moves(r, "load_min", "cas_min") /\ rec'[r].current = metrics.min /\ truth' = truth
        /\ SameBut(metrics', metrics, "none")
    BY <1>0, LoadMinEffect, NothingSet DEF MetricsTypeOK
  <1>2. RoomInv /\ CountsInv /\ SumsInv /\ ExtremesInv
    BY <1>1, QuietMove
  <1>3. MetricsTypeOK'
    BY <1>0, <1>1, <1>2, TypeMove DEF MetricsTypeOK, SameBut
  <1>4. RoomInv'
    BY <1>0, <1>1, <1>2, RoomMove
  <1>5. CountsInv'
    BY <1>0, <1>1, <1>2, CountsMove
  <1>6. SumsInv'
    BY <1>0, <1>1, <1>2, SumsMove DEF BeforeTotal, BeforeSum, BeforeMin, BeforeMax
  <1>7. ExtremesInv'
    BY <1>0, <1>1, <1>2, ExtremesMove DEF BeforeTotal, BeforeSum, BeforeMin, BeforeMax
  <1> QED
    BY <1>1, <1>3, <1>4, <1>5, <1>6, <1>7, QuietMove

\* A value that is not recorded by the exchange is covered by the minimum.
LEMMA CasMinKeeps ==
  ASSUME MetricsInv, ~blurred, NEW r \in Recorders, CasMin(r)
  PROVE  MetricsInv'
  <1>0. MetricsTypeOK
    BY DEF MetricsInv
  <1>1. CASE Moves(r, "cas_min", "cas_min") /\ rec'[r].current = metrics.min /\ metrics' = metrics /\ truth' = truth
    <2>1. SameBut(metrics', metrics, "none")
      BY <1>0, <1>1, NothingSet DEF MetricsTypeOK
    <2>2. RoomInv /\ CountsInv /\ SumsInv /\ ExtremesInv
      BY <1>1, QuietMove
    <2>3. MetricsTypeOK'
      BY <1>0, <1>1, <2>1, TypeMove DEF MetricsTypeOK, SameBut
    <2>4. RoomInv'
      BY <1>0, <1>1, <2>1, <2>2, RoomMove
    <2>5. CountsInv'
      BY <1>0, <1>1, <2>1, <2>2, CountsMove
    <2>6. SumsInv'
      BY <1>0, <1>1, <2>1, <2>2, SumsMove
    <2>7. ExtremesInv'
      BY <1>0, <1>1, <2>1, <2>2, ExtremesMove
    <2> QED
      BY <1>1, <2>3, <2>4, <2>5, <2>6, <2>7, QuietMove
  <1>2. CASE /\ Moves(r, "cas_min", "summing") /\ SameBut(metrics', metrics, "min") /\ truth' = truth
             /\ \/ /\ rec[r].latency < rec[r].current /\ metrics.min = rec[r].current
                   /\ metrics'.min = rec[r].latency
                \/ ~(rec[r].latency < rec[r].current) /\ metrics'.min = metrics.min
    <2>2. RoomInv /\ CountsInv /\ SumsInv /\ ExtremesInv
      BY <1>2, QuietMove
    <2>3. MetricsTypeOK'
      BY <1>0, <1>2, TypeMove DEF MetricsTypeOK, SameBut
    <2>4. RoomInv'
      BY <1>0, <1>2, <2>2, RoomMove
    <2>5. CountsInv'
      BY <1>0, <1>2, <2>2, CountsMove
    <2>6. SumsInv'
      BY <1>0, <1>2, <2>2, SumsMove DEF BeforeTotal, BeforeSum, BeforeMin, BeforeMax
    <2>7. ExtremesInv'
      <3>1. /\ \A s \in Recorders \ {r} : rec'[s] = rec[s]
            /\ rec[r].at = "cas_min" /\ rec'[r].at = "summing" /\ rec'[r].latency = rec[r].latency
        BY <1>0, <1>2, InMove DEF Moves
      <3>2. /\ rec[r].latency \in Nat /\ rec[r].current \in Nat /\ metrics.min \in Nat /\ metrics'.min \in Nat
            /\ \A s \in Recorders : rec[s].current \in Nat
        BY <1>0, <2>3, MetricsFields, RecorderFields DEF MetricsTypeOK
      <3>3. Sampled' = Sampled /\ Sampled \subseteq Nat
        BY <1>0, <1>2, SampledLatencies DEF Sampled
      <3>4. /\ rec[r].latency \in Sampled /\ rec[r].current >= metrics.min
            /\ "cas_min" \in BeforeTotal
        BY <2>2, <3>1 DEF ExtremesInv, At, BeforeTotal, BeforeSum, BeforeMin, BeforeMax
      <3>5. /\ metrics.min >= metrics'.min /\ rec[r].latency >= metrics'.min
            /\ metrics'.min = metrics.min \/ metrics'.min = rec[r].latency
        BY <1>2, <3>2, <3>4
      <3>6. /\ In(BeforeMin)' = In(BeforeMin) \ {r} /\ r \in In(BeforeMin)
            /\ In(BeforeMax)' = In(BeforeMax)
        BY <1>0, <1>2, InMove DEF BeforeMin, BeforeMax
      <3>7. metrics'.max = metrics.max
        BY <1>2 DEF SameBut
      <3>8. \A s \in Recorders : rec'[s].at \in BeforeTotal => rec'[s].latency \in Sampled'
        BY <2>2, <3>1, <3>3, <3>4 DEF ExtremesInv
      <3>9. \A s \in Recorders : At(s, "cas_min")' => rec'[s].current >= metrics'.min
        BY <2>2, <3>1, <3>2, <3>5 DEF ExtremesInv, At
      <3>10. \A s \in Recorders : At(s, "cas_max")' => rec'[s].current <= metrics'.max
        BY <2>2, <3>1, <3>7 DEF ExtremesInv, At
      <3>11. \A y \in Sampled' : y >= metrics'.min \/ \E s \in In(BeforeMin)' : rec'[s].latency = y
        BY <2>2, <3>1, <3>2, <3>3, <3>5, <3>6 DEF ExtremesInv, In
      <3>12. \A y \in Sampled' : y <= metrics'.max \/ \E s \in In(BeforeMax)' : rec'[s].latency = y
        BY <2>2, <3>1, <3>3, <3>6, <3>7 DEF ExtremesInv, In
      <3>13. metrics'.min \in Sampled' \union {UINT64_MAX} /\ metrics'.max \in Sampled' \union {0}
        BY <2>2, <3>3, <3>4, <3>5, <3>7 DEF ExtremesInv
      <3> QED
        BY <3>8, <3>9, <3>10, <3>11, <3>12, <3>13 DEF ExtremesInv
    <2> QED
      BY <1>2, <2>3, <2>4, <2>5, <2>6, <2>7, QuietMove
  <1> QED
    BY <1>0, <1>1, <1>2, CasMinEffect

\* The latency leaves those carried to the sum.
LEMMA AddSumKeeps ==
  ASSUME MetricsInv, ~blurred, NEW r \in Recorders, AddSum(r)
  PROVE  MetricsInv'
  <1>0. MetricsTypeOK
    BY DEF MetricsInv
  <1> DEFINE l == rec[r].latency
  <1>1. /\ Moves(r, "summing", "load_count") /\ truth' = truth
        /\ SameBut(metrics', metrics, "sum") /\ metrics'.sum = metrics.sum + l
    BY <1>0, AddSumEffect
  <1>2. RoomInv /\ CountsInv /\ SumsInv /\ ExtremesInv
    BY <1>1, QuietMove
  <1>3. MetricsTypeOK'
    BY <1>0, <1>1, TypeMove DEF MetricsTypeOK, SameBut
  <1>4. RoomInv'
    BY <1>0, <1>1, <1>2, RoomMove
  <1>5. CountsInv'
    BY <1>0, <1>1, <1>2, CountsMove
  <1>6. ExtremesInv'
    BY <1>0, <1>1, <1>2, ExtremesMove DEF BeforeTotal, BeforeSum, BeforeMin, BeforeMax
  <1>7. SumsInv'
    <2>1. /\ "idle" \notin BeforeSum /\ "summing" \in BeforeSum /\ "load_count" \notin BeforeSum
          /\ "idle" \notin BeforeTotal /\ ("summing" \in BeforeTotal <=> "load_count" \in BeforeTotal)
      BY DEF BeforeTotal, BeforeSum, BeforeMin, BeforeMax
    <2>2. /\ IsFiniteSet(Units(Pending(BeforeSum)')) /\ Total(Pending(BeforeSum)') \in Nat
          /\ Total(Pending(BeforeSum)) = Total(Pending(BeforeSum)') + l
      BY <1>0, <1>1, <1>2, <2>1, PendingMove DEF SumsInv
    <2>3. Pending(BeforeTotal)' = Pending(BeforeTotal)
      BY <1>0, <1>1, <1>2, <2>1, PendingMove DEF SumsInv
    <2>4. metrics'.total = metrics.total /\ metrics.sum \in Nat /\ l \in Nat
      BY <1>0, <1>1, MetricsFields, RecorderFields DEF SameBut, MetricsTypeOK
    <2>5. metrics.sum + Total(Pending(BeforeSum)) = Total(truth)
      BY <1>2 DEF SumsInv
    <2>6. metrics'.sum + Total(Pending(BeforeSum)') = Total(truth')
      <3> HIDE DEF l
      <3> QED
        BY <1>1, <2>2, <2>4, <2>5
    <2> QED
      BY <1>1, <1>2, <2>2, <2>3, <2>4, <2>6 DEF SumsInv
  <1> QED
    BY <1>1, <1>3, <1>4, <1>5, <1>6, <1>7, QuietMove

\* A recorder that sees room is one of those who do; there are no more than recorders.
LEMMA LoadCountKeeps ==
  ASSUME MetricsInv, ~blurred, NEW r \in Recorders, LoadCount(r)
  PROVE  MetricsInv'
  <1>0. MetricsTypeOK
    BY DEF MetricsInv
  <1>1. /\ Moves(r, "load_count", "reservoir") /\ truth' = truth /\ metrics' = metrics
        /\ SameBut(metrics', metrics, "none")
        /\ rec'[r].todo = (IF RoomLeft(metrics.reservoir_count) THEN {"slot", "count"} ELSE {})
    BY <1>0, LoadCountEffect, NothingSet DEF MetricsTypeOK
  <1>2. RoomInv /\ CountsInv /\ SumsInv /\ ExtremesInv
    BY <1>1, QuietMove
  <1>3. MetricsTypeOK'
    BY <1>0, <1>1, TypeMove DEF MetricsTypeOK, SameBut
  <1>4. CountsInv'
    BY <1>0, <1>1, <1>2, CountsMove
  <1>5. SumsInv'
    BY <1>0, <1>1, <1>2, SumsMove DEF BeforeTotal, BeforeSum, BeforeMin, BeforeMax
  <1>6. ExtremesInv'
    BY <1>0, <1>1, <1>2, ExtremesMove DEF BeforeTotal, BeforeSum, BeforeMin, BeforeMax
  <1>7. RoomInv'
    <2>1. CASE RoomLeft(metrics.reservoir_count)
      <3>1. IsFiniteSet(Recorders) /\ Adding' \subseteq Recorders
        BY MetricsAssumption DEF Adding
      <3>2. /\ Cardinality(Adding') <= Cardinality(Recorders)
            /\ Cardinality(Adding') \in Nat /\ Cardinality(Recorders) \in Nat
        BY <3>1, FS_Subset, FS_CardinalityType
      <3>3. metrics.reservoir_count \in Nat /\ ReservoirSize \in Nat
        BY <1>0, MetricsFields, MetricsAssumption DEF MetricsTypeOK
      <3> QED
        BY <1>1, <2>1, <3>2, <3>3 DEF RoomInv, RoomLeft
    <2>2. CASE ~RoomLeft(metrics.reservoir_count)
      BY <1>0, <1>1, <1>2, <2>2, RoomMove
    <2> QED
      BY <2>1, <2>2
  <1> QED
    BY <1>1, <1>3, <1>4, <1>5, <1>6, <1>7, QuietMove

\* A store into the array changes no counter.
LEMMA FillSlotKeeps ==
  ASSUME MetricsInv, ~blurred, NEW r \in Recorders, FillSlot(r)
  PROVE  MetricsInv'
  <1>0. MetricsTypeOK
    BY DEF MetricsInv
  <1>1. PICK b \in {"reservoir", "total"} : Moves(r, "reservoir", b)
    BY <1>0, FillSlotEffect
  <1>2. /\ SameBut(metrics', metrics, "reservoir") /\ truth' = truth
        /\ "slot" \in rec[r].todo /\ rec'[r].todo = rec[r].todo \ {"slot"}
    BY <1>0, FillSlotEffect
  <1>3. RoomInv /\ CountsInv /\ SumsInv /\ ExtremesInv
    BY <1>1, QuietMove
  <1>4. MetricsTypeOK'
    BY <1>0, <1>1, <1>2, TypeMove DEF MetricsTypeOK, SameBut
  <1>5. CountsInv'
    BY <1>0, <1>1, <1>2, <1>3, CountsMove
  <1>6. SumsInv'
    BY <1>0, <1>1, <1>2, <1>3, SumsMove DEF BeforeTotal, BeforeSum, BeforeMin, BeforeMax
  <1>7. ExtremesInv'
    BY <1>0, <1>1, <1>2, <1>3, ExtremesMove DEF BeforeTotal, BeforeSum, BeforeMin, BeforeMax
  <1>8. RoomInv'
    <2>1. r \in Adding \/ "count" \notin rec'[r].todo
      BY <1>1, <1>2 DEF Adding, Moves
    <2> QED
      BY <1>0, <1>1, <1>2, <1>3, <2>1, RoomMove
  <1> QED
    BY <1>1, <1>4, <1>5, <1>6, <1>7, <1>8, QuietMove

\* The recorder counts, and is not one of those who will any more.
LEMMA FillCountKeeps ==
  ASSUME MetricsInv, ~blurred, NEW r \in Recorders, FillCount(r)
  PROVE  MetricsInv'
  <1>0. MetricsTypeOK
    BY DEF MetricsInv
  <1>1. PICK b \in {"reservoir", "total"} : Moves(r, "reservoir", b)
    BY <1>0, FillCountEffect
  <1>2. /\ SameBut(metrics', metrics, "reservoir_count")
        /\ metrics'.reservoir_count = metrics.reservoir_count + 1 /\ truth' = truth
        /\ "count" \in rec[r].todo /\ rec'[r].todo = rec[r].todo \ {"count"}
    BY <1>0, FillCountEffect
  <1>3. RoomInv /\ CountsInv /\ SumsInv /\ ExtremesInv
    BY <1>1, QuietMove
  <1>4. MetricsTypeOK'
    BY <1>0, <1>1, <1>2, TypeMove DEF MetricsTypeOK, SameBut
  <1>5. CountsInv'
    BY <1>0, <1>1, <1>2, <1>3, CountsMove
  <1>6. SumsInv'
    BY <1>0, <1>1, <1>2, <1>3, SumsMove DEF BeforeTotal, BeforeSum, BeforeMin, BeforeMax
  <1>7. ExtremesInv'
    BY <1>0, <1>1, <1>2, <1>3, ExtremesMove DEF BeforeTotal, BeforeSum, BeforeMin, BeforeMax
  <1>8. RoomInv'
    <2>1. r \in Adding /\ Adding' = Adding \ {r}
      <3>1. /\ \A s \in Recorders \ {r} : rec'[s] = rec[s]
            /\ rec[r].at = "reservoir" /\ "count" \notin rec'[r].todo
        BY <1>0, <1>1, <1>2, InMove DEF Moves
      <3> QED
        BY <1>2, <3>1 DEF Adding
    <2>2. IsFiniteSet(Adding)
      BY MetricsAssumption, FS_Subset DEF Adding
    <2>3. /\ Cardinality(Adding') = Cardinality(Adding) - 1
          /\ Cardinality(Adding) \in Nat /\ Cardinality(Recorders) \in Nat
      BY <2>1, <2>2, MetricsAssumption, FS_RemoveElement, FS_CardinalityType
    <2>4. metrics.reservoir_count \in Nat /\ ReservoirSize \in Nat
      BY <1>0, MetricsFields, MetricsAssumption DEF MetricsTypeOK
    <2> QED
      BY <1>2, <1>3, <2>3, <2>4 DEF RoomInv
  <1> QED
    BY <1>1, <1>4, <1>5, <1>6, <1>7, <1>8, QuietMove

\* A replacement changes no counter.
LEMMA ReplaceKeeps ==
  ASSUME MetricsInv, ~blurred, NEW r \in Recorders, Replace(r)
  PROVE  MetricsInv'
  <1>0. MetricsTypeOK
    BY DEF MetricsInv
  <1>1. /\ Moves(r, "reservoir", "total") /\ truth' = truth
        /\ SameBut(metrics', metrics, "reservoir")
    BY <1>0, ReplaceEffect
  <1>2. RoomInv /\ CountsInv /\ SumsInv /\ ExtremesInv
    BY <1>1, QuietMove
  <1>3. MetricsTypeOK'
    BY <1>0, <1>1, TypeMove DEF MetricsTypeOK, SameBut
  <1>4. RoomInv'
    BY <1>0, <1>1, <1>2, RoomMove
  <1>5. CountsInv'
    BY <1>0, <1>1, <1>2, CountsMove
  <1>6. SumsInv'
    BY <1>0, <1>1, <1>2, SumsMove DEF BeforeTotal, BeforeSum, BeforeMin, BeforeMax
  <1>7. ExtremesInv'
    BY <1>0, <1>1, <1>2, ExtremesMove DEF BeforeTotal, BeforeSum, BeforeMin, BeforeMax
  <1> QED
    BY <1>1, <1>3, <1>4, <1>5, <1>6, <1>7, QuietMove

\* The latency leaves those carried to the total time.
LEMMA AddTotalKeeps ==
  ASSUME MetricsInv, ~blurred, NEW r \in Recorders, AddTotal(r)
  PROVE  MetricsInv'
  <1>0. MetricsTypeOK
    BY DEF MetricsInv
  <1> DEFINE l == rec[r].latency
  <1>1. /\ Moves(r, "total", "idle") /\ truth' = truth
        /\ SameBut(metrics', metrics, "total") /\ metrics'.total = metrics.total + l
    BY <1>0, AddTotalEffect
  <1>2. RoomInv /\ CountsInv /\ SumsInv /\ ExtremesInv
    BY <1>1, QuietMove
  <1>3. MetricsTypeOK'
    BY <1>0, <1>1, TypeMove DEF MetricsTypeOK, SameBut
  <1>4. RoomInv'
    BY <1>0, <1>1, <1>2, RoomMove
  <1>5. CountsInv'
    BY <1>0, <1>1, <1>2, CountsMove
  <1>6. ExtremesInv'
    BY <1>0, <1>1, <1>2, ExtremesMove DEF BeforeTotal, BeforeSum, BeforeMin, BeforeMax
  <1>7. SumsInv'
    <2>1. /\ "idle" \notin BeforeTotal /\ "total" \in BeforeTotal /\ "idle" \notin BeforeTotal
          /\ "idle" \notin BeforeSum /\ ("total" \in BeforeSum <=> "idle" \in BeforeSum)
      BY DEF BeforeTotal, BeforeSum, BeforeMin, BeforeMax
    <2>2. /\ IsFiniteSet(Units(Pending(BeforeTotal)')) /\ Total(Pending(BeforeTotal)') \in Nat
          /\ Total(Pending(BeforeTotal)) = Total(Pending(BeforeTotal)') + l
      BY <1>0, <1>1, <1>2, <2>1, PendingMove DEF SumsInv
    <2>3. Pending(BeforeSum)' = Pending(BeforeSum)
      BY <1>0, <1>1, <1>2, <2>1, PendingMove DEF SumsInv
    <2>4. metrics'.sum = metrics.sum /\ metrics.total \in Nat /\ l \in Nat
      BY <1>0, <1>1, MetricsFields, RecorderFields DEF SameBut, MetricsTypeOK
    <2>5. metrics.total + Total(Pending(BeforeTotal)) = Total(truth)
      BY <1>2 DEF SumsInv
    <2>6. metrics'.total + Total(Pending(BeforeTotal)') = Total(truth')
      <3> HIDE DEF l
      <3> QED
        BY <1>1, <2>2, <2>4, <2>5
    <2> QED
      BY <1>1, <1>2, <2>2, <2>3, <2>4, <2>6 DEF SumsInv
  <1> QED
    BY <1>1, <1>3, <1>4, <1>5, <1>6, <1>7, QuietMove

-----------------------------------------------------------------------------
(* The start, switches and resets *)

LEMMA NoUnits ==
  ASSUME NEW f, DOMAIN f = {}
  PROVE  IsFiniteSet(Units(f)) /\ Total(f) = 0
  <1>1. Units(f) = {}
    BY DEF Units
  <1> QED
    BY <1>1, FS_EmptySet DEF Total

\* Metrics that are clear are those of no operation.
LEMMA FreshExact ==
  ASSUME ~Busy, truth = <<>>, \A f \in DOMAIN NoMetrics : metrics[f] = NoMetrics[f]
  PROVE  CountsInv /\ SumsInv /\ ExtremesInv
  <1>1. /\ metrics.operations = 0 /\ metrics.total = 0 /\ metrics.sample_count = 0
        /\ metrics.max = 0 /\ metrics.min = UINT64_MAX /\ metrics.sum = 0
    BY DEF NoMetrics
  <1>2. \A r \in Recorders : rec[r].at = "idle"
    BY DEF Busy, At
  <1>3. In({"sampling"}) = {} /\ In(BeforeSum) = {} /\ In(BeforeTotal) = {}
    BY <1>2 DEF In, BeforeTotal, BeforeSum, BeforeMin, BeforeMax
  <1>4. Sampled = {} /\ Len(truth) = 0
    BY DEF Sampled
  <1>5. CountsInv
    <2>1. Cardinality(In({"sampling"})) = 0
      BY <1>3, FS_EmptySet
    <2>2. \A r \in Recorders : ~At(r, "counting")
      BY <1>2 DEF At
    <2> QED
      BY <1>1, <1>4, <2>1, <2>2 DEF CountsInv
  <1>6. SumsInv
    <2>1. DOMAIN Pending(BeforeSum) = {} /\ DOMAIN Pending(BeforeTotal) = {} /\ DOMAIN truth = {}
      BY <1>3 DEF Pending
    <2>2. /\ IsFiniteSet(Units(Pending(BeforeSum))) /\ Total(Pending(BeforeSum)) = 0
          /\ IsFiniteSet(Units(Pending(BeforeTotal))) /\ Total(Pending(BeforeTotal)) = 0
          /\ IsFiniteSet(Units(truth)) /\ Total(truth) = 0
      BY <2>1, NoUnits
    <2> QED
      BY <1>1, <2>2 DEF SumsInv
  <1>7. ExtremesInv
    BY <1>1, <1>2, <1>4 DEF ExtremesInv, At, BeforeTotal, BeforeSum, BeforeMin, BeforeMax
  <1> QED
    BY <1>5, <1>6, <1>7

\* The same after a step.
LEMMA ClearedExact ==
  ASSUME ~Busy', truth' = <<>>, \A f \in DOMAIN NoMetrics : metrics'[f] = NoMetrics[f]
  PROVE  CountsInv' /\ SumsInv' /\ ExtremesInv'
  <1>1. /\ metrics'.operations = 0 /\ metrics'.total = 0 /\ metrics'.sample_count = 0
        /\ metrics'.max = 0 /\ metrics'.min = UINT64_MAX /\ metrics'.sum = 0
    BY DEF NoMetrics
  <1>2. \A r \in Recorders : rec'[r].at = "idle"
    BY DEF Busy, At
  <1>3. In({"sampling"})' = {} /\ In(BeforeSum)' = {} /\ In(BeforeTotal)' = {}
    BY <1>2 DEF In, BeforeTotal, BeforeSum, BeforeMin, BeforeMax
  <1>4. Sampled' = {} /\ Len(truth') = 0
    BY DEF Sampled
  <1>5. CountsInv'
    <2>1. Cardinality(In({"sampling"})') = 0
      BY <1>3, FS_EmptySet
    <2>2. \A r \in Recorders : ~At(r, "counting")'
      BY <1>2 DEF At
    <2> QED
      BY <1>1, <1>4, <2>1, <2>2 DEF CountsInv
  <1>6. SumsInv'
    <2>1. DOMAIN Pending(BeforeSum)' = {} /\ DOMAIN Pending(BeforeTotal)' = {} /\ DOMAIN truth' = {}
      BY <1>3 DEF Pending
    <2>2. /\ IsFiniteSet(Units(Pending(BeforeSum)')) /\ Total(Pending(BeforeSum)') = 0
          /\ IsFiniteSet(Units(Pending(BeforeTotal)')) /\ Total(Pending(BeforeTotal)') = 0
          /\ IsFiniteSet(Units(truth')) /\ Total(truth') = 0
      BY <2>1, NoUnits
    <2> QED
      BY <1>1, <2>2 DEF SumsInv
  <1>7. ExtremesInv'
    BY <1>1, <1>2, <1>4 DEF ExtremesInv, At, BeforeTotal, BeforeSum, BeforeMin, BeforeMax
  <1> QED
    BY <1>5, <1>6, <1>7

LEMMA MetricsInitInv ==
  MetricsInit => MetricsInv
  <1> SUFFICES ASSUME MetricsInit PROVE MetricsInv
    OBVIOUS
  <1>1. MetricsTypeOK
    <2>1. NoMetrics \in MetricsRecord /\ NoRecord \in RecorderState /\ NoRecord.at = "idle"
      BY MetricsAssumption, StagesAre DEF NoMetrics, NoRecord, MetricsRecord, RecorderState
    <2>2. truth \in Seq(Latencies) /\ resetter \in ResetSuffixes
      BY DEF MetricsInit, ResetSuffixes
    <2>3. /\ metrics \in MetricsRecord /\ rec \in [Recorders -> RecorderState]
          /\ \A r \in Recorders : rec[r].at = "idle"
      BY <2>1 DEF MetricsInit
    <2> QED
      BY <2>2, <2>3 DEF MetricsTypeOK, MetricsInit
  <1>2. \A r \in Recorders : rec[r].at = "idle"
    BY DEF MetricsInit, NoRecord
  <1>3. RoomInv
    <2>1. Adding = {} /\ metrics.reservoir_count = 0
      BY <1>2 DEF Adding, MetricsInit, NoMetrics
    <2>2. Cardinality(Adding) = 0 /\ Cardinality(Recorders) \in Nat
      BY <2>1, FS_EmptySet, FS_CardinalityType, MetricsAssumption
    <2> QED
      BY <2>1, <2>2, MetricsAssumption DEF RoomInv
  <1>4. CountsInv /\ SumsInv /\ ExtremesInv
    <2>1. ~Busy /\ truth = <<>> /\ metrics = NoMetrics
      BY <1>2 DEF Busy, At, MetricsInit
    <2> QED
      BY <2>1, FreshExact
  <1> QED
    BY <1>1, <1>3, <1>4 DEF MetricsInv, MetricsInit

\* A switch that nobody's counting overlaps changes nothing that is counted.
LEMMA SetEnabledKeeps ==
  ASSUME MetricsInv, ~blurred, NEW e \in BOOLEAN, SetEnabled(e)
  PROVE  MetricsInv'
  <1>1. /\ metrics' = metrics /\ rec' = rec /\ resetter' = resetter /\ truth' = truth
        /\ ~blurred' => \A r \in Recorders : ~At(r, "counting")
    BY DEF SetEnabled
  <1>2. MetricsTypeOK' /\ RoomInv'
    BY <1>1 DEF SetEnabled, MetricsInv, MetricsTypeOK, RoomInv, Adding
  <1>3. ASSUME ~blurred', resetter' = <<>> PROVE CountsInv' /\ SumsInv' /\ ExtremesInv'
    <2>1. CountsInv /\ SumsInv /\ ExtremesInv
      BY <1>1, <1>3 DEF MetricsInv
    <2>2. CountsInv'
      BY <1>1, <1>3, <2>1 DEF CountsInv, At, In
    <2>3. SumsInv'
      BY <1>1, <2>1 DEF SumsInv, Pending, In
    <2>4. ExtremesInv'
      BY <1>1, <2>1 DEF ExtremesInv, Sampled, At, In
    <2> QED
      BY <2>2, <2>3, <2>4
  <1>4. ASSUME ~blurred', resetter' # <<>> PROVE ClearingInv'
    BY <1>1, <1>4 DEF MetricsInv, ClearingInv, Busy, At, Uncleared
  <1> QED
    BY <1>2, <1>3, <1>4 DEF MetricsInv

\* The timer is made with the switch as it is.
LEMMA MakeTimerKeeps ==
  ASSUME MetricsInv, ~blurred, NEW r \in Recorders, NEW l \in Latencies, MakeTimer(r, l)
  PROVE  MetricsInv'
  <1>0. MetricsTypeOK
    BY DEF MetricsInv
  <1> DEFINE c == [NoRecord EXCEPT !.at = "counting", !.timed = enabled, !.latency = l]
  <1>1. /\ rec' = [rec EXCEPT ![r] = c] /\ rec[r].at = "idle" /\ metrics' = metrics /\ enabled' = enabled
        /\ resetter' = resetter /\ truth' = truth /\ (~blurred' => resetter = <<>>)
    <2> HIDE DEF c
    <2> QED
      BY DEF MakeTimer, At, c
  <1>2. c \in RecorderState /\ c.at = "counting" /\ c.latency = l /\ c.timed = enabled /\ c.todo = {}
    <2>1. enabled \in BOOLEAN /\ l \in Nat /\ "counting" \in Stages /\ "idle" \in Stages
      BY <1>0, MetricsAssumption, StagesAre DEF MetricsTypeOK
    <2>2. NoRecord \in RecorderState /\ NoRecord.todo = {}
      BY <2>1 DEF NoRecord, RecorderState
    <2> QED
      BY <2>1, <2>2, RecorderFields DEF RecorderState
  <1> HIDE DEF c
  <1>3. /\ \A s \in Recorders \ {r} : rec'[s] = rec[s]
        /\ rec'[r] = c
    BY <1>0, <1>1 DEF MetricsTypeOK
  <1>4. MetricsTypeOK'
    <2>1. rec' \in [Recorders -> RecorderState]
      BY <1>0, <1>1, <1>2 DEF MetricsTypeOK
    <2>2. \A s \in Recorders : rec'[s].at # "idle" => rec'[s].latency \in Latencies
      BY <1>0, <1>2, <1>3 DEF MetricsTypeOK
    <2> QED
      BY <1>0, <1>1, <2>1, <2>2 DEF MetricsTypeOK
  <1>5. RoomInv'
    <2>1. Adding' \subseteq Adding
      BY <1>2, <1>3 DEF Adding
    <2> QED
      BY <1>0, <1>1, <2>1, RoomSame, MetricsFields DEF MetricsInv, MetricsTypeOK
  <1>6. ASSUME ~blurred' PROVE CountsInv' /\ SumsInv' /\ ExtremesInv' /\ resetter' = <<>>
    <2>1. CountsInv /\ SumsInv /\ ExtremesInv /\ resetter' = <<>>
      BY <1>1, <1>6 DEF MetricsInv
    <2>2. /\ In({"sampling"})' = In({"sampling"}) /\ In(BeforeMax)' = In(BeforeMax)
          /\ In(BeforeMin)' = In(BeforeMin) /\ In(BeforeSum)' = In(BeforeSum)
          /\ In(BeforeTotal)' = In(BeforeTotal)
      BY <1>1, <1>2, <1>3 DEF In, BeforeTotal, BeforeSum, BeforeMin, BeforeMax
    <2>3. /\ \A s \in In(BeforeTotal) : rec'[s] = rec[s]
          /\ In(BeforeMax) \subseteq In(BeforeTotal) /\ In(BeforeMin) \subseteq In(BeforeTotal)
          /\ In(BeforeSum) \subseteq In(BeforeTotal)
      BY <1>1, <1>3 DEF In, BeforeTotal, BeforeSum, BeforeMin, BeforeMax
    <2>4. CountsInv'
      <3>1. \A s \in Recorders : At(s, "counting")' => rec'[s].timed = enabled'
        BY <1>1, <1>2, <1>3, <2>1 DEF CountsInv, At
      <3> QED
        BY <1>1, <2>1, <2>2, <3>1 DEF CountsInv
    <2>5. SumsInv'
      <3>1. Pending(BeforeSum)' = Pending(BeforeSum) /\ Pending(BeforeTotal)' = Pending(BeforeTotal)
        BY <2>2, <2>3 DEF Pending
      <3> QED
        BY <1>1, <2>1, <3>1 DEF SumsInv
    <2>6. ExtremesInv'
      <3>1. Sampled' = Sampled
        BY <1>1 DEF Sampled
      <3>2. \A s \in Recorders : rec'[s].at \in BeforeTotal => s \in In(BeforeTotal) /\ rec'[s] = rec[s]
        BY <2>2, <2>3 DEF In
      <3>3. "cas_max" \in BeforeTotal /\ "cas_min" \in BeforeTotal
        BY DEF BeforeTotal, BeforeSum, BeforeMin, BeforeMax
      <3>4. \A x \in Sampled' : x <= metrics'.max \/ \E s \in In(BeforeMax)' : rec'[s].latency = x
        BY <1>1, <2>1, <2>2, <2>3, <3>1 DEF ExtremesInv
      <3>5. \A x \in Sampled' : x >= metrics'.min \/ \E s \in In(BeforeMin)' : rec'[s].latency = x
        BY <1>1, <2>1, <2>2, <2>3, <3>1 DEF ExtremesInv
      <3> QED
        BY <1>1, <2>1, <3>1, <3>2, <3>3, <3>4, <3>5 DEF ExtremesInv, At
    <2> QED
      BY <2>1, <2>4, <2>5, <2>6
  <1> QED
    BY <1>4, <1>5, <1>6 DEF MetricsInv

\* The fields of a reset, one after another.
FieldNames == {"operations", "total", "sample_count", "max", "min", "sum", "reservoir_count", "reservoir"}

LEMMA SuffixStep ==
  ASSUME NEW q \in ResetSuffixes, q # <<>>
  PROVE  Head(q) \in FieldNames /\ Tail(q) \in ResetSuffixes
  <1>1. CASE q = <<"operations", "total", "sample_count", "max", "min", "sum", "reservoir_count", "reservoir">>
    <2>1. Head(q) = "operations" /\ Tail(q) = <<"total", "sample_count", "max", "min", "sum", "reservoir_count", "reservoir">>
      BY <1>1
    <2> QED
      BY <2>1 DEF ResetSuffixes, FieldNames
  <1>2. CASE q = <<"total", "sample_count", "max", "min", "sum", "reservoir_count", "reservoir">>
    <2>1. Head(q) = "total" /\ Tail(q) = <<"sample_count", "max", "min", "sum", "reservoir_count", "reservoir">>
      BY <1>2
    <2> QED
      BY <2>1 DEF ResetSuffixes, FieldNames
  <1>3. CASE q = <<"sample_count", "max", "min", "sum", "reservoir_count", "reservoir">>
    <2>1. Head(q) = "sample_count" /\ Tail(q) = <<"max", "min", "sum", "reservoir_count", "reservoir">>
      BY <1>3
    <2> QED
      BY <2>1 DEF ResetSuffixes, FieldNames
  <1>4. CASE q = <<"max", "min", "sum", "reservoir_count", "reservoir">>
    <2>1. Head(q) = "max" /\ Tail(q) = <<"min", "sum", "reservoir_count", "reservoir">>
      BY <1>4
    <2> QED
      BY <2>1 DEF ResetSuffixes, FieldNames
  <1>5. CASE q = <<"min", "sum", "reservoir_count", "reservoir">>
    <2>1. Head(q) = "min" /\ Tail(q) = <<"sum", "reservoir_count", "reservoir">>
      BY <1>5
    <2> QED
      BY <2>1 DEF ResetSuffixes, FieldNames
  <1>6. CASE q = <<"sum", "reservoir_count", "reservoir">>
    <2>1. Head(q) = "sum" /\ Tail(q) = <<"reservoir_count", "reservoir">>
      BY <1>6
    <2> QED
      BY <2>1 DEF ResetSuffixes, FieldNames
  <1>7. CASE q = <<"reservoir_count", "reservoir">>
    <2>1. Head(q) = "reservoir_count" /\ Tail(q) = <<"reservoir">>
      BY <1>7
    <2> QED
      BY <2>1 DEF ResetSuffixes, FieldNames
  <1>8. CASE q = <<"reservoir">>
    <2>1. Head(q) = "reservoir" /\ Tail(q) = <<>>
      BY <1>8
    <2> QED
      BY <2>1 DEF ResetSuffixes, FieldNames
  <1> QED
    BY <1>1, <1>2, <1>3, <1>4, <1>5, <1>6, <1>7, <1>8 DEF ResetSuffixes

LEMMA SuffixIsSeq ==
  ASSUME NEW q \in ResetSuffixes
  PROVE  q \in Seq(FieldNames)
  <1>1. <<"operations", "total", "sample_count", "max", "min", "sum", "reservoir_count", "reservoir">> \in Seq(FieldNames)
    BY DEF FieldNames
  <1>2. <<"total", "sample_count", "max", "min", "sum", "reservoir_count", "reservoir">> \in Seq(FieldNames)
    BY DEF FieldNames
  <1>3. <<"sample_count", "max", "min", "sum", "reservoir_count", "reservoir">> \in Seq(FieldNames)
    BY DEF FieldNames
  <1>4. <<"max", "min", "sum", "reservoir_count", "reservoir">> \in Seq(FieldNames)
    BY DEF FieldNames
  <1>5. <<"min", "sum", "reservoir_count", "reservoir">> \in Seq(FieldNames)
    BY DEF FieldNames
  <1>6. <<"sum", "reservoir_count", "reservoir">> \in Seq(FieldNames)
    BY DEF FieldNames
  <1>7. <<"reservoir_count", "reservoir">> \in Seq(FieldNames)
    BY DEF FieldNames
  <1>8. <<"reservoir">> \in Seq(FieldNames)
    BY DEF FieldNames
  <1>9. <<>> \in Seq(FieldNames)
    BY DEF FieldNames
  <1> QED
    BY <1>1, <1>2, <1>3, <1>4, <1>5, <1>6, <1>7, <1>8, <1>9, Zenon DEF ResetSuffixes

\* Clearing a field keeps the others.
Cleared(m, h) == [m EXCEPT ![h] = NoMetrics[h]]

LEMMA ClearField ==
  ASSUME NEW m \in MetricsRecord, NEW h \in FieldNames
  PROVE  /\ Cleared(m, h) \in MetricsRecord
         /\ \A f \in DOMAIN NoMetrics \ {h} : Cleared(m, h)[f] = m[f]
         /\ Cleared(m, h)[h] = NoMetrics[h]
         /\ Cleared(m, h).reservoir_count <= m.reservoir_count
  <1>1. /\ m = [operations |-> m.operations, total |-> m.total, sample_count |-> m.sample_count,
                max |-> m.max, min |-> m.min, sum |-> m.sum,
                reservoir_count |-> m.reservoir_count, reservoir |-> m.reservoir]
        /\ m.reservoir_count \in Nat /\ DOMAIN m = FieldNames
    BY MetricsFields DEF FieldNames
  <1>2. DOMAIN NoMetrics = FieldNames
    BY DEF NoMetrics, FieldNames
  <1> DEFINE n == [m EXCEPT ![h] = NoMetrics[h]]
  <1>3. DOMAIN n = FieldNames /\ n[h] = NoMetrics[h] /\ \A f \in FieldNames \ {h} : n[f] = m[f]
    BY <1>1
  <1>4. \A f \in FieldNames : n[f] = m[f] \/ n[f] = NoMetrics[f]
    BY <1>3
  <1>5. NoMetrics \in MetricsRecord
    BY MetricsAssumption DEF NoMetrics, MetricsRecord
  <1>6. n \in MetricsRecord
    <2>1. CASE h = "operations"
      BY <2>1, MetricsFields DEF MetricsRecord, NoMetrics
    <2>2. CASE h = "total"
      BY <2>2, MetricsFields DEF MetricsRecord, NoMetrics
    <2>3. CASE h = "sample_count"
      BY <2>3, MetricsFields DEF MetricsRecord, NoMetrics
    <2>4. CASE h = "max"
      BY <2>4, MetricsFields DEF MetricsRecord, NoMetrics
    <2>5. CASE h = "min"
      BY <2>5, MetricsFields, MetricsAssumption DEF MetricsRecord, NoMetrics
    <2>6. CASE h = "sum"
      BY <2>6, MetricsFields DEF MetricsRecord, NoMetrics
    <2>7. CASE h = "reservoir_count"
      BY <2>7, MetricsFields DEF MetricsRecord, NoMetrics
    <2>8. CASE h = "reservoir"
      BY <2>8, MetricsFields DEF MetricsRecord, NoMetrics
    <2> QED
      BY <2>1, <2>2, <2>3, <2>4, <2>5, <2>6, <2>7, <2>8 DEF FieldNames
  <1>7. n.reservoir_count <= m.reservoir_count
    <2>1. "reservoir_count" \in FieldNames /\ NoMetrics.reservoir_count = 0
      BY DEF FieldNames, NoMetrics
    <2> HIDE DEF n
    <2>2. n.reservoir_count = m.reservoir_count \/ n.reservoir_count = 0
      BY <1>4, <2>1
    <2> QED
      BY <1>1, <2>2
  <1> QED
    BY <1>2, <1>3, <1>6, <1>7 DEF Cleared

\* The order in which reset clears the fields
LEMMA FieldsInOrder ==
  OperationFields \o TimingFields \o HistogramFields =
    <<"operations", "total", "sample_count", "max", "min", "sum", "reservoir_count", "reservoir">>
  <1> DEFINE o == <<"operations">>
             t == <<"total">>
             p == <<"operations", "total">>
             h == <<"sample_count", "max", "min", "sum", "reservoir_count", "reservoir">>
             q == <<"operations", "total", "sample_count", "max", "min", "sum", "reservoir_count", "reservoir">>
  <1>1. /\ o \in Seq(FieldNames) /\ t \in Seq(FieldNames) /\ p \in Seq(FieldNames)
        /\ h \in Seq(FieldNames) /\ q \in Seq(FieldNames)
    BY DEF FieldNames
  <1>2. o \o t = p
    <2>1. o \o t \in Seq(FieldNames) /\ Len(o \o t) = 2 /\ (o \o t)[1] = "operations" /\ (o \o t)[2] = "total"
      BY <1>1, ConcatProperties
    <2>2. Len(p) = 2 /\ p[1] = "operations" /\ p[2] = "total"
      OBVIOUS
    <2>3. \A i \in 1..2 : i = 1 \/ i = 2
      OBVIOUS
    <2> HIDE DEF o, t, p
    <2> QED
      BY <1>1, <2>1, <2>2, <2>3, SeqEqual
  <1>3. p \o h = q
    <2>1. p \o h \in Seq(FieldNames) /\ Len(p \o h) = 8
      BY <1>1, ConcatProperties
    <2>2. \A i \in 1..8 : (p \o h)[i] = IF i <= 2 THEN p[i] ELSE h[i - 2]
      BY <1>1, ConcatProperties
    <2>3. Len(q) = 8 /\ \A i \in 1..8 : q[i] = IF i <= 2 THEN p[i] ELSE h[i - 2]
      OBVIOUS
    <2> DEFINE c == p \o h
    <2>4. Len(c) = Len(q) /\ \A i \in 1..Len(c) : c[i] = q[i]
      BY <2>1, <2>2, <2>3
    <2>5. c \in Seq(FieldNames) /\ q \in Seq(FieldNames)
      BY <1>1, <2>1
    <2> HIDE DEF c, q
    <2>6. c = q
      BY <2>4, <2>5, SeqEqual
    <2> QED
      BY <2>6 DEF c
  <1> QED
    BY <1>2, <1>3 DEF OperationFields, TimingFields, HistogramFields

\* A reset begins; unless it overlaps an operation, nobody moves until it ends.
LEMMA ResetBeginKeeps ==
  ASSUME MetricsInv, ResetBegin
  PROVE  MetricsInv'
  <1>1. /\ metrics' = metrics /\ rec' = rec /\ enabled' = enabled /\ truth' = <<>>
        /\ blurred' = Busy
        /\ resetter' = <<"operations", "total", "sample_count", "max", "min", "sum", "reservoir_count", "reservoir">>
    BY FieldsInOrder DEF ResetBegin
  <1>2. resetter' \in ResetSuffixes /\ resetter' # <<>> /\ truth' \in Seq(Latencies)
    BY <1>1 DEF ResetSuffixes
  <1>3. MetricsTypeOK' /\ RoomInv'
    BY <1>1, <1>2 DEF MetricsInv, MetricsTypeOK, RoomInv, Adding
  <1>4. ASSUME ~blurred' PROVE ClearingInv'
    <2>1. ~Busy' /\ truth' = <<>>
      BY <1>1, <1>4 DEF Busy, At
    <2>2. DOMAIN NoMetrics \subseteq Uncleared'
      <3> DEFINE q == resetter'
      <3>1. /\ DOMAIN q = 1..8 /\ q[1] = "operations" /\ q[2] = "total" /\ q[3] = "sample_count"
            /\ q[4] = "max" /\ q[5] = "min" /\ q[6] = "sum" /\ q[7] = "reservoir_count" /\ q[8] = "reservoir"
        BY <1>1
      <3>2. DOMAIN NoMetrics = FieldNames
        BY DEF NoMetrics, FieldNames
      <3>3. /\ 1 \in 1..8 /\ 2 \in 1..8 /\ 3 \in 1..8 /\ 4 \in 1..8 /\ 5 \in 1..8 /\ 6 \in 1..8
            /\ 7 \in 1..8 /\ 8 \in 1..8
        OBVIOUS
      <3>4. Uncleared' = {q[k] : k \in 1..8}
        BY <3>1 DEF Uncleared
      <3> HIDE DEF q
      <3> QED
        BY <3>1, <3>2, <3>3, <3>4 DEF FieldNames
    <2> QED
      BY <2>1, <2>2 DEF ClearingInv
  <1> QED
    BY <1>2, <1>3, <1>4 DEF MetricsInv

\* A reset clears its next field.
LEMMA ResetFieldEffect ==
  ASSUME MetricsInv, ResetField
  PROVE  /\ metrics' \in MetricsRecord /\ metrics'.reservoir_count <= metrics.reservoir_count
         /\ resetter' \in ResetSuffixes
         /\ rec' = rec /\ truth' = truth /\ enabled' = enabled
         /\ ~blurred' => /\ ~Busy' /\ truth' = <<>>
                         /\ \A f \in DOMAIN NoMetrics \ Uncleared' : metrics'[f] = NoMetrics[f]
  <1> DEFINE h == Head(resetter)
  <1>0. MetricsTypeOK /\ resetter # <<>> /\ resetter \in ResetSuffixes /\ metrics \in MetricsRecord
    BY DEF MetricsInv, MetricsTypeOK, ResetField
  <1>1. /\ metrics' = Cleared(metrics, h) /\ resetter' = Tail(resetter)
        /\ rec' = rec /\ truth' = truth /\ blurred' = blurred /\ enabled' = enabled
    BY DEF ResetField, Cleared
  <1>2. h \in FieldNames /\ resetter' \in ResetSuffixes
    BY <1>0, <1>1, SuffixStep
  <1>3. Uncleared \subseteq Uncleared' \union {h}
    <2>1. resetter \in Seq(FieldNames) /\ resetter # <<>>
      BY <1>0, SuffixIsSeq
    <2>2. ASSUME NEW k \in DOMAIN resetter PROVE resetter[k] = h \/ resetter[k] \in Uncleared'
      <3>1. CASE k = 1
        BY <2>1, <3>1
      <3>2. CASE k # 1
        <4>1. k - 1 \in DOMAIN Tail(resetter) /\ Tail(resetter)[k - 1] = resetter[k]
          BY <2>1, <2>2, <3>2
        <4> QED
          BY <1>1, <4>1 DEF Uncleared
      <3> QED
        BY <3>1, <3>2
    <2> QED
      BY <2>2 DEF Uncleared
  <1> HIDE DEF h
  <1>4. /\ metrics' \in MetricsRecord
        /\ \A f \in DOMAIN NoMetrics \ {h} : metrics'[f] = metrics[f]
        /\ metrics'[h] = NoMetrics[h]
        /\ metrics'.reservoir_count <= metrics.reservoir_count
    BY <1>0, <1>1, <1>2, ClearField
  <1>5. ASSUME ~blurred'
        PROVE  ~Busy' /\ truth' = <<>> /\ \A f \in DOMAIN NoMetrics \ Uncleared' : metrics'[f] = NoMetrics[f]
    <2>1. ClearingInv
      BY <1>0, <1>1, <1>5 DEF MetricsInv
    <2>2. ~Busy' /\ truth' = <<>>
      BY <1>1, <2>1 DEF ClearingInv, Busy, At
    <2>3. ASSUME NEW f \in DOMAIN NoMetrics \ Uncleared' PROVE metrics'[f] = NoMetrics[f]
      <3>1. CASE f = h
        BY <1>4, <3>1
      <3>2. CASE f # h
        BY <1>3, <1>4, <2>1, <2>3, <3>2 DEF ClearingInv
      <3> QED
        BY <3>1, <3>2
    <2> QED
      BY <2>2, <2>3
  <1> QED
    BY <1>1, <1>2, <1>4, <1>5

\* When the last field is clear, the metrics are those of no operation.
LEMMA ResetFieldKeeps ==
  ASSUME MetricsInv, ResetField
  PROVE  MetricsInv'
  <1>1. /\ metrics' \in MetricsRecord /\ metrics'.reservoir_count <= metrics.reservoir_count
        /\ resetter' \in ResetSuffixes
        /\ rec' = rec /\ truth' = truth /\ enabled' = enabled
    BY ResetFieldEffect
  <1>2. MetricsTypeOK'
    BY <1>1 DEF MetricsInv, MetricsTypeOK
  <1>3. RoomInv'
    <2>1. Adding' \subseteq Adding
      BY <1>1 DEF Adding
    <2> QED
      BY <1>1, <2>1, RoomSame DEF MetricsInv, MetricsTypeOK
  <1>4. ASSUME ~blurred' PROVE /\ ~Busy' /\ truth' = <<>>
                              /\ \A f \in DOMAIN NoMetrics \ Uncleared' : metrics'[f] = NoMetrics[f]
    BY <1>4, ResetFieldEffect
  <1>5. ASSUME ~blurred', resetter' = <<>> PROVE CountsInv' /\ SumsInv' /\ ExtremesInv'
    <2>1. Uncleared' = {}
      BY <1>5 DEF Uncleared
    <2> QED
      BY <1>4, <1>5, <2>1, ClearedExact
  <1>6. ASSUME ~blurred', resetter' # <<>> PROVE ClearingInv'
    BY <1>4, <1>6 DEF ClearingInv
  <1> QED
    BY <1>2, <1>3, <1>5, <1>6 DEF MetricsInv

-----------------------------------------------------------------------------
(* Theorems *)

\* Everything that the recorders still carry accounts for what the metrics
\* lack, and a recorder that has seen room in the reservoir counts once: the
\* inductive invariant, for every interleaving of recorders, switches and resets.
THEOREM MetricsInvariance ==
  MetricsSpec => []MetricsInv
  <1>1. MetricsInv /\ [MetricsNext]_metricsVars => MetricsInv'
    <2> SUFFICES ASSUME MetricsInv, [MetricsNext]_metricsVars PROVE MetricsInv'
      OBVIOUS
    <2>1. CASE MetricsNext
      <3>0. ~blurred
        BY <2>1 DEF MetricsNext
      <3>1. CASE \E e \in BOOLEAN : SetEnabled(e)
        BY <3>0, <3>1, SetEnabledKeeps
      <3>2. CASE \E r \in Recorders, l \in Latencies : MakeTimer(r, l)
        BY <3>0, <3>2, MakeTimerKeeps
      <3>3. CASE \E r \in Recorders : CountOperation(r)
        BY <3>0, <3>3, CountOperationKeeps
      <3>4. CASE \E r \in Recorders : Record(r)
        <4>1. PICK r \in Recorders : Record(r)
          BY <3>4
        <4> QED
          BY <3>0, <4>1, CountSampleKeeps, LoadMaxKeeps, CasMaxKeeps, LoadMinKeeps, CasMinKeeps, AddSumKeeps,
             LoadCountKeeps, FillSlotKeeps, FillCountKeeps, ReplaceKeeps, AddTotalKeeps DEF Record
      <3>5. CASE ResetBegin
        BY <3>5, ResetBeginKeeps
      <3>6. CASE ResetField
        BY <3>6, ResetFieldKeeps
      <3> QED
        BY <2>1, <3>1, <3>2, <3>3, <3>4, <3>5, <3>6 DEF MetricsNext
    <2>2. CASE UNCHANGED metricsVars
      <3>1. /\ enabled' = enabled /\ metrics' = metrics /\ rec' = rec /\ resetter' = resetter
            /\ truth' = truth /\ blurred' = blurred
        BY <2>2 DEF metricsVars
      <3>2. MetricsTypeOK' /\ RoomInv'
        BY <3>1 DEF MetricsInv, MetricsTypeOK, RoomInv, Adding
      <3>3. CountsInv => CountsInv'
        BY <3>1 DEF CountsInv, At, In
      <3>4. SumsInv => SumsInv'
        BY <3>1 DEF SumsInv, Pending, In
      <3>5. ExtremesInv => ExtremesInv'
        BY <3>1 DEF ExtremesInv, Sampled, At, In
      <3>6. ClearingInv => ClearingInv'
        BY <3>1 DEF ClearingInv, Busy, At, Uncleared
      <3> QED
        BY <3>1, <3>2, <3>3, <3>4, <3>5, <3>6 DEF MetricsInv
    <2> QED
      BY <2>1, <2>2
  <1> QED
    BY <1>1, MetricsInitInv, PTL DEF MetricsSpec

\* The counters, sums and extremes of latency_histogram, operation_counts and
\* timing_metrics are exact once everybody is done, whatever the number of
\* recorders, the latencies and the interleaving of the relaxed accesses.
THEOREM TotalsAreExact ==
  MetricsSpec => []TotalsExact
  <1>1. MetricsInv => TotalsExact
    <2> SUFFICES ASSUME MetricsInv, ~Busy, resetter = <<>>, ~blurred
                 PROVE  /\ metrics.operations = Len(truth) /\ metrics.sample_count = Len(truth)
                        /\ metrics.sum = Total(truth) /\ metrics.total = metrics.sum
                        /\ metrics.max = (IF truth = <<>> THEN 0 ELSE Max(Sampled))
                        /\ metrics.min = (IF truth = <<>> THEN UINT64_MAX ELSE Min(Sampled))
      BY DEF TotalsExact
    <2>0. CountsInv /\ SumsInv /\ ExtremesInv /\ MetricsTypeOK
      BY DEF MetricsInv
    <2>1. \A r \in Recorders : rec[r].at = "idle"
      BY DEF Busy, At
    <2>2. In({"sampling"}) = {} /\ In(BeforeMax) = {} /\ In(BeforeMin) = {} /\ In(BeforeSum) = {}
          /\ In(BeforeTotal) = {}
      BY <2>1 DEF In, BeforeTotal, BeforeSum, BeforeMin, BeforeMax
    <2>3. /\ metrics.sum \in Nat /\ metrics.total \in Nat /\ metrics.max \in Nat /\ metrics.min \in Nat
          /\ metrics.operations \in Nat /\ Len(truth) \in Nat
      BY <2>0, MetricsFields DEF MetricsTypeOK
    <2>4. metrics.operations = Len(truth) /\ metrics.sample_count = Len(truth)
      <3>1. Cardinality(In({"sampling"})) = 0
        BY <2>2, FS_EmptySet
      <3> QED
        BY <2>0, <2>3, <3>1 DEF CountsInv
    <2>5. metrics.sum = Total(truth) /\ metrics.total = metrics.sum
      <3>1. DOMAIN Pending(BeforeSum) = {} /\ DOMAIN Pending(BeforeTotal) = {}
        BY <2>2 DEF Pending
      <3>2. Total(Pending(BeforeSum)) = 0 /\ Total(Pending(BeforeTotal)) = 0
        BY <3>1, NoUnits
      <3> QED
        BY <2>0, <2>3, <3>2 DEF SumsInv
    <2>6. /\ \A x \in Sampled : x <= metrics.max
          /\ \A x \in Sampled : x >= metrics.min
          /\ metrics.max \in Sampled \union {0} /\ metrics.min \in Sampled \union {UINT64_MAX}
      BY <2>0, <2>2 DEF ExtremesInv
    <2>7. CASE truth = <<>>
      <3>1. Sampled = {}
        BY <2>7 DEF Sampled
      <3> QED
        BY <2>4, <2>5, <2>6, <2>7, <3>1
    <2>8. CASE truth # <<>>
      <3>1. PICK w : w \in Sampled
        <4>1. truth \in Seq(Latencies) /\ 1 \in DOMAIN truth
          BY <2>0, <2>8 DEF MetricsTypeOK
        <4> QED
          BY <4>1 DEF Sampled
      <3>2. Sampled \subseteq Nat /\ \A x \in Sampled : x < UINT64_MAX
        BY <2>0, SampledLatencies, MetricsAssumption
      <3>3. metrics.max \in Sampled /\ metrics.min \in Sampled
        BY <2>3, <2>6, <3>1, <3>2, MetricsAssumption
      <3>4. Max(Sampled) = metrics.max
        <4>1. Max(Sampled) \in Sampled /\ \A y \in Sampled : Max(Sampled) >= y
          <5>1. \E x \in Sampled : \A y \in Sampled : x >= y
            BY <2>6, <3>2, <3>3
          <5> QED
            BY <5>1, Zenon DEF Max
        <4>2. Max(Sampled) \in Nat /\ Max(Sampled) >= metrics.max /\ Max(Sampled) <= metrics.max
          BY <2>6, <3>2, <3>3, <4>1, Zenon
        <4> QED
          BY <2>3, <4>2
      <3>5. Min(Sampled) = metrics.min
        <4>1. Min(Sampled) \in Sampled /\ \A y \in Sampled : Min(Sampled) <= y
          <5>1. \E x \in Sampled : \A y \in Sampled : x <= y
            BY <2>6, <3>2, <3>3
          <5> QED
            BY <5>1, Zenon DEF Min
        <4>2. Min(Sampled) \in Nat /\ Min(Sampled) <= metrics.min /\ Min(Sampled) >= metrics.min
          BY <2>6, <3>2, <3>3, <4>1, Zenon
        <4> QED
          BY <2>3, <4>2
      <3> QED
        BY <2>4, <2>5, <2>8, <3>4, <3>5
    <2> QED
      BY <2>7, <2>8
  <1> QED
    BY <1>1, MetricsInvariance, PTL

\* The unsynchronised check of reservoir_count in record() lets it pass the
\* size of the reservoir by less than the number of recorders, and no more.
THEOREM OvershootBounded ==
  MetricsSpec => []Overshoot
  <1>1. MetricsInv => Overshoot
    <2> SUFFICES ASSUME MetricsInv PROVE Overshoot
      OBVIOUS
    <2>1. IsFiniteSet(Adding)
      BY MetricsAssumption, FS_Subset DEF Adding
    <2>2. Cardinality(Adding) \in Nat /\ Cardinality(Recorders) \in Nat
      BY <2>1, MetricsAssumption, FS_CardinalityType
    <2>3. metrics.reservoir_count \in Nat /\ ReservoirSize \in Nat
      BY MetricsFields, MetricsAssumption DEF MetricsInv, MetricsTypeOK
    <2> QED
      BY <2>2, <2>3 DEF MetricsInv, RoomInv, Overshoot
  <1> QED
    BY <1>1, MetricsInvariance, PTL

-----------------------------------------------------------------------------
(* Induction *)

\* A set of natural numbers that is not empty has a least element.
LEMMA LeastNumber ==
  ASSUME NEW T, T \subseteq Nat, T # {}
  PROVE  \E x \in T : \A y \in T : x <= y
  <1> DEFINE R == OpToRel(<, Nat)
  <1>1. IsWellFoundedOn(R, Nat)
    BY NatLessThanWellFounded
  <1>2. \A x, y \in Nat : x < y => <<x, y>> \in R
    BY DEF OpToRel
  <1> HIDE DEF R
  <1>3. PICK x \in T : \A y \in T : ~ (<<y, x>> \in R)
    BY <1>1, WFMin
  <1>4. \A y \in T : ~ (y < x)
    BY <1>2, <1>3
  <1>5. \A y \in T : x <= y
    BY <1>4
  <1> QED
    BY <1>5

\* Induction over the natural numbers, for a set.
LEMMA SetInduction ==
  ASSUME NEW S, 0 \in S, \A n \in Nat : n \in S => n + 1 \in S
  PROVE  Nat \subseteq S
  <1> SUFFICES ASSUME ~ (Nat \subseteq S) PROVE FALSE
    OBVIOUS
  <1> DEFINE T == Nat \ S
  <1>1. PICK x \in T : \A y \in T : x <= y
    <2>1. T \subseteq Nat /\ T # {}
      OBVIOUS
    <2> HIDE DEF T
    <2> QED
      BY <2>1, LeastNumber
  <1>2. x \in Nat /\ x # 0 /\ x - 1 \in Nat /\ x - 1 \notin T
    BY <1>1
  <1> QED
    BY <1>2

-----------------------------------------------------------------------------
(* Sorting, as std::sort does in get_percentile *)

\* The first n values are in order when they are taken by p.
Sorts(p, v, n) ==
  /\ p \in [1..n -> 1..n]
  /\ \A i, j \in 1..n : p[i] = p[j] => i = j
  /\ \A k \in 1..n : \E i \in 1..n : p[i] = k
  /\ \A i, j \in 1..n : i <= j => v[p[i]] <= v[p[j]]

LEMMA AtMost ==
  ASSUME NEW a \in Nat, NEW b \in Nat, NEW c \in Nat, a <= b, b <= c \/ c > b
  PROVE  a <= c
  OBVIOUS

\* One more value is put behind the last that is not greater.
LEMMA SortsOneMore ==
  ASSUME NEW n \in Nat, NEW v, \A i \in 1..(n + 1) : v[i] \in Nat, NEW p, Sorts(p, v, n)
  PROVE  \E q : Sorts(q, v, n + 1)
  <1> DEFINE x == v[n + 1]
             T == {k \in 0..n : \A i \in 1..n : i > k => v[p[i]] > x}
  <1>1. p \in [1..n -> 1..n] /\ x \in Nat /\ \A i \in 1..n : v[p[i]] \in Nat
    <2>0. p \in [1..n -> 1..n]
      BY DEF Sorts
    <2>1. n + 1 \in 1..(n + 1) /\ 1..n \subseteq 1..(n + 1)
      OBVIOUS
    <2>2. \A i \in 1..n : p[i] \in 1..(n + 1)
      BY <2>0, <2>1
    <2> QED
      BY <2>0, <2>1, <2>2
  <1>2. PICK k \in T : \A j \in T : k <= j
    <2>1. n \in T
      OBVIOUS
    <2>2. T \subseteq Nat /\ T # {}
      BY <2>1
    <2> HIDE DEF T
    <2> QED
      BY <2>2, LeastNumber
  <1>3. k \in 0..n /\ \A i \in 1..n : i > k => v[p[i]] > x
    BY <1>2
  <1>4. \A i \in 1..n : i <= k => v[p[i]] <= x
    <2>1. ASSUME k > 0 PROVE v[p[k]] <= x
      <3>1. k - 1 \notin T /\ k - 1 \in 0..n /\ k \in 1..n
        BY <1>2, <1>3, <2>1
      <3>2. PICK i \in 1..n : i > k - 1 /\ ~(v[p[i]] > x)
        BY <3>1
      <3>3. i = k
        BY <1>3, <3>1, <3>2
      <3> QED
        <4>1. v[p[k]] \in Nat /\ ~(v[p[k]] > x)
          BY <1>1, <3>1, <3>2, <3>3
        <4> HIDE DEF x
        <4> QED
          BY <1>1, <4>1
    <2>2. ASSUME NEW i \in 1..n, i <= k PROVE v[p[i]] <= x
      <3>1. k > 0 /\ k \in 1..n
        BY <1>3, <2>2
      <3>2. v[p[i]] <= v[p[k]] /\ v[p[k]] <= x
        BY <2>1, <2>2, <3>1 DEF Sorts
      <3>3. v[p[i]] \in Nat /\ v[p[k]] \in Nat
        BY <1>1, <3>1
      <3> HIDE DEF x, T
      <3> QED
        BY <1>1, <3>2, <3>3, AtMost
    <2> QED
      BY <2>2
  <1> DEFINE q == [i \in 1..(n + 1) |-> IF i <= k THEN p[i] ELSE IF i = k + 1 THEN n + 1 ELSE p[i - 1]]
  <1>5. q \in [1..(n + 1) -> 1..(n + 1)]
    <2>1. \A i \in 1..(n + 1) : q[i] \in 1..(n + 1)
      BY <1>1, <1>3
    <2> QED
      BY <2>1
  <1>6. \A i \in 1..(n + 1) : /\ i <= k => i \in 1..n /\ q[i] = p[i]
                              /\ i = k + 1 => q[i] = n + 1
                              /\ i > k + 1 => i - 1 \in 1..n /\ q[i] = p[i - 1]
    BY <1>3
  <1>7. \A i, j \in 1..(n + 1) : q[i] = q[j] => i = j
    <2>1. \A i \in 1..n : p[i] \in 1..n
      BY <1>1
    <2>2. \A i, j \in 1..n : p[i] = p[j] => i = j
      BY DEF Sorts
    <2> HIDE DEF q, T
    <2> QED
      BY <1>3, <1>6, <2>1, <2>2
  <1>8. \A m \in 1..(n + 1) : \E i \in 1..(n + 1) : q[i] = m
    <2> SUFFICES ASSUME NEW m \in 1..(n + 1) PROVE \E i \in 1..(n + 1) : q[i] = m
      OBVIOUS
    <2>1. CASE m = n + 1
      <3>1. k + 1 \in 1..(n + 1) /\ q[k + 1] = n + 1
        BY <1>3, <1>6
      <3> QED
        BY <2>1, <3>1
    <2>2. CASE m # n + 1
      <3>1. PICK i \in 1..n : p[i] = m
        BY <2>2 DEF Sorts
      <3>2. CASE i <= k
        <4>1. i \in 1..(n + 1) /\ q[i] = m
          BY <3>1, <3>2
        <4> QED
          BY <4>1
      <3>3. CASE i > k
        <4>1. i + 1 \in 1..(n + 1) /\ q[i + 1] = m
          BY <1>3, <3>1, <3>3
        <4> QED
          BY <4>1
      <3> QED
        BY <1>3, <3>2, <3>3
    <2> QED
      BY <2>1, <2>2
  <1>9. \A i, j \in 1..(n + 1) : i <= j => v[q[i]] <= v[q[j]]
    <2> SUFFICES ASSUME NEW i \in 1..(n + 1), NEW j \in 1..(n + 1), i <= j PROVE v[q[i]] <= v[q[j]]
      OBVIOUS
    <2>1. \A a, b \in 1..n : a <= b => v[p[a]] <= v[p[b]]
      BY DEF Sorts
    <2>2. v[q[k + 1]] = x /\ k + 1 \in 1..(n + 1)
      BY <1>3, <1>6
    <2> HIDE DEF q, T, x
    <2>3. CASE j <= k
      BY <1>3, <1>6, <2>1, <2>3
    <2>4. CASE j = k + 1
      <3>1. CASE i <= k
        BY <1>3, <1>4, <1>6, <2>2, <2>4, <3>1
      <3>2. CASE i = k + 1
        BY <1>1, <2>2, <2>4, <3>2
      <3> QED
        BY <1>3, <2>4, <3>1, <3>2
    <2>5. CASE j > k + 1
      <3>1. j - 1 \in 1..n /\ v[q[j]] = v[p[j - 1]] /\ v[p[j - 1]] > x /\ v[p[j - 1]] \in Nat
        BY <1>1, <1>3, <1>6, <2>5
      <3>2. CASE i <= k
        <4>1. i \in 1..n /\ v[q[i]] = v[p[i]] /\ v[p[i]] <= x /\ v[p[i]] \in Nat
          BY <1>1, <1>4, <1>6, <3>2
        <4> QED
          BY <1>1, <3>1, <4>1, AtMost
      <3>3. CASE i = k + 1
        BY <1>1, <2>2, <3>1, <3>3
      <3>4. CASE i > k + 1
        <4>1. i - 1 \in 1..n /\ v[q[i]] = v[p[i - 1]] /\ i - 1 <= j - 1
          BY <1>6, <3>4
        <4> QED
          BY <2>1, <3>1, <4>1
      <3> QED
        BY <1>3, <3>2, <3>3, <3>4
    <2> QED
      BY <1>3, <2>3, <2>4, <2>5
  <1> HIDE DEF q
  <1> QED
    BY <1>5, <1>7, <1>8, <1>9 DEF Sorts

LEMMA Sortable ==
  ASSUME NEW n \in Nat, NEW v \in [1..n -> Nat]
  PROVE  \E p : Sorts(p, v, n)
  <1> DEFINE S == {m \in Nat : m <= n => \E p : Sorts(p, v, m)}
  <1>1. 0 \in S
    <2>1. Sorts([i \in 1..0 |-> 0], v, 0)
      BY DEF Sorts
    <2> QED
      BY <2>1
  <1>2. ASSUME NEW m \in Nat, m \in S PROVE m + 1 \in S
    <2> SUFFICES ASSUME m + 1 <= n PROVE \E p : Sorts(p, v, m + 1)
      OBVIOUS
    <2>1. PICK p : Sorts(p, v, m)
      BY <1>2
    <2>2. \A i \in 1..(m + 1) : v[i] \in Nat
      OBVIOUS
    <2> QED
      BY <2>1, <2>2, SortsOneMore
  <1>3. Nat \subseteq S
    <2> HIDE DEF S
    <2> QED
      BY <1>1, <1>2, SetInduction
  <1> QED
    BY <1>3

\* The sequence that std::sort leaves exists.
LEMMA SortedExists ==
  ASSUME NEW n \in Nat, NEW v \in [1..n -> Nat]
  PROVE  \E s \in [DOMAIN v -> ToSet(v)] : Ascends(s) /\ BagOf(s) = BagOf(v)
  <1>1. PICK p : Sorts(p, v, n)
    BY Sortable
  <1> DEFINE s == [i \in 1..n |-> v[p[i]]]
  <1>2. p \in [1..n -> 1..n] /\ DOMAIN v = 1..n
    BY <1>1 DEF Sorts
  <1>3. s \in [1..n -> ToSet(v)] /\ DOMAIN s = 1..n
    BY <1>2 DEF ToSet
  <1>4. Ascends(s)
    BY <1>1, <1>3 DEF Ascends, Sorts
  <1>5. ToSet(s) = ToSet(v)
    <2>1. ToSet(s) \subseteq ToSet(v)
      BY <1>2 DEF ToSet
    <2>2. ASSUME NEW k \in 1..n PROVE v[k] \in ToSet(s)
      <3>1. PICK i \in 1..n : p[i] = k
        BY <1>1 DEF Sorts
      <3>2. s[i] = v[k]
        BY <3>1
      <3> QED
        BY <1>3, <3>2 DEF ToSet
    <2> QED
      BY <1>2, <2>1, <2>2 DEF ToSet
  <1>6. ASSUME NEW x
        PROVE  Cardinality({i \in DOMAIN s : s[i] = x}) = Cardinality({i \in DOMAIN v : v[i] = x})
    <2> DEFINE A == {i \in 1..n : s[i] = x}
               B == {i \in 1..n : v[i] = x}
               b == [i \in A |-> p[i]]
    <2>1. b \in [A -> B] /\ \A i, j \in A : b[i] = b[j] => i = j
      BY <1>1, <1>2 DEF Sorts
    <2>2. ASSUME NEW k \in B PROVE \E i \in A : b[i] = k
      <3>1. PICK i \in 1..n : p[i] = k
        BY <1>1 DEF Sorts
      <3>2. i \in A /\ b[i] = k
        BY <2>2, <3>1
      <3> QED
        BY <3>2
    <2>3. b \in Bijection(A, B)
      BY <2>1, <2>2 DEF Bijection, Injection, Surjection, IsInjective
    <2>4. IsFiniteSet(A)
      <3>1. IsFiniteSet(1..n) /\ A \subseteq 1..n
        BY FS_Interval
      <3> HIDE DEF A
      <3> QED
        BY <3>1, FS_Subset
    <2>5. ExistsBijection(A, B)
      BY <2>3 DEF ExistsBijection
    <2>6. Cardinality(A) = Cardinality(B)
      <3> HIDE DEF A, B
      <3> QED
        BY <2>4, <2>5, FS_Bijection
    <2> QED
      BY <1>2, <1>3, <2>6
  <1>7. BagOf(s) = BagOf(v)
    <2> HIDE DEF s
    <2> QED
      BY <1>5, <1>6 DEF BagOf
  <1> HIDE DEF s
  <1> QED
    BY <1>2, <1>3, <1>4, <1>7

\* What get_percentile looks into, when the array holds as many values as are counted.
LEMMA SortedIs ==
  ASSUME NEW h, NEW n \in Nat, n <= ReservoirSize, h.reservoir_count = n, h.reservoir \in [Slots -> Nat]
  PROVE  /\ DOMAIN Sorted(h) = 1..n
         /\ \A i \in 1..n : \E k \in 1..n : Sorted(h)[i] = h.reservoir[k]
         /\ Ascends(Sorted(h))
         /\ BagOf(Sorted(h)) = BagOf([i \in 1..n |-> h.reservoir[i]])
  <1> DEFINE v == SubSeq(h.reservoir, 1, h.reservoir_count)
  <1>1. v = [i \in 1..n |-> h.reservoir[i]]
    BY MetricsAssumption DEF Slots
  <1> HIDE DEF v
  <1>2. v \in [1..n -> Nat] /\ DOMAIN v = 1..n /\ \A i \in 1..n : v[i] = h.reservoir[i]
    <2>1. 1..n \subseteq Slots
      BY MetricsAssumption DEF Slots
    <2> QED
      BY <1>1, <2>1
  <1>3. \E s \in [DOMAIN v -> ToSet(v)] : Ascends(s) /\ BagOf(s) = BagOf(v)
    BY <1>2, SortedExists
  <1>4. Sorted(h) = CHOOSE s \in [DOMAIN v -> ToSet(v)] : Ascends(s) /\ BagOf(s) = BagOf(v)
    BY DEF Sorted, v
  <1>5. Sorted(h) \in [DOMAIN v -> ToSet(v)] /\ Ascends(Sorted(h)) /\ BagOf(Sorted(h)) = BagOf(v)
    BY <1>3, <1>4
  <1>6. \A i \in 1..n : \E k \in 1..n : Sorted(h)[i] = h.reservoir[k]
    <2>1. \A i \in 1..n : Sorted(h)[i] \in ToSet(v)
      BY <1>2, <1>5
    <2>2. \A y \in ToSet(v) : \E k \in 1..n : y = h.reservoir[k]
      BY <1>2 DEF ToSet
    <2> QED
      BY <2>1, <2>2
  <1> QED
    BY <1>1, <1>2, <1>5, <1>6
-----------------------------------------------------------------------------
(* The reservoir *)

\* Recorders that have a sample, and have not looked at the reservoir yet
Early == {"load_max", "cas_max", "load_min", "cas_min", "summing", "load_count"}
\* Recorders that have seen room, and have still to store their sample
Storing == {r \in Recorders : rec[r].at = "reservoir" /\ "slot" \in rec[r].todo}

\* The slots that hold a sample: those counted but for the one that is still
\* to be stored, and the one that is stored before it is counted
Filled == {i \in Slots : \/ i <= metrics.reservoir_count /\ \A r \in Storing : i # rec[r].idx + 1
                         \/ \E r \in Adding \ Storing : i = rec[r].idx + 1}

SlotsWith(x) == {i \in Filled : metrics.reservoir[i] = x}
UnstoredWith(x) == {r \in In(Early) \union Storing : rec[r].latency = x}
SamplesWith(x) == {i \in DOMAIN truth : truth[i] = x}

\* One recorder at a time fills the reservoir, at the slot behind the last.
OneFills ==
  /\ \A r, s \in Storing \union Adding : r = s
  /\ metrics.reservoir_count <= ReservoirSize
  /\ \A r \in Adding : rec[r].idx = metrics.reservoir_count /\ rec[r].idx < ReservoirSize
  /\ \A r \in Storing \ Adding : rec[r].idx + 1 = metrics.reservoir_count

\* Every sample is counted, or its recorder will, until there is no room.
AllCounted ==
  \/ metrics.reservoir_count + Cardinality(In(Early) \union Adding) = Len(truth)
  \/ metrics.reservoir_count = ReservoirSize /\ Len(truth) > ReservoirSize

\* A recorder that finds no room has more samples before it than there are slots.
NoRoom == \A r \in Recorders : At(r, "reservoir") /\ rec[r].todo = {} => Len(truth) > ReservoirSize

\* As long as there is room every sample is in a slot, or its recorder will store it.
AllStored ==
  Len(truth) <= ReservoirSize =>
    \A x : Cardinality(SlotsWith(x)) + Cardinality(UnstoredWith(x)) = Cardinality(SamplesWith(x))

ReservoirInv ==
  /\ OneFills /\ AllCounted /\ NoRoom /\ AllStored
  /\ \A i \in Filled : metrics.reservoir[i] \in Sampled
HonestInv == ~blurred /\ ~overlapped /\ resetter = <<>> => ReservoirInv

LEMMA ReservoirFinite ==
  ASSUME MetricsTypeOK
  PROVE  /\ IsFiniteSet(In(Early) \union Adding) /\ IsFiniteSet(Filled)
         /\ \A x : /\ IsFiniteSet(SlotsWith(x)) /\ IsFiniteSet(UnstoredWith(x)) /\ IsFiniteSet(SamplesWith(x))
                   /\ Cardinality(SlotsWith(x)) \in Nat /\ Cardinality(UnstoredWith(x)) \in Nat
                   /\ Cardinality(SamplesWith(x)) \in Nat
         /\ Cardinality(In(Early) \union Adding) \in Nat
         /\ metrics.reservoir_count \in Nat /\ metrics.reservoir \in [Slots -> Nat]
         /\ Len(truth) \in Nat /\ DOMAIN truth = 1..Len(truth) /\ ReservoirSize \in Nat
  <1>1. IsFiniteSet(Recorders) /\ IsFiniteSet(Slots) /\ ReservoirSize \in Nat
    BY MetricsAssumption, FS_Interval DEF Slots
  <1>2. Len(truth) \in Nat /\ DOMAIN truth = 1..Len(truth) /\ IsFiniteSet(DOMAIN truth)
    <2>1. Len(truth) \in Nat /\ DOMAIN truth = 1..Len(truth)
      BY DEF MetricsTypeOK
    <2> QED
      BY <2>1, FS_Interval
  <1>3. In(Early) \union Adding \subseteq Recorders /\ Filled \subseteq Slots
    BY DEF In, Adding, Filled
  <1>4. ASSUME NEW x
        PROVE  SlotsWith(x) \subseteq Slots /\ UnstoredWith(x) \subseteq Recorders /\ SamplesWith(x) \subseteq DOMAIN truth
    BY DEF SlotsWith, UnstoredWith, SamplesWith, In, Storing, Filled
  <1>5. metrics.reservoir_count \in Nat /\ metrics.reservoir \in [Slots -> Nat]
    BY MetricsFields DEF MetricsTypeOK
  <1>6. IsFiniteSet(In(Early) \union Adding) /\ IsFiniteSet(Filled)
    BY <1>1, <1>3, FS_Subset
  <1>7. ASSUME NEW x
        PROVE  IsFiniteSet(SlotsWith(x)) /\ IsFiniteSet(UnstoredWith(x)) /\ IsFiniteSet(SamplesWith(x))
    BY <1>1, <1>2, <1>4, FS_Subset
  <1> QED
    BY <1>1, <1>2, <1>5, <1>6, <1>7, FS_CardinalityType

\* A step that leaves the reservoir and those who will fill it alone.
LEMMA ReservoirSame ==
  ASSUME ReservoirInv, In(Early)' = In(Early), Storing' = Storing, Adding' = Adding,
         \A r \in In(Early) \union Storing : rec'[r].latency = rec[r].latency,
         \A r \in Storing \union Adding : rec'[r].idx = rec[r].idx,
         \A r \in Recorders : At(r, "reservoir")' /\ rec'[r].todo = {} => At(r, "reservoir") /\ rec[r].todo = {},
         metrics'.reservoir_count = metrics.reservoir_count, metrics'.reservoir = metrics.reservoir,
         truth' = truth
  PROVE  ReservoirInv'
  <1>1. Filled' = Filled /\ Sampled' = Sampled
    BY DEF Filled, Sampled
  <1>2. \A x : SlotsWith(x)' = SlotsWith(x) /\ UnstoredWith(x)' = UnstoredWith(x) /\ SamplesWith(x)' = SamplesWith(x)
    BY <1>1 DEF SlotsWith, UnstoredWith, SamplesWith
  <1>3. OneFills'
    BY DEF OneFills, ReservoirInv
  <1>4. AllCounted' /\ NoRoom'
    BY DEF AllCounted, NoRoom, ReservoirInv
  <1>5. AllStored'
    BY <1>2 DEF AllStored, ReservoirInv
  <1>6. \A i \in Filled' : metrics'.reservoir[i] \in Sampled'
    BY <1>1 DEF ReservoirInv
  <1> QED
    BY <1>3, <1>4, <1>5, <1>6 DEF ReservoirInv

LEMMA ReservoirMove ==
  ASSUME MetricsTypeOK, ReservoirInv, NEW r \in Recorders, NEW a, NEW b, Moves(r, a, b),
         a # "reservoir", b # "reservoir", a \in Early <=> b \in Early, truth' = truth,
         NEW f, f # "reservoir", f # "reservoir_count", SameBut(metrics', metrics, f)
  PROVE  ReservoirInv'
  <1>1. /\ \A s \in Recorders \ {r} : rec'[s] = rec[s]
        /\ In(Early)' = In(Early)
        /\ rec[r].at = a /\ rec'[r].at = b /\ (b # "idle" => rec'[r].latency = rec[r].latency)
    BY InMove DEF Moves
  <1>2. Storing' = Storing /\ Adding' = Adding /\ r \notin Storing /\ r \notin Adding
    BY <1>1 DEF Storing, Adding
  <1>3. Storing \subseteq Recorders /\ Adding \subseteq Recorders /\ In(Early) \subseteq Recorders
    BY DEF Storing, Adding, In
  <1>4. \A s \in In(Early) \union Storing : rec'[s].latency = rec[s].latency
    <2>1. r \in In(Early) => b # "idle"
      BY <1>1 DEF In, Early
    <2> QED
      BY <1>1, <1>2, <1>3, <2>1
  <1>5. \A s \in Storing \union Adding : rec'[s].idx = rec[s].idx
    BY <1>1, <1>2, <1>3
  <1>6. \A s \in Recorders : At(s, "reservoir")' /\ rec'[s].todo = {} => At(s, "reservoir") /\ rec[s].todo = {}
    BY <1>1 DEF At
  <1>7. metrics'.reservoir_count = metrics.reservoir_count /\ metrics'.reservoir = metrics.reservoir
    BY DEF SameBut
  <1> QED
    BY <1>1, <1>2, <1>4, <1>5, <1>6, <1>7, ReservoirSame

\* The steps of record() before and after the reservoir
LEMMA ElsewhereKeepsReservoir ==
  ASSUME MetricsTypeOK, ReservoirInv, NEW r \in Recorders,
         \/ CountOperation(r) \/ LoadMax(r) \/ CasMax(r) \/ LoadMin(r) \/ CasMin(r) \/ AddSum(r) \/ AddTotal(r)
  PROVE  ReservoirInv'
  <1>0. metrics \in MetricsRecord
    BY DEF MetricsTypeOK
  <1>1. CASE CountOperation(r)
    <2>1. PICK b \in {"sampling", "idle"} : Moves(r, "counting", b)
      BY <1>1, CountOperationEffect
    <2>2. SameBut(metrics', metrics, "operations") /\ truth' = truth
      BY <1>1, CountOperationEffect
    <2> QED
      BY <2>1, <2>2, ReservoirMove DEF Early
  <1>2. CASE LoadMax(r)
    <2>1. Moves(r, "load_max", "cas_max") /\ truth' = truth /\ SameBut(metrics', metrics, "none")
      BY <1>0, <1>2, LoadMaxEffect, NothingSet
    <2> QED
      BY <2>1, ReservoirMove DEF Early
  <1>3. CASE CasMax(r)
    <2>1. PICK b \in {"cas_max", "load_min"} : Moves(r, "cas_max", b)
      BY <1>3, CasMaxEffect
    <2>2. SameBut(metrics', metrics, "max") /\ truth' = truth
      BY <1>0, <1>3, CasMaxEffect, NothingSet
    <2> QED
      BY <2>1, <2>2, ReservoirMove DEF Early
  <1>4. CASE LoadMin(r)
    <2>1. Moves(r, "load_min", "cas_min") /\ truth' = truth /\ SameBut(metrics', metrics, "none")
      BY <1>0, <1>4, LoadMinEffect, NothingSet
    <2> QED
      BY <2>1, ReservoirMove DEF Early
  <1>5. CASE CasMin(r)
    <2>1. PICK b \in {"cas_min", "summing"} : Moves(r, "cas_min", b)
      BY <1>5, CasMinEffect
    <2>2. SameBut(metrics', metrics, "min") /\ truth' = truth
      BY <1>0, <1>5, CasMinEffect, NothingSet
    <2> QED
      BY <2>1, <2>2, ReservoirMove DEF Early
  <1>6. CASE AddSum(r)
    <2>1. Moves(r, "summing", "load_count") /\ truth' = truth /\ SameBut(metrics', metrics, "sum")
      BY <1>6, AddSumEffect
    <2> QED
      BY <2>1, ReservoirMove DEF Early
  <1>7. CASE AddTotal(r)
    <2>1. Moves(r, "total", "idle") /\ truth' = truth /\ SameBut(metrics', metrics, "total")
      BY <1>7, AddTotalEffect
    <2> QED
      BY <2>1, ReservoirMove DEF Early
  <1> QED
    BY <1>1, <1>2, <1>3, <1>4, <1>5, <1>6, <1>7

\* One more sample, which its recorder carries to the reservoir
LEMMA CountSampleKeepsReservoir ==
  ASSUME MetricsTypeOK, ReservoirInv, NEW r \in Recorders, CountSample(r)
  PROVE  ReservoirInv'
  <1> DEFINE l == rec[r].latency
  <1>1. /\ Moves(r, "sampling", "load_max") /\ truth' = Append(truth, l)
        /\ metrics'.reservoir = metrics.reservoir /\ metrics'.reservoir_count = metrics.reservoir_count
    BY CountSampleEffect DEF SameBut
  <1>2. /\ \A s \in Recorders \ {r} : rec'[s] = rec[s]
        /\ rec[r].at = "sampling" /\ rec'[r].at = "load_max" /\ rec'[r].latency = l
        /\ In(Early)' = In(Early) \union {r} /\ r \notin In(Early)
    BY <1>1, InMove DEF Moves, Early
  <1>3. Storing' = Storing /\ Adding' = Adding /\ r \notin Storing /\ r \notin Adding
    BY <1>2 DEF Storing, Adding
  <1>4. Storing \subseteq Recorders /\ Adding \subseteq Recorders /\ In(Early) \subseteq Recorders
    BY DEF Storing, Adding, In
  <1>5. \A s \in Storing \union Adding : rec'[s].idx = rec[s].idx
    BY <1>2, <1>3, <1>4
  <1>6. Len(truth') = Len(truth) + 1 /\ Len(truth) \in Nat /\ DOMAIN truth = 1..Len(truth)
        /\ DOMAIN truth' = DOMAIN truth \union {Len(truth) + 1} /\ truth'[Len(truth) + 1] = l
        /\ \A i \in DOMAIN truth : truth'[i] = truth[i]
    BY <1>1 DEF MetricsTypeOK
  <1> HIDE DEF l
  <1>7. Filled' = Filled
    BY <1>1, <1>3, <1>5 DEF Filled
  <1>8. Sampled \subseteq Sampled'
    BY <1>6 DEF Sampled
  <1>9. OneFills'
    BY <1>1, <1>3, <1>5 DEF OneFills, ReservoirInv
  <1>10. AllCounted'
    <2>1. (In(Early) \union Adding)' = (In(Early) \union Adding) \union {r} /\ r \notin In(Early) \union Adding
      BY <1>2, <1>3
    <2>2. /\ Cardinality((In(Early) \union Adding)') = Cardinality(In(Early) \union Adding) + 1
          /\ Cardinality(In(Early) \union Adding) \in Nat /\ metrics.reservoir_count \in Nat /\ ReservoirSize \in Nat
      BY <2>1, ReservoirFinite, FS_AddElement
    <2> QED
      BY <1>1, <1>6, <2>2 DEF AllCounted, ReservoirInv
  <1>11. NoRoom'
    BY <1>2, <1>6, MetricsAssumption DEF NoRoom, ReservoirInv, At
  <1>12. AllStored'
    <2> SUFFICES ASSUME Len(truth') <= ReservoirSize, NEW x
                 PROVE  Cardinality(SlotsWith(x)') + Cardinality(UnstoredWith(x)') = Cardinality(SamplesWith(x)')
      BY DEF AllStored
    <2>1. Cardinality(SlotsWith(x)) + Cardinality(UnstoredWith(x)) = Cardinality(SamplesWith(x))
      BY <1>6, MetricsAssumption DEF AllStored, ReservoirInv
    <2>2. SlotsWith(x)' = SlotsWith(x)
      BY <1>1, <1>7 DEF SlotsWith
    <2>3. \A s \in In(Early) \union Storing : rec'[s].latency = rec[s].latency
      BY <1>2, <1>3, <1>4
    <2>4. CASE x = l
      <3>1. UnstoredWith(x)' = UnstoredWith(x) \union {r} /\ r \notin UnstoredWith(x)
        BY <1>2, <1>3, <2>3, <2>4 DEF UnstoredWith
      <3>2. SamplesWith(x)' = SamplesWith(x) \union {Len(truth) + 1} /\ Len(truth) + 1 \notin SamplesWith(x)
        BY <1>6, <2>4 DEF SamplesWith
      <3>3. /\ IsFiniteSet(UnstoredWith(x)) /\ IsFiniteSet(SamplesWith(x)) /\ Cardinality(SlotsWith(x)) \in Nat
            /\ Cardinality(UnstoredWith(x)) \in Nat /\ Cardinality(SamplesWith(x)) \in Nat
        BY ReservoirFinite
      <3>4. /\ Cardinality(UnstoredWith(x)') = Cardinality(UnstoredWith(x)) + 1
            /\ Cardinality(SamplesWith(x)') = Cardinality(SamplesWith(x)) + 1
        BY <3>1, <3>2, <3>3, FS_AddElement
      <3> QED
        BY <2>1, <2>2, <3>3, <3>4
    <2>5. CASE x # l
      <3>1. UnstoredWith(x)' = UnstoredWith(x)
        BY <1>2, <1>3, <2>3, <2>5 DEF UnstoredWith
      <3>2. SamplesWith(x)' = SamplesWith(x)
        BY <1>6, <2>5 DEF SamplesWith
      <3> QED
        BY <2>1, <2>2, <3>1, <3>2
    <2> QED
      BY <2>4, <2>5
  <1>13. \A i \in Filled' : metrics'.reservoir[i] \in Sampled'
    BY <1>1, <1>7, <1>8 DEF ReservoirInv
  <1> QED
    BY <1>9, <1>10, <1>11, <1>12, <1>13 DEF ReservoirInv

\* The recorder that sees room is the only one; without room, the samples are
\* more than the slots.
LEMMA LoadCountKeepsReservoir ==
  ASSUME MetricsTypeOK, ReservoirInv, NEW r \in Recorders, LoadCount(r), ~overlapped'
  PROVE  ReservoirInv'
  <1>1. /\ Moves(r, "load_count", "reservoir") /\ truth' = truth /\ metrics' = metrics
        /\ rec'[r].idx = metrics.reservoir_count
        /\ rec'[r].todo = (IF RoomLeft(metrics.reservoir_count) THEN {"slot", "count"} ELSE {})
    BY LoadCountEffect
  <1>2. /\ \A s \in Recorders \ {r} : rec'[s] = rec[s]
        /\ rec[r].at = "load_count" /\ rec'[r].at = "reservoir" /\ rec'[r].latency = rec[r].latency
        /\ In(Early)' = In(Early) \ {r} /\ r \in In(Early)
    BY <1>1, InMove DEF Moves, Early
  <1>3. Storing \subseteq Recorders /\ Adding \subseteq Recorders /\ In(Early) \subseteq Recorders
        /\ r \notin Storing /\ r \notin Adding
    BY <1>2 DEF Storing, Adding, In
  <1>4. /\ metrics.reservoir_count \in Nat /\ ReservoirSize \in Nat /\ Len(truth) \in Nat
        /\ IsFiniteSet(In(Early) \union Adding) /\ Cardinality(In(Early) \union Adding) \in Nat
    BY ReservoirFinite
  <1>5. Sampled' = Sampled
    BY <1>1 DEF Sampled
  <1>6. CASE RoomLeft(metrics.reservoir_count)
    <2>1. Storing = {} /\ Adding = {}
      <3>1. \A s \in Recorders : ~Filling(s)
        BY DEF LoadCount
      <3> QED
        BY <3>1 DEF Storing, Adding, Filling, At
    <2>2. Storing' = {r} /\ Adding' = {r} /\ rec'[r].idx = metrics.reservoir_count
          /\ metrics.reservoir_count < ReservoirSize
      BY <1>1, <1>2, <1>6, <2>1 DEF Storing, Adding, RoomLeft
    <2>3. Filled' = Filled
      <3>1. Filled = {i \in Slots : i <= metrics.reservoir_count}
        BY <2>1 DEF Filled
      <3>2. Filled' = {i \in Slots : i <= metrics.reservoir_count /\ i # metrics.reservoir_count + 1}
        BY <1>1, <2>2 DEF Filled
      <3> QED
        BY <1>4, <3>1, <3>2 DEF Slots
    <2>4. OneFills'
      BY <1>1, <1>4, <2>2 DEF OneFills
    <2>5. (In(Early) \union Adding)' = In(Early) \union Adding /\ (In(Early) \union Storing)' = In(Early) \union Storing
      BY <1>2, <2>1, <2>2
    <2>6. AllCounted'
      BY <1>1, <2>5 DEF AllCounted, ReservoirInv
    <2>7. NoRoom'
      <3>1. rec'[r].todo # {}
        BY <1>1, <1>6
      <3> QED
        BY <1>1, <1>2, <3>1 DEF NoRoom, ReservoirInv, At
    <2>8. ASSUME NEW x
          PROVE  SlotsWith(x)' = SlotsWith(x) /\ UnstoredWith(x)' = UnstoredWith(x) /\ SamplesWith(x)' = SamplesWith(x)
      <3>1. \A s \in In(Early) \union Storing : rec'[s].latency = rec[s].latency
        BY <1>2, <1>3
      <3> QED
        BY <1>1, <2>3, <2>5, <3>1 DEF SlotsWith, UnstoredWith, SamplesWith
    <2>9. AllStored'
      BY <1>1, <2>8 DEF AllStored, ReservoirInv
    <2>10. \A i \in Filled' : metrics'.reservoir[i] \in Sampled'
      BY <1>1, <1>5, <2>3 DEF ReservoirInv
    <2> QED
      BY <2>4, <2>6, <2>7, <2>9, <2>10 DEF ReservoirInv
  <1>7. CASE ~RoomLeft(metrics.reservoir_count)
    <2>1. Storing' = Storing /\ Adding' = Adding
      BY <1>1, <1>2, <1>3, <1>7 DEF Storing, Adding
    <2>2. \A s \in Storing \union Adding : rec'[s].idx = rec[s].idx
      BY <1>2, <1>3
    <2>3. metrics.reservoir_count = ReservoirSize
      BY <1>4, <1>7 DEF RoomLeft, OneFills, ReservoirInv
    <2>4. Len(truth) > ReservoirSize
      <3>1. Cardinality(In(Early) \union Adding) # 0
        BY <1>2, <1>4, FS_EmptySet
      <3> QED
        BY <1>4, <2>3, <3>1 DEF AllCounted, ReservoirInv
    <2>5. Filled' = Filled
      BY <1>1, <2>1, <2>2 DEF Filled
    <2>6. OneFills'
      BY <1>1, <2>1, <2>2 DEF OneFills, ReservoirInv
    <2>7. AllCounted' /\ NoRoom' /\ AllStored'
      BY <1>1, <1>4, <2>3, <2>4 DEF AllCounted, NoRoom, AllStored
    <2>8. \A i \in Filled' : metrics'.reservoir[i] \in Sampled'
      BY <1>1, <1>5, <2>5 DEF ReservoirInv
    <2> QED
      BY <2>6, <2>7, <2>8 DEF ReservoirInv
  <1> QED
    BY <1>6, <1>7

\* The sample is in its slot, whether the slot is counted yet or not.
LEMMA FillSlotKeepsReservoir ==
  ASSUME MetricsTypeOK, ExtremesInv, ReservoirInv, NEW r \in Recorders, FillSlot(r)
  PROVE  ReservoirInv'
  <1> DEFINE l == rec[r].latency
             k == rec[r].idx + 1
  <1>1. /\ rec[r].at = "reservoir" /\ "slot" \in rec[r].todo /\ rec'[r].todo = rec[r].todo \ {"slot"}
        /\ rec'[r].idx = rec[r].idx /\ rec'[r].at = (IF rec[r].todo = {"slot"} THEN "total" ELSE "reservoir")
        /\ truth' = truth /\ metrics'.reservoir_count = metrics.reservoir_count
        /\ metrics'.reservoir = [i \in Slots |-> IF i = k THEN l ELSE metrics.reservoir[i]]
        /\ rec[r].todo \subseteq {"slot", "count"}
    BY FillSlotEffect, RecorderFields DEF SameBut, FillSlot, Filling, At, MetricsTypeOK
  <1>2. /\ \A s \in Recorders \ {r} : rec'[s] = rec[s]
        /\ rec'[r].latency = l /\ In(Early)' = In(Early) /\ r \notin In(Early)
    <2>1. PICK b \in {"reservoir", "total"} : Moves(r, "reservoir", b)
      BY FillSlotEffect
    <2> QED
      BY <1>1, <2>1, InMove DEF Moves, Early, In
  <1>3. Storing \subseteq Recorders /\ Adding \subseteq Recorders /\ In(Early) \subseteq Recorders
    BY DEF Storing, Adding, In
  <1>4. r \in Storing /\ Storing' = Storing \ {r} /\ Adding' = Adding
    <2>1. r \in Adding <=> "count" \in rec[r].todo
      BY <1>1 DEF Adding
    <2>2. r \in Adding' <=> "count" \in rec[r].todo
      BY <1>1 DEF Adding
    <2>3. r \in Storing /\ r \notin Storing'
      BY <1>1 DEF Storing
    <2>4. \A s \in Recorders \ {r} : (s \in Storing' <=> s \in Storing) /\ (s \in Adding' <=> s \in Adding)
      BY <1>2 DEF Storing, Adding
    <2>5. Storing' \subseteq Recorders /\ Adding' \subseteq Recorders
      BY DEF Storing, Adding
    <2> QED
      BY <1>3, <2>1, <2>2, <2>3, <2>4, <2>5
  <1>5. /\ metrics.reservoir_count \in Nat /\ ReservoirSize \in Nat /\ Len(truth) \in Nat
        /\ metrics.reservoir \in [Slots -> Nat] /\ rec[r].idx \in Nat
    BY ReservoirFinite, RecorderFields DEF MetricsTypeOK
  <1>6. /\ Storing = {r} /\ Adding \subseteq {r} /\ metrics.reservoir_count <= ReservoirSize
        /\ r \in Adding => rec[r].idx = metrics.reservoir_count /\ rec[r].idx < ReservoirSize
        /\ r \notin Adding => rec[r].idx + 1 = metrics.reservoir_count
    BY <1>4 DEF OneFills, ReservoirInv
  <1>7. k \in Slots /\ k \notin Filled /\ Filled' = Filled \union {k}
    <2>1. k \in Slots
      BY <1>5, <1>6 DEF Slots
    <2>2. Filled = {i \in Slots : i <= metrics.reservoir_count /\ i # k}
      BY <1>6 DEF Filled
    <2>3. Filled' = {i \in Slots : i <= metrics.reservoir_count \/ (r \in Adding /\ i = k)}
      BY <1>1, <1>4, <1>6 DEF Filled
    <2>4. CASE r \in Adding
      BY <1>5, <1>6, <2>1, <2>2, <2>3, <2>4 DEF Slots
    <2>5. CASE r \notin Adding
      BY <1>5, <1>6, <2>1, <2>2, <2>3, <2>5 DEF Slots
    <2> QED
      BY <2>4, <2>5
  <1>8. Sampled' = Sampled /\ l \in Sampled
    BY <1>1 DEF Sampled, ExtremesInv, BeforeTotal
  <1> HIDE DEF l, k
  <1>9. metrics'.reservoir[k] = l /\ \A i \in Filled : metrics'.reservoir[i] = metrics.reservoir[i]
    BY <1>1, <1>7 DEF Filled
  <1>10. OneFills'
    <2>1. \A s \in Storing \union Adding : rec'[s].idx = rec[s].idx
      BY <1>1, <1>6
    <2> QED
      BY <1>1, <1>4, <2>1 DEF OneFills, ReservoirInv
  <1>11. AllCounted'
    BY <1>1, <1>2, <1>4 DEF AllCounted, ReservoirInv
  <1>12. NoRoom'
    <2>1. ~(rec'[r].at = "reservoir" /\ rec'[r].todo = {})
      BY <1>1
    <2> QED
      BY <1>1, <1>2, <2>1 DEF NoRoom, ReservoirInv, At
  <1>13. AllStored'
    <2> SUFFICES ASSUME Len(truth') <= ReservoirSize, NEW x
                 PROVE  Cardinality(SlotsWith(x)') + Cardinality(UnstoredWith(x)') = Cardinality(SamplesWith(x)')
      BY DEF AllStored
    <2>1. Cardinality(SlotsWith(x)) + Cardinality(UnstoredWith(x)) = Cardinality(SamplesWith(x))
      BY <1>1 DEF AllStored, ReservoirInv
    <2>2. SamplesWith(x)' = SamplesWith(x)
      BY <1>1 DEF SamplesWith
    <2>3. /\ IsFiniteSet(SlotsWith(x)) /\ IsFiniteSet(UnstoredWith(x)) /\ Cardinality(SlotsWith(x)) \in Nat
          /\ Cardinality(UnstoredWith(x)) \in Nat /\ Cardinality(SamplesWith(x)) \in Nat
      BY ReservoirFinite
    <2>4. /\ (In(Early) \union Storing)' = (In(Early) \union Storing) \ {r} /\ r \in In(Early) \union Storing
          /\ \A s \in (In(Early) \union Storing) \ {r} : rec'[s].latency = rec[s].latency
      BY <1>2, <1>3, <1>4
    <2>5. CASE x = l
      <3>1. UnstoredWith(x)' = UnstoredWith(x) \ {r} /\ r \in UnstoredWith(x)
        BY <2>4, <2>5 DEF UnstoredWith, l
      <3>2. SlotsWith(x)' = SlotsWith(x) \union {k} /\ k \notin SlotsWith(x)
        BY <1>7, <1>9, <2>5 DEF SlotsWith
      <3>3. Cardinality(UnstoredWith(x)') = Cardinality(UnstoredWith(x)) - 1
        BY <2>3, <3>1, FS_RemoveElement
      <3>4. Cardinality(SlotsWith(x)') = Cardinality(SlotsWith(x)) + 1
        BY <2>3, <3>2, FS_AddElement
      <3> QED
        BY <2>1, <2>2, <2>3, <3>3, <3>4
    <2>6. CASE x # l
      <3>1. UnstoredWith(x)' = UnstoredWith(x)
        BY <2>4, <2>6 DEF UnstoredWith, l
      <3>2. SlotsWith(x)' = SlotsWith(x)
        BY <1>7, <1>9, <2>6 DEF SlotsWith
      <3> QED
        BY <2>1, <2>2, <3>1, <3>2
    <2> QED
      BY <2>5, <2>6
  <1>14. \A i \in Filled' : metrics'.reservoir[i] \in Sampled'
    BY <1>7, <1>8, <1>9 DEF ReservoirInv
  <1> QED
    BY <1>10, <1>11, <1>12, <1>13, <1>14 DEF ReservoirInv

\* The slot is counted, whether the sample is in it yet or not.
LEMMA FillCountKeepsReservoir ==
  ASSUME MetricsTypeOK, ReservoirInv, NEW r \in Recorders, FillCount(r)
  PROVE  ReservoirInv'
  <1> DEFINE k == rec[r].idx + 1
  <1>1. /\ rec[r].at = "reservoir" /\ "count" \in rec[r].todo /\ rec'[r].todo = rec[r].todo \ {"count"}
        /\ rec'[r].idx = rec[r].idx /\ rec'[r].at = (IF rec[r].todo = {"count"} THEN "total" ELSE "reservoir")
        /\ truth' = truth /\ metrics'.reservoir_count = metrics.reservoir_count + 1
        /\ metrics'.reservoir = metrics.reservoir
        /\ rec[r].todo \subseteq {"slot", "count"}
    BY FillCountEffect, RecorderFields DEF SameBut, FillCount, Filling, At, MetricsTypeOK
  <1>2. /\ \A s \in Recorders \ {r} : rec'[s] = rec[s]
        /\ rec'[r].latency = rec[r].latency /\ In(Early)' = In(Early) /\ r \notin In(Early)
    <2>1. PICK b \in {"reservoir", "total"} : Moves(r, "reservoir", b)
      BY FillCountEffect
    <2> QED
      BY <1>1, <2>1, InMove DEF Moves, Early, In
  <1>3. Storing \subseteq Recorders /\ Adding \subseteq Recorders /\ In(Early) \subseteq Recorders
    BY DEF Storing, Adding, In
  <1>4. r \in Adding /\ Adding' = Adding \ {r} /\ Storing' = Storing
    <2>1. r \in Storing <=> "slot" \in rec[r].todo
      BY <1>1 DEF Storing
    <2>2. r \in Storing' <=> "slot" \in rec[r].todo
      BY <1>1 DEF Storing
    <2>3. r \in Adding /\ r \notin Adding'
      BY <1>1 DEF Adding
    <2>4. \A s \in Recorders \ {r} : (s \in Storing' <=> s \in Storing) /\ (s \in Adding' <=> s \in Adding)
      BY <1>2 DEF Storing, Adding
    <2>5. Storing' \subseteq Recorders /\ Adding' \subseteq Recorders
      BY DEF Storing, Adding
    <2> QED
      BY <1>3, <2>1, <2>2, <2>3, <2>4, <2>5
  <1>5. /\ metrics.reservoir_count \in Nat /\ ReservoirSize \in Nat /\ Len(truth) \in Nat
        /\ IsFiniteSet(In(Early) \union Adding) /\ Cardinality(In(Early) \union Adding) \in Nat
    BY ReservoirFinite
  <1>6. /\ Adding = {r} /\ Storing \subseteq {r}
        /\ rec[r].idx = metrics.reservoir_count /\ metrics.reservoir_count < ReservoirSize
    BY <1>4 DEF OneFills, ReservoirInv
  <1>7. Filled' = Filled
    <2>1. Filled = {i \in Slots : \/ i <= metrics.reservoir_count /\ (r \in Storing => i # k)
                                  \/ r \notin Storing /\ i = k}
      BY <1>6 DEF Filled
    <2>2. Filled' = {i \in Slots : i <= k /\ (r \in Storing => i # k)}
      BY <1>1, <1>4, <1>6 DEF Filled
    <2>3. CASE r \in Storing
      BY <1>5, <1>6, <2>1, <2>2, <2>3 DEF Slots
    <2>4. CASE r \notin Storing
      BY <1>5, <1>6, <2>1, <2>2, <2>4 DEF Slots
    <2> QED
      BY <2>3, <2>4
  <1>8. Sampled' = Sampled
    BY <1>1 DEF Sampled
  <1>9. OneFills'
    <2>1. Adding' = {} /\ Storing' \subseteq {r}
      BY <1>4, <1>6
    <2> QED
      BY <1>1, <1>5, <1>6, <2>1 DEF OneFills
  <1>10. AllCounted'
    <2>1. (In(Early) \union Adding)' = (In(Early) \union Adding) \ {r} /\ r \in In(Early) \union Adding
      BY <1>2, <1>4
    <2>2. Cardinality((In(Early) \union Adding)') = Cardinality(In(Early) \union Adding) - 1
      BY <1>5, <2>1, FS_RemoveElement
    <2>3. metrics.reservoir_count + Cardinality(In(Early) \union Adding) = Len(truth)
      BY <1>5, <1>6 DEF AllCounted, ReservoirInv
    <2> QED
      BY <1>1, <1>5, <2>2, <2>3 DEF AllCounted
  <1>11. NoRoom'
    <2>1. ~(rec'[r].at = "reservoir" /\ rec'[r].todo = {})
      BY <1>1
    <2> QED
      BY <1>1, <1>2, <2>1 DEF NoRoom, ReservoirInv, At
  <1>12. AllStored'
    <2>1. ASSUME NEW x
          PROVE  SlotsWith(x)' = SlotsWith(x) /\ UnstoredWith(x)' = UnstoredWith(x) /\ SamplesWith(x)' = SamplesWith(x)
      <3>1. \A s \in In(Early) \union Storing : rec'[s].latency = rec[s].latency
        BY <1>2, <1>3
      <3> QED
        BY <1>1, <1>2, <1>4, <1>7, <3>1 DEF SlotsWith, UnstoredWith, SamplesWith
    <2> QED
      BY <1>1, <2>1 DEF AllStored, ReservoirInv
  <1>13. \A i \in Filled' : metrics'.reservoir[i] \in Sampled'
    BY <1>1, <1>7, <1>8 DEF ReservoirInv
  <1> QED
    BY <1>9, <1>10, <1>11, <1>12, <1>13 DEF ReservoirInv

\* A replacement puts a sample in the place of another; there are more than slots.
LEMMA ReplaceKeepsReservoir ==
  ASSUME MetricsTypeOK, ExtremesInv, ReservoirInv, NEW r \in Recorders, Replace(r)
  PROVE  ReservoirInv'
  <1>1. /\ Moves(r, "reservoir", "total") /\ truth' = truth /\ metrics'.reservoir_count = metrics.reservoir_count
        /\ \A i \in Slots : metrics'.reservoir[i] \in {metrics.reservoir[i], rec[r].latency}
    BY ReplaceEffect DEF SameBut
  <1>2. /\ \A s \in Recorders \ {r} : rec'[s] = rec[s]
        /\ rec[r].at = "reservoir" /\ rec'[r].at = "total" /\ In(Early)' = In(Early) /\ rec[r].todo = {}
    <2>1. rec[r].todo = {}
      BY DEF Replace
    <2>2. "reservoir" \notin Early /\ "total" \notin Early
      BY DEF Early
    <2> QED
      BY <1>1, <2>1, <2>2, InMove DEF Moves
  <1>3. Storing' = Storing /\ Adding' = Adding /\ r \notin Storing /\ r \notin Adding
        /\ Storing \subseteq Recorders /\ Adding \subseteq Recorders
    BY <1>2 DEF Storing, Adding
  <1>4. \A s \in Storing \union Adding : rec'[s].idx = rec[s].idx
    BY <1>2, <1>3
  <1>5. Filled' = Filled /\ Sampled' = Sampled /\ rec[r].latency \in Sampled /\ Filled \subseteq Slots
    BY <1>1, <1>2, <1>3, <1>4 DEF Filled, Sampled, ExtremesInv, BeforeTotal
  <1>6. Len(truth') > ReservoirSize /\ Len(truth') \in Nat /\ ReservoirSize \in Nat
    BY <1>1, <1>2, ReservoirFinite DEF NoRoom, ReservoirInv, At
  <1>7. OneFills'
    BY <1>1, <1>3, <1>4 DEF OneFills, ReservoirInv
  <1>8. AllCounted'
    BY <1>1, <1>2, <1>3 DEF AllCounted, ReservoirInv
  <1>9. NoRoom' /\ AllStored'
    BY <1>6 DEF NoRoom, AllStored
  <1>10. \A i \in Filled' : metrics'.reservoir[i] \in Sampled'
    BY <1>1, <1>5 DEF ReservoirInv
  <1> QED
    BY <1>7, <1>8, <1>9, <1>10 DEF ReservoirInv

\* An empty reservoir, and nobody who would fill it
LEMMA FreshReservoir ==
  ASSUME ~Busy, truth = <<>>, metrics.reservoir_count = 0
  PROVE  ReservoirInv
  <1>1. \A r \in Recorders : rec[r].at = "idle"
    BY DEF Busy, At
  <1>2. In(Early) = {} /\ Storing = {} /\ Adding = {}
    BY <1>1 DEF In, Early, Storing, Adding
  <1>3. Filled = {} /\ Len(truth) = 0 /\ DOMAIN truth = {} /\ ReservoirSize \in Nat
    BY <1>2, MetricsAssumption DEF Filled, Slots
  <1>4. \A x : SlotsWith(x) = {} /\ UnstoredWith(x) = {} /\ SamplesWith(x) = {}
    BY <1>2, <1>3 DEF SlotsWith, UnstoredWith, SamplesWith
  <1>5. AllStored
    <2>1. \A x : /\ Cardinality(SlotsWith(x)) = 0 /\ Cardinality(UnstoredWith(x)) = 0
                 /\ Cardinality(SamplesWith(x)) = 0
      BY <1>4, FS_EmptySet
    <2> QED
      BY <2>1 DEF AllStored
  <1>6. AllCounted
    <2>1. In(Early) \union Adding = {}
      BY <1>2
    <2> QED
      BY <1>3, <2>1, FS_EmptySet DEF AllCounted
  <1>7. OneFills /\ NoRoom
    BY <1>1, <1>2, <1>3 DEF OneFills, NoRoom, At
  <1> QED
    BY <1>3, <1>5, <1>6, <1>7 DEF ReservoirInv

\* The same after a step
LEMMA ClearedReservoir ==
  ASSUME ~Busy', truth' = <<>>, metrics'.reservoir_count = 0
  PROVE  ReservoirInv'
  <1>1. \A r \in Recorders : rec'[r].at = "idle"
    BY DEF Busy, At
  <1>2. In(Early)' = {} /\ Storing' = {} /\ Adding' = {}
    BY <1>1 DEF In, Early, Storing, Adding
  <1>3. Filled' = {} /\ Len(truth') = 0 /\ DOMAIN truth' = {} /\ ReservoirSize \in Nat
    BY <1>2, MetricsAssumption DEF Filled, Slots
  <1>4. \A x : SlotsWith(x)' = {} /\ UnstoredWith(x)' = {} /\ SamplesWith(x)' = {}
    BY <1>2, <1>3 DEF SlotsWith, UnstoredWith, SamplesWith
  <1>5. AllStored'
    <2>1. \A x : /\ Cardinality(SlotsWith(x)') = 0 /\ Cardinality(UnstoredWith(x)') = 0
                 /\ Cardinality(SamplesWith(x)') = 0
      BY <1>4, FS_EmptySet
    <2> QED
      BY <2>1 DEF AllStored
  <1>6. AllCounted'
    <2>1. (In(Early) \union Adding)' = {}
      BY <1>2
    <2> QED
      BY <1>3, <2>1, FS_EmptySet DEF AllCounted
  <1>7. OneFills' /\ NoRoom'
    BY <1>1, <1>2, <1>3 DEF OneFills, NoRoom, At
  <1> QED
    BY <1>3, <1>5, <1>6, <1>7 DEF ReservoirInv

LEMMA MakeTimerKeepsReservoir ==
  ASSUME MetricsTypeOK, ReservoirInv, NEW r \in Recorders, NEW l \in Latencies, MakeTimer(r, l)
  PROVE  ReservoirInv'
  <1> DEFINE c == [NoRecord EXCEPT !.at = "counting", !.timed = enabled, !.latency = l]
  <1>1. rec' = [rec EXCEPT ![r] = c] /\ rec[r].at = "idle" /\ metrics' = metrics /\ truth' = truth
    <2> HIDE DEF c
    <2> QED
      BY DEF MakeTimer, At, c
  <1>2. c.at = "counting"
    BY DEF NoRecord
  <1> HIDE DEF c
  <1>3. (\A s \in Recorders \ {r} : rec'[s] = rec[s]) /\ rec'[r].at = "counting"
    BY <1>1, <1>2 DEF MetricsTypeOK
  <1>4. In(Early)' = In(Early) /\ Storing' = Storing /\ Adding' = Adding
        /\ In(Early) \union Storing \union Adding \subseteq Recorders \ {r}
    BY <1>1, <1>3 DEF In, Early, Storing, Adding
  <1>5. \A s \in In(Early) \union Storing : rec'[s].latency = rec[s].latency
    BY <1>3, <1>4
  <1>6. \A s \in Storing \union Adding : rec'[s].idx = rec[s].idx
    BY <1>3, <1>4
  <1>7. \A s \in Recorders : At(s, "reservoir")' /\ rec'[s].todo = {} => At(s, "reservoir") /\ rec[s].todo = {}
    BY <1>3 DEF At
  <1> QED
    BY <1>1, <1>4, <1>5, <1>6, <1>7, ReservoirSame

\* A step that touches none of them
LEMMA UntouchedReservoir ==
  ASSUME ReservoirInv, rec' = rec, metrics' = metrics, truth' = truth
  PROVE  ReservoirInv'
  BY ReservoirSame DEF In, Storing, Adding, At

\* As long as no two recorders fill the reservoir at once, it holds samples
\* and nothing else, all of them while there is room: the inductive invariant
\* behind the percentiles.
THEOREM ReservoirInvariance ==
  MetricsSpec => [](MetricsInv /\ HonestInv)
  <1>1. MetricsInit => HonestInv
    <2> SUFFICES ASSUME MetricsInit PROVE ReservoirInv
      BY DEF HonestInv
    <2>1. ~Busy /\ truth = <<>> /\ metrics.reservoir_count = 0
      BY DEF MetricsInit, Busy, At, NoRecord, NoMetrics
    <2> QED
      BY <2>1, FreshReservoir
  <1>2. MetricsInv /\ HonestInv /\ [MetricsNext]_metricsVars => HonestInv'
    <2> SUFFICES ASSUME MetricsInv, HonestInv, [MetricsNext]_metricsVars, ~blurred', ~overlapped', resetter' = <<>>
                 PROVE  ReservoirInv'
      BY DEF HonestInv
    <2>0. MetricsTypeOK
      BY DEF MetricsInv
    <2>1. CASE MetricsNext
      <3>0. ~blurred
        BY <2>1 DEF MetricsNext
      <3>1. ASSUME resetter' = resetter, ~overlapped PROVE ReservoirInv /\ ExtremesInv
        BY <3>0, <3>1 DEF HonestInv, MetricsInv
      <3>2. CASE \E e \in BOOLEAN : SetEnabled(e)
        BY <3>1, <3>2, UntouchedReservoir DEF SetEnabled
      <3>3. CASE \E r \in Recorders, l \in Latencies : MakeTimer(r, l)
        <4>1. PICK r \in Recorders, l \in Latencies : MakeTimer(r, l)
          BY <3>3
        <4>2. ReservoirInv
          BY <3>1, <4>1 DEF MakeTimer
        <4> QED
          BY <2>0, <4>1, <4>2, MakeTimerKeepsReservoir
      <3>4. CASE \E r \in Recorders : CountOperation(r) \/ Record(r)
        <4>1. PICK r \in Recorders : CountOperation(r) \/ Record(r)
          BY <3>4
        <4>2. ReservoirInv /\ ExtremesInv
          <5>1. resetter' = resetter
            BY <4>1 DEF CountOperation, Record, CountSample, LoadMax, CasMax, LoadMin, CasMin, AddSum,
                        LoadCount, FillSlot, FillCount, Replace, AddTotal
          <5>2. LoadCount(r) \/ overlapped' = overlapped
            BY <4>1 DEF CountOperation, Record, CountSample, LoadMax, CasMax, LoadMin, CasMin, AddSum,
                        FillSlot, FillCount, Replace, AddTotal
          <5>3. ~overlapped
            BY <5>2 DEF LoadCount
          <5> QED
            BY <3>1, <5>1, <5>3
        <4> QED
          BY <2>0, <4>1, <4>2, ElsewhereKeepsReservoir, CountSampleKeepsReservoir, LoadCountKeepsReservoir,
             FillSlotKeepsReservoir, FillCountKeepsReservoir, ReplaceKeepsReservoir DEF Record
      <3>5. CASE ResetBegin
        <4>1. resetter' # <<>>
          BY <3>5, FieldsInOrder DEF ResetBegin
        <4> QED
          BY <4>1
      <3>6. CASE ResetField
        <4>1. /\ ~Busy' /\ truth' = <<>>
              /\ \A f \in DOMAIN NoMetrics \ Uncleared' : metrics'[f] = NoMetrics[f]
          BY <3>6, ResetFieldEffect
        <4>2. Uncleared' = {} /\ "reservoir_count" \in DOMAIN NoMetrics /\ NoMetrics.reservoir_count = 0
          BY DEF Uncleared, NoMetrics
        <4>3. metrics'.reservoir_count = 0
          BY <4>1, <4>2
        <4> QED
          BY <4>1, <4>3, ClearedReservoir
      <3> QED
        BY <2>1, <3>2, <3>3, <3>4, <3>5, <3>6 DEF MetricsNext
    <2>2. CASE UNCHANGED metricsVars
      <3>1. rec' = rec /\ metrics' = metrics /\ truth' = truth /\ ReservoirInv
        BY <2>2 DEF metricsVars, HonestInv
      <3> QED
        BY <3>1, UntouchedReservoir
    <2> QED
      BY <2>1, <2>2
  <1> QED
    BY <1>1, <1>2, MetricsInvariance, PTL DEF MetricsSpec

-----------------------------------------------------------------------------
(* What is said of the samples *)

\* A product is at most another, when its factor is.
LEMMA ProductAtMost ==
  ASSUME NEW a \in Nat, NEW b \in Nat, NEW n \in Nat, a <= b
  PROVE  a * n <= b * n
  <1>1. PICK d \in Nat : b = a + d
    <2>1. b - a \in Nat /\ b = a + (b - a)
      OBVIOUS
    <2> QED
      BY <2>1
  <1>2. b * n = a * n + d * n /\ d * n \in Nat /\ a * n \in Nat
    BY <1>1
  <1> QED
    BY <1>2

\* A sum of n numbers between m and k is between n times m and n times k.
LEMMA TotalBetween ==
  ASSUME NEW s \in Seq(Nat), NEW m \in Nat, NEW k \in Nat, \A i \in DOMAIN s : m <= s[i] /\ s[i] <= k
  PROVE  Len(s) * m <= Total(s) /\ Total(s) <= Len(s) * k
  <1> DEFINE n == Len(s)
             A == (1..n) \X (1..m)
             B == (1..n) \X (1..k)
  <1>1. n \in Nat /\ DOMAIN s = 1..n /\ \A i \in 1..n : s[i] \in Nat
    OBVIOUS
  <1>2. IsFiniteSet(A) /\ Cardinality(A) = n * m /\ IsFiniteSet(B) /\ Cardinality(B) = n * k
    <2>1. /\ IsFiniteSet(1..n) /\ Cardinality(1..n) = n /\ IsFiniteSet(1..m) /\ Cardinality(1..m) = m
          /\ IsFiniteSet(1..k) /\ Cardinality(1..k) = k
      <3> HIDE DEF n
      <3>1. IsFiniteSet(1..n) /\ Cardinality(1..n) = n
        BY <1>1, FS_Interval
      <3>2. IsFiniteSet(1..m) /\ Cardinality(1..m) = m
        BY FS_Interval
      <3>3. IsFiniteSet(1..k) /\ Cardinality(1..k) = k
        BY FS_Interval
      <3> QED
        BY <3>1, <3>2, <3>3
    <2>2. IsFiniteSet(A) /\ Cardinality(A) = n * m
      <3>1. IsFiniteSet(A) /\ Cardinality(A) = Cardinality(1..n) * Cardinality(1..m)
        BY <2>1, FS_Product, Zenon
      <3> QED
        BY <2>1, <3>1, Zenon
    <2>3. IsFiniteSet(B) /\ Cardinality(B) = n * k
      <3>1. IsFiniteSet(B) /\ Cardinality(B) = Cardinality(1..n) * Cardinality(1..k)
        BY <2>1, FS_Product, Zenon
      <3> QED
        BY <2>1, <3>1, Zenon
    <2> QED
      BY <2>2, <2>3
  <1>3. A \subseteq Units(s)
    <2> SUFFICES ASSUME NEW i \in 1..n, NEW j \in 1..m PROVE <<i, j>> \in Units(s)
      OBVIOUS
    <2>1. m <= s[i] /\ s[i] \in Nat
      BY <1>1
    <2>2. j \in 1..s[i]
      BY <2>1
    <2>3. <<i, j>> \in {i} \X (1..s[i])
      BY <2>2
    <2> QED
      BY <1>1, <2>3 DEF Units
  <1>4. Units(s) \subseteq B
    <2> SUFFICES ASSUME NEW u \in Units(s) PROVE u \in B
      OBVIOUS
    <2>1. PICK i \in 1..n : u \in {i} \X (1..s[i])
      BY <1>1 DEF Units
    <2>2. PICK j \in 1..s[i] : u = <<i, j>>
      BY <2>1
    <2>3. s[i] <= k /\ s[i] \in Nat
      BY <1>1
    <2>4. j \in 1..k
      BY <2>2, <2>3
    <2> QED
      BY <2>2, <2>4
  <1> HIDE DEF A, B
  <1>5. IsFiniteSet(Units(s))
    BY <1>2, <1>4, FS_Subset
  <1> QED
    BY <1>2, <1>3, <1>4, <1>5, FS_Subset DEF Total

LEMMA QuotientBetween ==
  ASSUME NEW n \in Nat, n # 0, NEW t \in Nat, NEW m \in Nat, NEW k \in Nat, n * m <= t, t <= n * k
  PROVE  m <= t \div n /\ t \div n <= k
  <1> DEFINE q == t \div n
  <1>1. q \in Nat /\ n * q <= t /\ t < n * q + n
    OBVIOUS
  <1> HIDE DEF q
  <1>2. ASSUME q > k PROVE FALSE
    <2>1. (k + 1) * n <= q * n
      BY <1>1, <1>2, ProductAtMost
    <2>2. (k + 1) * n = n * k + n /\ q * n = n * q /\ n * k \in Nat /\ n * q \in Nat
      BY <1>1
    <2> QED
      BY <1>1, <2>1, <2>2
  <1>3. ASSUME m > q PROVE FALSE
    <2>1. (q + 1) * n <= m * n
      BY <1>1, <1>3, ProductAtMost
    <2>2. (q + 1) * n = n * q + n /\ m * n = n * m /\ n * m \in Nat /\ n * q \in Nat
      BY <1>1
    <2> QED
      BY <1>1, <2>1, <2>2
  <1> QED
    BY <1>1, <1>2, <1>3 DEF q

\* The index of a percentile is one of the array's, and grows with p.
LEMMA IndexAscends ==
  ASSUME NEW h, h.reservoir_count \in Nat, h.reservoir_count # 0, NEW p \in Percentiles, NEW q \in Percentiles, p <= q
  PROVE  /\ PercentileIndex(h, p) \in Nat /\ PercentileIndex(h, p) + 1 \in 1..h.reservoir_count
         /\ PercentileIndex(h, p) <= PercentileIndex(h, q)
  <1> DEFINE n == h.reservoir_count - 1
  <1>1. n \in Nat /\ h.reservoir_count = n + 1
    OBVIOUS
  <1>2. p \in {500, 950, 990, 999} /\ q \in {500, 950, 990, 999}
    BY DEF Percentiles
  <1>3. /\ PercentileIndex(h, p) = (IF (p * n) \div 1000 >= h.reservoir_count THEN n ELSE (p * n) \div 1000)
        /\ PercentileIndex(h, q) = (IF (q * n) \div 1000 >= h.reservoir_count THEN n ELSE (q * n) \div 1000)
    BY DEF PercentileIndex
  <1> HIDE DEF n
  <1>4. (p * n) \div 1000 \in Nat /\ (p * n) \div 1000 <= n /\ (q * n) \div 1000 \in Nat /\ (q * n) \div 1000 <= n
    BY <1>1, <1>2
  <1>5. (p * n) \div 1000 <= (q * n) \div 1000
    <2>1. p * n <= q * n /\ p * n \in Nat /\ q * n \in Nat
      BY <1>1, <1>2, ProductAtMost
    <2> QED
      BY <2>1
  <1> QED
    BY <1>1, <1>3, <1>4, <1>5

\* What a copy takes over
LEMMA CopyFields ==
  ASSUME NEW m \in MetricsRecord, NEW old \in MetricsRecord, m.reservoir_count <= ReservoirSize
  PROVE  LET h == CopyOf(old, m)
         IN  /\ h.reservoir_count = m.reservoir_count /\ h.min = m.min /\ h.max = m.max
             /\ h.sum = m.sum /\ h.sample_count = m.sample_count
             /\ h.reservoir \in [Slots -> Nat]
             /\ \A i \in 1..m.reservoir_count : i \in Slots /\ h.reservoir[i] = m.reservoir[i]
  <1> DEFINE o == CopyTiming(CopyOperations(old, m), m)
             h == CopyHistogram(o, m)
  <1>1. m.reservoir_count \in Nat /\ m.reservoir \in [Slots -> Nat] /\ old.reservoir \in [Slots -> Nat]
    BY MetricsFields
  <1>2. DOMAIN o = FieldNames /\ o.reservoir = old.reservoir
    <2>1. DOMAIN old = FieldNames
      BY DEF MetricsRecord, FieldNames
    <2>2. DOMAIN o = DOMAIN old
      BY DEF CopyTiming, CopyOperations
    <2>3. o.reservoir = old.reservoir
      BY <2>1 DEF CopyTiming, CopyOperations, FieldNames
    <2> QED
      BY <2>1, <2>2, <2>3
  <1>3. h = CopyOf(old, m)
    BY DEF CopyOf
  <1> HIDE DEF o
  <1>4. /\ h.reservoir_count = m.reservoir_count /\ h.min = m.min /\ h.max = m.max
        /\ h.sum = m.sum /\ h.sample_count = m.sample_count
        /\ h.reservoir = [i \in Slots |-> IF i <= m.reservoir_count THEN m.reservoir[i] ELSE o.reservoir[i]]
    BY <1>2 DEF CopyHistogram, FieldNames
  <1>5. \A i \in 1..m.reservoir_count : i \in Slots
    BY <1>1, MetricsAssumption DEF Slots
  <1> HIDE DEF h
  <1>6. h.reservoir \in [Slots -> Nat] /\ \A i \in 1..m.reservoir_count : h.reservoir[i] = m.reservoir[i]
    <2>1. h.reservoir \in [Slots -> Nat]
      BY <1>1, <1>2, <1>4
    <2>2. \A i \in 1..m.reservoir_count : h.reservoir[i] = m.reservoir[i]
      BY <1>1, <1>4, <1>5
    <2> QED
      BY <2>1, <2>2
  <1> QED
    BY <1>3, <1>4, <1>5, <1>6

\* Once everybody is done, the slots up to the count hold samples, all of
\* them as long as there is room.
LEMMA ReservoirAtRest ==
  ASSUME MetricsInv, HonestInv, ~Busy, resetter = <<>>, ~blurred, ~overlapped
  PROVE  /\ metrics.reservoir_count <= ReservoirSize
         /\ truth # <<>> => metrics.reservoir_count # 0
         /\ \A i \in 1..metrics.reservoir_count : metrics.reservoir[i] \in Sampled
         /\ Len(truth) <= ReservoirSize =>
              BagOf([i \in 1..metrics.reservoir_count |-> metrics.reservoir[i]]) = BagOf(truth)
  <1> DEFINE n == metrics.reservoir_count
  <1>0. MetricsTypeOK /\ ReservoirInv
    BY DEF HonestInv, MetricsInv
  <1>1. In(Early) = {} /\ Storing = {} /\ Adding = {}
    BY DEF In, Early, Storing, Adding, Busy, At
  <1>2. n \in Nat /\ n <= ReservoirSize /\ ReservoirSize \in Nat /\ Len(truth) \in Nat /\ DOMAIN truth = 1..Len(truth)
    BY <1>0, ReservoirFinite DEF ReservoirInv, OneFills
  <1>3. Filled = 1..n
    BY <1>1, <1>2 DEF Filled, Slots
  <1>4. \A i \in 1..n : metrics.reservoir[i] \in Sampled
    BY <1>0, <1>3 DEF ReservoirInv
  <1>5. ASSUME truth # <<>> PROVE n # 0
    <2>1. Len(truth) # 0
      BY <1>0, <1>5 DEF MetricsTypeOK
    <2>2. Cardinality(In(Early) \union Adding) = 0
      BY <1>1, FS_EmptySet
    <2> QED
      BY <1>0, <1>2, <2>1, <2>2, MetricsAssumption DEF ReservoirInv, AllCounted
  <1>6. ASSUME Len(truth) <= ReservoirSize
        PROVE  BagOf([i \in 1..n |-> metrics.reservoir[i]]) = BagOf(truth)
    <2> DEFINE v == [i \in 1..n |-> metrics.reservoir[i]]
               C(x) == Cardinality({i \in 1..n : v[i] = x})
               D(x) == Cardinality({i \in DOMAIN truth : truth[i] = x})
    <2>1. ASSUME NEW x PROVE C(x) = D(x) /\ IsFiniteSet({i \in 1..n : v[i] = x}) /\ IsFiniteSet({i \in DOMAIN truth : truth[i] = x})
      <3>1. UnstoredWith(x) = {}
        BY <1>1 DEF UnstoredWith
      <3>2. {i \in 1..n : v[i] = x} = SlotsWith(x) /\ {i \in DOMAIN truth : truth[i] = x} = SamplesWith(x)
        BY <1>3 DEF SlotsWith, SamplesWith
      <3>3. Cardinality(SlotsWith(x)) + Cardinality(UnstoredWith(x)) = Cardinality(SamplesWith(x))
        BY <1>0, <1>6 DEF ReservoirInv, AllStored
      <3>4. Cardinality(UnstoredWith(x)) = 0 /\ Cardinality(SlotsWith(x)) \in Nat
        BY <1>0, <3>1, FS_EmptySet, ReservoirFinite
      <3>5. IsFiniteSet(SlotsWith(x)) /\ IsFiniteSet(SamplesWith(x))
        BY <1>0, ReservoirFinite
      <3>6. Cardinality(SlotsWith(x)) = Cardinality(SamplesWith(x))
        BY <3>3, <3>4
      <3> HIDE DEF v
      <3> QED
        BY <3>2, <3>5, <3>6, Zenon
    <2>2. ToSet(v) = ToSet(truth)
      <3>1. ASSUME NEW x PROVE x \in ToSet(v) <=> C(x) # 0
        <4>1. x \in ToSet(v) <=> {i \in 1..n : v[i] = x} # {}
          BY DEF ToSet
        <4> QED
          BY <2>1, <4>1, FS_EmptySet
      <3>2. ASSUME NEW x PROVE x \in ToSet(truth) <=> D(x) # 0
        <4>1. x \in ToSet(truth) <=> {i \in DOMAIN truth : truth[i] = x} # {}
          BY DEF ToSet
        <4> QED
          BY <2>1, <4>1, FS_EmptySet
      <3> HIDE DEF v, C, D
      <3> QED
        BY <2>1, <3>1, <3>2
    <2>3. BagOf(v) = [x \in ToSet(v) |-> C(x)] /\ BagOf(truth) = [x \in ToSet(truth) |-> D(x)]
      BY DEF BagOf
    <2> HIDE DEF v, C, D
    <2>4. BagOf(v) = BagOf(truth)
      BY <2>1, <2>2, <2>3
    <2> QED
      BY <2>4 DEF v
  <1> QED
    BY <1>2, <1>4, <1>5, <1>6

\* Percentiles of samples that ascend
LEMMA PercentilesOf ==
  ASSUME NEW h, NEW n \in Nat, n # 0, n <= ReservoirSize, h.reservoir_count = n, h.reservoir \in [Slots -> Nat],
         NEW p \in Percentiles, NEW q \in Percentiles, p <= q
  PROVE  /\ \E k \in 1..n : Percentile(h, p) = h.reservoir[k]
         /\ Percentile(h, p) <= Percentile(h, q)
  <1> DEFINE i == PercentileIndex(h, p) + 1
             j == PercentileIndex(h, q) + 1
  <1>1. /\ DOMAIN Sorted(h) = 1..n /\ Ascends(Sorted(h))
        /\ \A a \in 1..n : \E k \in 1..n : Sorted(h)[a] = h.reservoir[k]
    BY SortedIs
  <1>2. Percentile(h, p) = Sorted(h)[i] /\ Percentile(h, q) = Sorted(h)[j]
    BY DEF Percentile
  <1>3. i \in 1..n /\ PercentileIndex(h, p) <= PercentileIndex(h, q) /\ PercentileIndex(h, p) \in Nat
    BY IndexAscends
  <1>4. q <= q
    BY DEF Percentiles
  <1>5. j \in 1..n /\ PercentileIndex(h, q) \in Nat
    BY <1>4, IndexAscends
  <1>6. i <= j
    BY <1>3, <1>5
  <1> HIDE DEF i, j
  <1>7. Sorted(h)[i] <= Sorted(h)[j]
    BY <1>1, <1>3, <1>5, <1>6 DEF Ascends
  <1> QED
    BY <1>1, <1>2, <1>3, <1>7

\* The values get_percentile and avg give, of the metrics and of a copy of
\* them, are true of the latencies recorded since the last reset, whatever the
\* number of recorders, the size of the reservoir and the interleaving; and
\* the unsynchronised count passes the reservoir's size by less than the
\* number of recorders.
THEOREM PercentilesAreHonest ==
  MetricsSpec => []PercentilesHonest
  <1>1. MetricsInv /\ HonestInv /\ TotalsExact /\ Overshoot => PercentilesHonest
    <2> SUFFICES ASSUME MetricsInv, HonestInv, TotalsExact, ~Busy, resetter = <<>>, ~blurred, ~overlapped,
                        NEW old \in {NoMetrics, [NoMetrics EXCEPT !.reservoir = [i \in Slots |-> 1], !.max = UINT64_MAX]}
                 PROVE  Describes(CopyOf(old, metrics))
      BY DEF PercentilesHonest
    <2> DEFINE h == CopyOf(old, metrics)
               n == metrics.reservoir_count
    <2>0. MetricsTypeOK /\ metrics \in MetricsRecord /\ n \in Nat /\ metrics.sample_count \in Nat
          /\ metrics.max \in Nat /\ metrics.min \in Nat
      BY MetricsFields DEF MetricsInv, MetricsTypeOK
    <2>1. old \in MetricsRecord
      <3>1. NoMetrics \in MetricsRecord
        BY MetricsAssumption DEF NoMetrics, MetricsRecord
      <3>2. [NoMetrics EXCEPT !.reservoir = [i \in Slots |-> 1], !.max = UINT64_MAX] \in MetricsRecord
        BY MetricsAssumption DEF NoMetrics, MetricsRecord
      <3> QED
        BY <3>1, <3>2
    <2>2. /\ n <= ReservoirSize
          /\ truth # <<>> => n # 0
          /\ \A i \in 1..n : metrics.reservoir[i] \in Sampled
          /\ Len(truth) <= ReservoirSize => BagOf([i \in 1..n |-> metrics.reservoir[i]]) = BagOf(truth)
      BY ReservoirAtRest
    <2>3. /\ h.reservoir_count = n /\ h.min = metrics.min /\ h.max = metrics.max
          /\ h.sum = metrics.sum /\ h.sample_count = metrics.sample_count
          /\ h.reservoir \in [Slots -> Nat]
          /\ \A i \in 1..n : h.reservoir[i] = metrics.reservoir[i]
      BY <2>0, <2>1, <2>2, CopyFields
    <2>4. /\ metrics.sample_count = Len(truth) /\ metrics.sum = Total(truth)
          /\ truth # <<>> => metrics.max = Max(Sampled) /\ metrics.min = Min(Sampled)
      BY DEF TotalsExact
    <2> HIDE DEF h, n
    <2>5. ASSUME NEW p \in Percentiles, NEW q \in Percentiles, p <= q PROVE Percentile(h, p) <= Percentile(h, q)
      <3>1. CASE n = 0
        BY <2>3, <3>1 DEF Percentile
      <3>2. CASE n # 0
        BY <2>0, <2>2, <2>3, <2>5, <3>2, PercentilesOf
      <3> QED
        BY <3>1, <3>2
    <2>6. ASSUME truth # <<>>, NEW p \in Percentiles PROVE Percentile(h, p) \in Sampled
      <3>1. p <= p
        BY DEF Percentiles
      <3>2. \E k \in 1..n : Percentile(h, p) = h.reservoir[k]
        BY <2>0, <2>2, <2>3, <2>6, <3>1, PercentilesOf
      <3> QED
        BY <2>2, <2>3, <3>2
    <2>7. ASSUME truth # <<>>
          PROVE  \A x \in Sampled : x \in Nat /\ metrics.min <= x /\ x <= metrics.max
      <3>1. Sampled \subseteq Nat
        BY <2>0, SampledLatencies
      <3>2. In(BeforeMax) = {} /\ In(BeforeMin) = {} /\ ExtremesInv
        BY DEF MetricsInv, Busy, At, In, BeforeMin, BeforeMax
      <3> QED
        BY <2>0, <3>1, <3>2 DEF ExtremesInv
    <2>8. ASSUME truth # <<>>
          PROVE  h.min <= Average(h) /\ Average(h) <= h.max /\ Percentile(h, 999) <= h.max
      <3>1. truth \in Seq(Nat) /\ Len(truth) \in Nat /\ Len(truth) # 0
        BY <2>0, <2>8, MetricsAssumption DEF MetricsTypeOK
      <3>2. \A i \in DOMAIN truth : metrics.min <= truth[i] /\ truth[i] <= metrics.max
        BY <2>7, <2>8 DEF Sampled
      <3>3. Len(truth) * metrics.min <= Total(truth) /\ Total(truth) <= Len(truth) * metrics.max
        BY <2>0, <3>1, <3>2, TotalBetween
      <3>4. Total(truth) \in Nat
        BY <2>0, <2>4, MetricsFields
      <3>5. metrics.min <= Total(truth) \div Len(truth) /\ Total(truth) \div Len(truth) <= metrics.max
        BY <2>0, <3>1, <3>3, <3>4, QuotientBetween
      <3>6. Average(h) = Total(truth) \div Len(truth)
        BY <2>3, <2>4, <3>1 DEF Average
      <3>7. 999 \in Percentiles
        BY DEF Percentiles
      <3> QED
        BY <2>3, <2>6, <2>7, <2>8, <3>5, <3>6, <3>7
    <2>9. ASSUME Len(truth) <= ReservoirSize PROVE BagOf(Sorted(h)) = BagOf(truth)
      <3>1. BagOf(Sorted(h)) = BagOf([i \in 1..n |-> h.reservoir[i]])
        BY <2>0, <2>2, <2>3, SortedIs
      <3>2. [i \in 1..n |-> h.reservoir[i]] = [i \in 1..n |-> metrics.reservoir[i]]
        BY <2>3
      <3> QED
        BY <2>2, <2>9, <3>1, <3>2
    <2> QED
      BY <2>5, <2>6, <2>8, <2>9 DEF Describes, h
  <1> QED
    BY <1>1, ReservoirInvariance, TotalsAreExact, OvershootBounded, PTL
=============================================================================
