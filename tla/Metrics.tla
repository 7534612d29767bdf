------------------------------ MODULE Metrics ------------------------------
(***************************************************************************)
(* The metrics of one kind of operation (container/metrics.h): the switch  *)
(* of metrics_manager, the operation counter, the total time, and the      *)
(* latency histogram with its reservoir.  Threads run measured operations, *)
(* one step for each access to an atomic; another thread resets them field *)
(* by field.  Copies and percentiles are functions of the metrics: of what *)
(* a reader gets while others write, nothing could be said.                *)
(*                                                                         *)
(* All accesses are relaxed.  The two stores that put a sample into the    *)
(* reservoir may therefore be seen in either order; the other accesses are *)
(* to fields that nothing reads together, and keep the program's order.    *)
(***************************************************************************)
EXTENDS Naturals, Sequences, FiniteSetsExt, SequencesExt

CONSTANTS
  Recorders,      \* threads that run measured operations
  Latencies,      \* the latencies the clock can give
  ReservoirSize,  \* kReservoirSize, a power of two
  UINT64_MAX,
  MaxSamples,     \* bound on the operations started
  MaxChanges      \* bound on the calls of set_enabled and reset

VARIABLES
  enabled,  \* metrics_manager::enabled_
  started,  \* operations so far
  changes,  \* calls of set_enabled and reset so far
  metrics,  \* operations, timing and histogram, field by field
  rec,      \* per recorder: position and local variables
  resetter, \* the resetting thread: the fields it has still to clear
  truth,    \* history: the latencies sampled since the last reset
  blurred,  \* history: a reset or a switch overlapped a measured operation
  overlapped \* history: two recorders were between the load and the update of reservoir_count

metricsVars == <<enabled, started, changes, metrics, rec, resetter, truth, blurred, overlapped>>

ASSUME MetricsAssumption ==
  /\ IsFiniteSet(Recorders)
  /\ ReservoirSize \in Nat \ {0} /\ Latencies \subseteq Nat
  /\ UINT64_MAX \in Nat /\ \A l \in Latencies : l < UINT64_MAX

Slots == 1..ReservoirSize

\* The fields that reset clears in operation_counts, timing_metrics and latency_histogram
OperationFields == <<"operations">>
TimingFields == <<"total">>
HistogramFields == <<"sample_count", "max", "min", "sum", "reservoir_count", "reservoir">>

NoMetrics == [operations |-> 0, total |-> 0, sample_count |-> 0, max |-> 0, min |-> UINT64_MAX,
              sum |-> 0, reservoir_count |-> 0, reservoir |-> [i \in Slots |-> 0]]
NoRecord == [at |-> "idle", timed |-> FALSE, latency |-> 0, count |-> 0, current |-> 0, idx |-> 0,
             todo |-> {}]

MetricsInit ==
  /\ enabled \in BOOLEAN /\ started = 0 /\ changes = 0
  /\ metrics = NoMetrics
  /\ rec = [r \in Recorders |-> NoRecord]
  /\ resetter = <<>>
  /\ truth = <<>> /\ blurred = FALSE /\ overlapped = FALSE

At(r, l) == rec[r].at = l
Busy == \E r \in Recorders : ~At(r, "idle")

\* metrics_manager::set_enabled
SetEnabled(e) ==
  /\ changes < MaxChanges /\ e # enabled
  /\ enabled' = e /\ changes' = changes + 1
  /\ blurred' = (blurred \/ \E r \in Recorders : At(r, "counting"))
  /\ UNCHANGED <<started, metrics, rec, resetter, truth, overlapped>>

-----------------------------------------------------------------------------
(* A measured operation *)

\* make_timer: the switch is read, ...
MakeTimer(r, l) ==
  /\ At(r, "idle") /\ started < MaxSamples
  /\ started' = started + 1
  /\ rec' = [rec EXCEPT ![r] = [NoRecord EXCEPT !.at = "counting", !.timed = enabled, !.latency = l]]
  /\ blurred' = (blurred \/ resetter # <<>>)
  /\ UNCHANGED <<enabled, changes, metrics, resetter, truth, overlapped>>

\* ... and read again for the operation counter.
CountOperation(r) ==
  /\ At(r, "counting")
  /\ metrics' = [metrics EXCEPT !.operations = IF enabled THEN @ + 1 ELSE @]
  /\ rec' = [rec EXCEPT ![r].at = IF rec[r].timed THEN "sampling" ELSE "idle"]
  /\ UNCHANGED <<enabled, started, changes, resetter, truth, blurred, overlapped>>

\* ~scoped_timer calls record: sample_count.fetch_add(1) + 1
CountSample(r) ==
  /\ At(r, "sampling")
  /\ metrics' = [metrics EXCEPT !.sample_count = @ + 1]
  /\ rec' = [rec EXCEPT ![r].at = "load_max", ![r].count = metrics.sample_count + 1]
  /\ truth' = Append(truth, rec[r].latency)
  /\ UNCHANGED <<enabled, started, changes, resetter, blurred, overlapped>>

LoadMax(r) ==
  /\ At(r, "load_max")
  /\ rec' = [rec EXCEPT ![r].at = "cas_max", ![r].current = metrics.max]
  /\ UNCHANGED <<enabled, started, changes, metrics, resetter, truth, blurred, overlapped>>

\* Mutant: the maximum is stored without comparing again.
StoreMax(r) ==
  /\ At(r, "cas_max")
  /\ metrics' = [metrics EXCEPT !.max = IF rec[r].latency > rec[r].current THEN rec[r].latency ELSE @]
  /\ rec' = [rec EXCEPT ![r].at = "load_min"]
  /\ UNCHANGED <<enabled, started, changes, resetter, truth, blurred, overlapped>>

\* while (latency > current_max && !compare_exchange): a failure reloads.
CasMax(r) ==
  /\ At(r, "cas_max")
  /\ IF rec[r].latency > rec[r].current /\ metrics.max # rec[r].current
     THEN rec' = [rec EXCEPT ![r].current = metrics.max] /\ UNCHANGED metrics
     ELSE /\ rec' = [rec EXCEPT ![r].at = "load_min"]
          /\ metrics' = [metrics EXCEPT !.max = IF rec[r].latency > rec[r].current
                                                THEN rec[r].latency ELSE @]
  /\ UNCHANGED <<enabled, started, changes, resetter, truth, blurred, overlapped>>

LoadMin(r) ==
  /\ At(r, "load_min")
  /\ rec' = [rec EXCEPT ![r].at = "cas_min", ![r].current = metrics.min]
  /\ UNCHANGED <<enabled, started, changes, metrics, resetter, truth, blurred, overlapped>>

CasMin(r) ==
  /\ At(r, "cas_min")
  /\ IF rec[r].latency < rec[r].current /\ metrics.min # rec[r].current
     THEN rec' = [rec EXCEPT ![r].current = metrics.min] /\ UNCHANGED metrics
     ELSE /\ rec' = [rec EXCEPT ![r].at = "summing"]
          /\ metrics' = [metrics EXCEPT !.min = IF rec[r].latency < rec[r].current
                                                THEN rec[r].latency ELSE @]
  /\ UNCHANGED <<enabled, started, changes, resetter, truth, blurred, overlapped>>

\* sum_ns.fetch_add
AddSum(r) ==
  /\ At(r, "summing")
  /\ metrics' = [metrics EXCEPT !.sum = @ + rec[r].latency]
  /\ rec' = [rec EXCEPT ![r].at = "load_count"]
  /\ UNCHANGED <<enabled, started, changes, resetter, truth, blurred, overlapped>>

Filling(r) == At(r, "reservoir") /\ rec[r].todo # {}

RoomLeft(idx) == idx < ReservoirSize

\* idx = reservoir_count.load()
LoadCount(r) ==
  /\ At(r, "load_count")
  /\ rec' = [rec EXCEPT ![r].at = "reservoir", ![r].idx = metrics.reservoir_count,
               ![r].todo = IF RoomLeft(metrics.reservoir_count) THEN {"slot", "count"} ELSE {}]
  /\ overlapped' = (overlapped \/ \E s \in Recorders : Filling(s))
  /\ UNCHANGED <<enabled, started, changes, metrics, resetter, truth, blurred>>

\* reservoir[idx].store(latency): beyond the array when idx is its size
FillSlot(r) ==
  /\ Filling(r) /\ "slot" \in rec[r].todo
  /\ metrics' = [metrics EXCEPT !.reservoir = [i \in Slots |-> IF i = rec[r].idx + 1
                                                               THEN rec[r].latency ELSE @[i]]]
  /\ rec' = [rec EXCEPT ![r].todo = @ \ {"slot"},
                        ![r].at = IF rec[r].todo = {"slot"} THEN "total" ELSE @]
  /\ UNCHANGED <<enabled, started, changes, resetter, truth, blurred, overlapped>>

\* reservoir_count.fetch_add(1)
FillCount(r) ==
  /\ Filling(r) /\ "count" \in rec[r].todo
  /\ metrics' = [metrics EXCEPT !.reservoir_count = @ + 1]
  /\ rec' = [rec EXCEPT ![r].todo = @ \ {"count"},
                        ![r].at = IF rec[r].todo = {"count"} THEN "total" ELSE @]
  /\ UNCHANGED <<enabled, started, changes, resetter, truth, blurred, overlapped>>

\* The bits of count * 2654435769 above the lowest 32, without leaving
\* TLC's integers (2654435769 = 40503 * 2^16 + 31161), and its remainder by a
\* power of two up to 1024.
HashHigh(count) == (count * 40503 + (count * 31161) \div 65536) \div 65536
HashLow(count) == (count * 441) % ReservoirSize

\* The reservoir is full: a sample is replaced, or not.
Replace(r) ==
  /\ At(r, "reservoir") /\ rec[r].todo = {}
  /\ metrics' = [metrics EXCEPT !.reservoir =
       IF HashHigh(rec[r].count) % rec[r].count < ReservoirSize
       THEN [@ EXCEPT ![HashLow(rec[r].count) + 1] = rec[r].latency] ELSE @]
  /\ rec' = [rec EXCEPT ![r].at = "total"]
  /\ UNCHANGED <<enabled, started, changes, resetter, truth, blurred, overlapped>>

\* timing_total_->fetch_add
AddTotal(r) ==
  /\ At(r, "total")
  /\ metrics' = [metrics EXCEPT !.total = @ + rec[r].latency]
  /\ rec' = [rec EXCEPT ![r] = NoRecord]
  /\ UNCHANGED <<enabled, started, changes, resetter, truth, blurred, overlapped>>

-----------------------------------------------------------------------------
(* Copies and resets *)

\* The assignments of operation_counts, timing_metrics and latency_histogram:
\* slots behind the count keep what the target had.
CopyOperations(m, other) == [m EXCEPT !.operations = other.operations]
CopyTiming(m, other) == [m EXCEPT !.total = other.total]
CopyHistogram(m, other) ==
  [f \in DOMAIN m |-> CASE f \in {"operations", "total"} -> m[f]
                       [] f = "reservoir" -> [i \in Slots |-> IF i <= other.reservoir_count
                                                              THEN other.reservoir[i] ELSE m.reservoir[i]]
                       [] OTHER -> other[f]]
CopyOf(m, other) == CopyHistogram(CopyTiming(CopyOperations(m, other), other), other)

\* detailed_metrics::reset: field after field
ResetBegin ==
  /\ resetter = <<>> /\ changes < MaxChanges
  /\ resetter' = OperationFields \o TimingFields \o HistogramFields
  /\ changes' = changes + 1
  /\ truth' = <<>>
  /\ blurred' = Busy /\ overlapped' = Busy
  /\ UNCHANGED <<enabled, started, metrics, rec>>

\* Mutant: the reservoir keeps its count.
ResetFieldButCount ==
  /\ resetter # <<>>
  /\ metrics' = IF Head(resetter) = "reservoir_count" THEN metrics
                ELSE [metrics EXCEPT ![Head(resetter)] = NoMetrics[Head(resetter)]]
  /\ resetter' = Tail(resetter)
  /\ UNCHANGED <<enabled, started, changes, rec, truth, blurred, overlapped>>

ResetField ==
  /\ resetter # <<>>
  /\ metrics' = [metrics EXCEPT ![Head(resetter)] = NoMetrics[Head(resetter)]]
  /\ resetter' = Tail(resetter)
  /\ UNCHANGED <<enabled, started, changes, rec, truth, blurred, overlapped>>

Record(r) ==
  \/ CountSample(r) \/ LoadMax(r) \/ CasMax(r) \/ LoadMin(r) \/ CasMin(r) \/ AddSum(r)
  \/ LoadCount(r) \/ FillSlot(r) \/ FillCount(r) \/ Replace(r) \/ AddTotal(r)

\* A reset or a switch in the middle of an operation leaves counters of which
\* nothing is said; the behaviour is not followed further.
MetricsNext ==
  /\ ~blurred
  /\ \/ \E e \in BOOLEAN : SetEnabled(e)
     \/ \E r \in Recorders, l \in Latencies : MakeTimer(r, l)
     \/ \E r \in Recorders : CountOperation(r) \/ Record(r)
     \/ ResetBegin \/ ResetField

MetricsSpec == MetricsInit /\ [][MetricsNext]_metricsVars

-----------------------------------------------------------------------------
(* What get_percentile returns for p / 1000 *)

BagOf(s) == [x \in ToSet(s) |-> Cardinality({i \in DOMAIN s : s[i] = x})]
Ascends(s) == \A i, j \in DOMAIN s : i <= j => s[i] <= s[j]

\* std::sort of the values that were copied; the rest of the local array is
\* zero.  More than the array holds are sorted beyond its end: nothing is
\* known then.
Sorted(h) ==
  LET copied == SubSeq(h.reservoir, 1, h.reservoir_count)
  IN  CHOOSE s \in [DOMAIN copied -> ToSet(copied)] : Ascends(s) /\ BagOf(s) = BagOf(copied)

PercentileIndex(h, p) ==
  LET i == (p * (h.reservoir_count - 1)) \div 1000
  IN  IF i >= h.reservoir_count THEN h.reservoir_count - 1 ELSE i

Percentile(h, p) ==
  IF h.reservoir_count = 0 THEN 0 ELSE Sorted(h)[PercentileIndex(h, p) + 1]

\* p50, p95, p99 and p999
Percentiles == {500, 950, 990, 999}

\* avg, rounded down
Average(h) == IF h.sample_count = 0 THEN 0 ELSE h.sum \div h.sample_count

-----------------------------------------------------------------------------
(* Properties *)

Sampled == {truth[i] : i \in DOMAIN truth}

\* The sum of the numbers a function takes, as the number of their units: of
\* this definition the prover can show what one more summand does.
Units(f) == UNION {{x} \X (1..f[x]) : x \in DOMAIN f}
Total(f) == Cardinality(Units(f))

\* When no operation is under way, and no reset or switch overlapped one, the
\* counters, the sums, the maximum and the minimum are exactly those of the
\* operations since the last reset, however the recorders' steps interleaved.
TotalsExact ==
  ~Busy /\ resetter = <<>> /\ ~blurred =>
    /\ metrics.operations = Len(truth) /\ metrics.sample_count = Len(truth)
    /\ metrics.sum = Total(truth) /\ metrics.total = metrics.sum
    /\ metrics.max = (IF truth = <<>> THEN 0 ELSE Max(Sampled))
    /\ metrics.min = (IF truth = <<>> THEN UINT64_MAX ELSE Min(Sampled))

\* The unsynchronised check of reservoir_count lets it pass the size of the
\* reservoir, by less than the number of recorders.
Overshoot == metrics.reservoir_count <= ReservoirSize + Cardinality(Recorders) - 1

\* What get_percentile and avg say of h is true of the samples.
Describes(h) ==
  /\ \A p, q \in Percentiles : p <= q => Percentile(h, p) <= Percentile(h, q)
  /\ truth # <<>> =>
       /\ \A p \in Percentiles : Percentile(h, p) \in Sampled
       /\ h.min <= Average(h) /\ Average(h) <= h.max /\ Percentile(h, 999) <= h.max
  /\ Len(truth) <= ReservoirSize => BagOf(Sorted(h)) = BagOf(truth)

\* With nobody writing, and a reservoir that no two recorders filled at once,
\* the percentiles of the metrics and of a copy are latencies that were
\* recorded and ascend, up to the maximum, around an average between the
\* extremes, whatever the target of the copy held; and as long as the
\* reservoir has room it holds every sample.  Recorders that do fill it at
\* once pass its size by less than their number.
PercentilesHonest ==
  /\ Overshoot
  /\ ~Busy /\ resetter = <<>> /\ ~blurred /\ ~overlapped =>
       \A old \in {NoMetrics, [NoMetrics EXCEPT !.reservoir = [i \in Slots |-> 1], !.max = UINT64_MAX]} :
         Describes(CopyOf(old, metrics))
=============================================================================
