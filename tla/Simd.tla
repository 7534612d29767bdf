-------------------------------- MODULE Simd --------------------------------
(***************************************************************************)
(* The vectorised reductions: simd_processor (internal/simd_processor.cpp), *)
(* which reduces the floats among the values of a container, and the SIMD  *)
(* policies of internal/simd_policies.h.  Each handles whole vectors of    *)
(* 4, 8 or 16 lanes, folds the lanes, and then takes the tail one by one.  *)
(*                                                                         *)
(* A float is an integer in -Largest..Largest, an infinity or NaN.  The    *)
(* rounding of sums is left out.  The instructions are external: what they *)
(* do with NaN is their documented behaviour.                              *)
(***************************************************************************)
EXTENDS Integers, Sequences, SequencesExt, FiniteSets

CONSTANTS
  Largest,   \* numeric_limits<float>::max()
  Inputs     \* the vectors of values to reduce

VARIABLES
  input,    \* the values of the call of the last step
  call,     \* which reduction it was, and of which policy
  answer    \* what it returned

simdVars == <<input, call, answer>>

Infinity == Largest + 1
NaN == Largest + 2
Finite == (-Largest)..Largest
NoAnswer == <<>>     \* nullopt

-----------------------------------------------------------------------------
(* Arithmetic and the instructions *)

\* IEEE 754: comparisons with NaN are false, infinities absorb.
Less(a, b) == a # NaN /\ b # NaN /\ a < b
Plus(a, b) ==
  IF NaN \in {a, b} \/ {a, b} = {Infinity, -Infinity} THEN NaN
  ELSE IF a \notin Finite THEN a ELSE IF b \notin Finite THEN b ELSE a + b

\* _mm_min_ps and _mm_max_ps give the second operand when the comparison is
\* false; vminq_f32 and vmaxq_f32 give NaN when an operand is NaN.
MinPs(a, b) == IF Less(a, b) THEN a ELSE b
MaxPs(a, b) == IF Less(b, a) THEN a ELSE b
VMin(a, b) == IF NaN \in {a, b} THEN NaN ELSE MinPs(a, b)
VMax(a, b) == IF NaN \in {a, b} THEN NaN ELSE MaxPs(a, b)

\* if (x < best) best = x
KeepLess(best, x) == IF Less(x, best) THEN x ELSE best
KeepMore(best, x) == IF Less(best, x) THEN x ELSE best

Apply(op, a, b) ==
  CASE op = "add" -> Plus(a, b)
    [] op = "min_ps" -> MinPs(a, b) [] op = "max_ps" -> MaxPs(a, b)
    [] op = "vmin" -> VMin(a, b) [] op = "vmax" -> VMax(a, b)
    [] op = "less" -> KeepLess(a, b) [] op = "more" -> KeepMore(a, b)

Lanes(width, x) == [l \in 1..width |-> x]
Vertical(op, u, v) == [l \in DOMAIN u |-> Apply(op, u[l], v[l])]
\* The lower half of a vector with the upper half
Halve(op, v) == [l \in 1..(Len(v) \div 2) |-> Apply(op, v[l], v[l + Len(v) \div 2])]
\* _mm_hadd_ps(v, v)
HAdd(v) == LET a == Plus(v[1], v[2])
               b == Plus(v[3], v[4])
           IN  <<a, b, a, b>>

\* _mm512_reduce_*: halve until one lane is left
Reduce16(op, v) == Halve(op, Halve(op, Halve(op, Halve(op, v))))[1]
Reduce8(op, v) == Halve(op, Halve(op, Halve(op, v)))[1]

-----------------------------------------------------------------------------
(* The shape of every vector loop *)

\* for (x : s) acc = op(acc, x)
Loop(op, start, s) ==
  LET acc[n \in 0..Len(s)] == IF n = 0 THEN start ELSE Apply(op, acc[n - 1], s[n])
  IN  acc[Len(s)]

\* simd_end
SimdEnd(data, width) == Len(data) - (Len(data) % width)

\* The vectors up to simd_end, accumulated lane by lane
Vectors(data, width) == SimdEnd(data, width) \div width
Vector(data, width, k) == [l \in 1..width |-> data[(k - 1) * width + l]]
Accumulate(op, start, data, width) ==
  LET acc[k \in 0..Vectors(data, width)] ==
        IF k = 0 THEN Lanes(width, start) ELSE Vertical(op, acc[k - 1], Vector(data, width, k))
  IN  acc[Vectors(data, width)]

\* The tail, element by element
Rest(op, start, data, width) == Loop(op, start, SubSeq(data, SimdEnd(data, width) + 1, Len(data)))

\* result[0], then the other lanes
LoopLanes(keep, v) == Loop(keep, v[1], Tail(v))

-----------------------------------------------------------------------------
(* The policies *)

ScalarSum(data) == Loop("add", 0, data)
ScalarMin(data) == IF data = <<>> THEN Largest ELSE LoopLanes("less", data)
ScalarMax(data) == IF data = <<>> THEN -Largest ELSE LoopLanes("more", data)
ScalarSumDoubles(data) == Loop("add", 0, data)

\* Mutant: the elements behind the last whole vector are forgotten.
SseSumWhole(data) == HAdd(HAdd(Accumulate("add", 0, data, 4)))[1]

SseSum(data) == Rest("add", HAdd(HAdd(Accumulate("add", 0, data, 4)))[1], data, 4)
SseMin(data) ==
  IF data = <<>> THEN Largest
  ELSE Rest("less", LoopLanes("less", Accumulate("min_ps", Largest, data, 4)), data, 4)
SseMax(data) ==
  IF data = <<>> THEN -Largest
  ELSE Rest("more", LoopLanes("more", Accumulate("max_ps", -Largest, data, 4)), data, 4)
SseSumDoubles(data) == Loop("add", 0, data)

Avx2Sum(data) ==
  Rest("add", HAdd(HAdd(Halve("add", Accumulate("add", 0, data, 8))))[1], data, 8)
Avx2Min(data) ==
  IF data = <<>> THEN Largest
  ELSE Rest("less", LoopLanes("less", Accumulate("min_ps", Largest, data, 8)), data, 8)
Avx2Max(data) ==
  IF data = <<>> THEN -Largest
  ELSE Rest("more", LoopLanes("more", Accumulate("max_ps", -Largest, data, 8)), data, 8)
Avx2SumDoubles(data) == Loop("add", 0, data)

Avx512Sum(data) == Rest("add", Reduce16("add", Accumulate("add", 0, data, 16)), data, 16)
Avx512Min(data) ==
  IF data = <<>> THEN Largest ELSE Rest("less", Reduce16("min_ps", Accumulate("min_ps", Largest, data, 16)), data, 16)
Avx512Max(data) ==
  IF data = <<>> THEN -Largest ELSE Rest("more", Reduce16("max_ps", Accumulate("max_ps", -Largest, data, 16)), data, 16)
Avx512SumDoubles(data) == Rest("add", Reduce8("add", Accumulate("add", 0, data, 8)), data, 8)

NeonSum(data) ==
  LET pair == Halve("add", Accumulate("add", 0, data, 4))
  IN  Rest("add", Plus(pair[1], pair[2]), data, 4)
NeonMin(data) ==
  IF data = <<>> THEN Largest
  ELSE Rest("less", LoopLanes("less", Accumulate("vmin", Largest, data, 4)), data, 4)
NeonMax(data) ==
  IF data = <<>> THEN -Largest
  ELSE Rest("more", LoopLanes("more", Accumulate("vmax", -Largest, data, 4)), data, 4)
NeonSumDoubles(data) == Loop("add", 0, data)

-----------------------------------------------------------------------------
(* simd_processor: the same loops, chosen by the build *)

SumFloatsScalar(data) == ScalarSum(data)
MinFloatScalar(data) == ScalarMin(data)
MaxFloatScalar(data) == ScalarMax(data)
SumFloatsSse(data) == SseSum(data)
MinFloatSse(data) == SseMin(data)
MaxFloatSse(data) == SseMax(data)
SumFloatsAvx2(data) == Avx2Sum(data)
MinFloatAvx2(data) == Avx2Min(data)
MaxFloatAvx2(data) == Avx2Max(data)
SumFloatsAvx512(data) == Avx512Sum(data)
MinFloatAvx512(data) == Avx512Min(data)
MaxFloatAvx512(data) == Avx512Max(data)
SumFloatsNeon(data) == NeonSum(data)
MinFloatNeon(data) == NeonMin(data)
MaxFloatNeon(data) == NeonMax(data)

Builds == {"scalar", "sse", "avx2", "avx512", "neon"}

\* The values that hold a float, in their order: Ascending is the order of a
\* set of positions.
Ascending(kept) == [j \in 1..Cardinality(kept) |-> CHOOSE i \in kept : Cardinality(kept \cap 1..i) = j]
OfType(values, type) == {i \in DOMAIN values : values[i].type = type}
DataOf(values, type) ==
  LET at == Ascending(OfType(values, type)) IN [j \in DOMAIN at |-> values[at[j]].data]
Floats(values) == DataOf(values, "float_value")

SumFloats(build, values) ==
  LET data == Floats(values)
  IN  IF data = <<>> THEN 0
      ELSE CASE build = "avx512" -> SumFloatsAvx512(data)
             [] build = "avx2" -> SumFloatsAvx2(data)
             [] build = "sse" -> SumFloatsSse(data)
             [] build = "neon" -> SumFloatsNeon(data)
             [] build = "scalar" -> SumFloatsScalar(data)

MinFloat(build, values) ==
  LET data == Floats(values)
  IN  IF data = <<>> THEN NoAnswer
      ELSE <<CASE build = "avx512" -> MinFloatAvx512(data)
               [] build = "avx2" -> MinFloatAvx2(data)
               [] build = "sse" -> MinFloatSse(data)
               [] build = "neon" -> MinFloatNeon(data)
               [] build = "scalar" -> MinFloatScalar(data)>>

MaxFloat(build, values) ==
  LET data == Floats(values)
  IN  IF data = <<>> THEN NoAnswer
      ELSE <<CASE build = "avx512" -> MaxFloatAvx512(data)
               [] build = "avx2" -> MaxFloatAvx2(data)
               [] build = "sse" -> MaxFloatSse(data)
               [] build = "neon" -> MaxFloatNeon(data)
               [] build = "scalar" -> MaxFloatScalar(data)>>

\* sum_doubles of the processor is scalar in every build; a policy's is not.
SumDoubles(build, values) == Loop("add", 0, DataOf(values, "double_value"))

FindEqualFloats(values, target) ==
  Ascending({i \in OfType(values, "float_value") : values[i].data # NaN /\ values[i].data = target})

\* simd_ops<Policy>::sum_doubles on plain doubles
PolicySumDoubles(build, data) ==
  CASE build = "avx512" -> Avx512SumDoubles(data)
    [] build = "avx2" -> Avx2SumDoubles(data)
    [] build = "sse" -> SseSumDoubles(data)
    [] build = "neon" -> NeonSumDoubles(data)
    [] build = "scalar" -> ScalarSumDoubles(data)

-----------------------------------------------------------------------------
(* The specification: one call after the other. *)

Operations == {"sum_floats", "min_float", "max_float", "sum_doubles", "find_equal_floats", "policy_sum_doubles"}

SimdInit == input = <<>> /\ call = <<"none", "scalar">> /\ answer = NoAnswer

Reduce(op, build, values) ==
  /\ input' = values /\ call' = <<op, build>>
  /\ answer' = CASE op = "sum_floats" -> <<SumFloats(build, values)>>
                 [] op = "min_float" -> MinFloat(build, values)
                 [] op = "max_float" -> MaxFloat(build, values)
                 [] op = "sum_doubles" -> <<SumDoubles(build, values)>>
                 [] op = "find_equal_floats" -> FindEqualFloats(values, 1)
                 [] op = "policy_sum_doubles" -> <<PolicySumDoubles(build, Floats(values))>>

SimdNext ==
  /\ call[1] = "none"
  /\ \E op \in Operations, build \in Builds, values \in Inputs : Reduce(op, build, values)

SimdSpec == SimdInit /\ [][SimdNext]_simdVars

-----------------------------------------------------------------------------
(* Sums, counted in ones *)

DataIn(values, I) == {values[i].data : i \in I}

\* A one for each of the positive (sign 1) or negative (sign -1) parts of the elements
Ones(values, I, sign) == UNION {{i} \X (1..(sign * values[i].data)) : i \in I}
SumOf(values, I) ==
  LET xs == DataIn(values, I)
  IN  IF NaN \in xs \/ {Infinity, -Infinity} \subseteq xs THEN NaN
      ELSE IF Infinity \in xs THEN Infinity ELSE IF -Infinity \in xs THEN -Infinity
      ELSE Cardinality(Ones(values, I, 1)) - Cardinality(Ones(values, I, -1))

\* The values that are added are floats, and no sum of some of them overflows.
ASSUME SimdAssumption ==
  /\ Largest \in Nat
  /\ \A values \in Inputs : \A type \in {"float_value", "double_value"} :
       /\ values \in Seq(ToSet(values))
       /\ \A i \in OfType(values, type) : values[i].data \in (-Infinity)..NaN
       /\ LET I == {i \in OfType(values, type) : values[i].data \in Finite}
          IN  Cardinality(Ones(values, I, 1)) + Cardinality(Ones(values, I, -1)) <= Largest

-----------------------------------------------------------------------------
(* Properties *)

\* A vector build starts from the largest finite float and so caps infinity.
Capped(build, S, limit) == IF build = "scalar" THEN S ELSE S \cup {limit}

\* The result that each reduction of the values owes, in every build
Exact(op, build, values, result) ==
  LET floats == OfType(values, "float_value")
      fs == DataIn(values, floats)
      least == Capped(build, fs, Largest)
      greatest == Capped(build, fs, -Largest)
  IN  /\ op = "none" => result = NoAnswer
      /\ op \in {"sum_floats", "policy_sum_doubles"} => result = <<SumOf(values, floats)>>
      /\ op = "sum_doubles" => result = <<SumOf(values, OfType(values, "double_value"))>>
      /\ op = "min_float" =>
           /\ result = NoAnswer <=> fs = {}
           /\ fs # {} => result[1] \in least
           /\ fs # {} /\ NaN \notin fs => \A x \in least : result[1] <= x
      /\ op = "max_float" =>
           /\ result = NoAnswer <=> fs = {}
           /\ fs # {} => result[1] \in greatest
           /\ fs # {} /\ NaN \notin fs => \A x \in greatest : result[1] >= x
      /\ op = "find_equal_floats" =>
           /\ {result[j] : j \in DOMAIN result} = {i \in floats : values[i].data = 1}
           /\ \A j, k \in DOMAIN result : j < k => result[j] < result[k]

\* Every build answers alike: a sum counts each float once, wherever it stands
\* among whole vectors and tail, and whatever else is between; a minimum and a
\* maximum are the least and the greatest of the floats as long as none is NaN
\* (a vector build takes an infinity for the largest finite float), and are
\* never a number that is not there; find_equal_floats gives the indices of the
\* equal floats, in their order.
ReductionsExact == Exact(call[1], call[2], input, answer)
=============================================================================
