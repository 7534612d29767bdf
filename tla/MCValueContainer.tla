-------------------------- MODULE MCValueContainer --------------------------
(***************************************************************************)
(* A small instance of ValueContainer: one word name, one odd name and the *)
(* empty one; values of a kind that survives the text format, of those it  *)
(* rounds and strips (v2 has more than six decimals, and begins with white *)
(* space), of one it drops and of one it mangles; packets with a repeated  *)
(* name, with an unconvertible item and without a data section; a typed    *)
(* header with one id that can be at either end.                           *)
(***************************************************************************)
EXTENDS ValueContainer

CONSTANTS a, odd, v1, v2, s1

One == [kind |-> "scalar", val |-> v1]
Two == [kind |-> "string", val |-> v2]
Real == [kind |-> "real", val |-> v2]
Nest == [kind |-> "nested", val |-> v1]
Odd == [kind |-> "unsafe", val |-> v2]
Bad == [kind |-> "bad", val |-> v1]

MCRounded(v) == IF v = v2 THEN v1 ELSE v
MCStripped(v) == IF v = v2 THEN v1 ELSE v

Typed == [src |-> s1, tgt |-> NoId, type |-> "msg", ver |-> "1.0"]

SomePackets ==
  { [hdr |-> NoHeader, data |-> NoData],
    [hdr |-> Typed, data |-> <<Unit(a, Two), Unit(odd, One)>>],
    [hdr |-> NoHeader, data |-> <<Unit(a, One), Unit(a, Bad)>>] }

SomeDocs ==
  { [map |-> FALSE, whole |-> FALSE, hdr |-> Typed, vals |-> <<>>],
    [map |-> TRUE, whole |-> FALSE, hdr |-> Typed, vals |-> <<Unit(a, Nest)>>] }

SomeBatches ==
  { <<>>, <<Unit(a, Real)>>, <<Unit(odd, Odd), Unit(EmptyName, One)>> }

Spec1(k, e, n) == [key |-> k, expected |-> e, new |-> n]
SomeUpdates == { <<Spec1(a, Real, Two), Spec1(a, Two, Odd)>> }
=============================================================================
