----------------------------- MODULE ValueTypes -----------------------------
(***************************************************************************)
(* The types of values (value_types.h), which are also the positions of    *)
(* the alternatives of value_variant (container/types.h), and a value: its *)
(* name, its type and its data.                                            *)
(***************************************************************************)
EXTENDS Integers, Sequences

null_value == 0
bool_value == 1
short_value == 2
ushort_value == 3
int_value == 4
uint_value == 5
long_value == 6
ulong_value == 7
llong_value == 8
ullong_value == 9
float_value == 10
double_value == 11
string_value == 12
bytes_value == 13
container_value == 14
array_value == 15

SignedTypes == {short_value, int_value, long_value, llong_value}
UnsignedTypes == {ushort_value, uint_value, ulong_value, ullong_value}

NoName == <<>>

Mk(name, type, data) == [name |-> name, type |-> type, data |-> data]
=============================================================================
