---------------------------- MODULE GrpcAdapter ----------------------------
(***************************************************************************)
(* container_adapter (grpc/adapters): containers to protocol messages and  *)
(* back.  A container is a header, a sequence of values, and the values    *)
(* that are still in the text it was read from, when that was lazily; a    *)
(* message has a oneof field per value, which is set to one type at most,  *)
(* and a type tag beside it.                                               *)
(***************************************************************************)
EXTENDS Naturals, Sequences, SequencesExt

CONSTANTS
  Null,              \* the null pointer to a container
  Monostate,         \* the empty variant
  Thrown,            \* a conversion that throws
  MAX_NESTING_DEPTH

ScalarTypes == {"bool_value", "short_value", "ushort_value", "int_value", "uint_value", "long_value",
                "ulong_value", "llong_value", "ullong_value", "float_value", "double_value",
                "string_value", "bytes_value"}

\* value_mapper::is_supported and can_convert
Supported(type) == type \in ScalarTypes \cup {"null_value", "container_value", "array_value"}

Value(n, t, d) == [name |-> n, type |-> t, data |-> d]
HoldsContainer(v) == v.type = "container_value" /\ v.data \notin {Null, Monostate}

\* set_grpc_value_data: which field of the oneof is set.  std::get throws when
\* the variant is empty, which a container that was read from text may be.
NoField == [type |-> "none", data |-> Null]
ValueField(v) ==
  IF v.type \in ScalarTypes \cup {"container_value"} /\ v.data = Monostate THEN [type |-> v.type, data |-> Thrown]
  ELSE IF v.type \in ScalarTypes \cup {"null_value"} THEN [type |-> v.type, data |-> v.data]
  ELSE NoField

\* get_variant_from_grpc: the field that the tag names, or its default
DefaultOf(type) == IF type \in {"string_value", "bytes_value"} THEN << >> ELSE 0
Variant(m) ==
  IF m.type \notin ScalarTypes THEN Monostate
  ELSE IF m.field.type = m.type THEN m.field.data ELSE DefaultOf(m.type)

\* value_container::set: a value with the name is replaced in its place.
SetValue(values, v) ==
  LET i == SelectInSeq(values, LAMBDA u : u.name = v.name)
  IN  IF i = 0 THEN Append(values, v) ELSE [values EXCEPT ![i] = v]

RECURSIVE ToGrpcAt(_, _)
\* to_grpc_recursive: the values that begin() and end() give.  Nothing parses
\* the ones of a lazy container that are still in its text.
ToGrpcAt(c, depth) ==
  LET Message(v) == [name |-> v.name, type |-> v.type,
                     field |-> IF HoldsContainer(v)
                               THEN [type |-> v.type, data |-> ToGrpcAt(v.data, depth + 1)]
                               ELSE ValueField(v)]
      messages == [i \in DOMAIN c.values |-> Message(c.values[i])]
  IN  IF depth > MAX_NESTING_DEPTH THEN Thrown
      ELSE IF \E i \in DOMAIN messages : messages[i].field.data = Thrown THEN Thrown
      ELSE [header |-> c.header, version |-> "1.0.0.0", values |-> messages]

ToGrpc(c) == ToGrpcAt(c, 0)

RECURSIVE FromGrpcAt(_, _)
\* from_grpc_recursive: a container tag without a container adds no value.
FromGrpcAt(m, depth) ==
  LET Native(v) == IF v.type = "container_value" THEN FromGrpcAt(v.field.data, depth + 1) ELSE Variant(v)
      kept == SelectSeq(m.values, LAMBDA v : v.type # "container_value" \/ v.field.type = "container_value")
      natives == [i \in DOMAIN kept |-> Value(kept[i].name, kept[i].type, Native(kept[i]))]
  IN  IF depth > MAX_NESTING_DEPTH THEN Thrown
      ELSE IF \E i \in DOMAIN natives : natives[i].data = Thrown THEN Thrown
      ELSE [header |-> m.header, values |-> FoldLeft(SetValue, << >>, natives), text |-> << >>]

FromGrpc(m) == FromGrpcAt(m, 0)

RECURSIVE CanConvert(_)
\* can_convert: of the types alone, however deep
CanConvert(c) ==
  \A i \in DOMAIN c.values :
    /\ Supported(c.values[i].type)
    /\ HoldsContainer(c.values[i]) => CanConvert(c.values[i].data)

-----------------------------------------------------------------------------
(* What a container must become on its way, said without messages: the      *)
(* scalars at every path of names, of which a path that is used twice keeps *)
(* the last.  What is still in a text does not go on the way.               *)

RECURSIVE Depth(_)
Depth(c) ==
  LET below == {0} \cup {1 + Depth(c.values[i].data) : i \in {j \in DOMAIN c.values : HoldsContainer(c.values[j])}}
  IN  CHOOSE d \in below : \A e \in below : e <= d

RECURSIVE Hollow(_)
\* A value of the container, or of one in it, is an empty variant.
Hollow(c) ==
  \E i \in DOMAIN c.values :
    LET v == c.values[i]
    IN  \/ v.type \in ScalarTypes \cup {"container_value"} /\ v.data = Monostate
        \/ HoldsContainer(v) /\ Hollow(v.data)

\* The containers that cannot be sent
Unsendable(c) == Depth(c) > MAX_NESTING_DEPTH \/ Hollow(c)

RECURSIVE Paths(_)
Paths(c) ==
  LET kept == {i \in DOMAIN c.values : ~(c.values[i].type = "container_value" /\ c.values[i].data = Null)}
      last == {i \in kept : \A j \in kept : c.values[j].name = c.values[i].name => j <= i}
      From(v) == CASE v.type = "container_value" -> {<<v.name>> \o p : p \in Paths(v.data)} \cup {<<v.name, v.data.header>>}
                   [] v.type = "array_value" -> {<<v.name, "array_value", Monostate>>}
                   [] OTHER -> {<<v.name, v.type, v.data>>}
  IN  UNION {From(c.values[i]) : i \in last}

Carries(before, after) == after.header = before.header /\ Paths(after) = Paths(before)
=============================================================================
