------------------------------ MODULE MCCodec ------------------------------
(* The codecs, the schema and the SIMD reductions side by side: one of them *)
(* runs, the others rest in their initial states.                           *)
EXTENDS MCValueCodec, Schema, Simd

VARIABLE component
codecVars == <<component, vars, schemaVars, simdVars>>

-----------------------------------------------------------------------------
(* Schema *)
Call3(op, key, arg) == [op |-> op, key |-> key, arg |-> arg]
MCMatches(p, s) == Len(s) = p
MCComplains(v, x) == (v = "throws" /\ x.type = "string_value") \/ (v = "odd" /\ x.type = "ullong_value" /\ x.data % 2 = 1)
MCChains ==
  {{Call3("require", "a", "ullong_value"), Call3("range", "a", <<0, 3>>), Call3("range", "a", <<2, 12>>),
    Call3("custom", "a", "odd"), Call3("custom", "a", "throws")},
   {Call3("optional", "a", "string_value"), Call3("length", "a", <<1, 2>>), Call3("pattern", "a", 1),
    Call3("pattern", "a", 99), Call3("one_of", "a", {<<1>>, <<1, 1>>})},
   {Call3("require", "b", "double_value"), Call3("optional", "b", "float_value"),
    Call3("range_double", "b", <<-1, 1>>), Call3("length", "b", <<1, 1>>)},
   {Call3("require_nested", "n", <<Call3("require", "a", "string_value"), Call3("length", "a", <<1, 1>>)>>),
    Call3("optional_nested", "n", <<Call3("optional_nested", "n", <<Call3("require", "b", "bytes_value")>>)>>),
    Call3("custom", "n", "throws"), Call3("require", "n", "container_value")}}
V(name, type, data) == [name |-> name, type |-> type, data |-> data]
Flat == {<<>>, <<V("a", "string_value", <<>>)>>, <<V("a", "string_value", <<1>>)>>, <<V("a", "string_value", <<1, 1, 1>>)>>,
         <<V("a", "ullong_value", 1)>>, <<V("a", "ullong_value", 3)>>, <<V("a", "ullong_value", 12)>>,
         <<V("b", "double_value", 2)>>, <<V("b", "float_value", 0), V("b", "double_value", 2)>>,
         <<V("b", "bytes_value", <<1, 1>>), V("a", "string_value", <<1, 1>>)>>,
         <<V("a", "short_value", -1), V("a", "string_value", <<1>>)>>}
MCDocuments == Flat \cup {<<V("n", "container_value", d)>> : d \in Flat \cup {Unset}}
                    \cup {<<V("n", "container_value", <<V("n", "container_value", d)>>)>> : d \in {<<>>, Unset, <<V("b", "bytes_value", <<>>)>>}}

-----------------------------------------------------------------------------
(* Simd: up to two vectors and a tail, with two values that stand out. *)
F(x) == [type |-> "float_value", data |-> x]
Special == {1, -2, Infinity, -Infinity, NaN}
Row(n, p, x, q, y) == [i \in 1..n |-> IF i = p THEN F(x) ELSE IF i = q THEN F(y) ELSE F(0)]
MCInputs ==
  UNION {{Row(n, p, x, q, y) : p \in 1..n, q \in {1, n}, x \in Special, y \in {3, NaN}} : n \in {1, 5, 8, 11, 19}}
  \cup {<<>>, <<[type |-> "double_value", data |-> 4]>>,
        <<F(1), [type |-> "double_value", data |-> 4], F(2), [type |-> "int_value", data |-> 1], F(1), F(Infinity)>>,
        <<[type |-> "double_value", data |-> -Infinity], F(1), [type |-> "double_value", data |-> Infinity]>>}

-----------------------------------------------------------------------------
CodecInit ==
  /\ component \in {"codec", "schema", "simd"} /\ Init /\ SchemaInit /\ SimdInit
  /\ component # "schema" => chain = CHOOSE c \in Chains : TRUE
CodecNext ==
  /\ UNCHANGED component
  /\ \/ component = "codec" /\ Next /\ UNCHANGED <<schemaVars, simdVars>>
     \/ component = "schema" /\ SchemaNext /\ UNCHANGED <<vars, simdVars>>
     \/ component = "simd" /\ SimdNext /\ UNCHANGED <<vars, schemaVars>>
CodecSpec == CodecInit /\ [][CodecNext]_codecVars
=============================================================================
