------------------------------ MODULE Schema ------------------------------
(***************************************************************************)
(* container_schema (container/schema.h, core/container_schema.cpp): a     *)
(* schema is built by chained calls, then containers are validated against *)
(* it, alone or as a part of deserialize_result.  An error is the path of  *)
(* names to its field and a code.                                          *)
(*                                                                         *)
(* A value's data fits its type tag, apart from null containers.  A string *)
(* is a sequence; the regular expression library is the operator Matches.  *)
(***************************************************************************)
EXTENDS Integers, Sequences, FiniteSets, SequencesExt

CONSTANTS
  Chains,           \* the sets of calls that one schema may be built from
  Documents,        \* the containers to validate
  Matches(_, _),    \* regex_match of a pattern and a string
  InvalidPatterns,  \* the patterns that do not compile
  Complains(_, _),  \* a custom validator on a value: it returns a message, or throws
  Unset,            \* an empty optional
  Bits,             \* the width of the widest integers: 64
  MaxChain          \* bound on the calls

VARIABLES
  chain,     \* the set of calls this schema is built from
  made,      \* the calls so far
  fields,    \* fields_
  document,  \* the container validated last
  errors,    \* what validate_all returned, or validation_errors_
  verdict    \* what the call of the last step returned

schemaVars == <<chain, made, fields, document, errors, verdict>>

\* The verdicts that are not an error code of a validation
Pending == -1    \* no document has been checked since the schema last changed
Ok == 0
Unparsed == 1    \* the document is not a container at all

missing_required == 310
type_mismatch == 311
out_of_range == 312
invalid_length == 313
pattern_mismatch == 314
not_in_allowed_values == 315
custom_validation_failed == 316
nested_validation_failed == 317

\* static_cast<int64_t> of an unsigned value
ToInt64(n) == IF n >= 2 ^ (Bits - 1) THEN n - 2 ^ Bits ELSE n

IntegerTypes == {"short_value", "ushort_value", "int_value", "uint_value", "long_value", "ulong_value",
                 "llong_value", "ullong_value"}
WideUnsigned == {"ulong_value", "ullong_value"}
FloatTypes == {"float_value", "double_value"}
LengthTypes == {"string_value", "bytes_value"}

-----------------------------------------------------------------------------
(* The calls that build a schema *)

\* field_def(name, type, required)
NewField(key, type, required) ==
  [name |-> key, type |-> type, required |-> required, ints |-> Unset, doubles |-> Unset, length |-> Unset,
   pattern |-> Unset, allowed |-> Unset, custom |-> << >>, nested |-> Unset]

\* find_field: the first of the name, or 0
FindField(fs, key) == SelectInSeq(fs, LAMBDA f : f.name = key)

\* A constraint on a key without a field is ignored.
OnField(fs, key, Change(_)) ==
  LET i == FindField(fs, key) IN IF i = 0 THEN fs ELSE [fs EXCEPT ![i] = Change(@)]

Require(fs, key, type) == Append(fs, NewField(key, type, TRUE))
Optional(fs, key, type) == Append(fs, NewField(key, type, FALSE))
RequireNested(fs, key, type, schema) == Append(fs, [NewField(key, type, TRUE) EXCEPT !.nested = schema])
OptionalNested(fs, key, type, schema) == Append(fs, [NewField(key, type, FALSE) EXCEPT !.nested = schema])

\* range of integers of any type, which become int64_t
Range64(fs, key, min, max) ==
  OnField(fs, key, LAMBDA f : [f EXCEPT !.ints = <<ToInt64(min), ToInt64(max)>>])
RangeDouble(fs, key, min, max) == OnField(fs, key, LAMBDA f : [f EXCEPT !.doubles = <<min, max>>])
Length(fs, key, min, max) == OnField(fs, key, LAMBDA f : [f EXCEPT !.length = <<min, max>>])
\* A pattern that does not compile is kept as text only.
Pattern(fs, key, p) ==
  OnField(fs, key, LAMBDA f : [f EXCEPT !.pattern = IF p \in InvalidPatterns THEN Unset ELSE p])
OneOf(fs, key, allowed) == OnField(fs, key, LAMBDA f : [f EXCEPT !.allowed = allowed])

\* Mutant: a validator replaces the ones before it.
CustomLast(fs, key, v) == OnField(fs, key, LAMBDA f : [f EXCEPT !.custom = <<v>>])

Custom(fs, key, v) == OnField(fs, key, LAMBDA f : [f EXCEPT !.custom = Append(@, v)])

RECURSIVE Built(_)
\* One call, and a whole nested schema
Made(fs, c) ==
  CASE c.op = "require" -> Require(fs, c.key, c.arg)
    [] c.op = "optional" -> Optional(fs, c.key, c.arg)
    [] c.op = "require_nested" -> RequireNested(fs, c.key, "container_value", Built(c.arg))
    [] c.op = "optional_nested" -> OptionalNested(fs, c.key, "container_value", Built(c.arg))
    [] c.op = "range" -> Range64(fs, c.key, c.arg[1], c.arg[2])
    [] c.op = "range_double" -> RangeDouble(fs, c.key, c.arg[1], c.arg[2])
    [] c.op = "length" -> Length(fs, c.key, c.arg[1], c.arg[2])
    [] c.op = "pattern" -> Pattern(fs, c.key, c.arg)
    [] c.op = "one_of" -> OneOf(fs, c.key, c.arg)
    [] c.op = "custom" -> Custom(fs, c.key, c.arg)
Built(calls) == FoldLeft(Made, << >>, calls)

-----------------------------------------------------------------------------
(* Validation: each check returns its errors. *)

Error(field, code) == <<[path |-> <<field>>, code |-> code]>>
Outside(x, bounds) == x < bounds[1] \/ x > bounds[2]

ValidateType(f, v) == IF v.type # f.type THEN Error(f.name, type_mismatch) ELSE << >>

\* The range check of integers comes first and ends the check of ranges.
ValidateRange(f, v) ==
  LET val == IF v.type \in WideUnsigned THEN ToInt64(v.data) ELSE v.data
      out == \/ f.ints # Unset /\ v.type \in IntegerTypes /\ Outside(val, f.ints)
             \/ f.doubles # Unset /\ v.type \in FloatTypes /\ Outside(v.data, f.doubles)
  IN  IF out THEN Error(f.name, out_of_range) ELSE << >>

ValidateLength(f, v) ==
  IF f.length # Unset /\ v.type \in LengthTypes /\ Outside(Len(v.data), f.length)
  THEN Error(f.name, invalid_length) ELSE << >>

ValidatePattern(f, v) ==
  IF f.pattern # Unset /\ v.type = "string_value" /\ ~Matches(f.pattern, v.data)
  THEN Error(f.name, pattern_mismatch) ELSE << >>

ValidateAllowed(f, v) ==
  IF f.allowed # Unset /\ v.type = "string_value" /\ v.data \notin f.allowed
  THEN Error(f.name, not_in_allowed_values) ELSE << >>

\* The first validator that complains ends the check.
ValidateCustom(f, v) ==
  IF \E i \in DOMAIN f.custom : Complains(f.custom[i], v) THEN Error(f.name, custom_validation_failed) ELSE << >>

\* value_container::get: the first value of the name
First(values, name) == SelectInSeq(values, LAMBDA u : u.name = name)

RECURSIVE ValidateAll(_, _)
\* The nested errors follow their summary, with the field put before their paths.
ValidateNested(f, v) ==
  LET nested == ValidateAll(f.nested, v.data)
  IN  IF f.nested = Unset \/ v.type # "container_value" THEN << >>
      ELSE IF v.data = Unset THEN Error(f.name, nested_validation_failed)
      ELSE IF nested = << >> THEN << >>
      ELSE Error(f.name, nested_validation_failed)
             \o [i \in DOMAIN nested |-> [nested[i] EXCEPT !.path = <<f.name>> \o @]]

ValidateField(f, v) ==
  ValidateType(f, v) \o ValidateRange(f, v) \o ValidateLength(f, v) \o ValidatePattern(f, v)
  \o ValidateAllowed(f, v) \o ValidateCustom(f, v) \o ValidateNested(f, v)

ValidateAll(fs, values) ==
  LET Of(f) == LET i == First(values, f.name)
               IN  IF i # 0 THEN ValidateField(f, values[i])
                   ELSE IF f.required THEN Error(f.name, missing_required) ELSE << >>
  IN  FoldLeft(LAMBDA es, f : es \o Of(f), << >>, fs)

-----------------------------------------------------------------------------
(* The specification *)

SchemaInit ==
  /\ chain \in Chains
  /\ made = << >> /\ fields = << >> /\ document = Unset /\ errors = << >> /\ verdict = Pending

Define(c) ==
  /\ Len(made) < MaxChain
  /\ made' = Append(made, c) /\ fields' = Made(fields, c)
  /\ verdict' = Pending
  /\ UNCHANGED <<chain, document, errors>>

\* validate: the first error
FirstError(es) == IF es = << >> THEN Ok ELSE es[1].code

\* validate_result and validate
Validate(d) ==
  /\ verdict = Pending
  /\ document' = d /\ errors' = ValidateAll(fields, d) /\ verdict' = FirstError(errors')
  /\ UNCHANGED <<chain, made, fields>>

\* deserialize_result(data, schema): the values of a container that is parsed
\* lazily are not there yet for get.
DeserializeWithSchema(d, parses, lazy) ==
  /\ verdict = Pending
  /\ document' = IF parses THEN (IF lazy THEN << >> ELSE d) ELSE Unset
  /\ errors' = IF parses THEN ValidateAll(fields, IF lazy THEN << >> ELSE d) ELSE << >>
  /\ verdict' = IF parses THEN FirstError(errors') ELSE Unparsed
  /\ UNCHANGED <<chain, made, fields>>

SchemaNext ==
  \/ \E c \in chain : Define(c)
  \/ \E d \in Documents : Validate(d) \/ \E parses, lazy \in BOOLEAN : DeserializeWithSchema(d, parses, lazy)

-----------------------------------------------------------------------------
(* Properties *)

\* What the calls demand, read off the calls themselves: call j constrains
\* field i when i is the first field of its key and comes before j; of the
\* constraints of one kind the last counts, of the validators all do.
IsField(c) == c.op \in {"require", "optional", "require_nested", "optional_nested"}
Constrains(calls, i, j) ==
  /\ i < j /\ calls[i].key = calls[j].key /\ ~IsField(calls[j])
  /\ \A h \in 1..(i - 1) : ~(IsField(calls[h]) /\ calls[h].key = calls[i].key)
Governs(calls, i, j) ==
  /\ Constrains(calls, i, j)
  /\ calls[j].op # "custom" =>
       \A k \in (j + 1)..Len(calls) : ~(calls[k].op = calls[j].op /\ Constrains(calls, i, k))

\* A demand that the value does not meet, and its code
Broken(c, v) ==
  CASE c.op = "range" -> v.type \in IntegerTypes /\ ~(v.data \in c.arg[1]..c.arg[2])
    [] c.op = "range_double" -> v.type \in FloatTypes /\ ~(c.arg[1] <= v.data /\ v.data <= c.arg[2])
    [] c.op = "length" -> v.type \in LengthTypes /\ Len(v.data) \notin c.arg[1]..c.arg[2]
    [] c.op = "pattern" -> v.type = "string_value" /\ c.arg \notin InvalidPatterns /\ ~Matches(c.arg, v.data)
    [] c.op = "one_of" -> v.type = "string_value" /\ v.data \notin c.arg
    [] c.op = "custom" -> Complains(c.arg, v)
CodeOf(op) ==
  CASE op \in {"range", "range_double"} -> out_of_range [] op = "length" -> invalid_length
    [] op = "pattern" -> pattern_mismatch [] op = "one_of" -> not_in_allowed_values
    [] op = "custom" -> custom_validation_failed

RECURSIVE Demanded(_, _)
\* What call i, which adds a field, demands of the values and does not get
OfField(calls, i, values) ==
  LET key == calls[i].key
      nests == calls[i].op \in {"require_nested", "optional_nested"}
      v == values[First(values, key)]
      At(code) == [path |-> <<key>>, code |-> code]
      Wrong == v.type # (IF nests THEN "container_value" ELSE calls[i].arg)
      Inner == IF v.data = Unset THEN {} ELSE Demanded(calls[i].arg, v.data)
  IN  IF First(values, key) = 0
      THEN {At(missing_required) : c \in {"require", "require_nested"} \cap {calls[i].op}}
      ELSE {At(type_mismatch) : w \in {TRUE} \cap {Wrong}}
           \cup {At(CodeOf(calls[j].op)) : j \in {k \in DOMAIN calls : Governs(calls, i, k) /\ Broken(calls[k], v)}}
           \cup IF ~nests \/ v.type # "container_value" \/ (v.data # Unset /\ Inner = {}) THEN {}
                ELSE {At(nested_validation_failed)} \cup {[e EXCEPT !.path = <<key>> \o @] : e \in Inner}
Demanded(calls, values) == UNION {OfField(calls, i, values) : i \in {k \in DOMAIN calls : IsField(calls[k])}}

RECURSIVE Disputed(_)
\* The paths of the fields whose pattern does not compile.  pattern() says
\* that they fail validation, the tests that such a pattern is ignored.
Disputed(calls) ==
  UNION {LET key == <<calls[i].key>>
         IN  {key : j \in {k \in DOMAIN calls : Governs(calls, i, k) /\ calls[k].op = "pattern"
                                                /\ calls[k].arg \in InvalidPatterns}}
             \cup (IF calls[i].op \in {"require_nested", "optional_nested"}
                   THEN {key \o p : p \in Disputed(calls[i].arg)} ELSE {})
         : i \in {k \in DOMAIN calls : IsField(calls[k])}}

\* No integer of the document or of a range is beyond int64_t.
FitsInt64(values) ==
  /\ \A i \in DOMAIN values : values[i].type \in WideUnsigned => values[i].data = ToInt64(values[i].data)
  /\ \A i \in DOMAIN made : made[i].op = "range" => made[i].arg[2] = ToInt64(made[i].arg[2])

\* Validation finds exactly the demands of the chained calls that the
\* document does not meet, nested ones under the path of their field, as long
\* as its integers and the bounds fit int64_t; its verdict is the first error.
\* Nothing is said of what a pattern that does not compile has for a result.
\* A container that is parsed lazily counts as empty, and one that does not
\* parse leaves no error of an earlier document behind.
SchemaVerdict ==
  /\ verdict = Unparsed => errors = << >>
  /\ verdict \notin {Pending, Unparsed} /\ FitsInt64(document) =>
       /\ LET settled == {e \in ToSet(errors) \cup Demanded(made, document) :
                            ~(e.code = pattern_mismatch /\ e.path \in Disputed(made))}
          IN  ToSet(errors) \cap settled = Demanded(made, document) \cap settled
       /\ verdict = IF errors = << >> THEN Ok ELSE errors[1].code
=============================================================================
