----------------------------- MODULE ValueCodec -----------------------------
(***************************************************************************)
(* The binary encoding of typed values: value::serialize and deserialize   *)
(* (internal/value.cpp), thread_safe_container::serialize and deserialize  *)
(* for nested containers, and value_store::serialize_binary and            *)
(* deserialize_binary.  Values are sent, received, and forwarded by their  *)
(* receiver; on the way the bytes may be cut short or be garbage.  The     *)
(* packets of MsgPack travel the same way.                                 *)
(*                                                                         *)
(* A length, a type byte and a number each take one cell of the encoding,  *)
(* and so does a character: only their order and the arithmetic of offsets *)
(* matter.  A value is [name, type, data] with the codes of value_types.   *)
(* A container is a function from keys to values, a store as well; an      *)
(* array is a sequence.  Null is a null pointer and the data of a null     *)
(* value, None the result of a failed decoding.  Containers that contain   *)
(* themselves, which the encoder cuts off, are left out.                   *)
(***************************************************************************)
EXTENDS MsgPack

CONSTANTS
  Values,    \* the values that are sent
  Keys,      \* the keys of the value_store
  Garbage,   \* byte sequences that arrive from elsewhere
  Packets, PacketGarbage,  \* the packets that are sent, and bytes that are taken for one
  MaxStore,  \* bound on the entries of the value_store
  MaxHops    \* bound on the times a value is forwarded

EmptyMap == [k \in {} |-> Null]

NullElement == Mk(NoName, null_value, Null)
Numeric(t) == t \in 2..11
Text(t) == t \in {string_value, bytes_value}
Prefixed(s) == <<Len(s)>> \o s

-----------------------------------------------------------------------------
(* Encoding *)

RECURSIVE Serialize(_)

\* The entries of a container or store; the order is that of the hash map.
SerializeMap(m) ==
  LET ks == SetToSeq(DOMAIN m)
  IN  <<Len(ks)>> \o
      FlattenSeq([i \in DOMAIN ks |-> Prefixed(ks[i]) \o Prefixed(Serialize(m[ks[i]]))])

\* Mutant: a null container is encoded as an empty one.
SerializeDataNullAsEmpty(v) ==
  CASE v.type = null_value -> <<>>
    [] v.type = bool_value \/ Numeric(v.type) -> <<v.data>>
    [] Text(v.type) -> Prefixed(v.data)
    [] v.type = container_value -> Prefixed(IF v.data = Null THEN <<0>> ELSE SerializeMap(v.data))
    [] v.type = array_value ->
         <<Len(v.data)>> \o FlattenSeq([i \in DOMAIN v.data |->
           Serialize(IF v.data[i] = Null THEN NullElement ELSE v.data[i])])

SerializeData(v) ==
  CASE v.type = null_value -> <<>>
    [] v.type = bool_value \/ Numeric(v.type) -> <<v.data>>
    [] Text(v.type) -> Prefixed(v.data)
    [] v.type = container_value -> IF v.data = Null THEN <<0>> ELSE Prefixed(SerializeMap(v.data))
    [] v.type = array_value ->
         <<Len(v.data)>> \o FlattenSeq([i \in DOMAIN v.data |->
           Serialize(IF v.data[i] = Null THEN NullElement ELSE v.data[i])])

Serialize(v) == Prefixed(v.name) \o <<v.type>> \o SerializeData(v)

Version == 1
SerializeStore(m) == <<Version>> \o SerializeMap(m)

-----------------------------------------------------------------------------
(* Decoding.  off is the number of cells read so far; a failed read is None. *)

RECURSIVE Deserialize(_)
RECURSIVE DeserializeEntries(_, _, _, _, _)
RECURSIVE DeserializeElements(_, _, _, _)

From(b, off) == SubSeq(b, off + 1, Len(b))

\* The type the variant reports: llong and ullong are stored as long and ulong.
Stored(t) == CASE t = llong_value -> long_value [] t = ullong_value -> ulong_value [] OTHER -> t

\* A length and that many cells: the cells, or None.
ReadPrefixed(b, off) ==
  IF off + 1 > Len(b) \/ off + 1 + b[off + 1] > Len(b) THEN None
  ELSE SubSeq(b, off + 2, off + 1 + b[off + 1])

\* values_[key] = v: the data of v in the entry of key, which has no name.
Put(m, key, v) ==
  [k \in DOMAIN m \union {key} |-> IF k = key THEN [v EXCEPT !.name = NoName] ELSE m[k]]

\* Mutant: the entry is made before its value is known to be good.
DeserializeEntriesEarly(b, off, n, m, strict) ==
  IF n = 0 THEN m
  ELSE LET key == ReadPrefixed(b, off)
           at  == off + 1 + Len(key)
           val == ReadPrefixed(b, at)
           v   == Deserialize(val)
       IN  IF key = None THEN None
           ELSE IF val = None THEN None
           ELSE IF v = None /\ strict THEN None
           ELSE DeserializeEntries(b, at + 1 + Len(val), n - 1,
                  Put(m, key, IF v = None THEN NullElement ELSE v), strict)

\* The entry loop of a container or a store.  A value that cannot be decoded
\* is skipped by a container and refused by a store.
DeserializeEntries(b, off, n, m, strict) ==
  IF n = 0 THEN m
  ELSE LET key == ReadPrefixed(b, off)
           at  == off + 1 + Len(key)
           val == ReadPrefixed(b, at)
           v   == Deserialize(val)
       IN  IF key = None THEN None
           ELSE IF val = None THEN None
           ELSE IF v = None /\ strict THEN None
           ELSE DeserializeEntries(b, at + 1 + Len(val), n - 1,
                  IF v = None THEN m ELSE Put(m, key, v), strict)

DeserializeContainer(b) ==
  IF b = <<>> THEN None ELSE DeserializeEntries(b, 1, b[1], EmptyMap, FALSE)

DeserializeStore(b) ==
  IF Len(b) < 2 \/ b[1] # Version THEN None
  ELSE DeserializeEntries(b, 2, b[2], EmptyMap, TRUE)

\* The element loop of an array: the next element starts after as many cells
\* as the one just decoded would take if it were encoded again.
DeserializeElements(b, off, n, es) ==
  IF n = 0 THEN es
  ELSE LET e == Deserialize(From(b, off))
       IN  IF e = None THEN None
           ELSE DeserializeElements(b, off + Len(Serialize(e)), n - 1, Append(es, e))

ReadCell(b, off) == IF off >= Len(b) THEN None ELSE b[off + 1]

DeserializeData(t, b, off) ==
  CASE t = null_value -> Null
    [] t = bool_value ->
         (LET x == ReadCell(b, off) IN IF x \in {None, 0} THEN x ELSE 1)
    [] Numeric(t) -> ReadCell(b, off)
    [] Text(t) -> ReadPrefixed(b, off)
    [] t = container_value ->
         (LET s == ReadPrefixed(b, off)
              m == DeserializeContainer(s)
          IN  IF s = None THEN None ELSE IF s = <<>> \/ m = None THEN Null ELSE m)
    [] t = array_value ->
         IF off + 1 > Len(b) THEN None
         ELSE DeserializeElements(b, off + 1, b[off + 1], <<>>)
    [] OTHER -> None

Deserialize(b) ==
  IF Len(b) < 2 \/ 1 + b[1] + 1 > Len(b) THEN None
  ELSE LET n == b[1]
           t == b[n + 2]
           d == DeserializeData(t, b, n + 2)
       IN  IF t > array_value THEN None
           ELSE IF d = None THEN None
           ELSE Mk(SubSeq(b, 2, n + 1), Stored(t), d)

\* value(name, type, raw_data): null when the raw data cannot be decoded.
FromRaw(name, t, raw) ==
  LET d == DeserializeData(t, raw, 0)
  IN  IF d = None THEN Mk(name, null_value, Null) ELSE Mk(name, Stored(t), d)

-----------------------------------------------------------------------------
VARIABLES
  pc,     \* "idle", then "wire" while bytes are on their way, then "got"
  kind,   \* what the bytes are taken to be: a "value", a "store" or a "packet"
  store,  \* the sender's value_store
  sent,   \* what was encoded last, None for bytes from elsewhere
  wire,   \* the bytes
  cut,    \* TRUE when the end of the bytes was lost
  got,    \* what was decoded
  hops    \* the times it was forwarded

vars == <<pc, kind, store, sent, wire, cut, got, hops>>

Init ==
  /\ pc = "idle" /\ kind = "value" /\ store = EmptyMap /\ sent = None
  /\ wire = <<>> /\ cut = FALSE /\ got = None /\ hops = 0

Encode(k, x) ==
  CASE k = "value" -> Serialize(x) [] k = "store" -> SerializeStore(x) [] k = "packet" -> SerializePacket(x)
Decode(k, b) ==
  CASE k = "value" -> Deserialize(b) [] k = "store" -> DeserializeStore(b) [] k = "packet" -> DeserializePacket(b)

\* value_store::add, remove and clear.
Add(k, v) ==
  /\ pc = "idle" /\ Cardinality(DOMAIN store \union {k}) <= MaxStore
  /\ store' = Put(store, k, v)
  /\ UNCHANGED <<pc, kind, sent, wire, cut, got, hops>>

RemoveEntry(k) ==
  /\ pc = "idle" /\ k \in DOMAIN store
  /\ store' = [j \in DOMAIN store \ {k} |-> store[j]]
  /\ UNCHANGED <<pc, kind, sent, wire, cut, got, hops>>

Clear ==
  /\ pc = "idle" /\ store' = EmptyMap
  /\ UNCHANGED <<pc, kind, sent, wire, cut, got, hops>>

\* x is encoded as a k and put on the wire.
Emit(k, x) ==
  /\ pc' = "wire" /\ kind' = k /\ sent' = x /\ wire' = Encode(k, x) /\ cut' = FALSE

SendValue(v) ==
  /\ pc = "idle" /\ store = EmptyMap /\ Emit("value", v)
  /\ UNCHANGED <<store, got, hops>>

SendStore ==
  /\ pc = "idle" /\ Emit("store", store)
  /\ UNCHANGED <<store, got, hops>>

SendPacket(p) ==
  /\ pc = "idle" /\ store = EmptyMap /\ Emit("packet", p)
  /\ UNCHANGED <<store, got, hops>>

\* Bytes that no encoder here produced.
Arrive(k, b) ==
  /\ pc = "idle" /\ store = EmptyMap
  /\ pc' = "wire" /\ kind' = k /\ wire' = b
  /\ UNCHANGED <<store, sent, cut, got, hops>>

\* The last bytes of an encoding are lost.
Cut(n) ==
  /\ pc = "wire" /\ sent # None /\ ~cut
  /\ wire' = SubSeq(wire, 1, n) /\ cut' = TRUE
  /\ UNCHANGED <<pc, kind, store, sent, got, hops>>

Receive ==
  /\ pc = "wire" /\ pc' = "got" /\ got' = Decode(kind, wire)
  /\ UNCHANGED <<kind, store, sent, wire, cut, hops>>

\* A value made of a type and raw data, which is then sent like any other.
Construct(t, raw) ==
  /\ pc = "idle" /\ store = EmptyMap
  /\ Emit("value", FromRaw(NoName, t, raw))
  /\ UNCHANGED <<store, got, hops>>

\* The receiver encodes what it decoded and sends it on.
Forward ==
  /\ pc = "got" /\ got # None /\ hops < MaxHops
  /\ Emit(kind, got) /\ got' = None /\ hops' = hops + 1
  /\ UNCHANGED store

Done ==
  /\ pc = "got" /\ pc' = "idle" /\ kind' = "value" /\ store' = EmptyMap /\ sent' = None
  /\ wire' = <<>> /\ cut' = FALSE /\ got' = None /\ hops' = 0

Next ==
  \/ \E k \in Keys, v \in Values : Add(k, v)
  \/ \E k \in Keys : RemoveEntry(k)
  \/ Clear
  \/ \E v \in Values : SendValue(v)
  \/ SendStore
  \/ \E p \in Packets : SendPacket(p)
  \/ \E k \in {"value", "store"}, b \in Garbage : Arrive(k, b)
  \/ \E b \in PacketGarbage : Arrive("packet", b)
  \/ \E n \in 0..(Len(wire) - 1) : Cut(n)
  \/ Receive
  \/ \E t \in null_value..array_value, b \in Garbage : Construct(t, b)
  \/ Forward
  \/ Done

Spec == Init /\ [][Next]_vars

-----------------------------------------------------------------------------
(* Properties *)

RECURSIVE Named(_)
RECURSIVE Aligned(_)
RECURSIVE Normal(_)

Elements(v) == IF v.type = array_value THEN Range(v.data) \ {Null} ELSE {}
Entries(v) == IF v.type = container_value /\ v.data # Null THEN Range(v.data) ELSE {}

\* Somewhere in v a container holds a value that has a name.
Named(v) ==
  \/ \E e \in Entries(v) : e.name # NoName \/ Named(e)
  \/ \E e \in Elements(v) : Named(e)

\* No array element holds such a container: its encoding keeps its size.
Aligned(v) ==
  /\ \A e \in Elements(v) : ~Named(e) /\ Aligned(e)
  /\ \A e \in Entries(v) : Aligned(e)

\* What must come back for v: contained values without their names, the wide
\* integer types as the ones they are stored as, null values for null pointers.
Normal(v) ==
  [v EXCEPT !.type = Stored(v.type),
            !.data = IF v.type = array_value
                     THEN [i \in DOMAIN v.data |->
                            IF v.data[i] = Null THEN NullElement ELSE Normal(v.data[i])]
                     ELSE IF v.type = container_value /\ v.data # Null
                     THEN [k \in DOMAIN v.data |-> [Normal(v.data[k]) EXCEPT !.name = NoName]]
                     ELSE v.data]

-----------------------------------------------------------------------------
(* The same for packets *)

RECURSIVE Carried(_)
RECURSIVE PacketNormal(_)

\* What MessagePack can carry here: no unsigned number beyond int64_t, no
\* bytes that begin like a map (they would come back as a container), and no
\* array in an array (its elements are not consumed).
CarriedValue(v) ==
  /\ v.type \in UnsignedTypes => v.data <= IntMax(8)
  /\ v.type = bytes_value => DetectFormat(v.data) = "text"
  /\ v.type = container_value /\ v.data # Null => Carried(v.data)
Carried(p) == \A i \in DOMAIN p.units :
  /\ CarriedValue(p.units[i])
  /\ p.units[i].type = array_value =>
       \A e \in Range(p.units[i].data) : e.type # array_value /\ CarriedValue(e)

\* What must come back: integers by their size, in arrays always as long long;
\* a null container as null, a container in an array as its bytes.
PacketValue(v) ==
  LET Integer(x) == x.type \in SignedTypes \cup UnsignedTypes
      Element(e) == CASE Integer(e) -> [e EXCEPT !.type = llong_value]
                      [] e.type = container_value /\ e.data = Null -> Mk(NoName, null_value, Null)
                      [] e.type = container_value -> Mk(NoName, bytes_value, SerializePacket(e.data))
                      [] OTHER -> e
  IN  CASE Integer(v) -> [v EXCEPT !.type = IF v.data \in IntMin(4)..IntMax(4) THEN int_value ELSE llong_value]
        [] v.type = container_value /\ v.data = Null -> Mk(v.name, null_value, Null)
        [] v.type = container_value -> [v EXCEPT !.data = PacketNormal(@)]
        [] v.type = array_value -> [v EXCEPT !.data = [i \in DOMAIN @ |-> Element(@[i])]]
        [] OTHER -> v

\* A data_container travels without its routing.
PacketNormal(p) ==
  [header |-> [f \in DOMAIN p.header |->
                 IF f \in Range(Routing) /\ p.header[MessageType] = DataContainer THEN <<>> ELSE p.header[f]],
   units |-> [i \in DOMAIN p.units |-> PacketValue(p.units[i])]]

\* A packet that lost its end in the last value: everything before is there,
\* and that value is null or an array whose last elements are not to be relied on.
CutInLastValue(p, q) ==
  LET n == Len(p.units)
      lost == q.units[n]
  IN  /\ n > 0 /\ q = [PacketNormal(p) EXCEPT !.units[n] = lost]
      /\ lost.name = p.units[n].name
      /\ \/ lost.type = null_value
         \/ lost.type = array_value /\ p.units[n].type = array_value /\ Len(lost.data) = Len(p.units[n].data)

-----------------------------------------------------------------------------
Contents(k, x) == IF k = "value" THEN {x} ELSE Range(x)
NormalOf(k, x) ==
  CASE k = "value" -> Normal(x)
    [] k = "store" -> [j \in DOMAIN x |-> Normal(x[j])]
    [] k = "packet" -> PacketNormal(x)
WellSent ==
  /\ sent # None
  /\ IF kind = "packet" THEN Carried(sent) ELSE \A v \in Contents(kind, sent) : Aligned(v)

\* An encoding that arrives whole is decoded to what was sent, in normal form
\* (value::serialize and deserialize, value_store::serialize_binary and
\* deserialize_binary, msgpack_serializer and from_msgpack_impl), for every
\* nesting of containers and arrays.
Lossless == pc = "got" /\ ~cut /\ WellSent => got = NormalOf(kind, sent)

\* An encoding that lost its end is refused, wherever it was cut: the bounds
\* checks of deserialize_data and of the entry loops miss no position.  Of a
\* packet, at most the last value can be lost unnoticed.
TruncationDetected ==
  pc = "got" /\ cut /\ WellSent => got = None \/ (kind = "packet" /\ CutInLastValue(sent, got))

\* What was decoded once, from whatever bytes, is a fixed point: its receiver
\* can encode it again and the next receiver decodes exactly the same (apart
\* from the routing of a data_container, which is not encoded).
ForwardStable ==
  pc = "got" /\ ~cut /\ hops > 0 => got = IF kind = "packet" THEN PacketNormal(sent) ELSE sent

\* A decoded value never takes more bytes to encode than it was decoded from.
\* deserialize_data relies on it: it advances by the re-encoded size of each
\* array element and then reads from data.begin() + offset without a check.
ReencodeFits == pc = "got" /\ got # None /\ kind # "packet" => Len(Encode(kind, got)) <= Len(wire)
=============================================================================
