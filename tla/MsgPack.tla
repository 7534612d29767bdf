------------------------------ MODULE MsgPack ------------------------------
(***************************************************************************)
(* The MessagePack encoding of a value_container: msgpack_encoder and      *)
(* msgpack_decoder (container/msgpack.h), msgpack_serializer.cpp, and      *)
(* value_container::from_msgpack_impl, detect_format and deserialize.      *)
(*                                                                         *)
(* The encoding is a sequence of bytes.  The byte of a format is the real  *)
(* one; the limits that choose between the formats are constants, and a    *)
(* byte of a number or a length is a digit in base Base, so that the       *)
(* widest numbers are within TLC's reach.  A float is its bits.  A packet  *)
(* is [header, units]: the texts of the header, and a sequence of values;  *)
(* the data of a container is a packet or Null, of an array a sequence of  *)
(* values without names.  A text is a sequence of bytes.                   *)
(***************************************************************************)
EXTENDS ValueTypes, SequencesExt, FiniteSets

CONSTANTS
  Null, None,
  Base,          \* the values of a byte: 256
  FixintMax,     \* POSITIVE_FIXINT_MAX: 127
  NegFixints,    \* the negative fixints: 32
  FixstrMax,     \* FIXSTR_MAX_SIZE: 31
  FixcountMax    \* FIXARRAY_MAX_SIZE and FIXMAP_MAX_SIZE: 15

FIXMAP == 128
FIXARRAY == 144
FIXSTR == 160
NIL == 192
FALSE_BYTE == 194
TRUE_BYTE == 195
BIN8 == 196
FLOAT32 == 202
FLOAT64 == 203
UINT8 == 204
INT8 == 208
STR8 == 217
ARRAY16 == 220
MAP16 == 222
NEGATIVE_FIXINT == 224

\* The largest number of w bytes, unsigned and signed
UintMax(w) == Base ^ w - 1
IntMax(w) == (Base ^ w) \div 2 - 1
IntMin(w) == -(IntMax(w) + 1)

-----------------------------------------------------------------------------
(* msgpack_encoder *)

\* write_be16, write_be32, write_be64
WriteBe(n, w) == [i \in 1..w |-> (n \div Base ^ (w - i)) % Base]

WriteNil == <<NIL>>
WriteBool(x) == <<IF x = 1 THEN TRUE_BYTE ELSE FALSE_BYTE>>

WriteUint(n) ==
  IF n <= FixintMax THEN <<n>>
  ELSE IF n <= UintMax(1) THEN <<UINT8>> \o WriteBe(n, 1)
  ELSE IF n <= UintMax(2) THEN <<UINT8 + 1>> \o WriteBe(n, 2)
  ELSE IF n <= UintMax(4) THEN <<UINT8 + 2>> \o WriteBe(n, 4)
  ELSE <<UINT8 + 3>> \o WriteBe(n, 8)

\* Mutant: the limit of one byte is off by one.
WriteIntShort(n) ==
  IF n >= 0 THEN WriteUint(n)
  ELSE IF n >= -NegFixints THEN <<256 + n>>
  ELSE IF n >= IntMin(1) - 1 THEN <<INT8>> \o WriteBe(n, 1)
  ELSE IF n >= IntMin(2) THEN <<INT8 + 1>> \o WriteBe(n, 2)
  ELSE IF n >= IntMin(4) THEN <<INT8 + 2>> \o WriteBe(n, 4)
  ELSE <<INT8 + 3>> \o WriteBe(n, 8)

WriteInt(n) ==
  IF n >= 0 THEN WriteUint(n)
  ELSE IF n >= -NegFixints THEN <<256 + n>>
  ELSE IF n >= IntMin(1) THEN <<INT8>> \o WriteBe(n, 1)
  ELSE IF n >= IntMin(2) THEN <<INT8 + 1>> \o WriteBe(n, 2)
  ELSE IF n >= IntMin(4) THEN <<INT8 + 2>> \o WriteBe(n, 4)
  ELSE <<INT8 + 3>> \o WriteBe(n, 8)

WriteFloat(bits) == <<FLOAT32>> \o WriteBe(bits, 4)
WriteDouble(bits) == <<FLOAT64>> \o WriteBe(bits, 8)

WriteString(s) ==
  (IF Len(s) <= FixstrMax THEN <<FIXSTR + Len(s)>>
   ELSE IF Len(s) <= UintMax(1) THEN <<STR8>> \o WriteBe(Len(s), 1)
   ELSE IF Len(s) <= UintMax(2) THEN <<STR8 + 1>> \o WriteBe(Len(s), 2)
   ELSE <<STR8 + 2>> \o WriteBe(Len(s), 4)) \o s

WriteBinary(s) ==
  (IF Len(s) <= UintMax(1) THEN <<BIN8>> \o WriteBe(Len(s), 1)
   ELSE IF Len(s) <= UintMax(2) THEN <<BIN8 + 1>> \o WriteBe(Len(s), 2)
   ELSE <<BIN8 + 2>> \o WriteBe(Len(s), 4)) \o s

WriteArrayHeader(n) ==
  IF n <= FixcountMax THEN <<FIXARRAY + n>>
  ELSE IF n <= UintMax(2) THEN <<ARRAY16>> \o WriteBe(n, 2) ELSE <<ARRAY16 + 1>> \o WriteBe(n, 4)
WriteMapHeader(n) ==
  IF n <= FixcountMax THEN <<FIXMAP + n>>
  ELSE IF n <= UintMax(2) THEN <<MAP16>> \o WriteBe(n, 2) ELSE <<MAP16 + 1>> \o WriteBe(n, 4)

-----------------------------------------------------------------------------
(* msgpack_serializer *)

\* The keys and the message type that have a meaning
HeaderKey == <<0>>
ValuesKey == <<1>>
TargetId == <<2>>
TargetSubId == <<3>>
SourceId == <<4>>
SourceSubId == <<5>>
MessageType == <<6>>
VersionKey == <<7>>
DataContainer == <<0>>
Routing == <<TargetId, TargetSubId, SourceId, SourceSubId>>
HeaderFields == Routing \o <<MessageType, VersionKey>>

RECURSIVE SerializePacket(_)
RECURSIVE WriteValue(_)

\* write_value_to_encoder
WriteValue(v) ==
  CASE v.type = bool_value -> WriteBool(v.data)
    [] v.type \in SignedTypes -> WriteInt(v.data)
    [] v.type \in UnsignedTypes -> WriteUint(v.data)
    [] v.type = float_value -> WriteFloat(v.data)
    [] v.type = double_value -> WriteDouble(v.data)
    [] v.type = string_value -> WriteString(v.data)
    [] v.type = bytes_value -> WriteBinary(v.data)
    [] v.type = container_value -> IF v.data = Null THEN WriteNil ELSE WriteBinary(SerializePacket(v.data))
    [] v.type = array_value ->
         WriteArrayHeader(Len(v.data)) \o FlattenSeq([i \in DOMAIN v.data |-> WriteValue(v.data[i])])
    [] OTHER -> WriteNil

\* serialize_container_to_msgpack
SerializePacket(p) ==
  LET fields == IF p.header[MessageType] = DataContainer THEN <<MessageType, VersionKey>> ELSE HeaderFields
  IN  WriteMapHeader(2)
        \o WriteString(HeaderKey) \o WriteMapHeader(Len(fields))
        \o FlattenSeq([i \in DOMAIN fields |-> WriteString(fields[i]) \o WriteString(p.header[fields[i]])])
        \o WriteString(ValuesKey) \o WriteMapHeader(Len(p.units))
        \o FlattenSeq([i \in DOMAIN p.units |-> WriteString(p.units[i].name) \o WriteValue(p.units[i])])

-----------------------------------------------------------------------------
(* msgpack_decoder: a read returns what it read, or None, and the offset. *)

Got(x, off) == [val |-> x, off |-> off]
Byte(b, off) == IF off < Len(b) THEN b[off + 1] ELSE None

\* read_be16, read_be32, read_be64
ReadBe(b, off, w) == FoldLeft(LAMBDA n, d : n * Base + d, 0, SubSeq(b, off + 1, off + w))

\* peek_type
PeekType(b, off) ==
  IF off >= Len(b) THEN "unknown"
  ELSE LET byte == b[off + 1]
       IN  CASE byte < FIXMAP -> "positive_int"
             [] byte \in FIXMAP..(FIXARRAY - 1) -> "map"
             [] byte \in FIXARRAY..(FIXSTR - 1) -> "array"
             [] byte \in FIXSTR..(NIL - 1) -> "str"
             [] byte >= NEGATIVE_FIXINT -> "negative_int"
             [] byte = NIL -> "nil"
             [] byte \in {FALSE_BYTE, TRUE_BYTE} -> "boolean"
             [] byte \in BIN8..(BIN8 + 2) -> "bin"
             [] byte = FLOAT32 -> "float32"
             [] byte = FLOAT64 -> "float64"
             [] byte \in UINT8..(UINT8 + 3) -> "positive_int"
             [] byte \in INT8..(INT8 + 3) -> "negative_int"
             [] byte \in STR8..(STR8 + 2) -> "str"
             [] byte \in ARRAY16..(ARRAY16 + 1) -> "array"
             [] byte \in MAP16..(MAP16 + 1) -> "map"
             [] OTHER -> "unknown"

ReadBool(b, off) ==
  CASE Byte(b, off) = TRUE_BYTE -> Got(1, off + 1)
    [] Byte(b, off) = FALSE_BYTE -> Got(0, off + 1)
    [] OTHER -> Got(None, off)

\* A number of the format at the offset that takes w bytes behind it
Fits(b, off, w) == off + 1 + w <= Len(b)
Signed(n, w) == IF n > IntMax(w) THEN n - Base ^ w ELSE n

ReadInt(b, off) ==
  LET byte == Byte(b, off)
      w == [f \in (UINT8..(UINT8 + 3)) \cup (INT8..(INT8 + 3)) |-> 2 ^ ((f - UINT8) % 4)][byte]
      n == ReadBe(b, off + 1, w)
  IN  IF off >= Len(b) THEN Got(None, off)
      ELSE IF byte < FIXMAP THEN Got(byte, off + 1)
      ELSE IF byte >= NEGATIVE_FIXINT THEN Got(byte - 256, off + 1)
      ELSE IF byte \notin UINT8..(INT8 + 3) THEN Got(None, off)
      ELSE IF ~Fits(b, off, w) THEN Got(None, off)
      ELSE IF byte >= INT8 THEN Got(Signed(n, w), off + 1 + w)
      ELSE IF n > IntMax(8) THEN Got(None, off + 1 + w)
      ELSE Got(n, off + 1 + w)

ReadFloat(b, off) ==
  IF Byte(b, off) # FLOAT32 \/ ~Fits(b, off, 4) THEN Got(None, off) ELSE Got(ReadBe(b, off + 1, 4), off + 5)
\* FLOAT32 is never seen here: peek_type sends it to read_float.
ReadDouble(b, off) ==
  IF Byte(b, off) # FLOAT64 \/ ~Fits(b, off, 8) THEN Got(None, off) ELSE Got(ReadBe(b, off + 1, 8), off + 9)

\* Mutant: a text that is cut short is taken as it is.
TextOfShort(b, off, len) ==
  LET end == IF off + len > Len(b) THEN Len(b) ELSE off + len IN Got(SubSeq(b, off + 1, end), end)

\* The bytes of a text: the offset stays behind its length when they are short.
TextOf(b, off, len) ==
  IF off + len > Len(b) THEN Got(None, off) ELSE Got(SubSeq(b, off + 1, off + len), off + len)

\* A length of w bytes behind the format, or None
ReadLength(b, off, w) == IF Fits(b, off, w) THEN Got(ReadBe(b, off + 1, w), off + 1 + w) ELSE Got(None, off)

ReadString(b, off) ==
  LET byte == Byte(b, off)
      len == IF byte \in FIXSTR..(NIL - 1) THEN Got(byte - FIXSTR, off + 1)
             ELSE IF byte \in STR8..(STR8 + 2) THEN ReadLength(b, off, 2 ^ (byte - STR8))
             ELSE Got(None, off)
  IN  IF off >= Len(b) THEN Got(None, off) ELSE IF len.val = None THEN len ELSE TextOf(b, len.off, len.val)

ReadBinary(b, off) ==
  LET byte == Byte(b, off)
      len == IF byte \in BIN8..(BIN8 + 2) THEN ReadLength(b, off, 2 ^ (byte - BIN8)) ELSE Got(None, off)
  IN  IF off >= Len(b) THEN Got(None, off) ELSE IF len.val = None THEN len ELSE TextOf(b, len.off, len.val)

ReadArrayHeader(b, off) ==
  LET byte == Byte(b, off)
  IN  IF off >= Len(b) THEN Got(None, off)
      ELSE IF byte \in FIXARRAY..(FIXSTR - 1) THEN Got(byte - FIXARRAY, off + 1)
      ELSE IF byte \in ARRAY16..(ARRAY16 + 1) THEN ReadLength(b, off, 2 * (byte - ARRAY16 + 1))
      ELSE Got(None, off)

ReadMapHeader(b, off) ==
  LET byte == Byte(b, off)
  IN  IF off >= Len(b) THEN Got(None, off)
      ELSE IF byte \in FIXMAP..(FIXARRAY - 1) THEN Got(byte - FIXMAP, off + 1)
      ELSE IF byte \in MAP16..(MAP16 + 1) THEN ReadLength(b, off, 2 * (byte - MAP16 + 1))
      ELSE Got(None, off)

-----------------------------------------------------------------------------
(* from_msgpack_impl *)

RECURSIVE FromMsgpack(_)

\* initialize
Fresh ==
  [header |-> [f \in Range(HeaderFields) |-> IF f = MessageType THEN DataContainer ELSE IF f = VersionKey THEN <<1>> ELSE <<>>],
   units |-> <<>>]

\* The loops below take n more steps, or end at the first that returns None.
RECURSIVE ReadHeader(_, _, _)
RECURSIVE ReadElements(_, _, _)
RECURSIVE ReadUnits(_, _, _)
RECURSIVE ReadSections(_, _, _)

\* A key and a text of the header; a key without a meaning is dropped.
ReadHeaderField(b, s) ==
  LET key == ReadString(b, s.off)
      text == ReadString(b, key.off)
  IN  IF key.val = None THEN key
      ELSE IF text.val = None THEN text
      ELSE Got(IF key.val \in Range(HeaderFields) THEN [s.val EXCEPT !.header[key.val] = text.val] ELSE s.val, text.off)

ReadHeader(b, n, s) == IF n = 0 \/ s.val = None THEN s ELSE ReadHeader(b, n - 1, ReadHeaderField(b, s))

\* An element of an array: what cannot be read is null, and a container, a
\* map, an array or an unknown byte is not consumed.
ReadElement(b, off) ==
  LET Read(type, r) == IF r.val = None THEN Got(Mk(NoName, null_value, Null), r.off) ELSE Got(Mk(NoName, type, r.val), r.off)
      peek == PeekType(b, off)
  IN  CASE peek = "nil" -> Got(Mk(NoName, null_value, Null), off + 1)
        [] peek = "boolean" -> Read(bool_value, ReadBool(b, off))
        [] peek \in {"positive_int", "negative_int"} -> Read(llong_value, ReadInt(b, off))
        [] peek = "float32" -> Read(float_value, ReadFloat(b, off))
        [] peek = "float64" -> Read(double_value, ReadDouble(b, off))
        [] peek = "str" -> Read(string_value, ReadString(b, off))
        [] peek = "bin" -> Read(bytes_value, ReadBinary(b, off))
        [] OTHER -> Got(Mk(NoName, null_value, Null), off)

ReadElements(b, n, s) ==
  LET e == ReadElement(b, s.off)
  IN  IF n = 0 THEN s ELSE ReadElements(b, n - 1, Got(Append(s.val, e.val), e.off))

ReadArray(b, off) ==
  LET n == ReadArrayHeader(b, off) IN IF n.val = None THEN n ELSE ReadElements(b, n.val, Got(<<>>, n.off))

\* The value behind a key
ReadValue(b, off, name) ==
  LET Read(type, r) == IF r.val = None THEN r ELSE Got(Mk(name, type, r.val), r.off)
      peek == PeekType(b, off)
      int == ReadInt(b, off)
      bin == ReadBinary(b, off)
      nested == FromMsgpack(bin.val)
  IN  CASE peek = "nil" -> Got(Mk(name, null_value, Null), off + 1)
        [] peek = "boolean" -> Read(bool_value, ReadBool(b, off))
        [] peek \in {"positive_int", "negative_int"} ->
             IF int.val # None /\ int.val \in IntMin(4)..IntMax(4) THEN Read(int_value, int) ELSE Read(llong_value, int)
        [] peek = "float32" -> Read(float_value, ReadFloat(b, off))
        [] peek = "float64" -> Read(double_value, ReadDouble(b, off))
        [] peek = "str" -> Read(string_value, ReadString(b, off))
        [] peek = "bin" ->
             IF bin.val = None THEN bin
             ELSE IF Len(bin.val) >= 2 /\ nested # None THEN Got(Mk(name, container_value, nested), bin.off)
             ELSE Got(Mk(name, bytes_value, bin.val), bin.off)
        [] peek = "array" -> Read(array_value, ReadArray(b, off))
        [] OTHER -> Got(Mk(name, null_value, Null), off)

ReadUnit(b, s) ==
  LET key == ReadString(b, s.off)
      v == ReadValue(b, key.off, key.val)
  IN  IF key.val = None THEN key
      ELSE IF v.val = None THEN v
      ELSE Got([s.val EXCEPT !.units = Append(@, v.val)], v.off)

ReadUnits(b, n, s) == IF n = 0 \/ s.val = None THEN s ELSE ReadUnits(b, n - 1, ReadUnit(b, s))

\* One entry of the outer map; a key without a meaning is passed over alone.
ReadSection(b, s) ==
  LET key == ReadString(b, s.off)
      n == ReadMapHeader(b, key.off)
  IN  IF key.val = None THEN key
      ELSE IF key.val \notin {HeaderKey, ValuesKey} THEN Got(s.val, key.off)
      ELSE IF n.val = None THEN n
      ELSE IF key.val = HeaderKey THEN ReadHeader(b, n.val, Got(s.val, n.off))
      ELSE ReadUnits(b, n.val, Got(s.val, n.off))

ReadSections(b, n, s) == IF n = 0 \/ s.val = None THEN s ELSE ReadSections(b, n - 1, ReadSection(b, s))

FromMsgpack(b) ==
  LET n == ReadMapHeader(b, 0)
  IN  IF b = <<>> THEN None
      ELSE IF n.val = None THEN None
      ELSE ReadSections(b, n.val, Got(Fresh, n.off)).val

\* detect_format of bytes: a map is MessagePack, the rest is for the text formats.
DetectFormat(b) ==
  IF b # <<>> /\ (b[1] \in FIXMAP..(FIXARRAY - 1) \/ b[1] \in MAP16..(MAP16 + 1)) THEN "msgpack" ELSE "text"

\* deserialize of bytes
DeserializePacket(b) == IF DetectFormat(b) = "msgpack" THEN FromMsgpack(b) ELSE None
=============================================================================
