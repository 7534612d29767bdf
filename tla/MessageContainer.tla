-------------------------- MODULE MessageContainer --------------------------
(***************************************************************************)
(* message_container (messaging/): a request and the reply that is made of *)
(* it by swap_header, on a wire that may lose their ends.  The wire holds  *)
(* cells: the size of the header, one cell per field of it, and the        *)
(* payload.  Fields are written between quotes; only the JSON library      *)
(* escapes what they hold, so that the text of a binary header may be no   *)
(* JSON, or JSON with other contents, or with more pairs than were meant.  *)
(***************************************************************************)
EXTENDS Integers, Sequences, SequencesExt

CONSTANTS
  Idents,      \* ids and message types
  Reads,       \* Reads[x]: what x between two quotes is in JSON: Refused, or a text
               \* and the pairs of further fields behind it
  Payloads,    \* sequences of values
  Refused      \* an exception

VARIABLES
  hasJson,     \* whether the library was built with nlohmann/json.hpp
  stage,       \* "request", "asked", "reply" or "answered"
  request,     \* what was sent
  wire,        \* what is on the way
  message,     \* what is in hand on the side whose turn it is, or Refused
  unescaped    \* history: a field that needed escaping went out in binary

messageVars == <<hasJson, stage, request, wire, message, unescaped>>

ASSUME MessageAssumption ==
  /\ \A p \in Payloads : p \in Seq(ToSet(p))
  /\ \A x \in Idents : Reads[x] # Refused => DOMAIN Reads[x] = {"text", "also"}

\* Between its quotes x is itself.
Plain(x) == Reads[x] = [text |-> x, also |-> <<>>]

Fields == <<"source_id", "source_sub_id", "target_id", "target_sub_id", "message_type", "version">>
Nothing == [format |-> "none", cells |-> <<>>, size |-> 0]

\* message_container(): the strings are empty but for the version.
NewMessage == [header |-> [f \in ToSet(Fields) |-> IF f = "version" THEN "1.0.0.0" ELSE ""], payload |-> <<>>]
WithFields(m, fs) == [m EXCEPT !.header = [f \in DOMAIN @ |-> IF f \in DOMAIN fs THEN fs[f] ELSE @[f]]]

\* The constructors
OfType(type) == WithFields(NewMessage, [message_type |-> type])
ForTarget(id, sub, type) == WithFields(NewMessage, [target_id |-> id, target_sub_id |-> sub, message_type |-> type])
Between(sid, ssub, tid, tsub, type) ==
  WithFields(NewMessage, [source_id |-> sid, source_sub_id |-> ssub, target_id |-> tid, target_sub_id |-> tsub,
                          message_type |-> type])

SetSourceOf(m, id, sub) == WithFields(m, [source_id |-> id, source_sub_id |-> sub])
SetTargetOf(m, id, sub) == WithFields(m, [target_id |-> id, target_sub_id |-> sub])
SetTypeOf(m, type) == WithFields(m, [message_type |-> type])
SetVersionOf(m, version) == WithFields(m, [version |-> version])

\* Mutant: the sub ids stay.
SwapIdsOnly(m) == WithFields(m, [source_id |-> m.header.target_id, target_id |-> m.header.source_id])

\* swap_header
SwapHeaderOf(m) ==
  WithFields(m, [source_id |-> m.header.target_id, target_id |-> m.header.source_id,
                 source_sub_id |-> m.header.target_sub_id, target_sub_id |-> m.header.source_sub_id])

-----------------------------------------------------------------------------
(* The wire *)

Header(m) == [i \in DOMAIN Fields |-> m.header[Fields[i]]]

\* serialize_binary: the length of the header, the header, the payload
SerializeBinary(m) == [format |-> "binary", cells |-> <<Len(Fields)>> \o Header(m) \o m.payload, size |-> 1]

\* serialize: one JSON text, which the fallback does not escape either
SerializeJson(m) == [format |-> "json", cells |-> Header(m) \o m.payload, size |-> Len(Fields) + Len(m.payload)]

\* The cell of the text that has the last pair of field f, which counts.
LastPair(cells, f) == Max({i \in DOMAIN Fields : Fields[i] = f \/ f \in DOMAIN Reads[cells[i]].also})

FieldOf(cells, f) ==
  LET r == Reads[cells[LastPair(cells, f)]]
  IN  IF f \in DOMAIN r.also THEN r.also[f] ELSE r.text

\* nlohmann::json::parse of the header, and contains() of each field
Parse(cells) ==
  IF \E i \in DOMAIN Fields : Reads[cells[i]] = Refused THEN Refused
  ELSE WithFields(NewMessage, [f \in ToSet(Fields) |-> FieldOf(cells, f)])

\* deserialize_binary: without the library the header is passed over; the
\* payload always is.
DeserializeBinary(cells) ==
  IF cells = <<>> THEN Refused
  ELSE IF Len(cells) < 1 + cells[1] THEN Refused
  ELSE IF hasJson THEN Parse(SubSeq(cells, 2, 1 + cells[1])) ELSE NewMessage

\* deserialize: the library refuses a text without its end, and unescapes
\* what it escaped; without it there is no deserialize.
DeserializeJson(w) ==
  IF ~hasJson \/ Len(w.cells) < w.size THEN Refused
  ELSE WithFields(NewMessage, [f \in ToSet(Fields) |-> w.cells[CHOOSE i \in DOMAIN Fields : Fields[i] = f]])

-----------------------------------------------------------------------------
(* A request and its reply *)

MessageInit ==
  /\ hasJson \in BOOLEAN /\ stage = "request" /\ wire = Nothing /\ unescaped = FALSE
  /\ \E payload \in Payloads, a, b \in Idents :
       message \in {[m EXCEPT !.payload = payload] :
                      m \in {NewMessage, OfType(a), ForTarget(a, b, a), Between(a, b, b, b, a)}}
  /\ request = message

Configure(m) ==
  /\ stage = "request" /\ wire = Nothing
  /\ request' = m /\ message' = m
  /\ UNCHANGED <<hasJson, stage, wire, unescaped>>

Post(w) ==
  /\ wire = Nothing /\ stage \in {"request", "reply"} /\ message # Refused
  /\ wire' = w
  /\ unescaped' = (unescaped \/ (w.format = "binary" /\ \E f \in ToSet(Fields) : ~Plain(message.header[f])))
  /\ UNCHANGED <<hasJson, stage, request, message>>

LoseEnd ==
  /\ wire # Nothing /\ wire.cells # <<>>
  /\ wire' = [wire EXCEPT !.cells = Front(@)]
  /\ UNCHANGED <<hasJson, stage, request, message, unescaped>>

Fetch ==
  /\ wire # Nothing
  /\ message' = IF wire.format = "binary" THEN DeserializeBinary(wire.cells) ELSE DeserializeJson(wire)
  /\ wire' = Nothing
  /\ stage' = IF stage = "request" THEN "asked" ELSE "answered"
  /\ UNCHANGED <<hasJson, request, unescaped>>

Respond ==
  /\ stage = "asked" /\ message # Refused
  /\ message' = SwapHeaderOf(message) /\ stage' = "reply"
  /\ UNCHANGED <<hasJson, request, wire, unescaped>>

MessageNext ==
  \/ \E a, b \in Idents :
       \/ Configure(SetSourceOf(message, a, b)) \/ Configure(SetTargetOf(message, a, b))
       \/ Configure(SetTypeOf(message, a)) \/ Configure(SetVersionOf(message, a))
  \/ Post(SerializeBinary(message)) \/ Post(SerializeJson(message))
  \/ LoseEnd \/ Fetch \/ Respond

MessageSpec == MessageInit /\ [][MessageNext]_messageVars

\* In a build with the JSON library a reply that is accepted, whichever format
\* each of the two messages took and whatever the wire lost, is addressed to
\* the source of the request, comes from its target and has its type and
\* version; and nothing that lost a part of its header is accepted.  This is
\* so for any field that travels as JSON, and for the fields JSON needs not
\* escape in binary; a binary header with others may be accepted with
\* contents nobody sent, as serialize_binary escapes nothing.
ReplyReaches ==
  stage = "answered" /\ message # Refused /\ hasJson /\ ~unescaped =>
    LET h == request.header
    IN  message.header = [source_id |-> h.target_id, source_sub_id |-> h.target_sub_id, target_id |-> h.source_id,
                          target_sub_id |-> h.source_sub_id, message_type |-> h.message_type, version |-> h.version]
=============================================================================
