--------------------------- MODULE ValueContainer ---------------------------
(***************************************************************************)
(* The sequential behaviour of value_container (core/container.cpp): a     *)
(* message header, a vector of named values, and the machinery that lets a *)
(* container hold a received packet without having parsed its values.      *)
(*                                                                         *)
(* One container c is followed through any legal sequence of public calls. *)
(* A copy, a move or a construction from a packet replaces c by the new    *)
(* object, which is the one the program goes on with.  Every call is made  *)
(* to completion before the next: callers on one container at the same     *)
(* time are the subject of ContainerRaces.                                 *)
(*                                                                         *)
(* Abstractions.  A value is a kind and a model value.  The kinds stand    *)
(* for what the text format does with them: a "scalar" (boolean, integer)  *)
(* survives it; a "real" (float, double) is written with six decimals; a   *)
(* "string" loses its leading white space when it is read; "unsafe" is a   *)
(* string whose text holds the item delimiter and comes back as another    *)
(* string; "bytes", "nested" (container) and "array" are written as the    *)
(* empty text.  "bad" is received text that its type's std::sto*           *)
(* conversion rejects.  source_id/source_sub_id are always written         *)
(* together and are one field, as are the target ids.  Statistics          *)
(* (heap_allocations_, metrics_manager) are left out, and so are texts     *)
(* that hold line breaks, the delimiter of the data section, or a whole    *)
(* item behind the item delimiter.                                         *)
(***************************************************************************)
EXTENDS Naturals, Sequences, SequencesExt, FiniteSets

CONSTANTS
  WordNames,    \* value names made of word characters (the item regex's \w+)
  OddNames,     \* other non-empty names: accepted by set, never parsed back
  EmptyName,    \* the empty name, refused by the Result API
  Vals,         \* payload values
  Empty,        \* the payload that is left when the text of a value is empty
  Mangled,      \* the payload an "unsafe" string becomes in the text format
  Ids,          \* source / target identifiers
  NoId,         \* the empty identifier
  Types,        \* message types other than "data_container"
  Packets,      \* text packets received from outside
  MsgDocs,      \* MessagePack documents received from outside
  Batches,      \* sequences of values handed to set_all and bulk_insert
  Updates,      \* sequences of update_spec handed to update_batch_if
  MaxUnits,     \* bound on the number of values held
  Rounded(_),   \* the real that a real is after std::to_string and std::stof or stod
  Stripped(_),  \* a text without its leading white space
  NoHeader, NoData, NoRaw, NoIndex, None

VARIABLES
  c,            \* the container
  gone,         \* names removed and not stored or received since
  written,      \* per name, the payload of the last set/update that nothing since replaced
  received,     \* the data section last given to the container while it is lazy
  terminated    \* std::terminate has ended the program

vars == <<c, gone, written, received, terminated>>

DataContainer == "data_container"
TextKinds == {"scalar", "real", "string"}
Kinds == TextKinds \union {"unsafe", "bytes", "nested", "array"}
Names == WordNames \union OddNames
AnyName == Names \union {EmptyName}
Unit(n, p) == [name |-> n, kind |-> p.kind, val |-> p.val]
Payload(u) == [kind |-> u.kind, val |-> u.val]
AllVals == Vals \union {Empty, Mangled}
PayloadSet == [kind : Kinds, val : AllVals]
UnitSet == [name : AnyName, kind : Kinds, val : AllVals]
TextItem == [name : AnyName, kind : Kinds \union {"bad"}, val : AllVals]
Header == [src : Ids \union {NoId}, tgt : Ids \union {NoId},
           type : Types \union {DataContainer}, ver : {"1.0.0.0", "1.0"}]

\* A text packet has an optional @header and an optional @data section; the
\* empty string and texts of other formats have neither.
IsPacket(p) ==
  /\ p.hdr = NoHeader \/ p.hdr \in Header
  /\ p.data = NoData \/ p.data \in Seq(TextItem)

\* A MessagePack document: not a map at all, or a header and the values that
\* decode before the first failure (whole: there is none).
IsDoc(d) ==
  /\ d.map \in BOOLEAN /\ d.whole \in BOOLEAN
  /\ d.hdr \in Header /\ d.vals \in Seq(UnitSet)

ASSUME NamesDisjoint == EmptyName \notin Names /\ WordNames \cap OddNames = {}
ASSUME PacketsAssumption == \A p \in Packets : IsPacket(p)
ASSUME DocsAssumption == \A d \in MsgDocs : IsDoc(d)
ASSUME BatchesAssumption == Batches \subseteq Seq(UnitSet)
ASSUME UpdatesAssumption ==
  Updates \subseteq Seq([key : AnyName, expected : PayloadSet, new : PayloadSet])
ASSUME BoundAssumption == MaxUnits \in Nat
ASSUME RoundedAssumption ==
  \A v \in AllVals : Rounded(v) \in AllVals /\ Rounded(Rounded(v)) = Rounded(v)
ASSUME StrippedAssumption ==
  /\ \A v \in AllVals : Stripped(v) \in AllVals /\ Stripped(Stripped(v)) = Stripped(v)
  /\ Stripped(Empty) = Empty /\ Stripped(Mangled) = Mangled
ASSUME AbsentAssumption == NoHeader \notin Header /\ NoData \notin Seq(TextItem)

-----------------------------------------------------------------------------
(* Lookups *)

FirstNamed(us, k) == SelectInSeq(us, LAMBDA u : u.name = k)
HasName(us, k) == \E i \in DOMAIN us : us[i].name = k

\* The elements whose name is one of names, in their order.
Keep(us, names) ==
  LET kept[i \in 0..Len(us)] ==
        IF i = 0 THEN <<>>
        ELSE IF us[i].name \in names THEN Append(kept[i - 1], us[i]) ELSE kept[i - 1]
  IN  kept[Len(us)]

\* get(key) and its batch, map and Result forms: the first match in
\* optimized_units_.  No form parses a lazily held data section.
Get(k) ==
  LET i == FirstNamed(c.units, k)
  IN  IF i = 0 THEN None ELSE Payload(c.units[i])

-----------------------------------------------------------------------------
(* The text ("binary") format *)

\* Mutant: to_string has no case for strings.
TextOfNoString(u) == [u EXCEPT !.val = IF u.kind = "scalar" THEN @ ELSE Empty]

\* variant_helpers::to_string
TextOf(u) ==
  [u EXCEPT !.val = IF u.kind \in {"scalar", "string", "unsafe"} THEN @
                    ELSE IF u.kind = "real" THEN Rounded(@) ELSE Empty]

\* The unit an item of the data section parses to.  The text of a container
\* never holds a whole data section: the section around it ends first.
ParseItem(t) ==
  [name |-> t.name,
   kind |-> IF t.kind = "unsafe" THEN "string" ELSE t.kind,
   val  |-> IF t.kind = "unsafe" THEN Mangled
            ELSE IF t.kind \in {"string", "bytes"} THEN Stripped(t.val)
            ELSE IF t.kind \in {"nested", "array"} THEN Empty ELSE t.val]

\* The items the regex \[(\w+),\s*(\w+),\s*(.*?)\]; finds.
Matches(items) == Keep(items, WordNames)

Throws(items) == \E i \in DOMAIN Matches(items) : Matches(items)[i].kind = "bad"

\* The values parsed before the first conversion that throws, all of them
\* when none does.
ParsedPrefix(items) ==
  LET m   == Matches(items)
      bad == SelectInSeq(m, LAMBDA t : t.kind = "bad")
      n   == IF bad = 0 THEN Len(m) ELSE bad - 1
  IN  [i \in 1..n |-> ParseItem(m[i])]

\* datas(): the stored text while the values are unparsed, else the units.
Datas(v) == IF ~v.parsed THEN v.data ELSE [i \in DOMAIN v.units |-> TextOf(v.units[i])]

\* binary_serializer: a "data_container" travels without its ids.
SerializeBinary(v) ==
  [hdr  |-> IF v.header.type # DataContainer THEN v.header
            ELSE [v.header EXCEPT !.src = NoId, !.tgt = NoId],
   data |-> Datas(v)]

-----------------------------------------------------------------------------
(* Construction and deserialisation, as functions from container to container *)

EmptyHeader(ver) == [src |-> NoId, tgt |-> NoId, type |-> DataContainer, ver |-> ver]

NewContainer ==
  [header |-> EmptyHeader("1.0.0.0"), parsed |-> TRUE, changed |-> FALSE,
   data |-> <<>>, units |-> <<>>, raw |-> NoRaw, zero |-> FALSE, index |-> NoIndex]

\* clear_value(): the raw packet and its index stay.
ClearedValue(v) ==
  [v EXCEPT !.parsed = TRUE, !.changed = FALSE, !.data = <<>>, !.units = <<>>]

Initialized(v) == [ClearedValue(v) EXCEPT !.header = EmptyHeader("1.0")]

\* deserialize_values(), up to its end or to the conversion that throws.
WithValues(v, section, lazy) ==
  IF section = NoData
  THEN [v EXCEPT !.units = <<>>, !.changed = FALSE, !.data = <<>>, !.parsed = TRUE]
  ELSE [v EXCEPT !.changed = FALSE, !.data = section, !.parsed = ~lazy,
                 !.units = IF lazy THEN <<>> ELSE ParsedPrefix(section)]

\* deserialize(): everything is reset before the packet is looked at.
Deserialized(v, p, lazy) ==
  LET w == Initialized(v)
      h == IF p.hdr = NoHeader THEN w ELSE [w EXCEPT !.header = p.hdr]
  IN  WithValues(h, p.data, lazy)

DeserializeOk(p) == p.data # NoData
DeserializeThrows(p, lazy) == ~lazy /\ p.data # NoData /\ Throws(p.data)

\* A lazy construction keeps the whole packet for zero-copy views.
Constructed(p, lazy) ==
  Deserialized([NewContainer EXCEPT !.raw = IF lazy THEN p ELSE NoRaw, !.zero = lazy],
               p, lazy)

CopyConstructed(v, lazy) == Deserialized(NewContainer, SerializeBinary(v), lazy)

\* Mutant: the stored text is not moved along with the parsed flag.
MoveConstructedNoData(v) ==
  [NewContainer EXCEPT !.header = v.header, !.parsed = v.parsed, !.changed = v.changed]

\* The move constructor has no member initialiser for optimized_units_.
MoveConstructed(v) ==
  [NewContainer EXCEPT !.header = v.header, !.parsed = v.parsed,
                       !.changed = v.changed, !.data = v.data]

\* Move assignment to a default-constructed container.
MoveAssigned(v) == [MoveConstructed(v) EXCEPT !.units = v.units]

\* from_msgpack_impl() of a non-empty document.
FromMsgpack(v, d) ==
  IF ~d.map THEN Initialized(v)
  ELSE [Initialized(v) EXCEPT !.header = d.hdr, !.units = d.vals]

\* A nested or array value whose payload the text format dropped holds
\* std::monostate; std::get then throws and the serializer reports an error.
MsgpackThrows(v) ==
  \E i \in DOMAIN v.units : v.units[i].kind \in {"nested", "array"} /\ v.units[i].val = Empty

ToMsgpack(v) ==
  [map |-> TRUE, whole |-> TRUE, vals |-> v.units,
   hdr |-> SerializeBinary(v).hdr]

\* build_index() over the raw packet; no @data section gives an empty index.
BuildIndex(p) == IF p.data = NoData THEN <<>> ELSE Matches(p.data)

-----------------------------------------------------------------------------
(* Updates of the value vector *)

\* Mutant: set appends without looking for the name.
WithUnitAppended(v, u) == [v EXCEPT !.changed = TRUE, !.units = Append(@, u)]

\* set_unit_impl(): replace the first value of that name, else append.
\* A lazily held data section is neither parsed nor changed.
WithUnit(v, u) ==
  LET i == FirstNamed(v.units, u.name)
  IN  [v EXCEPT !.changed = TRUE,
                !.units = IF i = 0 THEN Append(@, u) ELSE ReplaceAt(@, i, u)]

WithUnits(v, us) ==
  LET after[i \in 0..Len(us)] == IF i = 0 THEN v ELSE WithUnit(after[i - 1], us[i])
  IN  after[Len(us)]

WithBulk(v, us) ==
  IF us = <<>> THEN v ELSE [v EXCEPT !.changed = TRUE, !.units = @ \o us]

\* The lazy parse at the head of remove_batch and remove_result.
ForcedParse(v) == IF v.parsed THEN v ELSE WithValues(v, v.data, FALSE)
ForcedParseThrows(v) == ~v.parsed /\ Throws(v.data)

\* Mutant: only the first value of the name is erased.
WithoutFirst(v, ks) ==
  [ForcedParse(v) EXCEPT !.units = RemoveFirstMatch(@, LAMBDA u : u.name \in ks)]

\* erase(remove_if(...)): every value with one of the names goes.
WithoutNames(v, ks) ==
  LET w    == ForcedParse(v)
      kept == Keep(w.units, AnyName \ ks)
  IN  [w EXCEPT !.units = kept, !.changed = @ \/ Len(kept) < Len(w.units)]

UpdateMatches(v, k, expected) ==
  LET i == FirstNamed(v.units, k) IN i # 0 /\ Payload(v.units[i]) = expected

\* One update of update_if / update_batch_if: only the first match counts.
WithUpdate(v, s) ==
  IF UpdateMatches(v, s.key, s.expected)
  THEN [v EXCEPT !.changed = TRUE,
                 !.units = ReplaceAt(@, FirstNamed(v.units, s.key), Unit(s.key, s.new))]
  ELSE v

WithUpdates(v, specs) ==
  LET after[i \in 0..Len(specs)] == IF i = 0 THEN v ELSE WithUpdate(after[i - 1], specs[i])
  IN  after[Len(specs)]

-----------------------------------------------------------------------------
(* The specification *)

Init ==
  /\ c = NewContainer
  /\ gone = {}
  /\ written = [n \in Names |-> None]
  /\ received = <<>>
  /\ terminated = FALSE

NothingWritten == [n \in Names |-> None]

\* History: c was replaced or refilled wholesale, lazily from a section.
Refilled(section, lazy) ==
  /\ gone' = {}
  /\ written' = NothingWritten
  /\ received' = IF lazy /\ section # NoData THEN section ELSE <<>>

\* History: us were stored one after the other.
Stored(us) ==
  /\ gone' = gone \ {us[i].name : i \in DOMAIN us}
  /\ written' = [n \in Names |->
       IF ~HasName(us, n) THEN written[n]
       ELSE [pay  |-> Payload(us[CHOOSE i \in DOMAIN us :
                        us[i].name = n /\ \A j \in DOMAIN us : us[j].name = n => j <= i]),
             lazy |-> ~c.parsed]]
  /\ UNCHANGED received

\* value_container(string, parse_only_header) and the byte-array form; a
\* conversion that throws leaves no object behind.
Construct(p, lazy) ==
  IF DeserializeThrows(p, lazy)
  THEN UNCHANGED vars
  ELSE /\ c' = Constructed(p, lazy)
       /\ Refilled(p.data, lazy)

\* The copy constructors from a reference and from a shared pointer.
CopyConstruct(lazy) ==
  IF DeserializeThrows(SerializeBinary(c), lazy)
  THEN UNCHANGED vars
  ELSE /\ c' = CopyConstructed(c, lazy)
       /\ Refilled(SerializeBinary(c).data, lazy)

MoveConstruct ==
  /\ c' = MoveConstructed(c)
  /\ written' = NothingWritten
  /\ UNCHANGED <<gone, received>>

MoveAssign ==
  /\ c' = MoveAssigned(c)
  /\ UNCHANGED <<gone, written, received>>

\* copy(containing_values)
Copy(containing_values) ==
  LET p == SerializeBinary(c)
      n == Constructed(p, ~containing_values)
  IN  IF DeserializeThrows(p, ~containing_values)
      THEN UNCHANGED vars
      ELSE /\ c' = IF containing_values THEN n ELSE ClearedValue(n)
           /\ Refilled(NoData, FALSE)

SetSource(id) ==
  /\ c' = [c EXCEPT !.header.src = id]
  /\ UNCHANGED <<gone, written, received>>

SetTarget(id) ==
  /\ c' = [c EXCEPT !.header.tgt = id]
  /\ UNCHANGED <<gone, written, received>>

SetMessageType(t) ==
  /\ c' = [c EXCEPT !.header.type = t]
  /\ UNCHANGED <<gone, written, received>>

SwapHeader ==
  /\ c' = [c EXCEPT !.header.src = c.header.tgt, !.header.tgt = c.header.src]
  /\ UNCHANGED <<gone, written, received>>

ClearValue ==
  /\ c' = ClearedValue(c)
  /\ Refilled(NoData, FALSE)

Initialize ==
  /\ c' = Initialized(c)
  /\ Refilled(NoData, FALSE)

Fits(us) == Len(c.units) + Len(us) <= MaxUnits

\* set(val) and set_all(vals)
SetAll(us) ==
  /\ Fits(us)
  /\ c' = WithUnits(c, us)
  /\ Stored(us)

\* set_result(val) and set_all_result(vals): the first empty name ends the
\* loop with an error; the values before it have been stored.
SetAllResult(us) ==
  LET e    == FirstNamed(us, EmptyName)
      done == IF e = 0 THEN us ELSE SubSeq(us, 1, e - 1)
  IN  /\ Fits(us)
      /\ c' = WithUnits(c, done)
      /\ Stored(done)

\* bulk_insert appends: a name already held keeps answering with its old
\* value, so only names that were absent count as written.
BulkInsert(us) ==
  /\ Fits(us)
  /\ c' = WithBulk(c, us)
  /\ gone' = gone \ {us[i].name : i \in DOMAIN us}
  /\ written' = [n \in Names |->
       IF HasName(us, n) /\ ~HasName(c.units, n)
       THEN [pay |-> Payload(us[FirstNamed(us, n)]), lazy |-> ~c.parsed]
       ELSE written[n]]
  /\ UNCHANGED received

Unwritten(ks) == [n \in Names |-> IF n \in ks THEN None ELSE written[n]]

\* remove_batch(keys): the forced parse may throw to the caller half way.
RemoveBatch(ks) ==
  /\ ks # {}
  /\ IF ForcedParseThrows(c)
     THEN c' = ForcedParse(c) /\ UNCHANGED <<gone, written>>
     ELSE /\ c' = WithoutNames(c, ks)
          /\ gone' = gone \union ks
          /\ written' = Unwritten(ks)
  /\ received' = <<>>

\* remove_result(name): key_not_found is reported after the forced parse.
RemoveResult(k) ==
  LET w == ForcedParse(c)
  IN  /\ IF ForcedParseThrows(c) \/ ~HasName(w.units, k)
         THEN c' = w /\ UNCHANGED <<gone, written>>
         ELSE /\ c' = WithoutNames(c, {k})
              /\ gone' = gone \union {k}
              /\ written' = Unwritten({k})
      /\ received' = <<>>

\* update_if and, for more than one specification, update_batch_if.
UpdateBatchIf(specs) ==
  LET end == WithUpdates(c, specs)
  IN  /\ c' = end
      /\ written' = [n \in Names |->
           LET i == FirstNamed(end.units, n)
           IN  IF i # 0 /\ Payload(end.units[i]) # Get(n)
               THEN [pay |-> Payload(end.units[i]), lazy |-> ~c.parsed]
               ELSE written[n]]
      /\ UNCHANGED <<gone, received>>

\* get(key, as_view) and ensure_index_built
EnsureIndexBuilt ==
  /\ c.raw # NoRaw /\ c.index = NoIndex
  /\ c' = [c EXCEPT !.index = BuildIndex(c.raw)]
  /\ UNCHANGED <<gone, written, received>>

\* deserialize_result(text, parse_only_header), load_packet_result of that
\* content, and deserialize(data, fmt) of the text formats.
DeserializeResult(p, lazy) ==
  /\ ~DeserializeThrows(p, lazy)
  /\ c' = Deserialized(c, p, lazy)
  /\ Refilled(p.data, lazy)

\* The same call when a conversion throws: deserialize_result is noexcept and
\* does not catch, so the exception reaches std::terminate and nothing is
\* left of the container.
DeserializeTerminates(p, lazy) ==
  /\ DeserializeThrows(p, lazy)
  /\ terminated' = TRUE
  /\ c' = NewContainer
  /\ Refilled(NoData, FALSE)

\* deserialize(data, msgpack) of a document received, or of this container's
\* own MessagePack form.  (Integers come back in another width, and a byte
\* array that is itself a document comes back as a container: neither is
\* told apart here.)
DeserializeMsgpack(d) ==
  /\ c' = FromMsgpack(c, d)
  /\ Refilled(NoData, FALSE)

Call ==
  \/ \E p \in Packets, lazy \in BOOLEAN : Construct(p, lazy) \/ DeserializeResult(p, lazy)
  \/ \E lazy \in BOOLEAN : CopyConstruct(lazy) \/ Copy(lazy)
  \/ MoveConstruct
  \/ MoveAssign
  \/ \E id \in Ids : SetSource(id) \/ SetTarget(id)
  \/ \E t \in Types \union {DataContainer} : SetMessageType(t)
  \/ SwapHeader
  \/ ClearValue
  \/ Initialize
  \/ \E us \in Batches : SetAll(us) \/ SetAllResult(us) \/ BulkInsert(us)
  \/ \E ks \in SUBSET Names : RemoveBatch(ks)
  \/ \E k \in Names : RemoveResult(k)
  \/ \E specs \in Updates : UpdateBatchIf(specs)
  \/ EnsureIndexBuilt
  \/ \E d \in MsgDocs \union (IF MsgpackThrows(c) THEN {} ELSE {ToMsgpack(c)}) :
       DeserializeMsgpack(d)

Next ==
  \/ ~terminated /\ Call /\ UNCHANGED terminated
  \/ ~terminated /\ \E p \in Packets, lazy \in BOOLEAN : DeserializeTerminates(p, lazy)
  \/ terminated /\ UNCHANGED vars

Spec == Init /\ [][Next]_vars

-----------------------------------------------------------------------------
(* Properties *)

Section == Seq(TextItem)

\* The container is a well-formed object: an unparsed one holds a data
\* section, and an index exists only beside a raw packet.
TypeOK ==
  /\ c.header \in Header
  /\ c.parsed \in BOOLEAN /\ c.changed \in BOOLEAN /\ c.zero \in BOOLEAN
  /\ c.data \in Section
  /\ c.units \in Seq(UnitSet)
  /\ c.raw = NoRaw \/ IsPacket(c.raw)
  /\ c.index = NoIndex \/ (c.raw # NoRaw /\ c.index \in Section)
  /\ gone \subseteq Names
  /\ received \in Section
  /\ terminated \in BOOLEAN

\* A name that remove_batch or remove_result removed answers no get and
\* appears in no serialised packet until it is stored or received again,
\* although bulk_insert may have given the name several values and the
\* container may have been lazy when it was removed.
RemovedStaysGone ==
  \A k \in gone : ~HasName(c.units, k) /\ ~HasName(SerializeBinary(c).data, k)

\* What set, bulk_insert or update_if stored in a parsed container under a
\* name is what get returns and what the serialised packet says of that name,
\* until the next call that stores, removes or replaces it.
WritesReadBack ==
  \A n \in Names : written[n] # None /\ ~written[n].lazy =>
    LET text == SerializeBinary(c).data
    IN  /\ Get(n) = written[n].pay
        /\ HasName(text, n)
        /\ text[FirstNamed(text, n)] = TextOf(Unit(n, written[n].pay))

\* A container whose values are unparsed, and into which nobody has written,
\* forwards the data section it was given unchanged: header edits, moves,
\* copies and views in between do not touch it.
LazyForwardsReceived == ~c.parsed /\ ~c.changed => SerializeBinary(c).data = received

\* changed_data_: "If true, data_string_ is not updated yet" - so what set,
\* bulk_insert and update_if stored is sent, also by a container whose values
\* are unparsed.
WritesAreSent ==
  \A n \in Names : written[n] # None /\ c.changed => HasName(SerializeBinary(c).data, n)

\* What a value of a kind that the text format has a form for is after it.
TextNormal(p) ==
  [p EXCEPT !.val = IF p.kind = "real" THEN Rounded(@)
                    ELSE IF p.kind = "string" THEN Stripped(@) ELSE @]

\* An eager copy (serialize, then deserialize) of a parsed container keeps
\* the header of a typed message and, name by name, the first value of every
\* word name, exactly for a scalar and up to rounding or leading white space
\* for a real or a string; copying the copy changes nothing more.
CopyNormalises ==
  c.parsed =>
    LET d == CopyConstructed(c, FALSE)
        e == CopyConstructed(d, FALSE)
    IN  /\ e.units = d.units /\ e.header = d.header
        /\ c.header.type # DataContainer => d.header = c.header
        /\ \A n \in WordNames : Get(n) # None =>
             LET i == FirstNamed(d.units, n)
             IN  i # 0 /\ (Get(n).kind \in TextKinds => Payload(d.units[i]) = TextNormal(Get(n)))
=============================================================================
