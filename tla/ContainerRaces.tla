--------------------------- MODULE ContainerRaces ---------------------------
(***************************************************************************)
(* Several threads on one value_container (core/container.cpp) at the same *)
(* time.  Three of its calls are not one critical section:                 *)
(*   - get(key, as_view) and ensure_index_built() hold the mutex only      *)
(*     shared while build_index() clears and refills the mutable index;    *)
(*   - binary_serializer reads each header field with a getter, and so     *)
(*     with a lock, of its own;                                            *)
(*   - swap_header() takes no lock at all.                                 *)
(* The header setters hold the mutex exclusively and touch neither the     *)
(* index nor the packet it is built from, so they are single actions.      *)
(*                                                                         *)
(* The racing accesses of build_index() and of swap_header() are given the *)
(* outcomes of their interleaved reads and writes.  The data section a     *)
(* serializer appends (datas(), which takes no lock) is left out.          *)
(***************************************************************************)
EXTENDS Naturals, Sequences, SequencesExt

CONSTANTS
  Viewers,      \* threads that call get(key, as_view)
  Senders,      \* threads that serialise the container
  Setters,      \* threads that call the header setters and swap_header
  SourceIds,    \* ids and sub ids given to set_source
  TargetIds,    \* ids and sub ids given to set_target
  Types,        \* arguments of set_message_type
  Items,        \* the names in the data section of raw_data_ptr_, in order
  FirstId, FirstType,  \* the header that was received
  Missing,      \* the answer of a view that finds nothing
  MaxWrites     \* bound on the number of header writes

ASSUME MaxWritesBound == MaxWrites \in Nat
ASSUME ItemsAssumption == Items \in Seq(STRING)

VARIABLES
  value_index,  \* value_index_
  index_built,  \* index_built_
  vw,           \* per viewer, its call in progress
  hdr,          \* the header fields
  tx,           \* per sender, the packet it is putting together
  swp,          \* per setter, its swap_header() in progress
  ver,          \* history: the number of writes to each field
  typeVer       \* history: what ver was when the message type was set

racesVars == <<value_index, index_built, vw, hdr, tx, swp, ver, typeVer>>
headerVars == <<hdr, tx, swp, ver, typeVer>>
indexVars == <<value_index, index_built, vw>>

IdFields == {"src", "src_sub", "tgt", "tgt_sub"}
Ids == SourceIds \union TargetIds \union {FirstId}
Names == ToSet(Items)
NotViewing == [phase |-> "idle", key |-> Missing, next |-> 1, answer |-> Missing]
NotSending == [todo |-> <<>>, need |-> [f \in IdFields |-> 0], got |-> [f \in IdFields |-> 0]]
NotSwapping == [phase |-> "idle", fields |-> <<"src", "tgt">>, tmp |-> FirstId]

\* A container constructed lazily from a packet, before its first view.
RacesInit ==
  /\ value_index = <<>>
  /\ index_built = FALSE
  /\ vw = [v \in Viewers |-> NotViewing]
  /\ hdr = [f \in IdFields |-> FirstId] @@ [type |-> FirstType]
  /\ tx = [s \in Senders |-> NotSending]
  /\ swp = [w \in Setters |-> NotSwapping]
  /\ ver = [f \in IdFields |-> 0]
  /\ typeVer = ver

-----------------------------------------------------------------------------
(* get(key, as_view) *)

\* The shared lock is taken and index_built_ tested.
ViewBegin(v, k) ==
  /\ vw[v].phase = "idle"
  /\ vw' = [vw EXCEPT ![v] = [NotViewing EXCEPT !.key = k,
                              !.phase = IF index_built THEN "search" ELSE "clear"]]
  /\ UNCHANGED <<value_index, index_built, headerVars>>

\* build_index() starts with an empty vector, unless the index has been
\* finished since the test.
IndexClear(v) ==
  /\ vw[v].phase = "clear"
  /\ value_index' = IF index_built THEN value_index ELSE <<>>
  /\ vw' = [vw EXCEPT ![v].phase = IF index_built THEN "search" ELSE "fill"]
  /\ UNCHANGED <<index_built, headerVars>>

\* value_index_->push_back(entry)
IndexPush(v) ==
  /\ vw[v].phase = "fill" /\ vw[v].next <= Len(Items)
  /\ value_index' = Append(value_index, Items[vw[v].next])
  /\ vw' = [vw EXCEPT ![v].next = @ + 1]
  /\ UNCHANGED <<index_built, headerVars>>

IndexBuilt(v) ==
  /\ vw[v].phase = "fill" /\ vw[v].next > Len(Items)
  /\ index_built' = TRUE
  /\ vw' = [vw EXCEPT ![v].phase = "search"]
  /\ UNCHANGED <<value_index, headerVars>>

\* The index is searched for the key and the lock released.
ViewSearch(v) ==
  /\ vw[v].phase = "search"
  /\ vw' = [vw EXCEPT ![v].phase = "answered",
                      ![v].answer = IF vw[v].key \in ToSet(value_index) THEN vw[v].key ELSE Missing]
  /\ UNCHANGED <<value_index, index_built, headerVars>>

ViewReturn(v) ==
  /\ vw[v].phase = "answered"
  /\ vw' = [vw EXCEPT ![v] = NotViewing]
  /\ UNCHANGED <<value_index, index_built, headerVars>>

-----------------------------------------------------------------------------
(* The header *)

Writes == ver["src"] + ver["tgt"]
Written(fs) == ver' = [f \in IdFields |-> IF f \in fs THEN ver[f] + 1 ELSE ver[f]]

SetSource(id, sub) ==
  /\ Writes < MaxWrites
  /\ hdr' = [hdr EXCEPT !.src = id, !.src_sub = sub]
  /\ Written({"src", "src_sub"})
  /\ UNCHANGED <<indexVars, tx, swp, typeVer>>

SetTarget(id, sub) ==
  /\ Writes < MaxWrites
  /\ hdr' = [hdr EXCEPT !.tgt = id, !.tgt_sub = sub]
  /\ Written({"tgt", "tgt_sub"})
  /\ UNCHANGED <<indexVars, tx, swp, typeVer>>

SetMessageType(t) ==
  /\ hdr' = [hdr EXCEPT !.type = t]
  /\ typeVer' = ver
  /\ UNCHANGED <<indexVars, tx, swp, ver>>

\* swap_header(): std::swap of the ids, then of the sub ids.  Each reads the
\* source field, overwrites it with the target field, and the target field
\* with what it read.
SwapRead(w) ==
  /\ \/ swp[w].phase = "idle" /\ Writes + 2 <= MaxWrites
     \/ swp[w].phase = "sub"
  /\ swp' = [swp EXCEPT ![w].phase = "source", ![w].tmp = hdr[swp[w].fields[1]]]
  /\ UNCHANGED <<indexVars, hdr, tx, ver, typeVer>>

SwapSource(w) ==
  /\ swp[w].phase = "source"
  /\ hdr' = [hdr EXCEPT ![swp[w].fields[1]] = hdr[swp[w].fields[2]]]
  /\ Written({swp[w].fields[1]})
  /\ swp' = [swp EXCEPT ![w].phase = "target"]
  /\ UNCHANGED <<indexVars, tx, typeVer>>

SwapTarget(w) ==
  /\ swp[w].phase = "target"
  /\ hdr' = [hdr EXCEPT ![swp[w].fields[2]] = swp[w].tmp]
  /\ Written({swp[w].fields[2]})
  /\ swp' = [swp EXCEPT ![w] =
       IF swp[w].fields = NotSwapping.fields
       THEN [NotSwapping EXCEPT !.phase = "sub", !.fields = <<"src_sub", "tgt_sub">>]
       ELSE NotSwapping]
  /\ UNCHANGED <<indexVars, tx, typeVer>>

-----------------------------------------------------------------------------
(* binary_serializer::serialize *)

\* Mutant: the message type is read after the ids.
SendOrderTypeLast == <<"tgt", "tgt_sub", "src", "src_sub", "type">>

\* The order of the getter calls.
SendOrder == <<"type", "tgt", "tgt_sub", "src", "src_sub">>

SendBegin(s) ==
  /\ tx[s].todo = <<>>
  /\ tx' = [tx EXCEPT ![s] = [NotSending EXCEPT !.todo = SendOrder]]
  /\ UNCHANGED <<indexVars, hdr, swp, ver, typeVer>>

\* One getter call, under its own shared lock.
SendRead(s) ==
  /\ tx[s].todo # <<>>
  /\ LET f == Head(tx[s].todo)
     IN  tx' = [tx EXCEPT ![s].todo = Tail(@),
                          ![s].need = IF f = "type" THEN typeVer ELSE @,
                          ![s].got = IF f = "type" THEN @ ELSE [@ EXCEPT ![f] = ver[f]]]
  /\ UNCHANGED <<indexVars, hdr, swp, ver, typeVer>>

-----------------------------------------------------------------------------

View(v) ==
  \/ \E k \in Names : ViewBegin(v, k)
  \/ IndexClear(v) \/ IndexPush(v) \/ IndexBuilt(v) \/ ViewSearch(v) \/ ViewReturn(v)

ViewNext == \E v \in Viewers : View(v)

HeaderNext ==
  \/ \E id, sub \in SourceIds : SetSource(id, sub)
  \/ \E id, sub \in TargetIds : SetTarget(id, sub)
  \/ \E t \in Types : SetMessageType(t)
  \/ \E w \in Setters : SwapRead(w) \/ SwapSource(w) \/ SwapTarget(w)
  \/ \E s \in Senders : SendBegin(s) \/ SendRead(s)

RacesNext == ViewNext \/ HeaderNext

RacesSpec == RacesInit /\ [][RacesNext]_racesVars

-----------------------------------------------------------------------------
(* Properties *)

\* A packet that carries a message type carries ids no older than the ones
\* that were set when that type was, although every field is read under a
\* lock of its own: the serializer reads the type first.
TypedCarriesIds ==
  \A s \in Senders : tx[s].todo = <<>> => \A f \in IdFields : tx[s].got[f] >= tx[s].need[f]

\* docs/FEATURES.md: "Concurrent read access - multiple threads can safely
\* read simultaneously".  Refuted: two first views fill one index together.
IndexComplete == index_built => value_index = Items
=============================================================================
