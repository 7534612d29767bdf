------------------------------ MODULE Messaging ------------------------------
(***************************************************************************)
(* messaging_integration and messaging_container_builder (integration/),   *)
(* built with metrics and external integration: containers are made and    *)
(* serialised while callbacks, registered by any thread, are run on them   *)
(* under one mutex.  A container is its header and its values, each a name *)
(* with a type and data; a text is the container it is read back as.       *)
(***************************************************************************)
EXTENDS Integers, Sequences, SequencesExt, FiniteSets

CONSTANTS
  Callers,       \* threads
  Callbacks,     \* what may be registered: each leaves its mark on a container ...
  Throwing,      \* ... but these throw instead
  Labels,        \* ids, message types and names
  Inputs,        \* what a builder is given: [type, data]
  INT32_MAX,
  INT64_MAX,
  MaxMessaging   \* calls in a behaviour

VARIABLES
  callbacks,  \* creation_callbacks_ and serialization_callbacks_
  holder,     \* the thread that holds callback_mutex_, if any
  caller,     \* per thread: the call it is in
  counters,   \* metrics_
  objects,    \* the containers so far
  builder,    \* container_, and what has been asked of it since the last build
  built,      \* what build returned, and what had been asked
  used,       \* calls so far
  asked,      \* history: registrations since the last unregister_callbacks, and how many of those there were
  served,     \* history: calls whose callbacks ran to the end
  forgotten   \* history: containers that a reset of the metrics forgot

messagingVars == <<callbacks, holder, caller, counters, objects, builder, built, used, asked, served, forgotten>>

ASSUME MessagingAssumption == Throwing \subseteq Callbacks /\ Callbacks \cap Labels = {} /\ {INT32_MAX, INT64_MAX} \subseteq Nat

Seen == <<"string", "seen">>
Kinds == {"creation", "serialization"}
NewContainer == [source |-> "", target |-> "", type |-> "data_container", values |-> <<>>]
NotCalling == [at |-> "idle", kind |-> "creation", object |-> 0, text |-> NewContainer, ran |-> <<>>,
               before |-> <<>>, since |-> 0]

MessagingInit ==
  /\ callbacks = [k \in Kinds |-> <<>>]
  /\ holder = {} /\ caller = [t \in Callers |-> NotCalling]
  /\ counters = [created |-> 0, serialized |-> 0, deserialized |-> 0]
  /\ objects = <<NewContainer>>
  /\ builder = [object |-> 1, wants |-> NewContainer] /\ built = {}
  /\ used = 0
  /\ asked = [lists |-> callbacks, since |-> 0] /\ served = {} /\ forgotten = 0

Use == used < MaxMessaging /\ used' = used + 1
Outside(t) == caller[t].at = "idle"

\* value_container::set: a value of the name is replaced where it is.
Assigned(values, name, x) ==
  LET i == SelectInSeq(values, LAMBDA v : v[1] = name)
  IN  IF i = 0 THEN Append(values, <<name, x>>) ELSE [values EXCEPT ![i] = <<name, x>>]

\* binary_serializer and datas(): ids are not written for a data_container,
\* and to_string gives nothing for bytes.
TextOf(c) ==
  LET Routed(id) == IF c.type = NewContainer.type THEN "" ELSE id
  IN  [c EXCEPT !.source = Routed(@), !.target = Routed(@),
                !.values = [i \in DOMAIN @ |-> IF @[i][2][1] = "bytes" THEN <<@[i][1], <<"bytes", "">>>> ELSE @[i]]]

-----------------------------------------------------------------------------
(* messaging_integration *)

Enter(t, kind, object) ==
  caller' = [caller EXCEPT ![t] = [NotCalling EXCEPT !.at = "locking", !.kind = kind, !.object = object,
                                                    !.text = TextOf(objects'[object]), !.before = asked.lists[kind], !.since = asked.since]]

CreateOptimizedContainer(t, type) ==
  /\ Outside(t) /\ Use
  /\ objects' = Append(objects, [NewContainer EXCEPT !.type = type])
  /\ counters' = [counters EXCEPT !.created = @ + 1]
  /\ Enter(t, "creation", Len(objects'))
  /\ UNCHANGED <<callbacks, holder, builder, built, asked, served, forgotten>>

\* The containers and the texts that were returned
Known == {e.object : e \in {s \in served : s.kind = "creation"}} \cup {b.object : b \in built}
Texts == {e.text : e \in {s \in served : s.kind = "serialization"}}

\* The text is taken before the callbacks run; it is lost when one throws.
SerializeForMessaging(t, o) ==
  /\ Outside(t) /\ Use
  /\ counters' = [counters EXCEPT !.serialized = @ + 1]
  /\ UNCHANGED objects /\ Enter(t, "serialization", o)
  /\ UNCHANGED <<callbacks, holder, builder, built, asked, served, forgotten>>

DeserializeFromMessaging(t, text) ==
  /\ Outside(t) /\ Use
  /\ objects' = Append(objects, text)
  /\ counters' = [counters EXCEPT !.deserialized = @ + 1]
  /\ UNCHANGED <<callbacks, holder, caller, builder, built, asked, served, forgotten>>

\* lock_guard lock(callback_mutex_)
LockCallbacks(t) ==
  /\ caller[t].at = "locking" /\ holder = {}
  /\ holder' = {t} /\ caller' = [caller EXCEPT ![t].at = "calling"]
  /\ UNCHANGED <<callbacks, counters, objects, builder, built, used, asked, served, forgotten>>

\* The next callback; an exception leaves the call, and the lock.
RunCallback(t) ==
  LET list == callbacks[caller[t].kind]
      cb == list[Len(caller[t].ran) + 1]
  IN  /\ caller[t].at = "calling" /\ Len(caller[t].ran) < Len(list)
      /\ IF cb \in Throwing
         THEN caller' = [caller EXCEPT ![t] = NotCalling] /\ holder' = {} /\ UNCHANGED objects
         ELSE /\ caller' = [caller EXCEPT ![t].ran = Append(@, cb)]
              /\ objects' = [objects EXCEPT ![caller[t].object].values = Assigned(@, cb, Seen)]
              /\ UNCHANGED holder
      /\ UNCHANGED <<callbacks, counters, builder, built, used, asked, served, forgotten>>

CallbacksDone(t) ==
  /\ caller[t].at = "calling" /\ Len(caller[t].ran) = Len(callbacks[caller[t].kind])
  /\ served' = served \cup {[caller[t] EXCEPT !.at = "served"]}
  /\ holder' = {} /\ caller' = [caller EXCEPT ![t] = NotCalling]
  /\ UNCHANGED <<callbacks, counters, objects, builder, built, used, asked, forgotten>>

\* push_back on one of the two vectors
Added(lists, k, cb) == [lists EXCEPT ![k] = Append(@, cb)]

Registered(t, kind, list, cb) ==
  /\ Outside(t) /\ holder = {} /\ Use
  /\ callbacks' = Added(callbacks, list, cb)
  /\ asked' = [asked EXCEPT !.lists = Added(@, kind, cb)]
  /\ UNCHANGED <<holder, caller, counters, objects, builder, built, served, forgotten>>

RegisterCreationCallback(t, cb) == Registered(t, "creation", "creation", cb)

\* Mutant: the callback lands in the other list.
RegisterSerializationAsCreation(t, cb) == Registered(t, "serialization", "creation", cb)

RegisterSerializationCallback(t, cb) == Registered(t, "serialization", "serialization", cb)

UnregisterCallbacks(t) ==
  /\ Outside(t) /\ holder = {} /\ Use
  /\ callbacks' = [k \in Kinds |-> <<>>]
  /\ asked' = [lists |-> callbacks', since |-> asked.since + 1]
  /\ UNCHANGED <<holder, caller, counters, objects, builder, built, served, forgotten>>

ResetMetrics(t) ==
  /\ Outside(t) /\ Use
  /\ counters' = [f \in DOMAIN counters |-> 0]
  /\ forgotten' = forgotten + counters.created + counters.deserialized
  /\ UNCHANGED <<callbacks, holder, caller, objects, builder, built, asked, served>>

-----------------------------------------------------------------------------
(* messaging_container_builder, which one thread uses *)

\* An unsigned number beyond the largest signed one becomes negative.
Wrapped(n, max) == IF n > max THEN n - 2 * (max + 1) ELSE n

\* set: integers of up to four bytes become int32_t, longer ones int64_t, a
\* nested container the bytes of its text.
Converted(input) ==
  CASE input.type = "integer" -> <<"int32_t", Wrapped(input.data, INT32_MAX)>>
    [] input.type = "long" -> <<"int64_t", Wrapped(input.data, INT64_MAX)>>
    [] input.type = "container" -> <<"bytes", input.data>>
    [] OTHER -> <<input.type, input.data>>

\* A call on container_, and the same said of what is wanted
OnBuilder(Change(_)) ==
  /\ Use
  /\ objects' = [objects EXCEPT ![builder.object] = Change(objects[builder.object])]
  /\ builder' = [builder EXCEPT !.wants = Change(builder.wants)]
  /\ UNCHANGED <<callbacks, holder, caller, counters, built, asked, served, forgotten>>

Source(id) == OnBuilder(LAMBDA c : [c EXCEPT !.source = id])
Target(id) == OnBuilder(LAMBDA c : [c EXCEPT !.target = id])
TypeOf(id) == OnBuilder(LAMBDA c : [c EXCEPT !.type = id])
SetValueOf(name, input) == OnBuilder(LAMBDA c : [c EXCEPT !.values = Assigned(c.values, name, Converted(input))])

\* set of a container that cannot be serialised sets nothing and says nothing.
SetFails(input) ==
  /\ input.type = "container" /\ Use
  /\ UNCHANGED <<callbacks, holder, caller, counters, objects, builder, built, asked, served, forgotten>>

\* build: the builder goes on with a container of its own.
Build ==
  /\ Use
  /\ built' = built \cup {builder}
  /\ objects' = Append(objects, NewContainer)
  /\ builder' = [object |-> Len(objects'), wants |-> NewContainer]
  /\ UNCHANGED <<callbacks, holder, caller, counters, asked, served, forgotten>>

-----------------------------------------------------------------------------

MessagingNext ==
  \/ \E t \in Callers :
       \/ \E type \in Labels : CreateOptimizedContainer(t, type)
       \/ \E o \in Known : SerializeForMessaging(t, o)
       \/ \E text \in Texts : DeserializeFromMessaging(t, text)
       \/ LockCallbacks(t) \/ RunCallback(t) \/ CallbacksDone(t)
       \/ \E cb \in Callbacks : RegisterCreationCallback(t, cb) \/ RegisterSerializationCallback(t, cb)
       \/ UnregisterCallbacks(t) \/ ResetMetrics(t)
  \/ \E id \in Labels : Source(id) \/ Target(id) \/ TypeOf(id) \/ \E input \in Inputs : SetValueOf(id, input)
  \/ \E input \in Inputs : SetFails(input)
  \/ Build

MessagingSpec == MessagingInit /\ [][MessagingNext]_messagingVars

-----------------------------------------------------------------------------
(* Properties *)

\* Callbacks run one at a time, whatever throws.  A call that ran them to the
\* end ran, in the order of registration, all that were registered for its
\* kind when it began and none that was registered for the other (unless they
\* were unregistered meanwhile), and a container that came of it bears their
\* marks.  Every container was counted, also when its callbacks threw
\* (create_optimized_container, serialize_for_messaging).  A container that
\* build returned is what the calls since the build before it asked for, and
\* stays so while the builder goes on and other threads serialise it: only
\* callbacks add to it, and only behind what was asked for.
CallbacksServed ==
  /\ Cardinality({t \in Callers : caller[t].at = "calling"}) <= 1
  /\ \A e \in served :
       /\ e.since = asked.since => IsPrefix(e.before, e.ran) /\ IsPrefix(e.ran, asked.lists[e.kind])
       /\ \A i \in DOMAIN e.ran : <<e.ran[i], Seen>> \in ToSet(objects[e.object].values)
  /\ Len(objects) = 1 + Cardinality(built) + counters.created + counters.deserialized + forgotten
  /\ \A b \in built :
       LET c == objects[b.object]
           n == Len(b.wants.values)
       IN  /\ [c EXCEPT !.values = b.wants.values] = b.wants
           /\ IsPrefix(b.wants.values, c.values)
           /\ \A i \in (n + 1)..Len(c.values) : c.values[i][1] \in Callbacks
=============================================================================
