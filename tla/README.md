# TLA+ models of container_system

`container_system` is a C++ library for messages: a `value_container` carries a
header and a vector of named, typed values, turns itself into text, JSON, XML
or MessagePack and back, and comes with a thread-safe map, lock-free readers,
memory pools and epoch-based reclamation to share and store such values
quickly. This directory holds TLA+ models of the parts of it that keep state,
TLC configurations that check them on small instances, and TLAPS proofs of the
properties that matter most for every value of the constants.

## 1. Inventory

| component | state | operations | what makes it correct |
|---|---|---|---|
| `value_container` (`core/container.cpp`) | header fields; `optimized_units_`; the unparsed text `data_string_` with `parsed_data_`, `changed_data_`; the raw packet with its view index | construct, copy, move, `set*`, `bulk_insert`, `remove*`, `update*_if`, `deserialize*`, header setters, `swap_header`, views | the parsed and the unparsed form of the values never disagree; what was removed stays gone; what was written is read back and sent |
| `binary_serializer` (`core/serializers/`) | none; reads the container field by field | `serialize`, `serialize_to_string` | a packet is not torn by concurrent header updates |
| `fixed_block_pool` (`internal/memory_pool.h`) | chunks, intrusive free list, counter | `allocate`, `deallocate`, `get_statistics` | no block handed out twice or lost, whatever callers write into their blocks |
| `pool_allocator` (`internal/pool_allocator.h`) | two pools per thread, heap fallback | `allocate`, `deallocate` from any thread, thread exit | no pool's free list ever gets memory that is not its own |
| `epoch_manager`, `epoch_guard` (`internal/epoch_manager.h`) | global epoch, three retire lists, a pinned epoch per thread | `enter_critical`, `exit_critical`, `defer_delete`, `try_gc`, `force_gc` | every retired object is deleted once, and not while a reader uses it |
| `thread_safe_container` (`internal/thread_safe_container.*`) | a map under a `shared_mutex` | `set`, `remove`, `clear`, assignment, `compare_exchange`, `operator[]`, `bulk_update` | updates are atomic to readers |
| `lockfree_container_reader`, `auto_refresh_reader` | the published snapshot, a background thread | `refresh`, reads, `stop` | a snapshot is a state the map was in; once all calls of `stop` are through there are no more refreshes, and each of them returns |
| `value`, `value_store` (`internal/value.cpp`, `core/value_store.cpp`) | typed values, containers and arrays of them; a map of values | encode, decode, `add`, `remove`, `clear` | what is encoded comes back; truncated input is refused; forwarding changes nothing more |
| MessagePack (`msgpack.h`, `msgpack_serializer.cpp`, `from_msgpack_impl`) | none | encode, decode, detect the format | the same, with every number, text and count in the right size class |
| `container_schema` | field constraints, the errors of the last validation | chained calls, `validate`, `validate_all`, deserialisation with a schema | exactly the demands of the calls that a document does not meet are reported |
| `policy_container`, storage policies (`policy_container.h`, `storage_policy.h`) | a vector, or a vector and a hash index into it | `set`, batches, `get`, `remove`, `clear_value`, copy, move, `data`, `rebuild_index` | the index matches the vector; all policies are one and the same map |
| `rcu_value` | published pointer, update count | `read`, `update`, `compare_and_update`, assignment | a successful exchange replaces the version that was read |
| coroutine tasks, generators, executors (`internal/async/`) | promise, continuation, state shared with the worker, the executor context | `co_await`, `get`, resume, destroy, executor guards | each coroutine is resumed by one thread, never before its result, never after its end |
| `async_container`, packet files | container, file, position and progress of each operation | `serialize_async`, `save_async`, `load_async`, `serialize_chunked`, ..., `save_packet_result`, `load_packet_result` | a save that succeeded is read back whole; every call completes |
| metrics (`metrics.h`) | atomics: counters, sums, extremes, a reservoir of samples | measure, reset, switch, copy, percentiles | totals are exact when nothing is under way; percentiles are of recorded samples |
| SIMD (`simd_processor.*`, `simd_policies.h`) | none | sums, minima, maxima, search, per build | every build and every length gives the same answer |
| gRPC (`grpc/`) | server, processor, counters; a call and its handler | start, stop, `set_processor`, six calls | answers are those of one processor each and lose only what is listed; stop returns |
| `messaging_integration`, its builder | callbacks under a mutex, counters, the container being built | create, serialise, deserialise, register, reset, build | callbacks run completely and in order; the builder never touches what it gave away |
| `message_container` | header and payload | constructors, setters, `swap_header`, two wire formats | a reply reaches the source of its request |
| JSON/XML output, `variant_value_factory`, concepts, error tables, utilities, module interface | none | | not modelled, see section 6 |

How they interact. Serializers and the copy operations call the container's
public getters, each of which takes the container's `shared_mutex` for itself.
A lock-free reader calls `for_each` of the thread-safe container, which holds
that container's lock shared for the whole iteration. `pool_allocator` owns two
`fixed_block_pool`s per thread and falls back to the heap. `epoch_manager` is
used by code that unlinks objects from a structure that readers traverse.
`async_container` runs the container's serialisers in detached threads or
executor jobs. The gRPC service converts messages to containers, hands them to
a processor under a mutex and converts the result back. Containers count their
operations in the global metrics.

What is hard here: two copies of the same values in one container, of which a
flag picks the one that counts; conversions that throw in the middle of a
loop; const methods that fill caches under a shared lock; a free list inside
memory that callers write to; memory that comes back on another thread; an
epoch that is read before the lock it is needed under; snapshots that are
copied element by element and published later; a background thread that has to
be woken and joined; coroutines that two threads can run; statistics that are
a dozen independent atomics; files that several operations and a crash share;
a server that stops while handlers run; decoders of bytes nobody vouches for.

## 2. Modules

| module | models | extends / uses |
|---|---|---|
| `ValueContainer` | `value_container`, one caller, every sequence of calls | |
| `ValueContainerProofs` | proofs | `ValueContainer`, `Simd`, TLAPS |
| `ContainerRaces` | `value_container`, several threads: views, header access, serialisation | |
| `BlockPool` | what a pool promises: free and held blocks | |
| `FixedBlockPool` | `fixed_block_pool` down to its links | instance of `BlockPool` |
| `PoolAllocator` | `pool_allocator` over abstract pools, several threads | |
| `PoolsProofs` | proofs | `FixedBlockPool`, `PoolAllocator`, TLAPS |
| `EpochManager` | `epoch_manager`, `epoch_guard` | |
| `ThreadSafeContainer` | the writers' side of `thread_safe_container` | |
| `LockFreeReader` | both readers over the container | `ThreadSafeContainer` |
| `LockFreeReaderProofs` | proofs | `LockFreeReader`, TLAPS |
| `PolicyContainer` | `basic_value_container` over its three storage policies | |
| `PolicyContainerProofs` | proofs | `PolicyContainer`, TLAPS |
| `ValueTypes` | the type tags and what a value is | |
| `ValueCodec` | the binary encodings of `value`, nested containers, `value_store`; sender, wire and receiver of every encoding | `MsgPack` |
| `MsgPack` | the MessagePack encoding of a container | `ValueTypes` |
| `Schema` | `container_schema` | |
| `Simd` | the reductions, build by build | |
| `AsyncTask` | tasks, awaitables, executors | |
| `AsyncContainer` | asynchronous operations, generators, the file | `AsyncTask` |
| `AsyncContainerProofs` | proofs | `AsyncContainer`, TLAPS |
| `Metrics` | one operation's metrics, atomic by atomic | |
| `MetricsProofs` | proofs | `Metrics`, TLAPS |
| `RcuValue` | `rcu_value` | |
| `SharedProofs` | proofs | `EpochManager`, `ContainerRaces`, `RcuValue`, `Messaging`, `MessageContainer`, TLAPS |
| `GrpcAdapter` | containers to messages and back | |
| `GrpcService` | server, service and client, for any adapter (`MCGrpcService` puts in `GrpcAdapter`) | |
| `GrpcServiceProofs` | proofs | `GrpcService`, TLAPS |
| `Messaging` | `messaging_integration`, `messaging_container_builder` | |
| `MessageContainer` | `message_container`, request and reply | |
| `MC*` | the small instances TLC checks | |

### ValueContainer

The variable `c` is the container: `header`, `units` (`optimized_units_`),
`parsed`, `changed`, `data` (`data_string_`, as the sequence of its items),
`raw`/`zero`/`index` (`raw_data_ptr_`, `zero_copy_mode_`, `value_index_`).
Every public operation that changes state is an action, with its whole effect:
`RemoveBatch` for instance parses a lazily held section first, as the code
does, and stops half way when that parse throws. Copies, moves and
constructions replace `c` by the new object. `gone`, `written` and `received`
are history variables the properties speak about; `terminated` says that an
exception has left a `noexcept` function.

A value is a kind and a payload. Kinds are what the text format tells apart:
integers, which survive it; reals, which `std::to_string` writes with six
decimals (`Rounded`); strings, whose leading white space the item pattern skips
(`Stripped`); a string that holds the item delimiter and comes back shortened
("unsafe"); kinds written as an empty text, and received text that `std::sto*`
refuses ("bad"). Of rounding and stripping the module assumes that doing it
twice is doing it once. Names are word names, which the item pattern
`\w+` matches, other names, which it skips, and the empty name.

### ContainerRaces

`get(key, as_view)` tests `index_built_` and runs `build_index` under a shared
lock: testing, clearing, each push and setting the flag are separate actions.
`binary_serializer` makes one getter call per header field, each with its own
lock: one `SendRead` per field. `swap_header` takes no lock: the three accesses
of each of its two `std::swap`s are separate actions. Setters are atomic.

### FixedBlockPool and BlockPool

`link` is the first word of every block, `free_list` the head pointer; holders
may overwrite the word of a block they hold with anything (`Store`). `chain` is
a history variable, the list as a sequence. Each call is one critical section
of the code and one action. `BlockPool` is the abstract pool (a set of free and
a set of held blocks); `FixedBlockPool` implements it with
`free <- Range(chain)`.

### PoolAllocator

Each thread has a free list for small and one for medium objects. An
allocation takes a block of the calling thread's pool, grows the pool, or falls
back to the heap when the pool throws or the size is large. A deallocation on
any thread goes to that thread's pool, which ignores addresses that are not
its own. The pools are those of `BlockPool`: free sets, not links.

### EpochManager

Each atomic access and each critical section of a `retire_mutex_` is an action,
so that the gap between loading the epoch and locking the list is explicit in
`defer_delete` and `try_gc`. Readers and writers follow the usage example of
the header file. `force_gc` runs under its documented precondition that no
reader is active.

### ThreadSafeContainer and LockFreeReader

`values` is the map and `past` the history of its committed contents. Updates
under the exclusive lock are single actions, except `bulk_update`, which holds
the lock over several steps. `operator[]` leaves a reference with its caller,
who may write through it later without the lock (`RefWrite`, for the threads in
`RefWriters`); `lastRef` remembers the newest contents made that way, so that a
copy that met one is known as `mixed`. `refresh` takes the shared lock, copies key by key, unlocks,
stores the pointer and returns, each an action. `bg` is the place of the
background loop, `stop` the progress of each caller of `stop()`.

### PolicyContainer

`policy` is the template argument, chosen in the initial state. A call takes
the lock (`Begin`) and does its work element by element (`SetStep`,
`RemoveStep`), so that a failing allocation can end it in the middle: before
the key is in the index (`CopyFails`) or between the index and the vector
(`AllocFails`). `map` is a history variable: the map the container stands for.
`stale` marks containers whose index no longer describes their vector, after
such a failure or after a caller rearranged the vector through `data()`; their
owner may only clear them, assign to them or call `rebuild_index`.

### ValueCodec

`Serialize`, `Deserialize` and the operators under them are the code's
functions on sequences of cells: a length, a type byte, a number and a
character take one cell each, since no check of the code distinguishes the
bytes within one. The state machine around them is a sender, a wire and a
receiver that forwards: a value, a store or a MessagePack packet is encoded,
loses its end or not, is decoded, and encoded again. Bytes may also come from
elsewhere, and values may be constructed from raw data. The module uses
`RECURSIVE` operators and is for TLC alone, as are `MsgPack`, `Schema` and
`GrpcAdapter`; `GrpcService` takes its conversions as constants for that reason.

### MsgPack

The encoding is byte by byte. Format bytes are the real ones; the limits
between size classes are constants, and a byte of a number or a length is a
digit in base `Base` (8 instead of 256), so that eight-byte numbers stay within
TLC's integers. Each `Write*` and `Read*` is a function of the encoder or
decoder; a decoder's position is an argument, its failure a result.
`FromMsgpack` follows `from_msgpack_impl`: sections, header keys, values,
arrays, and the guess that bytes which begin like a map are a container.

### Schema

`fields` is `fields_`, in the order of the calls. Each chained call is an
operator on it, each `validate_*` an operator on a field and a value; regular
expressions and validators are constants, and which patterns do not compile. A behaviour adds calls and validates
documents, directly or by `deserialize_result` with a schema, lazily or not.
`SchemaVerdict` does not look at `fields`: it reads the demands off the calls.

### Simd

Floats are small integers, two infinities and NaN. Each policy is a loop over
whole vectors of 4, 8 or 16 lanes, a loop over the lanes and a loop over the
tail; what an instruction does with NaN is the one difference between the
architectures that the model keeps. Sums are not rounded, and the inputs are
such that none overflows (`SimdAssumption`). `ReductionsExact` knows nothing of
vectors: it counts the ones that the values of a type consist of.

### AsyncTask and AsyncContainer

Every task has an owner and at most one worker, with a program counter each,
since both can run the coroutine's body: `frame` is the promise, `state` what
the awaitable shares with the worker. The worker's steps are those of the
lambda in `await_suspend` (work, store, publish `ready_`, resume) and of
`final_awaiter`. `misuse` records undefined behaviour, after which the model
says nothing more; `Pending` allows owners to `co_await` a task that is still
busy, which the finding is about. `AsyncContainer` gives the work: writers and
readers move through one file chunk by chunk, each with its own position, and
streams may fail, callbacks throw, and the process crash. The program at hand
calls the operations of one element of `Mixes`, in one of two builds (with
`Result` and without, where `serialize_async` and `read_file_async` answer a
failure with an empty vector: `Failed`). A container that cannot be serialised
ends a save before the file is opened (`SerializeFails`) and a stream before
its first chunk (`BeginFails`).

### Metrics

Each access to an atomic is a step, the compare-exchange loops for maximum and
minimum included. All accesses are relaxed; the two stores that put a sample
into the reservoir may be seen in either order. `reset` clears field by field.
`truth` is the history of samples; `blurred` and `overlapped` mark the cases of
which nothing can be said: a reset or switch during an operation, and two
recorders that fill the reservoir at once.

### RcuValue

Versions live at addresses, which `make_shared` uses again when nobody owns
them: that is what makes an exchange by address delicate. Loading, allocating,
storing or exchanging, and counting are separate steps.

### GrpcAdapter and GrpcService

A container is a header, its values, and the values that are still in its text
when it was deserialised lazily; `to_grpc` iterates over the former and never
parses the latter. A value may hold a null pointer or an empty variant: the
first sets no field, the second makes `std::get` throw. A message has one field
per value, set to one type at most, and a type tag beside it. A client's call, the library's deadline and the handler in the
server are separate actors; a handler outlives a call that was cut off, and
holds the processor's mutex while the processor runs. The gRPC library is
external and modelled as the code relies on it. `stop` with a deadline is the
states "closing" and "cutting" of `server`, `stop(0)` the state "draining".
The conversions of the adapter
(`to_grpc`, `from_grpc`) are constants of `GrpcService`; the instance that is
checked gives them the operators of `GrpcAdapter`. What the answers rest on is
an assumption of the module, `CallsAssumption`: the containers of a call are
ones to which the adapter and the processors are `Transparent` (a container is
refused for its depth or an empty variant only, the way back loses no more than the way there, and
a processor does not look at what is lost). TLC evaluates it, with the
conversions of `GrpcAdapter`, for the containers of the instance.

### Messaging and MessageContainer

Callbacks run one per step with the mutex held; one that throws ends the call.
The builder's container is an object that others may hold after `build`.
`MessageContainer` is a request and its reply: each is encoded in either
format, loses its end or not, and is decoded by a build with or without the
JSON library. What stands between the quotes of a header that is not escaped
is read by the JSON library as it is: the constant `Reads` says for each
identifier what comes out, nothing at all, another text, or fields of its own.

## 3. What the runs check

Bounds are named constants. They are chosen so that the interesting cases
happen: two values of one name, two chunks, two objects and enough epochs for
the buckets to wrap around, two refreshes that overlap.

| run | instance | shows |
|---|---|---|
| `values` | a word name, another name and the empty one, 2 payloads of which one is rounded or stripped, 3 packets, at most 2 values held | `RemovedStaysGone`, `WritesReadBack`, `LazyForwardsReceived`, `CopyNormalises` over every sequence of calls |
| `shared` | header: 3 writes, 1 sender, a swapping thread; metrics: 2 recorders, 4 operations, a reservoir of 2, one reset or switch; rcu: 2 objects, 2 threads, 3 addresses, 3 calls; epochs: 1 reader, 2 writers, 2 collectors, 2 objects, 5 epochs; messaging: 2 threads, a callback that marks and one that throws, 5 calls; message: 3 ids, one with a quote and one with two and a field between them | `TypedCarriesIds`, `TotalsExact`, `PercentilesHonest`, `SwapsHonest`, `DeletedExactlyOnce`, `CallbacksServed`, `ReplyReaches` |
| `storage` | pool: 2 chunks of 2 blocks, any word may be stored; allocators: 2 threads on 4 addresses; policies: 2 containers, 3 keys, 2 payloads of which the static policy refuses one, calls on up to 2 keys | `ListIntact`, `NoAliasing`, `StatisticsAgree`, `OwnBlocksOnly`, refinement of `BlockPool`; `IndexSound`, `AnswersLikeMap`, `OrderKept` for each policy |
| `refreshes` | 2 keys, a writer with references, a manual refresher and the background thread, 2 stoppers, 3 contents | `SnapshotConsistent`, `LoneRefreshHolds`, `LastStopJoins`, `StopReturns`, `EventuallyFresh` |
| `codec` | 23 values with two levels of nesting, stores of up to 2 of them, some 120 packets around every limit of a size class, byte sequences that nobody encoded, 2 forwards; 4 families of schemas of up to 3 calls on documents nested up to 2 deep; vectors of up to 19 floats with two that stand out | `Lossless`, `TruncationDetected`, `ForwardStable`, `ReencodeFits`, `SchemaVerdict`, `ReductionsExact` |
| `async` | 2 tasks, 7 mixes of operations, encodings of 1 and 3 cells in chunks of 2, one crash, one change, one guard, both builds | `NoMisuse`, `FileRoundTrip`, `ProgressExact`, `StreamFaithful`, `EveryCallCompletes` |
| `grpc` | 2 clients, 2 calls, 2 processors, 2 starts or changes; containers with a null pointer, an empty variant, a lazy container inside, an array, a name twice | `AnswersFaithful`, `AccountsBalance`, `ServerStops` |

`shared`, `storage` and `codec` put independent components side by side: a
behaviour is of one of them, and the others rest in their initial states.

Five runs refute what the documentation says of the code; `PROJECT.json`
quotes the lines.

| run | what the code does |
|---|---|
| `index_complete` | two concurrent first views fill one index together |
| `safe_reclamation` | `try_gc` deletes objects that pinned readers use: it never looks at them |
| `ready_before_resume` | a `co_await` of a task whose worker is busy runs the inner coroutine on the awaiting thread |
| `stop_twice` | a second `stop()` returns at once, while the refresh that the first waits for is still to be published |
| `writes_sent` | a value set in an unparsed container is not in the packet it sends: `datas()` returns the old text |

Symmetry is used for threads of one role, objects, keys and containers in
`shared` and `storage`, never in a run with a liveness property (`OrderKept` and
the refinement of `BlockPool` are about single steps, which permuting keys and
containers leaves as they are). Deadlock checking is off in `shared`, `codec` and `grpc`, whose
components really stop: bounded numbers of calls are used up, a packet has
arrived, nobody has to start a server.

The bounds suffice for the cases the properties are about: a second writer or
recorder between any two steps of a first, an address or a bucket that is used
again (3 addresses for 2 objects, 5 epochs for 3 buckets), a chunk that is not
the last and one that is shorter, numbers on both sides of every limit, a
vector, a second vector and a tail of one to three.

Fairness. `refreshes`: the background thread keeps being scheduled, its
`wait_for` interval elapses, a thread in `stop()` gets to return once the join
can, and a `bulk_update` callback ends. The loop sleeps with a timeout, so that
even a notification that comes between its test and its sleep is only late.
Weak fairness of the background refresh includes being granted the shared lock
when no writer holds it; writers are bounded by `MaxPast`, so the run does not
rely on any preference of the lock. `async`: threads and executor jobs that
exist are scheduled, and an executor that accepted a job runs it; owners need
not do anything. `grpc`: handlers and processors go on, the deadline of a
`stop` that has one passes, a `grpc_client` in a call goes on or meets the
deadline that `set_context_options` gives every call (`grpc_client.cpp:240`),
and a handler that keeps asking for the processor's mutex gets it in the end
(strong fairness of `Acquire`; two handlers at most contend). Clients of other
makes, which no code here gives a deadline, are bound to nothing. Nobody is bound to begin a call, start or stop.

### Other divergences met while modelling

These are visible in the actions and have no run of their own.

- The move constructor leaves `optimized_units_` behind
  (`core/container.cpp:107`; move assignment moves them, line 141):
  `MoveConstructed`.
- Views are served from the packet the container was constructed from
  (`core/container.cpp:277`), also after another one was deserialised into it,
  and the index is scanned from `raw_data_ptr_`, where `container.h:999` says
  "Scans data_string_".
- Reals lose what is beyond six decimals and strings their leading white space
  in the text format, and so in every eager copy
  (`container/variant_helpers.h:163`, `core/container.cpp:2087`); nested
  containers and arrays come back as empty variants (`core/container.cpp:2165`):
  `TextOf`, `ParseItem`.
- Of two overlapping `refresh()` calls the one that copied first may publish
  last (`internal/thread_safe_container.h:565`), so that data a returned
  `refresh` had published disappears; line 555 says "After this call returns,
  subsequent lock-free reads will see the updated data." `LoneRefreshHolds`
  is therefore about refreshes that overlap no other.
- `deserialize` calls `initialize()` before it looks at the text
  (`core/container.cpp:682`): after an error the container is empty, where
  `container.h:499` says "Strong guarantee - no changes on error".
- `deserialize_result` is `noexcept` and lets `std::stoi` and its siblings throw
  (`core/container.cpp:747`, 2116-2143), which ends the program;
  `container.h:500` says "no exceptions thrown". Action `DeserializeTerminates`.
- `remove_batch` on a lazy container whose parse throws keeps the values before
  the bad one and is marked parsed (`core/container.cpp:500`); `container.h:321`
  says "Strong guarantee".
- `get` never parses a lazily held section (`core/container.cpp:257`);
  `container.h:988` says "parse values only when accessed".
- A view of a removed key still answers (`core/container.cpp:282`); `container.h:242`
  says nullopt if the key is not found.
- `swap_header` takes no lock (`core/container.cpp:181`), so that it can undo a
  concurrent `set_source`; `container.h:1017` says "Lock is always acquired".
- `pool_allocator::deallocate` hands memory that fell back to the heap, or that
  belongs to another thread's pool, to a pool that ignores it
  (`internal/pool_allocator.h:117`); `docs/advanced/MEMORY_MANAGEMENT.md:356`
  says "Return to appropriate pool or heap".
- `internal/epoch_manager.h:150` says "We need 2 epoch advances before an epoch
  is safe". The bucket that `try_gc` empties, `(current - 2) % 3`, is also the
  one of the epoch it has just advanced to, so that an object retired between
  the advance and the take is deleted with no advance in between; and
  `defer_delete` reads the epoch before it locks the list (line 115), so that a
  late push is collected with an older epoch's list. What comes of both is in
  `safe_reclamation`; the model says no more about which epochs are collected.
- The end of an inner `epoch_guard` unpins the outer one
  (`internal/epoch_manager.h:88`, 286).
- A reference from `operator[]` is written without the lock
  (`internal/thread_safe_container.cpp:338`), so that a snapshot can mix two
  states, against `docs/advanced/LOCK_FREE.md:322`: `SnapshotConsistent` excuses
  the snapshot during whose copy that happened, and no other.
- The indexed policy writes `index_[key] = values_.size()` before
  `values_.push_back` (`include/kcenon/container/storage_policy.h:313`): when
  the latter throws, `set_result` reports an error and the next `get` of the key
  reads behind the vector. `AllocFails`.
- Values inside containers lose their names and `llong_value` comes back as
  `long_value` (`internal/thread_safe_container.cpp:331`,
  `internal/value.cpp:432`): `Normal` in `ValueCodec` says what does come back.
  Copying an array drops its null elements (`internal/value.cpp:50`).

- An array element that is a container with a named value misplaces the
  elements after it, since its length is taken from another encoding
  (`internal/value.cpp:540`); `internal/value.h:125` says "Zero data loss on
  serialization round-trips". `Lossless` is about values without such elements
  (`Aligned`).
- `set_all` locks per value (`core/container.cpp:394`): readers see a part of a
  batch, and an exception in the middle leaves the values before it, where
  `container.h:206` says "Strong guarantee - no changes on exception".
- `reservoir_count` can pass the size of the reservoir by less than the number
  of recorders (`metrics.h:225`), and a reader then divides by samples that are
  not there yet: `overlapped` in `Metrics`.
- A pattern that does not compile is ignored: `core/container_schema.cpp:99`
  says "will fail validation", `tests/schema_tests.cpp:649` "silently ignored".
  The code does what the test says; `SchemaVerdict` leaves open what such a
  pattern has for a result (`Disputed`).
- Unsigned numbers beyond `INT64_MAX` wrap around in range checks
  (`schema.h:317`): `FitsInt64`.
- Deserialisation with a schema keeps the new content when the validation fails
  (`core/container.cpp:774`), where `container.h:550` says "no changes on
  error"; a lazily deserialised container is validated as an empty one.
- MessagePack: a packet that lost its end in its last value, or within an array
  that ends it, is accepted (`CutInLastValue`); elements of nested arrays are
  not consumed; bytes that begin like a map come back as a container; one
  `uint64_t` beyond `INT64_MAX` makes the whole packet unreadable to the library
  that wrote it; a decoding that fails leaves the container half filled; and
  `reserve` trusts the count it read (`core/container.cpp:1365`).
- JSON and XML are detected by `detect_format` and then parsed as the text
  format.
- `rcu_value::operator=` publishes a version that `update_count` does not count
  (`internal/rcu_value.h:78`).
- SIMD builds take an infinity for the largest finite float in minima and
  maxima; a NaN makes x86 lanes forget what came before and spreads on NEON;
  the instruction set is that of the build, whatever the CPU.
- `task<T>` starts at once (`suspend_never`, `internal/async/task.h:58`), where
  line 202 says "Lazy execution (starts when awaited)". A task that is dropped
  before its end destroys a frame that its worker will resume; the model's
  owners wait (`Destroy`).
- Asynchronous writers report success before the stream's destructor has
  flushed (`CloseLosesTail`); a crash between truncation and the last chunk
  leaves a torn file; without `Result`, `load_async` returns true whatever the
  parse said. Encodings are taken when the work runs, not when the operation is
  called, and `set` meanwhile is not ordered with it, where
  `async_container.h:160` says "Thread-safe wrapper". `serialize_chunked(0)`
  never ends.
- Two executor guards in different threads restore the wrong executor
  (`thread_pool_executor.h:287`); `async_container` never uses the context's.
- gRPC: `CollectContainers` never counts `messages_sent`; `client-id` is added
  twice to the metadata of a status call (`grpc_client.cpp:216`, 244); start
  and stop check `running_` and then act; the result of a processor is
  dereferenced without a test for null (`service_impl.cpp:60`); a processor
  that calls `set_processor` waits for itself. `stop(0)` calls `Shutdown()`
  without a limit (`grpc_server.cpp:69`) and waits for as long as a client of
  another make keeps its stream open, where `grpc_server.h:103` says "0 =
  immediate": `ServerStops` leaves that case out (`ForeignStream`).
  `to_grpc` sends a container that was deserialised lazily, as is the default,
  without its values and reports success (`container_adapter.cpp:283`), and
  throws for a nested container that was read from text (line 290), of which
  `can_convert` says that it can be converted. Null containers are dropped,
  arrays lose their contents, of several values of a name the last remains, and
  the version is not carried: `Carries`.
- Messaging: a callback that calls `messaging_integration` waits for the mutex
  of its own thread (`messaging_integration.cpp:36`); one that throws loses the
  container or the text that was already counted. The builder's integers of up
  to four bytes become `int32_t` and longer ones `int64_t`, so that large unsigned
  ones turn negative (`Converted`); a nested container that cannot be serialised
  is left out without a word (`SetFails`). The switches for size, speed and compression do nothing.
- `message_container` never reads a payload back (`message_container.cpp:184`,
  230, both marked TODO), though `serialize` and `serialize_binary` write it;
  header fields are not escaped in the binary format, so that a field with a
  backslash or quotes is refused or, worse, accepted with other contents, also
  of other fields (`Reads`; `ReplyReaches` leaves these messages out); without the JSON library
  the header is not read either; `4 + header_size` (line 207) is computed in 32
  bits and wraps for sizes near 2^32, which the model's senders never write.

## 4. What is proved

`PoolsProofs`, for every chunk size, bound and set of words holders
may store. The inductive invariant `IInv` is the conjunction of `PoolTypeOK`,
`ListIntact`, `NoAliasing`, `StatisticsAgree` and the finiteness of `held`. Each
part needs the others: that a pop hands out a block nobody holds
(`NoAliasing`) needs the links to be those of `chain` (`ListIntact`), and that
the links of free blocks stay what they are while holders write needs held and
free blocks to be disjoint. One lemma per action shows that it preserves
`IInv`; `TypeCorrect`, `FreeListIntact`, `NoBlockSharedTwice` and `NoBlockLost`
follow, and `Refinement` shows step by step that the pool implements
`BlockPool`.

`LockFreeReaderProofs`, for any numbers of keys, values, writers and
refreshers. `TInv` (types, and that versions refer to existing contents) gives
`TypeCorrect`. `LInv` adds that a refresh which overlaps no other is the only
one in progress, and that every refresh in progress has copied contents at
least as new as any lone refresh that returned: `LoneRefreshKept`. `SInv` adds
that the shared lock is held exactly while copying and excludes a
`bulk_update`, and that each copy in progress agrees with the contents it
started from on the keys it has copied, unless a reference was written since:
`SnapshotIsPastState`. `EInv` ties `running` and the loop to the calls of
`stop()`, of which at most one joins while the loop is still there:
`StopIsFinal`, for any number of stopping threads.

`ValueContainerProofs`, for every set of names, packets, documents, batches and
updates, and containers of any length. The loops of the code (`set_all`,
`update_batch_if`, the erase of `remove_batch`, the items a pattern finds) are
recursive functions in the model. `KeptExists`, `StoredExists` and
`UpdatedExists` show that these recursions have a solution, and
`KeepProperties`, `WithUnitsStores` and `WithUpdatesKeepsNames` what they
compute: all by induction (`SetInduction`), which comes from the theorem
`WFMin` of the library that a non-empty set of numbers has a least one. The
facts about the value vector are put in terms of the first value of a name
(`FirstIs`), since that is what `get` sees. `Inv` says of the container that its
fields have their types (`TypePart`); that the index is the one of the raw
packet; that an unparsed container holds the section it was given and has had
nothing removed from it (`LazyPart`, without which the parse that a removal
forces could bring a removed name back); that no removed name is in the vector
(`GonePart`); and that what was stored in a parsed container is the first value
of its name and the container is still parsed (`WrittenPart`). All four
properties and `TypeOK` follow; `CopyNormalises` from the types alone.

The same module proves `ReductionsAreExact` of `Simd`, for containers of any
length. The argument is one for all instruction sets. A relation pairs a result
with the set of positions it is the result of: `Sums`, `Leasts` and `Greatests`.
An operation joins two results when they are of sets that share no position
(`Joins`); `SumsJoin`, `LeastsJoin` and `GreatestsJoin` show this of the
addition, of `_mm_min_ps`, `vminq_f32` and the scalar comparison with all their
cases of NaN and infinities. Whatever is made of joining operations then
depends only on which positions meet: the lanes after the last whole vector
cover the positions before `simd_end` (`AccumulateCovers`, by induction over the
vectors, with the arithmetic of `Places`), halving and horizontal adding keep
what is covered (`HalveCovers`, `HAddJoins`), and the tail adds the rest
(`RestJoins`). `AscendingOrder` shows that the values of one type are taken out
of the container in their order and each once.

`PolicyContainerProofs`, for any containers, keys, payloads and batches of
calls. The invariant `IInv` says of every container that names are unique in
its vector, that the vector and the history map agree, that the index
describes the vector unless the container is stale, and that a container in
the middle of a call is not stale. The last two are what make it inductive:
positions found through the index are right only in a container in good
order, and a failing allocation ends its call in the same step that makes it
stale. Lemmas about sequences show what appending, overwriting, erasing,
reversing and rebuilding do to vector, index and map; `OneChanges` reduces
every action on one container to them. `IndexStaysSound` and
`PoliciesAreMaps` follow, and so does the action property `OrderKept`
(`IterationOrderKept`): with unique names the order of two values is that of
their positions, and appending, overwriting and erasing move no position past
another.

`PoolsProofs` also has the allocator over its pools, for any threads, addresses
and classes: `AllocatorInv` adds to `OwnBlocksOnly` that a live object sits in a
block of its own class or on the heap (`ObjectsFit`). Without that the
deallocation of an object could push a block of the wrong class.

`SharedProofs`. For the epoch manager, any readers, writers, collectors and
objects. Of
`DeletedExactlyOnce` alone one cannot tell what a push or a take does:
`CallsWellFormed` says that a `defer_delete` between its load and its push has
an object, that a collector holds objects only while it runs deleters, so that
taking a list overwrites none, and that the lists are finite. `ExactlyOnce`
follows. That `try_gc` looks at no reader is not contradicted by it:
`safe_reclamation` stays refuted.

For the header, `HeaderInv`: a message type was set when the ids
had at most their present versions, and an id that a serializer has read since
it read the type is at least as new as that type asks for; the order of the
reads enters through the suffixes of `SendOrder`. For `rcu_value`, `RcuInv`: a
snapshot owns what it points to, so the version at its address is still the one
that was read; each history ends with the version in place; the updates counted
and those still to be counted are the ones in the history. The last is a
statement about cardinalities, hence the finiteness of the set of threads among
the assumptions.

For `messaging_integration` and the builder, `MessagingInv`, for any callers,
callbacks and containers. Whoever is calling back holds the mutex
(`OneHolder`). While no callback has been unregistered since a call began, the
callbacks registered when it began, and those it has run, are beginnings of the
present list of its kind (`ListsSound`): lists only grow at their end until
then. The callbacks a call ran left their marks on its container, and that is
not the one the builder is filling (`MarksSound`). The builder's container is
exactly what was asked for, and no mark of a callback (`ObjectsSound`); one that
was built is that with marks behind it (`BuiltSound`). Each is needed for the
next: a mark on the builder's container would be part of what the next `build`
returns. `CallbacksAreServed` follows. For `message_container`, `MessageInv`: a
message between the steps is complete (`Formed`), bytes on the wire whose header
is complete carry the header they were written from (`Carries`), and after the
request arrived its header, in a build with the JSON library, is the sender's,
as long as no binary header held what JSON would have escaped (`unescaped`).
`RepliesReach` follows.

`MetricsProofs`, for any finite number of recorders. `MetricsInv` says what is
missing in every counter, sum and extreme, and who carries it: the sum lacks
the latencies of the recorders that have still to add theirs, an extreme covers
all samples but those whose recorders have still to compare. A reset that no
operation overlaps has cleared a beginning of its list (`ClearingInv`). Sums
over recorders are cardinalities of sets of units (`Total`, `Units`), which the
prover's library has theorems about. `TotalsAreExact` is the case that nobody
carries anything. `RoomInv` counts the recorders that have seen room in the
reservoir and gives `OvershootBounded`. For the percentiles, `HonestInv`: as
long as no two recorders have filled the reservoir at once (`OneFills`), every
latency is as often in a filled slot or in the hands of a recorder that has
still to store it as it is among the samples, while there is room; afterwards
samples are put in the place of samples, and the slots hold nothing else
(`AllStored`, `AllCounted`, `NoRoom`). A slot is counted and written in either order, so
"filled" covers both halves (`Filled`). The model's sort is the ascending
sequence with the same bag of values; `SortedExists` shows by induction that
there is one, by putting one value more in its place (`SortsOneMore`).
`IndexAscends` and `TotalBetween` are the arithmetic of the index and of the
average. `PercentilesAreHonest` follows, for every size of the reservoir.

`GrpcServiceProofs`, for any clients, calls, processors and bounds.
`AccountsInv` says that messages received are those sent, the errors, the
ledger of batches and what the handlers owe: one for the message a handler works
on, and those of a batch that is not answered (`Owes`). Handlers of other calls
keep nothing (`Kept`), or the sum would count their answers twice. Sums over
clients are cardinalities again; that only finitely many owe anything is part of
the invariant, so no assumption on the number of clients is needed.
`AccountsAlwaysBalance` follows, with nothing assumed of the conversions or the
processors. `FaithInv` says of every call (`CallInv`) that its handler works on
the containers given in their order (`Progress`); that the messages on the way
are those of the containers that are still to be read (`Queue`); that a batch
has collected the answers to all before that, or counted a failure
(`Collected`); that the one container of another call is answered or failed
(`Lone`); and that what the client made of it is right (`Verdict`). The
processor that a handler notes when it locks is the one that runs, since nobody
changes it while the lock is held (`Running`). A call that was cut off promises
nothing, but its handler goes on. `AnswersAlwaysFaithful` follows, from
`CallsAssumption`.

`AsyncContainerProofs`, for any tasks, versions, sizes, chunk sizes, mixes of
operations, crashes and changes, provided that `Pending = FALSE`: no owner
awaits a task that a worker will resume (with it `NoMisuse` is false, as
`ready_before_resume` shows). `TaskInv` lists the combinations of owner, worker
and frame in which a task can be, and says that the executor's queue holds
distinct tasks that wait for it; a step that moves one task keeps it when that
task's new combination is one of the list (`TaskMove`). `NeverMisused` follows.
`FileInv` needs `TaskInv` (an operation at work has no outcome yet). It says of
every file operation where its position is and which progress it reported; of
the only writer since it opened the file, that the file is the part of its data
it has written; of a saved file, that nobody writes it; and of a clean reader,
that it has a beginning of the saved file. `FilesRoundTrip` and
`ProgressIsExact` follow. The lemmas they rest on say what writing the next
piece behind the ones before it makes of a file (`WriteOn`), what reading on
gives (`ReadOn`), and how far the next chunk goes (`NextChunk`). `StreamInv`
says that only its consumer moves a generator and that the chunks it has given
out join to a beginning of the encoding it started from; what joining makes of
one more chunk (`FlattenAppend`) is shown by induction, as in
`ValueContainerProofs`. `StreamsAreFaithful` follows.

Assumptions on the constants are the named `ASSUME`s of the modules: bounds are
natural numbers, chunks and encodings are not empty, symbols that stand for
"none" are not members of the sets they are added to, sets of threads that are
counted are finite, batches consist of set and remove operations, payloads of
messages are sequences, rounding and stripping twice is doing it once, the
containers of gRPC calls are ones to which the
adapter and the processors are transparent, and the floats that are added up do
not overflow.

Only model-checked, and why:

- the liveness properties `StopReturns`, `EventuallyFresh`, `EveryCallCompletes`,
  `ServerStops`: the prover does not handle fairness and `ENABLED`;
- everything about `ValueCodec`, `MsgPack`, `Schema` and `GrpcAdapter`:
  these modules use `RECURSIVE` operators, which the prover does not accept, or
  fold over their inputs with library operators whose recursion it cannot
  unfold. What they compute for every input would need induction over data.

## 5. Plan

Every module of section 2 and every proof of section 4 is done. What a
continuation would take up: the facts about `GrpcAdapter` that
`CallsAssumption` asks for, by induction over the depth of a container, and
`SchemaVerdict`, with the search for a name and the chain of calls written as
recursive functions.

## 6. Not modelled

- JSON and XML output: formatting and escaping of text, without state.
- `variant_value_factory`, `value_view`, concepts, error codes: constructors,
  type names, compile-time checks, tables of constants.
- String conversions, the formatter and the C++ module interface.
- `container_performance_monitor`, which measures and reports nowhere; times in
  the messaging metrics; sizes and names in the gRPC adapter; the statistics of
  `pool_allocator`.
- Memory limits: failing allocations are modelled where the code handles them
  (`PolicyContainer`, the pools), not in decoders that trust a count.
- Uses that the code's own contract excludes, or that the model has no state
  for: texts that hold the delimiters of the text format's sections
  (`core/container.cpp:2069`), blocks that are returned twice
  (`internal/memory_pool.h:71`), containers that contain themselves, whose
  `serialize` locks one `shared_mutex` twice (`internal/value.cpp:303`), counts
  of forged input (`internal/value.cpp:533`).
- Data races that have no defined outcome are given the outcomes of interleaved
  accesses (index, `swap_header`) or left out (`datas()` walking a vector that
  another thread reallocates, `core/container.cpp:1766`).
