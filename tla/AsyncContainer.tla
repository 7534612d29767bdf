--------------------------- MODULE AsyncContainer ---------------------------
(***************************************************************************)
(* async_container (internal/async/async_container.h): what its operations *)
(* do in the worker of their task, the file functions read_file_async and  *)
(* write_file_async, the generator of serialize_chunked, and the           *)
(* synchronous save_packet_result and load_packet_result of                *)
(* core/container.cpp, all on one container and one file.                  *)
(*                                                                         *)
(* The container holds one of a few versions; its encoding is a sequence   *)
(* of cells.  Serialising and parsing are one step each.  A file is a      *)
(* sequence of cells, or NoFile; every writer has its own position in it.  *)
(***************************************************************************)
EXTENDS AsyncTask, SequencesExt

CONSTANTS
  Versions,   \* the contents a container can have
  Blank,      \* the content after a failed deserialisation
  Size,       \* Size[v]: the length of the encoding of v, which is never empty
  ChunkSize,  \* cells per chunk
  Mixes,      \* sets of operations that are called in one program
  Builds,     \* with (TRUE) and without (FALSE) the Result API of common_system
  NoFile,
  MaxSets,    \* bound on the changes of the container
  MaxCrashes  \* bound on the crashes of the process

VARIABLES
  build,    \* the build at hand
  ops,      \* the operations the program at hand calls
  held,     \* the version the container holds
  file,     \* the file
  job,      \* per task: the operation and the local variables of its work
  sets,     \* changes of the container so far
  crashes,  \* crashes so far
  author,   \* history: the only writer since it opened the file
  saved     \* history: what the file must hold, None when nothing can be said

asyncVars == <<build, ops, held, file, job, sets, crashes, author, saved>>
vars == <<taskVars, asyncVars>>

Bytes(v) == [i \in 1..Size[v] |-> <<v, i>>]
Hole == <<Blank, 0>>    \* zeros where nobody wrote
Least(a, b) == IF a < b THEN a ELSE b

Writing == {"save", "write", "save_packet"}
Reading == {"load", "read", "load_packet"}
Synchronous == {"save_packet", "load_packet"}

ASSUME ChunkAssumption == ChunkSize \in Nat \ {0}
ASSUME SizeAssumption == Blank \in Versions /\ Size \in [Versions -> Nat \ {0}]

NoJob == [op |-> "none", step |-> "none", data |-> <<>>, pos |-> 0, total |-> 0,
          progress |-> <<>>, clean |-> FALSE]

Ok(x) == [ok |-> TRUE, val |-> x]
Error(e) == [ok |-> FALSE, val |-> e]

\* What the caller of t is told when its work failed.  Without Result
\* serialize_async and read_file_async answer an empty vector.
Failed(t, e) == IF ~build /\ job[t].op \in {"serialize", "read"} THEN Ok(<<>>) ELSE Error(e)

Init ==
  /\ TaskInit
  /\ ops \in Mixes
  /\ build \in Builds
  /\ build \/ ops \cap {"load", "read", "serialize", "part", "deserialize"} # {}    \* the others do the same in both
  /\ held \in Versions \ {Blank}
  /\ file = NoFile
  /\ job = [t \in Tasks |-> NoJob]
  /\ sets = 0 /\ crashes = 0
  /\ author = None /\ saved = None

-----------------------------------------------------------------------------
(* Calls *)

Job(op, data) == [NoJob EXCEPT !.op = op, !.step = "start", !.data = data, !.total = Len(data)]

\* serialize_async, serialize_string_async, save_async, load_async,
\* read_file_async: a thread is started.  write_file_async and
\* deserialize_async first copy the data they were given.
Call(t, op, v) ==
  /\ CallAsync(t)
  /\ job' = [job EXCEPT ![t] = Job(op, IF op \in {"write", "deserialize"} THEN Bytes(v) ELSE <<>>)]
  /\ UNCHANGED <<build, ops, held, file, sets, crashes, author, saved>>

\* Any work through make_executor_awaitable
CallWork(t) ==
  /\ CallExecutor(t)
  /\ job' = [job EXCEPT ![t] = Job("compute", <<>>)]
  /\ UNCHANGED <<build, ops, held, file, sets, crashes, author, saved>>

\* deserialize_streaming(data, is_final = false) ends without suspending;
\* with is_final it is deserialize_async.
StreamingPart(t) ==
  /\ build
  /\ CallReady(t, Error("deserialization_failed"))
  /\ job' = [job EXCEPT ![t] = Job("part", <<>>)]
  /\ UNCHANGED <<build, ops, held, file, sets, crashes, author, saved>>

\* The same without Result: a null pointer
StreamingPartPlain(t) ==
  /\ ~build
  /\ CallReady(t, Ok(None))
  /\ job' = [job EXCEPT ![t] = Job("part", <<>>)]
  /\ UNCHANGED <<build, ops, held, file, sets, crashes, author, saved>>

\* Other coroutines that end at once or are resumed by hand
CallOther(t) ==
  /\ \E x \in {Ok(None), Thrown} : CallReady(t, x) \/ CallManual(t)
  /\ job' = [job EXCEPT ![t] = Job("other", <<>>)]
  /\ UNCHANGED <<build, ops, held, file, sets, crashes, author, saved>>

\* save_packet_result and load_packet_result run in their caller.
CallPacket(t, op) ==
  /\ At(t, "owner") = "idle"
  /\ pc' = [pc EXCEPT ![t] = [owner |-> "inside", worker |-> "work"]]
  /\ job' = [job EXCEPT ![t] = Job(op, <<>>)]
  /\ UNCHANGED <<frame, state, cont, outcome, context, guards, pool, misuse>>
  /\ UNCHANGED <<build, ops, held, file, sets, crashes, author, saved>>

\* The work of t is over and x its outcome.  A packet function returns it to
\* its caller.  For the file operations the steps of AsyncTask that bring it
\* there are taken at once, as they neither read nor write files and
\* containers; the other operations take them one by one.
Return(t, x) ==
  IF job[t].op \in Writing \union Reading
  THEN /\ outcome' = [outcome EXCEPT ![t] = x]
       /\ pc' = [pc EXCEPT ![t] = [owner |-> "gone", worker |-> "end"]]
       /\ frame' = [frame EXCEPT ![t].completed = TRUE, ![t].at = "destroyed"]
       /\ UNCHANGED <<state, cont, context, guards, pool, misuse>>
  ELSE Worked(t, x)

Working(t, those, step) == At(t, "worker") = "work" /\ job[t].op \in those /\ job[t].step = step

-----------------------------------------------------------------------------
(* Writing *)

Serialize(t) ==
  /\ Working(t, {"save", "save_packet"}, "start")
  /\ job' = [job EXCEPT ![t].data = Bytes(held), ![t].total = Size[held], ![t].step = "open"]
  /\ UNCHANGED <<taskVars, build, ops, held, file, sets, crashes, author, saved>>

\* serialize() gave an error: nothing is opened.
SerializeFails(t) ==
  /\ Working(t, {"save", "save_packet", "serialize"}, "start")
  /\ Return(t, Failed(t, "serialization_failed"))
  /\ job' = [job EXCEPT ![t].step = "closed"]
  /\ UNCHANGED <<build, ops, held, file, sets, crashes, author, saved>>

Writers == {t \in Tasks : job[t].op \in Writing /\ job[t].step = "write"}

\* std::ofstream(path): the file is empty from here on.
OpenToWrite(t) ==
  /\ Working(t, {"save", "save_packet"}, "open") \/ Working(t, {"write"}, "start")
  /\ file' = <<>>
  /\ job' = [u \in Tasks |-> IF u = t THEN [job[u] EXCEPT !.step = "write", !.pos = 0]
                             ELSE [job[u] EXCEPT !.clean = FALSE]]
  /\ author' = IF Writers = {} THEN t ELSE None
  /\ saved' = None
  /\ UNCHANGED <<taskVars, build, ops, held, sets, crashes>>

OpenToWriteFails(t) ==
  /\ Working(t, {"save", "save_packet"}, "open") \/ Working(t, {"write"}, "start")
  /\ Return(t, Error("file_write_error"))
  /\ job' = [job EXCEPT ![t].step = "closed"]
  /\ UNCHANGED <<build, ops, held, file, sets, crashes, author, saved>>

\* What a write of cells behind position pos makes of a file.
WriteAt(f, pos, cells) ==
  LET end == pos + Len(cells)
  IN  [i \in 1..(IF Len(f) > end THEN Len(f) ELSE end) |->
        IF i > pos /\ i <= end THEN cells[i - pos]
        ELSE IF i <= Len(f) THEN f[i] ELSE Hole]

\* A packet is read and written in one piece.
Piece(t) ==
  LET rest == job[t].total - job[t].pos
  IN  IF job[t].op \in Synchronous THEN rest ELSE Least(ChunkSize, rest)

\* Mutant: the counter advances by whole chunks.
AdvancedWhole(t) ==
  [job[t] EXCEPT !.pos = Least(@ + ChunkSize, job[t].total),
                 !.progress = Append(@, job[t].pos + ChunkSize)]

\* bytes_written += to_write (bytes_read += to_read), then the callback
Advanced(t) ==
  LET n == job[t].pos + Piece(t)
  IN  [job[t] EXCEPT !.pos = n, !.progress = Append(@, n)]

\* Mutant: every chunk is taken from the start of the data.
WriteChunkFromStart(t) ==
  /\ Working(t, Writing, "write") /\ job[t].pos < job[t].total
  /\ file' = WriteAt(file, job[t].pos, SubSeq(job[t].data, 1, Piece(t)))
  /\ job' = [job EXCEPT ![t] = Advanced(t)]
  /\ UNCHANGED <<taskVars, build, ops, held, sets, crashes, author, saved>>

\* One turn of the write loop of save_async and write_file_async
WriteChunk(t) ==
  /\ Working(t, Writing, "write") /\ job[t].pos < job[t].total
  /\ file' = WriteAt(file, job[t].pos, SubSeq(job[t].data, job[t].pos + 1, job[t].pos + Piece(t)))
  /\ job' = [u \in Tasks |-> IF u = t THEN Advanced(t) ELSE [job[u] EXCEPT !.clean = FALSE]]
  /\ UNCHANGED <<taskVars, build, ops, held, sets, crashes, author, saved>>

\* The stream went bad, or the caller's callback threw.
WriteBreaks(t, x) ==
  /\ Working(t, Writing, "write") /\ job[t].pos < job[t].total
  /\ x = Thrown => job[t].op \notin Synchronous
  /\ Return(t, x)
  /\ job' = [job EXCEPT ![t].step = "closed"]
  /\ UNCHANGED <<build, ops, held, file, sets, crashes, author, saved>>

WriteEnds(t) ==
  /\ Working(t, Writing, "write") /\ job[t].pos = job[t].total
  /\ Return(t, Ok(None))
  /\ job' = [job EXCEPT ![t].step = "closed"]
  /\ saved' = IF author = t THEN job[t].data ELSE None
  /\ UNCHANGED <<build, ops, held, file, sets, crashes, author>>

\* The destructor of the stream writes what is still buffered and reports
\* nothing: the last piece may be missing although the call succeeds.
CloseLosesTail(t) ==
  /\ Working(t, Writing, "write") /\ job[t].pos = job[t].total
  /\ Return(t, Ok(None))
  /\ file' = SubSeq(file, 1, Least(Len(file), job[t].total - 1))
  /\ job' = [u \in Tasks |-> IF u = t THEN [job[u] EXCEPT !.step = "closed"]
                             ELSE [job[u] EXCEPT !.clean = FALSE]]
  /\ saved' = None
  /\ UNCHANGED <<build, ops, held, sets, crashes, author>>

-----------------------------------------------------------------------------
(* Reading *)

\* std::ifstream(path, ate) and tellg()
OpenToRead(t) ==
  /\ Working(t, Reading, "start") /\ file # NoFile
  /\ job' = [job EXCEPT ![t].step = "read", ![t].total = Len(file), ![t].clean = saved # None]
  /\ UNCHANGED <<taskVars, build, ops, held, file, sets, crashes, author, saved>>

OpenToReadFails(t) ==
  /\ Working(t, Reading, "start") /\ file = NoFile
  /\ Return(t, Failed(t, "file_not_found"))
  /\ job' = [job EXCEPT ![t].step = "closed"]
  /\ UNCHANGED <<build, ops, held, file, sets, crashes, author, saved>>

\* One turn of the read loop of load_async and read_file_async.  A packet is
\* read up to the end the file has now.
ReadChunk(t) ==
  LET to == IF job[t].op = "load_packet" THEN Len(file) ELSE job[t].pos + Piece(t)
  IN  /\ Working(t, Reading, "read") /\ job[t].pos < job[t].total
      /\ to <= Len(file)
      /\ job' = [job EXCEPT ![t] = [Advanced(t) EXCEPT
                    !.data = @ \o SubSeq(file, job[t].pos + 1, to)]]
      /\ UNCHANGED <<taskVars, build, ops, held, file, sets, crashes, author, saved>>

\* A read error, a file that became shorter, or a callback that threw
ReadBreaks(t, x) ==
  /\ Working(t, Reading, "read") /\ job[t].pos < job[t].total
  /\ x = Thrown => job[t].op \notin Synchronous
  /\ Return(t, x)
  /\ job' = [job EXCEPT ![t].step = "closed"]
  /\ UNCHANGED <<build, ops, held, file, sets, crashes, author, saved>>

\* What a text can parse to: an encoding to its version; any other text to
\* some version or to nothing, the empty one to nothing.
Parses(b) ==
  IF \E v \in Versions : b = Bytes(v) THEN {Ok(v) : v \in {w \in Versions : b = Bytes(w)}}
  ELSE {Error("deserialization_failed")} \union (IF b = <<>> THEN {} ELSE {Ok(v) : v \in Versions})

\* deserialize_result into the container, which is reset first.  Without
\* Result load_async does not look at the outcome of the parse.
LoadEnds(t) ==
  /\ Working(t, {"load", "load_packet"}, "read") /\ job[t].pos = job[t].total
  /\ \E x \in Parses(job[t].data) :
       /\ held' = IF x.ok THEN x.val ELSE Blank
       /\ Return(t, IF ~build /\ job[t].op = "load" THEN Ok(None) ELSE x)
  /\ job' = [job EXCEPT ![t].step = "closed"]
  /\ UNCHANGED <<build, ops, file, sets, crashes, author, saved>>

ReadEnds(t) ==
  /\ Working(t, {"read"}, "read") /\ job[t].pos = job[t].total
  /\ Return(t, Ok(job[t].data))
  /\ job' = [job EXCEPT ![t].step = "closed"]
  /\ UNCHANGED <<build, ops, held, file, sets, crashes, author, saved>>

-----------------------------------------------------------------------------
(* Work without files *)

SerializeWork(t) ==
  /\ Working(t, {"serialize"}, "start")
  /\ Return(t, Ok(Bytes(held)))
  /\ job' = [job EXCEPT ![t].step = "closed"]
  /\ UNCHANGED <<build, ops, held, file, sets, crashes, author, saved>>

\* deserialize_async: into a container of its own
DeserializeWork(t) ==
  /\ build
  /\ Working(t, {"deserialize"}, "start")
  /\ \E x \in Parses(job[t].data) : Return(t, x)
  /\ job' = [job EXCEPT ![t].step = "closed"]
  /\ UNCHANGED <<build, ops, held, file, sets, crashes, author, saved>>

\* Without Result the constructor parses, and a container comes back anyway.
DeserializePlain(t) ==
  /\ ~build
  /\ Working(t, {"deserialize"}, "start")
  /\ \E x \in Parses(job[t].data) : Return(t, IF x.ok THEN x ELSE Ok(Blank))
  /\ job' = [job EXCEPT ![t].step = "closed"]
  /\ UNCHANGED <<build, ops, held, file, sets, crashes, author, saved>>

Compute(t, x) ==
  /\ Working(t, {"compute"}, "start")
  /\ Return(t, x)
  /\ job' = [job EXCEPT ![t].step = "closed"]
  /\ UNCHANGED <<build, ops, held, file, sets, crashes, author, saved>>

-----------------------------------------------------------------------------
(* serialize_chunked: a generator, resumed by the consumer of its chunks *)

\* The call only makes the frame: initial_suspend is suspend_always.
CallChunked(t) ==
  /\ At(t, "owner") = "idle"
  /\ frame' = [frame EXCEPT ![t] = Suspended("consumer")]
  /\ Go(t, "owner", "pulling")
  /\ job' = [job EXCEPT ![t] = Job("chunked", <<>>)]
  /\ UNCHANGED <<state, cont, outcome, context, guards, pool, misuse>>
  /\ UNCHANGED <<build, ops, held, file, sets, crashes, author, saved>>

\* begin(): the container is serialised now, and the first chunk yielded.
Begin(t) ==
  /\ At(t, "owner") = "pulling" /\ job[t].step = "start"
  /\ job' = [job EXCEPT ![t].data = Bytes(held), ![t].total = Size[held], ![t].step = "yield"]
  /\ UNCHANGED <<taskVars, build, ops, held, file, sets, crashes, author, saved>>

\* serialize() gave an error: co_return before the first chunk.
BeginFails(t) ==
  /\ At(t, "owner") = "pulling" /\ job[t].step = "start"
  /\ job' = [job EXCEPT ![t].step = "failed"]
  /\ UNCHANGED <<taskVars, build, ops, held, file, sets, crashes, author, saved>>

\* Mutant: the container is serialised again for every chunk.
YieldCurrent(t) ==
  /\ At(t, "owner") = "pulling" /\ job[t].step = "yield" /\ job[t].pos < job[t].total
  /\ LET n == Least(ChunkSize, job[t].total - job[t].pos)
         b == Bytes(held)
     IN  job' = [job EXCEPT ![t].pos = @ + n,
           ![t].progress = Append(@, SubSeq(b, job[t].pos + 1, Least(job[t].pos + n, Len(b))))]
  /\ UNCHANGED <<taskVars, build, ops, held, file, sets, crashes, author, saved>>

\* co_yield chunk, received by the consumer; operator++ resumes for the next.
Yield(t) ==
  /\ At(t, "owner") = "pulling" /\ job[t].step = "yield" /\ job[t].pos < job[t].total
  /\ LET n == Least(ChunkSize, job[t].total - job[t].pos)
     IN  job' = [job EXCEPT ![t].pos = @ + n,
                            ![t].progress = Append(@, SubSeq(job[t].data, job[t].pos + 1, job[t].pos + n))]
  /\ UNCHANGED <<taskVars, build, ops, held, file, sets, crashes, author, saved>>

\* The body of the generator is through.
BodyEnded(j) == j.step = "failed" \/ (j.step = "yield" /\ j.pos = j.total)

\* The body ends, or the consumer breaks out of its loop: ~generator().
EndOfStream(t) ==
  /\ At(t, "owner") = "pulling"
  /\ frame' = [frame EXCEPT ![t].at = "destroyed", ![t].completed = BodyEnded(job[t])]
  /\ Go(t, "owner", "gone")
  /\ UNCHANGED <<state, cont, outcome, context, guards, pool, misuse>>
  /\ UNCHANGED asyncVars

-----------------------------------------------------------------------------
(* The rest of the program *)

\* set(key, value) on the container from another thread
Set(v) ==
  /\ ops \cap {"save", "save_packet", "serialize", "chunked"} # {}
  /\ sets < MaxSets /\ v # held
  /\ held' = v /\ sets' = sets + 1
  /\ UNCHANGED <<taskVars, build, ops, file, job, crashes, author, saved>>

\* The caller and its worker are through with t; the name is free again.
Forget(t) ==
  /\ At(t, "owner") = "gone" /\ At(t, "worker") \in {"idle", "end"}
  /\ frame' = [frame EXCEPT ![t] = NoFrame] /\ state' = [state EXCEPT ![t] = NoState]
  /\ pc' = [pc EXCEPT ![t] = [r \in Roles |-> "idle"]]
  /\ cont' = [cont EXCEPT ![t] = [r \in Roles |-> None]]
  /\ outcome' = [outcome EXCEPT ![t] = None]
  /\ job' = [job EXCEPT ![t] = NoJob]
  /\ author' = IF author = t THEN None ELSE author
  /\ UNCHANGED <<context, guards, pool, misuse, build, ops, held, file, sets, crashes, saved>>

\* The process dies and is started again; the file is what it was.
Crash ==
  /\ ops \cap Writing # {}
  /\ crashes < MaxCrashes
  /\ \E t \in Tasks : At(t, "owner") # "idle"
  /\ crashes' = crashes + 1
  /\ frame' = [t \in Tasks |-> NoFrame] /\ state' = [t \in Tasks |-> NoState]
  /\ pc' = [t \in Tasks |-> [r \in Roles |-> "idle"]]
  /\ cont' = [t \in Tasks |-> [r \in Roles |-> None]]
  /\ outcome' = [t \in Tasks |-> None]
  /\ context' = FALSE /\ guards' = <<>> /\ pool' = [running |-> TRUE, jobs |-> <<>>]
  /\ job' = [t \in Tasks |-> NoJob]
  /\ author' = None
  /\ held' = Blank
  /\ UNCHANGED <<build, ops, file, sets, saved, misuse>>

Start(t) ==
  \/ \E op \in ops \cap {"serialize", "save", "load", "read", "write", "deserialize"},
        v \in Versions : Call(t, op, v)
  \/ \E op \in ops \cap Synchronous : CallPacket(t, op)
  \/ "compute" \in ops /\ CallWork(t)
  \/ "part" \in ops /\ (StreamingPart(t) \/ StreamingPartPlain(t))
  \/ "other" \in ops /\ CallOther(t)
  \/ "chunked" \in ops /\ CallChunked(t)

Work(t) ==
  \/ Serialize(t) \/ SerializeFails(t) \/ OpenToWrite(t) \/ OpenToWriteFails(t)
  \/ WriteChunk(t) \/ WriteEnds(t) \/ CloseLosesTail(t)
  \/ \E x \in {Error("file_write_error"), Thrown} : WriteBreaks(t, x)
  \/ OpenToRead(t) \/ OpenToReadFails(t) \/ ReadChunk(t) \/ ReadEnds(t)
  \/ \E x \in {Failed(t, "file_read_error"), Thrown} : ReadBreaks(t, x)
  \/ LoadEnds(t) \/ DeserializeWork(t) \/ DeserializePlain(t) \/ SerializeWork(t)
  \/ \E x \in {Ok(None), Thrown} : Compute(t, x)

Consume(t) == Begin(t) \/ BeginFails(t) \/ Yield(t) \/ EndOfStream(t)

Next ==
  /\ ~misuse
  /\ \/ \E t \in Tasks : Start(t) \/ Work(t) \/ Consume(t) \/ Forget(t)
     \/ \E t \in Tasks : (Run(t) \/ Own(t)) /\ UNCHANGED asyncVars
     \/ "compute" \in ops /\ Environment /\ UNCHANGED asyncVars
     \/ \E v \in Versions : Set(v)
     \/ Crash

Spec == Init /\ [][Next]_vars

\* Threads are scheduled, and an executor runs the jobs it accepted.
Fairness ==
  /\ \A t \in Tasks : WF_vars(Work(t))
  /\ \A t \in Tasks : WF_vars((Run(t) \/ Submit(t)) /\ UNCHANGED asyncVars)
  /\ WF_vars(PoolRuns /\ UNCHANGED asyncVars)

FairSpec == Spec /\ Fairness

-----------------------------------------------------------------------------
(* Properties *)

\* No thread resumes a coroutine that is not suspended and none touches the
\* frame of a task that its owner, after done(), has destroyed: the worker
\* reads the continuation before it sets completed_ (final_awaiter), and each
\* coroutine is resumed by exactly one thread.
NoMisuse == ~misuse

\* After a save that returned success, and until somebody opens the file for
\* writing again, the file holds exactly the encoding that was taken when the
\* save began, through crashes and whatever other operations do; and a read
\* or load that overlapped no writer got that encoding.  (When the stream's
\* destructor loses the tail nothing is said: see CloseLosesTail.)
FileRoundTrip ==
  saved # None =>
    /\ file = saved
    /\ \A t \in Tasks : job[t].op \in Reading /\ job[t].clean /\ job[t].pos = job[t].total
                         /\ job[t].step # "start" => job[t].data = saved

\* The calls of a progress callback are exactly the multiples of the chunk
\* size, ending with the total: no chunk is skipped, repeated or overcounted,
\* and success is reported only after the last (for read_file_async without
\* Result: an answer that is not empty, as an empty one may mean a failure).
ProgressExact ==
  \A t \in Tasks : job[t].op \in (Writing \union Reading) \ Synchronous =>
    /\ job[t].progress = [i \in DOMAIN job[t].progress |-> Least(i * ChunkSize, job[t].total)]
    /\ outcome[t] \notin {None, Thrown} /\ outcome[t].ok /\ outcome[t].val # <<>> =>
         job[t].pos = job[t].total /\ Len(job[t].progress) * ChunkSize >= job[t].total

\* The chunks a consumer got from serialize_chunked are non-empty and join to
\* a prefix of one encoding, even if the container changed while the
\* generator was suspended.  A stream that ended by itself gave all of it, or,
\* when the container could not be serialised, no chunk at all: the consumer
\* never gets a part and then the end.
StreamFaithful ==
  \A t \in Tasks : job[t].op = "chunked" =>
    /\ \A i \in DOMAIN job[t].progress : job[t].progress[i] # <<>>
    /\ FlattenSeq(job[t].progress) = SubSeq(job[t].data, 1, job[t].pos)
    /\ job[t].step = "failed" => job[t].progress = <<>>
    /\ frame[t].completed /\ job[t].step # "failed" =>
         FlattenSeq(job[t].progress) \in {Bytes(v) : v \in Versions}

\* Every operation that was started completes its task, whether its work
\* succeeds, fails or throws and whether the executor takes or refuses it,
\* unless the process dies.
EveryCallCompletes ==
  \A t \in Tasks : frame[t].by = "worker" ~> frame[t].completed \/ frame[t].by # "worker"

\* "in practice, handle.resume() ensures we only get here after ready_ is
\* set" (async_container.h:130): await_resume is reached only behind ready_.
ReadyBeforeResume ==
  \A t \in Tasks, r \in Roles :
    At(t, r) = "await_resume" /\ frame[t].by = "worker" => state[t].ready
=============================================================================
