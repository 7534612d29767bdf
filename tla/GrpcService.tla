---------------------------- MODULE GrpcService ----------------------------
(***************************************************************************)
(* grpc_client, grpc_server and container_service_impl (grpc/).  A client  *)
(* has one call at a time; the handler of the call runs in a thread of the *)
(* server and may outlive it, when the deadline ends the call.  The gRPC   *)
(* library is external: it delivers the messages of a call in order, ends  *)
(* a call that its deadline or a shutdown cuts off with an error status,   *)
(* and after that fails the handler's reads and writes.  The conversions   *)
(* of container_adapter are constants here: MCGrpcService puts those of    *)
(* GrpcAdapter in their place.                                             *)
(***************************************************************************)
EXTENDS Naturals, Sequences, SequencesExt, FiniteSets

CONSTANTS
  Null,         \* the null container
  Thrown,       \* a conversion or a processor that throws
  to_grpc(_), from_grpc(_),  \* container_adapter
  Carried(_, _),  \* what a container is after a message carried it
  Refused(_),   \* a container that the adapter does not convert: nested too deep, or with an empty variant
  Clients,
  Calls,        \* per client: the calls it may make, [op, input]
  Processors,   \* what set_processor may install
  NoProcessor,
  Apply(_, _),  \* a processor on a container: a container or Thrown
  MaxRequests,  \* bound on the calls
  MaxSwitches   \* bound on the starts and on the changes of the processor

VARIABLES
  server,     \* server_: "none", "up", and while stop runs "closing" and "cutting" (with a deadline) or "draining"
  running,    \* running_
  switches,   \* starts and set_processor calls so far
  processor,  \* processor_
  lock,       \* holder of processor_mutex_, or NoProcessor
  counts,     \* request_count_, error_count_, messages_received_, messages_sent_
  call,       \* per client: its call, and the handler's local variables
  made,       \* calls so far
  ledger      \* history: messages that ended in a batch's results, and requests for a stream of nothing

grpcVars == <<server, running, switches, processor, lock, counts, call, made, ledger>>

\* How an operation of the client reaches the service.  The last four are
\* clients of other makes: a request without a container, a message that the
\* adapter would not have made, and the stream grpc_client does not offer.
Rpc(op) == CASE op \in {"send", "send_nothing"} -> "SendContainer"
             [] op \in {"process", "process_raw"} -> "ProcessContainer"
             [] op \in {"stream", "stream_nothing"} -> "StreamContainers"
             [] op = "send_batch" -> "CollectContainers"
             [] op = "chat" -> "ProcessStream"
             [] op = "get_status" -> "GetStreamStatus"

NoCall == [op |-> "none", input |-> << >>, client |-> "idle", handler |-> "none", toWrite |-> << >>, inbox |-> << >>,
           writesDone |-> FALSE, dead |-> FALSE, native |-> Null, results |-> << >>, replies |-> << >>,
           failed |-> 0, status |-> "none", success |-> FALSE, value |-> << >>, answer |-> "none", by |-> << >>]

GrpcInit ==
  /\ server = "none" /\ running = FALSE /\ switches = 0
  /\ processor = NoProcessor /\ lock = NoProcessor
  /\ counts = [requests |-> 0, errors |-> 0, received |-> 0, sent |-> 0]
  /\ call = [c \in Clients |-> NoCall]
  /\ made = 0 /\ ledger = 0

Handling(c) == call[c].handler \notin {"none", "ended"}
IsRpc(c, r) == call[c].op # "none" /\ Rpc(call[c].op) = r
Unchanged == UNCHANGED <<server, running, switches, made>>

-----------------------------------------------------------------------------
(* grpc_server *)

\* start: refused when running; BuildAndStart may fail.
Start ==
  /\ ~running /\ switches < MaxSwitches
  /\ \/ server' = "up" /\ running' = TRUE
     \/ UNCHANGED <<server, running>>
  /\ switches' = switches + 1
  /\ UNCHANGED <<processor, lock, counts, call, made, ledger>>

\* stop: Shutdown refuses new calls and waits for the others, without limit
\* when stop was given no deadline, ...
StopBegin(limited) ==
  /\ running /\ server = "up"
  /\ server' = IF limited THEN "closing" ELSE "draining"
  /\ UNCHANGED <<running, switches, processor, lock, counts, call, made, ledger>>

\* ... or cutting them off when the deadline passes.
StopDeadline ==
  /\ server = "closing"
  /\ server' = "cutting"
  /\ call' = [c \in Clients |-> IF Handling(c) THEN [call[c] EXCEPT !.dead = TRUE] ELSE call[c]]
  /\ UNCHANGED <<running, switches, processor, lock, counts, made, ledger>>

StopEnd ==
  /\ server \in {"closing", "cutting", "draining"} /\ ~\E c \in Clients : Handling(c)
  /\ server' = "none" /\ running' = FALSE
  /\ UNCHANGED <<switches, processor, lock, counts, call, made, ledger>>

\* set_processor: under the lock that every run of a processor holds
SetProcessor(p) ==
  /\ lock = NoProcessor /\ switches < MaxSwitches /\ p # processor
  /\ processor' = p /\ switches' = switches + 1
  /\ UNCHANGED <<server, running, lock, counts, call, made, ledger>>

-----------------------------------------------------------------------------
(* grpc_client *)

Answered(c, a) == [call[c] EXCEPT !.client = "idle", !.answer = a]

\* A null container, or one that is nested too deep, is refused at once; a
\* server that is not there refuses the call.
Begin(c, x, messages, done) ==
  /\ call[c].client = "idle" /\ ~Handling(c) /\ made < MaxRequests
  /\ made' = made + 1
  /\ call' = [call EXCEPT ![c] =
       LET new == [NoCall EXCEPT !.op = x.op, !.input = x.input]
       IN  IF (x.op # "send_batch" /\ Thrown \in ToSet(messages)) \/ server # "up"
           THEN [new EXCEPT !.answer = "failure", !.dead = TRUE]
           ELSE [new EXCEPT !.client = IF done THEN "waiting" ELSE "writing", !.handler = "called",
                            !.inbox = IF done THEN messages ELSE << >>, !.writesDone = done,
                            !.toWrite = IF done THEN << >> ELSE messages]]
  /\ UNCHANGED <<server, running, switches, processor, lock, counts, ledger>>

Convert(container) == IF container = Null THEN Thrown ELSE to_grpc(container)

Send(c, x) == x.op = "send" /\ Begin(c, x, <<Convert(x.input[1])>>, TRUE)
Process(c, x) == x.op = "process" /\ Begin(c, x, <<Convert(x.input[1])>>, TRUE)
Stream(c, x) == x.op = "stream" /\ Begin(c, x, <<Convert(x.input[1])>>, TRUE)
GetStatus(c, x) == x.op = "get_status" /\ Begin(c, x, << >>, TRUE)
OtherClient(c, x) ==
  \/ x.op \in {"send_nothing", "stream_nothing", "process_raw"} /\ Begin(c, x, x.input, TRUE)
  \/ x.op = "chat" /\ Begin(c, x, x.input, FALSE)

\* send_batch: null containers are skipped.
NonNull(s) ==
  LET kept == {i \in DOMAIN s : s[i] # Null}
  IN  [j \in 1..Cardinality(kept) |-> s[CHOOSE i \in kept : Cardinality(kept \cap 1..i) = j]]
SendBatch(c, x) ==
  LET given == NonNull(x.input)
  IN  x.op = "send_batch" /\ Begin(c, x, [i \in DOMAIN given |-> to_grpc(given[i])], FALSE)

\* One Write of a batch or a chat.  A conversion that throws leaves send_batch,
\* which cancels the call; a Write to a call that is cut off breaks the loop.
Write(c) ==
  /\ call[c].client = "writing" /\ call[c].toWrite # << >>
  /\ LET m == Head(call[c].toWrite)
     IN  call' = [call EXCEPT ![c] =
           IF m = Thrown THEN [Answered(c, "failure") EXCEPT !.dead = TRUE]
           ELSE IF call[c].dead THEN [call[c] EXCEPT !.toWrite = << >>]
           ELSE [call[c] EXCEPT !.toWrite = Tail(@), !.inbox = Append(@, m)]]
  /\ Unchanged /\ UNCHANGED <<processor, lock, counts, ledger>>

WritesDone(c) ==
  /\ call[c].client = "writing" /\ call[c].toWrite = << >>
  /\ call' = [call EXCEPT ![c].client = "waiting", ![c].writesDone = TRUE]
  /\ Unchanged /\ UNCHANGED <<processor, lock, counts, ledger>>

\* stream: each container goes to the callback; a conversion or a callback
\* that throws leaves the call.
ReadReply(c, throws) ==
  /\ call[c].client = "waiting" /\ call[c].op = "stream" /\ call[c].replies # << >>
  /\ LET native == from_grpc(Head(call[c].replies))
     IN  call' = [call EXCEPT ![c] =
           IF native = Thrown THEN [Answered(c, "failure") EXCEPT !.dead = TRUE]
           ELSE [(IF throws THEN [Answered(c, "failure") EXCEPT !.dead = TRUE] ELSE call[c])
                  EXCEPT !.replies = Tail(@), !.value = Append(@, native)]]
  /\ Unchanged /\ UNCHANGED <<processor, lock, counts, ledger>>

\* The status has arrived: send, process, send_batch and get_status make
\* their result of it, stream once all containers are read.
FinishCall(c) ==
  /\ call[c].client = "waiting" /\ call[c].status # "none" /\ ~call[c].dead
  /\ call[c].op = "stream" => call[c].replies = << >>
  /\ LET natives == [i \in DOMAIN call[c].results |-> from_grpc(call[c].results[i])]
         good == /\ call[c].status = "OK" /\ Thrown \notin ToSet(natives)
                 /\ Rpc(call[c].op) \in {"SendContainer", "CollectContainers"} => call[c].success
     IN  call' = [call EXCEPT ![c] = [Answered(c, IF good THEN "success" ELSE "failure")
                                        EXCEPT !.value = IF call[c].op = "stream" \/ ~good THEN @ ELSE natives]]
  /\ Unchanged /\ UNCHANGED <<processor, lock, counts, ledger>>

\* The deadline of set_context_options, or the shutdown, ends the call.
CutOff(c) ==
  /\ call[c].client \in {"writing", "waiting"}
  /\ call' = [call EXCEPT ![c] = [Answered(c, "failure") EXCEPT !.dead = TRUE]]
  /\ Unchanged /\ UNCHANGED <<processor, lock, counts, ledger>>

-----------------------------------------------------------------------------
(* container_service_impl: how a handler ends, or goes on *)

Count(r, e, i, s) == counts' = [requests |-> counts.requests + r, errors |-> counts.errors + e,
                                received |-> counts.received + i, sent |-> counts.sent + s]

Respond(rec, status, success, results) ==
  [rec EXCEPT !.handler = "ended", !.status = status, !.success = success, !.results = results]

\* The catch clauses: what the call becomes after an exception, and what
\* error_count_ is raised by now
Failed(rec) ==
  CASE Rpc(rec.op) = "SendContainer" -> Respond(rec, "OK", FALSE, << >>)
    [] Rpc(rec.op) \in {"ProcessContainer", "StreamContainers"} -> Respond(rec, "INTERNAL", FALSE, << >>)
    [] Rpc(rec.op) = "CollectContainers" -> [rec EXCEPT !.handler = "reading", !.failed = @ + 1]
    [] OTHER -> [rec EXCEPT !.handler = "reading"]
ErrorsNow(rec) == IF Rpc(rec.op) = "CollectContainers" THEN 0 ELSE 1

\* A message is converted; the processor is next.
Converted(c, m, r) ==
  LET native == from_grpc(m)
      rec == [call[c] EXCEPT !.handler = "locking", !.native = native]
  IN  /\ call' = [call EXCEPT ![c] = IF native = Thrown THEN Failed(call[c]) ELSE rec]
      /\ Count(r, IF native = Thrown THEN ErrorsNow(call[c]) ELSE 0, 1, 0)

Called(c, r) == call[c].handler = "called" /\ IsRpc(c, r)

SendContainer(c) ==
  /\ Called(c, "SendContainer")
  /\ IF call[c].inbox = << >>
     THEN call' = [call EXCEPT ![c] = Respond(@, "OK", FALSE, << >>)] /\ Count(1, 1, 1, 0)
     ELSE Converted(c, call[c].inbox[1], 1)
  /\ Unchanged /\ UNCHANGED <<processor, lock, ledger>>

ProcessContainer(c) ==
  /\ Called(c, "ProcessContainer")
  /\ Converted(c, call[c].inbox[1], 1)
  /\ Unchanged /\ UNCHANGED <<processor, lock, ledger>>

StreamContainers(c) ==
  /\ Called(c, "StreamContainers")
  /\ IF call[c].inbox = << >>
     THEN /\ call' = [call EXCEPT ![c] = Respond(@, "OK", FALSE, << >>)]
          /\ Count(1, 0, 1, 0) /\ ledger' = ledger + 1
     ELSE Converted(c, call[c].inbox[1], 1) /\ UNCHANGED ledger
  /\ Unchanged /\ UNCHANGED <<processor, lock>>

\* CollectContainers and ProcessStream: the request is counted, ...
OpenStream(c) ==
  /\ Called(c, "CollectContainers") \/ Called(c, "ProcessStream")
  /\ call' = [call EXCEPT ![c].handler = "reading"]
  /\ Count(1, 0, 0, 0)
  /\ Unchanged /\ UNCHANGED <<processor, lock, ledger>>

\* ... and the messages are read one by one, ...
ReadMessage(c) ==
  /\ call[c].handler = "reading" /\ call[c].inbox # << >>
  /\ LET rest == [call[c] EXCEPT !.inbox = Tail(@)]
         native == from_grpc(Head(call[c].inbox))
     IN  /\ call' = [call EXCEPT ![c] = IF native = Thrown THEN Failed(rest)
                                        ELSE [rest EXCEPT !.handler = "locking", !.native = native]]
         /\ Count(0, IF native = Thrown THEN ErrorsNow(call[c]) ELSE 0, 1, 0)
  /\ Unchanged /\ UNCHANGED <<processor, lock, ledger>>

\* Read gives nothing more: the client is done, or the call is cut off.
ReadOver(c) == call[c].handler = "reading" /\ (call[c].dead \/ (call[c].inbox = << >> /\ call[c].writesDone))

\* Mutant: a batch counts as one error.
CollectEndsOneError(c) ==
  /\ ReadOver(c) /\ IsRpc(c, "CollectContainers")
  /\ call' = [call EXCEPT ![c] = Respond(@, "OK", call[c].failed = 0, call[c].results)]
  /\ Count(0, IF call[c].failed > 0 THEN 1 ELSE 0, 0, 0) /\ ledger' = ledger + Len(call[c].results)
  /\ Unchanged /\ UNCHANGED <<processor, lock>>

\* Mutant: a batch succeeds once its client is done.
CollectEndsWell(c) ==
  /\ ReadOver(c) /\ IsRpc(c, "CollectContainers")
  /\ call' = [call EXCEPT ![c] = Respond(@, "OK", TRUE, call[c].results)]
  /\ Count(0, call[c].failed, 0, 0) /\ ledger' = ledger + Len(call[c].results)
  /\ Unchanged /\ UNCHANGED <<processor, lock>>

\* ... until the batch is answered,
CollectEnds(c) ==
  /\ ReadOver(c) /\ IsRpc(c, "CollectContainers")
  /\ call' = [call EXCEPT ![c] = Respond(@, "OK", call[c].failed = 0, call[c].results)]
  /\ Count(0, call[c].failed, 0, 0) /\ ledger' = ledger + Len(call[c].results)
  /\ Unchanged /\ UNCHANGED <<processor, lock>>

\* or the stream ends.
ChatEnds(c) ==
  /\ ReadOver(c) /\ IsRpc(c, "ProcessStream")
  /\ call' = [call EXCEPT ![c] = Respond(@, "OK", FALSE, << >>)]
  /\ Unchanged /\ UNCHANGED <<processor, lock, counts, ledger>>

\* The counters that the answer carries are of no two moments in particular,
\* and nothing is said of them.
GetStreamStatus(c) ==
  /\ Called(c, "GetStreamStatus")
  /\ call' = [call EXCEPT ![c] = Respond(@, "OK", TRUE, << >>)]
  /\ Count(1, 0, 0, 0)
  /\ Unchanged /\ UNCHANGED <<processor, lock, ledger>>

\* lock_guard lock(processor_mutex_); without a processor the container stays.
Acquire(c) ==
  /\ call[c].handler = "locking" /\ lock = NoProcessor
  /\ call' = [call EXCEPT ![c].handler = IF processor = NoProcessor THEN "replying" ELSE "running",
                          ![c].by = Append(@, processor)]
  /\ lock' = IF processor = NoProcessor THEN NoProcessor ELSE c
  /\ Unchanged /\ UNCHANGED <<processor, counts, ledger>>

\* Mutant: an exception leaves the lock taken.
RunProcessorKeepsLock(c) ==
  /\ call[c].handler = "running"
  /\ LET native == Apply(processor, call[c].native)
     IN  /\ call' = [call EXCEPT ![c] = IF native = Thrown THEN Failed(@)
                                        ELSE [@ EXCEPT !.handler = "replying", !.native = native]]
         /\ Count(0, IF native = Thrown THEN ErrorsNow(call[c]) ELSE 0, 0, 0)
         /\ lock' = IF native = Thrown THEN lock ELSE NoProcessor
  /\ Unchanged /\ UNCHANGED <<processor, ledger>>

RunProcessor(c) ==
  /\ call[c].handler = "running"
  /\ LET native == Apply(processor, call[c].native)
     IN  /\ call' = [call EXCEPT ![c] = IF native = Thrown THEN Failed(@)
                                        ELSE [@ EXCEPT !.handler = "replying", !.native = native]]
         /\ Count(0, IF native = Thrown THEN ErrorsNow(call[c]) ELSE 0, 0, 0)
  /\ lock' = NoProcessor
  /\ Unchanged /\ UNCHANGED <<processor, ledger>>

\* The container is converted back and answered, added to the batch, or
\* written; a message counts as sent even when Write fails.
Reply(c) ==
  /\ call[c].handler = "replying"
  /\ LET k == call[c]
         m == to_grpc(k.native)
         batch == IsRpc(c, "CollectContainers")
         written == [k EXCEPT !.replies = IF k.dead THEN @ ELSE Append(@, m)]
     IN  /\ call' = [call EXCEPT ![c] =
              IF m = Thrown THEN Failed(k)
              ELSE CASE Rpc(k.op) \in {"SendContainer", "ProcessContainer"} -> Respond(k, "OK", TRUE, <<m>>)
                     [] Rpc(k.op) = "StreamContainers" -> Respond(written, "OK", FALSE, << >>)
                     [] batch -> [k EXCEPT !.handler = "reading", !.results = Append(@, m)]
                     [] OTHER -> [written EXCEPT !.handler = "reading"]]
         /\ Count(0, IF m = Thrown THEN ErrorsNow(call[c]) ELSE 0, 0, IF m = Thrown \/ batch THEN 0 ELSE 1)
  /\ Unchanged /\ UNCHANGED <<processor, lock, ledger>>

HandlerStep(c) ==
  \/ SendContainer(c) \/ ProcessContainer(c) \/ StreamContainers(c) \/ OpenStream(c) \/ ReadMessage(c)
  \/ CollectEnds(c) \/ ChatEnds(c) \/ GetStreamStatus(c) \/ RunProcessor(c) \/ Reply(c)

Client(c) ==
  \/ \E x \in Calls[c] : Send(c, x) \/ Process(c, x) \/ Stream(c, x) \/ SendBatch(c, x) \/ GetStatus(c, x) \/ OtherClient(c, x)
  \/ Write(c) \/ WritesDone(c) \/ FinishCall(c) \/ CutOff(c)
  \/ \E throws \in BOOLEAN : ReadReply(c, throws)

GrpcNext ==
  \/ Start \/ StopDeadline \/ StopEnd
  \/ \E limited \in BOOLEAN : StopBegin(limited)
  \/ \E p \in Processors : SetProcessor(p)
  \/ \E c \in Clients : HandlerStep(c) \/ Acquire(c) \/ Client(c)

-----------------------------------------------------------------------------
(* What answers rest on: the calls, the adapter and the processors *)

\* The operations whose answer is made of the containers given
Natives == {"send", "process", "stream", "send_batch"}

\* The service works on what a message made of a container.  The adapter
\* refuses no container but those of Refused, and loses no more on the second
\* way than on the first; a processor does not look at what the
\* message loses.
Transparent(container) ==
  LET message == to_grpc(container)
      native == from_grpc(message)
      Returns(given, sent) == /\ from_grpc(to_grpc(sent)) # Thrown
                              /\ Carried(given, from_grpc(to_grpc(sent)))
      Processed(p) ==
        IF Apply(p, container) = Thrown THEN Apply(p, native) = Thrown
        ELSE /\ Apply(p, native) # Thrown
             /\ IF to_grpc(Apply(p, native)) = Thrown THEN Refused(Apply(p, container))
                ELSE Returns(Apply(p, container), Apply(p, native))
  IN  IF message = Thrown THEN Refused(container)
      ELSE /\ native # Thrown /\ to_grpc(native) # Thrown /\ Returns(container, native)
           /\ \A p \in Processors \ {NoProcessor} : Processed(p)

\* The mutex of the processor is free or held by a client's handler.
ASSUME ProcessorAssumption == NoProcessor \notin Clients

\* A call is given a sequence of containers, one where it sends one, and the
\* adapter and the processors are transparent to them.
ASSUME CallsAssumption ==
  \A c \in Clients : \A x \in Calls[c] :
    /\ x.input \in Seq(ToSet(x.input))
    /\ x.op \in {"send", "process", "stream"} => Len(x.input) = 1
    /\ x.op = "stream_nothing" => x.input = << >>
    /\ x.op \in Natives => \A i \in DOMAIN NonNull(x.input) : Transparent(NonNull(x.input)[i])

-----------------------------------------------------------------------------
(* Properties *)

\* What a processor makes of a container on its way there and back
Expected(p, container, answer) ==
  IF p = NoProcessor THEN Carried(container, answer)
  ELSE Apply(p, container) # Thrown /\ Carried(Apply(p, container), answer)

\* An operation that reports success gives, for every container that is not
\* null and in their order, what the processor in force made of that very
\* container, less what is not carried: null containers, the contents of
\* arrays, all but the last value of a name, and every value that a container
\* read lazily has still in its text.  And an operation
\* fails only when it was cut off or refused, or when the processor or a
\* conversion failed on one of its containers.
AnswersFaithful ==
  \A c \in Clients :
    LET k == call[c]
        given == NonNull(k.input)
    IN  /\ k.answer = "success" /\ k.op \in Natives =>
             /\ Len(k.value) = Len(given)
             /\ \A i \in DOMAIN given : Expected(k.by[i], given[i], k.value[i])
        /\ k.answer = "failure" /\ ~k.dead =>
             \/ k.op \in {"send_nothing", "process_raw"}
             \/ \E i \in DOMAIN k.by : k.by[i] # NoProcessor /\ Apply(k.by[i], given[i]) = Thrown
             \/ \E i \in DOMAIN given : Refused(given[i])
                  \/ \E p \in Processors \ {NoProcessor} : Apply(p, given[i]) # Thrown /\ Refused(Apply(p, given[i]))

\* When no handler runs, every message the service received was sent back,
\* counted as an error, or put into a batch; only a request to stream nothing
\* leaves no other trace.
AccountsBalance ==
  ~(\E c \in Clients : Handling(c)) =>
    counts.received = counts.sent + counts.errors + ledger

\* A client of another make has a stream open, which it may never end.
ForeignStream == \E c \in Clients : call[c].op = "chat" /\ Handling(c)

\* stop returns: with a deadline whatever the clients do, because the handlers
\* of the calls it cuts off all end; without one when every stream that is
\* open is a grpc_client's, whose own deadline ends it.
ServerStops ==
  (server = "closing" \/ (server = "draining" /\ ~ForeignStream)) ~> (server = "none")

\* Handlers and the processor go on, the deadline of stop passes, and a
\* grpc_client goes on or meets the deadline that set_context_options gives
\* every call; clients of other makes owe nothing, and nobody is bound to
\* begin a call, to start or to stop.
GrpcFairness ==
  /\ WF_grpcVars(StopDeadline) /\ WF_grpcVars(StopEnd)
  /\ \A c \in Clients :
       /\ WF_grpcVars(HandlerStep(c)) /\ SF_grpcVars(Acquire(c))
       /\ WF_grpcVars(call[c].op \in Natives \cup {"get_status"} /\ (Write(c) \/ WritesDone(c) \/ FinishCall(c) \/ CutOff(c)))

GrpcSpec == GrpcInit /\ [][GrpcNext]_grpcVars /\ GrpcFairness
=============================================================================
