--------------------------- MODULE MCGrpcService ---------------------------
(* Two clients of a server with two processors: one client sends batches    *)
(* and streams, the other single containers.                                *)
EXTENDS GrpcService
CONSTANTS MAX_NESTING_DEPTH, Monostate, c1, c2, picky, wrap
INSTANCE GrpcAdapter

Container(h, vs) == [header |-> h, values |-> vs, text |-> << >>]
Plain == Container("h1", <<Value("a", "int_value", 1)>>)
Odd(h) == Container(h, <<Value("a", "array_value", <<7>>), Value("b", "container_value", Null),
                         Value("a", "int_value", 2)>>)
\* A container that was read lazily, before any value of it was used
Lazy == [header |-> "h7", values |-> << >>, text |-> <<Value("t", "int_value", 2)>>]
Nested == Container("h3", <<Value("n", "container_value", Plain), Value("l", "container_value", Lazy)>>)
\* What a container in a text becomes when it is parsed
Empty == Container("h8", <<Value("e", "container_value", Monostate)>>)

\* Messages of other clients: a field that is not the one the type names, and
\* a container that is nested too deep
Message(h, n, t, f, d) ==
  [header |-> h, version |-> "2", values |-> <<[name |-> n, type |-> t, field |-> [type |-> f, data |-> d]]>>]
Crossed ==
  Message("h5", "n", "container_value", "container_value", Message("h5", "x", "int_value", "string_value", <<1>>))
DeepMessage == Message("h4", "d", "container_value", "container_value", ToGrpc(Nested))

\* A processor that throws on some containers and stamps the others, and one
\* that wraps a container into another, perhaps one too many
MCApply(p, c) ==
  IF p = wrap THEN Container(c.header, <<Value("w", "container_value", c)>>)
  ELSE IF \E i \in DOMAIN c.values : c.values[i].type = "int_value" /\ c.values[i].data = 2 THEN Thrown
  ELSE [c EXCEPT !.values = Append(@, Value("stamp", "bool_value", TRUE))]

Op(o, in) == [op |-> o, input |-> in]
MCCalls == [c \in Clients |->
  IF c = c1
  THEN {Op("send_batch", <<Odd("h2"), Null, Odd("h6")>>), Op("chat", <<Crossed>>)}
  ELSE {Op("send", <<Plain>>), Op("process", <<Odd("h2")>>), Op("process", <<Empty>>), Op("stream", <<Nested>>),
        Op("send_nothing", << >>), Op("process_raw", <<DeepMessage>>), Op("stream_nothing", << >>),
        Op("get_status", << >>)}]
=============================================================================
