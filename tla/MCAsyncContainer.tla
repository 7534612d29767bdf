-------------------------- MODULE MCAsyncContainer --------------------------
(* Two tasks on one container and one file; encodings of one and three cells. *)
EXTENDS AsyncContainer

CONSTANT v

MCVersions == {v, Blank}
MCSize == [w \in MCVersions |-> IF w = v THEN 3 ELSE 1]

\* Writers against writers, writers against readers, and the rest; every
\* operation is somewhere.
MCMixes ==
  { {"save", "load"}, {"save", "write"}, {"write", "load_packet"}, {"save_packet", "read"},
    {"compute", "other"}, {"chunked", "serialize"}, {"part", "deserialize"} }
=============================================================================
