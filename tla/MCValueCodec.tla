---------------------------- MODULE MCValueCodec ----------------------------
(* Small instances of ValueCodec: scalars, text, and values nested twice. *)
EXTENDS ValueCodec

K1 == <<1>>
K2 == <<2, 0>>
MCKeys == {K1, K2}

One(k, v) == [j \in {k} |-> v]
Two(v, w) == [j \in MCKeys |-> IF j = K1 THEN v ELSE w]

Scalars == {Mk(<<>>, 0, Null), Mk(<<1>>, 1, 1), Mk(<<>>, 5, 0), Mk(<<1>>, 8, 3), Mk(<<>>, 9, 15)}
Texts == {Mk(<<>>, 12, <<>>), Mk(<<2>>, 12, <<0, 14>>), Mk(<<>>, 13, <<15>>)}
S == Mk(<<>>, 12, <<1>>)
L == Mk(<<>>, 8, 2)
N == Mk(K1, 5, 3)      \* a value under the name of its key, as operator[] makes it
Containers ==
  {Mk(<<>>, 14, c) : c \in {Null, EmptyMap, One(K1, S), One(K2, L), One(K1, N), Two(S, L)}}
Arrays == {Mk(<<>>, 15, a) : a \in {<<>>, <<Null>>, <<S, L>>, <<N, Null, S>>}}
Nested ==
  {Mk(<<>>, 14, Two(Mk(<<>>, 14, One(K1, S)), Mk(<<>>, 15, <<S, L>>))),
   Mk(<<>>, 15, <<Mk(<<>>, 14, Two(S, L)), Mk(<<>>, 15, <<S>>), Mk(<<>>, 14, Null)>>),
   Mk(<<>>, 15, <<Mk(<<>>, 14, EmptyMap), N, Mk(<<>>, 15, <<>>)>>)}
Misaligned ==
  {Mk(<<>>, 15, <<Mk(<<>>, 14, One(K1, N)), S>>),
   Mk(<<>>, 14, One(K1, Mk(<<>>, 15, <<Mk(<<>>, 14, One(K1, N)), S>>)))}
MCValues == Scalars \union Texts \union Containers \union Arrays \union Nested \union Misaligned

-----------------------------------------------------------------------------
(* Packets, with bytes of three bits *)
I(t, n) == Mk(K1, t, n)
E(t, d) == Mk(<<>>, t, d)
Plain(type, units) ==
  [header |-> [Fresh.header EXCEPT ![MessageType] = type, ![TargetId] = <<3, 3, 3, 3>>, ![SourceSubId] = <<1>>],
   units |-> units]
Small == Plain(<<2>>, <<E(bool_value, 1)>>)
Units ==
  {I(t, n) : t \in {short_value, llong_value}, n \in {-2049, -2048, -33, -32, -5, -4, -3, -2, -1, 0}}
  \union {I(t, n) : t \in {int_value, ullong_value}, n \in {3, 4, 7, 8, 63, 64, 2047, 2048, 4095, 4096, 8388607}}
  \union {I(ullong_value, 8388608), I(float_value, 9), I(double_value, 4097), I(null_value, Null), I(bool_value, 0)}
  \union {Mk(k, string_value, s) : k \in {<<>>, <<1, 2, 3, 4>>}, s \in {<<>>, <<1, 192, 5>>, <<1, 1, 1, 1>>, [i \in 1..9 |-> 2]}}
  \union {I(bytes_value, s) : s \in {<<>>, <<128>>, <<128, 1>>, <<7, 129>>, [i \in 1..9 |-> 2]}}
  \union {I(container_value, p) : p \in {Null, Small, Plain(DataContainer, <<>>), Plain(<<2>>, <<I(container_value, Small)>>)}}
  \union {I(array_value, a) : a \in
            {<<>>, <<E(int_value, 5), E(string_value, <<1, 161>>), E(null_value, Null)>>,
             <<E(container_value, Small), E(bytes_value, <<4>>), E(double_value, 5)>>, <<E(container_value, Null)>>,
             <<E(bool_value, 1), E(array_value, <<E(bool_value, 0)>>)>>, [i \in 1..6 |-> E(float_value, i)]}}
MCPackets ==
  {Plain(t, <<u>>) : t \in {DataContainer, <<5, 5>>}, u \in Units}
  \union {Plain(<<2>>, <<u, I(string_value, <<2>>)>>) : u \in {w \in Units : w.type >= float_value}}
  \union {Plain(<<2>>, <<>>), Plain(<<2>>, [i \in 1..6 |-> I(short_value, i)])}
\* An encoded packet with one array, [5, "3"]
PacketBytes ==
  <<130, 161, 0, 222, 0, 6, 161, 2, 217, 4, 3, 3, 3, 3, 161, 3, 160, 161, 4, 160, 161, 5, 161, 1, 161, 6, 161, 2,
    161, 7, 161, 1, 161, 1, 129, 161, 1, 146, 204, 5, 161, 3>>
MCPacketGarbage ==
  {ReplaceAt(PacketBytes, i, x) : i \in (1..Len(PacketBytes)) \ {5, 6},
                                  x \in {4, 128, 129, 145, 161, 192, 193, 197, 204}}
  \union {ReplaceAt(PacketBytes, 6, x) : x \in {0, 5, 7}}
  \union UNION {[1..n -> {128, 129, 160, 161, 1}] : n \in 0..3}

-----------------------------------------------------------------------------
Cells == {0, 1, 2, 14, 15}
MCGarbage ==
  UNION {[1..n -> Cells] : n \in 0..3}
  \union { <<0, 15, 2, 0, 14, 4, 1, 0, 0, 0, 0>>,             \* entry without a value, then an element
           <<0, 14, 11, 2, 0, 3, 0, 1, 2, 0, 3, 0, 1, 0>>,    \* a key twice
           <<0, 15, 1, 0, 14, 4, 1, 0, 0, 0>>,
           <<1, 1, 0, 2, 0, 0>>, <<1, 1, 0, 3, 0, 1, 2>>, <<1, 2, 0, 2, 0, 0>>, <<2, 0>> }
=============================================================================
