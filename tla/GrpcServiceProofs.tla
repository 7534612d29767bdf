------------------------- MODULE GrpcServiceProofs -------------------------
(***************************************************************************)
(* The accounts of container_service_impl balance, whatever the conversions *)
(* and the processors do, and what grpc_client reports is faithful to the  *)
(* containers given, when the adapter and the processors are transparent   *)
(* to them (CallsAssumption).                                              *)
(***************************************************************************)
EXTENDS GrpcService, FiniteSetTheorems, FunctionTheorems, SequenceTheorems, TLAPS

-----------------------------------------------------------------------------
(* The inductive invariant *)

\* A call is a record with the fields of NoCall.
IsCall(k) == DOMAIN k = DOMAIN NoCall

Handled(k) == k.handler \notin {"none", "ended"}
Holding == {"locking", "running", "replying"}

\* What a handler keeps of a batch; the handlers of the other calls keep nothing.
Kept(k) ==
  /\ IsCall(k) /\ k.failed \in Nat /\ k.results \in Seq(ToSet(k.results))
  /\ Handled(k) => k.op # "none"
  /\ Handled(k) /\ (k.handler = "called" \/ Rpc(k.op) # "CollectContainers") =>
       k.failed = 0 /\ k.results = << >>

\* The messages a handler has received and not yet accounted for: the one it
\* works on, and those of the batch it has not answered
Owes(k) == (IF k.handler \in Holding THEN 1 ELSE 0) + (IF Handled(k) THEN k.failed + Len(k.results) ELSE 0)
Owed == [c \in Clients |-> Owes(call[c])]

Units(f) == UNION {{x} \X (1..f[x]) : x \in DOMAIN f}
Total(f) == Cardinality(Units(f))

CountsOK == counts \in [requests : Nat, errors : Nat, received : Nat, sent : Nat] /\ ledger \in Nat

AccountsInv ==
  /\ CountsOK
  /\ DOMAIN call = Clients /\ \A c \in Clients : Kept(call[c])
  /\ IsFiniteSet(Units(Owed))
  /\ counts.received = counts.sent + counts.errors + ledger + Total(Owed)

-----------------------------------------------------------------------------
(* Sums *)

\* One more summand
LEMMA UnitsAdd ==
  ASSUME NEW f, NEW g, NEW x, x \notin DOMAIN f, DOMAIN g = DOMAIN f \union {x},
         \A y \in DOMAIN f : g[y] = f[y], g[x] \in Nat
  PROVE  /\ IsFiniteSet(Units(f)) <=> IsFiniteSet(Units(g))
         /\ IsFiniteSet(Units(f)) => Total(f) \in Nat /\ Total(g) = Total(f) + g[x]
  <1> DEFINE n == g[x]
             C == {x} \X (1..n)
             h == [i \in 1..n |-> <<x, i>>]
  <1>1. IsFiniteSet(C) /\ Cardinality(C) = n
    <2>1. h \in Bijection(1..n, C)
      <3>1. h \in [1..n -> C] /\ \A i, j \in 1..n : h[i] = h[j] => i = j
        OBVIOUS
      <3>2. \A c \in C : \E i \in 1..n : h[i] = c
        OBVIOUS
      <3> QED
        BY <3>1, <3>2 DEF Bijection, Injection, Surjection, IsInjective
    <2>2. ExistsBijection(1..n, C)
      BY <2>1 DEF ExistsBijection
    <2>3. IsFiniteSet(1..n) /\ Cardinality(1..n) = n
      BY FS_Interval
    <2> HIDE DEF n, C
    <2> QED
      BY <2>2, <2>3, FS_Bijection
  <1>2. Units(g) = Units(f) \union C /\ Units(f) \cap C = {}
    BY DEF Units
  <1>3. ASSUME IsFiniteSet(Units(g)) PROVE IsFiniteSet(Units(f))
    BY <1>2, <1>3, FS_Subset
  <1>4. ASSUME IsFiniteSet(Units(f))
        PROVE  IsFiniteSet(Units(g)) /\ Total(f) \in Nat /\ Total(g) = Total(f) + n
    <2>1. n \in Nat
      OBVIOUS
    <2> HIDE DEF C, n
    <2>2. Cardinality(Units(f)) \in Nat
      BY <1>4, FS_CardinalityType
    <2>3. /\ IsFiniteSet(Units(f) \union C)
          /\ Cardinality(Units(f) \union C) = Cardinality(Units(f)) + n - Cardinality(Units(f) \cap C)
      BY <1>1, <1>4, FS_Union
    <2>4. Cardinality(Units(f) \cap C) = 0
      BY <1>2, FS_EmptySet
    <2> QED
      BY <1>2, <2>1, <2>2, <2>3, <2>4 DEF Total
  <1> QED
    BY <1>3, <1>4

\* One summand changes.
LEMMA UnitsChange ==
  ASSUME NEW f, NEW g, NEW x \in DOMAIN f, DOMAIN g = DOMAIN f,
         \A y \in DOMAIN f \ {x} : g[y] = f[y], f[x] \in Nat, g[x] \in Nat, IsFiniteSet(Units(f))
  PROVE  /\ IsFiniteSet(Units(g)) /\ Total(f) \in Nat /\ Total(g) \in Nat
         /\ Total(g) + f[x] = Total(f) + g[x]
  <1> DEFINE h == [y \in DOMAIN f \ {x} |-> f[y]]
  <1>1. /\ x \notin DOMAIN h /\ DOMAIN f = DOMAIN h \union {x} /\ DOMAIN g = DOMAIN h \union {x}
        /\ \A y \in DOMAIN h : f[y] = h[y] /\ g[y] = h[y]
    OBVIOUS
  <1> HIDE DEF h
  <1>2. IsFiniteSet(Units(h)) /\ Total(h) \in Nat /\ Total(f) = Total(h) + f[x]
    BY <1>1, UnitsAdd
  <1>3. IsFiniteSet(Units(g)) /\ Total(g) = Total(h) + g[x]
    BY <1>1, <1>2, UnitsAdd
  <1> QED
    BY <1>2, <1>3

\* The sum of nothing
LEMMA UnitsNone ==
  ASSUME NEW f, \A x \in DOMAIN f : f[x] = 0
  PROVE  IsFiniteSet(Units(f)) /\ Total(f) = 0
  <1>1. Units(f) = {}
    BY DEF Units
  <1> QED
    BY <1>1, FS_EmptySet DEF Total

-----------------------------------------------------------------------------
(* Calls *)

LEMMA CallFields ==
  DOMAIN NoCall = {"op", "input", "client", "handler", "toWrite", "inbox", "writesDone", "dead", "native",
                   "results", "replies", "failed", "status", "success", "value", "answer", "by"}
  BY DEF NoCall

LEMMA OwesNat ==
  ASSUME NEW k, Kept(k)
  PROVE  Owes(k) \in Nat
  BY DEF Owes, Kept

\* What the answer leaves of a call
LEMMA RespondEffect ==
  ASSUME NEW k, Kept(k), NEW status, NEW success, NEW results, results \in Seq(ToSet(results))
  PROVE  Kept(Respond(k, status, success, results)) /\ Owes(Respond(k, status, success, results)) = 0
  BY CallFields DEF Kept, IsCall, Respond, Owes, Handled, Holding

LEMMA EmptyResults == << >> \in Seq(ToSet(<< >>))
  OBVIOUS

LEMMA AppendOwn ==
  ASSUME NEW s, s \in Seq(ToSet(s)), NEW m
  PROVE  Append(s, m) \in Seq(ToSet(Append(s, m))) /\ Len(Append(s, m)) = Len(s) + 1
  <1> DEFINE t == Append(s, m)
  <1>1. \A i \in 1..Len(s) : s[i] \in ToSet(s)
    BY DEF ToSet
  <1>2. s \in Seq(ToSet(s) \union {m})
    BY <1>1
  <1>3. /\ t \in Seq(ToSet(s) \union {m}) /\ Len(t) = Len(s) + 1
        /\ Len(t) \in Nat /\ DOMAIN t = 1..Len(t)
    BY <1>2
  <1>4. \A i \in 1..Len(t) : t[i] \in ToSet(t)
    BY <1>3 DEF ToSet
  <1> HIDE DEF t
  <1>5. t \in Seq(ToSet(t))
    BY <1>3, <1>4
  <1> QED
    BY <1>3, <1>5 DEF t

\* Two calls that owe the same
LEMMA SameKept ==
  ASSUME NEW k, Kept(k), NEW l, IsCall(l), l.op = k.op, l.handler = k.handler, l.failed = k.failed,
         l.results = k.results
  PROVE  Kept(l) /\ Owes(l) = Owes(k)
  BY DEF Kept, Owes, Handled

\* A handler that works on a message fails, and drops it.
LEMMA FailedEffect ==
  ASSUME NEW k, Kept(k), Handled(k), k.handler = "called" => Rpc(k.op) \in {"SendContainer", "ProcessContainer", "StreamContainers"}
  PROVE  /\ Kept(Failed(k)) /\ ErrorsNow(k) \in Nat
         /\ Owes(Failed(k)) + ErrorsNow(k) = k.failed + Len(k.results) + 1
  <1>1. CASE Rpc(k.op) = "CollectContainers"
    <2>1. Failed(k) = [k EXCEPT !.handler = "reading", !.failed = @ + 1] /\ ErrorsNow(k) = 0
      BY <1>1 DEF Failed, ErrorsNow
    <2> QED
      BY <1>1, <2>1, CallFields DEF Kept, IsCall, Owes, Handled, Holding
  <1>2. CASE Rpc(k.op) \in {"SendContainer", "ProcessContainer", "StreamContainers"}
    <2>1. k.failed = 0 /\ k.results = << >> /\ ErrorsNow(k) = 1
      BY <1>2 DEF Kept, ErrorsNow
    <2>2. PICK status : Failed(k) = Respond(k, status, FALSE, << >>)
      BY <1>2 DEF Failed
    <2>3. Kept(Failed(k)) /\ Owes(Failed(k)) = 0
      BY <2>2, RespondEffect, EmptyResults
    <2> QED
      BY <2>1, <2>3
  <1>3. CASE Rpc(k.op) \notin {"CollectContainers", "SendContainer", "ProcessContainer", "StreamContainers"}
    <2>1. Failed(k) = [k EXCEPT !.handler = "reading"] /\ ErrorsNow(k) = 1
      BY <1>3 DEF Failed, ErrorsNow
    <2> QED
      BY <1>3, <2>1, CallFields DEF Kept, IsCall, Owes, Handled, Holding
  <1> QED
    BY <1>1, <1>2, <1>3

-----------------------------------------------------------------------------
(* Steps *)

\* The counters go up by e, i and s, the ledger by l.
Booked(e, i, s, l) ==
  /\ CountsOK'
  /\ counts'.errors = counts.errors + e /\ counts'.received = counts.received + i
  /\ counts'.sent = counts.sent + s /\ ledger' = ledger + l

\* What a call owed and what it owes now make up for what is booked.
Settles(before, after, e, i, s, l) == i + before = e + s + l + after

LEMMA CountEffect ==
  ASSUME CountsOK, NEW r \in Nat, NEW e \in Nat, NEW i \in Nat, NEW s \in Nat, NEW l \in Nat,
         Count(r, e, i, s), ledger' = ledger + l
  PROVE  Booked(e, i, s, l)
  BY DEF CountsOK, Count, Booked

LEMMA CountOnly ==
  ASSUME CountsOK, NEW r \in Nat, NEW e \in Nat, NEW i \in Nat, NEW s \in Nat, Count(r, e, i, s), ledger' = ledger
  PROVE  Booked(e, i, s, 0)
  <1>1. ledger' = ledger + 0
    BY DEF CountsOK
  <1> QED
    BY <1>1, CountEffect

LEMMA NothingBooked ==
  ASSUME CountsOK, UNCHANGED <<counts, ledger>>
  PROVE  Booked(0, 0, 0, 0)
  BY DEF CountsOK, Booked

\* A step of one call books what the call owed before and does not owe now.
LEMMA Balance ==
  ASSUME AccountsInv, NEW c \in Clients, NEW k, call' = [call EXCEPT ![c] = k], Kept(k),
         NEW e \in Nat, NEW i \in Nat, NEW s \in Nat, NEW l \in Nat, Booked(e, i, s, l),
         Settles(Owes(call[c]), Owes(k), e, i, s, l)
  PROVE  AccountsInv'
  <1>1. /\ DOMAIN call' = Clients /\ call'[c] = k
        /\ \A d \in Clients \ {c} : call'[d] = call[d]
    BY DEF AccountsInv
  <1>2. \A d \in Clients : Kept(call'[d])
    BY <1>1 DEF AccountsInv
  <1>3. Owes(call[c]) \in Nat /\ Owes(k) \in Nat
    BY OwesNat DEF AccountsInv
  <1> DEFINE f == Owed
             g == Owed'
  <1>4. /\ c \in DOMAIN f /\ DOMAIN g = DOMAIN f /\ \A d \in DOMAIN f \ {c} : g[d] = f[d]
        /\ f[c] = Owes(call[c]) /\ g[c] = Owes(k)
    BY <1>1 DEF Owed
  <1>5. IsFiniteSet(Units(f)) /\ counts.received = counts.sent + counts.errors + ledger + Total(f)
    BY DEF AccountsInv
  <1> HIDE DEF f, g
  <1>6. /\ IsFiniteSet(Units(g)) /\ Total(f) \in Nat /\ Total(g) \in Nat
        /\ Total(g) + Owes(call[c]) = Total(f) + Owes(k)
    BY <1>3, <1>4, <1>5, UnitsChange
  <1>7. /\ counts.received \in Nat /\ counts.sent \in Nat /\ counts.errors \in Nat /\ ledger \in Nat
    BY DEF AccountsInv, CountsOK
  <1>8. counts'.received = counts'.sent + counts'.errors + ledger' + Total(g)
    BY <1>3, <1>5, <1>6, <1>7 DEF Booked, Settles
  <1> QED
    BY <1>1, <1>2, <1>6, <1>8 DEF f, g, AccountsInv, Booked

LEMMA KeptCall ==
  ASSUME AccountsInv, NEW c \in Clients
  PROVE  Kept(call[c]) /\ IsCall(call[c]) /\ CountsOK /\ Owes(call[c]) \in Nat
  BY OwesNat DEF AccountsInv, Kept

\* A step of the client leaves the handler's account alone.
LEMMA ClientBalance ==
  ASSUME AccountsInv, NEW c \in Clients, NEW k, call' = [call EXCEPT ![c] = k], IsCall(k),
         k.op = call[c].op, k.handler = call[c].handler, k.failed = call[c].failed, k.results = call[c].results,
         UNCHANGED <<counts, ledger>>
  PROVE  AccountsInv'
  <1>1. Kept(k) /\ Owes(k) = Owes(call[c]) /\ Owes(call[c]) \in Nat
    BY KeptCall, SameKept
  <1>2. Booked(0, 0, 0, 0)
    BY NothingBooked, KeptCall
  <1>3. Settles(Owes(call[c]), Owes(k), 0, 0, 0, 0)
    BY <1>1 DEF Settles
  <1> QED
    BY <1>1, <1>2, <1>3, Balance

LEMMA BeginAccounts ==
  ASSUME AccountsInv, NEW c \in Clients, NEW x, NEW messages, NEW done \in BOOLEAN, Begin(c, x, messages, done),
         x.op # "none"
  PROVE  AccountsInv'
  <1> DEFINE new == [NoCall EXCEPT !.op = x.op, !.input = x.input]
             refused == [new EXCEPT !.answer = "failure", !.dead = TRUE]
             begun == [new EXCEPT !.client = IF done THEN "waiting" ELSE "writing", !.handler = "called",
                                  !.inbox = IF done THEN messages ELSE << >>, !.writesDone = done,
                                  !.toWrite = IF done THEN << >> ELSE messages]
             k == IF (x.op # "send_batch" /\ Thrown \in ToSet(messages)) \/ server # "up" THEN refused ELSE begun
  <1>1. call' = [call EXCEPT ![c] = k] /\ UNCHANGED <<counts, ledger>> /\ ~Handled(call[c])
    BY DEF Begin, Handling, Handled
  <1>2. IsCall(new) /\ new.op = x.op /\ new.handler = "none" /\ new.failed = 0 /\ new.results = << >>
    BY DEF IsCall, NoCall
  <1>3. /\ IsCall(refused) /\ refused.op = x.op /\ refused.handler = "none" /\ refused.failed = 0
        /\ refused.results = << >>
    BY <1>2, CallFields DEF IsCall
  <1>4. /\ IsCall(begun) /\ begun.op = x.op /\ begun.handler = "called" /\ begun.failed = 0
        /\ begun.results = << >>
    BY <1>2, CallFields DEF IsCall
  <1> HIDE DEF new, refused, begun
  <1>5. Kept(k) /\ Owes(k) = 0
    <2>1. Kept(refused) /\ Owes(refused) = 0
      BY <1>3, EmptyResults DEF Kept, Owes, Handled, Holding
    <2>2. Kept(begun) /\ Owes(begun) = 0
      BY <1>4, EmptyResults DEF Kept, Owes, Handled, Holding
    <2> QED
      BY <2>1, <2>2
  <1>6. Owes(call[c]) = 0
    BY <1>1 DEF Owes, Handled, Holding
  <1>7. Booked(0, 0, 0, 0)
    BY <1>1, NothingBooked, KeptCall
  <1> HIDE DEF k
  <1>8. Settles(Owes(call[c]), Owes(k), 0, 0, 0, 0)
    BY <1>5, <1>6 DEF Settles
  <1>9. Kept(k) /\ call' = [call EXCEPT ![c] = k]
    BY <1>1, <1>5
  <1> QED
    BY <1>7, <1>8, <1>9, Balance

\* The steps of the client: an update of any field the accounts do not look at
LEMMA AnsweredEffect ==
  ASSUME NEW c, IsCall(call[c]), NEW a
  PROVE  /\ IsCall(Answered(c, a)) /\ IsCall([Answered(c, a) EXCEPT !.dead = TRUE])
         /\ Answered(c, a).op = call[c].op /\ Answered(c, a).handler = call[c].handler
         /\ Answered(c, a).failed = call[c].failed /\ Answered(c, a).results = call[c].results
         /\ [Answered(c, a) EXCEPT !.dead = TRUE].op = call[c].op
         /\ [Answered(c, a) EXCEPT !.dead = TRUE].handler = call[c].handler
         /\ [Answered(c, a) EXCEPT !.dead = TRUE].failed = call[c].failed
         /\ [Answered(c, a) EXCEPT !.dead = TRUE].results = call[c].results
  BY CallFields DEF Answered, IsCall

LEMMA WriteAccounts ==
  ASSUME AccountsInv, NEW c \in Clients, Write(c)
  PROVE  AccountsInv'
  <1> DEFINE m == Head(call[c].toWrite)
             broken == [call[c] EXCEPT !.toWrite = << >>]
             written == [call[c] EXCEPT !.toWrite = Tail(@), !.inbox = Append(@, m)]
             cut == [Answered(c, "failure") EXCEPT !.dead = TRUE]
             k == IF m = Thrown THEN cut ELSE IF call[c].dead THEN broken ELSE written
  <1>1. call' = [call EXCEPT ![c] = k] /\ UNCHANGED <<counts, ledger>>
    BY DEF Write
  <1>2. /\ IsCall(broken) /\ broken.op = call[c].op /\ broken.handler = call[c].handler
        /\ broken.failed = call[c].failed /\ broken.results = call[c].results
    BY KeptCall, CallFields DEF IsCall
  <1>3. /\ IsCall(written) /\ written.op = call[c].op /\ written.handler = call[c].handler
        /\ written.failed = call[c].failed /\ written.results = call[c].results
    BY KeptCall, CallFields DEF IsCall
  <1>4. /\ IsCall(cut) /\ cut.op = call[c].op /\ cut.handler = call[c].handler
        /\ cut.failed = call[c].failed /\ cut.results = call[c].results
    BY KeptCall, AnsweredEffect
  <1> HIDE DEF m, broken, written, cut
  <1>5. /\ IsCall(k) /\ k.op = call[c].op /\ k.handler = call[c].handler
        /\ k.failed = call[c].failed /\ k.results = call[c].results
    BY <1>2, <1>3, <1>4
  <1> HIDE DEF k
  <1> QED
    BY <1>1, <1>5, ClientBalance

LEMMA WritesDoneAccounts ==
  ASSUME AccountsInv, NEW c \in Clients, WritesDone(c)
  PROVE  AccountsInv'
  <1> DEFINE k == [call[c] EXCEPT !.client = "waiting", !.writesDone = TRUE]
  <1>1. call' = [call EXCEPT ![c] = k] /\ UNCHANGED <<counts, ledger>>
    BY DEF WritesDone, AccountsInv
  <1>2. /\ IsCall(k) /\ k.op = call[c].op /\ k.handler = call[c].handler
        /\ k.failed = call[c].failed /\ k.results = call[c].results
    BY KeptCall, CallFields DEF IsCall
  <1> HIDE DEF k
  <1> QED
    BY <1>1, <1>2, ClientBalance

LEMMA ReadReplyAccounts ==
  ASSUME AccountsInv, NEW c \in Clients, NEW throws \in BOOLEAN, ReadReply(c, throws)
  PROVE  AccountsInv'
  <1> DEFINE native == from_grpc(Head(call[c].replies))
             cut == [Answered(c, "failure") EXCEPT !.dead = TRUE]
             left == IF throws THEN cut ELSE call[c]
             read == [left EXCEPT !.replies = Tail(@), !.value = Append(@, native)]
             k == IF native = Thrown THEN cut ELSE read
  <1>1. call' = [call EXCEPT ![c] = k] /\ UNCHANGED <<counts, ledger>>
    BY DEF ReadReply
  <1>2. /\ IsCall(cut) /\ cut.op = call[c].op /\ cut.handler = call[c].handler
        /\ cut.failed = call[c].failed /\ cut.results = call[c].results
    BY KeptCall, AnsweredEffect
  <1> HIDE DEF cut, native
  <1>3. /\ IsCall(left) /\ left.op = call[c].op /\ left.handler = call[c].handler
        /\ left.failed = call[c].failed /\ left.results = call[c].results
    BY <1>2, KeptCall
  <1> HIDE DEF left
  <1>4. /\ IsCall(read) /\ read.op = call[c].op /\ read.handler = call[c].handler
        /\ read.failed = call[c].failed /\ read.results = call[c].results
    BY <1>3, CallFields DEF IsCall
  <1> HIDE DEF read
  <1>5. /\ IsCall(k) /\ k.op = call[c].op /\ k.handler = call[c].handler
        /\ k.failed = call[c].failed /\ k.results = call[c].results
    BY <1>2, <1>4
  <1> HIDE DEF k
  <1> QED
    BY <1>1, <1>5, ClientBalance

LEMMA FinishCallAccounts ==
  ASSUME AccountsInv, NEW c \in Clients, FinishCall(c)
  PROVE  AccountsInv'
  <1>1. PICK a, v : /\ call' = [call EXCEPT ![c] = [Answered(c, a) EXCEPT !.value = v]]
                    /\ UNCHANGED <<counts, ledger>>
    BY DEF FinishCall
  <1> DEFINE k == [Answered(c, a) EXCEPT !.value = v]
  <1>2. /\ IsCall(k) /\ k.op = call[c].op /\ k.handler = call[c].handler
        /\ k.failed = call[c].failed /\ k.results = call[c].results
    BY KeptCall, AnsweredEffect, CallFields DEF IsCall
  <1> HIDE DEF k
  <1> QED
    BY <1>1, <1>2, ClientBalance DEF k

LEMMA CutOffAccounts ==
  ASSUME AccountsInv, NEW c \in Clients, CutOff(c)
  PROVE  AccountsInv'
  <1> DEFINE k == [Answered(c, "failure") EXCEPT !.dead = TRUE]
  <1>1. call' = [call EXCEPT ![c] = k] /\ UNCHANGED <<counts, ledger>>
    BY DEF CutOff
  <1>2. /\ IsCall(k) /\ k.op = call[c].op /\ k.handler = call[c].handler
        /\ k.failed = call[c].failed /\ k.results = call[c].results
    BY KeptCall, AnsweredEffect
  <1> HIDE DEF k
  <1> QED
    BY <1>1, <1>2, ClientBalance

LEMMA ClientAccounts ==
  ASSUME AccountsInv, NEW c \in Clients, Client(c)
  PROVE  AccountsInv'
  <1>1. ASSUME NEW x \in Calls[c],
               Send(c, x) \/ Process(c, x) \/ Stream(c, x) \/ SendBatch(c, x) \/ GetStatus(c, x) \/ OtherClient(c, x)
        PROVE  AccountsInv'
    <2>1. x.op # "none" /\ \E messages : Begin(c, x, messages, TRUE) \/ Begin(c, x, messages, FALSE)
      <3>1. CASE Send(c, x)
        BY <3>1 DEF Send
      <3>2. CASE Process(c, x)
        BY <3>2 DEF Process
      <3>3. CASE Stream(c, x)
        BY <3>3 DEF Stream
      <3>4. CASE SendBatch(c, x)
        BY <3>4 DEF SendBatch
      <3>5. CASE GetStatus(c, x)
        BY <3>5 DEF GetStatus
      <3>6. CASE OtherClient(c, x)
        BY <3>6 DEF OtherClient
      <3> QED
        BY <1>1, <3>1, <3>2, <3>3, <3>4, <3>5, <3>6
    <2> QED
      BY <2>1, BeginAccounts
  <1> QED
    BY <1>1, WriteAccounts, WritesDoneAccounts, ReadReplyAccounts, FinishCallAccounts, CutOffAccounts DEF Client

-----------------------------------------------------------------------------
(* Handlers *)

\* A handler goes on with a message that it has read.
LEMMA LockingEffect ==
  ASSUME NEW k, Kept(k), k.handler \in {"called", "reading"}, NEW native
  PROVE  LET l == [k EXCEPT !.handler = "locking", !.native = native]
         IN  Kept(l) /\ Owes(l) = Owes(k) + 1
  BY CallFields DEF Kept, IsCall, Owes, Handled, Holding

LEMMA ConvertedAccounts ==
  ASSUME AccountsInv, NEW c \in Clients, call[c].handler = "called",
         Rpc(call[c].op) \in {"SendContainer", "ProcessContainer", "StreamContainers"},
         NEW m, NEW r \in Nat, Converted(c, m, r), ledger' = ledger
  PROVE  AccountsInv'
  <1> DEFINE native == from_grpc(m)
             rec == [call[c] EXCEPT !.handler = "locking", !.native = native]
             k == IF native = Thrown THEN Failed(call[c]) ELSE rec
             e == IF native = Thrown THEN ErrorsNow(call[c]) ELSE 0
  <1>1. call' = [call EXCEPT ![c] = k] /\ Count(r, e, 1, 0)
    BY DEF Converted
  <1>2. Kept(call[c]) /\ Owes(call[c]) = 0
    BY KeptCall DEF Owes, Kept, Handled, Holding
  <1>3. Kept(rec) /\ Owes(rec) = 1
    <2>1. Kept(rec) /\ Owes(rec) = Owes(call[c]) + 1
      BY <1>2, LockingEffect
    <2> QED
      BY <1>2, <2>1
  <1>4. Kept(Failed(call[c])) /\ ErrorsNow(call[c]) \in Nat /\ Owes(Failed(call[c])) + ErrorsNow(call[c]) = 1
    <2>1. Handled(call[c]) /\ call[c].failed = 0 /\ call[c].results = << >>
      BY <1>2 DEF Kept, Handled
    <2> QED
      BY <1>2, <2>1, FailedEffect
  <1> HIDE DEF native, rec
  <1>5. Kept(k) /\ e \in Nat /\ Owes(k) \in Nat /\ Owes(k) + e = 1
    BY <1>3, <1>4, OwesNat
  <1> HIDE DEF k, e
  <1>6. Booked(e, 1, 0, 0)
    BY <1>1, <1>5, CountOnly, KeptCall
  <1>7. Settles(Owes(call[c]), Owes(k), e, 1, 0, 0)
    BY <1>2, <1>5 DEF Settles
  <1> QED
    BY <1>1, <1>5, <1>6, <1>7, Balance

LEMMA SendContainerAccounts ==
  ASSUME AccountsInv, NEW c \in Clients, SendContainer(c)
  PROVE  AccountsInv'
  <1>0. call[c].handler = "called" /\ Rpc(call[c].op) = "SendContainer" /\ ledger' = ledger
    BY DEF SendContainer, Called, IsRpc
  <1>1. CASE call[c].inbox = << >>
    <2> DEFINE k == Respond(call[c], "OK", FALSE, << >>)
    <2>1. call' = [call EXCEPT ![c] = k] /\ Count(1, 1, 1, 0)
      BY <1>1 DEF SendContainer
    <2>2. Kept(k) /\ Owes(k) = 0
      BY KeptCall, RespondEffect, EmptyResults
    <2>3. Owes(call[c]) = 0
      BY <1>0, KeptCall DEF Owes, Kept, Handled, Holding
    <2> HIDE DEF k
    <2>4. Booked(1, 1, 0, 0)
      BY <1>0, <2>1, CountOnly, KeptCall
    <2>5. Settles(Owes(call[c]), Owes(k), 1, 1, 0, 0)
      BY <2>2, <2>3 DEF Settles
    <2>6. Kept(k)
      BY <2>2
    <2> QED
      BY <2>1, <2>4, <2>5, <2>6, Balance
  <1>2. CASE call[c].inbox # << >>
    <2>1. Converted(c, call[c].inbox[1], 1)
      BY <1>2 DEF SendContainer
    <2> QED
      BY <1>0, <2>1, ConvertedAccounts
  <1> QED
    BY <1>1, <1>2

LEMMA ProcessContainerAccounts ==
  ASSUME AccountsInv, NEW c \in Clients, ProcessContainer(c)
  PROVE  AccountsInv'
  <1>1. /\ call[c].handler = "called" /\ Rpc(call[c].op) = "ProcessContainer" /\ ledger' = ledger
        /\ Converted(c, call[c].inbox[1], 1)
    BY DEF ProcessContainer, Called, IsRpc
  <1> QED
    BY <1>1, ConvertedAccounts

LEMMA StreamContainersAccounts ==
  ASSUME AccountsInv, NEW c \in Clients, StreamContainers(c)
  PROVE  AccountsInv'
  <1>0. call[c].handler = "called" /\ Rpc(call[c].op) = "StreamContainers"
    BY DEF StreamContainers, Called, IsRpc
  <1>1. CASE call[c].inbox = << >>
    <2> DEFINE k == Respond(call[c], "OK", FALSE, << >>)
    <2>1. call' = [call EXCEPT ![c] = k] /\ Count(1, 0, 1, 0) /\ ledger' = ledger + 1
      BY <1>1 DEF StreamContainers
    <2>2. Kept(k) /\ Owes(k) = 0
      BY KeptCall, RespondEffect, EmptyResults
    <2>3. Owes(call[c]) = 0
      BY <1>0, KeptCall DEF Owes, Kept, Handled, Holding
    <2> HIDE DEF k
    <2>4. Booked(0, 1, 0, 1)
      BY <2>1, CountEffect, KeptCall
    <2>5. Settles(Owes(call[c]), Owes(k), 0, 1, 0, 1)
      BY <2>2, <2>3 DEF Settles
    <2>6. Kept(k)
      BY <2>2
    <2> QED
      BY <2>1, <2>4, <2>5, <2>6, Balance
  <1>2. CASE call[c].inbox # << >>
    <2>1. Converted(c, call[c].inbox[1], 1) /\ ledger' = ledger
      BY <1>2 DEF StreamContainers
    <2> QED
      BY <1>0, <2>1, ConvertedAccounts
  <1> QED
    BY <1>1, <1>2

LEMMA OpenStreamAccounts ==
  ASSUME AccountsInv, NEW c \in Clients, OpenStream(c)
  PROVE  AccountsInv'
  <1> DEFINE k == [call[c] EXCEPT !.handler = "reading"]
  <1>1. call' = [call EXCEPT ![c] = k] /\ Count(1, 0, 0, 0) /\ ledger' = ledger /\ call[c].handler = "called"
    BY DEF OpenStream, Called, AccountsInv
  <1>2. Kept(k) /\ Owes(k) = 0 /\ Owes(call[c]) = 0
    BY <1>1, KeptCall, CallFields DEF Kept, IsCall, Owes, Handled, Holding
  <1> HIDE DEF k
  <1>3. Booked(0, 0, 0, 0)
    BY <1>1, CountOnly, KeptCall
  <1>4. Settles(Owes(call[c]), Owes(k), 0, 0, 0, 0)
    BY <1>2 DEF Settles
  <1> QED
    BY <1>1, <1>2, <1>3, <1>4, Balance

LEMMA ReadMessageAccounts ==
  ASSUME AccountsInv, NEW c \in Clients, ReadMessage(c)
  PROVE  AccountsInv'
  <1> DEFINE rest == [call[c] EXCEPT !.inbox = Tail(@)]
             native == from_grpc(Head(call[c].inbox))
             locking == [rest EXCEPT !.handler = "locking", !.native = native]
             k == IF native = Thrown THEN Failed(rest) ELSE locking
             e == IF native = Thrown THEN ErrorsNow(call[c]) ELSE 0
  <1>1. call' = [call EXCEPT ![c] = k] /\ Count(0, e, 1, 0) /\ ledger' = ledger /\ call[c].handler = "reading"
    BY DEF ReadMessage
  <1>2. /\ IsCall(rest) /\ rest.op = call[c].op /\ rest.handler = call[c].handler
        /\ rest.failed = call[c].failed /\ rest.results = call[c].results
    BY KeptCall, CallFields DEF IsCall
  <1> HIDE DEF rest
  <1>3. Kept(rest) /\ Owes(rest) = Owes(call[c]) /\ Owes(call[c]) \in Nat
    BY <1>2, KeptCall, SameKept
  <1>4. Kept(locking) /\ Owes(locking) = Owes(rest) + 1
    BY <1>1, <1>2, <1>3, LockingEffect
  <1>5. /\ Kept(Failed(rest)) /\ ErrorsNow(call[c]) \in Nat
        /\ Owes(Failed(rest)) + ErrorsNow(call[c]) = Owes(rest) + 1
    <2>1. Handled(rest) /\ Owes(rest) = rest.failed + Len(rest.results)
      BY <1>1, <1>2, <1>3 DEF Handled, Owes, Holding, Kept
    <2>2. /\ Kept(Failed(rest)) /\ ErrorsNow(rest) \in Nat
          /\ Owes(Failed(rest)) + ErrorsNow(rest) = rest.failed + Len(rest.results) + 1
      BY <1>1, <1>2, <1>3, <2>1, FailedEffect
    <2>3. ErrorsNow(call[c]) = ErrorsNow(rest)
      BY <1>2 DEF ErrorsNow
    <2> QED
      BY <2>1, <2>2, <2>3
  <1> HIDE DEF native, locking
  <1>6. Kept(k) /\ e \in Nat /\ Owes(k) \in Nat /\ Owes(k) + e = Owes(call[c]) + 1
    BY <1>3, <1>4, <1>5, OwesNat
  <1> HIDE DEF k, e
  <1>7. Booked(e, 1, 0, 0)
    BY <1>1, <1>6, CountOnly, KeptCall
  <1>8. Settles(Owes(call[c]), Owes(k), e, 1, 0, 0)
    BY <1>3, <1>6 DEF Settles
  <1>9. Kept(k) /\ e \in Nat /\ call' = [call EXCEPT ![c] = k]
    BY <1>1, <1>6
  <1> QED
    BY <1>7, <1>8, <1>9, Balance

LEMMA CollectEndsAccounts ==
  ASSUME AccountsInv, NEW c \in Clients, CollectEnds(c)
  PROVE  AccountsInv'
  <1> DEFINE k == Respond(call[c], "OK", call[c].failed = 0, call[c].results)
             e == call[c].failed
             l == Len(call[c].results)
  <1>1. /\ call' = [call EXCEPT ![c] = k] /\ Count(0, e, 0, 0) /\ ledger' = ledger + l
        /\ call[c].handler = "reading"
    BY DEF CollectEnds, ReadOver
  <1>2. Kept(k) /\ Owes(k) = 0 /\ e \in Nat /\ l \in Nat
    BY KeptCall, RespondEffect DEF Kept
  <1>3. Owes(call[c]) = e + l
    BY <1>1, KeptCall DEF Owes, Handled, Holding, Kept
  <1> HIDE DEF k, e, l
  <1>4. Booked(e, 0, 0, l)
    BY <1>1, <1>2, CountEffect, KeptCall
  <1>5. Settles(Owes(call[c]), Owes(k), e, 0, 0, l)
    BY <1>2, <1>3 DEF Settles
  <1>6. Kept(k) /\ e \in Nat /\ l \in Nat /\ call' = [call EXCEPT ![c] = k]
    BY <1>1, <1>2
  <1> QED
    BY <1>4, <1>5, <1>6, Balance

LEMMA ChatEndsAccounts ==
  ASSUME AccountsInv, NEW c \in Clients, ChatEnds(c)
  PROVE  AccountsInv'
  <1> DEFINE k == Respond(call[c], "OK", FALSE, << >>)
  <1>1. /\ call' = [call EXCEPT ![c] = k] /\ UNCHANGED <<counts, ledger>>
        /\ call[c].handler = "reading" /\ Rpc(call[c].op) = "ProcessStream"
    BY DEF ChatEnds, ReadOver, IsRpc
  <1>2. Kept(k) /\ Owes(k) = 0
    BY KeptCall, RespondEffect, EmptyResults
  <1>3. Owes(call[c]) = 0
    BY <1>1, KeptCall DEF Owes, Handled, Holding, Kept
  <1> HIDE DEF k
  <1>4. Booked(0, 0, 0, 0)
    BY <1>1, NothingBooked, KeptCall
  <1>5. Settles(Owes(call[c]), Owes(k), 0, 0, 0, 0)
    BY <1>2, <1>3 DEF Settles
  <1>6. Kept(k) /\ call' = [call EXCEPT ![c] = k]
    BY <1>1, <1>2
  <1> QED
    BY <1>4, <1>5, <1>6, Balance

LEMMA GetStreamStatusAccounts ==
  ASSUME AccountsInv, NEW c \in Clients, GetStreamStatus(c)
  PROVE  AccountsInv'
  <1> DEFINE k == Respond(call[c], "OK", TRUE, << >>)
  <1>1. /\ call' = [call EXCEPT ![c] = k] /\ Count(1, 0, 0, 0) /\ ledger' = ledger
        /\ call[c].handler = "called"
    BY DEF GetStreamStatus, Called
  <1>2. Kept(k) /\ Owes(k) = 0
    BY KeptCall, RespondEffect, EmptyResults
  <1>3. Owes(call[c]) = 0
    BY <1>1, KeptCall DEF Owes, Handled, Holding, Kept
  <1> HIDE DEF k
  <1>4. Booked(0, 0, 0, 0)
    BY <1>1, CountOnly, KeptCall
  <1>5. Settles(Owes(call[c]), Owes(k), 0, 0, 0, 0)
    BY <1>2, <1>3 DEF Settles
  <1>6. Kept(k) /\ call' = [call EXCEPT ![c] = k]
    BY <1>1, <1>2
  <1> QED
    BY <1>4, <1>5, <1>6, Balance

\* From one of the stages that hold a message to another
LEMMA StageEffect ==
  ASSUME NEW k, Kept(k), k.handler \in Holding, NEW l, IsCall(l), l.op = k.op, l.handler \in Holding,
         l.failed = k.failed, l.results = k.results
  PROVE  Kept(l) /\ Owes(l) = Owes(k)
  BY DEF Kept, Owes, Handled, Holding

LEMMA AcquireAccounts ==
  ASSUME AccountsInv, NEW c \in Clients, Acquire(c)
  PROVE  AccountsInv'
  <1> DEFINE k == [call[c] EXCEPT !.handler = IF processor = NoProcessor THEN "replying" ELSE "running",
                                  !.by = Append(@, processor)]
  <1>1. call' = [call EXCEPT ![c] = k] /\ UNCHANGED <<counts, ledger>> /\ call[c].handler = "locking"
    BY DEF Acquire, AccountsInv
  <1>2. /\ IsCall(k) /\ k.op = call[c].op /\ k.handler \in Holding
        /\ k.failed = call[c].failed /\ k.results = call[c].results
    BY KeptCall, CallFields DEF IsCall, Holding
  <1> HIDE DEF k
  <1>3. call[c].handler \in Holding
    BY <1>1 DEF Holding
  <1>4. Kept(k) /\ Owes(k) = Owes(call[c]) /\ Owes(call[c]) \in Nat
    BY <1>2, <1>3, KeptCall, StageEffect
  <1>5. Booked(0, 0, 0, 0)
    BY <1>1, NothingBooked, KeptCall
  <1>6. Settles(Owes(call[c]), Owes(k), 0, 0, 0, 0)
    BY <1>4 DEF Settles
  <1>7. Kept(k) /\ call' = [call EXCEPT ![c] = k]
    BY <1>1, <1>4
  <1> QED
    BY <1>5, <1>6, <1>7, Balance

LEMMA HoldingFails ==
  ASSUME NEW k, Kept(k), k.handler \in Holding
  PROVE  /\ Kept(Failed(k)) /\ ErrorsNow(k) \in Nat /\ Owes(Failed(k)) + ErrorsNow(k) = Owes(k)
  <1>1. Handled(k) /\ k.handler # "called" /\ Owes(k) = 1 + (k.failed + Len(k.results))
    BY DEF Handled, Holding, Owes
  <1>2. k.failed \in Nat /\ Len(k.results) \in Nat
    BY DEF Kept
  <1>3. /\ Kept(Failed(k)) /\ ErrorsNow(k) \in Nat
        /\ Owes(Failed(k)) + ErrorsNow(k) = k.failed + Len(k.results) + 1
    BY <1>1, FailedEffect
  <1> QED
    BY <1>1, <1>2, <1>3

LEMMA RunProcessorAccounts ==
  ASSUME AccountsInv, NEW c \in Clients, RunProcessor(c)
  PROVE  AccountsInv'
  <1> DEFINE native == Apply(processor, call[c].native)
             replying == [call[c] EXCEPT !.handler = "replying", !.native = native]
             k == IF native = Thrown THEN Failed(call[c]) ELSE replying
             e == IF native = Thrown THEN ErrorsNow(call[c]) ELSE 0
  <1>1. call' = [call EXCEPT ![c] = k] /\ Count(0, e, 0, 0) /\ ledger' = ledger /\ call[c].handler = "running"
    BY DEF RunProcessor
  <1>2. /\ IsCall(replying) /\ replying.op = call[c].op /\ replying.handler \in Holding
        /\ replying.failed = call[c].failed /\ replying.results = call[c].results
    BY KeptCall, CallFields DEF IsCall, Holding
  <1> HIDE DEF native, replying
  <1>3. call[c].handler \in Holding
    BY <1>1 DEF Holding
  <1>4. Kept(replying) /\ Owes(replying) = Owes(call[c]) /\ Owes(call[c]) \in Nat
    BY <1>2, <1>3, KeptCall, StageEffect
  <1>5. /\ Kept(Failed(call[c])) /\ ErrorsNow(call[c]) \in Nat
        /\ Owes(Failed(call[c])) + ErrorsNow(call[c]) = Owes(call[c])
    BY <1>3, KeptCall, HoldingFails
  <1>6. Kept(k) /\ e \in Nat /\ Owes(k) + e = Owes(call[c]) /\ Owes(k) \in Nat
    BY <1>4, <1>5, OwesNat
  <1> HIDE DEF k, e
  <1>7. Booked(e, 0, 0, 0)
    BY <1>1, <1>6, CountOnly, KeptCall
  <1>8. Settles(Owes(call[c]), Owes(k), e, 0, 0, 0)
    BY <1>4, <1>6 DEF Settles
  <1>9. Kept(k) /\ e \in Nat /\ call' = [call EXCEPT ![c] = k]
    BY <1>1, <1>6
  <1> QED
    BY <1>7, <1>8, <1>9, Balance

LEMMA ReplyAccounts ==
  ASSUME AccountsInv, NEW c \in Clients, Reply(c)
  PROVE  AccountsInv'
  <1> DEFINE h == call[c]
             m == to_grpc(h.native)
             batch == IsRpc(c, "CollectContainers")
             written == [h EXCEPT !.replies = IF h.dead THEN @ ELSE Append(@, m)]
             collected == [h EXCEPT !.handler = "reading", !.results = Append(@, m)]
             chatted == [written EXCEPT !.handler = "reading"]
             k == IF m = Thrown THEN Failed(h)
                  ELSE CASE Rpc(h.op) \in {"SendContainer", "ProcessContainer"} -> Respond(h, "OK", TRUE, <<m>>)
                         [] Rpc(h.op) = "StreamContainers" -> Respond(written, "OK", FALSE, << >>)
                         [] batch -> collected
                         [] OTHER -> chatted
             e == IF m = Thrown THEN ErrorsNow(h) ELSE 0
             s == IF m = Thrown \/ batch THEN 0 ELSE 1
  <1>1. /\ call' = [call EXCEPT ![c] = k] /\ Count(0, e, 0, s) /\ ledger' = ledger
        /\ h.handler = "replying"
    BY DEF Reply
  <1>2. Kept(h) /\ h.handler \in Holding /\ Owes(h) \in Nat
    BY <1>1, KeptCall DEF Holding
  <1>3. Kept(Failed(h)) /\ ErrorsNow(h) \in Nat /\ Owes(Failed(h)) + ErrorsNow(h) = Owes(h)
    BY <1>2, HoldingFails
  <1>4. batch <=> Rpc(h.op) = "CollectContainers"
    BY <1>1, <1>2 DEF IsRpc, Kept, Handled
  <1>5. Owes(h) = 1 + (h.failed + Len(h.results)) /\ (~batch => h.failed = 0 /\ h.results = << >>)
    BY <1>1, <1>2, <1>4 DEF Owes, Handled, Holding, Kept
  <1>6. /\ IsCall(written) /\ written.op = h.op /\ written.handler = h.handler
        /\ written.failed = h.failed /\ written.results = h.results
    BY <1>2, CallFields DEF IsCall, Kept
  <1>7. Kept(written)
    BY <1>2, <1>6, SameKept
  <1>8. batch => Kept(collected) /\ Owes(collected) = h.failed + (Len(h.results) + 1)
    <2>1. /\ IsCall(collected) /\ collected.op = h.op /\ collected.handler = "reading"
          /\ collected.failed = h.failed /\ collected.results = Append(h.results, m)
      BY <1>2, CallFields DEF IsCall, Kept
    <2>2. /\ Append(h.results, m) \in Seq(ToSet(Append(h.results, m)))
          /\ Len(Append(h.results, m)) = Len(h.results) + 1
      BY <1>2, AppendOwn DEF Kept
    <2> HIDE DEF h, m, collected, batch
    <2> QED
      BY <1>2, <1>4, <2>1, <2>2 DEF Kept, Owes, Handled, Holding
  <1>9. ~batch => Kept(chatted) /\ Owes(chatted) = 0
    <2>1. /\ IsCall(chatted) /\ chatted.op = h.op /\ chatted.handler = "reading"
          /\ chatted.failed = h.failed /\ chatted.results = h.results
      BY <1>6, CallFields DEF IsCall
    <2> HIDE DEF h, m, chatted, batch
    <2> SUFFICES ASSUME ~batch PROVE Kept(chatted) /\ Owes(chatted) = 0
      OBVIOUS
    <2>2. chatted.failed = 0 /\ chatted.results = << >> /\ chatted.op # "none"
      BY <1>1, <1>2, <1>5, <2>1 DEF Kept, Handled
    <2> QED
      BY <2>1, <2>2, EmptyResults DEF Kept, Owes, Handled, Holding
  <1>10. Kept(Respond(h, "OK", TRUE, <<m>>)) /\ Owes(Respond(h, "OK", TRUE, <<m>>)) = 0
    <2>1. <<m>> \in Seq(ToSet(<<m>>))
      BY DEF ToSet
    <2> QED
      BY <1>2, <2>1, RespondEffect
  <1>11. Kept(Respond(written, "OK", FALSE, << >>)) /\ Owes(Respond(written, "OK", FALSE, << >>)) = 0
    BY <1>7, EmptyResults, RespondEffect
  <1>12. Kept(k) /\ e \in Nat /\ s \in Nat /\ Owes(h) = e + s + Owes(k)
    <2>1. h.failed \in Nat /\ Len(h.results) \in Nat
      BY <1>2 DEF Kept
    <2> HIDE DEF h, m, batch, written, collected, chatted
    <2>2. CASE m = Thrown
      BY <1>3, <2>2, OwesNat
    <2>3. CASE m # Thrown /\ batch
      <3>1. k = collected /\ e = 0 /\ s = 0
        BY <1>4, <2>3
      <3> QED
        BY <1>5, <1>8, <2>1, <2>3, <3>1
    <2>4. CASE m # Thrown /\ ~batch
      <3>1. Owes(h) = 1 /\ e = 0 /\ s = 1
        BY <1>5, <2>4
      <3>2. Kept(k) /\ Owes(k) = 0
        BY <1>4, <1>9, <1>10, <1>11, <2>4
      <3> HIDE DEF k, e, s
      <3> QED
        BY <3>1, <3>2
    <2> QED
      BY <2>2, <2>3, <2>4
  <1> HIDE DEF k, e, s
  <1>13. Booked(e, 0, s, 0)
    BY <1>1, <1>12, CountOnly, KeptCall
  <1>14. Settles(Owes(call[c]), Owes(k), e, 0, s, 0)
    BY <1>2, <1>12, OwesNat DEF Settles
  <1>15. Kept(k) /\ e \in Nat /\ s \in Nat /\ call' = [call EXCEPT ![c] = k]
    BY <1>1, <1>12
  <1> QED
    BY <1>13, <1>14, <1>15, Balance

LEMMA StopDeadlineAccounts ==
  ASSUME AccountsInv, StopDeadline
  PROVE  AccountsInv'
  <1>1. /\ UNCHANGED <<counts, ledger>> /\ DOMAIN call' = Clients
        /\ \A c \in Clients : call'[c] = IF Handling(c) THEN [call[c] EXCEPT !.dead = TRUE] ELSE call[c]
    BY DEF StopDeadline
  <1>2. ASSUME NEW c \in Clients
        PROVE  Kept(call'[c]) /\ Owes(call'[c]) = Owes(call[c])
    <2> DEFINE k == [call[c] EXCEPT !.dead = TRUE]
    <2>1. /\ IsCall(k) /\ k.op = call[c].op /\ k.handler = call[c].handler
          /\ k.failed = call[c].failed /\ k.results = call[c].results
      BY KeptCall, CallFields DEF IsCall
    <2> HIDE DEF k
    <2>2. Kept(k) /\ Owes(k) = Owes(call[c])
      BY <2>1, KeptCall, SameKept
    <2> QED
      BY <1>1, <2>2, KeptCall DEF k
  <1>3. Owed' = Owed
    BY <1>2 DEF Owed
  <1> QED
    BY <1>1, <1>2, <1>3 DEF AccountsInv, CountsOK

-----------------------------------------------------------------------------
(* The specification *)

LEMMA AccountsInit ==
  ASSUME GrpcInit
  PROVE  AccountsInv
  <1>1. /\ counts = [requests |-> 0, errors |-> 0, received |-> 0, sent |-> 0] /\ ledger = 0
        /\ call = [c \in Clients |-> NoCall]
    BY DEF GrpcInit
  <1>2. Kept(NoCall) /\ Owes(NoCall) = 0
    BY EmptyResults DEF NoCall, Kept, IsCall, Owes, Handled, Holding
  <1>3. \A c \in DOMAIN Owed : Owed[c] = 0
    BY <1>1, <1>2 DEF Owed
  <1>4. IsFiniteSet(Units(Owed)) /\ Total(Owed) = 0
    BY <1>3, UnitsNone
  <1> QED
    BY <1>1, <1>2, <1>4 DEF AccountsInv, CountsOK

LEMMA AccountsStep ==
  ASSUME AccountsInv, [GrpcNext]_grpcVars
  PROVE  AccountsInv'
  <1>1. CASE Start \/ (\E limited \in BOOLEAN : StopBegin(limited)) \/ StopEnd \/ (\E p \in Processors : SetProcessor(p)) \/ UNCHANGED grpcVars
    <2>1. UNCHANGED <<counts, call, ledger>>
      BY <1>1 DEF Start, StopBegin, StopEnd, SetProcessor, grpcVars
    <2> QED
      BY <2>1 DEF AccountsInv, CountsOK, Owed
  <1>2. CASE StopDeadline
    BY <1>2, StopDeadlineAccounts
  <1>3. ASSUME NEW c \in Clients, HandlerStep(c)
        PROVE  AccountsInv'
    BY <1>3, SendContainerAccounts, ProcessContainerAccounts, StreamContainersAccounts, OpenStreamAccounts,
       ReadMessageAccounts, CollectEndsAccounts, ChatEndsAccounts, GetStreamStatusAccounts,
       RunProcessorAccounts, ReplyAccounts DEF HandlerStep
  <1>4. ASSUME NEW c \in Clients, Acquire(c) \/ Client(c)
        PROVE  AccountsInv'
    BY <1>4, AcquireAccounts, ClientAccounts
  <1> QED
    BY <1>1, <1>2, <1>3, <1>4 DEF GrpcNext

\* When no handler runs nothing is owed.
LEMMA NothingOwed ==
  ASSUME AccountsInv
  PROVE  AccountsBalance
  <1> SUFFICES ASSUME ~\E c \in Clients : Handling(c)
               PROVE  counts.received = counts.sent + counts.errors + ledger
    BY DEF AccountsBalance
  <1>1. \A c \in DOMAIN Owed : Owed[c] = 0
    BY DEF Owed, Owes, Handled, Handling, Holding
  <1>2. Total(Owed) = 0
    BY <1>1, UnitsNone
  <1> QED
    BY <1>2 DEF AccountsInv, CountsOK

\* Whatever the conversions, the processors and the clients do, and however
\* the calls overlap, the counters of container_service_impl account for
\* every message once no handler runs: it was sent back, counted as an
\* error, or put into a batch.
THEOREM AccountsAlwaysBalance == GrpcSpec => []AccountsBalance
  <1>1. GrpcInit => AccountsInv
    BY AccountsInit
  <1>2. AccountsInv /\ [GrpcNext]_grpcVars => AccountsInv'
    BY AccountsStep
  <1>3. AccountsInv => AccountsBalance
    BY NothingOwed
  <1> QED
    BY <1>1, <1>2, <1>3, PTL DEF GrpcSpec
-----------------------------------------------------------------------------
(* Answers: the inductive invariant *)

Singles == {"send", "process", "stream"}
Loners == {"stream_nothing", "get_status", "chat"}
Operations == Natives \union Loners \union {"send_nothing", "process_raw"}
Installable == Processors \union {NoProcessor}
IsSeq(s) == s \in Seq(ToSet(s))

\* What the processor p makes of a container that a message brought, whether
\* that can be answered, and the message of the answer
Trip(g) == from_grpc(to_grpc(g))
Out(p, g) == IF p = NoProcessor THEN Trip(g) ELSE Apply(p, Trip(g))
Fits(p, g) == Out(p, g) # Thrown /\ to_grpc(Out(p, g)) # Thrown
Response(p, g) == to_grpc(Out(p, g))

\* A container that the processor or a conversion failed on
Explains(by, given) ==
  \/ \E i \in DOMAIN by : by[i] # NoProcessor /\ Apply(by[i], given[i]) = Thrown
  \/ \E i \in DOMAIN given : Refused(given[i])
       \/ \E p \in Processors \ {NoProcessor} : Apply(p, given[i]) # Thrown /\ Refused(Apply(p, given[i]))

Given(k) == NonNull(k.input)

\* Messages that the handler has read, and those it is done with
Read(k) == Len(k.by) + (IF k.handler = "locking" THEN 1 ELSE 0)
Done(k) == Len(k.by) - (IF k.handler \in {"running", "replying"} THEN 1 ELSE 0)

Shape(c, k) ==
  /\ IsCall(k) /\ k.failed \in Nat /\ k.by \in Seq(Installable)
  /\ k.op # "none" => k.op \in Operations /\ \E x \in Calls[c] : x.op = k.op /\ x.input = k.input
  /\ k.handler # "none" => k.op # "none"

\* A call is answered when its handler has ended, or because it is cut off.
Life(k) ==
  /\ k.client # "idle" => k.answer = "none"
  /\ k.status # "none" => k.handler = "ended"
  /\ k.answer # "none" /\ ~k.dead => k.handler = "ended"
  /\ k.dead => k.answer # "success"
  /\ k.answer \in {"none", "success", "failure"}

\* Calls that carry no container of the client's cannot fail.
Alone(k) ==
  k.op \in Loners =>
    /\ k.op # "chat" => k.handler \in {"none", "called", "ended"}
    /\ k.op = "stream_nothing" => k.inbox = << >> /\ k.client # "writing"
    /\ k.handler = "ended" => k.status = "OK" /\ k.results = << >>
    /\ k.answer = "failure" => k.dead

\* The handler works on the containers in their order, each as the message
\* brought it, by the processor it notes.
Progress(k) ==
  /\ Read(k) <= Len(Given(k)) /\ \A i \in 1..Read(k) : to_grpc(Given(k)[i]) # Thrown
  /\ k.handler = "called" => k.by = << >>
  /\ k.handler = "locking" => k.native = Trip(Given(k)[Len(k.by) + 1])
  /\ k.handler = "running" => Len(k.by) > 0 /\ k.native = Trip(Given(k)[Len(k.by)]) /\ k.by[Len(k.by)] # NoProcessor
  /\ k.handler = "replying" =>
       /\ Len(k.by) > 0 /\ k.native # Thrown
       /\ k.native = Out(k.by[Len(k.by)], Given(k)[Len(k.by)])
  /\ k.handler = "ended" => Len(k.by) = Len(Given(k))
  /\ k.op \in Singles =>
       /\ Len(Given(k)) = 1 /\ k.handler # "reading"
       /\ k.handler = "locking" => k.by = << >>

\* The messages on their way are those of the containers the handler has not
\* read, in their order.
Queue(k) ==
  /\ k.op \in Singles =>
       /\ k.client # "writing"
       /\ k.handler = "called" => k.inbox # << >> /\ k.inbox[1] = to_grpc(Given(k)[1]) /\ k.inbox[1] # Thrown
  /\ k.op = "send_batch" =>
       /\ IsSeq(k.inbox) /\ IsSeq(k.toWrite) /\ (k.writesDone => k.toWrite = << >>)
       /\ Read(k) + Len(k.inbox) + Len(k.toWrite) = Len(Given(k))
       /\ \A j \in 1..Len(k.inbox) : k.inbox[j] = to_grpc(Given(k)[Read(k) + j]) /\ k.inbox[j] # Thrown
       /\ \A j \in 1..Len(k.toWrite) : k.toWrite[j] = to_grpc(Given(k)[Read(k) + Len(k.inbox) + j])

\* A batch keeps the answer to every container it is done with, unless one failed.
Collected(k) ==
  /\ IsSeq(k.results)
  /\ k.failed # 0 => Explains(k.by, Given(k))
  /\ k.failed = 0 =>
       /\ Len(k.results) = Done(k)
       /\ \A i \in 1..Done(k) : /\ Fits(k.by[i], Given(k)[i])
                                /\ k.results[i] = Response(k.by[i], Given(k)[i])
  /\ k.handler = "ended" => k.status = "OK" /\ (k.success => k.failed = 0) /\ (~k.success => k.failed # 0)

\* The one container of another call is answered, or it failed.
AllWell(k) == k.status = "OK" /\ (k.op = "send" => k.success)
AnsweredOne(k) ==
  /\ Fits(k.by[1], Given(k)[1])
  /\ k.op # "stream" => k.results = << Response(k.by[1], Given(k)[1]) >>
  /\ k.op = "stream" =>
       /\ k.results = << >>
       /\ \/ k.replies = << Response(k.by[1], Given(k)[1]) >> /\ k.value = << >>
          \/ k.replies = << >> /\ k.value = << from_grpc(Response(k.by[1], Given(k)[1])) >>
Lone(k) ==
  IF k.handler # "ended" THEN k.replies = << >> /\ k.value = << >>
  ELSE IF AllWell(k) THEN AnsweredOne(k) ELSE Explains(k.by, Given(k))

Verdict(k) ==
  /\ k.answer = "success" =>
       /\ Len(k.value) = Len(Given(k))
       /\ \A i \in DOMAIN Given(k) : Expected(k.by[i], Given(k)[i], k.value[i])
  /\ k.answer = "failure" => Explains(k.by, Given(k))

Serves(k) ==
  ~k.dead /\ k.op \in Natives /\ k.handler # "none" =>
    /\ Progress(k) /\ Queue(k) /\ Verdict(k)
    /\ IF k.op = "send_batch" THEN Collected(k) ELSE Lone(k)

CallInv(c, k) == Shape(c, k) /\ Life(k) /\ Alone(k) /\ Serves(k)

\* The processor that runs is the one in force, and the one noted: the lock
\* keeps it.
Running(c) == lock = c /\ call[c].by[Len(call[c].by)] = processor

FaithInv ==
  /\ processor \in Installable
  /\ DOMAIN call = Clients /\ \A c \in Clients : CallInv(c, call[c])
  /\ \A c \in Clients : call[c].handler = "running" => Running(c)

-----------------------------------------------------------------------------
(* Answers: containers and what becomes of them *)

\* The containers that are not null form a sequence ...
LEMMA NonNullSeq ==
  ASSUME NEW s, IsSeq(s)
  PROVE  Len(NonNull(s)) \in Nat /\ DOMAIN NonNull(s) = 1..Len(NonNull(s))
  <1> DEFINE kept == {i \in DOMAIN s : s[i] # Null}
  <1>1. Len(s) \in Nat /\ DOMAIN s = 1..Len(s)
    BY DEF IsSeq
  <1>2. IsFiniteSet(1..Len(s)) /\ kept \subseteq 1..Len(s)
    BY <1>1, FS_Interval
  <1>3. IsFiniteSet(kept)
    BY <1>2, FS_Subset
  <1>4. Cardinality(kept) \in Nat
    BY <1>3, FS_CardinalityType
  <1> DEFINE n == Cardinality(kept)
             t == [j \in 1..n |-> s[CHOOSE i \in kept : Cardinality(kept \cap 1..i) = j]]
  <1>5. NonNull(s) = t
    BY DEF NonNull
  <1> HIDE DEF kept, n
  <1>6. n \in Nat
    BY <1>4 DEF n
  <1>7. t \in Seq(ToSet(t)) /\ Len(t) = n /\ DOMAIN t = 1..n
    <2>1. DOMAIN t = 1..n
      OBVIOUS
    <2> HIDE DEF t
    <2>2. \A j \in 1..n : t[j] \in ToSet(t)
      BY <2>1 DEF ToSet
    <2>3. t = [j \in 1..n |-> t[j]]
      BY <2>1 DEF t
    <2> QED
      BY <1>6, <2>1, <2>2, <2>3
  <1> HIDE DEF t
  <1> QED
    BY <1>5, <1>6, <1>7

\* ... and a single one is that sequence.
LEMMA NonNullOne ==
  ASSUME NEW s, IsSeq(s), Len(s) = 1, s[1] # Null
  PROVE  Len(NonNull(s)) = 1 /\ NonNull(s)[1] = s[1]
  <1> DEFINE kept == {i \in DOMAIN s : s[i] # Null}
             place(j) == CHOOSE i \in kept : Cardinality(kept \cap 1..i) = j
  <1>1. kept = {1}
    BY DEF IsSeq
  <1>2. NonNull(s) = [j \in 1..Cardinality(kept) |-> s[place(j)]]
    BY DEF NonNull
  <1> HIDE DEF kept
  <1>3. Cardinality(kept) = 1
    BY <1>1, FS_Singleton
  <1>4. kept \cap 1..1 = kept
    BY <1>1
  <1>5. place(1) = 1
    BY <1>1, <1>3, <1>4
  <1> HIDE DEF place
  <1>6. DOMAIN NonNull(s) = 1..1 /\ NonNull(s)[1] = s[1]
    BY <1>2, <1>3, <1>5
  <1> QED
    BY <1>6, NonNullSeq

LEMMA GivenOK ==
  ASSUME NEW c \in Clients, NEW x \in Calls[c], x.op \in Natives
  PROVE  /\ Len(NonNull(x.input)) \in Nat /\ DOMAIN NonNull(x.input) = 1..Len(NonNull(x.input))
         /\ \A i \in 1..Len(NonNull(x.input)) : Transparent(NonNull(x.input)[i])
  <1>1. IsSeq(x.input) /\ \A i \in DOMAIN NonNull(x.input) : Transparent(NonNull(x.input)[i])
    BY CallsAssumption DEF IsSeq
  <1> QED
    BY <1>1, NonNullSeq

LEMMA ShapeGiven ==
  ASSUME NEW c \in Clients, NEW k, Shape(c, k), k.op \in Natives
  PROVE  /\ Len(Given(k)) \in Nat /\ DOMAIN Given(k) = 1..Len(Given(k))
         /\ \A i \in 1..Len(Given(k)) : Transparent(Given(k)[i])
  <1>1. k.op # "none"
    BY DEF Natives
  <1>2. PICK x \in Calls[c] : x.op = k.op /\ x.input = k.input
    BY <1>1 DEF Shape
  <1>3. Given(k) = NonNull(x.input)
    BY <1>2 DEF Given
  <1> QED
    BY <1>2, <1>3, GivenOK

\* A container that reached the service arrives there.
LEMMA TripOK ==
  ASSUME NEW g, Transparent(g), to_grpc(g) # Thrown
  PROVE  Trip(g) # Thrown
  BY DEF Transparent, Trip

LEMMA TransparentPlain ==
  ASSUME NEW g, Transparent(g), to_grpc(g) # Thrown
  PROVE  to_grpc(Trip(g)) # Thrown /\ from_grpc(to_grpc(Trip(g))) # Thrown /\ Carried(g, from_grpc(to_grpc(Trip(g))))
  BY DEF Transparent, Trip

LEMMA TransparentProcessed ==
  ASSUME NEW g, Transparent(g), to_grpc(g) # Thrown, NEW p \in Processors, p # NoProcessor
  PROVE  /\ Apply(p, g) = Thrown <=> Apply(p, Trip(g)) = Thrown
         /\ Apply(p, g) # Thrown /\ to_grpc(Apply(p, Trip(g))) = Thrown => Refused(Apply(p, g))
         /\ Apply(p, g) # Thrown /\ to_grpc(Apply(p, Trip(g))) # Thrown =>
              /\ from_grpc(to_grpc(Apply(p, Trip(g)))) # Thrown
              /\ Carried(Apply(p, g), from_grpc(to_grpc(Apply(p, Trip(g)))))
  BY DEF Transparent, Trip

\* What fits is what was expected ...
LEMMA FitsExpected ==
  ASSUME NEW g, Transparent(g), to_grpc(g) # Thrown, NEW p \in Installable, Fits(p, g)
  PROVE  from_grpc(Response(p, g)) # Thrown /\ Expected(p, g, from_grpc(Response(p, g)))
  <1>1. CASE p = NoProcessor
    BY <1>1, TransparentPlain DEF Fits, Out, Response, Expected
  <1>2. CASE p # NoProcessor
    <2>1. p \in Processors
      BY <1>2 DEF Installable
    <2>2. Out(p, g) = Apply(p, Trip(g))
      BY <1>2 DEF Out
    <2> QED
      BY <1>2, <2>1, <2>2, TransparentProcessed DEF Fits, Response, Expected
  <1> QED
    BY <1>1, <1>2

\* ... and what does not was refused for a reason.
LEMMA MisfitExplained ==
  ASSUME NEW by, NEW given, NEW i \in DOMAIN by, i \in DOMAIN given, by[i] \in Installable,
         Transparent(given[i]), to_grpc(given[i]) # Thrown, ~Fits(by[i], given[i])
  PROVE  Explains(by, given)
  <1> DEFINE p == by[i]
             g == given[i]
  <1>1. p # NoProcessor
    <2>1. CASE p = NoProcessor
      <3>1. Out(p, g) = Trip(g)
        BY <2>1 DEF Out
      <3> QED
        BY <3>1, TripOK, TransparentPlain DEF Fits
    <2> QED
      BY <2>1
  <1>2. p \in Processors /\ Out(p, g) = Apply(p, Trip(g))
    BY <1>1 DEF Installable, Out
  <1>3. Apply(p, g) = Thrown \/ (Apply(p, g) # Thrown /\ Refused(Apply(p, g)))
    BY <1>1, <1>2, TransparentProcessed DEF Fits
  <1>4. CASE Apply(p, g) = Thrown
    BY <1>1, <1>4 DEF Explains
  <1>5. CASE Apply(p, g) # Thrown /\ Refused(Apply(p, g))
    <2>1. p \in Processors \ {NoProcessor}
      BY <1>1, <1>2
    <2> QED
      BY <1>5, <2>1 DEF Explains
  <1> QED
    BY <1>3, <1>4, <1>5

\* A reason stays one.
LEMMA ExplainsMore ==
  ASSUME NEW by, by \in Seq(Installable), NEW given, NEW p \in Installable, Explains(by, given)
  PROVE  Explains(Append(by, p), given)
  <1>1. DOMAIN by \subseteq DOMAIN Append(by, p) /\ \A i \in DOMAIN by : Append(by, p)[i] = by[i]
    OBVIOUS
  <1> DEFINE more == Append(by, p)
  <1> HIDE DEF more
  <1>2. DOMAIN by \subseteq DOMAIN more /\ \A i \in DOMAIN by : more[i] = by[i]
    BY <1>1 DEF more
  <1>3. Explains(more, given)
    BY <1>2 DEF Explains
  <1> QED
    BY <1>3 DEF more

-----------------------------------------------------------------------------
(* Answers: what may become of a call.  In each lemma k is the call before  *)
(* and l the call after a step.                                             *)

\* l differs from k in the fields F alone.
Agree(k, l, F) == IsCall(l) /\ \A f \in DOMAIN NoCall \ F : l[f] = k[f]

\* The call is cut off, and its client told.
LEMMA CutInv ==
  ASSUME NEW c \in Clients, NEW k, CallInv(c, k), NEW l,
         Agree(k, l, {"client", "answer", "dead", "replies", "value"}),
         l.client = "idle", l.answer = "failure", l.dead
  PROVE  CallInv(c, l)
  <1>1. /\ l.op = k.op /\ l.input = k.input /\ l.handler = k.handler /\ l.by = k.by /\ l.failed = k.failed
        /\ l.status = k.status /\ l.inbox = k.inbox /\ l.results = k.results
    BY CallFields DEF Agree
  <1>2. Shape(c, l)
    BY <1>1 DEF Agree, CallInv, Shape
  <1>3. Life(l)
    BY <1>1 DEF CallInv, Life
  <1>4. Alone(l)
    BY <1>1 DEF CallInv, Alone
  <1> QED
    BY <1>2, <1>3, <1>4 DEF CallInv, Serves

\* The shutdown cuts it off.
LEMMA DeadInv ==
  ASSUME NEW c \in Clients, NEW k, CallInv(c, k), Handled(k), NEW l, Agree(k, l, {"dead"}), l.dead
  PROVE  CallInv(c, l)
  <1>1. /\ l.op = k.op /\ l.input = k.input /\ l.handler = k.handler /\ l.by = k.by /\ l.failed = k.failed
        /\ l.status = k.status /\ l.inbox = k.inbox /\ l.results = k.results /\ l.client = k.client
        /\ l.answer = k.answer
    BY CallFields DEF Agree
  <1>2. Shape(c, l)
    BY <1>1 DEF Agree, CallInv, Shape
  <1>3. k.handler # "ended"
    BY DEF Handled
  <1>4. Life(l)
    BY <1>1, <1>3 DEF CallInv, Life
  <1>5. Alone(l)
    BY <1>1 DEF CallInv, Alone
  <1> QED
    BY <1>2, <1>4, <1>5 DEF CallInv, Serves

\* Write to a call that is cut off
LEMMA BrokenInv ==
  ASSUME NEW c \in Clients, NEW k, CallInv(c, k), k.dead, NEW l, Agree(k, l, {"toWrite"})
  PROVE  CallInv(c, l)
  <1>1. /\ l.op = k.op /\ l.input = k.input /\ l.handler = k.handler /\ l.by = k.by /\ l.failed = k.failed
        /\ l.status = k.status /\ l.inbox = k.inbox /\ l.results = k.results /\ l.client = k.client
        /\ l.answer = k.answer /\ l.dead = k.dead
    BY CallFields DEF Agree
  <1>2. Shape(c, l)
    BY <1>1 DEF Agree, CallInv, Shape
  <1>3. Life(l)
    BY <1>1 DEF CallInv, Life
  <1>4. Alone(l)
    BY <1>1 DEF CallInv, Alone
  <1> QED
    BY <1>1, <1>2, <1>3, <1>4 DEF CallInv, Serves

LEMMA TailOwn ==
  ASSUME NEW s, IsSeq(s), s # << >>
  PROVE  /\ IsSeq(Tail(s)) /\ Len(Tail(s)) = Len(s) - 1 /\ Len(s) \in Nat /\ Len(s) > 0 /\ Head(s) = s[1]
         /\ \A j \in 1..(Len(s) - 1) : Tail(s)[j] = s[j + 1]
  <1>1. /\ Len(s) \in Nat /\ Len(s) > 0 /\ Head(s) = s[1] /\ Len(Tail(s)) = Len(s) - 1
        /\ Tail(s) \in Seq(ToSet(s)) /\ \A j \in 1..(Len(s) - 1) : Tail(s)[j] = s[j + 1]
    BY DEF IsSeq
  <1> DEFINE t == Tail(s)
  <1>2. Len(t) \in Nat /\ DOMAIN t = 1..Len(t) /\ t \in Seq(ToSet(s))
    BY <1>1
  <1> HIDE DEF t
  <1>3. \A j \in 1..Len(t) : t[j] \in ToSet(t)
    BY <1>2 DEF ToSet
  <1>4. t \in Seq(ToSet(t))
    BY <1>2, <1>3
  <1> QED
    BY <1>1, <1>4 DEF t, IsSeq

LEMMA AppendSeq ==
  ASSUME NEW s, IsSeq(s), NEW m
  PROVE  /\ IsSeq(Append(s, m)) /\ Len(s) \in Nat /\ Len(Append(s, m)) = Len(s) + 1
         /\ \A j \in 1..Len(s) : Append(s, m)[j] = s[j]
         /\ Append(s, m)[Len(s) + 1] = m
  <1>1. IsSeq(Append(s, m)) /\ Len(Append(s, m)) = Len(s) + 1
    BY AppendOwn DEF IsSeq
  <1>2. Len(s) \in Nat /\ (\A j \in 1..Len(s) : Append(s, m)[j] = s[j]) /\ Append(s, m)[Len(s) + 1] = m
    BY DEF IsSeq
  <1> QED
    BY <1>1, <1>2

LEMMA ShapeBy ==
  ASSUME NEW c, NEW k, Shape(c, k)
  PROVE  /\ k.by \in Seq(Installable) /\ Len(k.by) \in Nat /\ DOMAIN k.by = 1..Len(k.by) /\ Read(k) \in Nat
         /\ \A i \in 1..Len(k.by) : k.by[i] \in Installable
  <1>1. k.by \in Seq(Installable)
    BY DEF Shape
  <1>2. Len(k.by) \in Nat /\ DOMAIN k.by = 1..Len(k.by) /\ \A i \in 1..Len(k.by) : k.by[i] \in Installable
    BY <1>1
  <1> DEFINE n == Len(k.by)
  <1>3. Read(k) = n + (IF k.handler = "locking" THEN 1 ELSE 0) /\ n \in Nat
    BY <1>2 DEF Read
  <1> HIDE DEF n
  <1>4. Read(k) \in Nat
    BY <1>3
  <1> QED
    BY <1>1, <1>2, <1>4

\* One message of a batch or a chat is on its way.
LEMMA WrittenInv ==
  ASSUME NEW c \in Clients, NEW k, CallInv(c, k), k.client = "writing", k.toWrite # << >>,
         Head(k.toWrite) # Thrown, NEW l, Agree(k, l, {"toWrite", "inbox"}),
         l.toWrite = Tail(k.toWrite), l.inbox = Append(k.inbox, Head(k.toWrite))
  PROVE  CallInv(c, l)
  <1>1. /\ l.op = k.op /\ l.input = k.input /\ l.handler = k.handler /\ l.by = k.by /\ l.failed = k.failed
        /\ l.status = k.status /\ l.results = k.results /\ l.client = k.client
        /\ l.answer = k.answer /\ l.dead = k.dead
    BY CallFields DEF Agree
  <1>2. /\ l.native = k.native /\ l.replies = k.replies /\ l.success = k.success /\ l.value = k.value
        /\ l.writesDone = k.writesDone
    BY CallFields DEF Agree
  <1>3. Shape(c, l)
    BY <1>1 DEF Agree, CallInv, Shape
  <1>4. Life(l)
    BY <1>1 DEF CallInv, Life
  <1>5. Alone(l)
    BY <1>1 DEF CallInv, Alone
  <1>6. Read(l) = Read(k) /\ Done(l) = Done(k) /\ Given(l) = Given(k)
    BY <1>1 DEF Read, Done, Given
  <1>7. ASSUME ~k.dead, k.op \in Natives, k.handler # "none"
        PROVE  /\ Progress(l) /\ Queue(l) /\ Verdict(l)
               /\ IF l.op = "send_batch" THEN Collected(l) ELSE Lone(l)
    <2>0. /\ Progress(k) /\ Queue(k) /\ Verdict(k)
          /\ IF k.op = "send_batch" THEN Collected(k) ELSE Lone(k)
      BY <1>7 DEF CallInv, Serves
    <2>1. Progress(l)
      BY <1>1, <1>2, <1>6, <2>0 DEF Progress
    <2>2. Verdict(l)
      BY <1>1, <1>2, <1>6, <2>0 DEF Verdict
    <2>3. k.op = "send_batch"
      BY <1>7, <2>0 DEF Queue, Natives, Singles
    <2>4. Collected(l)
      BY <1>1, <1>2, <1>6, <2>0, <2>3 DEF Collected
    <2>5. Queue(l)
      <3> DEFINE g == Given(k)
                 r == Read(k)
                 in == k.inbox
                 out == k.toWrite
      <3>1. /\ IsSeq(in) /\ IsSeq(out) /\ (k.writesDone => out = << >>) /\ r + Len(in) + Len(out) = Len(g)
            /\ \A j \in 1..Len(in) : in[j] = to_grpc(g[r + j]) /\ in[j] # Thrown
            /\ \A j \in 1..Len(out) : out[j] = to_grpc(g[r + Len(in) + j])
        BY <2>0, <2>3 DEF Queue
      <3>2. r \in Nat
        BY ShapeBy DEF CallInv
      <3>3. l.toWrite = Tail(out) /\ l.inbox = Append(in, Head(out)) /\ out # << >> /\ Head(out) # Thrown
        OBVIOUS
      <3> HIDE DEF g, r, in, out
      <3>4. /\ IsSeq(Tail(out)) /\ Len(Tail(out)) = Len(out) - 1 /\ Len(out) \in Nat /\ Len(out) > 0
            /\ Head(out) = out[1] /\ \A j \in 1..(Len(out) - 1) : Tail(out)[j] = out[j + 1]
        BY <3>1, <3>3, TailOwn
      <3>5. /\ IsSeq(Append(in, Head(out))) /\ Len(in) \in Nat /\ Len(Append(in, Head(out))) = Len(in) + 1
            /\ \A j \in 1..Len(in) : Append(in, Head(out))[j] = in[j]
            /\ Append(in, Head(out))[Len(in) + 1] = Head(out)
        BY <3>1, AppendSeq
      <3>10. Len(l.inbox) = Len(in) + 1 /\ Len(l.toWrite) = Len(out) - 1
        BY <3>3, <3>4, <3>5, Zenon
      <3>11. IsSeq(l.inbox) /\ IsSeq(l.toWrite)
        BY <3>3, <3>4, <3>5, Zenon
      <3>6. IsSeq(l.inbox) /\ IsSeq(l.toWrite) /\ r + Len(l.inbox) + Len(l.toWrite) = Len(g)
        <4>1. r \in Nat /\ Len(in) \in Nat /\ Len(out) \in Nat
          BY <3>2, <3>4, <3>5
        <4>2. r + Len(in) + Len(out) = Len(g)
          BY <3>1
        <4>3. r + Len(l.inbox) + Len(l.toWrite) = r + Len(in) + Len(out)
          <5> DEFINE a == Len(in)
                     b == Len(out)
                     d == Len(l.inbox)
                     e == Len(l.toWrite)
          <5>1. r \in Nat /\ a \in Nat /\ b \in Nat /\ d = a + 1 /\ e = b - 1
            BY <3>10, <4>1
          <5> HIDE DEF a, b, d, e
          <5>2. r + d + e = r + a + b
            BY <5>1
          <5> QED
            BY <5>2 DEF a, b, d, e
        <4> QED
          BY <3>11, <4>2, <4>3
      <3>7. \A j \in 1..Len(l.inbox) : l.inbox[j] = to_grpc(g[r + j]) /\ l.inbox[j] # Thrown
        <4> SUFFICES ASSUME NEW j \in 1..Len(l.inbox)
                     PROVE  l.inbox[j] = to_grpc(g[r + j]) /\ l.inbox[j] # Thrown
          OBVIOUS
        <4>1. CASE j = Len(in) + 1
          <5>1. out[1] = to_grpc(g[r + Len(in) + 1])
            BY <3>1, <3>4
          <5>2. r + Len(in) + 1 = r + j
            BY <3>2, <3>5, <4>1
          <5> QED
            BY <3>3, <3>4, <3>5, <4>1, <5>1, <5>2
        <4>2. CASE j # Len(in) + 1
          <5>1. j \in 1..Len(in)
            BY <3>3, <3>5, <4>2
          <5> QED
            BY <3>1, <3>3, <3>5, <5>1
        <4> QED
          BY <4>1, <4>2
      <3>8. \A j \in 1..Len(l.toWrite) : l.toWrite[j] = to_grpc(g[r + Len(l.inbox) + j])
        <4> SUFFICES ASSUME NEW j \in 1..Len(l.toWrite)
                     PROVE  l.toWrite[j] = to_grpc(g[r + Len(l.inbox) + j])
          OBVIOUS
        <4>1. j \in 1..(Len(out) - 1) /\ j + 1 \in 1..Len(out)
          BY <3>4, <3>10
        <4>2. l.toWrite[j] = out[j + 1] /\ out[j + 1] = to_grpc(g[r + Len(in) + (j + 1)])
          BY <3>1, <3>3, <3>4, <4>1
        <4>3. r + Len(in) + (j + 1) = r + Len(l.inbox) + j
          <5> DEFINE a == Len(in)
                     d == Len(l.inbox)
          <5>1. r \in Nat /\ a \in Nat /\ d = a + 1 /\ j \in Int
            BY <3>2, <3>5, <3>10, <4>1
          <5> HIDE DEF a, d
          <5>2. r + a + (j + 1) = r + d + j
            BY <5>1
          <5> QED
            BY <5>2 DEF a, d
        <4> QED
          BY <4>2, <4>3
      <3>9. ~k.writesDone
        BY <3>1, <3>3
      <3> QED
        BY <1>1, <1>2, <1>6, <2>3, <3>6, <3>7, <3>8, <3>9 DEF g, r, Queue, Singles
    <2> QED
      BY <1>1, <2>1, <2>2, <2>3, <2>4, <2>5
  <1>8. Serves(l)
    BY <1>1, <1>7 DEF Serves
  <1> QED
    BY <1>3, <1>4, <1>5, <1>8 DEF CallInv

LEMMA WritesDoneInv ==
  ASSUME NEW c \in Clients, NEW k, CallInv(c, k), k.client = "writing", k.toWrite = << >>,
         NEW l, Agree(k, l, {"client", "writesDone"}), l.client = "waiting"
  PROVE  CallInv(c, l)
  <1>1. /\ l.op = k.op /\ l.input = k.input /\ l.handler = k.handler /\ l.by = k.by /\ l.failed = k.failed
        /\ l.status = k.status /\ l.results = k.results /\ l.inbox = k.inbox
        /\ l.answer = k.answer /\ l.dead = k.dead
    BY CallFields DEF Agree
  <1>2. /\ l.native = k.native /\ l.replies = k.replies /\ l.success = k.success /\ l.value = k.value
        /\ l.toWrite = k.toWrite
    BY CallFields DEF Agree
  <1>3. Shape(c, l)
    BY <1>1 DEF Agree, CallInv, Shape
  <1>4. Life(l)
    BY <1>1 DEF CallInv, Life
  <1>5. Alone(l)
    BY <1>1 DEF CallInv, Alone
  <1>6. Read(l) = Read(k) /\ Done(l) = Done(k) /\ Given(l) = Given(k)
    BY <1>1 DEF Read, Done, Given
  <1>7. ASSUME ~k.dead, k.op \in Natives, k.handler # "none"
        PROVE  /\ Progress(l) /\ Queue(l) /\ Verdict(l)
               /\ IF l.op = "send_batch" THEN Collected(l) ELSE Lone(l)
    <2>0. /\ Progress(k) /\ Queue(k) /\ Verdict(k)
          /\ IF k.op = "send_batch" THEN Collected(k) ELSE Lone(k)
      BY <1>7 DEF CallInv, Serves
    <2>1. Progress(l)
      BY <1>1, <1>2, <1>6, <2>0 DEF Progress
    <2>2. Verdict(l)
      BY <1>1, <1>2, <1>6, <2>0 DEF Verdict
    <2>3. k.op = "send_batch"
      BY <1>7, <2>0 DEF Queue, Natives, Singles
    <2>4. Collected(l)
      BY <1>1, <1>2, <1>6, <2>0, <2>3 DEF Collected
    <2>5. Queue(l)
      BY <1>1, <1>2, <1>6, <2>0, <2>3 DEF Queue, Singles
    <2> QED
      BY <1>1, <2>1, <2>2, <2>3, <2>4, <2>5
  <1>8. Serves(l)
    BY <1>1, <1>7 DEF Serves
  <1> QED
    BY <1>3, <1>4, <1>5, <1>8 DEF CallInv

LEMMA RpcOf ==
  /\ Rpc("send") = "SendContainer" /\ Rpc("send_nothing") = "SendContainer"
  /\ Rpc("process") = "ProcessContainer" /\ Rpc("process_raw") = "ProcessContainer"
  /\ Rpc("stream") = "StreamContainers" /\ Rpc("stream_nothing") = "StreamContainers"
  /\ Rpc("send_batch") = "CollectContainers" /\ Rpc("chat") = "ProcessStream"
  /\ Rpc("get_status") = "GetStreamStatus"
  BY DEF Rpc

\* The client of a stream reads the container.
LEMMA ReplyReadInv ==
  ASSUME NEW c \in Clients, NEW k, CallInv(c, k), k.client = "waiting", k.op = "stream", k.replies # << >>,
         NEW l, Agree(k, l, {"replies", "value"}),
         l.replies = Tail(k.replies), l.value = Append(k.value, from_grpc(Head(k.replies)))
  PROVE  CallInv(c, l)
  <1>1. /\ l.op = k.op /\ l.input = k.input /\ l.handler = k.handler /\ l.by = k.by /\ l.failed = k.failed
        /\ l.status = k.status /\ l.results = k.results /\ l.inbox = k.inbox
        /\ l.answer = k.answer /\ l.dead = k.dead
    BY CallFields DEF Agree
  <1>2. /\ l.native = k.native /\ l.success = k.success /\ l.client = k.client
        /\ l.toWrite = k.toWrite /\ l.writesDone = k.writesDone
    BY CallFields DEF Agree
  <1>3. Shape(c, l)
    BY <1>1 DEF Agree, CallInv, Shape
  <1>4. Life(l)
    BY <1>1, <1>2 DEF CallInv, Life
  <1>5. Alone(l)
    BY <1>1, <1>2 DEF CallInv, Alone
  <1>6. Read(l) = Read(k) /\ Given(l) = Given(k)
    BY <1>1 DEF Read, Given
  <1>7. ASSUME ~k.dead, k.handler # "none"
        PROVE  Progress(l) /\ Queue(l) /\ Verdict(l) /\ Lone(l)
    <2>0. Progress(k) /\ Queue(k) /\ Verdict(k) /\ Lone(k)
      BY <1>7 DEF CallInv, Serves, Natives
    <2>1. Progress(l)
      BY <1>1, <1>2, <1>6, <2>0 DEF Progress
    <2>2. Verdict(l)
      BY <1>1 DEF Verdict, CallInv, Life
    <2>3. Queue(l)
      BY <1>1, <1>2, <1>6, <2>0 DEF Queue, Singles
    <2>4. Lone(l)
      <3>1. k.handler = "ended"
        BY <2>0 DEF Lone
      <3>2. CASE AllWell(k)
        <4>1. AnsweredOne(k)
          BY <2>0, <3>1, <3>2 DEF Lone
        <4> DEFINE m == Response(k.by[1], Given(k)[1])
        <4>2. Fits(k.by[1], Given(k)[1]) /\ k.results = << >> /\ k.replies = << m >> /\ k.value = << >>
          BY <4>1 DEF AnsweredOne
        <4> HIDE DEF m
        <4>3. l.replies = << >> /\ l.value = << from_grpc(m) >>
          BY <4>2
        <4>4. AllWell(l)
          BY <1>1, <1>2, <3>2 DEF AllWell
        <4>5. AnsweredOne(l)
          BY <1>1, <1>6, <4>2, <4>3 DEF AnsweredOne, m
        <4> QED
          BY <1>1, <3>1, <4>4, <4>5 DEF Lone
      <3>3. CASE ~AllWell(k)
        BY <1>1, <1>2, <1>6, <2>0, <3>1, <3>3 DEF Lone, AllWell
      <3> QED
        BY <3>2, <3>3
    <2> QED
      BY <2>1, <2>2, <2>3, <2>4
  <1>8. Serves(l)
    BY <1>1, <1>7 DEF Serves
  <1> QED
    BY <1>3, <1>4, <1>5, <1>8 DEF CallInv

\* What the client makes of the containers of an answer, and whether the
\* answer is a good one
Natively(k) == [i \in DOMAIN k.results |-> from_grpc(k.results[i])]
GoodAnswer(k) ==
  /\ k.status = "OK" /\ Thrown \notin ToSet(Natively(k))
  /\ Rpc(k.op) \in {"SendContainer", "CollectContainers"} => k.success

\* A batch that has ended without a failure is answered as expected.
LEMMA BatchAnswer ==
  ASSUME NEW c \in Clients, NEW k, CallInv(c, k), ~k.dead, k.op = "send_batch", k.handler = "ended"
  PROVE  /\ GoodAnswer(k) => /\ Len(Natively(k)) = Len(Given(k))
                             /\ \A i \in DOMAIN Given(k) : Expected(k.by[i], Given(k)[i], Natively(k)[i])
         /\ ~GoodAnswer(k) => Explains(k.by, Given(k))
  <1>0. Progress(k) /\ Collected(k) /\ Shape(c, k)
    BY DEF CallInv, Serves, Natives
  <1>1. /\ Len(Given(k)) \in Nat /\ DOMAIN Given(k) = 1..Len(Given(k))
        /\ \A i \in 1..Len(Given(k)) : Transparent(Given(k)[i])
    BY <1>0, ShapeGiven DEF Natives
  <1>2. /\ Read(k) = Len(Given(k)) /\ Len(k.by) = Len(Given(k)) /\ Done(k) = Len(Given(k))
        /\ \A i \in 1..Len(Given(k)) : to_grpc(Given(k)[i]) # Thrown /\ k.by[i] \in Installable
    <2>1. Len(k.by) = Len(Given(k))
      BY <1>0 DEF Progress
    <2>2. Read(k) = Len(k.by) /\ Done(k) = Len(k.by)
      BY <1>1, <2>1 DEF Read, Done
    <2> QED
      BY <1>0, <2>1, <2>2, ShapeBy DEF Progress
  <1>3. CASE k.failed # 0
    BY <1>0, <1>3, RpcOf DEF Collected, GoodAnswer
  <1>4. CASE k.failed = 0
    <2>1. /\ IsSeq(k.results) /\ Len(k.results) = Len(Given(k)) /\ k.status = "OK" /\ k.success
          /\ \A i \in 1..Len(Given(k)) : /\ Fits(k.by[i], Given(k)[i])
                                         /\ k.results[i] = Response(k.by[i], Given(k)[i])
      BY <1>0, <1>2, <1>4 DEF Collected
    <2>2. DOMAIN k.results = 1..Len(Given(k))
      BY <2>1 DEF IsSeq
    <2>3. DOMAIN Natively(k) = 1..Len(Given(k)) /\ \A i \in 1..Len(Given(k)) : Natively(k)[i] = from_grpc(k.results[i])
      BY <2>2 DEF Natively
    <2>4. \A i \in 1..Len(Given(k)) : Natively(k)[i] # Thrown /\ Expected(k.by[i], Given(k)[i], Natively(k)[i])
      BY <1>1, <1>2, <2>1, <2>3, FitsExpected
    <2>5. Thrown \notin ToSet(Natively(k))
      BY <2>3, <2>4 DEF ToSet
    <2>6. Len(Natively(k)) = Len(Given(k))
      BY <1>1, <2>3
    <2>7. GoodAnswer(k)
      BY <2>1, <2>5 DEF GoodAnswer
    <2> QED
      BY <1>1, <2>4, <2>6, <2>7
  <1> QED
    BY <1>3, <1>4

\* So is another call.
LEMMA SingleAnswer ==
  ASSUME NEW c \in Clients, NEW k, CallInv(c, k), ~k.dead, k.op \in Singles, k.handler = "ended",
         k.op = "stream" => k.replies = << >>
  PROVE  /\ GoodAnswer(k) =>
              LET v == IF k.op = "stream" THEN k.value ELSE Natively(k)
              IN  Len(v) = Len(Given(k)) /\ \A i \in DOMAIN Given(k) : Expected(k.by[i], Given(k)[i], v[i])
         /\ ~GoodAnswer(k) => Explains(k.by, Given(k))
  <1>0. Progress(k) /\ Lone(k) /\ Shape(c, k) /\ k.op \in Natives
    BY DEF CallInv, Serves, Natives, Singles
  <1>1. Len(Given(k)) = 1 /\ DOMAIN Given(k) = 1..1 /\ Transparent(Given(k)[1])
    BY <1>0, ShapeGiven DEF Progress
  <1>2. Len(k.by) = 1 /\ Read(k) = 1 /\ to_grpc(Given(k)[1]) # Thrown /\ k.by[1] \in Installable
    <2>1. Len(k.by) = 1
      BY <1>0, <1>1 DEF Progress
    <2>2. Read(k) = 1
      BY <2>1 DEF Read
    <2> QED
      BY <1>0, <2>1, <2>2, ShapeBy DEF Progress
  <1>3. CASE ~AllWell(k)
    <2>1. Explains(k.by, Given(k))
      BY <1>0, <1>3 DEF Lone
    <2>2. ~GoodAnswer(k)
      BY <1>3, RpcOf DEF GoodAnswer, AllWell
    <2> QED
      BY <2>1, <2>2
  <1>4. CASE AllWell(k)
    <2> DEFINE m == Response(k.by[1], Given(k)[1])
    <2>1. AnsweredOne(k)
      BY <1>0, <1>4 DEF Lone
    <2>2. from_grpc(m) # Thrown /\ Expected(k.by[1], Given(k)[1], from_grpc(m))
      BY <1>1, <1>2, <2>1, FitsExpected DEF AnsweredOne
    <2>3. /\ k.op # "stream" => k.results = << m >>
          /\ k.op = "stream" => k.results = << >> /\ k.value = << from_grpc(m) >>
      BY <2>1 DEF AnsweredOne
    <2> HIDE DEF m
    <2>4. k.op # "stream" => Natively(k) = << from_grpc(m) >>
      <3> SUFFICES ASSUME k.op # "stream" PROVE Natively(k) = << from_grpc(m) >>
        OBVIOUS
      <3>1. k.results = << m >> /\ DOMAIN << m >> = {1}
        BY <2>3
      <3>2. Natively(k) = [i \in {1} |-> from_grpc(m)]
        BY <3>1 DEF Natively
      <3> QED
        BY <3>2
    <2>5. k.op = "stream" => Natively(k) = << >>
      BY <2>3 DEF Natively
    <2>6. Thrown \notin ToSet(Natively(k))
      BY <2>2, <2>4, <2>5 DEF ToSet
    <2>7. GoodAnswer(k)
      BY <1>4, <2>6, RpcOf DEF GoodAnswer, AllWell, Singles
    <2> DEFINE v == IF k.op = "stream" THEN k.value ELSE Natively(k)
    <2>8. v = << from_grpc(m) >>
      BY <2>3, <2>4
    <2> HIDE DEF v
    <2>9. Len(v) = Len(Given(k)) /\ \A i \in DOMAIN Given(k) : Expected(k.by[i], Given(k)[i], v[i])
      BY <1>1, <2>2, <2>8
    <2> QED
      BY <2>7, <2>9 DEF v
  <1> QED
    BY <1>3, <1>4

LEMMA FinishInv ==
  ASSUME NEW c \in Clients, NEW k, CallInv(c, k), k.status # "none", ~k.dead,
         k.op = "stream" => k.replies = << >>, NEW l, Agree(k, l, {"client", "answer", "value"}),
         l.client = "idle", l.answer = IF GoodAnswer(k) THEN "success" ELSE "failure",
         l.value = IF k.op = "stream" \/ ~GoodAnswer(k) THEN k.value ELSE Natively(k)
  PROVE  CallInv(c, l)
  <1>1. /\ l.op = k.op /\ l.input = k.input /\ l.handler = k.handler /\ l.by = k.by /\ l.failed = k.failed
        /\ l.status = k.status /\ l.results = k.results /\ l.inbox = k.inbox /\ l.dead = k.dead
    BY CallFields DEF Agree
  <1>2. /\ l.native = k.native /\ l.success = k.success /\ l.replies = k.replies
        /\ l.toWrite = k.toWrite /\ l.writesDone = k.writesDone
    BY CallFields DEF Agree
  <1>3. Shape(c, l)
    BY <1>1 DEF Agree, CallInv, Shape
  <1>0. k.handler = "ended"
    BY DEF CallInv, Life
  <1>4. Life(l)
    BY <1>0, <1>1, <1>2 DEF Life
  <1>5. Alone(l)
    <2>1. ASSUME k.op \in Loners PROVE GoodAnswer(k)
      <3>1. k.status = "OK" /\ k.results = << >>
        BY <1>0, <2>1 DEF CallInv, Alone
      <3>2. Natively(k) = << >>
        BY <3>1 DEF Natively
      <3>3. Thrown \notin ToSet(Natively(k))
        BY <3>2 DEF ToSet
      <3> QED
        BY <2>1, <3>1, <3>3, RpcOf DEF GoodAnswer, Loners
    <2> QED
      BY <1>1, <1>2, <2>1 DEF CallInv, Alone
  <1>6. Read(l) = Read(k) /\ Given(l) = Given(k) /\ Done(l) = Done(k)
    BY <1>1 DEF Read, Given, Done
  <1>7. ASSUME k.op \in Natives
        PROVE  /\ Progress(l) /\ Queue(l) /\ Verdict(l)
               /\ IF l.op = "send_batch" THEN Collected(l) ELSE Lone(l)
    <2>0. /\ Progress(k) /\ Queue(k)
          /\ IF k.op = "send_batch" THEN Collected(k) ELSE Lone(k)
      BY <1>0, <1>7 DEF CallInv, Serves
    <2>1. Progress(l)
      BY <1>1, <1>2, <1>6, <2>0 DEF Progress
    <2>2. Queue(l)
      BY <1>1, <1>2, <1>6, <2>0 DEF Queue, Singles
    <2>3. CASE k.op = "send_batch"
      <3>1. Collected(l)
        BY <1>1, <1>2, <1>6, <2>0, <2>3 DEF Collected
      <3>2. Verdict(l)
        BY <1>0, <1>1, <1>6, <2>3, BatchAnswer DEF Verdict
      <3> QED
        BY <1>1, <2>1, <2>2, <2>3, <3>1, <3>2
    <2>4. CASE k.op \in Singles
      <3>1. Lone(l)
        BY <1>0, <1>1, <1>2, <1>6, <2>0, <2>4 DEF Lone, AllWell, AnsweredOne, Singles
      <3>2. Verdict(l)
        BY <1>0, <1>1, <1>6, <2>4, SingleAnswer DEF Verdict
      <3> QED
        BY <1>1, <2>1, <2>2, <2>4, <3>1, <3>2 DEF Singles
    <2> QED
      BY <1>7, <2>3, <2>4 DEF Natives, Singles
  <1>8. Serves(l)
    BY <1>1, <1>7 DEF Serves
  <1> QED
    BY <1>3, <1>4, <1>5, <1>8 DEF CallInv

-----------------------------------------------------------------------------
(* Answers: the handlers *)

LEMMA HandledLife ==
  ASSUME NEW c, NEW k, CallInv(c, k), Handled(k)
  PROVE  /\ k.handler # "none" /\ k.handler # "ended" /\ k.op # "none" /\ k.op \in Operations /\ IsCall(k)
         /\ k.status = "none" /\ (~k.dead => k.answer = "none") /\ k.answer # "success"
  BY DEF CallInv, Handled, Life, Shape

LEMMA RespondFields ==
  ASSUME NEW k, IsCall(k), NEW status, NEW success, NEW results
  PROVE  LET l == Respond(k, status, success, results)
         IN  /\ Agree(k, l, {"handler", "status", "success", "results"})
             /\ l.handler = "ended" /\ l.status = status /\ l.success = success /\ l.results = results
  BY CallFields DEF Agree, IsCall, Respond

\* The answer of a handler, apart from what it says
LEMMA EndInv ==
  ASSUME NEW c \in Clients, NEW k, CallInv(c, k), Handled(k),
         NEW l, Agree(k, l, {"handler", "status", "success", "results", "replies"}), l.handler = "ended",
         k.op \in Loners => l.status = "OK" /\ l.results = << >>
  PROVE  Shape(c, l) /\ Life(l) /\ Alone(l)
  <1>1. /\ l.op = k.op /\ l.input = k.input /\ l.by = k.by /\ l.failed = k.failed
        /\ l.inbox = k.inbox /\ l.dead = k.dead /\ l.client = k.client /\ l.answer = k.answer
    BY CallFields DEF Agree
  <1>2. Shape(c, l)
    BY <1>1, HandledLife DEF Agree, CallInv, Shape
  <1>3. Life(l)
    BY <1>1 DEF CallInv, Life
  <1>4. Alone(l)
    BY <1>1 DEF CallInv, Alone
  <1> QED
    BY <1>2, <1>3, <1>4

\* A handler goes on, apart from what it does with a container of the client's.
LEMMA GoOnInv ==
  ASSUME NEW c \in Clients, NEW k, CallInv(c, k), Handled(k), k.op \notin {"stream_nothing", "get_status"},
         NEW l, Agree(k, l, {"handler", "failed", "native", "inbox", "by", "results", "replies"}), Handled(l),
         l.failed \in Nat, l.by \in Seq(Installable)
  PROVE  Shape(c, l) /\ Life(l) /\ Alone(l)
  <1>1. /\ l.op = k.op /\ l.input = k.input /\ l.dead = k.dead /\ l.client = k.client /\ l.answer = k.answer
        /\ l.status = k.status
    BY CallFields DEF Agree
  <1>2. Shape(c, l)
    BY <1>1, HandledLife DEF Agree, CallInv, Shape
  <1>3. Life(l)
    BY <1>1, HandledLife DEF CallInv, Life
  <1>4. Alone(l)
    BY <1>1 DEF CallInv, Alone, Handled, Loners
  <1> QED
    BY <1>2, <1>3, <1>4

\* A failure, apart from its reason
LEMMA FailedShape ==
  ASSUME NEW c \in Clients, NEW k, CallInv(c, k), Handled(k), k.op \notin {"stream_nothing", "get_status"}
  PROVE  Shape(c, Failed(k)) /\ Life(Failed(k)) /\ Alone(Failed(k)) /\ Failed(k).dead = k.dead /\ Failed(k).op = k.op
         /\ Failed(k).handler # "running"
  <1>0. IsCall(k) /\ k.op \in Operations /\ k.failed \in Nat /\ k.by \in Seq(Installable)
    BY HandledLife DEF CallInv, Shape
  <1>1. CASE Rpc(k.op) = "CollectContainers"
    <2> DEFINE l == [k EXCEPT !.handler = "reading", !.failed = @ + 1]
    <2>1. Failed(k) = l
      BY <1>1 DEF Failed
    <2>2. /\ Agree(k, l, {"handler", "failed", "native", "inbox", "by", "results", "replies"})
          /\ l.handler = "reading" /\ l.failed = k.failed + 1 /\ l.by = k.by /\ l.dead = k.dead /\ l.op = k.op
      BY <1>0, CallFields DEF Agree, IsCall
    <2> HIDE DEF l
    <2>3. Handled(l) /\ l.failed \in Nat /\ l.by \in Seq(Installable)
      BY <1>0, <2>2 DEF Handled
    <2> QED
      BY <2>1, <2>2, <2>3, GoOnInv
  <1>2. CASE Rpc(k.op) \in {"SendContainer", "ProcessContainer", "StreamContainers"}
    <2>1. PICK status : Failed(k) = Respond(k, status, FALSE, << >>)
      BY <1>2 DEF Failed
    <2> DEFINE l == Respond(k, status, FALSE, << >>)
    <2>2. Agree(k, l, {"handler", "status", "success", "results"}) /\ l.handler = "ended"
      BY <1>0, CallFields DEF Agree, IsCall, Respond
    <2> HIDE DEF l
    <2>3. Agree(k, l, {"handler", "status", "success", "results", "replies"}) /\ l.dead = k.dead /\ l.op = k.op
      BY <2>2, CallFields DEF Agree
    <2>4. k.op \notin Loners
      BY <1>2, RpcOf DEF Loners
    <2> QED
      BY <2>1, <2>2, <2>3, <2>4, EndInv DEF l
  <1>3. CASE Rpc(k.op) \notin {"CollectContainers", "SendContainer", "ProcessContainer", "StreamContainers"}
    <2> DEFINE l == [k EXCEPT !.handler = "reading"]
    <2>1. Failed(k) = l
      BY <1>3 DEF Failed
    <2>2. /\ Agree(k, l, {"handler", "failed", "native", "inbox", "by", "results", "replies"})
          /\ l.handler = "reading" /\ l.failed = k.failed /\ l.by = k.by /\ l.dead = k.dead /\ l.op = k.op
      BY <1>0, CallFields DEF Agree, IsCall
    <2> HIDE DEF l
    <2>3. Handled(l) /\ l.failed \in Nat /\ l.by \in Seq(Installable)
      BY <1>0, <2>2 DEF Handled
    <2> QED
      BY <2>1, <2>2, <2>3, GoOnInv
  <1> QED
    BY <1>1, <1>2, <1>3

\* A call that owes no faithful answer may fail anywhere.
LEMMA FailedElsewhere ==
  ASSUME NEW c \in Clients, NEW k, CallInv(c, k), Handled(k), k.op \notin {"stream_nothing", "get_status"},
         k.dead \/ k.op \notin Natives
  PROVE  CallInv(c, Failed(k)) /\ Failed(k).handler # "running"
  BY FailedShape DEF CallInv, Serves

\* The message of a single call is converted.
LEMMA LockOneInv ==
  ASSUME NEW c \in Clients, NEW k, CallInv(c, k), k.handler = "called", k.op \notin {"stream_nothing", "get_status", "send_batch"},
         NEW l, Agree(k, l, {"handler", "native"}), l.handler = "locking", l.native = from_grpc(k.inbox[1])
  PROVE  CallInv(c, l)
  <1>1. /\ l.op = k.op /\ l.input = k.input /\ l.by = k.by /\ l.failed = k.failed
        /\ l.status = k.status /\ l.results = k.results /\ l.inbox = k.inbox /\ l.dead = k.dead
    BY CallFields DEF Agree
  <1>2. /\ l.success = k.success /\ l.replies = k.replies /\ l.value = k.value /\ l.client = k.client
        /\ l.toWrite = k.toWrite /\ l.writesDone = k.writesDone /\ l.answer = k.answer
    BY CallFields DEF Agree
  <1>3. Handled(k) /\ Handled(l)
    BY DEF Handled
  <1>4. Shape(c, l) /\ Life(l) /\ Alone(l)
    <2>1. Agree(k, l, {"handler", "failed", "native", "inbox", "by", "results", "replies"})
      BY DEF Agree
    <2>2. l.failed \in Nat /\ l.by \in Seq(Installable)
      BY <1>1 DEF CallInv, Shape
    <2> QED
      BY <1>3, <2>1, <2>2, GoOnInv
  <1>5. Given(l) = Given(k)
    BY <1>1 DEF Given
  <1>6. ASSUME ~k.dead, k.op \in Natives
        PROVE  Progress(l) /\ Queue(l) /\ Verdict(l) /\ Lone(l)
    <2>0. Progress(k) /\ Queue(k) /\ Lone(k) /\ k.op \in Singles
      BY <1>6 DEF CallInv, Serves, Natives, Singles
    <2>1. k.by = << >> /\ Len(Given(k)) = 1 /\ k.inbox[1] = to_grpc(Given(k)[1]) /\ k.inbox[1] # Thrown
      BY <2>0 DEF Progress, Queue
    <2>2. Len(l.by) = 0 /\ Read(l) = 1
      BY <1>1, <2>1 DEF Read
    <2>3. l.native = Trip(Given(l)[Len(l.by) + 1])
      BY <1>5, <2>1, <2>2 DEF Trip
    <2>4. Progress(l)
      BY <1>1, <1>5, <2>1, <2>2, <2>3 DEF Progress
    <2>5. Queue(l)
      BY <1>1, <1>2, <1>5, <2>0 DEF Queue, Singles
    <2>6. Verdict(l)
      BY <1>2, <1>3, <1>6, HandledLife DEF Verdict
    <2>7. Lone(l)
      BY <1>2, <2>0 DEF Lone
    <2> QED
      BY <2>4, <2>5, <2>6, <2>7
  <1>7. Serves(l)
    BY <1>1, <1>6 DEF Serves
  <1> QED
    BY <1>4, <1>7 DEF CallInv

\* It is not lost there.
LEMMA LockOneOK ==
  ASSUME NEW c \in Clients, NEW k, CallInv(c, k), k.handler = "called", ~k.dead, k.op \in Singles
  PROVE  from_grpc(k.inbox[1]) # Thrown /\ k.inbox # << >>
  <1>1. Progress(k) /\ Queue(k) /\ k.op \in Natives
    BY DEF CallInv, Serves, Natives, Singles
  <1>2. Transparent(Given(k)[1])
    BY <1>1, ShapeGiven DEF CallInv, Progress
  <1>3. k.inbox # << >> /\ k.inbox[1] = to_grpc(Given(k)[1]) /\ k.inbox[1] # Thrown
    BY <1>1 DEF Queue
  <1> QED
    BY <1>2, <1>3, TripOK DEF Trip

\* A message of a batch is read, the next of its containers.
LEMMA LockNextInv ==
  ASSUME NEW c \in Clients, NEW k, CallInv(c, k), k.handler = "reading", k.inbox # << >>,
         NEW l, Agree(k, l, {"handler", "native", "inbox"}), l.handler = "locking",
         l.inbox = Tail(k.inbox), l.native = from_grpc(Head(k.inbox))
  PROVE  CallInv(c, l)
  <1>1. /\ l.op = k.op /\ l.input = k.input /\ l.by = k.by /\ l.failed = k.failed
        /\ l.status = k.status /\ l.results = k.results /\ l.dead = k.dead
    BY CallFields DEF Agree
  <1>2. /\ l.success = k.success /\ l.replies = k.replies /\ l.value = k.value /\ l.client = k.client
        /\ l.toWrite = k.toWrite /\ l.writesDone = k.writesDone /\ l.answer = k.answer
    BY CallFields DEF Agree
  <1>3. Handled(k) /\ Handled(l) /\ k.op \notin {"stream_nothing", "get_status"}
    BY DEF Handled, CallInv, Alone, Loners
  <1>4. Shape(c, l) /\ Life(l) /\ Alone(l)
    <2>1. Agree(k, l, {"handler", "failed", "native", "inbox", "by", "results", "replies"})
      BY DEF Agree
    <2>2. l.failed \in Nat /\ l.by \in Seq(Installable)
      BY <1>1 DEF CallInv, Shape
    <2> QED
      BY <1>3, <2>1, <2>2, GoOnInv
  <1>5. Given(l) = Given(k)
    BY <1>1 DEF Given
  <1>6. ASSUME ~k.dead, k.op \in Natives
        PROVE  Progress(l) /\ Queue(l) /\ Verdict(l) /\ Collected(l) /\ k.op = "send_batch"
    <2>0. Progress(k) /\ Queue(k) /\ k.op = "send_batch" /\ Collected(k)
      BY <1>3, <1>6, HandledLife DEF CallInv, Serves, Natives, Singles, Progress
    <2> DEFINE g == Given(k)
               r == Read(k)
               in == k.inbox
               out == k.toWrite
               a == Len(in)
               b == Len(out)
               n == Len(g)
    <2>1. /\ IsSeq(in) /\ IsSeq(out) /\ (k.writesDone => out = << >>) /\ r + a + b = n
          /\ \A j \in 1..a : in[j] = to_grpc(g[r + j]) /\ in[j] # Thrown
          /\ \A j \in 1..b : out[j] = to_grpc(g[r + a + j])
      BY <2>0 DEF Queue
    <2>2. r \in Nat /\ r = Len(k.by) /\ n \in Nat /\ b \in Nat
      <3>1. Len(k.by) \in Nat
        BY ShapeBy DEF CallInv
      <3>2. n \in Nat
        BY <1>6, ShapeGiven DEF CallInv
      <3>3. b \in Nat
        BY <2>1 DEF IsSeq
      <3> QED
        BY <3>1, <3>2, <3>3 DEF Read
    <2>3. /\ IsSeq(Tail(in)) /\ Len(Tail(in)) = a - 1 /\ a \in Nat /\ a > 0
          /\ Head(in) = in[1] /\ \A j \in 1..(a - 1) : Tail(in)[j] = in[j + 1]
      BY <2>1, TailOwn
    <2>4. /\ l.inbox = Tail(in) /\ l.toWrite = out /\ l.native = from_grpc(Head(in)) /\ l.by = k.by
          /\ Read(l) = r + 1 /\ Done(l) = Done(k) /\ Done(k) = Len(k.by)
      <3>1. Read(l) = Len(k.by) + 1
        BY <1>1 DEF Read
      <3>2. Done(l) = Done(k) /\ Done(k) = Len(k.by)
        BY <1>1, <2>2 DEF Done
      <3> QED
        BY <1>1, <1>2, <2>2, <3>1, <3>2
    <2>5. \A i \in 1..r : to_grpc(g[i]) # Thrown
      BY <2>0 DEF Progress
    <2> HIDE DEF g, r, in, out, a, b, n
    <2>13. r \in Nat /\ a \in Nat /\ b \in Nat /\ a > 0 /\ r + a + b = n
      BY <2>1, <2>2, <2>3
    <2>6. in[1] = to_grpc(g[r + 1]) /\ in[1] # Thrown /\ r + 1 <= n
      BY <2>1, <2>2, <2>3
    <2>7. \A i \in 1..(r + 1) : to_grpc(g[i]) # Thrown
      BY <2>2, <2>5, <2>6
    <2>8. l.native = Trip(g[Len(k.by) + 1])
      BY <2>2, <2>3, <2>4, <2>6 DEF Trip
    <2>9. Progress(l)
      BY <1>1, <1>5, <2>0, <2>4, <2>6, <2>7, <2>8 DEF g, n, Progress, Singles
    <2>10. Queue(l)
      <3>1. IsSeq(l.inbox) /\ IsSeq(l.toWrite) /\ (l.writesDone => l.toWrite = << >>)
        BY <1>2, <2>1, <2>3, <2>4
      <3>2. Len(l.inbox) = a - 1 /\ Len(l.toWrite) = b
        BY <2>3, <2>4 DEF b
      <3>3. Read(l) + Len(l.inbox) + Len(l.toWrite) = n
        <4>1. (r + 1) + (a - 1) + b = n
          BY <2>13
        <4> QED
          BY <2>4, <3>2, <4>1
      <3>4. \A j \in 1..Len(l.inbox) : l.inbox[j] = to_grpc(g[Read(l) + j]) /\ l.inbox[j] # Thrown
        <4> SUFFICES ASSUME NEW j \in 1..(a - 1)
                     PROVE  l.inbox[j] = to_grpc(g[(r + 1) + j]) /\ l.inbox[j] # Thrown
          BY <2>4, <3>2
        <4>1. j + 1 \in 1..a /\ r + (j + 1) = (r + 1) + j
          BY <2>13
        <4>2. in[j + 1] = to_grpc(g[r + (j + 1)]) /\ in[j + 1] # Thrown
          BY <2>1, <4>1
        <4> QED
          BY <2>3, <2>4, <4>1, <4>2
      <3>5. \A j \in 1..Len(l.toWrite) : l.toWrite[j] = to_grpc(g[Read(l) + Len(l.inbox) + j])
        <4> SUFFICES ASSUME NEW j \in 1..b
                     PROVE  out[j] = to_grpc(g[(r + 1) + (a - 1) + j])
          BY <2>4, <3>2
        <4>1. (r + 1) + (a - 1) + j = r + a + j
          BY <2>2, <2>3
        <4> QED
          BY <2>1, <4>1
      <3> QED
        BY <1>1, <1>5, <2>0, <3>1, <3>3, <3>4, <3>5 DEF g, n, Queue, Singles
    <2>11. Verdict(l)
      BY <1>2, <1>3, <1>6, HandledLife DEF Verdict
    <2>12. Collected(l)
      BY <1>1, <1>2, <1>5, <2>0, <2>4 DEF Collected
    <2> QED
      BY <2>0, <2>9, <2>10, <2>11, <2>12
  <1>7. Serves(l)
    BY <1>1, <1>6 DEF Serves
  <1> QED
    BY <1>4, <1>7 DEF CallInv

LEMMA LockNextOK ==
  ASSUME NEW c \in Clients, NEW k, CallInv(c, k), k.handler = "reading", k.inbox # << >>, ~k.dead, k.op \in Natives
  PROVE  from_grpc(Head(k.inbox)) # Thrown
  <1>1. Progress(k) /\ Queue(k) /\ k.op = "send_batch"
    BY DEF CallInv, Serves, Natives, Singles, Progress
  <1>2. /\ Len(k.inbox) \in Nat /\ Len(k.inbox) > 0 /\ Head(k.inbox) = k.inbox[1]
        /\ Len(k.toWrite) \in Nat /\ Read(k) \in Nat
    <2>1. IsSeq(k.inbox) /\ IsSeq(k.toWrite)
      BY <1>1 DEF Queue
    <2>2. Len(k.toWrite) \in Nat
      BY <2>1 DEF IsSeq
    <2> QED
      BY <2>1, <2>2, TailOwn, ShapeBy DEF CallInv
  <1> DEFINE r == Read(k)
             n == Len(Given(k))
             a == Len(k.inbox)
             b == Len(k.toWrite)
  <1>3. r + a + b = n /\ k.inbox[1] = to_grpc(Given(k)[r + 1]) /\ k.inbox[1] # Thrown
    BY <1>1, <1>2 DEF Queue
  <1>4. r \in Nat /\ a \in Nat /\ a > 0 /\ b \in Nat
    BY <1>2
  <1>5. \A i \in 1..n : Transparent(Given(k)[i])
    BY ShapeGiven DEF CallInv
  <1> HIDE DEF r, n, a, b
  <1>6. r + 1 \in 1..n
    BY <1>3, <1>4
  <1> QED
    BY <1>2, <1>3, <1>5, <1>6, TripOK DEF Trip

LEMMA OpenInv ==
  ASSUME NEW c \in Clients, NEW k, CallInv(c, k), k.handler = "called", k.op \in {"send_batch", "chat"},
         NEW l, Agree(k, l, {"handler"}), l.handler = "reading"
  PROVE  CallInv(c, l)
  <1>1. /\ l.op = k.op /\ l.input = k.input /\ l.by = k.by /\ l.failed = k.failed
        /\ l.status = k.status /\ l.results = k.results /\ l.dead = k.dead /\ l.inbox = k.inbox
    BY CallFields DEF Agree
  <1>2. /\ l.success = k.success /\ l.replies = k.replies /\ l.value = k.value /\ l.client = k.client
        /\ l.toWrite = k.toWrite /\ l.writesDone = k.writesDone /\ l.answer = k.answer
    BY CallFields DEF Agree
  <1>3. Handled(k) /\ Handled(l) /\ k.op \notin {"stream_nothing", "get_status"} /\ l.native = k.native
    BY CallFields DEF Handled, Agree
  <1>4. Shape(c, l) /\ Life(l) /\ Alone(l)
    <2>1. Agree(k, l, {"handler", "failed", "native", "inbox", "by", "results", "replies"})
      BY DEF Agree
    <2>2. l.failed \in Nat /\ l.by \in Seq(Installable)
      BY <1>1 DEF CallInv, Shape
    <2> QED
      BY <1>3, <2>1, <2>2, GoOnInv
  <1>5. Given(l) = Given(k) /\ Read(l) = Read(k) /\ Done(l) = Done(k)
    BY <1>1 DEF Given, Read, Done
  <1>6. ASSUME ~k.dead, k.op = "send_batch"
        PROVE  Progress(l) /\ Queue(l) /\ Verdict(l) /\ Collected(l)
    <2>0. Progress(k) /\ Queue(k) /\ Collected(k)
      BY <1>6 DEF CallInv, Serves, Natives
    <2>1. Progress(l)
      BY <1>1, <1>5, <1>6, <2>0 DEF Progress, Singles
    <2>2. Queue(l)
      BY <1>1, <1>2, <1>5, <1>6, <2>0 DEF Queue, Singles
    <2>3. Verdict(l)
      BY <1>2, <1>3, <1>6, HandledLife DEF Verdict
    <2>4. Collected(l)
      BY <1>1, <1>2, <1>5, <2>0 DEF Collected
    <2> QED
      BY <2>1, <2>2, <2>3, <2>4
  <1>7. Serves(l)
    BY <1>1, <1>6 DEF Serves, Natives
  <1> QED
    BY <1>4, <1>7 DEF CallInv

\* A batch ends once every container is answered, or one has failed.
LEMMA CollectEndsInv ==
  ASSUME NEW c \in Clients, NEW k, CallInv(c, k), k.handler = "reading", k.op = "send_batch",
         k.dead \/ (k.inbox = << >> /\ k.writesDone)
  PROVE  CallInv(c, Respond(k, "OK", k.failed = 0, k.results))
  <1> DEFINE l == Respond(k, "OK", k.failed = 0, k.results)
  <1>0. /\ Agree(k, l, {"handler", "status", "success", "results"})
        /\ l.handler = "ended" /\ l.status = "OK" /\ l.results = k.results /\ l.success = (k.failed = 0)
    BY CallFields DEF Agree, IsCall, Respond, CallInv, Shape
  <1> HIDE DEF l
  <1>1. /\ l.op = k.op /\ l.input = k.input /\ l.by = k.by /\ l.failed = k.failed
        /\ l.dead = k.dead /\ l.inbox = k.inbox /\ l.native = k.native
    BY <1>0, CallFields DEF Agree
  <1>2. /\ l.replies = k.replies /\ l.value = k.value /\ l.client = k.client
        /\ l.toWrite = k.toWrite /\ l.writesDone = k.writesDone /\ l.answer = k.answer
    BY <1>0, CallFields DEF Agree
  <1>3. Handled(k)
    BY DEF Handled
  <1>4. Shape(c, l) /\ Life(l) /\ Alone(l)
    <2>1. Agree(k, l, {"handler", "status", "success", "results", "replies"}) /\ k.op \notin Loners
      BY <1>0 DEF Agree, Loners
    <2> QED
      BY <1>0, <1>3, <2>1, EndInv
  <1>5. Given(l) = Given(k) /\ Read(l) = Read(k) /\ Done(l) = Done(k)
    BY <1>0, <1>1 DEF Given, Read, Done
  <1>6. ASSUME ~k.dead
        PROVE  Progress(l) /\ Queue(l) /\ Verdict(l) /\ Collected(l)
    <2>0. Progress(k) /\ Queue(k) /\ Collected(k)
      BY <1>6 DEF CallInv, Serves, Natives
    <2>1. Len(k.by) = Len(Given(k))
      <3>1. Len(k.inbox) = 0 /\ Len(k.toWrite) = 0 /\ Read(k) + Len(k.inbox) + Len(k.toWrite) = Len(Given(k))
        BY <1>6, <2>0 DEF Queue
      <3>2. Len(k.by) \in Nat
        BY ShapeBy DEF CallInv
      <3>3. Read(k) = Len(k.by)
        BY <3>2 DEF Read
      <3> QED
        BY <3>1, <3>2, <3>3
    <2>2. Progress(l)
      BY <1>0, <1>1, <1>5, <2>0, <2>1 DEF Progress, Singles
    <2>3. Queue(l)
      BY <1>0, <1>1, <1>2, <1>5, <2>0 DEF Queue, Singles
    <2>4. Verdict(l)
      BY <1>2, <1>3, <1>6, HandledLife DEF Verdict
    <2>5. (l.success => l.failed = 0) /\ (~l.success => l.failed # 0)
      BY <1>0, <1>1, Zenon
    <2>6. Collected(l)
      BY <1>0, <1>1, <1>5, <2>0, <2>5 DEF Collected
    <2> QED
      BY <2>2, <2>3, <2>4, <2>6
  <1>7. Serves(l)
    BY <1>1, <1>6 DEF Serves
  <1>8. CallInv(c, l)
    BY <1>4, <1>7 DEF CallInv
  <1> QED
    BY <1>8 DEF l

\* The processor of the moment is noted.
LEMMA AcquireInv ==
  ASSUME NEW c \in Clients, NEW k, CallInv(c, k), k.handler = "locking", NEW p \in Installable,
         NEW l, Agree(k, l, {"handler", "by"}),
         l.handler = IF p = NoProcessor THEN "replying" ELSE "running", l.by = Append(k.by, p)
  PROVE  CallInv(c, l) /\ l.by[Len(l.by)] = p
  <1>1. /\ l.op = k.op /\ l.input = k.input /\ l.failed = k.failed /\ l.native = k.native
        /\ l.status = k.status /\ l.results = k.results /\ l.dead = k.dead /\ l.inbox = k.inbox
    BY CallFields DEF Agree
  <1>2. /\ l.success = k.success /\ l.replies = k.replies /\ l.value = k.value /\ l.client = k.client
        /\ l.toWrite = k.toWrite /\ l.writesDone = k.writesDone /\ l.answer = k.answer
    BY CallFields DEF Agree
  <1>3. Handled(k) /\ Handled(l) /\ k.op \notin {"stream_nothing", "get_status"}
    BY DEF Handled, CallInv, Alone, Loners
  <1> DEFINE n == Len(k.by)
  <1>4. /\ n \in Nat /\ l.by \in Seq(Installable) /\ Len(l.by) = n + 1 /\ l.by[n + 1] = p
        /\ \A i \in 1..n : l.by[i] = k.by[i]
    <2>1. k.by \in Seq(Installable)
      BY DEF CallInv, Shape
    <2> QED
      BY <2>1
  <1>5. Given(l) = Given(k)
    BY <1>1 DEF Given
  <1>6. Read(k) = n + 1 /\ Done(k) = n
    BY <1>4 DEF Read, Done
  <1> HIDE DEF n
  <1>7. Read(l) = n + 1 /\ Done(l) = n
    BY <1>4 DEF Read, Done
  <1>8. Shape(c, l) /\ Life(l) /\ Alone(l)
    <2>1. Agree(k, l, {"handler", "failed", "native", "inbox", "by", "results", "replies"})
      BY DEF Agree
    <2>2. l.failed \in Nat
      BY <1>1 DEF CallInv, Shape
    <2> QED
      BY <1>3, <1>4, <2>1, <2>2, GoOnInv
  <1>9. ASSUME ~k.dead, k.op \in Natives
        PROVE  /\ Progress(l) /\ Queue(l) /\ Verdict(l)
               /\ IF l.op = "send_batch" THEN Collected(l) ELSE Lone(l)
    <2>0. /\ Progress(k) /\ Queue(k)
          /\ IF k.op = "send_batch" THEN Collected(k) ELSE Lone(k)
      BY <1>9 DEF CallInv, Serves
    <2>1. /\ n + 1 <= Len(Given(k)) /\ k.native = Trip(Given(k)[n + 1])
          /\ \A i \in 1..(n + 1) : to_grpc(Given(k)[i]) # Thrown
      BY <1>6, <2>0 DEF Progress, n
    <2>2. k.native # Thrown
      <3>1. n + 1 \in 1..Len(Given(k)) /\ Transparent(Given(k)[n + 1])
        BY <1>4, <1>9, <2>1, ShapeGiven DEF CallInv
      <3> QED
        BY <1>4, <2>1, <3>1, TripOK
    <2>3. l.handler = "replying" => l.native = Out(l.by[Len(l.by)], Given(l)[Len(l.by)])
      BY <1>1, <1>4, <1>5, <2>1 DEF Out
    <2>4. l.op \in Singles => Len(Given(l)) = 1
      BY <1>1, <1>5, <2>0 DEF Progress
    <2>5. Progress(l)
      BY <1>1, <1>4, <1>5, <1>7, <2>1, <2>2, <2>3, <2>4 DEF Progress
    <2>6. Queue(l)
      <3>1. Read(l) = Read(k)
        BY <1>6, <1>7
      <3> QED
        BY <1>1, <1>2, <1>5, <2>0, <3>1 DEF Queue
    <2>7. Verdict(l)
      BY <1>2, <1>3, <1>9, HandledLife DEF Verdict
    <2>8. CASE k.op = "send_batch"
      <3>1. Collected(k)
        BY <2>0, <2>8
      <3>2. Explains(k.by, Given(k)) => Explains(l.by, Given(l))
        BY <1>5, ExplainsMore DEF CallInv, Shape
      <3>3. Collected(l)
        BY <1>1, <1>4, <1>5, <1>6, <1>7, <3>1, <3>2 DEF Collected
      <3> QED
        BY <1>1, <2>5, <2>6, <2>7, <2>8, <3>3
    <2>9. CASE k.op # "send_batch"
      <3>1. Lone(l)
        BY <1>2, <2>0, <2>9 DEF Lone
      <3> QED
        BY <1>1, <2>5, <2>6, <2>7, <2>9, <3>1
    <2> QED
      BY <2>8, <2>9
  <1>10. Serves(l)
    BY <1>1, <1>9 DEF Serves
  <1> QED
    BY <1>4, <1>8, <1>10 DEF CallInv

\* The processor that was noted has run.
LEMMA ProcessedInv ==
  ASSUME NEW c \in Clients, NEW k, CallInv(c, k), k.handler = "running",
         NEW native, native = Apply(k.by[Len(k.by)], k.native), native # Thrown,
         NEW l, Agree(k, l, {"handler", "native"}), l.handler = "replying", l.native = native
  PROVE  CallInv(c, l)
  <1>1. /\ l.op = k.op /\ l.input = k.input /\ l.by = k.by /\ l.failed = k.failed
        /\ l.status = k.status /\ l.results = k.results /\ l.dead = k.dead /\ l.inbox = k.inbox
    BY CallFields DEF Agree
  <1>2. /\ l.success = k.success /\ l.replies = k.replies /\ l.value = k.value /\ l.client = k.client
        /\ l.toWrite = k.toWrite /\ l.writesDone = k.writesDone /\ l.answer = k.answer
    BY CallFields DEF Agree
  <1>3. Handled(k) /\ Handled(l) /\ k.op \notin {"stream_nothing", "get_status"}
    BY DEF Handled, CallInv, Alone, Loners
  <1>4. Shape(c, l) /\ Life(l) /\ Alone(l)
    <2>1. Agree(k, l, {"handler", "failed", "native", "inbox", "by", "results", "replies"})
      BY DEF Agree
    <2>2. l.failed \in Nat /\ l.by \in Seq(Installable)
      BY <1>1 DEF CallInv, Shape
    <2> QED
      BY <1>3, <2>1, <2>2, GoOnInv
  <1>5. Given(l) = Given(k) /\ Read(l) = Read(k) /\ Done(l) = Done(k)
    BY <1>1 DEF Given, Read, Done
  <1>6. ASSUME ~k.dead, k.op \in Natives
        PROVE  /\ Progress(l) /\ Queue(l) /\ Verdict(l)
               /\ IF l.op = "send_batch" THEN Collected(l) ELSE Lone(l)
    <2>0. /\ Progress(k) /\ Queue(k)
          /\ IF k.op = "send_batch" THEN Collected(k) ELSE Lone(k)
      BY <1>6 DEF CallInv, Serves
    <2>1. native = Out(k.by[Len(k.by)], Given(k)[Len(k.by)])
      BY <2>0 DEF Progress, Out
    <2>2. Progress(l)
      BY <1>1, <1>5, <2>0, <2>1 DEF Progress
    <2>3. Queue(l)
      BY <1>1, <1>2, <1>5, <2>0 DEF Queue
    <2>4. Verdict(l)
      BY <1>2, <1>3, <1>6, HandledLife DEF Verdict
    <2>5. CASE k.op = "send_batch"
      <3>1. Collected(l)
        BY <1>1, <1>2, <1>5, <2>0, <2>5 DEF Collected
      <3> QED
        BY <1>1, <2>2, <2>3, <2>4, <2>5, <3>1
    <2>6. CASE k.op # "send_batch"
      <3>1. Lone(l)
        BY <1>2, <2>0, <2>6 DEF Lone
      <3> QED
        BY <1>1, <2>2, <2>3, <2>4, <2>6, <3>1
    <2> QED
      BY <2>5, <2>6
  <1>7. Serves(l)
    BY <1>1, <1>6 DEF Serves
  <1> QED
    BY <1>4, <1>7 DEF CallInv

\* A container that the processor or the adapter fails on has a reason to fail.
LEMMA MisfitInv ==
  ASSUME NEW c \in Clients, NEW k, CallInv(c, k), k.handler \in {"running", "replying"}, ~k.dead, k.op \in Natives,
         ~Fits(k.by[Len(k.by)], Given(k)[Len(k.by)])
  PROVE  CallInv(c, Failed(k))
  <1>0. /\ Progress(k) /\ Queue(k) /\ Shape(c, k)
        /\ IF k.op = "send_batch" THEN Collected(k) ELSE Lone(k)
    BY DEF CallInv, Serves
  <1> DEFINE n == Len(k.by)
  <1>1. /\ n \in Nat /\ n > 0 /\ n <= Len(Given(k)) /\ DOMAIN k.by = 1..n /\ k.by[n] \in Installable
        /\ Len(Given(k)) \in Nat /\ DOMAIN Given(k) = 1..Len(Given(k)) /\ Transparent(Given(k)[n])
        /\ to_grpc(Given(k)[n]) # Thrown /\ Read(k) = n
    <2>1. /\ Len(k.by) \in Nat /\ DOMAIN k.by = 1..Len(k.by) /\ \A i \in 1..Len(k.by) : k.by[i] \in Installable
      BY <1>0, ShapeBy
    <2>2. /\ Len(Given(k)) \in Nat /\ DOMAIN Given(k) = 1..Len(Given(k))
          /\ \A i \in 1..Len(Given(k)) : Transparent(Given(k)[i])
      BY <1>0, ShapeGiven
    <2>3. Read(k) = n
      <3>1. k.handler # "locking"
        OBVIOUS
      <3>2. Read(k) = n + 0 /\ n \in Nat
        BY <2>1, <3>1 DEF Read
      <3> HIDE DEF n
      <3> QED
        BY <3>2
    <2>4. n > 0 /\ n <= Len(Given(k)) /\ \A i \in 1..n : to_grpc(Given(k)[i]) # Thrown
      BY <1>0, <2>3 DEF Progress
    <2> HIDE DEF n
    <2>5. n \in Nat /\ DOMAIN k.by = 1..n /\ \A i \in 1..n : k.by[i] \in Installable
      BY <2>1 DEF n
    <2>6. n \in 1..n /\ n \in 1..Len(Given(k))
      BY <2>2, <2>4, <2>5
    <2> QED
      BY <2>2, <2>3, <2>4, <2>5, <2>6
  <1>2. Explains(k.by, Given(k))
    <2> HIDE DEF n
    <2>1. n \in DOMAIN k.by /\ n \in DOMAIN Given(k)
      BY <1>1
    <2>2. ~Fits(k.by[n], Given(k)[n])
      BY DEF n
    <2> QED
      BY <1>1, <2>1, <2>2, MisfitExplained
  <1>3. Handled(k) /\ k.op \notin {"stream_nothing", "get_status"} /\ k.answer = "none" /\ IsCall(k)
    <2>1. Handled(k)
      BY DEF Handled
    <2> QED
      BY <2>1, HandledLife DEF Natives
  <1>4. Shape(c, Failed(k)) /\ Life(Failed(k)) /\ Alone(Failed(k))
    BY <1>3, FailedShape
  <1>5. CASE k.op = "send_batch"
    <2> DEFINE l == [k EXCEPT !.handler = "reading", !.failed = @ + 1]
    <2>1. Failed(k) = l
      BY <1>5, RpcOf DEF Failed
    <2>2. Agree(k, l, {"handler", "failed"}) /\ l.handler = "reading" /\ l.failed = k.failed + 1
      BY <1>3, CallFields DEF Agree, IsCall
    <2> HIDE DEF l
    <2>3. /\ l.op = k.op /\ l.input = k.input /\ l.by = k.by /\ l.results = k.results /\ l.answer = k.answer
          /\ l.inbox = k.inbox /\ l.toWrite = k.toWrite /\ l.writesDone = k.writesDone /\ l.client = k.client
      BY <2>2, CallFields DEF Agree
    <2>4. Given(l) = Given(k) /\ Read(l) = Read(k)
      BY <1>1, <2>2, <2>3 DEF Given, Read
    <2>5. Progress(l)
      BY <1>0, <1>5, <2>2, <2>3, <2>4 DEF Progress, Singles
    <2>6. Queue(l)
      BY <1>0, <1>5, <2>2, <2>3, <2>4 DEF Queue, Singles
    <2>7. Verdict(l)
      BY <1>3, <2>3 DEF Verdict
    <2>8. l.failed # 0
      BY <1>0, <2>2 DEF Shape
    <2>9. Collected(l)
      BY <1>0, <1>2, <1>5, <2>2, <2>3, <2>4, <2>8 DEF Collected
    <2> QED
      BY <1>4, <1>5, <2>1, <2>3, <2>5, <2>6, <2>7, <2>9 DEF CallInv, Serves
  <1>6. CASE k.op \in Singles
    <2> DEFINE st == IF k.op = "send" THEN "OK" ELSE "INTERNAL"
               l == Respond(k, st, FALSE, << >>)
    <2>1. Failed(k) = l
      BY <1>6, RpcOf DEF Failed, Singles
    <2>2. Agree(k, l, {"handler", "status", "success", "results"}) /\ l.handler = "ended" /\ l.status = st /\ ~l.success
      BY <1>3, CallFields DEF Agree, IsCall, Respond
    <2> HIDE DEF l
    <2>3. /\ l.op = k.op /\ l.input = k.input /\ l.by = k.by /\ l.answer = k.answer /\ l.native = k.native
          /\ l.inbox = k.inbox /\ l.toWrite = k.toWrite /\ l.writesDone = k.writesDone /\ l.client = k.client
      BY <2>2, CallFields DEF Agree
    <2>4. Given(l) = Given(k) /\ Read(l) = Read(k)
      BY <1>1, <2>2, <2>3 DEF Given, Read
    <2>5. Len(Given(k)) = 1 /\ Len(k.by) = 1
      <3>1. Len(Given(k)) = 1
        BY <1>0, <1>6 DEF Progress
      <3> HIDE DEF n
      <3>2. n = 1
        BY <1>1, <3>1
      <3> QED
        BY <3>1, <3>2 DEF n
    <2>6. Progress(l)
      BY <1>0, <1>6, <2>2, <2>3, <2>4, <2>5 DEF Progress
    <2>7. Queue(l)
      BY <1>0, <1>6, <2>2, <2>3 DEF Queue, Singles
    <2>8. Verdict(l)
      BY <1>3, <2>3 DEF Verdict
    <2>9. ~AllWell(l)
      BY <2>2, <2>3 DEF AllWell
    <2>10. Lone(l)
      BY <1>2, <2>2, <2>3, <2>4, <2>9 DEF Lone
    <2> QED
      BY <1>4, <1>6, <2>1, <2>3, <2>6, <2>7, <2>8, <2>10 DEF CallInv, Serves, Singles
  <1> QED
    BY <1>5, <1>6 DEF Natives, Singles

\* What a handler replies with is the response to its container.
LEMMA ReplyingFits ==
  ASSUME NEW c \in Clients, NEW k, CallInv(c, k), k.handler = "replying", ~k.dead, k.op \in Natives
  PROVE  LET n == Len(k.by)
         IN  /\ n \in Nat /\ n > 0 /\ to_grpc(k.native) = Response(k.by[n], Given(k)[n])
             /\ to_grpc(k.native) # Thrown <=> Fits(k.by[n], Given(k)[n])
  <1>1. Progress(k)
    BY DEF CallInv, Serves
  <1>2. Len(k.by) \in Nat
    BY ShapeBy DEF CallInv
  <1>3. Len(k.by) > 0 /\ k.native # Thrown /\ k.native = Out(k.by[Len(k.by)], Given(k)[Len(k.by)])
    BY <1>1 DEF Progress
  <1> QED
    BY <1>2, <1>3 DEF Response, Fits

\* send, process and stream are answered.
LEMMA ReplyOneInv ==
  ASSUME NEW c \in Clients, NEW k, CallInv(c, k), k.handler = "replying", k.op \notin {"send_batch", "chat"},
         NEW m, m = to_grpc(k.native), m # Thrown,
         NEW l, Agree(k, l, {"handler", "status", "success", "results", "replies"}), l.handler = "ended",
         l.status = "OK", k.op = "send" => l.success, k.op # "stream" => l.results = << m >>,
         k.op = "stream" => l.results = << >> /\ (~k.dead => l.replies = Append(k.replies, m))
  PROVE  CallInv(c, l)
  <1>1. /\ l.op = k.op /\ l.input = k.input /\ l.by = k.by /\ l.answer = k.answer /\ l.native = k.native
        /\ l.inbox = k.inbox /\ l.toWrite = k.toWrite /\ l.writesDone = k.writesDone /\ l.client = k.client
        /\ l.value = k.value /\ l.dead = k.dead
    BY CallFields DEF Agree
  <1>2. Handled(k)
    BY DEF Handled
  <1>3. k.op \notin Loners
    BY DEF CallInv, Alone, Loners
  <1>4. Shape(c, l) /\ Life(l) /\ Alone(l)
    BY <1>2, <1>3, EndInv
  <1>5. Given(l) = Given(k)
    BY <1>1 DEF Given
  <1>6. ASSUME ~k.dead, k.op \in Natives
        PROVE  Progress(l) /\ Queue(l) /\ Verdict(l) /\ Lone(l)
    <2>0. Progress(k) /\ Queue(k) /\ Lone(k) /\ k.op \in Singles
      BY <1>6 DEF CallInv, Serves, Natives, Singles
    <2> DEFINE n == Len(k.by)
    <2>1. n \in Nat /\ n > 0 /\ m = Response(k.by[n], Given(k)[n]) /\ Fits(k.by[n], Given(k)[n])
      BY <1>6, ReplyingFits
    <2>2. Read(k) = n
      BY <2>1 DEF Read
    <2>3. n <= 1 /\ Len(Given(k)) = 1
      BY <2>0, <2>2 DEF Progress
    <2> HIDE DEF n
    <2>4. n = 1
      BY <2>1, <2>3
    <2>5. Len(k.by) = 1 /\ m = Response(k.by[1], Given(k)[1]) /\ Fits(k.by[1], Given(k)[1])
      BY <2>1, <2>4 DEF n
    <2>6. Read(l) = 1
      BY <1>1, <2>5 DEF Read
    <2>7. Progress(l)
      <3>1. Read(l) = Read(k)
        BY <2>2, <2>4, <2>6
      <3> QED
        BY <1>1, <1>5, <2>0, <2>3, <2>5, <3>1 DEF Progress
    <2>8. Queue(l)
      BY <1>1, <2>0 DEF Queue, Singles
    <2>9. Verdict(l)
      BY <1>1, <1>2, <1>6, HandledLife DEF Verdict
    <2>10. AnsweredOne(l)
      <3>1. k.replies = << >> /\ k.value = << >>
        BY <2>0 DEF Lone
      <3>2. k.op = "stream" => l.replies = << m >>
        BY <1>6, <3>1
      <3> QED
        BY <1>1, <1>5, <2>5, <3>1, <3>2 DEF AnsweredOne
    <2>11. Lone(l)
      BY <1>1, <2>10 DEF Lone, AllWell
    <2> QED
      BY <2>7, <2>8, <2>9, <2>11
  <1>7. Serves(l)
    BY <1>1, <1>6 DEF Serves
  <1> QED
    BY <1>4, <1>7 DEF CallInv

\* A batch keeps the response, a chat writes it.
LEMMA ReplyOnInv ==
  ASSUME NEW c \in Clients, NEW k, CallInv(c, k), k.handler = "replying", k.op \in {"send_batch", "chat"},
         NEW m, m = to_grpc(k.native), m # Thrown,
         NEW l, Agree(k, l, {"handler", "results", "replies"}), l.handler = "reading",
         k.op = "send_batch" => l.results = Append(k.results, m)
  PROVE  CallInv(c, l)
  <1>1. /\ l.op = k.op /\ l.input = k.input /\ l.by = k.by /\ l.answer = k.answer /\ l.native = k.native
        /\ l.inbox = k.inbox /\ l.toWrite = k.toWrite /\ l.writesDone = k.writesDone /\ l.client = k.client
        /\ l.value = k.value /\ l.dead = k.dead /\ l.failed = k.failed
    BY CallFields DEF Agree
  <1>2. Handled(k) /\ Handled(l)
    BY DEF Handled
  <1>4. Shape(c, l) /\ Life(l) /\ Alone(l)
    <2>1. Agree(k, l, {"handler", "failed", "native", "inbox", "by", "results", "replies"})
      BY DEF Agree
    <2>2. l.failed \in Nat /\ l.by \in Seq(Installable)
      BY <1>1 DEF CallInv, Shape
    <2> QED
      BY <1>2, <2>1, <2>2, GoOnInv
  <1>5. Given(l) = Given(k)
    BY <1>1 DEF Given
  <1>6. ASSUME ~k.dead, k.op = "send_batch"
        PROVE  Progress(l) /\ Queue(l) /\ Verdict(l) /\ Collected(l)
    <2>0. Progress(k) /\ Queue(k) /\ Collected(k)
      BY <1>6 DEF CallInv, Serves, Natives
    <2> DEFINE n == Len(k.by)
    <2>1. n \in Nat /\ n > 0 /\ m = Response(k.by[n], Given(k)[n]) /\ Fits(k.by[n], Given(k)[n])
      BY <1>6, ReplyingFits DEF Natives
    <2>2. Read(k) = n /\ Read(l) = n /\ Done(k) = n - 1 /\ Done(l) = n
      BY <1>1, <2>1 DEF Read, Done
    <2>3. Progress(l)
      BY <1>1, <1>5, <1>6, <2>0, <2>2 DEF Progress, Singles
    <2>4. Queue(l)
      BY <1>1, <1>5, <1>6, <2>0, <2>2 DEF Queue, Singles
    <2>5. Verdict(l)
      BY <1>1, <1>2, <1>6, HandledLife DEF Verdict
    <2>6. Collected(l)
      <3>1. IsSeq(k.results) /\ l.results = Append(k.results, m)
        BY <1>6, <2>0 DEF Collected
      <3>2. /\ IsSeq(l.results) /\ Len(l.results) = Len(k.results) + 1
            /\ \A j \in 1..Len(k.results) : l.results[j] = k.results[j]
            /\ l.results[Len(k.results) + 1] = m
        BY <3>1, AppendSeq
      <3>3. CASE k.failed # 0
        BY <1>1, <1>5, <2>0, <3>2, <3>3 DEF Collected
      <3>4. CASE k.failed = 0
        <4>1. /\ Len(k.results) = n - 1
              /\ \A i \in 1..(n - 1) : Fits(k.by[i], Given(k)[i]) /\ k.results[i] = Response(k.by[i], Given(k)[i])
          BY <2>0, <2>2, <3>4 DEF Collected
        <4> HIDE DEF n
        <4>2. Len(l.results) = n /\ l.results[n] = m /\ \A i \in 1..(n - 1) : l.results[i] = k.results[i]
          BY <2>1, <3>2, <4>1
        <4>3. \A i \in 1..n : Fits(k.by[i], Given(k)[i]) /\ l.results[i] = Response(k.by[i], Given(k)[i])
          <5> SUFFICES ASSUME NEW i \in 1..n
                       PROVE  Fits(k.by[i], Given(k)[i]) /\ l.results[i] = Response(k.by[i], Given(k)[i])
            OBVIOUS
          <5>1. CASE i = n
            BY <2>1, <4>2, <5>1
          <5>2. CASE i # n
            <6>1. i \in 1..(n - 1)
              BY <2>1, <5>2
            <6> QED
              BY <4>1, <4>2, <6>1
          <5> QED
            BY <5>1, <5>2
        <4> QED
          BY <1>1, <1>5, <2>2, <3>2, <3>4, <4>2, <4>3 DEF Collected
      <3> QED
        BY <3>3, <3>4
    <2> QED
      BY <2>3, <2>4, <2>5, <2>6
  <1>7. Serves(l)
    BY <1>1, <1>6 DEF Serves, Natives
  <1> QED
    BY <1>4, <1>7 DEF CallInv

-----------------------------------------------------------------------------
(* Answers: a new call *)

RefusedCall(x) == [[NoCall EXCEPT !.op = x.op, !.input = x.input] EXCEPT !.answer = "failure", !.dead = TRUE]
BegunCall(x, messages, done) ==
  [[NoCall EXCEPT !.op = x.op, !.input = x.input]
     EXCEPT !.client = IF done THEN "waiting" ELSE "writing", !.handler = "called",
            !.inbox = IF done THEN messages ELSE << >>, !.writesDone = done,
            !.toWrite = IF done THEN << >> ELSE messages]

LEMMA RefusedInv ==
  ASSUME NEW c \in Clients, NEW x \in Calls[c], x.op \in Operations
  PROVE  CallInv(c, RefusedCall(x)) /\ RefusedCall(x).handler = "none"
  <1> DEFINE new == [NoCall EXCEPT !.op = x.op, !.input = x.input]
             l == RefusedCall(x)
  <1>1. /\ IsCall(new) /\ new.op = x.op /\ new.input = x.input /\ new.client = "idle" /\ new.handler = "none"
        /\ new.inbox = << >> /\ new.status = "none" /\ new.failed = 0 /\ new.by = << >>
    BY DEF IsCall, NoCall
  <1>2. l = [new EXCEPT !.answer = "failure", !.dead = TRUE]
    BY DEF RefusedCall
  <1> HIDE DEF new, l
  <1>3. /\ IsCall(l) /\ l.op = x.op /\ l.input = x.input /\ l.client = "idle" /\ l.handler = "none"
        /\ l.inbox = << >> /\ l.status = "none" /\ l.failed = 0 /\ l.by = << >> /\ l.answer = "failure"
    BY <1>1, <1>2, CallFields DEF IsCall
  <1>4. l.dead
    BY <1>1, <1>2, CallFields DEF IsCall
  <1>5. Shape(c, l)
    BY <1>3 DEF Shape
  <1>6. Life(l)
    BY <1>3, <1>4 DEF Life
  <1>7. Alone(l)
    BY <1>3, <1>4 DEF Alone
  <1>8. Serves(l)
    BY <1>4 DEF Serves
  <1> QED
    BY <1>3, <1>5, <1>6, <1>7, <1>8 DEF CallInv, l

\* The messages of a call are those of its containers.
Sends(x, messages, done) ==
  /\ x.op \in Singles =>
       /\ done /\ messages # << >> /\ Len(NonNull(x.input)) = 1
       /\ messages[1] = to_grpc(NonNull(x.input)[1]) /\ messages[1] # Thrown
  /\ x.op = "send_batch" => ~done /\ messages = [i \in DOMAIN NonNull(x.input) |-> to_grpc(NonNull(x.input)[i])]
  /\ x.op = "stream_nothing" => done /\ messages = << >>

LEMMA MappedSeq ==
  ASSUME NEW n \in Nat, NEW t, DOMAIN t = 1..n, t = [i \in 1..n |-> t[i]]
  PROVE  IsSeq(t) /\ Len(t) = n
  <1>1. \A i \in 1..n : t[i] \in ToSet(t)
    BY DEF ToSet
  <1> QED
    BY <1>1 DEF IsSeq

LEMMA BegunInv ==
  ASSUME NEW c \in Clients, NEW x \in Calls[c], x.op \in Operations, NEW messages, NEW done \in BOOLEAN,
         Sends(x, messages, done)
  PROVE  CallInv(c, BegunCall(x, messages, done)) /\ BegunCall(x, messages, done).handler = "called"
  <1> DEFINE new == [NoCall EXCEPT !.op = x.op, !.input = x.input]
             l == BegunCall(x, messages, done)
             in == IF done THEN messages ELSE << >>
             out == IF done THEN << >> ELSE messages
             cl == IF done THEN "waiting" ELSE "writing"
  <1>1. /\ IsCall(new) /\ new.op = x.op /\ new.input = x.input /\ new.answer = "none" /\ new.replies = << >>
        /\ new.results = << >> /\ new.status = "none" /\ new.failed = 0 /\ new.by = << >> /\ new.value = << >>
    BY DEF IsCall, NoCall
  <1>2. ~new.dead
    BY DEF NoCall
  <1>3. l = [new EXCEPT !.client = cl, !.handler = "called", !.inbox = in, !.writesDone = done, !.toWrite = out]
    BY DEF BegunCall
  <1> HIDE DEF new, l, in, out, cl
  <1>4. /\ IsCall(l) /\ l.op = x.op /\ l.input = x.input /\ l.answer = "none" /\ l.replies = << >>
        /\ l.results = << >> /\ l.status = "none" /\ l.failed = 0 /\ l.by = << >> /\ l.value = << >>
    BY <1>1, <1>3, CallFields DEF IsCall
  <1>5. l.client = cl /\ l.handler = "called" /\ l.inbox = in /\ l.writesDone = done /\ l.toWrite = out
    BY <1>1, <1>3, CallFields DEF IsCall
  <1>6. l.dead = new.dead
    BY <1>1, <1>3, CallFields DEF IsCall
  <1>7. Shape(c, l)
    <2>1. l.op # "none"
      BY <1>4 DEF Operations, Natives, Loners
    <2> QED
      BY <1>4, <2>1 DEF Shape
  <1>8. Life(l)
    BY <1>2, <1>4, <1>5, <1>6 DEF Life
  <1>9. Alone(l)
    BY <1>4, <1>5 DEF Alone, Sends, in, cl
  <1>10. Given(l) = NonNull(x.input) /\ Read(l) = 0 /\ Done(l) = 0 /\ Len(l.by) = 0
    BY <1>4, <1>5 DEF Given, Read, Done
  <1>11. ASSUME x.op \in Natives
         PROVE  /\ Progress(l) /\ Queue(l) /\ Verdict(l)
                /\ IF l.op = "send_batch" THEN Collected(l) ELSE Lone(l)
    <2> DEFINE g == NonNull(x.input)
               n == Len(g)
    <2>1. n \in Nat /\ DOMAIN g = 1..n
      BY <1>11, GivenOK
    <2>2. x.op \in Singles => n = 1
      BY DEF Sends
    <2>3. Progress(l)
      <3>1. l.op \in Singles => Len(Given(l)) = 1
        BY <1>4, <1>10, <2>2
      <3>2. 0 <= Len(Given(l))
        BY <1>10, <2>1
      <3> QED
        BY <1>4, <1>5, <1>10, <3>1, <3>2 DEF Progress
    <2>4. Verdict(l)
      BY <1>4 DEF Verdict
    <2>5. CASE x.op \in Singles
      <3>1. Queue(l)
        BY <1>4, <1>5, <1>10, <2>5 DEF Queue, Sends, Singles, in, cl
      <3>2. Lone(l)
        BY <1>4, <1>5 DEF Lone
      <3> QED
        BY <1>4, <2>3, <2>4, <2>5, <3>1, <3>2 DEF Singles
    <2>6. CASE x.op = "send_batch"
      <3>1. in = << >> /\ out = messages /\ messages = [i \in DOMAIN g |-> to_grpc(g[i])]
        BY <2>6 DEF Sends, in, out
      <3>2. DOMAIN messages = 1..n /\ messages = [i \in 1..n |-> messages[i]] /\ \A i \in 1..n : messages[i] = to_grpc(g[i])
        BY <2>1, <3>1
      <3> HIDE DEF g, n
      <3>3. IsSeq(messages) /\ Len(messages) = n
        BY <2>1, <3>2, MappedSeq
      <3>4. IsSeq(in) /\ Len(in) = 0
        BY <3>1, EmptyResults DEF IsSeq
      <3>5. Queue(l)
        <4>1. Read(l) + Len(l.inbox) + Len(l.toWrite) = Len(Given(l))
          BY <1>5, <1>10, <2>1, <3>1, <3>3, <3>4 DEF g, n
        <4>2. \A j \in 1..Len(l.toWrite) : l.toWrite[j] = to_grpc(Given(l)[Read(l) + Len(l.inbox) + j])
          <5> SUFFICES ASSUME NEW j \in 1..n PROVE messages[j] = to_grpc(g[0 + 0 + j])
            BY <1>5, <1>10, <3>1, <3>3, <3>4 DEF g
          <5> QED
            BY <2>1, <3>2
        <4>3. ~l.writesDone
          BY <1>5, <2>6 DEF Sends
        <4> QED
          BY <1>4, <1>5, <2>6, <3>1, <3>3, <3>4, <4>1, <4>2, <4>3 DEF Queue, Singles
      <3>6. Collected(l)
        BY <1>4, <1>5, <1>10, EmptyResults DEF Collected, IsSeq
      <3> QED
        BY <1>4, <2>3, <2>4, <2>6, <3>5, <3>6
    <2> QED
      BY <1>11, <2>5, <2>6 DEF Natives, Singles
  <1>12. Serves(l)
    BY <1>4, <1>11 DEF Serves
  <1> QED
    BY <1>5, <1>7, <1>8, <1>9, <1>12 DEF CallInv, l

-----------------------------------------------------------------------------
(* Answers: the steps *)

LEMMA FaithCall ==
  ASSUME FaithInv, NEW c \in Clients
  PROVE  CallInv(c, call[c]) /\ Shape(c, call[c]) /\ IsCall(call[c])
  BY DEF FaithInv, CallInv, Shape

\* A step of one call that leaves the processor and its lock alone
LEMMA OneCall ==
  ASSUME FaithInv, NEW c \in Clients, NEW k, call' = [call EXCEPT ![c] = k], CallInv(c, k),
         UNCHANGED <<processor, lock>>,
         k.handler = "running" => call[c].handler = "running" /\ k.by = call[c].by
  PROVE  FaithInv'
  <1>1. DOMAIN call' = Clients /\ call'[c] = k /\ \A d \in Clients \ {c} : call'[d] = call[d]
    BY DEF FaithInv
  <1>2. \A d \in Clients : CallInv(d, call'[d])
    BY <1>1 DEF FaithInv
  <1>3. \A d \in Clients : call'[d].handler = "running" => Running(d)'
    BY <1>1 DEF FaithInv, Running
  <1> QED
    BY <1>1, <1>2, <1>3 DEF FaithInv

LEMMA BeginFaith ==
  ASSUME FaithInv, NEW c \in Clients, NEW x \in Calls[c], x.op \in Operations, NEW messages, NEW done \in BOOLEAN,
         Begin(c, x, messages, done),
         x.op = "send_batch" \/ Thrown \notin ToSet(messages) => Sends(x, messages, done)
  PROVE  FaithInv'
  <1>1. CASE (x.op # "send_batch" /\ Thrown \in ToSet(messages)) \/ server # "up"
    <2>1. call' = [call EXCEPT ![c] = RefusedCall(x)] /\ UNCHANGED <<processor, lock>>
      BY <1>1 DEF Begin, RefusedCall
    <2> QED
      BY <2>1, RefusedInv, OneCall
  <1>2. CASE ~((x.op # "send_batch" /\ Thrown \in ToSet(messages)) \/ server # "up")
    <2>1. call' = [call EXCEPT ![c] = BegunCall(x, messages, done)] /\ UNCHANGED <<processor, lock>>
      BY <1>2 DEF Begin, BegunCall
    <2>2. CallInv(c, BegunCall(x, messages, done)) /\ BegunCall(x, messages, done).handler = "called"
      BY <1>2, BegunInv
    <2> QED
      BY <2>1, <2>2, OneCall
  <1> QED
    BY <1>1, <1>2

LEMMA SingleSends ==
  ASSUME NEW c \in Clients, NEW x \in Calls[c], x.op \in Singles, Thrown \notin ToSet(<< Convert(x.input[1]) >>)
  PROVE  Sends(x, << Convert(x.input[1]) >>, TRUE)
  <1>1. IsSeq(x.input) /\ Len(x.input) = 1
    BY CallsAssumption DEF Singles, IsSeq
  <1>2. Convert(x.input[1]) # Thrown
    BY DEF ToSet
  <1>3. x.input[1] # Null /\ Convert(x.input[1]) = to_grpc(x.input[1])
    BY <1>2 DEF Convert
  <1>4. Len(NonNull(x.input)) = 1 /\ NonNull(x.input)[1] = x.input[1]
    BY <1>1, <1>3, NonNullOne
  <1> DEFINE m == Convert(x.input[1])
  <1>5. m = to_grpc(NonNull(x.input)[1]) /\ m # Thrown
    BY <1>2, <1>3, <1>4
  <1> HIDE DEF m
  <1>6. << m >> # << >> /\ << m >>[1] = m
    OBVIOUS
  <1>7. x.op # "send_batch" /\ x.op # "stream_nothing"
    BY DEF Singles
  <1>8. Sends(x, << m >>, TRUE)
    BY <1>4, <1>5, <1>6, <1>7 DEF Sends
  <1> QED
    BY <1>8 DEF m

LEMMA CallFaith ==
  ASSUME FaithInv, NEW c \in Clients, NEW x \in Calls[c],
         Send(c, x) \/ Process(c, x) \/ Stream(c, x) \/ SendBatch(c, x) \/ GetStatus(c, x) \/ OtherClient(c, x)
  PROVE  FaithInv'
  <1>1. CASE Send(c, x) \/ Process(c, x) \/ Stream(c, x)
    <2>1. x.op \in Singles /\ x.op \in Operations /\ Begin(c, x, << Convert(x.input[1]) >>, TRUE)
      BY <1>1 DEF Send, Process, Stream, Singles, Operations, Natives
    <2>2. x.op = "send_batch" \/ Thrown \notin ToSet(<< Convert(x.input[1]) >>) =>
            Sends(x, << Convert(x.input[1]) >>, TRUE)
      BY <2>1, SingleSends DEF Singles
    <2> QED
      BY <2>1, <2>2, BeginFaith
  <1>2. CASE SendBatch(c, x)
    <2> DEFINE messages == [i \in DOMAIN NonNull(x.input) |-> to_grpc(NonNull(x.input)[i])]
    <2>1. x.op = "send_batch" /\ x.op \in Operations /\ Begin(c, x, messages, FALSE)
      BY <1>2 DEF SendBatch, Operations, Natives
    <2>2. Sends(x, messages, FALSE)
      BY <2>1 DEF Sends, Singles
    <2> HIDE DEF messages
    <2> QED
      BY <2>1, <2>2, BeginFaith
  <1>3. CASE GetStatus(c, x)
    <2>1. x.op = "get_status" /\ x.op \in Operations /\ Begin(c, x, << >>, TRUE)
      BY <1>3 DEF GetStatus, Operations, Loners
    <2>2. Sends(x, << >>, TRUE)
      BY <2>1 DEF Sends, Singles
    <2> QED
      BY <2>1, <2>2, BeginFaith
  <1>4. CASE OtherClient(c, x)
    <2>1. CASE x.op \in {"send_nothing", "stream_nothing", "process_raw"} /\ Begin(c, x, x.input, TRUE)
      <3>1. x.op \in Operations /\ (x.op = "stream_nothing" => x.input = << >>)
        BY <2>1, CallsAssumption DEF Operations, Loners
      <3>2. Sends(x, x.input, TRUE)
        BY <2>1, <3>1 DEF Sends, Singles
      <3> QED
        BY <2>1, <3>1, <3>2, BeginFaith
    <2>2. CASE x.op = "chat" /\ Begin(c, x, x.input, FALSE)
      <3>1. x.op \in Operations
        BY <2>2 DEF Operations, Loners
      <3>2. Sends(x, x.input, FALSE)
        BY <2>2 DEF Sends, Singles
      <3> QED
        BY <2>2, <3>1, <3>2, BeginFaith
    <2> QED
      BY <1>4, <2>1, <2>2 DEF OtherClient
  <1> QED
    BY <1>1, <1>2, <1>3, <1>4

LEMMA CutFields ==
  ASSUME NEW c, IsCall(call[c])
  PROVE  LET l == [Answered(c, "failure") EXCEPT !.dead = TRUE]
         IN  /\ Agree(call[c], l, {"client", "answer", "dead"}) /\ l.client = "idle" /\ l.answer = "failure"
             /\ l.dead
  BY CallFields DEF Answered, IsCall, Agree

LEMMA CutFaith ==
  ASSUME FaithInv, NEW c \in Clients, UNCHANGED <<processor, lock>>,
         call' = [call EXCEPT ![c] = [Answered(c, "failure") EXCEPT !.dead = TRUE]]
  PROVE  FaithInv'
  <1> DEFINE l == [Answered(c, "failure") EXCEPT !.dead = TRUE]
  <1>1. Agree(call[c], l, {"client", "answer", "dead"}) /\ l.client = "idle" /\ l.answer = "failure" /\ l.dead
    BY FaithCall, CutFields
  <1> HIDE DEF l
  <1>2. Agree(call[c], l, {"client", "answer", "dead", "replies", "value"})
    BY <1>1 DEF Agree
  <1>3. CallInv(c, l)
    BY <1>1, <1>2, FaithCall, CutInv
  <1>4. l.handler = call[c].handler /\ l.by = call[c].by
    BY <1>1, CallFields DEF Agree
  <1> QED
    BY <1>3, <1>4, OneCall DEF l

LEMMA WriteFaith ==
  ASSUME FaithInv, NEW c \in Clients, Write(c)
  PROVE  FaithInv'
  <1> DEFINE k == call[c]
             m == Head(k.toWrite)
             broken == [k EXCEPT !.toWrite = << >>]
             written == [k EXCEPT !.toWrite = Tail(@), !.inbox = Append(@, m)]
  <1>0. k.client = "writing" /\ k.toWrite # << >> /\ UNCHANGED <<processor, lock>>
    BY DEF Write
  <1>1. CASE m = Thrown
    <2>1. call' = [call EXCEPT ![c] = [Answered(c, "failure") EXCEPT !.dead = TRUE]]
      BY <1>1 DEF Write
    <2> QED
      BY <1>0, <2>1, CutFaith
  <1>2. CASE m # Thrown /\ k.dead
    <2>1. call' = [call EXCEPT ![c] = broken]
      BY <1>2 DEF Write
    <2>2. Agree(k, broken, {"toWrite"}) /\ broken.handler = k.handler /\ broken.by = k.by
      BY FaithCall, CallFields DEF IsCall, Agree
    <2> HIDE DEF broken
    <2>3. CallInv(c, broken)
      BY <1>2, <2>2, FaithCall, BrokenInv
    <2> QED
      BY <1>0, <2>1, <2>2, <2>3, OneCall
  <1>3. CASE m # Thrown /\ ~k.dead
    <2>1. call' = [call EXCEPT ![c] = written]
      BY <1>3 DEF Write
    <2>2. /\ Agree(k, written, {"toWrite", "inbox"}) /\ written.handler = k.handler /\ written.by = k.by
          /\ written.toWrite = Tail(k.toWrite) /\ written.inbox = Append(k.inbox, Head(k.toWrite))
      BY FaithCall, CallFields DEF IsCall, Agree
    <2> HIDE DEF written
    <2>3. CallInv(c, written)
      BY <1>0, <1>3, <2>2, FaithCall, WrittenInv
    <2> QED
      BY <1>0, <2>1, <2>2, <2>3, OneCall
  <1> QED
    BY <1>1, <1>2, <1>3

LEMMA WritesDoneFaith ==
  ASSUME FaithInv, NEW c \in Clients, WritesDone(c)
  PROVE  FaithInv'
  <1> DEFINE l == [call[c] EXCEPT !.client = "waiting", !.writesDone = TRUE]
  <1>1. /\ call' = [call EXCEPT ![c] = l] /\ UNCHANGED <<processor, lock>>
        /\ call[c].client = "writing" /\ call[c].toWrite = << >>
    BY DEF WritesDone, FaithInv
  <1>2. /\ Agree(call[c], l, {"client", "writesDone"}) /\ l.client = "waiting"
        /\ l.handler = call[c].handler /\ l.by = call[c].by
    BY FaithCall, CallFields DEF IsCall, Agree
  <1> HIDE DEF l
  <1>3. CallInv(c, l)
    BY <1>1, <1>2, FaithCall, WritesDoneInv
  <1> QED
    BY <1>1, <1>2, <1>3, OneCall

LEMMA ReadReplyFaith ==
  ASSUME FaithInv, NEW c \in Clients, NEW throws \in BOOLEAN, ReadReply(c, throws)
  PROVE  FaithInv'
  <1> DEFINE k == call[c]
             native == from_grpc(Head(k.replies))
             cut == [Answered(c, "failure") EXCEPT !.dead = TRUE]
  <1>0. k.client = "waiting" /\ k.op = "stream" /\ k.replies # << >> /\ UNCHANGED <<processor, lock>>
    BY DEF ReadReply
  <1>1. CASE native = Thrown
    <2>1. call' = [call EXCEPT ![c] = cut]
      BY <1>1 DEF ReadReply
    <2> QED
      BY <1>0, <2>1, CutFaith
  <1>2. CASE native # Thrown /\ throws
    <2> DEFINE l == [cut EXCEPT !.replies = Tail(@), !.value = Append(@, native)]
    <2>1. call' = [call EXCEPT ![c] = l]
      BY <1>2 DEF ReadReply
    <2>2. Agree(k, cut, {"client", "answer", "dead"}) /\ cut.client = "idle" /\ cut.answer = "failure" /\ cut.dead
      BY FaithCall, CutFields
    <2> HIDE DEF cut
    <2>3. /\ Agree(k, l, {"client", "answer", "dead", "replies", "value"})
          /\ l.client = cut.client /\ l.answer = cut.answer /\ l.dead = cut.dead
      BY <2>2, CallFields DEF IsCall, Agree
    <2> HIDE DEF l
    <2>4. l.client = "idle" /\ l.answer = "failure" /\ l.dead
      BY <2>2, <2>3
    <2>5. CallInv(c, l)
      BY <2>3, <2>4, FaithCall, CutInv
    <2>6. l.handler = k.handler /\ l.by = k.by
      BY <2>3, CallFields DEF Agree
    <2> QED
      BY <1>0, <2>1, <2>5, <2>6, OneCall
  <1>3. CASE native # Thrown /\ ~throws
    <2> DEFINE l == [k EXCEPT !.replies = Tail(@), !.value = Append(@, native)]
    <2>1. call' = [call EXCEPT ![c] = l]
      BY <1>3 DEF ReadReply
    <2>2. /\ Agree(k, l, {"replies", "value"}) /\ l.handler = k.handler /\ l.by = k.by
          /\ l.replies = Tail(k.replies) /\ l.value = Append(k.value, from_grpc(Head(k.replies)))
      BY FaithCall, CallFields DEF IsCall, Agree
    <2> HIDE DEF l
    <2>3. CallInv(c, l)
      BY <1>0, <2>2, FaithCall, ReplyReadInv
    <2> QED
      BY <1>0, <2>1, <2>2, <2>3, OneCall
  <1> QED
    BY <1>1, <1>2, <1>3

LEMMA FinishCallFaith ==
  ASSUME FaithInv, NEW c \in Clients, FinishCall(c)
  PROVE  FaithInv'
  <1> DEFINE k == call[c]
             a == IF GoodAnswer(k) THEN "success" ELSE "failure"
             v == IF k.op = "stream" \/ ~GoodAnswer(k) THEN k.value ELSE Natively(k)
             l == [Answered(c, a) EXCEPT !.value = v]
  <1>1. /\ k.status # "none" /\ ~k.dead /\ (k.op = "stream" => k.replies = << >>)
        /\ UNCHANGED <<processor, lock>>
    BY DEF FinishCall
  <1>2. call' = [call EXCEPT ![c] = l]
    <2>1. Answered(c, a).value = k.value
      BY FaithCall, CallFields DEF Answered, IsCall
    <2> QED
      BY <2>1 DEF FinishCall, GoodAnswer, Natively
  <1> HIDE DEF a, v
  <1>3. /\ Agree(k, l, {"client", "answer", "value"}) /\ l.client = "idle" /\ l.answer = a /\ l.value = v
        /\ l.handler = k.handler /\ l.by = k.by
    BY FaithCall, CallFields DEF Answered, IsCall, Agree
  <1> HIDE DEF l
  <1>4. CallInv(c, l)
    BY <1>1, <1>3, FaithCall, FinishInv DEF a, v
  <1> QED
    BY <1>1, <1>2, <1>3, <1>4, OneCall

LEMMA ClientFaith ==
  ASSUME FaithInv, NEW c \in Clients, Client(c)
  PROVE  FaithInv'
  <1>1. ASSUME CutOff(c) PROVE FaithInv'
    BY <1>1, CutFaith DEF CutOff
  <1> QED
    BY <1>1, CallFaith, WriteFaith, WritesDoneFaith, ReadReplyFaith, FinishCallFaith DEF Client

\* Which operations a handler serves
LEMMA RpcBack ==
  ASSUME NEW op \in Operations
  PROVE  /\ Rpc(op) = "SendContainer" <=> op \in {"send", "send_nothing"}
         /\ Rpc(op) = "ProcessContainer" <=> op \in {"process", "process_raw"}
         /\ Rpc(op) = "StreamContainers" <=> op \in {"stream", "stream_nothing"}
         /\ Rpc(op) = "CollectContainers" <=> op = "send_batch"
         /\ Rpc(op) = "ProcessStream" <=> op = "chat"
         /\ Rpc(op) = "GetStreamStatus" <=> op = "get_status"
  BY RpcOf DEF Operations, Natives, Loners

LEMMA ConvertedFaith ==
  ASSUME FaithInv, NEW c \in Clients, call[c].handler = "called", UNCHANGED <<processor, lock>>,
         call[c].op \in {"send", "send_nothing", "process", "process_raw", "stream"},
         Converted(c, call[c].inbox[1], 1)
  PROVE  FaithInv'
  <1> DEFINE k == call[c]
             native == from_grpc(k.inbox[1])
  <1>0. Handled(k) /\ k.op \notin {"stream_nothing", "get_status", "send_batch"}
    BY DEF Handled
  <1>1. CASE native = Thrown
    <2>1. call' = [call EXCEPT ![c] = Failed(k)]
      BY <1>1 DEF Converted
    <2>2. k.dead \/ k.op \notin Natives
      BY <1>1, FaithCall, LockOneOK DEF Natives, Singles
    <2>3. CallInv(c, Failed(k)) /\ Failed(k).handler # "running"
      BY <1>0, <2>2, FaithCall, FailedElsewhere
    <2> QED
      BY <2>1, <2>3, OneCall
  <1>2. CASE native # Thrown
    <2> DEFINE l == [k EXCEPT !.handler = "locking", !.native = native]
    <2>1. call' = [call EXCEPT ![c] = l]
      BY <1>2 DEF Converted
    <2>2. Agree(k, l, {"handler", "native"}) /\ l.handler = "locking" /\ l.native = from_grpc(k.inbox[1])
      BY FaithCall, CallFields DEF IsCall, Agree
    <2> HIDE DEF l
    <2>3. CallInv(c, l)
      BY <1>0, <2>2, FaithCall, LockOneInv
    <2> QED
      BY <2>1, <2>2, <2>3, OneCall
  <1> QED
    BY <1>1, <1>2

\* A call without a container, and the end of a chat, are answered at once.
LEMMA EndFaith ==
  ASSUME FaithInv, NEW c \in Clients, Handled(call[c]), UNCHANGED <<processor, lock>>,
         call[c].dead \/ call[c].op \notin Natives,
         NEW success, call' = [call EXCEPT ![c] = Respond(call[c], "OK", success, << >>)]
  PROVE  FaithInv'
  <1> DEFINE k == call[c]
             l == Respond(k, "OK", success, << >>)
  <1>1. Agree(k, l, {"handler", "status", "success", "results"}) /\ l.handler = "ended" /\ l.status = "OK" /\ l.results = << >>
    BY FaithCall, CallFields DEF Agree, IsCall, Respond
  <1> HIDE DEF l
  <1>2. Agree(k, l, {"handler", "status", "success", "results", "replies"}) /\ l.dead = k.dead /\ l.op = k.op
    BY <1>1, CallFields DEF Agree
  <1>3. Shape(c, l) /\ Life(l) /\ Alone(l)
    BY <1>1, <1>2, FaithCall, EndInv
  <1>4. CallInv(c, l)
    BY <1>2, <1>3 DEF CallInv, Serves
  <1> QED
    BY <1>1, <1>4, OneCall DEF l

LEMMA SendContainerFaith ==
  ASSUME FaithInv, NEW c \in Clients, SendContainer(c)
  PROVE  FaithInv'
  <1>0. /\ call[c].handler = "called" /\ call[c].op # "none" /\ Rpc(call[c].op) = "SendContainer"
        /\ UNCHANGED <<processor, lock>>
    BY DEF SendContainer, Called, IsRpc
  <1>1. Handled(call[c]) /\ call[c].op \in {"send", "send_nothing"}
    <2>1. call[c].op \in Operations
      BY <1>0, FaithCall DEF Shape
    <2> QED
      BY <1>0, <2>1, RpcBack DEF Handled
  <1>2. CASE call[c].inbox = << >>
    <2>1. call' = [call EXCEPT ![c] = Respond(call[c], "OK", FALSE, << >>)]
      BY <1>2 DEF SendContainer
    <2>2. call[c].dead \/ call[c].op \notin Natives
      BY <1>0, <1>1, <1>2, FaithCall, LockOneOK DEF Natives, Singles
    <2> QED
      BY <1>0, <1>1, <2>1, <2>2, EndFaith
  <1>3. CASE call[c].inbox # << >>
    <2>1. Converted(c, call[c].inbox[1], 1)
      BY <1>3 DEF SendContainer
    <2> QED
      BY <1>0, <1>1, <2>1, ConvertedFaith
  <1> QED
    BY <1>2, <1>3

LEMMA ProcessContainerFaith ==
  ASSUME FaithInv, NEW c \in Clients, ProcessContainer(c)
  PROVE  FaithInv'
  <1>0. /\ call[c].handler = "called" /\ call[c].op # "none" /\ Rpc(call[c].op) = "ProcessContainer"
        /\ UNCHANGED <<processor, lock>> /\ Converted(c, call[c].inbox[1], 1)
    BY DEF ProcessContainer, Called, IsRpc
  <1>1. call[c].op \in {"process", "process_raw"}
    <2>1. call[c].op \in Operations
      BY <1>0, FaithCall DEF Shape
    <2> QED
      BY <1>0, <2>1, RpcBack
  <1> QED
    BY <1>0, <1>1, ConvertedFaith

LEMMA StreamContainersFaith ==
  ASSUME FaithInv, NEW c \in Clients, StreamContainers(c)
  PROVE  FaithInv'
  <1>0. /\ call[c].handler = "called" /\ call[c].op # "none" /\ Rpc(call[c].op) = "StreamContainers"
        /\ UNCHANGED <<processor, lock>>
    BY DEF StreamContainers, Called, IsRpc
  <1>1. Handled(call[c]) /\ call[c].op \in {"stream", "stream_nothing"}
    <2>1. call[c].op \in Operations
      BY <1>0, FaithCall DEF Shape
    <2> QED
      BY <1>0, <2>1, RpcBack DEF Handled
  <1>2. CASE call[c].inbox = << >>
    <2>1. call' = [call EXCEPT ![c] = Respond(call[c], "OK", FALSE, << >>)]
      BY <1>2 DEF StreamContainers
    <2>2. call[c].dead \/ call[c].op \notin Natives
      BY <1>0, <1>1, <1>2, FaithCall, LockOneOK DEF Natives, Singles
    <2> QED
      BY <1>0, <1>1, <2>1, <2>2, EndFaith
  <1>3. CASE call[c].inbox # << >>
    <2>1. Converted(c, call[c].inbox[1], 1)
      BY <1>3 DEF StreamContainers
    <2>2. call[c].op = "stream"
      BY <1>1, <1>3, FaithCall DEF CallInv, Alone, Loners
    <2> QED
      BY <1>0, <2>1, <2>2, ConvertedFaith
  <1> QED
    BY <1>2, <1>3

LEMMA OpenStreamFaith ==
  ASSUME FaithInv, NEW c \in Clients, OpenStream(c)
  PROVE  FaithInv'
  <1> DEFINE l == [call[c] EXCEPT !.handler = "reading"]
  <1>1. /\ call' = [call EXCEPT ![c] = l] /\ UNCHANGED <<processor, lock>> /\ call[c].handler = "called"
        /\ call[c].op # "none" /\ Rpc(call[c].op) \in {"CollectContainers", "ProcessStream"}
    BY DEF OpenStream, Called, IsRpc, FaithInv
  <1>2. call[c].op \in {"send_batch", "chat"}
    <2>1. call[c].op \in Operations
      BY <1>1, FaithCall DEF Shape
    <2> QED
      BY <1>1, <2>1, RpcBack
  <1>3. Agree(call[c], l, {"handler"}) /\ l.handler = "reading"
    BY FaithCall, CallFields DEF IsCall, Agree
  <1> HIDE DEF l
  <1>4. CallInv(c, l)
    BY <1>1, <1>2, <1>3, FaithCall, OpenInv
  <1> QED
    BY <1>1, <1>3, <1>4, OneCall

LEMMA ReadMessageFaith ==
  ASSUME FaithInv, NEW c \in Clients, ReadMessage(c)
  PROVE  FaithInv'
  <1> DEFINE k == call[c]
             rest == [k EXCEPT !.inbox = Tail(@)]
             native == from_grpc(Head(k.inbox))
  <1>0. k.handler = "reading" /\ k.inbox # << >> /\ UNCHANGED <<processor, lock>>
    BY DEF ReadMessage
  <1>1. Agree(k, rest, {"inbox"}) /\ rest.inbox = Tail(k.inbox)
    BY FaithCall, CallFields DEF IsCall, Agree
  <1>2. CASE native = Thrown
    <2>1. call' = [call EXCEPT ![c] = Failed(rest)]
      BY <1>2 DEF ReadMessage
    <2>2. k.dead \/ k.op \notin Natives
      BY <1>0, <1>2, FaithCall, LockNextOK
    <2> HIDE DEF rest
    <2>3. /\ rest.dead = k.dead /\ rest.op = k.op /\ rest.handler = k.handler /\ rest.by = k.by /\ rest.failed = k.failed
          /\ rest.input = k.input /\ rest.client = k.client /\ rest.status = k.status /\ rest.answer = k.answer
          /\ rest.results = k.results
      BY <1>1, CallFields DEF Agree
    <2>4. k.op \notin {"stream_nothing", "get_status"}
      BY <1>0, FaithCall DEF CallInv, Alone, Loners
    <2>5. Shape(c, rest) /\ Life(rest)
      BY <1>1, <2>3, FaithCall DEF CallInv, Shape, Life, Agree
    <2>6. Alone(rest)
      BY <2>3, <2>4, FaithCall DEF CallInv, Alone, Loners
    <2>7. CallInv(c, rest) /\ Handled(rest)
      BY <1>0, <2>2, <2>3, <2>5, <2>6 DEF CallInv, Serves, Handled
    <2>8. CallInv(c, Failed(rest)) /\ Failed(rest).handler # "running"
      BY <2>2, <2>3, <2>4, <2>7, FailedElsewhere
    <2> QED
      BY <1>0, <2>1, <2>8, OneCall
  <1>3. CASE native # Thrown
    <2> DEFINE l == [rest EXCEPT !.handler = "locking", !.native = native]
    <2>1. call' = [call EXCEPT ![c] = l]
      BY <1>3 DEF ReadMessage
    <2> HIDE DEF rest
    <2>2. /\ Agree(k, l, {"handler", "native", "inbox"}) /\ l.handler = "locking" /\ l.inbox = Tail(k.inbox)
          /\ l.native = from_grpc(Head(k.inbox))
      BY <1>1, CallFields DEF IsCall, Agree
    <2> HIDE DEF l
    <2>3. CallInv(c, l)
      BY <1>0, <2>2, FaithCall, LockNextInv
    <2> QED
      BY <1>0, <2>1, <2>2, <2>3, OneCall
  <1> QED
    BY <1>2, <1>3

LEMMA CollectEndsFaith ==
  ASSUME FaithInv, NEW c \in Clients, CollectEnds(c)
  PROVE  FaithInv'
  <1> DEFINE l == Respond(call[c], "OK", call[c].failed = 0, call[c].results)
  <1>1. /\ call' = [call EXCEPT ![c] = l] /\ UNCHANGED <<processor, lock>> /\ call[c].handler = "reading"
        /\ call[c].dead \/ (call[c].inbox = << >> /\ call[c].writesDone)
        /\ call[c].op # "none" /\ Rpc(call[c].op) = "CollectContainers"
    BY DEF CollectEnds, ReadOver, IsRpc
  <1>2. call[c].op = "send_batch"
    <2>1. call[c].op \in Operations
      BY <1>1, FaithCall DEF Shape
    <2> QED
      BY <1>1, <2>1, RpcBack
  <1>3. CallInv(c, l)
    BY <1>1, <1>2, FaithCall, CollectEndsInv
  <1>4. l.handler = "ended"
    BY FaithCall, CallFields DEF IsCall, Respond
  <1> HIDE DEF l
  <1> QED
    BY <1>1, <1>3, <1>4, OneCall

LEMMA ChatEndsFaith ==
  ASSUME FaithInv, NEW c \in Clients, ChatEnds(c) \/ GetStreamStatus(c)
  PROVE  FaithInv'
  <1>1. CASE ChatEnds(c)
    <2>1. /\ call' = [call EXCEPT ![c] = Respond(call[c], "OK", FALSE, << >>)] /\ UNCHANGED <<processor, lock>>
          /\ call[c].handler = "reading" /\ call[c].op # "none" /\ Rpc(call[c].op) = "ProcessStream"
      BY <1>1 DEF ChatEnds, ReadOver, IsRpc
    <2>2. call[c].op \notin Natives /\ Handled(call[c])
      BY <2>1, RpcOf DEF Natives, Handled
    <2> QED
      BY <2>1, <2>2, EndFaith
  <1>2. CASE GetStreamStatus(c)
    <2>1. /\ call' = [call EXCEPT ![c] = Respond(call[c], "OK", TRUE, << >>)] /\ UNCHANGED <<processor, lock>>
          /\ call[c].handler = "called" /\ call[c].op # "none" /\ Rpc(call[c].op) = "GetStreamStatus"
      BY <1>2 DEF GetStreamStatus, Called, IsRpc
    <2>2. call[c].op \notin Natives /\ Handled(call[c])
      BY <2>1, RpcOf DEF Natives, Handled
    <2> QED
      BY <2>1, <2>2, EndFaith
  <1> QED
    BY <1>1, <1>2

LEMMA AcquireFaith ==
  ASSUME FaithInv, NEW c \in Clients, Acquire(c)
  PROVE  FaithInv'
  <1> DEFINE k == call[c]
             l == [k EXCEPT !.handler = IF processor = NoProcessor THEN "replying" ELSE "running",
                            !.by = Append(@, processor)]
  <1>1. /\ call' = [call EXCEPT ![c] = l] /\ processor' = processor /\ k.handler = "locking"
        /\ lock = NoProcessor /\ lock' = (IF processor = NoProcessor THEN NoProcessor ELSE c)
    BY DEF Acquire, FaithInv
  <1>2. /\ Agree(k, l, {"handler", "by"}) /\ l.by = Append(k.by, processor)
        /\ l.handler = IF processor = NoProcessor THEN "replying" ELSE "running"
    BY FaithCall, CallFields DEF IsCall, Agree
  <1> HIDE DEF l
  <1>3. processor \in Installable
    BY DEF FaithInv
  <1>4. CallInv(c, l) /\ l.by[Len(l.by)] = processor
    BY <1>1, <1>2, <1>3, FaithCall, AcquireInv
  <1>5. DOMAIN call' = Clients /\ call'[c] = l /\ \A d \in Clients \ {c} : call'[d] = call[d]
    BY <1>1 DEF FaithInv
  <1>6. \A d \in Clients : CallInv(d, call'[d])
    BY <1>4, <1>5 DEF FaithInv
  <1>7. ASSUME NEW d \in Clients, call'[d].handler = "running"
        PROVE  Running(d)'
    <2>1. d = c
      <3>1. CASE d # c
        <4>1. Running(d)
          BY <1>5, <1>7, <3>1 DEF FaithInv
        <4> QED
          BY <1>1, <4>1, ProcessorAssumption DEF Running
      <3> QED
        BY <3>1
    <2>2. lock' = c
      BY <1>1, <1>2, <1>5, <1>7, <2>1
    <2> QED
      BY <1>1, <1>4, <1>5, <2>1, <2>2 DEF Running
  <1> QED
    BY <1>1, <1>3, <1>5, <1>6, <1>7 DEF FaithInv

LEMMA RunProcessorFaith ==
  ASSUME FaithInv, NEW c \in Clients, RunProcessor(c)
  PROVE  FaithInv'
  <1> DEFINE k == call[c]
             native == Apply(processor, k.native)
             replying == [k EXCEPT !.handler = "replying", !.native = native]
             l == IF native = Thrown THEN Failed(k) ELSE replying
  <1>1. call' = [call EXCEPT ![c] = l] /\ processor' = processor /\ lock' = NoProcessor /\ k.handler = "running"
    BY DEF RunProcessor
  <1>2. lock = c /\ k.by[Len(k.by)] = processor
    BY <1>1 DEF FaithInv, Running
  <1>3. CallInv(c, l) /\ l.handler # "running"
    <2>1. CASE native = Thrown
      <3>0. Handled(k) /\ k.op \notin {"stream_nothing", "get_status"}
        BY <1>1, FaithCall DEF Handled, CallInv, Alone, Loners
      <3>1. CASE k.dead \/ k.op \notin Natives
        BY <2>1, <3>0, <3>1, FaithCall, FailedElsewhere
      <3>2. CASE ~k.dead /\ k.op \in Natives
        <4>1. Progress(k)
          BY <1>1, <3>2, FaithCall DEF CallInv, Serves
        <4>2. k.native = Trip(Given(k)[Len(k.by)]) /\ k.by[Len(k.by)] # NoProcessor
          BY <1>1, <4>1 DEF Progress
        <4>3. ~Fits(k.by[Len(k.by)], Given(k)[Len(k.by)])
          BY <1>2, <2>1, <4>2 DEF Fits, Out
        <4>4. CallInv(c, Failed(k))
          BY <1>1, <3>2, <4>3, FaithCall, MisfitInv
        <4> QED
          BY <2>1, <3>0, <4>4, FaithCall, FailedShape
      <3> QED
        BY <3>1, <3>2
    <2>2. CASE native # Thrown
      <3>1. Agree(k, replying, {"handler", "native"}) /\ replying.handler = "replying" /\ replying.native = native
        BY FaithCall, CallFields DEF IsCall, Agree
      <3>2. native = Apply(k.by[Len(k.by)], k.native)
        BY <1>2
      <3> HIDE DEF replying, native
      <3>3. CallInv(c, replying)
        BY <1>1, <2>2, <3>1, <3>2, FaithCall, ProcessedInv
      <3> QED
        BY <2>2, <3>1, <3>3
    <2> QED
      BY <2>1, <2>2
  <1> HIDE DEF l
  <1>4. DOMAIN call' = Clients /\ call'[c] = l /\ \A d \in Clients \ {c} : call'[d] = call[d]
    BY <1>1 DEF FaithInv
  <1>5. \A d \in Clients : CallInv(d, call'[d])
    BY <1>3, <1>4 DEF FaithInv
  <1>6. \A d \in Clients : call'[d].handler # "running"
    <2> SUFFICES ASSUME NEW d \in Clients, call'[d].handler = "running" PROVE FALSE
      OBVIOUS
    <2>1. d # c
      BY <1>3, <1>4
    <2>2. Running(d)
      BY <1>4, <2>1 DEF FaithInv
    <2> QED
      BY <1>2, <2>1, <2>2 DEF Running
  <1> QED
    BY <1>1, <1>4, <1>5, <1>6 DEF FaithInv

LEMMA ReplyFaith ==
  ASSUME FaithInv, NEW c \in Clients, Reply(c)
  PROVE  FaithInv'
  <1> DEFINE k == call[c]
             m == to_grpc(k.native)
             batch == IsRpc(c, "CollectContainers")
             written == [k EXCEPT !.replies = IF k.dead THEN @ ELSE Append(@, m)]
             l == IF m = Thrown THEN Failed(k)
                  ELSE CASE Rpc(k.op) \in {"SendContainer", "ProcessContainer"} -> Respond(k, "OK", TRUE, <<m>>)
                         [] Rpc(k.op) = "StreamContainers" -> Respond(written, "OK", FALSE, << >>)
                         [] batch -> [k EXCEPT !.handler = "reading", !.results = Append(@, m)]
                         [] OTHER -> [written EXCEPT !.handler = "reading"]
  <1>1. call' = [call EXCEPT ![c] = l] /\ UNCHANGED <<processor, lock>> /\ k.handler = "replying"
    BY DEF Reply
  <1>2. /\ Handled(k) /\ k.op \notin {"stream_nothing", "get_status"} /\ k.op \in Operations /\ IsCall(k)
        /\ k.op # "none" /\ CallInv(c, k)
    <2>1. Handled(k)
      BY <1>1 DEF Handled
    <2>2. k.op \notin {"stream_nothing", "get_status"}
      BY <1>1, FaithCall DEF CallInv, Alone, Loners
    <2> QED
      BY <2>1, <2>2, FaithCall, HandledLife
  <1>3. /\ Agree(k, written, {"replies"}) /\ (~k.dead => written.replies = Append(k.replies, m))
    BY <1>2, CallFields DEF IsCall, Agree
  <1>4. CallInv(c, l) /\ l.handler # "running"
    <2>1. CASE m = Thrown
      <3>0. l = Failed(k)
        BY <2>1
      <3>1. CASE k.dead \/ k.op \notin Natives
        <4>1. CallInv(c, Failed(k)) /\ Failed(k).handler # "running"
          BY ONLY c \in Clients, <1>2, <3>1, FailedElsewhere
        <4> HIDE DEF l
        <4> QED
          BY <3>0, <4>1
      <3>2. CASE ~k.dead /\ k.op \in Natives
        <4>1. ~Fits(k.by[Len(k.by)], Given(k)[Len(k.by)])
          BY <1>1, <1>2, <2>1, <3>2, ReplyingFits
        <4>2. CallInv(c, Failed(k))
          BY <1>1, <1>2, <3>2, <4>1, MisfitInv
        <4> QED
          BY <1>2, <3>0, <4>2, FailedShape
      <3> QED
        BY <3>1, <3>2
    <2>2. CASE m # Thrown /\ k.op \in {"send", "send_nothing", "process", "process_raw"}
      <3> DEFINE r == Respond(k, "OK", TRUE, <<m>>)
      <3>1. l = r
        <4>1. Rpc(k.op) \in {"SendContainer", "ProcessContainer"}
          BY ONLY <2>2, RpcOf
        <4> HIDE DEF m, written
        <4> QED
          BY <2>2, <4>1 DEF IsRpc
      <3>2. /\ Agree(k, r, {"handler", "status", "success", "results"}) /\ r.handler = "ended" /\ r.status = "OK"
            /\ r.results = <<m>>
        BY <1>2, CallFields DEF IsCall, Agree, Respond
      <3>3. r.success
        BY <1>2, CallFields DEF IsCall, Respond
      <3> HIDE DEF r, m, l
      <3>4. Agree(k, r, {"handler", "status", "success", "results", "replies"})
        BY <3>2 DEF Agree
      <3>5. m = to_grpc(k.native)
        BY DEF m
      <3>6. CallInv(c, r)
        BY <1>1, <1>2, <2>2, <3>2, <3>3, <3>4, <3>5, ReplyOneInv
      <3> QED
        BY <3>1, <3>2, <3>6
    <2>3. CASE m # Thrown /\ k.op = "stream"
      <3> DEFINE r == Respond(written, "OK", FALSE, << >>)
      <3>1. l = r
        <4>1. Rpc(k.op) = "StreamContainers"
          BY ONLY <2>3, RpcOf
        <4> HIDE DEF m, written
        <4> QED
          BY <2>3, <4>1 DEF IsRpc
      <3> HIDE DEF written
      <3>2. /\ Agree(k, r, {"handler", "status", "success", "results", "replies"}) /\ r.handler = "ended" /\ r.status = "OK"
            /\ r.results = << >> /\ r.replies = written.replies
        BY <1>3, CallFields DEF IsCall, Agree, Respond
      <3> HIDE DEF r, m, l
      <3>3. m = to_grpc(k.native)
        BY DEF m
      <3>4. CallInv(c, r)
        BY <1>1, <1>2, <1>3, <2>3, <3>2, <3>3, ReplyOneInv
      <3> QED
        BY <3>1, <3>2, <3>4
    <2>4. CASE m # Thrown /\ k.op = "send_batch"
      <3> DEFINE r == [k EXCEPT !.handler = "reading", !.results = Append(@, m)]
      <3>1. l = r
        BY <2>4, RpcOf DEF IsRpc
      <3>2. Agree(k, r, {"handler", "results"}) /\ r.handler = "reading" /\ r.results = Append(k.results, m)
        BY <1>2, CallFields DEF IsCall, Agree
      <3> HIDE DEF r, m, l
      <3>3. m = to_grpc(k.native) /\ Agree(k, r, {"handler", "results", "replies"})
        BY <3>2 DEF m, Agree
      <3>4. CallInv(c, r)
        BY <1>1, <1>2, <2>4, <3>2, <3>3, ReplyOnInv
      <3> QED
        BY <3>1, <3>2, <3>4
    <2>5. CASE m # Thrown /\ k.op = "chat"
      <3> DEFINE r == [written EXCEPT !.handler = "reading"]
      <3>1. l = r
        BY <2>5, RpcOf DEF IsRpc
      <3> HIDE DEF written
      <3>2. Agree(k, r, {"handler", "replies"}) /\ r.handler = "reading"
        BY <1>3, CallFields DEF IsCall, Agree
      <3> HIDE DEF r, m, l
      <3>3. m = to_grpc(k.native) /\ Agree(k, r, {"handler", "results", "replies"})
        BY <3>2 DEF m, Agree
      <3>4. CallInv(c, r)
        BY <1>1, <1>2, <2>5, <3>2, <3>3, ReplyOnInv
      <3> QED
        BY <3>1, <3>2, <3>4
    <2> HIDE DEF l, m
    <2> QED
      BY <1>2, <2>1, <2>2, <2>3, <2>4, <2>5 DEF Operations, Natives, Loners
  <1> HIDE DEF l
  <1> QED
    BY <1>1, <1>4, OneCall

LEMMA StopDeadlineFaith ==
  ASSUME FaithInv, StopDeadline
  PROVE  FaithInv'
  <1>1. /\ UNCHANGED <<processor, lock>> /\ DOMAIN call' = Clients
        /\ \A c \in Clients : call'[c] = IF Handling(c) THEN [call[c] EXCEPT !.dead = TRUE] ELSE call[c]
    BY DEF StopDeadline
  <1>2. ASSUME NEW c \in Clients
        PROVE  CallInv(c, call'[c]) /\ call'[c].handler = call[c].handler /\ call'[c].by = call[c].by
    <2>1. CASE Handling(c)
      <3> DEFINE l == [call[c] EXCEPT !.dead = TRUE]
      <3>1. Agree(call[c], l, {"dead"}) /\ l.dead /\ l.handler = call[c].handler /\ l.by = call[c].by
        BY FaithCall, CallFields DEF IsCall, Agree
      <3> HIDE DEF l
      <3>2. Handled(call[c])
        BY <2>1 DEF Handled, Handling
      <3>3. CallInv(c, l)
        BY <3>1, <3>2, FaithCall, DeadInv
      <3> QED
        BY <1>1, <2>1, <3>1, <3>3 DEF l
    <2>2. CASE ~Handling(c)
      BY <1>1, <2>2, FaithCall
    <2> QED
      BY <2>1, <2>2
  <1>3. \A c \in Clients : call'[c].handler = "running" => Running(c)'
    BY <1>1, <1>2 DEF FaithInv, Running
  <1> QED
    BY <1>1, <1>2, <1>3 DEF FaithInv

-----------------------------------------------------------------------------
(* Answers: the specification *)

LEMMA FaithInit ==
  ASSUME GrpcInit
  PROVE  FaithInv
  <1>1. processor = NoProcessor /\ call = [c \in Clients |-> NoCall]
    BY DEF GrpcInit
  <1>2. ASSUME NEW c \in Clients PROVE CallInv(c, NoCall)
    <2>1. Shape(c, NoCall)
      BY DEF Shape, NoCall, IsCall
    <2>2. Life(NoCall)
      BY DEF Life, NoCall
    <2>3. Alone(NoCall)
      BY DEF Alone, NoCall, Loners
    <2>4. Serves(NoCall)
      BY DEF Serves, NoCall
    <2> QED
      BY <2>1, <2>2, <2>3, <2>4 DEF CallInv
  <1>3. NoCall.handler # "running"
    BY DEF NoCall
  <1> QED
    BY <1>1, <1>2, <1>3 DEF FaithInv, Installable

LEMMA FaithStep ==
  ASSUME FaithInv, [GrpcNext]_grpcVars
  PROVE  FaithInv'
  <1>1. CASE Start \/ (\E limited \in BOOLEAN : StopBegin(limited)) \/ StopEnd \/ UNCHANGED grpcVars
    <2>1. UNCHANGED <<processor, lock, call>>
      BY <1>1 DEF Start, StopBegin, StopEnd, grpcVars
    <2> QED
      BY <2>1 DEF FaithInv, Running
  <1>2. ASSUME NEW p \in Processors, SetProcessor(p)
        PROVE  FaithInv'
    <2>1. lock = NoProcessor /\ processor' = p /\ UNCHANGED <<lock, call>>
      BY <1>2 DEF SetProcessor
    <2>2. \A c \in Clients : call[c].handler # "running"
      BY <2>1, ProcessorAssumption DEF FaithInv, Running
    <2> QED
      BY <2>1, <2>2 DEF FaithInv, Installable
  <1>3. CASE StopDeadline
    BY <1>3, StopDeadlineFaith
  <1>4. ASSUME NEW c \in Clients, HandlerStep(c)
        PROVE  FaithInv'
    BY <1>4, SendContainerFaith, ProcessContainerFaith, StreamContainersFaith, OpenStreamFaith, ReadMessageFaith,
       CollectEndsFaith, ChatEndsFaith, RunProcessorFaith, ReplyFaith DEF HandlerStep
  <1>5. ASSUME NEW c \in Clients, Acquire(c) \/ Client(c)
        PROVE  FaithInv'
    BY <1>5, AcquireFaith, ClientFaith
  <1> QED
    BY <1>1, <1>2, <1>3, <1>4, <1>5 DEF GrpcNext

LEMMA FaithAnswers ==
  ASSUME FaithInv
  PROVE  AnswersFaithful
  <1> SUFFICES ASSUME NEW c \in Clients
               PROVE  LET k == call[c]
                          given == NonNull(k.input)
                      IN  /\ k.answer = "success" /\ k.op \in Natives =>
                               /\ Len(k.value) = Len(given)
                               /\ \A i \in DOMAIN given : Expected(k.by[i], given[i], k.value[i])
                          /\ k.answer = "failure" /\ ~k.dead =>
                               \/ k.op \in {"send_nothing", "process_raw"}
                               \/ Explains(k.by, given)
    BY DEF AnswersFaithful, Explains
  <1> DEFINE k == call[c]
  <1>1. Shape(c, k) /\ Life(k) /\ Alone(k) /\ Serves(k)
    BY FaithCall DEF CallInv
  <1>2. ASSUME k.answer = "success", k.op \in Natives
        PROVE  /\ Len(k.value) = Len(Given(k))
               /\ \A i \in DOMAIN Given(k) : Expected(k.by[i], Given(k)[i], k.value[i])
    <2>1. ~k.dead /\ k.handler = "ended"
      BY <1>1, <1>2 DEF Life
    <2>2. Verdict(k)
      BY <1>1, <1>2, <2>1 DEF Serves
    <2> QED
      BY <1>2, <2>2 DEF Verdict
  <1>3. ASSUME k.answer = "failure", ~k.dead, k.op \notin {"send_nothing", "process_raw"}
        PROVE  Explains(k.by, Given(k))
    <2>1. k.handler = "ended"
      BY <1>1, <1>3 DEF Life
    <2>2. k.op \in Operations /\ k.op \notin Loners
      BY <1>1, <1>3, <2>1 DEF Shape, Alone
    <2>3. k.op \in Natives
      BY <1>3, <2>2 DEF Operations
    <2>4. Verdict(k)
      BY <1>1, <1>3, <2>1, <2>3 DEF Serves
    <2> QED
      BY <1>3, <2>4 DEF Verdict
  <1> QED
    BY <1>2, <1>3 DEF Given

\* For any number of clients and calls, any processors and any interleaving
\* of handlers, deadlines and changes of the processor: an operation of
\* grpc_client that reports success gives, container by container, what the
\* processor in force made of that container, and one that fails without
\* being cut off names a container that the processor or the adapter
\* refused.  The adapter and the processors are what CallsAssumption says.
THEOREM AnswersAlwaysFaithful == GrpcSpec => []AnswersFaithful
  <1>1. GrpcInit => FaithInv
    BY FaithInit
  <1>2. FaithInv /\ [GrpcNext]_grpcVars => FaithInv'
    BY FaithStep
  <1>3. FaithInv => AnswersFaithful
    BY FaithAnswers
  <1> QED
    BY <1>1, <1>2, <1>3, PTL DEF GrpcSpec
=============================================================================
