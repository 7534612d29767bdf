------------------------------ MODULE MCShared ------------------------------
(***************************************************************************)
(* The objects that threads share without one lock over all of them: the   *)
(* header of a container, its views, the metrics, rcu_value and the epoch  *)
(* manager, the callbacks of the messaging integration; and a message with *)
(* its reply.  They do not touch one another: a behaviour is of one of     *)
(* them, and the others rest in their initial states.                      *)
(***************************************************************************)
EXTENDS ContainerRaces, Metrics, RcuValue, EpochManager, Messaging, MessageContainer

VARIABLE component

sharedVars == <<component, racesVars, metricsVars, rcuVars, vars, messagingVars, messageVars>>

SharedInit ==
  /\ component \in {"header", "views", "metrics", "rcu", "epochs", "messaging", "message"}
  /\ RacesInit /\ MetricsInit /\ RcuInit /\ Init /\ MessagingInit /\ MessageInit
  /\ component # "metrics" => enabled
  /\ component # "message" => hasJson /\ request = OfType("a")

HeaderStep == component = "header" /\ HeaderNext /\ UNCHANGED <<component, metricsVars, rcuVars, vars, messagingVars, messageVars>>
ViewStep == component = "views" /\ ViewNext /\ UNCHANGED <<component, metricsVars, rcuVars, vars, messagingVars, messageVars>>
MetricsStep == component = "metrics" /\ MetricsNext /\ UNCHANGED <<component, racesVars, rcuVars, vars, messagingVars, messageVars>>
RcuStep == component = "rcu" /\ RcuNext /\ UNCHANGED <<component, racesVars, metricsVars, vars, messagingVars, messageVars>>
EpochStep == component = "epochs" /\ Next /\ UNCHANGED <<component, racesVars, metricsVars, rcuVars, messagingVars, messageVars>>

MessagingStep ==
  component = "messaging" /\ MessagingNext /\ UNCHANGED <<component, racesVars, metricsVars, rcuVars, vars, messageVars>>
MessageStep ==
  component = "message" /\ MessageNext /\ UNCHANGED <<component, racesVars, metricsVars, rcuVars, vars, messagingVars>>

SharedNext == HeaderStep \/ ViewStep \/ MetricsStep \/ RcuStep \/ EpochStep \/ MessagingStep \/ MessageStep
SharedSpec == SharedInit /\ [][SharedNext]_sharedVars

Symmetry == Permutations(Callers) \union Permutations(Writers) \union Permutations(Collectors) \union Permutations(Objs)

TwoItems == <<"a", "b">>
BuilderInputs ==
  {[type |-> "integer", data |-> 3], [type |-> "long", data |-> 5], [type |-> "container", data |-> "text"]}
OnePayload == {<<>>, <<"p">>}

\* "q" holds one quote; "e" holds two, with another field between them.
ReadsAs(x) ==
  CASE x = "q" -> Refused
    [] x = "e" -> [text |-> "b", also |-> [source_id |-> "a"]]
    [] OTHER -> [text |-> x, also |-> <<>>]
MCReads == [x \in {"a", "b", "q", "e", "", "1.0.0.0"} |-> ReadsAs(x)]
=============================================================================
