SPECIFICATION GrpcSpec
CONSTANTS
  Null = Null
  Monostate = Monostate
  Thrown = Thrown
  to_grpc <- ToGrpc
  from_grpc <- FromGrpc
  Carried <- Carries
  Refused <- Unsendable
  MAX_NESTING_DEPTH = 1
  Clients = {c1, c2}
  c1 = c1
  c2 = c2
  picky = picky
  wrap = wrap
  NoProcessor = NoProcessor
  Processors = {picky, wrap, NoProcessor}
  Calls <- MCCalls
  Apply <- MCApply
  MaxRequests = 2
  MaxSwitches = 2
INVARIANTS
  AnswersFaithful
  AccountsBalance
PROPERTY ServerStops
CHECK_DEADLOCK FALSE
