SPECIFICATION CodecSpec
CONSTANTS
  Null = Null
  None = None
  Values <- MCValues
  Keys <- MCKeys
  Garbage <- MCGarbage
  Packets <- MCPackets
  PacketGarbage <- MCPacketGarbage
  Base = 8
  FixintMax = 3
  NegFixints = 2
  FixstrMax = 3
  FixcountMax = 5
  MaxStore = 2
  MaxHops = 2
  Chains <- MCChains
  Documents <- MCDocuments
  Matches <- MCMatches
  InvalidPatterns = {99}
  Complains <- MCComplains
  Unset = Unset
  Bits = 4
  MaxChain = 3
  Largest = 9
  Inputs <- MCInputs
INVARIANTS
  Lossless
  TruncationDetected
  ForwardStable
  ReencodeFits
  SchemaVerdict
  ReductionsExact
CHECK_DEADLOCK FALSE
