\* One lookup at a time; a clock long enough for a reorganisation during a lookup and
\* an expiry after it; every radiant-cli call ends and every callback runs.
CONSTANTS
  Requests = {q1, q2}
  Refs = {r1, r2}
  Blocks <- ForkBlocks
  Chains <- ForkChains
  Mints <- ForkMints
  Reveals <- ForkReveals
  MaxInFlight = 1
  MaxLookahead = 2
  TTL = 1
  MaxNow = 2
  NoRef = NoRef
  NoBlock = NoBlock
  NoEntry = NoEntry
  NoReply = NoReply
  Failed = Failed
  NoAnswer = NoAnswer
  g1 = g1
  a2 = a2
  a3 = a3
  b2 = b2
  b3 = b3
  b4 = b4
  r1 = r1
  r2 = r2
CHECK_DEADLOCK FALSE
SPECIFICATION FairSpec
PROPERTIES
  ServedSoonAfterReorg
  EveryLookupAnswered
