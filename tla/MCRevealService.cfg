\* Three requests over two lookups at a time and a chain that forks; the clock stands
\* still, so that what was cached stays fresh (MCRevealTime has the expiry).
CONSTANTS
  Requests = {q1, q2, q3}
  Refs = {r1, r2}
  Blocks <- ForkBlocks
  Chains <- ForkChains
  Mints <- ForkMints
  Reveals <- ForkReveals
  MaxInFlight = 2
  MaxLookahead = 2
  TTL = 1
  MaxNow = 0
  NoRef = NoRef
  NoBlock = NoBlock
  NoEntry = NoEntry
  NoReply = NoReply
  Failed = Failed
  NoAnswer = NoAnswer
  g1 = g1
  a2 = a2
  a3 = a3
  b2 = b2
  b3 = b3
  b4 = b4
  r1 = r1
  r2 = r2
CHECK_DEADLOCK FALSE
SPECIFICATION Spec
SYMMETRY RequestSymmetry
INVARIANTS
  TypeOK
  GateExact
PROPERTY ImplementsLookup
