\* Three runs of any of four plans, any device, one serialized field a chunk; the
\* script keeps going.
CONSTANTS
  Plans <- MCPlans
  Chain <- MCChain
  Seeds <- MCSeeds
  Block = 1
  MaxRuns = 3
  NoPlan = NoPlan
  NoTx = NoTx
  NoPath = NoPath
  Absent = Absent
  Torn = Torn
  nft = nft
  fund = fund
  nft2 = nft2
  fund2 = fund2
  ref = ref
  ref2 = ref2
SPECIFICATION FairSpec
CHECK_DEADLOCK FALSE
INVARIANTS
  TypeOK
  WrittenIsAccepted
  FeeIsIntended
  DeviceSignsOnlyPlans
  TransferIsSilent
  IInv
PROPERTIES
  ImplementsApprovedSpend
  EveryRunEnds
