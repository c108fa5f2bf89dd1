\* Seven versions of the oracle, one edit, one build, an explorer that may return other
\* transactions than it is asked for, and five benches.
CONSTANTS
  Targets <- MCTargets
  Offered <- Substituted
  ForeignSpk <- MCForeignSpk
  MaxBuilds = 1
  MaxEdits = 1
  Absent = Absent
  Torn = Torn
  None = None
  Chain <- MCChain
  Seeds <- MCSeeds
  NoPath = NoPath
  Funding <- MCFunding
  HandTxs <- MCHandTxs
  Consolidation <- MCConsolidation
  OfferedSamples <- SubstitutedSamples
  SampleIndices = {1, 4}
  GlyphTx <- MCGlyphTx
  GlyphFiles <- MCGlyphFiles
  Pinned <- MCPinned
  FakeRef = fakeref
  Benches <- MCBenches
  Judged <- MCJudged
  t1 = t1
  t2 = t2
  t3 = t3
  t4 = t4
  t5 = t5
  t6 = t6
  t7 = t7
  fund = fund
  other = other
  ref = ref
  ref2 = ref2
SPECIFICATION Spec
INVARIANTS
  TypeOK
  FileIsGolden
  VerdictIsRight
  EvidenceIsSound
  EvidenceIsComplete
  DeviceIsVindicated
  DiagnosisIsRight
