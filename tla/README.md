# radiant-ledger-app: verification development

TLA+ models of the host-side programs of this repository, TLC runs over small
instances of them, and TLAPS proofs for every instance. The definitions are
translated from the source, line by line in `PROJECT.json` ("map"); the docs
are only quoted where a run compares them with the code.

## 1. Inventory

| Component | Source | State it keeps | Operations | What is hard |
|---|---|---|---|---|
| Spend scripts | `scripts/spend_glyph_2in_transfer.py`, `scripts/spend_real_glyph_2in.py`, `scripts/_spend_helpers.py` | locals of `main()`, the device's signing context, the output file | derive keys, check addresses, trusted inputs, announce change, stream outputs, sign twice, verify, assemble, round trip, write | a run dying between two exchanges leaves the device half way; constants patched by hand; substituted previous transactions; another device or firmware |
| Sighash oracle | `scripts/radiant_preimage_oracle.py` | none | preimage and its four partial hashes, reference walk, transaction parser | byte order of ids, cut-off scripts, pushed data that looks like opcodes |
| Reveal lookup | `view-only-ui/server.js` `findReveal` | `revealCache`, `revealInFlight`, locals of each lookup | cache, gate, walk up to 30 blocks | awaits: reorganisations between any two calls, slots leaked on an error, stale entries |
| radiant-cli call | `view-only-ui/server.js` `rpc` | chunks, errChunks, total, killed, the promise | data of two streams, error, close, kill | order of events; output after the kill; a stream nobody counts; no timeout |
| IPFS proxy and metadata card | `server.js` `/ipfs`, `index.html` `extractGlyphCbor`, `renderMetadata` | the response, the picture, its outline | find the payload in a scriptSig, choose a picture, fetch it twice, compare hashes | a second byte walk; truncation, connections that break, the two fetches differing |
| Results panel | `index.html` handlers | `#results`, the scan button | classify, paste, fetch, scan | handlers interleaving at every await |
| Script classifier | `view-only-ui/classifier.mjs` | none | classify, builders | overlapping shapes |
| Block scanner | `scripts/find_ft_utxo.py` | counters by shape and by reference, examples, template variants | read a block, skip a block, report, inspect a transaction | digit search over hex, partial failure |
| Golden fixtures | `scripts/build_fixtures.py`, `scripts/test_oracle_against_vectors.py` | the fixture file | build, write, re-test | drift of the oracle, an explorer that is wrong about coins or returns another transaction, a torn file |
| Oracle validation | `scripts/oracle_self_validate.py`, `scripts/test_push_refs.py`, `scripts/test_glyph_mainnet.py` | none, but what the operator believes afterwards | mainnet signatures, hand-written preimages, samples, reference cases | tests that share code with what they test, samples passed over, an oracle edited since |
| Device harnesses | `scripts/test_device_plain_sign.py`, `scripts/test_device_glyph_sign.py` | the device, `/tmp/regtx_raw.hex` | one signature compared with the oracle | a stale previous transaction, another seed, a verdict that blames the wrong part |
| Other proxy routes, base58, derivation scripts, CBOR decoder | see `PROJECT.json` | | | not modelled, reasons below |

Interactions: the spend scripts call the oracle and the device (one exchange at
a time, no timeout); the fixture and validation programs call the oracle and an
explorer, the harnesses the oracle and a device, and the operator runs them one
after the other to decide which of them to trust; the
page calls the proxy over HTTP; the proxy calls the node through one ssh child
per call, and IPFS through HTTPS; the page's classifier and the scanner's are
two independent readings of the same scripts.

## 2. Modules

| Module | Models | How state and actions correspond to the code |
|---|---|---|
| `Preimage` | the oracle, field by field | a hash is an injective constructor; an id carries the order its bytes are in, `[::-1]` is `Reversed`; a script is its reference operations and the key hash of its tail |
| `Device` | the Ledger device and the chain its trusted inputs come from | a record for the signing context; three firmwares, of which one hashes as a node does |
| `SpendSession` | both spend scripts with the helpers | `run` is the locals of `main()` with a program counter, `dev` the device, `released` the history of its signatures, `file` the output files; one action per exchange or check |
| `ApprovedSpend` | what the scripts promise, abstractly | signatures are votes; a transaction is published only when the device has released a vote for each of its inputs over that very transaction |
| `SpendSessionInv`, `SpendSessionProofs` | the inductive invariant and the proofs | |
| `ScriptWalk`, `ScriptWalkProofs` | `get_push_refs_from_script` byte by byte | a list of operations is serialized, cut off anywhere and walked; the cursor is the code's `i`, one action per branch of the loop |
| `RevealService`, `RevealServiceProofs` | `findReveal`, `findRevealInner`, the node's active chain | `req[r]` is one handler with its locals; an action runs from one await to the next, `NodeAnswers` answers the call in between |
| `LookupService` | what `/reveal` promises, abstractly | a request, the blocks active since it was opened, its answer; an answer has to be justified by those blocks |
| `RpcCall`, `RpcCallProofs` | `rpc` | both pipes, the child and the promise, one action per event |
| `GlyphPayload` | `extractPush`, `extractGlyphCbor` | a recursive function over the bytes `ScriptWalk` serializes |
| `GlyphCard`, `GlyphCardProofs` | one card of `renderMetadata` and its two fetches through `/ipfs` | bytes counted in chunks of the cap; `gateway` is what each of the two requests would be served |
| `ResultsPanel`, `ResultsPanelProofs` | `runHex`, `runTxJson`, `runFetch`, `runAddress`, `renderOne` | `panel` is the children of `#results`; one action per stretch between awaits |
| `ScriptShapes` | `classify`, the builders, `classify_shape`, `ft_template_bytes`, `parse_ft_script` | scripts are sequences of hex digits, key hashes and references shortened |
| `BlockScan`, `BlockScanProofs` | `scan_recent`, `scan_tx` | loop variable and counters; a block read, skipped, or the scan ended by an exception; `printed` is what the report shows with its structure |
| `OracleVersions` | the oracle as something that can be wrong | the right code of `Preimage`, or that code with one of six defects |
| `FixturePipeline` | `build_fixtures.py` and its file | a build and an editor of the oracle as two processes; `build.tx` is what the explorer returned, which need not be the target |
| `OracleTrust`, `OracleTrustProofs` | the five test scripts and the two harnesses on top of it | `check` is the script running, with the oracle and the fixtures it read at its start; `evidence` is what the scripts have said of the oracle that is on disk now |

`Device`, `ScriptWalk` and `OracleVersions` extend `Preimage`; `ScriptWalk`
shows that its abstract `PushRefs` and `WalkRaises` are what the byte walk
computes. `SpendSession` extends `Device`, and `OracleTrust` composes `Device`
with `FixturePipeline`. `GlyphPayload` extends `ScriptWalk`, `BlockScan`
extends `ScriptShapes`. `RpcCall` refines what `NodeAnswers` of `RevealService`
takes for granted: a call ends with its whole output or an error.

Two refinements are checked and proved: `SpendSession` implements `ApprovedSpend`
(`INSTANCE ... WITH` on the signatures released and the files), and
`RevealService` implements `LookupService`, where the abstract `asked` and
`said` are the reference and the answer in each request's locals and `window`
is the history of active blocks.

Definitions whose comment begins with "Mutant" are variations of the next
definition. They are used by no specification and record which slip of the code each
property is there to notice.

### What is external

The device (`FreshDevice`, `TrustedInput`, `DeviceDigest`, `Prompts`), the node
(`ConsensusSighash`, `NewTip`, `NodeReply`), the explorer and the IPFS gateway
are not in this repository. They are modelled from how the code uses them. The
device signs whatever it has been given with the key asked for, may return any
trailing byte, an ill-formed or a high-s signature, may hold another seed, and
may run a firmware that leaves `hashOutputHashes` out of the preimage, or hashes
it without looking for references. The
consensus digest in `NetworkAccepts` is written down apart from the oracle's,
so that agreeing with it is a statement about the oracle and the scripts.

## 3. Runs

| Run (cfg) | Question | Bounds |
|---|---|---|
| `MCSpendSession` | does only an acceptable transaction with the intended fee reach a file; do signatures commit to plans only; is the approved-spend protocol implemented; is the inductive invariant right; does every run end | 3 runs of four plans, 2 seeds, 3 firmwares, one field per chunk |
| `MCScriptWalk` | does the oracle's byte walk find exactly the references, and the page's the payload | 3 operations, references of 2 bytes |
| `MCRevealService` | gate; is the abstract lookup service implemented | 3 requests, 2 references, gate of 2, lookahead 2, a fork of two chains |
| `MCRevealTime` | how stale may a cached answer be; is every lookup answered | 2 requests, gate of 1, clock to 2, lifetime 1 |
| `RpcCall` | does the promise tell the truth, is what is kept of standard output bounded | cap 8, pipes of 4, output 16, errors 6 |
| `GlyphCard` | what is shown, when is it outlined | files of 1, 2 and 3 chunks around a cap of 2, the two requests served the minted file or others |
| `ResultsPanel` | cards, headings and the scan button | 3 invocations, 2 outputs |
| `MCOracleTrust` | can a drifted oracle or a wrong word on a coin get into the golden file; what does the vector test's verdict say; what is each script's pass worth; do the harnesses vindicate and blame rightly | transactions of 1, 2, 3 and 4 inputs, two of them also in a version signed with a drifted oracle, 7 versions of the oracle, 1 build, 1 edit, 5 benches |
| `MCBlockScan` | do scanner and wallet agree; is the report's structure right | 2 outputs in 2 blocks, key hashes of 2 and references of 8 digits |
| `GlyphCardMismatch`, `GlyphCardTwoFetches`, `MCBlockScanD0` | each shows one sentence of the repository that the code does not keep (section 6) | |

Why the bounds are enough. A run of a spend script depends on earlier ones only
through the device and the files, so a run that dies, one by another plan and a
third cover what can be left behind; the proofs remove the bound. The lookahead
of 2 has its first and its last step; a fork two blocks deep orphans both the
commit and the reveal. `RpcCall` and `GlyphCard` have room below, at and above their caps. The
panel needs two handlers that interleave and a third that clears. The lengths
in `ScriptShapes` keep the order of the real ones (a key hash much shorter than
a reference) and give every shape a length of its own. In `MCOracleTrust` a
verdict depends on one oracle, one file and one bench: an edit before, during
and after a build or a test is what can come between them, so one of each is
enough. The transactions have every shape the scripts use, what the explorer returns
instead of one differs from it in its signatures, and the defects have one place each
(an encoder, the assembly of the preimage, two of the partial hashes, the reference
walk), alone.

`CHECK_DEADLOCK FALSE` is set where the system really stops: a bounded number
of runs, requests or invocations has been made, or a walk has returned. In
`MCOracleTrust` nothing stops, and deadlock is checked.

### Fairness

`SpendSession!FairSpec` has weak fairness of the script's next step: a single
thread that runs until it returns or raises. It includes the device's answer;
the code sets no timeout on an exchange, so that a device that never answers
hangs the script is assumed away. `RevealService!FairSpec` assumes that each
radiant-cli call ends and each callback runs; again `rpc()` has no timeout.
`RpcCall!FairSpec` is only the event loop: the child may run for ever, and
`SettledAfterExit` starts where it has exited. `ResultsPanel` and `GlyphCard`
assume that `fetch` settles and timers fire; the gateway may break off, which
no fairness prevents.

## 4. Properties worth knowing

* `WrittenIsAccepted`: whatever the device answers and however earlier runs
  ended, a file holds only transactions a node accepts. It needs one condition,
  `CodesAreReal`: the locking scripts in the constants are the coins' own.
  Nothing in `main()` compares them with the raw previous transaction it has in
  hand, and oracle and device are given the same wrong bytes. Amounts need no
  condition: the device takes them from the previous transaction, so that a
  wrong `IN0_VALUE` makes its digest differ (`FeeIsIntended`).
* `DeviceSignsOnlyPlans`: even an aborted run leaves behind no signature that
  commits to anything but a plan.
* `ImplementsApprovedSpend`: nothing is published on part of the votes, and a torn
  file is never one of the published transactions. It does not say that a published
  file lasts: `write_text` empties it first, a crash then (`Abandon` between `OpenFile`
  and `WriteFile`) loses it, and the abstract `Truncate` permits that.
* `GateExact`, `ImplementsLookup`, `ServedSoonAfterReorg`: the walk does not
  lock the chain, so what it says is about blocks that were active at some time
  during the request: for a reveal, one block that minted and one that revealed;
  for "not found", one block without the reveal at each height of the lookahead,
  perhaps of different chains. The age of a cached answer is bounded by its
  lifetime plus the duration of its lookup, not by its lifetime.
* `ResolvedIsWhole`, `FailureRejects`: no partial output is taken for an answer.
* `StdoutBounded` is about standard output, which is what `rpc()` counts: the cap
  and at most one pipe. There is no such bound on what a call keeps, because standard
  error is kept uncounted (section 6).
* `SwapIsMarked`, `OutlineExplained`: the check marks what the check is served. The
  picture on show was served by another request (section 6).
* `CursorBetweenOps`, `WalkIsPreimages`, `PayloadFollowsMarker`: pushed data is
  never read as opcodes, by either of the two walks.
* `SoloPanelIsFull`: handlers can mix, but visibly.
* `FileIsGolden`, `VerdictIsRight`: the signature check, not the oracle, is what
  makes the fixtures golden. Whatever the explorer returns, each record is the digest
  that its signature is over and the coin that digest commits to, and the vector test
  passes exactly for an oracle that computes those digests. That these are the digests
  of a node rests on the explorer having returned the targets, which no script can
  tell: nobody compares the bytes with the id, nor the key of a signature with the
  script of the coin (`build_fixtures.py:92-95,154-155`). Both properties say what
  holds with that assumption and what holds without it; neither says that the file's
  transactions are the targets, which the file claims of itself (section 6).
* `EvidenceIsSound`, `EvidenceIsComplete`: what each script's pass shows of the
  oracle on disk, for the defects of `OracleVersions`. No script alone excludes
  them all: the vectors push no reference, the mainnet Glyph transaction pushes
  none twice, the reference tests compute no digest, and an "ALL GREEN" for
  which all samples but one were passed over shows nothing about transactions with
  several inputs. The reference tests with any one of the others do.
  A pass counts as evidence where the script was given the transactions it asked
  for (`AsAsked`, and `t = Consolidation` in `EndSelf`, for
  `oracle_self_validate.py:370-376` trusts the explorer in the same way). Without that
  condition `EvidenceIsSound` is false: a substituted transaction signed with a drifted
  oracle passes with that oracle.
* `DeviceIsVindicated`, `DiagnosisIsRight`: with an oracle so vouched for, a
  passing Glyph harness means a signature a node accepts, and a failing one with
  a passing plain one means `hashOutputHashes` of the Glyph output. Either could
  fail through the file of the previous transaction, which nothing compares with
  `PREV_TXID`; what saves the second is that both harnesses read the same file.
* `MissesOnlyD0`: the scanner's counts, where its own report shows one template,
  are wrong in one way only; `TokensArePrinted`: the structure it prints is not,
  even for the outputs the counts miss.

## 5. Proofs

All theorems hold for every value of the constants under the named assumptions.

* **SpendSession** (`PlanAssumption`, `NoPlanAssumption`, `BoundAssumption`,
  `ChainAssumption`). `WrittenIsAccepted` is not inductive: it says nothing of a
  run in progress. `IInv` strengthens it with what holds at each control point:
  the keys derived so far are one seed's keys for the plan's paths (`KeysInv`),
  the trusted inputs are the plan's outpoints with the chain's amounts
  (`TisInv`), what the device has been streamed is a prefix of the plan's
  serialized outputs (`StreamInv`), each signature kept is the device's over
  the plan (`SignInv`), and from verification on it is over the oracle's digest
  (`CheckedInv`); a file holds what passed all that (`FileInv`). There is one
  lemma per action. Two lemmas carry the content: `DigestOfPlan`, the device's
  digest is the plan's where the streamed outputs are complete, and
  `OracleIsConsensus`, the oracle's digest of the plan is the node's digest of
  the assembled transaction. From `IInv` follow `TypeCorrect`,
  `WrittenAccepted`, `FeeIntended`, `TransferSilent`, `OnlyPlansAreSigned`, and
  step by step `Implementation`. The proofs never use the round-trip check: in
  the model it cannot fail, because what is parsed back is what was assembled.
* **RevealService** (`LimitAssumption`, `ChainAssumption`, `NoneAssumption`).
  `GateIsExact`: the counter is the cardinality of the set of running lookups;
  lemmas say how that set changes when one starts, ends or moves on.
  `PromiseIsKept` is the refinement `ImplementsLookup`. An answer is justified
  at its end only by what its handler has learned at each await, so the
  invariant (`HandlerOK`, for each control point) says what that is: the commit
  block minted the reference, each height already walked had a block without the
  reveal, the block in hand is of the height reached, all of them active while
  the lookup was open (`SeenOK`); and each cache entry is somebody's answer
  (`CacheOK`). `HeightOf`, that a block's height does not depend on the chain, is
  what makes this survive a reorganisation. One lemma per action maps it to its
  step of `LookupService`. `ServedIsRecent` is the action property
  `ServedSoonAfterReorg`: its invariant `StaleInv` says that no block an open lookup has
  seen, and no block in the cache, left the chain before the lookup that saw it
  began; a block that leaves does so now, which is never before.
* **RpcCall** (`SizeAssumption`). `CallInvariant` relates what was written, is in
  the pipe, was counted and is kept, for each stream; `TypeCorrect`, `ResolvesWhole`,
  `StdoutIsBounded` and `FailureAlwaysRejects` follow.
* **GlyphCard** (`SizeAssumption`, `NoneAssumption`). `FetchInv` says how much of
  the file has passed a proxied fetch in each of its states: as long as cap and
  connection hold, all that was sent. Hence `OutlineHasCause`, which is about what the
  check was served;
  `SniffedTypeIsShown` is a case analysis of `Mime`.
* **ResultsPanel**. `OneScanAtATime`: the invariant names the scan that disabled
  the button. `CardsStayWhole` needs to know which cards of an invocation are on the
  panel at each of its control points, whoever has cleared it since: those from
  some number on to the last one rendered, in order. `SoloIsShownInFull` adds
  where they stand: nobody can come to be alone on the panel but by having cleared it
  last, and behind one's own clearing every node is one's own.
* **ScriptWalk, GlyphPayload** (`WalkAssumption`, `OpsAssumption`). The inductive
  invariant `WalkInv` says that there is a number n of operations the cursor has just
  passed (`Behind`), and that the lists hold the references of exactly these: none of
  their data, and all of their references unless the script was cut off within one.
  It holds since `Encode` and the branches of the loop step over the same
  number of bytes, which for the length fields of two and four bytes is arithmetic on
  `LengthByte`. `OpsAssumption` says what can be encoded at all: a push that fits its
  length field, a byte that is no push and no reference opcode, a reference of
  `REF_LEN` bytes. From `WalkInv` follow `CursorStaysBetween`, `WalkAgrees` and
  `NothingInvented`. `PayloadFound` says the same of the page's walk; there the
  cursor is the argument of a recursive function, and the theorem goes by induction
  on the operations left.
* **BlockScan, ScriptShapes** (`LenAssumption`, `BackAssumption`,
  `ScriptsAssumption`). The invariant `ScanInv` has the counters, variants and
  examples as functions of the outputs of the blocks read (`CountsOK`, `VariantsOK`,
  `ExamplesOK`), and that every block read lies above the cursor, without which one
  could be counted twice (`LoopOK`). The rest is about scripts: `P2pkhRebuilt`,
  `FtRebuilt` and `NftRebuilt` (a script is its own slices put together again) give
  `NoLookalikes`; `FtSearch` (where the first `d0` of an FT stands) gives
  `OnlyD0Missed`; `FoundThere` (a search that steps over one match does not step
  over the next that lies on a byte boundary with room behind it) gives
  `PrintedInFull`. That key hashes and references are whole bytes, as `LenAssumption`
  says, is needed for the last: with an odd number of digits the reference of an FT
  would not be on a byte boundary. A failed proof of these lemmas was the reason
  to write `ClassifyShape` as the chain of tests it is in the code: the arms of
  an earlier CASE overlapped.
* **OracleTrust** (`TargetAssumption`, `CountAssumption`, `NoneAssumption`; for the
  evidence also `TransactionAssumption`, `ShapeAssumption`, `PinnedAssumption`).
  `FileStaysGolden` is a theorem of `FixtureSpec`, and `TrustBuildsFixtures` carries
  it over to the whole: the vectors of a running build are golden from the first
  record on, since only a digest that was signed is kept. The coins in the file are
  those the signatures commit to, although the explorer describes them and nothing
  compares them with anything: `WrongWordFails` shows that no version of the oracle
  computes for a wrongly described coin what any version signs for the coin.
  `TargetAssumption` takes the targets to be confirmed, but of what is returned in
  their place only that it parses and is signed by someone, over the digests of
  whichever version of the oracle (`IsSigned`); for a confirmed transaction those
  are the node's (`PublishedIsSigned`), and so `VerdictStaysRight` has two halves.

  What the scripts' passes are worth is a second invariant, `EvidenceInv`: every word
  in `evidence` still holds of the oracle on disk and the device on the desk (an
  edit empties it, a script that exits adds only what it `Shows` of the oracle it
  imported). What a word means for the seven versions rests on two lemmas that are
  each other's converse. `SignedHides`: if a version's digest of input i is over what
  was signed, its defect cannot be one that shows there (`Hidden`: the outpoint
  defect only in the first input, the prevouts defect only with one input, missed
  references only without references, repeated ones only without repetition, the
  other two never). `HiddenIsRight`: where a defect is hidden in every input, the
  version is right about the transaction. Both come from the preimages written out
  field by field (`VersionIs`, `RightSummaries`, `PushesOnce`). Then each script is
  one lemma (`VectorsExpose`, `SelfExposes`, `SamplesExpose`, `MainnetExposes`,
  `RefsExpose`), and `VouchedIsRight` puts them together: the reference tests and one
  test of whole digests leave only the right version. `EvidenceStaysSound` and
  `EvidenceStaysComplete` follow for any set `Judged` of confirmed transactions,
  `DeviceStaysVindicated` and `DiagnosisStaysRight` for any device and firmware and
  any file of the harness: they need only which fields of the device's digest
  depend on the outputs (`DeviceSigns`), not what a firmware makes of them.

  The three assumptions say what the proofs need of the transactions at hand.
  `TransactionAssumption`: the transactions pasted into the scripts, judged, or asked
  for are confirmed (inputs have outpoints of their own, coins have amounts, scripts
  end, signatures are over a node's digests); what else the explorer may return for
  check C is only signed. `ShapeAssumption`: one target has several inputs
  (`build_fixtures.py:50-70`), one sample is not the first input
  (`oracle_self_validate.py:381`), the Glyph transaction pushes a reference, and no
  other transaction in its file spends by its second input a coin of the same amount
  and script (`test_glyph_mainnet.py:29-34` pins both). Without the first two a
  pass does not exclude the outpoint and prevouts defects; without the last the Glyph
  test could pass on a transaction without references. `PinnedAssumption`: script and
  amount in the harnesses are those of the coin they name.

Induction over data. The library's induction theorems cannot be instantiated here,
but a set of numbers that is not empty has a least one, which follows from
`WFMin`; `AllNumbers` (and `Downward` for counting down) is induction for a *set*
of numbers, and that is enough for the recursive functions of `ScriptWalk`,
`GlyphPayload` and `ScriptShapes`: one lemma says that a function with the
recursive equation exists, the next are proved of it by least counterexample.

Every invariant and action property a passing run checks is proved. Only
model-checked: all liveness (`EveryRunEnds`, `EveryLookupAnswered`,
`SettledAfterExit`, `ButtonComesBack`, `SwapIsMarked`), which with `ENABLED` is
beyond the prover; and what the runs of section 6 find violated.

## 6. Where the code and its words differ

Three sentences have a run that finds the code at odds with them:

1. `index.html:354` says a mismatch means a swap; the proxy's truncation gives
   one too (`GlyphCardMismatch`).
2. `index.html:395` says the picture is verified on load, with an outline on it if
   mismatched; what is hashed are the bytes of a second request, so that a swapped
   picture whose check is served the minted file is shown without one
   (`GlyphCardTwoFetches`).
3. `find_ft_utxo.py:160` groups FT holders by reference; a holder whose key
   hash holds the digits `d0` is left out (`MCBlockScanD0`).

Three more are sentences that claim a check which the code does not contain, so
that they can be read off the definitions:

* `server.js:70` says the cache is capped and clears when full; `REVEAL_CACHE_MAX`
  is never read (`OnBlockFound` adds an entry whatever the cache holds).
* `server.js:32` has a hard cap on upstream output so that a misbehaving node cannot
  fill the memory; standard error is kept without one (`ErrData`), and on standard
  output the cap is not hard, for chunks that arrive after the kill are kept
  (`DataKept`), an overshoot proved to be at most what the pipe held.
* `build_fixtures.py:210` calls each fixture a real confirmed mainnet transaction;
  what the explorer returned is never compared with the id asked for (`FetchTarget`
  takes whatever was offered), nor a signature's key with the coin's script
  (`SignatureOk`). A consistent lie is written to the file.

Others were met while translating: `radiant_preimage_oracle.py:88,108` ask for ids in
natural hash order, while every caller passes display order and that is what works (`OracleTx`,
`GetPrevoutHash`); `spend_glyph_2in_transfer.py:106` says 3,080,000 where the
constants give 1,880,000; `index.html:330` says the sniffer must agree with a
declared type, which `Mime` does not require when the sniffer knows nothing;
`index.html:395` stands in every card that has a `loc_hash`, also where the check
meets an error page, never ends, or is never started because the payload has no
valid CID (`StartCheck`, `Checkable`).

Of the validation scripts: `oracle_self_validate.py:473` says the oracle "is now
trusted", which after samples passed over (`CheckC`; `ok_count` of one suffices)
holds only as far as `EvidenceIsSound` says. Check B is documented as computed
"from first principles" (`:175`), but takes the encoders and hashes from the
oracle and never calls `compute_radiant_sighash` (`ManualPreimage`,
`ComputeOraclePreimage`). `test_device_plain_sign.py:99` concludes "Test harness
has a bug, not the walker" from its own failure, which a firmware without
`hashOutputHashes`, or a stale previous transaction, causes as well.
`test_glyph_mainnet.py` would pass with any two-input transaction in its file
whose second input spends a coin of the constants' amount and script, which
`ShapeAssumption` excludes.

## 7. Not modelled

* Widths. Values near 2^32 or 2^64 are beyond TLC's integers; amounts are
  natural numbers and a negative one is what the packers raise on.
* Hash collisions: hashes are injective constructors.
* Lost or repeated answers of the device: an exchange that fails raises, which
  is `Abandon`, before or after the device has acted on it.
* Base58 and key derivation: arithmetic on large numbers.
* The block scan's chain does not reorganise while it scans.
* Defects of the oracle other than the six of `OracleVersions`, and two at once.
* What the explorer returns that does not parse, or whose signatures are over nothing
  any of the seven versions computes: each ends the script that reads it. That a
  transaction asked for and returned is the one meant (an id is a hash) is taken as
  equality.
* The browser's cache: `/ipfs` answers with `max-age=86400`, so that the second request
  for a CID may be answered from the first. The model keeps them two requests, which may be served the same.
* `extractGlyphCbor` on a scriptSig cut off inside a push: what it is given comes
  from a transaction the node has accepted.
* Routes `/height`, `/tx`, `/scan/*`: they pass one `rpc()` result on.
* The duration of the CBOR decoder (third party) and the watchdog around it.
* The text of cards, summaries and reports.

## 8. Plan

Done, in this order: `Preimage`, `SpendSession` with `ApprovedSpend`, its
invariant and proofs; `RevealService`, `RpcCall` and proofs; `ScriptWalk`,
`ResultsPanel`, `GlyphCard`, `FixturePipeline`, `ScriptShapes`, `BlockScan`;
then `LookupService` and the refinement, `Device` split off, `OracleVersions` and
`OracleTrust`, `GlyphPayload`, and the rest of `find_ft_utxo.py`; then
the proofs of `GlyphCard`, `ResultsPanel`, the golden file and the refinement of
`LookupService`; then those of `ScriptWalk`, `GlyphPayload`, `BlockScan` with
`ScriptShapes`, the rest of `ResultsPanel`, the evidence of `OracleTrust`, and
`ServedSoonAfterReorg`.

Next proofs: that `RpcCall` implements `NodeAnswers`, once that is stated as a
refinement; consequences of the two abstract specifications for their own states.

Possible models: `/scan/multi` with the node's one-scan-at-a-time rule, composed
with the address scan of `ResultsPanel`; `RpcCall` shown to implement
`NodeAnswers`.
