---------------------------- MODULE OracleTrust -----------------------------
(***************************************************************************)
(* The chain of trust of scripts/: the oracle is believed because          *)
(* oracle_self_validate.py, test_oracle_against_vectors.py,                *)
(* test_push_refs.py and test_glyph_mainnet.py pass, and a device because  *)
(* test_device_plain_sign.py and test_device_glyph_sign.py find its        *)
(* signatures to be over the oracle's digests.                             *)
(*                                                                         *)
(* One terminal runs these scripts one after the other, while another may  *)
(* build the fixtures and an editor may change the oracle.  A script's     *)
(* imports and its reading of the fixtures are at its start, its answer is *)
(* at its end; in between it computes, and asks the explorer or a device.  *)
(*                                                                         *)
(* The explorer is not trusted with the coins, but with the transactions   *)
(* it has to be: what a script says of an oracle is evidence only if it    *)
(* was said of the transaction asked for, which no script can tell.        *)
(***************************************************************************)
EXTENDS FixturePipeline, Device

CONSTANTS
  Funding,        \* the mainnet transaction of check A
  HandTxs,        \* the transactions of check B, with the coin each spends
  Consolidation,  \* the mainnet transaction of check C ...
  OfferedSamples, \* ... what the explorer may return for it ...
  SampleIndices,  \* ... and the inputs that are looked at
  GlyphTx,        \* the transaction test_glyph_mainnet.py means to read ...
  GlyphFiles,     \* ... and what /tmp/glyph_raw.hex may really hold
  Pinned,         \* the harnesses' constants: PREV_TXID ... PATH
  FakeRef,
  Benches         \* a device on the desk, and what /tmp/regtx_raw.hex holds

Scripts == {"vectors", "self", "refs", "mainnet", "glyph", "plain"}
Harnesses == {"glyph", "plain"}

\* No script is none of the scripts.
ASSUME NoneAssumption == None \notin Scripts

VARIABLES
  check,     \* the script running, or the one that ran last
  evidence,  \* history: what the scripts have said of the oracle now on disk
  bench

vars == <<oracle, edits, file, builds, build, check, evidence, bench>>

NoCheck == [script |-> None, oracle |-> None, vectors |-> <<>>, result |-> "none"]

Init ==
  /\ FixtureInit
  /\ check = NoCheck
  /\ evidence = {}
  /\ bench \in Benches

(***************************************************************************)
(* test_oracle_against_vectors.py.                                         *)
(***************************************************************************)
\* An input passes if the oracle agrees with the record and the signature with
\* the oracle.
InputPass(v, t, i, rec) ==
  LET actual == VersionSighash(v, t, i, rec.coin) IN
  actual = rec.expected /\ SignatureOk(actual, t, i)

VectorPass(v, vector) ==
  \A i \in DOMAIN vector.inputs : InputPass(v, vector.tx, i, vector.inputs[i])

\* Mutant: one vector that passes is enough.
VectorsPassOne(v, vectors) == \E k \in DOMAIN vectors : VectorPass(v, vectors[k])

VectorsPass(v, vectors) == \A k \in DOMAIN vectors : VectorPass(v, vectors[k])

(***************************************************************************)
(* oracle_self_validate.py.                                                *)
(***************************************************************************)
\* A transaction pasted into the script, with the coin its first input spends.
CheckA == [v \in Versions |->
             VersionSighash(v, Funding, 1, Funding.coins[1]) = Signed(Funding, 1)]

\* Check B never calls compute_radiant_sighash: it puts the imported partial
\* hashes together by itself ...
ComputeOraclePreimage(v, tx, script, value) ==
  VersionPreimage(IF v \in AssemblyDefects THEN "right" ELSE v, tx, 1, script, value)

\* ... and compares that with hashes written out by hand, but encoded with the
\* imported encoders.
ManualPreimage(v, tx, script, value) ==
  VersionPreimage(IF v = "encoder" THEN v ELSE "right", tx, 1, script, value)

CheckB == [v \in Versions |->
  \A h \in HandTxs :
    ComputeOraclePreimage(v, h.tx, h.coin.script_pubkey, h.coin.value)
      = ManualPreimage(v, h.tx, h.coin.script_pubkey, h.coin.value)]

Sampled(t) == SampleIndices \cap DOMAIN t.raw.inputs

SampleOk(v, t, i, word) ==
  SignatureOk(VersionSighash(v, t, i, Described(t.coins[i], word)), t, i)

\* Mutant: a signature that does not verify is passed over like one that cannot
\* be fetched.
CheckCLenient(v, t, said) ==
  \E i \in Sampled(t) : said[i] # "none" /\ SampleOk(v, t, i, said[i])

\* A sample whose coin cannot be fetched is passed over; one is enough.
CheckC(v, t, said) ==
  /\ \E i \in Sampled(t) : said[i] # "none"
  /\ \A i \in Sampled(t) : said[i] # "none" => SampleOk(v, t, i, said[i])

\* All three run whatever the others find.
SelfPass(v, t, said) == CheckA[v] /\ CheckB[v] /\ CheckC(v, t, said)

(***************************************************************************)
(* test_push_refs.py: scripts with what their references must come to.     *)
(***************************************************************************)
Push(r) == [op |-> "OP_PUSHINPUTREF", ref |-> r]
Singleton(r) == [op |-> "OP_PUSHINPUTREFSINGLETON", ref |-> r]
Require(r) == [op |-> "OP_REQUIREINPUTREF", ref |-> r]
Disallow(r) == [op |-> "OP_DISALLOWPUSHINPUTREF", ref |-> r]

\* Mutant: no script of the test pushes a reference twice.
RefCasesDistinct ==
  {[ops |-> <<>>, total |-> 0, refs |-> {}],
   [ops |-> <<Push("a")>>, total |-> 1, refs |-> {"a"}],
   [ops |-> <<Push("high"), Push("low"), Singleton("mid")>>, total |-> 3,
    refs |-> {"high", "low", "mid"}],
   [ops |-> <<Require("r")>>, total |-> 0, refs |-> {}],
   [ops |-> <<Push("p"), Singleton("s"), Require("r"), Disallow("d")>>, total |-> 2,
    refs |-> {"p", "s"}]}

RefCases ==
  {[ops |-> <<>>, total |-> 0, refs |-> {}],
   [ops |-> <<Push("a")>>, total |-> 1, refs |-> {"a"}],
   [ops |-> <<Push("high"), Push("low"), Singleton("mid"), Push("high")>>, total |-> 3,
    refs |-> {"high", "low", "mid"}],
   [ops |-> <<Require("r")>>, total |-> 0, refs |-> {}],
   [ops |-> <<Push("p"), Singleton("s"), Require("r"), Disallow("d")>>, total |-> 2,
    refs |-> {"p", "s"}]}

ConflictCase == [ops |-> <<Push("x"), Disallow("x")>>]

RefsPass == [v \in Versions |->
  /\ \A c \in RefCases :
       LET s == VersionSummary(v, [value |-> 0, script_pubkey |-> c]) IN
       s.totalRefs = c.total /\ s.refsHash = RefsHash(c.refs)
  /\ WalkRaises(ConflictCase)]

(***************************************************************************)
(* test_glyph_mainnet.py: the second input of one transaction, the file    *)
(* read without a check and the coin from the script's constants.          *)
(***************************************************************************)
MainnetPass(v, t) ==
  /\ t # Absent /\ 2 \in DOMAIN t.raw.inputs
  /\ VersionSighash(v, t, 2, GlyphTx.coins[2]) = Signed(t, 2)

(***************************************************************************)
(* The device harnesses: one input, one output back to the same key.       *)
(***************************************************************************)
HarnessOutputs(kind) ==
  <<[value |-> Pinned.outValue,
     script_pubkey |-> [ops |-> IF kind = "glyph" THEN <<Push(FakeRef)>> ELSE <<>>,
                        pkh |-> Pinned.spk.pkh]]>>

\* Mutant: the oracle is asked about the plain output in both harnesses.
OracleOutputsPlain(kind) == HarnessOutputs("plain")

OracleOutputs(kind) == HarnessOutputs(kind)

HarnessTx(kind) ==
  [version |-> 2,
   inputs |-> <<[prev_txid |-> Display(Pinned.txid), prev_vout |-> Pinned.vout,
                 script_sig |-> <<>>, sequence |-> SEQUENCE]>>,
   outputs |-> OracleOutputs(kind),
   locktime |-> 0]

HarnessDigest(v, kind) ==
  Sha256d(VersionPreimage(v, HarnessTx(kind), 1, Pinned.spk, Pinned.value))

\* getTrustedInput on whatever transaction the file holds, then the exchanges of
\* a spend: start, finalizeInput with PATH as the change path, select, sign.
SignedByDevice(b, kind) ==
  LET ti == TrustedInput(b.prev, Pinned.vout) IN
  DeviceDigest([NewTransaction(FreshDevice(b.seed, b.firmware), <<ti>>) EXCEPT
                  !.change = Pinned.path,
                  !.streamed = SerializeOutputs(HarnessOutputs(kind)),
                  !.final = TRUE,
                  !.current = <<[ti |-> ti, code |-> Pinned.spk]>>])

\* Mutant: the address is not compared with the expected one.
AddressOkAny(b, kind) == TRUE

\* Only the Glyph harness checks whose device it talks to.
AddressOk(b, kind) ==
  kind = "glyph" => Hash160(PubKey(b.seed, Pinned.path)) = Pinned.spk.pkh

\* The harness gets as far as a verdict.
Answers(b, kind) == AddressOk(b, kind) /\ Pinned.vout \in DOMAIN Chain[b.prev]

\* The key is the device's own, and the first byte of its signature is forced to
\* 0x30: what remains to differ is the digest.
HarnessPass(v, b, kind) == SignedByDevice(b, kind) = HarnessDigest(v, kind)

(***************************************************************************)
(* The terminal.                                                           *)
(***************************************************************************)
Running == check.script # None /\ check.result = "none"

\* Without a whole fixture file the vector test is over at once.
Start(script) ==
  /\ ~ Running
  /\ LET unreadable == script = "vectors" /\ file \in {Absent, Torn} IN
     check' = [script |-> script, oracle |-> oracle,
               vectors |-> IF script = "vectors" /\ ~ unreadable THEN file ELSE <<>>,
               result |-> IF unreadable THEN "fail" ELSE "none"]
  /\ UNCHANGED <<fixtureVars, evidence, bench>>

\* The script exits; its words are evidence for the oracle it imported.
Exits(pass, said) ==
  /\ check' = [check EXCEPT !.result = IF pass THEN "pass" ELSE "fail"]
  /\ evidence' = IF check.oracle = oracle THEN evidence \cup said ELSE evidence
  /\ UNCHANGED <<fixtureVars, bench>>

Says(pass, words) == IF pass THEN words ELSE {}

\* The file holds the transactions that were asked for.
AsAsked(vectors) ==
  Vectors(vectors) /\ \A k \in DOMAIN Targets : vectors[k].tx = Targets[k]

\* What passes counts as evidence when it was about the transactions asked for.
EndVectors ==
  /\ Running /\ check.script = "vectors"
  /\ LET pass == VectorsPass(check.oracle, check.vectors) IN
     Exits(pass, Says(pass /\ AsAsked(check.vectors), {"vectors"}))

\* The explorer returns t for check C; "samples" when that was the transaction
\* asked for and no sample of it was passed over.
EndSelf(t, said) ==
  /\ Running /\ check.script = "self"
  /\ LET pass == SelfPass(check.oracle, t, said)
         all  == t = Consolidation /\ \A i \in Sampled(t) : said[i] # "none"
     IN  Exits(pass, Says(pass, {"self"}) \cup Says(pass /\ all, {"samples"}))

EndRefs ==
  /\ Running /\ check.script = "refs"
  /\ LET pass == RefsPass[check.oracle] IN Exits(pass, Says(pass, {"refs"}))

EndMainnet(t) ==
  /\ Running /\ check.script = "mainnet"
  /\ LET pass == MainnetPass(check.oracle, t) IN Exits(pass, Says(pass, {"mainnet"}))

EndHarness(kind) ==
  /\ Running /\ check.script = kind
  /\ LET answers == Answers(bench, kind)
         pass    == answers /\ HarnessPass(check.oracle, bench, kind)
     IN  Exits(pass, Says(pass, {kind}) \cup
                        Says(kind = "glyph" /\ answers /\ ~ pass, {"glyph failed"}))

\* A fetch of the transaction itself fails, an exchange raises, the user rejects.
Abort ==
  /\ Running
  /\ check' = [check EXCEPT !.result = "aborted"]
  /\ UNCHANGED <<fixtureVars, evidence, bench>>

Edit ==
  /\ EditOracle
  /\ evidence' = {}
  /\ UNCHANGED <<check, bench>>

Next ==
  \/ Edit
  \/ Build /\ UNCHANGED <<check, evidence, bench>>
  \/ \E script \in Scripts : Start(script)
  \/ EndVectors
  \/ \E t \in OfferedSamples, said \in [SampleIndices -> ExplorerWords \cup {"none"}] :
       EndSelf(t, said)
  \/ EndRefs
  \/ \E t \in GlyphFiles : EndMainnet(t)
  \/ \E kind \in Harnesses : EndHarness(kind)
  \/ Abort

Spec == Init /\ [][Next]_vars

-----------------------------------------------------------------------------
Words ==
  {"vectors", "self", "samples", "refs", "mainnet", "glyph", "glyph failed", "plain"}

\* Type invariant.
TypeOK ==
  /\ FixtureTypeOK
  /\ check.script \in Scripts \cup {None}
  /\ check.oracle \in Versions \cup {None}
  /\ check.result \in {"none", "pass", "fail", "aborted"}
  /\ evidence \subseteq Words
  /\ bench \in Benches

\* Whenever there is a whole file to read, the vector test passes exactly when the
\* oracle it imported computes what the signatures in it are over, and a file
\* rewritten while it runs changes nothing; where the file holds the transactions
\* asked for, it tells a drifted oracle from one that is right about every target.
VerdictIsRight ==
  check.script = "vectors" /\ check.result \in {"pass", "fail"} =>
    LET passed == check.result = "pass" IN
    /\ passed = /\ Vectors(check.vectors)
                /\ \A k \in DOMAIN Targets : Agrees(check.oracle, check.vectors[k].tx)
    /\ AsAsked(check.vectors) =>
         passed = \A k \in DOMAIN Targets : RightAbout(check.oracle, Targets[k])

-----------------------------------------------------------------------------
(***************************************************************************)
(* What the evidence is worth, for transactions of every shape at hand.    *)
(***************************************************************************)
CONSTANT Judged

HasRefs(t) == \E k \in DOMAIN t.raw.outputs : PushCount(t.raw.outputs[k].script_pubkey) > 0
Repeats(t) ==
  \E k \in DOMAIN t.raw.outputs :
    LET s == t.raw.outputs[k].script_pubkey IN PushCount(s) > Cardinality(PushRefs(s))

Rightly == [v \in Versions |-> {t \in Judged : RightAbout(v, t)}]

RightAboutAll(v, txs) == txs \subseteq Rightly[v]

\* The transactions pasted into the scripts, meant by them, or in a file of theirs,
\* and those judged.
Transactions == {Funding, Consolidation} \cup (GlyphFiles \ {Absent}) \cup Judged

ASSUME TransactionAssumption ==
  /\ \A t \in Transactions : IsConfirmed(t)
  /\ Consolidation \in OfferedSamples /\ \A t \in OfferedSamples : IsSigned(t)

\* The shapes the scripts were written to cover: a target of several inputs, a
\* sample that is not the first input, and a Glyph transaction that pushes a
\* reference and whose second coin no other file's second coin equals.
ASSUME ShapeAssumption ==
  /\ \E k \in DOMAIN Targets : Len(Targets[k].raw.inputs) > 1
  /\ Sampled(Consolidation) \ {1} # {}
  /\ HasRefs(GlyphTx) /\ GlyphTx.coins[2].value \in Nat
  /\ \A t \in GlyphFiles \ {Absent, GlyphTx} :
       2 \in DOMAIN t.raw.inputs =>
         \/ t.coins[2].value # GlyphTx.coins[2].value
         \/ t.coins[2].script_pubkey # GlyphTx.coins[2].script_pubkey

\* The constants of the harnesses describe the coin they name.
ASSUME PinnedAssumption ==
  LET coin == Chain[Pinned.txid][Pinned.vout] IN
  Pinned.spk = coin.script_pubkey /\ Pinned.value = coin.value

\* Where the explorer returned what it was asked for, the golden vectors, and the
\* self-validation with every sample reached, show the oracle on disk right about
\* all transactions without references.  "ALL GREEN" with samples passed over, or
\* taken from another transaction, shows it only about those with one input; the
\* mainnet Glyph transaction about all that push no reference twice.
EvidenceIsSound ==
  /\ evidence \cap {"vectors", "samples"} # {} =>
       RightAboutAll(oracle, {t \in Judged : ~ HasRefs(t)})
  /\ "self" \in evidence =>
       RightAboutAll(oracle, {t \in Judged : ~ HasRefs(t) /\ Len(t.raw.inputs) = 1})
  /\ "mainnet" \in evidence => RightAboutAll(oracle, {t \in Judged : ~ Repeats(t)})

\* The oracle on disk is vouched for, references included.
Vouched == "refs" \in evidence /\ evidence \cap {"vectors", "samples", "mainnet"} # {}

\* The push-ref tests and one test of whole digests, of the transactions meant,
\* together leave no defect.
EvidenceIsComplete == Vouched => RightAboutAll(oracle, Judged)

\* The transaction of a harness as it is serialized, its id in wire order.
HarnessRaw(kind) ==
  LET tx == HarnessTx(kind)
      id == Reversed(tx.inputs[1].prev_txid)
  IN  [tx EXCEPT !.inputs = <<[tx.inputs[1] EXCEPT !.prev_txid = id]>>]

\* "DEVICE SIGNATURE VERIFIES AGAINST ORACLE SIGHASH": with an oracle vouched for,
\* a node accepts the signature for the coin it spends, by whatever transaction
\* the file of the harness described that coin.
DeviceIsVindicated ==
  "glyph" \in evidence /\ Vouched =>
    LET coin == Chain[Pinned.txid][Pinned.vout] IN
    /\ Hash160(PubKey(bench.seed, Pinned.path)) = coin.script_pubkey.pkh
    /\ SignedByDevice(bench, "glyph") = ConsensusSighash(HarnessRaw("glyph"), 1, coin)

\* "If it succeeds, the bug is in the opcode walker": where the Glyph harness
\* fails and the plain one passes, with an oracle vouched for, the device differs
\* from a node in hashOutputHashes of the Glyph output and in nothing else.
DiagnosisIsRight ==
  {"glyph failed", "plain"} \subseteq evidence /\ Vouched =>
    LET signed   == SignedByDevice(bench, "glyph").sha256d
        intended == HarnessDigest("right", "glyph").sha256d
    IN  {f \in DOMAIN intended : signed[f] # intended[f]} = {"hashOutputHashes"}
=============================================================================
