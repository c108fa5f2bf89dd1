------------------------------ MODULE BlockScan ------------------------------
(***************************************************************************)
(* scripts/find_ft_utxo.py.  scan_recent goes from the tip down, one block *)
(* at a time, counting outputs by shape and FT holders by reference, and   *)
(* reports the counts, the variants of the FT template it met and one      *)
(* example of each shape.  A getblock that fails skips the block; a        *)
(* getblockhash that fails ends the scan.  With --tx, scan_tx reports the  *)
(* outputs of one transaction instead.                                     *)
(***************************************************************************)
EXTENDS ScriptShapes, FiniteSets

CONSTANTS
  Scripts,    \* the locking scripts outputs may carry
  Back,       \* --back
  MaxOutputs  \* bound: outputs of all blocks together

ASSUME BackAssumption == Back \in Nat \ {0} /\ MaxOutputs \in Nat
ASSUME ScriptsAssumption == Scripts \subseteq Seq(Digit)

VARIABLES
  chain,     \* height -> the outputs of the block, one block for every height
  pc,        \* "scan" or "tx", "reported", "inspected" or "raised"
  h,         \* the loop variable, counted down from the tip
  scanned,   \* blocks read
  shapeCounts,
  shapeExamples,  \* shape -> the first script of it, <<>> if there is none
  ftVariants,     \* the FT templates met: prefix, middle and suffix
  ftRefCounts,
  printed    \* the scripts reported with their structure

counters == <<shapeCounts, shapeExamples, ftVariants, ftRefCounts>>
vars == <<chain, pc, h, scanned, counters, printed>>

Tip == Len(chain)
Refs == {FtTemplateRef(s) : s \in Scripts} \cup {Classify(s).ref : s \in Scripts}
Shapes == {ClassifyShape(s) : s \in Scripts}

\* The outputs of all blocks, cut into blocks.
Init ==
  /\ \E outs \in UNION {[1 .. n -> Scripts] : n \in 0 .. MaxOutputs} :
       \E cut \in [0 .. Back -> 0 .. Len(outs)] :
         /\ \A b \in 1 .. Back : cut[b - 1] <= cut[b]
         /\ chain = [b \in 1 .. Back |-> SubSeq(outs, cut[b - 1] + 1, cut[b])]
  /\ pc \in {"scan", "tx"}
  /\ h = Tip
  /\ scanned = {}
  /\ shapeCounts = [shape \in Shapes |-> 0]
  /\ shapeExamples = [shape \in Shapes |-> <<>>]
  /\ ftVariants = {}
  /\ ftRefCounts = [ref \in Refs |-> 0]
  /\ printed = {}

\* A 75-byte output of the suffix shape goes into the FT statistics.
FtSample(s) == ClassifyShape(s) = "p2pkh-then-glyph-suffix" /\ Len(s) = FtLen

Glyphs(block) == {k \in DOMAIN block : HasGlyphDigits(block[k])}
Samples(block) == {k \in Glyphs(block) : FtSample(block[k])}
OfShape(block, shape) == {k \in Glyphs(block) : ClassifyShape(block[k]) = shape}

Variant(s) ==
  LET t == FtTemplateBytes(s) IN <<t.prefix, t.middle, t.suffix>>

NotLast == h > Tip - Back + 1

\* for h in range(tip, tip - back, -1); after it the report, with the examples.
Continue ==
  /\ h' = h - 1
  /\ pc' = IF NotLast THEN "scan" ELSE "reported"
  /\ printed' = IF NotLast THEN {} ELSE {shapeExamples'[shape] : shape \in Shapes} \ {<<>>}
  /\ UNCHANGED chain

Tally(before, matching) == before + Cardinality(matching)

ScanBlock ==
  /\ pc = "scan"
  /\ LET block == chain[h] IN
     /\ shapeCounts' = [shape \in Shapes |-> Tally(shapeCounts[shape], OfShape(block, shape))]
     /\ shapeExamples' = [shape \in Shapes |->
          IF shapeExamples[shape] = <<>> /\ OfShape(block, shape) # {}
          THEN block[First(OfShape(block, shape))] ELSE shapeExamples[shape]]
     /\ ftVariants' = ftVariants \cup {Variant(block[k]) : k \in Samples(block)}
     /\ ftRefCounts' = [ref \in Refs |-> Tally(ftRefCounts[ref],
                          {k \in Samples(block) : FtTemplateBytes(block[k]).ref = ref})]
  /\ scanned' = scanned \cup {h}
  /\ Continue

\* getblock fails: "skip".
SkipBlock ==
  /\ pc = "scan"
  /\ UNCHANGED <<scanned, counters>>
  /\ Continue

\* scan_tx: every output with the digits of a reference opcode is reported.
ScanTx ==
  /\ pc = "tx"
  /\ pc' = "inspected"
  /\ printed' = {chain[h][k] : k \in Glyphs(chain[h])}
  /\ UNCHANGED <<chain, h, scanned, counters>>

\* getblockhash or getrawtransaction fails: the exception leaves the loop and
\* nothing is reported.
CallFails ==
  /\ pc \in {"scan", "tx"}
  /\ pc' = "raised"
  /\ UNCHANGED <<chain, h, scanned, counters, printed>>

Next == ScanBlock \/ SkipBlock \/ ScanTx \/ CallFails

Spec == Init /\ [][Next]_vars

-----------------------------------------------------------------------------
\* The outputs of the blocks read, each with its block and its place there.
OutputsRead == UNION {{b} \X DOMAIN chain[b] : b \in scanned}
ScriptOf(o) == chain[o[1]][o[2]]

\* The FT outputs among them, as the wallet's classifier knows them.
Holders(ref) ==
  {o \in OutputsRead : LET c == Classify(ScriptOf(o)) IN c.type = "ft" /\ c.ref = ref}

\* "Count outputs by shape, group FT-holder UTXOs by ref": every reference is
\* counted once for each FT output of the blocks read, whichever were skipped.
FtHoldersGrouped == \A ref \in Refs : ftRefCounts[ref] = Cardinality(Holders(ref))

\* As long as the report shows the one expected variant of the template, the
\* counts by reference are those of the wallet's classifier, whichever blocks were
\* skipped, but for the holders whose key hash holds the digits d0.
MissesOnlyD0 ==
  ftVariants \subseteq {<<P2PKH_HEAD, FT_MID, FT_TAIL>>} =>
    \A ref \in Refs :
      ftRefCounts[ref] =
        Cardinality({o \in Holders(ref) : Find(Classify(ScriptOf(o)).pkh, D0) = -1})

\* What the classifier takes for a token is, digit for digit, the script its
\* builders make for that key hash and reference: what a scan for the one finds
\* is classified as the other, and no lookalike is.
ClassifiedIsRebuilt ==
  \A b \in scanned : \A k \in DOMAIN chain[b] :
    LET s == chain[b][k]
        c == Classify(s)
    IN  /\ c.type = "p2pkh" => s = BuildP2pkh(c.pkh)
        /\ c.type = "nft" => s = BuildNftSpk(c.pkh, c.ref)
        /\ c.type = "ft" => s = BuildFtSpk(c.pkh, c.ref)

\* The structure printed for a token lists its own reference at its own place,
\* whatever digits the key hash and the reference hold; --tx prints every token
\* of the transaction, and a scan an example of every shape it counted.
TokensArePrinted ==
  /\ \A s \in printed :
       LET c == Classify(s) IN
       /\ c.type = "nft" => [offset |-> 0, ref |-> c.ref] \in Occurrences(s, D8)
       /\ c.type = "ft" =>
            [offset |-> (12 + PkhLen) \div 2, ref |-> c.ref] \in Occurrences(s, D0)
  /\ pc = "inspected" =>
       \A k \in DOMAIN chain[h] :
         Classify(chain[h][k]).type \in {"ft", "nft"} => chain[h][k] \in printed
  /\ pc = "reported" =>
       {ClassifyShape(s) : s \in printed} = {shape \in Shapes : shapeCounts[shape] > 0}
=============================================================================
