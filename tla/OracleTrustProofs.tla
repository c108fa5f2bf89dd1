-------------------------- MODULE OracleTrustProofs -------------------------
(***************************************************************************)
(* The chain of trust, for all transactions, builds, edits and answers of  *)
(* the explorer: what is in the fixture file was signed, and what a script *)
(* that passes shows of the oracle and of the device.                      *)
(***************************************************************************)
EXTENDS OracleTrust, FiniteSetTheorems, FunctionTheorems, TLAPS

IsSeq(s) == \E S : s \in Seq(S)

\* What Append returns.
LEMMA Appended ==
  ASSUME NEW s, IsSeq(s), NEW e
  PROVE  /\ IsSeq(Append(s, e)) /\ Len(s) \in Nat /\ Len(Append(s, e)) = Len(s) + 1
         /\ \A k \in 1 .. Len(s) : Append(s, e)[k] = s[k]
         /\ Append(s, e)[Len(s) + 1] = e
<1>1. PICK S : s \in Seq(S)
  BY DEF IsSeq
<1>. DEFINE T == S \cup {e}
<1>2. s \in Seq(T) /\ e \in T
  BY <1>1
<1>. HIDE DEF T
<1>3. Append(s, e) \in Seq(T)
  BY <1>2
<1>4. /\ Len(s) \in Nat /\ Len(Append(s, e)) = Len(s) + 1
      /\ \A k \in 1 .. Len(s) : Append(s, e)[k] = s[k]
      /\ Append(s, e)[Len(s) + 1] = e
  BY <1>2
<1>. QED  BY <1>3, <1>4 DEF IsSeq

\* The coin as a version writes it into its preimage.
LEMMA WrittenCoin ==
  ASSUME NEW v \in Versions, NEW tx, NEW i, NEW script, NEW value
  PROVE  LET P == VersionPreimage(v, tx, i, script, value) IN
         /\ P.value = IF v = "encoder" THEN Garbled(value) ELSE value
         /\ P.scriptCode = script
<1>. DEFINE right == ComputeRadiantSighash(tx, i, script, value, SIGHASH_ALL_FORKID).sha256d
<1>1. right.value = value /\ right.scriptCode = script
      /\ {"value", "scriptCode", "hashOutputHashes", "hashOutputs", "txid", "vout", "hashPrevouts"}
           \subseteq DOMAIN right
  BY DEF ComputeRadiantSighash, Sha256d
<1>. HIDE DEF right
<1>2. CASE v = "encoder"
  <2>. DEFINE summaries == Sha256d([k \in DOMAIN tx.outputs |-> VersionSummary(v, tx.outputs[k])])
              garbled == [k \in DOMAIN tx.outputs |->
                            [tx.outputs[k] EXCEPT !.value = Garbled(@)]]
              outs == Sha256d(SerializeOutputs(garbled))
  <2>1. VersionPreimage(v, tx, i, script, value)
          = [right EXCEPT !.value = Garbled(@), !.hashOutputHashes = summaries,
                          !.hashOutputs = outs]
    BY <1>2, Zenon DEF VersionPreimage, right
  <2>. HIDE DEF summaries, outs
  <2>. QED  BY <1>1, <1>2, <2>1
<1>3. CASE v # "encoder"
  BY <1>1, <1>3 DEF VersionPreimage, right
<1>. QED  BY <1>2, <1>3

-----------------------------------------------------------------------------
(***************************************************************************)
(* The preimages of the versions, field by field.                          *)
(***************************************************************************)
FieldNames ==
  {"version", "hashPrevouts", "hashSequence", "txid", "vout", "scriptCode", "value", "sequence",
   "hashOutputHashes", "hashOutputs", "locktime", "sighashType"}

\* The outpoints of an input, and of the inputs 1 to n, as they are hashed.
WirePoint(raw, i) == [txid |-> raw.inputs[i].prev_txid, vout |-> raw.inputs[i].prev_vout]
WirePoints(raw, n) == [k \in 1 .. n |-> WirePoint(raw, k)]

VersionSummaries(v, outs) == [k \in DOMAIN outs |-> VersionSummary(v, outs[k])]

\* Reversed twice, an id is as it was.
LEMMA ReversedTwice ==
  ASSUME NEW b, b \in [id : {b.id}, order : {"wire", "display"}]
  PROVE  Reversed(Reversed(b)) = b
<1>1. b = [id |-> b.id, order |-> b.order] /\ b.order \in {"wire", "display"}
  OBVIOUS
<1>2. CASE b.order = "wire"
  BY <1>1, <1>2 DEF Reversed
<1>3. CASE b.order = "display"
  BY <1>1, <1>3 DEF Reversed
<1>. QED  BY <1>1, <1>2, <1>3

\* The parsed transaction has the serialized one's fields.
LEMMA Parsed ==
  ASSUME NEW t, IsConfirmed(t)
  PROVE  LET tx == ParseTransaction(t.raw) IN
         /\ tx.version = t.raw.version /\ tx.outputs = t.raw.outputs
         /\ tx.locktime = t.raw.locktime
         /\ DOMAIN tx = {"version", "inputs", "outputs", "locktime"}
         /\ DOMAIN tx.inputs = DOMAIN t.raw.inputs
         /\ \A i \in DOMAIN t.raw.inputs :
              /\ Reversed(tx.inputs[i].prev_txid) = t.raw.inputs[i].prev_txid
              /\ tx.inputs[i].prev_vout = t.raw.inputs[i].prev_vout
              /\ tx.inputs[i].sequence = t.raw.inputs[i].sequence
<1>. DEFINE raw == t.raw
            tx == ParseTransaction(raw)
            ins == [k \in DOMAIN raw.inputs |->
                      [raw.inputs[k] EXCEPT !.prev_txid = Reversed(raw.inputs[k].prev_txid)]]
<1>1. DOMAIN raw = {"version", "inputs", "outputs", "locktime"}
  BY DEF IsConfirmed, IsSigned
<1>2. tx = [raw EXCEPT !.inputs = ins]
  BY DEF ParseTransaction
<1>3. ASSUME NEW i \in DOMAIN raw.inputs
      PROVE  /\ Reversed(ins[i].prev_txid) = raw.inputs[i].prev_txid
             /\ ins[i].prev_vout = raw.inputs[i].prev_vout
             /\ ins[i].sequence = raw.inputs[i].sequence
  <2>. DEFINE input == raw.inputs[i]
  <2>1. /\ DOMAIN input = {"prev_txid", "prev_vout", "script_sig", "sequence"}
        /\ input.prev_txid \in [id : {input.prev_txid.id}, order : {"wire", "display"}]
    BY DEF IsConfirmed, IsSigned
  <2>2. ins[i] = [input EXCEPT !.prev_txid = Reversed(input.prev_txid)]
    OBVIOUS
  <2>. HIDE DEF input, ins
  <2>3. ins[i].prev_txid = Reversed(input.prev_txid) /\ ins[i].prev_vout = input.prev_vout
        /\ ins[i].sequence = input.sequence
    BY <2>1, <2>2
  <2>4. Reversed(Reversed(input.prev_txid)) = input.prev_txid
    BY <2>1, ReversedTwice
  <2>. QED  BY <2>3, <2>4 DEF input
<1>4. DOMAIN ins = DOMAIN raw.inputs
  OBVIOUS
<1>. HIDE DEF ins, raw, tx
<1>5. /\ tx.version = raw.version /\ tx.outputs = raw.outputs /\ tx.locktime = raw.locktime
      /\ DOMAIN tx = {"version", "inputs", "outputs", "locktime"} /\ tx.inputs = ins
  BY <1>1, <1>2
<1>. QED  BY <1>3, <1>4, <1>5 DEF raw, tx

\* The right preimage, in the words of the serialized transaction.
RightPreimage(t, i, coin) ==
  [version          |-> t.raw.version,
   hashPrevouts     |-> Sha256d(WirePoints(t.raw, Len(t.raw.inputs))),
   hashSequence     |-> Sha256d([k \in DOMAIN t.raw.inputs |-> t.raw.inputs[k].sequence]),
   txid             |-> t.raw.inputs[i].prev_txid,
   vout             |-> t.raw.inputs[i].prev_vout,
   scriptCode       |-> coin.script_pubkey,
   value            |-> coin.value,
   sequence         |-> t.raw.inputs[i].sequence,
   hashOutputHashes |-> Sha256d([k \in DOMAIN t.raw.outputs |->
                                   PerOutputSummary(t.raw.outputs[k])]),
   hashOutputs      |-> Sha256d(SerializeOutputs(t.raw.outputs)),
   locktime         |-> t.raw.locktime,
   sighashType      |-> SIGHASH_ALL_FORKID]

LEMMA ConsensusIs ==
  ASSUME NEW t, IsConfirmed(t), NEW i, NEW coin
  PROVE  ConsensusSighash(t.raw, i, coin) = Sha256d(RightPreimage(t, i, coin))
<1>1. DOMAIN t.raw.inputs = 1 .. Len(t.raw.inputs)
  BY DEF IsConfirmed, IsSigned
<1>2. [k \in DOMAIN t.raw.inputs |-> [txid |-> t.raw.inputs[k].prev_txid,
                                      vout |-> t.raw.inputs[k].prev_vout]]
        = WirePoints(t.raw, Len(t.raw.inputs))
  BY <1>1 DEF WirePoints, WirePoint
<1>. QED  BY <1>2 DEF ConsensusSighash, RightPreimage

LEMMA OracleIs ==
  ASSUME NEW t, IsConfirmed(t), NEW i \in DOMAIN t.raw.inputs, NEW script, NEW value
  PROVE  ComputeRadiantSighash(ParseTransaction(t.raw), i, script, value, SIGHASH_ALL_FORKID)
           = Sha256d(RightPreimage(t, i, [script_pubkey |-> script, value |-> value]))
<1>. DEFINE raw == t.raw
            tx == ParseTransaction(raw)
<1>1. DOMAIN raw.inputs = 1 .. Len(raw.inputs)
  BY DEF IsConfirmed, IsSigned
<1>2. /\ tx.version = raw.version /\ tx.outputs = raw.outputs
      /\ tx.locktime = raw.locktime
      /\ DOMAIN tx.inputs = DOMAIN raw.inputs
      /\ \A k \in DOMAIN raw.inputs :
           /\ Reversed(tx.inputs[k].prev_txid) = raw.inputs[k].prev_txid
           /\ tx.inputs[k].prev_vout = raw.inputs[k].prev_vout
           /\ tx.inputs[k].sequence = raw.inputs[k].sequence
  BY Parsed
<1>. HIDE DEF tx
<1>3. GetPrevoutHash(tx) = Sha256d(WirePoints(raw, Len(raw.inputs)))
  BY <1>1, <1>2 DEF GetPrevoutHash, WirePoints, WirePoint
<1>4. GetSequenceHash(tx) = Sha256d([k \in DOMAIN raw.inputs |-> raw.inputs[k].sequence])
  BY <1>2 DEF GetSequenceHash
<1>5. GetOutputsHash(tx) = Sha256d(SerializeOutputs(raw.outputs))
  BY <1>2 DEF GetOutputsHash
<1>6. GetHashOutputHashes(tx)
        = Sha256d([k \in DOMAIN raw.outputs |-> PerOutputSummary(raw.outputs[k])])
  BY <1>2 DEF GetHashOutputHashes
<1>7. ComputeRadiantSighash(tx, i, script, value, SIGHASH_ALL_FORKID)
        = Sha256d(RightPreimage(t, i, [script_pubkey |-> script, value |-> value]))
  BY <1>2, <1>3, <1>4, <1>5, <1>6 DEF ComputeRadiantSighash, RightPreimage
<1>. QED  BY <1>7 DEF tx

\* The preimage of a version is the right one but for the fields of its defect.
DefectOnly(v, t, i, coin) ==
  LET R == RightPreimage(t, i, coin)
      P == VersionPreimage(v, ParseTransaction(t.raw), i, coin.script_pubkey, coin.value)
  IN  /\ v \in {"right", "refsIgnored", "refsRepeated"} =>
           P = [R EXCEPT !.hashOutputHashes = Sha256d(VersionSummaries(v, t.raw.outputs))]
      /\ v = "outpoint" => P = [R EXCEPT !.txid = t.raw.inputs[1].prev_txid,
                                        !.vout = t.raw.inputs[1].prev_vout]
      /\ v = "firstPrevout" => P = [R EXCEPT !.hashPrevouts = Sha256d(WirePoints(t.raw, 1))]
      /\ v = "omitted" => P = [R EXCEPT !.hashOutputHashes = [omitted |-> TRUE]]

LEMMA VersionIs ==
  ASSUME NEW t, IsConfirmed(t), NEW i \in DOMAIN t.raw.inputs, NEW coin, NEW v
  PROVE  DefectOnly(v, t, i, coin)
<1>. DEFINE raw == t.raw
            tx == ParseTransaction(raw)
            R == RightPreimage(t, i, coin)
            right == ComputeRadiantSighash(tx, i, coin.script_pubkey, coin.value, SIGHASH_ALL_FORKID).sha256d
            first == [tx EXCEPT !.inputs = <<@[1]>>]
<1>1. right = R
  <2>. DEFINE said == [script_pubkey |-> coin.script_pubkey, value |-> coin.value]
  <2>1. RightPreimage(t, i, said) = R
    BY DEF RightPreimage
  <2>2. ComputeRadiantSighash(tx, i, coin.script_pubkey, coin.value, SIGHASH_ALL_FORKID)
          = Sha256d(RightPreimage(t, i, said))
    BY OracleIs
  <2>3. Sha256d(RightPreimage(t, i, said)).sha256d = RightPreimage(t, i, said)
    BY DEF Sha256d
  <2>. QED  BY <2>1, <2>2, <2>3
<1>2. /\ tx.outputs = raw.outputs
      /\ DOMAIN tx = {"version", "inputs", "outputs", "locktime"}
      /\ Reversed(tx.inputs[1].prev_txid) = raw.inputs[1].prev_txid
      /\ tx.inputs[1].prev_vout = raw.inputs[1].prev_vout
  <2>1. 1 \in DOMAIN raw.inputs
    BY DEF IsConfirmed, IsSigned
  <2>. QED  BY <2>1, Parsed
<1>3. GetPrevoutHash(first) = Sha256d(WirePoints(raw, 1))
  <2>. HIDE DEF tx
  <2>1. first.inputs = <<tx.inputs[1]>>
    BY <1>2
  <2>2. DOMAIN first.inputs = 1 .. 1 /\ first.inputs[1] = tx.inputs[1]
    BY <2>1
  <2>. HIDE DEF first
  <2>. QED  BY <1>2, <2>2 DEF GetPrevoutHash, WirePoints, WirePoint
<1>4. Sha256d([k \in DOMAIN tx.outputs |-> VersionSummary(v, tx.outputs[k])])
        = Sha256d(VersionSummaries(v, raw.outputs))
  BY <1>2 DEF VersionSummaries
<1>. HIDE DEF raw, R
<1>5. CASE v \in {"right", "refsIgnored", "refsRepeated"}
  BY <1>1, <1>4, <1>5 DEF DefectOnly, VersionPreimage, R, raw
<1>6. CASE v = "outpoint"
  BY <1>1, <1>2, <1>6 DEF DefectOnly, VersionPreimage, R, raw
<1>7. CASE v = "firstPrevout"
  BY <1>1, <1>3, <1>7 DEF DefectOnly, VersionPreimage, R, raw
<1>8. CASE v = "omitted"
  BY <1>1, <1>8 DEF DefectOnly, VersionPreimage, R, raw
<1>9. CASE v \notin {"right", "refsIgnored", "refsRepeated", "outpoint", "firstPrevout", "omitted"}
  BY <1>9 DEF DefectOnly
<1>. QED  BY <1>5, <1>6, <1>7, <1>8, <1>9

\* A preimage in which a defect writes what was there is the preimage.
SameWith(R) ==
  /\ \A x : x = R.hashOutputHashes => [R EXCEPT !.hashOutputHashes = x] = R
  /\ \A x, y : x = R.txid /\ y = R.vout => [R EXCEPT !.txid = x, !.vout = y] = R
  /\ \A x : x = R.hashPrevouts => [R EXCEPT !.hashPrevouts = x] = R

LEMMA SameFields ==
  ASSUME NEW t, NEW i, NEW coin
  PROVE  DOMAIN RightPreimage(t, i, coin) = FieldNames /\ SameWith(RightPreimage(t, i, coin))
<1>. DEFINE R == RightPreimage(t, i, coin)
<1>1. DOMAIN R = FieldNames /\ R = [f \in FieldNames |-> R[f]]
  BY DEF RightPreimage, FieldNames
<1>. HIDE DEF R
<1>2. \A x : x = R.hashOutputHashes => [R EXCEPT !.hashOutputHashes = x] = R
  BY <1>1
<1>3. \A x, y : x = R.txid /\ y = R.vout => [R EXCEPT !.txid = x, !.vout = y] = R
  BY <1>1
<1>4. \A x : x = R.hashPrevouts => [R EXCEPT !.hashPrevouts = x] = R
  BY <1>1
<1>5. SameWith(R)
  BY <1>2, <1>3, <1>4 DEF SameWith
<1>. QED  BY <1>1, <1>5 DEF R

-----------------------------------------------------------------------------
(***************************************************************************)
(* Which defects a digest of a confirmed transaction exposes, and which    *)
(* transactions a version is right about in spite of its defect.           *)
(***************************************************************************)
\* How many references a script pushes, counted once or every time.
LEMMA PushesOnce ==
  ASSUME NEW s, IsFiniteSet(DOMAIN s.ops)
  PROVE  /\ IsFiniteSet(PushRefs(s))
         /\ PushCount(s) \in Nat /\ Cardinality(PushRefs(s)) \in Nat
         /\ Cardinality(PushRefs(s)) <= PushCount(s)
         /\ PushCount(s) = 0 <=> PushRefs(s) = {}
<1>. DEFINE K == {k \in DOMAIN s.ops : s.ops[k].op \in {"OP_PUSHINPUTREF", "OP_PUSHINPUTREFSINGLETON"}}
            f == [k \in K |-> s.ops[k].ref]
            R == PushRefs(s)
<1>1. IsFiniteSet(K) /\ PushCount(s) = Cardinality(K)
  <2>1. K \in SUBSET DOMAIN s.ops
    OBVIOUS
  <2>. QED  BY <2>1, FS_Subset DEF PushCount
<1>2. R = {s.ops[k].ref : k \in K}
  BY DEF PushRefs, RefsOf
<1>. HIDE DEF K, R
<1>3. f \in [K -> R] /\ \A r \in R : \E k \in K : f[k] = r
  BY <1>2
<1>. HIDE DEF f
<1>4. f \in Surjection(K, R)
  BY <1>3 DEF Surjection
<1>5. IsFiniteSet(R) /\ Cardinality(R) <= Cardinality(K)
  BY <1>1, <1>4, FS_Surjection
<1>6. Cardinality(R) \in Nat /\ Cardinality(K) \in Nat
  BY <1>1, <1>5, FS_CardinalityType
<1>7. (Cardinality(K) = 0 <=> K = {}) /\ (K = {} <=> R = {})
  BY <1>1, <1>2, FS_EmptySet
<1>. QED  BY <1>1, <1>5, <1>6, <1>7 DEF R

\* The summaries of a version that misses references or repeats them are right
\* exactly where no reference is pushed, or none twice.
LEMMA RightSummaries ==
  ASSUME NEW t, IsConfirmed(t)
  PROVE  LET S(v) == Sha256d(VersionSummaries(v, t.raw.outputs))
             R == Sha256d([k \in DOMAIN t.raw.outputs |-> PerOutputSummary(t.raw.outputs[k])])
         IN  /\ S("right") = R
             /\ S("refsIgnored") = R <=> ~ HasRefs(t)
             /\ S("refsRepeated") = R <=> ~ Repeats(t)
<1>. DEFINE outs == t.raw.outputs
            spk(k) == outs[k].script_pubkey
            P(k) == PerOutputSummary(outs[k])
            R == [k \in DOMAIN outs |-> P(k)]
            S(v) == VersionSummaries(v, outs)
<1>1. \A k \in DOMAIN outs :
        /\ IsFiniteSet(PushRefs(spk(k)))
        /\ PushCount(spk(k)) \in Nat /\ Cardinality(PushRefs(spk(k))) \in Nat
        /\ Cardinality(PushRefs(spk(k))) <= PushCount(spk(k))
        /\ PushCount(spk(k)) = 0 <=> PushRefs(spk(k)) = {}
  BY PushesOnce DEF IsConfirmed, IsSigned
<1>2. \A v : S(v) = R <=> \A k \in DOMAIN outs : VersionSummary(v, outs[k]) = P(k)
  <2>. SUFFICES ASSUME NEW v
                PROVE  S(v) = R <=> \A k \in DOMAIN outs : VersionSummary(v, outs[k]) = P(k)
    OBVIOUS
  <2>1. S(v) = [k \in DOMAIN outs |-> VersionSummary(v, outs[k])]
    BY DEF VersionSummaries
  <2>. HIDE DEF S, P
  <2>. QED  BY <2>1
<1>3. ASSUME NEW k \in DOMAIN outs
      PROVE  /\ VersionSummary("right", outs[k]) = P(k)
             /\ VersionSummary("refsIgnored", outs[k]) = P(k) <=> ~ (PushCount(spk(k)) > 0)
             /\ VersionSummary("refsRepeated", outs[k]) = P(k)
                  <=> ~ (PushCount(spk(k)) > Cardinality(PushRefs(spk(k))))
  <2>. DEFINE refs == PushRefs(spk(k))
              count == PushCount(spk(k))
              card == Cardinality(refs)
              p == P(k)
  <2>1. /\ count \in Nat /\ card \in Nat /\ card <= count /\ (count = 0 <=> refs = {})
    BY <1>1
  <2>2. /\ DOMAIN p = {"value", "scriptHash", "totalRefs", "refsHash"}
        /\ p = [f \in {"value", "scriptHash", "totalRefs", "refsHash"} |-> p[f]]
        /\ p.totalRefs = card /\ p.refsHash = RefsHash(refs)
    BY DEF PerOutputSummary
  <2>3. /\ VersionSummary("right", outs[k]) = p
        /\ VersionSummary("refsIgnored", outs[k]) = [p EXCEPT !.totalRefs = 0, !.refsHash = ZERO_32]
        /\ VersionSummary("refsRepeated", outs[k]) = [p EXCEPT !.totalRefs = count]
    BY DEF VersionSummary
  <2>4. refs = {} => card = 0 /\ RefsHash(refs) = ZERO_32
    BY FS_EmptySet DEF RefsHash
  <2>5. card = 0 => refs = {}
    <3>1. IsFiniteSet(refs)
      BY <1>1
    <3>. QED  BY <3>1, FS_EmptySet
  <2>. HIDE DEF p, refs, card, count
  <2>6. [p EXCEPT !.totalRefs = 0, !.refsHash = ZERO_32] = p <=> card = 0 /\ RefsHash(refs) = ZERO_32
    BY <2>2
  <2>7. [p EXCEPT !.totalRefs = count] = p <=> card = count
    BY <2>2
  <2>8. (card = 0 /\ RefsHash(refs) = ZERO_32) <=> ~ (count > 0)
    BY <2>1, <2>4, <2>5
  <2>9. card = count <=> ~ (count > card)
    BY <2>1
  <2>. QED  BY <2>3, <2>6, <2>7, <2>8, <2>9 DEF p, refs, card, count
<1>4. \A x, y : Sha256d(x) = Sha256d(y) <=> x = y
  BY DEF Sha256d
<1>. HIDE DEF S, R, P
<1>5. S("right") = R
  BY <1>2, <1>3
<1>6. S("refsIgnored") = R <=> ~ HasRefs(t)
  BY <1>2, <1>3 DEF HasRefs
<1>7. S("refsRepeated") = R <=> ~ Repeats(t)
  BY <1>2, <1>3 DEF Repeats
<1>. QED  BY <1>4, <1>5, <1>6, <1>7 DEF S, R, P

\* A version whose digest a signature of t is over has no defect that shows in it.
Hidden(v, t, i) ==
  /\ v # "encoder" /\ v # "omitted"
  /\ v = "outpoint" => i = 1
  /\ v = "firstPrevout" => Len(t.raw.inputs) = 1
  /\ v = "refsIgnored" => ~ HasRefs(t)
  /\ v = "refsRepeated" => ~ Repeats(t)

LEMMA SignedHides ==
  ASSUME NEW v \in Versions, NEW t, IsConfirmed(t), NEW i \in DOMAIN t.raw.inputs,
         NEW coin, coin.value \in Nat, VersionSighash(v, t, i, coin) = Signed(t, i)
  PROVE  /\ Hidden(v, t, i)
         /\ coin.value = t.coins[i].value /\ coin.script_pubkey = t.coins[i].script_pubkey
<1>. DEFINE tx == ParseTransaction(t.raw)
            P == VersionPreimage(v, tx, i, coin.script_pubkey, coin.value)
            R == RightPreimage(t, i, coin)
            W == RightPreimage(t, i, t.coins[i])
<1>0. DefectOnly(v, t, i, coin)
  BY VersionIs
<1>1. P = W
  <2>1. ConsensusSighash(t.raw, i, t.coins[i]) = Sha256d(W)
    BY ConsensusIs, Zenon
  <2>2. Sha256d(P) = Sha256d(W)
    BY <2>1 DEF VersionSighash, Signed
  <2>. HIDE DEF P, W
  <2>. QED  BY <2>2 DEF Sha256d
<1>2. /\ W.value = t.coins[i].value /\ t.coins[i].value \in Nat
      /\ W.scriptCode = t.coins[i].script_pubkey
      /\ W.txid = t.raw.inputs[i].prev_txid /\ W.vout = t.raw.inputs[i].prev_vout
      /\ W.hashPrevouts = Sha256d(WirePoints(t.raw, Len(t.raw.inputs)))
      /\ W.hashOutputHashes = Sha256d([k \in DOMAIN t.raw.outputs |-> PerOutputSummary(t.raw.outputs[k])])
  BY DEF RightPreimage, IsConfirmed, IsSigned, IsCoin
<1>3. /\ P.value = IF v = "encoder" THEN Garbled(coin.value) ELSE coin.value
      /\ P.scriptCode = coin.script_pubkey
  BY WrittenCoin
<1>4. v # "encoder" /\ coin.value = t.coins[i].value /\ coin.script_pubkey = t.coins[i].script_pubkey
  <2>1. Garbled(coin.value) \notin Nat
    BY DEF Garbled
  <2>. QED  BY <1>1, <1>2, <1>3, <2>1
<1>5. DOMAIN R = FieldNames
  BY SameFields
<1>. HIDE DEF P, R, W
<1>6. v # "omitted"
  <2>. SUFFICES ASSUME v = "omitted" PROVE FALSE
    OBVIOUS
  <2>1. P = [R EXCEPT !.hashOutputHashes = [omitted |-> TRUE]]
    BY <1>0 DEF DefectOnly, P, R
  <2>2. P.hashOutputHashes = [omitted |-> TRUE]
    BY <1>5, <2>1 DEF FieldNames
  <2>3. DOMAIN [omitted |-> TRUE] = {"omitted"}
    OBVIOUS
  <2>4. DOMAIN W.hashOutputHashes = {"sha256d"}
    BY <1>2 DEF Sha256d
  <2>. QED  BY <1>1, <2>2, <2>3, <2>4
<1>7. v = "outpoint" => i = 1
  <2>. SUFFICES ASSUME v = "outpoint", i # 1 PROVE FALSE
    OBVIOUS
  <2>1. P = [R EXCEPT !.txid = t.raw.inputs[1].prev_txid, !.vout = t.raw.inputs[1].prev_vout]
    BY <1>0 DEF DefectOnly, P, R
  <2>2. P.txid = t.raw.inputs[1].prev_txid /\ P.vout = t.raw.inputs[1].prev_vout
    BY <1>5, <2>1 DEF FieldNames
  <2>3. 1 \in DOMAIN t.raw.inputs
    BY DEF IsConfirmed, IsSigned
  <2>. QED  BY <1>1, <1>2, <2>2, <2>3 DEF IsConfirmed, IsSigned
<1>8. v = "firstPrevout" => Len(t.raw.inputs) = 1
  <2>. SUFFICES ASSUME v = "firstPrevout" PROVE Len(t.raw.inputs) = 1
    OBVIOUS
  <2>1. P = [R EXCEPT !.hashPrevouts = Sha256d(WirePoints(t.raw, 1))]
    BY <1>0 DEF DefectOnly, P, R
  <2>2. P.hashPrevouts = Sha256d(WirePoints(t.raw, 1))
    BY <1>5, <2>1 DEF FieldNames
  <2>3. WirePoints(t.raw, 1) = WirePoints(t.raw, Len(t.raw.inputs))
    BY <1>1, <1>2, <2>2 DEF Sha256d
  <2>. DEFINE n == Len(t.raw.inputs)
  <2>4. 1 .. 1 = 1 .. n
    BY <2>3 DEF WirePoints
  <2>5. n \in Nat \ {0}
    BY DEF IsConfirmed, IsSigned
  <2>. HIDE DEF n
  <2>6. n \in 1 .. n
    BY <2>5
  <2>7. n \in 1 .. 1
    BY <2>4, <2>6
  <2>8. n = 1
    BY <2>7
  <2>. QED  BY <2>8 DEF n
<1>9. ASSUME v \in {"refsIgnored", "refsRepeated"}
      PROVE  Sha256d(VersionSummaries(v, t.raw.outputs)) = W.hashOutputHashes
  <2>1. P = [R EXCEPT !.hashOutputHashes = Sha256d(VersionSummaries(v, t.raw.outputs))]
    BY <1>0, <1>9 DEF DefectOnly, P, R
  <2>2. P.hashOutputHashes = Sha256d(VersionSummaries(v, t.raw.outputs))
    BY <1>5, <2>1 DEF FieldNames
  <2>. QED  BY <1>1, <2>2
<1>10. v = "refsIgnored" => ~ HasRefs(t)
  BY <1>2, <1>9, RightSummaries
<1>11. v = "refsRepeated" => ~ Repeats(t)
  BY <1>2, <1>9, RightSummaries
<1>. QED  BY <1>4, <1>6, <1>7, <1>8, <1>10, <1>11 DEF Hidden

\* Where a version's defect does not show in any input, it is right.
LEMMA HiddenIsRight ==
  ASSUME NEW v \in Versions, NEW t, IsConfirmed(t), \A i \in DOMAIN t.raw.inputs : Hidden(v, t, i)
  PROVE  RightAbout(v, t)
<1>. SUFFICES ASSUME NEW i \in DOMAIN t.raw.inputs
              PROVE  VersionSighash(v, t, i, t.coins[i]) = Signed(t, i)
  BY DEF RightAbout
<1>. DEFINE coin == t.coins[i]
            P == VersionPreimage(v, ParseTransaction(t.raw), i, coin.script_pubkey, coin.value)
            R == RightPreimage(t, i, coin)
<1>0. DefectOnly(v, t, i, coin)
  BY VersionIs
<1>1. Hidden(v, t, i)
  OBVIOUS
<1>2. /\ R.txid = t.raw.inputs[i].prev_txid /\ R.vout = t.raw.inputs[i].prev_vout
      /\ R.hashPrevouts = Sha256d(WirePoints(t.raw, Len(t.raw.inputs)))
      /\ R.hashOutputHashes = Sha256d([k \in DOMAIN t.raw.outputs |-> PerOutputSummary(t.raw.outputs[k])])
  BY DEF RightPreimage
<1>3. P = R
  <2>1. CASE v \in {"right", "refsIgnored", "refsRepeated"}
    <3>1. P = [R EXCEPT !.hashOutputHashes = Sha256d(VersionSummaries(v, t.raw.outputs))]
      BY <1>0, <2>1 DEF DefectOnly
    <3>2. Sha256d(VersionSummaries(v, t.raw.outputs)) = R.hashOutputHashes
      BY <1>1, <1>2, <2>1, RightSummaries DEF Hidden
    <3>3. SameWith(R)
      BY SameFields
    <3>. HIDE DEF P, R
    <3>. QED  BY <3>1, <3>2, <3>3 DEF SameWith
  <2>2. CASE v = "outpoint"
    <3>1. P = [R EXCEPT !.txid = t.raw.inputs[1].prev_txid, !.vout = t.raw.inputs[1].prev_vout]
      BY <1>0, <2>2 DEF DefectOnly
    <3>2. i = 1
      BY <1>1, <2>2 DEF Hidden
    <3>3. t.raw.inputs[1].prev_txid = R.txid /\ t.raw.inputs[1].prev_vout = R.vout
      BY <1>2, <3>2
    <3>4. SameWith(R)
      BY SameFields
    <3>. HIDE DEF P, R
    <3>. QED  BY <3>1, <3>3, <3>4 DEF SameWith
  <2>3. CASE v = "firstPrevout"
    <3>1. P = [R EXCEPT !.hashPrevouts = Sha256d(WirePoints(t.raw, 1))]
      BY <1>0, <2>3 DEF DefectOnly
    <3>2. Sha256d(WirePoints(t.raw, 1)) = R.hashPrevouts
      BY <1>1, <1>2, <2>3 DEF Hidden
    <3>3. SameWith(R)
      BY SameFields
    <3>. HIDE DEF P, R
    <3>. QED  BY <3>1, <3>2, <3>3 DEF SameWith
  <2>4. v \notin {"encoder", "omitted"}
    BY <1>1 DEF Hidden
  <2>. QED  BY <2>1, <2>2, <2>3, <2>4 DEF Versions
<1>. HIDE DEF P, R
<1>4. Signed(t, i) = Sha256d(R)
  BY ConsensusIs DEF Signed, R
<1>. QED  BY <1>3, <1>4 DEF VersionSighash, P

\* In a confirmed transaction the signatures are over the digests a node computes.
LEMMA PublishedIsSigned ==
  ASSUME NEW t, IsConfirmed(t), NEW i \in DOMAIN t.raw.inputs
  PROVE  Published(t, i) = Signed(t, i)
<1>1. RightAbout("right", t)
  BY HiddenIsRight DEF Hidden, Versions
<1>. QED  BY <1>1 DEF RightAbout, Published, IsConfirmed, IsSigned

LEMMA AgreesIsRight ==
  ASSUME NEW v, NEW t, IsConfirmed(t)
  PROVE  Agrees(v, t) <=> RightAbout(v, t)
  BY PublishedIsSigned DEF Agrees, RightAbout

-----------------------------------------------------------------------------
(***************************************************************************)
(* The golden vectors.                                                     *)
(***************************************************************************)
\* No version computes for a coin wrongly described what some version computes for
\* the coin.
LEMMA WrongWordFails ==
  ASSUME NEW v \in Versions, NEW t, t.signer \in Versions, NEW i, NEW word,
         IsCoin(t.coins[i]),
         VersionSighash(v, t, i, Described(t.coins[i], word)) = Published(t, i)
  PROVE  Described(t.coins[i], word) = t.coins[i]
<1>. DEFINE coin == t.coins[i]
            said == Described(coin, word)
            tx == ParseTransaction(t.raw)
            P == VersionPreimage(v, tx, i, said.script_pubkey, said.value)
            Q == VersionPreimage(t.signer, tx, i, coin.script_pubkey, coin.value)
<1>. USE DEF IsCoin
<1>1. P = Q
  BY DEF VersionSighash, Sha256d, Published
<1>2. /\ P.value = IF v = "encoder" THEN Garbled(said.value) ELSE said.value
      /\ P.scriptCode = said.script_pubkey
  BY WrittenCoin
<1>3. /\ Q.value = IF t.signer = "encoder" THEN Garbled(coin.value) ELSE coin.value
      /\ Q.scriptCode = coin.script_pubkey
  BY WrittenCoin
<1>. HIDE DEF P, Q
<1>4. CASE word = "amount"
  <2>1. said.value = coin.value + 1
    BY <1>4 DEF Described
  <2>. QED  BY <1>1, <1>2, <1>3, <2>1 DEF Garbled
<1>5. CASE word = "script"
  <2>1. said = [coin EXCEPT !.script_pubkey = ForeignSpk]
    BY <1>5 DEF Described
  <2>2. said.script_pubkey = ForeignSpk
    BY <2>1
  <2>3. coin.script_pubkey = ForeignSpk
    BY <1>1, <1>2, <1>3, <2>2
  <2>4. coin = [value |-> coin.value, script_pubkey |-> coin.script_pubkey]
    OBVIOUS
  <2>5. [coin EXCEPT !.script_pubkey = coin.script_pubkey] = coin
    <3>. DEFINE a == coin.value
                b == coin.script_pubkey
                R == [value |-> a, script_pubkey |-> b]
    <3>. HIDE DEF a, b
    <3>1. [R EXCEPT !.script_pubkey = b] = R
      OBVIOUS
    <3>2. R = coin
      BY <2>4 DEF a, b
    <3>. QED  BY <3>1, <3>2 DEF b
  <2>6. said = coin
    <3>. HIDE DEF coin, said
    <3>. QED  BY <2>1, <2>3, <2>5
  <2>. QED  BY <2>6
<1>6. CASE word \notin {"amount", "script"}
  BY <1>6 DEF Described
<1>. QED  BY <1>4, <1>5, <1>6

\* The records are the coins and digests the signatures of t's first inputs are over.
Golden(t, records) ==
  /\ IsSeq(records)
  /\ \A i \in 1 .. Len(records) :
       records[i] = [coin |-> t.coins[i], expected |-> Published(t, i)]

\* Whole vectors of the first targets, or of what was returned for them.
GoldenVectors(vs) ==
  /\ IsSeq(vs)
  /\ \A k \in 1 .. Len(vs) :
       /\ IsSigned(vs[k].tx)
       /\ Golden(vs[k].tx, vs[k].inputs)
       /\ Len(vs[k].inputs) = Len(vs[k].tx.raw.inputs)

WholeVectors(vs) == GoldenVectors(vs) /\ Len(vs) = Len(Targets)

GoldenFile == file \in {Absent, Torn} \/ WholeVectors(file)

BuildFields == {"pc", "oracle", "vectors", "tx", "current"}

\* The running build: what it has checked, and what its file will be.
BuildInv ==
  /\ DOMAIN build = BuildFields
  /\ build.pc \in {"idle", "fetch", "inputs", "open", "dump"}
  /\ build.oracle \in Versions \cup {None}
  /\ GoldenVectors(build.vectors)
  /\ build.pc \in {"fetch", "inputs"} =>
       Len(build.vectors) < Len(Targets) /\ build.oracle \in Versions
  /\ build.pc = "fetch" => build.current = <<>>
  /\ build.pc = "inputs" =>
       /\ IsSigned(build.tx)
       /\ Golden(build.tx, build.current)
       /\ Len(build.current) < Len(build.tx.raw.inputs)
  /\ build.pc \in {"open", "dump"} => Len(build.vectors) = Len(Targets)

FixtureInv ==
  /\ oracle \in Versions /\ edits \in 0 .. MaxEdits /\ builds \in 0 .. MaxBuilds
  /\ GoldenFile /\ BuildInv

\* Nothing checked yet is golden.
LEMMA EmptyIsGolden == Len(<<>>) = 0 /\ GoldenVectors(<<>>) /\ \A t : Golden(t, <<>>)
<1>1. <<>> \in Seq({}) /\ Len(<<>>) = 0
  OBVIOUS
<1>2. IsSeq(<<>>)
  BY <1>1 DEF IsSeq
<1>. QED  BY <1>1, <1>2 DEF GoldenVectors, Golden

\* A build that has not begun has checked nothing.
LEMMA NoBuildInv ==
  /\ DOMAIN NoBuild = BuildFields
  /\ NoBuild.pc = "idle" /\ NoBuild.oracle = None
  /\ NoBuild.vectors = <<>> /\ NoBuild.current = <<>>
  /\ GoldenVectors(NoBuild.vectors)
<1>1. /\ DOMAIN NoBuild = BuildFields
      /\ NoBuild.pc = "idle" /\ NoBuild.oracle = None
      /\ NoBuild.vectors = <<>> /\ NoBuild.current = <<>>
  BY DEF NoBuild, BuildFields
<1>. QED  BY <1>1, EmptyIsGolden

\* Whatever the explorer returns for the next target, nothing of it is checked yet.
LEMMA FetchInv ==
  ASSUME FixtureInv, build.pc = "fetch",
         NEW t \in Offered[Len(build.vectors) + 1], FetchTarget(t)
  PROVE  BuildInv'
<1>1. build' = [build EXCEPT !.pc = "inputs", !.tx = t]
  BY DEF FetchTarget
<1>2. /\ DOMAIN build' = BuildFields /\ build'.pc = "inputs" /\ build'.tx = t
      /\ build'.oracle = build.oracle /\ build'.vectors = build.vectors
      /\ build'.current = build.current
  BY <1>1 DEF FixtureInv, BuildInv, BuildFields
<1>3. /\ GoldenVectors(build.vectors) /\ Len(build.vectors) < Len(Targets)
      /\ build.oracle \in Versions /\ build.current = <<>>
  BY DEF FixtureInv, BuildInv
<1>4. Len(build.vectors) \in Nat
  BY <1>3 DEF GoldenVectors, IsSeq
<1>5. Len(build.vectors) + 1 \in DOMAIN Targets
  BY <1>3, <1>4, CountAssumption
<1>6. IsSigned(t)
  BY <1>5, TargetAssumption
<1>7. Golden(t, <<>>) /\ Len(<<>>) < Len(t.raw.inputs)
  BY <1>6, EmptyIsGolden DEF IsSigned
<1>. QED  BY <1>2, <1>3, <1>6, <1>7 DEF BuildInv

\* One input whose signature is over the digest the oracle computed.
LEMMA InputInv ==
  ASSUME FixtureInv, NEW word, BuildInput(word)
  PROVE  BuildInv'
<1>. DEFINE t == build.tx
            i == Len(build.current) + 1
            coin == Described(t.coins[i], word)
            digest == VersionSighash(build.oracle, t, i, coin)
            rec == [coin |-> coin, expected |-> digest]
            current == Append(build.current, rec)
            vector == [tx |-> t, inputs |-> current]
            vectors == Append(build.vectors, vector)
            inputNext == [build EXCEPT !.current = current]
            vectorNext == [build EXCEPT !.vectors = vectors, !.current = <<>>,
                             !.pc = IF Len(vectors) = Len(Targets) THEN "open" ELSE "fetch"]
<1>1. build' = IF ~ SignatureOk(digest, t, i) THEN NoBuild
               ELSE IF ~ LastInput(t, i) THEN inputNext ELSE vectorNext
  BY DEF BuildInput
<1>2. /\ IsSigned(t) /\ GoldenVectors(build.vectors) /\ Golden(t, build.current)
      /\ DOMAIN build = BuildFields /\ build.pc = "inputs"
      /\ build.oracle \in Versions /\ Len(build.vectors) < Len(Targets)
      /\ Len(build.current) < Len(t.raw.inputs)
  BY DEF BuildInput, FixtureInv, BuildInv
<1>3. Len(build.vectors) \in Nat /\ Len(build.current) \in Nat
  BY <1>2 DEF GoldenVectors, Golden, IsSeq
<1>4. /\ i \in 1 .. Len(t.raw.inputs) /\ Len(t.raw.inputs) \in Nat
      /\ IsCoin(t.coins[i])
      /\ t.signer \in Versions
  BY <1>2, <1>3 DEF IsSigned
<1>5. CASE ~ SignatureOk(digest, t, i)
  <2>1. build' = NoBuild
    BY <1>1, <1>5
  <2>. QED  BY <2>1, NoBuildInv DEF BuildInv
<1>6. CASE SignatureOk(digest, t, i)
  <2>1. rec = [coin |-> t.coins[i], expected |-> Published(t, i)]
    <3>1. digest = Published(t, i)
      BY <1>6 DEF SignatureOk
    <3>2. VersionSighash(build.oracle, t, i, Described(t.coins[i], word)) = Published(t, i)
      BY <3>1
    <3>3. build.oracle \in Versions
      BY <1>2
    <3>4. t.signer \in Versions
      BY <1>4
    <3>5. IsCoin(t.coins[i])
      BY <1>4
    <3>. HIDE DEF t, i
    <3>6. Described(t.coins[i], word) = t.coins[i]
      BY <3>2, <3>3, <3>4, <3>5, WrongWordFails
    <3>. QED  BY <3>1, <3>6
  <2>. HIDE DEF rec
  <2>2. Golden(t, current) /\ Len(current) = i
    <3>1. IsSeq(build.current)
      BY <1>2 DEF Golden
    <3>2. /\ IsSeq(current) /\ Len(build.current) \in Nat /\ Len(current) = i
          /\ \A k \in 1 .. Len(build.current) : current[k] = build.current[k]
          /\ current[i] = rec
      BY <3>1, Appended
    <3>. HIDE DEF current
    <3>3. ASSUME NEW k \in 1 .. Len(current)
          PROVE  current[k] = [coin |-> t.coins[k], expected |-> Published(t, k)]
      <4>1. CASE k \in 1 .. Len(build.current)
        BY <1>2, <3>2, <4>1 DEF Golden
      <4>2. CASE k = i
        BY <2>1, <3>2, <4>2
      <4>. QED  BY <3>2, <3>3, <4>1, <4>2
    <3>. QED  BY <3>2, <3>3 DEF Golden
  <2>. HIDE DEF current
  <2>3. CASE ~ LastInput(t, i)
    <3>1. build' = inputNext
      BY <1>1, <1>6, <2>3
    <3>2. /\ DOMAIN build' = BuildFields /\ build'.pc = "inputs" /\ build'.tx = t
          /\ build'.oracle = build.oracle /\ build'.vectors = build.vectors
          /\ build'.current = current
      BY <1>2, <3>1 DEF BuildFields
    <3>3. Len(current) < Len(t.raw.inputs)
      BY <1>4, <2>2, <2>3 DEF LastInput
    <3>. QED  BY <1>2, <2>2, <3>2, <3>3 DEF BuildInv
  <2>4. CASE LastInput(t, i)
    <3>1. vector.tx = t /\ vector.inputs = current
      OBVIOUS
    <3>2. IsSeq(build.vectors)
      BY <1>2 DEF GoldenVectors
    <3>. HIDE DEF vector
    <3>3. /\ IsSeq(vectors) /\ Len(vectors) = Len(build.vectors) + 1
          /\ \A k \in 1 .. Len(build.vectors) : vectors[k] = build.vectors[k]
          /\ vectors[Len(build.vectors) + 1] = vector
      BY <3>2, Appended
    <3>. HIDE DEF vectors
    <3>4. GoldenVectors(vectors)
      <4>1. ASSUME NEW k \in 1 .. Len(vectors)
            PROVE  /\ IsSigned(vectors[k].tx)
                   /\ Golden(vectors[k].tx, vectors[k].inputs)
                   /\ Len(vectors[k].inputs) = Len(vectors[k].tx.raw.inputs)
        <5>1. CASE k \in 1 .. Len(build.vectors)
          BY <1>2, <3>3, <5>1 DEF GoldenVectors
        <5>2. CASE k = Len(build.vectors) + 1
          BY <1>2, <2>2, <2>4, <3>1, <3>3, <5>2 DEF LastInput
        <5>. QED  BY <1>3, <3>3, <5>1, <5>2
      <4>. QED  BY <3>3, <4>1 DEF GoldenVectors
    <3>5. build' = vectorNext
      BY <1>1, <1>6, <2>4
    <3>6. /\ DOMAIN build' = BuildFields
          /\ build'.pc = IF Len(vectors) = Len(Targets) THEN "open" ELSE "fetch"
          /\ build'.oracle = build.oracle /\ build'.vectors = vectors
          /\ build'.current = <<>>
      BY <1>2, <3>5 DEF BuildFields
    <3>7. Len(vectors) # Len(Targets) => Len(vectors) < Len(Targets)
      <4>. DEFINE before == Len(build.vectors)
                  after == Len(vectors)
                  all == Len(Targets)
      <4>1. before < all /\ after = before + 1 /\ before \in Nat /\ all \in Nat
        BY <1>2, <1>3, <3>3, CountAssumption
      <4>. HIDE DEF before, after, all
      <4>2. after # all => after < all
        BY <4>1
      <4>. QED  BY <4>2 DEF after, all
    <3>. QED  BY <1>2, <3>4, <3>6, <3>7 DEF BuildInv
  <2>. QED  BY <2>3, <2>4
<1>. QED  BY <1>5, <1>6

\* Every step of a build, whatever becomes of it.
LEMMA BuildStepInv ==
  ASSUME FixtureInv, Build
  PROVE  FixtureInv'
<1>1. CASE StartBuild
  <2>1. build' = [NoBuild EXCEPT !.pc = "fetch", !.oracle = oracle]
    BY <1>1 DEF StartBuild
  <2>2. /\ DOMAIN build' = BuildFields /\ build'.pc = "fetch" /\ build'.oracle = oracle
        /\ build'.vectors = <<>> /\ build'.current = <<>>
    BY <2>1, NoBuildInv DEF BuildFields
  <2>3. BuildInv'
    BY <2>2, EmptyIsGolden, CountAssumption DEF FixtureInv, BuildInv
  <2>4. builds' \in 0 .. MaxBuilds /\ UNCHANGED <<oracle, edits, file>>
    BY <1>1, CountAssumption DEF StartBuild, FixtureInv
  <2>. QED  BY <2>3, <2>4 DEF FixtureInv, GoldenFile
<1>2. ASSUME build.pc = "fetch", NEW t \in Offered[Len(build.vectors) + 1], FetchTarget(t)
      PROVE  FixtureInv'
  <2>1. BuildInv'
    BY <1>2, FetchInv
  <2>2. UNCHANGED <<oracle, edits, file, builds>>
    BY <1>2 DEF FetchTarget
  <2>. QED  BY <2>1, <2>2 DEF FixtureInv, GoldenFile
<1>3. ASSUME NEW word, BuildInput(word) PROVE FixtureInv'
  <2>1. BuildInv'
    BY <1>3, InputInv
  <2>2. UNCHANGED <<oracle, edits, file, builds>>
    BY <1>3 DEF BuildInput
  <2>. QED  BY <2>1, <2>2 DEF FixtureInv, GoldenFile
<1>4. CASE OpenFixtures
  <2>1. /\ file' = Torn /\ build' = [build EXCEPT !.pc = "dump"] /\ build.pc = "open"
        /\ UNCHANGED <<oracle, edits, builds>>
    BY <1>4 DEF OpenFixtures
  <2>2. /\ DOMAIN build' = DOMAIN build /\ build'.pc = "dump" /\ build'.oracle = build.oracle
        /\ build'.vectors = build.vectors /\ build'.current = build.current
    BY <2>1 DEF FixtureInv, BuildInv, BuildFields
  <2>3. BuildInv'
    BY <2>1, <2>2 DEF FixtureInv, BuildInv
  <2>. QED  BY <2>1, <2>3 DEF FixtureInv, GoldenFile
<1>5. CASE DumpFixtures
  <2>1. /\ file' = build.vectors /\ build' = NoBuild /\ build.pc = "dump"
        /\ UNCHANGED <<oracle, edits, builds>>
    BY <1>5 DEF DumpFixtures
  <2>2. GoldenFile'
    BY <2>1 DEF FixtureInv, BuildInv, GoldenFile, WholeVectors
  <2>3. BuildInv'
    BY <2>1, NoBuildInv DEF BuildInv
  <2>. QED  BY <2>1, <2>2, <2>3 DEF FixtureInv
<1>6. CASE AbandonBuild
  <2>1. build' = NoBuild /\ UNCHANGED <<oracle, edits, file, builds>>
    BY <1>6 DEF AbandonBuild
  <2>2. BuildInv'
    BY <2>1, NoBuildInv DEF BuildInv
  <2>. QED  BY <2>1, <2>2 DEF FixtureInv, GoldenFile
<1>. QED  BY <1>1, <1>2, <1>3, <1>4, <1>5, <1>6 DEF Build

\* No file, no build.
LEMMA FixtureInitInv == FixtureInit => FixtureInv
  BY NoBuildInv, CountAssumption DEF FixtureInit, FixtureInv, BuildInv, GoldenFile

LEMMA EditInv ==
  ASSUME FixtureInv, EditOracle
  PROVE  FixtureInv'
<1>1. /\ oracle' \in Versions /\ edits' \in 0 .. MaxEdits
      /\ UNCHANGED <<file, builds, build>>
  BY CountAssumption DEF EditOracle, FixtureInv
<1>. QED  BY <1>1 DEF FixtureInv, BuildInv, GoldenFile

\* A whole golden file says what its signatures say; of a target, what a node says.
LEMMA InvIsGolden == FixtureInv => FileIsGolden
<1>. SUFFICES ASSUME FixtureInv, file \notin {Absent, Torn}, NEW k \in 1 .. Len(Targets),
                     NEW i \in 1 .. Len(file[k].tx.raw.inputs)
              PROVE  LET t == file[k].tx IN
                     /\ file[k].inputs[i] = [coin |-> t.coins[i], expected |-> Published(t, i)]
                     /\ t = Targets[k] => file[k].inputs[i].expected = Signed(t, i)
  BY Zenon DEF FileIsGolden
<1>. DEFINE t == file[k].tx
<1>1. /\ IsSigned(t) /\ Golden(t, file[k].inputs)
      /\ Len(file[k].inputs) = Len(t.raw.inputs)
  BY DEF FixtureInv, GoldenFile, WholeVectors, GoldenVectors
<1>2. file[k].inputs[i] = [coin |-> t.coins[i], expected |-> Published(t, i)]
  BY <1>1 DEF Golden
<1>3. ASSUME t = Targets[k] PROVE Published(t, i) = Signed(t, i)
  <2>1. IsConfirmed(t)
    BY <1>3, TargetAssumption, CountAssumption
  <2>2. i \in DOMAIN t.raw.inputs
    BY <1>1 DEF IsSigned
  <2>. QED  BY <2>1, <2>2, PublishedIsSigned
<1>4. file[k].inputs[i].expected = Published(t, i)
  BY <1>2
<1>. QED  BY <1>2, <1>3, <1>4

\* A complete fixture file says of every input what its signature says, and of the
\* inputs of a target what a node says.
THEOREM FileStaysGolden == FixtureSpec => []FileIsGolden
<1>1. FixtureInv /\ [FixtureNext]_fixtureVars => FixtureInv'
  <2>1. ASSUME FixtureInv, UNCHANGED fixtureVars PROVE FixtureInv'
    BY <2>1 DEF fixtureVars, FixtureInv, BuildInv, GoldenFile
  <2>. QED  BY <2>1, EditInv, BuildStepInv DEF FixtureNext
<1>. QED  BY <1>1, FixtureInitInv, InvIsGolden, PTL DEF FixtureSpec

\* A golden vector passes for the versions that agree with its signatures.
LEMMA VectorDecides ==
  ASSUME NEW v, NEW vector, IsSigned(vector.tx), Golden(vector.tx, vector.inputs),
         Len(vector.inputs) = Len(vector.tx.raw.inputs)
  PROVE  VectorPass(v, vector) <=> Agrees(v, vector.tx)
<1>. DEFINE t == vector.tx
            records == vector.inputs
<1>1. DOMAIN records = DOMAIN t.raw.inputs /\ DOMAIN records = 1 .. Len(records)
  BY DEF IsSigned, Golden, IsSeq
<1>2. ASSUME NEW i \in DOMAIN records
      PROVE  records[i].coin = t.coins[i] /\ records[i].expected = Published(t, i)
  <2>1. i \in 1 .. Len(records)
    BY <1>1
  <2>2. records[i] = [coin |-> t.coins[i], expected |-> Published(t, i)]
    BY <2>1 DEF Golden
  <2>. QED  BY <2>2
<1>. QED  BY <1>1, <1>2 DEF VectorPass, InputPass, SignatureOk, Agrees

\* Whole golden vectors pass for the versions that agree with all of them; if they
\* are the targets, for those that are right about them.
LEMMA VectorsDecide ==
  ASSUME NEW v, NEW vs, WholeVectors(vs)
  PROVE  /\ VectorsPass(v, vs) <=> \A k \in DOMAIN Targets : Agrees(v, vs[k].tx)
         /\ AsAsked(vs) =>
              (VectorsPass(v, vs) <=> \A k \in DOMAIN Targets : RightAbout(v, Targets[k]))
<1>1. DOMAIN vs = DOMAIN Targets /\ DOMAIN Targets = 1 .. Len(vs)
  BY CountAssumption DEF WholeVectors, GoldenVectors, IsSeq
<1>2. ASSUME NEW k \in DOMAIN Targets PROVE VectorPass(v, vs[k]) <=> Agrees(v, vs[k].tx)
  BY <1>1, VectorDecides DEF WholeVectors, GoldenVectors
<1>3. VectorsPass(v, vs) <=> \A k \in DOMAIN Targets : Agrees(v, vs[k].tx)
  BY <1>1, <1>2 DEF VectorsPass
<1>4. ASSUME AsAsked(vs), NEW k \in DOMAIN Targets
      PROVE  Agrees(v, vs[k].tx) <=> RightAbout(v, Targets[k])
  BY <1>4, AgreesIsRight, TargetAssumption DEF AsAsked
<1>. QED  BY <1>3, <1>4

\* The vector test, while it runs, has whole vectors, and in the end their verdict.
VerdictInv ==
  check.script = "vectors" =>
    \/ check.vectors = <<>> /\ check.result = "fail"
    \/ /\ WholeVectors(check.vectors)
       /\ check.result = "pass" => VectorsPass(check.oracle, check.vectors)
       /\ check.result = "fail" => ~ VectorsPass(check.oracle, check.vectors)

\* A file that cannot be read is not whole, and no version passes on it.
LEMMA InvIsVerdict == VerdictInv => VerdictIsRight
<1>. DEFINE vs == check.vectors
            v == check.oracle
<1>. SUFFICES ASSUME VerdictInv, check.script = "vectors", check.result \in {"pass", "fail"}
              PROVE  /\ (check.result = "pass") =
                          (Vectors(vs) /\ \A k \in DOMAIN Targets : Agrees(v, vs[k].tx))
                     /\ AsAsked(vs) =>
                          (check.result = "pass") =
                            \A k \in DOMAIN Targets : RightAbout(v, Targets[k])
  BY DEF VerdictIsRight
<1>1. CASE vs = <<>> /\ check.result = "fail"
  <2>1. ~ Vectors(vs)
    BY <1>1, EmptyIsGolden, CountAssumption DEF Vectors
  <2>. QED  BY <1>1, <2>1 DEF AsAsked
<1>2. CASE WholeVectors(vs)
  <2>1. DOMAIN vs = 1 .. Len(vs)
    BY <1>2 DEF WholeVectors, GoldenVectors, IsSeq
  <2>2. Vectors(vs)
    BY <1>2, <2>1 DEF WholeVectors, GoldenVectors, Vectors
  <2>3. vs # <<>>
    BY <1>2, EmptyIsGolden, CountAssumption DEF WholeVectors
  <2>4. /\ check.result = "pass" => VectorsPass(v, vs)
        /\ check.result = "fail" => ~ VectorsPass(v, vs)
    BY <2>3 DEF VerdictInv
  <2>. QED  BY <1>2, <2>2, <2>4, VectorsDecide
<1>. QED  BY <1>1, <1>2 DEF VerdictInv

CheckInv ==
  /\ DOMAIN check = {"script", "oracle", "vectors", "result"}
  /\ check.script \in Scripts \cup {None} /\ check.oracle \in Versions \cup {None}
  /\ check.result \in {"none", "pass", "fail", "aborted"}
  /\ evidence \subseteq Words /\ bench \in Benches
  /\ VerdictInv

TrustInv == FixtureInv /\ CheckInv

\* A whole file has a record for every input.
LEMMA InvIsTyped == TrustInv => TypeOK
<1>. SUFFICES ASSUME TrustInv PROVE TypeOK
  OBVIOUS
<1>1. ASSUME GoldenVectors(file), Len(file) = Len(Targets) PROVE Vectors(file)
  <2>1. DOMAIN file = 1 .. Len(file)
    BY <1>1 DEF GoldenVectors, IsSeq
  <2>. QED  BY <1>1, <2>1 DEF GoldenVectors, Vectors
<1>. QED
  BY <1>1 DEF TrustInv, FixtureInv, CheckInv, BuildInv, GoldenFile, WholeVectors, TypeOK, FixtureTypeOK

\* No file, no build, no script yet.
LEMMA InitInv == Init => TrustInv
<1>. SUFFICES ASSUME Init PROVE TrustInv
  OBVIOUS
<1>1. FixtureInv
  BY FixtureInitInv DEF Init
<1>2. CheckInv
  BY NoneAssumption DEF Init, NoCheck, CheckInv, VerdictInv, Scripts
<1>. QED  BY <1>1, <1>2 DEF TrustInv

\* A script that exits or is aborted leaves the build alone.
LEMMA ExitsInv ==
  ASSUME TrustInv, NEW pass, NEW said \in SUBSET Words, Exits(pass, said), Running,
         check.script = "vectors" => (pass <=> VectorsPass(check.oracle, check.vectors))
  PROVE  TrustInv'
<1>1. /\ check' = [check EXCEPT !.result = IF pass THEN "pass" ELSE "fail"]
      /\ evidence' \in {evidence, evidence \cup said}
      /\ UNCHANGED <<oracle, edits, file, builds, build, bench>>
  BY DEF Exits, fixtureVars
<1>2. /\ DOMAIN check' = DOMAIN check /\ check'.script = check.script
      /\ check'.oracle = check.oracle /\ check'.vectors = check.vectors
      /\ check'.result = IF pass THEN "pass" ELSE "fail"
  BY <1>1 DEF TrustInv, CheckInv
<1>3. check.result = "none"
  BY DEF Running
<1>4. VerdictInv'
  BY <1>2, <1>3 DEF TrustInv, CheckInv, VerdictInv
<1>5. CheckInv'
  BY <1>1, <1>2, <1>4 DEF TrustInv, CheckInv
<1>6. FixtureInv'
  BY <1>1 DEF TrustInv, FixtureInv, BuildInv, GoldenFile
<1>. QED  BY <1>5, <1>6 DEF TrustInv

LEMMA ScriptInv ==
  ASSUME TrustInv,
         \/ \E script \in Scripts : Start(script)
         \/ EndVectors
         \/ \E t \in OfferedSamples, said \in [SampleIndices -> ExplorerWords \cup {"none"}] :
              EndSelf(t, said)
         \/ EndRefs
         \/ \E t \in GlyphFiles : EndMainnet(t)
         \/ \E kind \in Harnesses : EndHarness(kind)
         \/ Abort
  PROVE  TrustInv'
<1>1. ASSUME NEW script \in Scripts, Start(script) PROVE TrustInv'
  <2>1. UNCHANGED <<oracle, edits, file, builds, build, evidence, bench>>
    BY <1>1 DEF Start, fixtureVars
  <2>2. FixtureInv'
    BY <2>1 DEF TrustInv, FixtureInv, BuildInv, GoldenFile
  <2>3. /\ DOMAIN check' = {"script", "oracle", "vectors", "result"}
        /\ check'.script = script /\ check'.oracle = oracle
        /\ check'.result \in {"none", "fail"}
    BY <1>1 DEF Start
  <2>4. VerdictInv'
    <3>1. CASE script = "vectors" /\ file \in {Absent, Torn}
      BY <1>1, <3>1 DEF Start, VerdictInv
    <3>2. CASE script = "vectors" /\ file \notin {Absent, Torn}
      <4>1. check'.vectors = file /\ check'.result = "none"
        BY <1>1, <3>2 DEF Start
      <4>2. WholeVectors(file)
        BY <3>2 DEF TrustInv, FixtureInv, GoldenFile
      <4>. QED  BY <4>1, <4>2 DEF VerdictInv
    <3>3. CASE script # "vectors"
      BY <2>3, <3>3 DEF VerdictInv
    <3>. QED  BY <3>1, <3>2, <3>3
  <2>5. CheckInv'
    BY <2>1, <2>3, <2>4 DEF TrustInv, FixtureInv, CheckInv
  <2>. QED  BY <2>2, <2>5 DEF TrustInv
<1>2. CASE Abort
  <2>1. /\ check' = [check EXCEPT !.result = "aborted"]
        /\ UNCHANGED <<oracle, edits, file, builds, build, evidence, bench>>
        /\ check.result = "none"
    BY <1>2 DEF Abort, Running, fixtureVars
  <2>2. FixtureInv'
    BY <2>1 DEF TrustInv, FixtureInv, BuildInv, GoldenFile
  <2>3. CheckInv'
    BY <2>1 DEF TrustInv, CheckInv, VerdictInv
  <2>. QED  BY <2>2, <2>3 DEF TrustInv
<1>3. CASE EndVectors
  <2>1. /\ Running
        /\ \E said \in SUBSET Words : Exits(VectorsPass(check.oracle, check.vectors), said)
    BY <1>3 DEF EndVectors, Says, Words
  <2>. QED  BY <2>1, ExitsInv
<1>4. ASSUME EndRefs \/ (\E t \in GlyphFiles : EndMainnet(t))
             \/ (\E t \in OfferedSamples, said \in [SampleIndices -> ExplorerWords \cup {"none"}] :
                   EndSelf(t, said))
             \/ (\E kind \in Harnesses : EndHarness(kind))
      PROVE  /\ Running /\ check.script # "vectors"
             /\ \E pass : \E said \in SUBSET Words : Exits(pass, said)
  <2>1. CASE EndRefs
    BY <2>1 DEF EndRefs, Says, Words
  <2>2. ASSUME NEW t \in GlyphFiles, EndMainnet(t)
        PROVE  /\ Running /\ check.script # "vectors"
               /\ \E pass : \E said \in SUBSET Words : Exits(pass, said)
    BY <2>2 DEF EndMainnet, Says, Words
  <2>3. ASSUME NEW t, NEW said, EndSelf(t, said)
        PROVE  /\ Running /\ check.script # "vectors"
               /\ \E pass : \E words \in SUBSET Words : Exits(pass, words)
    BY <2>3 DEF EndSelf, Says, Words
  <2>4. ASSUME NEW kind \in Harnesses, EndHarness(kind)
        PROVE  /\ Running /\ check.script # "vectors"
               /\ \E pass : \E said \in SUBSET Words : Exits(pass, said)
    BY <2>4 DEF EndHarness, Says, Words, Harnesses
  <2>. QED  BY <1>4, <2>1, <2>2, <2>3, <2>4
<1>. QED  BY <1>1, <1>2, <1>3, <1>4, ExitsInv

\* Every step keeps the invariant.
LEMMA StepInv == TrustInv /\ [Next]_vars => TrustInv'
<1>. SUFFICES ASSUME TrustInv, [Next]_vars PROVE TrustInv'
  OBVIOUS
<1>1. CASE UNCHANGED vars
  BY <1>1 DEF vars, TrustInv, FixtureInv, CheckInv, VerdictInv, BuildInv, GoldenFile
<1>2. CASE Edit
  <2>1. UNCHANGED <<check, bench>> /\ evidence' = {} /\ EditOracle
    BY <1>2 DEF Edit
  <2>2. FixtureInv'
    BY <2>1, EditInv DEF TrustInv
  <2>. QED  BY <2>1, <2>2 DEF TrustInv, CheckInv, VerdictInv
<1>3. CASE Build /\ UNCHANGED <<check, evidence, bench>>
  <2>1. FixtureInv'
    BY <1>3, BuildStepInv DEF TrustInv
  <2>. QED  BY <1>3, <2>1 DEF TrustInv, CheckInv, VerdictInv
<1>. QED  BY <1>1, <1>2, <1>3, ScriptInv DEF Next

\* Every variable keeps its type.
THEOREM TypeCorrect == Spec => []TypeOK
<1>. QED  BY InitInv, StepInv, InvIsTyped, PTL DEF Spec

\* The scripts that run beside a build do nothing to it.
THEOREM TrustBuildsFixtures == Spec => FixtureSpec
<1>1. Init => FixtureInit
  BY DEF Init
<1>2. [Next]_vars => [FixtureNext]_fixtureVars
  <2>1. UNCHANGED vars => UNCHANGED fixtureVars
    BY DEF vars, fixtureVars
  <2>. QED
    BY <2>1 DEF Next, FixtureNext, Edit, Start, EndVectors, EndSelf, EndRefs, EndMainnet,
                EndHarness, Exits, Abort
<1>. QED  BY <1>1, <1>2, PTL DEF Spec, FixtureSpec

\* The vector test passes exactly when the oracle it imported agrees with the
\* signatures of a whole file, and on the targets, exactly when it is right.
THEOREM VerdictStaysRight == Spec => []VerdictIsRight
<1>1. TrustInv => VerdictIsRight
  BY InvIsVerdict DEF TrustInv, CheckInv
<1>. QED  BY <1>1, InitInv, StepInv, PTL DEF Spec

-----------------------------------------------------------------------------
(***************************************************************************)
(* What the scripts' words say of the oracle that was imported.            *)
(***************************************************************************)
Shows(v, b, word) ==
  /\ word = "vectors" => \A k \in DOMAIN Targets : RightAbout(v, Targets[k])
  /\ word \in {"self", "samples"} => CheckA[v]
  /\ word = "samples" =>
       \A i \in Sampled(Consolidation) :
         \E w \in ExplorerWords : SampleOk(v, Consolidation, i, w)
  /\ word = "refs" => RefsPass[v]
  /\ word = "mainnet" => \E t \in GlyphFiles : MainnetPass(v, t)
  /\ word \in Harnesses => Answers(b, word) /\ HarnessPass(v, b, word)
  /\ word = "glyph failed" => ~ HarnessPass(v, b, "glyph")

\* The evidence at hand is about the oracle on disk and the device on the desk.
EvidenceInv == \A word \in evidence : Shows(oracle, bench, word)

\* A script that exits adds only what it shows of the oracle it imported.
LEMMA ExitsShow ==
  ASSUME EvidenceInv, NEW pass, NEW said, Exits(pass, said),
         \A word \in said : Shows(check.oracle, bench, word)
  PROVE  EvidenceInv'
<1>1. /\ evidence' = IF check.oracle = oracle THEN evidence \cup said ELSE evidence
      /\ oracle' = oracle /\ bench' = bench
  BY DEF Exits, fixtureVars
<1>. QED  BY <1>1 DEF EvidenceInv

LEMMA VectorsShow ==
  ASSUME TrustInv, EndVectors
  PROVE  \E pass, said : Exits(pass, said) /\ \A word \in said : Shows(check.oracle, bench, word)
<1>. DEFINE pass == VectorsPass(check.oracle, check.vectors)
            asked == AsAsked(check.vectors)
            said == Says(pass /\ asked, {"vectors"})
<1>1. Exits(pass, said) /\ check.script = "vectors" /\ check.result = "none"
  BY DEF EndVectors, Running
<1>2. WholeVectors(check.vectors)
  BY <1>1 DEF TrustInv, CheckInv, VerdictInv
<1>3. pass /\ asked => Shows(check.oracle, bench, "vectors")
  BY <1>2, VectorsDecide DEF Shows, Harnesses
<1>4. \A word \in said : Shows(check.oracle, bench, word)
  BY <1>3 DEF Says
<1>. QED  BY <1>1, <1>4

LEMMA SelfShows ==
  ASSUME NEW t, NEW answers \in [SampleIndices -> ExplorerWords \cup {"none"}],
         EndSelf(t, answers)
  PROVE  \E pass, said : Exits(pass, said) /\ \A word \in said : Shows(check.oracle, bench, word)
<1>. DEFINE v == check.oracle
            pass == SelfPass(v, t, answers)
            all == t = Consolidation /\ \A i \in Sampled(t) : answers[i] # "none"
            said == Says(pass, {"self"}) \cup Says(pass /\ all, {"samples"})
<1>1. Exits(pass, said)
  BY DEF EndSelf
<1>2. pass => CheckA[v] /\ CheckC(v, t, answers)
  BY DEF SelfPass
<1>3. pass => Shows(v, bench, "self")
  BY <1>2 DEF Shows, Harnesses
<1>4. ASSUME pass, all, NEW i \in Sampled(Consolidation)
      PROVE  \E w \in ExplorerWords : SampleOk(v, Consolidation, i, w)
  <2>1. i \in SampleIndices /\ answers[i] # "none" /\ SampleOk(v, Consolidation, i, answers[i])
    BY <1>2, <1>4 DEF CheckC, Sampled
  <2>. QED  BY <2>1
<1>5. pass /\ all => Shows(v, bench, "samples")
  BY <1>2, <1>4 DEF Shows, Harnesses
<1>6. \A word \in said : Shows(v, bench, word)
  BY <1>3, <1>5 DEF Says
<1>. QED  BY <1>1, <1>6

LEMMA RefsShow ==
  ASSUME EndRefs
  PROVE  \E pass, said : Exits(pass, said) /\ \A word \in said : Shows(check.oracle, bench, word)
<1>. DEFINE pass == RefsPass[check.oracle]
            said == Says(pass, {"refs"})
<1>1. Exits(pass, said)
  BY DEF EndRefs
<1>2. pass => Shows(check.oracle, bench, "refs")
  BY DEF Shows, Harnesses
<1>. QED  BY <1>1, <1>2 DEF Says

LEMMA MainnetShows ==
  ASSUME NEW t \in GlyphFiles, EndMainnet(t)
  PROVE  \E pass, said : Exits(pass, said) /\ \A word \in said : Shows(check.oracle, bench, word)
<1>. DEFINE pass == MainnetPass(check.oracle, t)
            said == Says(pass, {"mainnet"})
<1>1. Exits(pass, said)
  BY DEF EndMainnet
<1>2. pass => Shows(check.oracle, bench, "mainnet")
  BY DEF Shows, Harnesses
<1>. QED  BY <1>1, <1>2 DEF Says

LEMMA HarnessShows ==
  ASSUME NEW kind \in Harnesses, EndHarness(kind)
  PROVE  \E pass, said : Exits(pass, said) /\ \A word \in said : Shows(check.oracle, bench, word)
<1>. DEFINE v == check.oracle
            answers == Answers(bench, kind)
            pass == answers /\ HarnessPass(v, bench, kind)
            failed == kind = "glyph" /\ answers /\ ~ pass
            said == Says(pass, {kind}) \cup Says(failed, {"glyph failed"})
<1>1. Exits(pass, said)
  BY DEF EndHarness
<1>2. pass => Shows(v, bench, kind)
  BY DEF Shows, Harnesses
<1>3. failed => Shows(v, bench, "glyph failed")
  BY DEF Shows, Harnesses
<1>4. \A word \in said : Shows(v, bench, word)
  BY <1>2, <1>3 DEF Says
<1>. QED  BY <1>1, <1>4

\* No evidence yet.
LEMMA InitEvidence == Init => EvidenceInv
  BY DEF Init, EvidenceInv

\* Every step keeps the evidence about what is on disk and on the desk: an edit
\* empties it.
LEMMA StepEvidence == TrustInv /\ EvidenceInv /\ [Next]_vars => EvidenceInv'
<1>. SUFFICES ASSUME TrustInv, EvidenceInv, [Next]_vars PROVE EvidenceInv'
  OBVIOUS
<1>1. CASE evidence' = {}
  BY <1>1 DEF EvidenceInv
<1>2. CASE evidence' = evidence /\ oracle' = oracle /\ bench' = bench
  BY <1>2 DEF EvidenceInv
<1>3. CASE \E pass, said :
             Exits(pass, said) /\ \A word \in said : Shows(check.oracle, bench, word)
  BY <1>3, ExitsShow
<1>4. CASE UNCHANGED vars
  BY <1>2, <1>4 DEF vars
<1>5. CASE Edit
  BY <1>1, <1>5 DEF Edit
<1>6. CASE Build /\ UNCHANGED <<check, evidence, bench>>
  <2>1. oracle' = oracle
    BY <1>6 DEF Build, StartBuild, FetchTarget, BuildInput, OpenFixtures, DumpFixtures, AbandonBuild
  <2>. QED  BY <1>2, <1>6, <2>1
<1>7. ASSUME NEW script \in Scripts, Start(script) PROVE EvidenceInv'
  BY <1>2, <1>7 DEF Start, fixtureVars
<1>8. CASE EndVectors
  BY <1>3, <1>8, VectorsShow
<1>9. ASSUME NEW t \in OfferedSamples, NEW said \in [SampleIndices -> ExplorerWords \cup {"none"}],
             EndSelf(t, said)
      PROVE  EvidenceInv'
  BY <1>3, <1>9, SelfShows
<1>10. CASE EndRefs
  BY <1>3, <1>10, RefsShow
<1>11. ASSUME NEW t \in GlyphFiles, EndMainnet(t) PROVE EvidenceInv'
  BY <1>3, <1>11, MainnetShows
<1>12. ASSUME NEW kind \in Harnesses, EndHarness(kind) PROVE EvidenceInv'
  BY <1>3, <1>12, HarnessShows
<1>13. CASE Abort
  BY <1>2, <1>13 DEF Abort, fixtureVars
<1>. QED
  BY <1>4, <1>5, <1>6, <1>7, <1>8, <1>9, <1>10, <1>11, <1>12, <1>13 DEF Next

-----------------------------------------------------------------------------
(***************************************************************************)
(* What the evidence is worth.                                             *)
(***************************************************************************)
RefDefects == {"refsIgnored", "refsRepeated"}

\* A defect in the references shows only where there are some.
LEMMA RefDefectsAreRight ==
  ASSUME NEW v \in {"right"} \cup RefDefects, NEW t, IsConfirmed(t), ~ HasRefs(t)
  PROVE  RightAbout(v, t)
<1>1. \A k \in DOMAIN t.raw.outputs :
        LET s == t.raw.outputs[k].script_pubkey IN
        PushCount(s) \in Nat /\ Cardinality(PushRefs(s)) \in Nat
  BY PushesOnce DEF IsConfirmed, IsSigned
<1>2. ~ Repeats(t)
  BY <1>1 DEF Repeats, HasRefs
<1>3. v \in Versions /\ \A i \in DOMAIN t.raw.inputs : Hidden(v, t, i)
  BY <1>2 DEF Hidden, RefDefects, Versions
<1>. QED  BY <1>3, HiddenIsRight

\* An explorer's amount is an amount.
LEMMA DescribedIsNat ==
  ASSUME NEW coin, IsCoin(coin), NEW word
  PROVE  Described(coin, word).value \in Nat
<1>1. Described(coin, word).value = IF word = "amount" THEN coin.value + 1 ELSE coin.value
  BY DEF Described, IsCoin
<1>. QED  BY <1>1 DEF IsCoin

\* The first input's signature of the funding transaction.
LEMMA SelfExposes ==
  ASSUME NEW v \in Versions, CheckA[v]
  PROVE  v \notin {"encoder", "omitted"}
<1>1. IsConfirmed(Funding)
  BY TransactionAssumption DEF Transactions
<1>2. 1 \in DOMAIN Funding.raw.inputs /\ Funding.coins[1].value \in Nat
  BY <1>1 DEF IsConfirmed, IsSigned, IsCoin
<1>3. Hidden(v, Funding, 1)
  BY <1>1, <1>2, SignedHides DEF CheckA
<1>. QED  BY <1>3 DEF Hidden

\* A signature of an input that is not the first.
LEMMA LaterInputExposes ==
  ASSUME NEW v \in Versions, NEW t, IsConfirmed(t), NEW i \in DOMAIN t.raw.inputs, i # 1,
         NEW coin, coin.value \in Nat, VersionSighash(v, t, i, coin) = Signed(t, i)
  PROVE  v \in {"right"} \cup RefDefects
<1>1. Hidden(v, t, i)
  BY SignedHides
<1>. DEFINE n == Len(t.raw.inputs)
<1>2. n \in Nat /\ i \in 1 .. n
  BY DEF IsConfirmed, IsSigned
<1>. HIDE DEF n
<1>3. n # 1
  BY <1>2
<1>4. Len(t.raw.inputs) # 1
  BY <1>3 DEF n
<1>. QED  BY <1>1, <1>4 DEF Hidden, Versions, RefDefects

LEMMA VectorsExpose ==
  ASSUME NEW v \in Versions, \A k \in DOMAIN Targets : RightAbout(v, Targets[k])
  PROVE  v \in {"right"} \cup RefDefects
<1>1. PICK k \in DOMAIN Targets : Len(Targets[k].raw.inputs) > 1
  BY ShapeAssumption
<1>. DEFINE t == Targets[k]
<1>2. IsConfirmed(t)
  BY TargetAssumption
<1>3. 2 \in DOMAIN t.raw.inputs
  BY <1>1, <1>2 DEF IsConfirmed, IsSigned
<1>4. t.coins[2].value \in Nat
  BY <1>2, <1>3 DEF IsConfirmed, IsSigned, IsCoin
<1>5. VersionSighash(v, t, 2, t.coins[2]) = Signed(t, 2)
  BY <1>3 DEF RightAbout
<1>. HIDE DEF t
<1>. QED  BY <1>2, <1>3, <1>4, <1>5, LaterInputExposes

LEMMA SamplesExpose ==
  ASSUME NEW v \in Versions,
         \A i \in Sampled(Consolidation) :
           \E w \in ExplorerWords : SampleOk(v, Consolidation, i, w)
  PROVE  v \in {"right"} \cup RefDefects
<1>1. PICK i \in Sampled(Consolidation) : i # 1
  BY ShapeAssumption
<1>. DEFINE t == Consolidation
<1>2. IsConfirmed(t) /\ i \in DOMAIN t.raw.inputs
  BY TransactionAssumption DEF Transactions, Sampled
<1>3. PICK w : SampleOk(v, t, i, w)
  BY <1>1
<1>4. Described(t.coins[i], w).value \in Nat
  BY <1>2, DescribedIsNat DEF IsConfirmed, IsSigned
<1>5. VersionSighash(v, t, i, Described(t.coins[i], w)) = Signed(t, i)
  BY <1>2, <1>3, PublishedIsSigned DEF SampleOk, SignatureOk
<1>. QED  BY <1>1, <1>2, <1>4, <1>5, LaterInputExposes

\* The second input of the Glyph transaction; the test cannot pass on another
\* transaction, whose second signature is for another coin.
LEMMA MainnetExposes ==
  ASSUME NEW v \in Versions, NEW t \in GlyphFiles, MainnetPass(v, t)
  PROVE  v \in {"right", "refsRepeated"}
<1>1. /\ t # Absent /\ 2 \in DOMAIN t.raw.inputs
      /\ VersionSighash(v, t, 2, GlyphTx.coins[2]) = Signed(t, 2)
  BY DEF MainnetPass
<1>2. IsConfirmed(t)
  BY <1>1, TransactionAssumption DEF Transactions
<1>3. /\ Hidden(v, t, 2)
      /\ GlyphTx.coins[2].value = t.coins[2].value
      /\ GlyphTx.coins[2].script_pubkey = t.coins[2].script_pubkey
  BY <1>1, <1>2, ShapeAssumption, SignedHides
<1>4. t = GlyphTx
  BY <1>1, <1>3, ShapeAssumption
<1>5. v \in {"right"} \cup RefDefects
  BY <1>1, <1>2, ShapeAssumption, LaterInputExposes
<1>6. HasRefs(t)
  BY <1>4, ShapeAssumption
<1>. QED  BY <1>3, <1>5, <1>6 DEF Hidden, RefDefects

\* The table Rightly holds what it says.
LEMMA AllRight ==
  ASSUME NEW v \in Versions, NEW txs \in SUBSET Judged
  PROVE  RightAboutAll(v, txs) <=> \A t \in txs : RightAbout(v, t)
  BY DEF RightAboutAll, Rightly

\* Each word about the oracle, and the transactions it covers.
LEMMA EvidenceSound == TrustInv /\ EvidenceInv => EvidenceIsSound
<1>. SUFFICES ASSUME TrustInv, EvidenceInv PROVE EvidenceIsSound
  OBVIOUS
<1>1. oracle \in Versions
  BY DEF TrustInv, FixtureInv
<1>2. \A t \in Judged : IsConfirmed(t)
  BY TransactionAssumption DEF Transactions
<1>3. ASSUME evidence \cap {"vectors", "samples"} # {}
      PROVE  RightAboutAll(oracle, {t \in Judged : ~ HasRefs(t)})
  <2>1. oracle \in {"right"} \cup RefDefects
    BY <1>1, <1>3, VectorsExpose, SamplesExpose DEF EvidenceInv, Shows
  <2>. QED  BY <1>1, <1>2, <2>1, RefDefectsAreRight, AllRight
<1>4. ASSUME "self" \in evidence, NEW t \in Judged, ~ HasRefs(t), Len(t.raw.inputs) = 1
      PROVE  RightAbout(oracle, t)
  <2>1. oracle \notin {"encoder", "omitted"}
    BY <1>1, <1>4, SelfExposes DEF EvidenceInv, Shows
  <2>2. CASE oracle \in {"right"} \cup RefDefects
    BY <1>2, <1>4, <2>2, RefDefectsAreRight
  <2>3. CASE oracle \in {"outpoint", "firstPrevout"}
    <3>1. \A i \in DOMAIN t.raw.inputs : i = 1
      BY <1>2, <1>4 DEF IsConfirmed, IsSigned
    <3>2. \A i \in DOMAIN t.raw.inputs : Hidden(oracle, t, i)
      BY <1>4, <2>3, <3>1 DEF Hidden
    <3>. QED  BY <1>1, <1>2, <3>2, HiddenIsRight
  <2>. QED  BY <1>1, <2>1, <2>2, <2>3 DEF Versions, RefDefects
<1>5. ASSUME "mainnet" \in evidence, NEW t \in Judged, ~ Repeats(t)
      PROVE  RightAbout(oracle, t)
  <2>1. oracle \in {"right", "refsRepeated"}
    BY <1>1, <1>5, MainnetExposes DEF EvidenceInv, Shows
  <2>2. \A i \in DOMAIN t.raw.inputs : Hidden(oracle, t, i)
    BY <1>5, <2>1 DEF Hidden
  <2>. QED  BY <1>1, <1>2, <2>2, HiddenIsRight
<1>. QED  BY <1>1, <1>3, <1>4, <1>5, AllRight DEF EvidenceIsSound

\* The script of four pushes, one of them a repetition.
LEMMA RepetitionCounts ==
  LET c == [ops |-> <<Push("high"), Push("low"), Singleton("mid"), Push("high")>>, total |-> 3,
            refs |-> {"high", "low", "mid"}]
  IN  c \in RefCases /\ PushCount(c) = 4
<1>. DEFINE ops == <<Push("high"), Push("low"), Singleton("mid"), Push("high")>>
            c == [ops |-> ops, total |-> 3, refs |-> {"high", "low", "mid"}]
            pushes == {"OP_PUSHINPUTREF", "OP_PUSHINPUTREFSINGLETON"}
            K == {k \in DOMAIN c.ops : c.ops[k].op \in pushes}
<1>1. c \in RefCases
  BY DEF RefCases
<1>2. /\ DOMAIN ops = 1 .. 4
      /\ ops[1].op \in pushes /\ ops[2].op \in pushes
      /\ ops[3].op \in pushes /\ ops[4].op \in pushes
  BY DEF Push, Singleton
<1>3. PushCount(c) = Cardinality(K) /\ c.ops = ops
  BY DEF PushCount
<1>4. K = 1 .. 4
  <2>. HIDE DEF ops, pushes
  <2>1. \A k \in 1 .. 4 : k = 1 \/ k = 2 \/ k = 3 \/ k = 4
    OBVIOUS
  <2>. QED  BY <1>2, <1>3, <2>1
<1>5. Cardinality(1 .. 4) = 4
  <2>. DEFINE a == 1
              b == 4
  <2>1. a \in Int /\ b \in Int /\ ~ (a > b) /\ b - a + 1 = 4
    OBVIOUS
  <2>. HIDE DEF a, b
  <2>2. Cardinality(a .. b) = IF a > b THEN 0 ELSE b - a + 1
    BY <2>1, FS_Interval
  <2>. QED  BY <2>1, <2>2 DEF a, b
<1>. QED  BY <1>1, <1>3, <1>4, <1>5

\* The push-ref tests fail for both defects in the references.
LEMMA RefsExpose ==
  ASSUME NEW v \in Versions, RefsPass[v]
  PROVE  v \notin RefDefects
<1>. DEFINE Summary(c) == VersionSummary(v, [value |-> 0, script_pubkey |-> c])
            Whole(c) == PerOutputSummary([value |-> 0, script_pubkey |-> c])
<1>1. \A c \in RefCases : Summary(c).totalRefs = c.total
  BY DEF RefsPass
<1>2. \A c : {"totalRefs", "refsHash"} \subseteq DOMAIN Whole(c)
  BY DEF PerOutputSummary
<1>3. v # "refsIgnored"
  <2>. DEFINE c == [ops |-> <<Push("a")>>, total |-> 1, refs |-> {"a"}]
  <2>1. c \in RefCases
    BY DEF RefCases
  <2>2. c.total = 1
    OBVIOUS
  <2>. HIDE DEF c
  <2>3. v = "refsIgnored" => Summary(c) = [Whole(c) EXCEPT !.totalRefs = 0, !.refsHash = ZERO_32]
    BY DEF VersionSummary
  <2>4. v = "refsIgnored" => Summary(c).totalRefs = 0
    <3>. HIDE DEF Summary, Whole
    <3>. QED  BY <1>2, <2>3
  <2>5. Summary(c).totalRefs = 1
    BY <1>1, <2>1, <2>2
  <2>. QED  BY <2>4, <2>5
<1>4. v # "refsRepeated"
  <2>. DEFINE c == [ops |-> <<Push("high"), Push("low"), Singleton("mid"), Push("high")>>,
                    total |-> 3, refs |-> {"high", "low", "mid"}]
  <2>1. c \in RefCases /\ PushCount(c) = 4
    BY RepetitionCounts
  <2>2. c.total = 3
    OBVIOUS
  <2>. HIDE DEF c
  <2>3. v = "refsRepeated" => Summary(c) = [Whole(c) EXCEPT !.totalRefs = PushCount(c)]
    BY DEF VersionSummary
  <2>4. v = "refsRepeated" => Summary(c).totalRefs = 4
    <3>. HIDE DEF Summary, Whole
    <3>. QED  BY <1>2, <2>1, <2>3
  <2>5. Summary(c).totalRefs = 3
    BY <1>1, <2>1, <2>2
  <2>. QED  BY <2>4, <2>5
<1>. QED  BY <1>3, <1>4 DEF RefDefects

\* An oracle vouched for has no defect.
LEMMA VouchedIsRight ==
  ASSUME TrustInv, EvidenceInv, Vouched
  PROVE  oracle = "right"
<1>1. oracle \in Versions
  BY DEF TrustInv, FixtureInv
<1>2. oracle \notin RefDefects
  BY <1>1, RefsExpose DEF Vouched, EvidenceInv, Shows
<1>3. oracle \in {"right"} \cup RefDefects
  <2>1. CASE evidence \cap {"vectors", "samples"} # {}
    BY <1>1, <2>1, VectorsExpose, SamplesExpose DEF EvidenceInv, Shows
  <2>2. CASE "mainnet" \in evidence
    BY <1>1, <2>2, MainnetExposes DEF EvidenceInv, Shows, RefDefects
  <2>. QED  BY <2>1, <2>2 DEF Vouched
<1>. QED  BY <1>2, <1>3

LEMMA EvidenceComplete == TrustInv /\ EvidenceInv => EvidenceIsComplete
<1>. SUFFICES ASSUME TrustInv, EvidenceInv, Vouched
              PROVE  RightAboutAll(oracle, Judged)
  BY DEF EvidenceIsComplete
<1>1. oracle = "right" /\ "right" \in Versions
  BY VouchedIsRight DEF Versions
<1>2. ASSUME NEW t \in Judged
      PROVE  RightAbout(oracle, t)
  <2>1. \A i \in DOMAIN t.raw.inputs : Hidden("right", t, i)
    BY DEF Hidden
  <2>2. IsConfirmed(t)
    BY TransactionAssumption DEF Transactions
  <2>. QED  BY <1>1, <2>1, <2>2, HiddenIsRight
<1>. QED  BY <1>1, <1>2, AllRight

-----------------------------------------------------------------------------
(***************************************************************************)
(* The device on the desk.                                                 *)
(***************************************************************************)
\* The transaction of a harness, as the oracle has it and as it is serialized.
LEMMA HarnessTxIs ==
  ASSUME NEW kind
  PROVE  LET tx == HarnessTx(kind)
             raw == HarnessRaw(kind)
             id == Reversed(Display(Pinned.txid))
         IN  /\ tx.version = 2 /\ tx.locktime = 0 /\ tx.outputs = HarnessOutputs(kind)
             /\ DOMAIN tx.inputs = {1} /\ tx.inputs[1].sequence = SEQUENCE
             /\ Reversed(tx.inputs[1].prev_txid) = id /\ tx.inputs[1].prev_vout = Pinned.vout
             /\ raw.version = 2 /\ raw.locktime = 0 /\ raw.outputs = HarnessOutputs(kind)
             /\ DOMAIN raw.inputs = {1} /\ raw.inputs[1].sequence = SEQUENCE
             /\ raw.inputs[1].prev_txid = id /\ raw.inputs[1].prev_vout = Pinned.vout
<1>. DEFINE input == [prev_txid |-> Display(Pinned.txid), prev_vout |-> Pinned.vout,
                      script_sig |-> <<>>, sequence |-> SEQUENCE]
            wire == [input EXCEPT !.prev_txid = Reversed(input.prev_txid)]
            tx == HarnessTx(kind)
<1>1. tx = [version |-> 2, inputs |-> <<input>>, outputs |-> HarnessOutputs(kind), locktime |-> 0]
  BY DEF HarnessTx, OracleOutputs
<1>2. /\ wire.prev_txid = Reversed(Display(Pinned.txid)) /\ wire.prev_vout = Pinned.vout
      /\ wire.sequence = SEQUENCE
  OBVIOUS
<1>3. /\ input.prev_txid = Display(Pinned.txid) /\ input.prev_vout = Pinned.vout
      /\ input.sequence = SEQUENCE
  OBVIOUS
<1>4. tx.inputs = <<input>>
  BY <1>1
<1>5. tx.inputs[1] = input
  BY <1>4
<1>6. HarnessRaw(kind) = [tx EXCEPT !.inputs = <<wire>>]
  BY <1>5 DEF HarnessRaw
<1>. HIDE DEF input, wire, tx
<1>7. HarnessRaw(kind).inputs = <<wire>> /\ HarnessRaw(kind).version = 2
      /\ HarnessRaw(kind).locktime = 0 /\ HarnessRaw(kind).outputs = HarnessOutputs(kind)
  BY <1>1, <1>6
<1>. QED  BY <1>1, <1>2, <1>3, <1>7 DEF tx

\* The right oracle computes what a node does for the coin the constants describe.
LEMMA HarnessDigestIs ==
  ASSUME NEW kind
  PROVE  HarnessDigest("right", kind)
           = ConsensusSighash(HarnessRaw(kind), 1, Chain[Pinned.txid][Pinned.vout])
<1>. DEFINE tx == HarnessTx(kind)
            raw == HarnessRaw(kind)
            coin == Chain[Pinned.txid][Pinned.vout]
            right == ComputeRadiantSighash(tx, 1, Pinned.spk, Pinned.value, SIGHASH_ALL_FORKID).sha256d
            summaries == Sha256d([k \in DOMAIN tx.outputs |-> VersionSummary("right", tx.outputs[k])])
<1>1. /\ tx.version = 2 /\ tx.locktime = 0 /\ tx.outputs = HarnessOutputs(kind)
      /\ DOMAIN tx.inputs = {1} /\ tx.inputs[1].sequence = SEQUENCE
      /\ Reversed(tx.inputs[1].prev_txid) = Reversed(Display(Pinned.txid))
      /\ tx.inputs[1].prev_vout = Pinned.vout
      /\ raw.version = 2 /\ raw.locktime = 0 /\ raw.outputs = HarnessOutputs(kind)
      /\ DOMAIN raw.inputs = {1} /\ raw.inputs[1].sequence = SEQUENCE
      /\ raw.inputs[1].prev_txid = Reversed(Display(Pinned.txid))
      /\ raw.inputs[1].prev_vout = Pinned.vout
  BY HarnessTxIs
<1>2. coin.script_pubkey = Pinned.spk /\ coin.value = Pinned.value
  BY PinnedAssumption
<1>. HIDE DEF tx, raw, coin
<1>3. GetPrevoutHash(tx) = Sha256d([k \in DOMAIN raw.inputs |-> [txid |-> raw.inputs[k].prev_txid,
                                                              vout |-> raw.inputs[k].prev_vout]])
  BY <1>1 DEF GetPrevoutHash
<1>4. GetSequenceHash(tx) = Sha256d([k \in DOMAIN raw.inputs |-> raw.inputs[k].sequence])
  BY <1>1 DEF GetSequenceHash
<1>5. /\ GetOutputsHash(tx) = Sha256d(SerializeOutputs(raw.outputs))
      /\ GetHashOutputHashes(tx)
           = Sha256d([k \in DOMAIN raw.outputs |-> PerOutputSummary(raw.outputs[k])])
  BY <1>1 DEF GetOutputsHash, GetHashOutputHashes
<1>6. ComputeRadiantSighash(tx, 1, Pinned.spk, Pinned.value, SIGHASH_ALL_FORKID)
        = ConsensusSighash(raw, 1, coin)
  BY <1>1, <1>2, <1>3, <1>4, <1>5 DEF ComputeRadiantSighash, ConsensusSighash
<1>7. VersionPreimage("right", tx, 1, Pinned.spk, Pinned.value) = right
  <2>1. VersionPreimage("right", tx, 1, Pinned.spk, Pinned.value)
          = [right EXCEPT !.hashOutputHashes = summaries]
    BY DEF VersionPreimage
  <2>2. summaries = GetHashOutputHashes(tx)
    BY DEF VersionSummary, GetHashOutputHashes
  <2>3. right.hashOutputHashes = GetHashOutputHashes(tx) /\ right = [f \in FieldNames |-> right[f]]
    BY DEF ComputeRadiantSighash, Sha256d, FieldNames
  <2>. HIDE DEF right, summaries
  <2>. QED  BY <2>1, <2>2, <2>3
<1>8. Sha256d(right) = ConsensusSighash(raw, 1, coin)
  BY <1>6 DEF ConsensusSighash, Sha256d
<1>. QED  BY <1>7, <1>8 DEF HarnessDigest, tx, raw, coin

LEMMA DeviceVindicated == TrustInv /\ EvidenceInv => DeviceIsVindicated
<1>. DEFINE coin == Chain[Pinned.txid][Pinned.vout]
<1>. SUFFICES ASSUME TrustInv, EvidenceInv, "glyph" \in evidence, Vouched
              PROVE  /\ Hash160(PubKey(bench.seed, Pinned.path)) = coin.script_pubkey.pkh
                     /\ SignedByDevice(bench, "glyph")
                          = ConsensusSighash(HarnessRaw("glyph"), 1, coin)
  BY DEF DeviceIsVindicated
<1>1. oracle = "right"
  BY VouchedIsRight
<1>2. Answers(bench, "glyph") /\ HarnessPass("right", bench, "glyph")
  BY <1>1 DEF EvidenceInv, Shows, Harnesses
<1>3. Hash160(PubKey(bench.seed, Pinned.path)) = coin.script_pubkey.pkh
  BY <1>2, PinnedAssumption DEF Answers, AddressOk
<1>4. SignedByDevice(bench, "glyph") = ConsensusSighash(HarnessRaw("glyph"), 1, coin)
  BY <1>2, HarnessDigestIs DEF HarnessPass
<1>. QED  BY <1>3, <1>4

\* The fields in which the two harnesses differ.
OutputFields == {"hashOutputHashes", "hashOutputs"}

\* A digest over a preimage with all the fields.
IsPreimage(p) == p = [f \in FieldNames |-> p[f]]

LEMMA DeviceSigns ==
  ASSUME NEW b
  PROVE  LET D(kind) == SignedByDevice(b, kind).sha256d IN
         \A kind :
           /\ SignedByDevice(b, kind) = Sha256d(D(kind)) /\ IsPreimage(D(kind))
           /\ D(kind).hashOutputs = Sha256d(SerializeOutputs(HarnessOutputs(kind)))
           /\ \A f \in FieldNames \ OutputFields : D(kind)[f] = D("plain")[f]
<1>. DEFINE ti == TrustedInput(b.prev, Pinned.vout)
            new == NewTransaction(FreshDevice(b.seed, b.firmware), <<ti>>)
            cur == [ti |-> ti, code |-> Pinned.spk]
            dev(kind) == [new EXCEPT !.change = Pinned.path,
                                     !.streamed = SerializeOutputs(HarnessOutputs(kind)),
                                     !.final = TRUE, !.current = <<cur>>]
            D(kind) == SignedByDevice(b, kind).sha256d
<1>1. /\ DOMAIN new = {"seed", "firmware", "change", "prevouts", "streamed", "final",
                       "prompted", "current"}
      /\ new.prevouts = <<ti>>
  BY DEF NewTransaction, FreshDevice
<1>. HIDE DEF new, cur
<1>2. \A kind : SignedByDevice(b, kind) = DeviceDigest(dev(kind))
  BY DEF SignedByDevice, new, cur
<1>3. \A kind : /\ dev(kind).prevouts = <<ti>> /\ dev(kind).current = <<cur>>
                /\ dev(kind).streamed = SerializeOutputs(HarnessOutputs(kind))
  BY <1>1
<1>. HIDE DEF dev, ti
<1>4. \A d : /\ DeviceDigest(d) = Sha256d(DeviceDigest(d).sha256d)
             /\ IsPreimage(DeviceDigest(d).sha256d)
             /\ DeviceDigest(d).sha256d.hashOutputs = Sha256d(d.streamed)
  BY DEF DeviceDigest, Sha256d, IsPreimage, FieldNames
<1>5. \A d, e : d.prevouts = e.prevouts /\ d.current = e.current =>
        \A f \in FieldNames \ OutputFields :
          DeviceDigest(d).sha256d[f] = DeviceDigest(e).sha256d[f]
  <2>. SUFFICES ASSUME NEW d, NEW e, d.prevouts = e.prevouts, d.current = e.current
                PROVE  \A f \in FieldNames \ OutputFields :
                         DeviceDigest(d).sha256d[f] = DeviceDigest(e).sha256d[f]
    OBVIOUS
  <2>. DEFINE p == DeviceDigest(d).sha256d
              q == DeviceDigest(e).sha256d
              c == d.current[1]
              points == [k \in DOMAIN d.prevouts |->
                           [txid |-> d.prevouts[k].txid, vout |-> d.prevouts[k].vout]]
              sequences == [k \in DOMAIN d.prevouts |-> d.prevouts[k].sequence]
              Fields(x) ==
                /\ x.version = 2 /\ x.hashPrevouts = Sha256d(points)
                /\ x.hashSequence = Sha256d(sequences)
                /\ x.txid = c.ti.txid /\ x.vout = c.ti.vout /\ x.scriptCode = c.code
                /\ x.value = c.ti.value /\ x.sequence = c.ti.sequence
                /\ x.locktime = 0 /\ x.sighashType = SIGHASH_ALL_FORKID
  <2>1. Fields(p)
    BY DEF DeviceDigest, Sha256d
  <2>2. Fields(q)
    BY DEF DeviceDigest, Sha256d
  <2>. HIDE DEF p, q, c, points, sequences
  <2>3. \A f \in FieldNames \ OutputFields : p[f] = q[f]
    BY <2>1, <2>2 DEF FieldNames, OutputFields
  <2>. QED  BY <2>3 DEF p, q
<1>6. \A kind : \A f \in FieldNames \ OutputFields : D(kind)[f] = D("plain")[f]
  BY <1>2, <1>3, <1>5
<1>7. \A kind : /\ SignedByDevice(b, kind) = Sha256d(D(kind)) /\ IsPreimage(D(kind))
                /\ D(kind).hashOutputs = Sha256d(SerializeOutputs(HarnessOutputs(kind)))
  BY <1>2, <1>3, <1>4
<1>. QED  BY <1>6, <1>7

LEMMA OracleIntends ==
  LET O(kind) == HarnessDigest("right", kind).sha256d IN
  \A kind :
    /\ HarnessDigest("right", kind) = Sha256d(O(kind)) /\ IsPreimage(O(kind))
    /\ O(kind).hashOutputs = Sha256d(SerializeOutputs(HarnessOutputs(kind)))
    /\ \A f \in FieldNames \ OutputFields : O(kind)[f] = O("plain")[f]
<1>. DEFINE O(kind) == HarnessDigest("right", kind).sha256d
            coin == Chain[Pinned.txid][Pinned.vout]
            C(raw) == ConsensusSighash(raw, 1, coin)
<1>1. \A kind : HarnessDigest("right", kind) = C(HarnessRaw(kind))
  BY HarnessDigestIs
<1>2. \A kind : /\ HarnessRaw(kind).outputs = HarnessOutputs(kind)
                /\ HarnessRaw(kind).inputs = HarnessRaw("plain").inputs
                /\ HarnessRaw(kind).version = 2 /\ HarnessRaw(kind).locktime = 0
  <2>. SUFFICES ASSUME NEW kind
                PROVE  /\ HarnessRaw(kind).outputs = HarnessOutputs(kind)
                       /\ HarnessRaw(kind).inputs = HarnessRaw("plain").inputs
                       /\ HarnessRaw(kind).version = 2 /\ HarnessRaw(kind).locktime = 0
    OBVIOUS
  <2>1. HarnessTx(kind).inputs = HarnessTx("plain").inputs
        /\ DOMAIN HarnessTx(kind) = {"version", "inputs", "outputs", "locktime"}
        /\ DOMAIN HarnessTx("plain") = {"version", "inputs", "outputs", "locktime"}
    BY DEF HarnessTx
  <2>2. HarnessRaw(kind).inputs = HarnessRaw("plain").inputs
    BY <2>1 DEF HarnessRaw
  <2>. QED  BY <2>2, HarnessTxIs
<1>3. \A raw : /\ C(raw) = Sha256d(C(raw).sha256d) /\ IsPreimage(C(raw).sha256d)
               /\ C(raw).sha256d.hashOutputs = Sha256d(SerializeOutputs(raw.outputs))
  BY DEF ConsensusSighash, Sha256d, IsPreimage, FieldNames
<1>4. \A r, s : r.inputs = s.inputs /\ r.version = s.version /\ r.locktime = s.locktime =>
        \A f \in FieldNames \ OutputFields : C(r).sha256d[f] = C(s).sha256d[f]
  <2>. SUFFICES ASSUME NEW r, NEW s, r.inputs = s.inputs, r.version = s.version,
                       r.locktime = s.locktime
                PROVE  \A f \in FieldNames \ OutputFields : C(r).sha256d[f] = C(s).sha256d[f]
    OBVIOUS
  <2>. DEFINE p == C(r).sha256d
              q == C(s).sha256d
              input == r.inputs[1]
              points == [k \in DOMAIN r.inputs |->
                           [txid |-> r.inputs[k].prev_txid, vout |-> r.inputs[k].prev_vout]]
              sequences == [k \in DOMAIN r.inputs |-> r.inputs[k].sequence]
              Fields(x) ==
                /\ x.version = r.version /\ x.hashPrevouts = Sha256d(points)
                /\ x.hashSequence = Sha256d(sequences)
                /\ x.txid = input.prev_txid /\ x.vout = input.prev_vout
                /\ x.scriptCode = coin.script_pubkey /\ x.value = coin.value
                /\ x.sequence = input.sequence
                /\ x.locktime = r.locktime /\ x.sighashType = SIGHASH_ALL_FORKID
  <2>1. Fields(p)
    BY DEF ConsensusSighash, Sha256d
  <2>2. Fields(q)
    BY DEF ConsensusSighash, Sha256d
  <2>. HIDE DEF p, q, input, points, sequences, coin
  <2>3. \A f \in FieldNames \ OutputFields : p[f] = q[f]
    BY <2>1, <2>2 DEF FieldNames, OutputFields
  <2>. QED  BY <2>3 DEF p, q
<1>. HIDE DEF C
<1>5. \A kind : \A f \in FieldNames \ OutputFields : O(kind)[f] = O("plain")[f]
  BY <1>1, <1>2, <1>4
<1>. QED  BY <1>1, <1>2, <1>3, <1>5

\* Where the plain transaction passes, all but the outputs' hashes are right, and
\* the outputs themselves are streamed as they are serialized.
LEMMA DiagnosisRight == TrustInv /\ EvidenceInv => DiagnosisIsRight
<1>. DEFINE D(kind) == SignedByDevice(bench, kind).sha256d
            O(kind) == HarnessDigest("right", kind).sha256d
<1>. SUFFICES ASSUME TrustInv, EvidenceInv, "glyph failed" \in evidence, "plain" \in evidence,
                     Vouched
              PROVE  {f \in DOMAIN O("glyph") : D("glyph")[f] # O("glyph")[f]}
                       = {"hashOutputHashes"}
  BY DEF DiagnosisIsRight
<1>1. oracle = "right"
  BY VouchedIsRight
<1>2. HarnessPass("right", bench, "plain") /\ ~ HarnessPass("right", bench, "glyph")
  BY <1>1 DEF EvidenceInv, Shows, Harnesses
<1>3. D("plain") = O("plain") /\ SignedByDevice(bench, "glyph") # HarnessDigest("right", "glyph")
  BY <1>2 DEF HarnessPass
<1>4. \A kind :
        /\ SignedByDevice(bench, kind) = Sha256d(D(kind)) /\ IsPreimage(D(kind))
        /\ D(kind).hashOutputs = Sha256d(SerializeOutputs(HarnessOutputs(kind)))
        /\ \A f \in FieldNames \ OutputFields : D(kind)[f] = D("plain")[f]
  BY DeviceSigns
<1>5. \A kind :
        /\ HarnessDigest("right", kind) = Sha256d(O(kind)) /\ IsPreimage(O(kind))
        /\ O(kind).hashOutputs = Sha256d(SerializeOutputs(HarnessOutputs(kind)))
        /\ \A f \in FieldNames \ OutputFields : O(kind)[f] = O("plain")[f]
  BY OracleIntends
<1>. HIDE DEF D, O
<1>6. D("glyph") # O("glyph")
  BY <1>3, <1>4, <1>5
<1>7. \A f \in FieldNames \ {"hashOutputHashes"} : D("glyph")[f] = O("glyph")[f]
  BY <1>3, <1>4, <1>5 DEF OutputFields
<1>8. DOMAIN O("glyph") = FieldNames /\ "hashOutputHashes" \in FieldNames
  BY <1>5 DEF IsPreimage, FieldNames
<1>9. \E f \in FieldNames : D("glyph")[f] # O("glyph")[f]
  BY <1>4, <1>5, <1>6 DEF IsPreimage
<1>. QED  BY <1>7, <1>8, <1>9

-----------------------------------------------------------------------------
LEMMA EvidenceStays == Spec => [](TrustInv /\ EvidenceInv)
<1>. QED  BY InitInv, StepInv, InitEvidence, StepEvidence, PTL DEF Spec

\* For any transactions of the shapes assumed, what the vectors, the self-validation
\* and the Glyph test cover is hashed rightly by the oracle on disk.
THEOREM EvidenceStaysSound == Spec => []EvidenceIsSound
<1>. QED  BY EvidenceStays, EvidenceSound, PTL

\* Together with the push-ref tests, everything is.
THEOREM EvidenceStaysComplete == Spec => []EvidenceIsComplete
<1>. QED  BY EvidenceStays, EvidenceComplete, PTL

\* For any device, firmware and file of the harness: a device signature that the
\* Glyph harness verifies is one a node accepts.
THEOREM DeviceStaysVindicated == Spec => []DeviceIsVindicated
<1>. QED  BY EvidenceStays, DeviceVindicated, PTL

\* For any device: a failed Glyph harness beside a passed plain one points to
\* hashOutputHashes and to nothing else.
THEOREM DiagnosisStaysRight == Spec => []DiagnosisIsRight
<1>. QED  BY EvidenceStays, DiagnosisRight, PTL
=============================================================================
