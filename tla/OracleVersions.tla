--------------------------- MODULE OracleVersions ---------------------------
(***************************************************************************)
(* The oracle as something that can be wrong: radiant_preimage_oracle.py   *)
(* is edited by hand, and its test scripts are there to tell a version     *)
(* with a defect from the right one.  A version is the right code of       *)
(* Preimage, or that code with one defect.                                 *)
(***************************************************************************)
EXTENDS Preimage

Versions ==
  {"right",
   "encoder",       \* u64_le writes values wrongly, wherever they are written
   "omitted",       \* hashOutputHashes left out of the preimage, as other chains do
   "outpoint",      \* every input hashed with the outpoint of the first one
   "firstPrevout",  \* hashPrevouts over the first input only
   "refsIgnored",   \* no output is found to push a reference
   "refsRepeated"}  \* a reference pushed twice is counted twice

\* Defects of compute_radiant_sighash itself.  The others are in the functions
\* it calls, which a script may import on their own.
AssemblyDefects == {"omitted", "outpoint"}

\* The number the bytes of a wrongly written value stand for: no real value.
Garbled(value) == - value - 1

PushCount(script) ==
  Cardinality({k \in DOMAIN script.ops :
                 script.ops[k].op \in {"OP_PUSHINPUTREF", "OP_PUSHINPUTREFSINGLETON"}})

VersionSummary(v, out) ==
  LET right == PerOutputSummary(out) IN
  CASE v = "encoder"      -> [right EXCEPT !.value = Garbled(@)]
    [] v = "refsIgnored"  -> [right EXCEPT !.totalRefs = 0, !.refsHash = ZERO_32]
    [] v = "refsRepeated" -> [right EXCEPT !.totalRefs = PushCount(out.script_pubkey)]
    [] OTHER              -> right

VersionPreimage(v, tx, i, script, value) ==
  LET right == ComputeRadiantSighash(tx, i, script, value, SIGHASH_ALL_FORKID).sha256d
      summaries == Sha256d([k \in DOMAIN tx.outputs |-> VersionSummary(v, tx.outputs[k])])
      garbled == [k \in DOMAIN tx.outputs |-> [tx.outputs[k] EXCEPT !.value = Garbled(@)]]
  IN  CASE v = "encoder" ->
             [right EXCEPT !.value = Garbled(@), !.hashOutputHashes = summaries,
                           !.hashOutputs = Sha256d(SerializeOutputs(garbled))]
        [] v = "omitted" -> [right EXCEPT !.hashOutputHashes = [omitted |-> TRUE]]
        [] v = "outpoint" ->
             [right EXCEPT !.txid = Reversed(tx.inputs[1].prev_txid),
                           !.vout = tx.inputs[1].prev_vout]
        [] v = "firstPrevout" ->
             [right EXCEPT !.hashPrevouts = GetPrevoutHash([tx EXCEPT !.inputs = <<@[1]>>])]
        [] OTHER -> [right EXCEPT !.hashOutputHashes = summaries]

(***************************************************************************)
(* A transaction t as the explorer returns it: its serialization, the coins *)
(* its inputs spend, and who made its signatures.  A node checks them, the  *)
(* scripts only ask that each verify under the key beside it.  So for a     *)
(* transaction no node has accepted, t.coins and t.signer say which digests *)
(* whoever made the signatures put them over.                               *)
(***************************************************************************)
IsCoin(coin) == coin \in [value : Nat, script_pubkey : {coin.script_pubkey}]

IsSigned(t) ==
  /\ DOMAIN t.raw.inputs = 1 .. Len(t.raw.inputs) /\ Len(t.raw.inputs) \in Nat \ {0}
  /\ \A i \in DOMAIN t.raw.inputs : IsCoin(t.coins[i])
  /\ t.signer \in Versions

\* Accepted by a node: inputs with outpoints of their own, outputs whose scripts
\* end, and signatures over the digests a node computes.
IsConfirmed(t) ==
  /\ IsSigned(t) /\ t.signer = "right"
  /\ DOMAIN t.raw = {"version", "inputs", "outputs", "locktime"}
  /\ \A i \in DOMAIN t.raw.inputs :
       LET input == t.raw.inputs[i] IN
       /\ DOMAIN input = {"prev_txid", "prev_vout", "script_sig", "sequence"}
       /\ input.prev_txid \in [id : {input.prev_txid.id}, order : {"wire", "display"}]
  /\ \A i, j \in DOMAIN t.raw.inputs :
       i # j => \/ t.raw.inputs[i].prev_txid # t.raw.inputs[j].prev_txid
                \/ t.raw.inputs[i].prev_vout # t.raw.inputs[j].prev_vout
  /\ \A k \in DOMAIN t.raw.outputs :
       IsFiniteSet(DOMAIN t.raw.outputs[k].script_pubkey.ops)

VersionSighash(v, t, i, coin) ==
  Sha256d(VersionPreimage(v, ParseTransaction(t.raw), i, coin.script_pubkey, coin.value))

\* The digest a node asks the signature of input i to be over, and the one the
\* signature that is there is over.
Signed(t, i) == ConsensusSighash(t.raw, i, t.coins[i])
Published(t, i) == VersionSighash(t.signer, t, i, t.coins[i])

\* The version computes the digest of every input of t as a node does, or as the
\* signatures have it.
RightAbout(v, t) ==
  \A i \in DOMAIN t.raw.inputs : VersionSighash(v, t, i, t.coins[i]) = Signed(t, i)
Agrees(v, t) ==
  \A i \in DOMAIN t.raw.inputs : VersionSighash(v, t, i, t.coins[i]) = Published(t, i)
=============================================================================
