------------------------------ MODULE Preimage ------------------------------
(***************************************************************************)
(* The Radiant sighash preimage of scripts/radiant_preimage_oracle.py, at  *)
(* the level of the fields it hashes.                                      *)
(*                                                                         *)
(* Bytes are abstracted to what the preimage has to keep apart.  A hash is *)
(* an injective constructor.  The 32 bytes of a transaction id carry the   *)
(* order they are written in, because the code reverses them between the   *)
(* display order of its constants and the wire order of a serialized       *)
(* transaction.  A locking script is its reference opcodes followed by the *)
(* P2PKH tail that names one key hash.                                     *)
(***************************************************************************)
EXTENDS Integers, Sequences, FiniteSets

SIGHASH_ALL_FORKID == 65     \* 0x41

Sha256d(x) == [sha256d |-> x]

ZERO_32 == [zero |-> 32]

(***************************************************************************)
(* Transaction ids.  bytes[::-1] turns one order into the other.           *)
(***************************************************************************)
Display(t) == [id |-> t, order |-> "display"]

Reversed(b) ==
  [id |-> b.id, order |-> IF b.order = "display" THEN "wire" ELSE "display"]

(***************************************************************************)
(* The push-ref walk over one locking script and the summary it feeds.     *)
(* OP_REQUIREINPUTREF and OP_DISALLOWPUSHINPUTREFSIBLING references are    *)
(* stepped over: they reach no hash.                                       *)
(***************************************************************************)
RefsOf(script, opcodes) ==
  {script.ops[k].ref : k \in {j \in DOMAIN script.ops : script.ops[j].op \in opcodes}}

PushRefs(script) == RefsOf(script, {"OP_PUSHINPUTREF", "OP_PUSHINPUTREFSINGLETON"})

DisallowRefs(script) == RefsOf(script, {"OP_DISALLOWPUSHINPUTREF"})

\* get_push_refs_from_script raises on a reference both pushed and disallowed.
WalkRaises(script) == PushRefs(script) \cap DisallowRefs(script) # {}

\* Deduplicated and sorted, the references hashed are determined by their set.
RefsHash(refs) == IF refs = {} THEN ZERO_32 ELSE Sha256d(refs)

PerOutputSummary(out) ==
  LET refs == PushRefs(out.script_pubkey) IN
  [value      |-> out.value,
   scriptHash |-> Sha256d(out.script_pubkey),
   totalRefs  |-> Cardinality(refs),
   refsHash   |-> RefsHash(refs)]

(***************************************************************************)
(* Outputs are serialized as a value field and a script field each; a host *)
(* that streams them to the device cuts the serialization anywhere.        *)
(***************************************************************************)
SerializeOutputs(outs) ==
  [n \in 1 .. 2 * Len(outs) |->
     [out |-> outs[(n + 1) \div 2], field |-> IF n % 2 = 1 THEN "value" ELSE "script"]]

ParseOutputs(fields) == [k \in 1 .. Len(fields) \div 2 |-> fields[2 * k].out]

(***************************************************************************)
(* The four partial hashes of compute_radiant_sighash.                     *)
(***************************************************************************)
GetPrevoutHash(tx) ==
  Sha256d([k \in DOMAIN tx.inputs |->
             [txid |-> Reversed(tx.inputs[k].prev_txid), vout |-> tx.inputs[k].prev_vout]])

GetSequenceHash(tx) == Sha256d([k \in DOMAIN tx.inputs |-> tx.inputs[k].sequence])

GetOutputsHash(tx) == Sha256d(SerializeOutputs(tx.outputs))

GetHashOutputHashes(tx) ==
  Sha256d([k \in DOMAIN tx.outputs |-> PerOutputSummary(tx.outputs[k])])

\* Where compute_radiant_sighash and the packers it calls do not raise.
SighashDefined(tx, i, prevValue, sighashType) ==
  /\ sighashType = SIGHASH_ALL_FORKID
  /\ i \in DOMAIN tx.inputs
  /\ prevValue >= 0
  /\ \A k \in DOMAIN tx.outputs :
       /\ tx.outputs[k].value >= 0
       /\ ~ WalkRaises(tx.outputs[k].script_pubkey)

ComputeRadiantSighash(tx, i, prevScript, prevValue, sighashType) ==
  LET inp == tx.inputs[i] IN
  Sha256d([version          |-> tx.version,
           hashPrevouts     |-> GetPrevoutHash(tx),
           hashSequence     |-> GetSequenceHash(tx),
           txid             |-> Reversed(inp.prev_txid),
           vout             |-> inp.prev_vout,
           scriptCode       |-> prevScript,
           value            |-> prevValue,
           sequence         |-> inp.sequence,
           hashOutputHashes |-> GetHashOutputHashes(tx),
           hashOutputs      |-> GetOutputsHash(tx),
           locktime         |-> tx.locktime,
           sighashType      |-> sighashType])

\* parse_transaction: the wire fields as they are, except the reversed txids.
ParseTransaction(raw) ==
  [raw EXCEPT !.inputs =
     [k \in DOMAIN raw.inputs |->
        [raw.inputs[k] EXCEPT !.prev_txid = Reversed(raw.inputs[k].prev_txid)]]]

(***************************************************************************)
(* The digest a node checks a signature against, read off the serialized   *)
(* transaction directly: the fields of the preimage table in the           *)
(* repository's documentation, txids in the order they have on the wire.   *)
(***************************************************************************)
ConsensusSighash(raw, i, coin) ==
  Sha256d([version          |-> raw.version,
           hashPrevouts     |-> Sha256d([k \in DOMAIN raw.inputs |->
                                  [txid |-> raw.inputs[k].prev_txid,
                                   vout |-> raw.inputs[k].prev_vout]]),
           hashSequence     |-> Sha256d([k \in DOMAIN raw.inputs |-> raw.inputs[k].sequence]),
           txid             |-> raw.inputs[i].prev_txid,
           vout             |-> raw.inputs[i].prev_vout,
           scriptCode       |-> coin.script_pubkey,
           value            |-> coin.value,
           sequence         |-> raw.inputs[i].sequence,
           hashOutputHashes |-> Sha256d([k \in DOMAIN raw.outputs |->
                                  PerOutputSummary(raw.outputs[k])]),
           hashOutputs      |-> Sha256d(SerializeOutputs(raw.outputs)),
           locktime         |-> raw.locktime,
           sighashType      |-> SIGHASH_ALL_FORKID])
=============================================================================
