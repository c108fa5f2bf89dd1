------------------------------- MODULE Device -------------------------------
(***************************************************************************)
(* The Ledger device the scripts talk to, modelled from how they use it    *)
(* through btchip, and the coins on the chain its trusted inputs come      *)
(* from.                                                                   *)
(***************************************************************************)
EXTENDS Preimage

CONSTANTS
  Chain,   \* transaction id -> its outputs, by output number
  Seeds,   \* the seeds of the devices that may be plugged in
  NoPath

ASSUME ChainAssumption ==
  \A t \in DOMAIN Chain : \A v \in DOMAIN Chain[t] : Chain[t][v].value \in Nat

\* "radiant" hashes hashOutputHashes into the preimage; "refless" does so without
\* the walk for references; "bch" leaves the field out.
Firmwares == {"radiant", "refless", "bch"}

\* 0xfffffffe, the sequence of every input; the scripts also write it feffffff.
SEQUENCE == "fffffffe"

(***************************************************************************)
(* Keys.  An address names the hash of a compressed public key.            *)
(***************************************************************************)
PubKey(seed, path) == [seed |-> seed, path |-> path]
Hash160(pk) == [hash160 |-> pk]

(***************************************************************************)
(* The signing context.                                                    *)
(***************************************************************************)
FreshDevice(seed, firmware) ==
  [seed |-> seed, firmware |-> firmware, change |-> NoPath, prevouts |-> <<>>,
   streamed |-> <<>>, final |-> FALSE, prompted |-> FALSE, current |-> <<>>]

(***************************************************************************)
(* The device.  getTrustedInput reads the outpoint and the amount off the  *)
(* previous transaction it is shown; the digest it signs is built from the *)
(* trusted inputs, the streamed outputs and the scriptCode of the current  *)
(* input.                                                                  *)
(***************************************************************************)
TrustedInput(t, vout) ==
  [txid |-> Reversed(Display(t)), vout |-> vout, value |-> Chain[t][vout].value,
   sequence |-> SEQUENCE]

NewTransaction(d, tis) ==
  [d EXCEPT !.prevouts = tis, !.streamed = <<>>, !.final = FALSE,
            !.prompted = FALSE, !.current = <<>>]

FirmwareOutputHashes(firmware, outs) ==
  CASE firmware = "radiant" -> Sha256d([k \in DOMAIN outs |-> PerOutputSummary(outs[k])])
    [] firmware = "refless" ->
         Sha256d([k \in DOMAIN outs |->
                    [PerOutputSummary(outs[k]) EXCEPT !.totalRefs = 0, !.refsHash = ZERO_32]])
    [] OTHER -> [omitted |-> TRUE]

DeviceDigest(d) ==
  LET cur == d.current[1] IN
  Sha256d([version          |-> 2,
           hashPrevouts     |-> Sha256d([k \in DOMAIN d.prevouts |->
                                  [txid |-> d.prevouts[k].txid, vout |-> d.prevouts[k].vout]]),
           hashSequence     |-> Sha256d([k \in DOMAIN d.prevouts |-> d.prevouts[k].sequence]),
           txid             |-> cur.ti.txid,
           vout             |-> cur.ti.vout,
           scriptCode       |-> cur.code,
           value            |-> cur.ti.value,
           sequence         |-> cur.ti.sequence,
           hashOutputHashes |-> FirmwareOutputHashes(d.firmware, ParseOutputs(d.streamed)),
           hashOutputs      |-> Sha256d(d.streamed),
           locktime         |-> 0,
           sighashType      |-> SIGHASH_ALL_FORKID])

\* The device asks the user unless every output is change to its own path.
Prompts(d, fields) ==
  \E n \in DOMAIN fields :
    fields[n].out.script_pubkey.pkh # Hash160(PubKey(d.seed, d.change))
=============================================================================
