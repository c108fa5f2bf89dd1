---------------------------- MODULE SpendSession ----------------------------
(***************************************************************************)
(* The two-input spend scripts, scripts/spend_glyph_2in_transfer.py and    *)
(* scripts/spend_real_glyph_2in.py, with the helpers they share, talking   *)
(* to a Ledger device over one exchange at a time.                         *)
(*                                                                         *)
(* A plan is the block of constants at the top of a script; a run executes *)
(* main() for one plan.  The constants can be wrong about the chain: the   *)
(* operator patches them by hand for every spend.  The device keeps its    *)
(* signing context between runs, so a run that dies in the middle leaves   *)
(* it half way through a transaction.  Every run ends either by itself or  *)
(* by Abandon, which stands for an exception raised by an exchange, a user *)
(* who rejects on the device, a full disk and a kill alike.                *)
(***************************************************************************)
EXTENDS Device

CONSTANTS
  Plans,      \* the constant blocks the operator may run
  Block,      \* app.scriptBlockLength, counted in serialized fields
  MaxRuns,    \* bound: runs of the scripts
  NoPlan, NoTx, Absent, Torn

\* The trailing byte a device may put on a signature (0x41, or 0x01).
SighashBytes == {SIGHASH_ALL_FORKID, 1}

(***************************************************************************)
(* What the constant blocks agree on within one file: each input's         *)
(* expected address is the key hash its locking script ends in, the two    *)
(* inputs are different coins, and a transfer carries forward the          *)
(* reference its first input's script pushes.  Values, scripts and output  *)
(* numbers may all be wrong about the chain.                               *)
(***************************************************************************)
PlanOK(p) ==
  /\ p.kind \in {"transfer", "burn"}
  /\ p.fee \in Nat
  /\ DOMAIN p.ins = 1 .. 2
  /\ \A i \in 1 .. 2 : /\ p.ins[i].value \in Nat
                       /\ p.ins[i].addr = p.ins[i].spk.pkh
  /\ p.kind = "transfer" => p.ref \in PushRefs(p.ins[1].spk)

ASSUME PlanAssumption == \A p \in Plans : PlanOK(p)
ASSUME NoPlanAssumption == NoPlan \notin Plans
ASSUME BoundAssumption == Block \in Nat \ {0} /\ MaxRuns \in Nat
VARIABLES
  run,       \* the locals of the running script
  dev,       \* the device and its signing context
  released,  \* every signature a device has ever handed out
  file,      \* the output file of each script
  runs       \* runs started so far

vars == <<run, dev, released, file, runs>>

Files == {p.file : p \in Plans}

NoRun == [pc |-> "idle", plan |-> NoPlan, pks |-> <<>>, tis |-> <<>>,
          offset |-> 0, sigs |-> <<>>, raw |-> NoTx]

-----------------------------------------------------------------------------
(***************************************************************************)
(* What main() builds from the plan and the derived keys.                  *)
(***************************************************************************)
Paths(p) ==
  IF p.kind = "transfer" THEN <<p.ins[1].path, p.ins[2].path, p.destPath>>
                         ELSE <<p.ins[1].path, p.ins[2].path>>

OutValue(p) == p.ins[1].value + p.ins[2].value - p.fee

OutScript(p, pks) ==
  IF p.kind = "transfer"
  THEN [ops |-> <<[op |-> "OP_PUSHINPUTREFSINGLETON", ref |-> p.ref]>>,
        pkh |-> Hash160(pks[3])]
  ELSE [ops |-> <<>>, pkh |-> p.destHash]

Outputs(p, pks) == <<[value |-> OutValue(p), script_pubkey |-> OutScript(p, pks)]>>

\* The unsigned transaction the host computes its own sighashes from.
OracleTx(p, pks) ==
  [version |-> 2,
   inputs  |-> [i \in 1 .. 2 |->
     [prev_txid |-> Display(p.ins[i].txid), prev_vout |-> p.ins[i].vout,
      script_sig |-> <<>>, sequence |-> SEQUENCE]],
   outputs |-> Outputs(p, pks),
   locktime |-> 0]

OracleSighash(p, pks, i) ==
  ComputeRadiantSighash(OracleTx(p, pks), i, p.ins[i].spk, p.ins[i].value,
                        SIGHASH_ALL_FORKID)

OracleDefined(p, pks) ==
  \A i \in 1 .. 2 :
    SighashDefined(OracleTx(p, pks), i, p.ins[i].value, SIGHASH_ALL_FORKID)

\* Mutant: the two scriptSigs in each other's place.
AssembleTxSwapped(p, pks, ss) ==
  [version |-> 2,
   inputs  |-> [i \in 1 .. 2 |->
     [prev_txid |-> Reversed(Display(p.ins[i].txid)), prev_vout |-> p.ins[i].vout,
      script_sig |-> ss[3 - i], sequence |-> SEQUENCE]],
   outputs |-> Outputs(p, pks),
   locktime |-> 0]

\* The serialized signed transaction: wire order txids and the two scriptSigs.
AssembleTx(p, pks, ss) ==
  [version |-> 2,
   inputs  |-> [i \in 1 .. 2 |->
     [prev_txid |-> Reversed(Display(p.ins[i].txid)), prev_vout |-> p.ins[i].vout,
      script_sig |-> ss[i], sequence |-> SEQUENCE]],
   outputs |-> Outputs(p, pks),
   locktime |-> 0]

(***************************************************************************)
(* The helpers of _spend_helpers.py.                                       *)
(***************************************************************************)
\* Mutant: the previous transaction is handed to the device unchecked.
PrevTxUnchecked(t, in) == TRUE

\* H-6: the bytes on disk are a transaction t; they must hash to the pinned id.
PrevTxIntact(t, in) == t = in.txid

\* Mutant: the trailing sighash byte is not looked at.
SigAcceptableByPrefix(sig) == sig.der

\* C-1 and H-9: process_device_sig raises unless both hold.
SigAcceptable(sig) == sig.sighash = SIGHASH_ALL_FORKID /\ sig.der

\* Mutant: the signature is kept as the device returned it.
CanonicalSigAsReturned(sig) == [key |-> sig.key, digest |-> sig.digest, s |-> sig.s]

\* C-3: a high-S signature is normalised to low-S.
CanonicalSig(sig) == [key |-> sig.key, digest |-> sig.digest, s |-> "low"]

MakeScriptSig(sig, pk, sighashByte) == [sig |-> sig, pk |-> pk, sighash |-> sighashByte]

\* Mutant: only whose signature it is gets checked, not what it signs.
VerifyKeysOnly(p, pks, sigs) == \A i \in 1 .. 2 : sigs[i].sig.key = pks[i]

VerifyOracleSigs(p, pks, sigs) ==
  \A i \in 1 .. 2 : /\ sigs[i].sig.key = pks[i]
                    /\ sigs[i].sig.digest = OracleSighash(p, pks, i)

CheckRoundTripSighash(raw, p, pks) ==
  \A i \in 1 .. 2 :
    ComputeRadiantSighash(ParseTransaction(raw), i, p.ins[i].spk, p.ins[i].value,
                          SIGHASH_ALL_FORKID) = OracleSighash(p, pks, i)

-----------------------------------------------------------------------------
Init ==
  /\ run = NoRun
  /\ \E s \in Seeds, fw \in Firmwares : dev = FreshDevice(s, fw)
  /\ released = {}
  /\ file = [f \in Files |-> Absent]
  /\ runs = 0

\* main() returns or raises: its locals are gone.
Exit == run' = NoRun

\* "if not ok: return 1", or an exception where ok fails.
Require(ok, next) == run' = IF ok THEN next ELSE NoRun

\* getDongle: the device left from the last run, or one plugged in since.
StartRun(p) ==
  /\ run.pc = "idle"
  /\ runs < MaxRuns
  /\ runs' = runs + 1
  /\ run' = [NoRun EXCEPT !.pc = "derive", !.plan = p]
  /\ \/ UNCHANGED dev
     \/ \E s \in Seeds, fw \in Firmwares : dev' = FreshDevice(s, fw)
  /\ UNCHANGED <<released, file>>

\* derive_pubkey for the next path: IN0_PATH, IN1_PATH and, to transfer, DEST_PATH.
DerivePubkey ==
  /\ run.pc = "derive"
  /\ LET paths == Paths(run.plan)
         pks   == Append(run.pks, PubKey(dev.seed, paths[Len(run.pks) + 1]))
     IN  run' = [run EXCEPT !.pks = pks,
                            !.pc = IF Len(pks) = Len(paths) THEN "build" ELSE "derive"]
  /\ UNCHANGED <<dev, released, file, runs>>

AddressesMatch(p, pks) == \A i \in 1 .. 2 : Hash160(pks[i]) = p.ins[i].addr

\* The address check, then the oracle sighashes; nothing has reached the signer yet.
BuildTransaction ==
  /\ run.pc = "build"
  /\ Require(AddressesMatch(run.plan, run.pks) /\ OracleDefined(run.plan, run.pks),
             [run EXCEPT !.pc = "trust"])
  /\ UNCHANGED <<dev, released, file, runs>>

\* load_trusted_input: the raw file holds some transaction t, not always the
\* one the plan pins; an output number t does not have makes the device raise.
LoadTrustedInput(t) ==
  /\ run.pc = "trust"
  /\ LET in  == run.plan.ins[Len(run.tis) + 1]
         tis == Append(run.tis, TrustedInput(t, in.vout))
     IN  Require(PrevTxIntact(t, in) /\ in.vout \in DOMAIN Chain[t],
                 [run EXCEPT !.tis = tis,
                             !.pc = IF Len(tis) = 2 THEN "start" ELSE "trust"])
  /\ UNCHANGED <<dev, released, file, runs>>

\* enableAlternate2fa, then startUntrustedTransaction(True, 0, chip_inputs, ...).
StartTransaction ==
  /\ run.pc = "start"
  /\ dev' = NewTransaction(dev, run.tis)
  /\ run' = [run EXCEPT !.pc = "announce"]
  /\ UNCHANGED <<released, file, runs>>

\* Mutant: the fee source announced as change, as the burn script does.
ChangePathFeeSource(p) == p.ins[2].path

ChangePath(p) == IF p.kind = "transfer" THEN p.destPath ELSE p.ins[2].path

\* The p1 = 0xFF exchange (for a burn, inside btchip's finalizeInput).
AnnounceChangePath ==
  /\ run.pc = "announce"
  /\ dev' = [dev EXCEPT !.change = ChangePath(run.plan)]
  /\ run' = [run EXCEPT !.pc = "stream"]
  /\ UNCHANGED <<released, file, runs>>

\* Mutant: an off-by-one in the end of the last chunk.
ChunkEndShort(offset, length) ==
  IF offset + Block < length THEN offset + Block ELSE length - 1

ChunkEnd(offset, length) == IF offset + Block < length THEN offset + Block ELSE length

\* One chunk of the serialized outputs; p1 = 0x80 on the last one, which the
\* device answers when the outputs are its own or the user has approved them.
StreamChunk ==
  /\ run.pc = "stream"
  /\ LET ser      == SerializeOutputs(Outputs(run.plan, run.pks))
         chunkEnd == ChunkEnd(run.offset, Len(ser))
         isLast   == chunkEnd = Len(ser)
         streamed == dev.streamed \o SubSeq(ser, run.offset + 1, chunkEnd)
     IN  /\ dev' = [dev EXCEPT !.streamed = streamed,
                               !.final = isLast,
                               !.prompted = isLast /\ Prompts(dev, streamed)]
         /\ run' = [run EXCEPT !.offset = chunkEnd,
                               !.pc = IF isLast THEN "input" ELSE "stream"]
  /\ UNCHANGED <<released, file, runs>>

\* startUntrustedTransaction(False, 0, [chip_inputs[i]], scriptCode).
SelectInput ==
  /\ run.pc = "input"
  /\ LET i == Len(run.sigs) + 1 IN
       dev' = [dev EXCEPT !.current = <<[ti |-> run.tis[i], code |-> run.plan.ins[i].spk]>>]
  /\ run' = [run EXCEPT !.pc = "sign"]
  /\ UNCHANGED <<released, file, runs>>

\* untrustedHashSign, then process_device_sig on what came back.
HashSign(sighash, der, s) ==
  /\ run.pc = "sign"
  /\ dev.final
  /\ LET sig  == [key |-> PubKey(dev.seed, run.plan.ins[Len(run.sigs) + 1].path),
                  digest |-> DeviceDigest(dev), sighash |-> sighash, der |-> der, s |-> s]
         sigs == Append(run.sigs, [sig |-> CanonicalSig(sig), sighash |-> sighash])
     IN  /\ released' = released \cup {[key |-> sig.key, digest |-> sig.digest]}
         /\ Require(SigAcceptable(sig),
                    [run EXCEPT !.sigs = sigs,
                                !.pc = IF Len(sigs) = 2 THEN "verify" ELSE "input"])
  /\ UNCHANGED <<dev, file, runs>>

\* dongle.close, then verify_oracle_sigs.
Verify ==
  /\ run.pc = "verify"
  /\ Require(VerifyOracleSigs(run.plan, run.pks, run.sigs), [run EXCEPT !.pc = "assemble"])
  /\ UNCHANGED <<dev, released, file, runs>>

\* The signed transaction is put together and re-parsed before anything is written.
Assemble ==
  /\ run.pc = "assemble"
  /\ LET ss  == [i \in 1 .. 2 |->
                   MakeScriptSig(run.sigs[i].sig, run.pks[i], run.sigs[i].sighash)]
         raw == AssembleTx(run.plan, run.pks, ss)
     IN  Require(CheckRoundTripSighash(raw, run.plan, run.pks),
                 [run EXCEPT !.raw = raw, !.pc = "open"])
  /\ UNCHANGED <<dev, released, file, runs>>

\* write_text opens the file for writing, which empties it ...
OpenFile ==
  /\ run.pc = "open"
  /\ file' = [file EXCEPT ![run.plan.file] = Torn]
  /\ run' = [run EXCEPT !.pc = "write"]
  /\ UNCHANGED <<dev, released, runs>>

\* ... and the text is there once it is closed; main returns 0.
WriteFile ==
  /\ run.pc = "write"
  /\ file' = [file EXCEPT ![run.plan.file] = run.raw]
  /\ Exit
  /\ UNCHANGED <<dev, released, runs>>

\* The process ends at any point: an exchange raises (before or after the
\* device acted on it), the user rejects, the disk is full, a kill.
Abandon ==
  /\ run.pc # "idle"
  /\ Exit
  /\ UNCHANGED <<dev, released, file, runs>>

Step ==
  \/ DerivePubkey
  \/ BuildTransaction
  \/ \E t \in DOMAIN Chain : LoadTrustedInput(t)
  \/ StartTransaction
  \/ AnnounceChangePath
  \/ StreamChunk
  \/ SelectInput
  \/ \E sighash \in SighashBytes, der \in BOOLEAN, s \in {"low", "high"} :
       HashSign(sighash, der, s)
  \/ Verify
  \/ Assemble
  \/ OpenFile
  \/ WriteFile

Next == \/ \E p \in Plans : StartRun(p)
        \/ Step
        \/ Abandon

Spec == Init /\ [][Next]_vars

\* The script is one thread that keeps going, and the device answers or fails.
FairSpec == Spec /\ WF_vars(Step)

-----------------------------------------------------------------------------
(***************************************************************************)
(* Types.                                                                  *)
(***************************************************************************)
ControlPoints ==
  {"idle", "derive", "build", "trust", "start", "announce", "stream", "input",
   "sign", "verify", "assemble", "open", "write"}

PathNames == UNION {{p.ins[1].path, p.ins[2].path, p.destPath} : p \in Plans}
Keys == [seed : Seeds, path : PathNames]
TrustedInputs == UNION {{TrustedInput(t, v) : v \in DOMAIN Chain[t]} : t \in DOMAIN Chain}

\* Type invariant of the script's locals, the device and the output files.
TypeOK ==
  /\ run.pc \in ControlPoints
  /\ run.plan \in Plans \cup {NoPlan}
  /\ run.offset \in 0 .. 2
  /\ Len(run.pks) \in 0 .. 3 /\ \A k \in 1 .. Len(run.pks) : run.pks[k] \in Keys
  /\ Len(run.tis) \in 0 .. 2 /\ \A k \in 1 .. Len(run.tis) : run.tis[k] \in TrustedInputs
  /\ Len(run.sigs) \in 0 .. 2
  /\ \A k \in 1 .. Len(run.sigs) :
       run.sigs[k].sig.key \in Keys /\ run.sigs[k].sighash = SIGHASH_ALL_FORKID
  /\ dev.seed \in Seeds /\ dev.firmware \in Firmwares
  /\ dev.change \in PathNames \cup {NoPath}
  /\ dev.final \in BOOLEAN /\ dev.prompted \in BOOLEAN
  /\ DOMAIN file = Files
  /\ runs \in 0 .. MaxRuns

(***************************************************************************)
(* A node's judgement of a serialized transaction, and of its coins.       *)
(***************************************************************************)
Written(f) == file[f] \notin {Absent, Torn}

CoinExists(in) == in.prev_txid.id \in DOMAIN Chain /\ in.prev_vout \in DOMAIN Chain[in.prev_txid.id]
Coin(in) == Chain[in.prev_txid.id][in.prev_vout]

InputAccepted(raw, i) ==
  LET in == raw.inputs[i]
      ss == in.script_sig
  IN  /\ in.prev_txid.order = "wire"
      /\ ss.sighash = SIGHASH_ALL_FORKID
      /\ ss.sig.s = "low"
      /\ ss.sig.key = ss.pk
      /\ Hash160(ss.pk) = Coin(in).script_pubkey.pkh
      /\ ss.sig.digest = ConsensusSighash(raw, i, Coin(in))

\* An output may push only references that one of the spent coins carries.
RefsCarried(raw) ==
  \A k \in DOMAIN raw.outputs : \A r \in PushRefs(raw.outputs[k].script_pubkey) :
    \E i \in DOMAIN raw.inputs : r \in PushRefs(Coin(raw.inputs[i]).script_pubkey)

NetworkAccepts(raw) ==
  /\ \A i \in DOMAIN raw.inputs : CoinExists(raw.inputs[i]) /\ InputAccepted(raw, i)
  /\ RefsCarried(raw)

\* The scripts signed as scriptCode are the ones the coins really carry: the
\* one constant no step of main() compares with anything.
CodesAreReal(raw) ==
  \A i \in DOMAIN raw.inputs :
    /\ CoinExists(raw.inputs[i])
    /\ raw.inputs[i].script_sig.sig.digest.sha256d.scriptCode = Coin(raw.inputs[i]).script_pubkey

(***************************************************************************)
(* Safety.                                                                 *)
(***************************************************************************)
\* A node accepts every transaction an output file holds, whatever the device
\* answered and however earlier runs ended, provided the locking scripts in
\* the constants are the coins' own.
WrittenIsAccepted ==
  \A f \in Files : Written(f) /\ CodesAreReal(file[f]) => NetworkAccepts(file[f])

\* The fee really paid, out of the amounts on the chain, is the fee of a plan:
\* a wrong IN0_VALUE or IN1_VALUE never reaches a file.
FeeIsIntended ==
  \A f \in Files : Written(f) =>
    LET raw == file[f] IN
    \E p \in Plans :
      /\ p.file = f
      /\ Coin(raw.inputs[1]).value + Coin(raw.inputs[2]).value
           - raw.outputs[1].value = p.fee

\* The keys a device with this seed derives for plan p.
KeysOf(seed, p) == [k \in 1 .. Len(Paths(p)) |-> PubKey(seed, Paths(p)[k])]

\* The digest of input i of plan p under one seed's keys, except for the amount,
\* which the device knows better, and the field the wrong firmware omits.
Planned(sig, p, i) ==
  LET pks      == KeysOf(sig.key.seed, p)
      signed   == sig.digest.sha256d
      intended == OracleSighash(p, pks, i).sha256d
  IN  /\ sig.key = pks[i]
      /\ DOMAIN signed = DOMAIN intended
      /\ \A f \in DOMAIN intended \ {"value", "hashOutputHashes"} : signed[f] = intended[f]

\* No signature the device ever releases commits to anything but one plan: not
\* to a substituted previous transaction, and not to the inputs or the outputs
\* an earlier run left in the device.
DeviceSignsOnlyPlans ==
  \A sig \in released : \E p \in Plans, i \in 1 .. 2 : Planned(sig, p, i)

\* In a transfer the device takes the output for its own change and never asks
\* the user ("treated as change, no user prompt expected").
TransferIsSilent ==
  run.pc \in {"input", "sign"} /\ run.plan.kind = "transfer" => ~ dev.prompted

\* The host publishes only what the device approved in full.
Abstract == INSTANCE ApprovedSpend WITH
  released         <- released,
  file             <- file,
  Files            <- Files,
  ConsensusSighash <- ConsensusSighash
ImplementsApprovedSpend == Abstract!Spec

(***************************************************************************)
(* Liveness: no exchange is repeated for ever, so every run ends.          *)
(***************************************************************************)
EveryRunEnds == run.pc # "idle" ~> run.pc = "idle"
=============================================================================
