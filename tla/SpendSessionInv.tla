-------------------------- MODULE SpendSessionInv ---------------------------
(***************************************************************************)
(* The inductive invariant of SpendSession: at each control point of       *)
(* main(), what its locals are in terms of the plan, what the device has   *)
(* been told, and what every file written so far was checked for.          *)
(***************************************************************************)
EXTENDS SpendSession

AfterStream == {"input", "sign", "verify", "assemble", "open", "write"}
AfterTrust == {"start", "announce", "stream"} \cup AfterStream
AfterBuild == {"trust"} \cup AfterTrust
AfterDerive == {"build"} \cup AfterBuild

KeysUpTo(seed, p, n) == [k \in 1 .. n |-> PubKey(seed, Paths(p)[k])]

CoinThere(in) == in.txid \in DOMAIN Chain /\ in.vout \in DOMAIN Chain[in.txid]

\* The first n trusted inputs are those of the plan's own coins.
TisUpTo(tis, p, n) ==
  /\ tis = [k \in 1 .. n |-> TrustedInput(p.ins[k].txid, p.ins[k].vout)]
  /\ \A k \in 1 .. n : CoinThere(p.ins[k])

\* A validated signature for input k: canonical, by the plan's key, released by
\* the device, and over the coin's real amount.
SigChecked(e, seed, p, k) ==
  /\ e = [sig |-> [key |-> PubKey(seed, p.ins[k].path), digest |-> e.sig.digest, s |-> "low"],
          sighash |-> SIGHASH_ALL_FORKID]
  /\ [key |-> e.sig.key, digest |-> e.sig.digest] \in released
  /\ e.sig.digest.sha256d.value = Chain[p.ins[k].txid][p.ins[k].vout].value

SigsUpTo(sigs, seed, p, n) ==
  /\ sigs = [k \in 1 .. n |-> sigs[k]]
  /\ \A k \in 1 .. n : SigChecked(sigs[k], seed, p, k)

ScriptSigs(pks, sigs) ==
  [i \in 1 .. 2 |-> MakeScriptSig(sigs[i].sig, pks[i], sigs[i].sighash)]

\* The shapes of the two records.
ShapeInv ==
  /\ run = [pc |-> run.pc, plan |-> run.plan, pks |-> run.pks, tis |-> run.tis,
            offset |-> run.offset, sigs |-> run.sigs, raw |-> run.raw]
  /\ run.pc \in ControlPoints
  /\ run.pc = "idle" => run = NoRun
  /\ run.pc # "idle" => run.plan \in Plans
  /\ dev = [seed |-> dev.seed, firmware |-> dev.firmware, change |-> dev.change,
            prevouts |-> dev.prevouts, streamed |-> dev.streamed, final |-> dev.final,
            prompted |-> dev.prompted, current |-> dev.current]
  /\ dev.seed \in Seeds /\ dev.firmware \in Firmwares
  /\ dev.change \in PathNames \cup {NoPath}
  /\ dev.final \in BOOLEAN /\ dev.prompted \in BOOLEAN
  /\ runs \in 0 .. MaxRuns

\* The derived keys, and that they passed the address check.
KeysInv ==
  /\ run.pc = "derive" =>
       \E n \in 0 .. Len(Paths(run.plan)) - 1 : run.pks = KeysUpTo(dev.seed, run.plan, n)
  /\ run.pc \in AfterDerive => run.pks = KeysOf(dev.seed, run.plan)
  /\ run.pc \in AfterBuild => AddressesMatch(run.plan, run.pks)

\* The trusted inputs name the plan's coins.
TisInv ==
  /\ run.pc \in {"derive", "build"} => run.tis = <<>>
  /\ run.pc = "trust" => \E n \in 0 .. 1 : TisUpTo(run.tis, run.plan, n)
  /\ run.pc \in AfterTrust => TisUpTo(run.tis, run.plan, 2)

\* What the device has hashed is this run's, up to the host's offset.
StreamInv ==
  LET ser == SerializeOutputs(Outputs(run.plan, run.pks)) IN
  /\ run.pc \notin AfterStream \cup {"stream"} => run.offset = 0
  /\ run.pc = "stream" => run.offset \in 0 .. 1
  /\ run.pc \in AfterStream => run.offset = 2
  /\ run.pc \in {"announce", "stream", "input", "sign"} =>
       /\ dev.prevouts = run.tis
       /\ dev.streamed = [n \in 1 .. run.offset |-> ser[n]]
  /\ run.pc \in {"stream", "input", "sign"} => dev.change = ChangePath(run.plan)
  /\ run.pc \in {"input", "sign"} => dev.final /\ dev.prompted = Prompts(dev, ser)

\* The signatures collected so far, and the input the next one is for.
SignInv ==
  /\ run.pc \notin AfterStream => run.sigs = <<>>
  /\ run.pc \in {"input", "sign"} =>
       \E n \in 0 .. 1 :
         /\ SigsUpTo(run.sigs, dev.seed, run.plan, n)
         /\ run.pc = "sign" =>
              dev.current = <<[ti |-> run.tis[n + 1], code |-> run.plan.ins[n + 1].spk]>>
  /\ run.pc \in AfterStream \ {"input", "sign"} =>
       SigsUpTo(run.sigs, dev.seed, run.plan, 2)

\* What has been verified, and what is about to be written.
CheckedInv ==
  /\ run.pc \in {"assemble", "open", "write"} =>
       VerifyOracleSigs(run.plan, run.pks, run.sigs)
  /\ run.pc \in {"open", "write"} =>
       run.raw = AssembleTx(run.plan, run.pks, ScriptSigs(run.pks, run.sigs))
  /\ run.pc = "write" => file[run.plan.file] = Torn

\* The transaction raw passed every check of a run of plan p.
PassedBy(raw, p, seed) ==
  LET pks  == KeysOf(seed, p)
      sigs == [i \in 1 .. 2 |-> [sig     |-> raw.inputs[i].script_sig.sig,
                                 sighash |-> raw.inputs[i].script_sig.sighash]]
  IN  /\ raw = AssembleTx(p, pks, ScriptSigs(pks, sigs))
      /\ AddressesMatch(p, pks)
      /\ VerifyOracleSigs(p, pks, sigs)
      /\ \A i \in 1 .. 2 : CoinThere(p.ins[i]) /\ SigChecked(sigs[i], seed, p, i)

FileInv ==
  /\ DOMAIN file = Files
  /\ \A f \in Files : Written(f) =>
       \E p \in Plans, seed \in Seeds : p.file = f /\ PassedBy(file[f], p, seed)

\* Inductive invariant.
IInv ==
  /\ ShapeInv
  /\ KeysInv
  /\ TisInv
  /\ StreamInv
  /\ SignInv
  /\ CheckedInv
  /\ FileInv
  /\ DeviceSignsOnlyPlans
=============================================================================
