------------------------- MODULE SpendSessionProofs -------------------------
(***************************************************************************)
(* Proofs about the spend scripts: the inductive invariant, and from it    *)
(* the safety properties and the implementation of ApprovedSpend.          *)
(***************************************************************************)
EXTENDS SpendSessionInv, SequenceTheorems, TLAPS

USE DEF SIGHASH_ALL_FORKID

-----------------------------------------------------------------------------
(***************************************************************************)
(* Sequences written as functions.                                         *)
(***************************************************************************)
\* A function on 1..n with values in S is a sequence of length n.
LEMMA SeqOfLen ==
  ASSUME NEW S, NEW n \in Nat, NEW s, s = [k \in 1..n |-> s[k]], \A k \in 1..n : s[k] \in S
  PROVE  s \in Seq(S) /\ Len(s) = n
<1>1. s \in [1..n -> S]
  OBVIOUS
<1>2. s \in Seq(S)
  BY <1>1, SeqDef
<1>. QED  BY <1>1, <1>2

\* A sequence of length n is a function on 1..n.
LEMMA SeqIsFcn ==
  ASSUME NEW S, NEW s \in Seq(S), NEW n \in Nat, Len(s) = n
  PROVE  s = [k \in 1..n |-> s[k]]
<1>1. s \in [1..n -> S]
  BY LenProperties
<1>. QED  BY <1>1

\* The length of a function on 1..n.
LEMMA LenOfFcn ==
  ASSUME NEW n \in Nat, NEW s, s = [k \in 1..n |-> s[k]]
  PROVE  Len(s) = n
<1> DEFINE S == {s[k] : k \in 1..n}
<1>1. \A k \in 1..n : s[k] \in S
  OBVIOUS
<1>. QED  BY <1>1, SeqOfLen

\* Append adds its element after the last one.
LEMMA AppendFcn ==
  ASSUME NEW n \in Nat, NEW s, s = [k \in 1..n |-> s[k]], NEW e
  PROVE  /\ Len(s) = n
         /\ Append(s, e) = [k \in 1..n+1 |-> IF k <= n THEN s[k] ELSE e]
         /\ Len(Append(s, e)) = n + 1
<1> DEFINE S == {s[k] : k \in 1..n} \cup {e}
<1>1. s \in Seq(S) /\ Len(s) = n
  BY SeqOfLen
<1>2. /\ Append(s, e) \in Seq(S) /\ Len(Append(s, e)) = n + 1
      /\ \A k \in 1..n : Append(s, e)[k] = s[k]
      /\ Append(s, e)[n+1] = e
  BY <1>1
<1>. QED  BY <1>1, <1>2

\* The next chunk of t extends a prefix of t to a longer one.
LEMMA ConcatChunk ==
  ASSUME NEW S, NEW t \in Seq(S), NEW s \in Seq(S), NEW b \in Nat,
         Len(s) <= b, b <= Len(t), \A k \in 1..Len(s) : s[k] = t[k],
         NEW w, w = s \o SubSeq(t, Len(s)+1, b)
  PROVE  w \in Seq(S) /\ Len(w) = b /\ \A k \in 1..b : w[k] = t[k]
<1> DEFINE a == Len(s)
           u == SubSeq(t, a+1, b)
<1>1. a \in Nat /\ b - a \in Nat
  OBVIOUS
<1>2. u \in Seq(S) /\ Len(u) = b - a /\ \A k \in 1..b-a : u[k] = t[a+k]
  BY <1>1, SubSeqProperties
<1>3. w \in Seq(S) /\ Len(w) = b
  BY <1>1, <1>2, ConcatProperties
<1>4. \A k \in 1..b : w[k] = t[k]
  <2> SUFFICES ASSUME NEW k \in 1..b PROVE w[k] = t[k]
    OBVIOUS
  <2>1. CASE k <= a
    BY <1>1, <1>2, <2>1, ConcatProperties
  <2>2. CASE k > a
    <3>1. k - a \in 1..b-a /\ a + (k - a) = k
      BY <1>1, <2>2
    <3>2. w[k] = u[k - a]
      BY <1>1, <1>2, <2>2, ConcatProperties
    <3>. QED  BY <1>2, <3>1, <3>2
  <2>. QED  BY <1>1, <2>1, <2>2
<1>. QED  BY <1>3, <1>4

-----------------------------------------------------------------------------
(***************************************************************************)
(* What main() builds.                                                     *)
(***************************************************************************)
\* A plan derives two keys, or three to transfer.
LEMMA PathsOfPlan ==
  ASSUME NEW p \in Plans
  PROVE  /\ Len(Paths(p)) \in 2 .. 3
         /\ Paths(p)[1] = p.ins[1].path /\ Paths(p)[2] = p.ins[2].path
         /\ p.kind = "transfer" => Len(Paths(p)) = 3 /\ Paths(p)[3] = p.destPath
         /\ \A k \in 1 .. Len(Paths(p)) : Paths(p)[k] \in PathNames
<1>1. CASE p.kind = "transfer"
  BY <1>1 DEF Paths, PathNames
<1>2. CASE p.kind # "transfer"
  BY <1>2 DEF Paths, PathNames
<1>. QED  BY <1>1, <1>2

\* One output is streamed as its value and then its script.
LEMMA SerializedOutput ==
  ASSUME NEW p, NEW pks
  PROVE  /\ Len(SerializeOutputs(Outputs(p, pks))) = 2
         /\ SerializeOutputs(Outputs(p, pks)) =
              [n \in 1 .. 2 |-> SerializeOutputs(Outputs(p, pks))[n]]
         /\ \A n \in 1 .. 2 : SerializeOutputs(Outputs(p, pks))[n].out = Outputs(p, pks)[1]
<1> DEFINE ser == SerializeOutputs(Outputs(p, pks))
<1>1. Len(Outputs(p, pks)) = 1
  BY DEF Outputs
<1>2. ser = [n \in 1 .. 2 |-> [out |-> Outputs(p, pks)[(n + 1) \div 2],
                               field |-> IF n % 2 = 1 THEN "value" ELSE "script"]]
  BY <1>1, 2 * 1 = 2 DEF SerializeOutputs
<1>3. \A n \in 1 .. 2 : (n + 1) \div 2 = 1
  OBVIOUS
<1>4. ser = [n \in 1 .. 2 |-> ser[n]] /\ \A n \in 1 .. 2 : ser[n].out = Outputs(p, pks)[1]
  BY <1>2, <1>3
<1>. QED  BY <1>4, LenOfFcn

\* The digest the device computes over the inputs and outputs of plan p is the
\* host's own, except for the amount and the field one firmware omits.
LEMMA DigestOfPlan ==
  ASSUME NEW p, NEW pks, NEW i \in 1 .. 2, NEW d,
         d.prevouts = [k \in 1 .. 2 |-> TrustedInput(p.ins[k].txid, p.ins[k].vout)],
         d.streamed = SerializeOutputs(Outputs(p, pks)),
         d.current = <<[ti |-> d.prevouts[i], code |-> p.ins[i].spk]>>
  PROVE  /\ DOMAIN DeviceDigest(d).sha256d = DOMAIN OracleSighash(p, pks, i).sha256d
         /\ \A f \in DOMAIN OracleSighash(p, pks, i).sha256d \ {"value", "hashOutputHashes"} :
              DeviceDigest(d).sha256d[f] = OracleSighash(p, pks, i).sha256d[f]
         /\ DeviceDigest(d).sha256d.value = Chain[p.ins[i].txid][p.ins[i].vout].value
<1> DEFINE tx      == OracleTx(p, pks)
           in(k)   == p.ins[k]
           wire(k) == Reversed(Display(in(k).txid))
<1>1. /\ DOMAIN d.prevouts = 1 .. 2
      /\ \A k \in 1 .. 2 : d.prevouts[k] = TrustedInput(in(k).txid, in(k).vout)
  OBVIOUS
<1>2. \A k \in 1 .. 2 :
        d.prevouts[k] = [txid |-> wire(k), vout |-> in(k).vout,
                         value |-> Chain[in(k).txid][in(k).vout].value, sequence |-> SEQUENCE]
  BY <1>1 DEF TrustedInput
<1>3. /\ DOMAIN tx.inputs = 1 .. 2
      /\ \A k \in 1 .. 2 : tx.inputs[k] = [prev_txid |-> Display(in(k).txid),
            prev_vout |-> in(k).vout, script_sig |-> <<>>, sequence |-> SEQUENCE]
      /\ tx.version = 2 /\ tx.locktime = 0 /\ tx.outputs = Outputs(p, pks)
  BY DEF OracleTx
<1>4. \A k \in 1 .. 2 : Reversed(tx.inputs[k].prev_txid) = wire(k)
  BY <1>3
<1> HIDE DEF tx, wire
<1> HIDE DEF in
<1>5. ASSUME NEW k \in 1 .. 2
      PROVE  /\ d.prevouts[k].txid = wire(k) /\ d.prevouts[k].vout = in(k).vout
             /\ d.prevouts[k].sequence = SEQUENCE
             /\ d.prevouts[k].value = Chain[in(k).txid][in(k).vout].value
             /\ tx.inputs[k].prev_vout = in(k).vout /\ tx.inputs[k].sequence = SEQUENCE
  <2>1. PICK x, y : x = d.prevouts[k] /\ y = tx.inputs[k]
    OBVIOUS
  <2>2. x = [txid |-> wire(k), vout |-> in(k).vout,
             value |-> Chain[in(k).txid][in(k).vout].value, sequence |-> SEQUENCE]
    BY <1>2, <2>1
  <2>3. y = [prev_txid |-> Display(in(k).txid), prev_vout |-> in(k).vout,
             script_sig |-> <<>>, sequence |-> SEQUENCE]
    BY <1>3, <2>1
  <2>. QED  BY <2>1, <2>2, <2>3
<1>a. PICK cur : cur = d.current[1]
  OBVIOUS
<1>6. PICK h, hp, hs, ho, v :
        /\ hp = Sha256d([k \in DOMAIN d.prevouts |->
                  [txid |-> d.prevouts[k].txid, vout |-> d.prevouts[k].vout]])
        /\ hs = Sha256d([k \in DOMAIN d.prevouts |-> d.prevouts[k].sequence])
        /\ h = FirmwareOutputHashes(d.firmware, ParseOutputs(d.streamed))
        /\ ho = Sha256d(d.streamed)
        /\ v = Chain[in(i).txid][in(i).vout].value
  OBVIOUS
<1>7. cur = [ti |-> d.prevouts[i], code |-> in(i).spk]
  <2>1. p.ins[i].spk = in(i).spk
    BY DEF in
  <2>2. cur = [ti |-> d.prevouts[i], code |-> p.ins[i].spk]
    BY <1>a
  <2>. QED  BY <2>1, <2>2
<1>8. cur.ti.txid = wire(i) /\ cur.ti.vout = in(i).vout /\ cur.ti.value = v
      /\ cur.ti.sequence = SEQUENCE /\ cur.code = in(i).spk
  <2>1. cur.ti = d.prevouts[i] /\ cur.code = in(i).spk
    BY <1>7
  <2>. QED  BY <1>5, <1>6, <2>1
<1>9. DeviceDigest(d) = Sha256d(
        [version |-> 2, hashPrevouts |-> hp, hashSequence |-> hs,
         txid |-> wire(i), vout |-> in(i).vout, scriptCode |-> in(i).spk,
         value |-> v, sequence |-> SEQUENCE, hashOutputHashes |-> h, hashOutputs |-> ho,
         locktime |-> 0, sighashType |-> SIGHASH_ALL_FORKID])
  <2>1. DeviceDigest(d) = Sha256d(
          [version |-> 2, hashPrevouts |-> hp, hashSequence |-> hs,
           txid |-> cur.ti.txid, vout |-> cur.ti.vout, scriptCode |-> cur.code,
           value |-> cur.ti.value, sequence |-> cur.ti.sequence,
           hashOutputHashes |-> h, hashOutputs |-> ho,
           locktime |-> 0, sighashType |-> SIGHASH_ALL_FORKID])
    BY <1>6, <1>a, Zenon DEF DeviceDigest
  <2>. QED  BY <1>8, <2>1
<1>10. GetPrevoutHash(tx) = hp
  <2>1. \A k \in 1 .. 2 :
          [txid |-> Reversed(tx.inputs[k].prev_txid), vout |-> tx.inputs[k].prev_vout]
          = [txid |-> d.prevouts[k].txid, vout |-> d.prevouts[k].vout]
    BY <1>4, <1>5
  <2>2. [k \in DOMAIN tx.inputs |->
           [txid |-> Reversed(tx.inputs[k].prev_txid), vout |-> tx.inputs[k].prev_vout]]
        = [k \in DOMAIN d.prevouts |->
             [txid |-> d.prevouts[k].txid, vout |-> d.prevouts[k].vout]]
    BY <1>1, <1>3, <2>1, Zenon
  <2>. QED  BY <1>6, <2>2, Zenon DEF GetPrevoutHash
<1>11. GetSequenceHash(tx) = hs
  <2>1. \A k \in 1 .. 2 : tx.inputs[k].sequence = d.prevouts[k].sequence
    BY <1>5
  <2>2. [k \in DOMAIN tx.inputs |-> tx.inputs[k].sequence]
        = [k \in DOMAIN d.prevouts |-> d.prevouts[k].sequence]
    BY <1>1, <1>3, <2>1, Zenon
  <2>. QED  BY <1>6, <2>2, Zenon DEF GetSequenceHash
<1>12. GetOutputsHash(tx) = ho
  BY <1>3, <1>6 DEF GetOutputsHash
<1>13. OracleSighash(p, pks, i) = Sha256d(
        [version |-> 2, hashPrevouts |-> hp, hashSequence |-> hs,
         txid |-> wire(i), vout |-> in(i).vout, scriptCode |-> in(i).spk,
         value |-> in(i).value, sequence |-> SEQUENCE,
         hashOutputHashes |-> GetHashOutputHashes(tx), hashOutputs |-> ho,
         locktime |-> 0, sighashType |-> SIGHASH_ALL_FORKID])
  <2>1. OracleSighash(p, pks, i) =
          ComputeRadiantSighash(tx, i, in(i).spk, in(i).value, SIGHASH_ALL_FORKID)
    BY DEF OracleSighash, tx, in
  <2>. QED  BY <1>3, <1>4, <1>5, <1>10, <1>11, <1>12, <2>1 DEF ComputeRadiantSighash
<1>14. DeviceDigest(d).sha256d =
        [version |-> 2, hashPrevouts |-> hp, hashSequence |-> hs,
         txid |-> wire(i), vout |-> in(i).vout, scriptCode |-> in(i).spk,
         value |-> v, sequence |-> SEQUENCE, hashOutputHashes |-> h, hashOutputs |-> ho,
         locktime |-> 0, sighashType |-> SIGHASH_ALL_FORKID]
  BY <1>9 DEF Sha256d
<1>15. OracleSighash(p, pks, i).sha256d =
        [version |-> 2, hashPrevouts |-> hp, hashSequence |-> hs,
         txid |-> wire(i), vout |-> in(i).vout, scriptCode |-> in(i).spk,
         value |-> in(i).value, sequence |-> SEQUENCE,
         hashOutputHashes |-> GetHashOutputHashes(tx), hashOutputs |-> ho,
         locktime |-> 0, sighashType |-> SIGHASH_ALL_FORKID]
  BY <1>13 DEF Sha256d
<1> HIDE DEF in
<1>16. DeviceDigest(d).sha256d.value = v
  BY <1>14
<1>17. PICK sd, so : sd = DeviceDigest(d).sha256d /\ so = OracleSighash(p, pks, i).sha256d
  OBVIOUS
<1>18. DOMAIN sd = DOMAIN so
  BY <1>14, <1>15, <1>17
<1>19. \A f \in DOMAIN so \ {"value", "hashOutputHashes"} : sd[f] = so[f]
  BY <1>14, <1>15, <1>17
<1>. QED  BY <1>6, <1>16, <1>17, <1>18, <1>19 DEF in

-----------------------------------------------------------------------------
(***************************************************************************)
(* The invariant holds initially, and when a run has ended.                *)
(***************************************************************************)
\* Nothing is claimed of the locals of a run that is over.
LEMMA EndOfRun ==
  ASSUME run' = NoRun
  PROVE  (KeysInv /\ TisInv /\ StreamInv /\ SignInv /\ CheckedInv)'
<1>1. run'.pc = "idle" /\ run'.tis = <<>> /\ run'.offset = 0 /\ run'.sigs = <<>>
  BY DEF NoRun
<1>2. run'.pc \notin AfterDerive \cup AfterBuild \cup AfterTrust \cup AfterStream
  BY <1>1 DEF AfterDerive, AfterBuild, AfterTrust, AfterStream
<1>. QED
  BY <1>1, <1>2 DEF KeysInv, TisInv, StreamInv, SignInv, CheckedInv

\* Before any run there is nothing the invariant could say wrongly.
LEMMA InitIInv == Init => IInv
<1> SUFFICES ASSUME Init PROVE IInv
  OBVIOUS
<1>1. run = NoRun /\ run.pc = "idle" /\ released = {} /\ runs = 0
  BY DEF Init, NoRun
<1>2. PICK s \in Seeds, fw \in Firmwares : dev = FreshDevice(s, fw)
  BY DEF Init
<1>3. ShapeInv
  BY <1>1, <1>2, BoundAssumption DEF ShapeInv, NoRun, FreshDevice, ControlPoints
<1>4. KeysInv /\ TisInv /\ StreamInv /\ SignInv /\ CheckedInv
  <2>1. run.tis = <<>> /\ run.offset = 0 /\ run.sigs = <<>>
    BY <1>1 DEF NoRun
  <2>2. run.pc \notin AfterDerive \cup AfterBuild \cup AfterTrust \cup AfterStream
    BY <1>1 DEF AfterDerive, AfterBuild, AfterTrust, AfterStream
  <2>. QED
    BY <1>1, <2>1, <2>2 DEF KeysInv, TisInv, StreamInv, SignInv, CheckedInv
<1>5. FileInv
  BY DEF Init, FileInv, Written
<1>6. DeviceSignsOnlyPlans
  BY <1>1 DEF DeviceSignsOnlyPlans
<1>. QED  BY <1>3, <1>4, <1>5, <1>6 DEF IInv

(***************************************************************************)
(* What a step leaves alone.                                               *)
(***************************************************************************)
\* A transaction that passed its checks stays so: no signature is taken back.
LEMMA PassedKept ==
  ASSUME NEW raw, NEW p, NEW seed, PassedBy(raw, p, seed), released \subseteq released'
  PROVE  PassedBy(raw, p, seed)'
<1>1. ASSUME NEW e, NEW k, SigChecked(e, seed, p, k)
      PROVE  SigChecked(e, seed, p, k)'
  BY <1>1 DEF SigChecked
<1>. QED  BY <1>1 DEF PassedBy

\* Files that do not change stay checked.
LEMMA FilesKept ==
  ASSUME FileInv, file' = file, released \subseteq released'
  PROVE  FileInv'
<1>1. ASSUME NEW f \in Files, Written(f)'
      PROVE  \E p \in Plans, seed \in Seeds : p.file = f /\ PassedBy(file[f], p, seed)'
  <2>0. PICK raw : raw = file[f] /\ raw = file'[f]
    OBVIOUS
  <2>1. PICK p \in Plans, seed \in Seeds : p.file = f /\ PassedBy(raw, p, seed)
    BY <1>1, <2>0 DEF Written, FileInv
  <2>2. PassedBy(raw, p, seed)'
    BY <2>1, PassedKept
  <2>. QED  BY <2>0, <2>1, <2>2
<1>. QED  BY <1>1 DEF FileInv

\* A step in which the run ends, on the host's side only.
LEMMA ExitIInv ==
  ASSUME IInv, Exit, UNCHANGED <<dev, released, file>>, runs' = runs
  PROVE  IInv'
<1>1. run' = NoRun /\ run'.pc = "idle"
  BY DEF Exit, NoRun
<1>2. ShapeInv'
  BY <1>1 DEF IInv, ShapeInv, NoRun, ControlPoints
<1>3. (KeysInv /\ TisInv /\ StreamInv /\ SignInv /\ CheckedInv)'
  BY <1>1, EndOfRun
<1>4. FileInv'
  BY FilesKept DEF IInv
<1>5. DeviceSignsOnlyPlans'
  BY DEF IInv, DeviceSignsOnlyPlans
<1>. QED  BY <1>2, <1>3, <1>4, <1>5 DEF IInv

-----------------------------------------------------------------------------
(***************************************************************************)
(* The invariant is preserved, action by action.                           *)
(***************************************************************************)
LEMMA StartRunIInv ==
  ASSUME IInv, NEW p \in Plans, StartRun(p)
  PROVE  IInv'
<1> USE DEF AfterDerive, AfterBuild, AfterTrust, AfterStream
<1>1. /\ run' = [pc |-> "derive", plan |-> p, pks |-> <<>>, tis |-> <<>>,
                 offset |-> 0, sigs |-> <<>>, raw |-> NoTx]
      /\ UNCHANGED <<released, file>>
      /\ runs' \in 0 .. MaxRuns
      /\ UNCHANGED dev \/ \E s \in Seeds, fw \in Firmwares : dev' = FreshDevice(s, fw)
  <2>1. run' = [pc |-> "derive", plan |-> p, pks |-> <<>>, tis |-> <<>>,
                offset |-> 0, sigs |-> <<>>, raw |-> NoTx]
    BY DEF StartRun, NoRun
  <2>2. runs' \in 0 .. MaxRuns
    BY BoundAssumption DEF StartRun, IInv, ShapeInv
  <2>. QED  BY <2>1, <2>2 DEF StartRun
<1>2. /\ run'.pc = "derive" /\ run'.plan = p /\ run'.pks = <<>> /\ run'.tis = <<>>
      /\ run'.offset = 0 /\ run'.sigs = <<>>
  BY <1>1
<1>3. ShapeInv'
  <2>1. CASE UNCHANGED dev
    BY <1>1, <2>1 DEF IInv, ShapeInv, ControlPoints
  <2>2. CASE \E s \in Seeds, fw \in Firmwares : dev' = FreshDevice(s, fw)
    BY <1>1, <2>2 DEF ShapeInv, ControlPoints, FreshDevice
  <2>. QED  BY <1>1, <2>1, <2>2
<1>4. KeysInv'
  <2>1. run'.pks = KeysUpTo(dev'.seed, p, 0)
    BY <1>2 DEF KeysUpTo
  <2>2. 0 \in 0 .. Len(Paths(p)) - 1
    BY PathsOfPlan
  <2>3. \E n \in 0 .. Len(Paths(run'.plan)) - 1 :
           run'.pks = KeysUpTo(dev'.seed, run'.plan, n)
    BY <1>2, <2>1, <2>2
  <2>4. run'.pc \notin AfterDerive /\ run'.pc \notin AfterBuild
    BY <1>2
  <2> HIDE DEF AfterDerive, AfterBuild
  <2>. QED  BY <2>3, <2>4 DEF KeysInv
<1>5. TisInv'
  BY <1>2 DEF TisInv
<1>6. StreamInv'
  BY <1>2 DEF StreamInv
<1>7. SignInv'
  BY <1>2 DEF SignInv
<1>8. CheckedInv'
  BY <1>2 DEF CheckedInv
<1>9. FileInv' /\ DeviceSignsOnlyPlans'
  BY <1>1, FilesKept DEF IInv, DeviceSignsOnlyPlans
<1>. QED  BY <1>3, <1>4, <1>5, <1>6, <1>7, <1>8, <1>9 DEF IInv

\* derive_pubkey preserves the invariant: one more key, of the device plugged in.
LEMMA DerivePubkeyIInv ==
  ASSUME IInv, DerivePubkey
  PROVE  IInv'
<1> USE DEF AfterDerive, AfterBuild, AfterTrust, AfterStream
<1> DEFINE p   == run.plan
           pks == Append(run.pks, PubKey(dev.seed, Paths(p)[Len(run.pks) + 1]))
<1>1. /\ run.pc = "derive" /\ p \in Plans /\ UNCHANGED <<dev, released, file, runs>>
      /\ run' = [run EXCEPT !.pks = pks,
                            !.pc = IF Len(pks) = Len(Paths(p)) THEN "build" ELSE "derive"]
  BY DEF DerivePubkey, IInv, ShapeInv
<1>2. PICK n \in 0 .. Len(Paths(p)) - 1 : run.pks = KeysUpTo(dev.seed, p, n)
  BY <1>1 DEF IInv, KeysInv
<1>3. Len(Paths(p)) \in 2 .. 3
  BY <1>1, PathsOfPlan
<1>4. run.pks = [k \in 1 .. n |-> run.pks[k]] /\ n \in Nat
  BY <1>2, <1>3 DEF KeysUpTo
<1>5. Len(run.pks) = n /\ Len(pks) = n + 1
      /\ pks = [k \in 1 .. n+1 |-> IF k <= n THEN run.pks[k] ELSE PubKey(dev.seed, Paths(p)[n+1])]
  BY <1>4, AppendFcn
<1>6. pks = KeysUpTo(dev.seed, p, n + 1)
  BY <1>2, <1>3, <1>5 DEF KeysUpTo
<1>7. pks = KeysOf(dev.seed, p) \/ n + 1 \in 0 .. Len(Paths(p)) - 1
  BY <1>3, <1>6 DEF KeysUpTo, KeysOf
<1> HIDE DEF pks
<1>8. ShapeInv'
  BY <1>1 DEF IInv, ShapeInv, ControlPoints
<1>9. /\ run'.pc = IF n + 1 = Len(Paths(p)) THEN "build" ELSE "derive"
      /\ run'.plan = p /\ run'.pks = pks /\ run'.tis = run.tis /\ run'.offset = run.offset
      /\ run'.sigs = run.sigs
  BY <1>1, <1>5 DEF IInv, ShapeInv
<1>10. KeysInv'
  <2>1. CASE n + 1 = Len(Paths(p))
    BY <1>1, <1>6, <1>9, <2>1 DEF KeysInv, KeysUpTo, KeysOf
  <2>2. CASE n + 1 # Len(Paths(p))
    BY <1>1, <1>3, <1>6, <1>9, <2>2 DEF KeysInv
  <2>. QED  BY <2>1, <2>2
<1>11. TisInv'
  BY <1>1, <1>9 DEF IInv, TisInv
<1>12. StreamInv'
  BY <1>1, <1>9 DEF IInv, StreamInv
<1>13. SignInv'
  BY <1>1, <1>9 DEF IInv, SignInv
<1>14. CheckedInv'
  BY <1>1, <1>9 DEF CheckedInv
<1>15. FileInv' /\ DeviceSignsOnlyPlans'
  BY <1>1, FilesKept DEF IInv, DeviceSignsOnlyPlans
<1>. QED  BY <1>8, <1>10, <1>11, <1>12, <1>13, <1>14, <1>15 DEF IInv

\* The address check and the oracle sighashes preserve the invariant.
LEMMA BuildTransactionIInv ==
  ASSUME IInv, BuildTransaction
  PROVE  IInv'
<1> USE DEF AfterDerive, AfterBuild, AfterTrust, AfterStream
<1>0. run.pc = "build" /\ UNCHANGED <<dev, released, file, runs>>
  BY DEF BuildTransaction
<1>1. CASE Exit
  BY <1>0, <1>1, ExitIInv
<1>2. CASE ~ Exit
  <2>1. run' = [run EXCEPT !.pc = "trust"] /\ AddressesMatch(run.plan, run.pks)
    BY <1>2 DEF BuildTransaction, Require, Exit
  <2>2. ShapeInv'
    BY <1>0, <2>1 DEF IInv, ShapeInv, ControlPoints
  <2>3. /\ run'.pc = "trust" /\ run'.plan = run.plan /\ run'.pks = run.pks
        /\ run'.tis = run.tis /\ run'.offset = run.offset /\ run'.sigs = run.sigs
    BY <2>1 DEF IInv, ShapeInv
  <2>4. KeysInv'
    BY <1>0, <2>1, <2>3 DEF IInv, KeysInv
  <2>5. TisInv'
    <3>1. run.tis = <<>>
      BY <1>0 DEF IInv, TisInv
    <3>2. TisUpTo(run'.tis, run'.plan, 0)
      BY <2>3, <3>1 DEF TisUpTo
    <3>. QED  BY <2>3, <3>2 DEF TisInv
  <2>6. StreamInv'
    BY <1>0, <2>3 DEF IInv, StreamInv
  <2>7. SignInv'
    BY <1>0, <2>3 DEF IInv, SignInv
  <2>8. CheckedInv'
    BY <2>3 DEF CheckedInv
  <2>9. FileInv' /\ DeviceSignsOnlyPlans'
    BY <1>0, FilesKept DEF IInv, DeviceSignsOnlyPlans
  <2>. QED  BY <2>2, <2>4, <2>5, <2>6, <2>7, <2>8, <2>9 DEF IInv
<1>. QED  BY <1>1, <1>2

\* load_trusted_input preserves the invariant: the outpoint and amount the device
\* reads off the checked previous transaction are the pinned coin's.
LEMMA LoadTrustedInputIInv ==
  ASSUME IInv, NEW t \in DOMAIN Chain, LoadTrustedInput(t)
  PROVE  IInv'
<1> USE DEF AfterDerive, AfterBuild, AfterTrust, AfterStream
<1>0. run.pc = "trust" /\ UNCHANGED <<dev, released, file, runs>>
  BY DEF LoadTrustedInput
<1>1. CASE Exit
  BY <1>0, <1>1, ExitIInv
<1>2. CASE ~ Exit
  <2> DEFINE p   == run.plan
             in  == p.ins[Len(run.tis) + 1]
             tis == Append(run.tis, TrustedInput(t, in.vout))
  <2>1. /\ PrevTxIntact(t, in) /\ in.vout \in DOMAIN Chain[t]
        /\ run' = [run EXCEPT !.tis = tis,
                              !.pc = IF Len(tis) = 2 THEN "start" ELSE "trust"]
    BY <1>2 DEF LoadTrustedInput, Require, Exit
  <2>2. PICK n \in 0 .. 1 : TisUpTo(run.tis, p, n)
    BY <1>0 DEF IInv, TisInv
  <2>3. run.tis = [k \in 1 .. n |-> run.tis[k]] /\ n \in Nat
    BY <2>2 DEF TisUpTo
  <2>4. Len(run.tis) = n /\ Len(tis) = n + 1
        /\ tis = [k \in 1 .. n+1 |-> IF k <= n THEN run.tis[k] ELSE TrustedInput(t, in.vout)]
    BY <2>3, AppendFcn
  <2> HIDE DEF tis
  <2>5. TisUpTo(tis, p, n + 1)
    <3>1. in = p.ins[n + 1] /\ t = p.ins[n + 1].txid /\ CoinThere(p.ins[n + 1])
      BY <2>1, <2>4 DEF PrevTxIntact, CoinThere
    <3>2. \A k \in 1 .. n+1 : CoinThere(p.ins[k])
      BY <2>2, <3>1 DEF TisUpTo
    <3>3. \A k \in 1 .. n+1 : tis[k] = TrustedInput(p.ins[k].txid, p.ins[k].vout)
      BY <2>2, <2>4, <3>1 DEF TisUpTo
    <3>. QED  BY <2>4, <3>2, <3>3 DEF TisUpTo
  <2>6. ShapeInv'
    BY <1>0, <2>1 DEF IInv, ShapeInv, ControlPoints
  <2>7. /\ run'.pc = IF n + 1 = 2 THEN "start" ELSE "trust"
        /\ run'.plan = p /\ run'.pks = run.pks /\ run'.tis = tis
        /\ run'.offset = run.offset /\ run'.sigs = run.sigs
    BY <2>1, <2>4 DEF IInv, ShapeInv
  <2>8. KeysInv'
    BY <1>0, <2>7 DEF IInv, KeysInv
  <2>9. TisInv'
    <3>1. CASE n = 0
      BY <2>5, <2>7, <3>1 DEF TisInv
    <3>2. CASE n = 1
      BY <2>5, <2>7, <3>2 DEF TisInv
    <3>. QED  BY <3>1, <3>2
  <2>10. StreamInv'
    BY <1>0, <2>7 DEF IInv, StreamInv
  <2>11. SignInv'
    BY <1>0, <2>7 DEF IInv, SignInv
  <2>12. CheckedInv'
    BY <2>7 DEF CheckedInv
  <2>13. FileInv' /\ DeviceSignsOnlyPlans'
    BY <1>0, FilesKept DEF IInv, DeviceSignsOnlyPlans
  <2>. QED  BY <2>6, <2>8, <2>9, <2>10, <2>11, <2>12, <2>13 DEF IInv
<1>. QED  BY <1>1, <1>2

\* startUntrustedTransaction(True, ...) preserves the invariant: the device forgets
\* whatever an earlier run left in it.
LEMMA StartTransactionIInv ==
  ASSUME IInv, StartTransaction
  PROVE  IInv'
<1> USE DEF AfterDerive, AfterBuild, AfterTrust, AfterStream
<1>1. /\ run.pc = "start" /\ UNCHANGED <<released, file, runs>>
      /\ run' = [run EXCEPT !.pc = "announce"] /\ dev' = NewTransaction(dev, run.tis)
  BY DEF StartTransaction
<1>2. ShapeInv'
  BY <1>1 DEF IInv, ShapeInv, ControlPoints, NewTransaction
<1>3. /\ run'.pc = "announce" /\ run'.plan = run.plan /\ run'.pks = run.pks
      /\ run'.tis = run.tis /\ run'.offset = run.offset /\ run'.sigs = run.sigs
      /\ dev'.seed = dev.seed /\ dev'.prevouts = run.tis /\ dev'.streamed = <<>>
  BY <1>1 DEF IInv, ShapeInv, NewTransaction
<1>4. KeysInv'
  BY <1>1, <1>3 DEF IInv, KeysInv
<1>5. TisInv'
  BY <1>1, <1>3 DEF IInv, TisInv
<1>6. StreamInv'
  <2>1. run.offset = 0
    BY <1>1 DEF IInv, StreamInv
  <2>. QED  BY <1>3, <2>1 DEF StreamInv
<1>7. SignInv'
  BY <1>1, <1>3 DEF IInv, SignInv
<1>8. CheckedInv'
  BY <1>3 DEF CheckedInv
<1>9. FileInv' /\ DeviceSignsOnlyPlans'
  BY <1>1, FilesKept DEF IInv, DeviceSignsOnlyPlans
<1>. QED  BY <1>2, <1>4, <1>5, <1>6, <1>7, <1>8, <1>9 DEF IInv

\* The change path announcement preserves the invariant.
LEMMA AnnounceChangePathIInv ==
  ASSUME IInv, AnnounceChangePath
  PROVE  IInv'
<1> USE DEF AfterDerive, AfterBuild, AfterTrust, AfterStream
<1>1. /\ run.pc = "announce" /\ UNCHANGED <<released, file, runs>> /\ run.plan \in Plans
      /\ run' = [run EXCEPT !.pc = "stream"]
      /\ dev' = [dev EXCEPT !.change = ChangePath(run.plan)]
  BY DEF AnnounceChangePath, IInv, ShapeInv
<1>2. ShapeInv'
  <2>1. ChangePath(run.plan) \in PathNames
    BY <1>1 DEF ChangePath, PathNames
  <2>. QED  BY <1>1, <2>1 DEF IInv, ShapeInv, ControlPoints
<1>3. /\ run'.pc = "stream" /\ run'.plan = run.plan /\ run'.pks = run.pks
      /\ run'.tis = run.tis /\ run'.offset = run.offset /\ run'.sigs = run.sigs
      /\ dev'.seed = dev.seed /\ dev'.prevouts = dev.prevouts
      /\ dev'.streamed = dev.streamed /\ dev'.change = ChangePath(run.plan)
  BY <1>1 DEF IInv, ShapeInv
<1>4. KeysInv'
  BY <1>1, <1>3 DEF IInv, KeysInv
<1>5. TisInv'
  BY <1>1, <1>3 DEF IInv, TisInv
<1>6. StreamInv'
  BY <1>1, <1>3 DEF IInv, StreamInv
<1>7. SignInv'
  BY <1>1, <1>3 DEF IInv, SignInv
<1>8. CheckedInv'
  BY <1>3 DEF CheckedInv
<1>9. FileInv' /\ DeviceSignsOnlyPlans'
  BY <1>1, FilesKept DEF IInv, DeviceSignsOnlyPlans
<1>. QED  BY <1>2, <1>4, <1>5, <1>6, <1>7, <1>8, <1>9 DEF IInv

\* A function on 1..n is a sequence of length n, and conversely.
LEMMA FcnIsSeq ==
  ASSUME NEW S, NEW n \in Nat, NEW s \in [1 .. n -> S]
  PROVE  s \in Seq(S) /\ Len(s) = n
<1>1. s \in Seq(S)
  BY SeqDef
<1>. QED  BY <1>1

\* A streamed chunk preserves the invariant: the device holds the serialized
\* outputs up to the host's offset, and all of them when the last chunk is marked.
LEMMA StreamChunkIInv ==
  ASSUME IInv, StreamChunk
  PROVE  IInv'
<1> USE DEF AfterDerive, AfterBuild, AfterTrust, AfterStream
<1> DEFINE ser      == SerializeOutputs(Outputs(run.plan, run.pks))
           end      == ChunkEnd(run.offset, Len(ser))
           streamed == dev.streamed \o SubSeq(ser, run.offset + 1, end)
<1>1. /\ run.pc = "stream" /\ UNCHANGED <<released, file, runs>>
      /\ dev' = [dev EXCEPT !.streamed = streamed, !.final = (end = Len(ser)),
                            !.prompted = (end = Len(ser)) /\ Prompts(dev, streamed)]
      /\ run' = [run EXCEPT !.offset = end,
                            !.pc = IF end = Len(ser) THEN "input" ELSE "stream"]
  BY DEF StreamChunk
<1>2. Len(ser) = 2 /\ ser = [n \in 1 .. 2 |-> ser[n]]
  BY SerializedOutput
<1>3. run.offset \in 0 .. 1 /\ dev.streamed = [n \in 1 .. run.offset |-> ser[n]]
  BY <1>1 DEF IInv, StreamInv
<1> HIDE DEF ser
<1>4. end \in {1, 2} /\ end > run.offset
  BY <1>2, <1>3, BoundAssumption DEF ChunkEnd
<1> HIDE DEF end
<1>5. streamed = [n \in 1 .. end |-> ser[n]]
  <2> DEFINE S == {ser[n] : n \in 1 .. 2}
  <2>1. streamed = dev.streamed \o SubSeq(ser, run.offset + 1, end)
    OBVIOUS
  <2> HIDE DEF streamed
  <2>2. PICK t, s, a, b, w :
          t = ser /\ s = dev.streamed /\ a = run.offset /\ b = end /\ w = streamed
    OBVIOUS
  <2>3. t \in Seq(S) /\ Len(t) = 2
    <3>1. t \in [1 .. 2 -> S]
      BY <1>2, <2>2
    <3> HIDE DEF S
    <3>. QED  BY <3>1, FcnIsSeq
  <2>4. s \in Seq(S) /\ Len(s) = a /\ \A k \in 1 .. Len(s) : s[k] = t[k]
    <3>1. a \in Nat /\ s \in [1 .. a -> S] /\ \A k \in 1 .. a : s[k] = t[k]
      BY <1>3, <2>2
    <3> HIDE DEF S
    <3>2. s \in Seq(S) /\ Len(s) = a
      BY <3>1, FcnIsSeq
    <3>. QED  BY <3>1, <3>2
  <2> HIDE DEF S
  <2>5. b \in Nat /\ Len(s) <= b /\ b <= Len(t)
    BY <1>3, <1>4, <2>2, <2>3, <2>4
  <2>6. w = s \o SubSeq(t, Len(s) + 1, b)
    BY <2>1, <2>2, <2>4
  <2>7. w \in Seq(S) /\ Len(w) = b /\ \A k \in 1 .. b : w[k] = t[k]
    <3>1. t \in Seq(S) /\ s \in Seq(S) /\ \A k \in 1 .. Len(s) : s[k] = t[k]
      BY <2>3, <2>4
    <3>. QED  BY <3>1, <2>5, <2>6, ConcatChunk
  <2>8. w = [k \in 1 .. b |-> w[k]]
    BY <2>5, <2>7, SeqIsFcn
  <2>9. w = [k \in 1 .. b |-> t[k]]
    BY <2>7, <2>8
  <2>. QED  BY <2>2, <2>9
<1> HIDE DEF streamed
<1>6. ShapeInv'
  <2>1. Prompts(dev, streamed) \in BOOLEAN
    BY DEF Prompts
  <2>. QED  BY <1>1, <2>1 DEF IInv, ShapeInv, ControlPoints
<1>7. /\ run'.pc = IF end = 2 THEN "input" ELSE "stream"
      /\ run'.plan = run.plan /\ run'.pks = run.pks
      /\ run'.tis = run.tis /\ run'.offset = end /\ run'.sigs = run.sigs
      /\ dev'.seed = dev.seed /\ dev'.prevouts = dev.prevouts /\ dev'.change = dev.change
      /\ dev'.streamed = streamed
      /\ end = 2 => dev'.final /\ dev'.prompted = Prompts(dev, streamed)
  BY <1>1, <1>2, <1>4 DEF IInv, ShapeInv, Prompts
<1>8. KeysInv'
  BY <1>1, <1>4, <1>7 DEF IInv, KeysInv
<1>9. TisInv'
  BY <1>1, <1>4, <1>7 DEF IInv, TisInv
<1>10. StreamInv'
  <2>1. dev.prevouts = run.tis /\ dev.change = ChangePath(run.plan)
    BY <1>1 DEF IInv, StreamInv
  <2>2. ser = SerializeOutputs(Outputs(run'.plan, run'.pks))
    BY <1>7 DEF ser
  <2>3. CASE end = 2
    <3>1. streamed = ser
      BY <1>2, <1>5, <2>3
    <3>2. dev'.prompted = Prompts(dev', ser)
      BY <1>7, <2>3, <3>1 DEF Prompts
    <3>. QED  BY <1>5, <1>7, <2>1, <2>2, <2>3, <3>2 DEF StreamInv
  <2>4. CASE end = 1
    BY <1>5, <1>7, <2>1, <2>2, <2>4 DEF StreamInv
  <2>. QED  BY <1>4, <2>3, <2>4
<1>11. SignInv'
  <2>1. run.sigs = <<>>
    BY <1>1 DEF IInv, SignInv
  <2>2. SigsUpTo(run'.sigs, dev'.seed, run'.plan, 0)
    BY <1>7, <2>1 DEF SigsUpTo
  <2>. QED  BY <1>4, <1>7, <2>1, <2>2 DEF SignInv, SigsUpTo, SigChecked
<1>12. CheckedInv'
  BY <1>4, <1>7 DEF CheckedInv
<1>13. FileInv' /\ DeviceSignsOnlyPlans'
  BY <1>1, FilesKept DEF IInv, DeviceSignsOnlyPlans
<1>. QED  BY <1>6, <1>8, <1>9, <1>10, <1>11, <1>12, <1>13 DEF IInv

\* startUntrustedTransaction(False, ...) preserves the invariant: the device signs
\* for the input the host is about to ask for.
LEMMA SelectInputIInv ==
  ASSUME IInv, SelectInput
  PROVE  IInv'
<1> USE DEF AfterDerive, AfterBuild, AfterTrust, AfterStream
<1> DEFINE i == Len(run.sigs) + 1
<1>1. /\ run.pc = "input" /\ UNCHANGED <<released, file, runs>>
      /\ dev' = [dev EXCEPT !.current = <<[ti |-> run.tis[i], code |-> run.plan.ins[i].spk]>>]
      /\ run' = [run EXCEPT !.pc = "sign"]
  BY DEF SelectInput
<1>2. PICK n \in 0 .. 1 : SigsUpTo(run.sigs, dev.seed, run.plan, n)
  BY <1>1 DEF IInv, SignInv
<1>3. i = n + 1
  <2>1. n \in Nat /\ run.sigs = [k \in 1 .. n |-> run.sigs[k]]
    BY <1>2 DEF SigsUpTo
  <2>. QED  BY <2>1, LenOfFcn
<1> HIDE DEF i
<1>4. ShapeInv'
  BY <1>1 DEF IInv, ShapeInv, ControlPoints
<1>5. /\ run'.pc = "sign" /\ run'.plan = run.plan /\ run'.pks = run.pks
      /\ run'.tis = run.tis /\ run'.offset = run.offset /\ run'.sigs = run.sigs
      /\ dev'.seed = dev.seed /\ dev'.prevouts = dev.prevouts /\ dev'.change = dev.change
      /\ dev'.streamed = dev.streamed /\ dev'.final = dev.final
      /\ dev'.prompted = dev.prompted
      /\ dev'.current = <<[ti |-> run.tis[i], code |-> run.plan.ins[i].spk]>>
  BY <1>1 DEF IInv, ShapeInv
<1>6. KeysInv'
  BY <1>1, <1>5 DEF IInv, KeysInv
<1>7. TisInv'
  BY <1>1, <1>5 DEF IInv, TisInv
<1>8. StreamInv'
  <2> DEFINE ser == SerializeOutputs(Outputs(run.plan, run.pks))
  <2>1. /\ run.offset = 2 /\ dev.prevouts = run.tis
        /\ dev.streamed = [k \in 1 .. run.offset |-> ser[k]]
        /\ dev.change = ChangePath(run.plan) /\ dev.final /\ dev.prompted = Prompts(dev, ser)
    BY <1>1 DEF IInv, StreamInv
  <2>2. Prompts(dev, ser)' = Prompts(dev, ser)
    BY <1>5 DEF Prompts
  <2>3. ser' = ser
    BY <1>5
  <2> HIDE DEF ser
  <2>4. /\ dev'.streamed = [k \in 1 .. run'.offset |-> ser'[k]]
        /\ dev'.prompted = Prompts(dev', ser')
    BY <1>5, <2>1, <2>2, <2>3
  <2>. QED  BY <1>5, <2>1, <2>4 DEF StreamInv, ser
<1>9. SignInv'
  <2>a. PICK sigs, seed, plan : sigs = run.sigs /\ seed = dev.seed /\ plan = run.plan
    OBVIOUS
  <2>b. released' = released /\ SigsUpTo(sigs, seed, plan, n)
    BY <1>1, <1>2, <2>a
  <2>c. sigs = run'.sigs /\ seed = dev'.seed /\ plan = run'.plan
    BY <1>5, <2>a
  <2>1. SigsUpTo(run.sigs, dev.seed, run.plan, n)'
    BY <2>b, <2>c DEF SigsUpTo, SigChecked
  <2>. QED  BY <1>3, <1>5, <2>1 DEF SignInv
<1>10. CheckedInv'
  BY <1>5 DEF CheckedInv
<1>11. FileInv' /\ DeviceSignsOnlyPlans'
  BY <1>1, FilesKept DEF IInv, DeviceSignsOnlyPlans
<1>. QED  BY <1>4, <1>6, <1>7, <1>8, <1>9, <1>10, <1>11 DEF IInv

\* untrustedHashSign and process_device_sig preserve the invariant: what the device
\* releases commits to the plan, and what the host keeps is canonical.
LEMMA HashSignIInv ==
  ASSUME IInv, NEW sighash \in SighashBytes, NEW der \in BOOLEAN, NEW s,
         HashSign(sighash, der, s)
  PROVE  IInv'
<1> USE DEF AfterDerive, AfterBuild, AfterTrust, AfterStream
<1>1. PICK p, seed, digest, key :
        /\ p = run.plan /\ seed = dev.seed /\ digest = DeviceDigest(dev)
        /\ key = PubKey(seed, p.ins[Len(run.sigs) + 1].path)
  OBVIOUS
<1>2. PICK sig, new, e :
        /\ sig = [key |-> key, digest |-> digest, sighash |-> sighash, der |-> der, s |-> s]
        /\ new = [key |-> key, digest |-> digest]
        /\ e = [sig |-> [key |-> key, digest |-> digest, s |-> "low"], sighash |-> sighash]
  OBVIOUS
<1>3. PICK sigs : sigs = Append(run.sigs, e)
  OBVIOUS
<1>4. /\ run.pc = "sign" /\ UNCHANGED <<dev, file, runs>> /\ p \in Plans
      /\ released' = released \cup {new}
      /\ \/ run' = NoRun
         \/ /\ SigAcceptable(sig)
            /\ run' = [run EXCEPT !.sigs = sigs,
                                  !.pc = IF Len(sigs) = 2 THEN "verify" ELSE "input"]
  BY <1>1, <1>2, <1>3 DEF HashSign, IInv, ShapeInv, Require, CanonicalSig
<1>5. PICK n \in 0 .. 1 :
        /\ SigsUpTo(run.sigs, seed, p, n)
        /\ dev.current = <<[ti |-> run.tis[n + 1], code |-> p.ins[n + 1].spk]>>
  BY <1>1, <1>4 DEF IInv, SignInv
<1>6. /\ n \in Nat /\ run.sigs = [k \in 1 .. n |-> run.sigs[k]]
      /\ n + 1 \in 1 .. 2 /\ n + 1 \in Nat
  BY <1>5 DEF SigsUpTo
<1>7. /\ Len(run.sigs) = n /\ Len(sigs) = n + 1
      /\ sigs = [k \in 1 .. n+1 |-> IF k <= n THEN run.sigs[k] ELSE e]
  BY <1>3, <1>6, AppendFcn
<1>8. PICK signed : signed = digest.sha256d
  OBVIOUS
<1>9. PICK intended, pks : intended = OracleSighash(p, pks, n+1).sha256d /\ pks = run.pks
  OBVIOUS
<1>10. /\ DOMAIN signed = DOMAIN intended
       /\ \A f \in DOMAIN intended \ {"value", "hashOutputHashes"} : signed[f] = intended[f]
       /\ signed.value = Chain[p.ins[n+1].txid][p.ins[n+1].vout].value
  <2>0. PICK d, i : d = dev /\ i = n + 1
    OBVIOUS
  <2>1. d.prevouts = [k \in 1 .. 2 |-> TrustedInput(p.ins[k].txid, p.ins[k].vout)]
    BY <1>1, <1>4, <2>0 DEF IInv, StreamInv, TisInv, TisUpTo
  <2>2. d.streamed = SerializeOutputs(Outputs(p, pks))
    <3>1. d.streamed = [k \in 1 .. 2 |-> SerializeOutputs(Outputs(p, pks))[k]]
      BY <1>1, <1>4, <1>9, <2>0 DEF IInv, StreamInv
    <3>. QED  BY <3>1, SerializedOutput
  <2>3. d.current = <<[ti |-> d.prevouts[i], code |-> p.ins[i].spk]>>
    BY <1>4, <1>5, <2>0 DEF IInv, StreamInv
  <2>i. i \in 1 .. 2
    BY <1>6, <2>0
  <2>4. /\ DOMAIN DeviceDigest(d).sha256d = DOMAIN OracleSighash(p, pks, i).sha256d
        /\ \A f \in DOMAIN OracleSighash(p, pks, i).sha256d \ {"value", "hashOutputHashes"} :
             DeviceDigest(d).sha256d[f] = OracleSighash(p, pks, i).sha256d[f]
        /\ DeviceDigest(d).sha256d.value = Chain[p.ins[i].txid][p.ins[i].vout].value
    BY <2>i, <2>1, <2>2, <2>3, DigestOfPlan
  <2>. QED  BY <1>1, <1>8, <1>9, <2>0, <2>4
<1>11. pks = KeysOf(seed, p)
  BY <1>1, <1>4, <1>9 DEF IInv, KeysInv
<1>12. key = PubKey(seed, p.ins[n+1].path) /\ key.seed = seed
  BY <1>1, <1>7 DEF PubKey
<1>13. Planned(new, p, n + 1)
  <2>1. KeysOf(seed, p)[n+1] = key
    <3>1. n + 1 \in 1 .. Len(Paths(p)) /\ Paths(p)[n+1] = p.ins[n+1].path
      BY <1>4, <1>6, PathsOfPlan
    <3>. QED  BY <1>12, <3>1 DEF KeysOf
  <2>2. new.key = key /\ new.digest = digest
    BY <1>2
  <2>. QED  BY <1>8, <1>9, <1>10, <1>11, <1>12, <2>1, <2>2 DEF Planned
<1>14. DeviceSignsOnlyPlans'
  <2> SUFFICES ASSUME NEW x \in released'
               PROVE  \E q \in Plans, i \in 1 .. 2 : Planned(x, q, i)
    BY DEF DeviceSignsOnlyPlans
  <2>1. CASE x \in released
    BY <2>1 DEF IInv, DeviceSignsOnlyPlans
  <2>2. CASE x = new
    BY <1>4, <1>6, <1>13, <2>2
  <2>. QED  BY <1>4, <2>1, <2>2
<1>15. FileInv'
  BY <1>4, FilesKept DEF IInv
<1>16. CASE run' = NoRun
  <2>1. ShapeInv'
    BY <1>4, <1>16 DEF IInv, ShapeInv, NoRun, ControlPoints
  <2>2. (KeysInv /\ TisInv /\ StreamInv /\ SignInv /\ CheckedInv)'
    BY <1>16, EndOfRun
  <2>. QED  BY <1>14, <1>15, <2>1, <2>2 DEF IInv
<1>17. CASE run' # NoRun
  <2>1. /\ SigAcceptable(sig)
        /\ run' = [run EXCEPT !.sigs = sigs,
                              !.pc = IF n + 1 = 2 THEN "verify" ELSE "input"]
    BY <1>4, <1>7, <1>17
  <2>2. SigChecked(e, seed, p, n + 1)'
    <3>1. sighash = SIGHASH_ALL_FORKID
      BY <1>2, <2>1 DEF SigAcceptable
    <3>2. e.sig.key = key /\ e.sig.digest = digest
      BY <1>2
    <3>. QED  BY <1>2, <1>4, <1>8, <1>10, <1>12, <3>1, <3>2 DEF SigChecked
  <2>3. SigsUpTo(sigs, seed, p, n + 1)'
    <3>1. \A k \in 1 .. n : SigChecked(run.sigs[k], seed, p, k)
      BY <1>5 DEF SigsUpTo
    <3>2. \A k \in 1 .. n : sigs[k] = run.sigs[k]
      BY <1>6, <1>7
    <3>3. \A k \in 1 .. n : SigChecked(sigs[k], seed, p, k)'
      BY <1>4, <3>1, <3>2 DEF SigChecked
    <3>4. sigs[n+1] = e /\ sigs = [k \in 1 .. n+1 |-> sigs[k]]
      BY <1>6, <1>7
    <3>. QED  BY <1>6, <2>2, <3>3, <3>4 DEF SigsUpTo
  <2>4. ShapeInv'
    BY <1>4, <2>1 DEF IInv, ShapeInv, ControlPoints
  <2>5. /\ run'.pc = IF n + 1 = 2 THEN "verify" ELSE "input"
        /\ run'.plan = run.plan /\ run'.pks = run.pks /\ run'.tis = run.tis
        /\ run'.offset = run.offset /\ run'.sigs = sigs
    BY <2>1 DEF IInv, ShapeInv
  <2>6. KeysInv'
    BY <1>4, <1>6, <2>5 DEF IInv, KeysInv
  <2>7. TisInv'
    BY <1>4, <1>6, <2>5 DEF IInv, TisInv
  <2>8. StreamInv'
    BY <1>4, <1>6, <2>5 DEF IInv, StreamInv
  <2>9. SignInv'
    <3>1. run'.plan = p /\ dev'.seed = seed /\ run'.sigs = sigs
      BY <1>1, <1>4, <2>5
    <3>2. SigsUpTo(run.sigs, dev.seed, run.plan, n + 1)'
      BY <2>3, <3>1
    <3>3. CASE n = 0
      BY <2>5, <3>2, <3>3 DEF SignInv
    <3>4. CASE n = 1
      BY <2>5, <3>2, <3>4 DEF SignInv
    <3>. QED  BY <3>3, <3>4
  <2>10. CheckedInv'
    BY <1>6, <2>5 DEF CheckedInv
  <2>. QED  BY <1>14, <1>15, <2>4, <2>6, <2>7, <2>8, <2>9, <2>10 DEF IInv
<1>. QED  BY <1>16, <1>17

\* verify_oracle_sigs preserves the invariant: past it both signatures are over the
\* host's own digests, hence over the real amounts and by the right firmware.
LEMMA VerifyIInv ==
  ASSUME IInv, Verify
  PROVE  IInv'
<1> USE DEF AfterDerive, AfterBuild, AfterTrust, AfterStream
<1>0. run.pc = "verify" /\ UNCHANGED <<dev, released, file, runs>>
  BY DEF Verify
<1>1. CASE Exit
  BY <1>0, <1>1, ExitIInv
<1>2. CASE ~ Exit
  <2>1. /\ run' = [run EXCEPT !.pc = "assemble"]
        /\ VerifyOracleSigs(run.plan, run.pks, run.sigs)
    BY <1>2 DEF Verify, Require, Exit
  <2>2. ShapeInv'
    BY <1>0, <2>1 DEF IInv, ShapeInv, ControlPoints
  <2>3. /\ run'.pc = "assemble" /\ run'.plan = run.plan /\ run'.pks = run.pks
        /\ run'.tis = run.tis /\ run'.offset = run.offset /\ run'.sigs = run.sigs
    BY <2>1 DEF IInv, ShapeInv
  <2>4. KeysInv'
    BY <1>0, <2>3 DEF IInv, KeysInv
  <2>5. TisInv'
    BY <1>0, <2>3 DEF IInv, TisInv
  <2>6. StreamInv'
    BY <1>0, <2>3 DEF IInv, StreamInv
  <2>7. SignInv'
    BY <1>0, <2>3 DEF IInv, SignInv, SigsUpTo, SigChecked
  <2>8. CheckedInv'
    BY <2>1, <2>3 DEF CheckedInv
  <2>9. FileInv' /\ DeviceSignsOnlyPlans'
    BY <1>0, FilesKept DEF IInv, DeviceSignsOnlyPlans
  <2>. QED  BY <2>2, <2>4, <2>5, <2>6, <2>7, <2>8, <2>9 DEF IInv
<1>. QED  BY <1>1, <1>2

\* Assembling the signed transaction preserves the invariant.
LEMMA AssembleIInv ==
  ASSUME IInv, Assemble
  PROVE  IInv'
<1> USE DEF AfterDerive, AfterBuild, AfterTrust, AfterStream
<1>0. run.pc = "assemble" /\ UNCHANGED <<dev, released, file, runs>>
  BY DEF Assemble
<1>1. CASE Exit
  BY <1>0, <1>1, ExitIInv
<1>2. CASE ~ Exit
  <2>1. PICK raw : raw = AssembleTx(run.plan, run.pks, ScriptSigs(run.pks, run.sigs))
    OBVIOUS
  <2>2. run' = [run EXCEPT !.raw = raw, !.pc = "open"]
    BY <1>2, <2>1 DEF Assemble, Require, Exit, ScriptSigs
  <2>3. ShapeInv'
    BY <1>0, <2>2 DEF IInv, ShapeInv, ControlPoints
  <2>4. /\ run'.pc = "open" /\ run'.plan = run.plan /\ run'.pks = run.pks
        /\ run'.tis = run.tis /\ run'.offset = run.offset /\ run'.sigs = run.sigs
        /\ run'.raw = raw
    BY <2>2 DEF IInv, ShapeInv
  <2>5. KeysInv'
    BY <1>0, <2>4 DEF IInv, KeysInv
  <2>6. TisInv'
    BY <1>0, <2>4 DEF IInv, TisInv
  <2>7. StreamInv'
    BY <1>0, <2>4 DEF IInv, StreamInv
  <2>8. SignInv'
    BY <1>0, <2>4 DEF IInv, SignInv, SigsUpTo, SigChecked
  <2>9. CheckedInv'
    BY <1>0, <2>1, <2>4 DEF IInv, CheckedInv
  <2>10. FileInv' /\ DeviceSignsOnlyPlans'
    BY <1>0, FilesKept DEF IInv, DeviceSignsOnlyPlans
  <2>. QED  BY <2>3, <2>5, <2>6, <2>7, <2>8, <2>9, <2>10 DEF IInv
<1>. QED  BY <1>1, <1>2

\* Emptying the output file preserves the invariant.
LEMMA OpenFileIInv ==
  ASSUME IInv, OpenFile
  PROVE  IInv'
<1> USE DEF AfterDerive, AfterBuild, AfterTrust, AfterStream
<1>1. /\ run.pc = "open" /\ UNCHANGED <<dev, released, runs>> /\ run.plan \in Plans
      /\ run' = [run EXCEPT !.pc = "write"]
      /\ file' = [file EXCEPT ![run.plan.file] = Torn]
  BY DEF OpenFile, IInv, ShapeInv
<1>2. ShapeInv'
  BY <1>1 DEF IInv, ShapeInv, ControlPoints
<1>3. /\ run'.pc = "write" /\ run'.plan = run.plan /\ run'.pks = run.pks
      /\ run'.tis = run.tis /\ run'.offset = run.offset /\ run'.sigs = run.sigs
      /\ run'.raw = run.raw
  BY <1>1 DEF IInv, ShapeInv
<1>4. DOMAIN file = Files /\ run.plan.file \in Files
  BY <1>1 DEF IInv, FileInv, Files
<1>5. KeysInv'
  BY <1>1, <1>3 DEF IInv, KeysInv
<1>6. TisInv'
  BY <1>1, <1>3 DEF IInv, TisInv
<1>7. StreamInv'
  BY <1>1, <1>3 DEF IInv, StreamInv
<1>8. SignInv'
  <2>1. SigsUpTo(run.sigs, dev.seed, run.plan, 2)
    BY <1>1 DEF IInv, SignInv
  <2>2. released' = released /\ dev' = dev
    BY <1>1
  <2>3. SigsUpTo(run.sigs, dev.seed, run.plan, 2)'
    BY <1>3, <2>1, <2>2 DEF SigsUpTo, SigChecked
  <2>. QED  BY <1>3, <2>3 DEF SignInv
<1>9. CheckedInv'
  <2>1. /\ VerifyOracleSigs(run.plan, run.pks, run.sigs)
        /\ run.raw = AssembleTx(run.plan, run.pks, ScriptSigs(run.pks, run.sigs))
    BY <1>1 DEF IInv, CheckedInv
  <2>2. VerifyOracleSigs(run.plan, run.pks, run.sigs)'
    BY <1>3, <2>1
  <2>3. (run.raw = AssembleTx(run.plan, run.pks, ScriptSigs(run.pks, run.sigs)))'
    BY <1>3, <2>1
  <2>4. (file[run.plan.file] = Torn)'
    BY <1>1, <1>3, <1>4
  <2>. QED  BY <2>2, <2>3, <2>4 DEF CheckedInv
<1>10. FileInv'
  <2>1. DOMAIN file' = Files
    BY <1>1, <1>4
  <2>2. ASSUME NEW f \in Files, Written(f)'
        PROVE  \E p \in Plans, seed \in Seeds : p.file = f /\ PassedBy(file[f], p, seed)'
    <3>1. file'[f] = file[f] /\ Written(f)
      BY <1>1, <1>4, <2>2 DEF Written
    <3>2. PICK p \in Plans, seed \in Seeds : p.file = f /\ PassedBy(file[f], p, seed)
      BY <3>1 DEF IInv, FileInv
    <3>3. PICK raw : raw = file[f] /\ raw = file'[f]
      BY <3>1
    <3>4. PassedBy(raw, p, seed)'
      BY <1>1, <3>2, <3>3, PassedKept
    <3>5. PassedBy(file[f], p, seed)'
      BY <3>3, <3>4
    <3>. QED  BY <3>2, <3>5
  <2>. QED  BY <2>1, <2>2 DEF FileInv
<1>11. DeviceSignsOnlyPlans'
  BY <1>1 DEF IInv, DeviceSignsOnlyPlans
<1>. QED  BY <1>2, <1>5, <1>6, <1>7, <1>8, <1>9, <1>10, <1>11 DEF IInv

\* What a run is about to write has passed all its checks.
LEMMA RawPassed ==
  ASSUME IInv, run.pc \in {"open", "write"}
  PROVE  PassedBy(run.raw, run.plan, dev.seed)
<1> USE DEF AfterDerive, AfterBuild, AfterTrust, AfterStream
<1>1. PICK p, seed, pks, sigs, raw :
        p = run.plan /\ seed = dev.seed /\ pks = run.pks /\ sigs = run.sigs /\ raw = run.raw
  OBVIOUS
<1>2. /\ pks = KeysOf(seed, p) /\ AddressesMatch(p, pks)
      /\ \A k \in 1 .. 2 : CoinThere(p.ins[k])
      /\ SigsUpTo(sigs, seed, p, 2)
      /\ VerifyOracleSigs(p, pks, sigs)
      /\ raw = AssembleTx(p, pks, ScriptSigs(pks, sigs))
  BY <1>1 DEF IInv, KeysInv, TisInv, TisUpTo, SignInv, CheckedInv
<1>3. \A i \in 1 .. 2 : raw.inputs[i].script_sig = MakeScriptSig(sigs[i].sig, pks[i], sigs[i].sighash)
  <2>1. \A i \in 1 .. 2 : raw.inputs[i].script_sig = ScriptSigs(pks, sigs)[i]
    BY <1>2 DEF AssembleTx
  <2>. QED  BY <2>1 DEF ScriptSigs
<1>4. \A i \in 1 .. 2 : /\ raw.inputs[i].script_sig.sig = sigs[i].sig
                       /\ raw.inputs[i].script_sig.sighash = sigs[i].sighash
  BY <1>3 DEF MakeScriptSig
<1>5. \A i \in 1 .. 2 : SigChecked(sigs[i], seed, p, i)
  BY <1>2 DEF SigsUpTo
<1>6. \A i \in 1 .. 2 : sigs[i] = [sig |-> sigs[i].sig, sighash |-> sigs[i].sighash]
  BY <1>5 DEF SigChecked
<1>7. sigs = [i \in 1 .. 2 |-> sigs[i]]
  BY <1>2 DEF SigsUpTo
<1>8. sigs = [i \in 1 .. 2 |-> [sig     |-> raw.inputs[i].script_sig.sig,
                               sighash |-> raw.inputs[i].script_sig.sighash]]
  BY <1>4, <1>6, <1>7
<1>9. PassedBy(raw, p, seed)
  BY <1>2, <1>5, <1>8 DEF PassedBy
<1>. QED  BY <1>1, <1>9

\* Writing the output file preserves the invariant: what it then holds was checked.
LEMMA WriteFileIInv ==
  ASSUME IInv, WriteFile
  PROVE  IInv'
<1>1. /\ run.pc = "write" /\ UNCHANGED <<dev, released, runs>> /\ run.plan \in Plans
      /\ run' = NoRun /\ dev.seed \in Seeds
      /\ file' = [file EXCEPT ![run.plan.file] = run.raw]
  BY DEF WriteFile, Exit, IInv, ShapeInv
<1>2. ShapeInv'
  BY <1>1 DEF IInv, ShapeInv, NoRun, ControlPoints
<1>3. (KeysInv /\ TisInv /\ StreamInv /\ SignInv /\ CheckedInv)'
  BY <1>1, EndOfRun
<1>4. FileInv'
  <2>1. DOMAIN file = Files /\ DOMAIN file' = Files /\ run.plan.file \in Files
    BY <1>1 DEF IInv, FileInv, Files
  <2>2. PassedBy(run.raw, run.plan, dev.seed)
    BY <1>1, RawPassed
  <2>3. ASSUME NEW f \in Files, Written(f)'
        PROVE  \E p \in Plans, seed \in Seeds : p.file = f /\ PassedBy(file[f], p, seed)'
    <3>0. PICK raw : raw = file'[f]
      OBVIOUS
    <3>1. PICK p \in Plans, seed \in Seeds : p.file = f /\ PassedBy(raw, p, seed)
      <4>1. CASE f = run.plan.file
        <5>1. raw = run.raw
          BY <1>1, <2>1, <3>0, <4>1
        <5>. QED  BY <1>1, <2>2, <4>1, <5>1
      <4>2. CASE f # run.plan.file
        <5>1. raw = file[f] /\ Written(f)
          BY <1>1, <2>1, <2>3, <3>0, <4>2 DEF Written
        <5>. QED  BY <5>1 DEF IInv, FileInv
      <4>. QED  BY <4>1, <4>2
    <3>2. PassedBy(raw, p, seed)'
      BY <1>1, <3>1, PassedKept
    <3>3. PassedBy(file[f], p, seed)'
      BY <3>0, <3>2
    <3>. QED  BY <3>1, <3>3
  <2>. QED  BY <2>1, <2>3 DEF FileInv
<1>5. DeviceSignsOnlyPlans'
  BY <1>1 DEF IInv, DeviceSignsOnlyPlans
<1>. QED  BY <1>2, <1>3, <1>4, <1>5 DEF IInv

\* Every step preserves the invariant.
LEMMA NextIInv == IInv /\ [Next]_vars => IInv'
<1> SUFFICES ASSUME IInv, [Next]_vars PROVE IInv'
  OBVIOUS
<1>1. CASE \E p \in Plans : StartRun(p)
  BY <1>1, StartRunIInv
<1>2. CASE DerivePubkey
  BY <1>2, DerivePubkeyIInv
<1>3. CASE BuildTransaction
  BY <1>3, BuildTransactionIInv
<1>4. CASE \E t \in DOMAIN Chain : LoadTrustedInput(t)
  BY <1>4, LoadTrustedInputIInv
<1>5. CASE StartTransaction
  BY <1>5, StartTransactionIInv
<1>6. CASE AnnounceChangePath
  BY <1>6, AnnounceChangePathIInv
<1>7. CASE StreamChunk
  BY <1>7, StreamChunkIInv
<1>8. CASE SelectInput
  BY <1>8, SelectInputIInv
<1>9. CASE \E sighash \in SighashBytes, der \in BOOLEAN, s \in {"low", "high"} :
             HashSign(sighash, der, s)
  BY <1>9, HashSignIInv
<1>10. CASE Verify
  BY <1>10, VerifyIInv
<1>11. CASE Assemble
  BY <1>11, AssembleIInv
<1>12. CASE OpenFile
  BY <1>12, OpenFileIInv
<1>13. CASE WriteFile
  BY <1>13, WriteFileIInv
<1>14. CASE Abandon
  BY <1>14, ExitIInv DEF Abandon
<1>15. CASE UNCHANGED vars
  <2>1. UNCHANGED <<run, dev, released, file, runs>>
    BY <1>15 DEF vars
  <2>2. ShapeInv' /\ KeysInv' /\ TisInv'
    BY <2>1 DEF IInv, ShapeInv, KeysInv, TisInv
  <2>3. StreamInv'
    BY <2>1 DEF IInv, StreamInv
  <2>4. SignInv' /\ CheckedInv'
    BY <2>1 DEF IInv, SignInv, SigsUpTo, SigChecked, CheckedInv
  <2>5. FileInv' /\ DeviceSignsOnlyPlans'
    BY <2>1, FilesKept DEF IInv, DeviceSignsOnlyPlans
  <2>. QED  BY <2>2, <2>3, <2>4, <2>5 DEF IInv
<1>. QED
  BY <1>1, <1>2, <1>3, <1>4, <1>5, <1>6, <1>7, <1>8, <1>9, <1>10, <1>11, <1>12, <1>13, <1>14,
     <1>15 DEF Next, Step

\* The invariant of main(): at each point, what its locals, the device and the
\* output files have to do with the plan, for any plans, chain and devices.
THEOREM Invariance == Spec => []IInv
<1>1. Init => IInv
  BY InitIInv
<1>2. IInv /\ [Next]_vars => IInv'
  BY NextIInv
<1>. QED  BY <1>1, <1>2, PTL DEF Spec

-----------------------------------------------------------------------------
(***************************************************************************)
(* What the invariant implies.                                             *)
(***************************************************************************)
\* The digest the host computes before signing is the one a node computes from
\* the signed transaction, whatever the scriptSigs.
LEMMA OracleIsConsensus ==
  ASSUME NEW p, NEW pks, NEW ss, NEW i \in 1 .. 2, NEW coin,
         coin.script_pubkey = p.ins[i].spk, coin.value = p.ins[i].value
  PROVE  OracleSighash(p, pks, i) = ConsensusSighash(AssembleTx(p, pks, ss), i, coin)
<1> DEFINE tx      == OracleTx(p, pks)
           raw     == AssembleTx(p, pks, ss)
           in(k)   == p.ins[k]
           wire(k) == Reversed(Display(in(k).txid))
<1>1. /\ DOMAIN tx.inputs = 1 .. 2
      /\ \A k \in 1 .. 2 : tx.inputs[k] = [prev_txid |-> Display(in(k).txid),
            prev_vout |-> in(k).vout, script_sig |-> <<>>, sequence |-> SEQUENCE]
      /\ tx.version = 2 /\ tx.locktime = 0 /\ tx.outputs = Outputs(p, pks)
  BY DEF OracleTx
<1>2. /\ DOMAIN raw.inputs = 1 .. 2
      /\ \A k \in 1 .. 2 : raw.inputs[k] = [prev_txid |-> wire(k),
            prev_vout |-> in(k).vout, script_sig |-> ss[k], sequence |-> SEQUENCE]
      /\ raw.version = 2 /\ raw.locktime = 0 /\ raw.outputs = Outputs(p, pks)
  BY DEF AssembleTx
<1>3. \A k \in 1 .. 2 : Reversed(tx.inputs[k].prev_txid) = wire(k)
  BY <1>1
<1>4. OracleSighash(p, pks, i) =
        ComputeRadiantSighash(tx, i, in(i).spk, in(i).value, SIGHASH_ALL_FORKID)
  BY DEF OracleSighash
<1>5. coin.script_pubkey = in(i).spk /\ coin.value = in(i).value
  OBVIOUS
<1> HIDE DEF tx, raw, wire, in
<1>6. ASSUME NEW k \in 1 .. 2
      PROVE  /\ raw.inputs[k].prev_txid = wire(k) /\ raw.inputs[k].prev_vout = in(k).vout
             /\ raw.inputs[k].sequence = SEQUENCE
             /\ tx.inputs[k].prev_vout = in(k).vout /\ tx.inputs[k].sequence = SEQUENCE
  <2>1. PICK x, y : x = raw.inputs[k] /\ y = tx.inputs[k]
    OBVIOUS
  <2>2. x = [prev_txid |-> wire(k), prev_vout |-> in(k).vout,
             script_sig |-> ss[k], sequence |-> SEQUENCE]
    BY <1>2, <2>1
  <2>3. y = [prev_txid |-> Display(in(k).txid), prev_vout |-> in(k).vout,
             script_sig |-> <<>>, sequence |-> SEQUENCE]
    BY <1>1, <2>1
  <2>. QED  BY <2>1, <2>2, <2>3
<1>7. GetPrevoutHash(tx) = Sha256d([k \in DOMAIN raw.inputs |->
        [txid |-> raw.inputs[k].prev_txid, vout |-> raw.inputs[k].prev_vout]])
  <2>1. \A k \in 1 .. 2 :
          [txid |-> Reversed(tx.inputs[k].prev_txid), vout |-> tx.inputs[k].prev_vout]
          = [txid |-> raw.inputs[k].prev_txid, vout |-> raw.inputs[k].prev_vout]
    BY <1>3, <1>6
  <2>2. [k \in DOMAIN tx.inputs |->
           [txid |-> Reversed(tx.inputs[k].prev_txid), vout |-> tx.inputs[k].prev_vout]]
        = [k \in DOMAIN raw.inputs |->
             [txid |-> raw.inputs[k].prev_txid, vout |-> raw.inputs[k].prev_vout]]
    BY <1>1, <1>2, <2>1, Zenon
  <2>. QED  BY <2>2, Zenon DEF GetPrevoutHash
<1>8. GetSequenceHash(tx) = Sha256d([k \in DOMAIN raw.inputs |-> raw.inputs[k].sequence])
  <2>1. \A k \in 1 .. 2 : tx.inputs[k].sequence = raw.inputs[k].sequence
    BY <1>6
  <2>2. [k \in DOMAIN tx.inputs |-> tx.inputs[k].sequence]
        = [k \in DOMAIN raw.inputs |-> raw.inputs[k].sequence]
    BY <1>1, <1>2, <2>1, Zenon
  <2>. QED  BY <2>2, Zenon DEF GetSequenceHash
<1>9. GetHashOutputHashes(tx) =
        Sha256d([k \in DOMAIN raw.outputs |-> PerOutputSummary(raw.outputs[k])])
  BY <1>1, <1>2, Zenon DEF GetHashOutputHashes
<1>10. GetOutputsHash(tx) = Sha256d(SerializeOutputs(raw.outputs))
  BY <1>1, <1>2, Zenon DEF GetOutputsHash
<1>11. PICK hp, hs, hh, ho :
         /\ hp = GetPrevoutHash(tx) /\ hs = GetSequenceHash(tx)
         /\ hh = GetHashOutputHashes(tx) /\ ho = GetOutputsHash(tx)
  OBVIOUS
<1>12. ConsensusSighash(raw, i, coin) = Sha256d(
         [version |-> raw.version, hashPrevouts |-> hp, hashSequence |-> hs,
          txid |-> raw.inputs[i].prev_txid, vout |-> raw.inputs[i].prev_vout,
          scriptCode |-> coin.script_pubkey, value |-> coin.value,
          sequence |-> raw.inputs[i].sequence,
          hashOutputHashes |-> hh, hashOutputs |-> ho,
          locktime |-> raw.locktime, sighashType |-> SIGHASH_ALL_FORKID])
  BY <1>7, <1>8, <1>9, <1>10, <1>11, Zenon DEF ConsensusSighash
<1>13. ConsensusSighash(raw, i, coin) = Sha256d(
         [version |-> 2, hashPrevouts |-> hp, hashSequence |-> hs,
          txid |-> wire(i), vout |-> in(i).vout, scriptCode |-> in(i).spk,
          value |-> in(i).value, sequence |-> SEQUENCE,
          hashOutputHashes |-> hh, hashOutputs |-> ho,
          locktime |-> 0, sighashType |-> SIGHASH_ALL_FORKID])
  BY <1>2, <1>5, <1>6, <1>12
<1>14. OracleSighash(p, pks, i) = Sha256d(
         [version |-> 2, hashPrevouts |-> hp, hashSequence |-> hs,
          txid |-> wire(i), vout |-> in(i).vout, scriptCode |-> in(i).spk,
          value |-> in(i).value, sequence |-> SEQUENCE,
          hashOutputHashes |-> hh, hashOutputs |-> ho,
          locktime |-> 0, sighashType |-> SIGHASH_ALL_FORKID])
  BY <1>1, <1>3, <1>4, <1>6, <1>11 DEF ComputeRadiantSighash
<1>. QED  BY <1>13, <1>14 DEF raw

\* The script and the amount a host digest commits to are the plan's.
LEMMA OracleFields ==
  ASSUME NEW p, NEW pks, NEW i
  PROVE  /\ OracleSighash(p, pks, i).sha256d.scriptCode = p.ins[i].spk
         /\ OracleSighash(p, pks, i).sha256d.value = p.ins[i].value
  BY DEF OracleSighash, ComputeRadiantSighash, Sha256d

\* A transaction that passed a run's checks has two inputs, and its outputs.
LEMMA PassedShape ==
  ASSUME NEW raw, NEW p, NEW seed, PassedBy(raw, p, seed)
  PROVE  DOMAIN raw.inputs = 1 .. 2 /\ raw.outputs = Outputs(p, KeysOf(seed, p))
<1>1. PICK ss : raw = AssembleTx(p, KeysOf(seed, p), ss)
  BY DEF PassedBy
<1>. QED  BY <1>1 DEF AssembleTx

\* What input i of a transaction that passed the checks of plan p looks like.
InputChecked(raw, p, pks, i) ==
  LET in  == raw.inputs[i]
      sig == in.script_sig.sig
  IN  /\ in.prev_txid.id = p.ins[i].txid /\ in.prev_txid.order = "wire"
      /\ in.prev_vout = p.ins[i].vout
      /\ CoinExists(in)
      /\ in.script_sig.pk = pks[i] /\ in.script_sig.sighash = SIGHASH_ALL_FORKID
      /\ sig.key = pks[i] /\ sig.s = "low"
      /\ Hash160(pks[i]) = p.ins[i].addr
      /\ sig.digest = OracleSighash(p, pks, i)
      /\ [key |-> sig.key, digest |-> sig.digest] \in released
      /\ p.ins[i].value = Coin(in).value

\* Once both inputs have passed verification, each is what a node wants of it.
LEMMA PassedInputs ==
  ASSUME NEW raw, NEW p, NEW seed, PassedBy(raw, p, seed), NEW i \in 1 .. 2
  PROVE  InputChecked(raw, p, KeysOf(seed, p), i)
<1>1. PICK pks, sigs, ss :
        /\ pks = KeysOf(seed, p)
        /\ sigs = [k \in 1 .. 2 |-> [sig     |-> raw.inputs[k].script_sig.sig,
                                   sighash |-> raw.inputs[k].script_sig.sighash]]
        /\ ss = ScriptSigs(pks, sigs)
  OBVIOUS
<1>2. /\ raw = AssembleTx(p, pks, ss) /\ AddressesMatch(p, pks)
      /\ VerifyOracleSigs(p, pks, sigs)
      /\ CoinThere(p.ins[i]) /\ SigChecked(sigs[i], seed, p, i)
  BY <1>1, Zenon DEF PassedBy
<1>3. raw.inputs[i] = [prev_txid |-> Reversed(Display(p.ins[i].txid)),
           prev_vout |-> p.ins[i].vout, script_sig |-> ss[i], sequence |-> SEQUENCE]
  BY <1>2 DEF AssembleTx
<1>4. PICK in : in = raw.inputs[i]
  OBVIOUS
<1>5. /\ in.prev_txid = Reversed(Display(p.ins[i].txid)) /\ in.prev_vout = p.ins[i].vout
      /\ in.script_sig = ss[i]
  BY <1>3, <1>4
<1>6. in.prev_txid.id = p.ins[i].txid /\ in.prev_txid.order = "wire"
  BY <1>5 DEF Reversed, Display
<1>7. ss[i] = [sig |-> sigs[i].sig, pk |-> pks[i], sighash |-> sigs[i].sighash]
  BY <1>1 DEF ScriptSigs, MakeScriptSig
<1>8. in.script_sig.pk = pks[i] /\ in.script_sig.sig = sigs[i].sig
      /\ in.script_sig.sighash = sigs[i].sighash
  BY <1>5, <1>7
<1>9. sigs[i].sighash = SIGHASH_ALL_FORKID /\ sigs[i].sig.s = "low"
      /\ [key |-> sigs[i].sig.key, digest |-> sigs[i].sig.digest] \in released
      /\ sigs[i].sig.digest.sha256d.value = Chain[p.ins[i].txid][p.ins[i].vout].value
  BY <1>2 DEF SigChecked
<1>10. sigs[i].sig.key = pks[i] /\ sigs[i].sig.digest = OracleSighash(p, pks, i)
  BY <1>2 DEF VerifyOracleSigs
<1>11. CoinExists(in) /\ Coin(in) = Chain[p.ins[i].txid][p.ins[i].vout]
  BY <1>2, <1>5, <1>6 DEF CoinThere, CoinExists, Coin
<1>12. p.ins[i].value = Coin(in).value
  BY <1>9, <1>10, <1>11, OracleFields
<1>13. Hash160(pks[i]) = p.ins[i].addr
  BY <1>2 DEF AddressesMatch
<1>. QED
  BY <1>1, <1>4, <1>5, <1>6, <1>8, <1>9, <1>10, <1>11, <1>12, <1>13 DEF InputChecked

\* The inductive invariant gives the type invariant.
LEMMA IInvTypeOK == IInv => TypeOK
<1> USE DEF AfterDerive, AfterBuild, AfterTrust, AfterStream
<1> SUFFICES ASSUME IInv PROVE TypeOK
  OBVIOUS
<1>1. /\ run.pc \in ControlPoints
      /\ dev.seed \in Seeds /\ dev.firmware \in Firmwares
      /\ dev.change \in PathNames \cup {NoPath}
      /\ dev.final \in BOOLEAN /\ dev.prompted \in BOOLEAN
      /\ runs \in 0 .. MaxRuns /\ DOMAIN file = Files
  BY DEF IInv, ShapeInv, FileInv
<1>2. CASE run.pc = "idle"
  <2>1. /\ run.plan = NoPlan /\ run.pks = <<>> /\ run.tis = <<>> /\ run.sigs = <<>>
        /\ run.offset = 0
    BY <1>2 DEF IInv, ShapeInv, NoRun
  <2>. QED  BY <1>1, <2>1 DEF TypeOK
<1>3. CASE run.pc # "idle"
  <2>1. PICK p, seed : p = run.plan /\ seed = dev.seed /\ p \in Plans /\ seed \in Seeds
    BY <1>3 DEF IInv, ShapeInv
  <2>2. run.offset \in 0 .. 2
    BY <1>1, <1>3 DEF IInv, StreamInv, ControlPoints
  <2>3. \A k \in 1 .. Len(Paths(p)) : PubKey(seed, Paths(p)[k]) \in Keys
    BY <2>1, PathsOfPlan DEF PubKey, Keys
  <2>4. Len(run.pks) \in 0 .. 3 /\ \A k \in 1 .. Len(run.pks) : run.pks[k] \in Keys
    <3>1. PICK n : /\ n \in 0 .. Len(Paths(p)) /\ run.pks = KeysUpTo(seed, p, n)
      <4>1. CASE run.pc = "derive"
        <5>1. PICK n \in 0 .. Len(Paths(p)) - 1 : run.pks = KeysUpTo(seed, p, n)
          BY <2>1, <4>1 DEF IInv, KeysInv
        <5>2. n \in 0 .. Len(Paths(p))
          BY <2>1, PathsOfPlan
        <5>. QED  BY <5>1, <5>2
      <4>2. CASE run.pc # "derive"
        <5>1. run.pc \in AfterDerive
          BY <1>1, <1>3, <4>2 DEF ControlPoints
        <5>2. run.pks = KeysUpTo(seed, p, Len(Paths(p)))
          BY <2>1, <5>1 DEF IInv, KeysInv, KeysOf, KeysUpTo
        <5>3. Len(Paths(p)) \in 0 .. Len(Paths(p))
          BY <2>1, PathsOfPlan
        <5>. QED  BY <5>2, <5>3
      <4>. QED  BY <4>1, <4>2
    <3>2. n \in Nat /\ n <= 3 /\ n <= Len(Paths(p)) /\ Len(Paths(p)) \in Nat
      BY <2>1, <3>1, PathsOfPlan
    <3>3. run.pks = [k \in 1 .. n |-> run.pks[k]]
      BY <3>1 DEF KeysUpTo
    <3>4. Len(run.pks) = n
      BY <3>2, <3>3, LenOfFcn
    <3>5. \A k \in 1 .. n : run.pks[k] \in Keys
      BY <2>3, <3>1, <3>2 DEF KeysUpTo
    <3>. QED  BY <3>2, <3>4, <3>5
  <2>5. Len(run.tis) \in 0 .. 2 /\ \A k \in 1 .. Len(run.tis) : run.tis[k] \in TrustedInputs
    <3>1. PICK n : n \in 0 .. 2 /\ TisUpTo(run.tis, p, n)
      <4>1. CASE run.pc \in {"derive", "build"}
        <5>1. run.tis = <<>>
          BY <4>1 DEF IInv, TisInv
        <5>. QED  BY <5>1 DEF TisUpTo
      <4>2. CASE run.pc = "trust"
        BY <2>1, <4>2 DEF IInv, TisInv
      <4>3. CASE run.pc \in AfterTrust
        BY <2>1, <4>3 DEF IInv, TisInv
      <4>. QED  BY <1>1, <1>3, <4>1, <4>2, <4>3 DEF ControlPoints
    <3>2. n \in Nat /\ run.tis = [k \in 1 .. n |-> run.tis[k]]
      BY <3>1 DEF TisUpTo
    <3>3. Len(run.tis) = n
      BY <3>2, LenOfFcn
    <3>4. ASSUME NEW k \in 1 .. n PROVE run.tis[k] \in TrustedInputs
      <4>1. run.tis[k] = TrustedInput(p.ins[k].txid, p.ins[k].vout) /\ CoinThere(p.ins[k])
        BY <3>1 DEF TisUpTo
      <4>. QED  BY <4>1 DEF TrustedInputs, CoinThere
    <3>. QED  BY <3>1, <3>3, <3>4
  <2>6. /\ Len(run.sigs) \in 0 .. 2
        /\ \A k \in 1 .. Len(run.sigs) :
             run.sigs[k].sig.key \in Keys /\ run.sigs[k].sighash = SIGHASH_ALL_FORKID
    <3>1. PICK n : n \in 0 .. 2 /\ SigsUpTo(run.sigs, seed, p, n)
      <4>1. CASE run.pc \notin AfterStream
        <5>1. run.sigs = <<>>
          BY <4>1 DEF IInv, SignInv
        <5>. QED  BY <5>1 DEF SigsUpTo
      <4>2. CASE run.pc \in {"input", "sign"}
        BY <2>1, <4>2 DEF IInv, SignInv
      <4>3. CASE run.pc \in AfterStream \ {"input", "sign"}
        BY <2>1, <4>3 DEF IInv, SignInv
      <4>. QED  BY <4>1, <4>2, <4>3
    <3>2. n \in Nat /\ run.sigs = [k \in 1 .. n |-> run.sigs[k]]
      BY <3>1 DEF SigsUpTo
    <3>3. Len(run.sigs) = n
      BY <3>2, LenOfFcn
    <3>4. ASSUME NEW k \in 1 .. n
          PROVE  run.sigs[k].sig.key \in Keys /\ run.sigs[k].sighash = SIGHASH_ALL_FORKID
      <4>1. PICK e : e = run.sigs[k] /\ SigChecked(e, seed, p, k)
        BY <3>1 DEF SigsUpTo
      <4>2. e.sig.key = PubKey(seed, p.ins[k].path) /\ e.sighash = SIGHASH_ALL_FORKID
        BY <4>1 DEF SigChecked
      <4>3. k \in 1 .. Len(Paths(p)) /\ Paths(p)[k] = p.ins[k].path
        BY <2>1, <3>1, PathsOfPlan
      <4>. QED  BY <2>3, <4>1, <4>2, <4>3
    <3>. QED  BY <3>1, <3>3, <3>4
  <2>. QED  BY <1>1, <2>1, <2>2, <2>4, <2>5, <2>6 DEF TypeOK
<1>. QED  BY <1>2, <1>3

\* A transaction that passed its checks under the coins' own scripts is accepted.
LEMMA PassedIsAccepted ==
  ASSUME NEW raw, NEW p \in Plans, NEW seed, PassedBy(raw, p, seed), CodesAreReal(raw)
  PROVE  NetworkAccepts(raw)
<1>1. PICK pks : pks = KeysOf(seed, p)
  OBVIOUS
<1>2. DOMAIN raw.inputs = 1 .. 2 /\ raw.outputs = Outputs(p, pks)
  BY <1>1, PassedShape
<1>3. ASSUME NEW i \in 1 .. 2
      PROVE  /\ CoinExists(raw.inputs[i]) /\ InputAccepted(raw, i)
             /\ Coin(raw.inputs[i]).script_pubkey = p.ins[i].spk
  <2>1. PICK in, ss, coin : in = raw.inputs[i] /\ ss = in.script_sig /\ coin = Coin(in)
    OBVIOUS
  <2>2. /\ in.prev_txid.order = "wire" /\ CoinExists(in)
        /\ ss.pk = pks[i] /\ ss.sighash = SIGHASH_ALL_FORKID
        /\ ss.sig.key = pks[i] /\ ss.sig.s = "low"
        /\ Hash160(pks[i]) = p.ins[i].addr
        /\ ss.sig.digest = OracleSighash(p, pks, i)
        /\ p.ins[i].value = coin.value
    <3>1. InputChecked(raw, p, pks, i)
      BY <1>1, PassedInputs
    <3>. QED  BY <2>1, <3>1 DEF InputChecked
  <2>3. coin.script_pubkey = p.ins[i].spk
    <3>1. ss.sig.digest.sha256d.scriptCode = coin.script_pubkey
      BY <1>2, <2>1 DEF CodesAreReal
    <3>. QED  BY <2>2, <3>1, OracleFields
  <2>4. Hash160(ss.pk) = coin.script_pubkey.pkh
    <3>1. p.ins[i].addr = p.ins[i].spk.pkh
      BY PlanAssumption DEF PlanOK
    <3>. QED  BY <2>2, <2>3, <3>1
  <2>5. ss.sig.digest = ConsensusSighash(raw, i, coin)
    <3>1. PICK x : raw = AssembleTx(p, pks, x)
      BY <1>1 DEF PassedBy
    <3>. QED  BY <2>2, <2>3, <3>1, OracleIsConsensus
  <2>. QED  BY <2>1, <2>2, <2>3, <2>4, <2>5 DEF InputAccepted
<1>4. RefsCarried(raw)
  <2>1. PICK out : out = OutScript(p, pks)
    OBVIOUS
  <2>2. \A k \in DOMAIN raw.outputs : raw.outputs[k].script_pubkey = out
    BY <1>2, <2>1 DEF Outputs
  <2>3. \A r \in PushRefs(out) : r \in PushRefs(p.ins[1].spk)
    <3>1. CASE p.kind = "transfer"
      <4>1. out.ops = <<[op |-> "OP_PUSHINPUTREFSINGLETON", ref |-> p.ref]>>
        BY <2>1, <3>1 DEF OutScript
      <4>2. \A r \in PushRefs(out) : r = p.ref
        BY <4>1 DEF PushRefs, RefsOf
      <4>3. p.ref \in PushRefs(p.ins[1].spk)
        BY <3>1, PlanAssumption DEF PlanOK
      <4>. QED  BY <4>2, <4>3
    <3>2. CASE p.kind # "transfer"
      <4>1. out.ops = <<>>
        BY <2>1, <3>2 DEF OutScript
      <4>. QED  BY <4>1 DEF PushRefs, RefsOf
    <3>. QED  BY <3>1, <3>2
  <2>4. 1 \in DOMAIN raw.inputs /\ Coin(raw.inputs[1]).script_pubkey = p.ins[1].spk
    BY <1>2, <1>3
  <2>. QED  BY <2>2, <2>3, <2>4 DEF RefsCarried
<1>. QED  BY <1>2, <1>3, <1>4 DEF NetworkAccepts

\* The inductive invariant gives: a node accepts what a file holds.
LEMMA IInvWrittenIsAccepted == IInv => WrittenIsAccepted
<1> SUFFICES ASSUME IInv, NEW f \in Files, Written(f), CodesAreReal(file[f])
             PROVE  NetworkAccepts(file[f])
  BY DEF WrittenIsAccepted
<1>1. PICK p \in Plans, seed \in Seeds : PassedBy(file[f], p, seed)
  BY DEF IInv, FileInv
<1>. QED  BY <1>1, PassedIsAccepted

\* The inductive invariant gives: the fee paid is a plan's.
LEMMA IInvFeeIsIntended == IInv => FeeIsIntended
<1> SUFFICES ASSUME IInv, NEW f \in Files, Written(f)
             PROVE  \E p \in Plans :
                      /\ p.file = f
                      /\ Coin(file[f].inputs[1]).value + Coin(file[f].inputs[2]).value
                           - file[f].outputs[1].value = p.fee
  BY DEF FeeIsIntended
<1>1. PICK p \in Plans, seed \in Seeds : p.file = f /\ PassedBy(file[f], p, seed)
  BY DEF IInv, FileInv
<1>2. PICK raw, pks : raw = file[f] /\ pks = KeysOf(seed, p)
  OBVIOUS
<1>3. /\ raw.outputs = Outputs(p, pks)
      /\ p.ins[1].value = Coin(raw.inputs[1]).value
      /\ p.ins[2].value = Coin(raw.inputs[2]).value
  <2>1. raw.outputs = Outputs(p, pks)
    BY <1>1, <1>2, PassedShape
  <2>2. \A i \in 1 .. 2 : p.ins[i].value = Coin(raw.inputs[i]).value
    <3>1. \A i \in 1 .. 2 : InputChecked(raw, p, pks, i)
      BY <1>1, <1>2, PassedInputs
    <3>. QED  BY <3>1 DEF InputChecked
  <2>. QED  BY <2>1, <2>2
<1>4. raw.outputs[1].value = p.ins[1].value + p.ins[2].value - p.fee
  BY <1>3 DEF Outputs, OutValue
<1>5. p.ins[1].value \in Nat /\ p.ins[2].value \in Nat /\ p.fee \in Nat
  BY PlanAssumption DEF PlanOK
<1>6. Coin(raw.inputs[1]).value + Coin(raw.inputs[2]).value - raw.outputs[1].value = p.fee
  BY <1>3, <1>4, <1>5
<1>. QED  BY <1>1, <1>2, <1>6

\* The inductive invariant gives: a transfer never prompts.
LEMMA IInvTransferIsSilent == IInv => TransferIsSilent
<1> USE DEF AfterDerive, AfterBuild, AfterTrust, AfterStream
<1> SUFFICES ASSUME IInv, run.pc \in {"input", "sign"}, run.plan.kind = "transfer"
             PROVE  ~ dev.prompted
  BY DEF TransferIsSilent
<1>1. PICK p, pks, ser : p = run.plan /\ pks = run.pks /\ ser = SerializeOutputs(Outputs(p, pks))
  OBVIOUS
<1>2. /\ p \in Plans /\ pks = KeysOf(dev.seed, p)
      /\ dev.change = ChangePath(p) /\ dev.prompted = Prompts(dev, ser)
  BY <1>1 DEF IInv, ShapeInv, KeysInv, StreamInv
<1>3. dev.change = p.destPath /\ pks[3] = PubKey(dev.seed, p.destPath)
  BY <1>1, <1>2, PathsOfPlan DEF ChangePath, KeysOf
<1>4. DOMAIN ser = 1 .. 2 /\ \A n \in 1 .. 2 : ser[n].out = Outputs(p, pks)[1]
  BY <1>1, SerializedOutput
<1>5. Outputs(p, pks)[1].script_pubkey.pkh = Hash160(pks[3])
  BY <1>1 DEF Outputs, OutScript
<1>. QED  BY <1>2, <1>3, <1>4, <1>5 DEF Prompts

-----------------------------------------------------------------------------
(***************************************************************************)
(* The scripts implement ApprovedSpend, step by step.                      *)
(***************************************************************************)
\* A step of the script that hands out no signature and touches no file.
LEMMA SilentStep ==
  ASSUME UNCHANGED <<released, file>>
  PROVE  UNCHANGED Abstract!vars
  BY DEF Abstract!vars

\* What a run publishes, the device has approved in full.
LEMMA PassedIsApproved ==
  ASSUME NEW raw, NEW p, NEW seed, PassedBy(raw, p, seed)
  PROVE  Abstract!Approved(raw, released)
<1>1. PICK pks : pks = KeysOf(seed, p)
  OBVIOUS
<1>2. DOMAIN raw.inputs = 1 .. 2
  BY PassedShape
<1>3. ASSUME NEW i \in 1 .. 2
      PROVE  /\ [key |-> raw.inputs[i].script_sig.sig.key,
                 digest |-> raw.inputs[i].script_sig.sig.digest] \in released
             /\ Abstract!CommitsTo(raw.inputs[i].script_sig.sig.digest, raw, i)
  <2>1. PICK digest, coin :
          /\ digest = raw.inputs[i].script_sig.sig.digest
          /\ coin = [script_pubkey |-> digest.sha256d.scriptCode, value |-> digest.sha256d.value]
    OBVIOUS
  <2>2. InputChecked(raw, p, pks, i)
    BY <1>1, PassedInputs
  <2>3. digest = OracleSighash(p, pks, i)
    BY <2>1, <2>2 DEF InputChecked
  <2>4. coin.script_pubkey = p.ins[i].spk /\ coin.value = p.ins[i].value
    BY <2>1, <2>3, OracleFields
  <2>5. PICK ss : raw = AssembleTx(p, pks, ss)
    BY <1>1 DEF PassedBy
  <2>6. digest = ConsensusSighash(raw, i, coin)
    BY <2>3, <2>4, <2>5, OracleIsConsensus
  <2>7. Abstract!CommitsTo(digest, raw, i)
    BY <2>1, <2>6 DEF Abstract!CommitsTo
  <2>. QED  BY <2>1, <2>2, <2>7 DEF InputChecked
<1>. QED  BY <1>2, <1>3 DEF Abstract!Approved

\* Every step of the scripts is a step of ApprovedSpend or changes nothing it sees.
LEMMA StepImplements == IInv /\ [Next]_vars => [Abstract!Next]_(Abstract!vars)
<1> SUFFICES ASSUME IInv, [Next]_vars PROVE Abstract!Next \/ UNCHANGED Abstract!vars
  OBVIOUS
<1>1. CASE UNCHANGED <<released, file>>
  BY <1>1, SilentStep
<1>2. CASE \E sighash \in SighashBytes, der \in BOOLEAN, s \in {"low", "high"} :
             HashSign(sighash, der, s)
  <2>1. PICK x : released' = released \cup {x} /\ UNCHANGED file
    BY <1>2 DEF HashSign
  <2>2. x \in released'
    BY <2>1
  <2>. QED  BY <2>1, <2>2 DEF Abstract!Next, Abstract!Release
<1>3. CASE OpenFile
  <2>1. PICK f : f = run.plan.file /\ f \in Files
    BY <1>3 DEF OpenFile, IInv, ShapeInv, Files
  <2>2. file' = [file EXCEPT ![f] = Torn] /\ UNCHANGED released
    BY <1>3, <2>1 DEF OpenFile
  <2>. QED  BY <2>1, <2>2 DEF Abstract!Next, Abstract!Truncate
<1>4. CASE WriteFile
  <2>1. PICK f, raw : f = run.plan.file /\ f \in Files /\ raw = run.raw
    BY <1>4 DEF WriteFile, IInv, ShapeInv, Files
  <2>2. /\ file' = [file EXCEPT ![f] = raw] /\ UNCHANGED released
        /\ DOMAIN file = Files /\ file[f] = Torn
    BY <1>4, <2>1 DEF WriteFile, IInv, FileInv, CheckedInv
  <2>3. file'[f] = raw
    BY <2>1, <2>2
  <2>4. Abstract!Approved(raw, released)
    BY <1>4, <2>1, RawPassed, PassedIsApproved DEF WriteFile
  <2>5. Abstract!Publish(f)
    BY <2>2, <2>3, <2>4 DEF Abstract!Publish
  <2>. QED  BY <2>1, <2>5 DEF Abstract!Next
<1>5. CASE UNCHANGED vars
  BY <1>5, SilentStep DEF vars
<1>. QED
  BY <1>1, <1>2, <1>3, <1>4, <1>5 DEF Next, Step, StartRun, DerivePubkey, BuildTransaction,
     LoadTrustedInput, StartTransaction, AnnounceChangePath, StreamChunk, SelectInput,
     Verify, Assemble, Abandon

-----------------------------------------------------------------------------
(***************************************************************************)
(* The results.                                                            *)
(***************************************************************************)
\* The script's locals, the device and the output files keep their types.
THEOREM TypeCorrect == Spec => []TypeOK
  BY Invariance, IInvTypeOK, PTL

\* No signature a device releases commits to anything but the inputs and the
\* output of one plan, whatever the chain holds and however runs ended.
THEOREM OnlyPlansAreSigned == Spec => []DeviceSignsOnlyPlans
<1>1. IInv => DeviceSignsOnlyPlans
  BY DEF IInv
<1>. QED  BY <1>1, Invariance, PTL

\* A node accepts what the output files hold, for any plans whose locking
\* scripts are the coins' own.
THEOREM WrittenAccepted == Spec => []WrittenIsAccepted
  BY Invariance, IInvWrittenIsAccepted, PTL

\* The fee a written transaction pays is the fee of a plan.
THEOREM FeeIntended == Spec => []FeeIsIntended
  BY Invariance, IInvFeeIsIntended, PTL

\* The device never asks the user about the output of a transfer.
THEOREM TransferSilent == Spec => []TransferIsSilent
  BY Invariance, IInvTransferIsSilent, PTL

\* The scripts and the device implement ApprovedSpend: a transaction is
\* published only once the device has approved all of it.
THEOREM Implementation == Spec => ImplementsApprovedSpend
<1>1. Init => Abstract!Init
  BY DEF Init, Abstract!Init
<1>2. IInv /\ [Next]_vars => [Abstract!Next]_(Abstract!vars)
  BY StepImplements
<1>. QED  BY <1>1, <1>2, Invariance, PTL DEF Spec, ImplementsApprovedSpend, Abstract!Spec
=============================================================================
