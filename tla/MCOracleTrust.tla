--------------------------- MODULE MCOracleTrust ---------------------------
(***************************************************************************)
(* Mainnet transactions of every shape the scripts use, small: one input   *)
(* and two outputs, two inputs, a consolidation of four, references pushed *)
(* plainly, as a singleton and twice.  Five devices and prev-tx files.     *)
(***************************************************************************)
EXTENDS OracleTrust

CONSTANTS t1, t2, t3, t4, t5, t6, t7, fund, other, ref, ref2

P2pkh(k) == [ops |-> <<>>, pkh |-> k]
Out(value, script) == [value |-> value, script_pubkey |-> script]

\* A confirmed transaction of n inputs, all from transaction t; no two transactions
\* spend coins of the same amount.
Confirmed(t, base, n, outs) ==
  [raw |-> [version |-> 1,
            inputs  |-> [i \in 1 .. n |->
              [prev_txid |-> Reversed(Display(t)), prev_vout |-> i - 1,
               script_sig |-> <<>>, sequence |-> "ffffffff"]],
            outputs |-> outs, locktime |-> 0],
   coins |-> [i \in 1 .. n |-> Out(base + i, P2pkh("k1"))],
   signer |-> "right"]

Addr(path) == Hash160(PubKey("ours", path))
OpReturn == [ops |-> <<[op |-> "OP_RETURN", ref |-> "hello"]>>, pkh |-> "none"]

MCFunding == Confirmed(t1, 10, 1, <<Out(1, P2pkh("k2")), Out(9, P2pkh("k1"))>>)
Multi == Confirmed(t2, 20, 2, <<Out(3, P2pkh("k2")), Out(4, P2pkh("k1"))>>)
MCTargets == <<MCFunding, Multi>>
MCConsolidation == Confirmed(t3, 30, 4, <<Out(40, P2pkh("k3"))>>)
MCForeignSpk == P2pkh("foreign")

MCGlyphTx ==
  Confirmed(t4, 40, 2, <<Out(1, [ops |-> <<Push(ref)>>, pkh |-> "k2"]),
                     Out(2, [ops |-> <<Singleton(ref2)>>, pkh |-> "k2"])>>)
MCGlyphFiles == {Absent, MCGlyphTx, Multi, MCFunding}

DoublePush ==
  Confirmed(t5, 50, 1, <<Out(1, [ops |-> <<Push(ref), Singleton(ref2), Push(ref)>>, pkh |-> "k2"])>>)
Sweep == Confirmed(t6, 60, 1, <<Out(5, P2pkh("k2"))>>)
Data == Confirmed(t7, 70, 3, <<Out(0, OpReturn), Out(5, P2pkh("k2"))>>)

\* The explorer returns what it is asked for, or instead a transaction of the same
\* inputs and outputs whose signatures are over the digests of code with a defect.
Drifting(t) == {t, [t EXCEPT !.signer = "firstPrevout"]}
Substituted == <<{MCFunding}, Drifting(Multi)>>
SubstitutedSamples == Drifting(MCConsolidation)

MCJudged == {MCFunding, Multi, MCConsolidation, MCGlyphTx, DoublePush, Sweep, Data}

Hand(outs) ==
  [tx |-> [version |-> 1,
           inputs |-> <<[prev_txid |-> Display("zeros"), prev_vout |-> 0, script_sig |-> <<>>,
                         sequence |-> SEQUENCE]>>,
           outputs |-> outs, locktime |-> 0],
   coin |-> Out(100, P2pkh("11"))]
MCHandTxs ==
  {Hand(<<Out(99, P2pkh("22"))>>), Hand(<<Out(0, OpReturn), Out(99, P2pkh("22"))>>)}

MCPinned ==
  [txid |-> fund, vout |-> 0, value |-> 5, spk |-> P2pkh(Addr("0/2")), path |-> "0/2",
   outValue |-> 4]
MCChain ==
  [t \in {fund, other} |->
     [v \in 0 .. 0 |-> IF t = fund THEN Out(5, P2pkh(Addr("0/2"))) ELSE Out(7, P2pkh("k1"))]]

Bench(firmware, seed, prev) == [firmware |-> firmware, seed |-> seed, prev |-> prev]
MCBenches ==
  {Bench(fw, "ours", fund) : fw \in Firmwares} \cup
  {Bench("radiant", "other", fund), Bench("radiant", "ours", other)}
MCSeeds == {"ours", "other"}
=============================================================================
