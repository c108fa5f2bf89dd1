--------------------------- MODULE MCSpendSession ---------------------------
(***************************************************************************)
(* Four coins on the chain, and plans that are right, wrong about an       *)
(* amount, and wrong about a locking script.                               *)
(***************************************************************************)
EXTENDS SpendSessionInv

CONSTANTS nft, fund, nft2, fund2, ref, ref2

Addr(path) == Hash160(PubKey("ours", path))
P2pkh(path) == [ops |-> <<>>, pkh |-> Addr(path)]
Glyph(r, path) == [ops |-> <<[op |-> "OP_PUSHINPUTREFSINGLETON", ref |-> r]>>,
                   pkh |-> Addr(path)]

MCChain ==
  [t \in {nft, fund, nft2, fund2} |->
     [v \in 0 .. 0 |->
        CASE t = nft   -> [value |-> 2, script_pubkey |-> Glyph(ref, "0/3")]
          [] t = fund  -> [value |-> 5, script_pubkey |-> P2pkh("0/2")]
          [] t = nft2  -> [value |-> 2, script_pubkey |-> Glyph(ref2, "0/3")]
          [] t = fund2 -> [value |-> 5, script_pubkey |-> P2pkh("0/2")]]]

In(t, value, spk, path) ==
  [txid |-> t, vout |-> 0, value |-> value, spk |-> spk, path |-> path,
   addr |-> spk.pkh]

Transfer(in0, in1) ==
  [kind |-> "transfer", file |-> "glyph_transfer_signed.hex", fee |-> 4,
   ins |-> <<in0, in1>>, ref |-> ref, destPath |-> "0/5", destHash |-> Addr("0/5")]

TransferPlan ==
  Transfer(In(nft, 2, Glyph(ref, "0/3"), "0/3"), In(fund, 5, P2pkh("0/2"), "0/2"))

\* IN1_VALUE as it was before the funding coin was replaced.
StaleValuePlan ==
  Transfer(In(nft, 2, Glyph(ref, "0/3"), "0/3"), In(fund, 6, P2pkh("0/2"), "0/2"))

\* IN0_SPK_HEX without the reference the coin carries.
StaleScriptPlan ==
  Transfer(In(nft2, 2, Glyph(ref, "0/3"), "0/3"), In(fund, 5, P2pkh("0/2"), "0/2"))

BurnPlan ==
  [kind |-> "burn", file |-> "glyph_spend_signed_2in.hex", fee |-> 3,
   ins |-> <<In(nft2, 2, Glyph(ref2, "0/3"), "0/3"), In(fund2, 5, P2pkh("0/2"), "0/2")>>,
   ref |-> ref2, destPath |-> NoPath, destHash |-> Addr("0/0")]

MCPlans == {TransferPlan, StaleValuePlan, StaleScriptPlan, BurnPlan}
MCSeeds == {"ours", "other"}
=============================================================================
