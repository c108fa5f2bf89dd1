--------------------------- MODULE ApprovedSpend ----------------------------
(***************************************************************************)
(* What the spend scripts promise: a transaction appears in an output file *)
(* only when the device has released, for each of its inputs, a signature  *)
(* over that very transaction.  It is a commitment protocol with the       *)
(* device's signatures as votes: nothing is published on part of them, or  *)
(* on votes for two different transactions.                                *)
(***************************************************************************)
CONSTANTS
  Files, Absent, Torn,
  ConsensusSighash(_, _, _)   \* the digest of one input, given the coin it spends

VARIABLES
  released,  \* the signatures the device has handed out
  file       \* what each output file holds

vars == <<released, file>>

\* The digest is the one a node computes for input i of raw, for some coin.
CommitsTo(digest, raw, i) ==
  LET signed == digest.sha256d
      coin   == [script_pubkey |-> signed.scriptCode, value |-> signed.value]
  IN  digest = ConsensusSighash(raw, i, coin)

Approved(raw, signatures) ==
  \A i \in DOMAIN raw.inputs :
    LET sig == raw.inputs[i].script_sig.sig IN
    /\ [key |-> sig.key, digest |-> sig.digest] \in signatures
    /\ CommitsTo(sig.digest, raw, i)

Init ==
  /\ released = {}
  /\ file = [f \in Files |-> Absent]

\* The device releases one signature.
Release ==
  /\ \E s \in released' : released' = released \cup {s}
  /\ UNCHANGED file

\* An output file is emptied before it is rewritten.
Truncate(f) ==
  /\ file' = [file EXCEPT ![f] = Torn]
  /\ UNCHANGED released

\* A transaction appears in an emptied file, approved in full.
Publish(f) ==
  /\ file[f] = Torn
  /\ file' = [file EXCEPT ![f] = file'[f]]
  /\ Approved(file'[f], released)
  /\ UNCHANGED released

Next == Release \/ \E f \in Files : Truncate(f) \/ Publish(f)

Spec == Init /\ [][Next]_vars
=============================================================================
