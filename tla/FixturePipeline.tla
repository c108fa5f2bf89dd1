--------------------------- MODULE FixturePipeline ---------------------------
(***************************************************************************)
(* The golden vectors of the oracle: scripts/build_fixtures.py fetches     *)
(* mainnet transactions from an explorer, has the oracle compute every     *)
(* input's digest, checks the published signatures against the digests and *)
(* writes the vectors.  The oracle may be edited before and during a       *)
(* build.  The explorer may describe a spent coin wrongly, and it may      *)
(* return a transaction other than the one asked for: nothing compares the *)
(* bytes with the id, nor the signing key with the coin.  The scripts that *)
(* read the vectors and test the oracle are in OracleTrust.                *)
(***************************************************************************)
EXTENDS OracleVersions

CONSTANTS
  Targets,       \* VECTORS: the target transactions
  Offered,       \* what the explorer may return when asked for each of them
  ForeignSpk,    \* a script the explorer may wrongly name as a coin's
  MaxBuilds,     \* bound: runs of build_fixtures
  MaxEdits,      \* bound: edits of the oracle
  Absent, Torn, None

\* The targets are mainnet transactions; what is returned in their place need not
\* be, as long as it parses and is signed.
ASSUME TargetAssumption ==
  \A k \in DOMAIN Targets :
    /\ IsConfirmed(Targets[k]) /\ Targets[k] \in Offered[k]
    /\ \A t \in Offered[k] : IsSigned(t)
ASSUME CountAssumption ==
  /\ DOMAIN Targets = 1 .. Len(Targets) /\ Len(Targets) \in Nat \ {0}
  /\ MaxBuilds \in Nat /\ MaxEdits \in Nat

VARIABLES
  oracle,   \* radiant_preimage_oracle.py as it is on disk
  edits,
  file,     \* preimage-vectors.json
  builds,
  build     \* the running build: its oracle, the vectors so far, and of the
            \* current one the transaction returned and its inputs so far

fixtureVars == <<oracle, edits, file, builds, build>>

NoBuild ==
  [pc |-> "idle", oracle |-> None, vectors |-> <<>>, tx |-> None, current |-> <<>>]

FixtureInit ==
  /\ oracle \in Versions
  /\ edits = 0
  /\ file = Absent
  /\ builds = 0
  /\ build = NoBuild

EditOracle ==
  /\ edits < MaxEdits
  /\ edits' = edits + 1
  /\ \E v \in Versions \ {oracle} : oracle' = v
  /\ UNCHANGED <<file, builds, build>>

\* The imports fix the oracle this run uses.
StartBuild ==
  /\ build.pc = "idle"
  /\ builds < MaxBuilds
  /\ builds' = builds + 1
  /\ build' = [NoBuild EXCEPT !.pc = "fetch", !.oracle = oracle]
  /\ UNCHANGED <<oracle, edits, file>>

\* What the explorer returns under the target's id.
FetchTarget(t) ==
  /\ build.pc = "fetch"
  /\ build' = [build EXCEPT !.pc = "inputs", !.tx = t]
  /\ UNCHANGED <<oracle, edits, file, builds>>

\* The explorer on a coin; its amount is a decimal that is rounded.
ExplorerWords == {"true", "amount", "script"}

Described(coin, word) ==
  CASE word = "amount" -> [coin EXCEPT !.value = @ + 1]
    [] word = "script" -> [coin EXCEPT !.script_pubkey = ForeignSpk]
    [] OTHER           -> coin

\* Mutant: the published signature is not checked.
SignatureOkAny(digest, t, i) == TRUE

\* The signature verifies over the digest, under the key the scriptSig gives.
SignatureOk(digest, t, i) == digest = Published(t, i)

\* Mutant: an off-by-one in the loop over the inputs.
LastInputEarly(t, i) == i + 1 >= Len(t.raw.inputs)

LastInput(t, i) == i = Len(t.raw.inputs)

\* One input: the explorer's word on the coin it spends, the digest, the check.
\* A wrong answer, like any failed fetch or parse, ends the run with the file
\* untouched.
BuildInput(word) ==
  /\ build.pc = "inputs"
  /\ LET t == build.tx
         i == Len(build.current) + 1
         coin == Described(t.coins[i], word)
         digest == VersionSighash(build.oracle, t, i, coin)
         current == Append(build.current, [coin |-> coin, expected |-> digest])
         vectors == Append(build.vectors, [tx |-> t, inputs |-> current])
     IN  build' =
           IF ~ SignatureOk(digest, t, i) THEN NoBuild
           ELSE IF ~ LastInput(t, i) THEN [build EXCEPT !.current = current]
           ELSE [build EXCEPT !.vectors = vectors, !.current = <<>>,
                              !.pc = IF Len(vectors) = Len(Targets) THEN "open" ELSE "fetch"]
  /\ UNCHANGED <<oracle, edits, file, builds>>

\* open(out_path, "w") empties the file, json.dump fills it.
OpenFixtures ==
  /\ build.pc = "open"
  /\ file' = Torn
  /\ build' = [build EXCEPT !.pc = "dump"]
  /\ UNCHANGED <<oracle, edits, builds>>

DumpFixtures ==
  /\ build.pc = "dump"
  /\ file' = build.vectors
  /\ build' = NoBuild
  /\ UNCHANGED <<oracle, edits, builds>>

\* A fetch fails or times out, the disk is full, the process is killed.
AbandonBuild ==
  /\ build.pc # "idle"
  /\ build' = NoBuild
  /\ UNCHANGED <<oracle, edits, file, builds>>

Build ==
  \/ StartBuild
  \/ build.pc = "fetch" /\ \E t \in Offered[Len(build.vectors) + 1] : FetchTarget(t)
  \/ \E word \in ExplorerWords : BuildInput(word)
  \/ OpenFixtures \/ DumpFixtures \/ AbandonBuild

FixtureNext == EditOracle \/ Build

FixtureSpec == FixtureInit /\ [][FixtureNext]_fixtureVars

-----------------------------------------------------------------------------
Vectors(vs) ==
  /\ Len(vs) = Len(Targets)
  /\ \A k \in DOMAIN vs : Len(vs[k].inputs) = Len(vs[k].tx.raw.inputs)

\* Type invariant of the build.
FixtureTypeOK ==
  /\ oracle \in Versions /\ edits \in 0 .. MaxEdits /\ builds \in 0 .. MaxBuilds
  /\ file \in {Absent, Torn} \/ Vectors(file)
  /\ build.pc \in {"idle", "fetch", "inputs", "open", "dump"}
  /\ build.oracle \in Versions \cup {None}

\* A complete fixture file says of every input of the transactions in it what its
\* signature says: the digest it is over and the coin that digest commits to.  No
\* run with a drifted oracle, nor one told a wrong amount or script, replaces the
\* file, even half way, as long as the explorer returned the transactions asked
\* for: a target's digests are then the ones a node computes.
FileIsGolden ==
  file \notin {Absent, Torn} =>
    \A k \in 1 .. Len(Targets) :
      LET t == file[k].tx IN
      \A i \in 1 .. Len(t.raw.inputs) :
        /\ file[k].inputs[i] = [coin |-> t.coins[i], expected |-> Published(t, i)]
        /\ t = Targets[k] => file[k].inputs[i].expected = Signed(t, i)
=============================================================================
