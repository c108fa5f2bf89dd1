----------------------------- MODULE MCBlockScan -----------------------------
(***************************************************************************)
(* Key hashes of one byte and references of four, chosen to hold the       *)
(* digits of reference opcodes on and off byte boundaries.                 *)
(***************************************************************************)
EXTENDS BlockScan

Pkhs == {<<"0", "0">>, <<"d", "8">>, <<"8", "d">>, <<"d", "0">>}
DEAD == <<"d", "e", "a", "d", "b", "e", "e", "f">>
RefsTried == {<<"0", "0", "d", "0", "0", "0", "0", "0">>, DEAD,
              <<"1", "d", "8", "0", "0", "d", "8", "0">>}

\* FT lookalikes: without OP_STATESEPARATOR, or with another reference opcode; and,
\* of the length of an FT, another opcode in its place or a code changed at the end.
Lookalikes == {P2PKH_HEAD \o <<"0", "0">> \o P2PKH_TAIL \o D0 \o ref \o DROP : ref \in RefsTried}
              \cup {P2PKH_HEAD \o <<"0", "0">> \o P2PKH_TAIL \o <<"b", "d">> \o D8
                      \o DEAD \o FT_TAIL,
                    P2PKH_HEAD \o <<"0", "0">> \o P2PKH_TAIL \o <<"6", "1">> \o D0
                      \o DEAD \o FT_TAIL,
                    [BuildFtSpk(<<"0", "0">>, DEAD) EXCEPT ![FtLen] = "c"]}

\* An OP_RETURN, a bare reference, a token in the manner of an NFT.
Others == {RETURN \o <<"d", "0">>, D0 \o DEAD,
           D0 \o DEAD \o DROP \o BuildP2pkh(<<"0", "0">>)}

MCScripts ==
  {BuildP2pkh(p) : p \in Pkhs}
  \cup {BuildFtSpk(p, r) : p \in Pkhs, r \in RefsTried}
  \cup {BuildNftSpk(p, r) : p \in Pkhs, r \in RefsTried}
  \cup Lookalikes \cup Others
=============================================================================
