---------------------------- MODULE ScriptShapes -----------------------------
(***************************************************************************)
(* The two classifiers of locking scripts: classify and the builders of    *)
(* view-only-ui/classifier.mjs, and classify_shape, ft_template_bytes and  *)
(* parse_ft_script of scripts/find_ft_utxo.py.  Both work on the script's  *)
(* lower case hex, a sequence of digits; the second searches it for        *)
(* digits, not for bytes.  A key hash has PkhLen digits and a reference    *)
(* RefLen of them (40 and 72 in the code).                                 *)
(***************************************************************************)
EXTENDS Integers, Sequences

CONSTANTS PkhLen, RefLen

\* Both are whole bytes.
ASSUME LenAssumption ==
  PkhLen \in Nat \ {0} /\ RefLen \in Nat \ {0} /\ PkhLen % 2 = 0 /\ RefLen % 2 = 0

Digit == {"0", "1", "2", "3", "4", "5", "6", "7", "8", "9", "a", "b", "c", "d", "e", "f"}

P2PKH_HEAD == <<"7", "6", "a", "9", "1", "4">>
P2PKH_TAIL == <<"8", "8", "a", "c">>
FT_MID == <<"8", "8", "a", "c", "b", "d", "d", "0">>
FT_TAIL == <<"d", "e", "c", "0", "e", "9", "a", "a", "7", "6", "e", "3",
             "7", "8", "e", "4", "a", "2", "6", "9", "e", "6", "9", "d">>
D0 == <<"d", "0">>
D8 == <<"d", "8">>
DROP == <<"7", "5">>
RETURN == <<"6", "a">>

\* JavaScript's and Python's s[from:to], positions counted from 0.
Slice(s, from, to) == SubSeq(s, from + 1, IF to < Len(s) THEN to ELSE Len(s))
StartsWith(s, prefix) == Slice(s, 0, Len(prefix)) = prefix
EndsWith(s, suffix) == Slice(s, Len(s) - Len(suffix), Len(s)) = suffix

BuildP2pkh(pkh) == P2PKH_HEAD \o pkh \o P2PKH_TAIL
BuildFtSpk(pkh, ref) == P2PKH_HEAD \o pkh \o FT_MID \o ref \o FT_TAIL
BuildNftSpk(pkh, ref) == D8 \o ref \o DROP \o BuildP2pkh(pkh)

-----------------------------------------------------------------------------
P2pkhLen == 6 + PkhLen + 4
NftLen == 2 + RefLen + 2 + P2pkhLen
FtLen == 6 + PkhLen + 8 + RefLen + 24

\* Mutant: the FT template is not checked between key hash and reference.
FtTemplateLoose(s) == Len(s) = FtLen /\ StartsWith(s, P2PKH_HEAD) /\ EndsWith(s, FT_TAIL)

FtTemplate(s) ==
  /\ Len(s) = FtLen
  /\ StartsWith(s, P2PKH_HEAD)
  /\ Slice(s, 6 + PkhLen, 14 + PkhLen) = FT_MID
  /\ Slice(s, 14 + PkhLen + RefLen, Len(s)) = FT_TAIL

NftTemplate(s) ==
  /\ Len(s) = NftLen
  /\ StartsWith(s, D8)
  /\ Slice(s, 2 + RefLen, 4 + RefLen) = DROP
  /\ Slice(s, 4 + RefLen, 10 + RefLen) = P2PKH_HEAD
  /\ EndsWith(s, P2PKH_TAIL)

Class(type, pkh, ref) == [type |-> type, pkh |-> pkh, ref |-> ref]

\* classify, for a string that is valid hex.
Classify(s) ==
  CASE Len(s) = P2pkhLen /\ StartsWith(s, P2PKH_HEAD) /\ EndsWith(s, P2PKH_TAIL) ->
         Class("p2pkh", Slice(s, 6, 6 + PkhLen), <<>>)
    [] NftTemplate(s) ->
         Class("nft", Slice(s, 10 + RefLen, 10 + RefLen + PkhLen), Slice(s, 2, 2 + RefLen))
    [] FtTemplate(s) ->
         Class("ft", Slice(s, 6, 6 + PkhLen), Slice(s, 14 + PkhLen, 14 + PkhLen + RefLen))
    [] OTHER -> Class(IF StartsWith(s, RETURN) THEN "op_return" ELSE "unknown", <<>>, <<>>)

-----------------------------------------------------------------------------
\* s.find(sub): the first position, -1 if there is none.
Occurs(s, sub) == {k \in 0 .. Len(s) - Len(sub) : Slice(s, k, k + Len(sub)) = sub}
First(ks) == IF ks = {} THEN -1 ELSE CHOOSE k \in ks : \A j \in ks : k <= j
Find(s, sub) == First(Occurs(s, sub))

\* re.search(r"76a914[0-9a-f]{40}88ac", s).start()
FindP2pkh(s) ==
  First({k \in 0 .. Len(s) - P2pkhLen :
           Slice(s, k, k + 6) = P2PKH_HEAD
           /\ Slice(s, k + 6 + PkhLen, k + P2pkhLen) = P2PKH_TAIL})

HasGlyphDigits(s) == Find(s, D0) # -1 \/ Find(s, D8) # -1

ClassifyShape(s) ==
  LET p == FindP2pkh(s)
      d == IF Find(s, D0) # -1 THEN Find(s, D0) ELSE Find(s, D8)
  IN IF ~ HasGlyphDigits(s) THEN "no-glyph-opcode"
     ELSE IF StartsWith(s, D8) /\ p = 4 + RefLen THEN "nft-prefix"
     ELSE IF StartsWith(s, D0) /\ p = 4 + RefLen THEN "ft-prefix"
     ELSE IF p # -1 /\ Find(s, D0) > p + P2pkhLen THEN "p2pkh-then-glyph-suffix"
     ELSE IF p # -1 /\ d < p THEN "glyph-prefix-nonstandard"
     ELSE IF p = -1 THEN "glyph-only" ELSE "other"

\* Mutant: the reference read one byte too far to the right.
FtTemplateRefShifted(s) == Slice(s, 16 + PkhLen, 16 + PkhLen + RefLen)

FtTemplateRef(s) == Slice(s, 14 + PkhLen, 14 + PkhLen + RefLen)

FtTemplateBytes(s) ==
  [prefix |-> Slice(s, 0, 6), middle |-> Slice(s, 6 + PkhLen, 14 + PkhLen),
   ref |-> FtTemplateRef(s), suffix |-> Slice(s, 14 + PkhLen + RefLen, Len(s))]

\* Mutant: the search goes on behind the reference of a match.
AfterMatchPastRef(s, j) == IF j + 2 + RefLen <= Len(s) THEN j + 2 + RefLen ELSE Len(s)

AfterMatch(s, j) == j + 2

\* parse_ft_script: where the digits of an opcode stand on a byte boundary with
\* room for a reference behind them, and that reference.
Occurrences(s, opcode) ==
  LET from[k \in 0 .. Len(s)] ==
        LET j == First({n \in Occurs(s, opcode) : n >= k}) IN
        IF j = -1 THEN {} ELSE IF j % 2 # 0 THEN from[j + 1]
        ELSE (IF j + 2 + RefLen <= Len(s) THEN {j} ELSE {}) \cup from[AfterMatch(s, j)]
  IN  {[offset |-> j \div 2, ref |-> Slice(s, j + 2, j + 2 + RefLen)] : j \in from[0]}
=============================================================================
