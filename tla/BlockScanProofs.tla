--------------------------- MODULE BlockScanProofs ---------------------------
(***************************************************************************)
(* The block scanner, for all scripts, all lengths of key hashes and       *)
(* references and all chains: what the classifier takes for a token is a   *)
(* token, what the report counts is what the classifier knows but for the  *)
(* d0 in a key hash, and what it prints shows each token's own reference.  *)
(***************************************************************************)
EXTENDS BlockScan, FiniteSetTheorems, FunctionTheorems, WellFoundedInduction,
        SequenceTheorems, TLAPS

\* Every set of numbers has a least one, and it is the one First names.
LEMMA LeastNumber ==
  ASSUME NEW S \in SUBSET Nat, S # {}
  PROVE  First(S) \in S /\ \A k \in S : First(S) <= k
<1>. DEFINE R == {ss \in Nat \X Nat : ss[1] < ss[2]}
<1>1. IsWellFoundedOn(R, Nat)
  BY NatLessThanWellFounded DEF OpToRel
<1>2. PICK x \in S : \A y \in S : ~ (<<y, x>> \in R)
  BY <1>1, WFMin
<1>3. \A y \in S : ~ (y < x)
  BY <1>2
<1>4. \A y \in S : x <= y
  BY <1>3
<1>5. First(S) = CHOOSE k \in S : \A j \in S : k <= j
  BY DEF First
<1>. QED  BY <1>4, <1>5

\* Induction: a set that holds 0 and with a number the next one holds them all.
LEMMA AllNumbers ==
  ASSUME NEW S, 0 \in S, \A n \in Nat : n \in S => n + 1 \in S
  PROVE  Nat \subseteq S
<1>. SUFFICES ASSUME NEW n \in Nat, n \notin S PROVE FALSE
  OBVIOUS
<1>1. PICK m \in {k \in Nat : k \notin S} : \A k \in {j \in Nat : j \notin S} : m <= k
  BY LeastNumber
<1>2. m # 0 /\ m - 1 \in Nat /\ ~ (m <= m - 1)
  BY <1>1
<1>3. m - 1 \in S
  BY <1>1, <1>2
<1>. QED  BY <1>1, <1>2, <1>3

-----------------------------------------------------------------------------
(***************************************************************************)
(* Slices of a script.                                                     *)
(***************************************************************************)
\* t is the stretch of s from position a to b, counted from 0.
IsPart(t, s, a, b) ==
  t \in Seq(Digit) /\ Len(t) = b - a /\ \A k \in 1 .. b - a : t[k] = s[a + k]

LEMMA SliceIs ==
  ASSUME NEW s \in Seq(Digit), NEW a \in Nat, NEW b \in Nat, a <= b, b <= Len(s)
  PROVE  IsPart(Slice(s, a, b), s, a, b)
<1>1. Slice(s, a, b) = SubSeq(s, a + 1, b)
  BY DEF Slice
<1>2. \A k \in a + 1 .. b : s[k] \in Digit
  OBVIOUS
<1>3. /\ SubSeq(s, a + 1, b) \in Seq(Digit)
      /\ Len(SubSeq(s, a + 1, b)) = b - a
      /\ \A k \in 1 .. b - a : SubSeq(s, a + 1, b)[k] = s[a + k]
  BY <1>2
<1>. QED  BY <1>1, <1>3 DEF IsPart

\* Digits put side by side.
LEMMA SideBySide ==
  ASSUME NEW x \in Seq(Digit), NEW y \in Seq(Digit)
  PROVE  /\ x \o y \in Seq(Digit) /\ Len(x \o y) = Len(x) + Len(y)
         /\ \A k \in 1 .. Len(x) : (x \o y)[k] = x[k]
         /\ \A k \in 1 .. Len(y) : (x \o y)[Len(x) + k] = y[k]
OBVIOUS

\* A place in one of two stretches.
LEMMA EitherPart ==
  ASSUME NEW a \in Nat, NEW b \in Nat, NEW c \in Nat, a <= b, b <= c, NEW k \in 1 .. c - a
  PROVE  k \in 1 .. b - a \/ \E j \in 1 .. c - b : k = (b - a) + j /\ a + k = b + j
<1>1. CASE k <= b - a
  BY <1>1
<1>2. CASE k > b - a
  <2>1. k - (b - a) \in 1 .. c - b /\ k = (b - a) + (k - (b - a)) /\ a + k = b + (k - (b - a))
    BY <1>2
  <2>. QED  BY <2>1
<1>. QED  BY <1>1, <1>2

\* Two stretches side by side are one.
LEMMA SliceJoin ==
  ASSUME NEW s \in Seq(Digit), NEW a \in Nat, NEW b \in Nat, NEW c \in Nat,
         a <= b, b <= c, c <= Len(s)
  PROVE  Slice(s, a, b) \o Slice(s, b, c) = Slice(s, a, c)
<1>. DEFINE x == Slice(s, a, b)
            y == Slice(s, b, c)
            z == Slice(s, a, c)
            m == b - a
            n == c - b
            l == c - a
<1>0. b <= Len(s) /\ a <= c
  OBVIOUS
<1>1. IsPart(x, s, a, b) /\ IsPart(y, s, b, c) /\ IsPart(z, s, a, c)
  BY <1>0, SliceIs
<1>2. l = m + n
  OBVIOUS
<1>3. \A k \in 1 .. l : k \in 1 .. m \/ \E j \in 1 .. n : k = m + j /\ a + k = b + j
  BY EitherPart
<1>. DEFINE xy == x \o y
<1>4. /\ x \in Seq(Digit) /\ Len(x) = m /\ \A k \in 1 .. m : x[k] = s[a + k]
      /\ y \in Seq(Digit) /\ Len(y) = n /\ \A k \in 1 .. n : y[k] = s[b + k]
      /\ z \in Seq(Digit) /\ Len(z) = l /\ \A k \in 1 .. l : z[k] = s[a + k]
  BY <1>1 DEF IsPart
<1>. HIDE DEF x, y, z, m, n, l
<1>5. /\ xy \in Seq(Digit) /\ Len(xy) = m + n
      /\ \A k \in 1 .. m : xy[k] = x[k]
      /\ \A k \in 1 .. n : xy[m + k] = y[k]
  BY <1>4, SideBySide
<1>. HIDE DEF xy
<1>6. ASSUME NEW k \in 1 .. l PROVE xy[k] = z[k]
  <2>1. CASE k \in 1 .. m
    BY <1>4, <1>5, <2>1, Zenon
  <2>2. ASSUME NEW j \in 1 .. n, k = m + j, a + k = b + j PROVE xy[k] = z[k]
    <3>1. xy[k] = y[j]
      BY <1>5, <2>2
    <3>2. y[j] = s[b + j] /\ z[k] = s[a + k]
      BY <1>4
    <3>. QED  BY <2>2, <3>1, <3>2
  <2>. QED  BY <1>3, <2>1, <2>2
<1>7. Len(xy) = Len(z) /\ \A k \in 1 .. Len(xy) : xy[k] = z[k]
  BY <1>2, <1>4, <1>5, <1>6
<1>8. xy = z
  BY <1>4, <1>5, <1>7, SeqEqual
<1>. QED  BY <1>8 DEF x, y, z, xy

\* The whole script is one stretch.
LEMMA SliceWhole == ASSUME NEW s \in Seq(Digit) PROVE Slice(s, 0, Len(s)) = s
<1>1. Slice(s, 0, Len(s)) = SubSeq(s, 1, Len(s))
  BY DEF Slice
<1>. QED  BY <1>1

\* Where two digits stand.
StandAt(s, k, x, y) == Slice(s, k, k + 2) = <<x, y>> <=> s[k + 1] = x /\ s[k + 2] = y

LEMMA TwoDigits ==
  ASSUME NEW s \in Seq(Digit), NEW k \in Nat, k + 2 <= Len(s), NEW x, NEW y
  PROVE  StandAt(s, k, x, y)
<1>. DEFINE t == Slice(s, k, k + 2)
            b == k + 2
<1>0. b \in Nat /\ k <= b /\ b <= Len(s) /\ b - k = 2
  OBVIOUS
<1>1. IsPart(Slice(s, k, b), s, k, b)
  <2>. HIDE DEF b
  <2>. QED  BY <1>0, SliceIs
<1>2. t \in Seq(Digit) /\ Len(t) = 2 /\ \A j \in 1 .. 2 : t[j] = s[k + j]
  BY <1>0, <1>1 DEF IsPart
<1>. HIDE DEF t
<1>3. t[1] = s[k + 1] /\ t[2] = s[k + 2]
  BY <1>2
<1>4. t = <<t[1], t[2]>>
  BY <1>2
<1>5. t = <<x, y>> <=> t[1] = x /\ t[2] = y
  BY <1>4
<1>. QED  BY <1>3, <1>5 DEF t, StandAt

-----------------------------------------------------------------------------
(***************************************************************************)
(* The templates.                                                          *)
(***************************************************************************)
LEMMA HexLengths ==
  /\ Len(P2PKH_HEAD) = 6 /\ Len(P2PKH_TAIL) = 4 /\ Len(FT_MID) = 8 /\ Len(D8) = 2
BY DEF P2PKH_HEAD, P2PKH_TAIL, FT_MID, D8

\* A script of one of the three templates is what its builder makes of the parts
\* the classifier reads in it.
LEMMA P2pkhRebuilt ==
  ASSUME NEW s \in Seq(Digit), Len(s) = P2pkhLen,
         StartsWith(s, P2PKH_HEAD), EndsWith(s, P2PKH_TAIL)
  PROVE  s = BuildP2pkh(Slice(s, 6, 6 + PkhLen))
<1>. DEFINE P == PkhLen
            L == Len(s)
<1>1. P \in Nat /\ L = 10 + P
  BY LenAssumption DEF P2pkhLen
<1>2. Slice(s, 0, 6) = P2PKH_HEAD
  BY HexLengths DEF StartsWith
<1>3. Slice(s, 6 + P, L) = P2PKH_TAIL
  <2>1. L - 4 = 6 + P
    BY <1>1
  <2>. QED  BY <2>1, HexLengths DEF EndsWith
<1>. HIDE DEF P, L
<1>4. /\ 6 \in Nat /\ 6 + P \in Nat /\ L \in Nat /\ 0 <= 6 /\ 6 <= 6 + P /\ 6 + P <= L /\ 0 <= 6 + P
      /\ L <= Len(s)
  BY <1>1 DEF L
<1>5. Slice(s, 0, 6) \o Slice(s, 6, 6 + P) = Slice(s, 0, 6 + P)
  BY <1>4, SliceJoin DEF L
<1>6. Slice(s, 0, 6 + P) \o Slice(s, 6 + P, L) = Slice(s, 0, L)
  BY <1>4, SliceJoin DEF L
<1>7. Slice(s, 0, L) = s
  BY SliceWhole DEF L
<1>. QED  BY <1>2, <1>3, <1>5, <1>6, <1>7 DEF BuildP2pkh, P

LEMMA FtRebuilt ==
  ASSUME NEW s \in Seq(Digit), FtTemplate(s)
  PROVE  s = BuildFtSpk(Slice(s, 6, 6 + PkhLen), Slice(s, 14 + PkhLen, 14 + PkhLen + RefLen))
<1>. DEFINE P == PkhLen
            R == RefLen
            L == Len(s)
<1>1. P \in Nat /\ R \in Nat /\ L = 38 + P + R
  BY LenAssumption DEF FtTemplate, FtLen
<1>2. Slice(s, 0, 6) = P2PKH_HEAD /\ Slice(s, 6 + P, 14 + P) = FT_MID
      /\ Slice(s, 14 + P + R, L) = FT_TAIL
  BY HexLengths DEF FtTemplate, StartsWith
<1>. HIDE DEF P, R, L
<1>. DEFINE a == 6 + P
            b == 14 + P
            c == 14 + P + R
<1>3. /\ 0 \in Nat /\ 6 \in Nat /\ a \in Nat /\ b \in Nat /\ c \in Nat /\ L \in Nat
      /\ 0 <= 6 /\ 6 <= a /\ a <= b /\ b <= c /\ c <= L /\ 0 <= a /\ 0 <= b /\ 0 <= c
      /\ 6 <= L /\ a <= L /\ b <= L /\ L <= L
  BY <1>1
<1>. HIDE DEF a, b, c
<1>4. Slice(s, 0, 6) \o Slice(s, 6, a) = Slice(s, 0, a)
  BY <1>3, SliceJoin DEF L
<1>5. Slice(s, 0, a) \o Slice(s, a, b) = Slice(s, 0, b)
  BY <1>3, SliceJoin DEF L
<1>6. Slice(s, 0, b) \o Slice(s, b, c) = Slice(s, 0, c)
  BY <1>3, SliceJoin DEF L
<1>7. Slice(s, 0, c) \o Slice(s, c, L) = Slice(s, 0, L)
  BY <1>3, SliceJoin DEF L
<1>8. Slice(s, 0, L) = s
  BY SliceWhole DEF L
<1>9. s = P2PKH_HEAD \o Slice(s, 6, a) \o FT_MID \o Slice(s, b, c) \o FT_TAIL
  BY <1>2, <1>4, <1>5, <1>6, <1>7, <1>8 DEF a, b, c
<1>. QED  BY <1>9 DEF BuildFtSpk, P, R, a, b, c

LEMMA NftRebuilt ==
  ASSUME NEW s \in Seq(Digit), NftTemplate(s)
  PROVE  s = BuildNftSpk(Slice(s, 10 + RefLen, 10 + RefLen + PkhLen), Slice(s, 2, 2 + RefLen))
<1>. DEFINE P == PkhLen
            R == RefLen
            L == Len(s)
            a == 2 + R
            b == 4 + R
            c == 10 + R
            d == 10 + R + P
<1>1. P \in Nat /\ R \in Nat /\ L = 14 + R + P
  BY LenAssumption DEF NftTemplate, NftLen, P2pkhLen
<1>2. Slice(s, 0, 2) = D8 /\ Slice(s, a, b) = DROP /\ Slice(s, b, c) = P2PKH_HEAD
  BY HexLengths DEF NftTemplate, StartsWith
<1>3. Slice(s, d, L) = P2PKH_TAIL
  <2>1. L - 4 = d
    BY <1>1
  <2>. QED  BY <2>1, HexLengths DEF NftTemplate, EndsWith
<1>. HIDE DEF P, R, L
<1>4. /\ 0 \in Nat /\ 2 \in Nat /\ a \in Nat /\ b \in Nat /\ c \in Nat /\ d \in Nat /\ L \in Nat
      /\ 0 <= 2 /\ 2 <= a /\ a <= b /\ b <= c /\ c <= d /\ d <= L /\ 0 <= a /\ 0 <= b /\ b <= d
      /\ a <= L /\ b <= L /\ L <= L
  BY <1>1
<1>. HIDE DEF a, b, c, d
<1>5. Slice(s, 0, 2) \o Slice(s, 2, a) = Slice(s, 0, a)
  BY <1>4, SliceJoin DEF L
<1>6. Slice(s, 0, a) \o Slice(s, a, b) = Slice(s, 0, b)
  BY <1>4, SliceJoin DEF L
<1>7. Slice(s, b, c) \o Slice(s, c, d) = Slice(s, b, d)
  BY <1>4, SliceJoin DEF L
<1>8. Slice(s, b, d) \o Slice(s, d, L) = Slice(s, b, L)
  BY <1>4, SliceJoin DEF L
<1>9. Slice(s, 0, b) \o Slice(s, b, L) = Slice(s, 0, L)
  BY <1>4, SliceJoin DEF L
<1>10. Slice(s, 0, L) = s
  BY SliceWhole DEF L
<1>11. s = D8 \o Slice(s, 2, a) \o DROP \o BuildP2pkh(Slice(s, c, d))
  BY <1>2, <1>3, <1>5, <1>6, <1>7, <1>8, <1>9, <1>10 DEF BuildP2pkh
<1>. QED  BY <1>11 DEF BuildNftSpk, P, R, a, c, d

\* What the classifier says of a script.
LEMMA Kinds ==
  ASSUME NEW s
  PROVE  LET c == Classify(s) IN
         /\ c.type = "p2pkh" => /\ Len(s) = P2pkhLen /\ StartsWith(s, P2PKH_HEAD)
                                /\ EndsWith(s, P2PKH_TAIL) /\ c.pkh = Slice(s, 6, 6 + PkhLen)
         /\ c.type = "nft" => /\ NftTemplate(s) /\ c.ref = Slice(s, 2, 2 + RefLen)
                              /\ c.pkh = Slice(s, 10 + RefLen, 10 + RefLen + PkhLen)
         /\ c.type = "ft" => /\ FtTemplate(s) /\ c.pkh = Slice(s, 6, 6 + PkhLen)
                             /\ c.ref = Slice(s, 14 + PkhLen, 14 + PkhLen + RefLen)
         /\ FtTemplate(s) => c.type = "ft"
<1>1. FtTemplate(s) => Len(s) # P2pkhLen /\ ~ NftTemplate(s)
  <2>1. FtLen # P2pkhLen /\ FtLen # NftLen
    BY LenAssumption DEF FtLen, P2pkhLen, NftLen
  <2>. QED  BY <2>1 DEF FtTemplate, NftTemplate
<1>. DEFINE isP2pkh == Len(s) = P2pkhLen /\ StartsWith(s, P2PKH_HEAD) /\ EndsWith(s, P2PKH_TAIL)
<1>2. CASE isP2pkh
  BY <1>1, <1>2 DEF Classify, Class
<1>3. CASE ~ isP2pkh /\ NftTemplate(s)
  BY <1>1, <1>3 DEF Classify, Class
<1>4. CASE ~ isP2pkh /\ ~ NftTemplate(s) /\ FtTemplate(s)
  BY <1>4 DEF Classify, Class
<1>5. CASE ~ isP2pkh /\ ~ NftTemplate(s) /\ ~ FtTemplate(s)
  BY <1>5 DEF Classify, Class
<1>. QED  BY <1>2, <1>3, <1>4, <1>5

-----------------------------------------------------------------------------
(***************************************************************************)
(* Searching for two digits.                                               *)
(***************************************************************************)
\* Where the digits x and y stand.
LEMMA OccursTwo ==
  ASSUME NEW s \in Seq(Digit), NEW x, NEW y
  PROVE  /\ Occurs(s, <<x, y>>) = {k \in 0 .. Len(s) - 2 : s[k + 1] = x /\ s[k + 2] = y}
         /\ Occurs(s, <<x, y>>) \in SUBSET Nat
<1>1. Occurs(s, <<x, y>>) = {k \in 0 .. Len(s) - 2 : Slice(s, k, k + 2) = <<x, y>>}
  BY DEF Occurs
<1>2. ASSUME NEW k \in 0 .. Len(s) - 2
      PROVE  k \in Nat /\ (Slice(s, k, k + 2) = <<x, y>> <=> s[k + 1] = x /\ s[k + 2] = y)
  <2>1. k \in Nat /\ k + 2 <= Len(s)
    OBVIOUS
  <2>2. Slice(s, k, k + 2) = <<x, y>> <=> s[k + 1] = x /\ s[k + 2] = y
    <3>1. StandAt(s, k, x, y)
      BY <2>1, TwoDigits
    <3>. QED  BY <3>1, Zenon DEF StandAt
  <2>. QED  BY <2>1, <2>2
<1>. QED  BY <1>1, <1>2

\* A search that finds nothing says -1, and no other search does.
LEMMA FoundFirst ==
  ASSUME NEW S \in SUBSET Nat
  PROVE  /\ First(S) = -1 <=> S = {}
         /\ S # {} => First(S) \in S /\ \A k \in S : First(S) <= k
<1>1. CASE S = {}
  BY <1>1 DEF First
<1>2. CASE S # {}
  <2>1. First(S) \in S /\ \A k \in S : First(S) <= k
    BY <1>2, LeastNumber
  <2>2. First(S) # -1
    BY <2>1
  <2>. QED  BY <1>2, <2>1, <2>2
<1>. QED  BY <1>1, <1>2

\* The digits of the FT template.
LEMMA FtDigits ==
  ASSUME NEW s \in Seq(Digit), FtTemplate(s)
  PROVE  /\ PkhLen \in Nat /\ RefLen \in Nat /\ Len(s) = 38 + PkhLen + RefLen
         /\ s[1] = "7" /\ s[2] = "6" /\ s[3] = "a" /\ s[4] = "9" /\ s[5] = "1" /\ s[6] = "4"
         /\ s[6 + PkhLen + 1] = "8" /\ s[6 + PkhLen + 2] = "8" /\ s[6 + PkhLen + 3] = "a"
         /\ s[6 + PkhLen + 4] = "c" /\ s[6 + PkhLen + 5] = "b" /\ s[6 + PkhLen + 6] = "d"
         /\ s[6 + PkhLen + 7] = "d" /\ s[6 + PkhLen + 8] = "0"
<1>. DEFINE P == PkhLen
            a == 6 + P
            b == 14 + P
<1>1. P \in Nat /\ RefLen \in Nat /\ Len(s) = 38 + P + RefLen
  BY LenAssumption DEF FtTemplate, FtLen
<1>2. Slice(s, 0, 6) = P2PKH_HEAD /\ Slice(s, a, b) = FT_MID
  BY HexLengths DEF FtTemplate, StartsWith
<1>. HIDE DEF P
<1>3. a \in Nat /\ b \in Nat /\ a <= b /\ b <= Len(s) /\ 6 <= Len(s) /\ b - a = 8 /\ 6 - 0 = 6
  BY <1>1
<1>. HIDE DEF a, b
<1>4. IsPart(P2PKH_HEAD, s, 0, 6) /\ IsPart(FT_MID, s, a, b)
  BY <1>2, <1>3, SliceIs
<1>5. \A k \in 1 .. 6 : P2PKH_HEAD[k] = s[0 + k]
  BY <1>3, <1>4 DEF IsPart
<1>6. \A k \in 1 .. 8 : FT_MID[k] = s[a + k]
  BY <1>3, <1>4 DEF IsPart
<1>7. /\ P2PKH_HEAD[1] = "7" /\ P2PKH_HEAD[2] = "6" /\ P2PKH_HEAD[3] = "a"
      /\ P2PKH_HEAD[4] = "9" /\ P2PKH_HEAD[5] = "1" /\ P2PKH_HEAD[6] = "4"
      /\ FT_MID[1] = "8" /\ FT_MID[2] = "8" /\ FT_MID[3] = "a" /\ FT_MID[4] = "c"
      /\ FT_MID[5] = "b" /\ FT_MID[6] = "d" /\ FT_MID[7] = "d" /\ FT_MID[8] = "0"
  BY DEF P2PKH_HEAD, FT_MID
<1>8. /\ s[1] = "7" /\ s[2] = "6" /\ s[3] = "a" /\ s[4] = "9" /\ s[5] = "1" /\ s[6] = "4"
  BY <1>5, <1>7
<1>9. /\ s[a + 1] = "8" /\ s[a + 2] = "8" /\ s[a + 3] = "a" /\ s[a + 4] = "c"
      /\ s[a + 5] = "b" /\ s[a + 6] = "d" /\ s[a + 7] = "d" /\ s[a + 8] = "0"
  BY <1>6, <1>7
<1>. QED  BY <1>1, <1>8, <1>9 DEF a, P

\* In an FT the first d0 is that of its reference, or one in its key hash.
LEMMA FtSearch ==
  ASSUME NEW s \in Seq(Digit), FtTemplate(s)
  PROVE  LET pkh == Slice(s, 6, 6 + PkhLen) IN
         /\ 12 + PkhLen \in Occurs(s, D0)
         /\ Find(pkh, D0) = -1 <=> Find(s, D0) > 10 + PkhLen
         /\ Find(s, D0) \in Nat
<1>. DEFINE P == PkhLen
            L == Len(s)
            pkh == Slice(s, 6, 6 + P)
<1>0. P \in Nat /\ L \in Nat /\ L >= 38 + P
  <2>1. P \in Nat /\ RefLen \in Nat /\ L = 38 + P + RefLen
    BY FtDigits
  <2>. QED  BY <2>1
<1>1. /\ P \in Nat /\ L \in Nat /\ L >= 38 + P /\ s[6] = "4"
      /\ s[6 + P + 1] = "8" /\ s[6 + P + 2] = "8" /\ s[6 + P + 3] = "a"
      /\ s[6 + P + 4] = "c" /\ s[6 + P + 5] = "b" /\ s[6 + P + 6] = "d"
      /\ s[6 + P + 7] = "d" /\ s[6 + P + 8] = "0"
  BY <1>0, FtDigits, Zenon
<1>. HIDE DEF P
<1>2. 6 + P \in Nat /\ 6 <= 6 + P /\ 6 + P <= Len(s) /\ (6 + P) - 6 = P /\ 6 \in Nat
  BY <1>0
<1>3. pkh \in Seq(Digit) /\ Len(pkh) = P /\ \A k \in 1 .. P : pkh[k] = s[6 + k]
  <2>1. IsPart(pkh, s, 6, 6 + P)
    BY <1>2, SliceIs, Zenon
  <2>. HIDE DEF pkh
  <2>2. IsPart(pkh, s, 6, 6 + P) => /\ pkh \in Seq(Digit) /\ Len(pkh) = (6 + P) - 6
                                   /\ \A k \in 1 .. (6 + P) - 6 : pkh[k] = s[6 + k]
    BY Zenon DEF IsPart
  <2>. QED  BY <1>2, <2>1, <2>2
<1>. HIDE DEF pkh
<1>4. /\ Occurs(s, D0) = {k \in 0 .. L - 2 : s[k + 1] = "d" /\ s[k + 2] = "0"}
      /\ Occurs(s, D0) \in SUBSET Nat
  BY OccursTwo DEF D0
<1>5. /\ Occurs(pkh, D0) = {k \in 0 .. P - 2 : pkh[k + 1] = "d" /\ pkh[k + 2] = "0"}
      /\ Occurs(pkh, D0) \in SUBSET Nat
  <2>1. pkh \in Seq(Digit) /\ Len(pkh) = P
    BY <1>3
  <2>. QED  BY <2>1, OccursTwo DEF D0
<1>. HIDE DEF L
<1>6. 12 + P \in Occurs(s, D0)
  <2>1. 12 + P \in 0 .. L - 2 /\ 12 + P + 1 = 6 + P + 7 /\ 12 + P + 2 = 6 + P + 8
    BY <1>1
  <2>. QED  BY <1>1, <1>4, <2>1
<1>7. ASSUME NEW k \in Occurs(pkh, D0) PROVE 6 + k \in Occurs(s, D0) /\ 6 + k <= 10 + P
  <2>1. k \in 0 .. P - 2 /\ pkh[k + 1] = "d" /\ pkh[k + 2] = "0"
    BY <1>5
  <2>2. /\ k + 1 \in 1 .. P /\ k + 2 \in 1 .. P /\ 6 + (k + 1) = 6 + k + 1 /\ 6 + (k + 2) = 6 + k + 2
        /\ 6 + k \in 0 .. L - 2 /\ 6 + k <= 10 + P
    BY <1>1, <2>1
  <2>3. s[6 + k + 1] = "d" /\ s[6 + k + 2] = "0"
    BY <1>3, <2>1, <2>2
  <2>. QED  BY <1>4, <2>2, <2>3
<1>8. ASSUME NEW k \in Occurs(s, D0), k <= 10 + P PROVE Occurs(pkh, D0) # {}
  <2>1. k \in Nat /\ s[k + 1] = "d" /\ s[k + 2] = "0"
    BY <1>4
  <2>2. k \notin 0 .. 5
    <3>1. s[1] # "d" /\ s[2] # "d" /\ s[3] # "d" /\ s[4] # "d" /\ s[5] # "d" /\ s[6] # "d"
      BY FtDigits
    <3>2. k + 1 \notin {1, 2, 3, 4, 5, 6}
      BY <2>1, <3>1
    <3>. QED  BY <2>1, <3>2
  <2>3. k + 1 \notin {6 + P + 1, 6 + P + 2, 6 + P + 3, 6 + P + 4, 6 + P + 5} /\ k + 2 # 6 + P + 1
    BY <1>1, <2>1
  <2>4. k - 6 \in 0 .. P - 2
    BY <1>1, <1>8, <2>1, <2>2, <2>3
  <2>5. k - 6 + 1 \in 1 .. P /\ k - 6 + 2 \in 1 .. P /\ 6 + (k - 6 + 1) = k + 1 /\ 6 + (k - 6 + 2) = k + 2
    BY <1>1, <2>1, <2>4
  <2>6. pkh[k - 6 + 1] = "d" /\ pkh[k - 6 + 2] = "0"
    BY <1>3, <2>1, <2>5
  <2>. QED  BY <1>5, <2>4, <2>6
<1>9. /\ Find(pkh, D0) = -1 <=> Occurs(pkh, D0) = {}
      /\ Find(s, D0) \in Occurs(s, D0) /\ \A k \in Occurs(s, D0) : Find(s, D0) <= k
      /\ Find(s, D0) \in Nat
  BY <1>4, <1>5, <1>6, FoundFirst DEF Find
<1>10. ASSUME NEW k \in Occurs(pkh, D0) PROVE ~ (Find(s, D0) > 10 + P)
  <2>1. 6 + k \in Nat /\ 6 + k <= 10 + P /\ Find(s, D0) <= 6 + k /\ Find(s, D0) \in Nat
    BY <1>4, <1>7, <1>9
  <2>. QED  BY <1>1, <2>1
<1>11. Occurs(pkh, D0) = {} => Find(s, D0) > 10 + P
  <2>1. Find(s, D0) \in Nat
    BY <1>4, <1>9
  <2>. QED  BY <1>1, <1>8, <1>9, <2>1
<1>. QED  BY <1>6, <1>9, <1>10, <1>11 DEF pkh, P

\* The P2PKH digits of an FT are its first.
LEMMA FtFindP2pkh ==
  ASSUME NEW s \in Seq(Digit), FtTemplate(s)
  PROVE  FindP2pkh(s) = 0
<1>. DEFINE P == PkhLen
            a == 6 + P
            b == 10 + P
            S == {k \in 0 .. Len(s) - P2pkhLen :
                    Slice(s, k, k + 6) = P2PKH_HEAD
                    /\ Slice(s, k + 6 + PkhLen, k + P2pkhLen) = P2PKH_TAIL}
<1>0. P \in Nat /\ Len(s) \in Nat /\ Len(s) >= 38 + P
  <2>1. P \in Nat /\ RefLen \in Nat /\ Len(s) = 38 + P + RefLen
    BY FtDigits
  <2>. QED  BY <2>1
<1>1. /\ P \in Nat /\ Len(s) \in Nat /\ Len(s) >= 38 + P
      /\ s[6 + P + 1] = "8" /\ s[6 + P + 2] = "8" /\ s[6 + P + 3] = "a" /\ s[6 + P + 4] = "c"
  BY <1>0, FtDigits, Zenon
<1>2. Slice(s, 0, 6) = P2PKH_HEAD
  BY HexLengths DEF FtTemplate, StartsWith
<1>. HIDE DEF P
<1>3. a \in Nat /\ b \in Nat /\ a <= b /\ b <= Len(s) /\ b - a = 4
  BY <1>1
<1>. HIDE DEF a, b
<1>. DEFINE t == Slice(s, a, b)
<1>4. t \in Seq(Digit) /\ Len(t) = 4 /\ \A k \in 1 .. 4 : t[k] = s[a + k]
  <2>1. IsPart(t, s, a, b)
    BY <1>3, SliceIs, Zenon
  <2>. HIDE DEF t
  <2>. QED  BY <1>3, <2>1 DEF IsPart
<1>. HIDE DEF t
<1>5. t[1] = "8" /\ t[2] = "8" /\ t[3] = "a" /\ t[4] = "c"
  BY <1>1, <1>4 DEF a
<1>6. t = P2PKH_TAIL
  BY <1>4, <1>5 DEF P2PKH_TAIL
<1>7. 0 \in S
  <2>1. 0 \in 0 .. Len(s) - P2pkhLen /\ 0 + 6 = 6 /\ 0 + 6 + PkhLen = a /\ 0 + P2pkhLen = b
    BY <1>1 DEF P2pkhLen, P, a, b
  <2>. QED  BY <1>2, <1>6, <2>1 DEF t
<1>8. S \in SUBSET Nat
  OBVIOUS
<1>. HIDE DEF S
<1>9. First(S) \in Nat /\ First(S) <= 0
  BY <1>7, <1>8, FoundFirst
<1>10. First(S) = 0
  BY <1>9
<1>. QED  BY <1>10 DEF FindP2pkh, S

\* An FT goes into the statistics unless its key hash holds the digits d0.
LEMMA FtCounted ==
  ASSUME NEW s \in Seq(Digit), FtTemplate(s)
  PROVE  HasGlyphDigits(s) /\ (FtSample(s) <=> Find(Slice(s, 6, 6 + PkhLen), D0) = -1)
<1>1. Find(s, D0) \in Nat /\ Find(s, D0) # -1 /\ HasGlyphDigits(s)
  BY FtSearch DEF HasGlyphDigits
<1>2. ~ StartsWith(s, D8) /\ ~ StartsWith(s, D0)
  <2>1. 0 \in Nat /\ 0 + 2 <= Len(s) /\ s[0 + 1] = "7"
    BY FtDigits
  <2>2. \A y : ~ (Slice(s, 0, 0 + 2) = <<"d", y>>)
    <3>. SUFFICES ASSUME NEW y, Slice(s, 0, 0 + 2) = <<"d", y>> PROVE FALSE
      OBVIOUS
    <3>1. StandAt(s, 0, "d", y)
      BY <2>1, TwoDigits
    <3>2. s[0 + 1] = "d"
      BY <3>1, Zenon DEF StandAt
    <3>. QED  BY <2>1, <3>2
  <2>3. Len(D8) = 2 /\ Len(D0) = 2 /\ D8 = <<"d", "8">> /\ D0 = <<"d", "0">>
    BY DEF D8, D0
  <2>. QED  BY <2>2, <2>3 DEF StartsWith
<1>3. FindP2pkh(s) = 0 /\ 0 # -1
  BY FtFindP2pkh
<1>4. 0 + P2pkhLen = 10 + PkhLen
  BY LenAssumption DEF P2pkhLen
<1>5. CASE Find(s, D0) > 10 + PkhLen
  <2>. DEFINE f == Find(s, D0)
              d == IF f # -1 THEN f ELSE Find(s, D8)
              q == 0 + P2pkhLen
              p == FindP2pkh(s)
  <2>1. f > q /\ d = f /\ p = 0 /\ p # -1 /\ ~ (d < p) /\ f > p + P2pkhLen
    BY <1>1, <1>3, <1>4, <1>5
  <2>2. ClassifyShape(s) =
          IF ~ HasGlyphDigits(s) THEN "no-glyph-opcode"
          ELSE IF StartsWith(s, D8) /\ p = 4 + RefLen THEN "nft-prefix"
          ELSE IF StartsWith(s, D0) /\ p = 4 + RefLen THEN "ft-prefix"
          ELSE IF p # -1 /\ f > p + P2pkhLen THEN "p2pkh-then-glyph-suffix"
          ELSE IF p # -1 /\ d < p THEN "glyph-prefix-nonstandard"
          ELSE IF p = -1 THEN "glyph-only" ELSE "other"
    BY DEF ClassifyShape
  <2>. HIDE DEF f, d, p
  <2>3. ClassifyShape(s) = "p2pkh-then-glyph-suffix"
    BY <1>1, <1>2, <2>1, <2>2
  <2>. QED  BY <1>1, <1>5, <2>3, FtSearch DEF FtSample, FtTemplate
<1>6. CASE ~ (Find(s, D0) > 10 + PkhLen)
  <2>1. ClassifyShape(s) # "p2pkh-then-glyph-suffix"
    BY <1>1, <1>2, <1>3, <1>4, <1>6 DEF ClassifyShape
  <2>. QED  BY <1>1, <1>6, <2>1, FtSearch DEF FtSample
<1>. QED  BY <1>5, <1>6

\* A sample of the expected variant is an FT.
LEMMA ExpectedIsFt ==
  ASSUME NEW s \in Seq(Digit), FtSample(s), Variant(s) = <<P2PKH_HEAD, FT_MID, FT_TAIL>>
  PROVE  FtTemplate(s)
<1>1. /\ Len(s) = FtLen /\ Slice(s, 0, 6) = P2PKH_HEAD /\ Slice(s, 6 + PkhLen, 14 + PkhLen) = FT_MID
      /\ Slice(s, 14 + PkhLen + RefLen, Len(s)) = FT_TAIL
  BY DEF FtSample, Variant, FtTemplateBytes
<1>. QED  BY <1>1, HexLengths DEF FtTemplate, StartsWith

\* So is a holder, as the scanner reads it.
LEMMA SamplesAreHolders ==
  ASSUME NEW s \in Seq(Digit), NEW ref,
         FtSample(s) => Variant(s) = <<P2PKH_HEAD, FT_MID, FT_TAIL>>
  PROVE  (FtSample(s) /\ FtTemplateRef(s) = ref)
           <=> LET c == Classify(s) IN c.type = "ft" /\ c.ref = ref /\ Find(c.pkh, D0) = -1
<1>1. FtSample(s) => FtTemplate(s)
  BY ExpectedIsFt
<1>2. Classify(s).type = "ft" <=> FtTemplate(s)
  BY Kinds
<1>3. FtTemplate(s) => /\ Classify(s).pkh = Slice(s, 6, 6 + PkhLen)
                       /\ Classify(s).ref = FtTemplateRef(s)
  BY <1>2, Kinds DEF FtTemplateRef
<1>. QED  BY <1>1, <1>2, <1>3, FtCounted

-----------------------------------------------------------------------------
(***************************************************************************)
(* parse_ft_script.                                                        *)
(***************************************************************************)
\* The next place of the opcode's digits from k on, and what is found there and
\* behind it.
NextAt(s, opcode, k) == First({n \in Occurs(s, opcode) : n >= k})

FoundAt(f, s, j) ==
  IF j % 2 # 0 THEN f[j + 1]
  ELSE (IF j + 2 + RefLen <= Len(s) THEN {j} ELSE {}) \cup f[AfterMatch(s, j)]

IsFound(f, s, opcode, m) ==
  f = [k \in m .. Len(s) |->
         IF NextAt(s, opcode, k) = -1 THEN {} ELSE FoundAt(f, s, NextAt(s, opcode, k))]

\* The next place leaves room for two digits.
LEMMA NextIs ==
  ASSUME NEW s \in Seq(Digit), NEW opcode \in {D0, D8}, NEW k \in 0 .. Len(s)
  PROVE  LET j == NextAt(s, opcode, k) IN
         /\ j = -1 \/ (j \in Occurs(s, opcode) /\ j \in Nat /\ k <= j /\ j + 2 <= Len(s))
         /\ \A n \in Occurs(s, opcode) : n >= k => j # -1 /\ j <= n
<1>. DEFINE S == {n \in Occurs(s, opcode) : n >= k}
<1>1. Occurs(s, opcode) \in SUBSET Nat /\ \A n \in Occurs(s, opcode) : n + 2 <= Len(s)
  BY OccursTwo DEF D0, D8
<1>2. S \in SUBSET Nat
  BY <1>1
<1>3. (First(S) = -1 <=> S = {}) /\ (S # {} => First(S) \in S /\ \A n \in S : First(S) <= n)
  BY <1>2, FoundFirst
<1>4. First(S) = NextAt(s, opcode, k)
  BY DEF NextAt
<1>. QED  BY <1>1, <1>3, <1>4

\* The function Occurrences speaks of exists.
LEMMA FoundExists ==
  ASSUME NEW s \in Seq(Digit), NEW opcode \in {D0, D8}
  PROVE  \E f : IsFound(f, s, opcode, 0)
<1>. DEFINE L == Len(s)
            S == {d \in Nat : d <= L => \E f : IsFound(f, s, opcode, L - d)}
            Nx(k) == NextAt(s, opcode, k)
<1>0. /\ L \in Nat
      /\ \A k \in 0 .. L : Nx(k) = -1 \/ (Nx(k) \in Nat /\ k <= Nx(k) /\ Nx(k) + 2 <= L)
  BY NextIs
<1>. HIDE DEF Nx, L
<1>1. 0 \in S
  <2>1. \A k \in L .. L : Nx(k) = -1
    BY <1>0
  <2>2. L - 0 = L
    BY <1>0
  <2>3. IsFound([k \in L .. L |-> {}], s, opcode, L)
    BY <2>1 DEF IsFound, Nx, L
  <2>. QED  BY <2>2, <2>3
<1>2. ASSUME NEW d \in Nat, d \in S PROVE d + 1 \in S
  <2>. SUFFICES ASSUME d + 1 <= L PROVE \E f : IsFound(f, s, opcode, L - (d + 1))
    OBVIOUS
  <2>. DEFINE m == L - (d + 1)
  <2>1. /\ m \in Nat /\ m < L /\ L - d = m + 1
        /\ \A k \in m .. L : k = m \/ k \in m + 1 .. L
        /\ \A k \in m .. L : k \in 0 .. L
    BY <1>0
  <2>2. PICK f : IsFound(f, s, opcode, m + 1)
    <3>1. \E f : IsFound(f, s, opcode, L - d)
      BY <1>0, <1>2
    <3>. HIDE DEF m
    <3>. QED  BY <2>1, <3>1
  <2>. HIDE DEF m
  <2>. DEFINE top == IF Nx(m) = -1 THEN {} ELSE FoundAt(f, s, Nx(m))
              g == [k \in m .. L |-> IF k = m THEN top ELSE f[k]]
  <2>3. \A k \in m + 1 .. L : g[k] = f[k]
    BY <2>1
  <2>4. ASSUME NEW k \in m .. L, Nx(k) # -1 PROVE FoundAt(g, s, Nx(k)) = FoundAt(f, s, Nx(k))
    <3>1. Nx(k) + 1 \in m + 1 .. L /\ Nx(k) + 2 \in m + 1 .. L
      BY <1>0, <2>1, <2>4
    <3>. HIDE DEF g
    <3>. QED  BY <2>3, <3>1 DEF FoundAt, AfterMatch
  <2>5. ASSUME NEW k \in m .. L
        PROVE  g[k] = IF Nx(k) = -1 THEN {} ELSE FoundAt(g, s, Nx(k))
    <3>1. CASE k = m
      BY <2>4, <3>1
    <3>2. CASE k \in m + 1 .. L
      <4>1. f[k] = IF Nx(k) = -1 THEN {} ELSE FoundAt(f, s, Nx(k))
        BY <2>2, <3>2 DEF IsFound, Nx, L
      <4>. HIDE DEF g
      <4>. QED  BY <2>3, <2>4, <3>2, <4>1
    <3>. QED  BY <2>1, <3>1, <3>2
  <2>6. g = [k \in m .. L |-> g[k]]
    OBVIOUS
  <2>. HIDE DEF g
  <2>7. IsFound(g, s, opcode, m)
    BY <2>5, <2>6 DEF IsFound, Nx, L
  <2>. QED  BY <2>7 DEF m
<1>. HIDE DEF S
<1>3. L \in S
  BY <1>0, <1>1, <1>2, AllNumbers
<1>4. L - L = 0 /\ L <= L
  BY <1>0
<1>. QED  BY <1>3, <1>4 DEF S

\* Wherever the opcode stands on a byte boundary with room for a reference behind
\* it, it is found: no match before it hides it.
LEMMA FoundThere ==
  ASSUME NEW s \in Seq(Digit), NEW opcode \in {D0, D8}, NEW t \in Occurs(s, opcode),
         t % 2 = 0, t + 2 + RefLen <= Len(s)
  PROVE  [offset |-> t \div 2, ref |-> Slice(s, t + 2, t + 2 + RefLen)] \in Occurrences(s, opcode)
<1>. DEFINE U == CHOOSE f : f =
              [k \in 0 .. Len(s) |->
                 LET j == First({n \in Occurs(s, opcode) : n >= k}) IN
                 IF j = -1 THEN {} ELSE IF j % 2 # 0 THEN f[j + 1]
                 ELSE (IF j + 2 + RefLen <= Len(s) THEN {j} ELSE {}) \cup f[AfterMatch(s, j)]]
            L == Len(s)
            Nx(k) == NextAt(s, opcode, k)
<1>1. IsFound(U, s, opcode, 0)
  <2>1. \E f : f =
          [k \in 0 .. Len(s) |->
             LET j == First({n \in Occurs(s, opcode) : n >= k}) IN
             IF j = -1 THEN {} ELSE IF j % 2 # 0 THEN f[j + 1]
             ELSE (IF j + 2 + RefLen <= Len(s) THEN {j} ELSE {}) \cup f[AfterMatch(s, j)]]
    BY FoundExists DEF IsFound, FoundAt, NextAt
  <2>. QED  BY <2>1 DEF IsFound, FoundAt, NextAt
<1>2. Occurrences(s, opcode)
        = {[offset |-> j \div 2, ref |-> Slice(s, j + 2, j + 2 + RefLen)] : j \in U[0]}
  BY DEF Occurrences
<1>. HIDE DEF U
<1>3. /\ t \in Nat /\ t <= L /\ L \in Nat
      /\ \A k \in 0 .. t : Nx(k) # -1 /\ Nx(k) \in Nat /\ k <= Nx(k) /\ Nx(k) <= t
  <2>1. t \in Nat /\ t + 2 <= L
    BY OccursTwo DEF D0, D8
  <2>2. ASSUME NEW k \in 0 .. t
        PROVE  Nx(k) # -1 /\ Nx(k) \in Nat /\ k <= Nx(k) /\ Nx(k) <= t
    <3>1. k \in 0 .. Len(s) /\ t >= k
      BY <2>1
    <3>. QED  BY <3>1, NextIs
  <2>. QED  BY <2>1, <2>2
<1>. HIDE DEF Nx, L
<1>4. \A k \in 0 .. t : U[k] = FoundAt(U, s, Nx(k))
  <2>. SUFFICES ASSUME NEW k \in 0 .. t PROVE U[k] = FoundAt(U, s, Nx(k))
    OBVIOUS
  <2>1. k \in 0 .. L
    BY <1>3
  <2>. QED  BY <1>1, <1>3, <2>1 DEF IsFound, L, Nx
<1>. DEFINE S == {d \in Nat : d <= t => \A k \in t - d .. t : t \in U[k]}
<1>5. 0 \in S
  <2>1. Nx(t) = t
    BY <1>3
  <2>2. t \in U[t]
    <3>1. t \in 0 .. t /\ U[t] = FoundAt(U, s, t)
      BY <1>3, <1>4, <2>1
    <3>. QED  BY <3>1 DEF FoundAt
  <2>. QED  BY <1>3, <2>2
<1>6. ASSUME NEW d \in Nat, d \in S PROVE d + 1 \in S
  <2>. SUFFICES ASSUME d + 1 <= t, NEW k \in t - (d + 1) .. t PROVE t \in U[k]
    OBVIOUS
  <2>1. \A n \in t - d .. t : t \in U[n]
    BY <1>3, <1>6
  <2>. DEFINE j == Nx(k)
  <2>2. k \in 0 .. t /\ j \in Nat /\ k <= j /\ j <= t
    BY <1>3
  <2>3. U[k] = FoundAt(U, s, j)
    BY <1>4, <2>2
  <2>. HIDE DEF j
  <2>4. CASE j % 2 # 0
    <3>1. j # t
      BY <2>4
    <3>2. j + 1 \in t - d .. t
      BY <1>3, <2>2, <3>1
    <3>. QED  BY <2>1, <2>3, <2>4, <3>2 DEF FoundAt
  <2>5. CASE j % 2 = 0 /\ j = t
    BY <2>3, <2>5 DEF FoundAt
  <2>6. CASE j % 2 = 0 /\ j # t
    <3>1. j + 1 # t
      BY <1>3, <2>2, <2>6
    <3>2. j + 2 \in t - d .. t
      BY <1>3, <2>2, <2>6, <3>1
    <3>. QED  BY <2>1, <2>3, <2>6, <3>2 DEF FoundAt, AfterMatch
  <2>. QED  BY <2>4, <2>5, <2>6
<1>. HIDE DEF S
<1>7. t \in S
  BY <1>3, <1>5, <1>6, AllNumbers
<1>8. t \in U[0]
  <2>1. 0 \in t - t .. t
    BY <1>3
  <2>. QED  BY <1>3, <1>7, <2>1 DEF S
<1>. QED  BY <1>2, <1>8

-----------------------------------------------------------------------------
(***************************************************************************)
(* The scan.  Every counter is that of the outputs read so far, a block is *)
(* read at most once, and every variant met stays in the report.           *)
(***************************************************************************)
Sampled(ref) == {o \in OutputsRead : FtSample(ScriptOf(o)) /\ FtTemplateRef(ScriptOf(o)) = ref}

ChainOK == chain \in [1 .. Back -> Seq(Scripts)]

LoopOK ==
  /\ pc \in {"scan", "tx", "reported", "inspected", "raised"}
  /\ scanned \in SUBSET (1 .. Back)
  /\ pc = "scan" => h \in 1 .. Back /\ \A b \in scanned : h < b
  /\ pc \in {"tx", "inspected"} => h \in 1 .. Back

CountsOK ==
  \A ref \in Refs : IsFiniteSet(Sampled(ref)) /\ ftRefCounts[ref] = Cardinality(Sampled(ref))

VariantsOK ==
  \A o \in OutputsRead : FtSample(ScriptOf(o)) => Variant(ScriptOf(o)) \in ftVariants

IsExample(s, shape) == s \in Scripts /\ HasGlyphDigits(s) /\ ClassifyShape(s) = shape

ExamplesOK ==
  \A shape \in Shapes :
    /\ shapeCounts[shape] \in Nat
    /\ IF shapeCounts[shape] = 0 THEN shapeExamples[shape] = <<>>
       ELSE IsExample(shapeExamples[shape], shape)

PrintedOK ==
  /\ printed \in SUBSET Scripts
  /\ pc = "inspected" => printed = {chain[h][k] : k \in Glyphs(chain[h])}
  /\ pc = "reported" => printed = {shapeExamples[shape] : shape \in Shapes} \ {<<>>}

ScanInv == ChainOK /\ LoopOK /\ CountsOK /\ VariantsOK /\ ExamplesOK /\ PrintedOK

\* The output at place k of block b.
LEMMA OutputIs ==
  ASSUME ChainOK, NEW b \in 1 .. Back, NEW k \in DOMAIN chain[b]
  PROVE  chain[b][k] \in Scripts /\ chain[b][k] \in Seq(Digit)
<1>1. chain[b] \in Seq(Scripts)
  BY DEF ChainOK
<1>2. chain[b][k] \in Scripts
  BY <1>1
<1>. QED  BY <1>2, ScriptsAssumption

LEMMA ReadIs ==
  ASSUME ChainOK, LoopOK, NEW o \in OutputsRead
  PROVE  ScriptOf(o) \in Scripts /\ ScriptOf(o) \in Seq(Digit)
<1>1. PICK b \in scanned : o \in {b} \X DOMAIN chain[b]
  BY DEF OutputsRead
<1>2. PICK k \in DOMAIN chain[b] : o = <<b, k>>
  BY <1>1
<1>3. b \in 1 .. Back
  BY DEF LoopOK
<1>. QED  BY <1>2, <1>3, OutputIs DEF ScriptOf

\* A script with the digits of a reference opcode is not empty.
LEMMA DigitsNeedRoom ==
  ASSUME NEW s \in Seq(Digit), HasGlyphDigits(s)
  PROVE  s # <<>>
<1>1. PICK opcode \in {D0, D8} : Find(s, opcode) # -1
  BY DEF HasGlyphDigits
<1>2. /\ Occurs(s, opcode) \in SUBSET Nat
      /\ Occurs(s, opcode) \subseteq 0 .. Len(s) - 2
  BY OccursTwo DEF D0, D8
<1>3. Occurs(s, opcode) # {}
  BY <1>1, <1>2, FoundFirst DEF Find
<1>4. Len(s) # 0
  BY <1>2, <1>3
<1>. QED  BY <1>4

LEMMA SampleHasDigits == ASSUME NEW s, FtSample(s) PROVE HasGlyphDigits(s)
<1>1. ~ HasGlyphDigits(s) => ClassifyShape(s) = "no-glyph-opcode"
  BY DEF ClassifyShape
<1>. QED  BY <1>1 DEF FtSample

LEMMA ScanInit == Init => ScanInv
<1>. SUFFICES ASSUME Init PROVE ScanInv
  OBVIOUS
<1>1. ChainOK
  <2>0. PICK outs \in UNION {[1 .. n -> Scripts] : n \in 0 .. MaxOutputs} :
          \E cut \in [0 .. Back -> 0 .. Len(outs)] :
            /\ \A b \in 1 .. Back : cut[b - 1] <= cut[b]
            /\ chain = [b \in 1 .. Back |-> SubSeq(outs, cut[b - 1] + 1, cut[b])]
    BY DEF Init
  <2>1. PICK cut \in [0 .. Back -> 0 .. Len(outs)] :
          /\ \A b \in 1 .. Back : cut[b - 1] <= cut[b]
          /\ chain = [b \in 1 .. Back |-> SubSeq(outs, cut[b - 1] + 1, cut[b])]
    BY <2>0
  <2>2. outs \in Seq(Scripts) /\ Len(outs) \in Nat
    OBVIOUS
  <2>3. ASSUME NEW b \in 1 .. Back PROVE SubSeq(outs, cut[b - 1] + 1, cut[b]) \in Seq(Scripts)
    <3>. DEFINE from == cut[b - 1] + 1
                to == cut[b]
    <3>1. b - 1 \in 0 .. Back /\ b \in 0 .. Back
      BY BackAssumption
    <3>2. cut[b - 1] \in 0 .. Len(outs) /\ cut[b] \in 0 .. Len(outs)
      BY <2>1, <3>1
    <3>3. from \in Nat \ {0} /\ to \in Nat /\ to <= Len(outs)
      BY <2>2, <3>2
    <3>. HIDE DEF from, to
    <3>4. SubSeq(outs, from, to) \in Seq(Scripts)
      BY <2>2, <3>3
    <3>. QED  BY <3>4 DEF from, to
  <2>. QED  BY <2>1, <2>3 DEF ChainOK
<1>2. Len(chain) = Back
  BY <1>1, BackAssumption DEF ChainOK
<1>3. LoopOK
  BY <1>2, BackAssumption DEF Init, LoopOK, Tip
<1>4. OutputsRead = {}
  BY DEF Init, OutputsRead
<1>5. CountsOK
  BY <1>4, FS_EmptySet DEF Init, CountsOK, Sampled
<1>6. VariantsOK
  BY <1>4 DEF VariantsOK
<1>7. ExamplesOK
  BY DEF Init, ExamplesOK
<1>8. PrintedOK
  BY DEF Init, PrintedOK
<1>. QED  BY <1>1, <1>3, <1>5, <1>6, <1>7, <1>8 DEF ScanInv

\* The tip is the number of blocks.
LEMMA TipIs == ASSUME ChainOK PROVE Tip = Back /\ (NotLast <=> h > 1)
<1>1. Len(chain) = Back
  BY BackAssumption DEF ChainOK
<1>2. Back - Back + 1 = 1
  BY BackAssumption
<1>. QED  BY <1>1, <1>2 DEF Tip, NotLast

\* The counts grow by what the block adds.
Apart(A, b) == \A a \in A : a[1] # b
Grows(A, b, M) ==
  LET B == A \cup {<<b, k>> : k \in M} IN
  IsFiniteSet(B) /\ Cardinality(B) = Cardinality(A) + Cardinality(M)

LEMMA OneBlockMore ==
  ASSUME NEW A, IsFiniteSet(A), NEW b, NEW n \in Nat, NEW M \in SUBSET (1 .. n), Apart(A, b)
  PROVE  Grows(A, b, M)
<1>. DEFINE C == {<<b, k>> : k \in M}
            f == [k \in M |-> <<b, k>>]
<1>1. IsFiniteSet(M)
  <2>1. IsFiniteSet(1 .. n)
    BY FS_Interval
  <2>. QED  BY <2>1, FS_Subset
<1>2. f \in Bijection(M, C)
  BY Fun_IsBij
<1>3. IsFiniteSet(C) /\ Cardinality(C) = Cardinality(M)
  BY <1>1, <1>2, FS_Bijection DEF ExistsBijection
<1>4. A \cap C = {}
  BY DEF Apart
<1>5. /\ IsFiniteSet(A \cup C)
      /\ Cardinality(A \cup C) = Cardinality(A) + Cardinality(C) - Cardinality(A \cap C)
  BY <1>3, FS_Union
<1>6. Cardinality(A) \in Nat /\ Cardinality(C) \in Nat /\ Cardinality(A \cap C) = 0
  BY <1>3, <1>4, FS_CardinalityType, FS_EmptySet
<1>. HIDE DEF C
<1>7. Cardinality(A \cup C) = Cardinality(A) + Cardinality(M)
  BY <1>3, <1>5, <1>6
<1>. QED  BY <1>5, <1>7 DEF C, Grows

\* A block read: what is read of it, and what that adds to each set.
LEMMA BlockRead ==
  ASSUME ScanInv, h \in 1 .. Back, \A b \in scanned : h < b,
         scanned' = scanned \cup {h}, UNCHANGED chain
  PROVE  /\ OutputsRead' = OutputsRead \cup {<<h, k>> : k \in DOMAIN chain[h]}
         /\ \A o \in OutputsRead : o[1] # h
         /\ \A o : ScriptOf(o)' = ScriptOf(o)
<1>1. OutputsRead' = OutputsRead \cup ({h} \X DOMAIN chain[h])
  BY DEF OutputsRead
<1>2. {h} \X DOMAIN chain[h] = {<<h, k>> : k \in DOMAIN chain[h]}
  OBVIOUS
<1>3. ASSUME NEW o \in OutputsRead PROVE o[1] # h
  <2>1. PICK b \in scanned : o \in {b} \X DOMAIN chain[b]
    BY DEF OutputsRead
  <2>2. o[1] = b /\ h < b /\ b \in 1 .. Back
    BY <2>1 DEF ScanInv, LoopOK
  <2>. QED  BY <2>2
<1>. QED  BY <1>1, <1>2, <1>3 DEF ScriptOf

LEMMA CountsStep ==
  ASSUME ScanInv, ScanBlock PROVE CountsOK'
<1>. DEFINE block == chain[h]
<1>1. /\ h \in 1 .. Back /\ \A b \in scanned : h < b
      /\ scanned' = scanned \cup {h} /\ UNCHANGED chain
  BY DEF ScanBlock, Continue, ScanInv, LoopOK
<1>2. /\ OutputsRead' = OutputsRead \cup {<<h, k>> : k \in DOMAIN block}
      /\ \A o \in OutputsRead : o[1] # h
      /\ \A o : ScriptOf(o)' = ScriptOf(o)
  BY <1>1, BlockRead
<1>3. block \in Seq(Scripts) /\ Len(block) \in Nat /\ DOMAIN block = 1 .. Len(block)
  BY <1>1 DEF ScanInv, ChainOK
<1>. SUFFICES ASSUME NEW ref \in Refs
              PROVE  /\ IsFiniteSet(Sampled(ref)')
                     /\ ftRefCounts'[ref] = Cardinality(Sampled(ref)')
  BY DEF CountsOK
<1>. DEFINE A == Sampled(ref)
            M == {k \in Samples(block) : FtTemplateBytes(block[k]).ref = ref}
            N == {k \in DOMAIN block : FtSample(block[k]) /\ FtTemplateRef(block[k]) = ref}
<1>4. M = N
  BY SampleHasDigits DEF Samples, Glyphs, FtTemplateBytes
<1>5. \A k \in DOMAIN block : ScriptOf(<<h, k>>) = block[k]
  BY DEF ScriptOf
<1>6. Sampled(ref)' = {o \in OutputsRead' : FtSample(ScriptOf(o)) /\ FtTemplateRef(ScriptOf(o)) = ref}
  BY <1>2 DEF Sampled
<1>. HIDE DEF block
<1>7. Sampled(ref)' = A \cup {<<h, k>> : k \in N}
  BY <1>2, <1>5, <1>6 DEF Sampled
<1>8. ftRefCounts'[ref] = ftRefCounts[ref] + Cardinality(M)
  BY DEF ScanBlock, Tally, block
<1>9. IsFiniteSet(A) /\ ftRefCounts[ref] = Cardinality(A)
  BY DEF ScanInv, CountsOK
<1>10. Apart(A, h)
  BY <1>2 DEF Sampled, Apart
<1>11. N \in SUBSET (1 .. Len(block))
  BY <1>3
<1>. HIDE DEF A, M, N
<1>12. Grows(A, h, N)
  BY <1>3, <1>9, <1>10, <1>11, OneBlockMore
<1>. QED  BY <1>4, <1>7, <1>8, <1>9, <1>12 DEF Grows

LEMMA VariantsStep ==
  ASSUME ScanInv, ScanBlock PROVE VariantsOK'
<1>. DEFINE block == chain[h]
<1>1. /\ h \in 1 .. Back /\ \A b \in scanned : h < b
      /\ scanned' = scanned \cup {h} /\ UNCHANGED chain
  BY DEF ScanBlock, Continue, ScanInv, LoopOK
<1>2. /\ OutputsRead' = OutputsRead \cup {<<h, k>> : k \in DOMAIN block}
      /\ \A o : ScriptOf(o)' = ScriptOf(o)
  BY <1>1, BlockRead
<1>3. ftVariants' = ftVariants \cup {Variant(block[k]) : k \in Samples(block)}
  BY DEF ScanBlock
<1>4. ASSUME NEW o \in OutputsRead', FtSample(ScriptOf(o)) PROVE Variant(ScriptOf(o)) \in ftVariants'
  <2>1. CASE o \in OutputsRead
    BY <1>3, <1>4, <2>1 DEF ScanInv, VariantsOK
  <2>2. ASSUME NEW k \in DOMAIN block, o = <<h, k>>
        PROVE  Variant(ScriptOf(o)) \in ftVariants'
    <3>1. ScriptOf(o) = block[k]
      BY <2>2 DEF ScriptOf
    <3>2. k \in Samples(block)
      BY <1>4, <3>1, SampleHasDigits DEF Samples, Glyphs
    <3>. QED  BY <1>3, <3>1, <3>2
  <2>. QED  BY <1>2, <2>1, <2>2
<1>. QED  BY <1>2, <1>4 DEF VariantsOK

LEMMA ExamplesStep ==
  ASSUME ScanInv, ScanBlock PROVE ExamplesOK'
<1>. DEFINE block == chain[h]
<1>1. block \in Seq(Scripts) /\ Len(block) \in Nat /\ DOMAIN block = 1 .. Len(block)
  BY DEF ScanInv, ChainOK, ScanBlock, LoopOK
<1>. SUFFICES ASSUME NEW shape \in Shapes
              PROVE  /\ shapeCounts'[shape] \in Nat
                     /\ IF shapeCounts'[shape] = 0 THEN shapeExamples'[shape] = <<>>
                        ELSE IsExample(shapeExamples'[shape], shape)
  BY DEF ExamplesOK, IsExample
<1>. DEFINE S == OfShape(block, shape)
            count == shapeCounts[shape]
            example == shapeExamples[shape]
<1>2. /\ shapeCounts'[shape] = count + Cardinality(S)
      /\ shapeExamples'[shape] = IF example = <<>> /\ S # {} THEN block[First(S)] ELSE example
  BY DEF ScanBlock, Tally
<1>3. count \in Nat /\ IF count = 0 THEN example = <<>> ELSE IsExample(example, shape)
  BY DEF ScanInv, ExamplesOK
<1>4. S \in SUBSET (1 .. Len(block)) /\ S \in SUBSET Nat
  BY <1>1 DEF OfShape, Glyphs
<1>5. IsFiniteSet(S) /\ Cardinality(S) \in Nat /\ (Cardinality(S) = 0 <=> S = {})
  <2>1. IsFiniteSet(1 .. Len(block))
    BY <1>1, FS_Interval
  <2>2. IsFiniteSet(S)
    BY <1>4, <2>1, FS_Subset
  <2>. QED  BY <2>2, FS_CardinalityType, FS_EmptySet
<1>6. ASSUME S # {} PROVE IsExample(block[First(S)], shape)
  <2>1. First(S) \in S
    BY <1>4, <1>6, FoundFirst
  <2>2. First(S) \in DOMAIN block /\ HasGlyphDigits(block[First(S)])
        /\ ClassifyShape(block[First(S)]) = shape
    BY <2>1 DEF OfShape, Glyphs
  <2>. QED  BY <1>1, <2>2 DEF IsExample
<1>7. ASSUME IsExample(example, shape) PROVE example # <<>>
  BY <1>7, ScriptsAssumption, DigitsNeedRoom DEF IsExample
<1>. HIDE DEF S, count, example, block
<1>8. CASE S = {}
  <2>1. shapeCounts'[shape] = count /\ shapeExamples'[shape] = example
    BY <1>2, <1>3, <1>5, <1>8
  <2>. QED  BY <1>3, <2>1
<1>9. CASE S # {}
  <2>1. shapeCounts'[shape] \in Nat /\ shapeCounts'[shape] # 0
    BY <1>2, <1>3, <1>5, <1>9
  <2>2. IsExample(shapeExamples'[shape], shape)
    BY <1>2, <1>3, <1>6, <1>7, <1>9
  <2>. QED  BY <2>1, <2>2
<1>. QED  BY <1>8, <1>9

\* The loop goes on below the block it has read or skipped.
LEMMA LoopStep ==
  ASSUME ScanInv, pc = "scan", Continue, scanned' \in {scanned, scanned \cup {h}}
  PROVE  ChainOK' /\ LoopOK'
<1>1. h \in 1 .. Back /\ (\A b \in scanned : h < b) /\ scanned \in SUBSET (1 .. Back)
  BY DEF ScanInv, LoopOK
<1>2. ChainOK'
  BY DEF ScanInv, ChainOK, Continue
<1>3. scanned' \in SUBSET (1 .. Back)
  BY <1>1
<1>4. h' = h - 1 /\ (pc' = "scan" <=> h > 1) /\ pc' \in {"scan", "reported"}
  BY TipIs DEF Continue, ScanInv
<1>5. ASSUME pc' = "scan" PROVE h' \in 1 .. Back /\ \A b \in scanned' : h' < b
  <2>1. h > 1 /\ Back \in Nat
    BY <1>4, <1>5, BackAssumption
  <2>2. h' \in 1 .. Back
    BY <1>1, <1>4, <2>1
  <2>3. ASSUME NEW b \in scanned' PROVE h' < b
    <3>1. b \in 1 .. Back /\ (h < b \/ b = h)
      BY <1>1
    <3>. QED  BY <1>1, <1>4, <3>1
  <2>. QED  BY <2>2, <2>3
<1>. QED  BY <1>2, <1>3, <1>4, <1>5 DEF LoopOK

\* The report shows the examples there are by then.
LEMMA PrintedStep ==
  ASSUME Continue, ExamplesOK' PROVE PrintedOK'
<1>1. pc' \in {"scan", "reported"}
  BY DEF Continue
<1>2. printed' = {} \/ printed' = {shapeExamples'[shape] : shape \in Shapes} \ {<<>>}
  BY DEF Continue
<1>3. \A shape \in Shapes : shapeExamples'[shape] \in Scripts \cup {<<>>}
  BY DEF ExamplesOK, IsExample
<1>4. printed' \in SUBSET Scripts
  BY <1>2, <1>3
<1>5. pc' = "reported" => printed' = {shapeExamples'[shape] : shape \in Shapes} \ {<<>>}
  BY DEF Continue
<1>. QED  BY <1>1, <1>4, <1>5 DEF PrintedOK

\* What is not read is not counted.
LEMMA NothingRead ==
  ASSUME ScanInv, UNCHANGED <<chain, scanned, counters>>
  PROVE  CountsOK' /\ VariantsOK' /\ ExamplesOK'
<1>1. OutputsRead' = OutputsRead /\ \A o : ScriptOf(o)' = ScriptOf(o)
  BY DEF OutputsRead, ScriptOf
<1>2. \A ref : Sampled(ref)' = Sampled(ref)
  BY <1>1 DEF Sampled
<1>3. CountsOK'
  BY <1>2 DEF ScanInv, CountsOK, counters
<1>4. VariantsOK'
  BY <1>1 DEF ScanInv, VariantsOK, counters
<1>5. ExamplesOK'
  BY DEF ScanInv, ExamplesOK, counters
<1>. QED  BY <1>3, <1>4, <1>5

LEMMA ScanStep == ScanInv /\ [Next]_vars => ScanInv'
<1>. SUFFICES ASSUME ScanInv, [Next]_vars PROVE ScanInv'
  OBVIOUS
<1>1. CASE ScanBlock
  <2>1. ChainOK' /\ LoopOK'
    BY <1>1, LoopStep DEF ScanBlock
  <2>2. CountsOK' /\ VariantsOK' /\ ExamplesOK'
    BY <1>1, CountsStep, VariantsStep, ExamplesStep
  <2>3. PrintedOK'
    BY <1>1, <2>2, PrintedStep DEF ScanBlock
  <2>. QED  BY <2>1, <2>2, <2>3 DEF ScanInv
<1>2. CASE SkipBlock
  <2>1. ChainOK' /\ LoopOK'
    BY <1>2, LoopStep DEF SkipBlock
  <2>2. CountsOK' /\ VariantsOK' /\ ExamplesOK'
    BY <1>2, NothingRead DEF SkipBlock, Continue
  <2>3. PrintedOK'
    BY <1>2, <2>2, PrintedStep DEF SkipBlock
  <2>. QED  BY <2>1, <2>2, <2>3 DEF ScanInv
<1>3. CASE ScanTx
  <2>0. ChainOK /\ h \in 1 .. Back
    BY <1>3 DEF ScanTx, ScanInv, LoopOK
  <2>1. ChainOK' /\ LoopOK'
    BY <1>3 DEF ScanTx, ScanInv, ChainOK, LoopOK
  <2>2. CountsOK' /\ VariantsOK' /\ ExamplesOK'
    BY <1>3, NothingRead DEF ScanTx
  <2>3. printed' \in SUBSET Scripts
    <3>1. \A k \in Glyphs(chain[h]) : chain[h][k] \in Scripts
      BY <2>0, OutputIs DEF Glyphs
    <3>. QED  BY <1>3, <3>1 DEF ScanTx
  <2>4. PrintedOK'
    BY <1>3, <2>3 DEF ScanTx, PrintedOK
  <2>. QED  BY <2>1, <2>2, <2>4 DEF ScanInv
<1>4. CASE CallFails
  <2>1. ChainOK' /\ LoopOK' /\ PrintedOK'
    BY <1>4 DEF CallFails, ScanInv, ChainOK, LoopOK, PrintedOK
  <2>2. CountsOK' /\ VariantsOK' /\ ExamplesOK'
    BY <1>4, NothingRead DEF CallFails
  <2>. QED  BY <2>1, <2>2 DEF ScanInv
<1>5. CASE UNCHANGED vars
  <2>1. ChainOK' /\ LoopOK' /\ PrintedOK'
    BY <1>5 DEF vars, counters, ScanInv, ChainOK, LoopOK, PrintedOK
  <2>2. CountsOK' /\ VariantsOK' /\ ExamplesOK'
    BY <1>5, NothingRead DEF vars
  <2>. QED  BY <2>1, <2>2 DEF ScanInv
<1>. QED  BY <1>1, <1>2, <1>3, <1>4, <1>5 DEF Next

\* Every counter is that of the outputs of the blocks read so far, however blocks
\* were skipped, and the examples reported are scripts of their shapes.
THEOREM ScanInvariant == Spec => []ScanInv
<1>. QED  BY ScanInit, ScanStep, PTL DEF Spec

-----------------------------------------------------------------------------
(***************************************************************************)
(* The results.                                                            *)
(***************************************************************************)
\* What the classifier takes for a token is the script its builders make.
LEMMA TokenIsRebuilt ==
  ASSUME NEW s \in Seq(Digit)
  PROVE  LET c == Classify(s) IN
         /\ c.type = "p2pkh" => s = BuildP2pkh(c.pkh)
         /\ c.type = "nft" => s = BuildNftSpk(c.pkh, c.ref)
         /\ c.type = "ft" => s = BuildFtSpk(c.pkh, c.ref)
BY Kinds, P2pkhRebuilt, NftRebuilt, FtRebuilt

LEMMA RebuiltInv == ScanInv => ClassifiedIsRebuilt
<1>. SUFFICES ASSUME ScanInv, NEW b \in scanned, NEW k \in DOMAIN chain[b]
              PROVE  LET s == chain[b][k]
                         c == Classify(s)
                     IN  /\ c.type = "p2pkh" => s = BuildP2pkh(c.pkh)
                         /\ c.type = "nft" => s = BuildNftSpk(c.pkh, c.ref)
                         /\ c.type = "ft" => s = BuildFtSpk(c.pkh, c.ref)
  BY DEF ClassifiedIsRebuilt
<1>1. chain[b][k] \in Seq(Digit)
  <2>1. ChainOK /\ b \in 1 .. Back
    BY DEF ScanInv, LoopOK
  <2>. QED  BY <2>1, OutputIs
<1>. QED  BY <1>1, TokenIsRebuilt

\* What the classifier takes for a token is, digit for digit, the script its
\* builders make for that key hash and reference: no lookalike on the chain is one.
THEOREM NoLookalikes == Spec => []ClassifiedIsRebuilt
<1>. QED  BY ScanInvariant, RebuiltInv, PTL

LEMMA MissesInv == ScanInv => MissesOnlyD0
<1>. SUFFICES ASSUME ScanInv, ftVariants \subseteq {<<P2PKH_HEAD, FT_MID, FT_TAIL>>},
                     NEW ref \in Refs
              PROVE  ftRefCounts[ref] =
                       Cardinality({o \in Holders(ref) : Find(Classify(ScriptOf(o)).pkh, D0) = -1})
  BY DEF MissesOnlyD0
<1>1. ChainOK /\ LoopOK /\ VariantsOK
  BY DEF ScanInv
<1>2. ASSUME NEW o \in OutputsRead
      PROVE  (FtSample(ScriptOf(o)) /\ FtTemplateRef(ScriptOf(o)) = ref)
               <=> LET c == Classify(ScriptOf(o)) IN
                   c.type = "ft" /\ c.ref = ref /\ Find(c.pkh, D0) = -1
  <2>1. ScriptOf(o) \in Seq(Digit)
    BY <1>1, ReadIs
  <2>2. FtSample(ScriptOf(o)) => Variant(ScriptOf(o)) = <<P2PKH_HEAD, FT_MID, FT_TAIL>>
    BY <1>1 DEF VariantsOK
  <2>. QED  BY <2>1, <2>2, SamplesAreHolders
<1>3. Sampled(ref) = {o \in Holders(ref) : Find(Classify(ScriptOf(o)).pkh, D0) = -1}
  BY <1>2 DEF Sampled, Holders
<1>. QED  BY <1>3 DEF ScanInv, CountsOK

\* While the report shows the one expected variant, the count by reference misses
\* the holders whose key hash holds the digits d0 and no others.
THEOREM OnlyD0Missed == Spec => []MissesOnlyD0
<1>. QED  BY ScanInvariant, MissesInv, PTL

\* The structure printed for an NFT lists its reference behind the first digits.
LEMMA NftFound ==
  ASSUME NEW s \in Seq(Digit), NftTemplate(s)
  PROVE  /\ HasGlyphDigits(s)
         /\ [offset |-> 0, ref |-> Slice(s, 2, 2 + RefLen)] \in Occurrences(s, D8)
<1>. DEFINE R == RefLen
            L == Len(s)
<1>1. R \in Nat /\ L \in Nat /\ 2 + R <= L /\ 2 <= L
  BY LenAssumption DEF NftTemplate, NftLen, P2pkhLen
<1>2. Slice(s, 0, 2) = D8
  BY HexLengths DEF NftTemplate, StartsWith
<1>. HIDE DEF R, L
<1>3. 0 \in Occurs(s, D8)
  <2>1. 0 \in 0 .. L - Len(D8) /\ 0 + Len(D8) = 2
    BY <1>1, HexLengths
  <2>. QED  BY <1>2, <2>1 DEF Occurs, L
<1>4. Find(s, D8) # -1
  <2>1. Occurs(s, D8) \in SUBSET Nat
    BY OccursTwo DEF D8
  <2>. QED  BY <1>3, <2>1, FoundFirst DEF Find
<1>5. [offset |-> 0 \div 2, ref |-> Slice(s, 0 + 2, 0 + 2 + R)] \in Occurrences(s, D8)
  <2>1. 0 % 2 = 0 /\ 0 + 2 + R <= L
    BY <1>1
  <2>. QED  BY <1>3, <2>1, FoundThere DEF R, L
<1>6. 0 \div 2 = 0 /\ 0 + 2 = 2 /\ 0 + 2 + R = 2 + R
  BY <1>1
<1>. QED  BY <1>4, <1>5, <1>6 DEF HasGlyphDigits, R

\* That for an FT lists its reference behind the twelve digits before it and the
\* key hash, even where the key hash holds the digits too.
LEMMA FtFound ==
  ASSUME NEW s \in Seq(Digit), FtTemplate(s)
  PROVE  /\ HasGlyphDigits(s)
         /\ [offset |-> (12 + PkhLen) \div 2, ref |-> Slice(s, 14 + PkhLen, 14 + PkhLen + RefLen)]
              \in Occurrences(s, D0)
<1>. DEFINE t == 12 + PkhLen
            L == Len(s)
<1>1. /\ PkhLen \in Nat /\ RefLen \in Nat /\ L = 38 + PkhLen + RefLen /\ PkhLen % 2 = 0
  BY FtDigits, LenAssumption
<1>2. t \in Occurs(s, D0) /\ HasGlyphDigits(s)
  BY FtSearch, FtCounted
<1>3. /\ t % 2 = 0 /\ t + 2 + RefLen <= L /\ t + 2 = 14 + PkhLen
      /\ t + 2 + RefLen = 14 + PkhLen + RefLen
  BY <1>1
<1>. HIDE DEF t, L
<1>4. [offset |-> t \div 2, ref |-> Slice(s, t + 2, t + 2 + RefLen)] \in Occurrences(s, D0)
  BY <1>2, <1>3, FoundThere DEF L
<1>. QED  BY <1>2, <1>3, <1>4 DEF t

\* Both, in the classifier's words.
LEMMA TokenFound ==
  ASSUME NEW s \in Seq(Digit)
  PROVE  LET c == Classify(s) IN
         /\ c.type = "nft" => /\ HasGlyphDigits(s)
                              /\ [offset |-> 0, ref |-> c.ref] \in Occurrences(s, D8)
         /\ c.type = "ft" => /\ HasGlyphDigits(s)
                             /\ [offset |-> (12 + PkhLen) \div 2, ref |-> c.ref]
                                  \in Occurrences(s, D0)
<1>1. CASE Classify(s).type = "nft"
  BY <1>1, Kinds, NftFound
<1>2. CASE Classify(s).type = "ft"
  BY <1>2, Kinds, FtFound
<1>. QED  BY <1>1, <1>2

LEMMA PrintedInv == ScanInv => TokensArePrinted
<1>. SUFFICES ASSUME ScanInv PROVE TokensArePrinted
  OBVIOUS
<1>0. ChainOK /\ LoopOK /\ ExamplesOK /\ PrintedOK
  BY DEF ScanInv
<1>1. ASSUME NEW s \in printed
      PROVE  LET c == Classify(s) IN
             /\ c.type = "nft" => [offset |-> 0, ref |-> c.ref] \in Occurrences(s, D8)
             /\ c.type = "ft" =>
                  [offset |-> (12 + PkhLen) \div 2, ref |-> c.ref] \in Occurrences(s, D0)
  <2>1. s \in Seq(Digit)
    BY <1>0, ScriptsAssumption DEF PrintedOK
  <2>. QED  BY <2>1, TokenFound
<1>2. ASSUME pc = "inspected", NEW k \in DOMAIN chain[h],
             Classify(chain[h][k]).type \in {"ft", "nft"}
      PROVE  chain[h][k] \in printed
  <2>1. chain[h][k] \in Seq(Digit)
    BY <1>0, <1>2, OutputIs DEF LoopOK
  <2>2. HasGlyphDigits(chain[h][k])
    BY <1>2, <2>1, TokenFound
  <2>. QED  BY <1>0, <1>2, <2>2 DEF PrintedOK, Glyphs
<1>3. ASSUME pc = "reported"
      PROVE  {ClassifyShape(s) : s \in printed} = {shape \in Shapes : shapeCounts[shape] > 0}
  <2>1. printed = {shapeExamples[shape] : shape \in Shapes} \ {<<>>}
    BY <1>0, <1>3 DEF PrintedOK
  <2>2. ASSUME NEW shape \in Shapes, shapeCounts[shape] > 0
        PROVE  shapeExamples[shape] \in printed /\ ClassifyShape(shapeExamples[shape]) = shape
    <3>1. IsExample(shapeExamples[shape], shape)
      BY <1>0, <2>2 DEF ExamplesOK
    <3>2. shapeExamples[shape] # <<>>
      BY <3>1, ScriptsAssumption, DigitsNeedRoom DEF IsExample
    <3>. QED  BY <2>1, <3>1, <3>2 DEF IsExample
  <2>3. ASSUME NEW shape \in Shapes, shapeExamples[shape] # <<>>
        PROVE  shapeCounts[shape] > 0 /\ ClassifyShape(shapeExamples[shape]) = shape
    <3>1. shapeCounts[shape] \in Nat /\ shapeCounts[shape] # 0
      BY <1>0, <2>3 DEF ExamplesOK
    <3>. QED  BY <1>0, <3>1 DEF ExamplesOK, IsExample
  <2>. QED  BY <2>1, <2>2, <2>3
<1>. QED  BY <1>1, <1>2, <1>3 DEF TokensArePrinted

\* The structure printed for a token lists its own reference at its own place; a
\* transaction inspected has every token printed, a scan one script of every shape
\* it counted and of no other.
THEOREM PrintedInFull == Spec => []TokensArePrinted
<1>. QED  BY ScanInvariant, PrintedInv, PTL
=============================================================================
