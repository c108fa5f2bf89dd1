-------------------------- MODULE ScriptWalkProofs ---------------------------
(***************************************************************************)
(* The walk over a locking script, for every length of references and all  *)
(* operations: wherever the script is cut off, the cursor stands between   *)
(* two operations, and what has been found so far are the references of    *)
(* the operations behind it.                                               *)
(*                                                                         *)
(* The bytes of a script are a recursive function of its operations.  What *)
(* is said of them for every script is proved by the least number for      *)
(* which it would fail.                                                    *)
(***************************************************************************)
EXTENDS GlyphPayload, WellFoundedInduction, SequenceTheorems, TLAPS

\* Every set of numbers has a least one.
LEMMA LeastNumber ==
  ASSUME NEW S \in SUBSET Nat, S # {}
  PROVE  \E m \in S : \A k \in S : m <= k
<1>. DEFINE R == {ss \in Nat \X Nat : ss[1] < ss[2]}
<1>1. IsWellFoundedOn(R, Nat)
  BY NatLessThanWellFounded DEF OpToRel
<1>2. PICK x \in S : \A y \in S : ~ (<<y, x>> \in R)
  BY <1>1, WFMin
<1>3. \A y \in S : ~ (y < x)
  BY <1>2
<1>. QED  BY <1>3

\* Induction: a set that holds 0 and with a number the next one holds them all.
LEMMA AllNumbers ==
  ASSUME NEW S, 0 \in S, \A n \in Nat : n \in S => n + 1 \in S
  PROVE  Nat \subseteq S
<1>. SUFFICES ASSUME NEW n \in Nat, n \notin S PROVE FALSE
  OBVIOUS
<1>1. PICK m \in {k \in Nat : k \notin S} : \A k \in {j \in Nat : j \notin S} : m <= k
  BY LeastNumber
<1>2. m # 0 /\ m - 1 \in Nat /\ ~ (m <= m - 1)
  BY <1>1
<1>3. m - 1 \in S
  BY <1>1, <1>2
<1>. QED  BY <1>1, <1>2, <1>3

\* Induction downwards: a set that holds L, and with n + 1 always n, holds 0 to L.
LEMMA Downward ==
  ASSUME NEW L \in Nat, NEW S, L \in S, \A n \in 0 .. L - 1 : n + 1 \in S => n \in S
  PROVE  0 .. L \subseteq S
<1>. DEFINE T == {d \in Nat : d <= L => L - d \in S}
<1>1. 0 \in T
  OBVIOUS
<1>2. ASSUME NEW d \in Nat, d \in T PROVE d + 1 \in T
  <2>. SUFFICES ASSUME d + 1 <= L PROVE L - (d + 1) \in S
    OBVIOUS
  <2>1. L - (d + 1) \in 0 .. L - 1 /\ L - (d + 1) + 1 = L - d
    OBVIOUS
  <2>. QED  BY <1>2, <2>1
<1>. HIDE DEF T
<1>3. Nat \subseteq T
  BY <1>1, <1>2, AllNumbers
<1>. SUFFICES ASSUME NEW n \in 0 .. L PROVE n \in S
  OBVIOUS
<1>4. L - n \in Nat /\ L - n <= L /\ L - (L - n) = n
  OBVIOUS
<1>. QED  BY <1>3, <1>4 DEF T

-----------------------------------------------------------------------------
(***************************************************************************)
(* Operations and their bytes.                                             *)
(***************************************************************************)
RefNames == {"OP_PUSHINPUTREF", "OP_REQUIREINPUTREF", "OP_DISALLOWPUSHINPUTREF",
             "OP_DISALLOWPUSHINPUTREFSIBLING", "OP_PUSHINPUTREFSINGLETON"}

\* The reference opcodes are five bytes of their own.
LEMMA RefCodes ==
  /\ DOMAIN RefOpcode = RefNames
  /\ \A name \in RefNames : RefOpcode[name] \in 208 .. 216
  /\ RefOpcode.OP_PUSHINPUTREF = 208 /\ RefOpcode.OP_REQUIREINPUTREF = 209
  /\ RefOpcode.OP_DISALLOWPUSHINPUTREF = 210
  /\ RefOpcode.OP_DISALLOWPUSHINPUTREFSIBLING = 211
  /\ RefOpcode.OP_PUSHINPUTREFSINGLETON = 216
BY DEF RefOpcode, RefNames

Data(o) == o.data \in Seq(Byte) /\ Len(o.data) \in Nat

IsDirect(o) == o.op = "direct" /\ Data(o) /\ Len(o.data) \in 1 .. 75
IsPush1(o) == o.op = "pushdata1" /\ Data(o) /\ Len(o.data) \in 0 .. 255
IsPush2(o) == o.op = "pushdata2" /\ Data(o) /\ FitsTwoBytes(Len(o.data))
IsPush4(o) == o.op = "pushdata4" /\ Data(o) /\ FitsFourBytes(Len(o.data))
IsByte(o) ==
  /\ o.op = "byte" /\ o.code \in Byte \ (1 .. 78)
  /\ \A name \in RefNames : o.code # RefOpcode[name]
IsRef(o) == o.op \in RefNames /\ o.ref \in [1 .. REF_LEN -> Byte]

\* The length of a sequence is a number.
LEMMA LengthIsNat == ASSUME NEW S, NEW s \in Seq(S) PROVE Len(s) \in Nat
OBVIOUS

\* The kinds of operations.
LEMMA Kinds ==
  ASSUME NEW o, WellFormed(o)
  PROVE  IsDirect(o) \/ IsPush1(o) \/ IsPush2(o) \/ IsPush4(o) \/ IsByte(o) \/ IsRef(o)
<1>. DEFINE n == Len(o.data)
<1>0. o.data \in Seq(Byte) => Data(o) /\ n \in Nat
  BY LengthIsNat DEF Data
<1>. USE DEF OP_PUSHDATA1, OP_PUSHDATA4
<1>. HIDE DEF n
<1>1. CASE o.op = "direct" /\ o.data \in Seq(Byte) /\ 0 < n /\ n < 76
  <2>1. n \in Nat /\ 0 < n /\ n < 76
    BY <1>0, <1>1
  <2>2. n \in 1 .. 75
    BY <2>1
  <2>. QED  BY <1>0, <1>1, <2>2 DEF IsDirect, n
<1>2. CASE o.op = "pushdata1" /\ o.data \in Seq(Byte) /\ n < 256
  <2>1. n \in Nat /\ n < 256
    BY <1>0, <1>2
  <2>2. n \in 0 .. 255
    BY <2>1
  <2>. QED  BY <1>0, <1>2, <2>2 DEF IsPush1, n
<1>3. CASE o.op = "pushdata2" /\ o.data \in Seq(Byte) /\ FitsTwoBytes(n)
  BY <1>0, <1>3 DEF IsPush2, n
<1>4. CASE o.op = "pushdata4" /\ o.data \in Seq(Byte) /\ FitsFourBytes(n)
  BY <1>0, <1>4 DEF IsPush4, n
<1>5. CASE /\ o.op = "byte" /\ o.code \in Byte \ (1 .. 78)
           /\ \A name \in DOMAIN RefOpcode : o.code # RefOpcode[name]
  BY <1>5, RefCodes DEF IsByte
<1>6. CASE o.op \in DOMAIN RefOpcode /\ o.ref \in [1 .. REF_LEN -> Byte]
  BY <1>6, RefCodes DEF IsRef
<1>. QED  BY <1>1, <1>2, <1>3, <1>4, <1>5, <1>6 DEF WellFormed, n

\* The bytes of each kind.
LEMMA EncodeDirect ==
  ASSUME NEW o, IsDirect(o) PROVE Encode(o) = <<Len(o.data)>> \o o.data
<1>1. o.op = "direct"
  BY DEF IsDirect
<1>. QED  BY <1>1 DEF Encode

LEMMA EncodePush1 ==
  ASSUME NEW o, IsPush1(o) PROVE Encode(o) = <<76, Len(o.data)>> \o o.data
<1>1. o.op = "pushdata1"
  BY DEF IsPush1
<1>. QED  BY <1>1 DEF Encode, OP_PUSHDATA1

\* The bytes of a length that fits.
LEMMA FieldBytes ==
  ASSUME NEW n \in Nat
  PROVE  /\ LengthByte(n, 1) \in Byte /\ LengthByte(n, 2) \in Byte
         /\ LengthByte(n, 3) \in Byte /\ LengthByte(n, 4) \in Byte
         /\ FitsTwoBytes(n) => n = LengthByte(n, 1) + 256 * LengthByte(n, 2)
         /\ FitsFourBytes(n) =>
              n = LengthByte(n, 1) + 256 * (LengthByte(n, 2)
                    + 256 * (LengthByte(n, 3) + 256 * LengthByte(n, 4)))
<1>. DEFINE a == LengthByte(n, 1)  b == LengthByte(n, 2)
            c == LengthByte(n, 3)  d == LengthByte(n, 4)
<1>1. Unit[1] = 1 /\ Unit[2] = 256 /\ Unit[3] = 65536 /\ Unit[4] = 16777216
  BY SMT DEF Unit
<1>2. /\ a = n % 256 /\ b = (n \div 256) % 256
      /\ c = (n \div 65536) % 256 /\ d = (n \div 16777216) % 256
  BY <1>1, SMT DEF LengthByte
<1>. HIDE DEF a, b, c, d
<1>3. a \in 0 .. 255 /\ b \in 0 .. 255 /\ c \in 0 .. 255 /\ d \in 0 .. 255
  BY <1>2, SMT
<1>4. n < 65536 => n = a + 256 * b
  BY <1>2, SMT
<1>5. n \div 16777216 < 128 => n = a + 256 * (b + 256 * (c + 256 * d))
  BY <1>2, SMT
<1>6. a \in Byte /\ b \in Byte /\ c \in Byte /\ d \in Byte
  BY <1>3 DEF Byte
<1>7. FitsTwoBytes(n) => n = a + 256 * b
  BY <1>4 DEF FitsTwoBytes
<1>8. FitsFourBytes(n) => n = a + 256 * (b + 256 * (c + 256 * d))
  BY <1>5, SMT DEF FitsFourBytes
<1>. QED  BY <1>6, <1>7, <1>8 DEF a, b, c, d

\* A push with a length of two bytes.
LEMMA EncodePush2 ==
  ASSUME NEW o, IsPush2(o)
  PROVE  \E a, b \in Byte :
           Len(o.data) = a + 256 * b /\ Encode(o) = <<77, a, b>> \o o.data
<1>. DEFINE n == Len(o.data)
<1>1. o.op = "pushdata2" /\ n \in Nat /\ FitsTwoBytes(n)
  BY DEF IsPush2, Data
<1>2. Encode(o) = <<77, LengthByte(n, 1), LengthByte(n, 2)>> \o o.data
  BY <1>1 DEF Encode, OP_PUSHDATA2
<1>. HIDE DEF n
<1>3. /\ n = LengthByte(n, 1) + 256 * LengthByte(n, 2)
      /\ LengthByte(n, 1) \in Byte /\ LengthByte(n, 2) \in Byte
  BY <1>1, FieldBytes
<1>. QED  BY <1>2, <1>3 DEF n

\* A push with a length of four bytes.
LEMMA EncodePush4 ==
  ASSUME NEW o, IsPush4(o)
  PROVE  \E a, b, c, d \in Byte :
           /\ Len(o.data) = a + 256 * (b + 256 * (c + 256 * d))
           /\ Encode(o) = <<78, a, b, c, d>> \o o.data
<1>. DEFINE n == Len(o.data)
<1>1. o.op = "pushdata4" /\ n \in Nat /\ FitsFourBytes(n)
  BY DEF IsPush4, Data
<1>2. Encode(o) = <<78, LengthByte(n, 1), LengthByte(n, 2),
                    LengthByte(n, 3), LengthByte(n, 4)>> \o o.data
  BY <1>1 DEF Encode, OP_PUSHDATA4
<1>. HIDE DEF n
<1>3. /\ n = LengthByte(n, 1) + 256 * (LengthByte(n, 2)
               + 256 * (LengthByte(n, 3) + 256 * LengthByte(n, 4)))
      /\ LengthByte(n, 1) \in Byte /\ LengthByte(n, 2) \in Byte
      /\ LengthByte(n, 3) \in Byte /\ LengthByte(n, 4) \in Byte
  BY <1>1, FieldBytes
<1>. QED  BY <1>2, <1>3 DEF n

LEMMA EncodeByte == ASSUME NEW o, IsByte(o) PROVE Encode(o) = <<o.code>>
BY DEF IsByte, Encode

LEMMA EncodeRef == ASSUME NEW o, IsRef(o) PROVE Encode(o) = <<RefOpcode[o.op]>> \o o.ref
BY DEF IsRef, Encode, RefNames

\* Bytes put before data are the first bytes, and the data follows.
LEMMA Prepend ==
  ASSUME NEW head \in Seq(Byte), NEW data \in Seq(Byte)
  PROVE  /\ head \o data \in Seq(Byte) /\ Len(head \o data) = Len(head) + Len(data)
         /\ \A k \in 1 .. Len(head) : (head \o data)[k] = head[k]
         /\ \A k \in 1 .. Len(data) : (head \o data)[Len(head) + k] = data[k]
<1>. HIDE DEF Byte
<1>. QED  OBVIOUS

\* The bytes before the data, one by one.
LEMMA Heads1 ==
  ASSUME NEW x \in Byte, NEW data \in Seq(Byte)
  PROVE  LET e == <<x>> \o data IN
         /\ e \in Seq(Byte) /\ Len(e) = 1 + Len(data) /\ e[1] = x
         /\ \A k \in 1 .. Len(data) : e[1 + k] = data[k]
<1>. DEFINE h == <<x>>
<1>1. h \in Seq(Byte) /\ Len(h) = 1 /\ h[1] = x
  OBVIOUS
<1>. HIDE DEF h
<1>2. 1 \in 1 .. Len(h)
  BY <1>1
<1>. QED  BY <1>1, <1>2, Prepend DEF h

LEMMA Heads2 ==
  ASSUME NEW x \in Byte, NEW a \in Byte, NEW data \in Seq(Byte)
  PROVE  LET e == <<x, a>> \o data IN
         /\ e \in Seq(Byte) /\ Len(e) = 2 + Len(data) /\ e[1] = x /\ e[2] = a
         /\ \A k \in 1 .. Len(data) : e[2 + k] = data[k]
<1>. DEFINE h == <<x, a>>
<1>1. h \in Seq(Byte) /\ Len(h) = 2 /\ h[1] = x /\ h[2] = a
  OBVIOUS
<1>. HIDE DEF h
<1>2. 1 \in 1 .. Len(h) /\ 2 \in 1 .. Len(h)
  BY <1>1
<1>. QED  BY <1>1, <1>2, Prepend DEF h

LEMMA Heads3 ==
  ASSUME NEW x \in Byte, NEW a \in Byte, NEW b \in Byte, NEW data \in Seq(Byte)
  PROVE  LET e == <<x, a, b>> \o data IN
         /\ e \in Seq(Byte) /\ Len(e) = 3 + Len(data) /\ e[1] = x /\ e[2] = a /\ e[3] = b
         /\ \A k \in 1 .. Len(data) : e[3 + k] = data[k]
<1>. DEFINE h == <<x, a, b>>
<1>1. h \in Seq(Byte) /\ Len(h) = 3 /\ h[1] = x /\ h[2] = a /\ h[3] = b
  OBVIOUS
<1>. HIDE DEF h
<1>2. 1 \in 1 .. Len(h) /\ 2 \in 1 .. Len(h) /\ 3 \in 1 .. Len(h)
  BY <1>1
<1>. QED  BY <1>1, <1>2, Prepend DEF h

LEMMA Heads5 ==
  ASSUME NEW x \in Byte, NEW a \in Byte, NEW b \in Byte, NEW c \in Byte, NEW d \in Byte,
         NEW data \in Seq(Byte)
  PROVE  LET e == <<x, a, b, c, d>> \o data IN
         /\ e \in Seq(Byte) /\ Len(e) = 5 + Len(data) /\ e[1] = x
         /\ e[2] = a /\ e[3] = b /\ e[4] = c /\ e[5] = d
         /\ \A k \in 1 .. Len(data) : e[5 + k] = data[k]
<1>. DEFINE h == <<x, a, b, c, d>>
<1>1. /\ h \in Seq(Byte) /\ Len(h) = 5 /\ h[1] = x
      /\ h[2] = a /\ h[3] = b /\ h[4] = c /\ h[5] = d
  OBVIOUS
<1>. HIDE DEF h
<1>2. /\ 1 \in 1 .. Len(h) /\ 2 \in 1 .. Len(h) /\ 3 \in 1 .. Len(h)
      /\ 4 \in 1 .. Len(h) /\ 5 \in 1 .. Len(h)
  BY <1>1
<1>. QED  BY <1>1, <1>2, Prepend DEF h

\* A tuple of n elements.
LEMMA OfLength ==
  ASSUME NEW S, NEW n \in Nat, NEW t \in [1 .. n -> S] PROVE t \in Seq(S) /\ Len(t) = n
OBVIOUS

\* What the walk reads of an operation o with the bytes e, len of them.
DirectForm(o, e, len) == o.op \notin RefNames /\ e[1] \in 1 .. 75 /\ len = 1 + e[1]

Push1Form(o, e, len) ==
  o.op \notin RefNames /\ e[1] = 76 /\ e[2] \in Byte /\ len = 2 + e[2]

Push2Form(o, e, len) ==
  /\ o.op \notin RefNames /\ e[1] = 77 /\ e[2] \in Byte /\ e[3] \in Byte
  /\ len = 3 + (e[2] + 256 * e[3])

Push4Form(o, e, len) ==
  /\ o.op \notin RefNames /\ e[1] = 78
  /\ e[2] \in Byte /\ e[3] \in Byte /\ e[4] \in Byte /\ e[5] \in Byte
  /\ len = 5 + (e[2] + 256 * (e[3] + 256 * (e[4] + 256 * e[5])))

ByteForm(o, e, len) ==
  /\ o.op \notin RefNames /\ e[1] \in Byte \ (1 .. 78) /\ len = 1
  /\ \A name \in RefNames : e[1] # RefOpcode[name]

RefForm(o, e, len) ==
  /\ o.op \in RefNames /\ e[1] = RefOpcode[o.op] /\ e[1] \in 208 .. 216
  /\ len = 1 + REF_LEN /\ o.ref \in [1 .. REF_LEN -> Byte]
  /\ \A k \in 1 .. REF_LEN : e[1 + k] = o.ref[k]

Form(o, e, len) ==
  \/ DirectForm(o, e, len)
  \/ Push1Form(o, e, len)
  \/ Push2Form(o, e, len)
  \/ Push4Form(o, e, len)
  \/ ByteForm(o, e, len)
  \/ RefForm(o, e, len)

\* The bytes of an operation have one of these forms.
LEMMA Forms ==
  ASSUME NEW o, WellFormed(o)
  PROVE  Encode(o) \in Seq(Byte) /\ Form(o, Encode(o), Len(Encode(o)))
<1>. DEFINE e == Encode(o)
            n == Len(o.data)
<1>1. CASE IsDirect(o)
  <2>1. o.op \notin RefNames /\ o.data \in Seq(Byte) /\ n \in 1 .. 75 /\ e = <<n>> \o o.data
    BY <1>1, EncodeDirect DEF IsDirect, Data, RefNames
  <2>. HIDE DEF n, e
  <2>2. n \in Byte
    BY <2>1 DEF Byte
  <2>3. e \in Seq(Byte) /\ Len(e) = 1 + n /\ e[1] = n
    BY <2>1, <2>2, Heads1 DEF n
  <2>. QED  BY <2>1, <2>3 DEF DirectForm, Form, e
<1>2. CASE IsPush1(o)
  <2>1. /\ o.op \notin RefNames /\ o.data \in Seq(Byte) /\ n \in 0 .. 255
        /\ e = <<76, n>> \o o.data
    BY <1>2, EncodePush1 DEF IsPush1, Data, RefNames
  <2>. HIDE DEF n, e
  <2>2. n \in Byte /\ 76 \in Byte
    BY <2>1 DEF Byte
  <2>3. e \in Seq(Byte) /\ Len(e) = 2 + n /\ e[1] = 76 /\ e[2] = n
    BY <2>1, <2>2, Heads2 DEF n
  <2>. QED  BY <2>1, <2>2, <2>3 DEF Push1Form, Form, e
<1>3. CASE IsPush2(o)
  <2>1. o.op \notin RefNames /\ o.data \in Seq(Byte)
    BY <1>3 DEF IsPush2, Data, RefNames
  <2>2. PICK a, b \in Byte : n = a + 256 * b /\ e = <<77, a, b>> \o o.data
    BY <1>3, EncodePush2
  <2>. HIDE DEF n, e
  <2>3. 77 \in Byte
    BY DEF Byte
  <2>4. e \in Seq(Byte) /\ Len(e) = 3 + n /\ e[1] = 77 /\ e[2] = a /\ e[3] = b
    BY <2>1, <2>2, <2>3, Heads3 DEF n
  <2>. QED  BY <2>1, <2>2, <2>4 DEF Push2Form, Form, e
<1>4. CASE IsPush4(o)
  <2>1. o.op \notin RefNames /\ o.data \in Seq(Byte)
    BY <1>4 DEF IsPush4, Data, RefNames
  <2>2. PICK a, b, c, d \in Byte :
          /\ n = a + 256 * (b + 256 * (c + 256 * d))
          /\ e = <<78, a, b, c, d>> \o o.data
    BY <1>4, EncodePush4
  <2>. HIDE DEF n, e
  <2>3. 78 \in Byte
    BY DEF Byte
  <2>4. /\ e \in Seq(Byte) /\ Len(e) = 5 + n /\ e[1] = 78
        /\ e[2] = a /\ e[3] = b /\ e[4] = c /\ e[5] = d
    BY <2>1, <2>2, <2>3, Heads5 DEF n
  <2>. QED  BY <2>1, <2>2, <2>4 DEF Push4Form, Form, e
<1>5. CASE IsByte(o)
  <2>1. /\ o.op \notin RefNames /\ o.code \in Byte \ (1 .. 78) /\ e = <<o.code>>
        /\ \A name \in RefNames : o.code # RefOpcode[name]
    BY <1>5, EncodeByte DEF IsByte, RefNames
  <2>. HIDE DEF e
  <2>2. e \in Seq(Byte) /\ Len(e) = 1 /\ e[1] = o.code
    BY <2>1
  <2>. QED  BY <2>1, <2>2 DEF ByteForm, Form, e
<1>6. CASE IsRef(o)
  <2>. DEFINE x == RefOpcode[o.op]
  <2>1. /\ o.op \in RefNames /\ o.ref \in [1 .. REF_LEN -> Byte] /\ x \in 208 .. 216
        /\ e = <<x>> \o o.ref
    BY <1>6, EncodeRef, RefCodes DEF IsRef
  <2>2. o.ref \in Seq(Byte) /\ Len(o.ref) = REF_LEN
    BY <2>1, WalkAssumption, OfLength
  <2>. HIDE DEF e, x
  <2>3. x \in Byte
    BY <2>1 DEF Byte
  <2>4. /\ e \in Seq(Byte) /\ Len(e) = 1 + REF_LEN /\ e[1] = x
        /\ \A k \in 1 .. REF_LEN : e[1 + k] = o.ref[k]
    BY <2>1, <2>2, <2>3, Heads1
  <2>. QED  BY <2>1, <2>4 DEF RefForm, Form, e, x
<1>. QED  BY <1>1, <1>2, <1>3, <1>4, <1>5, <1>6, Kinds

\* The first byte tells the form.
LEMMA FirstByte ==
  ASSUME NEW o, NEW e, NEW len, Form(o, e, len)
  PROVE  /\ e[1] \in Nat
         /\ 0 < e[1] /\ e[1] < 76 => DirectForm(o, e, len)
         /\ e[1] = 76 => Push1Form(o, e, len)
         /\ e[1] = 77 => Push2Form(o, e, len)
         /\ e[1] = 78 => Push4Form(o, e, len)
         /\ e[1] = 0 \/ e[1] > 78 => ByteForm(o, e, len) \/ RefForm(o, e, len)
<1>1. DirectForm(o, e, len) => e[1] \in Nat /\ 0 < e[1] /\ e[1] < 76
  BY SMT DEF DirectForm
<1>2. Push1Form(o, e, len) => e[1] = 76
  BY DEF Push1Form
<1>3. Push2Form(o, e, len) => e[1] = 77
  BY DEF Push2Form
<1>4. Push4Form(o, e, len) => e[1] = 78
  BY DEF Push4Form
<1>5. ByteForm(o, e, len) => e[1] \in Nat /\ (e[1] = 0 \/ e[1] > 78)
  BY SMT DEF ByteForm, Byte
<1>6. RefForm(o, e, len) => e[1] \in Nat /\ e[1] > 78
  BY SMT DEF RefForm
<1>7. CASE DirectForm(o, e, len)
  BY <1>1, <1>7
<1>8. CASE Push1Form(o, e, len)
  BY <1>2, <1>8
<1>9. CASE Push2Form(o, e, len)
  BY <1>3, <1>9
<1>10. CASE Push4Form(o, e, len)
  BY <1>4, <1>10
<1>11. CASE ByteForm(o, e, len)
  BY <1>5, <1>11
<1>12. CASE RefForm(o, e, len)
  BY <1>6, <1>12
<1>. QED  BY <1>7, <1>8, <1>9, <1>10, <1>11, <1>12 DEF Form

\* The number of bytes of a push.
LEMMA PushedBytes ==
  ASSUME NEW a \in Byte, NEW b \in Byte, NEW c \in Byte, NEW d \in Byte
  PROVE  a \in Nat /\ a + 256 * b \in Nat /\ a + 256 * (b + 256 * (c + 256 * d)) \in Nat
BY SMT DEF Byte

\* An operation has at least one byte.
LEMMA EncodeType ==
  ASSUME NEW o, WellFormed(o)
  PROVE  Encode(o) \in Seq(Byte) /\ Len(Encode(o)) \in Nat \ {0}
<1>. DEFINE e == Encode(o)
            len == Len(e)
<1>1. e \in Seq(Byte) /\ Form(o, e, len) /\ len \in Nat
  BY Forms, LengthIsNat
<1>. HIDE DEF e, len
<1>2. len # 0
  <2>1. CASE DirectForm(o, e, len)
    BY <2>1 DEF DirectForm
  <2>2. CASE Push1Form(o, e, len)
    BY <2>2 DEF Push1Form, Byte
  <2>3. CASE Push2Form(o, e, len)
    <3>. DEFINE p == e[2] + 256 * e[3]
    <3>1. p \in Nat /\ len = 3 + p
      BY <2>3, PushedBytes DEF Push2Form
    <3>. HIDE DEF p
    <3>. QED  BY <3>1
  <2>4. CASE Push4Form(o, e, len)
    <3>. DEFINE p == e[2] + 256 * (e[3] + 256 * (e[4] + 256 * e[5]))
    <3>1. p \in Nat /\ len = 5 + p
      BY <2>4, PushedBytes DEF Push4Form
    <3>. HIDE DEF p
    <3>. QED  BY <3>1
  <2>5. CASE ByteForm(o, e, len)
    BY <2>5 DEF ByteForm
  <2>6. CASE RefForm(o, e, len)
    BY <2>6, WalkAssumption DEF RefForm
  <2>. QED  BY <1>1, <2>1, <2>2, <2>3, <2>4, <2>5, <2>6 DEF Form
<1>. QED  BY <1>1, <1>2 DEF e, len

-----------------------------------------------------------------------------
(***************************************************************************)
(* The bytes of a script, operation by operation.                          *)
(***************************************************************************)
IsUpTo(f, s, m) ==
  f = [k \in 0 .. m |-> IF k = 0 THEN <<>> ELSE f[k - 1] \o Encode(s[k])]

\* The function BytesOf speaks of exists.
LEMMA UpToExists == ASSUME NEW s, NEW N \in Nat PROVE \E f : IsUpTo(f, s, N)
<1>. DEFINE S == {m \in Nat : \E f : IsUpTo(f, s, m)}
<1>1. 0 \in S
  <2>1. IsUpTo([k \in 0 .. 0 |-> <<>>], s, 0)
    BY DEF IsUpTo
  <2>. QED  BY <2>1
<1>2. ASSUME NEW n \in Nat, n \in S PROVE n + 1 \in S
  <2>1. PICK f : IsUpTo(f, s, n)
    BY <1>2
  <2>. DEFINE g == [k \in 0 .. n + 1 |-> IF k <= n THEN f[k] ELSE f[n] \o Encode(s[n + 1])]
  <2>2. IsUpTo(g, s, n + 1)
    BY <2>1 DEF IsUpTo
  <2>. QED  BY <2>2
<1>. HIDE DEF S
<1>3. N \in S
  BY <1>1, <1>2, AllNumbers
<1>. QED  BY <1>3 DEF S

\* One more operation adds its bytes.
LEMMA BytesGrow ==
  ASSUME NEW s \in Seq(Ops)
  PROVE  /\ BytesOf(s, 0) = <<>>
         /\ \A n \in 1 .. Len(s) : BytesOf(s, n) = BytesOf(s, n - 1) \o Encode(s[n])
<1>. DEFINE U == CHOOSE f : f = [k \in 0 .. Len(s) |->
                                   IF k = 0 THEN <<>> ELSE f[k - 1] \o Encode(s[k])]
<1>1. IsUpTo(U, s, Len(s))
  <2>1. Len(s) \in Nat
    OBVIOUS
  <2>2. \E f : f = [k \in 0 .. Len(s) |-> IF k = 0 THEN <<>> ELSE f[k - 1] \o Encode(s[k])]
    BY <2>1, UpToExists DEF IsUpTo
  <2>. QED  BY <2>2 DEF IsUpTo
<1>2. \A n : BytesOf(s, n) = U[n]
  BY DEF BytesOf
<1>. HIDE DEF U
<1>. QED  BY <1>1, <1>2 DEF IsUpTo

LEMMA BytesOfType ==
  ASSUME NEW s \in Seq(Ops), NEW n \in 0 .. Len(s)
  PROVE  BytesOf(s, n) \in Seq(Byte) /\ Len(BytesOf(s, n)) \in Nat
<1>. DEFINE S == {m \in Nat : m <= Len(s) => BytesOf(s, m) \in Seq(Byte)}
<1>1. 0 \in S
  <2>1. BytesOf(s, 0) = <<>> /\ <<>> \in Seq(Byte)
    BY BytesGrow
  <2>. QED  BY <2>1
<1>2. ASSUME NEW m \in Nat, m \in S PROVE m + 1 \in S
  <2>1. SUFFICES ASSUME m + 1 <= Len(s) PROVE BytesOf(s, m + 1) \in Seq(Byte)
    OBVIOUS
  <2>2. m + 1 \in 1 .. Len(s) /\ s[m + 1] \in Ops
    BY <2>1
  <2>3. BytesOf(s, m + 1) = BytesOf(s, m) \o Encode(s[m + 1])
    BY <2>2, BytesGrow
  <2>4. Encode(s[m + 1]) \in Seq(Byte)
    BY <2>2, EncodeType, OpsAssumption
  <2>5. BytesOf(s, m) \in Seq(Byte)
    BY <1>2, <2>1
  <2>. QED  BY <2>3, <2>4, <2>5, Prepend
<1>. HIDE DEF S
<1>3. n \in S
  BY <1>1, <1>2, AllNumbers
<1>. QED  BY <1>3 DEF S

\* The bytes of operation n + 1 stand behind those of the first n.
LEMMA NextOperation ==
  ASSUME NEW s \in Seq(Ops), NEW n \in 0 .. Len(s) - 1
  PROVE  /\ WellFormed(s[n + 1])
         /\ Len(BytesOf(s, n + 1)) = Len(BytesOf(s, n)) + Len(Encode(s[n + 1]))
         /\ \A k \in 1 .. Len(BytesOf(s, n)) : BytesOf(s, n + 1)[k] = BytesOf(s, n)[k]
         /\ \A k \in 1 .. Len(Encode(s[n + 1])) :
              BytesOf(s, n + 1)[Len(BytesOf(s, n)) + k] = Encode(s[n + 1])[k]
<1>1. s[n + 1] \in Ops /\ n + 1 \in 1 .. Len(s)
  OBVIOUS
<1>2. WellFormed(s[n + 1])
  BY <1>1, OpsAssumption
<1>3. BytesOf(s, n) \in Seq(Byte) /\ Encode(s[n + 1]) \in Seq(Byte)
  BY <1>2, BytesOfType, EncodeType
<1>4. BytesOf(s, n + 1) = BytesOf(s, n) \o Encode(s[n + 1])
  BY <1>1, BytesGrow
<1>. QED  BY <1>2, <1>3, <1>4, Prepend

\* The bytes of fewer operations are a prefix.
LEMMA BytesPrefix ==
  ASSUME NEW s \in Seq(Ops), NEW n \in 0 .. Len(s), NEW m \in n .. Len(s)
  PROVE  /\ Len(BytesOf(s, n)) <= Len(BytesOf(s, m))
         /\ \A k \in 1 .. Len(BytesOf(s, n)) : BytesOf(s, m)[k] = BytesOf(s, n)[k]
<1>. DEFINE Prefix(j) ==
              /\ Len(BytesOf(s, n)) <= Len(BytesOf(s, j))
              /\ \A k \in 1 .. Len(BytesOf(s, n)) : BytesOf(s, j)[k] = BytesOf(s, n)[k]
            S == {d \in Nat : n + d <= Len(s) => Prefix(n + d)}
<1>1. 0 \in S
  BY BytesOfType
<1>2. ASSUME NEW d \in Nat, d \in S PROVE d + 1 \in S
  <2>. SUFFICES ASSUME n + d + 1 <= Len(s) PROVE Prefix(n + d + 1)
    OBVIOUS
  <2>1. Prefix(n + d) /\ n + d \in 0 .. Len(s) - 1
    BY <1>2
  <2>2. /\ Len(BytesOf(s, n)) \in Nat /\ Len(BytesOf(s, n + d)) \in Nat
        /\ Len(Encode(s[n + d + 1])) \in Nat
    BY <2>1, BytesOfType, NextOperation, EncodeType
  <2>3. /\ Len(BytesOf(s, n + d + 1)) = Len(BytesOf(s, n + d)) + Len(Encode(s[n + d + 1]))
        /\ \A k \in 1 .. Len(BytesOf(s, n + d)) : BytesOf(s, n + d + 1)[k] = BytesOf(s, n + d)[k]
    BY <2>1, NextOperation
  <2>. QED  BY <2>1, <2>2, <2>3
<1>. HIDE DEF S
<1>3. m - n \in S
  BY <1>1, <1>2, AllNumbers
<1>. QED  BY <1>3 DEF S

\* More operations have more bytes.
LEMMA BytesStrict ==
  ASSUME NEW s \in Seq(Ops), NEW n \in 0 .. Len(s), NEW m \in 0 .. Len(s), n < m
  PROVE  Len(BytesOf(s, n)) < Len(BytesOf(s, m))
<1>1. n \in 0 .. Len(s) - 1 /\ n + 1 \in 0 .. Len(s) /\ m \in n + 1 .. Len(s)
  OBVIOUS
<1>2. Len(BytesOf(s, n + 1)) = Len(BytesOf(s, n)) + Len(Encode(s[n + 1]))
      /\ WellFormed(s[n + 1])
  BY <1>1, NextOperation
<1>3. Len(BytesOf(s, n + 1)) <= Len(BytesOf(s, m))
  BY <1>1, BytesPrefix
<1>. QED  BY <1>1, <1>2, <1>3, BytesOfType, EncodeType

\* Where operation n + 1 stands in the whole script.
LEMMA OperationInScript ==
  ASSUME NEW s \in Seq(Ops), NEW n \in 0 .. Len(s) - 1
  PROVE  LET at == Len(BytesOf(s, n))
             e  == Encode(s[n + 1])
         IN  /\ WellFormed(s[n + 1]) /\ at \in Nat
             /\ Len(BytesOf(s, n + 1)) = at + Len(e)
             /\ at + Len(e) <= Len(Bytes(s)) /\ Len(Bytes(s)) \in Nat
             /\ \A k \in 1 .. Len(e) : Bytes(s)[at + k] = e[k]
<1>1. n \in 0 .. Len(s) /\ n + 1 \in 0 .. Len(s) /\ Len(s) \in n + 1 .. Len(s)
  OBVIOUS
<1>2. /\ Len(BytesOf(s, n)) \in Nat /\ Len(BytesOf(s, n + 1)) \in Nat
      /\ Len(Bytes(s)) \in Nat /\ WellFormed(s[n + 1])
  BY <1>1, BytesOfType, NextOperation DEF Bytes
<1>3. Len(Encode(s[n + 1])) \in Nat
  BY <1>2, EncodeType
<1>4. /\ Len(BytesOf(s, n + 1)) <= Len(Bytes(s))
      /\ \A k \in 1 .. Len(BytesOf(s, n + 1)) : Bytes(s)[k] = BytesOf(s, n + 1)[k]
  BY <1>1, BytesPrefix DEF Bytes
<1>. QED  BY <1>2, <1>3, <1>4, NextOperation

-----------------------------------------------------------------------------
(***************************************************************************)
(* The walk.                                                               *)
(***************************************************************************)
PushNames == {"OP_PUSHINPUTREF", "OP_PUSHINPUTREFSINGLETON"}
DisallowNames == {"OP_DISALLOWPUSHINPUTREF"}

\* The references of the first n operations.
RefsUpTo(n, names) == {ops[k].ref : k \in {j \in 1 .. n : ops[j].op \in names}}

\* The cursor behind n operations, with their references found.
Behind(n) ==
  /\ i = Len(BytesOf(ops, n))
  /\ ListOf(pushed) = RefsUpTo(n, PushNames)
  /\ ListOf(disallowed) = RefsUpTo(n, DisallowNames)

ScriptOK ==
  /\ ops \in Seq(Ops)
  /\ script \in Seq(Byte)
  /\ Len(script) <= Len(Bytes(ops))
  /\ \A k \in 1 .. Len(script) : script[k] = Bytes(ops)[k]

ListsOK == \E S : pushed \in Seq(S) /\ disallowed \in Seq(S)

Conflict == ListOf(pushed) \cap ListOf(disallowed) # {}

\* The walk ends at the end of the script, unless the script is cut off.
Ended ==
  /\ pc = "returned" => i >= Len(script) /\ ~ Conflict
  /\ pc = "raised" /\ Complete => i >= Len(script) /\ Conflict

WalkInv ==
  /\ ScriptOK /\ ListsOK /\ Ended
  /\ pc \in {"walk", "returned", "raised"}
  /\ \E n \in 0 .. Len(ops) : Behind(n)

\* While there is a byte at the cursor there is an operation at it, and its bytes
\* are those of the script as far as the script goes.
LEMMA AtCursor ==
  ASSUME ScriptOK, NEW n \in 0 .. Len(ops), Behind(n), i < Len(script)
  PROVE  LET o == ops[n + 1]
             e == Encode(o)
         IN  /\ n \in 0 .. Len(ops) - 1 /\ n + 1 \in 0 .. Len(ops) /\ WellFormed(o)
             /\ i \in Nat /\ Len(script) \in Nat
             /\ Len(BytesOf(ops, n + 1)) = i + Len(e)
             /\ e \in Seq(Byte) /\ Len(e) \in Nat \ {0} /\ Op = e[1] /\ Form(o, e, Len(e))
             /\ i + Len(e) <= Len(Bytes(ops)) /\ Len(Bytes(ops)) \in Nat
             /\ \A k \in 1 .. Len(e) : i + k <= Len(script) => script[i + k] = e[k]
<1>1. i \in Nat /\ Len(script) \in Nat /\ Len(ops) \in Nat
  BY BytesOfType DEF ScriptOK, Behind
<1>2. n # Len(ops)
  BY <1>1 DEF ScriptOK, Behind, Bytes
<1>3. n \in 0 .. Len(ops) - 1 /\ n + 1 \in 0 .. Len(ops)
  BY <1>1, <1>2
<1>4. /\ WellFormed(ops[n + 1])
      /\ Len(BytesOf(ops, n + 1)) = i + Len(Encode(ops[n + 1]))
      /\ i + Len(Encode(ops[n + 1])) <= Len(Bytes(ops)) /\ Len(Bytes(ops)) \in Nat
      /\ \A k \in 1 .. Len(Encode(ops[n + 1])) : Bytes(ops)[i + k] = Encode(ops[n + 1])[k]
  BY <1>3, OperationInScript DEF ScriptOK, Behind
<1>5. /\ Encode(ops[n + 1]) \in Seq(Byte) /\ Len(Encode(ops[n + 1])) \in Nat \ {0}
      /\ Form(ops[n + 1], Encode(ops[n + 1]), Len(Encode(ops[n + 1])))
  BY <1>4, EncodeType, Forms
<1>6. ASSUME NEW k \in 1 .. Len(Encode(ops[n + 1])), i + k <= Len(script)
      PROVE  script[i + k] = Encode(ops[n + 1])[k]
  <2>1. k \in Nat /\ k >= 1
    BY <1>5
  <2>2. i + k \in 1 .. Len(script)
    BY <1>1, <1>6, <2>1
  <2>3. script[i + k] = Bytes(ops)[i + k]
    BY <2>2 DEF ScriptOK
  <2>. QED  BY <1>4, <2>3
<1>7. Op = Encode(ops[n + 1])[1]
  BY <1>1, <1>5, <1>6 DEF Op
<1>. QED  BY <1>1, <1>3, <1>4, <1>5, <1>6, <1>7

\* An operation that is no reference adds none.
LEMMA NoReference ==
  ASSUME NEW n \in Nat, NEW names, ops[n + 1].op \notin names
  PROVE  RefsUpTo(n + 1, names) = RefsUpTo(n, names)
BY DEF RefsUpTo

LEMMA OneReference ==
  ASSUME NEW n \in Nat, NEW names, ops[n + 1].op \in names
  PROVE  RefsUpTo(n + 1, names) = RefsUpTo(n, names) \cup {ops[n + 1].ref}
BY DEF RefsUpTo

\* Behind an operation that is no reference.
LEMMA Skipped ==
  ASSUME WalkInv, NEW n \in 0 .. Len(ops), Behind(n), i < Len(script), pc = "walk",
         ops[n + 1].op \notin RefNames, SkipTo(Len(BytesOf(ops, n + 1)))
  PROVE  WalkInv'
<1>1. n + 1 \in 0 .. Len(ops)
  BY AtCursor DEF WalkInv
<1>2. /\ i' = Len(BytesOf(ops, n + 1)) /\ ops' = ops /\ script' = script /\ pc' = pc
      /\ pushed' = pushed /\ disallowed' = disallowed
  BY DEF SkipTo, lists
<1>3. /\ RefsUpTo(n + 1, PushNames) = RefsUpTo(n, PushNames)
      /\ RefsUpTo(n + 1, DisallowNames) = RefsUpTo(n, DisallowNames)
  BY NoReference DEF PushNames, DisallowNames, RefNames
<1>4. Behind(n + 1)'
  <2>1. /\ RefsUpTo(n + 1, PushNames)' = RefsUpTo(n + 1, PushNames)
        /\ RefsUpTo(n + 1, DisallowNames)' = RefsUpTo(n + 1, DisallowNames)
    BY <1>2 DEF RefsUpTo
  <2>2. ListOf(pushed)' = ListOf(pushed) /\ ListOf(disallowed)' = ListOf(disallowed)
    BY <1>2 DEF ListOf
  <2>3. BytesOf(ops, n + 1)' = BytesOf(ops, n + 1)
    BY <1>2
  <2>. QED  BY <1>2, <1>3, <2>1, <2>2, <2>3 DEF Behind
<1>5. ScriptOK' /\ ListsOK'
  BY <1>2 DEF WalkInv, ScriptOK, ListsOK
<1>. QED  BY <1>1, <1>2, <1>4, <1>5 DEF WalkInv, Ended

\* The walk raises at an operation that the script does not hold to its end.
LEMMA CutOffRaises ==
  ASSUME WalkInv, NEW n \in 0 .. Len(ops), Behind(n), i < Len(script), pc = "walk",
         NEW k \in 1 .. Len(Encode(ops[n + 1])), i + k > Len(script), Raise
  PROVE  WalkInv'
<1>1. /\ i' = i /\ ops' = ops /\ script' = script /\ pc' = "raised"
      /\ pushed' = pushed /\ disallowed' = disallowed
  BY DEF Raise, lists
<1>2. Len(script) < Len(Bytes(ops)) \/ Len(script) # Len(Bytes(ops))
  BY AtCursor DEF WalkInv
<1>3. ~ Complete /\ ~ Complete'
  BY <1>1, <1>2 DEF Complete
<1>4. Behind(n)'
  BY <1>1 DEF Behind, RefsUpTo, ListOf
<1>5. ScriptOK' /\ ListsOK'
  BY <1>1 DEF WalkInv, ScriptOK, ListsOK
<1>. QED  BY <1>1, <1>3, <1>4, <1>5 DEF WalkInv, Ended

\* A direct push.
LEMMA DirectStep == ASSUME WalkInv, DirectPush PROVE WalkInv'
<1>1. PICK n \in 0 .. Len(ops) : Behind(n)
  BY DEF WalkInv
<1>. DEFINE o == ops[n + 1]  e == Encode(o)  len == Len(e)
<1>2. pc = "walk" /\ i < Len(script) /\ 0 < Op /\ Op < 76 /\ SkipTo(i + 1 + Op)
  BY DEF DirectPush, Walking, AfterDirect, Op, OP_PUSHDATA1
<1>3. Form(o, e, len) /\ Op = e[1] /\ i \in Nat /\ Len(BytesOf(ops, n + 1)) = i + len
  BY <1>1, <1>2, AtCursor DEF WalkInv
<1>. HIDE DEF o, e, len
<1>4. DirectForm(o, e, len)
  BY <1>2, <1>3, FirstByte
<1>5. i + 1 + Op = i + len /\ o.op \notin RefNames
  <2>1. len = 1 + Op /\ Op \in Nat /\ i \in Nat
    BY <1>3, <1>4, FirstByte DEF DirectForm
  <2>2. i + 1 + Op = i + len
    BY <2>1
  <2>. QED  BY <1>4, <2>2 DEF DirectForm
<1>6. SkipTo(Len(BytesOf(ops, n + 1)))
  BY <1>2, <1>3, <1>5
<1>. QED  BY <1>1, <1>2, <1>5, <1>6, Skipped DEF o

\* A byte that is an operation by itself.
LEMMA OtherStep == ASSUME WalkInv, OtherOpcode PROVE WalkInv'
<1>1. PICK n \in 0 .. Len(ops) : Behind(n)
  BY DEF WalkInv
<1>. DEFINE o == ops[n + 1]  e == Encode(o)  len == Len(e)
<1>2. pc = "walk" /\ i < Len(script) /\ (Op = 0 \/ Op > 78) /\ SkipTo(i + 1)
      /\ \A name \in RefNames : Op # RefOpcode[name]
  BY RefCodes DEF OtherOpcode, Walking, OP_PUSHDATA4
<1>3. Form(o, e, len) /\ Op = e[1] /\ i \in Nat /\ Len(BytesOf(ops, n + 1)) = i + len
  BY <1>1, <1>2, AtCursor DEF WalkInv
<1>. HIDE DEF o, e, len
<1>4. ByteForm(o, e, len)
  <2>1. ~ RefForm(o, e, len)
    BY <1>2, <1>3 DEF RefForm
  <2>. QED  BY <1>2, <1>3, <2>1, FirstByte
<1>5. len = 1 /\ o.op \notin RefNames
  BY <1>4 DEF ByteForm
<1>6. SkipTo(Len(BytesOf(ops, n + 1)))
  BY <1>2, <1>3, <1>5
<1>. QED  BY <1>1, <1>2, <1>5, <1>6, Skipped DEF o

\* A list with a reference appended holds it beside the others.
LEMMA Appended ==
  ASSUME NEW S, NEW s \in Seq(S), NEW ref
  PROVE  /\ s \in Seq(S \cup {ref}) /\ Append(s, ref) \in Seq(S \cup {ref})
         /\ ListOf(Append(s, ref)) = ListOf(s) \cup {ref}
<1>1. /\ s \in Seq(S \cup {ref}) /\ Append(s, ref) \in Seq(S \cup {ref})
      /\ DOMAIN s = 1 .. Len(s) /\ DOMAIN Append(s, ref) = 1 .. Len(s) + 1
      /\ Len(s) \in Nat
      /\ \A k \in 1 .. Len(s) : Append(s, ref)[k] = s[k]
      /\ Append(s, ref)[Len(s) + 1] = ref
  OBVIOUS
<1>2. ListOf(Append(s, ref)) = ListOf(s) \cup {ref}
  BY <1>1 DEF ListOf
<1>. QED  BY <1>1, <1>2

\* Behind a reference, with the reference in the list it belongs to.
LEMMA FoundOne ==
  ASSUME WalkInv, NEW n \in 0 .. Len(ops), Behind(n), n + 1 \in 0 .. Len(ops),
         i' = Len(BytesOf(ops, n + 1)), ops' = ops, script' = script, pc' = "walk",
         pushed' = IF ops[n + 1].op \in PushNames THEN Append(pushed, ops[n + 1].ref) ELSE pushed,
         disallowed' = IF ops[n + 1].op \in DisallowNames THEN Append(disallowed, ops[n + 1].ref)
                         ELSE disallowed
  PROVE  WalkInv'
<1>. DEFINE o == ops[n + 1]
<1>1. PICK S : pushed \in Seq(S) /\ disallowed \in Seq(S)
  BY DEF WalkInv, ListsOK
<1>2. pushed' \in Seq(S \cup {o.ref}) /\ disallowed' \in Seq(S \cup {o.ref})
  BY <1>1, Appended
<1>3. /\ ListOf(pushed') = IF o.op \in PushNames THEN ListOf(pushed) \cup {o.ref}
                              ELSE ListOf(pushed)
      /\ ListOf(disallowed') = IF o.op \in DisallowNames THEN ListOf(disallowed) \cup {o.ref}
                                  ELSE ListOf(disallowed)
  BY <1>1, Appended
<1>4. ASSUME NEW names
      PROVE  RefsUpTo(n + 1, names) = IF o.op \in names THEN RefsUpTo(n, names) \cup {o.ref}
                                        ELSE RefsUpTo(n, names)
  <2>1. n \in Nat
    OBVIOUS
  <2>2. CASE o.op \in names
    BY <2>1, <2>2, OneReference
  <2>3. CASE o.op \notin names
    BY <2>1, <2>3, NoReference
  <2>. QED  BY <2>2, <2>3
<1>5. /\ ListOf(pushed') = RefsUpTo(n + 1, PushNames)
      /\ ListOf(disallowed') = RefsUpTo(n + 1, DisallowNames)
  BY <1>3, <1>4 DEF Behind
<1>6. Behind(n + 1)'
  <2>1. /\ RefsUpTo(n + 1, PushNames)' = RefsUpTo(n + 1, PushNames)
        /\ RefsUpTo(n + 1, DisallowNames)' = RefsUpTo(n + 1, DisallowNames)
    BY DEF RefsUpTo
  <2>. QED  BY <1>5, <2>1 DEF Behind
<1>7. ScriptOK' /\ ListsOK'
  BY <1>2 DEF WalkInv, ScriptOK, ListsOK
<1>. QED  BY <1>6, <1>7 DEF WalkInv, Ended

\* A stretch of a sequence.
LEMMA TheSlice ==
  ASSUME NEW s \in Seq(Byte), NEW from \in Nat, NEW to \in Nat, to <= Len(s), from <= to
  PROVE  /\ SubSeq(s, from + 1, to) = [k \in 1 .. to - from |-> s[from + k]]
         /\ Len(SubSeq(s, from + 1, to)) = to - from
OBVIOUS

\* The length field behind the opcode of a push, w bytes wide, and what it says.
LEMMA LengthField ==
  ASSUME NEW o, NEW e, NEW len, Form(o, e, len), e[1] \in {76, 77, 78},
         NEW w, w = Width[e[1]]
  PROVE  /\ w \in {1, 2, 4} /\ len \in Nat /\ 1 + w <= len /\ o.op \notin RefNames
         /\ w = 1 => e[2] \in Nat /\ len = 1 + w + e[2]
         /\ w = 2 => LET p == e[2] + 256 * e[3] IN p \in Nat /\ len = 1 + w + p
         /\ w = 4 => LET p == e[2] + 256 * (e[3] + 256 * (e[4] + 256 * e[5])) IN
                     p \in Nat /\ len = 1 + w + p
<1>1. Width[76] = 1 /\ Width[77] = 2 /\ Width[78] = 4
  BY DEF Width, OP_PUSHDATA1, OP_PUSHDATA2, OP_PUSHDATA4
<1>2. Push1Form(o, e, len) \/ Push2Form(o, e, len) \/ Push4Form(o, e, len)
  BY FirstByte
<1>3. CASE Push1Form(o, e, len)
  <2>1. w = 1 /\ o.op \notin RefNames /\ e[2] \in Nat /\ len = 2 + e[2]
    BY <1>1, <1>3, PushedBytes DEF Push1Form
  <2>. QED  BY <2>1
<1>4. CASE Push2Form(o, e, len)
  <2>. DEFINE p == e[2] + 256 * e[3]
  <2>1. w = 2 /\ o.op \notin RefNames /\ p \in Nat /\ len = 3 + p
    BY <1>1, <1>4, PushedBytes DEF Push2Form
  <2>. HIDE DEF p
  <2>2. len \in Nat /\ 1 + w <= len /\ len = 1 + w + p
    BY <2>1
  <2>. QED  BY <2>1, <2>2 DEF p
<1>5. CASE Push4Form(o, e, len)
  <2>. DEFINE p == e[2] + 256 * (e[3] + 256 * (e[4] + 256 * e[5]))
  <2>1. w = 4 /\ o.op \notin RefNames /\ p \in Nat /\ len = 5 + p
    BY <1>1, <1>5, PushedBytes DEF Push4Form
  <2>. HIDE DEF p
  <2>2. len \in Nat /\ 1 + w <= len /\ len = 1 + w + p
    BY <2>1
  <2>. QED  BY <2>1, <2>2 DEF p
<1>. QED  BY <1>2, <1>3, <1>4, <1>5

\* A push with a length field, or a length field cut off.
LEMMA PushDataStep == ASSUME WalkInv, PushData PROVE WalkInv'
<1>1. PICK n \in 0 .. Len(ops) : Behind(n)
  BY DEF WalkInv
<1>. DEFINE o == ops[n + 1]  e == Encode(o)  len == Len(e)
            w == Width[Op]
            end == Len(script)
<1>2. /\ pc = "walk" /\ i < Len(script) /\ Op \in {76, 77, 78}
      /\ IF i + 1 + w <= end THEN SkipTo(i + 1 + w + PushLength(w)) ELSE Raise
  BY DEF PushData, Walking, Width, OP_PUSHDATA1, OP_PUSHDATA2, OP_PUSHDATA4
<1>3. /\ Form(o, e, len) /\ Op = e[1] /\ i \in Nat /\ end \in Nat
      /\ Len(BytesOf(ops, n + 1)) = i + len
      /\ \A k \in 1 .. len : i + k <= end => script[i + k] = e[k]
  BY <1>1, <1>2, AtCursor DEF WalkInv
<1>. HIDE DEF o, e, len, w, end
<1>4. /\ w \in {1, 2, 4} /\ len \in Nat /\ 1 + w <= len /\ o.op \notin RefNames
      /\ w = 1 => e[2] \in Nat /\ len = 1 + w + e[2]
      /\ w = 2 => LET p == e[2] + 256 * e[3] IN p \in Nat /\ len = 1 + w + p
      /\ w = 4 => LET p == e[2] + 256 * (e[3] + 256 * (e[4] + 256 * e[5])) IN
                  p \in Nat /\ len = 1 + w + p
  BY <1>2, <1>3, LengthField DEF w
<1>5. CASE i + 1 + w <= end
  <2>1. \A k \in 1 .. w : script[i + 1 + k] = e[1 + k]
    <3>. TAKE k \in 1 .. w
    <3>1. 1 + k \in 1 .. len /\ i + (1 + k) <= end /\ i + (1 + k) = i + 1 + k
      BY <1>3, <1>4, <1>5
    <3>. QED  BY <1>3, <3>1
  <2>2. PushLength(w) \in Nat /\ len = 1 + w + PushLength(w)
    <3>1. CASE w = 1
      <4>1. PushLength(w) = e[2]
        BY <2>1, <3>1 DEF PushLength
      <4>. QED  BY <1>4, <3>1, <4>1
    <3>2. CASE w = 2
      <4>1. PushLength(w) = e[2] + 256 * e[3]
        BY <2>1, <3>2 DEF PushLength
      <4>. QED  BY <1>4, <3>2, <4>1
    <3>3. CASE w = 4
      <4>1. PushLength(w) = e[2] + 256 * (e[3] + 256 * (e[4] + 256 * e[5]))
        BY <2>1, <3>3 DEF PushLength
      <4>. QED  BY <1>4, <3>3, <4>1
    <3>. QED  BY <1>4, <3>1, <3>2, <3>3
  <2>3. SkipTo(i + 1 + w + PushLength(w))
    BY <1>2, <1>5
  <2>4. i + 1 + w + PushLength(w) = i + len
    <3>. DEFINE p == PushLength(w)
    <3>1. len = 1 + w + p /\ p \in Nat
      BY <2>2
    <3>. HIDE DEF p
    <3>2. i + 1 + w + p = i + len
      BY <1>3, <1>4, <3>1
    <3>. QED  BY <3>2 DEF p
  <2>. QED  BY <1>1, <1>2, <1>3, <1>4, <2>3, <2>4, Skipped DEF o, end
<1>6. CASE i + 1 + w > end
  <2>1. Raise
    BY <1>2, <1>3, <1>4, <1>6
  <2>2. 1 + w \in 1 .. len /\ i + (1 + w) > end
    BY <1>3, <1>4, <1>6
  <2>. QED  BY <1>1, <1>2, <2>1, <2>2, CutOffRaises DEF e, o, len, end
<1>. QED  BY <1>3, <1>4, <1>5, <1>6

\* A reference opcode: its reference read, or cut off.
LEMMA RefStep == ASSUME WalkInv, ReadRef PROVE WalkInv'
<1>1. PICK n \in 0 .. Len(ops) : Behind(n)
  BY DEF WalkInv
<1>. DEFINE o == ops[n + 1]  e == Encode(o)  len == Len(e)
            all == Len(script)
            end == IF i + 1 + REF_LEN <= all THEN i + 1 + REF_LEN ELSE all
            ref == SubSeq(script, i + 2, end)
<1>2. /\ pc = "walk" /\ i < all /\ Op \in 208 .. 216
      /\ \E name \in RefNames : Op = RefOpcode[name]
  BY RefCodes DEF ReadRef, Walking
<1>3. /\ n + 1 \in 0 .. Len(ops) /\ Form(o, e, len) /\ Op = e[1] /\ i \in Nat /\ all \in Nat
      /\ Len(BytesOf(ops, n + 1)) = i + len
      /\ \A k \in 1 .. len : i + k <= all => script[i + k] = e[k]
  BY <1>1, <1>2, AtCursor DEF WalkInv
<1>4. \/ ~ Whole(ref) /\ Raise
      \/ /\ Whole(ref) /\ i' = i + 1 + REF_LEN
         /\ pushed' = IF Op \in PushingOpcodes THEN Append(pushed, ref) ELSE pushed
         /\ disallowed' = IF Op = RefOpcode.OP_DISALLOWPUSHINPUTREF
                           THEN Append(disallowed, ref) ELSE disallowed
         /\ ops' = ops /\ script' = script /\ pc' = pc
  BY DEF ReadRef, AppendIf
<1>5. script \in Seq(Byte)
  BY DEF WalkInv, ScriptOK
<1>. HIDE DEF o, e, len
<1>6. RefForm(o, e, len) /\ REF_LEN \in Nat \ {0}
  <2>1. ~ ByteForm(o, e, len)
    BY <1>2, <1>3 DEF ByteForm
  <2>2. Op > 78
    BY <1>2
  <2>. QED  BY <1>3, <2>1, <2>2, FirstByte, WalkAssumption
<1>7. /\ o.op \in RefNames /\ Op = RefOpcode[o.op] /\ len = 1 + REF_LEN
      /\ o.ref \in [1 .. REF_LEN -> Byte] /\ \A k \in 1 .. REF_LEN : e[1 + k] = o.ref[k]
  BY <1>3, <1>6 DEF RefForm
<1>8. CASE i + 1 + REF_LEN <= all
  <2>1. ref = [k \in 1 .. REF_LEN |-> script[i + 1 + k]] /\ Len(ref) = REF_LEN
    BY <1>3, <1>5, <1>6, <1>8, TheSlice DEF all
  <2>2. \A k \in 1 .. REF_LEN : script[i + 1 + k] = o.ref[k]
    <3>. TAKE k \in 1 .. REF_LEN
    <3>1. 1 + k \in 1 .. len /\ i + (1 + k) <= all /\ i + (1 + k) = i + 1 + k
      <4>. HIDE DEF all
      <4>. QED  BY <1>3, <1>6, <1>7, <1>8
    <3>. QED  BY <1>3, <1>7, <3>1
  <2>3. ref = o.ref
    BY <1>7, <2>1, <2>2
  <2>4. Whole(ref)
    BY <2>1 DEF Whole
  <2>5. /\ Op \in PushingOpcodes <=> o.op \in PushNames
        /\ Op = RefOpcode.OP_DISALLOWPUSHINPUTREF <=> o.op \in DisallowNames
    BY <1>7, RefCodes DEF PushingOpcodes, PushNames, DisallowNames, RefNames
  <2>. HIDE DEF ref, all
  <2>6. i' = i + 1 + REF_LEN /\ i + 1 + REF_LEN = i + len
    BY <1>3, <1>4, <1>6, <1>7, <2>4
  <2>7. /\ pushed' = IF o.op \in PushNames THEN Append(pushed, o.ref) ELSE pushed
        /\ disallowed' = IF o.op \in DisallowNames THEN Append(disallowed, o.ref) ELSE disallowed
    BY <1>4, <2>3, <2>4, <2>5
  <2>8. i' = Len(BytesOf(ops, n + 1)) /\ ops' = ops /\ script' = script /\ pc' = "walk"
    BY <1>2, <1>3, <1>4, <2>4, <2>6
  <2>. QED  BY <1>1, <1>3, <2>7, <2>8, FoundOne DEF o
<1>9. CASE ~ (i + 1 + REF_LEN <= all)
  <2>1. Len(ref) = all - (i + 1)
    BY <1>2, <1>3, <1>5, <1>6, <1>9, TheSlice DEF all
  <2>2. ~ Whole(ref)
    <3>. DEFINE short == Len(ref)
    <3>1. short = all - (i + 1)
      BY <2>1
    <3>. HIDE DEF short, all
    <3>2. short # REF_LEN
      BY <1>3, <1>6, <1>9, <3>1
    <3>. QED  BY <3>2 DEF short, Whole
  <2>3. Raise
    BY <1>4, <2>2
  <2>4. len \in 1 .. len /\ i + len > all
    <3>. HIDE DEF all
    <3>. QED  BY <1>3, <1>6, <1>7, <1>9
  <2>. QED  BY <1>1, <1>2, <2>3, <2>4, CutOffRaises DEF e, o, len
<1>. QED  BY <1>8, <1>9

\* The end of the script.
LEMMA ReturnStep == ASSUME WalkInv, Return PROVE WalkInv'
<1>1. PICK n \in 0 .. Len(ops) : Behind(n)
  BY DEF WalkInv
<1>2. /\ i >= Len(script) /\ pc' = IF ~ Conflict THEN "returned" ELSE "raised"
      /\ i' = i /\ ops' = ops /\ script' = script
      /\ pushed' = pushed /\ disallowed' = disallowed
  BY DEF Return, Conflict, lists
<1>3. Behind(n)'
  BY <1>1, <1>2 DEF Behind, RefsUpTo, ListOf
<1>6. Conflict' = Conflict
  BY <1>2 DEF ListOf, Conflict
<1>4. ScriptOK' /\ ListsOK'
  BY <1>2 DEF WalkInv, ScriptOK, ListsOK
<1>5. Ended'
  BY <1>2, <1>6 DEF Ended
<1>. QED  BY <1>2, <1>3, <1>4, <1>5 DEF WalkInv

LEMMA WalkInit == Init => WalkInv
<1>. SUFFICES ASSUME Init PROVE WalkInv
  OBVIOUS
<1>1. ops \in Seq(Ops)
  <2>1. PICK n \in 0 .. MaxOps : ops \in [1 .. n -> Ops]
    BY DEF Init
  <2>. QED  BY <2>1, WalkAssumption
<1>2. Bytes(ops) \in Seq(Byte) /\ Len(Bytes(ops)) \in Nat /\ Len(ops) \in Nat
  BY <1>1, BytesOfType DEF Bytes
<1>3. ScriptOK
  <2>1. PICK c \in 0 .. Len(Bytes(ops)) : script = SubSeq(Bytes(ops), 1, c)
    BY DEF Init
  <2>2. script \in Seq(Byte) /\ Len(script) = c /\ \A k \in 1 .. c : script[k] = Bytes(ops)[k]
    BY <1>2, <2>1
  <2>. QED  BY <1>1, <1>2, <2>2 DEF ScriptOK
<1>4. Behind(0)
  <2>1. BytesOf(ops, 0) = <<>>
    BY <1>1, BytesGrow
  <2>2. RefsUpTo(0, PushNames) = {} /\ RefsUpTo(0, DisallowNames) = {}
    BY DEF RefsUpTo
  <2>. QED  BY <2>1, <2>2 DEF Init, Behind, ListOf
<1>5. ListsOK
  <2>1. pushed \in Seq({}) /\ disallowed \in Seq({})
    BY DEF Init
  <2>. QED  BY <2>1 DEF ListsOK
<1>. QED  BY <1>2, <1>3, <1>4, <1>5 DEF Init, WalkInv, Ended

LEMMA WalkStep == WalkInv /\ [Next]_vars => WalkInv'
<1>1. ASSUME WalkInv, UNCHANGED vars PROVE WalkInv'
  <2>1. /\ ops' = ops /\ script' = script /\ i' = i /\ pc' = pc
        /\ pushed' = pushed /\ disallowed' = disallowed
    BY <1>1 DEF vars
  <2>2. PICK n \in 0 .. Len(ops) : Behind(n)
    BY <1>1 DEF WalkInv
  <2>3. Behind(n)'
    BY <2>1, <2>2 DEF Behind, RefsUpTo, ListOf
  <2>4. ScriptOK' /\ ListsOK' /\ Ended'
    BY <1>1, <2>1 DEF WalkInv, ScriptOK, ListsOK, Ended, Complete, Conflict, ListOf
  <2>. QED  BY <1>1, <2>1, <2>3, <2>4 DEF WalkInv
<1>. QED  BY <1>1, DirectStep, PushDataStep, RefStep, OtherStep, ReturnStep DEF Next

\* The walk and its bookkeeping, wherever the script is cut off.
THEOREM WalkInvariant == Spec => []WalkInv
  BY WalkInit, WalkStep, PTL DEF Spec

\* No byte of pushed data or of a reference is ever taken for an opcode, in any
\* script, wherever it is cut off.
THEOREM CursorStaysBetween == Spec => []CursorBetweenOps
<1>1. WalkInv => CursorBetweenOps
  BY DEF WalkInv, Behind, CursorBetweenOps
<1>. QED  BY <1>1, WalkInvariant, PTL

\* The references of all operations are those Preimage speaks of.
LEMMA AllReferences ==
  ASSUME ops \in Seq(Ops)
  PROVE  /\ PushRefs(Source) = RefsUpTo(Len(ops), PushNames)
         /\ DisallowRefs(Source) = RefsUpTo(Len(ops), DisallowNames)
<1>1. Source.ops = ops /\ DOMAIN ops = 1 .. Len(ops)
  BY DEF Source
<1>. QED  BY <1>1 DEF PushRefs, DisallowRefs, RefsOf, RefsUpTo, PushNames, DisallowNames

\* The byte walk over a whole script finds the references Preimage finds in its
\* operations, and raises exactly where Preimage says it does.
THEOREM WalkAgrees == Spec => []WalkIsPreimages
<1>1. ASSUME WalkInv, Complete, pc # "walk"
      PROVE  /\ (pc = "raised") = WalkRaises(Source)
             /\ ListOf(pushed) = PushRefs(Source)
             /\ ListOf(disallowed) = DisallowRefs(Source)
  <2>1. PICK n \in 0 .. Len(ops) : Behind(n)
    BY <1>1 DEF WalkInv
  <2>2. ops \in Seq(Ops) /\ Len(ops) \in 0 .. Len(ops)
    BY <1>1 DEF WalkInv, ScriptOK
  <2>3. i >= Len(Bytes(ops))
    BY <1>1 DEF WalkInv, Ended, Complete
  <2>4. n = Len(ops)
    BY <2>1, <2>2, <2>3, BytesStrict, BytesOfType DEF Behind, Bytes
  <2>5. ListOf(pushed) = PushRefs(Source) /\ ListOf(disallowed) = DisallowRefs(Source)
    BY <2>1, <2>2, <2>4, AllReferences DEF Behind
  <2>6. (pc = "raised") <=> WalkRaises(Source)
    BY <1>1, <2>5 DEF WalkInv, Ended, Conflict, WalkRaises
  <2>7. WalkRaises(Source) \in BOOLEAN
    BY DEF WalkRaises
  <2>. QED  BY <2>5, <2>6, <2>7
<1>2. WalkInv => WalkIsPreimages
  BY <1>1 DEF WalkIsPreimages
<1>. QED  BY <1>2, WalkInvariant, PTL

\* A script cut off anywhere shows no reference the whole script does not push.
THEOREM NothingInvented == Spec => []CutOffInventsNothing
<1>1. ASSUME WalkInv PROVE CutOffInventsNothing
  <2>1. PICK n \in 0 .. Len(ops) : Behind(n)
    BY <1>1 DEF WalkInv
  <2>2. ops \in Seq(Ops)
    BY <1>1 DEF WalkInv, ScriptOK
  <2>3. RefsUpTo(n, PushNames) \subseteq RefsUpTo(Len(ops), PushNames)
    BY <2>2 DEF RefsUpTo
  <2>. QED  BY <2>1, <2>2, <2>3, AllReferences DEF Behind, CutOffInventsNothing
<1>. QED  BY <1>1, WalkInvariant, PTL

-----------------------------------------------------------------------------
(***************************************************************************)
(* The pushes of a scriptSig (GlyphPayload).                               *)
(***************************************************************************)

\* The pushes behind a push at position j.
BehindPush(f, b, j) == IF PastPush(b, j) \in j + 1 .. Len(b) THEN f[PastPush(b, j)] ELSE <<>>

IsFrom(f, b, m) ==
  f = [j \in m .. Len(b) + 1 |->
         IF j > Len(b) THEN <<>>
         ELSE IF ~ IsPush(b[j]) THEN f[j + 1]
         ELSE <<PushAt(b, j)>> \o BehindPush(f, b, j)]

\* The function PushesFrom speaks of exists.
LEMMA FromExists == ASSUME NEW b, Len(b) \in Nat PROVE \E f : IsFrom(f, b, 1)
<1>. DEFINE L == Len(b)
            S == {d \in Nat : d <= L => \E f : IsFrom(f, b, L + 1 - d)}
<1>1. 0 \in S
  <2>1. IsFrom([j \in L + 1 .. L + 1 |-> <<>>], b, L + 1)
    BY DEF IsFrom
  <2>. QED  BY <2>1
<1>2. ASSUME NEW d \in Nat, d \in S PROVE d + 1 \in S
  <2>. SUFFICES ASSUME d + 1 <= L PROVE \E f : IsFrom(f, b, L + 1 - (d + 1))
    OBVIOUS
  <2>. DEFINE m == L + 1 - (d + 1)
  <2>1. /\ m \in Nat /\ m >= 1 /\ m <= L /\ L + 1 - d = m + 1
        /\ \A j \in m .. L + 1 : j = m \/ j \in m + 1 .. L + 1
        /\ \A j \in m .. L : j + 1 \in m + 1 .. L + 1
        /\ \A j \in m .. L : \A k \in j + 1 .. L : k \in m + 1 .. L + 1
    OBVIOUS
  <2>2. PICK f : IsFrom(f, b, m + 1)
    BY <1>2, <2>1
  <2>. HIDE DEF m
  <2>. DEFINE top == IF ~ IsPush(b[m]) THEN f[m + 1] ELSE <<PushAt(b, m)>> \o BehindPush(f, b, m)
              g == [j \in m .. L + 1 |-> IF j = m THEN top ELSE f[j]]
  <2>3. \A j \in m + 1 .. L + 1 : g[j] = f[j]
    BY <2>1
  <2>4. \A j \in m .. L : BehindPush(g, b, j) = BehindPush(f, b, j) /\ g[j + 1] = f[j + 1]
    <3>. TAKE j \in m .. L
    <3>. HIDE DEF g
    <3>. QED  BY <2>1, <2>3 DEF BehindPush
  <2>5. ASSUME NEW j \in m .. L + 1
        PROVE  g[j] = IF j > L THEN <<>>
                      ELSE IF ~ IsPush(b[j]) THEN g[j + 1]
                      ELSE <<PushAt(b, j)>> \o BehindPush(g, b, j)
    <3>1. CASE j = m
      <4>1. ~ (j > L) /\ j \in m .. L
        BY <2>1, <3>1
      <4>2. g[j] = top
        BY <3>1
      <4>. QED  BY <2>4, <3>1, <4>1, <4>2
    <3>2. CASE j \in m + 1 .. L + 1
      <4>1. f[j] = IF j > L THEN <<>>
                   ELSE IF ~ IsPush(b[j]) THEN f[j + 1]
                   ELSE <<PushAt(b, j)>> \o BehindPush(f, b, j)
        BY <2>2, <3>2 DEF IsFrom
      <4>2. j > L \/ j \in m .. L
        BY <2>1, <3>2
      <4>. HIDE DEF g
      <4>. QED  BY <2>3, <2>4, <3>2, <4>1, <4>2
    <3>. QED  BY <2>1, <3>1, <3>2
  <2>6. g = [j \in m .. L + 1 |-> g[j]]
    OBVIOUS
  <2>. HIDE DEF g
  <2>7. IsFrom(g, b, m)
    BY <2>5, <2>6 DEF IsFrom
  <2>. QED  BY <2>7 DEF m
<1>. HIDE DEF S
<1>3. L \in S
  BY <1>1, <1>2, AllNumbers
<1>4. L + 1 - L = 1 /\ L <= L
  OBVIOUS
<1>. QED  BY <1>3, <1>4 DEF S

\* The pushes from position j on: of a push, its data and those behind it; of any
\* other opcode, those behind it.
LEMMA PushesStep ==
  ASSUME NEW b, Len(b) \in Nat
  PROVE  /\ PushesFrom(b, Len(b) + 1) = <<>>
         /\ \A j \in 1 .. Len(b) :
              /\ ~ IsPush(b[j]) => PushesFrom(b, j) = PushesFrom(b, j + 1)
              /\ IsPush(b[j]) =>
                   PushesFrom(b, j) = <<PushAt(b, j)>> \o
                     (IF PastPush(b, j) \in j + 1 .. Len(b) THEN PushesFrom(b, PastPush(b, j))
                      ELSE <<>>)
<1>. DEFINE U == CHOOSE f : f =
              [k \in 1 .. Len(b) + 1 |->
                 IF k > Len(b) THEN <<>>
                 ELSE IF ~ IsPush(b[k]) THEN f[k + 1]
                 ELSE <<PushAt(b, k)>> \o
                        (IF PastPush(b, k) \in k + 1 .. Len(b) THEN f[PastPush(b, k)] ELSE <<>>)]
<1>1. IsFrom(U, b, 1)
  <2>1. \E f : f =
          [k \in 1 .. Len(b) + 1 |->
             IF k > Len(b) THEN <<>>
             ELSE IF ~ IsPush(b[k]) THEN f[k + 1]
             ELSE <<PushAt(b, k)>> \o
                    (IF PastPush(b, k) \in k + 1 .. Len(b) THEN f[PastPush(b, k)] ELSE <<>>)]
    BY FromExists DEF IsFrom, BehindPush
  <2>. QED  BY <2>1 DEF IsFrom, BehindPush
<1>2. \A k : PushesFrom(b, k) = U[k]
  BY DEF PushesFrom
<1>. HIDE DEF U
<1>3. U[Len(b) + 1] = <<>>
  BY <1>1 DEF IsFrom
<1>4. ASSUME NEW j \in 1 .. Len(b)
      PROVE  /\ ~ IsPush(b[j]) => U[j] = U[j + 1]
             /\ IsPush(b[j]) => U[j] = <<PushAt(b, j)>> \o BehindPush(U, b, j)
  <2>1. j \in 1 .. Len(b) + 1 /\ ~ (j > Len(b))
    OBVIOUS
  <2>2. U[j] = IF j > Len(b) THEN <<>>
               ELSE IF ~ IsPush(b[j]) THEN U[j + 1]
               ELSE <<PushAt(b, j)>> \o BehindPush(U, b, j)
    BY <1>1, <2>1 DEF IsFrom
  <2>3. CASE ~ IsPush(b[j])
    BY <2>1, <2>2, <2>3
  <2>4. CASE IsPush(b[j])
    BY <2>1, <2>2, <2>4
  <2>. QED  BY <2>3, <2>4
<1>. QED  BY <1>2, <1>3, <1>4 DEF BehindPush

\* What the operations push, one by one.
IsPushed(f, m) ==
  f = [j \in m .. Len(ops) + 1 |->
         IF j > Len(ops) THEN <<>>
         ELSE IF ops[j].op \in PushOps THEN <<ops[j].data>> \o f[j + 1]
         ELSE f[j + 1]]

\* The function PushedFrom speaks of exists.
LEMMA PushedExists == ASSUME Len(ops) \in Nat PROVE \E f : IsPushed(f, 1)
<1>. DEFINE L == Len(ops)
            S == {d \in Nat : d <= L => \E f : IsPushed(f, L + 1 - d)}
<1>1. 0 \in S
  <2>1. IsPushed([j \in L + 1 .. L + 1 |-> <<>>], L + 1)
    BY DEF IsPushed
  <2>. QED  BY <2>1
<1>2. ASSUME NEW d \in Nat, d \in S PROVE d + 1 \in S
  <2>. SUFFICES ASSUME d + 1 <= L PROVE \E f : IsPushed(f, L + 1 - (d + 1))
    OBVIOUS
  <2>. DEFINE m == L + 1 - (d + 1)
  <2>1. /\ m \in Nat /\ m >= 1 /\ m <= L /\ L + 1 - d = m + 1
        /\ \A j \in m .. L + 1 : j = m \/ j \in m + 1 .. L + 1
        /\ \A j \in m .. L : j + 1 \in m + 1 .. L + 1
    OBVIOUS
  <2>2. PICK f : IsPushed(f, m + 1)
    BY <1>2, <2>1
  <2>. HIDE DEF m
  <2>. DEFINE top == IF ops[m].op \in PushOps THEN <<ops[m].data>> \o f[m + 1] ELSE f[m + 1]
              g == [j \in m .. L + 1 |-> IF j = m THEN top ELSE f[j]]
  <2>3. \A j \in m + 1 .. L + 1 : g[j] = f[j]
    BY <2>1
  <2>4. \A j \in m .. L : g[j + 1] = f[j + 1]
    <3>. HIDE DEF g
    <3>. QED  BY <2>1, <2>3
  <2>5. ASSUME NEW j \in m .. L + 1
        PROVE  g[j] = IF j > L THEN <<>>
                      ELSE IF ops[j].op \in PushOps THEN <<ops[j].data>> \o g[j + 1]
                      ELSE g[j + 1]
    <3>1. CASE j = m
      <4>1. ~ (j > L) /\ j \in m .. L
        BY <2>1, <3>1
      <4>2. g[j] = top
        BY <3>1
      <4>. QED  BY <2>4, <3>1, <4>1, <4>2
    <3>2. CASE j \in m + 1 .. L + 1
      <4>1. f[j] = IF j > L THEN <<>>
                   ELSE IF ops[j].op \in PushOps THEN <<ops[j].data>> \o f[j + 1]
                   ELSE f[j + 1]
        BY <2>2, <3>2 DEF IsPushed
      <4>2. j > L \/ j \in m .. L
        BY <2>1, <3>2
      <4>. HIDE DEF g
      <4>. QED  BY <2>3, <2>4, <3>2, <4>1, <4>2
    <3>. QED  BY <2>1, <3>1, <3>2
  <2>7. g = [j \in m .. L + 1 |-> g[j]]
    OBVIOUS
  <2>. HIDE DEF g
  <2>6. IsPushed(g, m)
    BY <2>5, <2>7 DEF IsPushed
  <2>. QED  BY <2>6 DEF m
<1>. HIDE DEF S
<1>3. L \in S
  BY <1>1, <1>2, AllNumbers
<1>4. L + 1 - L = 1 /\ L <= L
  OBVIOUS
<1>. QED  BY <1>3, <1>4 DEF S

LEMMA PushedStep ==
  ASSUME Len(ops) \in Nat
  PROVE  /\ PushedFrom(Len(ops) + 1) = <<>>
         /\ \A n \in 1 .. Len(ops) :
              PushedFrom(n) = IF ops[n].op \in PushOps THEN <<ops[n].data>> \o PushedFrom(n + 1)
                              ELSE PushedFrom(n + 1)
<1>. DEFINE U == CHOOSE f : f =
              [m \in 1 .. Len(ops) + 1 |->
                 IF m > Len(ops) THEN <<>>
                 ELSE IF ops[m].op \in PushOps THEN <<ops[m].data>> \o f[m + 1]
                 ELSE f[m + 1]]
<1>1. IsPushed(U, 1)
  BY PushedExists DEF IsPushed
<1>2. \A n : PushedFrom(n) = U[n]
  BY DEF PushedFrom
<1>. HIDE DEF U
<1>3. U[Len(ops) + 1] = <<>>
  BY <1>1 DEF IsPushed
<1>4. ASSUME NEW n \in 1 .. Len(ops)
      PROVE  U[n] = IF ops[n].op \in PushOps THEN <<ops[n].data>> \o U[n + 1] ELSE U[n + 1]
  <2>1. n \in 1 .. Len(ops) + 1 /\ ~ (n > Len(ops))
    OBVIOUS
  <2>. QED  BY <1>1, <2>1 DEF IsPushed
<1>. QED  BY <1>2, <1>3, <1>4

\* What is pushed, and how the bytes of the operation hold it.
PushShape(o, e, n, h) ==
  /\ e \in Seq(Byte) /\ n \in Nat /\ o.data \in Seq(Byte) /\ Len(o.data) = n
  /\ IsPush(e[1]) /\ h = 1 + LengthBytes(e[1]) /\ PushLen(e, 1) = n /\ Len(e) = h + n
  /\ \A j \in 1 .. n : e[h + j] = o.data[j]

LEMMA PushShapes ==
  ASSUME NEW o, WellFormed(o), o.op \in PushOps
  PROVE  \E h \in {1, 2, 3, 5} : PushShape(o, Encode(o), Len(o.data), h)
<1>. DEFINE e == Encode(o)
            n == Len(o.data)
<1>1. /\ LengthBytes(76) = 1 /\ LengthBytes(77) = 2 /\ LengthBytes(78) = 4
      /\ \A x \in 1 .. 75 : LengthBytes(x) = 0 /\ IsPush(x)
      /\ IsPush(76) /\ IsPush(77) /\ IsPush(78)
  BY DEF LengthBytes, IsPush, OP_PUSHDATA1, OP_PUSHDATA2, OP_PUSHDATA4
<1>2. CASE IsDirect(o)
  <2>1. o.data \in Seq(Byte) /\ n \in 1 .. 75 /\ e = <<n>> \o o.data
    BY <1>2, EncodeDirect DEF IsDirect, Data
  <2>. HIDE DEF n, e
  <2>2. n \in Byte /\ n \in Nat /\ n \notin {76, 77, 78}
    BY <2>1 DEF Byte
  <2>3. e \in Seq(Byte) /\ Len(e) = 1 + n /\ e[1] = n /\ \A j \in 1 .. n : e[1 + j] = o.data[j]
    BY <2>1, <2>2, Heads1 DEF n
  <2>4. PushLen(e, 1) = n
    BY <2>2, <2>3 DEF PushLen, OP_PUSHDATA1, OP_PUSHDATA2, OP_PUSHDATA4
  <2>5. LengthBytes(e[1]) = 0 /\ IsPush(e[1])
    BY <1>1, <2>1, <2>3
  <2>6. PushShape(o, e, n, 1)
    BY <2>1, <2>2, <2>3, <2>4, <2>5 DEF PushShape, n
  <2>. QED  BY <2>6 DEF n, e
<1>3. CASE IsPush1(o)
  <2>1. o.data \in Seq(Byte) /\ n \in 0 .. 255 /\ e = <<76, n>> \o o.data
    BY <1>3, EncodePush1 DEF IsPush1, Data
  <2>. HIDE DEF n, e
  <2>2. n \in Byte /\ 76 \in Byte /\ n \in Nat
    BY <2>1 DEF Byte
  <2>3. /\ e \in Seq(Byte) /\ Len(e) = 2 + n /\ e[1] = 76 /\ e[2] = n
        /\ \A j \in 1 .. n : e[2 + j] = o.data[j]
    BY <2>1, <2>2, Heads2 DEF n
  <2>4. PushLen(e, 1) = n
    BY <2>3 DEF PushLen, OP_PUSHDATA1, OP_PUSHDATA2, OP_PUSHDATA4
  <2>6. 2 = 1 + LengthBytes(e[1]) /\ IsPush(e[1]) /\ Len(o.data) = n
    BY <1>1, <2>3 DEF n
  <2>7. PushShape(o, e, n, 2)
    BY <2>1, <2>2, <2>3, <2>4, <2>6 DEF PushShape
  <2>. QED  BY <2>7 DEF n, e
<1>4. CASE IsPush2(o)
  <2>1. o.data \in Seq(Byte) /\ n \in Nat
    BY <1>4 DEF IsPush2, Data
  <2>2. PICK a, b \in Byte : n = a + 256 * b /\ e = <<77, a, b>> \o o.data
    BY <1>4, EncodePush2
  <2>. HIDE DEF n, e
  <2>3. 77 \in Byte
    BY DEF Byte
  <2>4. /\ e \in Seq(Byte) /\ Len(e) = 3 + n /\ e[1] = 77 /\ e[2] = a /\ e[3] = b
        /\ \A j \in 1 .. n : e[3 + j] = o.data[j]
    BY <2>1, <2>2, <2>3, Heads3 DEF n
  <2>5. PushLen(e, 1) = n
    BY <2>2, <2>4 DEF PushLen, OP_PUSHDATA1, OP_PUSHDATA2, OP_PUSHDATA4
  <2>6. 3 = 1 + LengthBytes(e[1]) /\ IsPush(e[1]) /\ Len(o.data) = n
    BY <1>1, <2>4 DEF n
  <2>7. PushShape(o, e, n, 3)
    BY <2>1, <2>4, <2>5, <2>6 DEF PushShape
  <2>. QED  BY <2>7 DEF n, e
<1>5. CASE IsPush4(o)
  <2>1. o.data \in Seq(Byte) /\ n \in Nat
    BY <1>5 DEF IsPush4, Data
  <2>2. PICK a, b, c, d \in Byte :
          /\ n = a + 256 * (b + 256 * (c + 256 * d))
          /\ e = <<78, a, b, c, d>> \o o.data
    BY <1>5, EncodePush4
  <2>. HIDE DEF n, e
  <2>3. 78 \in Byte
    BY DEF Byte
  <2>4. /\ e \in Seq(Byte) /\ Len(e) = 5 + n /\ e[1] = 78
        /\ e[2] = a /\ e[3] = b /\ e[4] = c /\ e[5] = d
        /\ \A j \in 1 .. n : e[5 + j] = o.data[j]
    BY <2>1, <2>2, <2>3, Heads5 DEF n
  <2>5. PushLen(e, 1) = n
    BY <2>2, <2>4 DEF PushLen, OP_PUSHDATA1, OP_PUSHDATA2, OP_PUSHDATA4
  <2>6. 5 = 1 + LengthBytes(e[1]) /\ IsPush(e[1]) /\ Len(o.data) = n
    BY <1>1, <2>4 DEF n
  <2>7. PushShape(o, e, n, 5)
    BY <2>1, <2>4, <2>5, <2>6 DEF PushShape
  <2>. QED  BY <2>7 DEF n, e
<1>6. ~ IsByte(o) /\ ~ IsRef(o)
  BY DEF IsByte, IsRef, PushOps, RefNames
<1>. QED  BY <1>2, <1>3, <1>4, <1>5, <1>6, Kinds

\* What is pushed is a list of data.
LEMMA PushedType ==
  ASSUME ops \in Seq(Ops), \A n \in DOMAIN ops : ops[n].op \in PushOps \cup {"byte"}
  PROVE  \A n \in 0 .. Len(ops) : PushedFrom(n + 1) \in Seq(Seq(Byte))
<1>. DEFINE S == {n \in 0 .. Len(ops) : PushedFrom(n + 1) \in Seq(Seq(Byte))}
            L == Len(ops)
<1>0. L \in Nat /\ ops \in [1 .. L -> Ops]
  OBVIOUS
<1>1. L \in S
  <2>1. PushedFrom(L + 1) = <<>>
    BY <1>0, PushedStep
  <2>2. <<>> \in Seq(Seq(Byte)) /\ L \in 0 .. L
    BY <1>0
  <2>. QED  BY <2>1, <2>2
<1>2. ASSUME NEW n \in 0 .. L - 1, n + 1 \in S PROVE n \in S
  <2>. DEFINE o == ops[n + 1]
  <2>1. n + 1 \in 1 .. L /\ o \in Ops /\ WellFormed(o)
    BY <1>0, OpsAssumption
  <2>2. PushedFrom(n + 1) = IF o.op \in PushOps THEN <<o.data>> \o PushedFrom(n + 1 + 1)
                            ELSE PushedFrom(n + 1 + 1)
    BY <1>0, <2>1, PushedStep
  <2>3. PushedFrom(n + 1 + 1) \in Seq(Seq(Byte)) /\ n \in 0 .. L
    BY <1>0, <1>2
  <2>. HIDE DEF o
  <2>4. CASE o.op \in PushOps
    <3>1. o.data \in Seq(Byte)
      BY <2>1, <2>4, PushShapes DEF PushShape
    <3>2. <<o.data>> \in Seq(Seq(Byte))
      BY <3>1
    <3>3. <<o.data>> \o PushedFrom(n + 1 + 1) \in Seq(Seq(Byte))
      BY <2>3, <3>2, ConcatProperties
    <3>4. PushedFrom(n + 1) \in Seq(Seq(Byte))
      BY <2>2, <2>4, <3>3
    <3>. QED  BY <2>3, <3>4
  <2>5. CASE ~ (o.op \in PushOps)
    <3>1. PushedFrom(n + 1) \in Seq(Seq(Byte))
      BY <2>2, <2>3, <2>5
    <3>. QED  BY <2>3, <3>1
  <2>. QED  BY <2>4, <2>5
<1>. HIDE DEF S
<1>3. 0 .. L \subseteq S
  BY <1>0, <1>1, <1>2, Downward
<1>. QED  BY <1>3 DEF S

\* The length of a push, for each opcode.
LEMMA ReadPush ==
  ASSUME NEW b, NEW k
  PROVE  /\ b[k] = 76 => PushLen(b, k) = b[k + 1]
         /\ b[k] = 77 => PushLen(b, k) = b[k + 1] + 256 * b[k + 2]
         /\ b[k] = 78 =>
              PushLen(b, k) = b[k + 1] + 256 * (b[k + 2] + 256 * (b[k + 3] + 256 * b[k + 4]))
         /\ b[k] \notin {76, 77, 78} => PushLen(b, k) = b[k]
BY DEF PushLen, OP_PUSHDATA1, OP_PUSHDATA2, OP_PUSHDATA4

LEMMA FieldWidths ==
  /\ LengthBytes(76) = 1 /\ LengthBytes(77) = 2 /\ LengthBytes(78) = 4
  /\ \A x : x \notin {76, 77, 78} => LengthBytes(x) = 0
BY DEF LengthBytes, OP_PUSHDATA1, OP_PUSHDATA2, OP_PUSHDATA4

\* The first n elements of e stand in b behind position k.
Holds(b, k, e, n) == \A j \in 1 .. n : b[k + j] = e[j]

\* A push reads the same in the script as by itself.
LEMMA SamePush ==
  ASSUME NEW b, NEW e, NEW k \in Nat, NEW h, h = 1 + LengthBytes(e[1]), Holds(b, k, e, h)
  PROVE  PushLen(b, k + 1) = PushLen(e, 1) /\ b[k + 1] = e[1]
<1>. USE DEF Holds
<1>1. CASE e[1] = 76
  <2>1. h = 2
    BY <1>1, FieldWidths
  <2>2. b[k + 1] = e[1] /\ b[k + 1 + 1] = e[1 + 1]
    BY <2>1
  <2>. QED  BY <1>1, <2>2, ReadPush
<1>2. CASE e[1] = 77
  <2>1. h = 3
    BY <1>2, FieldWidths
  <2>2. b[k + 1] = e[1] /\ b[k + 1 + 1] = e[1 + 1] /\ b[k + 1 + 2] = e[1 + 2]
    BY <2>1
  <2>. QED  BY <1>2, <2>2, ReadPush
<1>3. CASE e[1] = 78
  <2>1. h = 5
    BY <1>3, FieldWidths
  <2>2. /\ b[k + 1] = e[1] /\ b[k + 1 + 1] = e[1 + 1] /\ b[k + 1 + 2] = e[1 + 2]
        /\ b[k + 1 + 3] = e[1 + 3] /\ b[k + 1 + 4] = e[1 + 4]
    BY <2>1
  <2>. QED  BY <1>3, <2>2, ReadPush
<1>4. CASE e[1] \notin {76, 77, 78}
  <2>1. h = 1
    BY <1>4, FieldWidths
  <2>2. b[k + 1] = e[1]
    BY <2>1
  <2>. QED  BY <1>4, <2>2, ReadPush
<1>. QED  BY <1>1, <1>2, <1>3, <1>4

\* Where a push of n bytes with h bytes before them stands.
LEMMA PushPlace ==
  ASSUME NEW at \in Nat, NEW n \in Nat, NEW w \in {0, 1, 2, 4}, NEW h, h = 1 + w,
         NEW len, len = h + n, NEW m \in Nat, at + len <= m
  PROVE  /\ at + 1 + 1 + w + n = at + len + 1
         /\ at + 1 + 1 + w = (at + h) + 1 /\ at + len + 1 - 1 = at + h + n
         /\ at + h \in Nat /\ at + h + n \in Nat /\ at + h + n <= m /\ at + h <= at + h + n
         /\ at + h + n - (at + h) = n
         /\ \A k \in 1 .. n : h + k \in 1 .. len /\ at + (h + k) = at + h + k /\ at + h + k \in 1 .. m
         /\ \A k \in 1 .. h : k \in 1 .. len
OBVIOUS

\* A push in the script: where it ends, and its data.
LEMMA PushInScript ==
  ASSUME NEW b \in Seq(Byte), NEW o, NEW e, NEW n, NEW h, NEW at \in Nat,
         PushShape(o, e, n, h), at + Len(e) <= Len(b), Holds(b, at, e, Len(e))
  PROVE  /\ IsPush(b[at + 1])
         /\ PastPush(b, at + 1) = at + Len(e) + 1
         /\ PushAt(b, at + 1) = o.data
<1>. DEFINE w == LengthBytes(e[1])
            len == Len(e)
            m == Len(b)
            x == e[1]
            from == at + h
            to == at + h + n
<1>1. /\ n \in Nat /\ len = h + n /\ IsPush(x) /\ PushLen(e, 1) = n
      /\ h = 1 + w /\ o.data \in Seq(Byte) /\ Len(o.data) = n
  BY DEF PushShape
<1>2. \A j \in 1 .. n : e[h + j] = o.data[j]
  BY DEF PushShape
<1>3. w \in {0, 1, 2, 4} /\ m \in Nat
  BY FieldWidths
<1>4. \A j \in 1 .. len : b[at + j] = e[j]
  BY DEF Holds
<1>. HIDE DEF w, len, m
<1>5. /\ at + 1 + 1 + w + n = at + len + 1
      /\ at + 1 + 1 + w = from + 1 /\ at + len + 1 - 1 = to
      /\ from \in Nat /\ to \in Nat /\ to <= m /\ from <= to /\ to - from = n
      /\ \A k \in 1 .. n : h + k \in 1 .. len /\ at + (h + k) = from + k /\ from + k \in 1 .. m
      /\ \A k \in 1 .. h : k \in 1 .. len
  <2>1. at + len <= m
    BY DEF len, m
  <2>. QED  BY <1>1, <1>3, <2>1, PushPlace
<1>. HIDE DEF from, to
<1>6. PushLen(b, at + 1) = n /\ b[at + 1] = x
  <2>1. Holds(b, at, e, h)
    BY <1>4, <1>5 DEF Holds
  <2>. QED  BY <1>1, <2>1, SamePush DEF w
<1>7. PastPush(b, at + 1) = at + len + 1
  BY <1>5, <1>6 DEF PastPush, w
<1>. DEFINE t == SubSeq(b, from + 1, to)
<1>8. PushAt(b, at + 1) = t
  <2>1. PushAt(b, at + 1) = SubSeq(b, at + 1 + 1 + w, PastPush(b, at + 1) - 1)
    BY <1>6 DEF PushAt, w
  <2>. DEFINE first == at + 1 + 1 + w
              last == PastPush(b, at + 1) - 1
  <2>2. first = from + 1 /\ last = to
    BY <1>5, <1>7
  <2>. HIDE DEF first, last
  <2>3. PushAt(b, at + 1) = SubSeq(b, first, last)
    BY <2>1 DEF first, last
  <2>. QED  BY <2>2, <2>3, Zenon
<1>9. from \in Nat /\ to \in Nat /\ to <= Len(b) /\ from <= to
  BY <1>5 DEF m
<1>10. t = [k \in 1 .. to - from |-> b[from + k]] /\ Len(t) = to - from
  BY <1>9, TheSlice
<1>. HIDE DEF t
<1>11. t = [k \in 1 .. n |-> b[from + k]] /\ Len(t) = n
  BY <1>5, <1>10
<1>12. ASSUME NEW k \in 1 .. n PROVE b[from + k] = o.data[k] /\ b[from + k] \in Byte
  <2>1. h + k \in 1 .. len /\ at + (h + k) = from + k /\ from + k \in 1 .. m
    BY <1>5
  <2>2. b[at + (h + k)] = e[h + k]
    BY <1>4, <2>1
  <2>3. b[from + k] \in Byte
    BY <2>1, ElementOfSeq DEF m
  <2>. QED  BY <1>2, <2>1, <2>2, <2>3
<1>13. t \in Seq(Byte)
  <2>1. t \in [1 .. n -> Byte]
    BY <1>11, <1>12
  <2>. QED  BY <1>1, <2>1, OfLength
<1>14. \A k \in 1 .. Len(t) : t[k] = o.data[k]
  BY <1>11, <1>12
<1>15. t = o.data
  BY <1>1, <1>11, <1>13, <1>14, SeqEqual
<1>. QED  BY <1>1, <1>6, <1>7, <1>8, <1>15 DEF len

OnlyPushes == \A n \in DOMAIN ops : ops[n].op \in PushOps \cup {"byte"}

\* The pushes of a script are what its operations push, from any operation on.
LEMMA PushesAreOps ==
  ASSUME ops \in Seq(Ops), OnlyPushes
  PROVE  \A n \in 0 .. Len(ops) :
           PushesFrom(Bytes(ops), Len(BytesOf(ops, n)) + 1) = PushedFrom(n + 1)
<1>. DEFINE L == Len(ops)
            b == Bytes(ops)
            At(n) == Len(BytesOf(ops, n))
            S == {n \in 0 .. L : PushesFrom(b, At(n) + 1) = PushedFrom(n + 1)}
<1>0. L \in Nat /\ ops \in [1 .. L -> Ops]
  OBVIOUS
<1>1. b \in Seq(Byte) /\ Len(b) \in Nat /\ At(L) = Len(b)
  BY <1>0, BytesOfType DEF Bytes
<1>2. PushesFrom(b, Len(b) + 1) = <<>>
  BY <1>1, PushesStep
<1>3. L \in S
  <2>1. PushedFrom(L + 1) = <<>>
    BY <1>0, PushedStep
  <2>2. L \in 0 .. L
    BY <1>0
  <2>. QED  BY <1>1, <1>2, <2>1, <2>2
<1>4. ASSUME NEW n \in 0 .. L - 1, n + 1 \in S PROVE n \in S
  <2>. DEFINE o == ops[n + 1]
              e == Encode(o)
              at == At(n)
  <2>1. /\ WellFormed(o) /\ at \in Nat /\ At(n + 1) = at + Len(e)
        /\ at + Len(e) <= Len(b) /\ Holds(b, at, e, Len(e))
    BY OperationInScript DEF Holds
  <2>2. n + 1 \in 1 .. L /\ n \in 0 .. L /\ o.op \in PushOps \cup {"byte"}
    BY <1>0 DEF OnlyPushes
  <2>3. PushedFrom(n + 1) = IF o.op \in PushOps THEN <<o.data>> \o PushedFrom(n + 1 + 1)
                            ELSE PushedFrom(n + 1 + 1)
    BY <1>0, <2>2, PushedStep
  <2>4. PushesFrom(b, At(n + 1) + 1) = PushedFrom(n + 1 + 1)
    BY <1>4
  <2>5. e \in Seq(Byte) /\ Len(e) \in Nat \ {0}
    BY <2>1, EncodeType
  <2>. HIDE DEF o, e, at, At, b, L
  <2>6. at + 1 \in 1 .. Len(b)
    BY <1>1, <2>1, <2>5
  <2>7. CASE o.op \in PushOps
    <3>1. PICK h \in {1, 2, 3, 5} : PushShape(o, e, Len(o.data), h)
      BY <2>1, <2>7, PushShapes DEF e
    <3>2. IsPush(b[at + 1]) /\ PastPush(b, at + 1) = at + Len(e) + 1 /\ PushAt(b, at + 1) = o.data
      BY <1>1, <2>1, <3>1, PushInScript
    <3>3. PushesFrom(b, at + 1) = <<o.data>> \o
            (IF at + Len(e) + 1 \in at + 1 + 1 .. Len(b) THEN PushesFrom(b, at + Len(e) + 1) ELSE <<>>)
      BY <1>1, <2>6, <3>2, PushesStep
    <3>4. (IF at + Len(e) + 1 \in at + 1 + 1 .. Len(b) THEN PushesFrom(b, at + Len(e) + 1) ELSE <<>>)
            = PushesFrom(b, at + Len(e) + 1)
      <4>1. CASE at + Len(e) = Len(b)
        BY <1>1, <1>2, <2>1, <2>5, <4>1
      <4>2. CASE at + Len(e) < Len(b)
        BY <1>1, <2>1, <2>5, <4>2
      <4>. QED  BY <1>1, <2>1, <2>5, <4>1, <4>2
    <3>5. PushesFrom(b, at + 1) = PushedFrom(n + 1)
      BY <2>1, <2>3, <2>4, <2>7, <3>3, <3>4
    <3>. QED  BY <2>2, <3>5 DEF at
  <2>8. CASE o.op = "byte"
    <3>1. ~ (o.op \in PushOps)
      BY <2>8 DEF PushOps
    <3>2. IsByte(o)
      BY <2>1, <2>8, Kinds DEF IsDirect, IsPush1, IsPush2, IsPush4, IsRef, RefNames
    <3>3. e = <<o.code>> /\ o.code \notin 1 .. 78
      BY <3>2, EncodeByte DEF e, IsByte
    <3>4. Len(e) = 1 /\ e[1] = o.code
      BY <3>3
    <3>5. b[at + 1] = o.code
      BY <2>1, <3>4 DEF Holds
    <3>6. ~ IsPush(b[at + 1])
      BY <3>3, <3>5 DEF IsPush, OP_PUSHDATA4
    <3>7. PushesFrom(b, at + 1) = PushesFrom(b, at + 1 + 1)
      BY <1>1, <2>6, <3>6, PushesStep
    <3>8. PushesFrom(b, at + 1) = PushedFrom(n + 1)
      BY <2>1, <2>3, <2>4, <3>1, <3>4, <3>7
    <3>. QED  BY <2>2, <3>8 DEF at
  <2>. QED  BY <2>2, <2>7, <2>8
<1>. HIDE DEF S
<1>5. 0 .. L \subseteq S
  BY <1>0, <1>3, <1>4, Downward
<1>. QED  BY <1>5 DEF S

\* The pushes extractPush finds in a whole script are those of its operations.
LEMMA PushesFound ==
  ASSUME ops \in Seq(Ops), OnlyPushes, Complete
  PROVE  Pushes(script) = PushedFrom(1)
<1>1. Len(ops) \in Nat /\ 0 \in 0 .. Len(ops)
  OBVIOUS
<1>2. BytesOf(ops, 0) = <<>>
  BY <1>1, BytesGrow
<1>3. PushesFrom(Bytes(ops), 0 + 1) = PushedFrom(0 + 1)
  BY <1>1, <1>2, PushesAreOps
<1>. QED  BY <1>3 DEF Pushes, Complete

\* The payload of a whole scriptSig is what is pushed behind the first marker, for
\* all operations that push and opcodes between them.
THEOREM PayloadFound == Spec => []PayloadFollowsMarker
<1>1. WalkInv => PayloadFollowsMarker
  <2>. SUFFICES ASSUME WalkInv, Complete, i = 0, OnlyPushes
                PROVE  PayloadFollowsMarker
    BY DEF PayloadFollowsMarker, OnlyPushes
  <2>. DEFINE data == PushedFrom(1)
              L == Len(data)
              marks == {n \in 1 .. L - 1 : data[n] = GLY}
  <2>1. ops \in Seq(Ops)
    BY DEF WalkInv, ScriptOK
  <2>2. Pushes(script) = data
    BY <2>1, PushesFound
  <2>3. L \in Nat
    <3>1. 0 \in 0 .. Len(ops) /\ 0 + 1 = 1
      BY <2>1
    <3>2. PushedFrom(0 + 1) \in Seq(Seq(Byte))
      BY <2>1, <3>1, PushedType DEF OnlyPushes
    <3>. QED  BY <3>1, <3>2, LengthIsNat
  <2>. HIDE DEF data, L
  <2>4. \A k \in 0 .. L : ExtractPush(script, k) = IF k = L THEN NoPayload ELSE data[k + 1]
    <3>. SUFFICES ASSUME NEW k \in 0 .. L
                  PROVE  ExtractPush(script, k) = IF k = L THEN NoPayload ELSE data[k + 1]
      OBVIOUS
    <3>1. ExtractPush(script, k) = IF k < L THEN data[k + 1] ELSE NoPayload
      BY <2>2 DEF ExtractPush, L
    <3>. QED  BY <2>3, <3>1
  <2>5. Marker(data) = {n \in marks : \A k \in 1 .. n - 1 : data[k] # GLY}
    BY DEF Marker, L
  <2>6. marks = {} => ExtractGlyphCbor(script) = NoPayload
    BY <2>2, <2>5 DEF ExtractGlyphCbor
  <2>7. ASSUME NEW n \in marks, \A m \in marks : n <= m
        PROVE  ExtractGlyphCbor(script) = data[n + 1]
    <3>1. Marker(data) = {n}
      <4>1. ASSUME NEW k \in 1 .. n - 1, data[k] = GLY PROVE FALSE
        <5>1. k \in marks /\ ~ (n <= k)
          BY <2>3, <4>1
        <5>. QED  BY <2>7, <5>1
      <4>2. ASSUME NEW j \in Marker(data) PROVE j = n
        <5>1. j \in marks /\ \A k \in 1 .. j - 1 : data[k] # GLY
          BY <2>5
        <5>2. n <= j /\ ~ (n \in 1 .. j - 1)
          BY <2>7, <5>1
        <5>. QED  BY <2>3, <5>1, <5>2
      <4>. QED  BY <2>5, <4>1, <4>2
    <3>2. ExtractGlyphCbor(script) = data[(CHOOSE j \in {n} : TRUE) + 1]
      BY <2>2, <3>1 DEF ExtractGlyphCbor
    <3>. QED  BY <3>2
  <2>. QED  BY <2>4, <2>6, <2>7 DEF PayloadFollowsMarker, data, L
<1>. QED  BY <1>1, WalkInvariant, PTL
=============================================================================
