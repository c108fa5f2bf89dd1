---------------------------- MODULE GlyphPayload -----------------------------
(***************************************************************************)
(* extractPush and extractGlyphCbor of view-only-ui/index.html: the pushes *)
(* of a reveal input's scriptSig, and among them the payload of a glyph.   *)
(* The scriptSig is one the node has accepted, so that no push is cut off; *)
(* it is walked by other code than the oracle's, and without the reference *)
(* opcodes, which no scriptSig holds.                                      *)
(***************************************************************************)
EXTENDS ScriptWalk

CONSTANTS NoPayload

\* "gly"
GLY == <<103, 108, 121>>

LengthBytes(op) ==
  CASE op = OP_PUSHDATA1 -> 1 [] op = OP_PUSHDATA2 -> 2 [] op = OP_PUSHDATA4 -> 4 [] OTHER -> 0

IsPush(op) == op \in 1 .. OP_PUSHDATA4

\* The length of the push at position k, counted from 1.
PushLen(b, k) ==
  CASE b[k] = OP_PUSHDATA1 -> b[k + 1]
    [] b[k] = OP_PUSHDATA2 -> b[k + 1] + 256 * b[k + 2]
    [] b[k] = OP_PUSHDATA4 -> b[k + 1] + 256 * (b[k + 2] + 256 * (b[k + 3] + 256 * b[k + 4]))
    [] OTHER -> b[k]

\* The opcode behind a push, and the data of the push.
PastPush(b, j) == j + 1 + LengthBytes(b[j]) + PushLen(b, j)
PushAt(b, j) == SubSeq(b, j + 1 + LengthBytes(b[j]), PastPush(b, j) - 1)

\* The data of the pushes from position k on, in order; any other opcode is one byte.
PushesFrom(b, k) ==
  LET from[j \in 1 .. Len(b) + 1] ==
        IF j > Len(b) THEN <<>>
        ELSE IF ~ IsPush(b[j]) THEN from[j + 1]
        ELSE <<PushAt(b, j)>> \o
               (IF PastPush(b, j) \in j + 1 .. Len(b) THEN from[PastPush(b, j)] ELSE <<>>)
  IN  from[k]

Pushes(b) == PushesFrom(b, 1)

ExtractPush(b, targetIdx) ==
  IF targetIdx < Len(Pushes(b)) THEN Pushes(b)[targetIdx + 1] ELSE NoPayload

\* Mutant: the last marker decides.
MarkerLast(pushes) == {j \in 1 .. Len(pushes) - 1 : pushes[j] = GLY /\
                         \A k \in j + 1 .. Len(pushes) - 1 : pushes[k] # GLY}

\* The pushes that are markers with a push behind them; the first one decides.
Marker(pushes) == {j \in 1 .. Len(pushes) - 1 : pushes[j] = GLY /\
                     \A k \in 1 .. j - 1 : pushes[k] # GLY}

ExtractGlyphCbor(b) ==
  LET found == Marker(Pushes(b)) IN
  IF found = {} THEN NoPayload ELSE Pushes(b)[(CHOOSE j \in found : TRUE) + 1]

-----------------------------------------------------------------------------
PushOps == {"direct", "pushdata1", "pushdata2", "pushdata4"}

\* What operation n and those behind it push.
PushedFrom(n) ==
  LET from[m \in 1 .. Len(ops) + 1] ==
        IF m > Len(ops) THEN <<>>
        ELSE IF ops[m].op \in PushOps THEN <<ops[m].data>> \o from[m + 1]
        ELSE from[m + 1]
  IN  from[n]

\* The payload of a whole scriptSig without reference opcodes is the data pushed
\* by the operation behind the first push of exactly "gly", whatever form either
\* push has, whatever opcodes stand between and whatever bytes other pushes hold.
PayloadFollowsMarker ==
  Complete /\ i = 0 /\ (\A n \in DOMAIN ops : ops[n].op \in PushOps \cup {"byte"}) =>
    LET data == PushedFrom(1)
        marks   == {n \in 1 .. Len(data) - 1 : data[n] = GLY}
    IN  /\ \A k \in 0 .. Len(data) :
             ExtractPush(script, k) = IF k = Len(data) THEN NoPayload ELSE data[k + 1]
        /\ marks = {} => ExtractGlyphCbor(script) = NoPayload
        /\ \A n \in marks : (\A m \in marks : n <= m) =>
             ExtractGlyphCbor(script) = data[n + 1]
=============================================================================
