----------------------------- MODULE ScriptWalk ------------------------------
(***************************************************************************)
(* get_push_refs_from_script of scripts/radiant_preimage_oracle.py, byte   *)
(* by byte: the walk that tells the references a locking script pushes     *)
(* from the data it pushes, which may hold the same bytes.  Preimage has   *)
(* scripts as lists of operations; here such a list is serialized, cut off *)
(* anywhere, and walked.                                                   *)
(***************************************************************************)
EXTENDS Preimage

CONSTANTS
  REF_LEN,    \* 36 in the code
  Ops,        \* the operations scripts are made of, as records with an "op"
  MaxOps      \* bound: operations in one script

ASSUME WalkAssumption == REF_LEN \in Nat \ {0} /\ MaxOps \in Nat

Byte == 0 .. 255

OP_PUSHDATA1 == 76
OP_PUSHDATA2 == 77
OP_PUSHDATA4 == 78

RefOpcode ==
  [OP_PUSHINPUTREF |-> 208, OP_REQUIREINPUTREF |-> 209, OP_DISALLOWPUSHINPUTREF |-> 210,
   OP_DISALLOWPUSHINPUTREFSIBLING |-> 211, OP_PUSHINPUTREFSINGLETON |-> 216]

FitsTwoBytes(n) == n < 65536
FitsFourBytes(n) == n \div 16777216 < 128

\* What is pushed in each form, and which bytes are operations by themselves.
WellFormed(o) ==
  \/ o.op = "direct" /\ o.data \in Seq(Byte) /\ 0 < Len(o.data) /\ Len(o.data) < OP_PUSHDATA1
  \/ o.op = "pushdata1" /\ o.data \in Seq(Byte) /\ Len(o.data) < 256
  \/ o.op = "pushdata2" /\ o.data \in Seq(Byte) /\ FitsTwoBytes(Len(o.data))
  \/ o.op = "pushdata4" /\ o.data \in Seq(Byte) /\ FitsFourBytes(Len(o.data))
  \/ /\ o.op = "byte" /\ o.code \in Byte \ (1 .. OP_PUSHDATA4)
     /\ \A name \in DOMAIN RefOpcode : o.code # RefOpcode[name]
  \/ o.op \in DOMAIN RefOpcode /\ o.ref \in [1 .. REF_LEN -> Byte]

ASSUME OpsAssumption == \A o \in Ops : WellFormed(o)

\* Byte k of a length, the least significant first.
Unit == <<1, 256, 65536, 16777216>>
LengthByte(n, k) == (n \div Unit[k]) % 256

\* The bytes of one operation: a direct push, a push with a length field, a
\* reference opcode with its reference, or a single byte.
Encode(o) ==
  LET n == Len(o.data) IN
  CASE o.op = "direct"    -> <<n>> \o o.data
    [] o.op = "pushdata1" -> <<OP_PUSHDATA1, n>> \o o.data
    [] o.op = "pushdata2" -> <<OP_PUSHDATA2, LengthByte(n, 1), LengthByte(n, 2)>> \o o.data
    [] o.op = "pushdata4" -> <<OP_PUSHDATA4, LengthByte(n, 1), LengthByte(n, 2),
                               LengthByte(n, 3), LengthByte(n, 4)>> \o o.data
    [] o.op = "byte"      -> <<o.code>>
    [] OTHER              -> <<RefOpcode[o.op]>> \o o.ref

\* The bytes of the first n operations.
BytesOf(s, n) ==
  LET upTo[k \in 0 .. Len(s)] == IF k = 0 THEN <<>> ELSE upTo[k - 1] \o Encode(s[k])
  IN  upTo[n]

Bytes(s) == BytesOf(s, Len(s))

VARIABLES
  ops,       \* the operations the script was made from
  script,    \* its bytes, perhaps cut off
  i,         \* the cursor, counted from 0 as in the code
  pushed, required, disallowed,
  pc         \* "walk", "returned", "raised"

vars == <<ops, script, i, pushed, required, disallowed, pc>>
lists == <<pushed, required, disallowed>>

Init ==
  /\ \E n \in 0 .. MaxOps : ops \in [1 .. n -> Ops]
  /\ \E n \in 0 .. Len(Bytes(ops)) : script = SubSeq(Bytes(ops), 1, n)
  /\ i = 0
  /\ pushed = <<>> /\ required = <<>> /\ disallowed = <<>>
  /\ pc = "walk"

Op == script[i + 1]
Walking == pc = "walk" /\ i < Len(script)

SkipTo(n) == i' = n /\ UNCHANGED <<ops, script, lists, pc>>
Raise == pc' = "raised" /\ UNCHANGED <<ops, script, i, lists>>

\* Mutant: the bytes of a direct push are walked as opcodes.
AfterDirectWalked(at) == at + 1

AfterDirect(at) == at + 1 + script[at + 1]

DirectPush ==
  /\ Walking
  /\ 0 < Op /\ Op < OP_PUSHDATA1
  /\ SkipTo(AfterDirect(i))

Width == [n \in {OP_PUSHDATA1, OP_PUSHDATA2, OP_PUSHDATA4} |->
            CASE n = OP_PUSHDATA1 -> 1 [] n = OP_PUSHDATA2 -> 2 [] n = OP_PUSHDATA4 -> 4]

\* The little-endian length of w bytes after the opcode at the cursor.
PushLength(w) ==
  LET b(k) == script[i + 1 + k] IN
  CASE w = 1 -> b(1)
    [] w = 2 -> b(1) + 256 * b(2)
    [] w = 4 -> b(1) + 256 * (b(2) + 256 * (b(3) + 256 * b(4)))

\* A length field cut off makes script[i] or unpack_from raise; data cut off
\* only moves the cursor past the end.
PushData ==
  /\ Walking
  /\ Op \in DOMAIN Width
  /\ LET w == Width[Op] IN
     IF i + 1 + w <= Len(script) THEN SkipTo(i + 1 + w + PushLength(w)) ELSE Raise

\* Mutant: a reference cut off is taken as it is.
WholeAny(ref) == TRUE

Whole(ref) == Len(ref) = REF_LEN

\* Mutant: singletons are left out of the pushed references.
PushingOpcodesPlain == {RefOpcode.OP_PUSHINPUTREF}

PushingOpcodes == {RefOpcode.OP_PUSHINPUTREF, RefOpcode.OP_PUSHINPUTREFSINGLETON}

AppendIf(s, ref, cond) == IF cond THEN Append(s, ref) ELSE s

ReadRef ==
  /\ Walking
  /\ \E name \in DOMAIN RefOpcode : Op = RefOpcode[name]
  /\ LET end == IF i + 1 + REF_LEN <= Len(script) THEN i + 1 + REF_LEN ELSE Len(script)
         ref == SubSeq(script, i + 2, end)
     IN  \/ /\ ~ Whole(ref)
            /\ Raise
         \/ /\ Whole(ref)
            /\ i' = i + 1 + REF_LEN
            /\ pushed' = AppendIf(pushed, ref, Op \in PushingOpcodes)
            /\ required' = AppendIf(required, ref, Op = RefOpcode.OP_REQUIREINPUTREF)
            /\ disallowed' = AppendIf(disallowed, ref, Op = RefOpcode.OP_DISALLOWPUSHINPUTREF)
            /\ UNCHANGED <<ops, script, pc>>

OtherOpcode ==
  /\ Walking
  /\ Op = 0 \/ Op > OP_PUSHDATA4
  /\ \A name \in DOMAIN RefOpcode : Op # RefOpcode[name]
  /\ SkipTo(i + 1)

ListOf(s) == {s[k] : k \in DOMAIN s}

\* Past the end: a reference both pushed and disallowed raises.
Return ==
  /\ pc = "walk"
  /\ i >= Len(script)
  /\ pc' = IF ListOf(pushed) \cap ListOf(disallowed) = {} THEN "returned" ELSE "raised"
  /\ UNCHANGED <<ops, script, i, lists>>

Next == DirectPush \/ PushData \/ ReadRef \/ OtherOpcode \/ Return

Spec == Init /\ [][Next]_vars

-----------------------------------------------------------------------------
Complete == script = Bytes(ops)

\* The cursor only ever stands between two operations, wherever the script is cut
\* off: no byte of pushed data or of a reference is taken for an opcode.
CursorBetweenOps == \E n \in 0 .. Len(ops) : i = Len(BytesOf(ops, n))

Source == [ops |-> ops]

\* The walk over a whole script finds what Preimage says it finds, references
\* pushed and disallowed, and raises exactly where Preimage says it does.
WalkIsPreimages ==
  Complete /\ pc # "walk" =>
    /\ (pc = "raised") = WalkRaises(Source)
    /\ ListOf(pushed) = PushRefs(Source)
    /\ ListOf(disallowed) = DisallowRefs(Source)

\* A script cut off never shows a reference the whole script does not push.
CutOffInventsNothing == ListOf(pushed) \subseteq PushRefs(Source)
=============================================================================
