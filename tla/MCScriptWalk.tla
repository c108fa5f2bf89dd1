---------------------------- MODULE MCScriptWalk -----------------------------
(***************************************************************************)
(* References of two bytes, and data that reads like reference opcodes,    *)
(* like length fields and like the references themselves; the marker of a  *)
(* glyph in two forms, and data that begins with it.                       *)
(***************************************************************************)
EXTENDS GlyphPayload

r1 == <<208, 1>>
r2 == <<76, 216>>

MCOps ==
  {[op |-> "direct", data |-> d] : d \in {<<208>>, <<216, 208, 1>>}}
  \cup {[op |-> "pushdata1", data |-> <<208, 77>>], [op |-> "pushdata2", data |-> <<210, 208, 1>>],
        [op |-> "pushdata4", data |-> <<216>>], [op |-> "pushdata1", data |-> <<>>]}
  \cup {[op |-> "direct", data |-> GLY], [op |-> "pushdata2", data |-> GLY],
        [op |-> "direct", data |-> Append(GLY, 3)]}
  \cup {[op |-> "byte", code |-> c] : c \in {0, 118}}
  \cup {[op |-> o, ref |-> r] : o \in DOMAIN RefOpcode, r \in {r1, r2}}
=============================================================================
