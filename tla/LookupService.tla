--------------------------- MODULE LookupService ----------------------------
(***************************************************************************)
(* What GET /reveal/<ref> promises while the node's chain moves: an answer *)
(* is justified by blocks that were active while the lookup was open, or   *)
(* repeats an answer already given; and only so many lookups are open.     *)
(***************************************************************************)
EXTENDS Integers, Sequences, FiniteSets, Functions

CONSTANTS
  Requests, Chains,
  Mints, Reveals,         \* block -> references minted, references revealed
  Height(_),
  MaxOpen, MaxLookahead,
  NoRef, NoAnswer

VARIABLES
  chain,   \* the active chain
  asked,   \* the reference each request asks for
  window,  \* the blocks active since its lookup was opened
  said     \* its answer

vars == <<chain, asked, window, said>>

Open == {r \in Requests : asked[r] # NoRef /\ said[r] = NoAnswer}

Init ==
  /\ chain \in Chains
  /\ asked = [r \in Requests |-> NoRef]
  /\ window = [r \in Requests |-> {}]
  /\ said = [r \in Requests |-> NoAnswer]

\* The chain moves; what is open sees the blocks it moves to.
Move ==
  /\ chain' \in Chains
  /\ window' = [r \in Requests |->
                  IF r \in Open THEN window[r] \cup Range(chain') ELSE window[r]]
  /\ UNCHANGED <<asked, said>>

Ask(r) ==
  /\ asked[r] = NoRef
  /\ asked' = [asked EXCEPT ![r] = asked'[r]]
  /\ asked'[r] # NoRef
  /\ UNCHANGED chain

Say(r) ==
  /\ said' = [said EXCEPT ![r] = said'[r]]
  /\ said'[r] # NoAnswer

\* A lookup is opened while fewer than MaxOpen are.
Begin(r) ==
  /\ Ask(r)
  /\ Cardinality(Open) < MaxOpen
  /\ window' = [window EXCEPT ![r] = Range(chain)]
  /\ UNCHANGED said

\* The block revealed ref, so many blocks from one that minted it, both active
\* while the lookup was open.
Found(ref, blocks, a) ==
  /\ a.block \in blocks /\ ref \in Reveals[a.block]
  /\ a.height = Height(a.block)
  /\ \E b \in blocks : ref \in Mints[b] /\ a.scanned = a.height - Height(b) + 1
  /\ a.scanned \in 1 .. MaxLookahead

\* Every height of the lookahead had a block, active while the lookup was open,
\* without a reveal of ref.
NotFound(ref, blocks) ==
  \E b \in blocks :
    /\ ref \in Mints[b]
    /\ \A n \in Height(b) .. Height(b) + MaxLookahead - 1 :
         \E d \in blocks : Height(d) = n /\ ref \notin Reveals[d]

Justified(ref, blocks, a) ==
  \/ a.kind = "error"
  \/ a.kind = "lookup" /\ Found(ref, blocks, a)
  \/ a.kind = "notfound" /\ NotFound(ref, blocks)

Close(r) ==
  /\ r \in Open
  /\ Say(r)
  /\ Justified(asked[r], window[r], said'[r])
  /\ UNCHANGED <<chain, asked, window>>

\* Turned away at once, only while MaxOpen lookups are open.
TurnAway(r) ==
  /\ Ask(r)
  /\ Cardinality(Open) = MaxOpen
  /\ Say(r)
  /\ said'[r].kind = "busy"
  /\ UNCHANGED window

\* Answered at once, as another request for the same reference was before.
Repeat(r) ==
  /\ Ask(r)
  /\ \E q \in Requests :
       /\ said[q] # NoAnswer /\ said[q].kind = "lookup"
       /\ asked[q] = asked'[r]
       /\ said' = [said EXCEPT ![r] = [said[q] EXCEPT !.kind = "cache"]]
  /\ UNCHANGED window

Next ==
  \/ Move
  \/ \E r \in Requests : Begin(r) \/ Close(r) \/ TurnAway(r) \/ Repeat(r)

Spec == Init /\ [][Next]_vars
=============================================================================
