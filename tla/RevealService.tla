--------------------------- MODULE RevealService ----------------------------
(***************************************************************************)
(* GET /reveal/<ref> of view-only-ui/server.js: findReveal with its cache  *)
(* and its concurrency gate, findRevealInner with its walk up the chain,   *)
(* and the node behind it, whose active chain may reorganise while a       *)
(* lookup is under way.                                                    *)
(*                                                                         *)
(* A handler runs without interruption between two awaits.  Every await is *)
(* one radiant-cli call: the node answers it from the chain it has then    *)
(* (NodeAnswers), and the handler resumes with that answer later.          *)
(***************************************************************************)
EXTENDS Integers, Sequences, FiniteSets, Functions

CONSTANTS
  Requests,      \* HTTP requests, each made once
  Refs,          \* the commit outpoints they ask about
  Blocks,        \* block hashes
  Chains,        \* the active chains the node may have, as sequences of blocks
  Mints,         \* block -> the references whose commit transaction it holds
  Reveals,       \* block -> the references whose commit outpoint it spends
  MaxInFlight,   \* REVEAL_MAX_IN_FLIGHT
  MaxLookahead,  \* maxLookahead
  TTL,           \* CACHE_TTL_MS
  MaxNow,        \* bound: the clock
  NoRef, NoBlock, NoEntry, NoReply, Failed, NoAnswer

\* A block has one height, whichever chain it is seen in.
ASSUME ChainAssumption ==
  /\ \A c \in Chains : Len(c) \in Nat /\ DOMAIN c = 1 .. Len(c) /\ Range(c) \subseteq Blocks
  /\ \A c, d \in Chains : \A n \in DOMAIN c, m \in DOMAIN d : c[n] = d[m] => n = m
ASSUME RefAssumption ==
  \A b \in Blocks : Mints[b] \subseteq Refs /\ Reveals[b] \subseteq Refs
ASSUME LimitAssumption ==
  /\ IsFiniteSet(Requests)
  /\ MaxInFlight \in Nat /\ MaxLookahead \in Nat \ {0} /\ TTL \in Nat /\ MaxNow \in Nat

VARIABLES
  chain,     \* the node's active chain
  now,       \* Date.now()
  cache,     \* revealCache
  inFlight,  \* revealInFlight
  req,       \* the handler of each request: where it is and its locals
  seen,      \* history: the blocks active at some time during the request
  left       \* history: when a block last left the active chain

vars == <<chain, now, cache, inFlight, req, seen, left>>
node == <<chain, now, seen, left>>

Active == Range(chain)

Height(b) == CHOOSE n \in UNION {DOMAIN c : c \in Chains} :
               \E c \in Chains : n \in DOMAIN c /\ c[n] = b

-----------------------------------------------------------------------------
Looking == {"rawtx", "header", "hash", "block"}

NewRequest ==
  [pc |-> "new", ref |-> NoRef, commitHeight |-> 0, i |-> 0, block |-> NoBlock,
   commit |-> NoBlock, since |-> 0, reply |-> NoReply, answer |-> NoAnswer]

Init ==
  /\ chain \in Chains
  /\ now = 0
  /\ cache = [ref \in Refs |-> NoEntry]
  /\ inFlight = 0
  /\ req = [r \in Requests |-> NewRequest]
  /\ seen = [r \in Requests |-> {}]
  /\ left = [b \in Blocks |-> 0]

(***************************************************************************)
(* The node and the clock.                                                 *)
(***************************************************************************)
\* The node moves to a longer chain: one more block, or a reorganisation.
NewTip(c) ==
  /\ Len(c) > Len(chain)
  /\ chain' = c
  /\ seen' = [r \in Requests |->
                IF req[r].pc \in Looking THEN seen[r] \cup Range(c) ELSE seen[r]]
  /\ left' = [b \in Blocks |-> IF b \in Active \ Range(c) THEN now ELSE left[b]]
  /\ UNCHANGED <<now, cache, inFlight, req>>

Tick ==
  /\ now < MaxNow
  /\ now' = now + 1
  /\ UNCHANGED <<chain, cache, inFlight, req, seen, left>>

\* What radiant-cli prints for the call request q waits for: the block of the
\* commit transaction (an unconfirmed one has none), the height of a block, the
\* active block at a height.  getblock knows blocks of abandoned chains too.
NodeReply(q) ==
  CASE q.pc = "rawtx" ->
         IF \E b \in Active : q.ref \in Mints[b]
         THEN CHOOSE b \in Active : q.ref \in Mints[b] ELSE Failed
    [] q.pc = "header" -> Height(q.commit)
    [] q.pc = "hash" ->
         IF q.commitHeight + q.i \in DOMAIN chain THEN chain[q.commitHeight + q.i] ELSE Failed
    [] q.pc = "block" -> q.block

\* The call runs on the node, or fails: ssh, a non-zero exit, the output cap.
NodeAnswers(r) ==
  /\ req[r].pc \in Looking
  /\ req[r].reply = NoReply
  /\ \E reply \in {NodeReply(req[r]), Failed} : req' = [req EXCEPT ![r].reply = reply]
  /\ UNCHANGED <<cache, inFlight, node>>

(***************************************************************************)
(* findReveal up to its first await.                                       *)
(***************************************************************************)
Answer(kind, block, height, scanned) ==
  [kind |-> kind, block |-> block, height |-> height, scanned |-> scanned]

Refusal(kind) == Answer(kind, NoBlock, 0, 0)

Answers ==
  [kind : {"cache", "busy", "error", "lookup", "notfound"},
   block : Blocks \cup {NoBlock}, height : Nat, scanned : 0 .. MaxLookahead]

\* No reference is none of the references, and no answer none of the answers.
ASSUME NoneAssumption == NoRef \notin Refs /\ NoAnswer \notin Answers

\* Mutant: an entry never expires.
FreshForEver(ref) == cache[ref] # NoEntry

Fresh(ref) == cache[ref] # NoEntry /\ now - cache[ref].cached_at < TTL

GateOpen(n) == n < MaxInFlight

\* A cached answer, fresh enough, passes the gate by.
ServeCached(r, ref) ==
  /\ req[r].pc = "new"
  /\ Fresh(ref)
  /\ req' = [req EXCEPT ![r].pc = "done", ![r].ref = ref,
               ![r].answer = Answer("cache", cache[ref].block, cache[ref].height,
                                    cache[ref].scanned)]
  /\ UNCHANGED <<cache, inFlight, node>>

\* An expired entry is dropped even when the gate then refuses the lookup.
Refuse(r, ref) ==
  /\ req[r].pc = "new"
  /\ ~ Fresh(ref)
  /\ ~ GateOpen(inFlight)
  /\ cache' = [cache EXCEPT ![ref] = NoEntry]
  /\ req' = [req EXCEPT ![r].pc = "done", ![r].ref = ref, ![r].answer = Refusal("busy")]
  /\ UNCHANGED <<inFlight, node>>

StartLookup(r, ref) ==
  /\ req[r].pc = "new"
  /\ ~ Fresh(ref)
  /\ GateOpen(inFlight)
  /\ cache' = [cache EXCEPT ![ref] = NoEntry]
  /\ inFlight' = inFlight + 1
  /\ req' = [req EXCEPT ![r].pc = "rawtx", ![r].ref = ref, ![r].since = now]
  /\ seen' = [seen EXCEPT ![r] = Active]
  /\ UNCHANGED <<chain, now, left>>

(***************************************************************************)
(* findRevealInner, from one await to the next.                            *)
(***************************************************************************)
\* Mutant: the slot given back only when a reveal was found.
SlotsAfterOnSuccess(n, kind) == IF kind = "lookup" THEN n - 1 ELSE n

\* finally { revealInFlight-- }, whatever the outcome.
SlotsAfter(n, kind) == n - 1

Finish(r, answer) ==
  /\ req' = [req EXCEPT ![r].pc = "done", ![r].reply = NoReply, ![r].answer = answer]
  /\ inFlight' = SlotsAfter(inFlight, answer.kind)

\* The next radiant-cli call is spawned.
Await(r, q) ==
  /\ req' = [req EXCEPT ![r] = [q EXCEPT !.reply = NoReply]]
  /\ UNCHANGED <<cache, inFlight>>

Replied(r, pc) == req[r].pc = pc /\ req[r].reply \notin {NoReply, Failed}

\* Mutant: a call that failed is made again, for ever.
OnFailureRetry(r) ==
  /\ req[r].pc \in Looking
  /\ req[r].reply = Failed
  /\ Await(r, req[r])
  /\ UNCHANGED node

\* rpc() rejects, or the commit transaction has no block: the handler says 500.
OnFailure(r) ==
  /\ req[r].pc \in Looking
  /\ req[r].reply = Failed
  /\ Finish(r, Refusal("error"))
  /\ UNCHANGED <<cache, node>>

OnRawTx(r) ==
  /\ Replied(r, "rawtx")
  /\ Await(r, [req[r] EXCEPT !.pc = "header", !.commit = req[r].reply])
  /\ UNCHANGED node

\* A reveal may be in the commit's own block.
FirstStep == 0

OnHeader(r) ==
  /\ Replied(r, "header")
  /\ Await(r, [req[r] EXCEPT !.pc = "hash", !.commitHeight = req[r].reply, !.i = FirstStep])
  /\ UNCHANGED node

OnBlockHash(r) ==
  /\ Replied(r, "hash")
  /\ Await(r, [req[r] EXCEPT !.pc = "block", !.block = req[r].reply])
  /\ UNCHANGED node

\* Mutant: the height reported counts the blocks scanned.
RevealHeightCounted(q) == q.commitHeight + q.i + 1

RevealHeight(q) == q.commitHeight + q.i

\* The reveal is in this block: cached with the time of now, and served.
OnBlockFound(r) ==
  /\ Replied(r, "block")
  /\ LET q == req[r] IN
       /\ q.ref \in Reveals[q.block]
       /\ cache' = [cache EXCEPT ![q.ref] =
                      [block |-> q.block, height |-> RevealHeight(q),
                       scanned |-> q.i + 1, cached_at |-> now, since |-> q.since]]
       /\ Finish(r, Answer("lookup", q.block, RevealHeight(q), q.i + 1))
  /\ UNCHANGED node

\* Mutant: an off-by-one in the bound of the walk.
MoreToScanOneTooFar(i) == i < MaxLookahead

MoreToScan(i) == i + 1 < MaxLookahead

\* It is not: the next height, or after the last one "no reveal tx found".
OnBlockNext(r) ==
  /\ Replied(r, "block")
  /\ req[r].ref \notin Reveals[req[r].block]
  /\ MoreToScan(req[r].i)
  /\ Await(r, [req[r] EXCEPT !.pc = "hash", !.i = @ + 1])
  /\ UNCHANGED node

OnBlockLast(r) ==
  /\ Replied(r, "block")
  /\ req[r].ref \notin Reveals[req[r].block]
  /\ ~ MoreToScan(req[r].i)
  /\ Finish(r, Refusal("notfound"))
  /\ UNCHANGED <<cache, node>>

Resume(r) ==
  \/ OnFailure(r) \/ OnRawTx(r) \/ OnHeader(r) \/ OnBlockHash(r)
  \/ OnBlockFound(r) \/ OnBlockNext(r) \/ OnBlockLast(r)

Arrive(r) ==
  \E ref \in Refs : ServeCached(r, ref) \/ Refuse(r, ref) \/ StartLookup(r, ref)

Next ==
  \/ \E c \in Chains : NewTip(c)
  \/ Tick
  \/ \E r \in Requests : Arrive(r) \/ NodeAnswers(r) \/ Resume(r)

Spec == Init /\ [][Next]_vars

\* Every radiant-cli call ends, and the event loop runs every callback.
FairSpec ==
  Spec /\ \A r \in Requests : WF_vars(NodeAnswers(r)) /\ WF_vars(Resume(r))

-----------------------------------------------------------------------------
(***************************************************************************)
(* Properties.                                                             *)
(***************************************************************************)
Lookups == {r \in Requests : req[r].pc \in Looking}

Entry == [block: Blocks, height: Nat, scanned: 1 .. MaxLookahead,
          cached_at: 0 .. MaxNow, since: 0 .. MaxNow]

\* Type invariant.
TypeOK ==
  /\ chain \in Chains
  /\ now \in 0 .. MaxNow
  /\ cache \in [Refs -> Entry \cup {NoEntry}]
  /\ inFlight \in Int
  /\ \A r \in Requests :
       /\ req[r].pc \in Looking \cup {"new", "done"}
       /\ req[r].ref \in Refs \cup {NoRef}
       /\ req[r].i \in 0 .. MaxLookahead - 1
       /\ req[r].answer \in Answers \cup {NoAnswer}
       /\ seen[r] \subseteq Blocks
  /\ left \in [Blocks -> 0 .. MaxNow]

\* The gate counts the lookups under way exactly, on every path out of one, so
\* it neither leaks a slot nor lets more than REVEAL_MAX_IN_FLIGHT run.
GateExact == inFlight = Cardinality(Lookups) /\ inFlight <= MaxInFlight

\* The service keeps its promise: a reveal found, and a reveal not found, is the
\* truth about blocks that were active while the lookup was open, a cached answer
\* repeats one given before, and a request is turned away only by a full gate.
Lookup == INSTANCE LookupService WITH
  asked   <- [r \in Requests |-> req[r].ref],
  said    <- [r \in Requests |-> req[r].answer],
  window  <- seen,
  MaxOpen <- MaxInFlight
ImplementsLookup == Lookup!Spec

\* "Cache entries expire after CACHE_TTL_MS", to protect against reorganisations:
\* what the cache serves was on the active chain within the last CACHE_TTL_MS and
\* the time its lookup took, however the reorganisation fell into the lookup.
ServedSoonAfterReorg ==
  [][\A r \in Requests :
       req[r].pc = "new" /\ req'[r].answer # NoAnswer /\ req'[r].answer.kind = "cache"
         => LET e == cache[req'[r].ref] IN
            \/ e.block \in Active
            \/ now - left[e.block] < TTL + (e.cached_at - e.since)]_vars

\* Every lookup is answered.
EveryLookupAnswered == \A r \in Requests : req[r].pc \in Looking ~> req[r].pc = "done"
=============================================================================
