------------------------ MODULE RevealServiceProofs -------------------------
(***************************************************************************)
(* findReveal for every set of requests, chains, references and limits.    *)
(* The counter of the concurrency gate is the number of lookups under way, *)
(* so no path out of a lookup leaks a slot; and the promise of             *)
(* LookupService is kept: each step of the server and of the node is a     *)
(* step of the promise, or changes nothing it speaks of.                   *)
(***************************************************************************)
EXTENDS RevealService, FiniteSetTheorems, TLAPS

\* Every request has a handler, at one of its control points.
ReqShape ==
  /\ DOMAIN req = Requests
  /\ \A r \in Requests : "pc" \in DOMAIN req[r]
  /\ \A r \in Requests : req[r].pc \in Looking \cup {"new", "done"}

GateInv == ReqShape /\ GateExact

\* The lookups are finitely many.
LEMMA LookupsFinite == IsFiniteSet(Lookups) /\ Cardinality(Lookups) \in Nat
<1>1. Lookups \in SUBSET Requests
  BY DEF Lookups
<1>2. IsFiniteSet(Lookups)
  BY <1>1, LimitAssumption, FS_Subset
<1>. QED  BY <1>2, FS_CardinalityType

\* A step that starts or ends no lookup, and leaves the counter, keeps the gate exact.
LEMMA NoneMoves ==
  ASSUME GateInv, ReqShape', inFlight' = inFlight,
         \A s \in Requests : (req'[s].pc \in Looking) <=> (req[s].pc \in Looking)
  PROVE  GateInv'
<1>1. Lookups' = Lookups
  BY DEF Lookups
<1>. QED  BY <1>1 DEF GateInv, GateExact

\* A step that starts the lookup of one request and counts it, through an open gate.
LEMMA OneStarts ==
  ASSUME GateInv, ReqShape', NEW r \in Requests,
         req[r].pc \notin Looking, req'[r].pc \in Looking,
         \A s \in Requests \ {r} : req'[s].pc = req[s].pc,
         inFlight < MaxInFlight, inFlight' = inFlight + 1
  PROVE  GateInv'
<1>1. Lookups' = Lookups \cup {r} /\ r \notin Lookups
  BY DEF Lookups
<1>2. Cardinality(Lookups') = Cardinality(Lookups) + 1
  BY <1>1, LookupsFinite, FS_AddElement
<1>. QED  BY <1>2, LookupsFinite, LimitAssumption DEF GateInv, GateExact

\* A step that ends the lookup of one request and counts it out.
LEMMA OneEnds ==
  ASSUME GateInv, ReqShape', NEW r \in Requests,
         req[r].pc \in Looking, req'[r].pc \notin Looking,
         \A s \in Requests \ {r} : req'[s].pc = req[s].pc,
         inFlight' = inFlight - 1
  PROVE  GateInv'
<1>1. Lookups' = Lookups \ {r} /\ r \in Lookups
  BY DEF Lookups
<1>2. Cardinality(Lookups') = Cardinality(Lookups) - 1
  BY <1>1, LookupsFinite, FS_RemoveElement
<1>. QED  BY <1>2, LookupsFinite, LimitAssumption DEF GateInv, GateExact

\* finally { revealInFlight-- }: every way out of a lookup goes through Finish.
LEMMA FinishGate ==
  ASSUME GateInv, NEW r \in Requests, req[r].pc \in Looking,
         NEW answer, Finish(r, answer)
  PROVE  GateInv'
<1>1. ReqShape'
  BY DEF Finish, GateInv, ReqShape, Looking
<1>2. req'[r].pc = "done"
  BY DEF Finish, GateInv, ReqShape
<1>3. \A s \in Requests \ {r} : req'[s].pc = req[s].pc
  BY DEF Finish, GateInv, ReqShape
<1>4. inFlight' = inFlight - 1
  BY DEF Finish, SlotsAfter
<1>. QED  BY <1>1, <1>2, <1>3, <1>4, OneEnds DEF Looking

\* Going on to the next radiant-cli call stays within the lookup.
LEMMA AwaitGate ==
  ASSUME GateInv, NEW r \in Requests, req[r].pc \in Looking,
         NEW q, "pc" \in DOMAIN q, q.pc \in Looking, Await(r, q)
  PROVE  GateInv'
<1>1. ReqShape'
  BY DEF Await, GateInv, ReqShape
<1>2. req'[r].pc = q.pc
  BY DEF Await, GateInv, ReqShape
<1>3. \A s \in Requests \ {r} : req'[s].pc = req[s].pc
  BY DEF Await, GateInv, ReqShape
<1>4. inFlight' = inFlight
  BY DEF Await
<1>5. \A s \in Requests : (req'[s].pc \in Looking) <=> (req[s].pc \in Looking)
  BY <1>2, <1>3
<1>. QED  BY <1>1, <1>4, <1>5, NoneMoves

\* No lookup is under way, and none is counted, before the first request.
LEMMA InitGate == Init => GateInv
<1>. SUFFICES ASSUME Init PROVE GateInv
  OBVIOUS
<1>1. ReqShape
  BY DEF Init, ReqShape, NewRequest
<1>2. Lookups = {}
  BY DEF Init, Lookups, NewRequest, Looking
<1>3. Cardinality(Lookups) = 0
  BY <1>2, FS_EmptySet
<1>. QED  BY <1>1, <1>3, LimitAssumption DEF Init, GateInv, GateExact

\* Every step keeps the gate exact.
LEMMA StepGate == GateInv /\ [Next]_vars => GateInv'
<1>. SUFFICES ASSUME GateInv, [Next]_vars PROVE GateInv'
  OBVIOUS
<1>1. CASE UNCHANGED vars
  BY <1>1 DEF vars, GateInv, ReqShape, GateExact, Lookups
<1>2. ASSUME NEW c \in Chains, NewTip(c) PROVE GateInv'
  BY <1>2 DEF NewTip, GateInv, ReqShape, GateExact, Lookups
<1>3. CASE Tick
  BY <1>3 DEF Tick, GateInv, ReqShape, GateExact, Lookups
<1>4. ASSUME NEW r \in Requests, NodeAnswers(r) PROVE GateInv'
  <2>1. ReqShape'
    BY <1>4 DEF NodeAnswers, GateInv, ReqShape
  <2>2. \A s \in Requests : req'[s].pc = req[s].pc
    BY <1>4 DEF NodeAnswers, GateInv, ReqShape
  <2>3. inFlight' = inFlight
    BY <1>4 DEF NodeAnswers
  <2>. QED  BY <2>1, <2>2, <2>3, NoneMoves
<1>5. ASSUME NEW r \in Requests, NEW ref \in Refs, ServeCached(r, ref) PROVE GateInv'
  <2>1. ReqShape'
    BY <1>5 DEF ServeCached, GateInv, ReqShape
  <2>2. \A s \in Requests : (req'[s].pc \in Looking) <=> (req[s].pc \in Looking)
    BY <1>5 DEF ServeCached, GateInv, ReqShape, Looking
  <2>3. inFlight' = inFlight
    BY <1>5 DEF ServeCached
  <2>. QED  BY <2>1, <2>2, <2>3, NoneMoves
<1>6. ASSUME NEW r \in Requests, NEW ref \in Refs, Refuse(r, ref) PROVE GateInv'
  <2>1. ReqShape'
    BY <1>6 DEF Refuse, GateInv, ReqShape
  <2>2. \A s \in Requests : (req'[s].pc \in Looking) <=> (req[s].pc \in Looking)
    BY <1>6 DEF Refuse, GateInv, ReqShape, Looking
  <2>3. inFlight' = inFlight
    BY <1>6 DEF Refuse
  <2>. QED  BY <2>1, <2>2, <2>3, NoneMoves
<1>7. ASSUME NEW r \in Requests, NEW ref \in Refs, StartLookup(r, ref) PROVE GateInv'
  <2>1. ReqShape'
    BY <1>7 DEF StartLookup, GateInv, ReqShape, Looking
  <2>2. req[r].pc \notin Looking /\ req'[r].pc \in Looking
    BY <1>7 DEF StartLookup, GateInv, ReqShape, Looking
  <2>3. \A s \in Requests \ {r} : req'[s].pc = req[s].pc
    BY <1>7 DEF StartLookup, GateInv, ReqShape
  <2>4. inFlight < MaxInFlight /\ inFlight' = inFlight + 1
    BY <1>7 DEF StartLookup, GateOpen
  <2>. QED  BY <2>1, <2>2, <2>3, <2>4, OneStarts
<1>8. ASSUME NEW r \in Requests, OnFailure(r) PROVE GateInv'
  <2>1. req[r].pc \in Looking /\ Finish(r, Refusal("error"))
    BY <1>8 DEF OnFailure
  <2>. QED  BY <2>1, FinishGate
<1>9. ASSUME NEW r \in Requests, OnBlockLast(r) PROVE GateInv'
  <2>1. req[r].pc \in Looking /\ Finish(r, Refusal("notfound"))
    BY <1>9 DEF OnBlockLast, Replied, Looking
  <2>. QED  BY <2>1, FinishGate
<1>10. ASSUME NEW r \in Requests, OnBlockFound(r) PROVE GateInv'
  <2>1. PICK answer : Finish(r, answer)
    BY <1>10 DEF OnBlockFound
  <2>2. req[r].pc \in Looking
    BY <1>10 DEF OnBlockFound, Replied, Looking
  <2>. QED  BY <2>1, <2>2, FinishGate
<1>11. ASSUME NEW r \in Requests, OnRawTx(r) \/ OnHeader(r) \/ OnBlockHash(r) \/ OnBlockNext(r)
       PROVE GateInv'
  <2>1. req[r].pc \in Looking /\ "pc" \in DOMAIN req[r]
    BY <1>11 DEF OnRawTx, OnHeader, OnBlockHash, OnBlockNext, Replied, Looking, GateInv, ReqShape
  <2>2. PICK q : /\ "pc" \in DOMAIN q
                 /\ q.pc \in Looking
                 /\ Await(r, q)
    BY <1>11, <2>1 DEF OnRawTx, OnHeader, OnBlockHash, OnBlockNext, Looking
  <2>. QED  BY <2>1, <2>2, AwaitGate
<1>. QED
  BY <1>1, <1>2, <1>3, <1>4, <1>5, <1>6, <1>7, <1>8, <1>9, <1>10, <1>11
     DEF Next, Arrive, Resume

\* The gate counts the lookups under way exactly and never lets more than
\* REVEAL_MAX_IN_FLIGHT of them run.
THEOREM GateIsExact == Spec => []GateExact
<1>1. GateInv => GateExact
  BY DEF GateInv
<1>. QED  BY <1>1, InitGate, StepGate, PTL DEF Spec

-----------------------------------------------------------------------------
(***************************************************************************)
(* The promise of LookupService.                                           *)
(***************************************************************************)
\* A block has the height of its place in any chain.
LEMMA HeightOf ==
  ASSUME NEW c \in Chains, NEW n \in DOMAIN c
  PROVE  Height(c[n]) = n /\ n \in Nat
<1>. DEFINE heights == UNION {DOMAIN d : d \in Chains}
            At(m) == \E d \in Chains : m \in DOMAIN d /\ d[m] = c[n]
<1>1. n \in heights /\ At(n)
  OBVIOUS
<1>2. \A m \in heights : At(m) => m = n
  BY ChainAssumption
<1>3. Height(c[n]) = n
  BY <1>1, <1>2 DEF Height
<1>4. n \in Nat
  BY ChainAssumption
<1>. QED  BY <1>3, <1>4

ChainBlocks == UNION {Range(c) : c \in Chains}

\* The blocks of the chains have heights.
LEMMA HeightIsNat ==
  ASSUME NEW b \in ChainBlocks
  PROVE  Height(b) \in Nat /\ b \in Blocks
<1>1. PICK c \in Chains : b \in Range(c)
  BY DEF ChainBlocks
<1>2. PICK n \in DOMAIN c : c[n] = b
  BY <1>1 DEF Range
<1>. QED  BY <1>1, <1>2, HeightOf, ChainAssumption

Fields == {"pc", "ref", "commitHeight", "i", "block", "commit", "since", "reply", "answer"}

Shape == DOMAIN req = Requests /\ \A r \in Requests : DOMAIN req[r] = Fields

\* The walk has passed the block n above the commit: it was active, and reveals
\* something else.
Passed(q, s, n) ==
  \E d \in s : Height(d) = q.commitHeight + n /\ q.ref \notin Reveals[d]

Answered(q) == q.reply \notin {NoReply, Failed}

\* What a handler knows, by where it is; s is what was active in its time.
HandlerOK(q, s) ==
  /\ q.pc \in Looking \cup {"new", "done"}
  /\ q.i \in 0 .. MaxLookahead - 1
  /\ q.pc = "new" => q.ref = NoRef /\ q.answer = NoAnswer /\ q.reply = NoReply
  /\ q.pc \in Looking => q.ref \in Refs /\ q.answer = NoAnswer /\ q.since \in 0 .. MaxNow
  /\ q.pc = "done" => q.ref \in Refs /\ q.answer \in Answers
  /\ q.pc = "rawtx" /\ Answered(q) => q.reply \in s /\ q.ref \in Mints[q.reply]
  /\ q.pc \in {"header", "hash", "block"} => q.commit \in s /\ q.ref \in Mints[q.commit]
  /\ q.pc = "header" /\ Answered(q) => q.reply = Height(q.commit)
  /\ q.pc \in {"hash", "block"} =>
       /\ q.commitHeight = Height(q.commit)
       /\ \A n \in 0 .. q.i - 1 : Passed(q, s, n)
  /\ q.pc = "hash" /\ Answered(q) => q.reply \in s /\ Height(q.reply) = q.commitHeight + q.i
  /\ q.pc = "block" => q.block \in s /\ Height(q.block) = q.commitHeight + q.i

\* What was known stays known as more blocks become active.
LEMMA HandlerGrows ==
  ASSUME NEW q, NEW s, NEW t, s \subseteq t, HandlerOK(q, s)
  PROVE  HandlerOK(q, t)
<1>1. \A n \in 0 .. q.i - 1 : Passed(q, s, n) => Passed(q, t, n)
  BY DEF Passed
<1>. QED  BY <1>1 DEF HandlerOK

SeenOK ==
  /\ DOMAIN seen = Requests
  /\ \A r \in Requests :
       /\ seen[r] \subseteq ChainBlocks
       /\ req[r].pc \in Looking => Active \subseteq seen[r]

\* A cached entry was somebody's answer.
Source(ref, e, q) ==
  /\ q.pc = "done" /\ q.ref = ref
  /\ q.answer = Answer("lookup", e.block, e.height, e.scanned)

CacheOK ==
  \A ref \in Refs : cache[ref] # NoEntry => \E s \in Requests : Source(ref, cache[ref], req[s])

LookupInv ==
  /\ GateInv /\ Shape
  /\ chain \in Chains /\ now \in 0 .. MaxNow
  /\ left \in [Blocks -> 0 .. MaxNow]
  /\ cache \in [Refs -> Entry \cup {NoEntry}]
  /\ SeenOK /\ CacheOK
  /\ \A r \in Requests : HandlerOK(req[r], seen[r])

\* The invariant gives every variable its type.
LEMMA InvIsTyped == LookupInv => TypeOK
<1>. SUFFICES ASSUME LookupInv PROVE TypeOK
  OBVIOUS
<1>1. inFlight \in Int
  BY LookupsFinite DEF LookupInv, GateInv, GateExact
<1>2. \A r \in Requests :
        /\ req[r].pc \in Looking \cup {"new", "done"}
        /\ req[r].ref \in Refs \cup {NoRef}
        /\ req[r].i \in 0 .. MaxLookahead - 1
        /\ req[r].answer \in Answers \cup {NoAnswer}
  BY DEF LookupInv, HandlerOK
<1>3. \A r \in Requests : seen[r] \subseteq Blocks
  BY HeightIsNat DEF LookupInv, SeenOK
<1>. QED  BY <1>1, <1>2, <1>3 DEF LookupInv, TypeOK

\* Nobody has asked anything.
LEMMA InitLookup == Init => LookupInv
<1>. SUFFICES ASSUME Init PROVE LookupInv
  OBVIOUS
<1>1. GateInv
  BY InitGate
<1>2. Shape /\ \A r \in Requests : req[r] = NewRequest
  BY DEF Init, Shape, NewRequest, Fields
<1>3. \A r \in Requests : HandlerOK(req[r], seen[r])
  BY <1>2, LimitAssumption DEF HandlerOK, NewRequest, Looking
<1>4. SeenOK
  BY <1>2 DEF Init, SeenOK, NewRequest, Looking
<1>5. cache \in [Refs -> Entry \cup {NoEntry}] /\ CacheOK
  BY DEF Init, CacheOK
<1>6. chain \in Chains /\ now \in 0 .. MaxNow /\ left \in [Blocks -> 0 .. MaxNow]
  BY LimitAssumption DEF Init
<1>. QED  BY <1>1, <1>2, <1>3, <1>4, <1>5, <1>6 DEF LookupInv

\* A step of one handler, the node standing still.
LEMMA HandlerStep ==
  ASSUME LookupInv, GateInv', Shape', NEW r \in Requests,
         \A s \in Requests \ {r} : req'[s] = req[s],
         HandlerOK(req'[r], seen[r]), req'[r].pc \in Looking => req[r].pc \in Looking,
         UNCHANGED <<chain, now, left, seen>>,
         cache' \in [Refs -> Entry \cup {NoEntry}], CacheOK'
  PROVE  LookupInv'
<1>1. \A s \in Requests : HandlerOK(req'[s], seen'[s])
  BY DEF LookupInv
<1>2. SeenOK'
  BY DEF LookupInv, SeenOK, Active
<1>. QED  BY <1>1, <1>2 DEF LookupInv, HandlerOK, Passed, Answered

\* Entries that stay keep their source, as no answered request changes.
LEMMA CacheKept ==
  ASSUME LookupInv, NEW r \in Requests, req[r].pc # "done",
         \A s \in Requests \ {r} : req'[s] = req[s],
         \A ref \in Refs : cache'[ref] \in {cache[ref], NoEntry}
  PROVE  CacheOK'
<1>1. ASSUME NEW ref \in Refs, cache'[ref] # NoEntry
      PROVE  \E s \in Requests : Source(ref, cache'[ref], req'[s])
  <2>1. PICK s \in Requests : Source(ref, cache[ref], req[s])
    BY <1>1 DEF LookupInv, CacheOK
  <2>2. s # r
    BY <2>1 DEF Source
  <2>. QED  BY <1>1, <2>1, <2>2
<1>. QED  BY <1>1 DEF CacheOK, Source, Answer

\* What a finished handler keeps and what it gets.
LEMMA FinishFields ==
  ASSUME Shape, NEW r \in Requests, NEW answer, Finish(r, answer)
  PROVE  /\ Shape' /\ \A s \in Requests \ {r} : req'[s] = req[s]
         /\ req'[r].pc = "done" /\ req'[r].answer = answer
         /\ req'[r].ref = req[r].ref /\ req'[r].i = req[r].i
  BY DEF Shape, Finish, Fields

\* What a handler keeps across an await.
LEMMA AwaitFields ==
  ASSUME Shape, NEW r \in Requests, NEW q, DOMAIN q = Fields, Await(r, q)
  PROVE  /\ Shape' /\ \A s \in Requests \ {r} : req'[s] = req[s]
         /\ req'[r].pc = q.pc /\ req'[r].ref = q.ref /\ req'[r].i = q.i
         /\ req'[r].commitHeight = q.commitHeight /\ req'[r].block = q.block
         /\ req'[r].commit = q.commit /\ req'[r].since = q.since
         /\ req'[r].reply = NoReply /\ req'[r].answer = q.answer
<1>1. Shape' /\ \A s \in Requests \ {r} : req'[s] = req[s]
  BY DEF Shape, Await
<1>2. req'[r] = [q EXCEPT !.reply = NoReply]
  BY DEF Shape, Await
<1>. QED  BY <1>1, <1>2 DEF Fields

\* A lookup that ends with a refusal.
LEMMA RefusalInv ==
  ASSUME LookupInv, GateInv', NEW r \in Requests, req[r].pc \in Looking,
         NEW kind \in {"error", "notfound"}, Finish(r, Refusal(kind)),
         UNCHANGED <<chain, now, left, seen, cache>>
  PROVE  LookupInv'
<1>1. Refusal(kind) \in Answers
  BY LimitAssumption DEF Refusal, Answer, Answers
<1>2. /\ Shape' /\ \A s \in Requests \ {r} : req'[s] = req[s]
      /\ req'[r].pc = "done" /\ req'[r].answer = Refusal(kind)
      /\ req'[r].ref = req[r].ref /\ req'[r].i = req[r].i
  BY FinishFields DEF LookupInv
<1>3. HandlerOK(req'[r], seen[r])
  BY <1>1, <1>2 DEF LookupInv, HandlerOK, Looking
<1>4. req[r].pc # "done" /\ req'[r].pc \notin Looking
  BY <1>2 DEF Looking
<1>5. CacheOK'
  BY <1>2, <1>4, CacheKept
<1>. QED  BY <1>2, <1>3, <1>4, <1>5, HandlerStep DEF LookupInv

\* A lookup that goes on to its next call.
LEMMA AwaitInv ==
  ASSUME LookupInv, GateInv', NEW r \in Requests, req[r].pc \in Looking,
         NEW q, DOMAIN q = Fields, Await(r, q),
         HandlerOK([q EXCEPT !.reply = NoReply], seen[r]), UNCHANGED node
  PROVE  LookupInv'
<1>1. Shape' /\ \A s \in Requests \ {r} : req'[s] = req[s]
  BY AwaitFields DEF LookupInv
<1>2. req'[r] = [q EXCEPT !.reply = NoReply]
  BY DEF LookupInv, Shape, Await
<1>3. HandlerOK(req'[r], seen[r])
  BY <1>2
<1>4. req[r].pc # "done"
  BY DEF Looking
<1>5. cache' = cache /\ UNCHANGED <<chain, now, left, seen>>
  BY DEF Await, node
<1>6. CacheOK'
  BY <1>1, <1>4, <1>5, CacheKept
<1>. QED  BY <1>1, <1>3, <1>5, <1>6, HandlerStep DEF LookupInv

\* The call for the block of the commit transaction has answered.
LEMMA RawTxInv ==
  ASSUME LookupInv, GateInv', NEW r \in Requests, OnRawTx(r)
  PROVE  LookupInv'
<1>. DEFINE q == [req[r] EXCEPT !.pc = "header", !.commit = req[r].reply]
            p == [q EXCEPT !.reply = NoReply]
<1>1. req[r].pc = "rawtx" /\ Answered(req[r]) /\ Await(r, q) /\ UNCHANGED node
  BY DEF OnRawTx, Replied, Answered
<1>2. DOMAIN q = Fields /\ DOMAIN req[r] = Fields
  BY DEF LookupInv, Shape
<1>3. /\ p.pc = "header" /\ p.commit = req[r].reply /\ p.reply = NoReply
      /\ p.ref = req[r].ref /\ p.i = req[r].i /\ p.answer = req[r].answer
      /\ p.since = req[r].since
  BY <1>2 DEF Fields
<1>4. HandlerOK(req[r], seen[r])
  BY DEF LookupInv
<1>. HIDE DEF p
<1>5. HandlerOK(p, seen[r])
  BY <1>1, <1>3, <1>4 DEF HandlerOK, Answered, Looking
<1>. QED  BY <1>1, <1>2, <1>5, AwaitInv DEF p, Looking

\* The call for the commit's height has answered, and the walk starts there.
LEMMA HeaderInv ==
  ASSUME LookupInv, GateInv', NEW r \in Requests, OnHeader(r)
  PROVE  LookupInv'
<1>. DEFINE q == [req[r] EXCEPT !.pc = "hash", !.commitHeight = req[r].reply, !.i = FirstStep]
            p == [q EXCEPT !.reply = NoReply]
<1>1. req[r].pc = "header" /\ Answered(req[r]) /\ Await(r, q) /\ UNCHANGED node
  BY DEF OnHeader, Replied, Answered
<1>2. DOMAIN q = Fields /\ DOMAIN req[r] = Fields
  BY DEF LookupInv, Shape
<1>3. /\ p.pc = "hash" /\ p.commitHeight = req[r].reply /\ p.i = 0 /\ p.reply = NoReply
      /\ p.ref = req[r].ref /\ p.commit = req[r].commit /\ p.answer = req[r].answer
      /\ p.since = req[r].since
  BY <1>2 DEF Fields, FirstStep
<1>4. HandlerOK(req[r], seen[r])
  BY DEF LookupInv
<1>. HIDE DEF p
<1>5. HandlerOK(p, seen[r])
  BY <1>1, <1>3, <1>4, LimitAssumption DEF HandlerOK, Answered, Looking
<1>. QED  BY <1>1, <1>2, <1>5, AwaitInv DEF p, Looking

\* The call for the active block at a height has answered.
LEMMA BlockHashInv ==
  ASSUME LookupInv, GateInv', NEW r \in Requests, OnBlockHash(r)
  PROVE  LookupInv'
<1>. DEFINE q == [req[r] EXCEPT !.pc = "block", !.block = req[r].reply]
            p == [q EXCEPT !.reply = NoReply]
<1>1. req[r].pc = "hash" /\ Answered(req[r]) /\ Await(r, q) /\ UNCHANGED node
  BY DEF OnBlockHash, Replied, Answered
<1>2. DOMAIN q = Fields /\ DOMAIN req[r] = Fields
  BY DEF LookupInv, Shape
<1>3. /\ p.pc = "block" /\ p.block = req[r].reply /\ p.reply = NoReply
      /\ p.commitHeight = req[r].commitHeight /\ p.i = req[r].i
      /\ p.ref = req[r].ref /\ p.commit = req[r].commit /\ p.answer = req[r].answer
      /\ p.since = req[r].since
  BY <1>2 DEF Fields
<1>4. HandlerOK(req[r], seen[r])
  BY DEF LookupInv
<1>. HIDE DEF p
<1>5. HandlerOK(p, seen[r])
  BY <1>1, <1>3, <1>4 DEF HandlerOK, Answered, Looking, Passed
<1>. QED  BY <1>1, <1>2, <1>5, AwaitInv DEF p, Looking

\* The block holds no reveal, and the walk goes on above it.
LEMMA BlockNextInv ==
  ASSUME LookupInv, GateInv', NEW r \in Requests, OnBlockNext(r)
  PROVE  LookupInv'
<1>. DEFINE q == [req[r] EXCEPT !.pc = "hash", !.i = @ + 1]
            p == [q EXCEPT !.reply = NoReply]
<1>1. /\ req[r].pc = "block" /\ Await(r, q) /\ UNCHANGED node
      /\ req[r].ref \notin Reveals[req[r].block] /\ req[r].i + 1 < MaxLookahead
  BY DEF OnBlockNext, Replied, MoreToScan
<1>2. DOMAIN q = Fields /\ DOMAIN req[r] = Fields
  BY DEF LookupInv, Shape
<1>3. /\ p.pc = "hash" /\ p.i = req[r].i + 1 /\ p.reply = NoReply
      /\ p.commitHeight = req[r].commitHeight
      /\ p.ref = req[r].ref /\ p.commit = req[r].commit /\ p.answer = req[r].answer
      /\ p.since = req[r].since
  BY <1>2 DEF Fields
<1>4. HandlerOK(req[r], seen[r])
  BY DEF LookupInv
<1>. HIDE DEF p
<1>5. p.i \in 0 .. MaxLookahead - 1
  BY <1>1, <1>3, <1>4, LimitAssumption DEF HandlerOK
<1>6. \A n \in 0 .. p.i - 1 : Passed(p, seen[r], n)
  <2>1. \A n \in 0 .. req[r].i - 1 : Passed(req[r], seen[r], n)
    BY <1>1, <1>4 DEF HandlerOK
  <2>2. Passed(req[r], seen[r], req[r].i)
    BY <1>1, <1>4 DEF HandlerOK, Passed
  <2>3. \A n \in 0 .. p.i - 1 : n \in 0 .. req[r].i - 1 \/ n = req[r].i
    BY <1>3, <1>4, LimitAssumption DEF HandlerOK
  <2>. QED  BY <1>3, <2>1, <2>2, <2>3 DEF Passed
<1>7. HandlerOK(p, seen[r])
  BY <1>1, <1>3, <1>4, <1>5, <1>6 DEF HandlerOK, Answered, Looking
<1>. QED  BY <1>1, <1>2, <1>7, AwaitInv DEF p, Looking

\* The block holds the reveal: the answer, and the entry cached for it.
LEMMA BlockFoundFacts ==
  ASSUME LookupInv, NEW r \in Requests, OnBlockFound(r)
  PROVE  LET q == req[r]
             a == Answer("lookup", q.block, RevealHeight(q), q.i + 1)
             e == [block |-> q.block, height |-> RevealHeight(q), scanned |-> q.i + 1,
                   cached_at |-> now, since |-> q.since]
         IN  /\ Finish(r, a) /\ a \in Answers
             /\ e \in Entry /\ cache' = [cache EXCEPT ![q.ref] = e]
             /\ q.ref \in Reveals[q.block] /\ q.block \in seen[r]
             /\ RevealHeight(q) = Height(q.block) /\ q.i + 1 \in 1 .. MaxLookahead
             /\ Height(q.block) = Height(q.commit) + q.i /\ Height(q.commit) \in Nat
             /\ q.commit \in seen[r] /\ q.ref \in Mints[q.commit]
             /\ q.ref \in Refs /\ q.pc = "block"
             /\ UNCHANGED <<chain, now, left, seen>>
<1>. DEFINE q == req[r]
<1>1. q.pc = "block" /\ HandlerOK(q, seen[r]) /\ seen[r] \subseteq ChainBlocks
  BY DEF OnBlockFound, Replied, LookupInv, SeenOK
<1>2. /\ q.block \in seen[r] /\ q.commit \in seen[r] /\ q.ref \in Mints[q.commit]
      /\ q.ref \in Refs /\ q.since \in 0 .. MaxNow /\ q.i \in 0 .. MaxLookahead - 1
      /\ q.commitHeight = Height(q.commit) /\ Height(q.block) = q.commitHeight + q.i
  BY <1>1 DEF HandlerOK, Looking
<1>3. Height(q.block) \in Nat /\ Height(q.commit) \in Nat /\ q.block \in Blocks
  BY <1>1, <1>2, HeightIsNat
<1>4. q.i + 1 \in 1 .. MaxLookahead /\ q.i + 1 \in 0 .. MaxLookahead
  BY <1>2, LimitAssumption
<1>5. RevealHeight(q) = Height(q.block)
  BY <1>2 DEF RevealHeight
<1>6. now \in 0 .. MaxNow
  BY DEF LookupInv
<1>7. Answer("lookup", q.block, RevealHeight(q), q.i + 1) \in Answers
  BY <1>3, <1>4, <1>5 DEF Answer, Answers
<1>8. [block |-> q.block, height |-> RevealHeight(q), scanned |-> q.i + 1,
       cached_at |-> now, since |-> q.since] \in Entry
  BY <1>2, <1>3, <1>4, <1>5, <1>6 DEF Entry
<1>9. q.ref \in Reveals[q.block] /\ UNCHANGED <<chain, now, left, seen>>
  BY DEF OnBlockFound, node
<1>10. /\ cache' = [cache EXCEPT ![q.ref] =
                      [block |-> q.block, height |-> RevealHeight(q), scanned |-> q.i + 1,
                       cached_at |-> now, since |-> q.since]]
       /\ Finish(r, Answer("lookup", q.block, RevealHeight(q), q.i + 1))
  BY DEF OnBlockFound
<1>. QED  BY <1>1, <1>2, <1>3, <1>4, <1>5, <1>7, <1>8, <1>9, <1>10

\* The reveal is served, and cached with its source.
LEMMA BlockFoundInv ==
  ASSUME LookupInv, GateInv', NEW r \in Requests, OnBlockFound(r)
  PROVE  LookupInv'
<1>. DEFINE q == req[r]
            a == Answer("lookup", q.block, RevealHeight(q), q.i + 1)
            e == [block |-> q.block, height |-> RevealHeight(q), scanned |-> q.i + 1,
                  cached_at |-> now, since |-> q.since]
<1>1. /\ Finish(r, a) /\ a \in Answers /\ e \in Entry
      /\ cache' = [cache EXCEPT ![q.ref] = e] /\ q.ref \in Refs /\ q.pc = "block"
      /\ UNCHANGED <<chain, now, left, seen>>
  BY BlockFoundFacts
<1>2. a = Answer("lookup", e.block, e.height, e.scanned)
  OBVIOUS
<1>. HIDE DEF a, e
<1>3. /\ Shape' /\ \A s \in Requests \ {r} : req'[s] = req[s]
      /\ req'[r].pc = "done" /\ req'[r].answer = a
      /\ req'[r].ref = q.ref /\ req'[r].i = q.i
  BY <1>1, FinishFields DEF LookupInv
<1>4. HandlerOK(req'[r], seen[r])
  BY <1>1, <1>3 DEF LookupInv, HandlerOK, Looking
<1>5. cache' \in [Refs -> Entry \cup {NoEntry}]
  BY <1>1 DEF LookupInv
<1>6. CacheOK'
  <2>1. ASSUME NEW ref \in Refs, cache'[ref] # NoEntry
        PROVE  \E s \in Requests : Source(ref, cache'[ref], req'[s])
    <3>1. CASE ref = q.ref
      <4>1. cache'[ref] = e
        BY <1>1, <3>1 DEF LookupInv
      <4>2. Source(ref, e, req'[r])
        BY <1>2, <1>3, <3>1 DEF Source
      <4>. QED  BY <4>1, <4>2
    <3>2. CASE ref # q.ref
      <4>1. cache'[ref] = cache[ref]
        BY <1>1, <3>2 DEF LookupInv
      <4>2. PICK s \in Requests : Source(ref, cache[ref], req[s])
        BY <2>1, <4>1 DEF LookupInv, CacheOK
      <4>3. s # r
        BY <1>1, <4>2 DEF Source
      <4>. QED  BY <1>3, <4>1, <4>2, <4>3
    <3>. QED  BY <3>1, <3>2
  <2>. QED  BY <2>1 DEF CacheOK, Source, Answer
<1>7. req'[r].pc \notin Looking
  BY <1>3 DEF Looking
<1>. QED  BY <1>1, <1>3, <1>4, <1>5, <1>6, <1>7, HandlerStep

\* The cached answer is one that was given.
LEMMA ServeFacts ==
  ASSUME LookupInv, NEW r \in Requests, NEW ref \in Refs, ServeCached(r, ref)
  PROVE  LET a == Answer("cache", cache[ref].block, cache[ref].height, cache[ref].scanned)
         IN  /\ a \in Answers /\ req[r].pc = "new"
             /\ \E s \in Requests : Source(ref, cache[ref], req[s])
             /\ Shape' /\ \A s \in Requests \ {r} : req'[s] = req[s]
             /\ req'[r].pc = "done" /\ req'[r].ref = ref /\ req'[r].answer = a
             /\ req'[r].i = req[r].i
             /\ UNCHANGED <<chain, now, left, seen, cache>>
<1>1. cache[ref] # NoEntry /\ cache[ref] \in Entry
  BY DEF LookupInv, ServeCached, Fresh
<1>2. Answer("cache", cache[ref].block, cache[ref].height, cache[ref].scanned) \in Answers
  <2>1. cache[ref].block \in Blocks /\ cache[ref].height \in Nat /\ cache[ref].scanned \in 1 .. MaxLookahead
    BY <1>1 DEF Entry
  <2>2. cache[ref].scanned \in 0 .. MaxLookahead
    BY <2>1, LimitAssumption
  <2>. QED  BY <2>1, <2>2 DEF Answer, Answers
<1>3. \E s \in Requests : Source(ref, cache[ref], req[s])
  BY <1>1 DEF LookupInv, CacheOK
<1>4. /\ Shape' /\ \A s \in Requests \ {r} : req'[s] = req[s]
      /\ req'[r].pc = "done" /\ req'[r].ref = ref
      /\ req'[r].answer = Answer("cache", cache[ref].block, cache[ref].height, cache[ref].scanned)
      /\ req'[r].i = req[r].i
  BY DEF LookupInv, Shape, ServeCached, Fields
<1>. QED  BY <1>2, <1>3, <1>4 DEF ServeCached, node

LEMMA ServeInv ==
  ASSUME LookupInv, GateInv', NEW r \in Requests, NEW ref \in Refs, ServeCached(r, ref)
  PROVE  LookupInv'
<1>. DEFINE a == Answer("cache", cache[ref].block, cache[ref].height, cache[ref].scanned)
<1>1. /\ a \in Answers /\ req[r].pc = "new"
      /\ Shape' /\ \A s \in Requests \ {r} : req'[s] = req[s]
      /\ req'[r].pc = "done" /\ req'[r].ref = ref /\ req'[r].answer = a
      /\ req'[r].i = req[r].i
      /\ UNCHANGED <<chain, now, left, seen, cache>>
  BY ServeFacts
<1>. HIDE DEF a
<1>2. HandlerOK(req'[r], seen[r])
  BY <1>1 DEF LookupInv, HandlerOK, Looking
<1>3. CacheOK'
  BY <1>1, CacheKept
<1>4. req'[r].pc \notin Looking
  BY <1>1 DEF Looking
<1>. QED  BY <1>1, <1>2, <1>3, <1>4, HandlerStep DEF LookupInv

\* A full gate: the answer is known at once.
LEMMA RefuseFacts ==
  ASSUME LookupInv, NEW r \in Requests, NEW ref \in Refs, Refuse(r, ref)
  PROVE  /\ Refusal("busy") \in Answers /\ req[r].pc = "new"
         /\ Shape' /\ \A s \in Requests \ {r} : req'[s] = req[s]
         /\ req'[r].pc = "done" /\ req'[r].ref = ref /\ req'[r].answer = Refusal("busy")
         /\ req'[r].i = req[r].i
         /\ cache' = [cache EXCEPT ![ref] = NoEntry]
         /\ UNCHANGED <<chain, now, left, seen>>
<1>1. Refusal("busy") \in Answers
  BY LimitAssumption DEF Refusal, Answer, Answers
<1>2. /\ Shape' /\ \A s \in Requests \ {r} : req'[s] = req[s]
      /\ req'[r].pc = "done" /\ req'[r].ref = ref /\ req'[r].answer = Refusal("busy")
      /\ req'[r].i = req[r].i
  BY DEF LookupInv, Shape, Refuse, Fields
<1>. QED  BY <1>1, <1>2 DEF Refuse, node

LEMMA RefuseInv ==
  ASSUME LookupInv, GateInv', NEW r \in Requests, NEW ref \in Refs, Refuse(r, ref)
  PROVE  LookupInv'
<1>1. /\ Refusal("busy") \in Answers /\ req[r].pc = "new"
      /\ Shape' /\ \A s \in Requests \ {r} : req'[s] = req[s]
      /\ req'[r].pc = "done" /\ req'[r].ref = ref /\ req'[r].answer = Refusal("busy")
      /\ req'[r].i = req[r].i
      /\ cache' = [cache EXCEPT ![ref] = NoEntry]
      /\ UNCHANGED <<chain, now, left, seen>>
  BY RefuseFacts
<1>2. HandlerOK(req'[r], seen[r])
  BY <1>1 DEF LookupInv, HandlerOK, Looking
<1>3. cache' \in [Refs -> Entry \cup {NoEntry}]
  BY <1>1 DEF LookupInv
<1>4. \A x \in Refs : cache'[x] \in {cache[x], NoEntry}
  BY <1>1 DEF LookupInv
<1>5. CacheOK'
  BY <1>1, <1>4, CacheKept
<1>6. req'[r].pc \notin Looking
  BY <1>1 DEF Looking
<1>. QED  BY <1>1, <1>2, <1>3, <1>5, <1>6, HandlerStep

\* The active blocks are blocks of the chains.
LEMMA ActiveInChains == chain \in Chains => Active \subseteq ChainBlocks
  BY DEF Active, ChainBlocks

\* A lookup opened: what is active now is what its time has seen.
LEMMA StartInv ==
  ASSUME LookupInv, GateInv', NEW r \in Requests, NEW ref \in Refs, StartLookup(r, ref)
  PROVE  LookupInv'
<1>1. /\ Shape' /\ \A s \in Requests \ {r} : req'[s] = req[s]
      /\ req'[r].pc = "rawtx" /\ req'[r].ref = ref /\ req'[r].since = now
      /\ req'[r].i = req[r].i /\ req'[r].reply = req[r].reply /\ req'[r].answer = req[r].answer
  BY DEF LookupInv, Shape, StartLookup, Fields
<1>2. /\ req[r].pc = "new" /\ cache' = [cache EXCEPT ![ref] = NoEntry]
      /\ seen' = [seen EXCEPT ![r] = Active] /\ UNCHANGED <<chain, now, left>>
  BY DEF StartLookup
<1>3. now \in 0 .. MaxNow /\ HandlerOK(req[r], seen[r])
  BY DEF LookupInv
<1>4. ~ Answered(req'[r])
  BY <1>1, <1>2, <1>3 DEF HandlerOK, Answered
<1>5. HandlerOK(req'[r], Active)
  BY <1>1, <1>2, <1>3, <1>4 DEF HandlerOK, Looking
<1>6. \A s \in Requests : HandlerOK(req'[s], seen'[s])
  BY <1>1, <1>2, <1>5 DEF LookupInv, SeenOK
<1>7. SeenOK'
  BY <1>1, <1>2, ActiveInChains DEF LookupInv, SeenOK, Active
<1>8. cache' \in [Refs -> Entry \cup {NoEntry}] /\ \A x \in Refs : cache'[x] \in {cache[x], NoEntry}
  BY <1>2 DEF LookupInv
<1>9. CacheOK'
  BY <1>1, <1>2, <1>8, CacheKept
<1>. QED  BY <1>1, <1>2, <1>6, <1>7, <1>8, <1>9 DEF LookupInv, HandlerOK, Passed, Answered

\* The node answers from the chain it has, all of which the lookup's time has seen.
LEMMA NodeAnswersInv ==
  ASSUME LookupInv, GateInv', NEW r \in Requests, NodeAnswers(r)
  PROVE  LookupInv'
<1>. DEFINE q == req[r]
            p == req'[r]
<1>1. q.pc \in Looking /\ UNCHANGED <<chain, now, left, seen, cache>>
  BY DEF NodeAnswers, node
<1>2. PICK reply \in {NodeReply(q), Failed} : req' = [req EXCEPT ![r].reply = reply]
  BY DEF NodeAnswers
<1>3. /\ Shape' /\ \A s \in Requests \ {r} : req'[s] = req[s]
      /\ p.pc = q.pc /\ p.ref = q.ref /\ p.i = q.i /\ p.commitHeight = q.commitHeight
      /\ p.block = q.block /\ p.commit = q.commit /\ p.since = q.since
      /\ p.answer = q.answer /\ p.reply = reply
  BY <1>2 DEF LookupInv, Shape, Fields
<1>4. HandlerOK(q, seen[r]) /\ Active \subseteq seen[r] /\ chain \in Chains
  BY <1>1 DEF LookupInv, SeenOK
<1>5. ASSUME reply \in {NoReply, Failed} PROVE HandlerOK(p, seen[r])
  <2>1. ~ Answered(p)
    BY <1>3, <1>5 DEF Answered
  <2>2. \A n \in 0 .. q.i - 1 : Passed(q, seen[r], n) => Passed(p, seen[r], n)
    BY <1>3 DEF Passed
  <2>3. q.pc # "new" /\ q.pc # "done"
    BY <1>1 DEF Looking
  <2>. HIDE DEF p, q
  <2>. QED  BY <1>3, <1>4, <2>1, <2>2, <2>3 DEF HandlerOK
<1>6. ASSUME reply \notin {NoReply, Failed} PROVE HandlerOK(p, seen[r])
  <2>1. reply = NodeReply(q)
    BY <1>6
  <2>2. CASE q.pc = "rawtx"
    <3>1. NodeReply(q) = IF \E b \in Active : q.ref \in Mints[b]
                         THEN CHOOSE b \in Active : q.ref \in Mints[b] ELSE Failed
      BY <2>2 DEF NodeReply
    <3>2. reply \in Active /\ q.ref \in Mints[reply]
      BY <1>6, <2>1, <3>1
    <3>. QED  BY <1>3, <1>4, <2>2, <3>2 DEF HandlerOK, Looking
  <2>3. CASE q.pc = "header"
    <3>1. reply = Height(q.commit)
      BY <2>1, <2>3 DEF NodeReply
    <3>. QED  BY <1>3, <1>4, <2>3, <3>1 DEF HandlerOK, Looking
  <2>4. CASE q.pc = "hash"
    <3>. DEFINE h == q.commitHeight + q.i
    <3>1. NodeReply(q) = IF h \in DOMAIN chain THEN chain[h] ELSE Failed
      BY <2>4 DEF NodeReply
    <3>2. h \in DOMAIN chain /\ reply = chain[h]
      BY <1>6, <2>1, <3>1
    <3>3. Height(reply) = h /\ reply \in Active
      BY <1>4, <3>2, HeightOf DEF Active, Range
    <3>. QED  BY <1>3, <1>4, <2>4, <3>3 DEF HandlerOK, Looking, Passed
  <2>5. CASE q.pc = "block"
    BY <1>3, <1>4, <2>5 DEF HandlerOK, Looking, Passed
  <2>. QED  BY <1>1, <2>2, <2>3, <2>4, <2>5 DEF Looking
<1>7. HandlerOK(p, seen[r])
  BY <1>5, <1>6
<1>8. req[r].pc # "done"
  BY <1>1 DEF Looking
<1>9. CacheOK'
  BY <1>1, <1>3, <1>8, CacheKept
<1>. QED  BY <1>1, <1>3, <1>7, <1>9, HandlerStep DEF LookupInv

\* The chain moves: every lookup under way has seen the new blocks too.
LEMMA NewTipInv ==
  ASSUME LookupInv, GateInv', NEW c \in Chains, NewTip(c)
  PROVE  LookupInv'
<1>1. /\ chain' = c /\ UNCHANGED <<now, cache, inFlight, req>>
      /\ seen' = [r \in Requests |->
                    IF req[r].pc \in Looking THEN seen[r] \cup Range(c) ELSE seen[r]]
      /\ left' = [b \in Blocks |-> IF b \in Active \ Range(c) THEN now ELSE left[b]]
  BY DEF NewTip
<1>2. \A r \in Requests : seen[r] \subseteq seen'[r]
  BY <1>1
<1>3. \A r \in Requests : HandlerOK(req'[r], seen'[r])
  BY <1>1, <1>2, HandlerGrows DEF LookupInv
<1>4. SeenOK'
  BY <1>1 DEF LookupInv, SeenOK, Active, ChainBlocks
<1>5. left' \in [Blocks -> 0 .. MaxNow]
  BY <1>1 DEF LookupInv
<1>6. CacheOK' /\ Shape'
  BY <1>1 DEF LookupInv, CacheOK, Source, Answer, Shape
<1>. QED
  BY <1>1, <1>3, <1>4, <1>5, <1>6 DEF LookupInv, HandlerOK, Passed, Answered

\* A step that changes at most the clock.
LEMMA ClockInv ==
  ASSUME LookupInv, GateInv', UNCHANGED <<chain, cache, inFlight, req, seen, left>>,
         now' \in 0 .. MaxNow
  PROVE  LookupInv'
<1>1. CacheOK' /\ Shape' /\ SeenOK'
  BY DEF LookupInv, CacheOK, Source, Answer, Shape, SeenOK, Active
<1>. QED  BY <1>1 DEF LookupInv, HandlerOK, Passed, Answered

\* Every step keeps the invariant.
LEMMA StepLookup == LookupInv /\ [Next]_vars => LookupInv'
<1>. SUFFICES ASSUME LookupInv, [Next]_vars PROVE LookupInv'
  OBVIOUS
<1>1. GateInv'
  BY StepGate DEF LookupInv
<1>2. CASE UNCHANGED vars
  BY <1>1, <1>2, ClockInv DEF vars, LookupInv
<1>3. ASSUME NEW c \in Chains, NewTip(c) PROVE LookupInv'
  BY <1>1, <1>3, NewTipInv
<1>4. CASE Tick
  <2>1. now' \in 0 .. MaxNow
    BY <1>4, LimitAssumption DEF Tick, LookupInv
  <2>. QED  BY <1>1, <1>4, <2>1, ClockInv DEF Tick
<1>5. ASSUME NEW r \in Requests, Arrive(r) PROVE LookupInv'
  BY <1>1, <1>5, ServeInv, RefuseInv, StartInv DEF Arrive
<1>6. ASSUME NEW r \in Requests, NodeAnswers(r) PROVE LookupInv'
  BY <1>1, <1>6, NodeAnswersInv
<1>7. ASSUME NEW r \in Requests, Resume(r) PROVE LookupInv'
  <2>1. CASE OnFailure(r)
    <3>1. /\ req[r].pc \in Looking /\ Finish(r, Refusal("error"))
          /\ UNCHANGED <<chain, now, left, seen, cache>>
      BY <2>1 DEF OnFailure, node
    <3>. QED  BY <1>1, <3>1, RefusalInv
  <2>2. CASE OnBlockLast(r)
    <3>1. /\ req[r].pc \in Looking /\ Finish(r, Refusal("notfound"))
          /\ UNCHANGED <<chain, now, left, seen, cache>>
      BY <2>2 DEF OnBlockLast, Replied, Looking, node
    <3>. QED  BY <1>1, <3>1, RefusalInv
  <2>. QED
    BY <1>1, <1>7, <2>1, <2>2, RawTxInv, HeaderInv, BlockHashInv, BlockFoundInv,
       BlockNextInv DEF Resume
<1>. QED  BY <1>2, <1>3, <1>4, <1>5, <1>6, <1>7 DEF Next

\* Every variable keeps its type.
THEOREM TypeCorrect == Spec => []TypeOK
<1>. QED  BY InitLookup, StepLookup, InvIsTyped, PTL DEF Spec

-----------------------------------------------------------------------------
\* The promise counts and takes ranges as the service does.
LEMMA SameOperators ==
  /\ \A f : Lookup!Range(f) = Range(f)
  /\ \A S : Lookup!Cardinality(S) = Cardinality(S)
<1>1. ASSUME NEW f PROVE Lookup!Range(f) = Range(f)
  BY DEF Lookup!Range, Range
<1>2. ASSUME NEW S PROVE Lookup!Cardinality(S) = Cardinality(S)
  BY DEF Lookup!Cardinality, Cardinality
<1>. QED  BY <1>1, <1>2

\* Nobody has asked: as the promise begins.
LEMMA InitMaps == Init => Lookup!Init
<1>. SUFFICES ASSUME Init PROVE Lookup!Init
  OBVIOUS
<1>1. \A r \in Requests : req[r].ref = NoRef /\ req[r].answer = NoAnswer
  BY DEF Init, NewRequest
<1>2. chain \in Chains /\ seen = [r \in Requests |-> {}]
  BY DEF Init
<1>. QED  BY <1>1, <1>2 DEF Lookup!Init

\* The lookups under way are the open ones of the promise.
LEMMA OpenIsLookups == LookupInv => Lookup!Open = Lookups
<1>. SUFFICES ASSUME LookupInv PROVE Lookup!Open = Lookups
  OBVIOUS
<1>1. ASSUME NEW r \in Requests
      PROVE  req[r].ref # NoRef /\ req[r].answer = NoAnswer <=> req[r].pc \in Looking
  <2>1. HandlerOK(req[r], seen[r])
    BY DEF LookupInv
  <2>. QED  BY <2>1, NoneAssumption DEF HandlerOK
<1>. QED  BY <1>1 DEF Lookup!Open, Lookups

\* A step that moves no chain, opens and answers nothing.
LEMMA Stutters ==
  ASSUME LookupInv, UNCHANGED <<chain, seen>>,
         \A r \in Requests : req'[r].ref = req[r].ref /\ req'[r].answer = req[r].answer
  PROVE  UNCHANGED Lookup!vars
  BY DEF Lookup!vars

\* The chain moves.
LEMMA NewTipMaps ==
  ASSUME LookupInv, NEW c \in Chains, NewTip(c)
  PROVE  Lookup!Move
<1>1. /\ chain' = c /\ req' = req
      /\ seen' = [r \in Requests |->
                    IF req[r].pc \in Looking THEN seen[r] \cup Range(c) ELSE seen[r]]
  BY DEF NewTip
<1>2. \A r \in Requests : req[r].pc \in Looking <=> r \in Lookup!Open
  BY OpenIsLookups DEF Lookups
<1>. QED  BY SameOperators, <1>1, <1>2 DEF Lookup!Move

\* A request asks, as its handler starts.
LEMMA AskMaps ==
  ASSUME LookupInv, NEW r \in Requests, NEW ref \in Refs, req[r].pc = "new",
         \A s \in Requests \ {r} : req'[s] = req[s], req'[r].ref = ref, chain' = chain
  PROVE  Lookup!Ask(r)
<1>1. req[r].ref = NoRef /\ ref # NoRef
  BY NoneAssumption DEF LookupInv, HandlerOK
<1>2. [s \in Requests |-> req'[s].ref]
        = [[s \in Requests |-> req[s].ref] EXCEPT ![r] = ref]
  OBVIOUS
<1>. QED  BY <1>1, <1>2 DEF Lookup!Ask

\* A request is answered.
LEMMA SayMaps ==
  ASSUME LookupInv, NEW r \in Requests, NEW a \in Answers,
         \A s \in Requests \ {r} : req'[s] = req[s], req'[r].answer = a
  PROVE  /\ Lookup!Say(r)
         /\ [s \in Requests |-> req'[s].answer]
              = [[s \in Requests |-> req[s].answer] EXCEPT ![r] = a]
<1>1. a # NoAnswer
  BY NoneAssumption
<1>2. [s \in Requests |-> req'[s].answer]
        = [[s \in Requests |-> req[s].answer] EXCEPT ![r] = a]
  OBVIOUS
<1>. QED  BY <1>1, <1>2 DEF Lookup!Say

\* A cached answer repeats one already given.
LEMMA ServeMaps ==
  ASSUME LookupInv, NEW r \in Requests, NEW ref \in Refs, ServeCached(r, ref)
  PROVE  Lookup!Repeat(r)
<1>. DEFINE a == Answer("cache", cache[ref].block, cache[ref].height, cache[ref].scanned)
<1>1. /\ a \in Answers /\ req[r].pc = "new"
      /\ \E s \in Requests : Source(ref, cache[ref], req[s])
      /\ \A s \in Requests \ {r} : req'[s] = req[s]
      /\ req'[r].ref = ref /\ req'[r].answer = a
      /\ UNCHANGED <<chain, seen>>
  BY ServeFacts
<1>2. PICK q \in Requests : Source(ref, cache[ref], req[q])
  BY <1>1
<1>3. /\ req[q].answer # NoAnswer /\ req[q].answer.kind = "lookup" /\ req[q].ref = ref
      /\ a = [req[q].answer EXCEPT !.kind = "cache"]
  <2>1. req[q].answer \in Answers
    BY <1>2 DEF LookupInv, HandlerOK, Source
  <2>. QED  BY <1>2, <2>1, NoneAssumption DEF Source, Answer
<1>. HIDE DEF a
<1>4. Lookup!Ask(r)
  BY <1>1, AskMaps
<1>5. [s \in Requests |-> req'[s].answer]
        = [[s \in Requests |-> req[s].answer] EXCEPT ![r] = a]
  BY <1>1, SayMaps
<1>. QED  BY <1>1, <1>3, <1>4, <1>5 DEF Lookup!Repeat

\* A request is turned away by a full gate.
LEMMA RefuseMaps ==
  ASSUME LookupInv, NEW r \in Requests, NEW ref \in Refs, Refuse(r, ref)
  PROVE  Lookup!TurnAway(r)
<1>1. /\ Refusal("busy") \in Answers /\ req[r].pc = "new"
      /\ \A s \in Requests \ {r} : req'[s] = req[s]
      /\ req'[r].ref = ref /\ req'[r].answer = Refusal("busy")
      /\ UNCHANGED <<chain, seen>>
  BY RefuseFacts
<1>2. Lookup!Ask(r) /\ Lookup!Say(r)
  BY <1>1, AskMaps, SayMaps
<1>3. Cardinality(Lookup!Open) = MaxInFlight
  <2>1. inFlight = Cardinality(Lookups) /\ inFlight <= MaxInFlight
    BY DEF LookupInv, GateInv, GateExact
  <2>2. ~ (inFlight < MaxInFlight)
    BY DEF Refuse, GateOpen
  <2>. QED  BY <2>1, <2>2, OpenIsLookups, LookupsFinite, LimitAssumption
<1>4. Refusal("busy").kind = "busy"
  BY DEF Refusal, Answer
<1>. QED  BY SameOperators, <1>1, <1>2, <1>3, <1>4 DEF Lookup!TurnAway

\* A lookup is opened through an open gate.
LEMMA StartMaps ==
  ASSUME LookupInv, NEW r \in Requests, NEW ref \in Refs, StartLookup(r, ref)
  PROVE  Lookup!Begin(r)
<1>1. /\ \A s \in Requests \ {r} : req'[s] = req[s]
      /\ req'[r].ref = ref /\ req'[r].answer = req[r].answer
  BY DEF LookupInv, Shape, StartLookup, Fields
<1>2. /\ req[r].pc = "new" /\ chain' = chain /\ inFlight < MaxInFlight
      /\ seen' = [seen EXCEPT ![r] = Range(chain)]
  BY DEF StartLookup, GateOpen, Active
<1>3. Lookup!Ask(r)
  BY <1>1, <1>2, AskMaps
<1>4. Cardinality(Lookup!Open) < MaxInFlight
  BY <1>2, OpenIsLookups DEF LookupInv, GateInv, GateExact
<1>5. [s \in Requests |-> req'[s].answer] = [s \in Requests |-> req[s].answer]
  BY <1>1
<1>. QED  BY SameOperators, <1>2, <1>3, <1>4, <1>5 DEF Lookup!Begin

\* A lookup ends with a justified answer.
LEMMA FinishMaps ==
  ASSUME LookupInv, NEW r \in Requests, req[r].pc \in Looking,
         NEW a \in Answers, Finish(r, a), UNCHANGED <<chain, seen>>,
         Lookup!Justified(req[r].ref, seen[r], a)
  PROVE  Lookup!Close(r)
<1>1. /\ \A s \in Requests \ {r} : req'[s] = req[s]
      /\ req'[r].answer = a /\ req'[r].ref = req[r].ref
  BY FinishFields DEF LookupInv
<1>2. r \in Lookup!Open
  BY OpenIsLookups DEF Lookups
<1>3. Lookup!Say(r)
  BY <1>1, SayMaps
<1>4. [s \in Requests |-> req'[s].ref] = [s \in Requests |-> req[s].ref]
  BY <1>1
<1>. QED  BY <1>1, <1>2, <1>3, <1>4 DEF Lookup!Close

\* A call failed.
LEMMA FailureMaps ==
  ASSUME LookupInv, NEW r \in Requests, OnFailure(r)
  PROVE  Lookup!Close(r)
<1>1. req[r].pc \in Looking /\ Finish(r, Refusal("error")) /\ UNCHANGED <<chain, seen>>
  BY DEF OnFailure, node
<1>2. Refusal("error") \in Answers /\ Refusal("error").kind = "error"
  BY LimitAssumption DEF Refusal, Answer, Answers
<1>3. Lookup!Justified(req[r].ref, seen[r], Refusal("error"))
  BY <1>2 DEF Lookup!Justified
<1>. QED  BY <1>1, <1>2, <1>3, FinishMaps

\* The reveal was found, so many blocks above the commit.
LEMMA FoundMaps ==
  ASSUME LookupInv, NEW r \in Requests, OnBlockFound(r)
  PROVE  Lookup!Close(r)
<1>. DEFINE q == req[r]
            a == Answer("lookup", q.block, RevealHeight(q), q.i + 1)
<1>1. /\ Finish(r, a) /\ a \in Answers
      /\ q.ref \in Reveals[q.block] /\ q.block \in seen[r]
      /\ RevealHeight(q) = Height(q.block) /\ q.i + 1 \in 1 .. MaxLookahead
      /\ Height(q.block) = Height(q.commit) + q.i /\ Height(q.commit) \in Nat
      /\ q.commit \in seen[r] /\ q.ref \in Mints[q.commit]
      /\ q.pc \in Looking /\ UNCHANGED <<chain, seen>>
  BY BlockFoundFacts DEF Looking
<1>2. /\ a.kind = "lookup" /\ a.block = q.block /\ a.height = Height(q.block)
      /\ a.scanned = q.i + 1
  BY <1>1 DEF Answer
<1>3. q.i \in Nat
  BY DEF LookupInv, HandlerOK
<1>4. a.scanned = a.height - Height(q.commit) + 1
  BY <1>1, <1>2, <1>3
<1>. HIDE DEF a
<1>5. Lookup!Found(q.ref, seen[r], a)
  BY <1>1, <1>2, <1>4 DEF Lookup!Found
<1>6. Lookup!Justified(q.ref, seen[r], a)
  BY <1>2, <1>5 DEF Lookup!Justified
<1>. QED  BY <1>1, <1>6, FinishMaps

\* The walk is over, every height of it passed.
LEMMA LastMaps ==
  ASSUME LookupInv, NEW r \in Requests, OnBlockLast(r)
  PROVE  Lookup!Close(r)
<1>. DEFINE q == req[r]
            a == Refusal("notfound")
<1>1. /\ q.pc = "block" /\ q.ref \notin Reveals[q.block] /\ ~ (q.i + 1 < MaxLookahead)
      /\ Finish(r, a) /\ UNCHANGED <<chain, seen>>
  BY DEF OnBlockLast, Replied, MoreToScan, node
<1>2. HandlerOK(q, seen[r]) /\ seen[r] \subseteq ChainBlocks
  BY DEF LookupInv, SeenOK
<1>3. /\ q.commit \in seen[r] /\ q.ref \in Mints[q.commit]
      /\ q.commitHeight = Height(q.commit)
      /\ \A n \in 0 .. q.i - 1 : Passed(q, seen[r], n)
      /\ q.block \in seen[r] /\ Height(q.block) = q.commitHeight + q.i
      /\ q.i \in 0 .. MaxLookahead - 1
  BY <1>1, <1>2 DEF HandlerOK
<1>4. Height(q.commit) \in Nat
  BY <1>2, <1>3, HeightIsNat
<1>5. q.i = MaxLookahead - 1
  BY <1>1, <1>3, LimitAssumption
<1>6. \A n \in 0 .. MaxLookahead - 1 : Passed(q, seen[r], n)
  <2>1. Passed(q, seen[r], q.i)
    BY <1>1, <1>3 DEF Passed
  <2>2. \A n \in 0 .. MaxLookahead - 1 : n \in 0 .. q.i - 1 \/ n = q.i
    BY <1>5, LimitAssumption
  <2>. QED  BY <1>3, <2>1, <2>2
<1>7. ASSUME NEW n \in Height(q.commit) .. Height(q.commit) + MaxLookahead - 1
      PROVE  \E d \in seen[r] : Height(d) = n /\ q.ref \notin Reveals[d]
  <2>1. n - Height(q.commit) \in 0 .. MaxLookahead - 1
    BY <1>4, LimitAssumption
  <2>2. Passed(q, seen[r], n - Height(q.commit))
    BY <1>6, <2>1
  <2>3. PICK d \in seen[r] : /\ Height(d) = q.commitHeight + (n - Height(q.commit))
                             /\ q.ref \notin Reveals[d]
    BY <2>2 DEF Passed
  <2>. QED  BY <1>3, <1>4, <2>3, LimitAssumption
<1>8. Lookup!NotFound(q.ref, seen[r])
  BY <1>3, <1>7 DEF Lookup!NotFound
<1>9. a \in Answers /\ a.kind = "notfound"
  BY LimitAssumption DEF Refusal, Answer, Answers
<1>10. Lookup!Justified(q.ref, seen[r], a)
  BY <1>8, <1>9 DEF Lookup!Justified
<1>. QED  BY <1>1, <1>9, <1>10, FinishMaps DEF Looking

\* The node's answer, and going on to the next call, say nothing.
LEMMA CallStutters ==
  ASSUME LookupInv, NEW r \in Requests,
         NodeAnswers(r) \/ OnRawTx(r) \/ OnHeader(r) \/ OnBlockHash(r) \/ OnBlockNext(r)
  PROVE  UNCHANGED Lookup!vars
<1>1. CASE NodeAnswers(r)
  <2>1. PICK reply : req' = [req EXCEPT ![r].reply = reply]
    BY <1>1 DEF NodeAnswers
  <2>2. \A s \in Requests : req'[s].ref = req[s].ref /\ req'[s].answer = req[s].answer
    BY <2>1 DEF LookupInv, Shape, Fields
  <2>. QED  BY <1>1, <2>2, Stutters DEF NodeAnswers, node
<1>2. CASE OnRawTx(r) \/ OnHeader(r) \/ OnBlockHash(r) \/ OnBlockNext(r)
  <2>1. DOMAIN req[r] = Fields
    BY DEF LookupInv, Shape
  <2>. DEFINE Keeps(q) == /\ DOMAIN q = Fields /\ q.ref = req[r].ref
                          /\ q.answer = req[r].answer
  <2>2. PICK q : Keeps(q) /\ Await(r, q)
    <3>1. /\ Keeps([req[r] EXCEPT !.pc = "header", !.commit = req[r].reply])
          /\ Keeps([req[r] EXCEPT !.pc = "hash", !.commitHeight = req[r].reply, !.i = FirstStep])
          /\ Keeps([req[r] EXCEPT !.pc = "block", !.block = req[r].reply])
          /\ Keeps([req[r] EXCEPT !.pc = "hash", !.i = @ + 1])
      BY <2>1 DEF Fields
    <3>. HIDE DEF Keeps
    <3>. QED  BY <1>2, <3>1 DEF OnRawTx, OnHeader, OnBlockHash, OnBlockNext
  <2>3. \A s \in Requests : req'[s].ref = req[s].ref /\ req'[s].answer = req[s].answer
    BY <2>2, AwaitFields DEF LookupInv
  <2>4. UNCHANGED <<chain, seen>>
    BY <1>2 DEF OnRawTx, OnHeader, OnBlockHash, OnBlockNext, node
  <2>. QED  BY <2>3, <2>4, Stutters
<1>. QED  BY <1>1, <1>2

\* Every step is a step of the promise, or none.
LEMMA StepMaps == LookupInv /\ [Next]_vars => [Lookup!Next]_(Lookup!vars)
<1>. SUFFICES ASSUME LookupInv, [Next]_vars PROVE [Lookup!Next]_(Lookup!vars)
  OBVIOUS
<1>1. CASE UNCHANGED vars \/ Tick
  BY <1>1, Stutters DEF vars, Tick
<1>2. ASSUME NEW c \in Chains, NewTip(c) PROVE Lookup!Next
  BY <1>2, NewTipMaps DEF Lookup!Next
<1>3. ASSUME NEW r \in Requests, Arrive(r) PROVE Lookup!Next
  BY <1>3, ServeMaps, RefuseMaps, StartMaps DEF Arrive, Lookup!Next
<1>4. ASSUME NEW r \in Requests, OnFailure(r) \/ OnBlockFound(r) \/ OnBlockLast(r)
      PROVE  Lookup!Next
  BY <1>4, FailureMaps, FoundMaps, LastMaps DEF Lookup!Next
<1>5. ASSUME NEW r \in Requests,
             NodeAnswers(r) \/ OnRawTx(r) \/ OnHeader(r) \/ OnBlockHash(r) \/ OnBlockNext(r)
      PROVE  UNCHANGED Lookup!vars
  BY <1>5, CallStutters
<1>. QED  BY <1>1, <1>2, <1>3, <1>4, <1>5 DEF Next, Resume

\* findReveal keeps the promise of LookupService: found and not-found are the truth
\* about blocks active while the lookup was open, a cached answer repeats one given
\* before, and only a full gate turns a request away.
THEOREM PromiseIsKept == Spec => ImplementsLookup
<1>. QED  BY InitLookup, StepLookup, InitMaps, StepMaps, PTL DEF Spec, ImplementsLookup, Lookup!Spec

-----------------------------------------------------------------------------
(***************************************************************************)
(* The age of what the cache serves.                                       *)
(***************************************************************************)
\* The block has been on the active chain at t or later.
Lasted(b, t) == b \in Active \/ left[b] >= t

\* Every block a lookup has seen was active while it was open, so the block it
\* caches was active no earlier than at its beginning.
StaleInv ==
  /\ \A r \in Requests : req[r].pc \in Looking =>
       req[r].since \in 0 .. now /\ \A b \in seen[r] : Lasted(b, req[r].since)
  /\ \A ref \in Refs : cache[ref] # NoEntry =>
       cache[ref].since \in 0 .. now /\ Lasted(cache[ref].block, cache[ref].since)

\* A step of the handlers, the node standing still; what is new in the cache has been
\* seen by a lookup.
LEMMA StaleKept ==
  ASSUME StaleInv, UNCHANGED node,
         \A s \in Requests : req'[s].pc \in Looking =>
           req[s].pc \in Looking /\ req'[s].since = req[s].since,
         \A ref \in Refs :
           \/ cache'[ref] \in {cache[ref], NoEntry}
           \/ \E s \in Requests : /\ req[s].pc \in Looking /\ cache'[ref].block \in seen[s]
                                  /\ cache'[ref].since = req[s].since
  PROVE  StaleInv'
<1>1. Active' = Active /\ now' = now /\ left' = left /\ seen' = seen
  BY DEF node, Active
<1>2. \A b, t : Lasted(b, t)' <=> Lasted(b, t)
  BY <1>1 DEF Lasted
<1>3. ASSUME NEW ref \in Refs, cache'[ref] # NoEntry
      PROVE  cache'[ref].since \in 0 .. now /\ Lasted(cache'[ref].block, cache'[ref].since)
  BY <1>3 DEF StaleInv
<1>4. ASSUME NEW s \in Requests, req'[s].pc \in Looking
      PROVE  req'[s].since \in 0 .. now /\ \A b \in seen[s] : Lasted(b, req'[s].since)
  BY <1>4 DEF StaleInv
<1>. QED  BY <1>1, <1>2, <1>3, <1>4 DEF StaleInv, Lasted

\* A block that leaves the chain leaves it now.
LEMMA LastedOn ==
  ASSUME LookupInv, NEW c \in Chains, NewTip(c), NEW b \in Blocks, NEW t \in 0 .. now,
         Lasted(b, t)
  PROVE  b \in Range(c) \/ left'[b] >= t
<1>1. left'[b] = IF b \in Active \ Range(c) THEN now ELSE left[b]
  BY DEF NewTip
<1>2. now \in Nat
  BY LimitAssumption DEF LookupInv
<1>. QED  BY <1>1, <1>2 DEF Lasted

LEMMA StaleTip ==
  ASSUME LookupInv, StaleInv, NEW c \in Chains, NewTip(c)
  PROVE  StaleInv'
<1>1. /\ Active' = Range(c) /\ UNCHANGED <<now, cache, req>>
      /\ \A r \in Requests : req[r].pc \in Looking => seen'[r] = seen[r] \cup Range(c)
  BY DEF NewTip, Active
<1>2. ASSUME NEW r \in Requests, req[r].pc \in Looking, NEW b \in seen'[r]
      PROVE  b \in Range(c) \/ left'[b] >= req[r].since
  <2>1. CASE b \in Range(c)
    BY <2>1
  <2>2. CASE b \in seen[r]
    <3>1. b \in Blocks
      BY <2>2, HeightIsNat DEF LookupInv, SeenOK
    <3>2. req[r].since \in 0 .. now /\ Lasted(b, req[r].since)
      BY <1>2, <2>2 DEF StaleInv
    <3>. QED  BY <3>1, <3>2, LastedOn
  <2>. QED  BY <1>1, <1>2, <2>1, <2>2
<1>3. ASSUME NEW ref \in Refs, cache[ref] # NoEntry
      PROVE  cache[ref].block \in Range(c) \/ left'[cache[ref].block] >= cache[ref].since
  <2>1. cache[ref].block \in Blocks
    BY <1>3 DEF LookupInv, Entry
  <2>2. cache[ref].since \in 0 .. now /\ Lasted(cache[ref].block, cache[ref].since)
    BY <1>3 DEF StaleInv
  <2>. QED  BY <2>1, <2>2, LastedOn
<1>. QED  BY <1>1, <1>2, <1>3 DEF StaleInv, Lasted

LEMMA StaleTick ==
  ASSUME LookupInv, StaleInv, Tick
  PROVE  StaleInv'
<1>1. now' = now + 1 /\ UNCHANGED <<chain, cache, req, seen, left>> /\ now \in Nat
  BY LimitAssumption DEF Tick, LookupInv
<1>2. \A t : t \in 0 .. now => t \in 0 .. now'
  BY <1>1
<1>3. Active' = Active
  BY <1>1 DEF Active
<1>. QED  BY <1>1, <1>2, <1>3 DEF StaleInv, Lasted

\* A lookup opened: it has seen what is active now.
LEMMA StaleStart ==
  ASSUME LookupInv, StaleInv, NEW r \in Requests, NEW ref \in Refs, StartLookup(r, ref)
  PROVE  StaleInv'
<1>1. /\ \A s \in Requests \ {r} : req'[s] = req[s] /\ seen'[s] = seen[s]
      /\ req'[r].since = now /\ seen'[r] = Active
      /\ UNCHANGED <<chain, now, left>> /\ Active' = Active
  BY DEF LookupInv, Shape, SeenOK, StartLookup, Fields, Active
<1>2. \A x \in Refs : cache'[x] \in {cache[x], NoEntry}
  BY DEF LookupInv, StartLookup
<1>3. now \in 0 .. now
  BY LimitAssumption DEF LookupInv
<1>. QED  BY <1>1, <1>2, <1>3 DEF StaleInv, Lasted

\* What a radiant-cli call leaves of the handlers: they keep the beginning of
\* their lookups.
LEMMA StaleCall ==
  ASSUME LookupInv, StaleInv, NEW r \in Requests,
         NodeAnswers(r) \/ OnRawTx(r) \/ OnHeader(r) \/ OnBlockHash(r) \/ OnBlockNext(r)
  PROVE  StaleInv'
<1>1. CASE NodeAnswers(r)
  <2>1. PICK reply : req' = [req EXCEPT ![r].reply = reply]
    BY <1>1 DEF NodeAnswers
  <2>2. \A s \in Requests : req'[s].pc = req[s].pc /\ req'[s].since = req[s].since
    BY <2>1 DEF LookupInv, Shape, Fields
  <2>3. UNCHANGED node /\ cache' = cache
    BY <1>1 DEF NodeAnswers
  <2>. QED  BY <2>2, <2>3, StaleKept
<1>2. CASE OnRawTx(r) \/ OnHeader(r) \/ OnBlockHash(r) \/ OnBlockNext(r)
  <2>1. DOMAIN req[r] = Fields /\ req[r].pc \in Looking
    BY <1>2 DEF LookupInv, Shape, OnRawTx, OnHeader, OnBlockHash, OnBlockNext, Replied, Looking
  <2>. DEFINE Keeps(q) == DOMAIN q = Fields /\ q.since = req[r].since
  <2>2. PICK q : Keeps(q) /\ Await(r, q)
    <3>1. /\ Keeps([req[r] EXCEPT !.pc = "header", !.commit = req[r].reply])
          /\ Keeps([req[r] EXCEPT !.pc = "hash", !.commitHeight = req[r].reply, !.i = FirstStep])
          /\ Keeps([req[r] EXCEPT !.pc = "block", !.block = req[r].reply])
          /\ Keeps([req[r] EXCEPT !.pc = "hash", !.i = @ + 1])
      BY <2>1 DEF Fields
    <3>. HIDE DEF Keeps
    <3>. QED  BY <1>2, <3>1 DEF OnRawTx, OnHeader, OnBlockHash, OnBlockNext
  <2>3. req'[r].since = req[r].since /\ \A s \in Requests \ {r} : req'[s] = req[s]
    BY <2>2, AwaitFields DEF LookupInv
  <2>4. UNCHANGED node /\ cache' = cache
    BY <1>2, <2>2 DEF OnRawTx, OnHeader, OnBlockHash, OnBlockNext, Await
  <2>. QED  BY <2>1, <2>3, <2>4, StaleKept
<1>. QED  BY <1>1, <1>2

\* The block cached is one the lookup has seen.
LEMMA StaleFound ==
  ASSUME LookupInv, StaleInv, NEW r \in Requests, OnBlockFound(r)
  PROVE  StaleInv'
<1>. DEFINE q == req[r]
            a == Answer("lookup", q.block, RevealHeight(q), q.i + 1)
            e == [block |-> q.block, height |-> RevealHeight(q), scanned |-> q.i + 1,
                  cached_at |-> now, since |-> q.since]
<1>1. /\ Finish(r, a) /\ cache' = [cache EXCEPT ![q.ref] = e] /\ q.block \in seen[r]
      /\ q.pc = "block" /\ UNCHANGED <<chain, now, left, seen>>
  BY BlockFoundFacts
<1>2. e.block = q.block /\ e.since = q.since
  OBVIOUS
<1>. HIDE DEF a, e
<1>3. req'[r].pc = "done" /\ \A s \in Requests \ {r} : req'[s] = req[s]
  BY <1>1, FinishFields DEF LookupInv
<1>4. \A ref \in Refs : cache'[ref] = cache[ref] \/ cache'[ref] = e
  BY <1>1 DEF LookupInv
<1>5. q.pc \in Looking /\ "done" \notin Looking
  BY <1>1 DEF Looking
<1>6. UNCHANGED node
  BY <1>1 DEF node
<1>. QED  BY <1>1, <1>2, <1>3, <1>4, <1>5, <1>6, StaleKept

\* Every other step ends a request, or is none.
LEMMA StaleEnd ==
  ASSUME LookupInv, StaleInv, NEW r \in Requests,
         \/ OnFailure(r) \/ OnBlockLast(r)
         \/ \E ref \in Refs : ServeCached(r, ref) \/ Refuse(r, ref)
  PROVE  StaleInv'
<1>1. CASE OnFailure(r) \/ OnBlockLast(r)
  <2>1. PICK answer : Finish(r, answer)
    BY <1>1 DEF OnFailure, OnBlockLast
  <2>2. req'[r].pc = "done" /\ \A s \in Requests \ {r} : req'[s] = req[s]
    BY <2>1, FinishFields DEF LookupInv
  <2>3. UNCHANGED node /\ cache' = cache
    BY <1>1 DEF OnFailure, OnBlockLast
  <2>. QED  BY <2>2, <2>3, StaleKept DEF Looking
<1>2. ASSUME NEW ref \in Refs, ServeCached(r, ref) \/ Refuse(r, ref) PROVE StaleInv'
  <2>1. req'[r].pc = "done" /\ \A s \in Requests \ {r} : req'[s] = req[s]
    BY <1>2, ServeFacts, RefuseFacts
  <2>2. \A x \in Refs : cache'[x] \in {cache[x], NoEntry}
    BY <1>2 DEF ServeCached, Refuse, LookupInv
  <2>3. UNCHANGED node
    BY <1>2 DEF ServeCached, Refuse
  <2>. QED  BY <2>1, <2>2, <2>3, StaleKept DEF Looking
<1>. QED  BY <1>1, <1>2

LEMMA InitStale == Init => StaleInv
  BY DEF Init, StaleInv, NewRequest, Looking

LEMMA StepStale == LookupInv /\ StaleInv /\ [Next]_vars => StaleInv'
<1>. SUFFICES ASSUME LookupInv, StaleInv, [Next]_vars PROVE StaleInv'
  OBVIOUS
<1>1. CASE UNCHANGED vars
  BY <1>1, StaleKept DEF vars, node
<1>2. ASSUME NEW c \in Chains, NewTip(c) PROVE StaleInv'
  BY <1>2, StaleTip
<1>3. CASE Tick
  BY <1>3, StaleTick
<1>4. ASSUME NEW r \in Requests, Arrive(r) \/ NodeAnswers(r) \/ Resume(r) PROVE StaleInv'
  BY <1>4, StaleStart, StaleCall, StaleFound, StaleEnd DEF Arrive, Resume
<1>. QED  BY <1>1, <1>2, <1>3, <1>4 DEF Next

\* A fresh entry's block was active no earlier than its lookup began.
LEMMA ServedIsFresh ==
  ASSUME LookupInv, StaleInv, NEW r \in Requests, NEW ref \in Refs, ServeCached(r, ref)
  PROVE  LET e == cache[ref] IN
         e.block \in Active \/ now - left[e.block] < TTL + (e.cached_at - e.since)
<1>. DEFINE e == cache[ref]
<1>1. e # NoEntry /\ now - e.cached_at < TTL
  BY DEF ServeCached, Fresh
<1>2. e.block \in Blocks /\ e.cached_at \in Nat /\ e.since \in Nat
  BY <1>1, LimitAssumption DEF LookupInv, Entry
<1>3. e.block \in Active \/ left[e.block] >= e.since
  BY <1>1 DEF StaleInv, Lasted
<1>4. left[e.block] \in Nat /\ now \in Nat /\ TTL \in Nat
  BY <1>2, LimitAssumption DEF LookupInv
<1>. HIDE DEF e
<1>5. ASSUME left[e.block] >= e.since
      PROVE  now - left[e.block] < TTL + (e.cached_at - e.since)
  BY <1>1, <1>2, <1>4, <1>5
<1>. QED  BY <1>3, <1>5 DEF e

\* Only a cached answer is of the kind "cache", and a new request has none before.
LEMMA OnlyServed ==
  ASSUME LookupInv, [Next]_vars, NEW r \in Requests, req[r].pc = "new",
         req'[r].answer # NoAnswer, req'[r].answer.kind = "cache"
  PROVE  \E ref \in Refs : ServeCached(r, ref) /\ req'[r].ref = ref
<1>1. req[r].answer = NoAnswer
  BY DEF LookupInv, HandlerOK
<1>2. req'[r] # req[r]
  BY <1>1
<1>3. ASSUME NEW s \in Requests, NodeAnswers(s) \/ Resume(s) PROVE FALSE
  <2>1. req[s].pc \in Looking
    BY <1>3 DEF NodeAnswers, Resume, OnFailure, OnRawTx, OnHeader, OnBlockHash, OnBlockFound,
                OnBlockNext, OnBlockLast, Replied, Looking
  <2>2. \E x : req' = [req EXCEPT ![s] = x]
    BY <1>3 DEF NodeAnswers, Resume, OnFailure, OnRawTx, OnHeader, OnBlockHash, OnBlockFound,
                OnBlockNext, OnBlockLast, Finish, Await
  <2>. QED  BY <1>2, <2>1, <2>2 DEF LookupInv, Shape, Looking
<1>4. PICK s \in Requests, ref \in Refs :
        ServeCached(s, ref) \/ Refuse(s, ref) \/ StartLookup(s, ref)
  BY <1>2, <1>3 DEF Next, vars, NewTip, Tick, Arrive
<1>5. \A x \in Requests \ {s} : req'[x] = req[x]
  BY <1>4 DEF ServeCached, Refuse, StartLookup, LookupInv, Shape
<1>6. s = r
  BY <1>2, <1>5
<1>7. ~ StartLookup(r, ref)
  BY <1>1 DEF StartLookup, LookupInv, Shape, Fields
<1>8. ~ Refuse(r, ref)
  <2>1. Refuse(r, ref) => req'[r].answer = Refusal("busy")
    BY RefuseFacts
  <2>. QED  BY <2>1 DEF Refusal, Answer
<1>. QED  BY <1>4, <1>6, <1>7, <1>8, ServeFacts

\* What the cache serves was active within the last CACHE_TTL_MS and the time its
\* lookup took, for every fork, every lookahead and every interleaving of lookups.
THEOREM ServedIsRecent == Spec => ServedSoonAfterReorg
<1>1. LookupInv /\ StaleInv /\ [Next]_vars =>
        [\A r \in Requests :
           req[r].pc = "new" /\ req'[r].answer # NoAnswer /\ req'[r].answer.kind = "cache"
             => LET e == cache[req'[r].ref] IN
                \/ e.block \in Active
                \/ now - left[e.block] < TTL + (e.cached_at - e.since)]_vars
  BY OnlyServed, ServedIsFresh
<1>. QED
  BY <1>1, InitLookup, StepLookup, InitStale, StepStale, PTL DEF Spec, ServedSoonAfterReorg
=============================================================================
