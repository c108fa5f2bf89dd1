-------------------------- MODULE GlyphCardProofs --------------------------
(***************************************************************************)
(* The metadata card, for files of every size and every cap of the proxy:  *)
(* pictures are shown as what they are, and the outline has one of three   *)
(* causes.                                                                 *)
(***************************************************************************)
EXTENDS GlyphCard, TLAPS

\* Where a proxied fetch stands, and what has passed it: all that was sent, as
\* long as the cap holds and the connection does; in the end the whole file.
FetchInv(f, p) ==
  /\ p.wrote <= MaxChunks /\ p.wrote <= p.sent
  /\ p.extra => p.broke
  /\ p.pc \in {"idle", "asked"} => p.sent = 0 /\ p.wrote = 0 /\ ~ p.broke /\ p.status = 0
  /\ p.status = 200 => p.sent <= gateway[f].size
  /\ p.pc = "body" /\ ~ p.broke /\ p.sent <= MaxChunks => p.wrote = p.sent
  /\ p.pc \in {"ended", "checked"} /\ p.status = 200 /\ ~ p.broke
       /\ gateway[f].size <= MaxChunks => p.wrote = gateway[f].size

FetchesOK ==
  /\ proxy \in [Fetches -> Responses]
  /\ \A f \in Fetches : FetchInv(f, proxy[f])

Inv ==
  /\ TypeOK
  /\ gateway \in [Fetches -> [size : Sizes, swapped : BOOLEAN]]
  /\ FetchesOK
  /\ card # "shown" => proxy.img.pc = "idle"
  /\ ShownAsSniffed
  /\ OutlineExplained

\* A card not yet clicked on.
LEMMA InitInv == Init => Inv
<1>. SUFFICES ASSUME Init PROVE Inv
  OBVIOUS
<1>. USE SizeAssumption, NoneAssumption DEF Init
<1>1. Idle \in Responses
  BY DEF Idle, Responses
<1>2. proxy \in [Fetches -> Responses] /\ \A f \in Fetches : proxy[f] = Idle
  BY <1>1
<1>3. TypeOK
  <2>1. glyph \in Glyphs /\ card = "new" /\ picture = None /\ outline = FALSE
    BY DEF Init
  <2>2. \A f \in Fetches : proxy[f].wrote = 0 /\ proxy[f].sent = 0
    BY <1>2 DEF Idle
  <2>3. \A f \in Fetches : proxy[f].wrote <= MaxChunks /\ proxy[f].wrote <= proxy[f].sent
    BY <2>2
  <2>. HIDE DEF Init
  <2>. QED  BY <1>2, <2>1, <2>3 DEF TypeOK
<1>4. \A f \in Fetches : FetchInv(f, proxy[f])
  BY <1>2 DEF FetchInv, Idle
<1>5. ShownAsSniffed /\ OutlineExplained
  BY DEF ShownAsSniffed, OutlineExplained
<1>6. proxy.img.pc = "idle"
  BY <1>2 DEF Fetches, Idle
<1>7. gateway \in [Fetches -> [size : Sizes, swapped : BOOLEAN]]
  BY DEF Gateways
<1>. QED  BY <1>2, <1>3, <1>4, <1>5, <1>6, <1>7 DEF Inv, FetchesOK, TypeOK

\* A step of the proxy replaces one fetch by another that is as it should be.
LEMMA UpdateInv ==
  ASSUME Inv, NEW f \in Fetches, NEW p \in Responses, Update(f, p), FetchInv(f, p),
         proxy[f].pc # "idle", proxy[f].broke => p.broke
  PROVE  Inv'
<1>1. proxy' \in [Fetches -> Responses]
  BY DEF Inv, TypeOK, Update
<1>2. \A g \in Fetches : proxy'[g] = IF g = f THEN p ELSE proxy[g]
  BY DEF Inv, TypeOK, Update
<1>3. \A g \in Fetches : FetchInv(g, proxy'[g])
  BY <1>2 DEF Inv, FetchesOK
<1>4. \A g \in Fetches : FetchInv(g, proxy[g])'
  BY <1>3 DEF FetchInv, Update
<1>5. TypeOK'
  BY <1>1, <1>3 DEF Inv, TypeOK, Update, FetchInv
<1>6. OutlineExplained'
  BY <1>2 DEF Inv, OutlineExplained, Update, Fetches
<1>7. card' # "shown" => proxy'.img.pc = "idle"
  BY <1>2 DEF Inv, Update, Fetches
<1>. QED  BY <1>4, <1>5, <1>6, <1>7 DEF Inv, TypeOK, FetchesOK, Update, ShownAsSniffed

\* A record with the fields of a response is one.
LEMMA IsResponse ==
  ASSUME NEW p \in Responses, NEW q, q = [k \in DOMAIN p |-> q[k]],
         q.pc \in {"idle", "asked", "body", "ended", "checked"},
         q.status \in {0, 200, 502, 504}, q.sent \in Nat, q.wrote \in Nat,
         q.extra \in BOOLEAN, q.broke \in BOOLEAN
  PROVE  q \in Responses
<1>1. DOMAIN p = {"pc", "status", "sent", "wrote", "extra", "broke"}
  BY DEF Responses
<1>2. q = [k \in DOMAIN q |-> q[k]] /\ DOMAIN q = DOMAIN p
  OBVIOUS
<1>. QED  BY <1>1, <1>2, SMT DEF Responses

\* The types of a response's fields.
LEMMA ResponseFields ==
  ASSUME NEW p \in Responses
  PROVE  /\ p.status \in {0, 200, 502, 504} /\ p.sent \in Nat /\ p.wrote \in Nat
         /\ p.extra \in BOOLEAN /\ p.broke \in BOOLEAN
  BY DEF Responses

\* The proxy, whatever the gateway does.
LEMMA ProxyInv ==
  ASSUME Inv, NEW f \in Fetches, Proxy(f) \/ Break(f)
  PROVE  Inv'
<1>. DEFINE p == proxy[f]
<1>1. p \in Responses /\ FetchInv(f, p) /\ gateway[f].size \in Nat /\ MaxChunks \in Nat
  BY SizeAssumption DEF Inv, TypeOK, FetchesOK
<1>0. /\ p.status \in {0, 200, 502, 504} /\ p.sent \in Nat /\ p.wrote \in Nat
      /\ p.extra \in BOOLEAN /\ p.broke \in BOOLEAN
  BY <1>1, ResponseFields
<1>2. CASE Headers(f)
  <2>1. PICK status \in {200, 504} : Update(f, [p EXCEPT !.pc = "body", !.status = status])
    BY <1>2 DEF Headers
  <2>. DEFINE q == [p EXCEPT !.pc = "body", !.status = status]
  <2>2. Update(f, q) /\ p.pc = "asked"
    BY <1>2, <2>1 DEF Headers
  <2>3. /\ q.pc = "body" /\ q.status = status /\ q.sent = p.sent /\ q.wrote = p.wrote
        /\ q.extra = p.extra /\ q.broke = p.broke
    BY <1>1 DEF Responses
  <2>4. q = [k \in DOMAIN p |-> q[k]]
    OBVIOUS
  <2>. HIDE DEF q
  <2>5. q \in Responses
    BY <1>1, <1>0, <2>3, <2>4, IsResponse
  <2>6. FetchInv(f, q)
    BY <1>1, <1>0, <2>2, <2>3 DEF FetchInv
  <2>. QED  BY <2>2, <2>3, <2>5, <2>6, UpdateInv
<1>3. CASE Unreachable(f)
  <2>. DEFINE q == [p EXCEPT !.pc = "ended", !.status = 502]
  <2>1. Update(f, q) /\ p.pc = "asked"
    BY <1>3 DEF Unreachable
  <2>2. /\ q.pc = "ended" /\ q.status = 502 /\ q.sent = p.sent /\ q.wrote = p.wrote
        /\ q.extra = p.extra /\ q.broke = p.broke
    BY <1>1 DEF Responses
  <2>3. q = [k \in DOMAIN p |-> q[k]]
    OBVIOUS
  <2>. HIDE DEF q
  <2>4. q \in Responses
    BY <1>1, <1>0, <2>2, <2>3, IsResponse
  <2>5. FetchInv(f, q)
    BY <1>1, <1>0, <2>1, <2>2 DEF FetchInv
  <2>. QED  BY <2>1, <2>2, <2>4, <2>5, UpdateInv
<1>4. CASE Chunk(f)
  <2>. DEFINE over == [p EXCEPT !.sent = @ + 1, !.pc = "ended"]
              on   == [p EXCEPT !.sent = @ + 1, !.wrote = @ + 1]
  <2>1. p.pc = "body" /\ ~ p.broke /\ p.sent <= MaxChunks /\ p.sent < BodySize(f)
    BY <1>1, <1>4 DEF Chunk, Streaming, OverCap, Responses
  <2>2. \/ p.sent + 1 > MaxChunks /\ Update(f, over)
        \/ p.sent + 1 <= MaxChunks /\ Update(f, on)
    BY <1>1, <1>4 DEF Chunk, OverCap, EndOfCap, Responses
  <2>3. CASE p.sent + 1 > MaxChunks /\ Update(f, over)
    <3>1. /\ over.pc = "ended" /\ over.status = p.status /\ over.sent = p.sent + 1
          /\ over.wrote = p.wrote /\ over.extra = p.extra /\ over.broke = p.broke
      BY <1>1 DEF Responses
    <3>2. over = [k \in DOMAIN p |-> over[k]]
      OBVIOUS
    <3>. HIDE DEF over
    <3>3. over \in Responses
      BY <1>1, <1>0, <3>1, <3>2, IsResponse
    <3>4. FetchInv(f, over)
      BY <1>1, <1>0, <2>1, <2>3, <3>1 DEF FetchInv, BodySize
    <3>. QED  BY <2>1, <2>3, <3>1, <3>3, <3>4, UpdateInv
  <2>4. CASE p.sent + 1 <= MaxChunks /\ Update(f, on)
    <3>1. /\ on.pc = p.pc /\ on.status = p.status /\ on.sent = p.sent + 1
          /\ on.wrote = p.wrote + 1 /\ on.extra = p.extra /\ on.broke = p.broke
      BY <1>1 DEF Responses
    <3>2. on = [k \in DOMAIN p |-> on[k]]
      OBVIOUS
    <3>. HIDE DEF on
    <3>3. on \in Responses
      BY <1>1, <1>0, <2>1, <3>1, <3>2, IsResponse
    <3>4. FetchInv(f, on)
      BY <1>1, <1>0, <2>1, <2>4, <3>1 DEF FetchInv, BodySize
    <3>. QED  BY <2>1, <2>4, <3>1, <3>3, <3>4, UpdateInv
  <2>. QED  BY <2>2, <2>3, <2>4
<1>5. CASE End(f)
  <2>. DEFINE q == [p EXCEPT !.pc = "ended"]
  <2>1. Update(f, q) /\ p.pc = "body" /\ ~ p.broke /\ p.sent <= MaxChunks
        /\ p.sent = BodySize(f)
    BY <1>1, <1>5 DEF End, Streaming, OverCap, Responses
  <2>2. q \in Responses /\ FetchInv(f, q) /\ (p.broke => q.broke)
    BY <1>1, <2>1 DEF Responses, FetchInv, BodySize
  <2>. QED  BY <2>1, <2>2, UpdateInv
<1>6. CASE Break(f)
  <2>. DEFINE ended == [p EXCEPT !.broke = TRUE, !.extra = TRUE, !.pc = "ended"]
              open  == [p EXCEPT !.broke = TRUE]
  <2>1. p.pc = "body" /\ (Update(f, ended) \/ Update(f, open))
    BY <1>6 DEF Break, Streaming
  <2>2. /\ ended.pc = "ended" /\ ended.status = p.status /\ ended.sent = p.sent
        /\ ended.wrote = p.wrote /\ ended.extra = TRUE /\ ended.broke = TRUE
    BY <1>1 DEF Responses
  <2>3. /\ open.pc = p.pc /\ open.status = p.status /\ open.sent = p.sent
        /\ open.wrote = p.wrote /\ open.extra = p.extra /\ open.broke = TRUE
    BY <1>1 DEF Responses
  <2>4. ended = [k \in DOMAIN p |-> ended[k]] /\ open = [k \in DOMAIN p |-> open[k]]
    OBVIOUS
  <2>. HIDE DEF ended, open
  <2>5. ended \in Responses /\ open \in Responses
    <3>1. /\ ended.extra \in BOOLEAN /\ ended.broke \in BOOLEAN
          /\ open.extra \in BOOLEAN /\ open.broke \in BOOLEAN
      BY <1>0, <2>2, <2>3
    <3>2. /\ ended.pc \in {"idle", "asked", "body", "ended", "checked"}
          /\ ended.status \in {0, 200, 502, 504} /\ ended.sent \in Nat /\ ended.wrote \in Nat
      BY <1>0, <2>2
    <3>3. /\ open.pc \in {"idle", "asked", "body", "ended", "checked"}
          /\ open.status \in {0, 200, 502, 504} /\ open.sent \in Nat /\ open.wrote \in Nat
      BY <1>0, <2>1, <2>3
    <3>. QED  BY <1>1, <2>4, <3>1, <3>2, <3>3, IsResponse
  <2>6. FetchInv(f, ended) /\ FetchInv(f, open)
    BY <1>1, <1>0, <2>1, <2>2, <2>3 DEF FetchInv
  <2>. QED  BY <2>1, <2>2, <2>3, <2>5, <2>6, UpdateInv
<1>. QED  BY <1>2, <1>3, <1>4, <1>5, <1>6 DEF Proxy

\* A step that only moves one fetch on from asked or ended, or none, keeps what
\* is known of the fetches.
LEMMA MovedInv ==
  ASSUME Inv, NEW f \in Fetches, NEW pc,
         \/ pc = "asked" /\ proxy[f].pc = "idle"
         \/ pc = "checked" /\ proxy[f].pc = "ended",
         proxy' = [proxy EXCEPT ![f].pc = pc], gateway' = gateway
  PROVE  FetchesOK'
<1>. DEFINE q == [proxy[f] EXCEPT !.pc = pc]
<1>1. proxy[f] \in Responses /\ proxy \in [Fetches -> Responses]
  BY DEF Inv, TypeOK, FetchesOK
<1>2. q \in Responses /\ q.broke = proxy[f].broke
  BY <1>1 DEF Responses
<1>3. FetchInv(f, q)
  BY <1>1 DEF Responses, FetchInv, Inv, FetchesOK
<1>4. \A g \in Fetches : proxy'[g] = IF g = f THEN q ELSE proxy[g]
  BY <1>1
<1>5. \A g \in Fetches : FetchInv(g, proxy'[g])
  BY <1>3, <1>4 DEF Inv, FetchesOK
<1>6. proxy' \in [Fetches -> Responses]
  BY <1>1, <1>2
<1>. QED  BY <1>5, <1>6 DEF FetchesOK, FetchInv

\* What the page does, with the fetches as they were or one moved on.
LEMMA PageInv ==
  ASSUME Inv, Click \/ Fail \/ Show \/ StartCheck \/ Check \/ Load
  PROVE  Inv'
<1>0. /\ proxy \in [Fetches -> Responses]
      /\ "img" \in Fetches /\ "check" \in Fetches
  BY DEF Inv, TypeOK, Fetches
<1>1. CASE Click \/ Fail
  BY <1>1 DEF Inv, Click, Fail, TypeOK, FetchesOK, FetchInv, ShownAsSniffed, OutlineExplained
<1>2. CASE Show
  <2>1. Mime(glyph.declared, glyph.sniffed) \in SAFE_IMG_MIMES \cup {"rejected"}
    BY DEF Mime
  <2>2. /\ glyph' = glyph /\ gateway' = gateway /\ outline' = outline /\ card' = "shown"
        /\ picture' \in SAFE_IMG_MIMES \cup {None, "rejected", "ipfs"}
    BY <1>2, <2>1 DEF Show
  <2>3. ShownAsSniffed'
    <3>1. glyph.main => picture' = Mime(glyph.declared, glyph.sniffed)
      BY <1>2 DEF Show
    <3>2. ~ glyph.main => picture' \in {"ipfs", None}
      BY <1>2 DEF Show
    <3>. QED
      BY <2>2, <3>1, <3>2, NoneAssumption DEF ShownAsSniffed, Mime, SAFE_IMG_MIMES
  <2>4. FetchesOK'
    <3>1. CASE proxy' = proxy
      BY <2>2, <3>1 DEF Inv, FetchesOK, FetchInv, TypeOK
    <3>2. CASE proxy' = [proxy EXCEPT !["img"].pc = "asked"]
      <4>1. proxy["img"].pc = "idle"
        BY <1>2 DEF Inv, Show
      <4>. QED  BY <1>0, <2>2, <3>2, <4>1, MovedInv
    <3>. QED  BY <1>2, <3>1, <3>2 DEF Show
  <2>5. proxy'["check"].broke = proxy["check"].broke
    BY <1>0, <1>2 DEF Show
  <2>. QED
    BY <2>2, <2>3, <2>4, <2>5 DEF Inv, TypeOK, FetchesOK, FetchInv, OutlineExplained
<1>3. CASE StartCheck
  <2>1. proxy' = [proxy EXCEPT !["check"].pc = "asked"] /\ proxy["check"].pc = "idle"
    BY <1>3 DEF StartCheck
  <2>2. UNCHANGED <<glyph, gateway, card, picture, outline>>
    BY <1>3 DEF StartCheck
  <2>3. FetchesOK'
    BY <1>0, <2>1, <2>2, MovedInv
  <2>4. proxy'["img"] = proxy["img"] /\ proxy'["check"].broke = proxy["check"].broke
    BY <1>0, <2>1 DEF Responses
  <2>. QED
    BY <2>2, <2>3, <2>4
    DEF Inv, TypeOK, FetchesOK, FetchInv, OutlineExplained, ShownAsSniffed
<1>4. CASE Check
  <2>1. proxy' = [proxy EXCEPT !["check"].pc = "checked"] /\ proxy["check"].pc = "ended"
    BY <1>4 DEF Check
  <2>2. UNCHANGED <<glyph, gateway, card, picture>>
    BY <1>4 DEF Check
  <2>3. FetchesOK'
    BY <1>0, <2>1, <2>2, MovedInv
  <2>4. proxy'["img"] = proxy["img"] /\ proxy'["check"].broke = proxy["check"].broke
    BY <1>0, <2>1 DEF Responses
  <2>5. outline' \in BOOLEAN
    BY <1>4 DEF Check
  <2>6. OutlineExplained'
    <3>1. outline' => proxy["check"].status = 200 /\ ~ HashMatches("check")
      BY <1>4 DEF Check, Checkable
    <3>2. FetchInv("check", proxy["check"]) /\ gateway["check"].size \in Nat /\ MaxChunks \in Nat
      BY <1>0, SizeAssumption DEF Inv, FetchesOK
    <3>. QED
      BY <2>1, <2>2, <2>4, <3>1, <3>2 DEF OutlineExplained, HashMatches, FetchInv
  <2>. QED
    BY <2>2, <2>3, <2>4, <2>5, <2>6 DEF Inv, TypeOK, FetchesOK, FetchInv, ShownAsSniffed
<1>5. CASE Load
  <2>1. proxy' = [proxy EXCEPT !["img"].pc = "checked"] /\ proxy["img"].pc = "ended"
    BY <1>5 DEF Load
  <2>2. /\ UNCHANGED <<glyph, gateway, card>>
        /\ UNCHANGED <<picture, outline>> \/ (picture' = "unavailable" /\ outline' = FALSE)
    BY <1>5 DEF Load
  <2>3. FetchesOK'
    BY <1>0, <2>1, <2>2, MovedInv
  <2>4. proxy'["check"] = proxy["check"] /\ card = "shown"
    BY <1>0, <2>1 DEF Inv, FetchesOK
  <2>5. ShownAsSniffed'
    BY <2>2 DEF Inv, ShownAsSniffed, SAFE_IMG_MIMES
  <2>6. OutlineExplained'
    BY <2>2, <2>4 DEF Inv, OutlineExplained
  <2>7. outline' \in BOOLEAN /\ picture' \in SAFE_IMG_MIMES \cup {None, "rejected", "ipfs", "unavailable"}
    BY <2>2 DEF Inv, TypeOK
  <2>8. TypeOK'
    BY <2>2, <2>3, <2>7 DEF Inv, TypeOK, FetchesOK, FetchInv
  <2>. QED
    BY <2>2, <2>3, <2>4, <2>5, <2>6, <2>8 DEF Inv
<1>. QED  BY <1>1, <1>2, <1>3, <1>4, <1>5

\* The invariant holds in every state.
THEOREM InvHolds == Spec => []Inv
<1>1. Inv /\ [Next]_vars => Inv'
  <2>1. ASSUME Inv, Next PROVE Inv'
    BY <2>1, PageInv, ProxyInv DEF Next
  <2>2. ASSUME Inv, UNCHANGED vars PROVE Inv'
    BY <2>2 DEF Inv, vars, TypeOK, FetchesOK, FetchInv, ShownAsSniffed, OutlineExplained
  <2>. QED  BY <2>1, <2>2
<1>. QED  BY InitInv, <1>1, PTL DEF Spec

\* Every variable keeps its type, and the proxy writes neither more than the cap
\* nor more than it was sent.
THEOREM TypeCorrect == Spec => []TypeOK
<1>1. Inv => TypeOK
  BY DEF Inv, FetchesOK
<1>. QED  BY <1>1, InvHolds, PTL

\* Recognised bytes are shown as what they are, whatever the payload declares.
THEOREM SniffedTypeIsShown == Spec => []ShownAsSniffed
<1>1. Inv => ShownAsSniffed
  BY DEF Inv, FetchesOK
<1>. QED  BY <1>1, InvHolds, PTL

\* An outline has one of three causes: a swapped file, one over the cap, or a
\* connection that broke.
THEOREM OutlineHasCause == Spec => []OutlineExplained
<1>1. Inv => OutlineExplained
  BY DEF Inv, FetchesOK
<1>. QED  BY <1>1, InvHolds, PTL
=============================================================================
