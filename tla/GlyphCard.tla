------------------------------ MODULE GlyphCard ------------------------------
(***************************************************************************)
(* One "Render metadata" card of view-only-ui/index.html and the IPFS      *)
(* proxy of view-only-ui/server.js behind its picture: renderMetadata      *)
(* decides from the decoded payload what picture to show; a picture on     *)
(* IPFS is fetched twice through the proxy, once by the <img> element and  *)
(* once, a moment later, by the check of its hash against loc_hash.  The   *)
(* two are requests of their own: nothing makes the gateway, or a node     *)
(* behind it, answer both with the same bytes.                             *)
(*                                                                         *)
(* Bytes are counted in chunks.  The gateway's connection may break in the *)
(* middle of the body: Node then either reports an error on the request,   *)
(* or only an aborted response, for which the proxy has no listener.       *)
(***************************************************************************)
EXTENDS Integers, FiniteSets

CONSTANTS
  MaxChunks,   \* MAX_BYTES of the proxy
  Sizes,       \* what a file served for the CID may measure
  None

ASSUME SizeAssumption == MaxChunks \in Nat /\ Sizes \subseteq Nat \ {0}

SAFE_IMG_MIMES == {"png", "jpeg"}

\* No picture is none of the pictures.
ASSUME NoneAssumption == None \notin SAFE_IMG_MIMES

Fetches == {"img", "check"}

VARIABLES
  glyph,    \* the payload: main's declared and sniffed type, loc, loc_hash
  gateway,  \* what each request would be served for the CID: its size, and whether swapped
  card,     \* "new", "locating", "error", "shown"
  picture,  \* None, "rejected", "ipfs", "unavailable" or the type of a data: URL
  proxy,    \* the two proxied fetches
  outline   \* the red outline of a loc_hash mismatch

vars == <<glyph, gateway, card, picture, proxy, outline>>

Responses ==
  [pc : {"idle", "asked", "body", "ended", "checked"}, status : {0, 200, 502, 504},
   sent : Nat, wrote : Nat, extra : BOOLEAN, broke : BOOLEAN]

Idle == [pc |-> "idle", status |-> 0, sent |-> 0, wrote |-> 0, extra |-> FALSE, broke |-> FALSE]

Glyphs ==
  [main : {TRUE}, declared : SAFE_IMG_MIMES \cup {"html", None},
   sniffed : SAFE_IMG_MIMES \cup {None}, loc : {None}, locHash : {FALSE}]
  \cup [main : {FALSE}, declared : {None}, sniffed : {None},
        loc : {None, "cid", "not a cid"}, locHash : BOOLEAN]

\* The minted file is one file; a swapped one may be any other, at each request.
Gateways ==
  {g \in [Fetches -> [size : Sizes, swapped : BOOLEAN]] :
     ~ g.img.swapped /\ ~ g.check.swapped => g.img.size = g.check.size}

Init ==
  /\ glyph \in Glyphs
  /\ gateway \in Gateways
  /\ card = "new"
  /\ picture = None
  /\ proxy = [f \in Fetches |-> Idle]
  /\ outline = FALSE

(***************************************************************************)
(* renderMetadata.                                                         *)
(***************************************************************************)
Click ==
  /\ card = "new"
  /\ card' = "locating"
  /\ UNCHANGED <<glyph, gateway, picture, proxy, outline>>

\* /reveal refused or unreadable, no gly marker, a payload over the cap, or
\* CBOR that does not decode.
Fail ==
  /\ card = "locating"
  /\ card' = "error"
  /\ UNCHANGED <<glyph, gateway, picture, proxy, outline>>

\* Mutant: the declared type is believed without a look at the bytes.
MimeDeclared(declared, sniffed) ==
  IF declared \in SAFE_IMG_MIMES THEN declared
  ELSE IF sniffed \in SAFE_IMG_MIMES THEN sniffed ELSE "rejected"

\* The type of an image inside the payload.
Mime(declared, sniffed) ==
  IF declared \in SAFE_IMG_MIMES /\ sniffed \in {None, declared} THEN declared
  ELSE IF sniffed \in SAFE_IMG_MIMES THEN sniffed ELSE "rejected"

\* The card is shown; an <img> on a valid CID starts to load.
Show ==
  /\ card = "locating"
  /\ card' = "shown"
  /\ picture' = CASE glyph.main -> Mime(glyph.declared, glyph.sniffed)
                  [] ~ glyph.main /\ glyph.loc = "cid" -> "ipfs"
                  [] OTHER -> None
  /\ proxy' = IF picture' = "ipfs" THEN [proxy EXCEPT !.img.pc = "asked"] ELSE proxy
  /\ UNCHANGED <<glyph, gateway, outline>>

\* setTimeout(..., 100): the second fetch, if the payload declared loc_hash.
StartCheck ==
  /\ picture \in {"ipfs", "unavailable"}
  /\ glyph.locHash
  /\ proxy.check.pc = "idle"
  /\ proxy' = [proxy EXCEPT !.check.pc = "asked"]
  /\ UNCHANGED <<glyph, gateway, card, picture, outline>>

\* Mutant: a gateway's error page is hashed like the picture.
CheckableAny(p) == TRUE

\* if (!resp.ok) return
Checkable(p) == p.status = 200

\* What a fetch brought is the minted file, all of it and nothing more.
HashMatches(f) ==
  ~ gateway[f].swapped /\ proxy[f].wrote = gateway[f].size /\ ~ proxy[f].extra

\* arrayBuffer() resolves when the response ends, and the digest is compared; a
\* mismatch outlines the <img>, if it is still there.
Check ==
  /\ proxy.check.pc = "ended"
  /\ outline' = /\ picture = "ipfs"
                /\ Checkable(proxy.check)
                /\ ~ HashMatches("check")
  /\ proxy' = [proxy EXCEPT !.check.pc = "checked"]
  /\ UNCHANGED <<glyph, gateway, card, picture>>

\* The <img> has its bytes. The minted picture loads; anything else may not, and
\* onerror then replaces the element and its outline with a note.
Load ==
  /\ proxy.img.pc = "ended"
  /\ proxy' = [proxy EXCEPT !.img.pc = "checked"]
  /\ \/ UNCHANGED <<picture, outline>>
     \/ /\ ~ Checkable(proxy.img) \/ ~ HashMatches("img")
        /\ picture' = "unavailable"
        /\ outline' = FALSE
  /\ UNCHANGED <<glyph, gateway, card>>

(***************************************************************************)
(* GET /ipfs/<cid>.                                                        *)
(***************************************************************************)
Update(f, p) ==
  /\ proxy' = [proxy EXCEPT ![f] = p]
  /\ UNCHANGED <<glyph, gateway, card, picture, outline>>

\* The gateway's headers: a picture, or an error page of one chunk.
Headers(f) ==
  /\ proxy[f].pc = "asked"
  /\ \E status \in {200, 504} : Update(f, [proxy[f] EXCEPT !.pc = "body", !.status = status])

\* No connection: 502.
Unreachable(f) ==
  /\ proxy[f].pc = "asked"
  /\ Update(f, [proxy[f] EXCEPT !.pc = "ended", !.status = 502])

BodySize(f) == IF proxy[f].status = 200 THEN gateway[f].size ELSE 1

\* Mutant: an off-by-one in the cap.
OverCapLate(sent) == sent > MaxChunks + 1

OverCap(sent) == sent > MaxChunks

\* Mutant: over the cap the upstream is dropped and the browser left waiting.
EndOfCapNone == "body"

EndOfCap == "ended"

\* Data is coming: the upstream has neither broken off nor been destroyed.
Streaming(p) == p.pc = "body" /\ ~ p.broke /\ ~ OverCap(p.sent)

\* A chunk is passed on, or the one over the cap ends the response.
Chunk(f) ==
  /\ Streaming(proxy[f])
  /\ proxy[f].sent < BodySize(f)
  /\ LET p == [proxy[f] EXCEPT !.sent = @ + 1] IN
     IF OverCap(p.sent)
     THEN Update(f, [p EXCEPT !.pc = EndOfCap])
     ELSE Update(f, [p EXCEPT !.wrote = @ + 1])

End(f) ==
  /\ Streaming(proxy[f])
  /\ proxy[f].sent = BodySize(f)
  /\ Update(f, [proxy[f] EXCEPT !.pc = "ended"])

\* The connection breaks in the middle of the body: an error event appends the
\* error message to what was sent and ends; an aborted response is not noticed.
Break(f) ==
  /\ Streaming(proxy[f])
  /\ proxy[f].sent < BodySize(f)
  /\ \/ Update(f, [proxy[f] EXCEPT !.broke = TRUE, !.extra = TRUE, !.pc = "ended"])
     \/ Update(f, [proxy[f] EXCEPT !.broke = TRUE])

Proxy(f) == Headers(f) \/ Unreachable(f) \/ Chunk(f) \/ End(f)

Next ==
  \/ Click \/ Fail \/ Show \/ StartCheck \/ Check \/ Load
  \/ \E f \in Fetches : Proxy(f) \/ Break(f)

Spec == Init /\ [][Next]_vars

\* The gateway keeps sending unless it breaks off, and timers fire.
FairSpec ==
  /\ Spec
  /\ WF_vars(StartCheck) /\ WF_vars(Check) /\ WF_vars(Load)
  /\ \A f \in Fetches : WF_vars(Proxy(f))

-----------------------------------------------------------------------------
\* Type invariant.
TypeOK ==
  /\ glyph \in Glyphs
  /\ card \in {"new", "locating", "error", "shown"}
  /\ picture \in SAFE_IMG_MIMES \cup {None, "rejected", "ipfs", "unavailable"}
  /\ proxy \in [Fetches -> Responses]
  /\ \A f \in Fetches : proxy[f].wrote <= MaxChunks /\ proxy[f].wrote <= proxy[f].sent
  /\ outline \in BOOLEAN

\* Bytes the sniffer recognises are shown as what they are, whatever the payload
\* declares them to be.
ShownAsSniffed ==
  picture \in SAFE_IMG_MIMES /\ glyph.sniffed # None => picture = glyph.sniffed

\* A picture is outlined only if what the check was served is not the minted file,
\* is larger than the proxy lets through, or broke off on the way.
OutlineExplained ==
  outline => \/ gateway.check.swapped
             \/ gateway.check.size > MaxChunks
             \/ proxy.check.broke

\* "Mismatch means the IPFS content was swapped post-mint", with a gateway whose
\* connections do not break.
MismatchMeansSwapped == outline /\ ~ proxy.check.broke => gateway.check.swapped

\* Swapped bytes that the check is served are noticed: if its fetch got through, it
\* ends with the outline, unless the picture never loaded.  What the <img> itself
\* was served is not what it looks at.
SwapIsMarked ==
  (proxy.check.pc = "asked" /\ gateway.check.swapped)
    ~> \/ outline \/ picture = "unavailable"
       \/ proxy.check.broke \/ proxy.check.status \notin {0, 200}

\* A fetch that went through from end to end.
Whole(f) == proxy[f].pc = "checked" /\ proxy[f].status = 200 /\ ~ proxy[f].broke

\* "Verified against IPFS bytes on load (red outline on image if mismatched)": with
\* both fetches through, a swapped picture that is shown is outlined.
PictureIsVerified ==
  Whole("img") /\ Whole("check") /\ picture = "ipfs" /\ gateway.img.swapped => outline
=============================================================================
