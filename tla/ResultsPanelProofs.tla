------------------------- MODULE ResultsPanelProofs -------------------------
(***************************************************************************)
(* The results panel for every number of invocations and outputs.  The     *)
(* scan button is disabled exactly while a scan is under way, so there is  *)
(* never a second scan beside it; the cards of an invocation stay in order *)
(* and without a hole whatever the others do to the panel; and a panel     *)
(* that holds one settled invocation only holds all of it.                 *)
(***************************************************************************)
EXTENDS ResultsPanel, FiniteSetTheorems, TLAPS

Shape ==
  /\ DOMAIN run = Runs
  /\ \A r \in Runs : DOMAIN run[r] = {"kind", "pc", "outs", "cards"}

Scans == {r \in Active : run[r].kind = "addr"}

\* The scan under way is the one that disabled the button.
ScanInv ==
  /\ Shape
  /\ btnDisabled \in BOOLEAN
  /\ btnDisabled => \E r \in Runs : Scans = {r}
  /\ ~ btnDisabled => Scans = {}

\* The invariant is the property, told by the one scan there may be.
LEMMA InvIsOneScan == ScanInv => OneScan
<1>. SUFFICES ASSUME ScanInv PROVE OneScan
  OBVIOUS
<1>1. Cardinality(Scans) <= 1
  <2>1. CASE Scans = {}
    BY <2>1, FS_EmptySet
  <2>2. CASE \E r \in Runs : Scans = {r}
    BY <2>2, FS_Singleton
  <2>. QED  BY <2>1, <2>2 DEF ScanInv
<1>2. btnDisabled = (Scans # {})
  BY DEF ScanInv
<1>. QED  BY <1>1, <1>2 DEF OneScan, Scans

\* A step of one invocation: it was no scan and is none, or is a scan still.
LEMMA StaysInv ==
  ASSUME ScanInv, Shape', NEW r \in Runs, \A s \in Runs \ {r} : run'[s] = run[s],
         (run'[r].pc \in {"fetching", "render"} /\ run'[r].kind = "addr")
           <=> (run[r].pc \in {"fetching", "render"} /\ run[r].kind = "addr"),
         btnDisabled' = btnDisabled
  PROVE  ScanInv'
<1>1. Scans' = Scans
  BY DEF Scans, Active
<1>. QED  BY <1>1 DEF ScanInv

\* An invocation that settles gives the button back if it was the scan.
LEMMA SettlesInv ==
  ASSUME ScanInv, Shape', NEW r \in Runs, \A s \in Runs \ {r} : run'[s] = run[s],
         run[r].pc \in {"fetching", "render"}, run'[r].pc \in {"done", "stopped"},
         NEW ok, btnDisabled' = EnabledAfter(run[r].kind, ok)
  PROVE  ScanInv'
<1>1. CASE run[r].kind = "addr"
  <2>1. r \in Scans /\ r \notin Scans'
    BY <1>1 DEF Scans, Active
  <2>2. Scans = {r}
    BY <2>1 DEF ScanInv
  <2>3. Scans' = {}
    BY <2>1, <2>2 DEF Scans, Active
  <2>. QED  BY <1>1, <2>3 DEF ScanInv, EnabledAfter
<1>2. CASE run[r].kind # "addr"
  BY <1>2, StaysInv DEF EnabledAfter
<1>. QED  BY <1>1, <1>2

\* What showing outputs does to an invocation.
LEMMA ShownFields ==
  ASSUME Shape, NEW r \in Runs, NEW q, DOMAIN q = {"kind", "pc", "outs", "cards"},
         NEW outs, NEW kept, ShowOutputs(r, q, outs, kept)
  PROVE  /\ Shape' /\ \A s \in Runs \ {r} : run'[s] = run[s]
         /\ run'[r].kind = q.kind
         /\ run'[r].pc = IF outs = 0 THEN "done" ELSE "render"
<1>. DEFINE q2 == [q EXCEPT !.pc = IF outs = 0 THEN "done" ELSE "render", !.outs = outs]
<1>1. run' = [run EXCEPT ![r] = q2]
  BY DEF ShowOutputs
<1>2. /\ DOMAIN q2 = {"kind", "pc", "outs", "cards"} /\ q2.kind = q.kind
      /\ q2.pc = IF outs = 0 THEN "done" ELSE "render"
  OBVIOUS
<1>. HIDE DEF q2
<1>. QED  BY <1>1, <1>2 DEF Shape

\* A click: no scan unless it is the scan button, and that only when enabled.
LEMMA ClickInv ==
  ASSUME ScanInv, NEW r \in Runs, Click(r)
  PROVE  ScanInv'
<1>1. /\ DOMAIN Clicked("hex") = {"kind", "pc", "outs", "cards"} /\ Clicked("hex").kind = "hex"
      /\ DOMAIN Clicked("tx") = {"kind", "pc", "outs", "cards"} /\ Clicked("tx").kind = "tx"
      /\ DOMAIN Clicked("fetch") = {"kind", "pc", "outs", "cards"}
      /\ Clicked("fetch").kind = "fetch"
      /\ DOMAIN Clicked("addr") = {"kind", "pc", "outs", "cards"}
      /\ Clicked("addr").kind = "addr" /\ Clicked("addr").pc = "fetching"
  BY DEF Clicked
<1>2. Shape
  BY DEF ScanInv
<1>3. run[r].pc = "new"
  BY DEF Click, RunHex, RunTxJson, RunFetch, RunAddress
<1>4. ASSUME btnDisabled' = btnDisabled, Shape', \A s \in Runs \ {r} : run'[s] = run[s],
             run'[r].kind # "addr"
      PROVE  ScanInv'
  BY <1>3, <1>4, StaysInv
<1>5. CASE RunHex(r)
  <2>1. ShowOutputs(r, Clicked("hex"), 1, <<>>) /\ btnDisabled' = btnDisabled
    BY <1>5 DEF RunHex
  <2>2. Shape' /\ (\A s \in Runs \ {r} : run'[s] = run[s]) /\ run'[r].kind = "hex"
    BY <1>1, <1>2, <2>1, ShownFields
  <2>. QED  BY <1>4, <2>1, <2>2
<1>6. CASE RunTxJson(r)
  <2>1. CASE run' = [run EXCEPT ![r] = [Clicked("tx") EXCEPT !.pc = "done"]]
    <3>1. Shape' /\ (\A s \in Runs \ {r} : run'[s] = run[s]) /\ run'[r].kind = "tx"
      BY <1>1, <1>2, <2>1 DEF Shape
    <3>. QED  BY <1>4, <1>6, <3>1 DEF RunTxJson
  <2>2. ASSUME NEW outs \in 0 .. MaxOutputs, ShowOutputs(r, Clicked("tx"), outs, <<>>)
        PROVE  ScanInv'
    <3>1. Shape' /\ (\A s \in Runs \ {r} : run'[s] = run[s]) /\ run'[r].kind = "tx"
      BY <1>1, <1>2, <2>2, ShownFields
    <3>. QED  BY <1>4, <1>6, <3>1 DEF RunTxJson
  <2>. QED  BY <1>6, <2>1, <2>2 DEF RunTxJson
<1>7. CASE RunFetch(r)
  <2>1. run' = [run EXCEPT ![r] = Clicked("fetch")] /\ btnDisabled' = btnDisabled
    BY <1>7 DEF RunFetch
  <2>2. Shape' /\ (\A s \in Runs \ {r} : run'[s] = run[s]) /\ run'[r].kind = "fetch"
    BY <1>1, <1>2, <2>1 DEF Shape
  <2>. QED  BY <1>4, <2>1, <2>2
<1>8. CASE RunAddress(r)
  <2>1. /\ run' = [run EXCEPT ![r] = Clicked("addr")]
        /\ ~ btnDisabled /\ btnDisabled' = TRUE
    BY <1>8 DEF RunAddress
  <2>2. /\ Shape' /\ (\A s \in Runs \ {r} : run'[s] = run[s])
        /\ run'[r].kind = "addr" /\ run'[r].pc = "fetching"
    BY <1>1, <1>2, <2>1 DEF Shape
  <2>3. Scans' = {r}
    BY <2>1, <2>2 DEF ScanInv, Scans, Active
  <2>. QED  BY <2>1, <2>2, <2>3 DEF ScanInv
<1>. QED  BY <1>5, <1>6, <1>7, <1>8 DEF Click

\* What an await resumes: the scan goes on, or ends with its button enabled.
LEMMA ResumeInv ==
  ASSUME ScanInv, NEW r \in Runs, Resume(r)
  PROVE  ScanInv'
<1>1. Shape /\ run[r].pc \in {"fetching", "render"}
  BY DEF ScanInv, Resume, Responded, Failed, Rendered, RenderFails
<1>2. CASE Responded(r)
  <2>1. PICK outs \in 0 .. MaxOutputs :
          /\ ShowOutputs(r, run[r], outs, Kept)
          /\ btnDisabled' = IF outs = 0 THEN EnabledAfter(run[r].kind, TRUE) ELSE btnDisabled
    BY <1>2 DEF Responded
  <2>2. /\ Shape' /\ (\A s \in Runs \ {r} : run'[s] = run[s]) /\ run'[r].kind = run[r].kind
        /\ run'[r].pc = IF outs = 0 THEN "done" ELSE "render"
    BY <1>1, <2>1, ShownFields DEF Shape
  <2>3. CASE outs = 0
    BY <1>1, <2>1, <2>2, <2>3, SettlesInv
  <2>4. CASE outs # 0
    BY <1>1, <2>1, <2>2, <2>4, StaysInv
  <2>. QED  BY <2>3, <2>4
<1>3. CASE Failed(r)
  <2>1. /\ run' = [run EXCEPT ![r].pc = "done"]
        /\ btnDisabled' = EnabledAfter(run[r].kind, FALSE)
    BY <1>3 DEF Failed
  <2>2. Shape' /\ (\A s \in Runs \ {r} : run'[s] = run[s]) /\ run'[r].pc = "done"
    BY <1>1, <2>1 DEF Shape
  <2>. QED  BY <1>1, <2>1, <2>2, SettlesInv
<1>4. CASE Rendered(r)
  <2>1. /\ run' = [run EXCEPT ![r].cards = @ + 1,
                              ![r].pc = IF LastCard(run[r]) THEN "done" ELSE "render"]
        /\ btnDisabled' =
             IF LastCard(run[r]) THEN EnabledAfter(run[r].kind, TRUE) ELSE btnDisabled
    BY <1>4 DEF Rendered
  <2>2. /\ Shape' /\ (\A s \in Runs \ {r} : run'[s] = run[s]) /\ run'[r].kind = run[r].kind
        /\ run'[r].pc = IF LastCard(run[r]) THEN "done" ELSE "render"
    BY <1>1, <2>1 DEF Shape
  <2>3. CASE LastCard(run[r])
    BY <1>1, <2>1, <2>2, <2>3, SettlesInv
  <2>4. CASE ~ LastCard(run[r])
    BY <1>1, <2>1, <2>2, <2>4, StaysInv
  <2>. QED  BY <2>3, <2>4
<1>5. CASE RenderFails(r)
  <2>1. PICK pc \in {"done", "stopped"} : run' = [run EXCEPT ![r].pc = pc]
    BY <1>5 DEF RenderFails
  <2>2. Shape' /\ (\A s \in Runs \ {r} : run'[s] = run[s]) /\ run'[r].pc = pc
    BY <1>1, <2>1 DEF Shape
  <2>3. btnDisabled' = EnabledAfter(run[r].kind, FALSE)
    BY <1>5 DEF RenderFails
  <2>. QED  BY <1>1, <2>1, <2>2, <2>3, SettlesInv
<1>. QED  BY <1>2, <1>3, <1>4, <1>5 DEF Resume

\* At most one address scan is under way, and the button is disabled exactly
\* while it is, however the scan ends.
THEOREM OneScanAtATime == Spec => []OneScan
<1>1. Init => ScanInv
  <2>. SUFFICES ASSUME Init PROVE ScanInv
    OBVIOUS
  <2>1. Shape /\ \A r \in Runs : run[r].pc = "new"
    BY DEF Init, Shape
  <2>2. Scans = {}
    BY <2>1 DEF Scans, Active
  <2>. QED  BY <2>1, <2>2 DEF Init, ScanInv
<1>2. ScanInv /\ [Next]_vars => ScanInv'
  <2>1. ASSUME ScanInv, UNCHANGED vars PROVE ScanInv'
    BY <2>1 DEF vars, ScanInv, Shape, Scans, Active
  <2>2. ASSUME ScanInv, Next PROVE ScanInv'
    BY <2>2, ClickInv, ResumeInv DEF Next
  <2>. QED  BY <2>1, <2>2
<1>. QED  BY <1>1, <1>2, InvIsOneScan, PTL DEF Spec

-----------------------------------------------------------------------------
(***************************************************************************)
(* The cards in the panel.                                                 *)
(***************************************************************************)
ItemKinds == {"status", "err", "summary", "meta", "card"}
Items == [kind : ItemKinds, run : Runs, n : Nat]

\* Of the four handlers only the two that fetch ever wait for a response.
PanelInv ==
  /\ Shape
  /\ panel \in Seq(Items)
  /\ \A r \in Runs : run[r].cards \in Nat
  /\ \A r \in Runs : run[r].pc = "fetching" => run[r].kind \in {"fetch", "addr"}

\* A heading is of items other than cards.
LEMMA HeadingItems ==
  ASSUME NEW r \in Runs, NEW kind
  PROVE  /\ Heading(r, kind) \in Seq(Items)
         /\ \A k \in DOMAIN Heading(r, kind) :
              Heading(r, kind)[k].kind # "card" /\ Heading(r, kind)[k].run = r
<1>1. /\ Summary(r) \in Items /\ Summary(r).kind # "card" /\ Summary(r).run = r
      /\ Meta(r) \in Items /\ Meta(r).kind # "card" /\ Meta(r).run = r
  BY DEF Summary, Meta, Items, ItemKinds
<1>. HIDE DEF Items
<1>. QED  BY <1>1 DEF Heading

\* Single items are items.
LEMMA SingleItems ==
  ASSUME NEW r \in Runs
  PROVE  /\ Status(r) \in Items /\ Status(r).kind # "card" /\ Status(r).run = r
         /\ Err(r) \in Items /\ Err(r).kind # "card" /\ Err(r).run = r
         /\ \A n \in Nat : /\ Card(r, n) \in Items /\ Card(r, n).kind = "card"
                           /\ Card(r, n).run = r /\ Card(r, n).n = n
BY DEF Status, Err, Card, Items, ItemKinds

\* What each step does to panel and invocation, the button left aside: it clears
\* the panel and puts items of its own there that are no cards, or adds one card,
\* under a heading if it is the last, or stops.
Cleared(r) ==
  /\ panel' \in Seq(Items)
  /\ \A k \in DOMAIN panel' : panel'[k].kind # "card" /\ panel'[k].run = r
  /\ run'[r].cards \in {0, run[r].cards}

Added(r) ==
  /\ run[r].pc = "render" /\ run[r].cards \in Nat
  /\ run'[r].cards = run[r].cards + 1
  /\ \E h \in Seq(Items) :
       /\ \A k \in DOMAIN h : h[k].kind # "card" /\ h[k].run = r
       /\ panel' = h \o Append(panel, Card(r, run[r].cards + 1))

Stopped(r) == panel' = panel /\ run'[r].cards = run[r].cards

Others(r) == \A s \in Runs \ {r} : run'[s] = run[s]

\* What showing outputs does to the panel.
LEMMA ShownPanel ==
  ASSUME Shape, NEW r \in Runs, NEW q, DOMAIN q = {"kind", "pc", "outs", "cards"},
         NEW outs, ShowOutputs(r, q, outs, <<>>), q.cards \in {0, run[r].cards}
  PROVE  Cleared(r) /\ run'[r].cards = q.cards /\ run'[r].outs = outs
<1>. DEFINE q2 == [q EXCEPT !.pc = IF outs = 0 THEN "done" ELSE "render", !.outs = outs]
<1>1. run' = [run EXCEPT ![r] = q2] /\ q2.cards = q.cards /\ q2.outs = outs
  BY DEF ShowOutputs
<1>2. run'[r].cards = q.cards /\ run'[r].outs = outs
  <2>. HIDE DEF q2
  <2>. QED  BY <1>1 DEF Shape
<1>3. panel' = IF outs = 0 THEN Heading(r, q.kind) \o <<>> ELSE <<>>
  BY DEF ShowOutputs
<1>4. Heading(r, q.kind) \o <<>> = Heading(r, q.kind)
  BY HeadingItems
<1>5. /\ panel' \in Seq(Items)
      /\ \A k \in DOMAIN panel' : panel'[k].kind # "card" /\ panel'[k].run = r
  <2>1. CASE outs = 0
    BY <1>3, <1>4, <2>1, HeadingItems
  <2>2. CASE outs # 0
    BY <1>3, <2>2
  <2>. QED  BY <2>1, <2>2
<1>. QED  BY <1>2, <1>5 DEF Cleared

\* The fields of a fresh invocation.
LEMMA ClickedFields ==
  ASSUME NEW kind
  PROVE  /\ DOMAIN Clicked(kind) = {"kind", "pc", "outs", "cards"}
         /\ Clicked(kind).kind = kind /\ Clicked(kind).pc = "fetching"
         /\ Clicked(kind).cards = 0 /\ Clicked(kind).outs = 0
BY DEF Clicked

\* A click clears the panel.
LEMMA ClickClears ==
  ASSUME PanelInv, NEW r \in Runs, Click(r)
  PROVE  /\ Shape' /\ Others(r) /\ Cleared(r)
         /\ run'[r].pc = "fetching" => run'[r].kind \in {"fetch", "addr"}
<1>. USE DEF Others
<1>1. Shape
  BY DEF PanelInv
<1>2. CASE RunHex(r)
  <2>1. ShowOutputs(r, Clicked("hex"), 1, <<>>)
    BY <1>2 DEF RunHex
  <2>. QED  BY <1>1, <2>1, ClickedFields, ShownFields, ShownPanel
<1>3. CASE RunTxJson(r)
  <2>1. CASE panel' = <<Err(r)>> /\ run' = [run EXCEPT ![r] = [Clicked("tx") EXCEPT !.pc = "done"]]
    <3>. DEFINE q == [Clicked("tx") EXCEPT !.pc = "done"]
    <3>1. q.cards = 0 /\ q.pc = "done" /\ DOMAIN q = {"kind", "pc", "outs", "cards"}
      BY DEF Clicked
    <3>2. run' = [run EXCEPT ![r] = q]
      BY <2>1
    <3>. HIDE DEF q
    <3>3. Shape' /\ (\A s \in Runs \ {r} : run'[s] = run[s])
          /\ run'[r].cards = 0 /\ run'[r].pc = "done"
      BY <1>1, <3>1, <3>2 DEF Shape
    <3>. QED  BY <2>1, <3>3, SingleItems DEF Cleared
  <2>2. ASSUME NEW outs \in 0 .. MaxOutputs, ShowOutputs(r, Clicked("tx"), outs, <<>>)
        PROVE  /\ Shape' /\ Others(r) /\ Cleared(r) /\ run'[r].pc # "fetching"
    BY <1>1, <2>2, ClickedFields, ShownFields, ShownPanel
  <2>. QED  BY <1>3, <2>1, <2>2 DEF RunTxJson
<1>4. ASSUME NEW kind \in {"fetch", "addr"}, panel' = <<Status(r)>>,
             run' = [run EXCEPT ![r] = Clicked(kind)]
      PROVE  /\ Shape' /\ Others(r) /\ Cleared(r) /\ run'[r].kind \in {"fetch", "addr"}
  <2>1. /\ Shape' /\ (\A s \in Runs \ {r} : run'[s] = run[s])
        /\ run'[r].cards = 0 /\ run'[r].kind = kind
    BY <1>1, <1>4, ClickedFields DEF Shape
  <2>. QED  BY <1>4, <2>1, SingleItems DEF Cleared
<1>5. CASE RunFetch(r)
  BY <1>4, <1>5 DEF RunFetch
<1>6. CASE RunAddress(r)
  BY <1>4, <1>6 DEF RunAddress
<1>. QED  BY <1>2, <1>3, <1>5, <1>6 DEF Click

\* What is resumed clears the panel, adds a card or stops.
LEMMA ResumeEffect ==
  ASSUME PanelInv, NEW r \in Runs, Resume(r)
  PROVE  /\ Shape' /\ Others(r) /\ run'[r].pc # "fetching"
         /\ Cleared(r) \/ Added(r) \/ Stopped(r)
<1>. USE DEF Others
<1>1. Shape /\ run[r].cards \in Nat
  BY DEF PanelInv
<1>2. CASE Responded(r)
  <2>1. PICK outs \in 0 .. MaxOutputs : ShowOutputs(r, run[r], outs, <<>>)
    BY <1>2 DEF Responded, Kept
  <2>2. DOMAIN run[r] = {"kind", "pc", "outs", "cards"}
    BY <1>1 DEF Shape
  <2>. QED  BY <1>1, <2>1, <2>2, ShownFields, ShownPanel
<1>3. CASE panel' = <<Err(r)>> /\ run' = [run EXCEPT ![r].pc = "done"]
  <2>1. /\ Shape' /\ (\A s \in Runs \ {r} : run'[s] = run[s])
        /\ run'[r].cards = run[r].cards /\ run'[r].pc = "done"
    BY <1>1, <1>3 DEF Shape
  <2>. QED  BY <1>3, <2>1, SingleItems DEF Cleared
<1>4. CASE Rendered(r)
  <2>. DEFINE q == run[r]
              h == IF LastCard(q) THEN Heading(r, q.kind) ELSE <<>>
  <2>1. /\ run[r].pc = "render"
        /\ panel' = IF LastCard(q) THEN Heading(r, q.kind) \o Append(panel, Card(r, q.cards + 1))
                                   ELSE Append(panel, Card(r, q.cards + 1))
        /\ run' = [run EXCEPT ![r].cards = @ + 1,
                              ![r].pc = IF LastCard(q) THEN "done" ELSE "render"]
    BY <1>4 DEF Rendered, WithCard
  <2>2. h \in Seq(Items) /\ \A k \in DOMAIN h : h[k].kind # "card" /\ h[k].run = r
    <3>1. CASE LastCard(q)
      BY <3>1, HeadingItems
    <3>2. CASE ~ LastCard(q)
      BY <3>2
    <3>. QED  BY <3>1, <3>2
  <2>3. Append(panel, Card(r, q.cards + 1)) \in Seq(Items)
    BY <1>1, SingleItems DEF PanelInv
  <2>4. panel' = h \o Append(panel, Card(r, q.cards + 1))
    <3>1. CASE LastCard(q)
      BY <2>1, <3>1
    <3>2. CASE ~ LastCard(q)
      BY <2>1, <2>3, <3>2
    <3>. QED  BY <3>1, <3>2
  <2>5. /\ Shape' /\ (\A s \in Runs \ {r} : run'[s] = run[s])
        /\ run'[r].cards = run[r].cards + 1 /\ run'[r].pc \in {"done", "render"}
    BY <1>1, <2>1 DEF Shape
  <2>. HIDE DEF h
  <2>. QED  BY <1>1, <2>1, <2>2, <2>4, <2>5 DEF Added
<1>5. CASE UNCHANGED panel /\ run' = [run EXCEPT ![r].pc = "stopped"]
  <2>1. /\ Shape' /\ (\A s \in Runs \ {r} : run'[s] = run[s])
        /\ run'[r].cards = run[r].cards /\ run'[r].pc = "stopped"
    BY <1>1, <1>5 DEF Shape
  <2>. QED  BY <1>5, <2>1 DEF Stopped
<1>. QED  BY <1>2, <1>3, <1>4, <1>5 DEF Resume, Failed, RenderFails

\* What adding a card does to the positions in the panel.
LEMMA AddedPositions ==
  ASSUME PanelInv, NEW r \in Runs, NEW h \in Seq(Items), NEW card \in Items,
         panel' = h \o Append(panel, card)
  PROVE  /\ panel' \in Seq(Items) /\ Len(panel) \in Nat /\ Len(h) \in Nat
         /\ DOMAIN panel = 1 .. Len(panel) /\ DOMAIN h = 1 .. Len(h)
         /\ DOMAIN panel' = 1 .. Len(h) + Len(panel) + 1
         /\ \A k \in 1 .. Len(h) : panel'[k] = h[k]
         /\ \A k \in DOMAIN panel : panel'[Len(h) + k] = panel[k]
         /\ panel'[Len(h) + Len(panel) + 1] = card
<1>1. panel \in Seq(Items)
  BY DEF PanelInv
<1>. HIDE DEF Items
<1>. QED  BY <1>1

\* Items stay items and counts stay numbers.
LEMMA PanelStep == PanelInv /\ [Next]_vars => PanelInv'
<1>1. ASSUME PanelInv, UNCHANGED vars PROVE PanelInv'
  BY <1>1 DEF vars, PanelInv, Shape
<1>2. ASSUME PanelInv, NEW r \in Runs, Shape', Others(r),
             run'[r].pc = "fetching" => run'[r].kind \in {"fetch", "addr"},
             Cleared(r) \/ Added(r) \/ Stopped(r)
      PROVE  PanelInv'
  <2>1. run'[r].cards \in Nat
    BY <1>2 DEF PanelInv, Cleared, Added, Stopped
  <2>2. panel' \in Seq(Items)
    <3>1. CASE Added(r)
      <4>1. PICK h \in Seq(Items) : panel' = h \o Append(panel, Card(r, run[r].cards + 1))
        BY <3>1 DEF Added
      <4>2. Card(r, run[r].cards + 1) \in Items
        BY <1>2, SingleItems DEF PanelInv
      <4>. QED  BY <1>2, <4>1, <4>2, AddedPositions
    <3>. QED  BY <1>2, <3>1 DEF PanelInv, Cleared, Stopped
  <2>. QED  BY <1>2, <2>1, <2>2 DEF PanelInv, Others
<1>. QED  BY <1>1, <1>2, ClickClears, ResumeEffect DEF Next

LEMMA PanelInit == Init => PanelInv
<1>. SUFFICES ASSUME Init PROVE PanelInv
  OBVIOUS
<1>1. \A r \in Runs : /\ run[r].pc = "new" /\ run[r].cards = 0
                      /\ DOMAIN run[r] = {"kind", "pc", "outs", "cards"}
  BY DEF Init
<1>. QED  BY <1>1 DEF Init, PanelInv, Shape

-----------------------------------------------------------------------------
(***************************************************************************)
(* No holes.                                                               *)
(***************************************************************************)
\* The cards of r in the panel are in order, and the last of what r has shown.
EndOfShown(r) ==
  /\ \A j, k \in CardsOf(r) : j < k => panel[j].n < panel[k].n
  /\ \E first \in 1 .. run[r].cards + 1 :
       {panel[k].n : k \in CardsOf(r)} = first .. run[r].cards

\* Where the panel holds no card of s, none is missing.
LEMMA NoCards ==
  ASSUME NEW s \in Runs, run[s].cards \in Nat, CardsOf(s) = {}
  PROVE  EndOfShown(s)
<1>1. {panel[k].n : k \in CardsOf(s)} = (run[s].cards + 1) .. run[s].cards
  OBVIOUS
<1>2. run[s].cards + 1 \in 1 .. run[s].cards + 1
  OBVIOUS
<1>. QED  BY <1>1, <1>2 DEF EndOfShown

\* A card added to the panel, for the invocation it belongs to and for another.
LEMMA AddedStaysWhole ==
  ASSUME PanelInv, PanelInv', NEW r \in Runs, Others(r), Added(r),
         NEW s \in Runs, EndOfShown(s)
  PROVE  EndOfShown(s)'
<1>. DEFINE c == run[r].cards
<1>1. c \in Nat /\ run[s].cards \in Nat /\ run'[r].cards = c + 1
  BY DEF PanelInv, Added
<1>2. PICK h \in Seq(Items) : /\ \A k \in DOMAIN h : h[k].kind # "card" /\ h[k].run = r
                              /\ panel' = h \o Append(panel, Card(r, c + 1))
  BY DEF Added
<1>. DEFINE L == Len(h)
            last == L + Len(panel) + 1
            card == Card(r, c + 1)
<1>3. card \in Items /\ card.kind = "card" /\ card.run = r /\ card.n = c + 1
  BY <1>1, SingleItems
<1>4. /\ Len(panel) \in Nat /\ L \in Nat /\ DOMAIN panel = 1 .. Len(panel)
      /\ DOMAIN h = 1 .. L /\ DOMAIN panel' = 1 .. L + Len(panel) + 1
      /\ \A k \in 1 .. L : panel'[k] = h[k]
      /\ \A k \in DOMAIN panel : panel'[L + k] = panel[k]
      /\ panel'[last] = card
  BY <1>2, <1>3, AddedPositions
<1>. HIDE DEF c, card, L
<1>5. \A k \in DOMAIN panel' : k <= L \/ k = last \/ (k - L \in DOMAIN panel /\ panel'[k] = panel[k - L])
  BY <1>4
<1>6. CASE s # r
  <2>1. /\ \A k \in CardsOf(s)' : k - L \in CardsOf(s) /\ panel'[k] = panel[k - L] /\ k \in Int
        /\ \A k \in CardsOf(s) : k + L \in CardsOf(s)' /\ panel'[k + L] = panel[k] /\ k \in Int
    BY <1>2, <1>3, <1>4, <1>5, <1>6 DEF CardsOf
  <2>2. ASSUME NEW j \in CardsOf(s)', NEW k \in CardsOf(s)', j < k
        PROVE  panel'[j].n < panel'[k].n
    <3>1. j - L \in CardsOf(s) /\ k - L \in CardsOf(s) /\ j - L < k - L
      BY <1>4, <2>1, <2>2
    <3>2. panel[j - L].n < panel[k - L].n
      BY <3>1 DEF EndOfShown
    <3>. QED  BY <2>1, <3>2
  <2>3. {panel'[k].n : k \in CardsOf(s)'} = {panel[k].n : k \in CardsOf(s)}
    BY <2>1
  <2>4. run'[s] = run[s]
    BY <1>6 DEF Others
  <2>. QED  BY <2>2, <2>3, <2>4 DEF EndOfShown
<1>7. CASE s = r
  <2>1. /\ \A k \in CardsOf(r)' : k = last \/ (k - L \in CardsOf(r) /\ panel'[k] = panel[k - L])
        /\ \A k \in CardsOf(r)' : k \in Int /\ k <= last
        /\ \A k \in CardsOf(r) : k + L \in CardsOf(r)' /\ panel'[k + L] = panel[k] /\ k \in Int
        /\ last \in CardsOf(r)'
    BY <1>2, <1>3, <1>4, <1>5 DEF CardsOf
  <2>2. PICK first \in 1 .. c + 1 : {panel[k].n : k \in CardsOf(r)} = first .. c
    BY <1>7 DEF EndOfShown, c
  <2>3. \A k \in CardsOf(r) : panel[k].n \in first .. c
    BY <2>2
  <2>4. \A j, k \in CardsOf(r)' : j < k => panel'[j].n < panel'[k].n
    <3>. SUFFICES ASSUME NEW j \in CardsOf(r)', NEW k \in CardsOf(r)', j < k
                  PROVE  panel'[j].n < panel'[k].n
      OBVIOUS
    <3>1. j # last /\ j - L \in CardsOf(r) /\ panel'[j] = panel[j - L]
      BY <1>4, <2>1
    <3>2. CASE k = last
      BY <1>1, <1>3, <1>4, <2>3, <3>1, <3>2
    <3>3. CASE k # last
      <4>1. k - L \in CardsOf(r) /\ panel'[k] = panel[k - L] /\ j - L < k - L
        BY <1>4, <2>1, <3>3
      <4>2. panel[j - L].n < panel[k - L].n
        BY <1>7, <3>1, <4>1 DEF EndOfShown
      <4>. QED  BY <3>1, <4>1, <4>2
    <3>. QED  BY <3>2, <3>3
  <2>5. {panel'[k].n : k \in CardsOf(r)'} = first .. c + 1
    <3>1. ASSUME NEW k \in CardsOf(r)' PROVE panel'[k].n \in first .. c + 1
      BY <1>1, <1>3, <1>4, <2>1, <2>2, <2>3
    <3>2. ASSUME NEW n \in first .. c + 1 PROVE \E k \in CardsOf(r)' : panel'[k].n = n
      <4>1. CASE n = c + 1
        BY <1>3, <1>4, <2>1, <4>1
      <4>2. CASE n # c + 1
        <5>1. n \in first .. c
          BY <1>1, <3>2, <4>2
        <5>2. PICK k \in CardsOf(r) : panel[k].n = n
          BY <2>2, <5>1
        <5>. QED  BY <2>1, <5>2
      <4>. QED  BY <4>1, <4>2
    <3>. QED  BY <3>1, <3>2
  <2>6. first \in 1 .. (c + 1) + 1
    BY <1>1
  <2>. QED  BY <1>1, <1>7, <2>4, <2>5, <2>6 DEF EndOfShown
<1>. QED  BY <1>6, <1>7

\* However invocations interleave, what is left of one in the panel is the end
\* of what it showed: no card is lost in the middle, repeated or out of order.
THEOREM CardsStayWhole == Spec => []CardsWithoutHoles
<1>1. CardsWithoutHoles <=> \A s \in Runs : EndOfShown(s)
  BY DEF CardsWithoutHoles, EndOfShown
<1>. DEFINE Inv == PanelInv /\ \A s \in Runs : EndOfShown(s)
<1>2. Init => Inv
  <2>. SUFFICES ASSUME Init PROVE \A s \in Runs : EndOfShown(s)
    BY PanelInit
  <2>1. \A s \in Runs : CardsOf(s) = {}
    BY DEF Init, CardsOf
  <2>. QED  BY <2>1, PanelInit, NoCards DEF PanelInv
<1>3. Inv /\ [Next]_vars => Inv'
  <2>1. ASSUME Inv, UNCHANGED vars, NEW s \in Runs PROVE EndOfShown(s)'
    <3>1. EndOfShown(s) /\ panel' = panel /\ run' = run
      BY <2>1 DEF vars
    <3>. QED  BY <3>1 DEF EndOfShown, CardsOf
  <2>2. ASSUME Inv, NEW r \in Runs, Click(r) \/ Resume(r), PanelInv', NEW s \in Runs
        PROVE  EndOfShown(s)'
    <3>1. Others(r) /\ (Cleared(r) \/ Added(r) \/ Stopped(r))
      BY <2>2, ClickClears, ResumeEffect
    <3>2. CASE Cleared(r)
      <4>1. CardsOf(s)' = {} /\ run'[s].cards \in Nat
        BY <2>2, <3>2 DEF Cleared, CardsOf, PanelInv
      <4>. QED  BY <4>1, NoCards DEF EndOfShown, CardsOf
    <3>3. CASE Added(r)
      BY <2>2, <3>1, <3>3, AddedStaysWhole
    <3>4. CASE Stopped(r)
      <4>1. panel' = panel /\ run'[s].cards = run[s].cards
        BY <3>1, <3>4 DEF Stopped, Others
      <4>. QED  BY <2>2, <4>1 DEF EndOfShown, CardsOf
    <3>. QED  BY <3>1, <3>2, <3>3, <3>4
  <2>. QED  BY <2>1, <2>2, PanelStep DEF Next
<1>. QED  BY <1>1, <1>2, <1>3, PTL DEF Spec

-----------------------------------------------------------------------------
(***************************************************************************)
(* One invocation alone in the panel.                                      *)
(***************************************************************************)
\* The items of one invocation only.
Solo(o) == \A k \in DOMAIN panel : panel[k].run = o

CardsUpTo(o, c) == [n \in 1 .. c |-> Card(o, n)]

\* What o has put into the panel since it last cleared it, and nothing else.
Tidy(o) ==
  /\ run[o].pc = "fetching" => panel = <<Status(o)>>
  /\ run[o].pc = "render" => panel = CardsUpTo(o, run[o].cards)
  /\ run[o].pc = "done" =>
       panel = <<Err(o)>> \/ panel = Heading(o, run[o].kind) \o CardsUpTo(o, run[o].outs)

\* Whoever cleared the panel last left something in it when it settled, and unless
\* another has added to it since, the panel is what it has shown.
Owner(o) ==
  /\ run[o].pc # "new"
  /\ run[o].pc = "done" => o \in ShownRuns
  /\ Solo(o) => Tidy(o)

OwnerInv ==
  \/ panel = <<>> /\ \A r \in Runs : run[r].pc = "new"
  \/ \E o \in Runs : Owner(o)

\* While o renders, what it has shown begins with card 1.
Counts(r) == run[r].pc = "fetching" => run[r].cards = 0

\* The items of a heading; a card added to cards.
LEMMA CardSequences ==
  ASSUME NEW o \in Runs
  PROVE  /\ CardsUpTo(o, 0) = <<>>
         /\ \A c \in Nat : /\ CardsUpTo(o, c) \in Seq(Items)
                           /\ Append(CardsUpTo(o, c), Card(o, c + 1)) = CardsUpTo(o, c + 1)
<1>1. \A c \in Nat : CardsUpTo(o, c) \in Seq(Items) /\ Len(CardsUpTo(o, c)) = c
  BY SingleItems DEF CardsUpTo
<1>2. CardsUpTo(o, 0) = <<>>
  BY DEF CardsUpTo
<1>3. ASSUME NEW c \in Nat PROVE Append(CardsUpTo(o, c), Card(o, c + 1)) = CardsUpTo(o, c + 1)
  BY DEF CardsUpTo
<1>. QED  BY <1>1, <1>2, <1>3

\* Outputs shown: the panel is cleared but for the heading of a result without any.
LEMMA ShownOwner ==
  ASSUME Shape, NEW r \in Runs, NEW q, DOMAIN q = {"kind", "pc", "outs", "cards"},
         q.cards = 0, NEW outs, ShowOutputs(r, q, outs, <<>>),
         q.kind # "hex" \/ outs # 0
  PROVE  Owner(r)'
<1>. DEFINE q2 == [q EXCEPT !.pc = IF outs = 0 THEN "done" ELSE "render", !.outs = outs]
<1>1. run' = [run EXCEPT ![r] = q2]
  BY DEF ShowOutputs
<1>2. /\ q2.pc = (IF outs = 0 THEN "done" ELSE "render") /\ q2.kind = q.kind
      /\ q2.outs = outs /\ q2.cards = 0
  OBVIOUS
<1>. HIDE DEF q2
<1>3. /\ run'[r].pc = (IF outs = 0 THEN "done" ELSE "render") /\ run'[r].kind = q.kind
      /\ run'[r].outs = outs /\ run'[r].cards = 0
  BY <1>1, <1>2 DEF Shape
<1>4. panel' = IF outs = 0 THEN Heading(r, q.kind) \o <<>> ELSE <<>>
  BY DEF ShowOutputs
<1>5. CASE outs = 0
  <2>1. Heading(r, q.kind) \o CardsUpTo(r, 0) = Heading(r, q.kind)
        /\ Heading(r, q.kind) \o <<>> = Heading(r, q.kind)
    BY HeadingItems, CardSequences
  <2>2. Tidy(r)'
    BY <1>3, <1>4, <1>5, CardSequences DEF Tidy
  <2>3. Heading(r, q.kind)[1].run = r /\ 1 \in DOMAIN Heading(r, q.kind)
    BY <1>5 DEF Heading, Summary, Meta
  <2>4. panel' = Heading(r, q.kind)
    BY <1>4, <1>5, <2>1
  <2>. QED  BY <1>3, <1>5, <2>2, <2>3, <2>4 DEF Owner, ShownRuns
<1>6. CASE outs # 0
  <2>1. Tidy(r)'
    BY <1>3, <1>4, <1>6, CardSequences DEF Tidy
  <2>. QED  BY <1>3, <1>6, <2>1 DEF Owner
<1>. QED  BY <1>5, <1>6

\* A status or an error in a cleared panel.
LEMMA SingleOwner ==
  ASSUME Shape, NEW r \in Runs,
         \/ panel' = <<Err(r)>> /\ run'[r].pc = "done"
         \/ panel' = <<Status(r)>> /\ run'[r].pc = "fetching"
  PROVE  Owner(r)'
<1>1. CASE panel' = <<Err(r)>> /\ run'[r].pc = "done"
  <2>1. 1 \in DOMAIN panel' /\ panel'[1].run = r
    BY <1>1 DEF Err
  <2>. QED  BY <1>1, <2>1 DEF Owner, Tidy, ShownRuns
<1>2. CASE panel' = <<Status(r)>> /\ run'[r].pc = "fetching"
  BY <1>2 DEF Owner, Tidy
<1>. QED  BY <1>1, <1>2

\* A click makes the invocation the owner of the panel.
LEMMA ClickOwns ==
  ASSUME PanelInv, NEW r \in Runs, Click(r)
  PROVE  Owner(r)' /\ Counts(r)'
<1>1. Shape
  BY DEF PanelInv
<1>2. CASE RunHex(r)
  <2>1. ShowOutputs(r, Clicked("hex"), 1, <<>>)
    BY <1>2 DEF RunHex
  <2>2. run'[r].pc = "render"
    BY <1>1, <2>1, ClickedFields, ShownFields
  <2>. QED  BY <1>1, <2>1, <2>2, ClickedFields, ShownOwner DEF Counts
<1>3. CASE RunTxJson(r)
  <2>1. CASE panel' = <<Err(r)>> /\ run' = [run EXCEPT ![r] = [Clicked("tx") EXCEPT !.pc = "done"]]
    <3>. DEFINE q == [Clicked("tx") EXCEPT !.pc = "done"]
    <3>1. q.pc = "done" /\ run' = [run EXCEPT ![r] = q]
      BY <2>1 DEF Clicked
    <3>. HIDE DEF q
    <3>2. run'[r].pc = "done"
      BY <1>1, <3>1 DEF Shape
    <3>. QED  BY <1>1, <2>1, <3>2, SingleOwner DEF Counts
  <2>2. ASSUME NEW outs \in 0 .. MaxOutputs, ShowOutputs(r, Clicked("tx"), outs, <<>>)
        PROVE  Owner(r)' /\ Counts(r)'
    <3>1. run'[r].pc # "fetching"
      BY <1>1, <2>2, ClickedFields, ShownFields
    <3>. QED  BY <1>1, <2>2, <3>1, ClickedFields, ShownOwner DEF Counts
  <2>. QED  BY <1>3, <2>1, <2>2 DEF RunTxJson
<1>4. ASSUME NEW kind, panel' = <<Status(r)>>, run' = [run EXCEPT ![r] = Clicked(kind)]
      PROVE  Owner(r)' /\ Counts(r)'
  <2>1. run'[r].pc = "fetching" /\ run'[r].cards = 0
    BY <1>1, <1>4, ClickedFields DEF Shape
  <2>. QED  BY <1>1, <1>4, <2>1, SingleOwner DEF Counts
<1>5. CASE RunFetch(r)
  BY <1>4, <1>5 DEF RunFetch
<1>6. CASE RunAddress(r)
  BY <1>4, <1>6 DEF RunAddress
<1>. QED  BY <1>2, <1>3, <1>5, <1>6 DEF Click

\* No heading changes nothing.
LEMMA NothingAbove == ASSUME NEW S, NEW s \in Seq(S) PROVE <<>> \o s = s
OBVIOUS

\* A card rendered: the owner's own, or a foreign one that ends its solitude.
LEMMA RenderedOwner ==
  ASSUME PanelInv, Shape', NEW r \in Runs, Others(r), Rendered(r), NEW o \in Runs, Owner(o)
  PROVE  Owner(o)'
<1>. DEFINE c == run[r].cards
            last == LastCard(run[r])
            h == IF last THEN Heading(r, run[r].kind) ELSE <<>>
            card == Card(r, c + 1)
<1>1. /\ run[r].pc = "render"
      /\ panel' = IF last THEN Heading(r, run[r].kind) \o Append(panel, card)
                          ELSE Append(panel, card)
      /\ run' = [run EXCEPT ![r].cards = @ + 1, ![r].pc = IF last THEN "done" ELSE "render"]
  BY DEF Rendered, WithCard
<1>2. /\ run'[r].pc = (IF last THEN "done" ELSE "render") /\ run'[r].cards = c + 1
      /\ run'[r].kind = run[r].kind /\ run'[r].outs = run[r].outs
  BY <1>1 DEF PanelInv, Shape
<1>3. c \in Nat /\ card \in Items /\ card.run = r /\ (last <=> c + 1 = run[r].outs)
  BY SingleItems DEF PanelInv, LastCard
<1>4. h \in Seq(Items) /\ panel \in Seq(Items)
  BY HeadingItems DEF PanelInv
<1>5. panel' = h \o Append(panel, card)
  <2>1. CASE last
    BY <1>1, <2>1
  <2>2. CASE ~ last
    <3>1. panel' = Append(panel, card) /\ Append(panel, card) \in Seq(Items)
      BY <1>1, <1>3, <1>4, <2>2
    <3>. QED  BY <2>2, <3>1, NothingAbove
  <2>. QED  BY <2>1, <2>2
<1>. HIDE DEF c, last, h, card
<1>6. /\ Len(panel) \in Nat /\ Len(h) \in Nat /\ DOMAIN panel = 1 .. Len(panel)
      /\ DOMAIN panel' = 1 .. Len(h) + Len(panel) + 1
      /\ \A k \in DOMAIN panel : panel'[Len(h) + k] = panel[k]
      /\ panel'[Len(h) + Len(panel) + 1] = card
  BY <1>3, <1>4, <1>5, AddedPositions
<1>7. \A k \in DOMAIN panel : Len(h) + k \in DOMAIN panel'
  BY <1>6
<1>8. Len(h) + Len(panel) + 1 \in DOMAIN panel'
  BY <1>6
<1>9. CASE o = r
  <2>1. r \in ShownRuns'
    BY <1>3, <1>6, <1>8 DEF ShownRuns
  <2>2. ASSUME Solo(r)' PROVE Tidy(r)'
    <3>1. Solo(r)
      BY <1>6, <1>7, <2>2 DEF Solo
    <3>2. panel = CardsUpTo(r, c)
      BY <1>1, <1>9, <3>1 DEF Owner, Tidy, c
    <3>3. Append(panel, card) = CardsUpTo(r, c + 1)
      BY <1>3, <3>2, CardSequences DEF card
    <3>4. CASE last
      BY <1>2, <1>3, <1>5, <3>3, <3>4 DEF Tidy, h
    <3>5. CASE ~ last
      <4>1. panel' = CardsUpTo(r, c + 1)
        BY <1>1, <3>3, <3>5
      <4>. QED  BY <1>2, <3>5, <4>1 DEF Tidy
    <3>. QED  BY <3>4, <3>5
  <2>. QED  BY <1>2, <1>9, <2>1, <2>2 DEF Owner
<1>10. CASE o # r
  <2>1. run'[o] = run[o]
    BY <1>10 DEF Others
  <2>2. ~ Solo(o)'
    BY <1>3, <1>6, <1>8, <1>10 DEF Solo
  <2>3. o \in ShownRuns => o \in ShownRuns'
    BY <1>6, <1>7 DEF ShownRuns
  <2>. QED  BY <2>1, <2>2, <2>3 DEF Owner
<1>. QED  BY <1>9, <1>10

\* What is resumed hands the panel over or leaves its owner in place.
LEMMA ResumeOwns ==
  ASSUME PanelInv, NEW r \in Runs, Resume(r), Counts(r), OwnerInv
  PROVE  \E o \in Runs : Owner(o)'
<1>1. Shape /\ Shape' /\ Others(r)
  BY ResumeEffect DEF PanelInv
<1>2. run[r].pc \in {"fetching", "render"}
  BY DEF Resume, Responded, Failed, Rendered, RenderFails
<1>3. PICK o \in Runs : Owner(o)
  BY <1>2 DEF OwnerInv
<1>4. CASE Responded(r)
  <2>1. PICK outs \in 0 .. MaxOutputs : ShowOutputs(r, run[r], outs, <<>>)
    BY <1>4 DEF Responded, Kept
  <2>2. /\ DOMAIN run[r] = {"kind", "pc", "outs", "cards"}
        /\ run[r].cards = 0 /\ run[r].kind # "hex"
    BY <1>4 DEF Responded, PanelInv, Shape, Counts
  <2>. QED  BY <1>1, <2>1, <2>2, ShownOwner
<1>5. CASE panel' = <<Err(r)>> /\ run' = [run EXCEPT ![r].pc = "done"]
  <2>1. run'[r].pc = "done"
    BY <1>1, <1>5 DEF Shape
  <2>. QED  BY <1>1, <1>5, <2>1, SingleOwner
<1>6. CASE Rendered(r)
  BY <1>1, <1>3, <1>6, RenderedOwner
<1>7. CASE UNCHANGED panel /\ run' = [run EXCEPT ![r].pc = "stopped"]
  <2>1. run'[r].pc = "stopped" /\ panel' = panel
    BY <1>1, <1>7 DEF Shape
  <2>2. CASE o = r
    BY <2>1, <2>2 DEF Owner, Tidy
  <2>3. CASE o # r
    <3>1. run'[o] = run[o]
      BY <1>1, <2>3 DEF Others
    <3>2. Solo(o)' = Solo(o) /\ ShownRuns' = ShownRuns
      BY <2>1 DEF Solo, ShownRuns
    <3>3. Tidy(o) => Tidy(o)'
      BY <2>1, <3>1 DEF Tidy
    <3>. QED  BY <1>3, <3>1, <3>2, <3>3 DEF Owner
  <2>. QED  BY <2>2, <2>3
<1>. QED  BY <1>4, <1>5, <1>6, <1>7 DEF Resume, Failed, RenderFails

\* The owner's settled panel is the property.
LEMMA OwnerIsFull == OwnerInv => SoloPanelIsFull
<1>. SUFFICES ASSUME OwnerInv, \A s \in Runs : run[s].pc \in {"new", "done"},
                     NEW r \in Runs, ShownRuns = {r}
              PROVE  \/ panel = <<Err(r)>>
                     \/ panel = Heading(r, run[r].kind) \o [n \in 1 .. run[r].outs |-> Card(r, n)]
  BY DEF SoloPanelIsFull
<1>1. panel # <<>>
  BY DEF ShownRuns
<1>2. PICK o \in Runs : Owner(o)
  BY <1>1 DEF OwnerInv
<1>3. o = r /\ run[r].pc = "done"
  BY <1>2 DEF Owner
<1>4. Solo(r)
  BY DEF Solo, ShownRuns
<1>. QED  BY <1>2, <1>3, <1>4 DEF Owner, Tidy, CardsUpTo

\* When everything has settled, no handler having stopped on a rejection it does
\* not catch, and one invocation only is left in the panel, it is there in full.
THEOREM SoloIsShownInFull == Spec => []SoloPanelIsFull
<1>. DEFINE Inv == PanelInv /\ OwnerInv /\ \A r \in Runs : Counts(r)
<1>1. Init => Inv
  <2>. SUFFICES ASSUME Init PROVE OwnerInv /\ \A r \in Runs : Counts(r)
    BY PanelInit
  <2>1. panel = <<>> /\ \A r \in Runs : run[r].pc = "new"
    BY DEF Init
  <2>. QED  BY <2>1 DEF OwnerInv, Counts
<1>2. Inv /\ [Next]_vars => Inv'
  <2>1. ASSUME Inv, UNCHANGED vars PROVE OwnerInv' /\ \A r \in Runs : Counts(r)'
    <3>1. panel' = panel /\ run' = run
      BY <2>1 DEF vars
    <3>. QED  BY <2>1, <3>1 DEF OwnerInv, Owner, Solo, Tidy, ShownRuns, Counts
  <2>2. ASSUME Inv, NEW r \in Runs, Click(r) \/ Resume(r)
        PROVE  OwnerInv' /\ \A s \in Runs : Counts(s)'
    <3>1. Others(r) /\ Counts(r)'
      BY <2>2, ClickClears, ClickOwns, ResumeEffect DEF Counts
    <3>2. \A s \in Runs : Counts(s)'
      BY <2>2, <3>1 DEF Others, Counts
    <3>3. \E o \in Runs : Owner(o)'
      BY <2>2, ClickOwns, ResumeOwns
    <3>. QED  BY <3>2, <3>3 DEF OwnerInv
  <2>. QED  BY <2>1, <2>2, PanelStep DEF Next
<1>. QED  BY <1>1, <1>2, OwnerIsFull, PTL DEF Spec
=============================================================================
