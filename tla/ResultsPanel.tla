---------------------------- MODULE ResultsPanel -----------------------------
(***************************************************************************)
(* The four handlers of view-only-ui/index.html that share one results     *)
(* element: classify a script, classify a pasted transaction, fetch a      *)
(* transaction, scan an address.  Each is an async function: it runs alone *)
(* up to an await, and while it waits - for a response, or for renderOne   *)
(* to build a card - the user may start another.  Nothing but the disabled *)
(* scan button keeps two of them apart.                                    *)
(***************************************************************************)
EXTENDS Integers, Sequences, FiniteSets

CONSTANTS
  Runs,       \* handler invocations, each made once
  MaxOutputs  \* bound: outputs of one transaction or scan

ASSUME BoundAssumption == MaxOutputs \in Nat

Kinds == {"hex", "tx", "fetch", "addr"}

VARIABLES
  panel,        \* the children of #results, first to last
  run,          \* each invocation: its handler, where it is, its outputs, cards shown
  btnDisabled   \* btn-addr

vars == <<panel, run, btnDisabled>>

Status(r) == [kind |-> "status", run |-> r, n |-> 0]
Err(r) == [kind |-> "err", run |-> r, n |-> 0]
Summary(r) == [kind |-> "summary", run |-> r, n |-> 0]
Meta(r) == [kind |-> "meta", run |-> r, n |-> 0]
Card(r, n) == [kind |-> "card", run |-> r, n |-> n]

Init ==
  /\ panel = <<>>
  /\ run = [r \in Runs |-> [kind |-> "none", pc |-> "new", outs |-> 0, cards |-> 0]]
  /\ btnDisabled = FALSE

\* What a finished loop puts above whatever the panel then holds.
Heading(r, kind) ==
  CASE kind = "hex"  -> <<>>
    [] kind = "addr" -> <<Summary(r), Meta(r)>>
    [] OTHER         -> <<Summary(r)>>

\* The outputs are known: cleared, and the cards follow one by one; a result
\* without outputs is only its heading.
ShowOutputs(r, q, outs, kept) ==
  LET done == outs = 0 IN
  /\ panel' = IF done THEN Heading(r, q.kind) \o kept ELSE kept
  /\ run' = [run EXCEPT ![r] = [q EXCEPT !.pc = IF done THEN "done" ELSE "render",
                                         !.outs = outs]]

Clicked(kind) == [kind |-> kind, pc |-> "fetching", outs |-> 0, cards |-> 0]

\* runHex (also by loadExample): one card.
RunHex(r) ==
  /\ run[r].pc = "new"
  /\ ShowOutputs(r, Clicked("hex"), 1, <<>>)
  /\ UNCHANGED btnDisabled

\* runTxJson: text that does not parse, or a transaction.
RunTxJson(r) ==
  /\ run[r].pc = "new"
  /\ \/ /\ panel' = <<Err(r)>>
        /\ run' = [run EXCEPT ![r] = [Clicked("tx") EXCEPT !.pc = "done"]]
     \/ \E outs \in 0 .. MaxOutputs : ShowOutputs(r, Clicked("tx"), outs, <<>>)
  /\ UNCHANGED btnDisabled

RunFetch(r) ==
  /\ run[r].pc = "new"
  /\ panel' = <<Status(r)>>
  /\ run' = [run EXCEPT ![r] = Clicked("fetch")]
  /\ UNCHANGED btnDisabled

\* A disabled button takes no click.
RunAddress(r) ==
  /\ run[r].pc = "new"
  /\ ~ btnDisabled
  /\ panel' = <<Status(r)>>
  /\ run' = [run EXCEPT ![r] = Clicked("addr")]
  /\ btnDisabled' = TRUE

\* Mutant: the button comes back only after a scan that succeeded.
EnabledAfterSuccess(kind, ok) == IF kind = "addr" /\ ok THEN FALSE ELSE btnDisabled

\* finally { btn.disabled = false }
EnabledAfter(kind, ok) == IF kind = "addr" THEN FALSE ELSE btnDisabled

\* Mutant: the results go under what the panel holds.
KeptAll == panel

\* out().innerHTML = "" once the response is in.
Kept == <<>>

\* The awaits before the outputs are known: addrToPkh, the known references,
\* the response and its body.  All of them lie in the try block.
Responded(r) ==
  /\ run[r].pc = "fetching"
  /\ \E outs \in 0 .. MaxOutputs :
       /\ ShowOutputs(r, run[r], outs, Kept)
       /\ btnDisabled' = IF outs = 0 THEN EnabledAfter(run[r].kind, TRUE) ELSE btnDisabled

Failed(r) ==
  /\ run[r].pc = "fetching"
  /\ panel' = <<Err(r)>>
  /\ run' = [run EXCEPT ![r].pc = "done"]
  /\ btnDisabled' = EnabledAfter(run[r].kind, FALSE)

LastCard(q) == q.cards + 1 = q.outs

\* Mutant: a card goes above the earlier ones.
WithCardAbove(items, card) == <<card>> \o items

WithCard(items, card) == Append(items, card)

\* renderOne resolves: its card goes below whatever the panel holds by now, and
\* after the last one the heading goes above it.
Rendered(r) ==
  /\ run[r].pc = "render"
  /\ LET q     == run[r]
         cards == WithCard(panel, Card(r, q.cards + 1))
     IN  /\ panel' = IF LastCard(q) THEN Heading(r, q.kind) \o cards ELSE cards
         /\ run' = [run EXCEPT ![r].cards = @ + 1,
                               ![r].pc = IF LastCard(q) THEN "done" ELSE "render"]
         /\ btnDisabled' = IF LastCard(q) THEN EnabledAfter(q.kind, TRUE) ELSE btnDisabled

\* renderOne rejects (no crypto.subtle to hash an address with): caught where
\* there is a try block, otherwise the handler just stops.
RenderFails(r) ==
  /\ run[r].pc = "render"
  /\ IF run[r].kind \in {"fetch", "addr"}
     THEN panel' = <<Err(r)>> /\ run' = [run EXCEPT ![r].pc = "done"]
     ELSE UNCHANGED panel /\ run' = [run EXCEPT ![r].pc = "stopped"]
  /\ btnDisabled' = EnabledAfter(run[r].kind, FALSE)

Click(r) == RunHex(r) \/ RunTxJson(r) \/ RunFetch(r) \/ RunAddress(r)
Resume(r) == Responded(r) \/ Failed(r) \/ Rendered(r) \/ RenderFails(r)

Next == \E r \in Runs : Click(r) \/ Resume(r)

Spec == Init /\ [][Next]_vars

\* fetch settles, and the event loop runs what a settled promise resumes.
FairSpec == Spec /\ \A r \in Runs : WF_vars(Resume(r))

-----------------------------------------------------------------------------
Active == {r \in Runs : run[r].pc \in {"fetching", "render"}}
CardsOf(r) == {k \in DOMAIN panel : panel[k].kind = "card" /\ panel[k].run = r}
ShownRuns == {panel[k].run : k \in DOMAIN panel}

\* At most one address scan is under way, and the button is disabled exactly
\* while it is, however the scan ends.
OneScan ==
  LET scans == {r \in Active : run[r].kind = "addr"} IN
  Cardinality(scans) <= 1 /\ btnDisabled = (scans # {})

\* However invocations interleave, what is left of one in the panel is the end
\* of what it showed: no card is lost in the middle, repeated or out of order.
CardsWithoutHoles ==
  \A r \in Runs :
    /\ \A j, k \in CardsOf(r) : j < k => panel[j].n < panel[k].n
    /\ \E first \in 1 .. run[r].cards + 1 :
         {panel[k].n : k \in CardsOf(r)} = first .. run[r].cards

\* When everything has settled, no handler having stopped on a rejection it does
\* not catch, and only one invocation is left in the panel, it is there in full:
\* a summary never stands over fewer cards than it counts unless another
\* invocation visibly mixed with it.
SoloPanelIsFull ==
  (\A r \in Runs : run[r].pc \in {"new", "done"}) => \A r \in Runs : ShownRuns = {r} =>
    \/ panel = <<Err(r)>>
    \/ panel = Heading(r, run[r].kind) \o [n \in 1 .. run[r].outs |-> Card(r, n)]

\* The scan button comes back.
ButtonComesBack == btnDisabled ~> ~ btnDisabled
=============================================================================
