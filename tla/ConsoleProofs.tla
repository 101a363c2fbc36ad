---------------------------- MODULE ConsoleProofs ----------------------------
(***************************************************************************)
(* Proofs of the safety properties of Console, for any number of clicks,   *)
(* registries, identities and tabs.  An action does one of two things to   *)
(* the screen: it clears it and shows the selection anew (Shown), or it    *)
(* leaves it, but for cards, and moves one chain on (MovedOn).             *)
(***************************************************************************)
EXTENDS Console, TLAPS

\* The parts of the invariant that tie the screen to the chains.
Tied == KeysOfCalls /\ AwaitsSelected /\ ListIsSelected /\ LabelledByOwnRegistry

SelectionTyped ==
  /\ identity' \in Identities
  /\ registry' \in Registries \cup {None}
  /\ meta' \in [Registries -> Answers \cup {None}]

\* The key of a call made now is the registry selected now, or none.
LEMMA KeyIsSelected ==
  ASSUME SelectionTyped
  PROVE  Key \in {registry', None} /\ Key \in Registries \cup {None}
BY DEF Key, SelectionTyped

LEMMA CallTyped ==
  ASSUME SelectionTyped,
         NEW doing \in {"registries", "meta", "list", "pending", "detail", "post"},
         NEW portal \in Portals \cup {None}, NEW key \in Registries \cup {None},
         NEW next \in {"render", "manage", "open", "worker", "toast", "reopen", "created", "refresh", None}
  PROVE  /\ Call(doing, portal, key, next) \in Calls
         /\ Call(doing, portal, key, next) # None
<1>1. Call(doing, portal, key, next) \in Calls
  BY DEF Call, Calls, SelectionTyped
<1> QED BY <1>1, ConsoleAssumption

\* What a chain waits for next, where it is not a list.
Onward(c) == c = None \/ (c \in Calls /\ c.doing # "list" /\ KeyOfCall(c))

-----------------------------------------------------------------------------

\* ShowPortal clears the view and shows the selection, or waits for it.
LEMMA ShowPortalTied ==
  ASSUME TypeOK, KeysOfCalls, NEW i \in Ids, NEW p \in Portals, NEW scope \in Scopes \cup {None},
         SelectionTyped, ShowPortal(i, p, scope)
  PROVE  /\ chains' \in [Ids -> Calls \cup {None}]
         /\ view' \in Views
         /\ failed' \in BOOLEAN
         /\ \A j \in Ids \ {i} : chains'[j] = chains[j]
         /\ Tied'
<1> DEFINE here == OneRegistry(registry', identity', Key)
           call == Call("list", p, Key, None)
<1>1. Key \in {registry', None} /\ Key \in Registries \cup {None}
  BY KeyIsSelected
<1>2. call \in Calls /\ call # None
  BY <1>1, CallTyped
<1>3. here \in Rows
  BY <1>1 DEF Rows, SelectionTyped, OneRegistry
<1>4. PICK c, list :
        /\ chains' = [chains EXCEPT ![i] = c]
        /\ view' = [by |-> i, portal |-> p, scope |-> scope, list |-> list, cards |-> {}]
        /\ failed' \in BOOLEAN
        /\ \/ c = None /\ list = None
           \/ c = None /\ list = here
           \/ c = call /\ list = None
  BY DEF ShowPortal, Clear, Await, End
<1> HIDE DEF here, call
<1>5. chains' \in [Ids -> Calls \cup {None}] /\ chains'[i] = c
  BY <1>2, <1>4 DEF TypeOK
<1>6. \A j \in Ids \ {i} : chains'[j] = chains[j]
  BY <1>4 DEF TypeOK
<1>7. view' \in Views
  BY <1>3, <1>4 DEF Views
<1>8. call.doing = "list" /\ call.key = Key /\ call.registry = registry' /\ call.identity = identity'
  BY DEF call, Call
<1>9. here.key = Key /\ here.registry = registry' /\ here.identity = identity' /\ here.from = {registry'}
  BY DEF here, OneRegistry
<1>10. KeysOfCalls'
  BY <1>1, <1>4, <1>5, <1>6, <1>8 DEF KeysOfCalls, KeyOfCall
<1>11. view'.by = i /\ view'.list = list /\ view'.cards = {}
  BY <1>4
<1>12. AwaitsSelected'
  BY <1>4, <1>5, <1>8, <1>11 DEF AwaitsSelected, Waiting, OfSelection
<1>13. ListIsSelected'
  BY <1>4, <1>9, <1>11 DEF ListIsSelected, OfSelection
<1>14. LabelledByOwnRegistry'
  BY <1>1, <1>4, <1>9, <1>11 DEF LabelledByOwnRegistry
<1> QED BY <1>4, <1>5, <1>6, <1>7, <1>10, <1>12, <1>13, <1>14 DEF Tied

\* Whatever the scope is taken from, it is one.
LEMMA RedrawShows ==
  ASSUME NEW i, NEW p, Redraw(i, p)
  PROVE  \E scope \in Scopes \cup {None} : ShowPortal(i, p, scope)
BY DEF Redraw, ScopesOf, Scopes

LEMMA RenderTied ==
  ASSUME TypeOK, KeysOfCalls, NEW i \in Ids, SelectionTyped, tab' \in Tabs, Render(i)
  PROVE  /\ chains' \in [Ids -> Calls \cup {None}]
         /\ view' \in Views
         /\ failed' \in BOOLEAN
         /\ \A j \in Ids \ {i} : chains'[j] = chains[j]
         /\ Tied'
<1>1. tab' \in Portals
  BY ConsoleAssumption
<1>2. CASE Key = None
  <2>1. /\ chains' = [chains EXCEPT ![i] = None]
        /\ view' = [by |-> i, portal |-> tab', scope |-> None, list |-> None, cards |-> {}]
        /\ failed' = TRUE
    BY <1>2 DEF Render, Clear, End
  <2>2. chains' \in [Ids -> Calls \cup {None}] /\ chains'[i] = None
    BY <2>1 DEF TypeOK
  <2>3. \A j \in Ids \ {i} : chains'[j] = chains[j]
    BY <2>1 DEF TypeOK
  <2>4. view' \in Views
    BY <1>1, <2>1 DEF Views
  <2>5. KeysOfCalls'
    BY <2>2, <2>3 DEF KeysOfCalls, KeyOfCall
  <2>6. AwaitsSelected' /\ ListIsSelected' /\ LabelledByOwnRegistry'
    BY <2>1 DEF AwaitsSelected, ListIsSelected, LabelledByOwnRegistry
  <2> QED BY <2>1, <2>2, <2>3, <2>4, <2>5, <2>6 DEF Tied
<1>3. CASE Key # None
  <2>1. \E scope \in Scopes \cup {None} : ShowPortal(i, tab', scope)
    BY <1>3 DEF Render, Scopes
  <2> QED BY <1>1, <2>1, ShowPortalTied
<1> QED BY <1>2, <1>3

\* A chain that moves on without touching the list keeps what ties it to the selection,
\* unless it was the one that changes the selection.
LEMMA MovedOn ==
  ASSUME TypeOK, Tied, NEW i \in Ids, NEW c, Onward(c), UNCHANGED <<identity, registry>>,
         chains' = [chains EXCEPT ![i] = c],
         view'.by = view.by, view'.scope = view.scope, view'.list = view.list, failed => failed',
         \A card \in view'.cards : card \in view.cards \/ (card.kind = "detail" => card.key = card.registry),
         Waiting(i, "meta") => failed' \/ chains[i].next \notin {"render", "open"}
  PROVE  chains' \in [Ids -> Calls \cup {None}] /\ Tied'
<1>1. chains'[i] = c /\ \A j \in Ids \ {i} : chains'[j] = chains[j]
  BY DEF TypeOK
<1>2. chains' \in [Ids -> Calls \cup {None}]
  BY DEF TypeOK, Onward
<1>3. KeysOfCalls'
  BY <1>1 DEF Tied, KeysOfCalls, KeyOfCall, Onward
<1>4. Switching => Switching' \/ failed'
  BY <1>1 DEF Switching, Waiting
<1>5. ListIsSelected'
  BY <1>4 DEF Tied, ListIsSelected, OfSelection
<1>6. AwaitsSelected'
  <2> SUFFICES ASSUME NEW j \in Ids, Waiting(j, "list")', view'.by = j
               PROVE  OfSelection(chains[j])' \/ Switching' \/ failed'
    BY DEF AwaitsSelected
  <2>1. j # i
    BY <1>1 DEF Waiting, Onward
  <2>2. Waiting(j, "list") /\ view.by = j /\ chains'[j] = chains[j]
    BY <1>1, <2>1 DEF Waiting
  <2> QED BY <1>4, <2>2 DEF Tied, AwaitsSelected, OfSelection
<1>7. LabelledByOwnRegistry'
  BY DEF Tied, LabelledByOwnRegistry
<1> QED BY <1>2, <1>3, <1>5, <1>6, <1>7 DEF Tied

\* A change of the selection is under way until the chain it starts has its answer.
LEMMA SwitchTied ==
  ASSUME TypeOK, Tied, NEW i \in Ids, NEW next \in {"render", "open"}, SelectionTyped,
         RefreshMeta(i, next)
  PROVE  /\ chains' \in [Ids -> Calls \cup {None}]
         /\ \A j \in Ids \ {i} : chains'[j] = chains[j]
         /\ UNCHANGED <<view, failed>>
         /\ Tied'
<1> DEFINE call == Call("meta", None, None, next)
<1>1. call \in Calls /\ call # None
  BY CallTyped
<1>2. call.doing = "meta" /\ call.next = next
  BY DEF call, Call
<1>3. chains' = [chains EXCEPT ![i] = call] /\ UNCHANGED <<view, failed>>
  BY DEF RefreshMeta, Await
<1> HIDE DEF call
<1>4. /\ chains' \in [Ids -> Calls \cup {None}]
      /\ chains'[i] = call /\ \A j \in Ids \ {i} : chains'[j] = chains[j]
  BY <1>1, <1>3 DEF TypeOK
<1>5. Switching'
  BY <1>1, <1>2, <1>4 DEF Switching, Waiting
<1>6. KeysOfCalls'
  BY <1>2, <1>4 DEF Tied, KeysOfCalls, KeyOfCall
<1>7. AwaitsSelected' /\ ListIsSelected'
  BY <1>5 DEF AwaitsSelected, ListIsSelected
<1>8. LabelledByOwnRegistry'
  BY <1>3 DEF Tied, LabelledByOwnRegistry
<1> QED BY <1>3, <1>4, <1>6, <1>7, <1>8 DEF Tied

-----------------------------------------------------------------------------

\* A click starts the first chain that was not started.
LEMMA ClickStarts ==
  ASSUME ConsoleInv, Click
  PROVE  /\ New \in Ids /\ chains[New] = None
         /\ clicks' \in 0 .. MaxClicks
         /\ (\A j \in Ids \ {New} : chains'[j] = chains[j]) => NotStarted'
BY ConsoleAssumption DEF ConsoleInv, TypeOK, NotStarted, Click, New, Ids

\* An answer is for a chain that was started.
LEMMA AnswerStarts ==
  ASSUME ConsoleInv, NEW i \in Ids, chains[i] # None, UNCHANGED clicks,
         \A j \in Ids \ {i} : chains'[j] = chains[j]
  PROVE  NotStarted' /\ clicks' \in 0 .. MaxClicks
BY ConsoleAssumption DEF ConsoleInv, TypeOK, NotStarted, Ids

\* The other variables of TypeOK, where a step leaves them alone.
LEMMA SelectionKept ==
  ASSUME TypeOK, UNCHANGED <<selection, meta>>
  PROVE  SelectionTyped /\ tab' \in Tabs /\ tab' \in Portals
BY ConsoleAssumption DEF TypeOK, SelectionTyped, selection

LEMMA InvTied ==
  ASSUME ConsoleInv PROVE TypeOK /\ NotStarted /\ Tied /\ KeysOfCalls
BY DEF ConsoleInv, Tied

LEMMA SwitchIdentityInv == ASSUME ConsoleInv, SwitchIdentity PROVE ConsoleInv'
<1> USE InvTied
<1>1. SelectionTyped
  BY DEF SwitchIdentity, RefreshMeta, SelectionTyped, TypeOK
<1>2. New \in Ids /\ clicks' \in 0 .. MaxClicks
  BY ClickStarts DEF SwitchIdentity
<1>3. /\ chains' \in [Ids -> Calls \cup {None}] /\ Tied' /\ UNCHANGED <<view, failed>>
      /\ \A j \in Ids \ {New} : chains'[j] = chains[j]
  BY <1>1, <1>2, SwitchTied DEF SwitchIdentity, AfterSwitch
<1>4. NotStarted'
  BY <1>3, ClickStarts DEF SwitchIdentity
<1>5. open' \in [Details -> Registries \cup {None}]
  BY DEF SwitchIdentity, Nowhere
<1>6. TypeOK'
  BY <1>1, <1>2, <1>3, <1>5 DEF SwitchIdentity, TypeOK, SelectionTyped
<1> QED BY <1>3, <1>4, <1>6 DEF ConsoleInv, Tied

LEMMA SwitchRegistryInv == ASSUME ConsoleInv, SwitchRegistry PROVE ConsoleInv'
<1> USE InvTied
<1>1. SelectionTyped
  BY DEF SwitchRegistry, RefreshMeta, SelectionTyped, TypeOK
<1>2. New \in Ids /\ clicks' \in 0 .. MaxClicks
  BY ClickStarts DEF SwitchRegistry
<1>3. /\ chains' \in [Ids -> Calls \cup {None}] /\ Tied' /\ UNCHANGED <<view, failed>>
      /\ \A j \in Ids \ {New} : chains'[j] = chains[j]
  BY <1>1, <1>2, SwitchTied DEF SwitchRegistry, AfterSwitch
<1>4. NotStarted'
  BY <1>3, ClickStarts DEF SwitchRegistry
<1>5. open' \in [Details -> Registries \cup {None}]
  BY DEF SwitchRegistry, Nowhere
<1>6. TypeOK'
  BY <1>1, <1>2, <1>3, <1>5 DEF SwitchRegistry, TypeOK, SelectionTyped
<1> QED BY <1>3, <1>4, <1>6 DEF ConsoleInv, Tied

LEMMA OpenElsewhereInv == ASSUME ConsoleInv, OpenElsewhere PROVE ConsoleInv'
<1> USE InvTied
<1>1. SelectionTyped
  <2>1. view.list \in Rows /\ registry' \in view.list.from \ {registry}
    BY DEF OpenElsewhere, OnScreen, TypeOK, Views
  <2>2. registry' \in Registries \cup {None}
    BY <2>1 DEF Rows
  <2> QED BY <2>2 DEF OpenElsewhere, RefreshMeta, SelectionTyped, TypeOK
<1>2. New \in Ids /\ clicks' \in 0 .. MaxClicks
  BY ClickStarts DEF OpenElsewhere
<1>3. /\ chains' \in [Ids -> Calls \cup {None}] /\ Tied' /\ UNCHANGED <<view, failed>>
      /\ \A j \in Ids \ {New} : chains'[j] = chains[j]
  BY <1>1, <1>2, SwitchTied DEF OpenElsewhere
<1>4. NotStarted'
  BY <1>3, ClickStarts DEF OpenElsewhere
<1>5. TypeOK'
  BY <1>1, <1>2, <1>3 DEF OpenElsewhere, TypeOK, SelectionTyped
<1> QED BY <1>3, <1>4, <1>5 DEF ConsoleInv, Tied

\* The clicks that show a portal of the same selection.
LEMMA ShowInv ==
  ASSUME ConsoleInv, Click, UNCHANGED <<identity, registry, meta>>, tab' \in Tabs,
         open' \in [Details -> Registries \cup {None}], creating' \in BOOLEAN,
         Render(New) \/ \E p \in Portals : Redraw(New, p)
  PROVE  ConsoleInv'
<1> USE InvTied
<1>1. SelectionTyped
  BY DEF SelectionTyped, TypeOK
<1>2. New \in Ids /\ clicks' \in 0 .. MaxClicks
  BY ClickStarts
<1>3. /\ chains' \in [Ids -> Calls \cup {None}]
      /\ view' \in Views
      /\ failed' \in BOOLEAN
      /\ \A j \in Ids \ {New} : chains'[j] = chains[j]
      /\ Tied'
  BY <1>1, <1>2, RenderTied, RedrawShows, ShowPortalTied
<1>4. NotStarted'
  BY <1>3, ClickStarts
<1>5. TypeOK'
  BY <1>1, <1>2, <1>3 DEF TypeOK, SelectionTyped
<1> QED BY <1>3, <1>4, <1>5 DEF ConsoleInv, Tied

LEMMA SwitchTabInv == ASSUME ConsoleInv, SwitchTab PROVE ConsoleInv'
BY ShowInv, InvTied DEF SwitchTab, TypeOK

LEMMA OpenRowInv == ASSUME ConsoleInv, NEW p \in Portals, OpenRow(p) PROVE ConsoleInv'
<1> USE InvTied
<1>1. open' \in [Details -> Registries \cup {None}]
  <2>1. PICK g \in view.list.from : open' = [open EXCEPT ![p] = g]
    BY DEF OpenRow
  <2>2. view.list \in Rows
    BY DEF OpenRow, OnScreen, TypeOK, Views
  <2>3. g \in Registries \cup {None}
    BY <2>1, <2>2 DEF Rows
  <2> QED BY <2>1, <2>3 DEF TypeOK
<1>2. Redraw(New, p) /\ tab' \in Tabs /\ creating' \in BOOLEAN
  BY DEF OpenRow, TypeOK, selection
<1> QED BY <1>1, <1>2, ShowInv DEF OpenRow, selection

LEMMA ShowAgainInv == ASSUME ConsoleInv, NEW p \in Portals, ShowAgain(p) PROVE ConsoleInv'
<1> USE InvTied
<1>1. open' \in [Details -> Registries \cup {None}] /\ creating' \in BOOLEAN
  BY DEF ShowAgain, TypeOK
<1>2. Redraw(New, p) /\ tab' \in Tabs
  BY DEF ShowAgain, TypeOK, selection
<1> QED BY <1>1, <1>2, ShowInv DEF ShowAgain, selection

LEMMA CloseDetailInv == ASSUME ConsoleInv, CloseDetail PROVE ConsoleInv'
<1> USE InvTied
<1>1. open' \in [Details -> Registries \cup {None}] /\ creating' \in BOOLEAN
  BY DEF CloseDetail, TypeOK
<1>2. Render(New) /\ tab' \in Tabs
  BY DEF CloseDetail, TypeOK, selection
<1> QED BY <1>1, <1>2, ShowInv DEF CloseDetail, selection

\* A command leaves the screen as it is until it is answered.
LEMMA PostInv ==
  ASSUME ConsoleInv, NEW next \in {"worker", "toast", "reopen", "render", "created", "refresh", "manage"},
         Post(next)
  PROVE  ConsoleInv'
<1> USE InvTied
<1> DEFINE call == Call("post", None, None, next)
<1>1. New \in Ids /\ chains[New] = None /\ clicks' \in 0 .. MaxClicks
  BY ClickStarts DEF Post
<1>2. SelectionTyped /\ tab' \in Tabs
  BY SelectionKept DEF Post
<1>3. call \in Calls /\ call.doing = "post"
  BY <1>2, CallTyped DEF Call
<1>4. chains' = [chains EXCEPT ![New] = call] /\ UNCHANGED <<selection, meta, open, creating, view, failed>>
  BY DEF Post, Await
<1> HIDE DEF call
<1>5. chains' \in [Ids -> Calls \cup {None}] /\ Tied'
  <2>1. Onward(call)
    BY <1>3 DEF Onward, KeyOfCall
  <2>2. ~Waiting(New, "meta")
    BY <1>1 DEF Waiting
  <2> QED BY <1>1, <1>4, <2>1, <2>2, MovedOn DEF selection
<1>6. NotStarted'
  BY <1>1, <1>4, ClickStarts DEF Post, TypeOK
<1>7. TypeOK'
  BY <1>1, <1>2, <1>4, <1>5 DEF TypeOK, selection
<1> QED BY <1>5, <1>6, <1>7 DEF ConsoleInv, Tied

LEMMA ClicksInv == ASSUME ConsoleInv, Clicks PROVE ConsoleInv'
<1>1. CASE SwitchIdentity \/ SwitchRegistry \/ SwitchTab
  BY <1>1, SwitchIdentityInv, SwitchRegistryInv, SwitchTabInv
<1>2. CASE OpenElsewhere \/ CloseDetail
  BY <1>2, OpenElsewhereInv, CloseDetailInv
<1>3. CASE \E p \in Portals : OpenRow(p) \/ ShowAgain(p)
  BY <1>3, OpenRowInv, ShowAgainInv
<1>4. CASE TakeCase \/ DecidePending \/ KeepCase \/ WorkerCommand \/ SubmitForm \/ CreateCase
  BY <1>4, PostInv DEF TakeCase, DecidePending, KeepCase, WorkerCommand, SubmitForm, CreateCase
<1>5. CASE EditConfiguration \/ EditRights \/ ManageTokens
  BY <1>5, PostInv DEF EditConfiguration, EditRights, ManageTokens
<1> QED BY <1>1, <1>2, <1>3, <1>4, <1>5 DEF Clicks

-----------------------------------------------------------------------------

\* What an answer has to keep, for the invariant.
LEMMA AnswerInv ==
  ASSUME ConsoleInv, NEW i \in Ids, chains[i] # None, UNCHANGED clicks,
         chains' \in [Ids -> Calls \cup {None}], \A j \in Ids \ {i} : chains'[j] = chains[j],
         view' \in Views,
         SelectionTyped, tab' \in Tabs, open' \in [Details -> Registries \cup {None}],
         creating' \in BOOLEAN, failed' \in BOOLEAN, Tied'
  PROVE  ConsoleInv'
<1>1. NotStarted' /\ clicks' \in 0 .. MaxClicks
  BY AnswerStarts
<1>2. TypeOK'
  BY <1>1 DEF TypeOK, SelectionTyped
<1> QED BY <1>1, <1>2 DEF ConsoleInv, Tied

\* The answers after which a portal is shown.
LEMMA ShownAnswerInv ==
  ASSUME ConsoleInv, NEW i \in Ids, chains[i] # None, UNCHANGED clicks,
         SelectionTyped, tab' \in Tabs, open' \in [Details -> Registries \cup {None}],
         creating' \in BOOLEAN,
         Render(i) \/ \E p \in Portals : Redraw(i, p)
  PROVE  ConsoleInv'
<1> USE InvTied
<1>1. /\ chains' \in [Ids -> Calls \cup {None}]
      /\ view' \in Views
      /\ failed' \in BOOLEAN
      /\ \A j \in Ids \ {i} : chains'[j] = chains[j]
      /\ Tied'
  BY RenderTied, RedrawShows, ShowPortalTied
<1> QED BY <1>1, AnswerInv

\* The answers that leave the list and the selection.
LEMMA MovedAnswerInv ==
  ASSUME ConsoleInv, NEW i \in Ids, chains[i] # None, UNCHANGED <<clicks, selection>>,
         NEW c, Onward(c), chains' = [chains EXCEPT ![i] = c],
         meta' \in [Registries -> Answers \cup {None}],
         open' \in [Details -> Registries \cup {None}], creating' \in BOOLEAN,
         failed' \in BOOLEAN, failed => failed',
         view' \in Views,
         view'.by = view.by, view'.scope = view.scope, view'.list = view.list,
         \A card \in view'.cards : card \in view.cards \/ (card.kind = "detail" => card.key = card.registry),
         Waiting(i, "meta") => failed' \/ chains[i].next \notin {"render", "open"}
  PROVE  ConsoleInv'
<1> USE InvTied
<1>1. chains' \in [Ids -> Calls \cup {None}] /\ Tied'
  BY MovedOn DEF selection
<1>2. \A j \in Ids \ {i} : chains'[j] = chains[j]
  BY DEF TypeOK
<1>3. SelectionTyped /\ tab' \in Tabs
  BY DEF SelectionTyped, TypeOK, selection
<1> QED BY <1>1, <1>2, <1>3, AnswerInv

LEMMA BootedInv == ASSUME ConsoleInv, NEW i \in Ids, Booted(i) PROVE ConsoleInv'
<1> USE InvTied
<1>1. SelectionTyped /\ tab' \in Tabs
  BY ConsoleAssumption DEF Booted, RefreshMeta, SelectionTyped, TypeOK
<1>2. /\ chains' \in [Ids -> Calls \cup {None}] /\ Tied' /\ UNCHANGED <<view, failed>>
      /\ \A j \in Ids \ {i} : chains'[j] = chains[j]
  BY <1>1, SwitchTied DEF Booted
<1>3. chains[i] # None /\ UNCHANGED <<open, creating, clicks>>
  BY DEF Booted, Waiting
<1> QED BY <1>1, <1>2, <1>3, AnswerInv DEF TypeOK

LEMMA MetaAnsweredInv == ASSUME ConsoleInv, NEW i \in Ids, MetaAnswered(i) PROVE ConsoleInv'
<1> USE InvTied
<1>1. /\ Waiting(i, "meta") /\ chains[i] # None /\ chains[i] \in Calls
      /\ UNCHANGED <<selection, creating, clicks>>
  BY DEF MetaAnswered, Waiting, TypeOK
<1>2. meta' \in [Registries -> Answers \cup {None}]
  <2> DEFINE answer == [registry |-> chains[i].registry, identity |-> chains[i].identity]
  <2>1. chains[i].registry # None => answer \in Answers
    BY <1>1 DEF Answers, Calls
  <2>2. \/ meta' = meta
        \/ chains[i].registry # None /\ meta' = [meta EXCEPT ![registry] = answer]
    BY DEF MetaAnswered, Store
  <2> HIDE DEF answer
  <2> QED BY <2>1, <2>2 DEF TypeOK
<1>3. SelectionTyped /\ tab' \in Tabs /\ creating' \in BOOLEAN
  BY <1>1, <1>2 DEF SelectionTyped, TypeOK, selection
<1>4. CASE chains[i].next = "render"
  <2>1. Render(i) /\ open' = open
    BY <1>4 DEF MetaAnswered
  <2> QED BY <1>1, <1>3, <2>1, ShownAnswerInv DEF TypeOK
<1>5. CASE chains[i].next = "manage"
  <2>1. Redraw(i, "management") /\ open' = open
    BY <1>5 DEF MetaAnswered
  <2>2. "management" \in Portals
    BY DEF Portals
  <2> QED BY <1>1, <1>3, <2>1, <2>2, ShownAnswerInv DEF TypeOK
<1>6. CASE chains[i].next = "open"
  <2>1. Redraw(i, "publishing") /\ open' = [open EXCEPT !["publishing"] = chains[i].registry]
    BY <1>6 DEF MetaAnswered
  <2>2. "publishing" \in Portals
    BY DEF Portals
  <2>3. open' \in [Details -> Registries \cup {None}]
    BY <1>1, <2>1 DEF TypeOK, Calls
  <2> QED BY <1>1, <1>3, <2>1, <2>2, <2>3, ShownAnswerInv
<1>7. CASE chains[i].next \notin {"render", "manage", "open"}
  <2>1. UNCHANGED <<open, view, failed>> /\ chains' = [chains EXCEPT ![i] = None]
    BY <1>7 DEF MetaAnswered, End
  <2>2. Onward(None)
    BY DEF Onward
  <2> QED BY <1>1, <1>2, <1>3, <1>7, <2>1, <2>2, MovedAnswerInv DEF TypeOK
<1> QED BY <1>4, <1>5, <1>6, <1>7

\* What the chain of a list waits for next is no list.
LEMMA NextOnward ==
  ASSUME ConsoleInv, UNCHANGED <<selection, meta>>,
         NEW doing \in {"pending", "detail"}, NEW p \in Portals, NEW key \in {Key, None}
  PROVE  Onward(Call(doing, p, key, None))
<1>1. SelectionTyped
  BY InvTied, SelectionKept
<1>2. key \in {registry', None} /\ key \in Registries \cup {None}
  BY <1>1, KeyIsSelected
<1>3. Call(doing, p, key, None) \in Calls
  BY <1>1, <1>2, CallTyped
<1> QED BY <1>2, <1>3 DEF Onward, KeyOfCall, Call

LEMMA DetailOnward ==
  ASSUME ConsoleInv, UNCHANGED <<selection, meta>>, NEW i \in Ids, NEW p \in Portals, Detail(i, p)
  PROVE  \E c : Onward(c) /\ chains' = [chains EXCEPT ![i] = c]
<1>1. Onward(None) /\ Onward(Call("detail", p, Key, None))
  BY NextOnward DEF Onward
<1> QED BY <1>1 DEF Detail, End, Await

\* The one answer that fills the list of the view: it was asked for as the selection
\* still is, or the selection is being changed.
LEMMA ListAnsweredInv == ASSUME ConsoleInv, NEW i \in Ids, ListAnswered(i) PROVE ConsoleInv'
<1> USE InvTied
<1> DEFINE call == chains[i]
           row == Listed(i)
<1>1. /\ Waiting(i, "list") /\ call # None /\ call \in Calls /\ call.doing = "list"
      /\ UNCHANGED <<selection, meta, open, creating, clicks>>
  BY DEF ListAnswered, Waiting, TypeOK
<1>2. ~Waiting(i, "meta") /\ \A j \in Ids : Waiting(j, "meta") => j # i
  BY <1>1 DEF Waiting
<1>3. Onward(None)
  BY DEF Onward
<1>4. CASE UNCHANGED view /\ failed' = (failed \/ StillShown(i)) /\ End(i)
  <2>1. failed' \in BOOLEAN /\ (failed => failed')
    BY <1>4 DEF StillShown, TypeOK
  <2> QED BY <1>1, <1>2, <1>3, <1>4, <2>1, MovedAnswerInv DEF TypeOK, End
<1>5. ASSUME view' = (IF StillShown(i) THEN [view EXCEPT !.list = row] ELSE view), UNCHANGED failed,
             NEW c, Onward(c), chains' = [chains EXCEPT ![i] = c]
      PROVE  ConsoleInv'
  <2>1. CASE ~StillShown(i)
    <3>1. view' = view
      BY <1>5, <2>1
    <3> QED BY <1>1, <1>2, <1>5, <3>1, MovedAnswerInv DEF TypeOK
  <2>2. CASE StillShown(i)
    <3>1. row \in Rows
      <4>1. row.from \subseteq Registries \cup {None}
        BY <1>1 DEF Listed, Calls
      <4> QED BY <1>1, <4>1 DEF Rows, Calls, Listed, Labels
    <3>2. /\ row.registry = call.registry /\ row.identity = call.identity /\ row.key = call.key
          /\ view.scope # "all" => row.from = {call.registry}
      BY DEF Listed, Labels
    <3>3. view.scope # "all" => \A g \in row.from : row.key \in {g, None}
      BY <1>1, <3>2 DEF KeysOfCalls, KeyOfCall
    <3>4. OfSelection(call) \/ Switching \/ failed
      BY <1>1, <2>2 DEF Tied, AwaitsSelected, StillShown
    <3>5. chains'[i] = c /\ \A j \in Ids \ {i} : chains'[j] = chains[j]
      BY <1>5 DEF TypeOK
    <3>6. chains' \in [Ids -> Calls \cup {None}]
      BY <1>5 DEF TypeOK, Onward
    <3> HIDE DEF row, call
    <3>7. view'.by = i /\ view'.list = row /\ view'.scope = view.scope /\ view'.cards = view.cards
      BY <1>5, <2>2 DEF StillShown, TypeOK, Views
    <3>8. view' \in Views
      BY <1>5, <2>2, <3>1 DEF TypeOK, Views
    <3>9. Switching => Switching'
      BY <1>2, <3>5 DEF Switching, Waiting
    <3>10. KeysOfCalls'
      BY <1>5, <3>5 DEF KeysOfCalls, KeyOfCall, Onward
    <3>11. AwaitsSelected'
      BY <1>5, <3>5, <3>7 DEF AwaitsSelected, Waiting, Onward
    <3>12. ListIsSelected'
      BY <1>1, <1>5, <3>2, <3>4, <3>7, <3>9 DEF ListIsSelected, OfSelection, selection
    <3>13. LabelledByOwnRegistry'
      BY <3>3, <3>7 DEF Tied, LabelledByOwnRegistry
    <3>14. SelectionTyped /\ tab' \in Tabs
      BY <1>1, SelectionKept
    <3>15. Tied'
      BY <3>10, <3>11, <3>12, <3>13 DEF Tied
    <3>16. open' \in [Details -> Registries \cup {None}] /\ creating' \in BOOLEAN /\ failed' \in BOOLEAN
      BY <1>1, <1>5 DEF TypeOK
    <3>17. chains[i] # None /\ UNCHANGED clicks
      BY <1>1 DEF call
    <3> QED BY <3>5, <3>6, <3>8, <3>14, <3>15, <3>16, <3>17, AnswerInv
  <2> QED BY <2>1, <2>2
<1>6. CASE /\ view' = (IF StillShown(i) THEN [view EXCEPT !.list = row] ELSE view)
           /\ UNCHANGED failed
           /\ CASE call.portal = "worker"     -> Await(i, Call("pending", "worker", None, None))
                [] call.portal = "management" -> End(i)
                [] call.portal = "customer"   -> Detail(i, "customer")
                [] OTHER                      -> Detail(i, "publishing") \/ End(i)
  <2>1. \/ Await(i, Call("pending", "worker", None, None)) \/ End(i)
        \/ Detail(i, "customer") \/ Detail(i, "publishing")
    BY <1>6
  <2>2. {"customer", "worker", "publishing"} \subseteq Portals
    BY DEF Portals
  <2>3. Onward(Call("pending", "worker", None, None))
    BY <1>1, <2>2, NextOnward
  <2>4. \E c : Onward(c) /\ chains' = [chains EXCEPT ![i] = c]
    BY <1>1, <1>3, <2>1, <2>2, <2>3, DetailOnward DEF Await, End
  <2> QED BY <1>5, <1>6, <2>4
<1> QED BY <1>4, <1>6 DEF ListAnswered, Labels

LEMMA PendingAnsweredInv == ASSUME ConsoleInv, NEW i \in Ids, PendingAnswered(i) PROVE ConsoleInv'
<1> USE InvTied
<1> DEFINE card == [kind |-> "pending", portal |-> "worker", registry |-> chains[i].registry, key |-> None]
<1>1. /\ Waiting(i, "pending") /\ chains[i] # None /\ chains[i] \in Calls /\ ~Waiting(i, "meta")
      /\ UNCHANGED <<selection, meta, open, creating, clicks, failed>>
      /\ view' = view \/ Append(card)
  BY DEF PendingAnswered, Waiting, TypeOK
<1>2. PICK c : Onward(c) /\ chains' = [chains EXCEPT ![i] = c]
  BY <1>1, DetailOnward DEF PendingAnswered, Portals
<1>3. card \in Cards /\ card.kind # "detail"
  BY <1>1 DEF Cards, Calls, Portals
<1> HIDE DEF card
<1>4. /\ view' \in Views
      /\ view'.by = view.by /\ view'.scope = view.scope /\ view'.list = view.list
      /\ \A d \in view'.cards : d \in view.cards \/ d = card
  BY <1>1, <1>3 DEF Append, TypeOK, Views
<1> QED BY <1>1, <1>2, <1>3, <1>4, MovedAnswerInv DEF TypeOK

LEMMA DetailAnsweredInv == ASSUME ConsoleInv, NEW i \in Ids, DetailAnswered(i) PROVE ConsoleInv'
<1> USE InvTied
<1> DEFINE call == chains[i]
           card == [kind |-> "detail", portal |-> call.portal, registry |-> call.registry, key |-> call.key]
<1>1. /\ Waiting(i, "detail") /\ call # None /\ call \in Calls /\ call.doing = "detail" /\ ~Waiting(i, "meta")
      /\ UNCHANGED <<selection, meta, open, creating, clicks, failed>>
      /\ view' = view \/ (call.key # None /\ Append(card))
      /\ chains' = [chains EXCEPT ![i] = None]
  BY DEF DetailAnswered, Waiting, TypeOK, End, Labels
<1>2. card \in Cards /\ card.key = call.key /\ card.registry = call.registry
  BY <1>1 DEF Cards, Calls
<1>3. call.key # None => card.key = card.registry
  BY <1>1, <1>2 DEF KeysOfCalls, KeyOfCall
<1>4. Onward(None)
  BY DEF Onward
<1> HIDE DEF card, call
<1>5. /\ view' \in Views
      /\ view'.by = view.by /\ view'.scope = view.scope /\ view'.list = view.list
      /\ \A d \in view'.cards : d \in view.cards \/ (d = card /\ call.key # None)
  BY <1>1, <1>2 DEF Append, TypeOK, Views
<1>6. chains[i] # None
  BY <1>1 DEF call
<1> QED BY <1>1, <1>3, <1>4, <1>5, <1>6, MovedAnswerInv DEF TypeOK

LEMMA PostToastedInv == ASSUME ConsoleInv, NEW i \in Ids, PostToasted(i) PROVE ConsoleInv'
<1> USE InvTied
<1>1. /\ chains[i] # None /\ ~Waiting(i, "meta") /\ chains' = [chains EXCEPT ![i] = None]
      /\ UNCHANGED <<selection, meta, open, creating, view, clicks, failed>>
  BY DEF PostToasted, Waiting, End
<1>2. Onward(None)
  BY DEF Onward
<1> QED BY <1>1, <1>2, MovedAnswerInv DEF TypeOK

LEMMA PostAnsweredInv == ASSUME ConsoleInv, NEW i \in Ids, PostAnswered(i) PROVE ConsoleInv'
<1> USE InvTied
<1> DEFINE call == chains[i]
<1>1. /\ chains[i] # None /\ call \in Calls /\ ~Waiting(i, "meta") /\ UNCHANGED <<selection, meta, clicks>>
      /\ creating' \in BOOLEAN
  BY DEF PostAnswered, Waiting, TypeOK
<1>2. open' \in [Details -> Registries \cup {None}]
  <2>1. call.registry \in Registries \cup {None}
    BY <1>1 DEF Calls
  <2> HIDE DEF call
  <2>2. \/ open' = open
        \/ open' = [open EXCEPT !["customer"] = call.registry]
        \/ open' = [open EXCEPT !["worker"] = call.registry]
    BY DEF PostAnswered, call
  <2> QED BY <2>1, <2>2 DEF TypeOK
<1>3. SelectionTyped /\ tab' \in Tabs
  BY <1>1, SelectionKept
<1>4. \/ Render(i) \/ Redraw(i, "worker") \/ Redraw(i, "customer") \/ Redraw(i, "management")
      \/ RefreshMeta(i, "manage")
  BY DEF PostAnswered
<1>5. CASE RefreshMeta(i, "manage")
  <2> DEFINE fetch == Call("meta", None, None, "manage")
  <2>1. fetch \in Calls /\ fetch.doing = "meta"
    BY <1>3, CallTyped DEF Call
  <2>2. Onward(fetch) /\ chains' = [chains EXCEPT ![i] = fetch] /\ UNCHANGED <<view, failed>>
    BY <1>5, <2>1 DEF Onward, KeyOfCall, RefreshMeta, Await
  <2> HIDE DEF fetch, call
  <2> QED BY <1>1, <1>2, <2>2, MovedAnswerInv DEF TypeOK
<1>6. CASE Render(i) \/ Redraw(i, "worker") \/ Redraw(i, "customer") \/ Redraw(i, "management")
  <2>1. {"customer", "worker", "management"} \subseteq Portals
    BY DEF Portals
  <2> HIDE DEF call
  <2> QED BY <1>1, <1>2, <1>3, <1>6, <2>1, ShownAnswerInv
<1> QED BY <1>4, <1>5, <1>6

LEMMA LostInv == ASSUME ConsoleInv, NEW i \in Ids, Lost(i) PROVE ConsoleInv'
<1> USE InvTied
<1>1. /\ chains[i] # None /\ chains' = [chains EXCEPT ![i] = None]
      /\ UNCHANGED <<selection, meta, open, creating, view, clicks>>
      /\ failed' \in BOOLEAN /\ (failed => failed')
      /\ Waiting(i, "meta") => failed'
  BY DEF Lost, End, Waiting, TypeOK
<1>2. Onward(None)
  BY DEF Onward
<1> QED BY <1>1, <1>2, MovedAnswerInv DEF TypeOK

LEMMA SettleInv == ASSUME ConsoleInv, NEW i \in Ids, Settle(i) PROVE ConsoleInv'
BY BootedInv, MetaAnsweredInv, ListAnsweredInv, PendingAnsweredInv, DetailAnsweredInv,
   PostAnsweredInv, PostToastedInv, LostInv DEF Settle

-----------------------------------------------------------------------------

LEMMA ConsoleInitInv == ASSUME ConsoleInit PROVE ConsoleInv
<1> DEFINE boot == [doing |-> "registries", registry |-> None, identity |-> Acting,
                    portal |-> None, key |-> None, next |-> None]
<1>1. boot \in Calls /\ boot.doing = "registries"
  BY ConsoleAssumption DEF Calls
<1> HIDE DEF boot
<1>2. \A i \in Ids : chains[i] = IF i # 0 THEN None ELSE boot
  BY DEF ConsoleInit, boot
<1>3. chains \in [Ids -> Calls \cup {None}]
  BY <1>1 DEF ConsoleInit, boot
<1>4. view.list = None /\ view.cards = {}
  BY DEF ConsoleInit
<1>5. view \in Views
  BY ConsoleAssumption DEF ConsoleInit, Ids, Views
<1>6. clicks = 0 /\ clicks \in 0 .. MaxClicks
  BY ConsoleAssumption DEF ConsoleInit
<1>7. TypeOK
  BY <1>3, <1>5, <1>6, ConsoleAssumption DEF ConsoleInit, TypeOK, Nowhere
<1>8. NotStarted
  BY <1>2, <1>6 DEF NotStarted, Ids
<1>9. KeysOfCalls /\ AwaitsSelected
  BY <1>1, <1>2 DEF KeysOfCalls, KeyOfCall, AwaitsSelected, Waiting
<1>10. ListIsSelected /\ LabelledByOwnRegistry
  BY <1>4 DEF ListIsSelected, LabelledByOwnRegistry
<1> QED BY <1>7, <1>8, <1>9, <1>10 DEF ConsoleInv

LEMMA ConsoleStutter == ASSUME ConsoleInv, UNCHANGED consoleVars PROVE ConsoleInv'
<1>1. UNCHANGED <<identity, registry, tab, meta, open, creating, view, chains, clicks, failed>>
  BY DEF consoleVars, selection
<1>2. TypeOK' /\ NotStarted' /\ KeysOfCalls'
  BY <1>1 DEF ConsoleInv, TypeOK, NotStarted, KeysOfCalls, KeyOfCall
<1>3. AwaitsSelected' /\ ListIsSelected' /\ LabelledByOwnRegistry'
  BY <1>1 DEF ConsoleInv, AwaitsSelected, ListIsSelected, LabelledByOwnRegistry, Switching, Waiting, OfSelection
<1> QED BY <1>2, <1>3 DEF ConsoleInv

\* However many clicks overlap, in whatever order their answers come and whichever of them
\* are lost: the list the view of public/app.js still waits for is the selected one, and
\* the labels of every call come from its own registry.
THEOREM ConsoleInvariance == ConsoleSpec => []ConsoleInv
<1>1. ConsoleInit => ConsoleInv
  BY ConsoleInitInv
<1>2. ConsoleInv /\ [ConsoleNext]_consoleVars => ConsoleInv'
  BY ClicksInv, SettleInv, ConsoleStutter DEF ConsoleNext, Resting
<1> QED BY <1>1, <1>2, PTL DEF ConsoleSpec

\* The list on the console's screen is the one of the registry and the identity selected,
\* unless a change of these is under way or has failed.
THEOREM ListSelected == ConsoleSpec => []ListIsSelected
<1>1. ConsoleInv => ListIsSelected
  BY DEF ConsoleInv
<1> QED BY <1>1, ConsoleInvariance, PTL

\* No row and no card of a case is labelled by the metadata of another registry's key,
\* however late it comes.
THEOREM LabelsOwn == ConsoleSpec => []LabelledByOwnRegistry
<1>1. ConsoleInv => LabelledByOwnRegistry
  BY DEF ConsoleInv
<1> QED BY <1>1, ConsoleInvariance, PTL
=============================================================================
