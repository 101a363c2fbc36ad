------------------------------ MODULE Console -------------------------------
(***************************************************************************)
(* The browser console, public/app.js: one global `state`, one #view, and  *)
(* handlers that run to their next await and go on when the answer comes.  *)
(* Every click starts a chain of such steps; the chains of several clicks  *)
(* interleave, each reading `state` afresh after every await.  Rows and    *)
(* cards are represented by where they come from: the registry they belong *)
(* to, the identity that asked, and the key of the metadata they are       *)
(* labelled with.  The server is external; any answer may fail.            *)
(***************************************************************************)
EXTENDS Naturals

CONSTANTS
  Registries, First, \* what GET /api/registries answers, and the first of it
  Identities, Acting, \* the identities to choose from, and the initial one
  Tabs,              \* the portals that are visited
  MaxClicks,         \* bound: clicks and selections
  None

VARIABLES
  identity, registry, tab, meta, open, creating, \* state
  view,   \* what is in #view, and the chain that cleared it last
  chains, \* the fetch each chain waits for
  clicks,
  failed  \* history: what the user last asked to see has failed

selection == <<identity, registry, tab>>
consoleVars == <<selection, meta, open, creating, view, chains, clicks, failed>>

Portals == {"customer", "worker", "publishing", "management"}
Details == Portals \ {"management"}
Nowhere == [p \in Details |-> None]
Ids == 0 .. MaxClicks

\* What a chain waits for; what stands for the rows of a list, and for a card.
Calls ==
  [doing: {"registries", "meta", "list", "pending", "detail", "post"},
   registry: Registries \cup {None}, identity: Identities,
   portal: Portals \cup {None}, key: Registries \cup {None},
   next: {"render", "manage", "open", "worker", "toast", "reopen", "created", "refresh", None}]
Rows ==
  [registry: Registries \cup {None}, identity: Identities, \* the selection it was asked for as
   from: SUBSET (Registries \cup {None}), \* where its cases may be from
   key: Registries \cup {None}]
Cards ==
  [kind: {"pending", "detail"}, portal: Portals \cup {None},
   registry: Registries \cup {None}, key: Registries \cup {None}]
\* #pub_scope: the select of the publishing search, on the screen with that portal only.
Scopes == {"registry", "all"}
Views ==
  [by: Ids, portal: Portals \cup {None}, scope: Scopes \cup {None},
   list: Rows \cup {None}, cards: SUBSET Cards]
Answers == [registry: Registries, identity: Identities]

ASSUME ConsoleAssumption ==
  /\ First \in Registries /\ Acting \in Identities
  /\ "customer" \in Tabs /\ Tabs \subseteq Portals
  /\ MaxClicks \in Nat
  /\ None \notin Calls

-----------------------------------------------------------------------------

\* api(): the URL and the bearer are read when the call is made.  `next` is what the
\* chain does with the answer.
Call(doing, portal, key, next) ==
  [doing |-> doing, registry |-> registry', identity |-> identity',
   portal |-> portal, key |-> key, next |-> next]

Await(i, call) == chains' = [chains EXCEPT ![i] = call]
End(i) == chains' = [chains EXCEPT ![i] = None]
Waiting(i, doing) == chains[i] # None /\ chains[i].doing = doing

\* meta(): undefined for a registry nothing is stored under.
Key == IF registry' # None /\ meta'[registry'] # None THEN registry' ELSE None

Clear(i, p, scope, list) ==
  view' = [by |-> i, portal |-> p, scope |-> scope, list |-> list, cards |-> {}]

\* The rows of one registry.
OneRegistry(g, who, key) == [registry |-> g, identity |-> who, from |-> {g}, key |-> key]

\* renderCustomer, renderWorker, renderPublishing and renderManagement up to their
\* first await.  A form, or a section made of metadata alone, is there at once, and
\* throws where there is no metadata.
AtOnce(p) == p = "management" \/ (p = "customer" /\ creating')
ShowPortal(i, p, scope) ==
  \/ /\ AtOnce(p)
     /\ Clear(i, p, scope, IF Key = None THEN None ELSE OneRegistry(registry', identity', Key))
     /\ failed' = (Key = None)
     /\ End(i)
  \/ /\ p = "management" \/ ~AtOnce(p) \* config-versions is fetched
     /\ Clear(i, p, scope, None)
     /\ failed' = FALSE
     /\ Await(i, Call("list", p, Key, None))

\* renderPublishing takes the scope from the select that is on the screen, as the user
\* has left it, or else begins with the selected registry.
ScopesOf(p) ==
  CASE p # "publishing"  -> {None}
    [] view.scope = None -> {"registry"}
    [] OTHER             -> Scopes

Redraw(i, p) == \E scope \in ScopesOf(p) : ShowPortal(i, p, scope)

\* render() has emptied the view, and the select with it.
Render(i) ==
  IF Key = None
    THEN Clear(i, tab', None, None) /\ failed' = TRUE /\ End(i)
    ELSE ShowPortal(i, tab', IF tab' = "publishing" THEN "registry" ELSE None)

\* caseDetailCard: the case that is open by then, if one is.
Detail(i, p) ==
  IF open[p] = None THEN End(i) ELSE Await(i, Call("detail", p, Key, None))

-----------------------------------------------------------------------------
(* What the user does.  Each starts a chain of its own. *)

Click == clicks < MaxClicks /\ clicks' = clicks + 1
New == clicks + 1

Nothing == "nothing"
AfterSwitch == "render"

RefreshMeta(i, next) ==
  /\ Await(i, Call("meta", None, None, next))
  /\ UNCHANGED <<meta, view, failed>>

SwitchIdentity ==
  /\ Click
  /\ identity' \in Identities \ {identity}
  /\ open' = Nowhere
  /\ UNCHANGED <<registry, tab, creating>>
  /\ RefreshMeta(New, AfterSwitch)

\* The handlers of the registries and the tabs are installed when boot() has its answer.
SwitchRegistry ==
  /\ Click
  /\ registry # None
  /\ registry' \in Registries \ {registry}
  /\ open' = Nowhere
  /\ UNCHANGED <<identity, tab, creating>>
  /\ RefreshMeta(New, AfterSwitch)

SwitchTab ==
  /\ Click
  /\ registry # None
  /\ tab' \in Tabs
  /\ UNCHANGED <<identity, registry, meta, open, creating>>
  /\ Render(New)

OnScreen(p) == view.portal = p /\ view.list # None

\* A row: its case is opened in the portal it is listed in.
OpenRow(p) ==
  /\ Click
  /\ OnScreen(p) /\ p \in Details
  /\ p = "customer" => ~creating
  /\ \E g \in view.list.from :
       /\ view.scope = "all" => g = registry
       /\ open' = [open EXCEPT ![p] = g]
  /\ UNCHANGED <<selection, meta, creating>>
  /\ Redraw(New, p)

\* Only the rows of the search over all registries name their registry; one that is not
\* the selected registry's first selects it.
OpenElsewhere ==
  /\ Click
  /\ OnScreen("publishing") /\ view.scope = "all"
  /\ registry' \in view.list.from \ {registry}
  /\ UNCHANGED <<identity, tab, open, creating>>
  /\ RefreshMeta(New, "open")

\* Refresh, the worker's queues, the publishing search, a new case and its cancelling.
ShowAgain(p) ==
  /\ Click
  /\ OnScreen(p)
  /\ \/ UNCHANGED <<creating, open>>
     \/ p = "customer" /\ creating' = ~creating /\ UNCHANGED open
     \/ p = "publishing" /\ open' = [open EXCEPT ![p] = None] /\ UNCHANGED creating
  /\ UNCHANGED <<selection, meta>>
  /\ Redraw(New, p)

CloseDetail ==
  /\ Click
  /\ \E card \in view.cards :
       card.kind = "detail" /\ open' = [open EXCEPT ![card.portal] = None]
  /\ UNCHANGED <<selection, meta, creating>>
  /\ Render(New)

\* A command is posted to the registry selected when its button is pressed.
Post(next) ==
  /\ Click
  /\ UNCHANGED <<selection, meta, open, creating, view, failed>>
  /\ Await(New, Call("post", None, None, next))

HasCard(kind, portals) ==
  \E card \in view.cards : card.kind = kind /\ card.portal \in portals

TakeCase == OnScreen("worker") /\ Post("worker")
DecidePending == HasCard("pending", {"worker"}) /\ Post("worker")
KeepCase == HasCard("detail", {"worker"}) /\ Post("toast")
WorkerCommand == HasCard("detail", {"worker"}) /\ Post("reopen")
SubmitForm == HasCard("detail", {"worker", "customer"}) /\ Post("render")
CreateCase == OnScreen("customer") /\ creating /\ Post("created")
EditConfiguration == OnScreen("management") /\ Post("refresh")
EditRights == OnScreen("management") /\ Post("manage")
ManageTokens == OnScreen("management") /\ Post("toast")

Clicks ==
  \/ SwitchIdentity \/ SwitchRegistry \/ SwitchTab
  \/ OpenElsewhere \/ CloseDetail
  \/ \E p \in Portals : OpenRow(p) \/ ShowAgain(p)
  \/ TakeCase \/ DecidePending \/ KeepCase \/ WorkerCommand \/ SubmitForm \/ CreateCase
  \/ EditConfiguration \/ EditRights \/ ManageTokens

-----------------------------------------------------------------------------
(* What the answers do. *)

\* boot()
Booted(i) ==
  /\ Waiting(i, "registries")
  /\ registry' = First
  /\ UNCHANGED <<identity, tab, open, creating, clicks>>
  /\ RefreshMeta(i, "render")

\* refreshMeta: the answer is stored under the registry that is selected by now.
Store(i) ==
  \E status \in {200, 500} :
    meta' = IF status = 200 /\ chains[i].registry # None
              THEN [meta EXCEPT ![registry] = [registry |-> chains[i].registry,
                                               identity |-> chains[i].identity]]
              ELSE meta

MetaAnswered(i) ==
  /\ Waiting(i, "meta")
  /\ Store(i)
  /\ UNCHANGED <<selection, creating, clicks>>
  /\ CASE chains[i].next = "render" -> UNCHANGED open /\ Render(i)
       [] chains[i].next = "manage" -> UNCHANGED open /\ Redraw(i, "management")
       [] chains[i].next = "open"   -> /\ open' = [open EXCEPT !["publishing"] = chains[i].registry]
                                       /\ Redraw(i, "publishing")
       [] OTHER                     -> UNCHANGED <<open, view, failed>> /\ End(i)

\* The card that waits for the list is the one this chain made: once another chain has
\* cleared the view, nobody sees it.
Anywhere(i) == TRUE
StillShown(i) == view.by = i

LabelsNow(i) == registry
Labels(i) == chains[i].key

\* The rows: of the registry of the URL, or of every registry where the search has no
\* registry in its URL.  All are labelled by the one `m` that renderPublishing began with.
Listed(i) ==
  [registry |-> chains[i].registry, identity |-> chains[i].identity,
   from |-> IF view.scope = "all" THEN Registries ELSE {chains[i].registry},
   key |-> Labels(i)]

ListAnswered(i) ==
  LET call == chains[i] IN
  /\ Waiting(i, "list")
  /\ UNCHANGED <<selection, meta, open, creating, clicks>>
  /\ \/ /\ call.key = None \* rows cannot be labelled: caseTable throws
        /\ failed' = (failed \/ StillShown(i))
        /\ UNCHANGED view
        /\ End(i)
     \/ /\ view' = IF StillShown(i) THEN [view EXCEPT !.list = Listed(i)] ELSE view
             \* a hint or nothing to list where call.key is None
        /\ UNCHANGED failed
        /\ CASE call.portal = "worker"     -> Await(i, Call("pending", "worker", None, None))
             [] call.portal = "management" -> End(i)
             [] call.portal = "customer"   -> Detail(i, "customer")
             [] OTHER                      -> Detail(i, "publishing") \/ End(i) \* not ok()

\* Cards that come after the list are appended to #view itself.
Append(card) == view' = [view EXCEPT !.cards = @ \cup {card}]

PendingAnswered(i) ==
  /\ Waiting(i, "pending")
  /\ \/ UNCHANGED view
     \/ Append([kind |-> "pending", portal |-> "worker", registry |-> chains[i].registry, key |-> None])
  /\ UNCHANGED <<selection, meta, open, creating, clicks, failed>>
  /\ Detail(i, "worker")

DetailAnswered(i) ==
  LET call == chains[i] IN
  /\ Waiting(i, "detail")
  /\ IF call.key = None THEN UNCHANGED view
     ELSE Append([kind |-> "detail", portal |-> call.portal, registry |-> call.registry, key |-> Labels(i)])
  /\ UNCHANGED <<selection, meta, open, creating, clicks, failed>>
  /\ End(i)

\* ok(): a refusal is a message and the view stays; for some commands so is success.
PostToasted(i) ==
  /\ Waiting(i, "post")
  /\ End(i)
  /\ UNCHANGED <<selection, meta, open, creating, view, clicks, failed>>

PostAnswered(i) ==
  LET call == chains[i] IN
  /\ Waiting(i, "post") /\ call.next # "toast"
  /\ UNCHANGED <<selection, meta, clicks>>
  /\ creating' = (creating /\ call.next # "created")
  /\ open' = CASE call.next = "created" -> [open EXCEPT !["customer"] = call.registry]
               [] call.next = "reopen"  -> [open EXCEPT !["worker"] = call.registry]
               [] OTHER                 -> open
  /\ CASE call.next \in {"worker", "reopen"} -> Redraw(i, "worker")
       [] call.next = "created"              -> Redraw(i, "customer")
       [] call.next = "render"               -> Render(i)
       [] call.next = "manage"               -> Redraw(i, "management")
       [] OTHER                              -> RefreshMeta(i, "manage")

\* fetch() throws: the handler ends there.
Lost(i) ==
  /\ chains[i] # None
  /\ End(i)
  /\ failed' = (failed \/ chains[i].doing \in {"registries", "meta"} \/ (Waiting(i, "list") /\ StillShown(i)))
  /\ UNCHANGED <<selection, meta, open, creating, view, clicks>>

Settle(i) ==
  \/ Booted(i)
  \/ MetaAnswered(i)
  \/ ListAnswered(i)
  \/ PendingAnswered(i)
  \/ DetailAnswered(i)
  \/ PostAnswered(i)
  \/ PostToasted(i)
  \/ Lost(i)

-----------------------------------------------------------------------------

ConsoleInit ==
  /\ identity = Acting
  /\ registry = None
  /\ tab = "customer"
  /\ meta = [g \in Registries |-> None]
  /\ open = Nowhere
  /\ creating = FALSE
  /\ view = [by |-> 0, portal |-> None, scope |-> None, list |-> None, cards |-> {}]
  /\ chains = [i \in Ids |-> IF i # 0 THEN None ELSE
       [doing |-> "registries", registry |-> None, identity |-> Acting,
        portal |-> None, key |-> None, next |-> None]]
  /\ clicks = 0
  /\ failed = FALSE

Quiet == \A i \in Ids : chains[i] = None
Resting == clicks = MaxClicks /\ Quiet /\ UNCHANGED consoleVars

ConsoleNext == Clicks \/ (\E i \in Ids : Settle(i)) \/ Resting

\* Every fetch settles, one way or the other.
ConsoleFairness == \A i \in Ids : WF_consoleVars(Settle(i))

ConsoleSpec == ConsoleInit /\ [][ConsoleNext]_consoleVars
FairConsoleSpec == ConsoleSpec /\ ConsoleFairness

-----------------------------------------------------------------------------

OfSelection(list) == list.registry = registry /\ list.identity = identity

Switching ==
  \E i \in Ids : Waiting(i, "meta") /\ chains[i].next \in {"render", "open"}

\* app.js, render*: whatever lists are still on their way, the one on screen was asked
\* for while what is selected now, registry and identity, was selected, except while the
\* selection is being changed or when the fetch that was to change it threw.  Its cases
\* are the selected registry's, but for a search over all registries.
ListIsSelected ==
  view.list # None => OfSelection(view.list) \/ Switching \/ failed

\* app.js, caseTable and caseDetailCard: rows and cards that came late, and cards that
\* were appended to a later view, are labelled by metadata of their own registry's key.
\* The rows of the search over all registries are left out: renderPublishing labels all of
\* them by the selected registry's metadata, which does not know the states of another.
LabelledByOwnRegistry ==
  /\ view.list # None /\ view.scope # "all" =>
       \A g \in view.list.from : view.list.key \in {g, None}
  /\ \A card \in view.cards : card.kind = "detail" => card.key = card.registry

\* app.js, the change handlers and what follows them: once the user leaves it alone the
\* console comes to show the list of the selected registry and identity, or has told
\* that it could not.
EventuallyShown ==
  <>[](failed \/ (view.list # None /\ OfSelection(view.list)))

\* app.js:40, "registryId -> meta", and docs/USER_STORIES.md:34, "Verify switching
\* registries cannot retain a case, form, or cached field definition from the previous
\* registry."
MetaOfItsRegistry ==
  Quiet /\ ~failed => \A g \in Registries : meta[g] # None => meta[g].registry = g

-----------------------------------------------------------------------------
(* The inductive invariant of ConsoleProofs. *)

TypeOK ==
  /\ identity \in Identities
  /\ registry \in Registries \cup {None}
  /\ tab \in Tabs
  /\ meta \in [Registries -> Answers \cup {None}]
  /\ open \in [Details -> Registries \cup {None}]
  /\ creating \in BOOLEAN
  /\ view \in Views
  /\ chains \in [Ids -> Calls \cup {None}]
  /\ clicks \in 0 .. MaxClicks
  /\ failed \in BOOLEAN

\* A chain is started by a click.
NotStarted == \A i \in Ids : i > clicks => chains[i] = None

\* Labels are taken when the call is made, from the metadata under its registry.
KeyOfCall(call) == call.doing \in {"list", "detail"} => call.key \in {call.registry, None}
KeysOfCalls == \A i \in Ids : chains[i] # None => KeyOfCall(chains[i])

\* The list the view waits for is the selected one, or another view is to come.
AwaitsSelected ==
  \A i \in Ids : Waiting(i, "list") /\ view.by = i => OfSelection(chains[i]) \/ Switching \/ failed

\* Why a late answer does no harm: the list that the view waits for was asked for as the
\* selection still is, every other list has no place to go, and its key came with it.
ConsoleInv ==
  /\ TypeOK
  /\ NotStarted
  /\ KeysOfCalls
  /\ AwaitsSelected
  /\ ListIsSelected
  /\ LabelledByOwnRegistry
=============================================================================
