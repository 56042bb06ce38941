------------------------------- MODULE DemoSite -------------------------------
(***************************************************************************)
(* The fixture half of the application as a reader walks through it: the   *)
(* roster it is built from, the adapter that turns members into agents     *)
(* with route ids of their own, the pages the build generates, and the     *)
(* links each page draws.  An identifier is a pair <<kind, name>>, the two *)
(* sides of its colon; an address is a pair <<section, slug>>, with slug   *)
(* Index for the page of the section itself.  Wording and layout are left  *)
(* out: a page is what it needs in order to render and what it links to.   *)
(***************************************************************************)
EXTENDS Naturals, Sequences, FiniteSets, SequencesExt

VARIABLES
  app,      \* the application that is open, "istemer" or "northwind"
  page,     \* the address in front of the reader
  palette,  \* the command palette of the shell
  sheet     \* whether the sheet of further links is open over the quick bar

Index == "index"

Member(name, role, phase, reportsTo) ==
  [id |-> <<"agent", name>>, role |-> role, phase |-> phase, reportsTo |-> reportsTo]

Hadeer == <<"human", "hadeer">>
Orchestrator == <<"agent", "adam">>

\* The named roster; only its initial members are agents of the demo.
Members == {
  Member("adam", "Main Orchestrator", "initial", Hadeer),
  Member("nour", "Content Creator", "initial", Orchestrator),
  Member("omar", "Competitor Analyst", "initial", Orchestrator),
  Member("ziad", "Reel Analyst", "initial", Orchestrator),
  Member("mariam", "Social Media Coordinator", "planned", Orchestrator),
  Member("hana", "Graphic Designer", "planned", Orchestrator),
  Member("seif", "Media Buyer", "planned", Orchestrator),
  Member("nada", "Talent Acquisition", "planned", Orchestrator),
  Member("mazen", "Business Developer", "planned", Orchestrator) }

Initial == {m \in Members : m.phase = "initial"}

\* The members a profile is written for.
ProfileContent == {<<"agent", n>> : n \in {"adam", "nour", "omar", "ziad"}}

\* Established route ids outlived the renaming of the agents behind them.
AgentRouteIds ==
  [m \in ProfileContent |-> <<"agent", CASE m[2] = "nour" -> "social-media"
                                         [] m[2] = "omar" -> "marketing"
                                         [] m[2] = "ziad" -> "designer"
                                         [] OTHER -> m[2]>>]

RoleDomain ==
  [role \in {"Main Orchestrator", "Content Creator", "Competitor Analyst", "Reel Analyst"} |->
    CASE role = "Main Orchestrator" -> "executive"
      [] role = "Content Creator" -> "social"
      [] role = "Competitor Analyst" -> "marketing"
      [] OTHER -> "creative"]

Domains == {"executive", "marketing", "social", "creative"}

\* The adapter is evaluated on import and throws when a member has no
\* profile, no route id or no domain; every page that imports it is then lost.
Loads ==
  \A m \in Initial :
    /\ m.id \in ProfileContent
    /\ m.id \in DOMAIN AgentRouteIds
    /\ m.role \in DOMAIN RoleDomain
    /\ RoleDomain[m.role] \in Domains

AgentIds == {AgentRouteIds[m.id] : m \in Initial}
CampaignWorkflow == <<"workflow", "campaign-end-to-end">>
ApprovalIds == {<<"approval", "social-budget-q3">>, <<"approval", "campaign-final-assets">>}

ToRouteSlug(id) == id[2]

Routes(ids) == {[slug |-> ToRouteSlug(id), id |-> id] : id \in ids}

IdsForSlug(ids, slug) == {r.id : r \in {x \in Routes(ids) : x.slug = slug}}

\* The second tenant's agents, as its specifications and its organization
\* name them; its adapter throws for a specification without a node.
NorthwindSpecs == {<<"agent", n>> : n \in
  {"route-planner", "sensor-calibrator", "sample-custodian", "archive-curator", "risk-assessor"}}
NorthwindAgents == {<<"agent", n>> : n \in
  {"route-planner", "sensor-calibrator", "sample-custodian", "archive-curator", "risk-assessor"}}
NorthwindLoads == NorthwindSpecs \subseteq NorthwindAgents

\* A detail page is generated for the slugs of its section and for no others.
NorthwindDetail == [section \in {"agents"} |-> NorthwindSpecs]
Detail ==
  IF app = "northwind" THEN NorthwindDetail
  ELSE [section \in {"agents", "workspaces", "workflows", "approvals"} |->
    CASE section \in {"agents", "workspaces"} -> AgentIds
      [] section = "workflows" -> {CampaignWorkflow}
      [] OTHER -> ApprovalIds]

\* The pages of an application that are written in a directory of their own.
Directories(names) == {<<name, Index>> : name \in names}
Pages ==
  IF app = "northwind" THEN Directories({"home", "organization", "agents"})
  ELSE Directories({"home", "organization", "coordination-cycle", "workflows", "agents",
                    "hermes-team", "approvals", "system-health"})

\* The navigation of the shell, on every page, in its order: a side bar with
\* all of it, and, when it is long, a sheet with what the quick bar leaves out.
NorthwindNav == << <<"home", Index>>, <<"organization", Index>>, <<"agents", Index>> >>
IstemerNav == << <<"en/auth", "login">>, <<"home", Index>>, <<"organization", Index>>,
  <<"coordination-cycle", Index>>, <<"workflows", Index>>, <<"agents", Index>>,
  <<"hermes-team", Index>>, <<"approvals", Index>>, <<"system-health", Index>> >>
NavItems == IF app = "northwind" THEN NorthwindNav ELSE IstemerNav
Nav == ToSet(NavItems)
HasMoreNavigation == Len(NavItems) > 5
MoreNav == SubSeq(NavItems, IF HasMoreNavigation THEN 5 ELSE 6, Len(NavItems))

\* Links built from ids: by the slug of the id, or by the whole id, which no
\* page answers to, when the route table does not know it.
Hrefs(section, ids) ==
  {<<section, IF id \in Detail[section] THEN ToRouteSlug(id) ELSE id>> : id \in ids}

HomeLinks == Hrefs("agents", AgentIds) \cup Hrefs("approvals", ApprovalIds)
AgentsLinks == Hrefs("agents", AgentIds) \cup Hrefs("workspaces", AgentIds)
WorkflowsLinks == Hrefs("workflows", {CampaignWorkflow})
InboxLinks(packages) == Hrefs("approvals", packages)
ApprovalsLinks == InboxLinks(ApprovalIds)
WorkspaceLinks(slug) == {<<"agents", slug>>}

\* The source address of a notification preview is written out in its package.
SourceHref ==
  [id \in ApprovalIds |-> <<"approvals", IF id[2] = "social-budget-q3"
                                         THEN "social-budget-q3" ELSE "campaign-final-assets">>]

\* All decision controls of a package are disabled; what is left to follow is
\* the source of the notification preview.
ApprovalLinks(slug) == {SourceHref[id] : id \in IdsForSlug(ApprovalIds, slug)}

\* The pages of the account exist in both languages; each leads to the same
\* page in the other one, to the sample data, and to sign-in or, from there,
\* to the recovery.  Where their forms lead is not part of the walk.
AuthSections == {"en/auth", "ar/auth"}
AuthModes == {"login", "recovery", "reset-password"}
AuthLinks(section, mode) ==
  {<<other, mode>> : other \in AuthSections \ {section}}
    \cup {<<"home", Index>>, <<section, IF mode = "login" THEN "recovery" ELSE "login">>}

NorthwindHrefs == Hrefs("agents", NorthwindSpecs)
NorthwindHomeLinks == {<<"organization", Index>>}

PageLinks(p) ==
  CASE app = "northwind" /\ p = <<"home", Index>> -> NorthwindHomeLinks
    [] app = "northwind" /\ p = <<"agents", Index>> -> NorthwindHrefs
    [] app = "northwind" -> {}
    [] p = <<"home", Index>> -> HomeLinks
    [] p = <<"agents", Index>> -> AgentsLinks
    [] p = <<"workflows", Index>> -> WorkflowsLinks
    [] p = <<"approvals", Index>> -> ApprovalsLinks
    [] p[1] = "workspaces" -> WorkspaceLinks(p[2])
    [] p[1] = "approvals" -> ApprovalLinks(p[2])
    [] p[1] \in AuthSections -> AuthLinks(p[1], p[2])
    [] OTHER -> {}

Links(p) == Nav \cup PageLinks(p)

\* What a page asks of the adapter before it throws or answers not found.
HomeNeeds == CampaignWorkflow \in Detail["workflows"]
HealthNeeds == CampaignWorkflow \in Detail["workflows"] /\ <<"agent", "marketing">> \in AgentIds

\* The organization and the cycle read the roster by member id.
OrganizationNeeds == Orchestrator \in {m.id : m \in Members}
CycleNeeds == {<<"agent", n>> : n \in {"adam", "nour", "omar", "ziad"}} \subseteq {m.id : m \in Members}

\* A detail page answers for the slugs it was generated for.
AgentPage(slug) == IdsForSlug(AgentIds, slug) # {}
ApprovalPage(slug) == IdsForSlug(ApprovalIds, slug) # {}
DetailPage(p) ==
  CASE p[1] = "agents" -> AgentPage(p[2])
    [] p[1] = "approvals" -> ApprovalPage(p[2])
    [] OTHER -> IdsForSlug(Detail[p[1]], p[2]) # {}

\* The pages of the account and the second tenant's first page import none of
\* what is evaluated with the adapter; all others need the whole of it.
AuthPage(p) == p[1] \in AuthSections /\ p[2] \in AuthModes
NorthwindRenders(p) ==
  \/ p = <<"home", Index>>
  \/ /\ NorthwindLoads
     /\ p \in Pages \/ (p[1] = "agents" /\ IdsForSlug(NorthwindSpecs, p[2]) # {})
IstemerRenders(p) ==
  \/ AuthPage(p)
  \/ /\ Loads /\ OrganizationNeeds /\ CycleNeeds
     /\ p = <<"home", Index>> => HomeNeeds
     /\ p = <<"system-health", Index>> => HealthNeeds
     /\ p \in Pages \/ (p[1] \in DOMAIN Detail /\ p[2] # Index /\ DetailPage(p))
Renders(p) == IF app = "northwind" THEN NorthwindRenders(p) ELSE IstemerRenders(p)

\* The sections of a workspace that only one agent has, by its literal id.
WorkspaceSections(id) ==
  CASE id = <<"agent", "adam">> -> {"adam-scope"}
    [] id = <<"agent", "marketing">> -> {"competitor-evidence"}
    [] id = <<"agent", "social-media">> -> {"social-calendar", "social-trend"}
    [] id = <<"agent", "designer">> -> {"reel-evidence"}
    [] OTHER -> {}

\* The items of the planned calendar are shown to the owner they name.
CalendarOwners == {<<"agent", "social-media">>}

\* The command palette: the items whose label contains what has been typed,
\* and the position of the highlighted one, counted from 0.  Of the texts one
\* may type, a few stand for all, by the items they match.
PaletteShut == [open |-> FALSE, query |-> "", active |-> 0]
Texts == {"", "or", "team", "zz"}
Matches(q) ==
  CASE q = "" -> [i \in 1..Len(NavItems) |-> i]
    [] q = "or" /\ app = "istemer" -> <<3, 4, 5>>
    [] q = "team" /\ app = "istemer" -> <<7>>
    [] q = "or" -> <<2>>
    [] OTHER -> <<>>
Listed(p) == [i \in 1..Len(Matches(p.query)) |-> NavItems[Matches(p.query)[i]]]
Keys == {"shortcut", "Escape", "ArrowDown", "ArrowUp"} \cup Texts

\* mutant: a new text keeps the highlight where it was
PressKeepsPlace(p, key) ==
  LET n == Len(Listed(p))
  IN CASE key = "shortcut" -> [p EXCEPT !.open = TRUE]
       [] ~p.open -> p
       [] key = "Escape" -> PaletteShut
       [] key = "ArrowDown" -> IF n = 0 THEN p ELSE [p EXCEPT !.active = (@ + 1) % n]
       [] key = "ArrowUp" -> IF n = 0 THEN p ELSE [p EXCEPT !.active = (@ + n - 1) % n]
       [] OTHER -> [p EXCEPT !.query = key]

\* A key goes to the dialog while it is open; the shortcut goes to the window.
\* An arrow moves around the list, and a new text puts the highlight back to
\* the first item.
Press(p, key) ==
  LET n == Len(Listed(p))
  IN CASE key = "shortcut" -> [p EXCEPT !.open = TRUE]
       [] ~p.open -> p
       [] key = "Escape" -> PaletteShut
       [] key = "ArrowDown" -> IF n = 0 THEN p ELSE [p EXCEPT !.active = (@ + 1) % n]
       [] key = "ArrowUp" -> IF n = 0 THEN p ELSE [p EXCEPT !.active = (@ + n - 1) % n]
       [] key = p.query -> p
       [] OTHER -> [p EXCEPT !.query = key, !.active = 0]

\* The reader: the page in front of him, the palette and the sheet over it.
\* Enter takes the highlighted item, if there is one; a click takes any of the
\* list.  The listener of an open sheet hears Escape wherever it was pressed.
Home == <<"home", Index>>
Init == app \in {"istemer", "northwind"} /\ page = Home /\ palette = PaletteShut /\ sheet = FALSE

GoTo(p) == page' = p /\ palette' = PaletteShut /\ sheet' = FALSE /\ UNCHANGED app
Follow(p) == ~palette.open /\ p \in Links(page) /\ GoTo(p)
PressKey(key) ==
  /\ palette' = Press(palette, key)
  /\ sheet' = (sheet /\ key # "Escape")
  /\ UNCHANGED <<app, page>>
OpenSheet == ~palette.open /\ MoreNav # <<>> /\ sheet' = TRUE /\ UNCHANGED <<app, page, palette>>
CloseSheet == ~palette.open /\ sheet /\ sheet' = FALSE /\ UNCHANGED <<app, page, palette>>
FollowFromSheet(p) == ~palette.open /\ sheet /\ p \in ToSet(MoreNav) /\ GoTo(p)
Enter == palette.open /\ palette.active < Len(Listed(palette)) /\ GoTo(Listed(palette)[palette.active + 1])
Click(i) == palette.open /\ GoTo(Listed(palette)[i])

Next ==
  \/ \E p \in Links(page) : Follow(p)
  \/ \E key \in Keys : PressKey(key)
  \/ OpenSheet
  \/ CloseSheet
  \/ \E p \in ToSet(MoreNav) : FollowFromSheet(p)
  \/ Enter
  \/ \E i \in DOMAIN Listed(palette) : Click(i)

\* Wherever the reader has got to, in either application, by the bar, by the
\* links of the pages or by the palette whatever was typed in it, a page
\* answers, and a list with items has one of them highlighted.  Every agent
\* has a page and a workspace of its own with something in it, and the owner
\* of the calendar is one of them.  The position in the list is state of its
\* own, beside the text that decides how long the list is; the ids are strings
\* written out in adapters, pages and fixtures, and nothing but this agreement
\* ties them together.
EveryLinkResolves ==
  /\ Renders(page)
  /\ palette.active < Len(Listed(palette)) \/ Listed(palette) = <<>>
  /\ Cardinality(AgentIds) = Cardinality(Initial)
  /\ \A id \in AgentIds : WorkspaceSections(id) # {}
  /\ CalendarOwners \subseteq AgentIds
=============================================================================
