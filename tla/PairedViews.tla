----------------------------- MODULE PairedViews -----------------------------
(***************************************************************************)
(* Three pages of the demo draw a picture and, beside it, a list for       *)
(* readers who cannot see the picture: the organization as a graph and as  *)
(* a tree, a workflow as a diagram and as a step list, the daily cycle as  *)
(* blocks and as a table.  The operators are the two projections of each   *)
(* pair, by what they show; positions, shapes and words are left out.      *)
(* Organization nodes are records [id, kind] and edges [from, to, kind];   *)
(* an edge "reports_to" leads from a subordinate to the supervisor.  Ids   *)
(* are numbers, whose order stands for the locale order of the strings.    *)
(***************************************************************************)
EXTENDS Naturals, Sequences, FiniteSets, SequencesExt, DemoSite

CONSTANT Ids  \* the numbers organization nodes may have as ids

VARIABLE org  \* the organization the application was built over

Rank(n) ==
  CASE n.kind = "human" -> 0
    [] n.kind = "conductor" -> 1
    [] n.kind = "department" -> 2
    [] n.kind = "agent" -> 3

\* The members of S, least first.
Sorted(S, Before(_, _)) ==
  FoldSet(LAMBDA x, sorted :
            SelectSeq(sorted, LAMBDA y : Before(y, x)) \o <<x>> \o SelectSeq(sorted, LAMBDA y : Before(x, y)),
          <<>>, S)

OrderNodes(nodes) ==
  Sorted(nodes, LAMBDA a, b : \/ Rank(a) < Rank(b)
                              \/ Rank(a) = Rank(b) /\ a.id < b.id)

KindRank(k) == IF k = "approves" THEN 0 ELSE 1

OrderEdges(edges) ==
  Sorted(edges, LAMBDA a, b : \/ a.from < b.from
                              \/ a.from = b.from /\ a.to < b.to
                              \/ a.from = b.from /\ a.to = b.to /\ KindRank(a.kind) < KindRank(b.kind))

\* The graph: a rank per kind, its nodes side by side around the middle (in
\* half gaps).  It draws every node, and every edge whose two ends have a place.
Layout(p) ==
  LET Bucket(r) == SelectSeq(OrderNodes(p.nodes), LAMBDA n : Rank(n) = r)
      Nth(n) == CHOOSE i \in 1..Len(Bucket(Rank(n))) : Bucket(Rank(n))[i] = n
      NodeOf(id) == CHOOSE n \in p.nodes : n.id = id
      Place(n) == <<2 * Nth(n) - Len(Bucket(Rank(n))), Rank(n)>>
  IN [id \in {n.id : n \in p.nodes} |-> Place(NodeOf(id))]
Positions(p) == DOMAIN Layout(p)
DrawnEdges(p) == SelectSeq(OrderEdges(p.edges), LAMBDA e : e.from \in Positions(p) /\ e.to \in Positions(p))

\* The tree: the reports of each supervisor, and who has a supervisor at all.
ReportsTo(p, id) == SelectSeq(OrderEdges(p.edges), LAMBDA e : e.kind = "reports_to" /\ e.to = id)
HasSupervisor(p, id) == \E e \in p.edges : e.kind = "reports_to" /\ e.from = id

Row(id, by) == [node |-> id, by |-> by]

\* The rows below and including one node, top to bottom; `by` is the edge it
\* is listed under.
RECURSIVE Build(_, _, _)
Build(p, id, by) ==
  LET reports == SelectSeq(ReportsTo(p, id), LAMBDA e : e.from \in Positions(p))
  IN <<Row(id, by)>> \o FlattenSeq([i \in 1..Len(reports) |-> Build(p, reports[i].from, <<reports[i]>>)])

\* mutant: the roots are the humans
ToTreeFromHumans(p) ==
  LET roots == SelectSeq(OrderNodes(p.nodes), LAMBDA n : n.kind = "human")
  IN FlattenSeq([i \in 1..Len(roots) |-> Build(p, roots[i].id, <<>>)])

ToTree(p) ==
  LET roots == SelectSeq(OrderNodes(p.nodes), LAMBDA n : ~HasSupervisor(p, n.id))
  IN FlattenSeq([i \in 1..Len(roots) |-> Build(p, roots[i].id, <<>>)])

\* The badges: one per conductor, then one per agent.
StatusList(p) ==
  LET OfKind(kind) == {n.id : n \in {x \in p.nodes : x.kind = kind}}
  IN OfKind("conductor") \cup OfKind("agent")

\* What the page of an organization shows of it.
OrganizationPage(p) ==
  [nodes |-> Positions(p), lines |-> ToSet(DrawnEdges(p)), status |-> StatusList(p), rows |-> ToSet(ToTree(p))]

Step(order, id, inputs, outputs) == [order |-> order, id |-> id, inputs |-> inputs, outputs |-> outputs]

\* The campaign workflow.
Steps == {
  Step(1, "competitor-intelligence", {"approved_brief", "audience_notes"}, {"competitor_summary"}),
  Step(2, "campaign-strategy", {"competitor_summary", "style_guide"}, {"draft_campaign_brief"}),
  Step(3, "social-plan", {"draft_campaign_brief", "channel_style"}, {"draft_social_plan"}),
  Step(4, "creative-brief", {"draft_campaign_brief", "draft_social_plan"}, {"creative_brief"}),
  Step(5, "three-design-concepts", {"creative_brief", "brand_style"}, {"concept_a", "concept_b", "concept_c"}),
  Step(6, "human-select-direction", {"concept_a", "concept_b", "concept_c"}, {"selected_direction"}),
  Step(7, "final-assets", {"selected_direction", "brand_style"}, {"final_assets", "alt_text_draft"}),
  Step(8, "human-approval", {"final_assets", "alt_text_draft"}, {"approved_bundle"}),
  Step(9, "ready-for-publication", {"approved_bundle"}, {"publication_manifest"}) }

\* Below the diagram the page shows the concepts of one step; an approval
\* package names the step it belongs to.
DesignConcepts == {"orbit", "grid", "ribbon"}
ConceptStep == CHOOSE s \in Steps : s.id = "three-design-concepts"
PackageSteps == {"human-approval", "campaign-strategy"}

InOrder(steps) == Sorted(steps, LAMBDA a, b : a.order < b.order)

\* The diagram joins each step to the one on its right.
Connectors(steps) == {<<a.id, b.id>> : <<a, b>> \in {x \in steps \X steps :
  x[1].order < x[2].order /\ ~\E s \in steps : x[1].order < s.order /\ s.order < x[2].order}}

\* The list names, from top to bottom, what each step takes in and gives out.
StepRows(steps) == InOrder(steps)

StepListTellsTheDiagram ==
  LET rows == StepRows(Steps)
  IN /\ Connectors(Steps) = {<<rows[i].id, rows[i + 1].id>> : i \in 1..(Len(rows) - 1)}
     /\ \A j \in 1..Len(rows) :
          rows[j].inputs \cap UNION {rows[i].outputs : i \in j..Len(rows)} = {}
     /\ Cardinality(DesignConcepts) = Cardinality(ConceptStep.outputs)
     /\ PackageSteps \subseteq {s.id : s \in Steps}

\* The daily cycle: the minute of the day of what has a time, NoTime otherwise.
NoTime == 0
At(hour, minute, actor) == [time |-> 60 * hour + minute, actor |-> actor]
Cycle == [
  morning |-> At(8, 0, "hadeer, adam"),
  midday |-> << [actor |-> "omar", contributions |-> 3], [actor |-> "ziad", contributions |-> 3],
                [actor |-> "nour", contributions |-> 3] >>,
  events |-> << At(9, 15, "adam"), At(10, 30, "omar"), At(12, 45, "ziad"),
                At(14, 10, "nour"), At(16, 0, "hadeer"), At(18, 20, "adam") >>,
  evening |-> At(20, 0, "hadeer, adam") ]

Shown(kind, item) == [kind |-> kind, time |-> item.time, actor |-> item.actor]
Contributions(s) == [i \in 1..s.contributions |-> [kind |-> "midday", time |-> NoTime, actor |-> s.actor]]
Events(c) == [i \in 1..Len(c.events) |-> Shown("event", c.events[i])]

\* Top to bottom: briefing, stream cards, list of events, briefing.
CycleDiagram(c) ==
  <<Shown("morning", c.morning)>>
    \o FlattenSeq([i \in 1..Len(c.midday) |-> Contributions(c.midday[i])])
    \o Events(c) \o <<Shown("evening", c.evening)>>

\* The rows of the table, pushed one after the other.
CycleTable(c) ==
  LET streams == FoldLeft(LAMBDA rows, s : rows \o Contributions(s), <<Shown("morning", c.morning)>>, c.midday)
      events == FoldLeft(LAMBDA rows, e : Append(rows, Shown("event", e)), streams, c.events)
  IN Append(events, Shown("evening", c.evening))

CyclePage(c) == [diagram |-> CycleDiagram(c), table |-> CycleTable(c)]
Timed(rows) == SelectSeq(rows, LAMBDA r : r.time # NoTime)

\* All projections over Ids whose reporting lines lead upwards to a node and
\* without a loop: a supervisor who is no node takes the subordinate out of
\* the tree with him, and on a loop the code would recurse for ever.  Edges
\* whose lower end is no node, and approval edges anywhere, may occur.
NodeKinds == {"human", "conductor", "department", "agent"}
KindsWithStatus == {"conductor", "agent"}  \* a person has none, on purpose
NodesOf(kinds, S) == {[id |-> i, kind |-> kinds[i]] : i \in S}
EdgesOf(kind, pairs) == {[from |-> x[1], to |-> x[2], kind |-> kind] : x \in pairs}
Pairs == {x \in Ids \X Ids : x[1] # x[2]}
NoLoop(lines) ==
  \A S \in SUBSET Ids \ {{}} : \E i \in S : \A j \in S : <<i, j>> \notin lines
Hierarchies == {lines \in SUBSET Pairs : NoLoop(lines)}
Projections ==
  {[nodes |-> NodesOf(kinds, S), edges |-> EdgesOf("reports_to", lines) \cup EdgesOf("approves", approvals)] :
    <<kinds, S, lines, approvals>> \in
      {x \in [Ids -> NodeKinds] \X (SUBSET Ids) \X Hierarchies \X {{}, Pairs} :
        \A line \in x[3] : line[2] \in x[2]}}

TreeShowsTheGraph(p) ==
  LET shown == OrganizationPage(p)
  IN /\ {r.node : r \in shown.rows} = shown.nodes
     /\ {r.by[1] : r \in {x \in shown.rows : x.by # <<>>}} = {e \in shown.lines : e.kind = "reports_to"}
     /\ shown.status = {n.id : n \in {x \in p.nodes : x.kind \in KindsWithStatus}}
     /\ \A i, j \in shown.nodes : i # j => Layout(p)[i] # Layout(p)[j]

\* The organizations of the two tenants, their ids numbered: Hadeer, Adam,
\* Nour, Omar and Ziad; Mara Vale, the conductor, four departments and five
\* agents.  In the first, all initial members report to the orchestrator
\* whatever the roster says of them.
NumberOf(id) ==
  CASE id = Hadeer -> 1 [] id = Orchestrator -> 2 [] id = <<"agent", "nour">> -> 3
    [] id = <<"agent", "omar">> -> 4 [] id = <<"agent", "ziad">> -> 5
InitialAgents == {NumberOf(m.id) : m \in {x \in Initial : x.id # Orchestrator}}
IstemerLines == {<<2, 1>>} \cup {<<a, 2>> : a \in InitialAgents}
Istemer == [
  nodes |-> {[id |-> 1, kind |-> "human"], [id |-> 2, kind |-> "conductor"]}
              \cup {[id |-> a, kind |-> "agent"] : a \in InitialAgents},
  edges |-> EdgesOf("reports_to", IstemerLines)]

\* The departments 3..6 by the count they state, the agents 7..11 by the
\* department that owns their domain.
DepartmentCount == 3 :> 1 @@ 4 :> 1 @@ 5 :> 2 @@ 6 :> 1
DepartmentOf == 7 :> 3 @@ 8 :> 4 @@ 9 :> 5 @@ 10 :> 5 @@ 11 :> 6
NorthwindLines ==
  {<<2, 1>>} \cup {<<d, 2>> : d \in DOMAIN DepartmentCount} \cup {<<a, DepartmentOf[a]>> : a \in DOMAIN DepartmentOf}
Northwind == [
  nodes |-> {[id |-> 1, kind |-> "human"], [id |-> 2, kind |-> "conductor"]}
              \cup {[id |-> d, kind |-> "department"] : d \in DOMAIN DepartmentCount}
              \cup {[id |-> a, kind |-> "agent"] : a \in DOMAIN DepartmentOf},
  edges |-> EdgesOf("reports_to", NorthwindLines)]

\* How many of each kind the second tenant's page says there are.
NorthwindCaption == [human |-> 1, conductor |-> 1, department |-> 4]

\* The cards of the roster page: the orchestrator, the others of the initial
\* team, those planned.
Cards ==
  <<{m \in Members : m.id = Orchestrator},
    {m \in Initial : m.id # Orchestrator},
    {m \in Members : m.phase = "planned"}>>

RosterAgrees ==
  /\ UNION ToSet(Cards) = Members
  /\ \A i, j \in 1..3 : i # j => Cards[i] \cap Cards[j] = {}
  /\ IstemerLines = {<<NumberOf(m.id), NumberOf(m.reportsTo)>> : m \in Initial}
  /\ \A d \in DOMAIN DepartmentCount :
       DepartmentCount[d] = Cardinality({a \in DOMAIN DepartmentOf : DepartmentOf[a] = d})
  /\ \A kind \in DOMAIN NorthwindCaption :
       NorthwindCaption[kind] = Cardinality({n \in Northwind.nodes : n.kind = kind})

\* The list beside each picture tells what the picture shows.  Every node of
\* the graph has a row in the tree, also one with two supervisors or none, and
\* the tree hangs on exactly the reporting lines the graph draws, and those of
\* a tenant are the ones its roster states on another page; whoever has a
\* status has a badge; the step list follows the arrows of the diagram and no
\* step waits for what it or a step below it gives out; the table follows the blocks
\* of the cycle, and time runs down it.
BothViewsAgree ==
  LET day == CyclePage(Cycle)
  IN /\ TreeShowsTheGraph(org)
     /\ RosterAgrees
     /\ StepListTellsTheDiagram
     /\ day.table = day.diagram
     /\ \A i, j \in 1..Len(Timed(day.table)) :
          i < j => Timed(day.table)[i].time < Timed(day.table)[j].time
=============================================================================
