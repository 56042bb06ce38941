----------------------------- MODULE TenancyProofs -----------------------------
(***************************************************************************)
(* What holds of a tenant: at the page its members open (TenantDesk), for  *)
(* any number of posts, limits and overlapping requests; in the row and    *)
(* the memberships behind it (Membership), for any users and any number of *)
(* sessions; and in the shell around every page (DemoShell), for any       *)
(* number of windows.                                                      *)
(*                                                                         *)
(* The desk's properties relate the screen to tables others change. They   *)
(* hold because of what a request on its way has read and of who waits for *)
(* it: at most one request is heard, what it has read is not older than    *)
(* the acts of its panel (Recent) and not contradicted since (Good). IInv  *)
(* says so; the tables only ever go on (DbGoesOn), so what was true of     *)
(* them when it was read stays true.                                       *)
(*                                                                         *)
(* ActiveTenantHasOwner alone is not inductive either: a commit checks the *)
(* view of its own transaction, and only because that view is the database *)
(* plus its own rows does the check say anything about the database.       *)
(* OwnerInv adds what makes it so: only the holder of the tenant row has   *)
(* writes, and a snapshot no commit has overtaken is still the database.   *)
(*                                                                         *)
(* The shell writes its defaults over the stored pair at every mount, so   *)
(* for a while nothing stored says what was chosen.  ShellInv says that    *)
(* then some shell at work has it and will still write it, however many    *)
(* write at once.                                                          *)
(***************************************************************************)
EXTENDS TenantDesk, Membership, DemoShell, TLAPS

-----------------------------------------------------------------------------
(* The page.                                                               *)
\* The records of the page, with the values their fields may have.
Roles == {"owner", "operator", "none"}
RowStatuses == {"none", "pending", "approved", "closed"}
Tokens == {"none", "aal1", "aal2"}
Databases == [role : Roles, active : BOOLEAN, limit : Nat, trail : BOOLEAN,
              rows : [Rows -> RowStatuses], given : BOOLEAN]
Answers ==
  [rows : [Rows -> RowStatuses], owner : BOOLEAN] \cup [limit : Nat, owner : BOOLEAN] \cup [trail : BOOLEAN] \cup {None}
RowOrNone == Rows \cup {None}
Verdicts == {"approved", "closed", None}
Acts == {"none", "open", "signin", "factor", "load"} \cup Posts
Places == {"free", "password", "verify", "gate", "identity", "member", "assurance", "tenant", "command",
           "answer", "read", "show"}
Requests == [act : Acts, at : Places, heard : BOOLEAN, pass : {1, 2}, token : Tokens, role : Roles,
             row : RowOrNone, verdict : Verdicts, got : Answers]
SayingOrNone == Sayings \cup {None}
NatOrNone == Nat \cup {None}
Tabs == [view : {"auth", "opening", "refused", "desk"}, said : SayingOrNone, busy : BOOLEAN, asked : RowOrNone,
         shown : Answers, acted : NatOrNone, outside : BOOLEAN]

DeskTypeOK ==
  /\ panel \in Panels
  /\ session \in Tokens
  /\ db \in Databases
  /\ tab \in Tabs
  /\ ops \in [Ops -> Requests]

\* A row that has been decided; it is not pending again.
Decided(row) == db.rows[row] \in {"approved", "closed"}
Loading == {"read", "show"}
\* What is true of a request for as long as it is under way, heard or not:
\* where it may be, the panel it is of, and that the row of a decision
\* exists, and is decided once the answer says so.
Standing(r) ==
  /\ r.at = "free" => ~ r.heard
  /\ r.act \notin Posts /\ r.at # "free" => r.heard
  /\ r.at = "answer" => r.heard /\ r.act \in Posts
  /\ r.at \in Loading <=> r.act = "load"
  /\ r.at \in {"password", "verify"} => r.act = "signin"
  /\ r.act = "decide" => /\ panel = "approvals" /\ r.row \in Rows /\ r.verdict \in {"approved", "closed"}
                         /\ db.rows[r.row] # "none"
                         /\ r.at = "answer" => Decided(r.row)
  /\ r.act = "package" => panel = "prepare"
  /\ r.act = "limit" => panel = "usage"
  /\ r.act = "load" => panel # "prepare"
\* What was read is not contradicted by the tables now: a row once offered
\* exists, and the trail is the trail, or its reader has been out meanwhile.
Good(answer) ==
  /\ panel = "approvals" => \A r \in Rows : answer.rows[r] = "pending" => db.rows[r] # "none"
  /\ panel = "audit" => answer \in [trail : BOOLEAN] /\ ((answer.trail <=> db.trail) \/ tab.outside)
\* What was read is not older than what was done in the panel.
Recent(answer) ==
  tab.acted # None => IF panel = "approvals" THEN answer.rows[tab.acted] # "pending" ELSE answer.limit >= tab.acted
\* What is true of the one request somebody waits for: the screen that waits,
\* the row it asked for, and that what it has read may be shown.
Watched(r) ==
  /\ r.act \in Posts => tab.view = "desk" /\ tab.busy
  /\ r.act = "load" => tab.view = "desk" /\ (tab.busy \/ tab.shown = None)
  /\ r.act \notin Posts \cup {"load"} => tab.view # "desk"
  /\ r.act = "decide" => r.row = tab.asked
  /\ r.at = "show" => Good(r.got) /\ Recent(r.got)
\* At most one request is heard, so no answer crosses another on the screen.
OpsInv ==
  /\ \A o, p \in Ops : ops[o].heard /\ ops[p].heard => o = p
  /\ \A o \in Ops : Standing(ops[o]) /\ (ops[o].heard => Watched(ops[o]))
\* There is a package only after the strategy was approved, once.
RowsInv ==
  /\ db.rows[Strategy] = "approved" => db.given
  /\ db.given => Decided(Strategy)
  /\ \A r \in Rows \ {Strategy} : db.rows[r] # "none" => db.given
\* What is on the screen.
TabInv ==
  /\ tab.acted # None =>
       /\ panel = "approvals" => tab.acted \in Rows /\ Decided(tab.acted)
       /\ panel # "approvals" => panel = "usage" /\ tab.acted \in Nat /\ db.limit >= tab.acted
  /\ tab.said = None /\ ~ tab.busy => Recent(tab.shown)
  /\ tab.shown # None => Good(tab.shown)
  /\ tab.said = "approval_is_not_pending" => tab.asked \in Rows /\ Decided(tab.asked)
  /\ tab.said = "strategy_not_approved" /\ panel = "approvals" => db.rows[Strategy] = "closed"
  /\ panel = "audit" /\ tab.view = "desk" => MemberNow \/ tab.outside
IInv == OpsInv /\ RowsInv /\ TabInv

\* What a step may do to the tables: limits grow, rows stay, a decided row
\* stays decided and a closed one closed.
DbGoesOn ==
  /\ (db'.trail <=> db.trail) /\ db'.limit >= db.limit
  /\ \A r \in Rows :
       /\ db.rows[r] # "none" => db'.rows[r] # "none"
       /\ Decided(r) => Decided(r)'
       /\ db.rows[r] = "closed" => db'.rows[r] = "closed"

-----------------------------------------------------------------------------
LEMMA Names ==
  /\ {"none", "open", "signin", "factor", "load", "decide", "package", "limit"} \subseteq Acts
  /\ {"free", "password", "verify", "gate", "identity", "member", "assurance", "tenant", "command",
      "answer", "read", "show"} \subseteq Places
  /\ {"none", "aal1", "aal2"} \subseteq Tokens
  /\ {"owner", "operator", "none"} \subseteq Roles
  /\ {"approved", "closed", None} \subseteq Verdicts
  /\ None \in RowOrNone /\ Rows \subseteq RowOrNone
  /\ None \in Answers /\ None \in SayingOrNone /\ Sayings \subseteq SayingOrNone
  /\ None \in NatOrNone /\ Nat \subseteq NatOrNone
BY DEF Acts, Posts, Places, Tokens, Roles, Verdicts, RowOrNone, Answers, SayingOrNone, NatOrNone

\* Records that are made from others, and their fields.
LEMMA NoOpTyped == NoOp \in Requests
BY Names DEF NoOp, Requests

LEMMA RequestFields ==
  ASSUME DeskTypeOK, NEW act \in Acts, NEW at \in Places
  PROVE  /\ Request(act, at) \in Requests
         /\ Request(act, at).act = act /\ Request(act, at).at = at /\ Request(act, at).heard
         /\ Request(act, at).row = None /\ Request(act, at).pass = 1
<1>1. session \in Tokens
  BY DEF DeskTypeOK
<1>2. Request(act, at) \in Requests
  BY <1>1, NoOpTyped DEF Request, Requests
<1> QED
  BY <1>2 DEF Request, NoOp

LEMMA ScreenFields ==
  ASSUME NEW view \in {"auth", "opening", "refused", "desk"}, NEW said \in SayingOrNone
  PROVE  /\ Screen(view, said) \in Tabs
         /\ Screen(view, said).view = view /\ Screen(view, said).said = said /\ ~ Screen(view, said).busy
         /\ Screen(view, said).shown = None /\ Screen(view, said).acted = None
         /\ Screen(view, said).asked = None
BY Names DEF Screen, Tabs

LEMMA ToldFields ==
  ASSUME DeskTypeOK, NEW said \in SayingOrNone
  PROVE  /\ Told(said) \in Tabs
         /\ Told(said).view = tab.view /\ Told(said).said = said /\ ~ Told(said).busy
         /\ Told(said).shown = tab.shown /\ Told(said).acted = tab.acted
         /\ Told(said).asked = tab.asked /\ Told(said).outside = tab.outside
<1>1. tab \in Tabs
  BY DEF DeskTypeOK
<1> QED
  BY <1>1 DEF Told, Tabs

\* A step of the tables leaves what is true of the requests and the screen
\* true.
LEMMA StandingKept ==
  ASSUME DeskTypeOK, DbGoesOn, panel' = panel, NEW r, Standing(r)
  PROVE  Standing(r)'
BY DEF Standing, DbGoesOn

\* The screen is the same but for what others do to the reader behind it.
TabGoesOn ==
  /\ tab'.view = tab.view /\ tab'.said = tab.said /\ (tab'.busy <=> tab.busy) /\ tab'.asked = tab.asked
  /\ tab'.shown = tab.shown /\ tab'.acted = tab.acted /\ (tab.outside => tab'.outside)

LEMMA WatchedKept ==
  ASSUME DeskTypeOK, DbGoesOn, panel' = panel, TabGoesOn, NEW r, Watched(r)
  PROVE  Watched(r)'
BY DEF Watched, Good, Recent, DbGoesOn, TabGoesOn

LEMMA TabKept ==
  ASSUME DeskTypeOK, IInv, DbGoesOn, panel' = panel, TabGoesOn, db' \in Databases,
         panel = "audit" /\ (MemberNow \/ tab.outside) => MemberNow' \/ tab'.outside
  PROVE  TabInv'
<1>1. TabInv
  BY DEF IInv
<1>2. Recent(tab.shown) => Recent(tab.shown)'
  BY DEF Recent, TabGoesOn
<1>3. tab.shown # None => Good(tab.shown)'
  BY <1>1 DEF TabInv, Good, TabGoesOn, DbGoesOn
<1>4. tab.acted # None => IF panel = "approvals" THEN tab.acted \in Rows /\ Decided(tab.acted)'
                          ELSE panel = "usage" /\ tab.acted \in Nat /\ db'.limit >= tab.acted
  <2>1. db.limit \in Nat /\ db'.limit \in Nat
    BY DEF DeskTypeOK, Databases
  <2>2. \A row \in Rows : Decided(row) => db'.rows[row] \in {"approved", "closed"}
    BY DEF DbGoesOn, Decided
  <2> QED
    BY <1>1, <2>1, <2>2 DEF TabInv, DbGoesOn, Decided, TabGoesOn
<1>5. tab.said = "approval_is_not_pending" => tab.asked \in Rows /\ db'.rows[tab.asked] \in {"approved", "closed"}
  BY <1>1 DEF TabInv, DbGoesOn, Decided
<1>6. tab.said = "strategy_not_approved" /\ panel = "approvals" => db'.rows[Strategy] = "closed"
  BY <1>1 DEF TabInv, DbGoesOn, Rows
<1> QED
  BY <1>1, <1>2, <1>3, <1>4, <1>5, <1>6 DEF TabInv, TabGoesOn, Decided

LEMMA SetOpFields ==
  ASSUME DeskTypeOK, NEW o \in Ops, NEW r, SetOp(o, r)
  PROVE  ops'[o] = r /\ (\A p \in Ops : p # o => ops'[p] = ops[p]) /\ (r \in Requests => ops' \in [Ops -> Requests])
BY DEF SetOp, DeskTypeOK

\* An action that changes one request and, if that one is heard or none is,
\* the screen.
LEMMA Frame ==
  ASSUME DeskTypeOK, IInv, NEW o \in Ops, NEW r \in Requests, SetOp(o, r),
         DbGoesOn, panel' = panel, session' \in Tokens, db' \in Databases, tab' \in Tabs,
         Standing(r)', r.heard => Watched(r)' /\ (ops[o].heard \/ Quiet),
         tab' = tab \/ ops[o].heard \/ Quiet,
         RowsInv', TabInv'
  PROVE  DeskTypeOK' /\ IInv'
<1>1. ops'[o] = r /\ (\A p \in Ops : p # o => ops'[p] = ops[p]) /\ ops' \in [Ops -> Requests]
  BY SetOpFields
<1>2. \A p, q \in Ops : ops[p].heard /\ ops[q].heard => p = q
  BY DEF IInv, OpsInv
<1>3. \A p, q \in Ops : ops'[p].heard /\ ops'[q].heard => p = q
  BY <1>1, <1>2 DEF Quiet
<1>4. ASSUME NEW p \in Ops PROVE Standing(ops[p])' /\ (ops'[p].heard => Watched(ops[p])')
  <2>1. CASE p = o
    BY <1>1, <2>1 DEF Standing, Watched
  <2>2. CASE p # o
    <3>1. PICK s : s = ops[p]
      OBVIOUS
    <3>2. Standing(s)'
      BY <3>1, StandingKept DEF IInv, OpsInv
    <3>3. ASSUME s.heard PROVE Watched(s)'
      <4>1. ~ ops[o].heard /\ ~ Quiet
        BY <1>2, <2>2, <3>1, <3>3 DEF Quiet
      <4>2. tab' = tab /\ Watched(s)
        BY <3>1, <3>3, <4>1 DEF IInv, OpsInv
      <4> QED
        BY <4>2, WatchedKept DEF TabGoesOn
    <3> QED
      BY <1>1, <2>2, <3>1, <3>2, <3>3 DEF Standing, Watched
  <2> QED
    BY <2>1, <2>2
<1>5. DeskTypeOK'
  BY <1>1 DEF DeskTypeOK
<1>6. OpsInv'
  BY <1>3, <1>4 DEF OpsInv
<1> QED
  BY <1>5, <1>6 DEF IInv

\* A page that is left: its requests are over, or go on unheard.
LEMMA LeftQuiet ==
  ASSUME DeskTypeOK, IInv, NEW p \in Ops PROVE Left[p] \in Requests /\ ~ Left[p].heard /\ Standing(Left[p])
<1>1. ops[p] \in Requests /\ Standing(ops[p])
  BY DEF DeskTypeOK, IInv, OpsInv
<1>2. CASE ops[p].act \in Posts /\ ops[p].at \notin {"answer", "read", "show"}
  <2>1. PICK s : s = [ops[p] EXCEPT !.heard = FALSE]
    OBVIOUS
  <2>2. s \in Requests /\ ~ s.heard /\ s.act = ops[p].act /\ s.at = ops[p].at /\ s.row = ops[p].row
        /\ s.verdict = ops[p].verdict
    BY <1>1, <2>1 DEF Requests
  <2>3. Standing(s)
    BY <1>1, <1>2, <2>2 DEF Standing
  <2> QED
    BY <1>2, <2>1, <2>2, <2>3 DEF Left
<1>3. CASE ~ (ops[p].act \in Posts /\ ops[p].at \notin {"answer", "read", "show"})
  <2>1. Left[p] = NoOp
    BY <1>3 DEF Left
  <2>2. ~ NoOp.heard /\ Standing(NoOp)
    BY DEF NoOp, Standing, Posts, Loading
  <2> QED
    BY <2>1, <2>2, NoOpTyped
<1> QED
  BY <1>2, <1>3

LEMMA LeftFrame ==
  ASSUME DeskTypeOK, IInv, NEW o \in Ops, NEW r \in Requests,
         ops' = [Left EXCEPT ![o] = r] \/ (ops' = Left /\ Left[o] = r),
         UNCHANGED <<panel, db>>, session' \in Tokens, tab' \in Tabs,
         Standing(r), r.heard => Watched(r)',
         TabInv'
  PROVE  DeskTypeOK' /\ IInv'
<1>1. \A p \in Ops : Left[p] \in Requests /\ ~ Left[p].heard /\ Standing(Left[p])
  BY LeftQuiet
<1>2. \A p \in Ops : ops'[p] = IF p = o THEN r ELSE Left[p]
  BY DEF Left
<1>3. ops' \in [Ops -> Requests]
  BY <1>1 DEF Left
<1>4. \A p, q \in Ops : ops'[p].heard /\ ops'[q].heard => p = q
  BY <1>1, <1>2
<1>5. ASSUME NEW p \in Ops PROVE Standing(ops[p])' /\ (ops'[p].heard => Watched(ops[p])')
  <2>1. PICK s : s = IF p = o THEN r ELSE Left[p]
    OBVIOUS
  <2>2. Standing(s) /\ (s.heard => p = o)
    BY <1>1, <2>1
  <2>3. Standing(s)'
    BY <2>2 DEF Standing, Decided
  <2>4. ops'[p] = s
    BY <1>2, <2>1
  <2> QED
    BY <2>1, <2>2, <2>3, <2>4 DEF Standing, Watched
<1>6. RowsInv'
  BY DEF IInv, RowsInv, Decided
<1>7. DeskTypeOK'
  BY <1>3 DEF DeskTypeOK
<1>8. OpsInv'
  BY <1>4, <1>5 DEF OpsInv
<1> QED
  BY <1>6, <1>7, <1>8 DEF IInv

\* An action that leaves the tables alone.
LEMMA DbKept == ASSUME DeskTypeOK, IInv, db' = db PROVE DbGoesOn /\ db' \in Databases /\ RowsInv'
<1>1. db \in Databases /\ db.limit \in Nat
  BY DEF DeskTypeOK, Databases
<1>2. RowsInv'
  BY DEF IInv, RowsInv, Decided
<1> QED
  BY <1>1, <1>2 DEF DbGoesOn, Decided

\* What an answer that is no answer to a verdict may put on the screen.
Plainly == Sayings \ {"approval_is_not_pending", "strategy_not_approved"}
PlainlyOrNone == Plainly \cup {None}
Plain(screen) ==
  \/ screen = tab
  \/ \E view \in {"auth", "opening", "refused"}, said \in PlainlyOrNone : screen = Screen(view, said)
  \/ \E said \in Plainly : screen = Told(said)

LEMMA PlainNames ==
  /\ {"unavailable", "signed-out", "denied", "mfa-required", "not-available", "failed", "logout-failed",
      "not_authenticated", "owner_access_required", "tenant_access_required", "invalid_limit",
      "decision_failed", "package_failed", "allowance_failed", "awaiting-approval"} \subseteq Plainly
  /\ None \in PlainlyOrNone /\ Plainly \subseteq PlainlyOrNone
  /\ PlainlyOrNone \subseteq SayingOrNone /\ None \notin Plainly
  /\ \A said \in PlainlyOrNone : said # "approval_is_not_pending" /\ said # "strategy_not_approved"
<1>1. None # "approval_is_not_pending" /\ None # "strategy_not_approved" /\ None \notin Plainly
  BY TenantDeskAssumption DEF Sayings, Plainly
<1>2. {"unavailable", "signed-out", "denied", "mfa-required", "not-available", "failed", "logout-failed",
      "not_authenticated", "owner_access_required", "tenant_access_required", "invalid_limit",
      "decision_failed", "package_failed", "allowance_failed", "awaiting-approval"} \subseteq Plainly
  BY DEF Sayings, Plainly
<1> QED
  BY <1>1, <1>2 DEF PlainlyOrNone, Plainly, SayingOrNone

LEMMA PlainTab ==
  ASSUME DeskTypeOK, IInv, UNCHANGED <<panel, db>>, Plain(tab')
  PROVE  TabInv' /\ tab' \in Tabs
<1>1. tab \in Tabs /\ TabInv
  BY DEF DeskTypeOK, IInv
<1>2. CASE tab' = tab
  BY <1>1, <1>2 DEF TabInv, Decided, Recent, Good, MemberNow
<1>3. ASSUME NEW view \in {"auth", "opening", "refused"}, NEW said \in PlainlyOrNone, tab' = Screen(view, said)
      PROVE  TabInv' /\ tab' \in Tabs
  <2>0. said \in SayingOrNone
    BY PlainNames
  <2>1. tab'.acted = None /\ tab'.shown = None /\ tab'.view # "desk" /\ tab'.said = said /\ tab' \in Tabs
    BY <1>3, <2>0, ScreenFields
  <2> QED
    BY <2>1, PlainNames DEF TabInv, Recent
<1>4. ASSUME NEW said \in Plainly, tab' = Told(said)
      PROVE  TabInv' /\ tab' \in Tabs
  <2>1. said \in SayingOrNone /\ said # None
    BY PlainNames
  <2>2. /\ tab' \in Tabs
        /\ tab'.view = tab.view /\ tab'.said = said /\ ~ tab'.busy
        /\ tab'.shown = tab.shown /\ tab'.acted = tab.acted
        /\ tab'.asked = tab.asked /\ tab'.outside = tab.outside
    BY <1>4, <2>1, ToldFields
  <2> QED
    BY <1>1, <2>1, <2>2, PlainNames DEF TabInv, Decided, Good, MemberNow
<1> QED
  BY <1>2, <1>3, <1>4 DEF Plain

\* A request that nobody waits for any more, or that is over.
LEMMA Stops ==
  ASSUME DeskTypeOK, IInv, NEW o \in Ops, NEW r \in Requests, SetOp(o, r), ~ r.heard, Standing(r),
         UNCHANGED <<panel, db>>, session' \in Tokens, NEW screen, Plain(screen), Heard(o, screen)
  PROVE  DeskTypeOK' /\ IInv'
<1>1. tab' = tab \/ (ops[o].heard /\ tab' = screen)
  BY DEF Heard
<1>2. Plain(tab')
  BY <1>1 DEF Plain
<1>3. TabInv' /\ tab' \in Tabs
  BY <1>2, PlainTab
<1>4. Standing(r)'
  BY DbKept, StandingKept
<1> QED
  BY <1>1, <1>3, <1>4, DbKept, Frame

LEMMA Ends ==
  ASSUME DeskTypeOK, IInv, NEW o \in Ops, End(o), UNCHANGED <<panel, db>>, session' \in Tokens,
         NEW screen, Plain(screen), Heard(o, screen) \/ tab' = tab
  PROVE  DeskTypeOK' /\ IInv'
<1>1. tab' = tab \/ (ops[o].heard /\ tab' = screen)
  BY DEF Heard
<1>2. Plain(tab')
  BY <1>1 DEF Plain
<1>3. TabInv' /\ tab' \in Tabs
  BY <1>2, PlainTab
<1>4. SetOp(o, NoOp) /\ Standing(NoOp)' /\ ~ NoOp.heard
  BY DEF End, NoOp, Standing, Posts, Loading
<1> QED
  BY <1>1, <1>3, <1>4, NoOpTyped, DbKept, Frame

LEMMA PlainScreen ==
  ASSUME NEW view \in {"auth", "opening", "refused"}, NEW said \in PlainlyOrNone PROVE Plain(Screen(view, said))
BY Zenon DEF Plain

LEMMA PlainTold == ASSUME NEW said \in Plainly PROVE Plain(Told(said))
BY Zenon DEF Plain

\* The request goes on to another statement, which sees the same screen and the same tables.
LEMMA WalksOn ==
  ASSUME DeskTypeOK, IInv, NEW o \in Ops, NEW r \in Requests, SetOp(o, r),
         UNCHANGED <<panel, db, tab>>, session' \in Tokens,
         r.act = ops[o].act, r.heard = ops[o].heard, r.row = ops[o].row, r.verdict = ops[o].verdict,
         ops[o].at \in {"password", "gate", "identity", "member", "assurance", "tenant"},
         \/ r.at \in {"identity", "member", "assurance", "tenant", "command"}
         \/ r.at = "verify" /\ ops[o].at = "password"
  PROVE  DeskTypeOK' /\ IInv'
<1>1. Standing(ops[o]) /\ (ops[o].heard => Watched(ops[o])) /\ TabInv
  BY DEF IInv, OpsInv
<1>2. Standing(r)
  BY <1>1 DEF Standing, Loading
<1>3. r.heard => Watched(r)
  BY <1>1 DEF Watched
<1>4. DbGoesOn /\ db' \in Databases /\ RowsInv'
  BY DbKept
<1>5. Standing(r)' /\ (r.heard => Watched(r)')
  BY <1>2, <1>3, <1>4, StandingKept, WatchedKept DEF TabGoesOn
<1>6. TabInv' /\ tab' \in Tabs
  BY PlainTab DEF Plain
<1> QED
  BY <1>4, <1>5, <1>6, Frame

LEMMA GotoFields ==
  ASSUME DeskTypeOK, NEW o \in Ops, NEW at \in Places
  PROVE  /\ [ops[o] EXCEPT !.at = at] \in Requests
         /\ [ops[o] EXCEPT !.at = at].act = ops[o].act /\ [ops[o] EXCEPT !.at = at].at = at
         /\ [ops[o] EXCEPT !.at = at].heard = ops[o].heard
         /\ [ops[o] EXCEPT !.at = at].row = ops[o].row /\ [ops[o] EXCEPT !.at = at].verdict = ops[o].verdict
<1>1. ops[o] \in Requests
  BY DEF DeskTypeOK
<1> QED
  BY <1>1 DEF Requests

\* A request of which nothing is known but that somebody waits for it, on a page that is not a desk.
LEMMA Opens ==
  ASSUME NEW r, r.act \in {"open", "factor", "signin"}, r.heard, r.at \in {"identity", "password"},
         r.at = "password" => r.act = "signin"
  PROVE  Standing(r) /\ (tab'.view # "desk" => Watched(r)')
BY DEF Standing, Watched, Posts, Loading

\* Who is asking.
LEMMA RefusedKeeps ==
  ASSUME DeskTypeOK, IInv, NEW o \in Ops, NEW status \in Plainly, Refused(o, status)
  PROVE  DeskTypeOK' /\ IInv'
<1>0. session' \in Tokens /\ UNCHANGED <<panel, db>> /\ End(o)
  BY DEF DeskTypeOK, Refused
<1>1. /\ None \in PlainlyOrNone /\ status \in PlainlyOrNone
      /\ "not-available" \in PlainlyOrNone
      /\ "owner_access_required" \in Plainly /\ "tenant_access_required" \in Plainly
  BY PlainNames
<1>2. /\ Plain(Screen("auth", None))
      /\ Plain(Screen("refused", status)) /\ Plain(Screen("refused", "not-available"))
      /\ Plain(Told("owner_access_required")) /\ Plain(Told("tenant_access_required"))
  BY <1>1, PlainScreen, PlainTold
<1>3. PICK screen : Plain(screen) /\ Heard(o, screen)
  <2>1. PICK screen :
          /\ screen = IF ops[o].act = "open"
              THEN IF status = "signed-out" /\ ops[o].pass = 1 THEN Screen("auth", None)
                   ELSE Screen("refused", IF ops[o].pass = 1 THEN status ELSE "not-available")
              ELSE Told(IF OwnerRoute(o) THEN "owner_access_required" ELSE "tenant_access_required")
          /\ Heard(o, screen)
    BY DEF Refused
  <2>2. Plain(screen)
    BY <1>2, <2>1
  <2> QED
    BY <2>1, <2>2
<1> QED
  BY <1>0, <1>3, Ends

LEMMA GateKeeps == ASSUME DeskTypeOK, IInv, NEW o \in Ops, Gate(o) \/ Identity(o) PROVE DeskTypeOK' /\ IInv'
<1>0. session \in Tokens
  BY DEF DeskTypeOK
<1>1. ASSUME NEW at \in {"identity", "member"}, Looked(o, at), ops[o].at \in {"gate", "identity"}
      PROVE  DeskTypeOK' /\ IInv'
  <2>1. PICK r : r = [ops[o] EXCEPT !.at = at]
    OBVIOUS
  <2>2. SetOp(o, r) /\ UNCHANGED <<panel, session, db, tab>>
    BY <1>1, <2>1 DEF Looked, Goto
  <2>3. r \in Requests /\ r.act = ops[o].act /\ r.at = at /\ r.heard = ops[o].heard /\ r.row = ops[o].row
        /\ r.verdict = ops[o].verdict
    BY <2>1, Names, GotoFields
  <2> QED
    BY <1>0, <1>1, <2>2, <2>3, WalksOn
<1>2. CASE Gate(o)
  <2>1. CASE Looked(o, "identity")
    BY <1>1, <1>2, <2>1 DEF Gate, At
  <2>2. CASE Heard(o, Told("not_authenticated")) /\ End(o) /\ UNCHANGED <<panel, session, db>>
    <3>1. "not_authenticated" \in Plainly
      BY PlainNames
    <3>2. Plain(Told("not_authenticated"))
      BY <3>1, PlainTold
    <3> QED
      BY <1>0, <2>2, <3>2, Ends
  <2> QED
    BY <1>2, <2>1, <2>2 DEF Gate
<1>3. CASE Identity(o)
  <2>1. CASE Looked(o, "member")
    BY <1>1, <1>3, <2>1 DEF Identity
  <2>2. CASE Refused(o, "signed-out")
    <3>1. "signed-out" \in Plainly
      BY PlainNames
    <3> QED
      BY <2>2, <3>1, RefusedKeeps
  <2> QED
    BY <1>3, <2>1, <2>2 DEF Identity
<1> QED
  BY <1>2, <1>3

LEMMA MemberKeeps == ASSUME DeskTypeOK, IInv, NEW o \in Ops, Member(o) \/ Assurance(o) PROVE DeskTypeOK' /\ IInv'
<1>0. session \in Tokens /\ ops[o] \in Requests /\ db.role \in Roles
  BY DEF DeskTypeOK, Databases
<1>1. {"denied", "mfa-required"} \subseteq Plainly
  BY PlainNames
<1>2. CASE Member(o)
  <2>1. CASE db.role = "none"
    BY <1>1, <1>2, <2>1, RefusedKeeps DEF Member
  <2>2. CASE db.role # "none"
    <3>1. PICK at \in {"assurance", "tenant"} : at = IF db.role = "owner" THEN "assurance" ELSE "tenant"
      OBVIOUS
    <3>2. PICK r : r = [ops[o] EXCEPT !.role = db.role, !.at = at]
      OBVIOUS
    <3>3. r \in Requests /\ r.act = ops[o].act /\ r.at = at /\ r.heard = ops[o].heard /\ r.row = ops[o].row
          /\ r.verdict = ops[o].verdict
      BY <1>0, <3>1, <3>2, Names DEF Requests
    <3>4. SetOp(o, r) /\ UNCHANGED <<panel, session, db, tab>> /\ ops[o].at = "member"
      BY <1>2, <2>2, <3>1, <3>2 DEF Member
    <3> QED
      BY <1>0, <3>1, <3>3, <3>4, WalksOn
  <2> QED
    BY <2>1, <2>2
<1>3. CASE Assurance(o)
  <2>1. CASE ops[o].token = "aal2"
    <3>1. PICK r : r = [ops[o] EXCEPT !.at = "tenant"]
      OBVIOUS
    <3>2. SetOp(o, r) /\ UNCHANGED <<panel, session, db, tab>> /\ ops[o].at = "assurance"
      BY <1>3, <2>1, <3>1 DEF Assurance, Looked, Goto
    <3>3. r \in Requests /\ r.act = ops[o].act /\ r.at = "tenant" /\ r.heard = ops[o].heard
          /\ r.row = ops[o].row /\ r.verdict = ops[o].verdict
      BY <3>1, Names, GotoFields
    <3> QED
      BY <1>0, <3>2, <3>3, WalksOn
  <2>2. CASE ops[o].token # "aal2"
    BY <1>1, <1>3, <2>2, RefusedKeeps DEF Assurance
  <2> QED
    BY <2>1, <2>2
<1> QED
  BY <1>2, <1>3

LEMMA TenantKeeps == ASSUME DeskTypeOK, IInv, NEW o \in Ops, Tenant(o) PROVE DeskTypeOK' /\ IInv'
<1>0. session \in Tokens /\ ops[o] \in Requests /\ db \in Databases /\ panel \in Panels /\ ops[o].at = "tenant"
  BY DEF DeskTypeOK, Tenant
<1>1. CASE ~ db.active \/ (OwnerRoute(o) /\ ops[o].role # "owner")
  <2>1. "denied" \in Plainly
    BY PlainNames
  <2> QED
    BY <1>1, <2>1, RefusedKeeps DEF Tenant
<1>2. ASSUME NEW r \in Requests, SetOp(o, r), UNCHANGED <<panel, session, db, tab>>,
             r.act = ops[o].act, r.heard = ops[o].heard, r.row = ops[o].row, r.verdict = ops[o].verdict,
             r.at \in {"command", "identity"}
      PROVE  DeskTypeOK' /\ IInv'
  BY <1>0, <1>2, WalksOn
<1>3. CASE db.active /\ ~ (OwnerRoute(o) /\ ops[o].role # "owner") /\ ops[o].act # "open"
  <2>1. PICK r : r = [ops[o] EXCEPT !.role = "none", !.at = "command"]
    OBVIOUS
  <2>2. r \in Requests /\ r.act = ops[o].act /\ r.heard = ops[o].heard /\ r.row = ops[o].row
        /\ r.verdict = ops[o].verdict /\ r.at = "command"
    BY <1>0, <2>1, Names DEF Requests
  <2>3. SetOp(o, r) /\ UNCHANGED <<panel, session, db, tab>>
    BY <1>3, <2>1 DEF Tenant
  <2> QED
    BY <1>2, <2>2, <2>3
<1>4. CASE db.active /\ ~ (OwnerRoute(o) /\ ops[o].role # "owner") /\ ops[o].act = "open" /\ ops[o].pass = 1
  <2>1. PICK r : r = [ops[o] EXCEPT !.pass = 2, !.at = "identity"]
    OBVIOUS
  <2>2. r \in Requests /\ r.act = ops[o].act /\ r.heard = ops[o].heard /\ r.row = ops[o].row
        /\ r.verdict = ops[o].verdict /\ r.at = "identity"
    BY <1>0, <2>1, Names DEF Requests
  <2>3. SetOp(o, r) /\ UNCHANGED <<panel, session, db, tab>>
    BY <1>4, <2>1 DEF Tenant
  <2> QED
    BY <1>2, <2>2, <2>3
<1>5. CASE db.active /\ ~ (OwnerRoute(o) /\ ops[o].role # "owner") /\ ops[o].act = "open" /\ ops[o].pass # 1
  <2>1. /\ tab' = [Screen("desk", None) EXCEPT !.outside = panel = "audit" /\ db.role = "none"]
        /\ IF panel = "prepare" THEN End(o) ELSE SetOp(o, Request("load", "read"))
        /\ UNCHANGED <<panel, session, db>>
    BY <1>5 DEF Tenant
  <2>2. /\ tab' \in Tabs /\ tab'.view = "desk" /\ tab'.said = None /\ tab'.shown = None /\ tab'.acted = None
        /\ tab'.outside <=> (panel = "audit" /\ db.role = "none")
    <3>1. PICK out : out = (panel = "audit" /\ db.role = "none")
      OBVIOUS
    <3>2. out \in BOOLEAN /\ (out <=> (panel = "audit" /\ db.role = "none"))
      BY <3>1, Zenon
    <3>3. PICK screen : screen = Screen("desk", None)
      OBVIOUS
    <3>4. screen \in Tabs /\ screen.view = "desk" /\ screen.said = None /\ screen.shown = None /\ screen.acted = None
      BY <3>3, Names, ScreenFields
    <3>5. tab' = [screen EXCEPT !.outside = out]
      BY <2>1, <3>1, <3>3, Zenon
    <3> QED
      BY <3>2, <3>4, <3>5 DEF Tabs
  <2>3. TabInv'
    <3>1. tab'.said # "approval_is_not_pending" /\ tab'.said # "strategy_not_approved"
      BY <2>2, PlainNames
    <3>2. Recent(tab.shown)' /\ (panel' = "audit" => MemberNow' \/ tab'.outside)
      BY <1>5, <2>1, <2>2 DEF Recent, MemberNow
    <3> QED
      BY <2>2, <3>1, <3>2 DEF TabInv
  <2>4. ops[o].heard
    BY <1>0, <1>5 DEF IInv, OpsInv, Standing, Posts
  <2>5. PICK r \in Requests : SetOp(o, r) /\ (r = NoOp \/ (panel # "prepare" /\ r = Request("load", "read")))
    BY <2>1, Names, NoOpTyped, RequestFields DEF End
  <2>6. Standing(r)' /\ (r.heard => Watched(r)')
    <3>1. CASE r = NoOp
      BY <3>1 DEF NoOp, Standing, Posts, Loading
    <3>2. CASE panel # "prepare" /\ r = Request("load", "read")
      <4>1. r.act = "load" /\ r.at = "read" /\ r.heard
        BY <3>2, Names, RequestFields
      <4> QED
        BY <2>1, <2>2, <3>2, <4>1 DEF Standing, Watched, Posts, Loading
    <3> QED
      BY <2>5, <3>1, <3>2
  <2> QED
    BY <1>0, <2>1, <2>2, <2>3, <2>4, <2>5, <2>6, DbKept, Frame
<1> QED
  BY <1>1, <1>3, <1>4, <1>5

-----------------------------------------------------------------------------
(* Signing in and out.                                                     *)
LEMMA SessionsKeep ==
  ASSUME DeskTypeOK, IInv, NEW o \in Ops, Exchanged(o) \/ SignedIn(o) \/ Challenged(o)
  PROVE  DeskTypeOK' /\ IInv'
<1>0. session \in Tokens /\ ops[o] \in Requests /\ Standing(ops[o]) /\ (ops[o].heard => Watched(ops[o]))
      /\ tab \in Tabs
  BY DEF DeskTypeOK, IInv, OpsInv
<1>1. Plain(Screen("auth", "failed")) /\ Plain(Screen("auth", None)) /\ Plain(tab)
  <2>1. "failed" \in PlainlyOrNone /\ None \in PlainlyOrNone
    BY PlainNames
  <2>2. Plain(tab)
    BY DEF Plain
  <2> QED
    BY <2>1, <2>2, PlainScreen
<1>2. ASSUME NEW screen, Plain(screen), tab' = screen, End(o), UNCHANGED <<panel, db>>, session' \in Tokens,
             ops[o].heard
      PROVE  DeskTypeOK' /\ IInv'
  BY <1>2, Ends DEF Heard
<1>3. ASSUME NEW r \in Requests, SetOp(o, r), r.act = "open", r.at = "identity", r.heard, ops[o].heard,
             UNCHANGED <<panel, db, tab>>, session' \in Tokens, tab.view # "desk"
      PROVE  DeskTypeOK' /\ IInv'
  <2>1. Standing(r) /\ Watched(r)'
    BY <1>3, Opens
  <2>2. Standing(r)'
    BY <1>3, <2>1, DbKept, StandingKept
  <2>3. TabInv' /\ tab' \in Tabs
    BY <1>3, PlainTab DEF Plain
  <2> QED
    BY <1>3, <2>1, <2>2, <2>3, DbKept, Frame
<1>4. CASE Exchanged(o)
  <2>1. ops[o].act = "signin" /\ ops[o].at = "password" /\ ops[o].heard
    BY <1>0, <1>4 DEF Exchanged, At, Standing, Posts
  <2>2. CASE session' = "aal1" /\ Goto(o, "verify") /\ UNCHANGED tab
    <3>1. PICK r : r = [ops[o] EXCEPT !.at = "verify"]
      OBVIOUS
    <3>2. r \in Requests /\ r.act = ops[o].act /\ r.at = "verify" /\ r.heard = ops[o].heard
          /\ r.row = ops[o].row /\ r.verdict = ops[o].verdict
      BY <3>1, Names, GotoFields
    <3>3. SetOp(o, r) /\ UNCHANGED <<panel, db, tab>> /\ session' \in Tokens
      BY <1>4, <2>2, <3>1, Names DEF Exchanged, Goto
    <3> QED
      BY <2>1, <3>2, <3>3, WalksOn
  <2>3. CASE tab' = Screen("auth", "failed") /\ End(o) /\ UNCHANGED session
    BY <1>0, <1>1, <1>2, <1>4, <2>1, <2>3 DEF Exchanged
  <2> QED
    BY <1>4, <2>2, <2>3 DEF Exchanged
<1>5. CASE SignedIn(o)
  <2>1. ops[o].act = "signin" /\ ops[o].at = "verify" /\ ops[o].heard /\ UNCHANGED <<panel, session, db>>
    BY <1>0, <1>5 DEF SignedIn, At, Standing, Posts
  <2>2. CASE End(o) /\ (tab' = Screen("auth", "failed") \/ tab' = Screen("auth", None))
    BY <1>0, <1>1, <1>2, <2>1, <2>2
  <2>3. CASE SetOp(o, Request("open", "identity")) /\ UNCHANGED tab
    <3>1. PICK r : r = Request("open", "identity")
      OBVIOUS
    <3>2. r \in Requests /\ r.act = "open" /\ r.at = "identity" /\ r.heard
      BY <3>1, Names, RequestFields
    <3>3. tab.view # "desk"
      BY <1>0, <2>1 DEF Watched, Posts
    <3> QED
      BY <1>0, <1>3, <2>1, <2>3, <3>1, <3>2, <3>3
  <2> QED
    BY <1>5, <2>2, <2>3 DEF SignedIn
<1>6. CASE Challenged(o)
  <2>1. ops[o].act = "factor" /\ ops[o].heard /\ UNCHANGED <<panel, db>>
    BY <1>0, <1>6 DEF Challenged, At, Standing, Posts
  <2>2. CASE End(o) /\ UNCHANGED session /\ (tab' = Screen("auth", None) \/ tab' = tab)
    BY <1>0, <1>1, <1>2, <2>1, <2>2
  <2>3. CASE session' = "aal2" /\ UNCHANGED tab /\ SetOp(o, [Request("open", "identity") EXCEPT !.token = "aal2"])
    <3>1. PICK q : q = Request("open", "identity")
      OBVIOUS
    <3>2. PICK r : r = [q EXCEPT !.token = "aal2"]
      OBVIOUS
    <3>3. q \in Requests /\ q.act = "open" /\ q.at = "identity" /\ q.heard
      BY <3>1, Names, RequestFields
    <3>4. r \in Requests /\ r.act = "open" /\ r.at = "identity" /\ r.heard
      BY <3>2, <3>3, Names DEF Requests
    <3>5. tab.view # "desk"
      BY <1>0, <2>1 DEF Watched, Posts
    <3> QED
      BY <1>3, <2>1, <2>3, <3>1, <3>2, <3>4, <3>5, Names
  <2> QED
    BY <1>6, <2>2, <2>3 DEF Challenged
<1> QED
  BY <1>4, <1>5, <1>6

LEMMA BeginsKeep == ASSUME DeskTypeOK, IInv, NEW o \in Ops, SignIn(o) \/ Challenge(o) PROVE DeskTypeOK' /\ IInv'
<1>0. session \in Tokens /\ Quiet /\ UNCHANGED <<panel, session, db, tab>> /\ tab.view # "desk"
  BY DEF DeskTypeOK, SignIn, Challenge
<1>1. PICK r \in Requests : /\ SetOp(o, r) /\ r.heard /\ r.act \in {"signin", "factor"}
                            /\ r.at \in {"identity", "password"} /\ (r.at = "password" => r.act = "signin")
  BY Names, RequestFields DEF SignIn, Challenge
<1>2. Standing(r) /\ Watched(r)'
  BY <1>0, <1>1, Opens
<1>3. Standing(r)'
  BY <1>0, <1>2, DbKept, StandingKept
<1>4. TabInv' /\ tab' \in Tabs
  BY <1>0, PlainTab DEF Plain
<1> QED
  BY <1>0, <1>1, <1>2, <1>3, <1>4, DbKept, Frame

LEMMA LeavesKeep ==
  ASSUME DeskTypeOK, IInv, NEW o \in Ops, Callback(o) \/ SignOut(o) \/ Open(o) PROVE DeskTypeOK' /\ IInv'
<1>0. session' \in Tokens /\ UNCHANGED <<panel, db>>
  BY Names DEF DeskTypeOK, Callback, SignOut, Open
<1>1. {None, "logout-failed"} \subseteq PlainlyOrNone
  BY PlainNames
<1>2. Plain(Screen("auth", None)) /\ Plain(Screen("opening", None)) /\ Plain(Screen("auth", "logout-failed"))
  BY <1>1, PlainScreen
<1>3. Plain(tab') /\ tab'.view # "desk"
  <2>1. {None, "logout-failed"} \subseteq SayingOrNone
    BY <1>1, PlainNames
  <2>2. Screen("auth", None).view = "auth" /\ Screen("opening", None).view = "opening"
        /\ Screen("auth", "logout-failed").view = "auth"
    BY <2>1, ScreenFields
  <2>3. tab' = Screen("auth", None) \/ tab' = Screen("opening", None) \/ tab' = Screen("auth", "logout-failed")
    BY DEF Callback, SignOut, Open
  <2> QED
    BY <1>2, <2>2, <2>3
<1>4. TabInv' /\ tab' \in Tabs
  BY <1>0, <1>3, PlainTab
<1>5. CASE SignOut(o)
  BY <1>0, <1>4, <1>5, LeftQuiet, LeftFrame DEF SignOut
<1>6. CASE Callback(o) \/ Open(o)
  <2>1. PICK r \in Requests : /\ ops' = [Left EXCEPT ![o] = r] /\ r.heard /\ r.act \in {"signin", "open"}
                              /\ r.at \in {"identity", "password"} /\ (r.at = "password" => r.act = "signin")
    BY <1>6, Names, RequestFields DEF Callback, Open
  <2>2. Standing(r) /\ Watched(r)'
    BY <1>3, <2>1, Opens
  <2> QED
    BY <1>0, <1>4, <2>1, <2>2, LeftFrame
<1> QED
  BY <1>5, <1>6

LEMMA FailsKeep == ASSUME DeskTypeOK, IInv, NEW o \in Ops, RequestFails(o) PROVE DeskTypeOK' /\ IInv'
<1>0. session' \in Tokens /\ UNCHANGED <<panel, db>>
  BY DEF DeskTypeOK, RequestFails
<1>1. PICK screen : Plain(screen) /\ Heard(o, screen)
  <2>1. {"unavailable", "failed"} \subseteq PlainlyOrNone /\ "failed" \in Plainly
    BY PlainNames
  <2>2. Plain(Screen("refused", "unavailable")) /\ Plain(Screen("auth", "failed")) /\ Plain(Told("failed"))
    BY <2>1, PlainScreen, PlainTold
  <2>3. Plain(tab)
    BY DEF Plain
  <2>4. PICK screen :
          /\ screen = CASE ops[o].act = "open" -> Screen("refused", "unavailable")
                        [] ops[o].act = "signin" -> Screen("auth", "failed")
                        [] ops[o].act = "factor" -> tab
                        [] OTHER -> Told("failed")
          /\ Heard(o, screen)
    BY DEF RequestFails
  <2>5. Plain(screen)
    BY <2>2, <2>3, <2>4
  <2> QED
    BY <2>4, <2>5
<1>2. PICK r \in Requests : SetOp(o, r) /\ ~ r.heard /\ Standing(r)
  <2>1. NoOp \in Requests /\ ~ NoOp.heard /\ Standing(NoOp)
    BY NoOpTyped DEF NoOp, Standing, Posts, Loading
  <2>2. Left[o] \in Requests /\ ~ Left[o].heard /\ Standing(Left[o])
    BY LeftQuiet
  <2>3. SetOp(o, NoOp) \/ SetOp(o, Left[o])
    BY DEF RequestFails, End
  <2> QED
    BY <2>1, <2>2, <2>3
<1> QED
  BY <1>0, <1>1, <1>2, Stops

-----------------------------------------------------------------------------
(* The panels.                                                             *)
LEMMA AtRestQuiet ==
  ASSUME DeskTypeOK, IInv, tab.view = "desk", ~ tab.busy, tab.shown # None \/ panel = "prepare"
  PROVE  Quiet
<1> SUFFICES ASSUME NEW o \in Ops, ops[o].heard PROVE FALSE
  BY DEF Quiet
<1>1. Standing(ops[o]) /\ Watched(ops[o])
  BY DEF IInv, OpsInv
<1> QED
  BY <1>1 DEF Standing, Watched

LEMMA StartKeeps ==
  ASSUME DeskTypeOK, IInv, NEW o \in Ops, NEW r \in Requests, Start(o, r), tab.shown # None \/ panel = "prepare",
         r.act \in Posts, r.at = "gate", Standing(r)
  PROVE  DeskTypeOK' /\ IInv'
<1>1. /\ session' \in Tokens /\ UNCHANGED <<panel, db>> /\ SetOp(o, r) /\ tab.view = "desk" /\ ~ tab.busy
      /\ tab' = [tab EXCEPT !.busy = TRUE, !.said = None, !.asked = r.row]
  BY DEF DeskTypeOK, Start
<1>2. Quiet
  BY <1>1, AtRestQuiet
<1>3. tab \in Tabs /\ TabInv /\ r.row \in RowOrNone
  BY DEF DeskTypeOK, IInv, Requests
<1>4. /\ tab' \in Tabs /\ tab'.view = "desk" /\ tab'.said = None /\ tab'.busy /\ tab'.asked = r.row
      /\ tab'.shown = tab.shown /\ tab'.acted = tab.acted /\ tab'.outside = tab.outside
  BY <1>1, <1>3, Names DEF Tabs
<1>5. TabInv'
  <2>1. tab'.said # "approval_is_not_pending" /\ tab'.said # "strategy_not_approved"
    BY <1>4, PlainNames
  <2>2. panel = "audit" /\ tab.view = "desk" => MemberNow \/ tab.outside
    BY <1>3 DEF TabInv
  <2> QED
    BY <1>1, <1>3, <1>4, <2>1, <2>2 DEF TabInv, Decided, Good, MemberNow
<1>6. Standing(r)' /\ Watched(r)'
  <2>1. Watched(r)'
    BY <1>4 DEF Watched, Posts
  <2> QED
    BY <1>1, <2>1, DbKept, StandingKept
<1> QED
  BY <1>1, <1>2, <1>4, <1>5, <1>6, DbKept, Frame

LEMMA PanelKeeps ==
  ASSUME DeskTypeOK, IInv, NEW o \in Ops,
         \/ \E row \in Rows, verdict \in {"approved", "closed"} : Decide(o, row, verdict)
         \/ Prepare(o) \/ SetLimit(o)
  PROVE  DeskTypeOK' /\ IInv'
<1>1. ASSUME NEW row \in Rows, NEW verdict \in {"approved", "closed"}, Decide(o, row, verdict)
      PROVE  DeskTypeOK' /\ IInv'
  <2>1. /\ panel = "approvals" /\ tab.shown # None /\ tab.shown.rows[row] = "pending"
        /\ Start(o, [Request("decide", "gate") EXCEPT !.row = row, !.verdict = verdict])
    BY <1>1, Zenon DEF Decide
  <2>2. db.rows[row] # "none"
    BY <2>1 DEF IInv, TabInv, Good
  <2>3. PICK q : q = Request("decide", "gate")
    OBVIOUS
  <2>4. q \in Requests /\ q.act = "decide" /\ q.at = "gate" /\ q.heard
    BY <2>3, Names, RequestFields
  <2>5. PICK r : r = [q EXCEPT !.row = row, !.verdict = verdict]
    OBVIOUS
  <2>6. r \in Requests /\ r.act = "decide" /\ r.at = "gate" /\ r.heard /\ r.row = row /\ r.verdict = verdict
    BY <2>4, <2>5, Names DEF Requests
  <2>7. Standing(r) /\ r.act \in Posts
    BY <2>1, <2>2, <2>6 DEF Standing, Posts, Loading
  <2> QED
    BY <2>1, <2>3, <2>5, <2>6, <2>7, StartKeeps
<1>2. ASSUME NEW act \in {"package", "limit"}, Start(o, Request(act, "gate")),
             act = "package" => panel = "prepare",
             act = "limit" => panel = "usage" /\ tab.shown # None
      PROVE  DeskTypeOK' /\ IInv'
  <2>1. PICK r : r = Request(act, "gate")
    OBVIOUS
  <2>2. r \in Requests /\ r.act = act /\ r.at = "gate" /\ r.heard
    BY <2>1, Names, RequestFields
  <2>3. Standing(r) /\ r.act \in Posts
    BY <1>2, <2>2 DEF Standing, Posts, Loading
  <2> QED
    BY <1>2, <2>1, <2>2, <2>3, StartKeeps
<1> QED
  BY <1>1, <1>2 DEF Prepare, SetLimit

-----------------------------------------------------------------------------
(* The commands.                                                           *)
\* A refusal may name a reason of its own only when it is true of the tables.
LEMMA TellsTheTruth ==
  ASSUME DeskTypeOK, IInv, NEW o \in Ops, NEW reason \in Sayings, Raises(o, reason),
         reason = "approval_is_not_pending" /\ ops[o].heard => tab.asked \in Rows /\ Decided(tab.asked),
         reason = "strategy_not_approved" /\ panel = "approvals" => db.rows[Strategy] = "closed"
  PROVE  DeskTypeOK' /\ IInv'
<1>1. UNCHANGED <<panel, session, db>> /\ session' \in Tokens /\ SetOp(o, NoOp)
  BY DEF DeskTypeOK, Raises, End
<1>2. CASE ~ ops[o].heard
  <2>1. tab' = tab
    BY <1>2 DEF Raises, Heard
  <2>2. Plain(tab)
    BY DEF Plain
  <2> QED
    BY <1>1, <2>1, <2>2, Ends DEF End
<1>3. CASE ops[o].heard
  <2>1. tab' = Told(reason) /\ reason \in SayingOrNone /\ reason # None
    BY <1>3, Names, TenantDeskAssumption DEF Raises, Heard
  <2>2. /\ tab' \in Tabs
        /\ tab'.view = tab.view /\ tab'.said = reason /\ ~ tab'.busy
        /\ tab'.shown = tab.shown /\ tab'.acted = tab.acted
        /\ tab'.asked = tab.asked /\ tab'.outside = tab.outside
    BY <2>1, ToldFields
  <2>3. TabInv
    BY DEF IInv
  <2>4. TabInv'
    BY <1>1, <1>3, <2>1, <2>2, <2>3 DEF TabInv, Decided, Good, MemberNow
  <2>5. Standing(NoOp)' /\ ~ NoOp.heard
    BY DEF NoOp, Standing, Posts, Loading
  <2> QED
    BY <1>1, <1>3, <2>2, <2>4, <2>5, NoOpTyped, DbKept, Frame
<1> QED
  BY <1>2, <1>3

\* A command that writes; its answer is on its way, or nobody waits for it.
LEMMA WritesKeep ==
  ASSUME DeskTypeOK, IInv, NEW o \in Ops, NEW new \in Databases, Writes(o, new), DbGoesOn, RowsInv',
         ops[o].act \in Posts, ops[o].at = "command", new.role = db.role, new.active = db.active,
         ops[o].act = "decide" => new.rows[ops[o].row] \in {"approved", "closed"}
  PROVE  DeskTypeOK' /\ IInv'
<1>0. ops[o] \in Requests /\ Standing(ops[o]) /\ (ops[o].heard => Watched(ops[o])) /\ TabInv
  BY DEF DeskTypeOK, IInv, OpsInv
<1>1. db' = new /\ UNCHANGED <<panel, session, tab>> /\ session' \in Tokens /\ tab' \in Tabs
  BY DEF DeskTypeOK, Writes
<1>2. TabGoesOn /\ (MemberNow => MemberNow')
  BY <1>1 DEF TabGoesOn, MemberNow
<1>3. TabInv'
  BY <1>1, <1>2, TabKept
<1>4. CASE ops[o].heard
  <2>1. PICK r : r = [ops[o] EXCEPT !.at = "answer"]
    OBVIOUS
  <2>2. r \in Requests /\ r.act = ops[o].act /\ r.at = "answer" /\ r.heard /\ r.row = ops[o].row
        /\ r.verdict = ops[o].verdict
    BY <1>4, <2>1, Names, GotoFields
  <2>3. SetOp(o, r)
    BY <1>4, <2>1 DEF Writes, Goto
  <2>4. Standing(r)'
    <3>1. r.act = "decide" => /\ panel = "approvals" /\ r.row \in Rows /\ r.verdict \in {"approved", "closed"}
                              /\ db'.rows[r.row] \in {"approved", "closed"}
      BY <1>0, <1>1, <2>2 DEF Standing
    <3>2. r.act = "package" => panel = "prepare"
      BY <1>0, <2>2 DEF Standing
    <3>3. r.act = "limit" => panel = "usage"
      BY <1>0, <2>2 DEF Standing
    <3> QED
      BY <1>1, <2>2, <3>1, <3>2, <3>3 DEF Standing, Posts, Loading, Decided
  <2>5. Watched(r)
    BY <1>0, <1>4, <2>2 DEF Watched
  <2>6. Watched(r)'
    BY <1>1, <1>2, <2>5, WatchedKept
  <2> QED
    BY <1>1, <1>3, <1>4, <2>2, <2>3, <2>4, <2>6, Frame
<1>5. CASE ~ ops[o].heard
  <2>1. SetOp(o, NoOp)
    BY <1>5 DEF Writes, End
  <2>2. Standing(NoOp)' /\ ~ NoOp.heard
    BY DEF NoOp, Standing, Posts, Loading
  <2> QED
    BY <1>1, <1>3, <2>1, <2>2, NoOpTyped, Frame
<1> QED
  BY <1>4, <1>5

(* The approvals, which this desk and others write, change as              *)
(* ApprovalRecords says.                                                   *)
LEMMA ApprovalRows ==
  Approvals!Rows = Rows /\ Approvals!Strategy = Strategy /\ Approvals!Posts = Rows \ {Strategy} /\ Strategy \in Rows
BY DEF Approvals!Rows, Approvals!Strategy, Approvals!Posts, Rows, Strategy

LEMMA ApprovalsWritten ==
  ASSUME DeskTypeOK, NEW rows \in [Rows -> RowStatuses], NEW given \in BOOLEAN,
         db' = [db EXCEPT !.rows = rows, !.given = given]
  PROVE  /\ db' \in Databases /\ db'.rows = rows /\ db'.given = given
         /\ db'.role = db.role /\ db'.active = db.active /\ db'.limit = db.limit /\ db'.trail = db.trail
BY DEF DeskTypeOK, Databases

\* What ApprovalRecords allows the tables allow: what is decided stays, and
\* there is no post without a strategy that was approved.
LEMMA RecordsGoOn ==
  ASSUME DeskTypeOK, IInv, Approvals!RecordsNext, db' \in Databases, db'.limit = db.limit, db'.trail = db.trail
  PROVE  DbGoesOn /\ RowsInv'
<1>0. /\ db.rows \in [Rows -> RowStatuses] /\ db.limit \in Nat /\ RowsInv
      /\ db'.rows \in [Rows -> RowStatuses] /\ db.trail \in BOOLEAN
  BY DEF DeskTypeOK, IInv, Databases
<1>1. CASE Approvals!Submit
  <2>1. /\ db.rows[Strategy] = "none" /\ db'.given = db.given
        /\ \A r \in Rows : db'.rows[r] = IF r = Strategy THEN "pending" ELSE db.rows[r]
    BY <1>0, <1>1, ApprovalRows DEF Approvals!Submit
  <2>2. ~ db.given
    BY <1>0, <2>1 DEF RowsInv, Decided
  <2> QED
    BY <1>0, <2>1, <2>2, ApprovalRows DEF DbGoesOn, RowsInv, Decided
<1>2. ASSUME NEW row \in Rows, NEW status \in {"approved", "closed"}, Approvals!Decide(row, status)
      PROVE  DbGoesOn /\ RowsInv'
  <2>1. /\ db.rows[row] = "pending" \/ (db.rows[row] = "approved" /\ status = "closed")
        /\ row # Strategy /\ status = "approved" => db.given
        /\ \A r \in Rows : db'.rows[r] = IF r = row THEN status ELSE db.rows[r]
    BY <1>0, <1>2, ApprovalRows DEF Approvals!Decide, Approvals!MayBecome
  <2>2. db'.given <=> (db.given \/ (row = Strategy /\ status = "approved"))
    BY <1>2, ApprovalRows DEF Approvals!Decide, Approvals!GivenBy
  <2>3. DbGoesOn
    BY <1>0, <2>1 DEF DbGoesOn, Decided
  <2>4. db'.given => Decided(Strategy)'
    BY <1>0, <2>1, <2>2, ApprovalRows DEF RowsInv, Decided
  <2>5. db'.rows[Strategy] = "approved" => db'.given
    BY <1>0, <2>1, <2>2, ApprovalRows DEF RowsInv
  <2>6. \A r \in Rows \ {Strategy} : db'.rows[r] # "none" => db'.given
    BY <1>0, <2>1, <2>2 DEF RowsInv
  <2> QED
    BY <2>3, <2>4, <2>5, <2>6 DEF RowsInv
<1>3. ASSUME NEW post \in Rows \ {Strategy}, NEW superseded \in SUBSET (Rows \ {Strategy}),
             Approvals!Prepare(post, superseded)
      PROVE  DbGoesOn /\ RowsInv'
  <2>1. /\ db.given /\ db.rows[post] = "none" /\ db'.given = db.given
        /\ \A r \in superseded : db.rows[r] = "pending"
        /\ \A r \in Rows : db'.rows[r] = IF r = post THEN "pending"
                                         ELSE IF r \in superseded THEN "closed" ELSE db.rows[r]
    BY <1>3, ApprovalRows DEF Approvals!Prepare, Approvals!MayOpen, Approvals!Prepared
  <2> QED
    BY <1>0, <2>1, ApprovalRows DEF DbGoesOn, RowsInv, Decided
<1> QED
  BY <1>1, <1>2, <1>3, ApprovalRows DEF Approvals!RecordsNext

LEMMA RowDecided ==
  ASSUME DeskTypeOK, IInv, NEW row \in Rows, NEW status \in {"approved", "closed"}, Approvals!MayBecome(row, status),
         db' = [db EXCEPT !.rows[row] = status, !.given = Approvals!GivenBy(row, status)]
  PROVE  /\ DbGoesOn /\ db' \in Databases /\ RowsInv' /\ Approvals!RecordsNext
         /\ db'.role = db.role /\ db'.active = db.active
         /\ db'.rows[row] = status
<1>1. PICK rows : rows = [db.rows EXCEPT ![row] = status]
  OBVIOUS
<1>2. PICK given \in BOOLEAN : given = Approvals!GivenBy(row, status)
  BY DEF Approvals!GivenBy
<1>3. db.rows \in [Rows -> RowStatuses] /\ db' = [db EXCEPT !.rows = rows, !.given = given]
  BY <1>1, <1>2 DEF DeskTypeOK, Databases
<1>4. rows \in [Rows -> RowStatuses] /\ rows[row] = status
  BY <1>1, <1>3 DEF RowStatuses
<1>5. /\ db' \in Databases /\ db'.rows = rows /\ db'.given = given
      /\ db'.role = db.role /\ db'.active = db.active /\ db'.limit = db.limit /\ db'.trail = db.trail
  BY <1>3, <1>4, ApprovalsWritten
<1>6. Approvals!Decide(row, status)
  BY <1>1, <1>2, <1>5 DEF Approvals!Decide
<1>7. Approvals!RecordsNext
  BY <1>6, ApprovalRows DEF Approvals!RecordsNext
<1> QED
  BY <1>4, <1>5, <1>7, RecordsGoOn

LEMMA PostPrepared ==
  ASSUME DeskTypeOK, IInv, NEW post \in Rows \ {Strategy}, NEW superseded \in SUBSET (Rows \ {Strategy}),
         Approvals!MayOpen(post), \A r \in superseded : db.rows[r] = "pending",
         db' = [db EXCEPT !.rows = Approvals!Prepared(post, superseded)]
  PROVE  /\ DbGoesOn /\ db' \in Databases /\ RowsInv' /\ Approvals!RecordsNext
         /\ db'.role = db.role /\ db'.active = db.active
<1>1. PICK rows : rows = Approvals!Prepared(post, superseded)
  OBVIOUS
<1>2. PICK given \in BOOLEAN : given = db.given
  BY DEF DeskTypeOK, Databases
<1>3. db.rows \in [Rows -> RowStatuses] /\ db' = [db EXCEPT !.rows = rows, !.given = given]
  BY <1>1, <1>2 DEF DeskTypeOK, Databases
<1>4. rows \in [Rows -> RowStatuses]
  BY <1>1, <1>3, ApprovalRows DEF Approvals!Prepared, RowStatuses
<1>5. /\ db' \in Databases /\ db'.rows = rows /\ db'.given = given
      /\ db'.role = db.role /\ db'.active = db.active /\ db'.limit = db.limit /\ db'.trail = db.trail
  BY <1>3, <1>4, ApprovalsWritten
<1>6. Approvals!Prepare(post, superseded)
  BY <1>1, <1>2, <1>5 DEF Approvals!Prepare
<1>7. Approvals!RecordsNext
  BY <1>6, ApprovalRows DEF Approvals!RecordsNext
<1> QED
  BY <1>5, <1>7, RecordsGoOn

LEMMA StrategySubmitted ==
  ASSUME DeskTypeOK, IInv, OthersSubmit
  PROVE  /\ DbGoesOn /\ db' \in Databases /\ RowsInv' /\ Approvals!RecordsNext
         /\ db'.role = db.role /\ db'.active = db.active
<1>1. PICK rows : rows = [db.rows EXCEPT ![Strategy] = "pending"]
  OBVIOUS
<1>2. PICK given \in BOOLEAN : given = db.given
  BY DEF DeskTypeOK, Databases
<1>3. db.rows \in [Rows -> RowStatuses] /\ db' = [db EXCEPT !.rows = rows, !.given = given]
  BY <1>1, <1>2 DEF DeskTypeOK, Databases, OthersSubmit
<1>4. rows \in [Rows -> RowStatuses]
  BY <1>1, <1>3 DEF RowStatuses
<1>5. /\ db' \in Databases /\ db'.rows = rows /\ db'.given = given
      /\ db'.role = db.role /\ db'.active = db.active /\ db'.limit = db.limit /\ db'.trail = db.trail
  BY <1>3, <1>4, ApprovalsWritten
<1>6. Approvals!Submit
  BY <1>1, <1>2, <1>5, ApprovalRows DEF Approvals!Submit, OthersSubmit
<1>7. Approvals!RecordsNext
  BY <1>6 DEF Approvals!RecordsNext
<1> QED
  BY <1>5, <1>7, RecordsGoOn

LEMMA VerdictKeeps == ASSUME DeskTypeOK, IInv, NEW o \in Ops, Verdict(o) PROVE DeskTypeOK' /\ IInv'
<1>0. /\ ops[o].act = "decide" /\ ops[o].at = "command" /\ Standing(ops[o]) /\ (ops[o].heard => Watched(ops[o]))
      /\ RowsInv /\ db.rows \in [Rows -> RowStatuses]
  BY DEF DeskTypeOK, IInv, OpsInv, Verdict, At, Databases
<1>1. PICK row \in Rows, verdict \in {"approved", "closed"} : row = ops[o].row /\ verdict = ops[o].verdict
  BY <1>0 DEF Standing
<1>2. panel = "approvals" /\ db.rows[row] # "none" /\ (ops[o].heard => tab.asked = row)
  BY <1>0, <1>1 DEF Standing, Watched
<1>3. PICK problem : problem = IF OwnerNow(o) THEN VerdictProblem(row, verdict) ELSE "decision_failed"
  OBVIOUS
<1>4. IF problem # None THEN Raises(o, problem)
      ELSE Writes(o, [db EXCEPT !.rows[row] = verdict, !.given = Approvals!GivenBy(row, verdict)])
  BY <1>1, <1>3, Zenon DEF Verdict
<1>5. {"decision_failed", "approval_is_not_pending", "strategy_not_approved"} \subseteq Sayings
  BY DEF Sayings
<1>6. CASE problem # None
  <2>1. /\ problem \in Sayings
        /\ problem = "approval_is_not_pending" => db.rows[row] # "pending"
        /\ problem = "strategy_not_approved" => row # Strategy /\ db.rows[Strategy] # "approved"
    <3>1. CASE ~ OwnerNow(o)
      BY <1>3, <1>5, <3>1
    <3>2. CASE OwnerNow(o) /\ db.rows[row] # "pending"
      BY <1>3, <1>5, <3>2 DEF VerdictProblem
    <3>3. CASE OwnerNow(o) /\ db.rows[row] = "pending"
      BY <1>3, <1>5, <1>6, <3>3 DEF VerdictProblem
    <3> QED
      BY <3>1, <3>2, <3>3
  <2>2. problem = "approval_is_not_pending" => Decided(row)
    BY <1>0, <1>2, <2>1 DEF Decided, RowStatuses
  <2>3. problem = "strategy_not_approved" => db.rows[Strategy] = "closed"
    BY <1>0, <1>2, <2>1 DEF Decided, RowsInv
  <2> QED
    BY <1>2, <1>4, <1>6, <2>1, <2>2, <2>3, TellsTheTruth
<1>7. CASE problem = None
  <2>1. db.rows[row] = "pending" /\ (verdict = "approved" /\ row # Strategy => db.rows[Strategy] = "approved")
    BY <1>3, <1>5, <1>7, TenantDeskAssumption DEF VerdictProblem
  <2>2. Approvals!MayBecome(row, verdict)
    BY <1>0, <2>1, ApprovalRows DEF Approvals!MayBecome, RowsInv
  <2>3. PICK new : new = [db EXCEPT !.rows[row] = verdict, !.given = Approvals!GivenBy(row, verdict)]
    OBVIOUS
  <2>4. Writes(o, new) /\ db' = new
    BY <1>4, <1>7, <2>3, Zenon DEF Writes
  <2>5. /\ DbGoesOn /\ db' \in Databases /\ RowsInv'
        /\ db'.role = db.role /\ db'.active = db.active
        /\ db'.rows[row] = verdict
    BY <2>2, <2>3, <2>4, RowDecided
  <2>6. new \in Databases /\ new.role = db.role /\ new.active = db.active
        /\ new.rows[ops[o].row] \in {"approved", "closed"}
    BY <1>1, <2>4, <2>5
  <2> QED
    BY <1>0, <2>4, <2>5, <2>6, WritesKeep DEF Posts
<1> QED
  BY <1>6, <1>7

\* A package opens its row and closes those that were pending.
LEMMA PackageWrites ==
  ASSUME DeskTypeOK, IInv, NEW o \in Ops, Package(o), MemberNow, db.rows[Strategy] = "approved"
  PROVE  \E new : /\ Writes(o, new) /\ db' = new /\ new \in Databases /\ Approvals!RecordsNext
                  /\ DbGoesOn /\ RowsInv' /\ new.role = db.role /\ new.active = db.active
<1>1. PICK post \in Rows \ {Strategy} :
        /\ db.rows[post] = "none"
        /\ Writes(o, [db EXCEPT !.rows = [r \in Rows |->
             IF r = post THEN "pending"
             ELSE IF r # Strategy /\ @[r] = "pending" THEN "closed" ELSE @[r]]])
  BY DEF Package
<1>2. PICK superseded \in SUBSET (Rows \ {Strategy}) :
        superseded = {r \in Rows \ {Strategy} : db.rows[r] = "pending"}
  OBVIOUS
<1>3. [r \in Rows |-> IF r = post THEN "pending"
                      ELSE IF r # Strategy /\ db.rows[r] = "pending" THEN "closed" ELSE db.rows[r]]
      = Approvals!Prepared(post, superseded)
  BY <1>2, ApprovalRows DEF Approvals!Prepared
<1>4. PICK new : new = [db EXCEPT !.rows = Approvals!Prepared(post, superseded)]
  OBVIOUS
<1>5. Writes(o, new) /\ db' = new
  BY <1>1, <1>3, <1>4 DEF Writes, DeskTypeOK, Databases
<1>6. Approvals!MayOpen(post)
  BY <1>1 DEF Approvals!MayOpen, IInv, RowsInv
<1>7. /\ DbGoesOn /\ db' \in Databases /\ RowsInv' /\ Approvals!RecordsNext
      /\ db'.role = db.role /\ db'.active = db.active
  BY <1>2, <1>4, <1>5, <1>6, PostPrepared
<1> QED
  BY <1>5, <1>7

LEMMA PackageKeeps == ASSUME DeskTypeOK, IInv, NEW o \in Ops, Package(o) PROVE DeskTypeOK' /\ IInv'
<1>0. ops[o].act = "package" /\ ops[o].at = "command" /\ Standing(ops[o])
  BY DEF IInv, OpsInv, Package, At
<1>1. {"package_failed", "strategy_not_approved"} \subseteq Sayings
      /\ "package_failed" # "strategy_not_approved" /\ "package_failed" # "approval_is_not_pending"
      /\ "strategy_not_approved" # "approval_is_not_pending"
  BY DEF Sayings
<1>2. panel = "prepare"
  BY <1>0 DEF Standing
<1>3. CASE ~ MemberNow
  BY <1>1, <1>2, <1>3, TellsTheTruth DEF Package
<1>4. CASE MemberNow /\ db.rows[Strategy] # "approved"
  BY <1>1, <1>2, <1>4, TellsTheTruth DEF Package
<1>5. CASE MemberNow /\ db.rows[Strategy] = "approved"
  BY <1>0, <1>5, PackageWrites, WritesKeep DEF Posts
<1> QED
  BY <1>3, <1>4, <1>5

LEMMA LimitSet ==
  ASSUME DeskTypeOK, IInv, db' = [db EXCEPT !.limit = @ + 1]
  PROVE  DbGoesOn /\ db' \in Databases /\ RowsInv' /\ db'.role = db.role /\ db'.active = db.active
<1>1. db \in Databases /\ db.limit \in Nat
  BY DEF DeskTypeOK, Databases
<1>2. /\ db' \in Databases /\ db'.rows = db.rows /\ db'.role = db.role /\ db'.active = db.active
      /\ db'.limit = db.limit + 1 /\ db'.trail = db.trail
  BY <1>1 DEF Databases
<1>3. DbGoesOn
  BY <1>1, <1>2 DEF DbGoesOn, Decided
<1>4. RowsInv'
  BY <1>2 DEF IInv, RowsInv, Decided
<1> QED
  BY <1>2, <1>3, <1>4

LEMMA LimitKeeps == ASSUME DeskTypeOK, IInv, NEW o \in Ops, Limit(o) PROVE DeskTypeOK' /\ IInv'
<1>0. ops[o].act = "limit" /\ ops[o].at = "command"
  BY DEF Limit, At
<1>1. CASE OwnerNow(o)
  <2>1. PICK new : new = [db EXCEPT !.limit = @ + 1]
    OBVIOUS
  <2>2. Writes(o, new) /\ db' = [db EXCEPT !.limit = @ + 1] /\ db' = new
    BY <1>1, <2>1 DEF Limit, Writes
  <2>3. DbGoesOn /\ new \in Databases /\ RowsInv' /\ new.role = db.role /\ new.active = db.active
    BY <2>2, LimitSet
  <2> QED
    BY <1>0, <2>2, <2>3, WritesKeep DEF Posts
<1>2. CASE ~ OwnerNow(o)
  <2>1. "allowance_failed" \in Sayings /\ "allowance_failed" # "approval_is_not_pending"
        /\ "allowance_failed" # "strategy_not_approved"
    BY DEF Sayings
  <2> QED
    BY <1>2, <2>1, TellsTheTruth DEF Limit
<1> QED
  BY <1>1, <1>2

-----------------------------------------------------------------------------
(* Loading.                                                                *)
LEMMA AnsweredKeeps == ASSUME DeskTypeOK, IInv, NEW o \in Ops, Answered(o) PROVE DeskTypeOK' /\ IInv'
<1>0. /\ ops[o] \in Requests /\ ops[o].at = "answer" /\ ops[o].heard /\ ops[o].act \in Posts
      /\ Standing(ops[o]) /\ Watched(ops[o]) /\ tab \in Tabs /\ TabInv /\ UNCHANGED <<panel, session, db>>
      /\ session' \in Tokens /\ db.limit \in Nat
  BY DEF DeskTypeOK, IInv, OpsInv, Answered, Standing, Databases
<1>1. CASE ops[o].act = "package"
  <2>1. "awaiting-approval" \in Plainly
    BY PlainNames
  <2>2. Plain(Told("awaiting-approval"))
    BY <2>1, PlainTold
  <2>3. tab' = Told("awaiting-approval") /\ End(o)
    BY <1>1 DEF Answered
  <2> QED
    BY <1>0, <2>2, <2>3, Ends DEF Heard
<1>2. CASE ops[o].act # "package"
  <2>1. PICK acted : acted = IF ops[o].act = "decide" THEN ops[o].row ELSE db.limit
    OBVIOUS
  <2>2. tab' = [tab EXCEPT !.acted = acted] /\ SetOp(o, Request("load", "read"))
    BY <1>2, <2>1 DEF Answered
  <2>3. /\ panel = "approvals" => acted \in Rows /\ Decided(acted)
        /\ panel # "approvals" => panel = "usage" /\ acted \in Nat /\ db.limit >= acted
        /\ panel \in {"approvals", "usage"}
    <3>1. CASE ops[o].act = "decide"
      BY <1>0, <2>1, <3>1 DEF Standing
    <3>2. CASE ops[o].act = "limit"
      BY <1>0, <2>1, <3>2 DEF Standing
    <3> QED
      BY <1>0, <1>2, <3>1, <3>2 DEF Posts
  <2>4. acted \in NatOrNone
    BY <2>3 DEF Rows, NatOrNone, Strategy
  <2>5. /\ tab' \in Tabs /\ tab'.view = "desk" /\ tab'.busy /\ tab'.said = tab.said /\ tab'.asked = tab.asked
        /\ tab'.shown = tab.shown /\ tab'.acted = acted /\ tab'.outside = tab.outside
    BY <1>0, <2>2, <2>4 DEF Tabs, Watched
  <2>6. TabInv'
    BY <1>0, <2>3, <2>5 DEF TabInv, Decided, Good
  <2>7. PICK r : r = Request("load", "read")
    OBVIOUS
  <2>8. r \in Requests /\ r.act = "load" /\ r.at = "read" /\ r.heard /\ SetOp(o, r)
    BY <2>2, <2>7, Names, RequestFields
  <2>9. Standing(r)' /\ Watched(r)'
    BY <1>0, <2>3, <2>5, <2>8 DEF Standing, Watched, Posts, Loading
  <2> QED
    BY <1>0, <2>5, <2>6, <2>8, <2>9, DbKept, Frame
<1> QED
  BY <1>1, <1>2

LEMMA ShowKeeps == ASSUME DeskTypeOK, IInv, NEW o \in Ops, Show(o) PROVE DeskTypeOK' /\ IInv'
<1>0. /\ ops[o] \in Requests /\ ops[o].at = "show" /\ ops[o].heard /\ ops[o].act = "load"
      /\ Standing(ops[o]) /\ Watched(ops[o]) /\ tab \in Tabs /\ TabInv /\ UNCHANGED <<panel, session, db>>
      /\ session' \in Tokens
  BY DEF DeskTypeOK, IInv, OpsInv, Show, Standing, Loading, Posts
<1>1. tab' = [tab EXCEPT !.busy = FALSE, !.shown = ops[o].got] /\ SetOp(o, NoOp)
  BY DEF Show, End
<1>2. ops[o].got \in Answers /\ Good(ops[o].got) /\ Recent(ops[o].got)
  BY <1>0 DEF Requests, Watched
<1>3. /\ tab' \in Tabs /\ tab'.view = tab.view /\ ~ tab'.busy /\ tab'.said = tab.said /\ tab'.asked = tab.asked
      /\ tab'.shown = ops[o].got /\ tab'.acted = tab.acted /\ tab'.outside = tab.outside
  BY <1>0, <1>1, <1>2 DEF Tabs
<1>4. TabInv'
  BY <1>0, <1>2, <1>3 DEF TabInv, Decided, Good, Recent, MemberNow
<1>5. Standing(NoOp)' /\ ~ NoOp.heard
  BY DEF NoOp, Standing, Posts, Loading
<1> QED
  BY <1>0, <1>1, <1>3, <1>4, <1>5, NoOpTyped, DbKept, Frame

LEMMA ReadKeeps == ASSUME DeskTypeOK, IInv, NEW o \in Ops, Read(o) PROVE DeskTypeOK' /\ IInv'
<1>0. /\ ops[o] \in Requests /\ ops[o].at = "read" /\ ops[o].heard /\ ops[o].act = "load"
      /\ Standing(ops[o]) /\ Watched(ops[o]) /\ tab \in Tabs /\ TabInv /\ UNCHANGED <<panel, session, db>>
      /\ session' \in Tokens /\ panel \in Panels /\ panel # "prepare"
  BY DEF DeskTypeOK, IInv, OpsInv, Read, Standing, Loading, Posts
<1>1. CASE ops[o].token = "none" \/ (panel # "audit" /\ db.role = "none")
  <2>1. "failed" \in Plainly
    BY PlainNames
  <2>2. Plain(Told("failed"))
    BY <2>1, PlainTold
  <2>3. tab' = Told("failed") /\ End(o)
    BY <1>1 DEF Read
  <2> QED
    BY <1>0, <2>2, <2>3, Ends DEF Heard
<1>2. CASE ~ (ops[o].token = "none" \/ (panel # "audit" /\ db.role = "none"))
  <2>1. PICK got : got = Reads(o)
    OBVIOUS
  <2>2. PICK r : r = [ops[o] EXCEPT !.at = "show", !.got = got]
    OBVIOUS
  <2>3. SetOp(o, r) /\ tab' = tab
    BY <1>2, <2>1, <2>2 DEF Read
  <2>4. got \in Answers /\ Good(got) /\ Recent(got)
    <3>0. db \in Databases /\ db.rows \in [Rows -> RowStatuses] /\ db.limit \in Nat /\ db.trail \in BOOLEAN
      BY DEF DeskTypeOK, Databases
    <3>1. PICK owner \in BOOLEAN : owner = (db.role = "owner")
      OBVIOUS
    <3>2. CASE panel = "approvals"
      <4>1. got = [rows |-> db.rows, owner |-> owner]
        BY <2>1, <3>1, <3>2, Zenon DEF Reads
      <4> QED
        BY <1>0, <3>0, <3>2, <4>1 DEF Answers, Good, Recent, TabInv, Decided
    <3>3. CASE panel = "usage"
      <4>1. got = [limit |-> db.limit, owner |-> owner]
        BY <2>1, <3>1, <3>3 DEF Reads
      <4> QED
        BY <1>0, <3>0, <3>3, <4>1 DEF Answers, Good, Recent, TabInv
    <3>4. CASE panel = "audit"
      <4>1. PICK trail \in BOOLEAN : trail <=> (db.trail /\ MemberNow)
        OBVIOUS
      <4>2. got = [trail |-> trail]
        BY <2>1, <3>4, <4>1 DEF Reads
      <4> QED
        BY <1>0, <3>0, <3>4, <4>1, <4>2 DEF Answers, Good, Recent, TabInv, Watched
    <3> QED
      BY <1>0, <3>2, <3>3, <3>4 DEF Panels
  <2>5. /\ r \in Requests /\ r.act = "load" /\ r.at = "show" /\ r.heard /\ r.got = got
    BY <1>0, <2>2, <2>4, Names DEF Requests
  <2>6. Standing(r) /\ Watched(r)
    BY <1>0, <2>4, <2>5 DEF Standing, Watched, Posts, Loading
  <2>7. DbGoesOn /\ TabGoesOn
    BY <1>0, <2>3, DbKept DEF TabGoesOn
  <2>8. Standing(r)' /\ Watched(r)'
    BY <1>0, <2>6, <2>7, StandingKept, WatchedKept
  <2>9. Plain(tab)
    BY DEF Plain
  <2>10. TabInv'
    BY <1>0, <2>3, <2>9, PlainTab
  <2> QED
    BY <1>0, <2>3, <2>5, <2>8, <2>10, DbKept, Frame
<1> QED
  BY <1>1, <1>2

-----------------------------------------------------------------------------
(* Everybody else, and what is refused before it is sent.                  *)
\* A step beside the requests.
LEMMA IdleFrame ==
  ASSUME DeskTypeOK, IInv, ops' = ops, panel' = panel, session' \in Tokens, tab' \in Tabs, db' \in Databases,
         DbGoesOn, RowsInv', TabInv', TabGoesOn \/ Quiet
  PROVE  DeskTypeOK' /\ IInv'
<1>1. \A o, p \in Ops : ops[o].heard /\ ops[p].heard => o = p
  BY DEF IInv, OpsInv
<1>2. ASSUME NEW o \in Ops PROVE Standing(ops[o])' /\ (ops'[o].heard => Watched(ops[o])')
  <2>1. PICK r : r = ops[o]
    OBVIOUS
  <2>2. Standing(r) /\ (r.heard => Watched(r))
    BY <2>1 DEF IInv, OpsInv
  <2>3. Standing(r)'
    BY <2>2, StandingKept
  <2>4. r.heard => Watched(r)'
    BY <2>1, <2>2, WatchedKept DEF Quiet
  <2> QED
    BY <2>1, <2>3, <2>4 DEF Standing, Watched
<1>3. OpsInv'
  BY <1>1, <1>2 DEF OpsInv
<1> QED
  BY <1>3 DEF DeskTypeOK, IInv

LEMMA ReadersKeep ==
  ASSUME DeskTypeOK, IInv, (\E role \in Roles : SetMember(role)) \/ SetTenant
  PROVE  DeskTypeOK' /\ IInv'
<1>0. /\ db \in Databases /\ db.rows \in [Rows -> RowStatuses] /\ db.limit \in Nat /\ tab \in Tabs /\ TabInv
      /\ session' \in Tokens /\ ops' = ops /\ UNCHANGED <<panel, session>>
  BY DEF DeskTypeOK, IInv, Databases, SetMember, SetTenant, Elsewhere
<1>1. ASSUME NEW role \in Roles, NEW active \in BOOLEAN, NEW out \in BOOLEAN,
             db' = [db EXCEPT !.role = role, !.active = active], tab' = [tab EXCEPT !.outside = out],
             tab.outside => out,
             panel = "audit" => out \/ (role # "none" /\ active)
                                \/ ~ (MemberNow \/ tab.outside)
      PROVE  DeskTypeOK' /\ IInv'
  <2>1. /\ db' \in Databases /\ db'.rows = db.rows /\ db'.limit = db.limit /\ db'.trail = db.trail
        /\ db'.given = db.given
        /\ db'.role = role /\ db'.active = active
    BY <1>0, <1>1 DEF Databases
  <2>2. tab' \in Tabs /\ TabGoesOn /\ tab'.outside = out
    BY <1>0, <1>1 DEF Tabs, TabGoesOn
  <2>3. DbGoesOn
    BY <1>0, <2>1 DEF DbGoesOn, Decided
  <2>4. RowsInv'
    BY <2>1 DEF IInv, RowsInv, Decided
  <2>5. panel = "audit" /\ (MemberNow \/ tab.outside) => MemberNow' \/ tab'.outside
    BY <1>1, <2>1, <2>2 DEF MemberNow
  <2>6. TabInv'
    BY <1>0, <2>1, <2>2, <2>3, <2>5, TabKept
  <2> QED
    BY <1>0, <2>1, <2>2, <2>3, <2>4, <2>6, IdleFrame
<1>2. ASSUME NEW role \in Roles, SetMember(role) PROVE DeskTypeOK' /\ IInv'
  <2>1. PICK out \in BOOLEAN : out = (tab.outside \/ (panel = "audit" /\ role = "none"))
    OBVIOUS
  <2>2. tab' = [tab EXCEPT !.outside = out]
    BY <1>2, <2>1, Zenon DEF SetMember
  <2>3. db' = [db EXCEPT !.role = role, !.active = db.active] /\ db.active \in BOOLEAN
    BY <1>0, <1>2 DEF SetMember, Databases
  <2>4. out <=> (tab.outside \/ (panel = "audit" /\ role = "none"))
    BY <2>1, Zenon
  <2>5. /\ tab.outside => out
        /\ panel = "audit" => out \/ (role # "none" /\ db.active) \/ ~ (MemberNow \/ tab.outside)
    BY <2>4, Zenon DEF MemberNow
  <2> QED
    BY <1>1, <2>2, <2>3, <2>5, Zenon
<1>3. ASSUME SetTenant PROVE DeskTypeOK' /\ IInv'
  <2>1. PICK out \in BOOLEAN : out = (tab.outside \/ (panel = "audit" /\ db.active))
    OBVIOUS
  <2>2. tab' = [tab EXCEPT !.outside = out]
    BY <1>3, <2>1, Zenon DEF SetTenant
  <2>3. PICK active \in BOOLEAN : active = ~ db.active
    OBVIOUS
  <2>4. db' = [db EXCEPT !.active = active]
    BY <1>3, <2>3, Zenon DEF SetTenant
  <2>5. db' = [db EXCEPT !.role = db.role, !.active = active] /\ db.role \in Roles
    BY <1>0, <2>4 DEF Databases
  <2>6. out <=> (tab.outside \/ (panel = "audit" /\ db.active))
    BY <2>1, Zenon
  <2>7. /\ tab.outside => out
        /\ panel = "audit" => out \/ (db.role # "none" /\ active) \/ ~ (MemberNow \/ tab.outside)
    BY <2>6, Zenon DEF MemberNow
  <2> QED
    BY <1>1, <2>2, <2>5, <2>7, Zenon
<1> QED
  BY <1>2, <1>3

LEMMA OthersKeep ==
  ASSUME DeskTypeOK, IInv,
         \/ \E row \in Rows : \E status \in {"approved", "closed"} : OthersDecide(row, status)
         \/ OthersSubmit
         \/ \E post \in Approvals!Posts : \E superseded \in SUBSET Approvals!Posts : OthersPrepare(post, superseded)
         \/ OthersLimit
  PROVE  DeskTypeOK' /\ IInv'
<1>0. session' \in Tokens /\ ops' = ops /\ UNCHANGED <<panel, session, tab>> /\ tab' \in Tabs
  BY DEF DeskTypeOK, OthersSubmit, OthersDecide, OthersPrepare, OthersLimit, Elsewhere
<1>2. DbGoesOn /\ db' \in Databases /\ RowsInv' /\ db'.role = db.role /\ db'.active = db.active
  <2>1. ASSUME NEW row \in Rows, NEW status \in {"approved", "closed"}, OthersDecide(row, status)
        PROVE  DbGoesOn /\ db' \in Databases /\ RowsInv' /\ db'.role = db.role /\ db'.active = db.active
    BY <2>1, RowDecided DEF OthersDecide
  <2>2. ASSUME NEW post \in Approvals!Posts, NEW superseded \in SUBSET Approvals!Posts, OthersPrepare(post, superseded)
        PROVE  DbGoesOn /\ db' \in Databases /\ RowsInv' /\ db'.role = db.role /\ db'.active = db.active
    BY <2>2, ApprovalRows, PostPrepared DEF OthersPrepare
  <2>3. CASE OthersLimit
    BY <2>3, LimitSet DEF OthersLimit
  <2> QED
    BY <2>1, <2>2, <2>3, StrategySubmitted
<1>3. TabGoesOn /\ (MemberNow => MemberNow')
  BY <1>0, <1>2 DEF TabGoesOn, MemberNow
<1>4. TabInv'
  BY <1>0, <1>2, <1>3, TabKept
<1> QED
  BY <1>0, <1>2, <1>3, <1>4, IdleFrame

LEMMA RestKeeps ==
  ASSUME DeskTypeOK, IInv, BadLimit \/ SessionEnds \/ UNCHANGED vars
  PROVE  DeskTypeOK' /\ IInv'
<1>0. UNCHANGED <<panel, db, ops>> /\ session' \in Tokens
  BY Names DEF DeskTypeOK, BadLimit, SessionEnds, vars
<1>1. CASE BadLimit
  <2>1. "invalid_limit" \in Plainly
    BY PlainNames
  <2>2. Plain(tab')
    BY <1>1, <2>1, PlainTold DEF BadLimit
  <2>3. Quiet
    BY <1>1, AtRestQuiet DEF BadLimit
  <2> QED
    BY <1>0, <2>2, <2>3, PlainTab, DbKept, IdleFrame
<1>2. CASE SessionEnds \/ UNCHANGED vars
  <2>1. tab' = tab
    BY <1>2 DEF SessionEnds, vars
  <2>2. Plain(tab)
    BY DEF Plain
  <2>3. TabInv' /\ tab' \in Tabs
    BY <1>0, <2>1, <2>2, PlainTab
  <2> QED
    BY <1>0, <2>1, <2>3, DbKept, IdleFrame DEF TabGoesOn
<1> QED
  BY <1>1, <1>2

-----------------------------------------------------------------------------
\* The invariant holds at first and is kept by every step.
LEMMA InitInv == Init => DeskTypeOK /\ IInv
<1> SUFFICES ASSUME Init PROVE DeskTypeOK /\ IInv
  OBVIOUS
<1>1. tab = Screen("auth", None) /\ panel \in Panels /\ session = "none" /\ ops = [o \in Ops |-> NoOp]
  BY DEF Init
<1>2. /\ tab \in Tabs /\ tab.view = "auth" /\ tab.said = None /\ tab.shown = None /\ tab.acted = None
  BY <1>1, Names, ScreenFields
<1>3. db \in Databases /\ ~ db.given /\ \A r \in Rows : db.rows[r] = "none"
  BY DEF Init, Databases, RowStatuses, Roles
<1>4. ops \in [Ops -> Requests] /\ \A o \in Ops : ops[o] = NoOp
  BY <1>1, NoOpTyped
<1>5. Standing(NoOp) /\ ~ NoOp.heard
  BY DEF NoOp, Standing, Posts, Loading
<1>6. DeskTypeOK
  BY <1>1, <1>2, <1>3, <1>4, Names DEF DeskTypeOK
<1>7. OpsInv
  BY <1>4, <1>5 DEF OpsInv
<1>8. TabInv
  <2>1. tab.said # "approval_is_not_pending" /\ tab.said # "strategy_not_approved"
    BY <1>2, PlainNames
  <2> QED
    BY <1>2, <2>1 DEF TabInv, Recent
<1> QED
  BY <1>3, <1>6, <1>7, <1>8, ApprovalRows DEF IInv, RowsInv

LEMMA StepInv == DeskTypeOK /\ IInv /\ [Next]_vars => DeskTypeOK' /\ IInv'
<1> SUFFICES ASSUME DeskTypeOK, IInv, [Next]_vars PROVE DeskTypeOK' /\ IInv'
  OBVIOUS
<1>1. ASSUME NEW o \in Ops, Serve(o) PROVE DeskTypeOK' /\ IInv'
  BY <1>1, SessionsKeep, GateKeeps, MemberKeeps, TenantKeeps, VerdictKeeps, PackageKeeps, LimitKeeps,
     AnsweredKeeps, ReadKeeps, ShowKeeps DEF Serve
<1>2. ASSUME NEW o \in Ops, Use(o) PROVE DeskTypeOK' /\ IInv'
  BY <1>2, BeginsKeep, LeavesKeep, PanelKeeps, Zenon DEF Use
<1>3. CASE Others
  <2>1. CASE \E role \in {"owner", "operator", "none"} : SetMember(role)
    BY <2>1, ReadersKeep DEF Roles
  <2> QED
    BY <1>3, <2>1, ReadersKeep, OthersKeep, RestKeeps, Zenon DEF Others
<1> QED
  BY <1>1, <1>2, <1>3, FailsKeep, RestKeeps, Zenon DEF Next

\* The inductive invariant of the page, its requests and the tables.
THEOREM DeskInvariance == Spec => [](DeskTypeOK /\ IInv)
BY InitInv, StepInv, PTL DEF Spec

\* Session, screen, requests and tables keep their types.
THEOREM DeskTypes == Spec => []DeskTypeOK
BY DeskInvariance, PTL

\* A panel at rest that reports no error shows what was done in it: a row
\* decided here is not offered, a limit set here is not shown as before
\* (ApprovalsPanel, UsagePanel and their reload after a post).
THEOREM RestedPanelShowsItsActsHolds == Spec => []RestedPanelShowsItsActs
<1>1. IInv => RestedPanelShowsItsActs
  BY DEF IInv, TabInv, Recent, RestedPanelShowsItsActs
<1> QED
  BY <1>1, DeskInvariance, PTL

\* What a panel says of a row, of the strategy and of the trail is so,
\* whatever other members, the session and the network do meanwhile.
THEOREM WhatIsSaidIsTrueHolds == Spec => []WhatIsSaidIsTrue
<1>1. DeskTypeOK /\ IInv => WhatIsSaidIsTrue
  <2> SUFFICES ASSUME DeskTypeOK, IInv PROVE WhatIsSaidIsTrue
    OBVIOUS
  <2>1. TabInv /\ db.trail \in BOOLEAN
    BY DEF DeskTypeOK, IInv, Databases
  <2>2. panel = "audit" /\ tab.shown # None => tab.shown.trail = db.trail \/ tab.outside
    BY <2>1 DEF TabInv, Good
  <2> QED
    BY <2>1, <2>2 DEF TabInv, Decided, WhatIsSaidIsTrue
<1> QED
  BY <1>1, DeskInvariance, PTL

\* The steps of the desk that change the tables: those of its own commands.
LEMMA OwnWrites ==
  ASSUME DeskTypeOK, IInv, [Next]_vars, ~ Others, db' # db
  PROVE  \E o \in Ops : Verdict(o) \/ Package(o) \/ Limit(o)
<1>1. ~ UNCHANGED vars /\ ~ BadLimit
  BY Zenon DEF vars, BadLimit
<1>2. PICK o \in Ops : Serve(o) \/ RequestFails(o) \/ Use(o)
  BY <1>1, Zenon DEF Next
<1>3. ~ RequestFails(o)
  BY Zenon DEF RequestFails
<1>4. ~ Use(o)
  BY Zenon DEF Use, SignIn, Callback, SignOut, Challenge, Open, Decide, Prepare, SetLimit, Start
<1>5. ~ (Exchanged(o) \/ SignedIn(o) \/ Challenged(o) \/ Answered(o) \/ Read(o) \/ Show(o))
  BY Zenon DEF Exchanged, SignedIn, Challenged, Answered, Read, Show
<1>6. ~ (Gate(o) \/ Identity(o) \/ Member(o) \/ Assurance(o))
  BY DEF Gate, Identity, Member, Assurance, Looked, Refused
<1>7. ~ Tenant(o)
  BY DEF Tenant, Refused
<1> QED
  BY <1>2, <1>3, <1>4, <1>5, <1>6, <1>7, Zenon DEF Serve

LEMMA VerdictIsShown ==
  ASSUME DeskTypeOK, IInv, NEW o \in Ops, Verdict(o), db' # db PROVE Approvals!RecordsNext
<1>1. ops[o].act = "decide" /\ Standing(ops[o]) /\ RowsInv
  BY DEF IInv, OpsInv, Verdict, At
<1>2. PICK row \in Rows, verdict \in {"approved", "closed"} : row = ops[o].row /\ verdict = ops[o].verdict
  BY <1>1 DEF Standing
<1>3. PICK problem : problem = IF OwnerNow(o) THEN VerdictProblem(row, verdict) ELSE "decision_failed"
  OBVIOUS
<1>4. IF problem # None THEN Raises(o, problem)
      ELSE Writes(o, [db EXCEPT !.rows[row] = verdict, !.given = Approvals!GivenBy(row, verdict)])
  BY <1>2, <1>3, Zenon DEF Verdict
<1>5. problem = None
  BY <1>4, Zenon DEF Raises
<1>6. db' = [db EXCEPT !.rows[row] = verdict, !.given = Approvals!GivenBy(row, verdict)]
  BY <1>4, <1>5, Zenon DEF Writes
<1>7. {"decision_failed", "approval_is_not_pending", "strategy_not_approved"} \subseteq Sayings
  BY DEF Sayings
<1>8. db.rows[row] = "pending" /\ (verdict = "approved" /\ row # Strategy => db.rows[Strategy] = "approved")
  BY <1>3, <1>5, <1>7, TenantDeskAssumption DEF VerdictProblem
<1>9. Approvals!MayBecome(row, verdict)
  BY <1>1, <1>8, ApprovalRows DEF Approvals!MayBecome, RowsInv
<1> QED
  BY <1>6, <1>9, RowDecided

LEMMA StepIsShown ==
  ASSUME DeskTypeOK, IInv, [Next]_vars PROVE [Approvals!RecordsNext]_<<db.rows, db.given>>
<1>1. CASE db' = db
  BY <1>1
<1>2. CASE ~ Others /\ db' # db
  <2>1. PICK o \in Ops : Verdict(o) \/ Package(o) \/ Limit(o)
    BY <1>2, OwnWrites
  <2>2. CASE Verdict(o)
    BY <1>2, <2>2, VerdictIsShown
  <2>3. CASE Package(o)
    BY <1>2, <2>3, PackageWrites DEF Package, Raises
  <2>4. CASE Limit(o)
    BY <2>4 DEF Limit, Raises, Writes, DeskTypeOK, Databases
  <2> QED
    BY <2>1, <2>2, <2>3, <2>4
<1>3. CASE Others
  <2>1. ASSUME NEW row \in Rows, NEW status \in {"approved", "closed"}, OthersDecide(row, status)
        PROVE  Approvals!RecordsNext
    BY <2>1, RowDecided DEF OthersDecide
  <2>2. ASSUME NEW post \in Approvals!Posts, NEW superseded \in SUBSET Approvals!Posts, OthersPrepare(post, superseded)
        PROVE  Approvals!RecordsNext
    BY <2>2, ApprovalRows, PostPrepared DEF OthersPrepare
  <2>3. ASSUME (\E role \in {"owner", "operator", "none"} : SetMember(role)) \/ SetTenant \/ OthersLimit \/ SessionEnds
        PROVE  db'.rows = db.rows /\ db'.given = db.given
    BY <2>3 DEF SetMember, SetTenant, OthersLimit, SessionEnds, DeskTypeOK, Databases
  <2> QED
    BY <1>3, <2>1, <2>2, <2>3, StrategySubmitted DEF Others
<1> QED
  BY <1>1, <1>2, <1>3

(* The desk, with everybody else, changes the approvals one step of        *)
(* ApprovalRecords at a time, the steps the commands of ApprovalGate are   *)
(* shown to make: what it is proved to say holds over what they do.        *)
THEOREM DeskKeepsTheRecords == Spec => DeskKeepsTheApprovals
<1>1. Init => Approvals!RecordsInit
  BY ApprovalRows DEF Init, Approvals!RecordsInit
<1>2. DeskTypeOK /\ IInv /\ [Next]_vars => [Approvals!RecordsNext]_<<db.rows, db.given>>
  BY StepIsShown
<1> QED
  BY <1>1, <1>2, DeskInvariance, PTL DEF Spec, DeskKeepsTheApprovals, Approvals!RecordsSpec

\* Only a command records for this tab, and it has looked at the caller in
\* the statement that writes.
LEMMA RecordedByRight ==
  DeskTypeOK /\ IInv /\ [Next]_vars =>
    (ops' # ops /\ db' # db => \E o \in Ops : ops[o].at = "command" /\ ops'[o] # ops[o] /\ Records(o))
<1> SUFFICES ASSUME DeskTypeOK, IInv, [Next]_vars, ops' # ops, db' # db
             PROVE  \E o \in Ops : ops[o].at = "command" /\ ops'[o] # ops[o] /\ Records(o)
  OBVIOUS
<1>1. PICK o \in Ops : Verdict(o) \/ Package(o) \/ Limit(o)
  <2>1. ~ Others
    BY Zenon DEF Others, SetMember, SetTenant, OthersSubmit, OthersDecide, OthersPrepare, OthersLimit, SessionEnds,
                 Elsewhere
  <2> QED
    BY <2>1, OwnWrites
<1>2. PICK new : Writes(o, new)
  BY <1>1 DEF Verdict, Package, Limit, Raises
<1>3. ops[o].at = "command" /\ ops[o].act \in {"decide", "package", "limit"}
  BY <1>1 DEF Verdict, Package, Limit, At
<1>4. ops'[o] # ops[o]
  <2>1. CASE ops[o].heard
    <3>1. PICK r : r = [ops[o] EXCEPT !.at = "answer"]
      OBVIOUS
    <3>2. r.at = "answer" /\ SetOp(o, r)
      BY <1>2, <2>1, <3>1, Names, GotoFields DEF Writes, Goto
    <3> QED
      BY <1>3, <3>2, SetOpFields
  <2>2. CASE ~ ops[o].heard
    <3>1. SetOp(o, NoOp) /\ NoOp.at = "free"
      BY <1>2, <2>2 DEF Writes, End, NoOp
    <3> QED
      BY <1>3, <3>1, SetOpFields
  <2> QED
    BY <2>1, <2>2
<1>5. Records(o)
  <2>1. CASE Verdict(o)
    <3>1. "decision_failed" # None
      BY TenantDeskAssumption DEF Sayings
    <3> QED
      BY <2>1, <3>1 DEF Verdict, At, Records, Raises
  <2>2. CASE Package(o)
    BY <2>2 DEF Package, At, Records, Raises
  <2>3. CASE Limit(o)
    BY <2>3 DEF Limit, At, Records, Raises
  <2> QED
    BY <1>1, <2>1, <2>2, <2>3
<1> QED
  BY <1>3, <1>4, <1>5

\* Nothing is recorded on the word of a preflight: at the moment of the write
\* the caller may do it.
THEOREM PreflightIsNotTrustedHolds == Spec => PreflightIsNotTrusted
BY RecordedByRight, DeskInvariance, PTL DEF Spec, PreflightIsNotTrusted

-----------------------------------------------------------------------------
(* The tenant row and its owners.                                          *)
\* Only the holder of the tenant row has writes, and is not overtaken; a
\* snapshot no commit has overtaken is still the database.
OnlyHolderWrites(s) == tx[s] # NoTx /\ holder # s => tx[s].wrote = NoWrites
HolderIsOpen(s) == holder = s => tx[s] # NoTx
FreshIsCurrent(s) ==
  tx[s] # NoTx /\ tx[s].snapshot # NoSnapshot /\ s \notin stale => tx[s].snapshot = committed
HolderIsFresh(s) == holder = s /\ tx[s].snapshot # NoSnapshot => s \notin stale

SessionInv(s) ==
  /\ OnlyHolderWrites(s)
  /\ HolderIsOpen(s)
  /\ FreshIsCurrent(s)
  /\ HolderIsFresh(s)

OwnerInv == TypeOK /\ ActiveTenantHasOwner /\ \A s \in Sessions : SessionInv(s)

\* Laying typed writes over a typed row gives a typed row.
LEMMA OverlayType ==
  ASSUME NEW base \in Committed, NEW wrote \in RowWrites
  PROVE  Overlay(base, wrote) \in Committed
BY DEF Overlay, Committed, RowWrites, Unwritten, Statuses, Standings

\* A transaction that has written sees the database with its rows on top.
LEMMA HolderSeesDatabase ==
  ASSUME OwnerInv, NEW s \in Sessions, holder = s
  PROVE  Base(s) = committed
BY DEF OwnerInv, SessionInv, HolderIsOpen, FreshIsCurrent, HolderIsFresh, Base

LEMMA OwnerInit == ASSUME MembershipInit PROVE OwnerInv
<1>1. TypeOK
  BY DEF MembershipInit, TypeOK, Committed, Statuses, Standings
<1>2. ActiveTenantHasOwner
  BY DEF MembershipInit, ActiveTenantHasOwner, OwnerKept
<1>3. ASSUME NEW s \in Sessions PROVE SessionInv(s)
  BY MembershipAssumption DEF MembershipInit, SessionInv, OnlyHolderWrites, HolderIsOpen,
         FreshIsCurrent, HolderIsFresh
<1> QED BY <1>1, <1>2, <1>3 DEF OwnerInv

\* Begin: the new transaction has a snapshot of now, or none, and no writes.
LEMMA BeginKeeps ==
  ASSUME OwnerInv, NEW s \in Sessions, Begin(s)
  PROVE  OwnerInv'
<1> PICK snapshot \in {committed, NoSnapshot} :
      tx' = [tx EXCEPT ![s] = [snapshot |-> snapshot, wrote |-> NoWrites]]
  BY DEF Begin
<1> DEFINE new == [snapshot |-> snapshot, wrote |-> NoWrites]
<1>1. new \in Tx /\ new # NoTx
  <2>1. NoWrites \in RowWrites
    BY DEF NoWrites, RowWrites
  <2> QED BY <2>1, MembershipAssumption DEF Tx, OwnerInv, TypeOK
<1>2. /\ UNCHANGED <<committed, holder>> /\ stale' = stale \ {s} /\ tx[s] = NoTx
      /\ tx'[s] = new /\ \A o \in Sessions \ {s} : tx'[o] = tx[o]
  BY DEF Begin, OwnerInv, TypeOK
<1>3. TypeOK'
  BY <1>1, <1>2 DEF OwnerInv, TypeOK
<1>4. ActiveTenantHasOwner'
  BY <1>2 DEF OwnerInv, ActiveTenantHasOwner, OwnerKept
<1>5. SessionInv(s)'
  BY <1>1, <1>2 DEF OwnerInv, SessionInv, OnlyHolderWrites, HolderIsOpen, FreshIsCurrent, HolderIsFresh
<1>6. ASSUME NEW o \in Sessions \ {s} PROVE SessionInv(o)'
  BY <1>2 DEF OwnerInv, SessionInv, OnlyHolderWrites, HolderIsOpen, FreshIsCurrent, HolderIsFresh
<1> QED BY <1>3, <1>4, <1>5, <1>6 DEF OwnerInv

\* A write of any row by a transaction that holds, or now takes, the tenant row.
LEMMA WriteKeeps ==
  ASSUME OwnerInv, NEW s \in Sessions, tx[s] # NoTx, TakeTenantRow(s),
         NEW wrote \in RowWrites,
         tx' = [tx EXCEPT ![s] = [snapshot |-> tx[s].snapshot, wrote |-> wrote]],
         UNCHANGED <<committed, stale>>
  PROVE  OwnerInv'
<1> DEFINE new == [snapshot |-> tx[s].snapshot, wrote |-> wrote]
<1>1. tx[s] \in Tx /\ new \in Tx /\ new # NoTx
  BY MembershipAssumption DEF Tx, OwnerInv, TypeOK
<1>2. /\ tx'[s] = new /\ \A o \in Sessions \ {s} : tx'[o] = tx[o]
      /\ holder \in {Nobody, s} /\ holder' = s
      /\ tx[s].snapshot # NoSnapshot => s \notin stale
  BY DEF OwnerInv, TypeOK, TakeTenantRow
<1>3. TypeOK'
  BY <1>1, <1>2 DEF OwnerInv, TypeOK
<1>4. ActiveTenantHasOwner'
  BY DEF OwnerInv, ActiveTenantHasOwner, OwnerKept
<1>5. SessionInv(s)'
  BY <1>1, <1>2 DEF OwnerInv, SessionInv, OnlyHolderWrites, HolderIsOpen, FreshIsCurrent, HolderIsFresh
<1>6. ASSUME NEW o \in Sessions \ {s} PROVE SessionInv(o)'
  <2>1. holder # o /\ holder' # o
    BY <1>2, MembershipAssumption
  <2> QED BY <1>2, <2>1 DEF OwnerInv, SessionInv, OnlyHolderWrites, HolderIsOpen, FreshIsCurrent, HolderIsFresh
<1> QED BY <1>3, <1>4, <1>5, <1>6 DEF OwnerInv

LEMMA WriteMemberKeeps ==
  ASSUME OwnerInv, NEW s \in Sessions, NEW u \in Users,
         NEW standing \in Standings, WriteMember(s, u, standing)
  PROVE  OwnerInv'
<1> DEFINE wrote == [tx[s].wrote EXCEPT !.member[u] = standing]
<1>1. tx[s] \in Tx
  BY DEF OwnerInv, TypeOK, WriteMember
<1>2. wrote \in RowWrites
  BY <1>1 DEF Tx, RowWrites
<1>3. tx' = [tx EXCEPT ![s] = [snapshot |-> tx[s].snapshot, wrote |-> wrote]]
  <2>1. tx' = [tx EXCEPT ![s] = [tx[s] EXCEPT !.wrote.member[u] = standing]]
    BY DEF WriteMember, OwnerInv, TypeOK
  <2>2. [tx[s] EXCEPT !.wrote.member[u] = standing] = [snapshot |-> tx[s].snapshot, wrote |-> wrote]
    BY <1>1 DEF Tx
  <2> QED BY <2>1, <2>2
<1> QED BY <1>2, <1>3, WriteKeeps DEF WriteMember

LEMMA WriteStatusKeeps ==
  ASSUME OwnerInv, NEW s \in Sessions,
         NEW status \in Statuses, WriteStatus(s, status)
  PROVE  OwnerInv'
<1> DEFINE wrote == [tx[s].wrote EXCEPT !.status = status]
<1>1. tx[s] \in Tx
  BY DEF OwnerInv, TypeOK, WriteStatus
<1>2. wrote \in RowWrites
  BY <1>1 DEF Tx, RowWrites
<1>3. tx' = [tx EXCEPT ![s] = [snapshot |-> tx[s].snapshot, wrote |-> wrote]]
  <2>1. tx' = [tx EXCEPT ![s] = [tx[s] EXCEPT !.wrote.status = status]]
    BY DEF WriteStatus, OwnerInv, TypeOK
  <2>2. [tx[s] EXCEPT !.wrote.status = status] = [snapshot |-> tx[s].snapshot, wrote |-> wrote]
    BY <1>1 DEF Tx
  <2> QED BY <2>1, <2>2
<1> QED BY <1>2, <1>3, WriteKeeps DEF WriteStatus

LEMMA RollbackKeeps ==
  ASSUME OwnerInv, NEW s \in Sessions, Rollback(s)
  PROVE  OwnerInv'
<1>1. /\ committed' = committed /\ stale' = stale \ {s} /\ holder' = IF holder = s THEN Nobody ELSE holder
      /\ tx'[s] = NoTx /\ \A o \in Sessions \ {s} : tx'[o] = tx[o]
  BY DEF Rollback, OwnerInv, TypeOK
<1>2. TypeOK'
  BY <1>1 DEF Rollback, OwnerInv, TypeOK
<1>3. ActiveTenantHasOwner'
  BY <1>1 DEF OwnerInv, ActiveTenantHasOwner, OwnerKept
<1>4. ASSUME NEW o \in Sessions PROVE SessionInv(o)'
  BY <1>1, MembershipAssumption DEF OwnerInv, SessionInv, OnlyHolderWrites, HolderIsOpen, FreshIsCurrent,
              HolderIsFresh
<1> QED BY <1>2, <1>3, <1>4 DEF OwnerInv

\* Commit: the view that was checked is the database it leaves behind.
LEMMA CommitKeeps ==
  ASSUME OwnerInv, NEW s \in Sessions, Commit(s)
  PROVE  OwnerInv'
<1>1. /\ committed' = Overlay(committed, tx[s].wrote) /\ holder = s /\ holder' = Nobody
      /\ stale' = {o \in Sessions \ {s} : tx[o] # NoTx}
      /\ tx'[s] = NoTx /\ \A o \in Sessions \ {s} : tx'[o] = tx[o]
  BY DEF Commit, OwnerInv, TypeOK
<1>2. tx[s] \in Tx /\ committed \in Committed
  BY DEF Commit, OwnerInv, TypeOK
<1>3. committed' \in Committed
  BY <1>1, <1>2, OverlayType DEF Tx
<1>4. TypeOK'
  BY <1>1, <1>3 DEF Commit, OwnerInv, TypeOK
<1>5. View(s) = committed'
  BY <1>1, HolderSeesDatabase DEF View
<1>6. ActiveTenantHasOwner'
  BY <1>5 DEF Commit, ActiveTenantHasOwner, OwnerKept
<1>7. ASSUME NEW o \in Sessions PROVE SessionInv(o)'
  BY <1>1, MembershipAssumption DEF OwnerInv, SessionInv, OnlyHolderWrites, HolderIsOpen, FreshIsCurrent,
              HolderIsFresh
<1> QED BY <1>4, <1>6, <1>7 DEF OwnerInv

LEMMA OwnerNext ==
  ASSUME OwnerInv, [MembershipNext]_membershipVars
  PROVE  OwnerInv'
<1>1. CASE UNCHANGED membershipVars
  BY <1>1 DEF membershipVars, OwnerInv, TypeOK, ActiveTenantHasOwner, OwnerKept, SessionInv,
              OnlyHolderWrites,
              HolderIsOpen, FreshIsCurrent, HolderIsFresh
<1>2. CASE MembershipNext
  BY <1>2, BeginKeeps, WriteMemberKeeps, WriteStatusKeeps, RollbackKeeps, CommitKeeps DEF MembershipNext
<1> QED BY <1>1, <1>2

\* The inductive invariant of the tenant row and its writers.
THEOREM OwnerInvariance ==
  MembershipSpec => []OwnerInv
<1>1. MembershipInit => OwnerInv
  BY OwnerInit
<1>2. OwnerInv /\ [MembershipNext]_membershipVars => OwnerInv'
  BY OwnerNext
<1> QED BY <1>1, <1>2, PTL DEF MembershipSpec

\* Rows, transactions and the lock keep their types.
THEOREM MembershipTypes ==
  MembershipSpec => []TypeOK
<1>1. OwnerInv => TypeOK
  BY DEF OwnerInv
<1> QED BY <1>1, OwnerInvariance, PTL

\* However many transactions change memberships and the tenant's status at
\* once, at either isolation level, a tenant in use has an active owner.
THEOREM LastOwnerStays ==
  MembershipSpec => []ActiveTenantHasOwner
<1>1. OwnerInv => ActiveTenantHasOwner
  BY DEF OwnerInv
<1> QED BY <1>1, OwnerInvariance, PTL

\* A transaction with writes is alone with them and decides on what is
\* committed now: no repeatable-read writer works from an old snapshot.
THEOREM NoStaleWriters ==
  MembershipSpec => []WritersAreCurrent
<1>1. OwnerInv => WritersAreCurrent
  BY HolderSeesDatabase DEF OwnerInv, SessionInv, OnlyHolderWrites, WritersAreCurrent
<1> QED BY <1>1, OwnerInvariance, PTL

-----------------------------------------------------------------------------
(* The shell around the pages.                                             *)
Pairs == [lang : Languages, theme : Themes]
Phases == {"closed", "getLang", "getTheme", "setLang", "setTheme", "ready"}
ShellTypeOK ==
  /\ win \in [Windows -> [phase : Phases, shows : Pairs, read : Pairs]]
  /\ stored \in [lang : Languages \cup {"none"}, theme : Themes \cup {"none"}]
  /\ blocked \in BOOLEAN /\ undisturbed \in BOOLEAN
  /\ chosen \in Pairs
  /\ fresh \subseteq Windows

\* What a shell knows of the last choice once it has read a key.
Knows(w) ==
  LET s == win[w] IN
    /\ s.phase = "getTheme" => s.read.lang = chosen.lang
    /\ Writing(w) => s.read = chosen
    /\ s.phase = "ready" /\ w \in fresh => s.shows = chosen
\* A shell that will still write the language it has read, or that was chosen
\* in it; every writing shell has the theme before it.
WillWriteLang(w) == win[w].phase = "setLang" \/ (win[w].phase = "setTheme" /\ win[w].shows # win[w].read)
\* The store has the last choice, or a shell at work will still write it.
Kept ==
  /\ StoredPair.lang = chosen.lang \/ \E w \in Windows : WillWriteLang(w)
  /\ StoredPair.theme = chosen.theme \/ \E w \in Windows : Writing(w)
ShellInv ==
  /\ \A w \in Windows : win[w].phase = "ready" => win[w].read = win[w].shows
  /\ undisturbed /\ ~ blocked => Kept /\ \A w \in Windows : Knows(w)

LEMMA StoredPairFacts == ShellTypeOK => StoredPair \in Pairs
BY DEF ShellTypeOK, StoredPair, Value, Default, Pairs, Languages, Themes

LEMMA ShellStarts == ShellInit => ShellTypeOK /\ ShellInv
<1> SUFFICES ASSUME ShellInit PROVE ShellTypeOK /\ ShellInv
  OBVIOUS
<1>1. Closed \in [phase : Phases, shows : Pairs, read : Pairs]
  BY DEF Closed, Default, Phases, Pairs, Languages, Themes
<1>2. StoredPair \in Pairs
  BY DEF ShellInit, StoredPair, Value, Default, Pairs, Languages, Themes
<1> QED
  BY <1>1, <1>2 DEF ShellInit, ShellTypeOK, ShellInv, Knows, Kept, Writing, Closed, Languages, Themes

\* A step of one window leaves the others as they are.
LEMMA OneMoves ==
  ASSUME ShellTypeOK, NEW w \in Windows, NEW s \in [phase : Phases, shows : Pairs, read : Pairs],
         win' = [win EXCEPT ![w] = s]
  PROVE  /\ win' \in [Windows -> [phase : Phases, shows : Pairs, read : Pairs]]
         /\ win'[w] = s /\ \A v \in Windows \ {w} : win'[v] = win[v]
BY DEF ShellTypeOK

\* A shell that was not writing is replaced by one that is not at work yet.
LEMMA DocumentLeft ==
  ASSUME ShellTypeOK, ShellInv, NEW w \in Windows, Load(w) \/ Close(w)
  PROVE  ShellTypeOK' /\ ShellInv'
<1> DEFINE s == IF Load(w) THEN [Closed EXCEPT !.phase = "getLang"] ELSE Closed
<1>1. s \in [phase : Phases, shows : Pairs, read : Pairs] /\ s.phase \in {"closed", "getLang"}
  BY DEF Closed, Default, Phases, Pairs, Languages, Themes
<1>2. win' = [win EXCEPT ![w] = s]
  BY DEF Load, Close
<1>3. /\ win' \in [Windows -> [phase : Phases, shows : Pairs, read : Pairs]]
      /\ win'[w] = s /\ \A v \in Windows \ {w} : win'[v] = win[v]
  BY <1>1, <1>2, OneMoves
<1>4. /\ UNCHANGED <<stored, blocked, chosen>> /\ fresh' \in {fresh, fresh \cup {w}}
      /\ undisturbed' = (undisturbed /\ ~ Writing(w))
  BY DEF Load, Close
<1>5. ShellTypeOK'
  BY <1>3, <1>4 DEF ShellTypeOK
<1>6. \A v \in Windows : win'[v].phase = "ready" => win'[v].read = win'[v].shows
  BY <1>1, <1>3 DEF ShellInv
<1>7. ASSUME undisturbed', ~ blocked' PROVE Kept' /\ \A v \in Windows : Knows(v)'
  <2>1. undisturbed /\ ~ blocked /\ ~ Writing(w) /\ ~ WillWriteLang(w)
    BY <1>4, <1>7 DEF Writing, WillWriteLang
  <2>2. \A v \in Windows : (Writing(v) => Writing(v)') /\ (WillWriteLang(v) => WillWriteLang(v)')
    BY <1>3, <2>1 DEF Writing, WillWriteLang
  <2>3. Kept'
    BY <1>4, <2>1, <2>2 DEF ShellInv, Kept, StoredPair
  <2>4. Knows(w)'
    BY <1>1, <1>3 DEF Knows, Writing
  <2>5. \A v \in Windows \ {w} : Knows(v)'
    BY <1>3, <1>4, <2>1 DEF ShellInv, Knows, Writing
  <2> QED
    BY <2>3, <2>4, <2>5
<1> QED
  BY <1>5, <1>6, <1>7 DEF ShellInv

\* The two reading steps: while nobody writes, the store has the last choice.
LEMMA ReadShell ==
  ASSUME ShellTypeOK, ShellInv, NEW w \in Windows, GetLang(w) \/ GetTheme(w)
  PROVE  ShellTypeOK' /\ ShellInv'
<1> DEFINE s == win[w]
           lang == IF blocked THEN Default.lang ELSE StoredPair.lang
           theme == IF blocked THEN Default.theme ELSE StoredPair.theme
           got == IF s.phase = "getLang" THEN [s EXCEPT !.phase = "getTheme", !.read.lang = lang]
                  ELSE [s EXCEPT !.phase = "setLang", !.read.theme = theme]
<1>1. s \in [phase : Phases, shows : Pairs, read : Pairs] /\ s.phase \in {"getLang", "getTheme"}
  BY DEF ShellTypeOK, GetLang, GetTheme
<1>2. lang \in Languages /\ theme \in Themes
  BY StoredPairFacts DEF Default, Pairs, Languages, Themes
<1>3. win' = [win EXCEPT ![w] = got]
  BY <1>1 DEF GetLang, GetTheme, ShellTypeOK
<1>4. /\ got \in [phase : Phases, shows : Pairs, read : Pairs] /\ got.phase # "ready"
      /\ s.phase = "getLang" => got.phase = "getTheme" /\ got.read.lang = lang
      /\ s.phase = "getTheme" => got.phase = "setLang" /\ got.read = [lang |-> s.read.lang, theme |-> theme]
  BY <1>1, <1>2 DEF Phases, Pairs
<1>5. /\ win' \in [Windows -> [phase : Phases, shows : Pairs, read : Pairs]]
      /\ win'[w] = got /\ \A v \in Windows \ {w} : win'[v] = win[v]
  BY <1>3, <1>4, OneMoves
<1>6. /\ UNCHANGED <<stored, blocked, chosen, fresh>>
      /\ undisturbed' = (undisturbed /\ \A v \in Windows \ {w} : ~ Writing(v))
  BY DEF GetLang, GetTheme, NotWhileWritten
<1>7. ShellTypeOK'
  BY <1>5, <1>6 DEF ShellTypeOK
<1>8. \A v \in Windows : win'[v].phase = "ready" => win'[v].read = win'[v].shows
  <2> HIDE DEF got
  <2>1. \A v \in Windows \ {w} : win'[v].phase = "ready" => win'[v].read = win'[v].shows
    BY <1>5 DEF ShellInv
  <2> QED
    BY <1>4, <1>5, <2>1
<1>9. ASSUME undisturbed', ~ blocked' PROVE Kept' /\ \A v \in Windows : Knows(v)'
  <2>1. undisturbed /\ ~ blocked /\ \A v \in Windows : ~ Writing(v) /\ ~ WillWriteLang(v)
    BY <1>1, <1>6, <1>9 DEF Writing, WillWriteLang
  <2>2. StoredPair.lang = chosen.lang /\ StoredPair.theme = chosen.theme
    BY <2>1 DEF ShellInv, Kept
  <2>3. Kept'
    BY <1>6, <2>2 DEF Kept, StoredPair
  <2>4. chosen \in Pairs
    BY DEF ShellTypeOK
  <2>5. Knows(w)'
    <3>1. CASE s.phase = "getLang"
      BY <1>4, <1>5, <1>6, <2>1, <2>2, <3>1 DEF Knows, Writing
    <3>2. CASE s.phase = "getTheme"
      <4>1. got.phase = "setLang" /\ got.read.lang = chosen.lang /\ got.read.theme = chosen.theme
        BY <1>4, <2>1, <2>2, <3>2 DEF ShellInv, Knows
      <4>2. got.read = chosen
        BY <1>4, <2>4, <4>1 DEF Pairs
      <4> QED
        BY <1>5, <1>6, <4>1, <4>2 DEF Knows, Writing
    <3> QED
      BY <1>1, <3>1, <3>2
  <2>6. \A v \in Windows \ {w} : Knows(v)'
    BY <1>5, <1>6, <2>1 DEF ShellInv, Knows, Writing
  <2> QED
    BY <2>3, <2>5, <2>6
<1> QED
  BY <1>7, <1>8, <1>9 DEF ShellInv

\* The two writing steps: a shell that writes its defaults writes once more,
\* what it has read; the last of several to write does so with both keys.
LEMMA WriteShell ==
  ASSUME ShellTypeOK, ShellInv, NEW w \in Windows, SetLang(w) \/ SetTheme(w)
  PROVE  ShellTypeOK' /\ ShellInv'
<1> DEFINE s == win[w]
           done == IF s.phase = "setLang" THEN [s EXCEPT !.phase = "setTheme"]
                   ELSE [s EXCEPT !.phase = IF s.read = s.shows THEN "ready" ELSE "setLang", !.shows = s.read]
<1>1. s \in [phase : Phases, shows : Pairs, read : Pairs] /\ s.phase \in {"setLang", "setTheme"}
  BY DEF ShellTypeOK, SetLang, SetTheme
<1>2. win' = [win EXCEPT ![w] = done]
  BY <1>1 DEF SetLang, SetTheme, Phase, ShellTypeOK
<1>3. /\ done \in [phase : Phases, shows : Pairs, read : Pairs] /\ done.read = s.read
      /\ s.phase = "setLang" => done.phase = "setTheme" /\ done.shows = s.shows
      /\ s.phase = "setTheme" => /\ done.phase = IF s.read = s.shows THEN "ready" ELSE "setLang"
                                 /\ done.shows = s.read
  BY <1>1 DEF Phases
<1>4. /\ win' \in [Windows -> [phase : Phases, shows : Pairs, read : Pairs]]
      /\ win'[w] = done /\ \A v \in Windows \ {w} : win'[v] = win[v]
  BY <1>2, <1>3, OneMoves
<1>5. UNCHANGED <<blocked, chosen, fresh, undisturbed>>
  BY DEF SetLang, SetTheme
<1>6. s.shows \in Pairs /\ stored \in [lang : Languages \cup {"none"}, theme : Themes \cup {"none"}]
  BY <1>1 DEF ShellTypeOK
<1>7. /\ stored' \in [lang : Languages \cup {"none"}, theme : Themes \cup {"none"}]
      /\ ~ blocked /\ s.phase = "setLang" => stored' = [stored EXCEPT !.lang = s.shows.lang]
      /\ ~ blocked /\ s.phase = "setTheme" => stored' = [stored EXCEPT !.theme = s.shows.theme]
  BY <1>6 DEF SetLang, SetTheme, Pairs
<1>8. ShellTypeOK'
  BY <1>4, <1>5, <1>7 DEF ShellTypeOK
<1>9. \A v \in Windows : win'[v].phase = "ready" => win'[v].read = win'[v].shows
  <2> HIDE DEF done
  <2>1. \A v \in Windows \ {w} : win'[v].phase = "ready" => win'[v].read = win'[v].shows
    BY <1>4 DEF ShellInv
  <2>2. win'[w].phase = "ready" => win'[w].read = win'[w].shows
    BY <1>1, <1>3, <1>4
  <2> QED
    BY <2>1, <2>2
<1>10. ASSUME undisturbed', ~ blocked' PROVE Kept' /\ \A v \in Windows : Knows(v)'
  <2>1. undisturbed /\ ~ blocked /\ Kept /\ s.read = chosen
    BY <1>1, <1>5, <1>10 DEF ShellInv, Knows, Writing
  <2>2. \A v \in Windows \ {w} : (Writing(v)' <=> Writing(v)) /\ (WillWriteLang(v)' <=> WillWriteLang(v))
    BY <1>4 DEF Writing, WillWriteLang
  <2>3. s.phase = "setLang" => StoredPair'.lang = s.shows.lang /\ StoredPair'.theme = StoredPair.theme
    BY <1>6, <1>7, <2>1 DEF StoredPair, Value, Pairs, Languages, Themes
  <2>4. s.phase = "setTheme" => StoredPair'.theme = s.shows.theme /\ StoredPair'.lang = StoredPair.lang
    BY <1>6, <1>7, <2>1 DEF StoredPair, Value, Pairs, Languages, Themes
  <2>5. s.shows # s.read => WillWriteLang(w)' /\ Writing(w)'
    BY <1>1, <1>3, <1>4 DEF Writing, WillWriteLang
  <2>6. \A v \in Windows \ {w} : Knows(v)'
    <3> HIDE DEF done
    <3> QED
      BY <1>4, <1>5, <2>1 DEF ShellInv, Knows, Writing
  <2>7. CASE s.phase = "setLang"
    <3>1. Writing(w)'
      BY <1>3, <1>4, <2>7 DEF Writing
    <3>2. StoredPair'.lang = chosen'.lang \/ WillWriteLang(w)'
      BY <1>5, <2>1, <2>3, <2>5, <2>7
    <3>3. Kept'
      BY <3>1, <3>2 DEF Kept
    <3>4. Knows(w)'
      BY <1>3, <1>4, <1>5, <2>1, <2>7 DEF Knows, Writing
    <3> QED
      BY <2>6, <3>3, <3>4
  <2>8. CASE s.phase = "setTheme"
    <3>1. StoredPair'.theme = chosen'.theme \/ Writing(w)'
      BY <1>5, <2>1, <2>4, <2>5, <2>8
    <3>2. StoredPair'.lang = chosen'.lang \/ \E v \in Windows : WillWriteLang(v)'
      <4>1. CASE s.shows # s.read
        BY <2>5, <4>1
      <4>2. CASE s.shows = s.read
        <5>1. ~ WillWriteLang(w)
          BY <2>8, <4>2 DEF WillWriteLang
        <5> QED
          BY <1>5, <2>1, <2>2, <2>4, <2>8, <5>1 DEF Kept
      <4> QED
        BY <4>1, <4>2
    <3>3. Kept'
      BY <3>1, <3>2 DEF Kept
    <3>4. Knows(w)'
      BY <1>3, <1>4, <1>5, <2>1, <2>8 DEF Knows, Writing
    <3> QED
      BY <2>6, <3>3, <3>4
  <2> QED
    BY <1>1, <2>7, <2>8
<1> QED
  BY <1>8, <1>9, <1>10 DEF ShellInv

LEMMA ChooseShell ==
  ASSUME ShellTypeOK, ShellInv, NEW w \in Windows, ChooseLanguage(w) \/ ToggleTheme(w)
  PROVE  ShellTypeOK' /\ ShellInv'
<1>1. PICK key, value : Choose(w, key, value) /\ \/ key = "lang" /\ value \in Languages
                                                 \/ key = "theme" /\ value \in Themes
  BY DEF ChooseLanguage, ToggleTheme
<1> DEFINE s == win[w]
           now == [s EXCEPT !.phase = "setLang", !.shows[key] = value, !.read[key] = value]
<1>2. /\ s \in [phase : Phases, shows : Pairs, read : Pairs] /\ s.phase = "ready"
      /\ s.read = s.shows
  BY <1>1 DEF ShellTypeOK, ShellInv, Choose
<1>3. /\ now \in [phase : Phases, shows : Pairs, read : Pairs] /\ now.phase = "setLang"
      /\ now.read = now.shows
  <2>1. CASE key = "lang" /\ value \in Languages
    <3>1. now = [s EXCEPT !.phase = "setLang", !.shows.lang = value, !.read.lang = value]
      BY <2>1
    <3> QED
      BY <1>2, <2>1, <3>1 DEF Phases, Pairs
  <2>2. CASE key = "theme" /\ value \in Themes
    <3>1. now = [s EXCEPT !.phase = "setLang", !.shows.theme = value, !.read.theme = value]
      BY <2>2
    <3> QED
      BY <1>2, <2>2, <3>1 DEF Phases, Pairs
  <2> QED
    BY <1>1, <2>1, <2>2
<1>4. win' = [win EXCEPT ![w] = now]
  BY <1>1, <1>2 DEF Choose, ShellTypeOK
<1>5. /\ win' \in [Windows -> [phase : Phases, shows : Pairs, read : Pairs]]
      /\ win'[w] = now /\ \A v \in Windows \ {w} : win'[v] = win[v]
  BY <1>3, <1>4, OneMoves
<1>6. /\ UNCHANGED <<stored, blocked>> /\ chosen' = now.shows
      /\ fresh' = {w} \cup {v \in Windows : win[v].phase = "getLang"}
      /\ undisturbed' = \A v \in Windows \ {w} : Settled(v) \/ win[v].phase = "getLang"
  BY <1>1, <1>5 DEF Choose
<1>7. ShellTypeOK'
  BY <1>3, <1>5, <1>6 DEF ShellTypeOK
<1>8. \A v \in Windows : win'[v].phase = "ready" => win'[v].read = win'[v].shows
  BY <1>3, <1>5 DEF ShellInv
<1>9. ASSUME undisturbed', ~ blocked' PROVE Kept' /\ \A v \in Windows : Knows(v)'
  <2>1. Writing(w)' /\ WillWriteLang(w)'
    BY <1>3, <1>5 DEF Writing, WillWriteLang
  <2>2. Kept'
    BY <2>1 DEF Kept
  <2>3. Knows(w)'
    BY <1>3, <1>5, <1>6 DEF Knows, Writing
  <2>4. ASSUME NEW v \in Windows \ {w} PROVE Knows(v)'
    <3>1. win'[v] = win[v] /\ win[v].phase \in {"closed", "ready", "getLang"}
      BY <1>5, <1>6, <1>9 DEF Settled
    <3>2. win[v].phase = "ready" => v \notin fresh'
      BY <1>6
    <3> QED
      BY <3>1, <3>2 DEF Knows, Writing
  <2> QED
    BY <2>2, <2>3, <2>4
<1> QED
  BY <1>7, <1>8, <1>9 DEF ShellInv

LEMMA ShellStep == ShellTypeOK /\ ShellInv /\ [ShellNext]_shellVars => ShellTypeOK' /\ ShellInv'
<1> SUFFICES ASSUME ShellTypeOK, ShellInv, [ShellNext]_shellVars PROVE ShellTypeOK' /\ ShellInv'
  OBVIOUS
<1>1. CASE UNCHANGED shellVars
  BY <1>1 DEF shellVars, ShellTypeOK, ShellInv, Kept, Knows, WillWriteLang, Writing, StoredPair
<1>2. CASE ShellNext
  BY <1>2, DocumentLeft, ReadShell, WriteShell, ChooseShell DEF ShellNext
<1> QED
  BY <1>1, <1>2

\* The inductive invariant of the shell, and the types it needs.
THEOREM ShellInvariance == ShellSpec => [](ShellTypeOK /\ ShellInv)
<1> QED
  BY ShellStarts, ShellStep, PTL DEF ShellSpec

\* In any number of windows: unless one has got in the way of the last choice
\* (see LastChoiceSurvives), it survives every page that follows.
THEOREM ChoiceSurvives == ShellSpec => []LastChoiceSurvives
<1>1. ShellTypeOK /\ ShellInv => LastChoiceSurvives
  <2> SUFFICES ASSUME ShellTypeOK, ShellInv, undisturbed, ~ blocked, \A w \in Windows : ~ Writing(w)
               PROVE  StoredPair = chosen
    BY DEF ShellTypeOK, ShellInv, Knows, LastChoiceSurvives
  <2>1. \A w \in Windows : ~ WillWriteLang(w)
    BY DEF Writing, WillWriteLang
  <2>2. StoredPair.lang = chosen.lang /\ StoredPair.theme = chosen.theme
    BY <2>1 DEF ShellInv, Kept
  <2>3. chosen \in Pairs /\ StoredPair \in Pairs
    BY StoredPairFacts DEF ShellTypeOK
  <2> QED
    BY <2>2, <2>3 DEF Pairs
<1> QED
  BY <1>1, ShellInvariance, PTL
=============================================================================
