------------------------------ MODULE TenantDesk ------------------------------
(***************************************************************************)
(* The tenant page, its panels, and the sessions it is opened with.        *)
(*                                                                         *)
(* A page is rendered after its reader has been looked up in several       *)
(* awaited statements; a panel then loads, posts and loads again; the      *)
(* route of every post looks the caller up once more, and the command it   *)
(* ends in once more than that.  Between any two of these statements the   *)
(* session may end, the membership or the tenant change, and other members *)
(* decide, prepare and set limits.  Any request may fail for its caller    *)
(* and still be carried out.                                               *)
(*                                                                         *)
(* One browser tab is followed, and in it one panel of the page: panels do *)
(* not speak with each other.  What others do to a table this panel never  *)
(* reads is left out.  The rows of the approvals table name immutable      *)
(* revisions, so the digest a post carries always matches its row, and a   *)
(* package always stores the detail its row is judged by.  "closed" is a   *)
(* row that was rejected, or invalidated by a newer revision: it does not  *)
(* come back.                                                              *)
(***************************************************************************)
EXTENDS Integers, FiniteSets

CONSTANTS
  Ops,        \* requests that may be under way at once
  MaxPosts,   \* bound: finished-post packages
  MaxLimits,  \* bound: limits set
  None

\* What a page or a panel may say, when it says anything.
Sayings ==
  {"unavailable", "signed-out", "denied", "mfa-required", "not-available", "failed", "logout-failed",
   "not_authenticated", "owner_access_required", "tenant_access_required", "invalid_limit",
   "approval_is_not_pending", "strategy_not_approved", "decision_failed", "package_failed",
   "allowance_failed", "awaiting-approval"}
ASSUME TenantDeskAssumption == None \notin Sayings

VARIABLES
  panel,     \* the panel followed
  session,   \* assurance of the session in the cookie jar
  db,        \* membership, tenant, approvals, limit, whether there is a trail
  tab,       \* what is on the screen
  ops        \* the requests under way

vars == <<panel, session, db, tab, ops>>

Panels == {"approvals", "prepare", "usage", "audit"}
Strategy == 0
Rows == {Strategy} \cup 1 .. MaxPosts
\* The rows of the approvals, which more than this desk write.
Approvals == INSTANCE ApprovalRecords WITH rows <- db.rows, given <- db.given

NoOp == [act |-> "none", at |-> "free", heard |-> FALSE, pass |-> 1, token |-> "none",
         role |-> "none", row |-> None, verdict |-> None, got |-> None]
Screen(view, said) ==
  [view |-> view, said |-> said, busy |-> FALSE, asked |-> None,
   shown |-> None, acted |-> None, outside |-> FALSE]

Init ==
  /\ panel \in Panels
  /\ session = "none"
  /\ \E trail \in BOOLEAN :
       db = [role |-> "owner", active |-> TRUE, limit |-> 0, trail |-> trail,
             rows |-> [r \in Rows |-> "none"], given |-> FALSE]
  /\ tab = Screen("auth", None)
  /\ ops = [o \in Ops |-> NoOp]

-----------------------------------------------------------------------------
(* Requests.  One that changes something goes on when its caller leaves.   *)
Posts == {"decide", "package", "limit"}
Left == [o \in Ops |-> IF ops[o].act \in Posts /\ ops[o].at \notin {"answer", "read", "show"}
                       THEN [ops[o] EXCEPT !.heard = FALSE] ELSE NoOp]
FreeIn(os, o) == os[o].at = "free" /\ \A p \in Ops : p < o => os[p].at # "free"
Free(o) == FreeIn(ops, o)
Request(act, at) == [NoOp EXCEPT !.act = act, !.at = at, !.heard = TRUE, !.token = session]
SetOp(o, op) == ops' = [ops EXCEPT ![o] = op]
Goto(o, at) == SetOp(o, [ops[o] EXCEPT !.at = at])
End(o) == SetOp(o, NoOp)
Quiet == \A p \in Ops : ~ ops[p].heard
At(o, act, at) == ops[o].act \in act /\ ops[o].at = at
\* An answer changes the screen only while somebody waits for it.
Heard(o, screen) == tab' = IF ops[o].heard THEN screen ELSE tab
Told(said) == [tab EXCEPT !.busy = FALSE, !.said = said]

\* The network, the identity service, the database.
RequestFails(o) ==
  /\ ops[o].at # "free"
  /\ Heard(o, CASE ops[o].act = "open" -> Screen("refused", "unavailable")
                [] ops[o].act = "signin" -> Screen("auth", "failed")
                [] ops[o].act = "factor" -> tab
                [] OTHER -> Told("failed"))
  /\ End(o) \/ (ops[o].heard /\ SetOp(o, Left[o]))
  /\ UNCHANGED <<panel, session, db>>

-----------------------------------------------------------------------------
(* Signing in and out.                                                     *)
SignIn(o) ==
  /\ Free(o) /\ tab.view = "auth" /\ session = "none" /\ Quiet
  /\ SetOp(o, Request("signin", "password"))
  /\ UNCHANGED <<panel, session, db, tab>>
\* The link of a recovery mail may be opened at any time.
Callback(o) ==
  /\ FreeIn(Left, o)
  /\ ops' = [Left EXCEPT ![o] = Request("signin", "password")]
  /\ tab' = Screen("auth", None)
  /\ UNCHANGED <<panel, session, db>>

\* The password, or the code of the link: a new session, not yet looked at.
Exchanged(o) ==
  /\ At(o, {"signin"}, "password")
  /\ \/ /\ session' = "aal1"
        /\ Goto(o, "verify") /\ UNCHANGED tab
     \/ /\ tab' = Screen("auth", "failed")
        /\ End(o) /\ UNCHANGED session
  /\ UNCHANGED <<panel, db>>
\* The session that was just made must stand before an answer of the service.
\* The form may name a tenant page to go on to.
SignedIn(o) ==
  /\ At(o, {"signin"}, "verify")
  /\ IF session = "none" THEN tab' = Screen("auth", "failed") /\ End(o)
     ELSE \/ tab' = Screen("auth", None) /\ End(o)
          \/ SetOp(o, Request("open", "identity")) /\ UNCHANGED tab
  /\ UNCHANGED <<panel, session, db>>

SignOut(o) ==
  /\ FreeIn(Left, o)
  /\ \/ session' = "none" /\ tab' = Screen("auth", None)
     \/ session' \in {session, "none"} /\ tab' = Screen("auth", "logout-failed")
  /\ ops' = Left
  /\ UNCHANGED <<panel, db>>

\* The authenticator page, offered to an owner whose session lacks it.
Challenge(o) ==
  /\ Free(o) /\ tab.view = "refused" /\ tab.said = "mfa-required" /\ Quiet
  /\ SetOp(o, Request("factor", "identity"))
  /\ UNCHANGED <<panel, session, db, tab>>
Challenged(o) ==
  /\ At(o, {"factor"}, "identity")
  /\ IF session = "none" THEN tab' = Screen("auth", None) /\ End(o) /\ UNCHANGED session
     ELSE \/ session' = "aal2" /\ UNCHANGED tab
             /\ SetOp(o, [Request("open", "identity") EXCEPT !.token = "aal2"])
          \/ End(o) /\ UNCHANGED <<session, tab>>   \* a wrong code
  /\ UNCHANGED <<panel, db>>

-----------------------------------------------------------------------------
(* Who is asking: readTenantAccess and readResearchAuthorization, which    *)
(* differ in where the tenant comes from.  The page runs both, a post asks *)
(* for the identity and runs the first.                                    *)
OwnerRoute(o) == ops[o].act \in {"decide", "limit"}
Refused(o, status) ==
  /\ Heard(o, IF ops[o].act = "open"
              THEN IF status = "signed-out" /\ ops[o].pass = 1 THEN Screen("auth", None)
                   ELSE Screen("refused", IF ops[o].pass = 1 THEN status ELSE "not-available")
              ELSE Told(IF OwnerRoute(o) THEN "owner_access_required" ELSE "tenant_access_required"))
  /\ End(o)
  /\ UNCHANGED <<panel, session, db>>
Looked(o, at) == Goto(o, at) /\ UNCHANGED <<panel, session, db, tab>>

Gate(o) ==
  /\ At(o, Posts, "gate")
  /\ IF session # "none" /\ ops[o].token # "none" THEN Looked(o, "identity")
     ELSE Heard(o, Told("not_authenticated")) /\ End(o) /\ UNCHANGED <<panel, session, db>>
Identity(o) ==
  /\ ops[o].act # "factor" /\ ops[o].at = "identity"
  /\ IF session # "none" /\ ops[o].token # "none" THEN Looked(o, "member") ELSE Refused(o, "signed-out")
Member(o) ==
  /\ ops[o].at = "member"
  /\ IF db.role = "none" THEN Refused(o, "denied")
     ELSE /\ SetOp(o, [ops[o] EXCEPT !.role = db.role, !.at = IF db.role = "owner" THEN "assurance" ELSE "tenant"])
          /\ UNCHANGED <<panel, session, db, tab>>
Assurance(o) ==
  /\ ops[o].at = "assurance"
  /\ IF ops[o].token = "aal2" THEN Looked(o, "tenant") ELSE Refused(o, "mfa-required")
Tenant(o) ==
  /\ ops[o].at = "tenant"
  /\ IF ~ db.active \/ (OwnerRoute(o) /\ ops[o].role # "owner") THEN Refused(o, "denied")
     ELSE IF ops[o].act # "open"
     THEN SetOp(o, [ops[o] EXCEPT !.role = "none", !.at = "command"]) /\ UNCHANGED <<panel, session, db, tab>>
     ELSE IF ops[o].pass = 1
     THEN SetOp(o, [ops[o] EXCEPT !.pass = 2, !.at = "identity"]) /\ UNCHANGED <<panel, session, db, tab>>
     ELSE \* the page: its panels load as soon as they are mounted
          /\ tab' = [Screen("desk", None) EXCEPT !.outside = panel = "audit" /\ db.role = "none"]
          /\ IF panel = "prepare" THEN End(o) ELSE SetOp(o, Request("load", "read"))
          /\ UNCHANGED <<panel, session, db>>

Open(o) ==
  /\ FreeIn(Left, o)
  /\ ops' = [Left EXCEPT ![o] = Request("open", "identity")]
  /\ tab' = Screen("opening", None)
  /\ UNCHANGED <<panel, session, db>>

-----------------------------------------------------------------------------
(* The panels.                                                             *)
Start(o, op) ==
  /\ Free(o)
  /\ tab.view = "desk" /\ ~ tab.busy
  /\ tab' = [tab EXCEPT !.busy = TRUE, !.said = None, !.asked = op.row]
  /\ SetOp(o, op)
  /\ UNCHANGED <<panel, session, db>>

\* Offered to the owner on the rows that are shown as pending.
Decide(o, row, verdict) ==
  /\ panel = "approvals" /\ tab.shown # None
  /\ tab.shown.owner /\ tab.shown.rows[row] = "pending"
  /\ Start(o, [Request("decide", "gate") EXCEPT !.row = row, !.verdict = verdict])
\* The button is drawn beside a calendar, which was stored with its approval.
Prepare(o) ==
  /\ panel = "prepare" /\ db.rows[Strategy] # "none"
  /\ Start(o, Request("package", "gate"))
SetLimit(o) == panel = "usage" /\ tab.shown # None /\ tab.shown.owner /\ Start(o, Request("limit", "gate"))
\* Anything but a positive whole number is refused before it is sent.
BadLimit ==
  /\ panel = "usage" /\ tab.view = "desk" /\ ~ tab.busy
  /\ tab.shown # None /\ tab.shown.owner
  /\ tab' = Told("invalid_limit")
  /\ UNCHANGED <<panel, session, db, ops>>

-----------------------------------------------------------------------------
(* The commands look at the caller again, in the statement that writes.    *)
OwnerNow(o) == ops[o].token = "aal2" /\ db.role = "owner"
MemberNow == db.role # "none" /\ db.active

Raises(o, reason) == Heard(o, Told(reason)) /\ End(o) /\ UNCHANGED <<panel, session, db>>
Writes(o, new) ==
  /\ db' = new
  /\ IF ops[o].heard THEN Goto(o, "answer") ELSE End(o)
  /\ UNCHANGED <<panel, session, tab>>

\* mutant: the reason is told from the state code, which the refusals share.
ProblemByStateCode(row, verdict) ==
  IF db.rows[row] # "pending" \/ (verdict = "approved" /\ row # Strategy /\ db.rows[Strategy] # "approved")
  THEN "strategy_not_approved"
  ELSE None
\* Why a verdict on a row is refused, by the reason the route makes of it.
VerdictProblem(row, verdict) ==
  IF db.rows[row] # "pending" THEN "approval_is_not_pending"
  ELSE IF verdict = "approved" /\ row # Strategy /\ db.rows[Strategy] # "approved" THEN "strategy_not_approved"
  ELSE None
Verdict(o) ==
  /\ At(o, {"decide"}, "command")
  /\ LET row == ops[o].row
         problem == IF OwnerNow(o) THEN VerdictProblem(row, ops[o].verdict) ELSE "decision_failed"
     IN IF problem # None THEN Raises(o, problem)
        ELSE Writes(o, [db EXCEPT !.rows[row] = ops[o].verdict, !.given = Approvals!GivenBy(row, ops[o].verdict)])
Package(o) ==
  /\ At(o, {"package"}, "command")
  /\ IF ~ MemberNow THEN Raises(o, "package_failed")
     ELSE IF db.rows[Strategy] # "approved" THEN Raises(o, "strategy_not_approved")
     ELSE \E post \in Rows \ {Strategy} :
            /\ db.rows[post] = "none" /\ \A p \in Rows : p < post => db.rows[p] # "none"
            /\ Writes(o, [db EXCEPT !.rows = [r \in Rows |->
                 IF r = post THEN "pending"
                 ELSE IF r # Strategy /\ @[r] = "pending" THEN "closed" ELSE @[r]]])
\* mutant: the preflight of the route is taken for the check of the command.
LimitTrustsPreflight(o) ==
  /\ At(o, {"limit"}, "command")
  /\ db.limit < MaxLimits /\ Writes(o, [db EXCEPT !.limit = @ + 1])
\* A limit stands for how often it has been set.
Limit(o) ==
  /\ At(o, {"limit"}, "command")
  /\ IF OwnerNow(o) THEN db.limit < MaxLimits /\ Writes(o, [db EXCEPT !.limit = @ + 1])
     ELSE Raises(o, "allowance_failed")

\* mutant: the panel is released by the answer, before it has loaded again.
AnsweredAtRest(o) ==
  /\ ops[o].at = "answer"
  /\ IF ops[o].act = "package"
     THEN tab' = Told("awaiting-approval") /\ End(o)
     ELSE /\ tab' = [tab EXCEPT !.busy = FALSE,
                                !.acted = IF ops[o].act = "decide" THEN ops[o].row ELSE db.limit]
          /\ SetOp(o, Request("load", "read"))
  /\ UNCHANGED <<panel, session, db>>
\* The answer: what the panel has done is remembered, and it loads again.
Answered(o) ==
  /\ ops[o].at = "answer"
  /\ IF ops[o].act = "package"
     THEN tab' = Told("awaiting-approval") /\ End(o)
     ELSE /\ tab' = [tab EXCEPT !.acted = IF ops[o].act = "decide" THEN ops[o].row ELSE db.limit]
          /\ SetOp(o, Request("load", "read"))
  /\ UNCHANGED <<panel, session, db>>

-----------------------------------------------------------------------------
(* Loading.  The commands that read refuse who is not a member; the trail  *)
(* is read through row security, which leaves out the rows instead.        *)
Reads(o) ==
  CASE panel = "approvals" -> [rows |-> db.rows, owner |-> db.role = "owner"]
    [] panel = "usage" -> [limit |-> db.limit, owner |-> db.role = "owner"]
    [] panel = "audit" -> [trail |-> db.trail /\ MemberNow]
Read(o) ==
  /\ ops[o].at = "read"
  /\ IF ops[o].token = "none" \/ (panel # "audit" /\ db.role = "none")
     THEN tab' = Told("failed") /\ End(o)
     ELSE SetOp(o, [ops[o] EXCEPT !.at = "show", !.got = Reads(o)]) /\ UNCHANGED tab
  /\ UNCHANGED <<panel, session, db>>
Show(o) ==
  /\ ops[o].at = "show"
  /\ tab' = [tab EXCEPT !.busy = FALSE, !.shown = ops[o].got]
  /\ End(o)
  /\ UNCHANGED <<panel, session, db>>

-----------------------------------------------------------------------------
(* Everybody else.                                                         *)
Elsewhere == ops' = ops /\ UNCHANGED <<panel, session>>
SetMember(role) ==
  /\ role # db.role
  /\ db' = [db EXCEPT !.role = role]
  /\ tab' = [tab EXCEPT !.outside = @ \/ (panel = "audit" /\ role = "none")]
  /\ Elsewhere
SetTenant ==
  /\ db' = [db EXCEPT !.active = ~ @]
  /\ tab' = [tab EXCEPT !.outside = @ \/ (panel = "audit" /\ db.active)]
  /\ Elsewhere
(* The calendar is finished, another owner decides, a newer revision       *)
(* invalidates, another member packages.                                   *)
OthersSubmit ==
  /\ panel \in {"approvals", "prepare"}
  /\ db.rows[Strategy] = "none"
  /\ db' = [db EXCEPT !.rows[Strategy] = "pending"]
  /\ UNCHANGED tab /\ Elsewhere
OthersDecide(row, status) ==
  /\ panel \in {"approvals", "prepare"}
  /\ Approvals!MayBecome(row, status)
  /\ db' = [db EXCEPT !.rows[row] = status, !.given = Approvals!GivenBy(row, status)]
  /\ UNCHANGED tab /\ Elsewhere
OthersPrepare(post, superseded) ==
  /\ panel = "approvals"
  /\ Approvals!MayOpen(post)
  /\ \A r \in superseded : db.rows[r] = "pending"
  /\ db' = [db EXCEPT !.rows = Approvals!Prepared(post, superseded)]
  /\ UNCHANGED tab /\ Elsewhere
OthersLimit ==
  /\ panel = "usage" /\ db.limit < MaxLimits
  /\ db' = [db EXCEPT !.limit = @ + 1]
  /\ UNCHANGED tab /\ Elsewhere
SessionEnds ==
  /\ session # "none" /\ session' = "none"
  /\ UNCHANGED <<panel, db, tab, ops>>

-----------------------------------------------------------------------------
Serve(o) ==
  \/ Exchanged(o) \/ SignedIn(o) \/ Challenged(o)
  \/ Gate(o) \/ Identity(o) \/ Member(o) \/ Assurance(o) \/ Tenant(o)
  \/ Verdict(o) \/ Package(o) \/ Limit(o)
  \/ Answered(o) \/ Read(o) \/ Show(o)

Use(o) ==
  \/ SignIn(o) \/ Callback(o) \/ SignOut(o) \/ Challenge(o) \/ Open(o)
  \/ \E row \in Rows, verdict \in {"approved", "closed"} : Decide(o, row, verdict)
  \/ Prepare(o) \/ SetLimit(o)

Others ==
  \/ \E role \in {"owner", "operator", "none"} : SetMember(role)
  \/ SetTenant
  \/ \E row \in Rows : \E status \in {"approved", "closed"} : OthersDecide(row, status)
  \/ OthersSubmit
  \/ \E post \in Approvals!Posts : \E superseded \in SUBSET Approvals!Posts : OthersPrepare(post, superseded)
  \/ OthersLimit
  \/ SessionEnds

Next ==
  \/ \E o \in Ops : Serve(o) \/ RequestFails(o) \/ Use(o)
  \/ BadLimit
  \/ Others

Spec == Init /\ [][Next]_vars

-----------------------------------------------------------------------------
(* What this tab and the others do to the approvals is what a reader of    *)
(* the calendar's records may see: the same records the commands of        *)
(* ApprovalGate keep.                                                      *)
DeskKeepsTheApprovals == Approvals!RecordsSpec

(* Whatever the page and the route have found out before, a verdict, a     *)
(* package or a limit of this tab is recorded only for who may record it   *)
(* at that moment: a preflight is not a substitute for the checks of the   *)
(* commands.                                                               *)
Records(o) ==
  IF ops[o].act = "package" THEN MemberNow ELSE OwnerNow(o)
PreflightIsNotTrusted ==
  [][ops' # ops /\ db' # db => \E o \in Ops : ops[o].at = "command" /\ ops'[o] # ops[o] /\ Records(o)]_vars

(* Once the panel is at rest and reports no error, what it shows is not    *)
(* older than what was done in it: a row decided here is not offered for a *)
(* decision, and a limit is not shown as it was before it was set here.    *)
RestedPanelShowsItsActs ==
  tab.acted # None /\ ~ tab.busy /\ tab.said = None =>
    IF panel = "approvals" THEN tab.shown.rows[tab.acted] # "pending" ELSE tab.shown.limit >= tab.acted

(* What the panel says is so.  A decision called already taken is taken, a *)
(* post refused for its strategy has no approved strategy, and a trail is  *)
(* called empty only if it is, or if its reader has meanwhile been out of  *)
(* the organization.  (A refused package may have become possible since.)  *)
WhatIsSaidIsTrue ==
  /\ tab.said = "approval_is_not_pending" => db.rows[tab.asked] # "pending"
  /\ tab.said = "strategy_not_approved" /\ panel = "approvals" => db.rows[Strategy] # "approved"
  /\ panel = "audit" /\ tab.shown # None => tab.shown.trail = db.trail \/ tab.outside
=============================================================================
