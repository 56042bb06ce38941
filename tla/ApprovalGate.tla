------------------------------ MODULE ApprovalGate ------------------------------
(***************************************************************************)
(* The approvals table: strategy approvals, one per content calendar, and  *)
(* finished-post approvals, one per package built for a day of a calendar. *)
(*                                                                         *)
(* Unlike the queue's commands these take no tenant lock.  They run at     *)
(* READ COMMITTED, where each statement sees what was committed when it    *)
(* began, so a command that reads rows it does not lock is several steps   *)
(* here, one per statement that matters.  Row locks and the advisory lock  *)
(* are held until the command commits.                                     *)
(***************************************************************************)
EXTENDS Naturals, Sequences

CONSTANTS
  Sessions,   \* signed-in members with a command in progress or none
  Calendars,  \* content calendar artifacts
  Days,       \* day_index
  MaxPosts,   \* bound: packages built
  MaxRevisions, \* bound: revisions that land on existing artifacts
  None        \* nobody, or nothing

Statuses == {"pending", "approved", "rejected", "invalidated"}

ASSUME ApprovalGateAssumption ==
  /\ MaxPosts \in Nat
  /\ MaxRevisions \in Nat
  /\ None \notin Sessions /\ None \notin Calendars
  /\ None \notin Days /\ None \notin Statuses

VARIABLES
  role,       \* each member's active role
  strategy,   \* status of each calendar's strategy approval
  posts,      \* the finished-post approvals in the order they were created
  rowLock,    \* who holds the row lock of a finished-post approval
  dayLock,    \* who holds the advisory lock of a calendar's day
  command,    \* what each session is executing
  revisions,  \* how many revisions have landed on existing artifacts
  everApproved \* history: calendars whose strategy was approved once

tables == <<strategy, posts>>
locks == <<rowLock, dayLock>>
vars == <<role, strategy, posts, rowLock, dayLock, command, revisions, everApproved>>

Roles == {"owner", "operator", "none"}
Post == [calendar : Calendars, day : Days, status : Statuses]
PostIds == 1 .. MaxPosts
Created == 1 .. Len(posts)
CalendarDays == Calendars \X Days

Doing(step, post, calendar, day) == [step |-> step, post |-> post, calendar |-> calendar, day |-> day]
Quiet == Doing("none", None, None, None)
Steps == {"none", "approveStrategy", "rejectStrategy",
          "approvePost", "approveGate", "approveWrite", "rejectPost",
          "packageLock", "packageGate", "packageSupersede", "packageInsert"}
Command == [step : Steps, post : PostIds \cup {None},
            calendar : Calendars \cup {None}, day : Days \cup {None}]

TypeOK ==
  /\ role \in [Sessions -> Roles]
  /\ strategy \in [Calendars -> Statuses \cup {None}]
  /\ posts \in Seq(Post) /\ Len(posts) <= MaxPosts
  /\ rowLock \in [PostIds -> Sessions \cup {None}]
  /\ dayLock \in [CalendarDays -> Sessions \cup {None}]
  /\ command \in [Sessions -> Command]
  /\ revisions \in 0 .. MaxRevisions
  /\ everApproved \subseteq Calendars

Init ==
  /\ role \in [Sessions -> {"owner", "operator"}]
  /\ strategy = [c \in Calendars |-> None]
  /\ posts = <<>>
  /\ rowLock = [p \in PostIds |-> None]
  /\ dayLock = [cd \in CalendarDays |-> None]
  /\ command = [s \in Sessions |-> Quiet]
  /\ revisions = 0
  /\ everApproved = {}

-----------------------------------------------------------------------------
At(s, step) == command[s].step = step
Place(s) == <<command[s].calendar, command[s].day>>
Goto(s, step) == command' = [command EXCEPT ![s].step = step]
IsQuiet(s) == At(s, "none")

(* Commit and rollback both end the command and free what it locked.       *)
ReleaseRows(s) == rowLock' = [p \in PostIds |-> IF rowLock[p] = s THEN None ELSE rowLock[p]]
ReleaseDays(s) == dayLock' = [cd \in CalendarDays |-> IF dayLock[cd] = s THEN None ELSE dayLock[cd]]
End(s) ==
  /\ command' = [command EXCEPT ![s] = Quiet]
  /\ ReleaseRows(s)
  /\ ReleaseDays(s)
Raise(s) == End(s) /\ UNCHANGED <<role, tables, revisions, everApproved>>

SetPostStatus(ids, status) ==
  posts' = [p \in Created |-> IF p \in ids THEN [posts[p] EXCEPT !.status = status] ELSE posts[p]]

(* The trigger on content_calendar_outcomes.                               *)
CreateStrategyApproval(c) ==
  /\ strategy[c] = None
  /\ strategy' = [strategy EXCEPT ![c] = "pending"]
  /\ UNCHANGED <<role, posts, locks, command, revisions, everApproved>>

(* approve_agent_revision and reject_agent_revision read the membership,   *)
(* then lock the approval, which must be pending.  To reject, or to        *)
(* approve a strategy, the verdict is all that is left, so the lock is     *)
(* never held across steps.  To approve a finished post the calendar's     *)
(* strategy approval is read, unlocked, before the verdict is written.     *)
BeginStrategy(s, c, step) ==
  /\ IsQuiet(s) /\ role[s] = "owner"
  /\ strategy[c] # None
  /\ command' = [command EXCEPT ![s] = Doing(step, None, c, None)]
  /\ UNCHANGED <<role, tables, locks, revisions, everApproved>>
BeginPost(s, p, step) ==
  /\ IsQuiet(s) /\ role[s] = "owner"
  /\ command' = [command EXCEPT ![s] = Doing(step, p, None, None)]
  /\ UNCHANGED <<role, tables, locks, revisions, everApproved>>

DecideStrategy(s) ==
  LET c == command[s].calendar IN
    /\ At(s, "approveStrategy") \/ At(s, "rejectStrategy")
    /\ \/ strategy[c] # "pending" /\ Raise(s)
       \/ /\ strategy[c] = "pending"
          /\ strategy' = [strategy EXCEPT ![c] = IF At(s, "approveStrategy") THEN "approved" ELSE "rejected"]
          /\ everApproved' = IF At(s, "approveStrategy") THEN everApproved \cup {c} ELSE everApproved
          /\ End(s)
          /\ UNCHANGED <<role, posts, revisions>>
RejectPost(s) ==
  LET p == command[s].post IN
    /\ At(s, "rejectPost")
    /\ rowLock[p] = None
    /\ \/ posts[p].status # "pending" /\ Raise(s)
       \/ /\ posts[p].status = "pending"
          /\ SetPostStatus({p}, "rejected")
          /\ End(s)
          /\ UNCHANGED <<role, strategy, revisions, everApproved>>

ApproveLock(s) ==
  LET p == command[s].post IN
    /\ At(s, "approvePost")
    /\ rowLock[p] = None
    /\ \/ posts[p].status # "pending" /\ Raise(s)
       \/ /\ posts[p].status = "pending"
          /\ rowLock' = [rowLock EXCEPT ![p] = s]
          /\ Goto(s, "approveGate")
          /\ UNCHANGED <<role, tables, dayLock, revisions, everApproved>>
ApproveGate(s) ==
  LET c == posts[command[s].post].calendar IN
    /\ At(s, "approveGate")
    /\ \/ strategy[c] # "approved" /\ Raise(s)
       \/ /\ strategy[c] = "approved"
          /\ Goto(s, "approveWrite")
          /\ UNCHANGED <<role, tables, locks, revisions, everApproved>>
ApproveWrite(s) ==
  /\ At(s, "approveWrite")
  /\ SetPostStatus({command[s].post}, "approved")
  /\ End(s)
  /\ UNCHANGED <<role, strategy, revisions, everApproved>>

(* create_finished_post_package: the day's advisory lock, then the gate on *)
(* the calendar's strategy approval, then one UPDATE that supersedes the   *)
(* pending approvals it sees for this day, waiting for those that are      *)
(* locked, then the new package and its pending approval.                  *)
BeginPackage(s, cd) ==
  /\ IsQuiet(s) /\ role[s] \in {"owner", "operator"}
  /\ Len(posts) < MaxPosts
  /\ command' = [command EXCEPT ![s] = Doing("packageLock", None, cd[1], cd[2])]
  /\ UNCHANGED <<role, tables, locks, revisions, everApproved>>
PackageLockNothing(s) ==   \* mutant: no advisory lock
  /\ At(s, "packageLock")
  /\ Goto(s, "packageGate")
  /\ UNCHANGED <<role, tables, locks, revisions, everApproved>>
PackageLock(s) ==
  /\ At(s, "packageLock")
  /\ dayLock[Place(s)] = None
  /\ dayLock' = [dayLock EXCEPT ![Place(s)] = s]
  /\ Goto(s, "packageGate")
  /\ UNCHANGED <<role, tables, rowLock, revisions, everApproved>>
PackageGateExists(s) ==   \* mutant: the approval has to exist, not to be approved
  /\ At(s, "packageGate")
  /\ \/ strategy[command[s].calendar] = None /\ Raise(s)
     \/ /\ strategy[command[s].calendar] # None
        /\ Goto(s, "packageSupersede")
        /\ UNCHANGED <<role, tables, locks, revisions, everApproved>>
PackageGateKeepsLock(s) ==   \* mutant: the advisory lock outlives the transaction
  /\ At(s, "packageGate")
  /\ \/ /\ strategy[command[s].calendar] # "approved"
        /\ command' = [command EXCEPT ![s] = Quiet]
        /\ UNCHANGED <<role, tables, locks, revisions, everApproved>>
     \/ /\ strategy[command[s].calendar] = "approved"
        /\ Goto(s, "packageSupersede")
        /\ UNCHANGED <<role, tables, locks, revisions, everApproved>>
PackageGate(s) ==
  /\ At(s, "packageGate")
  /\ \/ strategy[command[s].calendar] # "approved" /\ Raise(s)
     \/ /\ strategy[command[s].calendar] = "approved"
        /\ Goto(s, "packageSupersede")
        /\ UNCHANGED <<role, tables, locks, revisions, everApproved>>

PendingFor(cd) == {p \in Created : posts[p].calendar = cd[1] /\ posts[p].day = cd[2]
                                   /\ posts[p].status = "pending"}
PackageSupersedeBlind(s) ==   \* mutant: the UPDATE does not wait for locked rows
  LET stale == PendingFor(Place(s)) IN
    /\ At(s, "packageSupersede")
    /\ rowLock' = [p \in PostIds |-> IF p \in stale THEN s ELSE rowLock[p]]
    /\ Goto(s, "packageInsert")
    /\ UNCHANGED <<role, tables, dayLock, revisions, everApproved>>
PackageSupersede(s) ==
  LET stale == PendingFor(Place(s)) IN
    /\ At(s, "packageSupersede")
    /\ \A p \in stale : rowLock[p] = None
    /\ rowLock' = [p \in PostIds |-> IF p \in stale THEN s ELSE rowLock[p]]
    /\ Goto(s, "packageInsert")
    /\ UNCHANGED <<role, tables, dayLock, revisions, everApproved>>

(* The commit makes the superseded rows and the new one visible at once.   *)
NewPost(cd) == [calendar |-> cd[1], day |-> cd[2], status |-> "pending"]
Superseded(s) == {p \in Created : rowLock[p] = s}
PackageInsert(s) ==
  /\ At(s, "packageInsert")
  /\ \/ Len(posts) = MaxPosts /\ Raise(s)   \* the bound
     \/ /\ Len(posts) < MaxPosts
        /\ posts' = Append([p \in Created |-> IF p \in Superseded(s)
                                              THEN [posts[p] EXCEPT !.status = "invalidated"]
                                              ELSE posts[p]],
                           NewPost(Place(s)))
        /\ End(s)
        /\ UNCHANGED <<role, strategy, revisions, everApproved>>

(* The trigger on artifact_revisions: a revision that lands on an existing *)
(* artifact invalidates the pending or approved decision about the         *)
(* revision before it.  It reads nothing but the rows it locks.            *)
Stale(status) == status \in {"pending", "approved"}
ReviseCalendar(c) ==
  /\ revisions < MaxRevisions
  /\ Stale(strategy[c])
  /\ strategy' = [strategy EXCEPT ![c] = "invalidated"]
  /\ revisions' = revisions + 1
  /\ UNCHANGED <<role, posts, locks, command, everApproved>>
RevisePackage(p) ==
  /\ revisions < MaxRevisions
  /\ Stale(posts[p].status)
  /\ rowLock[p] = None
  /\ SetPostStatus({p}, "invalidated")
  /\ revisions' = revisions + 1
  /\ UNCHANGED <<role, strategy, locks, command, everApproved>>

SetRole(s, r) ==
  /\ role[s] # r
  /\ role' = [role EXCEPT ![s] = r]
  /\ UNCHANGED <<tables, locks, command, revisions, everApproved>>

Continue(s) ==
  \/ DecideStrategy(s)
  \/ RejectPost(s)
  \/ ApproveLock(s)
  \/ ApproveGate(s)
  \/ ApproveWrite(s)
  \/ PackageLock(s)
  \/ PackageGate(s)
  \/ PackageSupersede(s)
  \/ PackageInsert(s)

Next ==
  \/ \E c \in Calendars : CreateStrategyApproval(c)
  \/ \E s \in Sessions, c \in Calendars, step \in {"approveStrategy", "rejectStrategy"} : BeginStrategy(s, c, step)
  \/ \E s \in Sessions, step \in {"approvePost", "rejectPost"} : \E p \in Created : BeginPost(s, p, step)
  \/ \E s \in Sessions, cd \in CalendarDays : BeginPackage(s, cd)
  \/ \E s \in Sessions : Continue(s)
  \/ \E c \in Calendars : ReviseCalendar(c)
  \/ \E p \in Created : RevisePackage(p)
  \/ \E s \in Sessions, r \in Roles : SetRole(s, r)

Spec == Init /\ [][Next]_vars

-----------------------------------------------------------------------------
(* At most one decision is open for a day of a calendar, however many      *)
(* sessions package that day at once.                                      *)
OneOpenDecisionPerDay ==
  \A p, q \in Created :
    (/\ posts[p].status = "pending" /\ posts[q].status = "pending"
     /\ posts[p].calendar = posts[q].calendar /\ posts[p].day = posts[q].day) => p = q

(* A package exists, and a post is approved, only on the strength of a     *)
(* strategy an owner approved: of a calendar that is pending or rejected   *)
(* nothing is ever built.                                                  *)
PostsNeedApprovedStrategy ==
  \A p \in Created : /\ posts[p].calendar \in everApproved
                     /\ strategy[posts[p].calendar] \in {"approved", "invalidated"}

(* A decision, once taken, is never taken again and never taken back; only *)
(* a newer revision retires an approval.  In particular a package built    *)
(* while an owner is approving the old one does not undo that approval.    *)
KeepsDecision(old, new) ==
  \/ new = old
  \/ old = "pending"
  \/ old = "approved" /\ new = "invalidated" /\ revisions' = revisions + 1
KeepsDecisions ==
  /\ \A c \in Calendars : strategy[c] # None => KeepsDecision(strategy[c], strategy'[c])
  /\ \A p \in Created : p \in Created' /\ KeepsDecision(posts[p].status, posts'[p].status)
DecisionsAreFinal == [][KeepsDecisions]_vars

(* The locks a session is waiting for are held by these: of the row it is  *)
(* to decide, of its day, or of the open rows of its day.  Nothing else    *)
(* keeps a command from going on.                                          *)
WaitsFor(s) ==
  {t \in Sessions :
     \/ (At(s, "approvePost") \/ At(s, "rejectPost")) /\ rowLock[command[s].post] = t
     \/ At(s, "packageLock") /\ dayLock[Place(s)] = t
     \/ At(s, "packageSupersede") /\ \E p \in PendingFor(Place(s)) : rowLock[p] = t}

(* Commands never wait in a circle, though packages hold their day while   *)
(* they wait for rows and approvals hold their row while they read, and    *)
(* none waits for a lock that was left behind: who waits, waits for a      *)
(* command under way, which waits for none but commands that can go on.    *)
NoStandoff ==
  \A s \in Sessions : \A t \in WaitsFor(s) :
    /\ ~IsQuiet(t)
    /\ \A u \in WaitsFor(t) : ~IsQuiet(u) /\ WaitsFor(u) = {}

(* Though they run statement by statement, the commands are atomic: each   *)
(* decides, packages or revises on the approvals as they are when it       *)
(* commits.  Only the gate is older: that a post's strategy is approved    *)
(* was read by an earlier statement and may have been withdrawn since.     *)
Decisions == INSTANCE AtomicDecisions
CommandsAreAtomic == Decisions!DecisionSpec

(* What a reader sees of a calendar's approvals (ApprovalRecords): one     *)
(* closed status for what was rejected, superseded or overtaken, and of    *)
(* the posts those of the calendar.  TenantDesk lets others do to these    *)
(* rows all that this module does to them.                                 *)
Shown(status) == IF status \in {"rejected", "invalidated"} THEN "closed" ELSE IF status = None THEN "none" ELSE status
ShownRows(c) ==
  [r \in 0 .. MaxPosts |->
     IF r = 0 THEN Shown(strategy[c])
     ELSE IF r \in Created /\ posts[r].calendar = c THEN Shown(posts[r].status)
     ELSE "none"]
Given(c) == c \in everApproved
Records(c) == INSTANCE ApprovalRecords WITH rows <- ShownRows(c), given <- Given(c)
ReadersSeeOneApproval == \A c \in Calendars : Records(c)!RecordsSpec
=============================================================================
