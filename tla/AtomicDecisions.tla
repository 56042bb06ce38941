---------------------------- MODULE AtomicDecisions ----------------------------
(***************************************************************************)
(* What the approval commands promise, with no statements, no locks and no *)
(* sessions: every decision, every package and every revision happens at   *)
(* one moment, on the approvals as they are then.  A package retires the   *)
(* open decisions of its day, all of them and no other, and opens its own. *)
(* What is not promised is the strategy's approval at that moment: the     *)
(* commands read it in an earlier statement, without a lock, so it was     *)
(* given once and may have been invalidated since.                         *)
(***************************************************************************)
EXTENDS Naturals, Sequences

CONSTANTS Calendars, Days, MaxPosts, MaxRevisions, None

VARIABLES
  strategy,     \* status of each calendar's strategy approval
  posts,        \* the finished-post approvals in the order they were created
  revisions,    \* how many revisions have landed on existing artifacts
  everApproved  \* calendars whose strategy was approved once

decisionVars == <<strategy, posts, revisions, everApproved>>

Ids == 1 .. Len(posts)
Marked(ids, status) == [p \in Ids |-> IF p \in ids THEN [posts[p] EXCEPT !.status = status] ELSE posts[p]]

DecisionInit ==
  /\ strategy = [c \in Calendars |-> None]
  /\ posts = <<>>
  /\ revisions = 0
  /\ everApproved = {}

Submit(c) ==
  /\ strategy[c] = None
  /\ strategy' = [strategy EXCEPT ![c] = "pending"]
  /\ UNCHANGED <<posts, revisions, everApproved>>

DecideCalendar(c, verdict) ==
  /\ strategy[c] = "pending"
  /\ strategy' = [strategy EXCEPT ![c] = verdict]
  /\ everApproved' = IF verdict = "approved" THEN everApproved \cup {c} ELSE everApproved
  /\ UNCHANGED <<posts, revisions>>

DecidePackage(p, verdict) ==
  /\ posts[p].status = "pending" /\ posts[p].calendar \in everApproved
  /\ posts' = Marked({p}, verdict)
  /\ UNCHANGED <<strategy, revisions, everApproved>>

OpenOf(c, d) == {p \in Ids : posts[p].calendar = c /\ posts[p].day = d /\ posts[p].status = "pending"}
Package(c, d) ==
  /\ Len(posts) < MaxPosts
  /\ c \in everApproved
  /\ posts' = Append(Marked(OpenOf(c, d), "invalidated"), [calendar |-> c, day |-> d, status |-> "pending"])
  /\ UNCHANGED <<strategy, revisions, everApproved>>

Revise ==
  /\ revisions < MaxRevisions /\ revisions' = revisions + 1
  /\ \/ /\ \E c \in Calendars : /\ strategy[c] \in {"pending", "approved"}
                                /\ strategy' = [strategy EXCEPT ![c] = "invalidated"]
        /\ UNCHANGED posts
     \/ /\ \E p \in Ids : posts[p].status \in {"pending", "approved"} /\ posts' = Marked({p}, "invalidated")
        /\ UNCHANGED strategy
  /\ UNCHANGED everApproved

DecisionNext ==
  \/ \E c \in Calendars : Submit(c) \/ \E verdict \in {"approved", "rejected"} : DecideCalendar(c, verdict)
  \/ \E p \in Ids, verdict \in {"approved", "rejected"} : DecidePackage(p, verdict)
  \/ \E c \in Calendars, d \in Days : Package(c, d)
  \/ Revise

DecisionSpec == DecisionInit /\ [][DecisionNext]_decisionVars
=============================================================================
