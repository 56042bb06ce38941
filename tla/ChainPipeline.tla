----------------------------- MODULE ChainPipeline -----------------------------
(***************************************************************************)
(* The chain of the three queues.  A member submits a research brief; the  *)
(* transaction that completes the research attempt also creates the reel   *)
(* analysis task, the one that completes the reel analysis also creates    *)
(* the content calendar task, and the one that completes the calendar also *)
(* creates the pending strategy approval.  The triggers that do this run   *)
(* inside the completing transaction, so completion and fan-out are one    *)
(* step: were the fan-out refused, the completion would roll back with it. *)
(*                                                                         *)
(* A downstream task is identified by its idempotency key, which is the    *)
(* upstream attempt.                                                       *)
(***************************************************************************)
EXTENDS Naturals, Sequences, FiniteSets

CONSTANTS Briefs, Users, NoUser, Digests, NoOutcome, Codes, Stamps, MaxAttempts, Lease

AttemptNumbers == 1 .. MaxAttempts
ReelTasks == Briefs \X AttemptNumbers         \* <<brief, research attempt>>
CalendarTasks == ReelTasks \X AttemptNumbers  \* <<reel task, reel attempt>>

VARIABLES
  tenantActive, members,
  briefRequester, briefCreated, briefRun, briefAttempts, briefOutcome,
  reelRequester, reelCreated, reelRun, reelAttempts, reelOutcome,
  calendarRequester, calendarCreated, calendarRun, calendarAttempts, calendarOutcome,
  strategy    \* the pending approvals of stage 'strategy'

researchVars == <<briefRequester, briefCreated, briefRun, briefAttempts, briefOutcome>>
reelVars == <<reelRequester, reelCreated, reelRun, reelAttempts, reelOutcome>>
calendarVars == <<calendarRequester, calendarCreated, calendarRun, calendarAttempts, calendarOutcome>>
vars == <<tenantActive, members, researchVars, reelVars, calendarVars, strategy>>

Research == INSTANCE LeaseQueue WITH
  Tasks <- Briefs, requester <- briefRequester, created <- briefCreated,
  run <- briefRun, attempts <- briefAttempts, outcome <- briefOutcome

Reel == INSTANCE LeaseQueue WITH
  Tasks <- ReelTasks, requester <- reelRequester, created <- reelCreated,
  run <- reelRun, attempts <- reelAttempts, outcome <- reelOutcome

Calendar == INSTANCE LeaseQueue WITH
  Tasks <- CalendarTasks, requester <- calendarRequester, created <- calendarCreated,
  run <- calendarRun, attempts <- calendarAttempts, outcome <- calendarOutcome

(* The queues share their constants, so what one assumes all do.           *)
ASSUME ChainAssumption == Research!LeaseQueueAssumption

StrategyApproval == [task : CalendarTasks, attempt : AttemptNumbers, digest : Digests, requester : Users]

TypeOK ==
  /\ Research!TypeOK
  /\ Reel!TypeOK
  /\ Calendar!TypeOK
  /\ strategy \subseteq StrategyApproval

Init ==
  /\ Research!Init
  /\ Reel!Init
  /\ Calendar!Init
  /\ strategy = {}

-----------------------------------------------------------------------------
(* The evidence a downstream claim reads: the body of the revision named   *)
(* by the brief, which the upstream attempt in the key stored.             *)
ReelEvidence(k) == briefOutcome[k[1]] # NoOutcome /\ briefOutcome[k[1]].attempt = k[2]
CalendarEvidence(c) == reelOutcome[c[1]] # NoOutcome /\ reelOutcome[c[1]].attempt = c[2]

OnlyResearch == UNCHANGED <<reelVars, calendarVars, strategy>>
OnlyReel == UNCHANGED <<researchVars, calendarVars, strategy>>
OnlyCalendar == UNCHANGED <<researchVars, reelVars, strategy>>

SubmitBrief(b, u, stamp) == Research!Enqueue(b, u, stamp) /\ OnlyResearch
ResearchClaimFansOut(b) ==   \* mutant: the reel task is made at the claim
  \/ (Research!ClaimReap(b) \/ Research!ClaimRefuse(b)) /\ OnlyResearch
  \/ /\ Research!ClaimIssue(b)
     /\ \E s \in Stamps : Reel!Enqueue(<<b, Len(briefAttempts[b]) + 1>>, briefRequester[b], s)
     /\ UNCHANGED <<calendarVars, strategy>>
ResearchClaim(b) == Research!Claim(b) /\ OnlyResearch
ResearchFail(b, n, c) == Research!Fail(b, n, c) /\ OnlyResearch
ResearchRetry(b, n) == Research!Retry(b, n) /\ OnlyResearch

ReelTaskOfFirstAttempt(b, n) == <<b, 1>>   \* mutant: the key is the task, not the attempt

(* complete_research_attempt with its trigger on research_outcomes.  The   *)
(* new task's requester is the research task's, its key the attempt.       *)
ReelTaskOf(b, n) == <<b, n>>
ResearchComplete(b, n, d, stamp) ==
  /\ Research!Complete(b, n, d)
  /\ Reel!Enqueue(ReelTaskOf(b, n), briefRequester[b], stamp)
  /\ UNCHANGED <<calendarVars, strategy>>

(* The claim raises, and rolls back, when there is no evidence to hand     *)
(* over.                                                                   *)
ReelIssue(k) == Reel!ClaimIssue(k) /\ ReelEvidence(k)
ReelClaimNeverReaps(k) == (Reel!ClaimRefuse(k) \/ ReelIssue(k)) /\ OnlyReel   \* mutant
ReelClaim(k) == (Reel!ClaimReap(k) \/ Reel!ClaimRefuse(k) \/ ReelIssue(k)) /\ OnlyReel
ReelFail(k, n, c) == Reel!Fail(k, n, c) /\ OnlyReel
ReelRetry(k, n) == Reel!Retry(k, n) /\ OnlyReel

(* complete_reel_analysis_attempt with its trigger.                        *)
CalendarTaskOf(k, n) == <<k, n>>
ReelCompleteAlone(k, n, d, stamp) == Reel!Complete(k, n, d) /\ OnlyReel   \* mutant: no trigger
ReelComplete(k, n, d, stamp) ==
  /\ Reel!Complete(k, n, d)
  /\ Calendar!Enqueue(CalendarTaskOf(k, n), reelRequester[k], stamp)
  /\ UNCHANGED <<researchVars, strategy>>

(* Nour's claim also reads the lineage of the reel revision, which that    *)
(* revision's provenance holds from the moment it is stored.               *)
CalendarIssue(c) == Calendar!ClaimIssue(c) /\ CalendarEvidence(c)
CalendarClaim(c) == (Calendar!ClaimReap(c) \/ Calendar!ClaimRefuse(c) \/ CalendarIssue(c)) /\ OnlyCalendar
CalendarFail(c, n, code) == Calendar!Fail(c, n, code) /\ OnlyCalendar
CalendarRetry(c, n) == Calendar!Retry(c, n) /\ OnlyCalendar

CalendarCompleteFirst(c, n, d) ==   \* mutant: the approval names the first attempt
  /\ Calendar!Complete(c, n, d)
  /\ strategy' = strategy \cup
       {[task |-> c, attempt |-> 1, digest |-> d, requester |-> calendarRequester[c]]}
  /\ UNCHANGED <<researchVars, reelVars>>
(* complete_content_calendar_attempt with the trigger that creates the     *)
(* strategy approval.                                                      *)
CalendarComplete(c, n, d) ==
  /\ Calendar!Complete(c, n, d)
  /\ strategy' = strategy \cup
       {[task |-> c, attempt |-> n, digest |-> d, requester |-> calendarRequester[c]]}
  /\ UNCHANGED <<researchVars, reelVars>>

SetTenant == Research!SetTenant /\ UNCHANGED <<reelVars, calendarVars, strategy>>
SetMember(u) == Research!SetMember(u) /\ UNCHANGED <<reelVars, calendarVars, strategy>>

(* One clock for all leases.                                               *)
Tick ==
  /\ Research!SomeLive \/ Reel!SomeLive \/ Calendar!SomeLive
  /\ Research!Age /\ Reel!Age /\ Calendar!Age
  /\ UNCHANGED <<tenantActive, members, strategy>>
  /\ UNCHANGED <<briefRequester, briefCreated, briefRun, briefOutcome>>
  /\ UNCHANGED <<reelRequester, reelCreated, reelRun, reelOutcome>>
  /\ UNCHANGED <<calendarRequester, calendarCreated, calendarRun, calendarOutcome>>

ResearchStep ==
  \E b \in Briefs :
    \/ \E u \in Users, s \in Stamps : SubmitBrief(b, u, s)
    \/ ResearchClaim(b)
    \/ \E n \in Research!Issued(b), c \in Codes : ResearchFail(b, n, c)
    \/ \E n \in Research!Issued(b) : ResearchRetry(b, n)
    \/ \E n \in Research!Issued(b), d \in Digests, s \in Stamps : ResearchComplete(b, n, d, s)
ReelStep ==
  \E k \in ReelTasks :
    \/ ReelClaim(k)
    \/ \E n \in Reel!Issued(k), c \in Codes : ReelFail(k, n, c)
    \/ \E n \in Reel!Issued(k) : ReelRetry(k, n)
    \/ \E n \in Reel!Issued(k), d \in Digests, s \in Stamps : ReelComplete(k, n, d, s)
CalendarStep ==
  \E t \in CalendarTasks :
    \/ CalendarClaim(t)
    \/ \E n \in Calendar!Issued(t), c \in Codes : CalendarFail(t, n, c)
    \/ \E n \in Calendar!Issued(t) : CalendarRetry(t, n)
    \/ \E n \in Calendar!Issued(t), d \in Digests : CalendarComplete(t, n, d)

Next ==
  \/ ResearchStep
  \/ ReelStep
  \/ CalendarStep
  \/ SetTenant
  \/ \E u \in Users : SetMember(u)
  \/ Tick

Spec == Init /\ [][Next]_vars

(* Each queue has a worker service of its own that keeps claiming.         *)
FairSpec ==
  /\ Spec
  /\ WF_vars(\E b \in Briefs : ResearchClaim(b))
  /\ WF_vars(\E k \in ReelTasks : ReelClaim(k))
  /\ WF_vars(\E c \in CalendarTasks : CalendarClaim(c))
  /\ WF_vars(Tick)

-----------------------------------------------------------------------------
(* An outcome has exactly one successor, made for the same requester: a    *)
(* completion that is repeated, late or reclaimed neither loses the next   *)
(* stage's task nor makes it twice.                                        *)
ReelTasksOf(b) == {k \in ReelTasks : k[1] = b /\ reelRun[k] # "none"}
CalendarTasksOf(k) == {c \in CalendarTasks : c[1] = k /\ calendarRun[c] # "none"}
ApprovalsOf(c) == {a \in strategy : a.task = c}

ExactlyOneSuccessor ==
  /\ \A b \in Briefs : Cardinality(ReelTasksOf(b)) = IF briefOutcome[b] = NoOutcome THEN 0 ELSE 1
  /\ \A k \in ReelTasks : Cardinality(CalendarTasksOf(k)) = IF reelOutcome[k] = NoOutcome THEN 0 ELSE 1
  /\ \A c \in CalendarTasks : Cardinality(ApprovalsOf(c)) = IF calendarOutcome[c] = NoOutcome THEN 0 ELSE 1

(* The unique key on the downstream task never refuses the fan-out of an   *)
(* attempt that is still entitled to complete, so the fan-out never costs  *)
(* a worker its finished work.                                             *)
FanOutNeverBlocks ==
  /\ \A b \in Briefs : \A n \in Research!Issued(b) : Research!Live(b, n) => reelRun[ReelTaskOf(b, n)] = "none"
  /\ \A k \in ReelTasks : \A n \in Reel!Issued(k) : Reel!Live(k, n) => calendarRun[CalendarTaskOf(k, n)] = "none"

(* A queued downstream task finds the evidence its claim hands over.  If   *)
(* it did not, every claim would raise on it and the queue would stop.     *)
HandoffCarriesEvidence ==
  /\ \A k \in ReelTasks : reelRun[k] = "queued" => ReelEvidence(k)
  /\ \A c \in CalendarTasks : calendarRun[c] = "queued" => CalendarEvidence(c)

(* A strategy approval can be traced back to the brief: it carries the     *)
(* digest of its calendar's outcome, that calendar was planned from the    *)
(* reel outcome and that one from the research outcome, and the member it  *)
(* names is the one who submitted the brief.                               *)
ApprovalTracesToBrief ==
  \A a \in strategy :
    LET k == a.task[1]
        b == k[1]
    IN /\ calendarOutcome[a.task] = [attempt |-> a.attempt, digest |-> a.digest]
       /\ CalendarEvidence(a.task)
       /\ ReelEvidence(k)
       /\ a.requester = briefRequester[b]

(* Each stage, with the steps of the others, behaves as a queue alone.     *)
StagesAreQueues == Research!Spec /\ Reel!Spec /\ Calendar!Spec

(* To a reader the three queues and their triggers are one chain: at most  *)
(* one run of each stage comes of a brief, each with the completion of the *)
(* one before, and the rows of the three runs, which it reads one after    *)
(* the other, change as RunRecords says and in no other way.               *)
Shown(state, rows) ==
  [state |-> state, n |-> Len(rows),
   last |-> IF rows = <<>> THEN "none" ELSE rows[Len(rows)].state,
   offered |-> rows # <<>> /\ rows[Len(rows)].retry = "offered"]
HasReel(b) == ReelTasksOf(b) # {}
ReelOf(b) == CHOOSE k \in ReelTasksOf(b) : TRUE
HasCalendar(b) == HasReel(b) /\ CalendarTasksOf(ReelOf(b)) # {}
CalendarOf(b) == CHOOSE c \in CalendarTasksOf(ReelOf(b)) : TRUE
ShownRun(b, s) ==
  CASE s = 1 -> Shown(briefRun[b], briefAttempts[b])
    [] s = 2 /\ HasReel(b) -> Shown(reelRun[ReelOf(b)], reelAttempts[ReelOf(b)])
    [] s = 3 /\ HasCalendar(b) -> Shown(calendarRun[CalendarOf(b)], calendarAttempts[CalendarOf(b)])
    [] OTHER -> Shown("none", <<>>)
ShownRecords == [b \in Briefs |-> [s \in 1 .. 3 |-> ShownRun(b, s)]]
Records == INSTANCE RunRecords WITH
  Keys <- Briefs, db <- ShownRecords, MaxAttempts <- [b \in Briefs |-> [s \in 1 .. 3 |-> MaxAttempts]]
ReadersSeeOneChain == Records!RecordsSpec

(* While the tenant stays active a submitted brief does not get lost on    *)
(* the way: some stage comes to a failure that a human can see, or the     *)
(* strategy approval is there.                                             *)
Answered(b) ==
  \/ briefRun[b] = "failed"
  \/ \E k \in ReelTasksOf(b) :
       \/ reelRun[k] = "failed"
       \/ \E c \in CalendarTasksOf(k) : calendarRun[c] = "failed" \/ ApprovalsOf(c) # {}
EveryBriefAnswered ==
  \A b \in Briefs : <>[]tenantActive => [](briefRun[b] # "none" => <>Answered(b))
=============================================================================
