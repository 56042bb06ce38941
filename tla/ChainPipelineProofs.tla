-------------------------- MODULE ChainPipelineProofs --------------------------
(***************************************************************************)
(* Proofs about ChainPipeline for every set of briefs, users and digests   *)
(* and every attempt limit.  Each stage makes steps of LeaseQueue only, so *)
(* each has the inductive invariant proved there; what is new here is how  *)
(* the rows of one stage hang together with those of the next.             *)
(***************************************************************************)
EXTENDS ChainPipeline, FiniteSetTheorems, TLAPS

ResearchQueue == INSTANCE LeaseQueueProofs WITH
  Tasks <- Briefs, requester <- briefRequester, created <- briefCreated,
  run <- briefRun, attempts <- briefAttempts, outcome <- briefOutcome

ReelQueue == INSTANCE LeaseQueueProofs WITH
  Tasks <- ReelTasks, requester <- reelRequester, created <- reelCreated,
  run <- reelRun, attempts <- reelAttempts, outcome <- reelOutcome

CalendarQueue == INSTANCE LeaseQueueProofs WITH
  Tasks <- CalendarTasks, requester <- calendarRequester, created <- calendarCreated,
  run <- calendarRun, attempts <- calendarAttempts, outcome <- calendarOutcome

-----------------------------------------------------------------------------
(* The two names of each stage, as ChainPipeline uses it and as the proofs *)
(* of LeaseQueue know it, mean the same.                                   *)
LEMMA ResearchNames ==
  /\ Research!Init <=> ResearchQueue!Init
  /\ Research!Next <=> ResearchQueue!Next
  /\ Research!vars = ResearchQueue!vars
  /\ \A t, u, s : Research!Enqueue(t, u, s) <=> ResearchQueue!Enqueue(t, u, s)
  /\ \A t : Research!Claim(t) <=> ResearchQueue!Claim(t)
  /\ \A t, n, c : Research!Fail(t, n, c) <=> ResearchQueue!Fail(t, n, c)
  /\ \A t, n, d : Research!Complete(t, n, d) <=> ResearchQueue!Complete(t, n, d)
  /\ \A t, n : Research!Retry(t, n) <=> ResearchQueue!Retry(t, n)
  /\ \A t : Research!Issued(t) = ResearchQueue!Issued(t)
  /\ \A t, n : Research!Live(t, n) <=> ResearchQueue!Live(t, n)
  /\ Research!Age <=> ResearchQueue!Age
  /\ Research!SomeLive <=> ResearchQueue!SomeLive
BY DEF
       Research!Init, Research!Next, Research!vars, Research!Enqueue, Research!Claim,
       Research!ClaimReap, Research!ClaimRefuse, Research!ClaimIssue, Research!Fail,
       Research!Complete, Research!Retry, Research!SetTenant, Research!SetMember, Research!Tick,
       Research!Age, Research!SomeLive, Research!Aged, Research!Chosen, Research!Claimable,
       Research!Issued, Research!Live, Research!Last, Research!LastRunning, Research!Authorised,
       Research!SetAttempt, Research!AddAttempt, Research!SetRun, Research!NewAttempt,
       Research!RefusedAttempt, Research!FailedAttempt, Research!TimedOutAttempt,
       Research!SucceededAttempt, Research!OfferedIf, Research!NoCode, Research!TransientCodes,
       Research!envVars, Research!rowVars, ResearchQueue!Init, ResearchQueue!Next,
       ResearchQueue!vars, ResearchQueue!Enqueue, ResearchQueue!Claim, ResearchQueue!ClaimReap,
       ResearchQueue!ClaimRefuse, ResearchQueue!ClaimIssue, ResearchQueue!Fail,
       ResearchQueue!Complete, ResearchQueue!Retry, ResearchQueue!SetTenant,
       ResearchQueue!SetMember, ResearchQueue!Tick, ResearchQueue!Age, ResearchQueue!SomeLive,
       ResearchQueue!Aged, ResearchQueue!Chosen, ResearchQueue!Claimable, ResearchQueue!Issued,
       ResearchQueue!Live, ResearchQueue!Last, ResearchQueue!LastRunning, ResearchQueue!Authorised,
       ResearchQueue!SetAttempt, ResearchQueue!AddAttempt, ResearchQueue!SetRun,
       ResearchQueue!NewAttempt, ResearchQueue!RefusedAttempt, ResearchQueue!FailedAttempt,
       ResearchQueue!TimedOutAttempt, ResearchQueue!SucceededAttempt, ResearchQueue!OfferedIf,
       ResearchQueue!NoCode, ResearchQueue!TransientCodes, ResearchQueue!envVars,
       ResearchQueue!rowVars

LEMMA ReelNames ==
  /\ Reel!Init <=> ReelQueue!Init
  /\ Reel!Next <=> ReelQueue!Next
  /\ Reel!vars = ReelQueue!vars
  /\ \A t, u, s : Reel!Enqueue(t, u, s) <=> ReelQueue!Enqueue(t, u, s)
  /\ \A t : Reel!Claim(t) <=> ReelQueue!Claim(t)
  /\ \A t, n, c : Reel!Fail(t, n, c) <=> ReelQueue!Fail(t, n, c)
  /\ \A t, n, d : Reel!Complete(t, n, d) <=> ReelQueue!Complete(t, n, d)
  /\ \A t, n : Reel!Retry(t, n) <=> ReelQueue!Retry(t, n)
  /\ \A t : Reel!Issued(t) = ReelQueue!Issued(t)
  /\ \A t, n : Reel!Live(t, n) <=> ReelQueue!Live(t, n)
  /\ Reel!Age <=> ReelQueue!Age
  /\ Reel!SomeLive <=> ReelQueue!SomeLive
BY DEF
       Reel!Init, Reel!Next, Reel!vars, Reel!Enqueue, Reel!Claim, Reel!ClaimReap, Reel!ClaimRefuse,
       Reel!ClaimIssue, Reel!Fail, Reel!Complete, Reel!Retry, Reel!SetTenant, Reel!SetMember,
       Reel!Tick, Reel!Age, Reel!SomeLive, Reel!Aged, Reel!Chosen, Reel!Claimable, Reel!Issued,
       Reel!Live, Reel!Last, Reel!LastRunning, Reel!Authorised, Reel!SetAttempt, Reel!AddAttempt,
       Reel!SetRun, Reel!NewAttempt, Reel!RefusedAttempt, Reel!FailedAttempt, Reel!TimedOutAttempt,
       Reel!SucceededAttempt, Reel!OfferedIf, Reel!NoCode, Reel!TransientCodes, Reel!envVars,
       Reel!rowVars, ReelQueue!Init, ReelQueue!Next, ReelQueue!vars, ReelQueue!Enqueue,
       ReelQueue!Claim, ReelQueue!ClaimReap, ReelQueue!ClaimRefuse, ReelQueue!ClaimIssue,
       ReelQueue!Fail, ReelQueue!Complete, ReelQueue!Retry, ReelQueue!SetTenant,
       ReelQueue!SetMember, ReelQueue!Tick, ReelQueue!Age, ReelQueue!SomeLive, ReelQueue!Aged,
       ReelQueue!Chosen, ReelQueue!Claimable, ReelQueue!Issued, ReelQueue!Live, ReelQueue!Last,
       ReelQueue!LastRunning, ReelQueue!Authorised, ReelQueue!SetAttempt, ReelQueue!AddAttempt,
       ReelQueue!SetRun, ReelQueue!NewAttempt, ReelQueue!RefusedAttempt, ReelQueue!FailedAttempt,
       ReelQueue!TimedOutAttempt, ReelQueue!SucceededAttempt, ReelQueue!OfferedIf,
       ReelQueue!NoCode, ReelQueue!TransientCodes, ReelQueue!envVars, ReelQueue!rowVars

LEMMA CalendarNames ==
  /\ Calendar!Init <=> CalendarQueue!Init
  /\ Calendar!Next <=> CalendarQueue!Next
  /\ Calendar!vars = CalendarQueue!vars
  /\ \A t, u, s : Calendar!Enqueue(t, u, s) <=> CalendarQueue!Enqueue(t, u, s)
  /\ \A t : Calendar!Claim(t) <=> CalendarQueue!Claim(t)
  /\ \A t, n, c : Calendar!Fail(t, n, c) <=> CalendarQueue!Fail(t, n, c)
  /\ \A t, n, d : Calendar!Complete(t, n, d) <=> CalendarQueue!Complete(t, n, d)
  /\ \A t, n : Calendar!Retry(t, n) <=> CalendarQueue!Retry(t, n)
  /\ \A t : Calendar!Issued(t) = CalendarQueue!Issued(t)
  /\ \A t, n : Calendar!Live(t, n) <=> CalendarQueue!Live(t, n)
  /\ Calendar!Age <=> CalendarQueue!Age
  /\ Calendar!SomeLive <=> CalendarQueue!SomeLive
BY DEF
       Calendar!Init, Calendar!Next, Calendar!vars, Calendar!Enqueue, Calendar!Claim,
       Calendar!ClaimReap, Calendar!ClaimRefuse, Calendar!ClaimIssue, Calendar!Fail,
       Calendar!Complete, Calendar!Retry, Calendar!SetTenant, Calendar!SetMember, Calendar!Tick,
       Calendar!Age, Calendar!SomeLive, Calendar!Aged, Calendar!Chosen, Calendar!Claimable,
       Calendar!Issued, Calendar!Live, Calendar!Last, Calendar!LastRunning, Calendar!Authorised,
       Calendar!SetAttempt, Calendar!AddAttempt, Calendar!SetRun, Calendar!NewAttempt,
       Calendar!RefusedAttempt, Calendar!FailedAttempt, Calendar!TimedOutAttempt,
       Calendar!SucceededAttempt, Calendar!OfferedIf, Calendar!NoCode, Calendar!TransientCodes,
       Calendar!envVars, Calendar!rowVars, CalendarQueue!Init, CalendarQueue!Next,
       CalendarQueue!vars, CalendarQueue!Enqueue, CalendarQueue!Claim, CalendarQueue!ClaimReap,
       CalendarQueue!ClaimRefuse, CalendarQueue!ClaimIssue, CalendarQueue!Fail,
       CalendarQueue!Complete, CalendarQueue!Retry, CalendarQueue!SetTenant,
       CalendarQueue!SetMember, CalendarQueue!Tick, CalendarQueue!Age, CalendarQueue!SomeLive,
       CalendarQueue!Aged, CalendarQueue!Chosen, CalendarQueue!Claimable, CalendarQueue!Issued,
       CalendarQueue!Live, CalendarQueue!Last, CalendarQueue!LastRunning, CalendarQueue!Authorised,
       CalendarQueue!SetAttempt, CalendarQueue!AddAttempt, CalendarQueue!SetRun,
       CalendarQueue!NewAttempt, CalendarQueue!RefusedAttempt, CalendarQueue!FailedAttempt,
       CalendarQueue!TimedOutAttempt, CalendarQueue!SucceededAttempt, CalendarQueue!OfferedIf,
       CalendarQueue!NoCode, CalendarQueue!TransientCodes, CalendarQueue!envVars,
       CalendarQueue!rowVars

-----------------------------------------------------------------------------
(* The inductive invariant.  The proofs of LeaseQueue give the first part; *)
(* the fan-out is right because the second ties each task to the outcome   *)
(* it was made from, and the third each approval to its calendar.          *)
Queues == ResearchQueue!IInv /\ ReelQueue!IInv /\ CalendarQueue!IInv

WonBy(result, n) == result # NoOutcome /\ result.attempt = n
ReelLink(b, n) ==
  /\ (reelRun[<<b, n>>] # "none") <=> WonBy(briefOutcome[b], n)
  /\ reelRun[<<b, n>>] # "none" => reelRequester[<<b, n>>] = briefRequester[b]
CalendarLink(k, n) ==
  /\ (calendarRun[<<k, n>>] # "none") <=> WonBy(reelOutcome[k], n)
  /\ calendarRun[<<k, n>>] # "none" => calendarRequester[<<k, n>>] = reelRequester[k]
Links ==
  /\ \A b \in Briefs, n \in AttemptNumbers : ReelLink(b, n)
  /\ \A k \in ReelTasks, n \in AttemptNumbers : CalendarLink(k, n)

Approvals ==
  /\ strategy \subseteq StrategyApproval
  /\ \A a \in strategy :
       /\ calendarOutcome[a.task] = [attempt |-> a.attempt, digest |-> a.digest]
       /\ a.requester = calendarRequester[a.task]
  /\ \A c \in CalendarTasks : calendarOutcome[c] # NoOutcome => \E a \in strategy : a.task = c

IInv == Queues /\ Links /\ Approvals

LEMMA StageAssumptions ==
  ResearchQueue!LeaseQueueAssumption /\ ReelQueue!LeaseQueueAssumption /\ CalendarQueue!LeaseQueueAssumption
BY ChainAssumption
   DEF Research!LeaseQueueAssumption, Research!Outcome, Research!NoCode,
       ResearchQueue!LeaseQueueAssumption, ResearchQueue!Outcome, ResearchQueue!NoCode,
       ReelQueue!LeaseQueueAssumption, ReelQueue!Outcome, ReelQueue!NoCode,
       CalendarQueue!LeaseQueueAssumption, CalendarQueue!Outcome, CalendarQueue!NoCode

LEMMA ResearchStepKeeps ==
  ASSUME ResearchQueue!IInv, [ResearchQueue!Next]_(ResearchQueue!vars) PROVE ResearchQueue!IInv'
BY StageAssumptions, ResearchQueue!NextIInv

LEMMA ResearchAtRest ==
  ASSUME UNCHANGED researchVars
  PROVE  /\ ResearchQueue!Quiet
         /\ UNCHANGED <<tenantActive, members>> => UNCHANGED ResearchQueue!vars
BY DEF researchVars, ResearchQueue!Quiet, ResearchQueue!vars

LEMMA ReelStepKeeps ==
  ASSUME ReelQueue!IInv, [ReelQueue!Next]_(ReelQueue!vars) PROVE ReelQueue!IInv'
BY StageAssumptions, ReelQueue!NextIInv

LEMMA ReelAtRest ==
  ASSUME UNCHANGED reelVars
  PROVE  /\ ReelQueue!Quiet
         /\ UNCHANGED <<tenantActive, members>> => UNCHANGED ReelQueue!vars
BY DEF reelVars, ReelQueue!Quiet, ReelQueue!vars

LEMMA CalendarStepKeeps ==
  ASSUME CalendarQueue!IInv, [CalendarQueue!Next]_(CalendarQueue!vars) PROVE CalendarQueue!IInv'
BY StageAssumptions, CalendarQueue!NextIInv

LEMMA CalendarAtRest ==
  ASSUME UNCHANGED calendarVars
  PROVE  /\ CalendarQueue!Quiet
         /\ UNCHANGED <<tenantActive, members>> => UNCHANGED CalendarQueue!vars
BY DEF calendarVars, CalendarQueue!Quiet, CalendarQueue!vars

(* A step of each queue, or none, keeps what is known of the queues.       *)
StageSteps ==
  /\ [ResearchQueue!Next]_(ResearchQueue!vars)
  /\ [ReelQueue!Next]_(ReelQueue!vars)
  /\ [CalendarQueue!Next]_(CalendarQueue!vars)

LEMMA QueuesKeep ==
  ASSUME Queues, StageSteps
  PROVE  Queues'
<1>1. ResearchQueue!IInv'
  BY ResearchStepKeeps DEF Queues, StageSteps
<1>2. ReelQueue!IInv'
  BY ReelStepKeeps DEF Queues, StageSteps
<1>3. CalendarQueue!IInv'
  BY CalendarStepKeeps DEF Queues, StageSteps
<1> QED
  BY <1>1, <1>2, <1>3 DEF Queues

(* Commands that are quiet in all three stages keep the ties.              *)
LEMMA QuietKeepsLinks ==
  ASSUME Links, Approvals, strategy' = strategy,
         ResearchQueue!Quiet, ReelQueue!Quiet, CalendarQueue!Quiet
  PROVE  Links' /\ Approvals'
<1>1. ASSUME NEW b \in Briefs, NEW n \in AttemptNumbers PROVE ReelLink(b, n)'
  <2>1. <<b, n>> \in ReelTasks /\ ReelLink(b, n)
    BY DEF ReelTasks, Links
  <2> QED
    BY <2>1 DEF ReelLink, WonBy, ResearchQueue!Quiet, ReelQueue!Quiet
<1>2. ASSUME NEW k \in ReelTasks, NEW n \in AttemptNumbers PROVE CalendarLink(k, n)'
  <2>1. <<k, n>> \in CalendarTasks /\ CalendarLink(k, n)
    BY DEF CalendarTasks, Links
  <2> QED
    BY <2>1 DEF CalendarLink, WonBy, ReelQueue!Quiet, CalendarQueue!Quiet
<1>3. Approvals'
  BY DEF Approvals, CalendarQueue!Quiet
<1> QED
  BY <1>1, <1>2, <1>3 DEF Links

LEMMA SubmitBriefIInv ==
  ASSUME IInv, NEW b \in Briefs, NEW u \in Users, NEW s \in Stamps, SubmitBrief(b, u, s)
  PROVE  StageSteps /\ IInv'
<1>1. ResearchQueue!Enqueue(b, u, s) /\ OnlyResearch
  BY ResearchNames DEF SubmitBrief
<1>2. UNCHANGED <<tenantActive, members>>
  BY <1>1 DEF ResearchQueue!Enqueue, ResearchQueue!envVars
<1>3. ResearchQueue!Next
  BY <1>1 DEF ResearchQueue!Next
<1>4. UNCHANGED ReelQueue!vars /\ UNCHANGED CalendarQueue!vars
  BY <1>1, <1>2, ReelAtRest, CalendarAtRest DEF OnlyResearch
<1>5. StageSteps /\ Queues'
  BY <1>3, <1>4, QueuesKeep DEF IInv, StageSteps
<1>6. briefRun[b] = "none" /\ briefOutcome' = briefOutcome
  BY <1>1 DEF ResearchQueue!Enqueue
<1>7. \A c \in Briefs : c # b => briefRequester'[c] = briefRequester[c]
  BY <1>1 DEF ResearchQueue!Enqueue, IInv, Queues, ResearchQueue!IInv, ResearchQueue!TypeOK
<1>8. briefOutcome[b] = NoOutcome
  BY <1>6, StageAssumptions, ResearchQueue!NoneHasNothing DEF IInv, Queues
<1>9. UNCHANGED <<reelRequester, reelRun, reelOutcome, calendarRequester, calendarRun, calendarOutcome, strategy>>
  BY <1>1 DEF OnlyResearch, reelVars, calendarVars
<1>10. ASSUME NEW c \in Briefs, NEW n \in AttemptNumbers PROVE ReelLink(c, n)'
  <2>1. ReelLink(c, n)
    BY DEF IInv, Links
  <2>2. c # b => briefRequester'[c] = briefRequester[c]
    BY <1>7
  <2>3. c = b => reelRun[<<c, n>>] = "none"
    BY <2>1, <1>8 DEF ReelLink, WonBy
  <2> QED
    BY <2>1, <2>2, <2>3, <1>6, <1>9 DEF ReelLink, WonBy
<1>11. ASSUME NEW k \in ReelTasks, NEW n \in AttemptNumbers PROVE CalendarLink(k, n)'
  <2>1. CalendarLink(k, n)
    BY DEF IInv, Links
  <2> QED
    BY <2>1, <1>9 DEF CalendarLink, WonBy
<1>12. Approvals'
  BY <1>9 DEF IInv, Approvals
<1> QED
  BY <1>5, <1>10, <1>11, <1>12 DEF IInv, Links

(* The other commands of one stage alone.                                  *)
LEMMA ResearchAloneIInv ==
  ASSUME IInv, NEW b \in Briefs,
         \/ ResearchClaim(b)
         \/ \E n \in Research!Issued(b) :
              ResearchRetry(b, n) \/ \E c \in Codes : ResearchFail(b, n, c)
  PROVE  StageSteps /\ IInv'
<1>1. \/ ResearchQueue!Claim(b)
      \/ \E n \in ResearchQueue!Issued(b) :
           ResearchQueue!Retry(b, n) \/ \E c \in Codes : ResearchQueue!Fail(b, n, c)
  BY ResearchNames DEF ResearchClaim, ResearchRetry, ResearchFail
<1>2. OnlyResearch
  BY DEF ResearchClaim, ResearchRetry, ResearchFail
<1>3. UNCHANGED <<tenantActive, members>>
  BY <1>1 DEF ResearchQueue!Claim, ResearchQueue!ClaimReap, ResearchQueue!ClaimRefuse, ResearchQueue!ClaimIssue,
              ResearchQueue!Retry, ResearchQueue!Fail, ResearchQueue!envVars
<1>4. ResearchQueue!Next
  BY <1>1 DEF ResearchQueue!Next
<1>5. UNCHANGED ReelQueue!vars /\ UNCHANGED CalendarQueue!vars
  BY <1>2, <1>3, ReelAtRest, CalendarAtRest DEF OnlyResearch
<1>6. StageSteps /\ Queues'
  BY <1>4, <1>5, QueuesKeep DEF IInv, StageSteps
<1>7. ResearchQueue!Quiet
  BY <1>1, StageAssumptions, ResearchQueue!CommandsAreQuiet DEF IInv, Queues
<1>8. ReelQueue!Quiet /\ CalendarQueue!Quiet /\ strategy' = strategy
  BY <1>2, ReelAtRest, CalendarAtRest DEF OnlyResearch
<1> QED
  BY <1>6, <1>7, <1>8, QuietKeepsLinks DEF IInv

LEMMA ReelAloneIInv ==
  ASSUME IInv, NEW k \in ReelTasks,
         \/ ReelClaim(k)
         \/ \E n \in Reel!Issued(k) :
              ReelRetry(k, n) \/ \E c \in Codes : ReelFail(k, n, c)
  PROVE  StageSteps /\ IInv'
<1>1. \/ ReelQueue!Claim(k)
      \/ \E n \in ReelQueue!Issued(k) :
           ReelQueue!Retry(k, n) \/ \E c \in Codes : ReelQueue!Fail(k, n, c)
  BY ReelNames DEF ReelClaim, ReelIssue, Reel!Claim, ReelRetry, ReelFail
<1>2. OnlyReel
  BY DEF ReelClaim, ReelRetry, ReelFail
<1>3. UNCHANGED <<tenantActive, members>>
  BY <1>1 DEF ReelQueue!Claim, ReelQueue!ClaimReap, ReelQueue!ClaimRefuse, ReelQueue!ClaimIssue,
              ReelQueue!Retry, ReelQueue!Fail, ReelQueue!envVars
<1>4. ReelQueue!Next
  BY <1>1 DEF ReelQueue!Next
<1>5. UNCHANGED ResearchQueue!vars /\ UNCHANGED CalendarQueue!vars
  BY <1>2, <1>3, ResearchAtRest, CalendarAtRest DEF OnlyReel
<1>6. StageSteps /\ Queues'
  BY <1>4, <1>5, QueuesKeep DEF IInv, StageSteps
<1>7. ReelQueue!Quiet
  BY <1>1, StageAssumptions, ReelQueue!CommandsAreQuiet DEF IInv, Queues
<1>8. ResearchQueue!Quiet /\ CalendarQueue!Quiet /\ strategy' = strategy
  BY <1>2, ResearchAtRest, CalendarAtRest DEF OnlyReel
<1> QED
  BY <1>6, <1>7, <1>8, QuietKeepsLinks DEF IInv

LEMMA CalendarAloneIInv ==
  ASSUME IInv, NEW t \in CalendarTasks,
         \/ CalendarClaim(t)
         \/ \E n \in Calendar!Issued(t) :
              CalendarRetry(t, n) \/ \E c \in Codes : CalendarFail(t, n, c)
  PROVE  StageSteps /\ IInv'
<1>1. \/ CalendarQueue!Claim(t)
      \/ \E n \in CalendarQueue!Issued(t) :
           CalendarQueue!Retry(t, n) \/ \E c \in Codes : CalendarQueue!Fail(t, n, c)
  BY CalendarNames DEF CalendarClaim, CalendarIssue, Calendar!Claim, CalendarRetry, CalendarFail
<1>2. OnlyCalendar
  BY DEF CalendarClaim, CalendarRetry, CalendarFail
<1>3. UNCHANGED <<tenantActive, members>>
  BY <1>1 DEF CalendarQueue!Claim, CalendarQueue!ClaimReap, CalendarQueue!ClaimRefuse, CalendarQueue!ClaimIssue,
              CalendarQueue!Retry, CalendarQueue!Fail, CalendarQueue!envVars
<1>4. CalendarQueue!Next
  BY <1>1 DEF CalendarQueue!Next
<1>5. UNCHANGED ResearchQueue!vars /\ UNCHANGED ReelQueue!vars
  BY <1>2, <1>3, ResearchAtRest, ReelAtRest DEF OnlyCalendar
<1>6. StageSteps /\ Queues'
  BY <1>4, <1>5, QueuesKeep DEF IInv, StageSteps
<1>7. CalendarQueue!Quiet
  BY <1>1, StageAssumptions, CalendarQueue!CommandsAreQuiet DEF IInv, Queues
<1>8. ResearchQueue!Quiet /\ ReelQueue!Quiet /\ strategy' = strategy
  BY <1>2, ResearchAtRest, ReelAtRest DEF OnlyCalendar
<1> QED
  BY <1>6, <1>7, <1>8, QuietKeepsLinks DEF IInv

(* What a completion writes in its own queue, and a submission in the next.*)
LEMMA ResearchCompletes ==
  ASSUME Queues, NEW b \in Briefs, NEW n \in ResearchQueue!Issued(b), NEW d \in Digests, ResearchQueue!Complete(b, n, d)
  PROVE  /\ n \in AttemptNumbers
         /\ ResearchQueue!Next
         /\ UNCHANGED <<tenantActive, members, briefRequester>>
         /\ briefOutcome[b] = NoOutcome
         /\ briefOutcome'[b] = [attempt |-> n, digest |-> d] /\ briefOutcome'[b] # NoOutcome
         /\ \A y \in Briefs : y # b => briefOutcome'[y] = briefOutcome[y]
         /\ \A y \in Briefs : (briefRun'[y] = "none") <=> (briefRun[y] = "none")
<1>1. n \in AttemptNumbers
  BY StageAssumptions, ResearchQueue!IssuedNumbers DEF Queues, AttemptNumbers
<1>2. ResearchQueue!Next
  BY DEF ResearchQueue!Next
<1>3. UNCHANGED <<tenantActive, members, briefRequester>>
  BY DEF ResearchQueue!Complete, ResearchQueue!envVars, ResearchQueue!rowVars
<1>4. /\ briefOutcome \in [Briefs -> ResearchQueue!Outcome \cup {NoOutcome}]
      /\ briefRun \in [Briefs -> ResearchQueue!RunStates]
  BY DEF Queues, ResearchQueue!IInv, ResearchQueue!TypeOK
<1>5. /\ briefOutcome[b] = NoOutcome /\ briefRun[b] = "running"
      /\ briefOutcome' = [briefOutcome EXCEPT ![b] = [attempt |-> n, digest |-> d]]
      /\ briefRun' = [briefRun EXCEPT ![b] = "succeeded"]
  BY DEF ResearchQueue!Complete, ResearchQueue!SetRun
<1>6. [attempt |-> n, digest |-> d] # NoOutcome
  <2>1. n \in Nat \ {0}
    BY <1>1, ChainAssumption DEF AttemptNumbers, Research!LeaseQueueAssumption
  <2>2. [attempt |-> n, digest |-> d] \in ResearchQueue!Outcome
    BY <2>1 DEF ResearchQueue!Outcome
  <2>3. NoOutcome \notin ResearchQueue!Outcome
    BY StageAssumptions DEF ResearchQueue!LeaseQueueAssumption
  <2> QED
    BY <2>2, <2>3
<1> QED
  BY <1>1, <1>2, <1>3, <1>4, <1>5, <1>6

LEMMA ReelCompletes ==
  ASSUME Queues, NEW k \in ReelTasks, NEW n \in ReelQueue!Issued(k), NEW d \in Digests, ReelQueue!Complete(k, n, d)
  PROVE  /\ n \in AttemptNumbers
         /\ ReelQueue!Next
         /\ UNCHANGED <<tenantActive, members, reelRequester>>
         /\ reelOutcome[k] = NoOutcome
         /\ reelOutcome'[k] = [attempt |-> n, digest |-> d] /\ reelOutcome'[k] # NoOutcome
         /\ \A y \in ReelTasks : y # k => reelOutcome'[y] = reelOutcome[y]
         /\ \A y \in ReelTasks : (reelRun'[y] = "none") <=> (reelRun[y] = "none")
<1>1. n \in AttemptNumbers
  BY StageAssumptions, ReelQueue!IssuedNumbers DEF Queues, AttemptNumbers
<1>2. ReelQueue!Next
  BY DEF ReelQueue!Next
<1>3. UNCHANGED <<tenantActive, members, reelRequester>>
  BY DEF ReelQueue!Complete, ReelQueue!envVars, ReelQueue!rowVars
<1>4. /\ reelOutcome \in [ReelTasks -> ReelQueue!Outcome \cup {NoOutcome}]
      /\ reelRun \in [ReelTasks -> ReelQueue!RunStates]
  BY DEF Queues, ReelQueue!IInv, ReelQueue!TypeOK
<1>5. /\ reelOutcome[k] = NoOutcome /\ reelRun[k] = "running"
      /\ reelOutcome' = [reelOutcome EXCEPT ![k] = [attempt |-> n, digest |-> d]]
      /\ reelRun' = [reelRun EXCEPT ![k] = "succeeded"]
  BY DEF ReelQueue!Complete, ReelQueue!SetRun
<1>6. [attempt |-> n, digest |-> d] # NoOutcome
  <2>1. n \in Nat \ {0}
    BY <1>1, ChainAssumption DEF AttemptNumbers, Research!LeaseQueueAssumption
  <2>2. [attempt |-> n, digest |-> d] \in ReelQueue!Outcome
    BY <2>1 DEF ReelQueue!Outcome
  <2>3. NoOutcome \notin ReelQueue!Outcome
    BY StageAssumptions DEF ReelQueue!LeaseQueueAssumption
  <2> QED
    BY <2>2, <2>3
<1> QED
  BY <1>1, <1>2, <1>3, <1>4, <1>5, <1>6

LEMMA CalendarCompletes ==
  ASSUME Queues, NEW t \in CalendarTasks, NEW n \in CalendarQueue!Issued(t), NEW d \in Digests, CalendarQueue!Complete(t, n, d)
  PROVE  /\ n \in AttemptNumbers
         /\ CalendarQueue!Next
         /\ UNCHANGED <<tenantActive, members, calendarRequester>>
         /\ calendarOutcome[t] = NoOutcome
         /\ calendarOutcome'[t] = [attempt |-> n, digest |-> d] /\ calendarOutcome'[t] # NoOutcome
         /\ \A y \in CalendarTasks : y # t => calendarOutcome'[y] = calendarOutcome[y]
         /\ \A y \in CalendarTasks : (calendarRun'[y] = "none") <=> (calendarRun[y] = "none")
<1>1. n \in AttemptNumbers
  BY StageAssumptions, CalendarQueue!IssuedNumbers DEF Queues, AttemptNumbers
<1>2. CalendarQueue!Next
  BY DEF CalendarQueue!Next
<1>3. UNCHANGED <<tenantActive, members, calendarRequester>>
  BY DEF CalendarQueue!Complete, CalendarQueue!envVars, CalendarQueue!rowVars
<1>4. /\ calendarOutcome \in [CalendarTasks -> CalendarQueue!Outcome \cup {NoOutcome}]
      /\ calendarRun \in [CalendarTasks -> CalendarQueue!RunStates]
  BY DEF Queues, CalendarQueue!IInv, CalendarQueue!TypeOK
<1>5. /\ calendarOutcome[t] = NoOutcome /\ calendarRun[t] = "running"
      /\ calendarOutcome' = [calendarOutcome EXCEPT ![t] = [attempt |-> n, digest |-> d]]
      /\ calendarRun' = [calendarRun EXCEPT ![t] = "succeeded"]
  BY DEF CalendarQueue!Complete, CalendarQueue!SetRun
<1>6. [attempt |-> n, digest |-> d] # NoOutcome
  <2>1. n \in Nat \ {0}
    BY <1>1, ChainAssumption DEF AttemptNumbers, Research!LeaseQueueAssumption
  <2>2. [attempt |-> n, digest |-> d] \in CalendarQueue!Outcome
    BY <2>1 DEF CalendarQueue!Outcome
  <2>3. NoOutcome \notin CalendarQueue!Outcome
    BY StageAssumptions DEF CalendarQueue!LeaseQueueAssumption
  <2> QED
    BY <2>2, <2>3
<1> QED
  BY <1>1, <1>2, <1>3, <1>4, <1>5, <1>6

LEMMA ReelEnqueues ==
  ASSUME Queues, NEW k \in ReelTasks, NEW u, NEW s \in Stamps, ReelQueue!Enqueue(k, u, s)
  PROVE  /\ ReelQueue!Next
         /\ reelRun[k] = "none" /\ reelOutcome[k] = NoOutcome
         /\ reelOutcome' = reelOutcome
         /\ reelRun'[k] = "queued" /\ reelRequester'[k] = u
         /\ \A y \in ReelTasks : y # k => reelRun'[y] = reelRun[y] /\ reelRequester'[y] = reelRequester[y]
<1>1. /\ members \subseteq Users
      /\ reelRun \in [ReelTasks -> ReelQueue!RunStates]
      /\ reelRequester \in [ReelTasks -> Users \cup {NoUser}]
  BY DEF Queues, ReelQueue!IInv, ReelQueue!TypeOK
<1>2. /\ u \in members /\ reelRun[k] = "none" /\ reelOutcome' = reelOutcome
      /\ reelRequester' = [reelRequester EXCEPT ![k] = u]
      /\ reelRun' = [reelRun EXCEPT ![k] = "queued"]
  BY DEF ReelQueue!Enqueue, ReelQueue!SetRun
<1>3. ReelQueue!Next
  BY <1>1, <1>2 DEF ReelQueue!Next
<1>4. reelOutcome[k] = NoOutcome
  BY <1>2, StageAssumptions, ReelQueue!NoneHasNothing DEF Queues
<1> QED
  BY <1>1, <1>2, <1>3, <1>4

LEMMA CalendarEnqueues ==
  ASSUME Queues, NEW t \in CalendarTasks, NEW u, NEW s \in Stamps, CalendarQueue!Enqueue(t, u, s)
  PROVE  /\ CalendarQueue!Next
         /\ calendarRun[t] = "none" /\ calendarOutcome[t] = NoOutcome
         /\ calendarOutcome' = calendarOutcome
         /\ calendarRun'[t] = "queued" /\ calendarRequester'[t] = u
         /\ \A y \in CalendarTasks : y # t => calendarRun'[y] = calendarRun[y] /\ calendarRequester'[y] = calendarRequester[y]
<1>1. /\ members \subseteq Users
      /\ calendarRun \in [CalendarTasks -> CalendarQueue!RunStates]
      /\ calendarRequester \in [CalendarTasks -> Users \cup {NoUser}]
  BY DEF Queues, CalendarQueue!IInv, CalendarQueue!TypeOK
<1>2. /\ u \in members /\ calendarRun[t] = "none" /\ calendarOutcome' = calendarOutcome
      /\ calendarRequester' = [calendarRequester EXCEPT ![t] = u]
      /\ calendarRun' = [calendarRun EXCEPT ![t] = "queued"]
  BY DEF CalendarQueue!Enqueue, CalendarQueue!SetRun
<1>3. CalendarQueue!Next
  BY <1>1, <1>2 DEF CalendarQueue!Next
<1>4. calendarOutcome[t] = NoOutcome
  BY <1>2, StageAssumptions, CalendarQueue!NoneHasNothing DEF Queues
<1> QED
  BY <1>1, <1>2, <1>3, <1>4

(* What an approval names is an outcome, never the absence of one.         *)
LEMMA ApprovedIsNoNothing ==
  ASSUME NEW a \in StrategyApproval
  PROVE  [attempt |-> a.attempt, digest |-> a.digest] # NoOutcome
<1>1. a.attempt \in Nat \ {0} /\ a.digest \in Digests
  BY ChainAssumption DEF StrategyApproval, AttemptNumbers, Research!LeaseQueueAssumption
<1>2. [attempt |-> a.attempt, digest |-> a.digest] \in Research!Outcome
  BY <1>1 DEF Research!Outcome
<1> QED
  BY <1>2, ChainAssumption DEF Research!LeaseQueueAssumption

(* The completion of a research attempt with its fan-out.                  *)
LEMMA ResearchCompleteIInv ==
  ASSUME IInv, NEW b \in Briefs, NEW n \in Research!Issued(b), NEW d \in Digests, NEW s \in Stamps,
         ResearchComplete(b, n, d, s)
  PROVE  StageSteps /\ IInv'
<1>1. /\ ResearchQueue!Complete(b, n, d) /\ n \in ResearchQueue!Issued(b)
      /\ ReelQueue!Enqueue(<<b, n>>, briefRequester[b], s)
      /\ UNCHANGED calendarVars /\ strategy' = strategy
  BY ResearchNames, ReelNames DEF ResearchComplete, ReelTaskOf
<1>2. /\ n \in AttemptNumbers /\ ResearchQueue!Next
      /\ UNCHANGED <<tenantActive, members, briefRequester>>
      /\ briefOutcome[b] = NoOutcome /\ briefOutcome'[b] # NoOutcome
      /\ briefOutcome'[b] = [attempt |-> n, digest |-> d]
      /\ \A y \in Briefs : y # b => briefOutcome'[y] = briefOutcome[y]
  BY <1>1, ResearchCompletes DEF IInv
<1>3. <<b, n>> \in ReelTasks
  BY <1>2 DEF ReelTasks
<1>4. /\ ReelQueue!Next
      /\ reelRun[<<b, n>>] = "none" /\ reelOutcome[<<b, n>>] = NoOutcome
      /\ reelOutcome' = reelOutcome
      /\ reelRun'[<<b, n>>] = "queued" /\ reelRequester'[<<b, n>>] = briefRequester[b]
      /\ \A y \in ReelTasks : y # <<b, n>> => reelRun'[y] = reelRun[y] /\ reelRequester'[y] = reelRequester[y]
  BY <1>1, <1>3, ReelEnqueues DEF IInv
<1>5. StageSteps /\ Queues'
  <2>1. UNCHANGED CalendarQueue!vars
    BY <1>1, <1>2, CalendarAtRest
  <2> QED
    BY <2>1, <1>2, <1>4, QueuesKeep DEF IInv, StageSteps
<1>6. ASSUME NEW c \in Briefs, NEW m \in AttemptNumbers PROVE ReelLink(c, m)'
  <2>1. ReelLink(c, m) /\ <<c, m>> \in ReelTasks
    BY DEF IInv, Links, ReelTasks
  <2>2. CASE c = b /\ m = n
    BY <2>2, <1>2, <1>4 DEF ReelLink, WonBy
  <2>3. CASE c = b /\ m # n
    <3>1. reelRun[<<c, m>>] = "none"
      BY <2>1, <2>3, <1>2 DEF ReelLink, WonBy
    <3>2. reelRun'[<<c, m>>] = "none"
      BY <3>1, <2>1, <2>3, <1>4
    <3> QED
      BY <3>2, <2>3, <1>2 DEF ReelLink, WonBy
  <2>4. CASE c # b
    <3>1. reelRun'[<<c, m>>] = reelRun[<<c, m>>] /\ reelRequester'[<<c, m>>] = reelRequester[<<c, m>>]
      BY <2>1, <2>4, <1>4
    <3> QED
      BY <3>1, <2>1, <2>4, <1>2 DEF ReelLink, WonBy
  <2> QED
    BY <2>2, <2>3, <2>4
<1>7. ASSUME NEW k \in ReelTasks, NEW m \in AttemptNumbers PROVE CalendarLink(k, m)'
  <2>1. CalendarLink(k, m)
    BY DEF IInv, Links
  <2>2. calendarRun' = calendarRun /\ calendarRequester' = calendarRequester
    BY <1>1 DEF calendarVars
  <2>3. k = <<b, n>> => calendarRun[<<k, m>>] = "none"
    BY <2>1, <1>4 DEF CalendarLink, WonBy
  <2>4. k # <<b, n>> => reelRequester'[k] = reelRequester[k]
    BY <1>4
  <2> QED
    BY <2>1, <2>2, <2>3, <2>4, <1>4 DEF CalendarLink, WonBy
<1>8. Approvals'
  BY <1>1 DEF IInv, Approvals, calendarVars
<1> QED
  BY <1>5, <1>6, <1>7, <1>8 DEF IInv, Links

(* The completion of a reel analysis with its fan-out.                     *)
LEMMA ReelCompleteIInv ==
  ASSUME IInv, NEW k \in ReelTasks, NEW n \in Reel!Issued(k), NEW d \in Digests, NEW s \in Stamps,
         ReelComplete(k, n, d, s)
  PROVE  StageSteps /\ IInv'
<1>1. /\ ReelQueue!Complete(k, n, d) /\ n \in ReelQueue!Issued(k)
      /\ CalendarQueue!Enqueue(<<k, n>>, reelRequester[k], s)
      /\ UNCHANGED researchVars /\ strategy' = strategy
  BY ReelNames, CalendarNames DEF ReelComplete, CalendarTaskOf
<1>2. /\ n \in AttemptNumbers /\ ReelQueue!Next
      /\ UNCHANGED <<tenantActive, members, reelRequester>>
      /\ reelOutcome[k] = NoOutcome /\ reelOutcome'[k] # NoOutcome
      /\ reelOutcome'[k] = [attempt |-> n, digest |-> d]
      /\ \A y \in ReelTasks : y # k => reelOutcome'[y] = reelOutcome[y]
      /\ \A y \in ReelTasks : (reelRun'[y] = "none") <=> (reelRun[y] = "none")
  BY <1>1, ReelCompletes DEF IInv
<1>3. <<k, n>> \in CalendarTasks
  BY <1>2 DEF CalendarTasks
<1>4. /\ CalendarQueue!Next
      /\ calendarRun[<<k, n>>] = "none" /\ calendarOutcome[<<k, n>>] = NoOutcome
      /\ calendarOutcome' = calendarOutcome
      /\ calendarRun'[<<k, n>>] = "queued" /\ calendarRequester'[<<k, n>>] = reelRequester[k]
      /\ \A y \in CalendarTasks :
           y # <<k, n>> => calendarRun'[y] = calendarRun[y] /\ calendarRequester'[y] = calendarRequester[y]
  BY <1>1, <1>3, CalendarEnqueues DEF IInv
<1>5. StageSteps /\ Queues'
  <2>1. UNCHANGED ResearchQueue!vars
    BY <1>1, <1>2, ResearchAtRest
  <2> QED
    BY <2>1, <1>2, <1>4, QueuesKeep DEF IInv, StageSteps
<1>6. ASSUME NEW b \in Briefs, NEW m \in AttemptNumbers PROVE ReelLink(b, m)'
  <2>1. ReelLink(b, m) /\ <<b, m>> \in ReelTasks
    BY DEF IInv, Links, ReelTasks
  <2>2. UNCHANGED <<briefOutcome, briefRequester, reelRequester>>
    BY <1>1, <1>2 DEF researchVars
  <2>3. (reelRun'[<<b, m>>] = "none") <=> (reelRun[<<b, m>>] = "none")
    BY <2>1, <1>2
  <2> QED
    BY <2>1, <2>2, <2>3 DEF ReelLink, WonBy
<1>7. ASSUME NEW j \in ReelTasks, NEW m \in AttemptNumbers PROVE CalendarLink(j, m)'
  <2>1. CalendarLink(j, m) /\ <<j, m>> \in CalendarTasks
    BY DEF IInv, Links, CalendarTasks
  <2>2. CASE j = k /\ m = n
    BY <2>2, <1>2, <1>4 DEF CalendarLink, WonBy
  <2>3. CASE j = k /\ m # n
    <3>1. calendarRun[<<j, m>>] = "none"
      BY <2>1, <2>3, <1>2 DEF CalendarLink, WonBy
    <3>2. calendarRun'[<<j, m>>] = "none"
      BY <3>1, <2>1, <2>3, <1>4
    <3> QED
      BY <3>2, <2>3, <1>2 DEF CalendarLink, WonBy
  <2>4. CASE j # k
    <3>1. /\ calendarRun'[<<j, m>>] = calendarRun[<<j, m>>]
          /\ calendarRequester'[<<j, m>>] = calendarRequester[<<j, m>>]
      BY <2>1, <2>4, <1>4
    <3> QED
      BY <3>1, <2>1, <2>4, <1>2 DEF CalendarLink, WonBy
  <2> QED
    BY <2>2, <2>3, <2>4
<1>8. Approvals'
  <2>1. ASSUME NEW a \in strategy PROVE a.task # <<k, n>>
    <3>1. a \in StrategyApproval /\ calendarOutcome[a.task] = [attempt |-> a.attempt, digest |-> a.digest]
      BY DEF IInv, Approvals
    <3> QED
      BY <3>1, <1>4, ApprovedIsNoNothing
  <2>2. ASSUME NEW a \in strategy PROVE calendarRequester'[a.task] = calendarRequester[a.task]
    <3>1. a.task \in CalendarTasks
      BY DEF IInv, Approvals, StrategyApproval
    <3> QED
      BY <3>1, <2>1, <1>4
  <2> QED
    BY <2>2, <1>1, <1>4 DEF IInv, Approvals
<1> QED
  BY <1>5, <1>6, <1>7, <1>8 DEF IInv, Links

(* The completion of a calendar with its approval.                         *)
LEMMA CalendarCompleteIInv ==
  ASSUME IInv, NEW t \in CalendarTasks, NEW n \in Calendar!Issued(t), NEW d \in Digests,
         CalendarComplete(t, n, d)
  PROVE  StageSteps /\ IInv'
<1> DEFINE made == [task |-> t, attempt |-> n, digest |-> d, requester |-> calendarRequester[t]]
<1>1. /\ CalendarQueue!Complete(t, n, d) /\ n \in CalendarQueue!Issued(t)
      /\ strategy' = strategy \cup {made}
      /\ UNCHANGED researchVars /\ UNCHANGED reelVars
  BY CalendarNames DEF CalendarComplete
<1>2. /\ n \in AttemptNumbers /\ CalendarQueue!Next
      /\ UNCHANGED <<tenantActive, members, calendarRequester>>
      /\ calendarOutcome[t] = NoOutcome /\ calendarOutcome'[t] = [attempt |-> n, digest |-> d]
      /\ \A y \in CalendarTasks : y # t => calendarOutcome'[y] = calendarOutcome[y]
      /\ \A y \in CalendarTasks : (calendarRun'[y] = "none") <=> (calendarRun[y] = "none")
  BY <1>1, CalendarCompletes DEF IInv
<1>3. StageSteps /\ Queues'
  <2>1. UNCHANGED ResearchQueue!vars /\ UNCHANGED ReelQueue!vars
    BY <1>1, <1>2, ResearchAtRest, ReelAtRest
  <2> QED
    BY <2>1, <1>2, QueuesKeep DEF IInv, StageSteps
<1>4. ASSUME NEW b \in Briefs, NEW m \in AttemptNumbers PROVE ReelLink(b, m)'
  <2>1. ReelLink(b, m)
    BY DEF IInv, Links
  <2> QED
    BY <2>1, <1>1 DEF ReelLink, WonBy, researchVars, reelVars
<1>5. ASSUME NEW k \in ReelTasks, NEW m \in AttemptNumbers PROVE CalendarLink(k, m)'
  <2>1. CalendarLink(k, m) /\ <<k, m>> \in CalendarTasks
    BY DEF IInv, Links, CalendarTasks
  <2>2. (calendarRun'[<<k, m>>] = "none") <=> (calendarRun[<<k, m>>] = "none")
    BY <2>1, <1>2
  <2>3. UNCHANGED <<reelOutcome, reelRequester, calendarRequester>>
    BY <1>1, <1>2 DEF reelVars
  <2> QED
    BY <2>1, <2>2, <2>3 DEF CalendarLink, WonBy
<1>6. made \in StrategyApproval
  <2>1. calendarRequester[t] \in Users
    BY <1>1 DEF CalendarQueue!Complete, CalendarQueue!Authorised, IInv, Queues, CalendarQueue!IInv, CalendarQueue!TypeOK
  <2> QED
    BY <2>1, <1>2 DEF StrategyApproval
<1>7. Approvals'
  <2>1. ASSUME NEW a \in strategy
        PROVE  /\ calendarOutcome'[a.task] = [attempt |-> a.attempt, digest |-> a.digest]
               /\ a.requester = calendarRequester'[a.task]
    <3>1. /\ a \in StrategyApproval /\ a.requester = calendarRequester[a.task]
          /\ calendarOutcome[a.task] = [attempt |-> a.attempt, digest |-> a.digest]
      BY DEF IInv, Approvals
    <3>2. a.task # t /\ a.task \in CalendarTasks
      BY <3>1, <1>2, ApprovedIsNoNothing DEF StrategyApproval
    <3> QED
      BY <3>1, <3>2, <1>2
  <2>2. /\ calendarOutcome'[made.task] = [attempt |-> made.attempt, digest |-> made.digest]
        /\ made.requester = calendarRequester'[made.task]
    BY <1>2
  <2>3. ASSUME NEW c \in CalendarTasks, calendarOutcome'[c] # NoOutcome PROVE \E a \in strategy' : a.task = c
    <3>1. CASE c = t
      <4>1. made \in strategy' /\ made.task = t
        BY <1>1
      <4> QED
        BY <4>1, <3>1
    <3>2. CASE c # t
      BY <2>3, <3>2, <1>1, <1>2 DEF IInv, Approvals
    <3> QED
      BY <3>1, <3>2
  <2>4. strategy' \subseteq StrategyApproval
    BY <1>1, <1>6 DEF IInv, Approvals
  <2>5. ASSUME NEW a \in strategy'
        PROVE  /\ calendarOutcome'[a.task] = [attempt |-> a.attempt, digest |-> a.digest]
               /\ a.requester = calendarRequester'[a.task]
    <3>1. a \in strategy \/ a = made
      BY <1>1
    <3> QED
      BY <3>1, <2>1, <2>2
  <2> QED
    BY <2>3, <2>4, <2>5 DEF Approvals
<1> QED
  BY <1>3, <1>4, <1>5, <1>7 DEF IInv, Links

(* Tenants and members change for all stages alike.                        *)
LEMMA EnvironmentIInv ==
  ASSUME IInv, SetTenant \/ \E u \in Users : SetMember(u)
  PROVE  StageSteps /\ IInv'
<1>1. UNCHANGED <<researchVars, reelVars, calendarVars, strategy>>
  BY DEF SetTenant, SetMember, Research!SetTenant, Research!SetMember, Research!rowVars, researchVars
<1>2. \/ tenantActive' = ~ tenantActive /\ members' = members
      \/ \E u \in Users : /\ members' = IF u \in members THEN members \ {u} ELSE members \cup {u}
                          /\ tenantActive' = tenantActive
  BY DEF SetTenant, SetMember, Research!SetTenant, Research!SetMember
<1>3. ResearchQueue!Next
  BY <1>1, <1>2 DEF researchVars, ResearchQueue!Next, ResearchQueue!SetTenant, ResearchQueue!SetMember,
                    ResearchQueue!rowVars
<1>4. ReelQueue!Next
  BY <1>1, <1>2 DEF reelVars, ReelQueue!Next, ReelQueue!SetTenant, ReelQueue!SetMember, ReelQueue!rowVars
<1>5. CalendarQueue!Next
  BY <1>1, <1>2 DEF calendarVars, CalendarQueue!Next, CalendarQueue!SetTenant, CalendarQueue!SetMember,
                    CalendarQueue!rowVars
<1>6. StageSteps /\ Queues'
  BY <1>3, <1>4, <1>5, QueuesKeep DEF IInv, StageSteps
<1>7. ResearchQueue!Quiet /\ ReelQueue!Quiet /\ CalendarQueue!Quiet /\ strategy' = strategy
  BY <1>1, ResearchAtRest, ReelAtRest, CalendarAtRest
<1> QED
  BY <1>6, <1>7, QuietKeepsLinks DEF IInv

(* Time passes for each stage, or changes nothing in it.                   *)
LEMMA ResearchAges ==
  ASSUME Queues, ResearchQueue!Age, UNCHANGED <<tenantActive, members, briefRequester, briefCreated, briefRun, briefOutcome>>
  PROVE  /\ ResearchQueue!Tick \/ UNCHANGED ResearchQueue!vars
         /\ [ResearchQueue!Next]_(ResearchQueue!vars)
         /\ ResearchQueue!Quiet
<1>1. ASSUME ResearchQueue!SomeLive PROVE ResearchQueue!Next /\ ResearchQueue!Tick
  BY <1>1 DEF ResearchQueue!Next, ResearchQueue!Tick, ResearchQueue!envVars, ResearchQueue!rowVars
<1>2. ASSUME ~ ResearchQueue!SomeLive PROVE UNCHANGED ResearchQueue!vars
  <2>1. briefAttempts \in [Briefs -> Seq(ResearchQueue!Attempt)]
    BY DEF Queues, ResearchQueue!IInv, ResearchQueue!TypeOK
  <2>2. briefAttempts' = briefAttempts
    BY <1>2, <2>1, StageAssumptions, ResearchQueue!IdleAge
  <2> QED
    BY <2>2 DEF ResearchQueue!vars
<1>3. ResearchQueue!Quiet
  BY DEF ResearchQueue!Quiet
<1> QED
  BY <1>1, <1>2, <1>3

LEMMA ReelAges ==
  ASSUME Queues, ReelQueue!Age, UNCHANGED <<tenantActive, members, reelRequester, reelCreated, reelRun, reelOutcome>>
  PROVE  /\ ReelQueue!Tick \/ UNCHANGED ReelQueue!vars
         /\ [ReelQueue!Next]_(ReelQueue!vars)
         /\ ReelQueue!Quiet
<1>1. ASSUME ReelQueue!SomeLive PROVE ReelQueue!Next /\ ReelQueue!Tick
  BY <1>1 DEF ReelQueue!Next, ReelQueue!Tick, ReelQueue!envVars, ReelQueue!rowVars
<1>2. ASSUME ~ ReelQueue!SomeLive PROVE UNCHANGED ReelQueue!vars
  <2>1. reelAttempts \in [ReelTasks -> Seq(ReelQueue!Attempt)]
    BY DEF Queues, ReelQueue!IInv, ReelQueue!TypeOK
  <2>2. reelAttempts' = reelAttempts
    BY <1>2, <2>1, StageAssumptions, ReelQueue!IdleAge
  <2> QED
    BY <2>2 DEF ReelQueue!vars
<1>3. ReelQueue!Quiet
  BY DEF ReelQueue!Quiet
<1> QED
  BY <1>1, <1>2, <1>3

LEMMA CalendarAges ==
  ASSUME Queues, CalendarQueue!Age, UNCHANGED <<tenantActive, members, calendarRequester, calendarCreated, calendarRun, calendarOutcome>>
  PROVE  /\ CalendarQueue!Tick \/ UNCHANGED CalendarQueue!vars
         /\ [CalendarQueue!Next]_(CalendarQueue!vars)
         /\ CalendarQueue!Quiet
<1>1. ASSUME CalendarQueue!SomeLive PROVE CalendarQueue!Next /\ CalendarQueue!Tick
  BY <1>1 DEF CalendarQueue!Next, CalendarQueue!Tick, CalendarQueue!envVars, CalendarQueue!rowVars
<1>2. ASSUME ~ CalendarQueue!SomeLive PROVE UNCHANGED CalendarQueue!vars
  <2>1. calendarAttempts \in [CalendarTasks -> Seq(CalendarQueue!Attempt)]
    BY DEF Queues, CalendarQueue!IInv, CalendarQueue!TypeOK
  <2>2. calendarAttempts' = calendarAttempts
    BY <1>2, <2>1, StageAssumptions, CalendarQueue!IdleAge
  <2> QED
    BY <2>2 DEF CalendarQueue!vars
<1>3. CalendarQueue!Quiet
  BY DEF CalendarQueue!Quiet
<1> QED
  BY <1>1, <1>2, <1>3

LEMMA TickIInv ==
  ASSUME IInv, Tick
  PROVE  StageSteps /\ IInv'
<1>1. /\ ResearchQueue!Age /\ ReelQueue!Age /\ CalendarQueue!Age /\ strategy' = strategy
      /\ UNCHANGED <<tenantActive, members, briefRequester, briefCreated, briefRun, briefOutcome>>
      /\ UNCHANGED <<reelRequester, reelCreated, reelRun, reelOutcome>>
      /\ UNCHANGED <<calendarRequester, calendarCreated, calendarRun, calendarOutcome>>
  BY ResearchNames, ReelNames, CalendarNames DEF Tick
<1>2. [ResearchQueue!Next]_(ResearchQueue!vars) /\ ResearchQueue!Quiet
  BY <1>1, ResearchAges DEF IInv
<1>3. [ReelQueue!Next]_(ReelQueue!vars) /\ ReelQueue!Quiet
  BY <1>1, ReelAges DEF IInv
<1>4. [CalendarQueue!Next]_(CalendarQueue!vars) /\ CalendarQueue!Quiet
  BY <1>1, CalendarAges DEF IInv
<1>5. StageSteps /\ Queues'
  BY <1>2, <1>3, <1>4, QueuesKeep DEF IInv, StageSteps
<1> QED
  BY <1>1, <1>2, <1>3, <1>4, <1>5, QuietKeepsLinks DEF IInv

LEMMA StutterIInv ==
  ASSUME IInv, UNCHANGED vars
  PROVE  StageSteps /\ IInv'
<1>1. UNCHANGED <<tenantActive, members>> /\ UNCHANGED researchVars /\ UNCHANGED reelVars
      /\ UNCHANGED calendarVars /\ strategy' = strategy
  BY DEF vars
<1>2. /\ UNCHANGED ResearchQueue!vars /\ UNCHANGED ReelQueue!vars /\ UNCHANGED CalendarQueue!vars
      /\ ResearchQueue!Quiet /\ ReelQueue!Quiet /\ CalendarQueue!Quiet
  BY <1>1, ResearchAtRest, ReelAtRest, CalendarAtRest
<1>3. StageSteps /\ Queues'
  BY <1>2, QueuesKeep DEF IInv, StageSteps
<1> QED
  BY <1>1, <1>2, <1>3, QuietKeepsLinks DEF IInv

(* The invariant holds at first: there are no tasks at all.                *)
THEOREM InitIInv == Init => IInv
<1> SUFFICES ASSUME Init PROVE IInv
  OBVIOUS
<1>1. ResearchQueue!Init /\ ReelQueue!Init /\ CalendarQueue!Init /\ strategy = {}
  BY ResearchNames, ReelNames, CalendarNames DEF Init
<1>2. Queues
  BY <1>1, StageAssumptions, ResearchQueue!InitIInv, ReelQueue!InitIInv, CalendarQueue!InitIInv DEF Queues
<1>3. Links
  BY <1>1 DEF Links, ReelLink, CalendarLink, WonBy, ReelTasks, CalendarTasks, ResearchQueue!Init,
              ReelQueue!Init, CalendarQueue!Init
<1>4. Approvals
  BY <1>1 DEF Approvals, CalendarQueue!Init
<1> QED
  BY <1>2, <1>3, <1>4 DEF IInv

(* Every step keeps the invariant, and is a step of each stage's queue or  *)
(* none of its business.                                                   *)
THEOREM NextIInv ==
  ASSUME IInv, [Next]_vars
  PROVE  StageSteps /\ IInv'
<1>1. CASE ResearchStep
  <2> PICK b \in Briefs :
        \/ \E u \in Users, s \in Stamps : SubmitBrief(b, u, s)
        \/ ResearchClaim(b)
        \/ \E n \in Research!Issued(b), c \in Codes : ResearchFail(b, n, c)
        \/ \E n \in Research!Issued(b) : ResearchRetry(b, n)
        \/ \E n \in Research!Issued(b), d \in Digests, s \in Stamps : ResearchComplete(b, n, d, s)
    BY <1>1 DEF ResearchStep
  <2>1. CASE \E u \in Users, s \in Stamps : SubmitBrief(b, u, s)
    BY <2>1, SubmitBriefIInv
  <2>2. CASE \/ ResearchClaim(b)
             \/ \E n \in Research!Issued(b), c \in Codes : ResearchFail(b, n, c)
             \/ \E n \in Research!Issued(b) : ResearchRetry(b, n)
    BY <2>2, ResearchAloneIInv
  <2>3. CASE \E n \in Research!Issued(b), d \in Digests, s \in Stamps : ResearchComplete(b, n, d, s)
    BY <2>3, ResearchCompleteIInv
  <2> QED
    BY <2>1, <2>2, <2>3
<1>2. CASE ReelStep
  <2> PICK k \in ReelTasks :
        \/ ReelClaim(k)
        \/ \E n \in Reel!Issued(k), c \in Codes : ReelFail(k, n, c)
        \/ \E n \in Reel!Issued(k) : ReelRetry(k, n)
        \/ \E n \in Reel!Issued(k), d \in Digests, s \in Stamps : ReelComplete(k, n, d, s)
    BY <1>2 DEF ReelStep
  <2>2. CASE \/ ReelClaim(k)
             \/ \E n \in Reel!Issued(k), c \in Codes : ReelFail(k, n, c)
             \/ \E n \in Reel!Issued(k) : ReelRetry(k, n)
    BY <2>2, ReelAloneIInv
  <2>3. CASE \E n \in Reel!Issued(k), d \in Digests, s \in Stamps : ReelComplete(k, n, d, s)
    BY <2>3, ReelCompleteIInv
  <2> QED
    BY <2>2, <2>3
<1>3. CASE CalendarStep
  <2> PICK t \in CalendarTasks :
        \/ CalendarClaim(t)
        \/ \E n \in Calendar!Issued(t), c \in Codes : CalendarFail(t, n, c)
        \/ \E n \in Calendar!Issued(t) : CalendarRetry(t, n)
        \/ \E n \in Calendar!Issued(t), d \in Digests : CalendarComplete(t, n, d)
    BY <1>3 DEF CalendarStep
  <2>2. CASE \/ CalendarClaim(t)
             \/ \E n \in Calendar!Issued(t), c \in Codes : CalendarFail(t, n, c)
             \/ \E n \in Calendar!Issued(t) : CalendarRetry(t, n)
    BY <2>2, CalendarAloneIInv
  <2>3. CASE \E n \in Calendar!Issued(t), d \in Digests : CalendarComplete(t, n, d)
    BY <2>3, CalendarCompleteIInv
  <2> QED
    BY <2>2, <2>3
<1>4. CASE SetTenant \/ \E u \in Users : SetMember(u)
  BY <1>4, EnvironmentIInv
<1>5. CASE Tick
  BY <1>5, TickIInv
<1>6. CASE UNCHANGED vars
  BY <1>6, StutterIInv
<1> QED
  BY <1>1, <1>2, <1>3, <1>4, <1>5, <1>6 DEF Next

(* Whatever the sizes, every reachable state satisfies the invariant.      *)
THEOREM Invariance == Spec => []IInv
<1>1. Init => IInv
  BY InitIInv
<1>2. IInv /\ [Next]_vars => IInv'
  BY NextIInv
<1> QED
  BY <1>1, <1>2, PTL DEF Spec

-----------------------------------------------------------------------------
(* The rows of the three queues and of the approvals are well-formed.      *)
THEOREM TypeCorrectness == Spec => []TypeOK
<1>1. IInv => TypeOK
  <2>1. ResearchQueue!TypeOK => Research!TypeOK
    BY DEF ResearchQueue!TypeOK, ResearchQueue!RunStates, ResearchQueue!AttemptStates, ResearchQueue!Attempt, ResearchQueue!Outcome, ResearchQueue!NoCode,
           Research!TypeOK, Research!RunStates, Research!AttemptStates, Research!Attempt, Research!Outcome, Research!NoCode
  <2>2. ReelQueue!TypeOK => Reel!TypeOK
    BY DEF ReelQueue!TypeOK, ReelQueue!RunStates, ReelQueue!AttemptStates, ReelQueue!Attempt, ReelQueue!Outcome, ReelQueue!NoCode,
           Reel!TypeOK, Reel!RunStates, Reel!AttemptStates, Reel!Attempt, Reel!Outcome, Reel!NoCode
  <2>3. CalendarQueue!TypeOK => Calendar!TypeOK
    BY DEF CalendarQueue!TypeOK, CalendarQueue!RunStates, CalendarQueue!AttemptStates, CalendarQueue!Attempt, CalendarQueue!Outcome, CalendarQueue!NoCode,
           Calendar!TypeOK, Calendar!RunStates, Calendar!AttemptStates, Calendar!Attempt, Calendar!Outcome, Calendar!NoCode
  <2> QED
    BY <2>1, <2>2, <2>3 DEF IInv, Queues, Approvals, TypeOK, ResearchQueue!IInv, ReelQueue!IInv, CalendarQueue!IInv
<1> QED
  BY <1>1, Invariance, PTL

(* The submissions, claims and verdicts of one stage are, seen from each   *)
(* other stage, either nothing or one submission: every stage keeps what   *)
(* is proved of a queue alone.                                             *)
THEOREM EveryStageIsAQueue == Spec => StagesAreQueues
<1>1. Spec => Research!Spec
  <2>1. Init => Research!Init
    BY DEF Init
  <2>2. IInv /\ [Next]_vars => [Research!Next]_(Research!vars)
    <3>1. IInv /\ [Next]_vars => [ResearchQueue!Next]_(ResearchQueue!vars)
      BY NextIInv DEF StageSteps
    <3>2. (Research!Next <=> ResearchQueue!Next) /\ (UNCHANGED Research!vars <=> UNCHANGED ResearchQueue!vars)
      BY ResearchNames DEF Research!vars, ResearchQueue!vars
    <3> QED
      BY <3>1, <3>2
  <2> QED
    BY <2>1, <2>2, Invariance, PTL DEF Spec, Research!Spec
<1>2. Spec => Reel!Spec
  <2>1. Init => Reel!Init
    BY DEF Init
  <2>2. IInv /\ [Next]_vars => [Reel!Next]_(Reel!vars)
    <3>1. IInv /\ [Next]_vars => [ReelQueue!Next]_(ReelQueue!vars)
      BY NextIInv DEF StageSteps
    <3>2. (Reel!Next <=> ReelQueue!Next) /\ (UNCHANGED Reel!vars <=> UNCHANGED ReelQueue!vars)
      BY ReelNames DEF Reel!vars, ReelQueue!vars
    <3> QED
      BY <3>1, <3>2
  <2> QED
    BY <2>1, <2>2, Invariance, PTL DEF Spec, Reel!Spec
<1>3. Spec => Calendar!Spec
  <2>1. Init => Calendar!Init
    BY DEF Init
  <2>2. IInv /\ [Next]_vars => [Calendar!Next]_(Calendar!vars)
    <3>1. IInv /\ [Next]_vars => [CalendarQueue!Next]_(CalendarQueue!vars)
      BY NextIInv DEF StageSteps
    <3>2. (Calendar!Next <=> CalendarQueue!Next) /\ (UNCHANGED Calendar!vars <=> UNCHANGED CalendarQueue!vars)
      BY CalendarNames DEF Calendar!vars, CalendarQueue!vars
    <3> QED
      BY <3>1, <3>2
  <2> QED
    BY <2>1, <2>2, Invariance, PTL DEF Spec, Calendar!Spec
<1> QED
  BY <1>1, <1>2, <1>3 DEF StagesAreQueues

(* A queued task downstream finds the evidence its claim hands over, so    *)
(* that the claim never raises on it.                                      *)
THEOREM EvidenceIsThere == Spec => []HandoffCarriesEvidence
<1>1. IInv => HandoffCarriesEvidence
  <2> SUFFICES ASSUME IInv PROVE HandoffCarriesEvidence
    OBVIOUS
  <2>1. ASSUME NEW k \in ReelTasks, reelRun[k] = "queued" PROVE ReelEvidence(k)
    <3>1. k = <<k[1], k[2]>> /\ k[1] \in Briefs /\ k[2] \in AttemptNumbers
      BY DEF ReelTasks
    <3>2. ReelLink(k[1], k[2])
      BY <3>1 DEF IInv, Links
    <3> QED
      BY <2>1, <3>1, <3>2 DEF ReelLink, WonBy, ReelEvidence
  <2>2. ASSUME NEW c \in CalendarTasks, calendarRun[c] = "queued" PROVE CalendarEvidence(c)
    <3>1. c = <<c[1], c[2]>> /\ c[1] \in ReelTasks /\ c[2] \in AttemptNumbers
      BY DEF CalendarTasks
    <3>2. CalendarLink(c[1], c[2])
      BY <3>1 DEF IInv, Links
    <3> QED
      BY <2>2, <3>1, <3>2 DEF CalendarLink, WonBy, CalendarEvidence
  <2> QED
    BY <2>1, <2>2 DEF HandoffCarriesEvidence
<1> QED
  BY <1>1, Invariance, PTL

(* The fan-out never refuses the work of an attempt that may still         *)
(* complete: its place downstream is free.                                 *)
THEOREM FanOutIsFree == Spec => []FanOutNeverBlocks
<1>1. IInv => FanOutNeverBlocks
  <2> SUFFICES ASSUME IInv PROVE FanOutNeverBlocks
    OBVIOUS
  <2>1. ASSUME NEW b \in Briefs, NEW n \in Research!Issued(b), Research!Live(b, n)
        PROVE  reelRun[ReelTaskOf(b, n)] = "none"
    <3>1. n \in ResearchQueue!Issued(b) /\ ResearchQueue!Live(b, n)
      BY <2>1, ResearchNames
    <3>2. n \in AttemptNumbers
      BY <3>1, StageAssumptions, ResearchQueue!IssuedNumbers DEF IInv, Queues, AttemptNumbers
    <3>3. briefOutcome[b] = NoOutcome
      BY <3>1, StageAssumptions, ResearchQueue!WonIsOver DEF IInv, Queues
    <3>4. ReelLink(b, n)
      BY <3>2 DEF IInv, Links
    <3> QED
      BY <3>3, <3>4 DEF ReelLink, WonBy, ReelTaskOf
  <2>2. ASSUME NEW k \in ReelTasks, NEW n \in Reel!Issued(k), Reel!Live(k, n)
        PROVE  calendarRun[CalendarTaskOf(k, n)] = "none"
    <3>1. n \in ReelQueue!Issued(k) /\ ReelQueue!Live(k, n)
      BY <2>2, ReelNames
    <3>2. n \in AttemptNumbers
      BY <3>1, StageAssumptions, ReelQueue!IssuedNumbers DEF IInv, Queues, AttemptNumbers
    <3>3. reelOutcome[k] = NoOutcome
      BY <3>1, StageAssumptions, ReelQueue!WonIsOver DEF IInv, Queues
    <3>4. CalendarLink(k, n)
      BY <3>2 DEF IInv, Links
    <3> QED
      BY <3>3, <3>4 DEF CalendarLink, WonBy, CalendarTaskOf
  <2> QED
    BY <2>1, <2>2 DEF FanOutNeverBlocks
<1> QED
  BY <1>1, Invariance, PTL

(* An outcome has exactly one successor, and a task without one has none.  *)
THEOREM OneSuccessorEach == Spec => []ExactlyOneSuccessor
<1>1. IInv => ExactlyOneSuccessor
  <2> SUFFICES ASSUME IInv PROVE ExactlyOneSuccessor
    OBVIOUS
  <2>1. ASSUME NEW b \in Briefs
        PROVE  Cardinality(ReelTasksOf(b)) = IF briefOutcome[b] = NoOutcome THEN 0 ELSE 1
    <3>1. \A k \in ReelTasks : k[1] = b => k = <<b, k[2]>> /\ k[2] \in AttemptNumbers
      BY DEF ReelTasks
    <3>2. \A n \in AttemptNumbers : (reelRun[<<b, n>>] # "none") <=> WonBy(briefOutcome[b], n)
      BY DEF IInv, Links, ReelLink
    <3>3. CASE briefOutcome[b] = NoOutcome
      <4>1. ReelTasksOf(b) = {}
        BY <3>1, <3>2, <3>3 DEF ReelTasksOf, WonBy
      <4> QED
        BY <4>1, <3>3, FS_EmptySet
    <3>4. CASE briefOutcome[b] # NoOutcome
      <4>1. briefOutcome[b].attempt \in AttemptNumbers
        BY <3>4, StageAssumptions, ResearchQueue!WinnerNumber DEF IInv, Queues, AttemptNumbers
      <4>2. <<b, briefOutcome[b].attempt>> \in ReelTasksOf(b)
        BY <4>1, <3>2, <3>4 DEF ReelTasksOf, ReelTasks, WonBy
      <4>3. \A k \in ReelTasksOf(b) : k = <<b, briefOutcome[b].attempt>>
        BY <3>1, <3>2 DEF ReelTasksOf, WonBy
      <4>4. ReelTasksOf(b) = {<<b, briefOutcome[b].attempt>>}
        BY <4>2, <4>3
      <4> QED
        BY <4>4, <3>4, FS_Singleton
    <3> QED
      BY <3>3, <3>4
  <2>2. ASSUME NEW k \in ReelTasks
        PROVE  Cardinality(CalendarTasksOf(k)) = IF reelOutcome[k] = NoOutcome THEN 0 ELSE 1
    <3>1. \A c \in CalendarTasks : c[1] = k => c = <<k, c[2]>> /\ c[2] \in AttemptNumbers
      BY DEF CalendarTasks
    <3>2. \A n \in AttemptNumbers : (calendarRun[<<k, n>>] # "none") <=> WonBy(reelOutcome[k], n)
      BY DEF IInv, Links, CalendarLink
    <3>3. CASE reelOutcome[k] = NoOutcome
      <4>1. CalendarTasksOf(k) = {}
        BY <3>1, <3>2, <3>3 DEF CalendarTasksOf, WonBy
      <4> QED
        BY <4>1, <3>3, FS_EmptySet
    <3>4. CASE reelOutcome[k] # NoOutcome
      <4>1. reelOutcome[k].attempt \in AttemptNumbers
        BY <3>4, StageAssumptions, ReelQueue!WinnerNumber DEF IInv, Queues, AttemptNumbers
      <4>2. <<k, reelOutcome[k].attempt>> \in CalendarTasksOf(k)
        BY <4>1, <3>2, <3>4 DEF CalendarTasksOf, CalendarTasks, WonBy
      <4>3. \A c \in CalendarTasksOf(k) : c = <<k, reelOutcome[k].attempt>>
        BY <3>1, <3>2 DEF CalendarTasksOf, WonBy
      <4>4. CalendarTasksOf(k) = {<<k, reelOutcome[k].attempt>>}
        BY <4>2, <4>3
      <4> QED
        BY <4>4, <3>4, FS_Singleton
    <3> QED
      BY <3>3, <3>4
  <2>3. ASSUME NEW c \in CalendarTasks
        PROVE  Cardinality(ApprovalsOf(c)) = IF calendarOutcome[c] = NoOutcome THEN 0 ELSE 1
    <3>1. ASSUME NEW a \in strategy
          PROVE  /\ a \in StrategyApproval
                 /\ calendarOutcome[a.task] = [attempt |-> a.attempt, digest |-> a.digest]
                 /\ a.requester = calendarRequester[a.task]
      BY DEF IInv, Approvals
    <3>2. CASE calendarOutcome[c] = NoOutcome
      <4>1. ASSUME NEW a \in strategy PROVE a.task # c
        <5>1. /\ a \in StrategyApproval
              /\ calendarOutcome[a.task] = [attempt |-> a.attempt, digest |-> a.digest]
          BY <3>1
        <5>2. calendarOutcome[a.task] # NoOutcome
          BY <5>1, ApprovedIsNoNothing
        <5> QED
          BY <5>2, <3>2
      <4>2. ApprovalsOf(c) = {}
        BY <4>1 DEF ApprovalsOf
      <4> QED
        BY <4>2, <3>2, FS_EmptySet
    <3>3. CASE calendarOutcome[c] # NoOutcome
      <4>1. PICK a \in strategy : a.task = c
        BY <3>3 DEF IInv, Approvals
      <4>2. ASSUME NEW e \in ApprovalsOf(c) PROVE e = a
        <5>1. /\ e \in StrategyApproval /\ a \in StrategyApproval
              /\ e.task = c /\ a.task = c
              /\ e.requester = a.requester
              /\ [attempt |-> e.attempt, digest |-> e.digest] = [attempt |-> a.attempt, digest |-> a.digest]
          BY <3>1, <4>1 DEF ApprovalsOf
        <5>2. e.attempt = a.attempt /\ e.digest = a.digest
          BY <5>1
        <5> QED
          BY <5>1, <5>2 DEF StrategyApproval
      <4>3. ApprovalsOf(c) = {a}
        BY <4>1, <4>2 DEF ApprovalsOf
      <4> QED
        BY <4>3, <3>3, FS_Singleton
    <3> QED
      BY <3>2, <3>3
  <2> QED
    BY <2>1, <2>2, <2>3 DEF ExactlyOneSuccessor
<1> QED
  BY <1>1, Invariance, PTL

(* ApprovalTracesToBrief, approval by approval.                            *)
Traceable(a) ==
  /\ calendarOutcome[a.task] = [attempt |-> a.attempt, digest |-> a.digest]
  /\ CalendarEvidence(a.task)
  /\ ReelEvidence(a.task[1])
  /\ a.requester = briefRequester[a.task[1][1]]

(* From an approval the rows lead back, outcome by outcome, to the brief   *)
(* it answers and to the member who asked.                                 *)
THEOREM ApprovalsAreTraceable == Spec => []ApprovalTracesToBrief
<1>1. IInv => ApprovalTracesToBrief
  <2> SUFFICES ASSUME IInv PROVE ApprovalTracesToBrief
    OBVIOUS
  <2> SUFFICES ASSUME NEW a \in strategy PROVE Traceable(a)
    BY ZenonT(30) DEF ApprovalTracesToBrief, Traceable
  <2> DEFINE k == a.task[1]
             b == k[1]
  <2>1. /\ a \in StrategyApproval /\ a.task \in CalendarTasks
        /\ calendarOutcome[a.task] = [attempt |-> a.attempt, digest |-> a.digest]
        /\ a.requester = calendarRequester[a.task]
    BY DEF IInv, Approvals, StrategyApproval
  <2>2. calendarOutcome[a.task] # NoOutcome
    BY <2>1, ApprovedIsNoNothing
  <2>3. calendarRun[a.task] # "none"
    BY <2>1, <2>2, StageAssumptions, CalendarQueue!WinnerNumber DEF IInv, Queues
  <2>4. a.task = <<k, a.task[2]>> /\ k \in ReelTasks /\ a.task[2] \in AttemptNumbers
    BY <2>1 DEF CalendarTasks
  <2>5. WonBy(reelOutcome[k], a.task[2]) /\ calendarRequester[a.task] = reelRequester[k]
    <3>1. CalendarLink(k, a.task[2])
      BY <2>4 DEF IInv, Links
    <3> QED
      BY <3>1, <2>3, <2>4 DEF CalendarLink
  <2>6. reelRun[k] # "none"
    BY <2>4, <2>5, StageAssumptions, ReelQueue!WinnerNumber DEF IInv, Queues, WonBy
  <2>7. k = <<b, k[2]>> /\ b \in Briefs /\ k[2] \in AttemptNumbers
    BY <2>4 DEF ReelTasks
  <2>8. WonBy(briefOutcome[b], k[2]) /\ reelRequester[k] = briefRequester[b]
    <3>1. ReelLink(b, k[2])
      BY <2>7 DEF IInv, Links
    <3> QED
      BY <3>1, <2>6, <2>7 DEF ReelLink
  <2> QED
    BY <2>1, <2>5, <2>8 DEF CalendarEvidence, ReelEvidence, WonBy, Traceable
<1> QED
  BY <1>1, Invariance, PTL

-----------------------------------------------------------------------------
(* To a reader the three queues are one chain.                             *)

LEMMA ShownIsSeen ==
  /\ \A b : Shown(briefRun[b], briefAttempts[b]) = ResearchQueue!Seen(b)
  /\ \A k : Shown(reelRun[k], reelAttempts[k]) = ReelQueue!Seen(k)
  /\ \A c : Shown(calendarRun[c], calendarAttempts[c]) = CalendarQueue!Seen(c)
BY DEF Shown, ResearchQueue!Seen, ResearchQueue!Last, ReelQueue!Seen, ReelQueue!Last,
       CalendarQueue!Seen, CalendarQueue!Last

(* The outcomes tell which tasks the chain of a brief consists of.         *)
Nothing == [state |-> "none", n |-> 0, last |-> "none", offered |-> FALSE]
Won(b) == <<b, briefOutcome[b].attempt>>
WonTwice(b) == <<Won(b), reelOutcome[Won(b)].attempt>>
Researched(b) == briefOutcome[b] # NoOutcome
Analysed(b) == Researched(b) /\ reelOutcome[Won(b)] # NoOutcome
ReelRow(b) == IF Researched(b) THEN ReelQueue!Seen(Won(b)) ELSE Nothing
CalendarRow(b) == IF Analysed(b) THEN CalendarQueue!Seen(WonTwice(b)) ELSE Nothing
RowOf(b, s) == IF s = 1 THEN ResearchQueue!Seen(b) ELSE IF s = 2 THEN ReelRow(b) ELSE CalendarRow(b)
RowsAreShown == ShownRecords = [b \in Briefs |-> [s \in 1 .. 3 |-> RowOf(b, s)]]

LEMMA WonTasks ==
  ASSUME IInv, NEW b \in Briefs
  PROVE  /\ Researched(b) => Won(b) \in ReelTasks
         /\ Analysed(b) => WonTwice(b) \in CalendarTasks
<1>1. CASE Researched(b)
  <2>1. briefOutcome[b].attempt \in AttemptNumbers
    BY <1>1, StageAssumptions, ResearchQueue!WinnerNumber DEF IInv, Queues, AttemptNumbers, Researched
  <2>2. Won(b) \in ReelTasks
    BY <2>1 DEF Won, ReelTasks
  <2>3. Analysed(b) => reelOutcome[Won(b)].attempt \in AttemptNumbers
    BY <2>2, StageAssumptions, ReelQueue!WinnerNumber DEF IInv, Queues, AttemptNumbers, Analysed
  <2> QED
    BY <2>2, <2>3 DEF WonTwice, CalendarTasks
<1> QED
  BY <1>1 DEF Analysed

(* A task that has a run is the one its brief's outcomes name.             *)
LEMMA RunIsOfTheChain ==
  ASSUME IInv
  PROVE  /\ \A k \in ReelTasks : reelRun[k] # "none" => k[1] \in Briefs /\ Researched(k[1]) /\ k = Won(k[1])
         /\ \A c \in CalendarTasks : calendarRun[c] # "none" =>
              c[1][1] \in Briefs /\ Analysed(c[1][1]) /\ c[1] = Won(c[1][1]) /\ c = WonTwice(c[1][1])
<1>1. ASSUME NEW k \in ReelTasks, reelRun[k] # "none"
      PROVE  k[1] \in Briefs /\ Researched(k[1]) /\ k = Won(k[1])
  <2>1. k = <<k[1], k[2]>> /\ k[1] \in Briefs /\ k[2] \in AttemptNumbers
    BY DEF ReelTasks
  <2>2. ReelLink(k[1], k[2])
    BY <2>1 DEF IInv, Links
  <2> QED
    BY <1>1, <2>1, <2>2 DEF ReelLink, WonBy, Won, Researched
<1>2. ASSUME NEW c \in CalendarTasks, calendarRun[c] # "none"
      PROVE  c[1][1] \in Briefs /\ Analysed(c[1][1]) /\ c[1] = Won(c[1][1]) /\ c = WonTwice(c[1][1])
  <2>1. c = <<c[1], c[2]>> /\ c[1] \in ReelTasks /\ c[2] \in AttemptNumbers
    BY DEF CalendarTasks
  <2>2. CalendarLink(c[1], c[2])
    BY <2>1 DEF IInv, Links
  <2>3. WonBy(reelOutcome[c[1]], c[2])
    BY <1>2, <2>1, <2>2 DEF CalendarLink
  <2>4. reelRun[c[1]] # "none"
    BY <2>1, <2>3, StageAssumptions, ReelQueue!WinnerNumber DEF IInv, Queues, WonBy
  <2>5. c[1][1] \in Briefs /\ Researched(c[1][1]) /\ c[1] = Won(c[1][1])
    BY <1>1, <2>1, <2>4
  <2> QED
    BY <2>1, <2>3, <2>5 DEF WonBy, WonTwice, Analysed
<1> QED
  BY <1>1, <1>2

LEMMA OutcomesTellTasks ==
  ASSUME IInv, NEW b \in Briefs
  PROVE  /\ HasReel(b) <=> Researched(b)
         /\ HasReel(b) => ReelOf(b) = Won(b)
         /\ HasCalendar(b) <=> Analysed(b)
         /\ HasCalendar(b) => CalendarOf(b) = WonTwice(b)
<1>1. \A k \in ReelTasksOf(b) : Researched(b) /\ k = Won(b)
  BY RunIsOfTheChain DEF ReelTasksOf
<1>2. Researched(b) => Won(b) \in ReelTasksOf(b)
  <2> SUFFICES ASSUME Researched(b) PROVE Won(b) \in ReelTasksOf(b)
    OBVIOUS
  <2>1. Won(b) \in ReelTasks /\ briefOutcome[b].attempt \in AttemptNumbers
    BY WonTasks DEF Won, ReelTasks
  <2>2. ReelLink(b, briefOutcome[b].attempt)
    BY <2>1 DEF IInv, Links
  <2> QED
    BY <2>1, <2>2 DEF ReelTasksOf, ReelLink, WonBy, Won, Researched
<1>3. /\ HasReel(b) <=> Researched(b)
      /\ HasReel(b) => ReelOf(b) = Won(b)
  BY <1>1, <1>2 DEF HasReel, ReelOf
<1>4. \A c \in CalendarTasksOf(Won(b)) : Researched(b) => Analysed(b) /\ c = WonTwice(b)
  BY RunIsOfTheChain DEF CalendarTasksOf, Won
<1>5. Analysed(b) => WonTwice(b) \in CalendarTasksOf(Won(b))
  <2> SUFFICES ASSUME Analysed(b) PROVE WonTwice(b) \in CalendarTasksOf(Won(b))
    OBVIOUS
  <2>1. /\ Won(b) \in ReelTasks /\ WonTwice(b) \in CalendarTasks
        /\ reelOutcome[Won(b)].attempt \in AttemptNumbers
    BY WonTasks DEF Analysed, WonTwice, CalendarTasks
  <2>2. CalendarLink(Won(b), reelOutcome[Won(b)].attempt)
    BY <2>1 DEF IInv, Links
  <2>3. WonTwice(b)[1] = Won(b)
    BY DEF WonTwice
  <2> QED
    BY <2>1, <2>2, <2>3 DEF CalendarTasksOf, CalendarLink, WonBy, WonTwice, Analysed
<1>6. CASE Researched(b)
  <2>1. ReelOf(b) = Won(b)
    BY <1>3, <1>6
  <2>2. HasCalendar(b) <=> CalendarTasksOf(Won(b)) # {}
    BY <1>3, <1>6, <2>1 DEF HasCalendar
  <2>3. HasCalendar(b) => CalendarOf(b) = WonTwice(b)
    BY <2>1, <2>2, <1>4, <1>6 DEF CalendarOf
  <2> QED
    BY <1>3, <1>4, <1>5, <1>6, <2>2, <2>3
<1>7. CASE ~ Researched(b)
  BY <1>3, <1>7 DEF HasCalendar, Analysed
<1> QED
  BY <1>6, <1>7

LEMMA OutcomesTellRows == IInv => RowsAreShown
<1> SUFFICES ASSUME IInv, NEW b \in Briefs, NEW s \in 1 .. 3 PROVE ShownRun(b, s) = RowOf(b, s)
  BY DEF RowsAreShown, ShownRecords
<1>1. Shown("none", <<>>) = Nothing
  BY DEF Shown, Nothing
<1>2. CASE s = 1
  BY <1>2, ShownIsSeen DEF ShownRun, RowOf
<1>3. CASE s = 2
  <2>1. ShownRun(b, s) =
          IF HasReel(b) THEN Shown(reelRun[ReelOf(b)], reelAttempts[ReelOf(b)]) ELSE Shown("none", <<>>)
    BY <1>3 DEF ShownRun
  <2> QED
    BY <1>1, <1>3, <2>1, ShownIsSeen, OutcomesTellTasks DEF RowOf, ReelRow
<1>4. CASE s = 3
  <2>1. ShownRun(b, s) =
          IF HasCalendar(b) THEN Shown(calendarRun[CalendarOf(b)], calendarAttempts[CalendarOf(b)])
          ELSE Shown("none", <<>>)
    BY <1>4 DEF ShownRun
  <2> QED
    BY <1>1, <1>4, <2>1, ShownIsSeen, OutcomesTellTasks DEF RowOf, CalendarRow
<1> QED
  BY <1>2, <1>3, <1>4

LEMMA OutcomesTellRowsNext == IInv' => RowsAreShown'
BY OutcomesTellRows, PTL

(* The record of a brief holds the rows of its chain.                      *)
LEMMA RecordOf ==
  ASSUME IInv, NEW b \in Briefs
  PROVE  /\ ShownRecords[b] = [s \in 1 .. 3 |-> RowOf(b, s)]
         /\ ShownRecords[b][1] = ResearchQueue!Seen(b)
         /\ ShownRecords[b][2] = ReelRow(b)
         /\ ShownRecords[b][3] = CalendarRow(b)
BY OutcomesTellRows DEF RowsAreShown, RowOf

(* A step that shows on one chain alone is an update of its record.        *)
LEMMA RecordFrame ==
  ASSUME IInv, IInv', NEW b \in Briefs, \A c \in Briefs, s \in 1 .. 3 : c # b => RowOf(c, s)' = RowOf(c, s)
  PROVE  ShownRecords' = [ShownRecords EXCEPT ![b] = [s \in 1 .. 3 |-> RowOf(b, s)']]
BY OutcomesTellRows, OutcomesTellRowsNext DEF RowsAreShown

LEMMA OneRowShows ==
  ASSUME IInv, IInv', NEW b \in Briefs, NEW s \in 1 .. 3, NEW row, RowOf(b, s)' = row,
         \A c \in Briefs, t \in 1 .. 3 : c # b \/ t # s => RowOf(c, t)' = RowOf(c, t)
  PROVE  Records!SetRun(b, s, row)
<1>1. ShownRecords' = [ShownRecords EXCEPT ![b] = [t \in 1 .. 3 |-> RowOf(b, t)']]
  BY RecordFrame
<1>2. [t \in 1 .. 3 |-> RowOf(b, t)'] = [[t \in 1 .. 3 |-> RowOf(b, t)] EXCEPT ![s] = row]
  OBVIOUS
<1>3. ShownRecords[b] = [t \in 1 .. 3 |-> RowOf(b, t)]
  BY RecordOf
<1> QED
  BY <1>1, <1>2, <1>3 DEF Records!SetRun

(* Two rows: a stage that ends and the next, which begins.                 *)
LEMMA CompletionShows ==
  ASSUME IInv, IInv', NEW b \in Briefs, NEW s \in 1 .. 3, NEW n,
         RowOf(b, s) = [state |-> "running", n |-> n, last |-> "running", offered |-> FALSE],
         RowOf(b, s)' = [state |-> "succeeded", n |-> n, last |-> "succeeded", offered |-> FALSE],
         s < 3 => RowOf(b, s + 1)' = [state |-> "queued", n |-> 0, last |-> "none", offered |-> FALSE],
         \A c \in Briefs, t \in 1 .. 3 : c # b \/ t \notin {s, s + 1} => RowOf(c, t)' = RowOf(c, t)
  PROVE  Records!Complete(b, s)
<1>1. ShownRecords' = [ShownRecords EXCEPT ![b] = [t \in 1 .. 3 |-> RowOf(b, t)']]
  BY RecordFrame
<1>2. ShownRecords[b] = [t \in 1 .. 3 |-> RowOf(b, t)]
  BY RecordOf
<1>3. ShownRecords[b][s] = RowOf(b, s) /\ \A t \in 1 .. 3 : ShownRecords[b][t] = RowOf(b, t)
  BY <1>2
<1> DEFINE after == [t \in 1 .. 3 |->
             CASE t = s     -> [state |-> "succeeded", n |-> n, last |-> "succeeded", offered |-> FALSE]
               [] t = s + 1 -> [state |-> "queued", n |-> 0, last |-> "none", offered |-> FALSE]
               [] OTHER     -> ShownRecords[b][t]]
<1>4. [t \in 1 .. 3 |-> RowOf(b, t)'] = after
  <2> SUFFICES ASSUME NEW t \in 1 .. 3 PROVE RowOf(b, t)' = after[t]
    OBVIOUS
  <2>1. CASE t = s
    BY <2>1
  <2>2. CASE t = s + 1
    BY <2>2
  <2>3. CASE t \notin {s, s + 1}
    BY <2>3, <1>3
  <2> QED
    BY <2>1, <2>2, <2>3
<1>5. ShownRecords[b][s].state = "running" /\ ShownRecords[b][s].n = n
  BY <1>3
<1> QED
  BY <1>1, <1>4, <1>5 DEF Records!Complete, Records!Row, Records!Queued, Records!Stages

(* A row that changes as the rows of its queue do.                         *)
LEMMA RowStepShows ==
  ASSUME NEW b \in Briefs, NEW s \in 1 .. 3, NEW new,
         \/ ResearchQueue!RowStep(ShownRecords[b][s], new)
         \/ ReelQueue!RowStep(ShownRecords[b][s], new)
         \/ CalendarQueue!RowStep(ShownRecords[b][s], new),
         Records!SetRun(b, s, new)
  PROVE  Records!RunStep(b, s)
<1> DEFINE old == ShownRecords[b][s]
<1>1. [c \in Briefs |-> [t \in 1 .. 3 |-> MaxAttempts]][b][s] = MaxAttempts
  OBVIOUS
<1>2. CASE /\ old.state = "queued" /\ old.n < MaxAttempts
           /\ \E state \in {"running", "failed"} :
                new = [state |-> state, n |-> old.n + 1, last |-> state, offered |-> FALSE]
  BY <1>1, <1>2 DEF Records!RunStep, Records!Claim, Records!Row
<1>3. CASE /\ old.state = "running"
           /\ \E offered \in BOOLEAN :
                /\ offered => old.n < MaxAttempts
                /\ new = [state |-> "failed", n |-> old.n, last |-> "failed", offered |-> offered]
  BY <1>1, <1>3 DEF Records!RunStep, Records!Fail, Records!Row
<1>4. CASE /\ old.state = "failed" /\ old.offered
           /\ new = [state |-> "queued", n |-> old.n, last |-> old.last, offered |-> FALSE]
  BY <1>4 DEF Records!RunStep, Records!Offered, Records!Requeue, Records!Row
<1> QED
  BY <1>2, <1>3, <1>4 DEF ResearchQueue!RowStep, ReelQueue!RowStep, CalendarQueue!RowStep

(* Rows that stay.                                                         *)
LEMMA ReelRowStays ==
  ASSUME IInv, NEW b \in Briefs, briefOutcome'[b] = briefOutcome[b],
         \A k \in ReelTasks : k[1] = b => ReelQueue!Seen(k)' = ReelQueue!Seen(k)
  PROVE  ReelRow(b)' = ReelRow(b)
<1>1. CASE Researched(b)
  <2>1. PICK k \in ReelTasks : k = Won(b)
    BY <1>1, WonTasks
  <2>2. Won(b)' = k /\ Researched(b)'
    BY <1>1, <2>1 DEF Won, Researched
  <2>3. k[1] = b
    BY <2>1 DEF Won
  <2>4. ReelRow(b) = ReelQueue!Seen(k) /\ ReelRow(b)' = ReelQueue!Seen(k)'
    BY <1>1, <2>1, <2>2 DEF ReelRow, ReelQueue!Seen, ReelQueue!Last
  <2> QED
    BY <2>3, <2>4
<1>2. CASE ~ Researched(b)
  BY <1>2 DEF ReelRow, Researched
<1> QED
  BY <1>1, <1>2

LEMMA CalendarRowStays ==
  ASSUME IInv, NEW b \in Briefs, briefOutcome'[b] = briefOutcome[b],
         \A k \in ReelTasks : k[1] = b => reelOutcome'[k] = reelOutcome[k],
         \A c \in CalendarTasks : c[1][1] = b => CalendarQueue!Seen(c)' = CalendarQueue!Seen(c)
  PROVE  CalendarRow(b)' = CalendarRow(b)
<1>1. Researched(b) => Won(b)' = Won(b) /\ Won(b) \in ReelTasks /\ Won(b)[1] = b
  BY WonTasks DEF Won, Researched
<1>2. Analysed(b)' <=> Analysed(b)
  BY <1>1 DEF Analysed, Researched, Won
<1>3. CASE Analysed(b)
  <2>1. PICK c \in CalendarTasks : c = WonTwice(b)
    BY <1>3, WonTasks
  <2>2. c[1] = Won(b) /\ c[1][1] = b
    BY <2>1 DEF WonTwice, Won
  <2>3. WonTwice(b)' = c
    BY <1>1, <1>3, <2>1 DEF WonTwice, Analysed
  <2>4. CalendarRow(b) = CalendarQueue!Seen(c) /\ CalendarRow(b)' = CalendarQueue!Seen(c)'
    BY <1>2, <1>3, <2>1, <2>3 DEF CalendarRow, CalendarQueue!Seen, CalendarQueue!Last
  <2> QED
    BY <2>2, <2>4
<1>4. CASE ~ Analysed(b)
  BY <1>2, <1>4 DEF CalendarRow
<1> QED
  BY <1>3, <1>4

(* Rows whose queue is left alone are seen as they were.                   *)
LEMMA ResearchSeenStays ==
  ASSUME briefRun' = briefRun, briefAttempts' = briefAttempts
  PROVE  \A b \in Briefs : ResearchQueue!Seen(b)' = ResearchQueue!Seen(b)
BY StageAssumptions, ResearchQueue!SameSeen
LEMMA ReelSeenStays ==
  ASSUME reelRun' = reelRun, reelAttempts' = reelAttempts
  PROVE  \A k \in ReelTasks : ReelQueue!Seen(k)' = ReelQueue!Seen(k)
BY StageAssumptions, ReelQueue!SameSeen
LEMMA CalendarSeenStays ==
  ASSUME calendarRun' = calendarRun, calendarAttempts' = calendarAttempts
  PROVE  \A c \in CalendarTasks : CalendarQueue!Seen(c)' = CalendarQueue!Seen(c)
BY StageAssumptions, CalendarQueue!SameSeen

(* Nothing shows of what leaves all rows and the outcomes they hang by.    *)
LEMMA NothingShows ==
  ASSUME IInv, IInv', briefOutcome' = briefOutcome, reelOutcome' = reelOutcome,
         \A b \in Briefs : ResearchQueue!Seen(b)' = ResearchQueue!Seen(b),
         \A k \in ReelTasks : ReelQueue!Seen(k)' = ReelQueue!Seen(k),
         \A c \in CalendarTasks : CalendarQueue!Seen(c)' = CalendarQueue!Seen(c)
  PROVE  ShownRecords' = ShownRecords
<1>1. ASSUME NEW b \in Briefs, NEW s \in 1 .. 3 PROVE RowOf(b, s)' = RowOf(b, s)
  BY ReelRowStays, CalendarRowStays DEF RowOf
<1> QED
  BY <1>1, OutcomesTellRows, OutcomesTellRowsNext DEF RowsAreShown

-----------------------------------------------------------------------------
(* A command that completes nothing changes one row.                       *)
LEMMA ResearchRowShows ==
  ASSUME IInv, IInv', NEW b \in Briefs, NEW row, ResearchQueue!Seen(b)' = row, ResearchQueue!OthersSeen(b),
         briefOutcome' = briefOutcome, UNCHANGED <<reelVars, calendarVars>>
  PROVE  Records!SetRun(b, 1, row)
<1>1. \A k \in ReelTasks : ReelQueue!Seen(k)' = ReelQueue!Seen(k)
  BY ReelSeenStays DEF reelVars
<1>2. \A c \in CalendarTasks : CalendarQueue!Seen(c)' = CalendarQueue!Seen(c)
  BY CalendarSeenStays DEF calendarVars
<1>3. reelOutcome' = reelOutcome
  BY DEF reelVars
<1>4. ASSUME NEW c \in Briefs PROVE ReelRow(c)' = ReelRow(c) /\ CalendarRow(c)' = CalendarRow(c)
  BY <1>1, <1>2, <1>3, ReelRowStays, CalendarRowStays
<1>5. RowOf(b, 1)' = row
  BY DEF RowOf
<1>6. ASSUME NEW c \in Briefs, NEW t \in 1 .. 3, c # b \/ t # 1 PROVE RowOf(c, t)' = RowOf(c, t)
  BY <1>4, <1>6 DEF RowOf, ResearchQueue!OthersSeen
<1> QED
  BY <1>5, <1>6, OneRowShows

LEMMA ReelRowShows ==
  ASSUME IInv, IInv', NEW k \in ReelTasks, reelRun[k] # "none",
         NEW row, ReelQueue!Seen(k)' = row, ReelQueue!OthersSeen(k),
         reelOutcome' = reelOutcome, UNCHANGED <<researchVars, calendarVars>>
  PROVE  /\ k[1] \in Briefs /\ ShownRecords[k[1]][2] = ReelQueue!Seen(k)
         /\ Records!SetRun(k[1], 2, row)
<1>1. PICK b \in Briefs : b = k[1] /\ Researched(b) /\ k = Won(b)
  BY RunIsOfTheChain
<1>2. briefOutcome' = briefOutcome
  BY DEF researchVars
<1>3. \A c \in Briefs : ResearchQueue!Seen(c)' = ResearchQueue!Seen(c)
  BY ResearchSeenStays DEF researchVars
<1>4. \A c \in CalendarTasks : CalendarQueue!Seen(c)' = CalendarQueue!Seen(c)
  BY CalendarSeenStays DEF calendarVars
<1>5. ASSUME NEW c \in Briefs PROVE CalendarRow(c)' = CalendarRow(c)
  BY <1>2, <1>4, CalendarRowStays
<1>6. ASSUME NEW c \in Briefs, c # b PROVE ReelRow(c)' = ReelRow(c)
  <2>1. \A j \in ReelTasks : j[1] = c => ReelQueue!Seen(j)' = ReelQueue!Seen(j)
    BY <1>1, <1>6 DEF ReelQueue!OthersSeen
  <2> QED
    BY <1>2, <2>1, ReelRowStays
<1>7. ReelRow(b) = ReelQueue!Seen(k) /\ ReelRow(b)' = row
  <2>1. Won(b)' = k /\ Researched(b)'
    BY <1>1, <1>2 DEF Won, Researched
  <2>2. ReelRow(b)' = ReelQueue!Seen(k)'
    BY <2>1 DEF ReelRow, ReelQueue!Seen, ReelQueue!Last
  <2> QED
    BY <1>1, <2>2 DEF ReelRow
<1>8. RowOf(b, 2)' = row
  BY <1>7 DEF RowOf
<1>9. ASSUME NEW c \in Briefs, NEW t \in 1 .. 3, c # b \/ t # 2 PROVE RowOf(c, t)' = RowOf(c, t)
  BY <1>3, <1>5, <1>6, <1>9 DEF RowOf
<1>10. Records!SetRun(b, 2, row)
  BY <1>8, <1>9, OneRowShows
<1> QED
  BY <1>1, <1>7, <1>10, RecordOf

LEMMA CalendarRowShows ==
  ASSUME IInv, IInv', NEW t \in CalendarTasks, calendarRun[t] # "none",
         CalendarQueue!OthersSeen(t), UNCHANGED <<researchVars, reelVars>>
  PROVE  /\ t[1][1] \in Briefs /\ CalendarRow(t[1][1]) = CalendarQueue!Seen(t)
         /\ CalendarRow(t[1][1])' = CalendarQueue!Seen(t)'
         /\ \A c \in Briefs, s \in 1 .. 3 : c # t[1][1] \/ s # 3 => RowOf(c, s)' = RowOf(c, s)
<1>1. PICK b \in Briefs : b = t[1][1] /\ Analysed(b) /\ t[1] = Won(b) /\ t = WonTwice(b)
  BY RunIsOfTheChain
<1>2. briefOutcome' = briefOutcome /\ reelOutcome' = reelOutcome
  BY DEF researchVars, reelVars
<1>3. \A c \in Briefs : ResearchQueue!Seen(c)' = ResearchQueue!Seen(c)
  BY ResearchSeenStays DEF researchVars
<1>4. \A k \in ReelTasks : ReelQueue!Seen(k)' = ReelQueue!Seen(k)
  BY ReelSeenStays DEF reelVars
<1>5. ASSUME NEW c \in Briefs PROVE ReelRow(c)' = ReelRow(c)
  BY <1>2, <1>4, ReelRowStays
<1>6. ASSUME NEW c \in Briefs, c # b PROVE CalendarRow(c)' = CalendarRow(c)
  <2>1. \A u \in CalendarTasks : u[1][1] = c => CalendarQueue!Seen(u)' = CalendarQueue!Seen(u)
    BY <1>1, <1>6 DEF CalendarQueue!OthersSeen
  <2> QED
    BY <1>2, <2>1, CalendarRowStays
<1>7. Won(b)' = Won(b) /\ WonTwice(b)' = t /\ Analysed(b)'
  BY <1>1, <1>2 DEF Won, WonTwice, Analysed, Researched
<1>8. CalendarRow(b)' = CalendarQueue!Seen(t)'
  BY <1>7 DEF CalendarRow, CalendarQueue!Seen, CalendarQueue!Last
<1>9. CalendarRow(b) = CalendarQueue!Seen(t)
  BY <1>1 DEF CalendarRow
<1>10. ASSUME NEW c \in Briefs, NEW s \in 1 .. 3, c # b \/ s # 3 PROVE RowOf(c, s)' = RowOf(c, s)
  BY <1>3, <1>5, <1>6, <1>10 DEF RowOf
<1> QED
  BY <1>1, <1>8, <1>9, <1>10

(* Commands of one stage that complete nothing.                            *)
LEMMA ResearchCommandShows ==
  ASSUME IInv, IInv', NEW b \in Briefs,
         \/ ResearchClaim(b)
         \/ \E n \in Research!Issued(b) : ResearchRetry(b, n) \/ \E c \in Codes : ResearchFail(b, n, c)
  PROVE  Records!RunStep(b, 1)
<1>1. /\ \/ ResearchQueue!Claim(b)
         \/ \E n \in ResearchQueue!Issued(b) :
              ResearchQueue!Retry(b, n) \/ \E c \in Codes : ResearchQueue!Fail(b, n, c)
      /\ UNCHANGED <<reelVars, calendarVars>>
  BY ResearchNames DEF ResearchClaim, ResearchRetry, ResearchFail, OnlyResearch
<1>2. ResearchQueue!RowStep(ResearchQueue!Seen(b), ResearchQueue!Seen(b)') /\ ResearchQueue!OthersSeen(b)
  BY <1>1, StageAssumptions, ResearchQueue!CommandSeen DEF IInv, Queues
<1>3. briefOutcome' = briefOutcome
  BY <1>1, StageAssumptions, ResearchQueue!CommandsAreQuiet DEF IInv, Queues, ResearchQueue!Quiet
<1>4. Records!SetRun(b, 1, ResearchQueue!Seen(b)')
  BY <1>1, <1>2, <1>3, ResearchRowShows
<1>5. ShownRecords[b][1] = ResearchQueue!Seen(b)
  BY RecordOf
<1> QED
  BY <1>2, <1>4, <1>5, RowStepShows

LEMMA ReelCommandShows ==
  ASSUME IInv, IInv', NEW k \in ReelTasks,
         \/ ReelClaim(k)
         \/ \E n \in Reel!Issued(k) : ReelRetry(k, n) \/ \E c \in Codes : ReelFail(k, n, c)
  PROVE  k[1] \in Briefs /\ Records!RunStep(k[1], 2)
<1>1. /\ \/ ReelQueue!Claim(k)
         \/ \E n \in ReelQueue!Issued(k) :
              ReelQueue!Retry(k, n) \/ \E c \in Codes : ReelQueue!Fail(k, n, c)
      /\ UNCHANGED <<researchVars, calendarVars>>
  BY ReelNames DEF ReelClaim, ReelIssue, Reel!Claim, ReelRetry, ReelFail, OnlyReel
<1>2. /\ ReelQueue!RowStep(ReelQueue!Seen(k), ReelQueue!Seen(k)') /\ ReelQueue!OthersSeen(k)
      /\ reelRun[k] # "none"
  BY <1>1, StageAssumptions, ReelQueue!CommandSeen DEF IInv, Queues
<1>3. reelOutcome' = reelOutcome
  BY <1>1, StageAssumptions, ReelQueue!CommandsAreQuiet DEF IInv, Queues, ReelQueue!Quiet
<1>4. /\ k[1] \in Briefs /\ ShownRecords[k[1]][2] = ReelQueue!Seen(k)
      /\ Records!SetRun(k[1], 2, ReelQueue!Seen(k)')
  BY <1>1, <1>2, <1>3, ReelRowShows
<1> QED
  BY <1>2, <1>4, RowStepShows

LEMMA CalendarCommandShows ==
  ASSUME IInv, IInv', NEW t \in CalendarTasks,
         \/ CalendarClaim(t)
         \/ \E n \in Calendar!Issued(t) : CalendarRetry(t, n) \/ \E c \in Codes : CalendarFail(t, n, c)
  PROVE  t[1][1] \in Briefs /\ Records!RunStep(t[1][1], 3)
<1>1. /\ \/ CalendarQueue!Claim(t)
         \/ \E n \in CalendarQueue!Issued(t) :
              CalendarQueue!Retry(t, n) \/ \E c \in Codes : CalendarQueue!Fail(t, n, c)
      /\ UNCHANGED <<researchVars, reelVars>>
  BY CalendarNames DEF CalendarClaim, CalendarIssue, Calendar!Claim, CalendarRetry, CalendarFail, OnlyCalendar
<1>2. /\ CalendarQueue!RowStep(CalendarQueue!Seen(t), CalendarQueue!Seen(t)') /\ CalendarQueue!OthersSeen(t)
      /\ calendarRun[t] # "none"
  BY <1>1, StageAssumptions, CalendarQueue!CommandSeen DEF IInv, Queues
<1> DEFINE b == t[1][1]
<1>3. /\ b \in Briefs /\ CalendarRow(b) = CalendarQueue!Seen(t)
      /\ CalendarRow(b)' = CalendarQueue!Seen(t)'
      /\ \A c \in Briefs, s \in 1 .. 3 : c # b \/ s # 3 => RowOf(c, s)' = RowOf(c, s)
  BY <1>1, <1>2, CalendarRowShows
<1> HIDE DEF b
<1>4. RowOf(b, 3)' = CalendarQueue!Seen(t)'
  BY <1>3 DEF RowOf
<1>5. Records!SetRun(b, 3, CalendarQueue!Seen(t)')
  BY <1>3, <1>4, OneRowShows
<1>6. ShownRecords[b][3] = CalendarQueue!Seen(t)
  BY <1>3, RecordOf
<1>7. Records!RunStep(b, 3)
  BY <1>2, <1>3, <1>5, <1>6, RowStepShows
<1> QED
  BY <1>3, <1>7 DEF b

LEMMA SubmitBriefShows ==
  ASSUME IInv, IInv', NEW b \in Briefs, NEW u \in Users, NEW s \in Stamps, SubmitBrief(b, u, s)
  PROVE  Records!Submitted(b)
<1>1. ResearchQueue!Enqueue(b, u, s) /\ UNCHANGED <<reelVars, calendarVars>>
  BY ResearchNames DEF SubmitBrief, OnlyResearch
<1>2. /\ ResearchQueue!Seen(b) = [state |-> "none", n |-> 0, last |-> "none", offered |-> FALSE]
      /\ ResearchQueue!Seen(b)' = [state |-> "queued", n |-> 0, last |-> "none", offered |-> FALSE]
      /\ ResearchQueue!OthersSeen(b)
  BY <1>1, StageAssumptions, ResearchQueue!EnqueueSeen DEF IInv, Queues
<1>3. briefOutcome' = briefOutcome
  BY <1>1 DEF ResearchQueue!Enqueue
<1>4. Records!SetRun(b, 1, [state |-> "queued", n |-> 0, last |-> "none", offered |-> FALSE])
  BY <1>1, <1>2, <1>3, ResearchRowShows
<1>5. ShownRecords[b][1] = [state |-> "none", n |-> 0, last |-> "none", offered |-> FALSE]
  BY <1>2, RecordOf
<1>6. ~ Records!Created(b)
  BY <1>5 DEF Records!Created
<1> QED
  BY <1>4, <1>6 DEF Records!Submitted, Records!Queued, Records!Row

-----------------------------------------------------------------------------
(* Completions show together with the run they start.                      *)
LEMMA ResearchCompleteShows ==
  ASSUME IInv, IInv', NEW b \in Briefs, NEW n \in Research!Issued(b), NEW d \in Digests, NEW s \in Stamps,
         ResearchComplete(b, n, d, s)
  PROVE  Records!Complete(b, 1)
<1>1. /\ ResearchQueue!Complete(b, n, d) /\ n \in ResearchQueue!Issued(b)
      /\ ReelQueue!Enqueue(<<b, n>>, briefRequester[b], s) /\ UNCHANGED calendarVars
  BY ResearchNames, ReelNames DEF ResearchComplete, ReelTaskOf
<1>2. /\ n \in AttemptNumbers /\ ~ Researched(b) /\ Researched(b)'
      /\ briefOutcome'[b].attempt = n
      /\ \A y \in Briefs : y # b => briefOutcome'[y] = briefOutcome[y]
  <2>1. /\ n \in AttemptNumbers /\ briefOutcome[b] = NoOutcome
        /\ briefOutcome'[b] = [attempt |-> n, digest |-> d] /\ briefOutcome'[b] # NoOutcome
        /\ \A y \in Briefs : y # b => briefOutcome'[y] = briefOutcome[y]
    BY <1>1, ResearchCompletes DEF IInv
  <2> QED
    BY <2>1 DEF Researched
<1>3. PICK k \in ReelTasks : k = <<b, n>>
  BY <1>2 DEF ReelTasks
<1>4. reelOutcome[k] = NoOutcome /\ reelOutcome' = reelOutcome
  BY <1>1, <1>3, ReelEnqueues DEF IInv
<1>5. /\ ReelQueue!Seen(k)' = [state |-> "queued", n |-> 0, last |-> "none", offered |-> FALSE]
      /\ ReelQueue!OthersSeen(k)
  BY <1>1, <1>3, StageAssumptions, ReelQueue!EnqueueSeen DEF IInv, Queues
<1>6. /\ ResearchQueue!Seen(b) = [state |-> "running", n |-> n, last |-> "running", offered |-> FALSE]
      /\ ResearchQueue!Seen(b)' = [state |-> "succeeded", n |-> n, last |-> "succeeded", offered |-> FALSE]
      /\ ResearchQueue!OthersSeen(b)
  BY <1>1, StageAssumptions, ResearchQueue!CompleteSeen DEF IInv, Queues
<1>7. Won(b)' = k
  BY <1>2, <1>3 DEF Won
<1>8. ReelRow(b)' = ReelQueue!Seen(k)'
  BY <1>2, <1>7 DEF ReelRow, ReelQueue!Seen, ReelQueue!Last
<1>9. CalendarRow(b) = Nothing /\ CalendarRow(b)' = Nothing
  BY <1>2, <1>4, <1>7 DEF CalendarRow, Analysed, Nothing
<1>10. \A c \in CalendarTasks : CalendarQueue!Seen(c)' = CalendarQueue!Seen(c)
  BY <1>1, CalendarSeenStays DEF calendarVars
<1>11. ASSUME NEW y \in Briefs, y # b PROVE ReelRow(y)' = ReelRow(y) /\ CalendarRow(y)' = CalendarRow(y)
  <2>1. \A j \in ReelTasks : j[1] = y => ReelQueue!Seen(j)' = ReelQueue!Seen(j)
    BY <1>3, <1>5, <1>11 DEF ReelQueue!OthersSeen
  <2> QED
    BY <1>2, <1>4, <1>10, <1>11, <2>1, ReelRowStays, CalendarRowStays
<1>12. /\ RowOf(b, 1) = [state |-> "running", n |-> n, last |-> "running", offered |-> FALSE]
       /\ RowOf(b, 1)' = [state |-> "succeeded", n |-> n, last |-> "succeeded", offered |-> FALSE]
       /\ RowOf(b, 1 + 1)' = [state |-> "queued", n |-> 0, last |-> "none", offered |-> FALSE]
  BY <1>5, <1>6, <1>8 DEF RowOf
<1>13. ASSUME NEW c \in Briefs, NEW t \in 1 .. 3, c # b \/ t \notin {1, 1 + 1} PROVE RowOf(c, t)' = RowOf(c, t)
  BY <1>6, <1>9, <1>11, <1>13 DEF RowOf, ResearchQueue!OthersSeen
<1> QED
  BY <1>12, <1>13, CompletionShows

LEMMA ReelCompleteShows ==
  ASSUME IInv, IInv', NEW k \in ReelTasks, NEW n \in Reel!Issued(k), NEW d \in Digests, NEW s \in Stamps,
         ReelComplete(k, n, d, s)
  PROVE  k[1] \in Briefs /\ Records!Complete(k[1], 2)
<1>1. /\ ReelQueue!Complete(k, n, d) /\ n \in ReelQueue!Issued(k)
      /\ CalendarQueue!Enqueue(<<k, n>>, reelRequester[k], s) /\ UNCHANGED researchVars
  BY ReelNames, CalendarNames DEF ReelComplete, CalendarTaskOf
<1>2. /\ n \in AttemptNumbers /\ reelOutcome[k] = NoOutcome
      /\ reelOutcome'[k] # NoOutcome /\ reelOutcome'[k].attempt = n
      /\ \A y \in ReelTasks : y # k => reelOutcome'[y] = reelOutcome[y]
  <2>1. /\ n \in AttemptNumbers /\ reelOutcome[k] = NoOutcome
        /\ reelOutcome'[k] = [attempt |-> n, digest |-> d] /\ reelOutcome'[k] # NoOutcome
        /\ \A y \in ReelTasks : y # k => reelOutcome'[y] = reelOutcome[y]
    BY <1>1, ReelCompletes DEF IInv
  <2> QED
    BY <2>1
<1>3. reelRun[k] # "none"
  BY <1>1 DEF ReelQueue!Complete
<1>4. PICK b \in Briefs : b = k[1] /\ Researched(b) /\ k = Won(b)
  BY <1>3, RunIsOfTheChain
<1>5. PICK t \in CalendarTasks : t = <<k, n>>
  BY <1>2 DEF CalendarTasks
<1>6. briefOutcome' = briefOutcome
  BY <1>1 DEF researchVars
<1>7. Won(b)' = k /\ Researched(b)'
  BY <1>4, <1>6 DEF Won, Researched
<1>8. ~ Analysed(b) /\ Analysed(b)' /\ WonTwice(b)' = t
  BY <1>2, <1>4, <1>5, <1>7 DEF Analysed, WonTwice
<1>9. /\ CalendarQueue!Seen(t)' = [state |-> "queued", n |-> 0, last |-> "none", offered |-> FALSE]
      /\ CalendarQueue!OthersSeen(t)
  BY <1>1, <1>5, StageAssumptions, CalendarQueue!EnqueueSeen DEF IInv, Queues
<1>10. /\ ReelQueue!Seen(k) = [state |-> "running", n |-> n, last |-> "running", offered |-> FALSE]
       /\ ReelQueue!Seen(k)' = [state |-> "succeeded", n |-> n, last |-> "succeeded", offered |-> FALSE]
       /\ ReelQueue!OthersSeen(k)
  BY <1>1, StageAssumptions, ReelQueue!CompleteSeen DEF IInv, Queues
<1>11. ReelRow(b) = ReelQueue!Seen(k) /\ ReelRow(b)' = ReelQueue!Seen(k)'
  BY <1>4, <1>7 DEF ReelRow, ReelQueue!Seen, ReelQueue!Last
<1>12. CalendarRow(b)' = CalendarQueue!Seen(t)'
  BY <1>8 DEF CalendarRow, CalendarQueue!Seen, CalendarQueue!Last
<1>13. \A c \in Briefs : ResearchQueue!Seen(c)' = ResearchQueue!Seen(c)
  BY <1>1, ResearchSeenStays DEF researchVars
<1>14. ASSUME NEW y \in Briefs, y # b PROVE ReelRow(y)' = ReelRow(y) /\ CalendarRow(y)' = CalendarRow(y)
  <2>1. \A j \in ReelTasks : j[1] = y => ReelQueue!Seen(j)' = ReelQueue!Seen(j) /\ reelOutcome'[j] = reelOutcome[j]
    BY <1>2, <1>4, <1>10, <1>14 DEF ReelQueue!OthersSeen
  <2>2. \A u \in CalendarTasks : u[1][1] = y => CalendarQueue!Seen(u)' = CalendarQueue!Seen(u)
    <3>1. t[1][1] = b
      BY <1>4, <1>5
    <3> QED
      BY <3>1, <1>9, <1>14 DEF CalendarQueue!OthersSeen
  <2> QED
    BY <1>6, <2>1, <2>2, ReelRowStays, CalendarRowStays
<1>15. /\ RowOf(b, 2) = [state |-> "running", n |-> n, last |-> "running", offered |-> FALSE]
       /\ RowOf(b, 2)' = [state |-> "succeeded", n |-> n, last |-> "succeeded", offered |-> FALSE]
       /\ RowOf(b, 2 + 1)' = [state |-> "queued", n |-> 0, last |-> "none", offered |-> FALSE]
  BY <1>9, <1>10, <1>11, <1>12 DEF RowOf
<1>16. ASSUME NEW c \in Briefs, NEW r \in 1 .. 3, c # b \/ r \notin {2, 2 + 1} PROVE RowOf(c, r)' = RowOf(c, r)
  BY <1>13, <1>14, <1>16 DEF RowOf
<1>17. Records!Complete(b, 2)
  BY <1>15, <1>16, CompletionShows
<1> QED
  BY <1>4, <1>17

LEMMA CalendarCompleteShows ==
  ASSUME IInv, IInv', NEW t \in CalendarTasks, NEW n \in Calendar!Issued(t), NEW d \in Digests,
         CalendarComplete(t, n, d)
  PROVE  t[1][1] \in Briefs /\ Records!Complete(t[1][1], 3)
<1>1. CalendarQueue!Complete(t, n, d) /\ n \in CalendarQueue!Issued(t) /\ UNCHANGED <<researchVars, reelVars>>
  BY CalendarNames DEF CalendarComplete
<1>2. /\ CalendarQueue!Seen(t) = [state |-> "running", n |-> n, last |-> "running", offered |-> FALSE]
      /\ CalendarQueue!Seen(t)' = [state |-> "succeeded", n |-> n, last |-> "succeeded", offered |-> FALSE]
      /\ CalendarQueue!OthersSeen(t)
  BY <1>1, StageAssumptions, CalendarQueue!CompleteSeen DEF IInv, Queues
<1>3. calendarRun[t] # "none"
  BY <1>1 DEF CalendarQueue!Complete
<1> DEFINE b == t[1][1]
<1>4. /\ b \in Briefs /\ CalendarRow(b) = CalendarQueue!Seen(t)
      /\ CalendarRow(b)' = CalendarQueue!Seen(t)'
      /\ \A c \in Briefs, s \in 1 .. 3 : c # b \/ s # 3 => RowOf(c, s)' = RowOf(c, s)
  BY <1>1, <1>2, <1>3, CalendarRowShows
<1> HIDE DEF b
<1>5. /\ RowOf(b, 3) = [state |-> "running", n |-> n, last |-> "running", offered |-> FALSE]
      /\ RowOf(b, 3)' = [state |-> "succeeded", n |-> n, last |-> "succeeded", offered |-> FALSE]
  BY <1>2, <1>4 DEF RowOf
<1>6. Records!Complete(b, 3)
  BY <1>4, <1>5, CompletionShows
<1> QED
  BY <1>4, <1>6 DEF b

LEMMA TickShowsNothing ==
  ASSUME IInv, IInv', Tick
  PROVE  ShownRecords' = ShownRecords
<1>1. /\ ResearchQueue!Tick \/ UNCHANGED ResearchQueue!vars
      /\ ReelQueue!Tick \/ UNCHANGED ReelQueue!vars
      /\ CalendarQueue!Tick \/ UNCHANGED CalendarQueue!vars
  <2>1. /\ ResearchQueue!Age /\ ReelQueue!Age /\ CalendarQueue!Age
        /\ UNCHANGED <<tenantActive, members, briefRequester, briefCreated, briefRun, briefOutcome>>
        /\ UNCHANGED <<reelRequester, reelCreated, reelRun, reelOutcome>>
        /\ UNCHANGED <<calendarRequester, calendarCreated, calendarRun, calendarOutcome>>
    BY ResearchNames, ReelNames, CalendarNames DEF Tick
  <2> QED
    BY <2>1, ResearchAges, ReelAges, CalendarAges DEF IInv
<1>2. briefOutcome' = briefOutcome /\ reelOutcome' = reelOutcome
  BY DEF Tick
<1>3. \A b \in Briefs : ResearchQueue!Seen(b)' = ResearchQueue!Seen(b)
  <2>1. CASE ResearchQueue!Tick
    BY <2>1, StageAssumptions, ResearchQueue!TickSeen DEF IInv, Queues
  <2>2. CASE UNCHANGED ResearchQueue!vars
    BY <2>2, ResearchSeenStays DEF ResearchQueue!vars
  <2> QED
    BY <1>1, <2>1, <2>2
<1>4. \A k \in ReelTasks : ReelQueue!Seen(k)' = ReelQueue!Seen(k)
  <2>1. CASE ReelQueue!Tick
    BY <2>1, StageAssumptions, ReelQueue!TickSeen DEF IInv, Queues
  <2>2. CASE UNCHANGED ReelQueue!vars
    BY <2>2, ReelSeenStays DEF ReelQueue!vars
  <2> QED
    BY <1>1, <2>1, <2>2
<1>5. \A c \in CalendarTasks : CalendarQueue!Seen(c)' = CalendarQueue!Seen(c)
  <2>1. CASE CalendarQueue!Tick
    BY <2>1, StageAssumptions, CalendarQueue!TickSeen DEF IInv, Queues
  <2>2. CASE UNCHANGED CalendarQueue!vars
    BY <2>2, CalendarSeenStays DEF CalendarQueue!vars
  <2> QED
    BY <1>1, <2>1, <2>2
<1> QED
  BY <1>2, <1>3, <1>4, <1>5, NothingShows

LEMMA EnvironmentShowsNothing ==
  ASSUME IInv, IInv', SetTenant \/ (\E u \in Users : SetMember(u)) \/ UNCHANGED vars
  PROVE  ShownRecords' = ShownRecords
<1>1. UNCHANGED <<briefRun, briefAttempts, briefOutcome, reelVars, calendarVars>>
  BY DEF SetTenant, SetMember, Research!SetTenant, Research!SetMember, vars, researchVars
<1>2. \A b \in Briefs : ResearchQueue!Seen(b)' = ResearchQueue!Seen(b)
  BY <1>1, ResearchSeenStays
<1>3. \A k \in ReelTasks : ReelQueue!Seen(k)' = ReelQueue!Seen(k)
  BY <1>1, ReelSeenStays DEF reelVars
<1>4. \A c \in CalendarTasks : CalendarQueue!Seen(c)' = CalendarQueue!Seen(c)
  BY <1>1, CalendarSeenStays DEF calendarVars
<1>5. briefOutcome' = briefOutcome /\ reelOutcome' = reelOutcome
  BY <1>1 DEF reelVars
<1> QED
  BY <1>2, <1>3, <1>4, <1>5, NothingShows

(* Every step of the three queues is one step of the chain, or shows       *)
(* nothing.                                                                *)
LEMMA StepShows ==
  ASSUME IInv, IInv', [Next]_vars
  PROVE  [Records!RecordsNext]_ShownRecords
<1>0. \A s \in 1 .. 3, b \in Briefs : Records!RunStep(b, s) => Records!RecordsNext
  BY DEF Records!RecordsNext, Records!Stages
<1>1. CASE ResearchStep
  <2> PICK b \in Briefs :
        \/ \E u \in Users, s \in Stamps : SubmitBrief(b, u, s)
        \/ ResearchClaim(b)
        \/ \E n \in Research!Issued(b), c \in Codes : ResearchFail(b, n, c)
        \/ \E n \in Research!Issued(b) : ResearchRetry(b, n)
        \/ \E n \in Research!Issued(b), d \in Digests, s \in Stamps : ResearchComplete(b, n, d, s)
    BY <1>1 DEF ResearchStep
  <2>1. CASE \E u \in Users, s \in Stamps : SubmitBrief(b, u, s)
    BY <2>1, SubmitBriefShows DEF Records!RecordsNext
  <2>2. CASE \/ ResearchClaim(b)
             \/ \E n \in Research!Issued(b), c \in Codes : ResearchFail(b, n, c)
             \/ \E n \in Research!Issued(b) : ResearchRetry(b, n)
    BY <2>2, <1>0, ResearchCommandShows
  <2>3. CASE \E n \in Research!Issued(b), d \in Digests, s \in Stamps : ResearchComplete(b, n, d, s)
    BY <2>3, <1>0, ResearchCompleteShows DEF Records!RunStep
  <2> QED
    BY <2>1, <2>2, <2>3
<1>2. CASE ReelStep
  <2> PICK k \in ReelTasks :
        \/ ReelClaim(k)
        \/ \E n \in Reel!Issued(k), c \in Codes : ReelFail(k, n, c)
        \/ \E n \in Reel!Issued(k) : ReelRetry(k, n)
        \/ \E n \in Reel!Issued(k), d \in Digests, s \in Stamps : ReelComplete(k, n, d, s)
    BY <1>2 DEF ReelStep
  <2>1. CASE \E n \in Reel!Issued(k), d \in Digests, s \in Stamps : ReelComplete(k, n, d, s)
    BY <2>1, <1>0, ReelCompleteShows DEF Records!RunStep
  <2>2. CASE \/ ReelClaim(k)
             \/ \E n \in Reel!Issued(k), c \in Codes : ReelFail(k, n, c)
             \/ \E n \in Reel!Issued(k) : ReelRetry(k, n)
    BY <2>2, <1>0, ReelCommandShows
  <2> QED
    BY <2>1, <2>2
<1>3. CASE CalendarStep
  <2> PICK t \in CalendarTasks :
        \/ CalendarClaim(t)
        \/ \E n \in Calendar!Issued(t), c \in Codes : CalendarFail(t, n, c)
        \/ \E n \in Calendar!Issued(t) : CalendarRetry(t, n)
        \/ \E n \in Calendar!Issued(t), d \in Digests : CalendarComplete(t, n, d)
    BY <1>3 DEF CalendarStep
  <2>1. CASE \E n \in Calendar!Issued(t), d \in Digests : CalendarComplete(t, n, d)
    BY <2>1, <1>0, CalendarCompleteShows DEF Records!RunStep
  <2>2. CASE \/ CalendarClaim(t)
             \/ \E n \in Calendar!Issued(t), c \in Codes : CalendarFail(t, n, c)
             \/ \E n \in Calendar!Issued(t) : CalendarRetry(t, n)
    BY <2>2, <1>0, CalendarCommandShows
  <2> QED
    BY <2>1, <2>2
<1>4. CASE SetTenant \/ (\E u \in Users : SetMember(u)) \/ UNCHANGED vars
  BY <1>4, EnvironmentShowsNothing
<1>5. CASE Tick
  BY <1>5, TickShowsNothing
<1> QED
  BY <1>1, <1>2, <1>3, <1>4, <1>5 DEF Next

(* What the page of a brief reads of the chain, whose rows its requests    *)
(* fetch one after the other, changes as the records of RunRecords do: the *)
(* environment BriefPanel assumes is the one the queues provide.           *)
THEOREM ChainKeepsTheRecords == Spec => ReadersSeeOneChain
<1>1. Init => Records!RecordsInit
  <2> SUFFICES ASSUME Init, NEW b \in Briefs, NEW s \in 1 .. 3
               PROVE  ShownRun(b, s) = Records!NoRow
    BY DEF ShownRecords, Records!RecordsInit, Records!Stages
  <2>1. briefRun[b] = "none" /\ briefAttempts[b] = <<>>
    BY DEF Init, Research!Init
  <2>2. ~ HasReel(b)
    BY DEF Init, Reel!Init, ReelTasksOf, HasReel
  <2>3. ~ HasCalendar(b)
    BY <2>2 DEF HasCalendar
  <2>4. ShownRun(b, s) = Shown("none", <<>>)
    BY <2>1, <2>2, <2>3, Zenon DEF ShownRun
  <2> QED
    BY <2>4 DEF Shown, Records!NoRow, Records!Row
<1>2. IInv /\ IInv' /\ [Next]_vars => [Records!RecordsNext]_ShownRecords
  BY StepShows
<1> QED
  BY <1>1, <1>2, Invariance, PTL DEF Spec, ReadersSeeOneChain, Records!RecordsSpec
=============================================================================
