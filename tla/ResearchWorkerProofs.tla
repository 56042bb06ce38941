------------------------- MODULE ResearchWorkerProofs -------------------------
(***************************************************************************)
(* Proofs about ResearchWorker for every set of workers, tasks, codes and  *)
(* digests, with clocks that agree and with clocks that do not.  What      *)
(* holds of the queue is taken from LeaseQueueProofs; what is new is that  *)
(* the numbers workers hold were issued to them, each to one of them.      *)
(***************************************************************************)
EXTENDS ResearchWorker, LeaseQueueProofs

Reports == [task : Tasks, attempt : 1 .. MaxAttempts, result : {"succeeded"} \cup Codes]

Busy(w) == worker[w].phase # "idle"

\* What a worker holds was issued, was not dispatched before it is observed,
\* and is recorded before it is metered.
OwnInv(w) ==
  /\ Busy(w) => Task(w) \in Tasks /\ Number(w) \in Issued(Task(w))
  /\ worker[w].phase = "observing" => dispatches[AttemptId(w)] = 0
  /\ worker[w].phase = "metering" => /\ outcome[Task(w)] # NoOutcome
                                     /\ outcome[Task(w)].attempt = Number(w)

\* No attempt has two workers.
Apart(v, w) == Busy(v) /\ Busy(w) /\ Task(v) = Task(w) => Number(v) # Number(w)

\* An attempt that does not exist was not dispatched.
DispatchInv ==
  \A t \in Tasks : \A n \in 1 .. MaxAttempts :
    dispatches[<<t, n>>] <= 1 /\ (n \notin Issued(t) => dispatches[<<t, n>>] = 0)

\* Reports and stray commands are about attempts that exist.
StrayInv == \A s \in stray : s.attempt \in Issued(s.task)
ReportInv == (\A r \in reported : r.attempt \in Issued(r.task)) /\ ReportsAreTrue

WorkerInv ==
  /\ IInv
  /\ WorkerTypeOK
  /\ \A w \in Workers : OwnInv(w)
  /\ \A v, w \in Workers : v # w => Apart(v, w)
  /\ DispatchInv
  /\ StrayInv
  /\ ReportInv

-----------------------------------------------------------------------------
(* What workers may rely on while the queue moves.                         *)

\* Attempts and outcomes are never taken away.
LEMMA QueueMoves ==
  ASSUME IInv, [Next]_vars
  PROVE  /\ IInv'
         /\ KeepsVerdicts
         /\ \A t \in Tasks : Issued(t) \subseteq Issued(t)'
         /\ \A t \in Tasks : outcome[t] # NoOutcome => outcome'[t] = outcome[t]
<1>1. IInv' /\ KeepsVerdicts
  BY NextIInv, StepsKeepVerdicts, LeaseQueueAssumption
<1>2. \A t \in Tasks : Issued(t) \subseteq Issued(t)'
  BY <1>1 DEF KeepsVerdicts
<1>3. outcome \in [Tasks -> Outcome \cup {NoOutcome}]
  BY DEF IInv, TypeOK
<1>4. \/ outcome' = outcome
      \/ \E t \in Tasks : \E n, d : outcome[t] = NoOutcome /\ outcome' = [outcome EXCEPT ![t] = [attempt |-> n, digest |-> d]]
  BY DEF Next, Enqueue, Claim, ClaimReap, ClaimRefuse, ClaimIssue, Fail, Complete, Retry, SetTenant, SetMember,
         Tick, vars
<1>5. \A t \in Tasks : outcome[t] # NoOutcome => outcome'[t] = outcome[t]
  BY <1>3, <1>4
<1> QED
  BY <1>1, <1>2, <1>5

\* What was reported stays true.
LEMMA ReportsStay ==
  ASSUME WorkerInv, [Next]_vars, NEW r \in reported
  PROVE  /\ r.attempt \in Issued(r.task)'
         /\ IF r.result = "succeeded"
            THEN outcome'[r.task] # NoOutcome /\ outcome'[r.task].attempt = r.attempt
            ELSE attempts'[r.task][r.attempt].state = "failed" /\ attempts'[r.task][r.attempt].code = r.result
<1>1. r.task \in Tasks /\ r.attempt \in Issued(r.task)
  BY DEF WorkerInv, WorkerTypeOK, ReportInv
<1>2. /\ KeepsVerdict(attempts[r.task][r.attempt], attempts'[r.task][r.attempt])
      /\ r.attempt \in Issued(r.task)'
      /\ outcome[r.task] # NoOutcome => outcome'[r.task] = outcome[r.task]
  BY <1>1, QueueMoves DEF WorkerInv, KeepsVerdicts
<1>3. IF r.result = "succeeded"
      THEN outcome[r.task] # NoOutcome /\ outcome[r.task].attempt = r.attempt
      ELSE attempts[r.task][r.attempt].state = "failed" /\ attempts[r.task][r.attempt].code = r.result
  BY DEF WorkerInv, ReportInv, ReportsAreTrue
<1> QED
  BY <1>2, <1>3 DEF KeepsVerdict

\* A worker that does not move keeps what it holds.
LEMMA OthersKeep ==
  ASSUME WorkerInv, [Next]_vars, NEW v \in Workers, worker'[v] = worker[v],
         worker[v].phase = "observing" => dispatches'[AttemptId(v)] = dispatches[AttemptId(v)]
  PROVE  OwnInv(v)'
<1>1. OwnInv(v)
  BY DEF WorkerInv
<1>2. /\ \A t \in Tasks : Issued(t) \subseteq Issued(t)'
      /\ \A t \in Tasks : outcome[t] # NoOutcome => outcome'[t] = outcome[t]
  BY QueueMoves DEF WorkerInv
<1> QED
  BY <1>1, <1>2 DEF OwnInv, Busy, Task, Number, AttemptId

\* The dispatch counts survive what leaves them alone.
LEMMA DispatchesKeep ==
  ASSUME WorkerInv, [Next]_vars, dispatches' = dispatches
  PROVE  DispatchInv'
<1>1. \A t \in Tasks : Issued(t) \subseteq Issued(t)'
  BY QueueMoves DEF WorkerInv
<1> QED
  BY <1>1 DEF WorkerInv, DispatchInv

(* One worker moves, or none.  It accounts for its own state; everything   *)
(* else may be no more than it was, or has to be accounted for.            *)
LEMMA MoveWInv ==
  ASSUME WorkerInv, [Next]_vars, NEW w \in Workers,
         worker' \in [Workers -> Process], \A v \in Workers : v # w => worker'[v] = worker[v],
         OwnInv(w)', \A v \in Workers : v # w => Apart(v, w)',
         stray' \subseteq Stray, \A s \in stray' : s \in stray \/ (s.task \in Tasks /\ s.attempt \in Issued(s.task)'),
         dispatches' \in [AttemptIds -> Nat], DispatchInv',
         \A v \in Workers : v # w /\ worker[v].phase = "observing" =>
                              dispatches'[AttemptId(v)] = dispatches[AttemptId(v)],
         reported' \subseteq Reports,
         \A r \in reported' \ reported :
           /\ r.attempt \in Issued(r.task)'
           /\ IF r.result = "succeeded"
              THEN outcome'[r.task] # NoOutcome /\ outcome'[r.task].attempt = r.attempt
              ELSE attempts'[r.task][r.attempt].state = "failed" /\ attempts'[r.task][r.attempt].code = r.result,
         usage' \in [AttemptIds -> UsageRows]
  PROVE  WorkerInv'
<1>1. IInv' /\ \A t \in Tasks : Issued(t) \subseteq Issued(t)'
  BY QueueMoves DEF WorkerInv
<1>2. WorkerTypeOK'
  BY <1>1 DEF WorkerTypeOK, IInv, Reports
<1>3. ASSUME NEW v \in Workers PROVE OwnInv(v)'
  BY OthersKeep
<1>4. ASSUME NEW u \in Workers, NEW v \in Workers, u # v PROVE Apart(u, v)'
  <2>1. CASE u # w /\ v # w
    BY <1>4, <2>1 DEF WorkerInv, Apart, Busy, Task, Number
  <2>2. CASE v = w
    BY <1>4, <2>2
  <2>3. CASE u = w
    BY <1>4, <2>3 DEF Apart
  <2> QED
    BY <2>1, <2>2, <2>3
<1>5. StrayInv'
  BY <1>1 DEF WorkerInv, StrayInv, WorkerTypeOK, Stray
<1>6. ReportInv'
  <2>1. ASSUME NEW r \in reported'
        PROVE  /\ r.attempt \in Issued(r.task)'
               /\ IF r.result = "succeeded"
                  THEN outcome'[r.task] # NoOutcome /\ outcome'[r.task].attempt = r.attempt
                  ELSE attempts'[r.task][r.attempt].state = "failed" /\ attempts'[r.task][r.attempt].code = r.result
    BY ReportsStay
  <2> QED
    BY <2>1 DEF ReportInv, ReportsAreTrue
<1> QED
  BY <1>1, <1>2, <1>3, <1>4, <1>5, <1>6 DEF WorkerInv

\* No worker moves.
LEMMA NobodyMovesWInv ==
  ASSUME WorkerInv, [Next]_vars, UNCHANGED <<worker, dispatches, reported>>,
         stray' \subseteq stray, usage' \in [AttemptIds -> UsageRows]
  PROVE  WorkerInv'
<1>1. IInv' /\ \A t \in Tasks : Issued(t) \subseteq Issued(t)'
  BY QueueMoves DEF WorkerInv
<1>2. WorkerTypeOK'
  BY <1>1 DEF WorkerTypeOK, IInv, WorkerInv
<1>3. ASSUME NEW v \in Workers PROVE OwnInv(v)'
  BY OthersKeep
<1>4. ASSUME NEW u \in Workers, NEW v \in Workers, u # v PROVE Apart(u, v)'
  BY <1>4 DEF WorkerInv, Apart, Busy, Task, Number
<1>5. StrayInv'
  BY <1>1 DEF WorkerInv, StrayInv, WorkerTypeOK, Stray
<1>6. ReportInv'
  BY ReportsStay DEF ReportInv, ReportsAreTrue
<1>7. DispatchInv'
  BY DispatchesKeep
<1> QED
  BY <1>1, <1>2, <1>3, <1>4, <1>5, <1>6, <1>7 DEF WorkerInv

-----------------------------------------------------------------------------
(* Every step of the workers is one command of the queue, or none.         *)
LEMMA OwnIsIssued ==
  ASSUME WorkerInv, NEW w \in Workers, Busy(w)
  PROVE  Task(w) \in Tasks /\ Number(w) \in Issued(Task(w)) /\ AttemptId(w) \in AttemptIds
<1>1. Task(w) \in Tasks /\ Number(w) \in Issued(Task(w))
  BY DEF WorkerInv, OwnInv
<1>2. Number(w) \in 1 .. MaxAttempts
  BY <1>1, IssuedNumbers, LeaseQueueAssumption DEF WorkerInv
<1> QED
  BY <1>1, <1>2 DEF AttemptId, AttemptIds

LEMMA WorkIsQueueStep ==
  ASSUME WorkerInv, NEW w \in Workers, Work(w)
  PROVE  [Next]_vars
<1>1. CASE Poll(w)
  BY <1>1 DEF Poll, Next, Claim
<1>2. CASE CompleteAnswered(w)
  <2>1. Task(w) \in Tasks /\ Number(w) \in Issued(Task(w))
    BY <1>2, OwnIsIssued DEF CompleteAnswered, Busy
  <2> QED
    BY <1>2, <2>1 DEF CompleteAnswered, Next
<1>3. CASE FailAnswered(w)
  <2>1. Task(w) \in Tasks /\ Number(w) \in Issued(Task(w)) /\ worker[w].call \in Codes
    BY <1>3, OwnIsIssued DEF FailAnswered, Busy
  <2> QED
    BY <1>3, <2>1 DEF FailAnswered, Next
<1>4. CASE Observed(w) \/ Dispatched(w) \/ CommandRefused(w) \/ UsageRecorded(w) \/ UsageLost(w)
  BY <1>4 DEF Observed, Dispatched, CommandRefused, UsageRecorded, UsageLost
<1> QED
  BY <1>1, <1>2, <1>3, <1>4 DEF Work

LEMMA WorkerStepIsQueueStep ==
  ASSUME WorkerInv, [WorkerNext]_allVars
  PROVE  [Next]_vars
<1>1. CASE Environment
  BY <1>1 DEF Environment, Next
<1>2. ASSUME NEW w \in Workers, Work(w) PROVE [Next]_vars
  BY <1>2, WorkIsQueueStep
<1>3. ASSUME NEW w \in Workers, Abandon(w) PROVE [Next]_vars
  BY <1>3 DEF Abandon
<1>4. ASSUME NEW s \in stray, Deliver(s) PROVE [Next]_vars
  <2>1. s.task \in Tasks /\ s.attempt \in Issued(s.task)
    BY DEF WorkerInv, WorkerTypeOK, StrayInv, Stray
  <2> QED
    BY <1>4, <2>1 DEF Deliver, Next
<1>5. CASE UNCHANGED allVars
  BY <1>5 DEF allVars
<1> QED
  BY <1>1, <1>2, <1>3, <1>4, <1>5 DEF WorkerNext

-----------------------------------------------------------------------------
(* The steps of a worker.                                                  *)

\* What a busy worker becomes when it goes on, and when it comes to rest.
LEMMA BecomeFacts ==
  ASSUME WorkerInv, NEW w \in Workers, NEW phase \in Phases, NEW call \in Calls, Become(w, phase, call)
  PROVE  /\ worker' \in [Workers -> Process]
         /\ worker'[w].phase = phase /\ Task(w)' = Task(w) /\ Number(w)' = Number(w)
         /\ AttemptId(w)' = AttemptId(w)
         /\ \A v \in Workers : v # w => worker'[v] = worker[v]
<1>1. worker \in [Workers -> Process] /\ worker[w] \in Process
  BY DEF WorkerInv, WorkerTypeOK
<1>2. worker' = [worker EXCEPT ![w] = [worker[w] EXCEPT !.phase = phase, !.call = call]]
  BY <1>1 DEF Become
<1>3. [worker[w] EXCEPT !.phase = phase, !.call = call] \in Process
  BY <1>1 DEF Process
<1>4. /\ worker' \in [Workers -> Process]
      /\ worker'[w] = [worker[w] EXCEPT !.phase = phase, !.call = call]
      /\ \A v \in Workers : v # w => worker'[v] = worker[v]
  BY <1>1, <1>2, <1>3
<1>5. worker'[w].phase = phase /\ worker'[w].task = worker[w].task /\ worker'[w].attempt = worker[w].attempt
  BY <1>1, <1>4 DEF Process
<1> QED
  BY <1>4, <1>5 DEF Task, Number, AttemptId

LEMMA RestFacts ==
  ASSUME WorkerInv, NEW w \in Workers, Rest(w)
  PROVE  /\ worker' \in [Workers -> Process]
         /\ OwnInv(w)'
         /\ \A v \in Workers : v # w => worker'[v] = worker[v] /\ Apart(v, w)'
<1>1. worker \in [Workers -> Process] /\ MaxAttempts \in Nat
  BY LeaseQueueAssumption DEF WorkerInv, WorkerTypeOK
<1>2. Idle \in Process
  BY <1>1 DEF Idle, Process, Phases, Calls
<1>3. /\ worker' \in [Workers -> Process] /\ worker'[w] = Idle
      /\ \A v \in Workers : v # w => worker'[v] = worker[v]
  BY <1>1, <1>2 DEF Rest
<1> QED
  BY <1>3 DEF OwnInv, Apart, Busy, Idle

\* A worker that goes on with the attempt it holds stays apart from the others.
LEMMA StillApart ==
  ASSUME WorkerInv, NEW w \in Workers, Busy(w), Task(w)' = Task(w), Number(w)' = Number(w),
         NEW v \in Workers, v # w, worker'[v] = worker[v]
  PROVE  Apart(v, w)'
BY DEF WorkerInv, Apart, Busy, Task, Number

\* A worker comes to rest after a command, or without one.
LEMMA RestWInv ==
  ASSUME WorkerInv, [Next]_vars, NEW w \in Workers, Rest(w), UNCHANGED dispatches,
         stray' \subseteq Stray, \A s \in stray' : s \in stray \/ (s.task \in Tasks /\ s.attempt \in Issued(s.task)'),
         reported' \subseteq Reports,
         \A r \in reported' \ reported :
           /\ r.attempt \in Issued(r.task)'
           /\ IF r.result = "succeeded"
              THEN outcome'[r.task] # NoOutcome /\ outcome'[r.task].attempt = r.attempt
              ELSE attempts'[r.task][r.attempt].state = "failed" /\ attempts'[r.task][r.attempt].code = r.result,
         usage' \in [AttemptIds -> UsageRows]
  PROVE  WorkerInv'
<1>1. /\ worker' \in [Workers -> Process] /\ OwnInv(w)'
      /\ \A v \in Workers : v # w => worker'[v] = worker[v] /\ Apart(v, w)'
  BY RestFacts
<1>2. DispatchInv' /\ dispatches' \in [AttemptIds -> Nat]
  BY DispatchesKeep DEF WorkerInv, WorkerTypeOK
<1> QED
  BY <1>1, <1>2, MoveWInv

\* A worker goes on with its attempt.
LEMMA BecomeWInv ==
  ASSUME WorkerInv, [Next]_vars, NEW w \in Workers, Busy(w), NEW phase \in Phases, NEW call \in Calls,
         Become(w, phase, call), phase # "observing",
         phase = "metering" => outcome'[Task(w)] # NoOutcome /\ outcome'[Task(w)].attempt = Number(w),
         UNCHANGED <<stray, dispatches, reported, usage>>
  PROVE  WorkerInv'
<1>1. /\ worker' \in [Workers -> Process]
      /\ worker'[w].phase = phase /\ Task(w)' = Task(w) /\ Number(w)' = Number(w)
      /\ \A v \in Workers : v # w => worker'[v] = worker[v]
  BY BecomeFacts
<1>2. PICK t \in Tasks : t = Task(w) /\ Number(w) \in Issued(t)
  BY OwnIsIssued
<1>3. Number(w) \in Issued(t)'
  BY <1>2, QueueMoves DEF WorkerInv
<1>4. OwnInv(w)'
  BY <1>1, <1>2, <1>3 DEF OwnInv, Busy, Issued
<1>5. \A v \in Workers : v # w => Apart(v, w)'
  BY <1>1, StillApart
<1>6. DispatchInv' /\ dispatches' \in [AttemptIds -> Nat]
  BY DispatchesKeep DEF WorkerInv, WorkerTypeOK
<1>7. stray' \subseteq Stray /\ reported' \subseteq Reports /\ usage' \in [AttemptIds -> UsageRows]
  BY DEF WorkerInv, WorkerTypeOK, Reports
<1> QED
  BY <1>1, <1>4, <1>5, <1>6, <1>7, MoveWInv

\* Nothing is reported, nothing gets astray.
LEMMA NothingNew ==
  ASSUME WorkerInv
  PROVE  stray \subseteq Stray /\ reported \subseteq Reports /\ usage \in [AttemptIds -> UsageRows]
         /\ dispatches \in [AttemptIds -> Nat]
BY DEF WorkerInv, WorkerTypeOK, Reports

\* A fresh lease has a number nobody holds and nobody dispatched.
LEMMA PollWInv ==
  ASSUME WorkerInv, NEW w \in Workers, Poll(w)
  PROVE  WorkerInv'
<1>1. [Next]_vars
  BY WorkIsQueueStep DEF Work
<1>2. UNCHANGED <<stray, dispatches, reported, usage>>
  BY DEF Poll
<1>3. CASE UNCHANGED worker
  BY <1>1, <1>2, <1>3, NothingNew, NobodyMovesWInv
<1>4. CASE ~ UNCHANGED worker
  <2>1. PICK t \in Tasks : ClaimIssue(t) /\ Take(w, t, Len(attempts[t]) + 1)
    BY <1>4 DEF Poll
  <2>0. PICK phase \in {"observing", "calling"}, call \in {"none", "invalid_contract"} \cap Calls :
          Start(w, t, Len(attempts[t]) + 1, phase, call)
    BY <2>1 DEF Take, Calls
  <2> DEFINE n == Len(attempts[t]) + 1
             lease == [phase |-> phase, task |-> t, attempt |-> n, call |-> call]
  <2>2. worker \in [Workers -> Process] /\ attempts \in [Tasks -> Seq(Attempt)] /\ MaxAttempts \in Nat
    BY LeaseQueueAssumption DEF WorkerInv, WorkerTypeOK, TypeOK
  <2>3. Len(attempts[t]) < MaxAttempts /\ AddAttempt(t, NewAttempt)
    BY <2>1 DEF ClaimIssue
  <2>4. NewAttempt \in Attempt
    BY LeaseQueueAssumption DEF NewAttempt, Attempt, AttemptStates
  <2>5. Issued(t)' = Issued(t) \cup {n}
    BY <2>2, <2>3, <2>4, AddAttemptFacts
  <2>6. n \in 1 .. MaxAttempts /\ n \notin Issued(t)
    BY <2>2, <2>3 DEF Issued
  <2> HIDE DEF n
  <2>7. lease \in Process
    BY <2>2, <2>6 DEF Process, Phases
  <2>8. /\ worker' \in [Workers -> Process] /\ worker'[w] = lease
        /\ \A v \in Workers : v # w => worker'[v] = worker[v]
    BY <2>0, <2>2, <2>7 DEF n, Start
  <2>9. Task(w)' = t /\ Number(w)' = n /\ worker'[w].phase \in {"observing", "calling"}
    BY <2>8 DEF Task, Number
  <2>10. dispatches[<<t, n>>] = 0
    BY <2>6 DEF WorkerInv, DispatchInv
  <2>11. OwnInv(w)'
    BY <1>2, <2>5, <2>9, <2>10 DEF OwnInv, Busy, AttemptId, Issued
  <2>12. ASSUME NEW v \in Workers, v # w PROVE Apart(v, w)'
    <3>1. Busy(v) /\ Task(v) = t => Number(v) \in Issued(t)
      BY DEF WorkerInv, OwnInv
    <3>2. Busy(v) /\ Task(v) = t => Number(v) # n
      BY <2>6, <3>1
    <3>3. worker'[v] = worker[v]
      BY <2>8, <2>12
    <3> QED
      BY <2>9, <3>2, <3>3 DEF Apart, Busy, Task, Number
  <2>13. DispatchInv'
    BY <1>1, <1>2, DispatchesKeep
  <2> QED
    BY <1>1, <1>2, <2>8, <2>11, <2>12, <2>13, NothingNew, MoveWInv
<1> QED
  BY <1>3, <1>4

LEMMA ObservedWInv ==
  ASSUME WorkerInv, NEW w \in Workers, Observed(w)
  PROVE  WorkerInv'
<1>1. /\ [Next]_vars /\ Busy(w) /\ worker[w].phase = "observing"
      /\ UNCHANGED <<vars, stray, reported, usage>>
  BY WorkIsQueueStep DEF Observed, Work, Busy
<1>2. CASE Leave(w) /\ UNCHANGED dispatches
  BY <1>1, <1>2, NothingNew, RestWInv DEF Leave
<1>3. CASE UNCHANGED dispatches /\ SettleUnasked(w)
  <2>1. PICK call \in Verdicts : Become(w, "calling", call)
    BY <1>3 DEF SettleUnasked
  <2>2. call \in Calls /\ "calling" \in Phases
    BY DEF Verdicts, Calls, Phases
  <2> QED
    BY <1>1, <1>3, <2>1, <2>2, BecomeWInv
<1>4. CASE /\ Become(w, "dispatching", "none")
           /\ dispatches' = [dispatches EXCEPT ![AttemptId(w)] = @ + 1]
  <2>1. /\ worker' \in [Workers -> Process]
        /\ worker'[w].phase = "dispatching" /\ Task(w)' = Task(w) /\ Number(w)' = Number(w)
        /\ \A v \in Workers : v # w => worker'[v] = worker[v]
    <3>1. "dispatching" \in Phases /\ "none" \in Calls
      BY DEF Phases, Calls
    <3> QED
      BY <1>4, <3>1, BecomeFacts
  <2>2. Task(w) \in Tasks /\ Number(w) \in Issued(Task(w)) /\ AttemptId(w) \in AttemptIds
    BY <1>1, OwnIsIssued
  <2>3. attempts' = attempts /\ outcome' = outcome
    BY <1>1 DEF vars
  <2>4. OwnInv(w)'
    BY <2>1, <2>2, <2>3 DEF OwnInv, Busy, Issued
  <2>5. \A v \in Workers : v # w => Apart(v, w)'
    BY <1>1, <2>1, StillApart
  <2>6. dispatches \in [AttemptIds -> Nat] /\ dispatches[AttemptId(w)] = 0
    BY <1>1, NothingNew DEF WorkerInv, OwnInv
  <2>7. /\ dispatches' \in [AttemptIds -> Nat] /\ dispatches'[AttemptId(w)] = 1
        /\ \A a \in AttemptIds : a # AttemptId(w) => dispatches'[a] = dispatches[a]
    BY <1>4, <2>2, <2>6
  <2>8. DispatchInv'
    <3>1. ASSUME NEW t \in Tasks, NEW n \in 1 .. MaxAttempts
          PROVE  dispatches'[<<t, n>>] <= 1 /\ (n \notin Issued(t)' => dispatches'[<<t, n>>] = 0)
      <4>1. <<t, n>> \in AttemptIds /\ Issued(t)' = Issued(t)
        BY <2>3 DEF AttemptIds, Issued
      <4>2. CASE <<t, n>> = AttemptId(w)
        <5>1. t = Task(w) /\ n = Number(w)
          BY <4>2 DEF AttemptId
        <5> QED
          BY <2>2, <2>7, <4>1, <4>2, <5>1
      <4>3. CASE <<t, n>> # AttemptId(w)
        BY <2>7, <4>1, <4>3 DEF WorkerInv, DispatchInv
      <4> QED
        BY <4>2, <4>3
    <3> QED
      BY <3>1 DEF DispatchInv
  <2>9. ASSUME NEW v \in Workers, v # w, worker[v].phase = "observing"
        PROVE  dispatches'[AttemptId(v)] = dispatches[AttemptId(v)]
    <3>1. AttemptId(v) \in AttemptIds
      BY <2>9, OwnIsIssued DEF Busy
    <3>2. Task(v) # Task(w) \/ Number(v) # Number(w)
      BY <1>1, <2>9 DEF WorkerInv, Apart, Busy
    <3>3. AttemptId(v) # AttemptId(w)
      BY <3>2 DEF AttemptId
    <3> QED
      BY <2>7, <3>1, <3>3
  <2> QED
    BY <1>1, <2>1, <2>4, <2>5, <2>7, <2>8, <2>9, NothingNew, MoveWInv
<1> QED
  BY <1>2, <1>3, <1>4 DEF Observed, Ask

LEMMA DispatchedWInv ==
  ASSUME WorkerInv, NEW w \in Workers, Dispatched(w)
  PROVE  WorkerInv'
<1>1. /\ [Next]_vars /\ Busy(w) /\ UNCHANGED <<vars, stray, dispatches, reported, usage>>
  BY WorkIsQueueStep DEF Dispatched, Work, Busy
<1>2. CASE Leave(w)
  BY <1>1, <1>2, NothingNew, RestWInv DEF Leave
<1>3. CASE Answer(w)
  <2>1. PICK call \in Verdicts : Become(w, "calling", call)
    BY <1>3 DEF Answer
  <2>2. call \in Calls /\ "calling" \in Phases
    BY DEF Verdicts, Calls, Phases
  <2> QED
    BY <1>1, <2>1, <2>2, BecomeWInv
<1> QED
  BY <1>2, <1>3 DEF Dispatched

LEMMA CompleteAnsweredWInv ==
  ASSUME WorkerInv, NEW w \in Workers, CompleteAnswered(w)
  PROVE  WorkerInv'
<1>1. /\ [Next]_vars /\ Busy(w) /\ Become(w, "metering", "record")
      /\ UNCHANGED <<stray, dispatches, reported, usage>>
  BY WorkIsQueueStep DEF CompleteAnswered, Meter, Work, Busy
<1>2. PICK d \in Digests : Complete(Task(w), Number(w), d)
  BY DEF CompleteAnswered
<1>3. Task(w) \in Tasks /\ Number(w) \in Issued(Task(w))
  BY <1>1, OwnIsIssued
<1>4. outcome'[Task(w)] = [attempt |-> Number(w), digest |-> d]
  BY <1>2, <1>3 DEF Complete, WorkerInv, IInv, TypeOK
<1>5. Number(w) \in Nat \ {0}
  BY <1>3, IssuedNumbers, LeaseQueueAssumption DEF WorkerInv
<1>6. outcome'[Task(w)] \in Outcome /\ outcome'[Task(w)].attempt = Number(w)
  BY <1>4, <1>5 DEF Outcome
<1>7. outcome'[Task(w)] # NoOutcome
  BY <1>6, LeaseQueueAssumption DEF LeaseQueueAssumption
<1>8. "metering" \in Phases /\ "record" \in Calls
  BY DEF Phases, Calls
<1> QED
  BY <1>1, <1>6, <1>7, <1>8, BecomeWInv

\* A result the worker reports about its own attempt.
LEMMA ReportWInv ==
  ASSUME WorkerInv, [Next]_vars, NEW w \in Workers, Busy(w), Rest(w),
         NEW result \in {"succeeded"} \cup Codes, Report(w, result),
         IF result = "succeeded"
         THEN outcome'[Task(w)] # NoOutcome /\ outcome'[Task(w)].attempt = Number(w)
         ELSE attempts'[Task(w)][Number(w)].state = "failed" /\ attempts'[Task(w)][Number(w)].code = result,
         UNCHANGED <<stray, dispatches>>, usage' \in [AttemptIds -> UsageRows]
  PROVE  WorkerInv'
<1> DEFINE new == [task |-> Task(w), attempt |-> Number(w), result |-> result]
<1>1. PICK t \in Tasks : t = Task(w) /\ Number(w) \in Issued(t)
  BY OwnIsIssued
<1>2. Number(w) \in Issued(t)' /\ Number(w) \in 1 .. MaxAttempts
  BY <1>1, QueueMoves, IssuedNumbers, LeaseQueueAssumption DEF WorkerInv
<1>3. new \in Reports /\ new.task = t /\ new.attempt = Number(w) /\ new.result = result
  BY <1>1, <1>2 DEF Reports
<1>4. reported' = reported \cup {new}
  BY DEF Report
<1> HIDE DEF new
<1>5. reported' \subseteq Reports
  BY <1>3, <1>4, NothingNew
<1>6. ASSUME NEW r \in reported' \ reported
      PROVE  /\ r.attempt \in Issued(r.task)'
             /\ IF r.result = "succeeded"
                THEN outcome'[r.task] # NoOutcome /\ outcome'[r.task].attempt = r.attempt
                ELSE attempts'[r.task][r.attempt].state = "failed" /\ attempts'[r.task][r.attempt].code = r.result
  <2>1. r = new
    BY <1>4
  <2> QED
    BY <2>1, <1>1, <1>2, <1>3
<1> QED
  BY <1>5, <1>6, NothingNew, RestWInv

LEMMA FailAnsweredWInv ==
  ASSUME WorkerInv, NEW w \in Workers, FailAnswered(w)
  PROVE  WorkerInv'
<1> DEFINE t == Task(w)
           n == Number(w)
           c == worker[w].call
<1>1. /\ [Next]_vars /\ Busy(w) /\ Rest(w) /\ Report(w, c) /\ c \in Codes
      /\ UNCHANGED <<stray, dispatches, usage>>
  BY WorkIsQueueStep DEF FailAnswered, Leave, Work, Busy
<1>2. c # "succeeded" /\ c # NoCode
  BY <1>1, ResearchWorkerAssumption, LeaseQueueAssumption
<1>3. t \in Tasks /\ n \in Issued(t) /\ attempts \in [Tasks -> Seq(Attempt)] /\ attempts[t][n] \in Attempt
  <2>1. t \in Tasks /\ n \in Issued(t)
    BY <1>1, OwnIsIssued
  <2>2. attempts \in [Tasks -> Seq(Attempt)]
    BY DEF WorkerInv, IInv, TypeOK
  <2> QED
    BY <2>1, <2>2 DEF Issued
<1>4. attempts'[t][n].state = "failed" /\ attempts'[t][n].code = c
  <2>1. CASE Fail(t, n, c)
    <3> DEFINE row == FailedAttempt(attempts[t][n], n, c)
    <3>1. row \in Attempt /\ row.state = "failed" /\ row.code = c
      BY <1>1, <1>3 DEF FailedAttempt, OfferedIf, Attempt, AttemptStates
    <3>2. SetAttempt(t, n, row)
      BY <2>1 DEF Fail
    <3> HIDE DEF row
    <3>3. attempts'[t][n] = row
      BY <1>3, <3>1, <3>2, SetAttemptFacts
    <3> QED
      BY <3>1, <3>3
  <2>2. CASE attempts[t][n].code = c /\ UNCHANGED vars
    <3>1. attempts[t][n].state = "failed"
      BY <1>2, <1>3, <2>2 DEF WorkerInv, IInv, TaskInv
    <3> QED
      BY <2>2, <3>1 DEF vars
  <2> QED
    BY <2>1, <2>2 DEF FailAnswered
<1> QED
  BY <1>1, <1>2, <1>4, NothingNew, ReportWInv

LEMMA CommandRefusedWInv ==
  ASSUME WorkerInv, NEW w \in Workers, CommandRefused(w)
  PROVE  WorkerInv'
<1>1. [Next]_vars /\ Rest(w) /\ UNCHANGED <<stray, dispatches, reported, usage>>
  BY WorkIsQueueStep DEF CommandRefused, Leave, Work
<1> QED
  BY <1>1, NothingNew, RestWInv

LEMMA RecordUsageType ==
  ASSUME WorkerInv, NEW a \in AttemptIds, NEW figure \in UsageRows, RecordUsage(a, figure)
  PROVE  usage' \in [AttemptIds -> UsageRows]
BY NothingNew DEF RecordUsage

LEMMA MeteredWInv ==
  ASSUME WorkerInv, NEW w \in Workers, UsageRecorded(w) \/ UsageLost(w)
  PROVE  WorkerInv'
<1>1. /\ [Next]_vars /\ Busy(w) /\ worker[w].phase = "metering" /\ Rest(w) /\ Report(w, "succeeded")
      /\ UNCHANGED <<vars, stray, dispatches>>
  BY WorkIsQueueStep DEF UsageRecorded, UsageLost, Leave, Work, Busy
<1>2. outcome'[Task(w)] # NoOutcome /\ outcome'[Task(w)].attempt = Number(w)
  BY <1>1 DEF WorkerInv, OwnInv, vars
<1>3. usage' \in [AttemptIds -> UsageRows]
  <2>1. AttemptId(w) \in AttemptIds
    BY <1>1, OwnIsIssued
  <2> QED
    BY <2>1, RecordUsageType, NothingNew DEF UsageRecorded, UsageLost
<1> QED
  BY <1>1, <1>2, <1>3, ReportWInv

LEMMA AbandonWInv ==
  ASSUME WorkerInv, NEW w \in Workers, Abandon(w)
  PROVE  WorkerInv'
<1>1. /\ [Next]_vars /\ Busy(w) /\ Rest(w) /\ UNCHANGED <<vars, dispatches, reported, usage>>
      /\ \/ stray' = stray
         \/ /\ worker[w].call # "none"
            /\ stray' = stray \cup {[task |-> Task(w), attempt |-> Number(w), call |-> worker[w].call]}
  BY DEF Abandon, Leave, Busy
<1>2. Task(w) \in Tasks /\ Number(w) \in Issued(Task(w)) /\ Number(w) \in 1 .. MaxAttempts
  BY <1>1, OwnIsIssued, IssuedNumbers, LeaseQueueAssumption DEF WorkerInv
<1>3. PICK sent : sent = [task |-> Task(w), attempt |-> Number(w), call |-> worker[w].call]
  OBVIOUS
<1>4. worker[w].call \in Calls
  BY DEF WorkerInv, WorkerTypeOK, Process
<1>5. worker[w].call # "none" => sent \in Stray
  BY <1>2, <1>3, <1>4 DEF Stray
<1>6. sent.task \in Tasks /\ sent.attempt \in Issued(sent.task)
  BY <1>2, <1>3
<1>7. sent.attempt \in Issued(sent.task)'
  BY <1>1, <1>6 DEF Issued, vars, rowVars
<1>8. stray' = stray \/ (worker[w].call # "none" /\ stray' = stray \cup {sent})
  BY <1>1, <1>3
<1>9. stray' \subseteq Stray
  BY <1>5, <1>8, NothingNew
<1>10. \A s \in stray' : s \in stray \/ (s.task \in Tasks /\ s.attempt \in Issued(s.task)')
  BY <1>6, <1>7, <1>8
<1> QED
  BY <1>1, <1>9, <1>10, NothingNew, RestWInv

LEMMA DeliverWInv ==
  ASSUME WorkerInv, NEW s \in stray, Deliver(s)
  PROVE  WorkerInv'
<1>1. [Next]_vars
  <2>1. WorkerNext
    BY DEF WorkerNext
  <2> QED
    BY <2>1, WorkerStepIsQueueStep
<1>2. UNCHANGED <<worker, dispatches, reported>> /\ stray' \subseteq stray
  BY DEF Deliver
<1>3. usage' \in [AttemptIds -> UsageRows]
  <2>1. <<s.task, s.attempt>> \in AttemptIds
    BY DEF WorkerInv, WorkerTypeOK, Stray, AttemptIds
  <2> QED
    BY <2>1, RecordUsageType, NothingNew DEF Deliver
<1> QED
  BY <1>1, <1>2, <1>3, NobodyMovesWInv

-----------------------------------------------------------------------------
(* Every step of the workers keeps the invariant.                          *)
THEOREM WorkerNextInv ==
  ASSUME WorkerInv, [WorkerNext]_allVars
  PROVE  WorkerInv'
<1>1. ASSUME Environment \/ UNCHANGED allVars PROVE WorkerInv'
  <2>1. [Next]_vars /\ UNCHANGED workerVars
    BY <1>1, WorkerStepIsQueueStep DEF WorkerNext, Environment, allVars
  <2> QED
    BY <2>1, NothingNew, NobodyMovesWInv DEF workerVars
<1>2. ASSUME NEW w \in Workers, Work(w) PROVE WorkerInv'
  BY <1>2, PollWInv, ObservedWInv, DispatchedWInv, CompleteAnsweredWInv, FailAnsweredWInv,
     CommandRefusedWInv, MeteredWInv DEF Work
<1>3. ASSUME NEW w \in Workers, Abandon(w) PROVE WorkerInv'
  BY <1>3, AbandonWInv
<1>4. ASSUME NEW s \in stray, Deliver(s) PROVE WorkerInv'
  BY <1>4, DeliverWInv
<1> QED
  BY <1>1, <1>2, <1>3, <1>4 DEF WorkerNext

(* At first every worker is idle and nothing was issued.                   *)
THEOREM WorkerInitInv ==
  ASSUME WorkerInit
  PROVE  WorkerInv
<1>1. IInv /\ TypeOK /\ MaxAttempts \in Nat
  BY InitIInv, LeaseQueueAssumption DEF WorkerInit, IInv
<1>2. Idle \in Process /\ worker = [w \in Workers |-> Idle]
  <2>1. 0 \in 0 .. MaxAttempts
    BY <1>1
  <2>2. "idle" \in Phases /\ "none" \in Calls /\ NoTask \in Tasks \cup {NoTask}
    BY DEF Phases, Calls
  <2>3. Idle \in Process
    BY <2>1, <2>2 DEF Idle, Process
  <2> QED
    BY <2>3 DEF WorkerInit, CycleInit
<1>3. WorkerTypeOK
  BY <1>1, <1>2 DEF WorkerInit, WorkerTypeOK, UsageRows
<1>4. ASSUME NEW w \in Workers PROVE OwnInv(w) /\ ~ Busy(w)
  BY <1>2 DEF OwnInv, Busy, Idle
<1>5. DispatchInv /\ StrayInv /\ ReportInv
  <2>1. ASSUME NEW t \in Tasks, NEW n \in 1 .. MaxAttempts PROVE dispatches[<<t, n>>] <= 1 /\ dispatches[<<t, n>>] = 0
    <3>1. <<t, n>> \in AttemptIds
      BY DEF AttemptIds
    <3>2. dispatches[<<t, n>>] = 0
      BY <3>1 DEF WorkerInit
    <3> QED
      BY <3>2
  <2>2. DispatchInv
    BY <2>1 DEF DispatchInv
  <2>3. StrayInv
    BY DEF WorkerInit, StrayInv
  <2>4. ReportInv
    BY DEF WorkerInit, ReportInv, ReportsAreTrue
  <2> QED
    BY <2>2, <2>3, <2>4
<1> QED
  BY <1>1, <1>3, <1>4, <1>5 DEF WorkerInv, Apart

(* The inductive invariant holds of every behaviour.                       *)
THEOREM WorkerInvariance == WorkerSpec => []WorkerInv
<1>1. WorkerInit => WorkerInv
  BY WorkerInitInv
<1>2. WorkerInv /\ [WorkerNext]_allVars => WorkerInv'
  BY WorkerNextInv
<1> QED
  BY <1>1, <1>2, PTL DEF WorkerSpec

(* The worker processes and what they leave behind keep their shape.       *)
THEOREM WorkerTypeCorrectness == WorkerSpec => []WorkerTypeOK
<1>1. WorkerInv => WorkerTypeOK
  BY DEF WorkerInv
<1> QED
  BY <1>1, WorkerInvariance, PTL

(* With any number of workers, late and repeated commands included, the    *)
(* queue makes only the steps of LeaseQueue.                               *)
THEOREM WorkersKeepToTheQueue == WorkerSpec => WorkersUseTheQueue
<1>1. WorkerInit => Init
  BY DEF WorkerInit
<1>2. WorkerInv /\ [WorkerNext]_allVars => [Next]_vars
  BY WorkerStepIsQueueStep
<1> QED
  BY <1>1, <1>2, WorkerInvariance, PTL DEF WorkerSpec, WorkersUseTheQueue, Spec

(* A worker on the queue takes no step that a worker alone does not take:  *)
(* what it takes is an attempt the queue has just issued, and every other  *)
(* step is about the attempt it holds.                                     *)
LEMMA WorkIsCycleStep ==
  ASSUME WorkerInv, NEW w \in Workers, Work(w)
  PROVE  CycleNext \/ UNCHANGED worker
<1>1. ASSUME NEW t \in Tasks, NEW n \in 1 .. MaxAttempts, Take(w, t, n) PROVE CycleNext
  BY <1>1 DEF CycleNext
<1>2. ASSUME SettleUnasked(w) \/ Ask(w) \/ Answer(w) \/ Meter(w) \/ Leave(w) PROVE CycleNext
  BY <1>2 DEF CycleNext
<1>3. CASE Poll(w) /\ ~ UNCHANGED worker
  <2>1. PICK t \in Tasks : ClaimIssue(t) /\ Take(w, t, Len(attempts[t]) + 1)
    BY <1>3 DEF Poll
  <2>2. attempts \in [Tasks -> Seq(Attempt)] /\ MaxAttempts \in Nat /\ Len(attempts[t]) < MaxAttempts
    BY <2>1, LeaseQueueAssumption DEF WorkerInv, WorkerTypeOK, TypeOK, ClaimIssue
  <2>3. Len(attempts[t]) + 1 \in 1 .. MaxAttempts
    BY <2>2
  <2> QED
    BY <1>1, <2>1, <2>3
<1>4. CASE Observed(w) \/ Dispatched(w)
  BY <1>2, <1>4 DEF Observed, Dispatched
<1>5. CASE CompleteAnswered(w)
  BY <1>2, <1>5 DEF CompleteAnswered
<1>6. CASE FailAnswered(w) \/ CommandRefused(w) \/ UsageRecorded(w) \/ UsageLost(w)
  BY <1>2, <1>6 DEF FailAnswered, CommandRefused, UsageRecorded, UsageLost
<1> QED
  BY <1>3, <1>4, <1>5, <1>6 DEF Work

(* Next to the queue the workers make only the steps of WorkerCycle, the   *)
(* ones the service is shown to make: however commands are refused, lost   *)
(* or late, no worker asks twice, sends twice or meters what it did not    *)
(* complete.                                                               *)
THEOREM WorkersKeepTheirCycle == WorkerSpec => WorkersKeepTheCycle
<1>1. WorkerInit => CycleInit
  BY DEF WorkerInit
<1>2. WorkerInv /\ [WorkerNext]_allVars => [CycleNext]_worker
  <2> SUFFICES ASSUME WorkerInv, [WorkerNext]_allVars PROVE CycleNext \/ UNCHANGED worker
    OBVIOUS
  <2>1. CASE Environment \/ UNCHANGED allVars
    BY <2>1 DEF Environment, allVars, workerVars
  <2>2. ASSUME NEW w \in Workers, Work(w) PROVE CycleNext \/ UNCHANGED worker
    BY <2>2, WorkIsCycleStep
  <2>3. ASSUME NEW w \in Workers, Abandon(w) PROVE CycleNext
    BY <2>3 DEF Abandon, CycleNext
  <2>4. ASSUME NEW s \in stray, Deliver(s) PROVE UNCHANGED worker
    BY <2>4 DEF Deliver
  <2> QED
    BY <2>1, <2>2, <2>3, <2>4 DEF WorkerNext
<1>3. [CycleNext]_worker => [CycleNext /\ UNCHANGED "research"]_<<"research", worker>>
  OBVIOUS
<1> QED
  BY <1>1, <1>2, <1>3, WorkerInvariance, PTL DEF WorkerSpec, WorkersKeepTheCycle, CycleSpec

(* So what is proved of the queue alone holds with its workers.            *)
THEOREM WorkersAreFenced == WorkerSpec => ImplementsFencedResult
BY WorkersKeepToTheQueue, QueueIsFenced, PTL DEF WorkersUseTheQueue

(* Two workers never share an attempt, nor live leases on one task.        *)
THEOREM LeasesAreExclusive == WorkerSpec => []ExclusiveLease
<1>1. WorkerInv => ExclusiveLease
  <2> SUFFICES ASSUME WorkerInv, NEW v \in Workers, NEW w \in Workers,
                      v # w, Busy(v), Busy(w), Task(v) = Task(w)
               PROVE  Number(v) # Number(w) /\ ~ (Live(Task(v), Number(v)) /\ Live(Task(w), Number(w)))
    BY DEF ExclusiveLease, Busy
  <2>1. Number(v) # Number(w)
    BY DEF WorkerInv, Apart
  <2>2. ASSUME NEW u \in Workers, Busy(u), Live(Task(u), Number(u))
        PROVE  Number(u) = Len(attempts[Task(u)])
    <3>1. Task(u) \in Tasks /\ Number(u) \in Issued(Task(u))
      BY <2>2, OwnIsIssued
    <3>2. attempts[Task(u)][Number(u)].retry # "requested"
      BY <2>2, <3>1 DEF WorkerInv, IInv, TaskInv, Live
    <3> QED
      BY <3>1, <3>2, OpenRowIsLast DEF WorkerInv
  <2> QED
    BY <2>1, <2>2
<1> QED
  BY <1>1, WorkerInvariance, PTL

(* An attempt reaches the agent at most once.                              *)
THEOREM NoDispatchIsRepeated == WorkerSpec => []DispatchedAtMostOnce
<1>1. WorkerInv => DispatchedAtMostOnce
  BY DEF WorkerInv, DispatchInv, DispatchedAtMostOnce, AttemptIds
<1> QED
  BY <1>1, WorkerInvariance, PTL

(* What a cycle reports is what the database holds, then and ever after.   *)
THEOREM ReportsStayTrue == WorkerSpec => []ReportsAreTrue
<1>1. WorkerInv => ReportsAreTrue
  BY DEF WorkerInv, ReportInv
<1> QED
  BY <1>1, WorkerInvariance, PTL
=============================================================================
