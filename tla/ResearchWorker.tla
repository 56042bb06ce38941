---------------------------- MODULE ResearchWorker ----------------------------
(***************************************************************************)
(* Worker processes (lib/workflow/research-worker.ts and its service) on   *)
(* top of the queue they drain.  A worker's cycle claims a task, observes  *)
(* the sources, dispatches the signed task to the agent, reports the       *)
(* result with fail or complete and, after a success, records the tokens   *)
(* the provider reported.  Between any two of these the lease may expire,  *)
(* another worker may reap it, authority may be revoked, the process may   *)
(* die; a command may be lost before it runs, run long after its caller    *)
(* gave up on it, or run and lose its answer.                              *)
(***************************************************************************)
EXTENDS LeaseQueue, FiniteSets

CONSTANTS
  Workers,
  SkewedClocks, \* whether a worker's clock may disagree with the database's
  NoTask

ASSUME ResearchWorkerAssumption ==
  /\ NoTask \notin Tasks
  /\ Codes \cap {"complete", "record", "succeeded"} = {}

VARIABLES
  worker,     \* what each worker process is doing
  stray,      \* commands whose caller is gone and which may still run
  dispatches, \* how often each attempt was handed to the agent
  reported,   \* results handed to onCycle
  usage       \* usage_records by attempt

workerVars == <<worker, stray, dispatches, reported, usage>>
allVars == <<vars, workerVars>>

\* How a worker goes about an attempt.
INSTANCE WorkerCycle WITH agent <- "research"

AttemptIds == Tasks \X (1 .. MaxAttempts)
Stray == [task : Tasks, attempt : 1 .. MaxAttempts, call : Calls \ {"none"}]

\* A row's figure, or that the provider reported none, or that there is no row.
UsageRows == {"no row", "unreported", "figure"}

WorkerTypeOK ==
  /\ TypeOK
  /\ worker \in [Workers -> Process]
  /\ stray \subseteq Stray
  /\ dispatches \in [AttemptIds -> Nat]
  /\ reported \subseteq [task : Tasks, attempt : 1 .. MaxAttempts, result : {"succeeded"} \cup Codes]
  /\ usage \in [AttemptIds -> UsageRows]

WorkerInit ==
  /\ Init
  /\ CycleInit
  /\ stray = {}
  /\ dispatches = [a \in AttemptIds |-> 0]
  /\ reported = {}
  /\ usage = [a \in AttemptIds |-> "no row"]

-----------------------------------------------------------------------------
AttemptId(w) == <<Task(w), Number(w)>>

Report(w, result) ==
  reported' = reported \cup {[task |-> Task(w), attempt |-> Number(w), result |-> result]}

(* What `Date.parse(task.expiresAt) - config.now() <= 0` may come out as.  *)
ExpiredReadings(w) == IF SkewedClocks THEN BOOLEAN ELSE {attempts[Task(w)][Number(w)].left = 0}

(* The service's timer starts a cycle only when none is in flight.  The    *)
(* claim may hand out a lease and lose the answer: the attempt then has no *)
(* worker.                                                                 *)
Poll(w) ==
  /\ worker[w].phase = "idle"
  /\ \E t \in Tasks :
       \/ (ClaimReap(t) \/ ClaimRefuse(t)) /\ UNCHANGED worker
       \/ /\ ClaimIssue(t)
          /\ Take(w, t, Len(attempts[t]) + 1) \/ UNCHANGED worker
  /\ UNCHANGED <<stray, dispatches, reported, usage>>

(* The sources have been observed, or the lease ran out while they were.   *)
(* If none could be inspected, or the request cannot be sent, the cycle    *)
(* ends with a failure.                                                    *)
Observed(w) ==
  /\ worker[w].phase = "observing"
  /\ \/ /\ TRUE \in ExpiredReadings(w)
        /\ Leave(w)
        /\ UNCHANGED dispatches
     \/ /\ FALSE \in ExpiredReadings(w)
        /\ SettleUnasked(w)
        /\ UNCHANGED dispatches
     \/ /\ FALSE \in ExpiredReadings(w)
        /\ Ask(w)
        /\ dispatches' = [dispatches EXCEPT ![AttemptId(w)] = @ + 1]
  /\ UNCHANGED <<vars, stray, reported, usage>>

DispatchedRetries(w) ==   \* mutant: a dispatch that failed is started over
  /\ worker[w].phase = "dispatching"
  /\ \/ TRUE \in ExpiredReadings(w) /\ Leave(w)
     \/ FALSE \in ExpiredReadings(w) /\ Answer(w)
     \/ FALSE \in ExpiredReadings(w) /\ Become(w, "observing", "none")
  /\ UNCHANGED <<vars, stray, dispatches, reported, usage>>

(* The agent answered, or failed to.  The clock is read again before       *)
(* anything is reported.                                                   *)
Dispatched(w) ==
  /\ worker[w].phase = "dispatching"
  /\ \/ TRUE \in ExpiredReadings(w) /\ Leave(w)
     \/ FALSE \in ExpiredReadings(w) /\ Answer(w)
  /\ UNCHANGED <<vars, stray, dispatches, reported, usage>>

(* The command reached the database; its answer may be lost.               *)
CompleteAnswered(w) ==
  /\ worker[w].phase = "calling" /\ worker[w].call = "complete"
  /\ \E d \in Digests : Complete(Task(w), Number(w), d)
  /\ Meter(w)
  /\ UNCHANGED <<stray, dispatches, reported, usage>>

FailAnswered(w) ==
  /\ worker[w].phase = "calling" /\ worker[w].call \in Codes
  /\ \/ Fail(Task(w), Number(w), worker[w].call)
     \/ /\ attempts[Task(w)][Number(w)].code = worker[w].call   \* already recorded
        /\ UNCHANGED vars
  /\ Report(w, worker[w].call)
  /\ Leave(w)
  /\ UNCHANGED <<stray, dispatches, usage>>

(* The command raised: command_failed.  Nothing else is tried.             *)
Completable(t, n) == tenantActive /\ Authorised(t) /\ Live(t, n)
Failable(t, n, c) == Live(t, n) \/ attempts[t][n].code = c
CommandRefusedReports(w) ==   \* mutant: the refusal is taken for an answer
  /\ worker[w].phase = "calling" /\ worker[w].call \in Codes
  /\ ~ Failable(Task(w), Number(w), worker[w].call)
  /\ Report(w, worker[w].call)
  /\ Leave(w)
  /\ UNCHANGED <<vars, stray, dispatches, usage>>
CommandRefused(w) ==
  /\ worker[w].phase = "calling"
  /\ \/ worker[w].call = "complete" /\ ~ Completable(Task(w), Number(w))
     \/ worker[w].call \in Codes /\ ~ Failable(Task(w), Number(w), worker[w].call)
  /\ Leave(w)
  /\ UNCHANGED <<vars, stray, dispatches, reported, usage>>

(* record_agent_usage.  The row is written once, for an attempt that is no *)
(* longer running.                                                         *)
RecordUsage(a, figure) ==
  /\ attempts[a[1]][a[2]].state # "running"
  /\ usage[a] = "no row"
  /\ usage' = [usage EXCEPT ![a] = figure]

UsageRecorded(w) ==
  /\ worker[w].phase = "metering"
  /\ \E figure \in UsageRows \ {"no row"} : RecordUsage(AttemptId(w), figure)
  /\ Report(w, "succeeded")
  /\ Leave(w)
  /\ UNCHANGED <<vars, stray, dispatches>>

(* recordUsage swallows its error and the cycle still succeeds.            *)
UsageLost(w) ==
  /\ worker[w].phase = "metering"
  /\ Report(w, "succeeded")
  /\ Leave(w)
  /\ UNCHANGED <<vars, stray, dispatches, usage>>

(* The process dies, or gives up on a command whose connection broke.  A   *)
(* command it had sent may still be on its way.                            *)
Abandon(w) ==
  /\ worker[w].phase # "idle"
  /\ Leave(w)
  /\ \/ UNCHANGED stray
     \/ /\ worker[w].call # "none"
        /\ stray' = stray \cup {[task |-> Task(w), attempt |-> Number(w), call |-> worker[w].call]}
  /\ UNCHANGED <<vars, dispatches, reported, usage>>

(* A stray command runs, or is refused or lost.                            *)
Deliver(s) ==
  /\ stray' = stray \ {s}
  /\ \/ /\ s.call = "complete"
        /\ \E d \in Digests : Complete(s.task, s.attempt, d)
        /\ UNCHANGED usage
     \/ /\ s.call \in Codes
        /\ Fail(s.task, s.attempt, s.call)
        /\ UNCHANGED usage
     \/ /\ s.call = "record"
        /\ \E figure \in UsageRows \ {"no row"} : RecordUsage(<<s.task, s.attempt>>, figure)
        /\ UNCHANGED vars
     \/ UNCHANGED <<vars, usage>>
  /\ UNCHANGED <<worker, dispatches, reported>>

(* What the worker does not do.                                            *)
Environment ==
  /\ \/ \E t \in Tasks, u \in Users, s \in Stamps : Enqueue(t, u, s)
     \/ \E t \in Tasks : \E n \in Issued(t) : Retry(t, n)
     \/ SetTenant
     \/ \E u \in Users : SetMember(u)
     \/ Tick
  /\ UNCHANGED workerVars

Work(w) ==
  \/ Poll(w)
  \/ Observed(w)
  \/ Dispatched(w)
  \/ CompleteAnswered(w)
  \/ FailAnswered(w)
  \/ CommandRefused(w)
  \/ UsageRecorded(w)
  \/ UsageLost(w)

WorkerNext ==
  \/ Environment
  \/ \E w \in Workers : Work(w)
  \/ \E w \in Workers : Abandon(w)
  \/ \E s \in stray : Deliver(s)

WorkerSpec == WorkerInit /\ [][WorkerNext]_allVars

-----------------------------------------------------------------------------
(* With its workers the queue makes only the steps of LeaseQueue, so all   *)
(* that holds of LeaseQueue holds here.                                    *)
WorkersUseTheQueue == Spec

(* And next to the queue the workers make only the steps of WorkerCycle,   *)
(* the ones ExecutorService is shown to make.                              *)
WorkersKeepTheCycle == CycleSpec

(* Two workers never hold live leases on one task, and no attempt has two  *)
(* workers, however often leases expire under them.                        *)
ExclusiveLease ==
  \A v, w \in Workers :
    (v # w /\ worker[v].phase # "idle" /\ worker[w].phase # "idle" /\ Task(v) = Task(w)) =>
      /\ Number(v) # Number(w)
      /\ ~ (Live(Task(v), Number(v)) /\ Live(Task(w), Number(w)))

(* Ambiguous execution is never repeated: an attempt reaches the agent at  *)
(* most once, also when the worker died or never learnt how it ended.      *)
DispatchedAtMostOnce == \A a \in AttemptIds : dispatches[a] <= 1

(* What a cycle reports is what the database holds, then and ever after.   *)
ReportsAreTrue ==
  \A r \in reported :
    LET a == attempts[r.task][r.attempt] IN
      IF r.result = "succeeded"
      THEN outcome[r.task] # NoOutcome /\ outcome[r.task].attempt = r.attempt
      ELSE a.state = "failed" /\ a.code = r.result

(* What the comment on the metering call says: a lost usage row is         *)
(* visible.  What the usage page shows of a member's delivered attempts,   *)
(* as figures and as unreported runs, are rows; so every delivered attempt *)
(* that nobody is still about to record should have one.                   *)
StillMetering(a) ==
  \/ \E w \in Workers : worker[w].phase = "metering" /\ AttemptId(w) = a
  \/ \E s \in stray : s.call = "record" /\ <<s.task, s.attempt>> = a
UsageGapIsVisible ==
  \A r \in reported :
    LET a == <<r.task, r.attempt>> IN
      r.result = "succeeded" /\ ~ StillMetering(a) => usage[a] # "no row"
=============================================================================
