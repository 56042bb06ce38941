----------------------------- MODULE WorkerCycle -----------------------------
(***************************************************************************)
(* What a worker process does about the attempts it is given, without the  *)
(* clock, the sources and the validators: it takes one, asks the agent at  *)
(* most once, sends at most one verdict, meters a completion, and may      *)
(* leave at any time.  ResearchWorker lets several such workers loose on   *)
(* the queue; ExecutorService is one of them, statement by statement.      *)
(***************************************************************************)
EXTENDS Naturals

CONSTANTS
  Workers,
  Tasks,
  MaxAttempts,
  Codes,       \* failure codes a worker may send
  NoTask

VARIABLES
  agent,   \* which of the three executors the workers are
  worker   \* what each worker process is doing

\* A code stands for fail with that code, "record" for the metering call.
Calls == {"none", "complete", "record"} \cup Codes
Phases == {"idle", "observing", "dispatching", "calling", "metering"}
Process == [phase : Phases, task : Tasks \cup {NoTask}, attempt : 0 .. MaxAttempts, call : Calls]

Idle == [phase |-> "idle", task |-> NoTask, attempt |-> 0, call |-> "none"]
CycleInit == worker = [w \in Workers |-> Idle]

Task(w) == worker[w].task
Number(w) == worker[w].attempt

Start(w, t, n, phase, call) ==
  worker' = [worker EXCEPT ![w] = [phase |-> phase, task |-> t, attempt |-> n, call |-> call]]
Become(w, phase, call) == worker' = [worker EXCEPT ![w].phase = phase, ![w].call = call]
Rest(w) == worker' = [worker EXCEPT ![w] = Idle]

\* A research handoff that does not bind to its task fails before anything
\* else is looked at.
Take(w, t, n) ==
  /\ worker[w].phase = "idle"
  /\ \/ Start(w, t, n, "observing", "none")
     \/ agent = "research" /\ "invalid_contract" \in Codes /\ Start(w, t, n, "calling", "invalid_contract")

(* What is settled without the agent: no source could be inspected; the    *)
(* evidence does not bind; no media was supplied; the endpoint is not one  *)
(* a worker may talk to.                                                   *)
UnaskedCalls ==
  CASE agent = "research" -> {"uninspected_source", "provider_failure"}
    [] agent = "reel"     -> {"invalid_contract", "complete", "provider_failure"}
    [] agent = "calendar" -> {"invalid_contract", "provider_failure"}
Verdicts == {"complete"} \cup Codes
SettleUnasked(w) ==
  worker[w].phase = "observing" /\ \E call \in UnaskedCalls \cap Verdicts : Become(w, "calling", call)

Ask(w) == worker[w].phase = "observing" /\ Become(w, "dispatching", "none")
Answer(w) == worker[w].phase = "dispatching" /\ \E call \in Verdicts : Become(w, "calling", call)

\* Only research runs are metered.
Meter(w) ==
  /\ agent = "research"
  /\ worker[w].phase = "calling" /\ worker[w].call = "complete"
  /\ Become(w, "metering", "record")

\* The cycle ends, for whatever reason.
Leave(w) == worker[w].phase # "idle" /\ Rest(w)

CycleNext ==
  \E w \in Workers :
    \/ \E t \in Tasks, n \in 1 .. MaxAttempts : Take(w, t, n)
    \/ SettleUnasked(w) \/ Ask(w) \/ Answer(w) \/ Meter(w) \/ Leave(w)

CycleSpec == CycleInit /\ [][CycleNext /\ UNCHANGED agent]_<<agent, worker>>
=============================================================================
