--------------------------- MODULE ExecutorService ----------------------------
(***************************************************************************)
(* One executor process: the service that starts a cycle on each tick of   *)
(* its timer, the cycle itself statement by statement, the observer that   *)
(* reads public sources for the research agent, and the HTTP dispatch to   *)
(* the agent.  The same module stands for the three executors; where their *)
(* code differs the action says so.                                        *)
(*                                                                         *)
(* Time is the worker's own clock.  It may move between any two statements *)
(* that read it, and it need not agree with the clock of the database that *)
(* issued the lease.  The database is the answer a command gets here; what *)
(* it does with a command is modelled in LeaseQueue.                       *)
(***************************************************************************)
EXTENDS AgentContracts, Integers, FiniteSets

CONSTANTS
  Slots,         \* room for cycles that overlap, should the service let them
  Lease,         \* ticks a fresh lease has left
  IdleTimeout,   \* dispatchTimeoutMs, in ticks
  ObserveLimit,  \* the observer's own limit of 10 seconds, in ticks
  Chunks         \* pieces of a response body that fit into the size limit

\* dispatchTimeoutMs is 20 seconds wherever it is not given.
ASSUME ExecutorServiceAssumption ==
  /\ Lease \in Nat /\ IdleTimeout \in Nat \ {0}
  /\ ObserveLimit \in Nat /\ Chunks \in Nat

VARIABLES
  agent,     \* which executor this is
  config,    \* whether the signing key is long enough and the endpoint local
  stopped,   \* stop() was called
  inFlight,  \* cycleInFlight
  cycles     \* the cycles, each with its task, its lease and its dispatch

vars == <<agent, config, stopped, inFlight, cycles>>

NoTimer == -1   \* no timeout at all

Outcomes == {"none", "idle", "lease_reclaimed", "lease_expired", "succeeded", "failed",
             "command_failed", "rejected"}
Replies == {"none", "ok", "error", "transport_failure"}
Places == {"free", "claiming", "observing", "entering", "reading", "checking", "signing",
           "dispatched", "answered", "calling", "metering", "settled"}

NoArtifact == [bound |-> FALSE, shaped |-> FALSE, claims |-> {}, missing |-> {}]

(* left is expiresAt minus now, timer what remains of the running timeout, *)
(* body the pieces of the response read, seen the sources inspected, todo  *)
(* those still to read, sent the commands issued for the attempt.          *)
Fresh == [at |-> "free", left |-> 0, bound |-> TRUE, early |-> FALSE, wanted |-> {}, supplied |-> {},
          todo |-> {}, seen |-> {}, timer |-> NoTimer, body |-> 0, asked |-> 0, reply |-> "none",
          code |-> "none", artifact |-> NoArtifact, sent |-> {}, outcome |-> "none"]

Init ==
  /\ agent \in Agents
  /\ config \in [key : BOOLEAN, loopback : BOOLEAN]
  /\ stopped = FALSE
  /\ inFlight = FALSE
  /\ cycles = [c \in Slots |-> Fresh]

-----------------------------------------------------------------------------
At(c, place) == cycles[c].at = place
Running(c) == cycles[c].at \notin {"free", "settled"}
LeaseOver(c) == cycles[c].left <= 0
Update(c, record) == cycles' = [cycles EXCEPT ![c] = record]

(* The cycle's promise settles: onCycle or onCycleError, then finally.     *)
Settle(c, outcome) ==
  /\ Update(c, [cycles[c] EXCEPT !.at = "settled", !.outcome = outcome, !.timer = NoTimer])
  /\ inFlight' = FALSE

\* A settled value "none": the cycle goes on.
Continue(c, record) == Update(c, record) /\ UNCHANGED inFlight

\* port.fail(attemptId, code) and port.complete(attemptId, artifact) are sent.
Send(c, command, artifact) ==
  Continue(c, [cycles[c] EXCEPT !.at = "calling", !.timer = NoTimer, !.sent = @ \cup {command},
                                !.artifact = artifact])
SendFail(c, code) == Send(c, code, NoArtifact)
SendComplete(c, artifact) == Send(c, "complete", artifact)

-----------------------------------------------------------------------------
FirstFree(c) == ~ Running(c) /\ \A d \in Slots : d < c => Running(d)
TimerTickUnguarded(c) ==   \* mutant: setInterval's own re-entrancy is relied on
  /\ ~ stopped /\ FirstFree(c)
  /\ inFlight' = TRUE
  /\ Update(c, [Fresh EXCEPT !.at = "claiming"])
  /\ UNCHANGED <<agent, config, stopped>>
(* The interval fires.  While a cycle is in flight it does nothing.        *)
TimerTick(c) ==
  /\ ~ stopped /\ ~ inFlight /\ FirstFree(c)
  /\ inFlight' = TRUE
  /\ Update(c, [Fresh EXCEPT !.at = "claiming"])
  /\ UNCHANGED <<agent, config, stopped>>

\* stop() clears the timer.  A cycle in flight runs on to its end.
Stop ==
  /\ ~ stopped
  /\ stopped' = TRUE
  /\ UNCHANGED <<agent, config, inFlight, cycles>>

(* claim() answers: nothing to do, a reclaimed lease, a task, or an error  *)
(* or an answer that does not parse, which reject the cycle.  The lease of *)
(* a task may already be over on this clock, or not have begun.            *)
ClaimEmpty(c) == At(c, "claiming") /\ \E o \in {"idle", "lease_reclaimed", "rejected"} : Settle(c, o)

ClaimTask(c) ==
  /\ At(c, "claiming")
  /\ \E left \in 0 .. Lease, bound, early \in BOOLEAN, wanted, supplied \in SUBSET Items :
       /\ IsTask(agent, wanted, supplied)
       /\ early => left = Lease
       /\ LET task == [cycles[c] EXCEPT !.left = left, !.bound = bound, !.early = early,
                                        !.wanted = wanted, !.supplied = supplied]
          IN IF agent = "research"
             THEN \* the binding is checked before the clock is looked at
                  IF bound
                  THEN Continue(c, [task EXCEPT !.at = "observing", !.todo = wanted])
                  ELSE Continue(c, [task EXCEPT !.at = "calling", !.sent = {"invalid_contract"}])
             ELSE Continue(c, [task EXCEPT !.at = "checking"])

-----------------------------------------------------------------------------
(* The loop over the sources of a research brief.                          *)
ObserveNext(c) ==
  /\ At(c, "observing")
  /\ IF LeaseOver(c) \/ cycles[c].todo = {}
     THEN Continue(c, [cycles[c] EXCEPT !.at = "checking", !.todo = {}])
     ELSE Continue(c, [cycles[c] EXCEPT !.at = "entering"])

(* observeSource reads the clock once more.  A lease that is over, or has  *)
(* not begun on this clock, is an exception and not a gap.                 *)
ObserveStart(c) ==
  /\ At(c, "entering")
  /\ IF LeaseOver(c) \/ cycles[c].early
     THEN Settle(c, "rejected")
     ELSE LET limit == IF cycles[c].left < ObserveLimit THEN cycles[c].left ELSE ObserveLimit
          IN Continue(c, [cycles[c] EXCEPT !.at = "reading", !.timer = limit])

(* The source was read in time, or there is a gap in its place: an address *)
(* or URL that is refused, a redirect, a status, a type or a size that is  *)
(* not accepted, an empty text, an answer after the lease.                 *)
ObservedItem(c, item, inspected) ==
  Continue(c, [cycles[c] EXCEPT !.at = "observing", !.timer = NoTimer, !.todo = @ \ {item},
                                !.seen = IF inspected THEN @ \cup {item} ELSE @])
SourceRead(c) ==
  /\ At(c, "reading")
  /\ \E item \in cycles[c].todo, inspected \in BOOLEAN :
       /\ inspected => ~ LeaseOver(c)
       /\ ObservedItem(c, item, inspected)

(* The absolute timer of the observer aborts name lookup and download.     *)
SourceTimeout(c) ==
  /\ At(c, "reading") /\ cycles[c].timer = 0
  /\ \E item \in cycles[c].todo : ObservedItem(c, item, FALSE)

-----------------------------------------------------------------------------
ResearchCheck(c) ==
  IF LeaseOver(c) THEN Settle(c, "lease_expired")
  ELSE IF cycles[c].seen = {} THEN SendFail(c, "uninspected_source")
  ELSE Continue(c, [cycles[c] EXCEPT !.at = "signing"])

ReelCheck(c) ==
  IF LeaseOver(c) THEN Settle(c, "lease_expired")
  ELSE IF ~ cycles[c].bound THEN SendFail(c, "invalid_contract")
  ELSE IF cycles[c].supplied = {} THEN SendComplete(c, UnavailableMedia(cycles[c].wanted))
  ELSE Continue(c, [cycles[c] EXCEPT !.at = "signing"])

CalendarCheck(c) ==
  IF LeaseOver(c) THEN Settle(c, "lease_expired")
  ELSE IF ~ cycles[c].bound THEN SendFail(c, "invalid_contract")
  ELSE Continue(c, [cycles[c] EXCEPT !.at = "signing"])

\* The clock is read before anything is said about the attempt.
Check(c) ==
  /\ At(c, "checking")
  /\ CASE agent = "research" -> ResearchCheck(c)
       [] agent = "reel"     -> ReelCheck(c)
       [] agent = "calendar" -> CalendarCheck(c)

(* http.request: a timeout of 0 is no timeout and a negative one throws.   *)
OpenRequest(c, timeout) ==
  IF ~ config.loopback
  THEN Continue(c, [cycles[c] EXCEPT !.at = "answered", !.reply = "transport_failure"])
  ELSE IF timeout < 0 THEN Settle(c, "rejected")
  ELSE Continue(c, [cycles[c] EXCEPT !.at = "dispatched", !.body = 0, !.asked = @ + 1,
                                     !.timer = IF timeout = 0 THEN NoTimer ELSE timeout])

(* Sign and dispatch; a key that is too short throws.  The timeout is what *)
(* a new look at the clock leaves of the lease: the research cycle takes   *)
(* it as it is, the other two leave when it is over.                       *)
SignAndDispatch(c) ==
  /\ At(c, "signing")
  /\ LET timeout == IF cycles[c].left < IdleTimeout THEN cycles[c].left ELSE IdleTimeout
     IN IF ~ config.key THEN Settle(c, "rejected")
        ELSE IF agent # "research" /\ timeout <= 0 THEN Settle(c, "lease_expired")
        ELSE OpenRequest(c, timeout)

-----------------------------------------------------------------------------
(* The response.  Each piece restarts the idle timeout of the socket; the  *)
(* piece that exceeds the size limit destroys it.                          *)
Reply(c, reply, code, artifact) ==
  Continue(c, [cycles[c] EXCEPT !.at = "answered", !.timer = NoTimer, !.reply = reply,
                                !.code = code, !.artifact = artifact])

ResponseDataUncapped(c) ==   \* mutant: the body is not limited
  /\ At(c, "dispatched")
  /\ Continue(c, [cycles[c] EXCEPT !.timer = IF @ = NoTimer THEN @ ELSE IdleTimeout])
ResponseData(c) ==
  /\ At(c, "dispatched")
  /\ IF cycles[c].body = Chunks
     THEN Reply(c, "transport_failure", "none", NoArtifact)
     ELSE Continue(c, [cycles[c] EXCEPT !.body = @ + 1,
                         !.timer = IF @ = NoTimer THEN @ ELSE IdleTimeout])

(* The body ends: status 200 with an artifact, a body with an error, or    *)
(* anything else, which is a transport failure.                            *)
ResponseEnd(c) ==
  /\ At(c, "dispatched")
  /\ \/ \E a \in Artifacts : Reply(c, "ok", "none", a)
     \/ \E code \in WireCodes(agent) : Reply(c, "error", code, NoArtifact)
     \/ Reply(c, "transport_failure", "none", NoArtifact)

\* 'error' or 'close' before 'end'; the idle timeout destroys the request.
ConnectionLost(c) == At(c, "dispatched") /\ Reply(c, "transport_failure", "none", NoArtifact)
IdleTimeoutFires(c) ==
  At(c, "dispatched") /\ cycles[c].timer = 0 /\ Reply(c, "transport_failure", "none", NoArtifact)

AnsweredAsksAgain(c) ==   \* mutant: a transport failure is tried once more
  /\ At(c, "answered")
  /\ LET r == cycles[c] IN
       IF LeaseOver(c) THEN Settle(c, "lease_expired")
       ELSE IF r.reply = "transport_failure" THEN Continue(c, [cycles[c] EXCEPT !.at = "signing"])
       ELSE IF r.reply = "error" THEN SendFail(c, FailureCode(agent, r.code))
       ELSE LET problem == ArtifactProblem(agent, r.artifact, r.wanted, r.supplied, r.seen)
            IN IF problem = "none" THEN SendComplete(c, r.artifact) ELSE SendFail(c, problem)
(* The clock is read again, then the outcome decides the command.          *)
AnsweredSilently(c) ==   \* mutant: a transport failure is left for the next claim to find
  /\ At(c, "answered")
  /\ LET r == cycles[c] IN
       IF LeaseOver(c) \/ r.reply = "transport_failure" THEN Settle(c, "lease_expired")
       ELSE IF r.reply = "error" THEN SendFail(c, FailureCode(agent, r.code))
       ELSE LET problem == ArtifactProblem(agent, r.artifact, r.wanted, r.supplied, r.seen)
            IN IF problem = "none" THEN SendComplete(c, r.artifact) ELSE SendFail(c, problem)
Answered(c) ==
  /\ At(c, "answered")
  /\ LET r == cycles[c] IN
       IF LeaseOver(c) THEN Settle(c, "lease_expired")
       ELSE IF r.reply = "transport_failure" THEN SendFail(c, "provider_failure")
       ELSE IF r.reply = "error" THEN SendFail(c, FailureCode(agent, r.code))
       ELSE LET problem == ArtifactProblem(agent, r.artifact, r.wanted, r.supplied, r.seen)
            IN IF problem = "none" THEN SendComplete(c, r.artifact) ELSE SendFail(c, problem)

-----------------------------------------------------------------------------
CommandReturns(c) ==
  /\ At(c, "calling")
  /\ IF "complete" \notin cycles[c].sent THEN Settle(c, "failed")
     ELSE IF agent = "research" THEN Continue(c, [cycles[c] EXCEPT !.at = "metering"])
     ELSE Settle(c, "succeeded")

CommandThrowsFails(c) ==   \* mutant: a completion that failed is reported as a failure
  /\ At(c, "calling")
  /\ IF "complete" \in cycles[c].sent /\ "persistence_failure" \notin cycles[c].sent
     THEN SendFail(c, "persistence_failure")
     ELSE Settle(c, "command_failed")
(* It is not known whether the command took effect.  Nothing is repeated.  *)
CommandThrows(c) == At(c, "calling") /\ Settle(c, "command_failed")

\* recordUsage returns, or throws and is ignored.
Metered(c) == At(c, "metering") /\ Settle(c, "succeeded")

(* The worker's clock.                                                     *)
Down(n) == IF n > 0 THEN n - 1 ELSE n
Elapsed(r) ==
  [r EXCEPT !.left = IF @ > -1 THEN @ - 1 ELSE @, !.timer = Down(@), !.early = FALSE]
Tick ==
  /\ \E c \in Slots : Running(c)
  /\ cycles' = [c \in Slots |-> Elapsed(cycles[c])]
  /\ UNCHANGED <<agent, config, stopped, inFlight>>

-----------------------------------------------------------------------------
\* Statements of the process itself, and its timers.
Step(c) ==
  \/ ObserveNext(c) \/ ObserveStart(c) \/ SourceTimeout(c)
  \/ Check(c) \/ SignAndDispatch(c)
  \/ IdleTimeoutFires(c) \/ Answered(c)

\* What the database answers.
Database(c) == ClaimEmpty(c) \/ ClaimTask(c) \/ CommandReturns(c) \/ CommandThrows(c) \/ Metered(c)

\* What sources and agents do, or do not.
Outside(c) == SourceRead(c) \/ ResponseData(c) \/ ResponseEnd(c) \/ ConnectionLost(c)

CycleStep(c) == (Step(c) \/ Database(c) \/ Outside(c)) /\ UNCHANGED <<agent, config, stopped>>

Next ==
  \/ \E c \in Slots : TimerTick(c)
  \/ \E c \in Slots : CycleStep(c)
  \/ Stop
  \/ Tick

Spec == Init /\ [][Next]_vars

(* The event loop runs, timers fire, time passes and the database answers  *)
(* or its client gives up.  Nothing is assumed of the sources and agents.  *)
FairSpec ==
  /\ Spec
  /\ WF_vars(\E c \in Slots : TimerTick(c))
  /\ WF_vars(Tick)
  /\ \A c \in Slots :
       WF_vars((Step(c) \/ Database(c)) /\ UNCHANGED <<agent, config, stopped>>)

-----------------------------------------------------------------------------
(* One agent profile has no simultaneous writers: of the cycles of one     *)
(* service at most one is under way, also after a cycle was rejected and   *)
(* while a stopped service finishes its last one.                          *)
OneWriter == \A c, d \in Slots : Running(c) /\ Running(d) => c = d

(* An attempt gets at most one verdict, however the command ended; the     *)
(* verdict is one the database accepts, the agent was asked at most once,  *)
(* and a defect of the protocol is not passed off as worth a retry.        *)
OneVerdictPerAttempt ==
  \A c \in Slots :
    LET r == cycles[c] IN
      /\ Cardinality(r.sent) <= 1 /\ r.asked <= 1
      /\ r.sent \subseteq {"complete"} \cup AcceptedCodes(agent)
      /\ r.code \in ProtocolDefects => r.sent \cap RetryableCodes = {}

(* What is completed rests on what the host itself saw or supplied, and    *)
(* answers all that was asked: evidence cites sources inspected in this    *)
(* attempt; every modality is accounted for, and one that was never        *)
(* supplied is unavailable without an agent having been asked.             *)
HostSawTheEvidence ==
  \A c \in Slots :
    LET r == cycles[c] IN
      "complete" \in r.sent =>
        /\ agent = "research" => r.artifact.claims # {} /\ r.artifact.claims \subseteq r.seen
        /\ agent = "reel" =>
             /\ r.artifact.claims \subseteq r.supplied
             /\ r.artifact.claims \cup r.artifact.missing = r.wanted
             /\ r.supplied = {} => r.asked = 0
        /\ agent = "calendar" => r.artifact.claims \subseteq r.wanted

(* Seen from the database and the agent, each cycle is a worker: it takes  *)
(* one attempt, asks at most once, sends at most one verdict, without the  *)
(* agent only where its contract allows, and meters what was completed.    *)
(* ResearchWorker's workers on the queue do the same and nothing else.     *)
FailCodes == UNION {AcceptedCodes(a) : a \in Agents}
PhaseOf(r) ==
  IF r.at \in {"free", "claiming", "settled"} THEN "idle"
  ELSE IF r.at \in {"calling", "metering"} THEN r.at
  ELSE IF r.asked = 1 THEN "dispatching"
  ELSE "observing"
CallOf(r) ==
  IF r.at = "calling" THEN CHOOSE call \in r.sent : TRUE
  ELSE IF r.at = "metering" THEN "record"
  ELSE "none"
ShownWorker(r) ==
  IF PhaseOf(r) = "idle"
  THEN [phase |-> "idle", task |-> "none", attempt |-> 0, call |-> "none"]
  ELSE [phase |-> PhaseOf(r), task |-> "task", attempt |-> 1, call |-> CallOf(r)]
Shown == [c \in Slots |-> ShownWorker(cycles[c])]
Worker == INSTANCE WorkerCycle WITH
  Workers <- Slots, Tasks <- {"task"}, MaxAttempts <- 1, NoTask <- "none", Codes <- FailCodes,
  worker <- Shown
CyclesAreWorkers == Worker!CycleSpec

(* A lease is never dropped in silence.  A cycle that took a task and ends *)
(* without a verdict ends because the lease is over on its clock, because  *)
(* the process cannot sign, or because the lease had not begun on its      *)
(* clock; the database then has only the timeout to go by.                 *)
NoSilentDrop ==
  [][\A c \in Slots :
       Running(c) /\ cycles'[c].at = "settled" /\ cycles[c].wanted # {} /\ cycles[c].sent = {} =>
         LeaseOver(c) \/ ~ config.key \/ cycles[c].early]_vars

(* Until it is stopped the service keeps claiming: no source, agent, error *)
(* or expired lease keeps a cycle from ending.  The exception is a request *)
(* opened in the very tick in which the lease ends, which has no timeout.  *)
Untimed(c) == At(c, "dispatched") /\ cycles[c].timer = NoTimer
ServiceKeepsClaiming ==
  []<>(\E c \in Slots : stopped \/ At(c, "claiming") \/ Untimed(c))
=============================================================================
