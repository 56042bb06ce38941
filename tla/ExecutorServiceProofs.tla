------------------------ MODULE ExecutorServiceProofs -------------------------
(***************************************************************************)
(* Proofs about ExecutorService for every number of slots, every set of    *)
(* items a task may ask for, every lease and every timeout.  One record is *)
(* one cycle; the invariant says what a cycle has done at each place it    *)
(* can be, and that all but one of them are at rest.                       *)
(***************************************************************************)
EXTENDS ExecutorService, FiniteSetTheorems, TLAPS

Verdicts(a) == {"complete"} \cup AcceptedCodes(a)
AllVerdicts == UNION {Verdicts(a) : a \in Agents}
AllCodes == {"none"} \cup UNION {WireCodes(a) : a \in Agents}

Cycle == [at : Places, left : Int, bound : BOOLEAN, early : BOOLEAN, wanted : SUBSET Items,
          supplied : SUBSET Items, todo : SUBSET Items, seen : SUBSET Items, timer : Int, body : Int,
          asked : Int, reply : Replies, code : AllCodes, artifact : Artifacts,
          sent : SUBSET AllVerdicts, outcome : Outcomes]

TypeOK ==
  /\ agent \in Agents
  /\ config \in [key : BOOLEAN, loopback : BOOLEAN]
  /\ stopped \in BOOLEAN
  /\ inFlight \in BOOLEAN
  /\ cycles \in [Slots -> Cycle]

\* Places before the request, and places before the command.
Unasked == {"free", "claiming", "observing", "entering", "reading", "checking", "signing"}
Silent == Unasked \cup {"dispatched", "answered"}

\* What a cycle has done at the place where it is.
PlaceInv(r) ==
  /\ r.at \in Unasked => r.asked = 0 /\ r.code = "none"
  /\ r.at \in Silent => r.sent = {}
  /\ r.at = "claiming" => r.wanted = {}
  /\ r.at \in {"calling", "metering"} => r.sent # {}
  /\ r.at = "dispatched" => r.code = "none" /\ r.asked = 1
  /\ r.at = "answered" /\ r.asked = 0 => r.reply = "transport_failure"
  /\ r.at = "answered" /\ r.reply # "error" => r.code = "none"
  /\ r.asked \in {0, 1}
  /\ agent = "reel" => /\ r.supplied \subseteq r.wanted
                       /\ r.at = "signing" \/ r.asked = 1 => r.supplied # {}

\* There is one verdict at most, and it is fit to be sent.
VerdictInv(r) ==
  /\ r.sent = {} \/ \E x : r.sent = {x}
  /\ r.sent \subseteq Verdicts(agent)
  /\ r.code \in ProtocolDefects => r.sent \cap RetryableCodes = {}

\* A completion says what the host knows.
EvidenceInv(r) ==
  "complete" \in r.sent =>
    /\ agent = "research" => r.artifact.claims # {} /\ r.artifact.claims \subseteq r.seen
    /\ agent = "reel" =>
         /\ r.artifact.claims \subseteq r.supplied
         /\ r.artifact.claims \cup r.artifact.missing = r.wanted
         /\ r.supplied = {} => r.asked = 0
    /\ agent = "calendar" => r.artifact.claims \subseteq r.wanted

CycleInv(r) == PlaceInv(r) /\ VerdictInv(r) /\ EvidenceInv(r)

IInv ==
  /\ TypeOK
  /\ OneWriter
  /\ \A c \in Slots : Running(c) => inFlight
  /\ \A c \in Slots : CycleInv(cycles[c])

-----------------------------------------------------------------------------
(* A step of a cycle leaves a record behind that is in order, clears the   *)
(* flag when it settles, and settles without a verdict only for a reason.  *)
Excused(c) == \/ cycles[c].wanted = {} \/ cycles[c].sent # {}
              \/ LeaseOver(c) \/ ~ config.key \/ cycles[c].early

(* What the step shows of the cycle to the database and the agent.         *)
Before == {"observing", "entering", "reading", "checking", "signing", "answered"}
Shows(p, r) ==
  \/ r.at = "settled"
  \/ p.at = "claiming" /\ r.at \in Before /\ r.asked = 0
  \/ /\ p.at = "claiming" /\ agent = "research"
     /\ r.at = "calling" /\ r.sent = {"invalid_contract"}
  \/ /\ p.at \in Before \cup {"dispatched"} /\ r.at \in Before \cup {"dispatched"}
     /\ p.asked = 0 \/ r.asked = 1
     /\ r.asked \in {0, 1}
  \/ /\ p.at \in Before \cup {"dispatched"} /\ r.at = "calling"
     /\ \E call \in Verdicts(agent) :
          /\ r.sent = {call}
          /\ p.asked = 0 => call \in Worker!UnaskedCalls
  \/ /\ p.at = "calling" /\ agent = "research" /\ p.sent = {"complete"}
     /\ r.at = "metering"

Steps(c, r) ==
  /\ Running(c)
  /\ Update(c, r)
  /\ CycleInv(r)
  /\ Shows(cycles[c], r)
  /\ \/ r.at \notin {"free", "settled"} /\ inFlight' = inFlight
     \/ r.at = "settled" /\ inFlight' = FALSE /\ Excused(c)

InOrder(c) == \E r \in Cycle : Steps(c, r)

LEMMA CycleType ==
  ASSUME IInv, NEW c \in Slots
  PROVE  cycles[c] \in Cycle /\ CycleInv(cycles[c]) /\ agent \in Agents
BY DEF IInv, TypeOK

LEMMA ContinueInOrder ==
  ASSUME IInv, NEW c \in Slots, Running(c), NEW r \in Cycle, Continue(c, r),
         r.at \notin {"free", "settled"}, CycleInv(r), Shows(cycles[c], r)
  PROVE  InOrder(c)
BY DEF Continue, Steps, InOrder

LEMMA SettleInOrder ==
  ASSUME IInv, NEW c \in Slots, Running(c), NEW outcome \in Outcomes, Settle(c, outcome), Excused(c)
  PROVE  InOrder(c)
<1> DEFINE r == [cycles[c] EXCEPT !.at = "settled", !.outcome = outcome, !.timer = NoTimer]
<1>1. r \in Cycle
  <2>1. cycles[c] \in Cycle /\ "settled" \in Places /\ NoTimer \in Int
    BY CycleType DEF Places, NoTimer
  <2> QED
    BY <2>1 DEF Cycle
<1>2. /\ r.at = "settled" /\ r.sent = cycles[c].sent /\ r.asked = cycles[c].asked
      /\ r.code = cycles[c].code /\ r.artifact = cycles[c].artifact /\ r.seen = cycles[c].seen
      /\ r.wanted = cycles[c].wanted /\ r.supplied = cycles[c].supplied
  BY CycleType DEF Cycle
<1>3. Update(c, r) /\ inFlight' = FALSE
  BY DEF Settle
<1> HIDE DEF r
<1>4. CycleInv(r)
  BY <1>2, CycleType DEF CycleInv, PlaceInv, VerdictInv, EvidenceInv, Unasked, Silent
<1>5. Shows(cycles[c], r)
  BY <1>2 DEF Shows
<1> QED
  BY <1>1, <1>2, <1>3, <1>4, <1>5 DEF Steps, InOrder

LEMMA SendInOrder ==
  ASSUME IInv, NEW c \in Slots, Running(c), cycles[c].at \in Silent, cycles[c].at # "claiming",
         NEW command \in Verdicts(agent), NEW artifact \in Artifacts,
         Send(c, command, artifact),
         cycles[c].asked = 0 => command \in Worker!UnaskedCalls,
         cycles[c].code \in ProtocolDefects => command \notin RetryableCodes,
         command = "complete" =>
           /\ agent = "research" => artifact.claims # {} /\ artifact.claims \subseteq cycles[c].seen
           /\ agent = "reel" => /\ artifact.claims \subseteq cycles[c].supplied
                                /\ artifact.claims \cup artifact.missing = cycles[c].wanted
           /\ agent = "calendar" => artifact.claims \subseteq cycles[c].wanted
  PROVE  InOrder(c)
<1> DEFINE r == [cycles[c] EXCEPT !.at = "calling", !.timer = NoTimer, !.sent = @ \cup {command},
                                  !.artifact = artifact]
<1>1. cycles[c] \in Cycle /\ PlaceInv(cycles[c]) /\ cycles[c].sent = {}
  BY CycleType DEF CycleInv, PlaceInv
<1>2. command \in AllVerdicts
  BY CycleType DEF AllVerdicts
<1>3. r \in Cycle
  <2>1. "calling" \in Places /\ NoTimer \in Int
    BY DEF Places, NoTimer
  <2>2. cycles[c].sent \cup {command} \in SUBSET AllVerdicts
    BY <1>1, <1>2
  <2> QED
    BY <1>1, <2>1, <2>2 DEF Cycle
<1>4. /\ r.at = "calling" /\ r.sent = {command} /\ r.asked = cycles[c].asked
      /\ r.code = cycles[c].code /\ r.artifact = artifact /\ r.seen = cycles[c].seen
      /\ r.wanted = cycles[c].wanted /\ r.supplied = cycles[c].supplied
  BY <1>1 DEF Cycle
<1>5. Continue(c, r)
  BY DEF Send
<1> HIDE DEF r
<1>6. PlaceInv(r)
  BY <1>1, <1>4 DEF PlaceInv, Unasked, Silent
<1>7. VerdictInv(r)
  BY <1>4 DEF VerdictInv
<1>8. EvidenceInv(r)
  BY <1>1, <1>4 DEF EvidenceInv, PlaceInv
<1>9. cycles[c].at \in Before \cup {"dispatched"}
  BY DEF Running, Silent, Unasked, Before
<1>10. cycles[c].asked \in {0, 1}
  BY <1>1 DEF PlaceInv
<1>11. Shows(cycles[c], r)
  BY <1>4, <1>9, <1>10 DEF Shows
<1> QED
  BY <1>3, <1>4, <1>5, <1>6, <1>7, <1>8, <1>11, ContinueInOrder DEF CycleInv

(* A cycle that goes on without a command keeps its record in order when   *)
(* it keeps what it knows.                                                 *)
LEMMA GoOnInOrder ==
  ASSUME IInv, NEW c \in Slots, Running(c), cycles[c].at \in Silent, NEW r \in Cycle, Continue(c, r),
         r.at \in Silent \ {"free", "claiming"}, r.sent = cycles[c].sent,
         PlaceInv(r), r.asked = cycles[c].asked \/ cycles[c].at = "signing"
  PROVE  InOrder(c)
<1>1. r.sent = {}
  BY DEF PlaceInv
<1>2. CycleInv(r)
  BY <1>1 DEF CycleInv, VerdictInv, EvidenceInv
<1>3. PlaceInv(cycles[c])
  BY CycleType DEF CycleInv
<1>4. Shows(cycles[c], r)
  <2>1. /\ cycles[c].at = "claiming" => cycles[c].asked = 0
        /\ cycles[c].at = "signing" => cycles[c].asked = 0
        /\ cycles[c].asked \in {0, 1} /\ r.asked \in {0, 1}
    BY <1>3 DEF PlaceInv, Unasked
  <2>2. r.at = "dispatched" => r.asked = 1
    BY DEF PlaceInv
  <2>3. cycles[c].at = "claiming" \/ cycles[c].at \in Before \cup {"dispatched"}
    BY DEF Running, Silent, Unasked, Before
  <2>4. r.at \in Before \cup {"dispatched"}
    BY DEF Silent, Unasked, Before
  <2>5. CASE cycles[c].at = "claiming"
    <3>1. r.asked = 0 /\ r.at \in Before
      BY <2>1, <2>2, <2>4, <2>5
    <3> QED
      BY <2>5, <3>1 DEF Shows
  <2>6. CASE cycles[c].at # "claiming"
    <3>1. cycles[c].asked = 0 \/ r.asked = 1
      BY <2>1
    <3> QED
      BY <2>1, <2>3, <2>4, <2>6, <3>1 DEF Shows
  <2> QED
    BY <2>5, <2>6
<1> QED
  BY <1>2, <1>4, ContinueInOrder DEF Silent, Unasked

\* The reels of a task and its media.
LEMMA TaskFacts ==
  ASSUME agent \in Agents, NEW wanted \in SUBSET Items, NEW supplied \in SUBSET Items,
         IsTask(agent, wanted, supplied)
  PROVE  supplied \subseteq wanted
BY DEF IsTask, ResearchTask, ReelTask, CalendarTask, Agents

\* The codes a worker uses itself are codes of its contract.
LEMMA OwnVerdicts ==
  ASSUME NEW a \in Agents
  PROVE  /\ {"complete", "invalid_contract", "provider_failure"} \subseteq Verdicts(a)
         /\ a = "research" => "uninspected_source" \in Verdicts(a)
         /\ a = "calendar" => "unrequested_platform" \in Verdicts(a)
BY DEF Verdicts, AcceptedCodes, OwnCode, Agents

\* What a worker may settle itself.
LEMMA OwnCalls ==
  ASSUME agent \in Agents
  PROVE  /\ "provider_failure" \in Worker!UnaskedCalls
         /\ agent = "research" => "uninspected_source" \in Worker!UnaskedCalls
         /\ agent # "research" => "invalid_contract" \in Worker!UnaskedCalls
BY DEF Worker!UnaskedCalls, Agents

\* What is made of an agent's code is a code the database accepts, and what
\* cannot help is not retried.
LEMMA FailureCodeFacts ==
  ASSUME NEW a \in Agents, NEW code
  PROVE  /\ FailureCode(a, code) \in Verdicts(a) \ {"complete"}
         /\ code \in ProtocolDefects => FailureCode(a, code) = "invalid_contract"
<1>1. FailureCodes(a) \subseteq Verdicts(a) \ {"complete"} /\ FailureCodes(a) \cap ProtocolDefects = {}
  BY DEF FailureCodes, ResearchCodes, ReelCodes, CalendarCodes, SharedCodes, Verdicts, AcceptedCodes,
         OwnCode, Agents, ProtocolDefects
<1>2. {"invalid_contract", "provider_failure"} \subseteq Verdicts(a) \ {"complete"}
  BY DEF Verdicts, AcceptedCodes
<1> QED
  BY <1>1, <1>2 DEF FailureCode

\* What the host's validators let through.
LEMMA ArtifactFacts ==
  ASSUME NEW a \in Agents, NEW artifact \in Artifacts, NEW wanted, NEW supplied, NEW seen
  PROVE  LET problem == ArtifactProblem(a, artifact, wanted, supplied, seen) IN
           /\ problem # "none" => problem \in Verdicts(a) \ {"complete"}
           /\ problem = "none" =>
                /\ a = "research" => artifact.claims # {} /\ artifact.claims \subseteq seen
                /\ a = "reel" => artifact.claims \subseteq supplied /\ artifact.missing = wanted \ artifact.claims
                /\ a = "calendar" => artifact.claims \subseteq wanted
<1>1. CASE a = "research"
  BY <1>1 DEF ArtifactProblem, ResearchArtifactProblem, Verdicts, AcceptedCodes
<1>2. CASE a = "reel"
  BY <1>2 DEF ArtifactProblem, ReelArtifactProblem, Verdicts, AcceptedCodes
<1>3. CASE a = "calendar"
  BY <1>3 DEF ArtifactProblem, CalendarArtifactProblem, Verdicts, AcceptedCodes, OwnCode
<1> QED
  BY <1>1, <1>2, <1>3 DEF Agents

-----------------------------------------------------------------------------
(* The claim.                                                              *)
LEMMA ClaimEmptyInOrder ==
  ASSUME IInv, NEW c \in Slots, ClaimEmpty(c)
  PROVE  InOrder(c)
<1>1. Running(c) /\ Excused(c)
  BY CycleType DEF ClaimEmpty, At, Running, Excused, CycleInv, PlaceInv
<1>2. PICK o \in Outcomes : Settle(c, o)
  BY DEF ClaimEmpty, Outcomes
<1> QED
  BY <1>1, <1>2, SettleInOrder

LEMMA ClaimTaskInOrder ==
  ASSUME IInv, NEW c \in Slots, ClaimTask(c)
  PROVE  InOrder(c)
<1>1. /\ cycles[c] \in Cycle /\ agent \in Agents /\ Running(c)
      /\ cycles[c].at \in Silent /\ cycles[c].at = "claiming" /\ cycles[c].sent = {}
      /\ cycles[c].asked = 0 /\ cycles[c].code = "none"
  BY CycleType DEF ClaimTask, At, Running, Silent, Unasked, CycleInv, PlaceInv
<1>2. PICK left \in 0 .. Lease, bound \in BOOLEAN, early \in BOOLEAN,
           wanted \in SUBSET Items, supplied \in SUBSET Items :
        /\ IsTask(agent, wanted, supplied)
        /\ early => left = Lease
        /\ LET task == [cycles[c] EXCEPT !.left = left, !.bound = bound, !.early = early,
                                         !.wanted = wanted, !.supplied = supplied]
           IN IF agent = "research"
              THEN IF bound
                   THEN Continue(c, [task EXCEPT !.at = "observing", !.todo = wanted])
                   ELSE Continue(c, [task EXCEPT !.at = "calling", !.sent = {"invalid_contract"}])
              ELSE Continue(c, [task EXCEPT !.at = "checking"])
  BY Zenon DEF ClaimTask
<1>3. PICK task : task = [cycles[c] EXCEPT !.left = left, !.bound = bound, !.early = early,
                                           !.wanted = wanted, !.supplied = supplied]
  OBVIOUS
<1>4. left \in Int
  BY ExecutorServiceAssumption
<1>5. task \in Cycle
  BY <1>1, <1>3, <1>4 DEF Cycle
<1>6. /\ task.wanted = wanted /\ task.supplied = supplied /\ task.sent = {}
      /\ task.asked = 0 /\ task.code = "none"
  BY <1>1, <1>3 DEF Cycle
<1>7. supplied \subseteq wanted
  BY <1>1, <1>2, TaskFacts
<1>8. CASE agent = "research" /\ bound
  <2>1. PICK r : r = [task EXCEPT !.at = "observing", !.todo = wanted]
    OBVIOUS
  <2>2. "observing" \in Places
    BY DEF Places
  <2>3. r \in Cycle /\ r.at = "observing" /\ r.sent = {} /\ r.asked = 0 /\ r.code = "none"
    BY <1>5, <1>6, <2>1, <2>2 DEF Cycle
  <2>4. Continue(c, r)
    BY <1>2, <1>3, <1>8, <2>1
  <2>5. PlaceInv(r)
    BY <1>8, <2>3 DEF PlaceInv
  <2> QED
    BY <1>1, <2>3, <2>4, <2>5, GoOnInOrder DEF Silent, Unasked
<1>9. CASE agent = "research" /\ ~ bound
  <2>1. PICK r : r = [task EXCEPT !.at = "calling", !.sent = {"invalid_contract"}]
    OBVIOUS
  <2>2. "calling" \in Places /\ {"invalid_contract"} \in SUBSET AllVerdicts
    BY <1>1, OwnVerdicts DEF Places, AllVerdicts
  <2>3. /\ r \in Cycle /\ r.at = "calling" /\ r.sent = {"invalid_contract"} /\ r.asked = 0
        /\ r.code = "none"
    BY <1>5, <1>6, <2>1, <2>2 DEF Cycle
  <2>4. Continue(c, r)
    BY <1>2, <1>3, <1>9, <2>1
  <2>5. PlaceInv(r)
    BY <1>9, <2>3 DEF PlaceInv, Unasked, Silent
  <2>6. VerdictInv(r) /\ EvidenceInv(r)
    BY <1>1, <2>3, OwnVerdicts DEF VerdictInv, EvidenceInv, ProtocolDefects
  <2>7. Shows(cycles[c], r)
    BY <1>1, <1>9, <2>3 DEF Shows
  <2> QED
    BY <1>1, <2>3, <2>4, <2>5, <2>6, <2>7, ContinueInOrder DEF CycleInv
<1>10. CASE agent # "research"
  <2>1. PICK r : r = [task EXCEPT !.at = "checking"]
    OBVIOUS
  <2>2. "checking" \in Places
    BY DEF Places
  <2>3. /\ r \in Cycle /\ r.at = "checking" /\ r.sent = {} /\ r.asked = 0 /\ r.code = "none"
        /\ r.wanted = wanted /\ r.supplied = supplied
    BY <1>5, <1>6, <2>1, <2>2 DEF Cycle
  <2>4. Continue(c, r)
    BY <1>2, <1>3, <1>10, <2>1
  <2>5. PlaceInv(r)
    BY <1>7, <2>3 DEF PlaceInv
  <2> QED
    BY <1>1, <2>3, <2>4, <2>5, GoOnInOrder DEF Silent, Unasked
<1> QED
  BY <1>8, <1>9, <1>10

-----------------------------------------------------------------------------
(* The observation of the sources.                                         *)
LEMMA ObserveNextInOrder ==
  ASSUME IInv, NEW c \in Slots, ObserveNext(c)
  PROVE  InOrder(c)
<1>1. /\ cycles[c] \in Cycle /\ Running(c) /\ cycles[c].at \in Silent /\ cycles[c].at \in Unasked
      /\ PlaceInv(cycles[c])
  BY CycleType DEF ObserveNext, At, Running, Silent, Unasked, CycleInv
<1>2. PICK r : /\ r = [cycles[c] EXCEPT !.at = "checking", !.todo = {}]
                    \/ r = [cycles[c] EXCEPT !.at = "entering"]
               /\ Continue(c, r)
  BY DEF ObserveNext
<1>3. "checking" \in Places /\ "entering" \in Places
  BY DEF Places
<1>4. /\ r \in Cycle /\ r.at \in {"checking", "entering"} /\ r.sent = cycles[c].sent
      /\ r.asked = cycles[c].asked /\ r.code = cycles[c].code
      /\ r.wanted = cycles[c].wanted /\ r.supplied = cycles[c].supplied
  BY <1>1, <1>2, <1>3 DEF Cycle
<1>5. PlaceInv(r)
  BY <1>1, <1>4 DEF PlaceInv, Unasked, Silent
<1> QED
  BY <1>1, <1>2, <1>4, <1>5, GoOnInOrder DEF Silent, Unasked

LEMMA ObserveStartInOrder ==
  ASSUME IInv, NEW c \in Slots, ObserveStart(c)
  PROVE  InOrder(c)
<1>1. /\ cycles[c] \in Cycle /\ Running(c) /\ cycles[c].at \in Silent /\ cycles[c].at \in Unasked
      /\ PlaceInv(cycles[c])
  BY CycleType DEF ObserveStart, At, Running, Silent, Unasked, CycleInv
<1>2. CASE LeaseOver(c) \/ cycles[c].early
  <2>1. Settle(c, "rejected") /\ Excused(c) /\ "rejected" \in Outcomes
    BY <1>2 DEF ObserveStart, Excused, Outcomes
  <2> QED
    BY <1>1, <2>1, SettleInOrder
<1>3. CASE ~ (LeaseOver(c) \/ cycles[c].early)
  <2>1. PICK limit : limit = IF cycles[c].left < ObserveLimit THEN cycles[c].left ELSE ObserveLimit
    OBVIOUS
  <2>2. PICK r : r = [cycles[c] EXCEPT !.at = "reading", !.timer = limit]
    OBVIOUS
  <2>3. Continue(c, r)
    BY <1>3, <2>1, <2>2 DEF ObserveStart
  <2>4. limit \in Int
    BY <1>1, <2>1, ExecutorServiceAssumption DEF Cycle
  <2>5. "reading" \in Places
    BY DEF Places
  <2>6. /\ r \in Cycle /\ r.at = "reading" /\ r.sent = cycles[c].sent
        /\ r.asked = cycles[c].asked /\ r.code = cycles[c].code
        /\ r.wanted = cycles[c].wanted /\ r.supplied = cycles[c].supplied
    BY <1>1, <2>2, <2>4, <2>5 DEF Cycle
  <2>7. PlaceInv(r)
    BY <1>1, <2>6 DEF PlaceInv, Unasked, Silent
  <2> QED
    BY <1>1, <2>3, <2>6, <2>7, GoOnInOrder DEF Silent, Unasked
<1> QED
  BY <1>2, <1>3

LEMMA SourceDoneInOrder ==
  ASSUME IInv, NEW c \in Slots, SourceRead(c) \/ SourceTimeout(c)
  PROVE  InOrder(c)
<1>1. /\ cycles[c] \in Cycle /\ Running(c) /\ cycles[c].at \in Silent /\ cycles[c].at \in Unasked
      /\ PlaceInv(cycles[c])
  BY CycleType DEF SourceRead, SourceTimeout, At, Running, Silent, Unasked, CycleInv
<1>2. PICK item \in cycles[c].todo, inspected \in BOOLEAN : ObservedItem(c, item, inspected)
  BY DEF SourceRead, SourceTimeout
<1>3. PICK seen : seen = IF inspected THEN cycles[c].seen \cup {item} ELSE cycles[c].seen
  OBVIOUS
<1>4. PICK r : r = [cycles[c] EXCEPT !.at = "observing", !.timer = NoTimer, !.todo = @ \ {item},
                                     !.seen = seen]
  OBVIOUS
<1>5. Continue(c, r)
  BY <1>2, <1>3, <1>4 DEF ObservedItem
<1>6. cycles[c].todo \in SUBSET Items /\ cycles[c].seen \in SUBSET Items
  BY <1>1 DEF Cycle
<1>7. /\ "observing" \in Places /\ NoTimer \in Int
      /\ cycles[c].todo \ {item} \in SUBSET Items /\ seen \in SUBSET Items
  BY <1>3, <1>6 DEF Places, NoTimer
<1>8. /\ r \in Cycle /\ r.at = "observing" /\ r.sent = cycles[c].sent
      /\ r.asked = cycles[c].asked /\ r.code = cycles[c].code
      /\ r.wanted = cycles[c].wanted /\ r.supplied = cycles[c].supplied
  BY <1>1, <1>4, <1>7 DEF Cycle
<1>9. PlaceInv(r)
  BY <1>1, <1>8 DEF PlaceInv, Unasked, Silent
<1> QED
  BY <1>1, <1>5, <1>8, <1>9, GoOnInOrder DEF Silent, Unasked

-----------------------------------------------------------------------------
(* The checks before the dispatch, and the dispatch.                       *)
LEMMA CheckInOrder ==
  ASSUME IInv, NEW c \in Slots, Check(c)
  PROVE  InOrder(c)
<1>1. /\ cycles[c] \in Cycle /\ agent \in Agents /\ Running(c)
      /\ cycles[c].at \in Silent /\ cycles[c].at \in Unasked /\ cycles[c].at # "claiming"
      /\ PlaceInv(cycles[c]) /\ cycles[c].code = "none"
  BY CycleType DEF Check, At, Running, Silent, Unasked, CycleInv, PlaceInv
<1>2. ASSUME LeaseOver(c), Settle(c, "lease_expired") PROVE InOrder(c)
  <2>1. Excused(c) /\ "lease_expired" \in Outcomes
    BY <1>2 DEF Excused, Outcomes
  <2> QED
    BY <1>1, <1>2, <2>1, SettleInOrder
<1>3. ASSUME NEW code \in {"uninspected_source", "invalid_contract"}, code \in Verdicts(agent),
             code \in Worker!UnaskedCalls, SendFail(c, code)
      PROVE  InOrder(c)
  <2>1. NoArtifact \in Artifacts
    BY DEF NoArtifact, Artifacts
  <2>2. Send(c, code, NoArtifact) /\ code # "complete" /\ cycles[c].code \notin ProtocolDefects
    BY <1>1, <1>3 DEF SendFail, ProtocolDefects
  <2> QED
    BY <1>1, <1>3, <2>1, <2>2, SendInOrder
<1>4. ASSUME Continue(c, [cycles[c] EXCEPT !.at = "signing"]), agent = "reel" => cycles[c].supplied # {}
      PROVE  InOrder(c)
  <2>1. PICK r : r = [cycles[c] EXCEPT !.at = "signing"]
    OBVIOUS
  <2>2. "signing" \in Places
    BY DEF Places
  <2>3. /\ r \in Cycle /\ r.at = "signing" /\ r.sent = cycles[c].sent
        /\ r.asked = cycles[c].asked /\ r.code = cycles[c].code
        /\ r.wanted = cycles[c].wanted /\ r.supplied = cycles[c].supplied
    BY <1>1, <2>1, <2>2 DEF Cycle
  <2>4. PlaceInv(r)
    BY <1>1, <1>4, <2>3 DEF PlaceInv, Unasked, Silent
  <2>5. Continue(c, r)
    BY <1>4, <2>1
  <2> QED
    BY <1>1, <2>3, <2>4, <2>5, GoOnInOrder DEF Silent, Unasked
<1>5. ASSUME agent = "reel", cycles[c].supplied = {}, SendComplete(c, UnavailableMedia(cycles[c].wanted))
      PROVE  InOrder(c)
  <2>1. PICK artifact : artifact = UnavailableMedia(cycles[c].wanted)
    OBVIOUS
  <2>2. artifact \in Artifacts /\ artifact.claims = {} /\ artifact.missing = cycles[c].wanted
    BY <1>1, <2>1 DEF UnavailableMedia, Artifacts, Cycle
  <2>3. /\ Send(c, "complete", artifact) /\ "complete" \in Verdicts(agent) /\ "complete" \notin RetryableCodes
        /\ "complete" \in Worker!UnaskedCalls
    BY <1>5, <2>1 DEF SendComplete, Verdicts, RetryableCodes, Worker!UnaskedCalls
  <2> QED
    BY <1>1, <1>5, <2>2, <2>3, SendInOrder
<1>6. CASE agent = "research"
  <2>1. ResearchCheck(c)
    BY <1>6 DEF Check
  <2> QED
    BY <1>1, <1>2, <1>3, <1>4, <1>6, <2>1, OwnVerdicts, OwnCalls DEF ResearchCheck
<1>7. CASE agent = "reel"
  <2>1. ReelCheck(c)
    BY <1>7 DEF Check
  <2> QED
    BY <1>1, <1>2, <1>3, <1>4, <1>5, <1>7, <2>1, OwnVerdicts, OwnCalls DEF ReelCheck
<1>8. CASE agent = "calendar"
  <2>1. CalendarCheck(c)
    BY <1>8 DEF Check
  <2> QED
    BY <1>1, <1>2, <1>3, <1>4, <1>8, <2>1, OwnVerdicts, OwnCalls DEF CalendarCheck
<1> QED
  BY <1>1, <1>6, <1>7, <1>8 DEF Agents

LEMMA SignAndDispatchInOrder ==
  ASSUME IInv, NEW c \in Slots, SignAndDispatch(c)
  PROVE  InOrder(c)
<1>1. /\ cycles[c] \in Cycle /\ Running(c) /\ cycles[c].at \in Silent /\ cycles[c].at = "signing"
      /\ PlaceInv(cycles[c]) /\ cycles[c].asked = 0 /\ cycles[c].code = "none" /\ cycles[c].left \in Int
  BY CycleType DEF SignAndDispatch, At, Running, Silent, Unasked, CycleInv, PlaceInv, Cycle
<1>2. PICK timeout : timeout = IF cycles[c].left < IdleTimeout THEN cycles[c].left ELSE IdleTimeout
  OBVIOUS
<1>3. timeout \in Int /\ (timeout <= 0 => LeaseOver(c))
  BY <1>1, <1>2, ExecutorServiceAssumption DEF LeaseOver
<1>4. ASSUME NEW outcome \in {"rejected", "lease_expired"}, Settle(c, outcome), ~ config.key \/ timeout <= 0
      PROVE  InOrder(c)
  <2>1. outcome \in Outcomes /\ Excused(c)
    BY <1>3, <1>4 DEF Outcomes, Excused
  <2> QED
    BY <1>1, <1>4, <2>1, SettleInOrder
<1>5. ASSUME Continue(c, [cycles[c] EXCEPT !.at = "answered", !.reply = "transport_failure"])
      PROVE  InOrder(c)
  <2>1. PICK r : r = [cycles[c] EXCEPT !.at = "answered", !.reply = "transport_failure"]
    OBVIOUS
  <2>2. "answered" \in Places /\ "transport_failure" \in Replies
    BY DEF Places, Replies
  <2>3. /\ r \in Cycle /\ r.at = "answered" /\ r.sent = cycles[c].sent /\ r.asked = 0 /\ r.code = "none"
        /\ r.reply = "transport_failure"
        /\ r.wanted = cycles[c].wanted /\ r.supplied = cycles[c].supplied
    BY <1>1, <2>1, <2>2 DEF Cycle
  <2>4. PlaceInv(r)
    BY <1>1, <2>3 DEF PlaceInv, Unasked, Silent
  <2>5. Continue(c, r)
    BY <1>5, <2>1
  <2> QED
    BY <1>1, <2>3, <2>4, <2>5, GoOnInOrder DEF Silent, Unasked
<1>6. ASSUME NEW timer \in Int,
             Continue(c, [cycles[c] EXCEPT !.at = "dispatched", !.body = 0, !.asked = @ + 1, !.timer = timer])
      PROVE  InOrder(c)
  <2>0. PICK none \in Int, once \in Int : none = 0 /\ once = 1
    OBVIOUS
  <2>1. PICK r : r = [cycles[c] EXCEPT !.at = "dispatched", !.body = none, !.asked = once, !.timer = timer]
    OBVIOUS
  <2>2. "dispatched" \in Places
    BY DEF Places
  <2>3. /\ r \in Cycle /\ r.at = "dispatched" /\ r.sent = cycles[c].sent /\ r.asked = once /\ r.code = "none"
        /\ r.wanted = cycles[c].wanted /\ r.supplied = cycles[c].supplied
    BY <1>1, <2>1, <2>2 DEF Cycle
  <2>4. PlaceInv(r)
    BY <1>1, <2>0, <2>3 DEF PlaceInv, Unasked, Silent
  <2>5. Continue(c, r)
    <3>1. cycles[c].asked + 1 = once
      BY <1>1, <2>0
    <3> QED
      BY <1>6, <2>0, <2>1, <3>1
  <2> QED
    BY <1>1, <2>3, <2>4, <2>5, GoOnInOrder DEF Silent, Unasked
<1>7. \/ ~ config.key /\ Settle(c, "rejected")
      \/ timeout <= 0 /\ Settle(c, "lease_expired")
      \/ OpenRequest(c, timeout)
  BY <1>2 DEF SignAndDispatch
<1>8. ASSUME OpenRequest(c, timeout) PROVE InOrder(c)
  <2>1. PICK timer : timer = IF timeout = 0 THEN NoTimer ELSE timeout
    OBVIOUS
  <2>2. timer \in Int
    BY <1>3, <2>1 DEF NoTimer
  <2>3. \/ Continue(c, [cycles[c] EXCEPT !.at = "answered", !.reply = "transport_failure"])
        \/ timeout <= 0 /\ Settle(c, "rejected")
        \/ Continue(c, [cycles[c] EXCEPT !.at = "dispatched", !.body = 0, !.asked = @ + 1, !.timer = timer])
    BY <1>3, <1>8, <2>1 DEF OpenRequest
  <2>4. CASE timeout <= 0 /\ Settle(c, "rejected")
    BY <1>4, <2>4
  <2>5. CASE Continue(c, [cycles[c] EXCEPT !.at = "answered", !.reply = "transport_failure"])
    BY <1>5, <2>5
  <2>6. CASE Continue(c, [cycles[c] EXCEPT !.at = "dispatched", !.body = 0, !.asked = @ + 1, !.timer = timer])
    BY <1>6, <2>2, <2>6, Zenon
  <2> QED
    BY <2>3, <2>4, <2>5, <2>6, Zenon
<1> QED
  BY <1>4, <1>7, <1>8

-----------------------------------------------------------------------------
(* The response and what is made of it.                                    *)
LEMMA ResponseInOrder ==
  ASSUME IInv, NEW c \in Slots,
         ResponseData(c) \/ ResponseEnd(c) \/ ConnectionLost(c) \/ IdleTimeoutFires(c)
  PROVE  InOrder(c)
<1>1. /\ cycles[c] \in Cycle /\ agent \in Agents /\ Running(c)
      /\ cycles[c].at \in Silent /\ cycles[c].at = "dispatched"
      /\ PlaceInv(cycles[c]) /\ cycles[c].code = "none" /\ cycles[c].body \in Int /\ cycles[c].timer \in Int
  BY CycleType DEF ResponseData, ResponseEnd, ConnectionLost, IdleTimeoutFires, At, Running, Silent, Unasked,
                   CycleInv, PlaceInv, Cycle
<1>2. ASSUME NEW reply \in Replies, NEW code \in AllCodes, NEW artifact \in Artifacts,
             Reply(c, reply, code, artifact), reply # "error" => code = "none"
      PROVE  InOrder(c)
  <2>1. PICK r : r = [cycles[c] EXCEPT !.at = "answered", !.timer = NoTimer, !.reply = reply,
                                       !.code = code, !.artifact = artifact]
    OBVIOUS
  <2>2. "answered" \in Places /\ NoTimer \in Int
    BY DEF Places, NoTimer
  <2>3. /\ r \in Cycle /\ r.at = "answered" /\ r.sent = cycles[c].sent /\ r.asked = cycles[c].asked
        /\ r.code = code /\ r.reply = reply
        /\ r.wanted = cycles[c].wanted /\ r.supplied = cycles[c].supplied
    BY <1>1, <2>1, <2>2 DEF Cycle
  <2>4. PlaceInv(r)
    BY <1>1, <1>2, <2>3 DEF PlaceInv, Unasked, Silent
  <2>5. Continue(c, r)
    BY <1>2, <2>1 DEF Reply
  <2> QED
    BY <1>1, <2>3, <2>4, <2>5, GoOnInOrder DEF Silent, Unasked
<1>3. NoArtifact \in Artifacts /\ "none" \in AllCodes /\ {"ok", "error", "transport_failure"} \subseteq Replies
  BY DEF NoArtifact, Artifacts, AllCodes, Replies
<1>4. ASSUME Reply(c, "transport_failure", "none", NoArtifact) PROVE InOrder(c)
  BY <1>2, <1>3, <1>4
<1>5. CASE ResponseData(c) /\ ~ Reply(c, "transport_failure", "none", NoArtifact)
  <2>1. PICK timer : timer = IF cycles[c].timer = NoTimer THEN cycles[c].timer ELSE IdleTimeout
    OBVIOUS
  <2>2. PICK body : body = cycles[c].body + 1
    OBVIOUS
  <2>3. timer \in Int /\ body \in Int
    BY <1>1, <2>1, <2>2, ExecutorServiceAssumption
  <2>4. PICK r : r = [cycles[c] EXCEPT !.body = body, !.timer = timer]
    OBVIOUS
  <2>5. Continue(c, r)
    BY <1>5, <2>1, <2>2, <2>4 DEF ResponseData
  <2>6. /\ r \in Cycle /\ r.at = "dispatched" /\ r.sent = cycles[c].sent /\ r.asked = cycles[c].asked
        /\ r.code = cycles[c].code
        /\ r.wanted = cycles[c].wanted /\ r.supplied = cycles[c].supplied
    BY <1>1, <2>3, <2>4 DEF Cycle
  <2>7. PlaceInv(r)
    BY <1>1, <2>6 DEF PlaceInv, Unasked, Silent
  <2> QED
    BY <1>1, <2>5, <2>6, <2>7, GoOnInOrder DEF Silent, Unasked
<1>6. CASE ResponseEnd(c)
  <2>1. \A code \in WireCodes(agent) : code \in AllCodes
    BY <1>1 DEF AllCodes
  <2>2. ASSUME NEW a \in Artifacts, Reply(c, "ok", "none", a) PROVE InOrder(c)
    BY <1>2, <1>3, <2>2
  <2>3. ASSUME NEW code \in WireCodes(agent), Reply(c, "error", code, NoArtifact) PROVE InOrder(c)
    BY <1>2, <1>3, <2>1, <2>3
  <2> QED
    BY <1>4, <1>6, <2>2, <2>3 DEF ResponseEnd
<1> QED
  BY <1>4, <1>5, <1>6 DEF ResponseData, ConnectionLost, IdleTimeoutFires

LEMMA AnsweredInOrder ==
  ASSUME IInv, NEW c \in Slots, Answered(c)
  PROVE  InOrder(c)
<1>1. /\ cycles[c] \in Cycle /\ agent \in Agents /\ Running(c)
      /\ cycles[c].at \in Silent /\ cycles[c].at = "answered" /\ cycles[c].at # "claiming"
      /\ PlaceInv(cycles[c])
  BY CycleType DEF Answered, At, Running, Silent, Unasked, CycleInv
<1>2. /\ cycles[c].reply # "error" => cycles[c].code = "none"
      /\ cycles[c].reply # "transport_failure" => cycles[c].asked # 0
      /\ agent = "reel" => cycles[c].supplied \subseteq cycles[c].wanted
      /\ cycles[c].artifact \in Artifacts
  BY <1>1 DEF PlaceInv, Cycle
<1>3. NoArtifact \in Artifacts /\ "none" \notin ProtocolDefects
  BY DEF NoArtifact, Artifacts, ProtocolDefects
<1>4. ASSUME LeaseOver(c), Settle(c, "lease_expired") PROVE InOrder(c)
  <2>1. Excused(c) /\ "lease_expired" \in Outcomes
    BY <1>4 DEF Excused, Outcomes
  <2> QED
    BY <1>1, <1>4, <2>1, SettleInOrder
<1>5. ASSUME NEW code \in Verdicts(agent) \ {"complete"}, SendFail(c, code),
             cycles[c].code \in ProtocolDefects => code \notin RetryableCodes,
             cycles[c].asked = 0 => code \in Worker!UnaskedCalls
      PROVE  InOrder(c)
  <2>1. Send(c, code, NoArtifact) /\ code # "complete"
    BY <1>5 DEF SendFail
  <2> QED
    BY <1>1, <1>3, <1>5, <2>1, SendInOrder
<1>6. CASE LeaseOver(c)
  BY <1>4, <1>6 DEF Answered
<1>7. CASE ~ LeaseOver(c) /\ cycles[c].reply = "transport_failure"
  <2>1. SendFail(c, "provider_failure")
    BY <1>7 DEF Answered
  <2>2. "provider_failure" \in Verdicts(agent) \ {"complete"}
    BY <1>1, OwnVerdicts
  <2> QED
    BY <1>1, <1>2, <1>3, <1>5, <1>7, <2>1, <2>2, OwnCalls
<1>8. CASE ~ LeaseOver(c) /\ cycles[c].reply = "error"
  <2>1. PICK code : code = FailureCode(agent, cycles[c].code)
    OBVIOUS
  <2>2. SendFail(c, code)
    BY <1>8, <2>1 DEF Answered
  <2>3. /\ code \in Verdicts(agent) \ {"complete"}
        /\ cycles[c].code \in ProtocolDefects => code \notin RetryableCodes
    BY <1>1, <2>1, FailureCodeFacts DEF RetryableCodes
  <2> QED
    BY <1>2, <1>5, <1>8, <2>2, <2>3
<1>9. CASE ~ LeaseOver(c) /\ cycles[c].reply \notin {"transport_failure", "error"}
  <2>1. PICK problem : problem = ArtifactProblem(agent, cycles[c].artifact, cycles[c].wanted,
                                                 cycles[c].supplied, cycles[c].seen)
    OBVIOUS
  <2>2. IF problem = "none" THEN SendComplete(c, cycles[c].artifact) ELSE SendFail(c, problem)
    BY <1>9, <2>1 DEF Answered
  <2>3. /\ problem # "none" => problem \in Verdicts(agent) \ {"complete"}
        /\ problem = "none" =>
             /\ agent = "research" => /\ cycles[c].artifact.claims # {}
                                      /\ cycles[c].artifact.claims \subseteq cycles[c].seen
             /\ agent = "reel" => /\ cycles[c].artifact.claims \subseteq cycles[c].supplied
                                  /\ cycles[c].artifact.missing = cycles[c].wanted \ cycles[c].artifact.claims
             /\ agent = "calendar" => cycles[c].artifact.claims \subseteq cycles[c].wanted
    BY <1>1, <1>2, <2>1, ArtifactFacts
  <2>4. cycles[c].code \notin ProtocolDefects
    BY <1>2, <1>3, <1>9
  <2>5. CASE problem # "none"
    BY <1>2, <1>5, <1>9, <2>2, <2>3, <2>4, <2>5
  <2>6. CASE problem = "none"
    <3>1. Send(c, "complete", cycles[c].artifact)
      BY <2>2, <2>6 DEF SendComplete
    <3>2. "complete" \in Verdicts(agent)
      BY DEF Verdicts
    <3>3. agent = "reel" => cycles[c].artifact.claims \cup cycles[c].artifact.missing = cycles[c].wanted
      BY <1>2, <2>3, <2>6
    <3> QED
      BY <1>1, <1>2, <1>9, <2>3, <2>4, <2>6, <3>1, <3>2, <3>3, SendInOrder
  <2> QED
    BY <2>5, <2>6
<1> QED
  BY <1>6, <1>7, <1>8, <1>9

(* The command and the metering.                                           *)
LEMMA CommandInOrder ==
  ASSUME IInv, NEW c \in Slots, CommandReturns(c) \/ CommandThrows(c) \/ Metered(c)
  PROVE  InOrder(c)
<1>1. /\ cycles[c] \in Cycle /\ CycleInv(cycles[c]) /\ Running(c)
      /\ cycles[c].at \in {"calling", "metering"} /\ cycles[c].sent # {}
  BY CycleType DEF CommandReturns, CommandThrows, Metered, At, Running, CycleInv, PlaceInv
<1>2. Excused(c) /\ {"failed", "succeeded", "command_failed"} \subseteq Outcomes
  BY <1>1 DEF Excused, Outcomes
<1>3. CASE \E o \in Outcomes : Settle(c, o)
  BY <1>1, <1>2, <1>3, SettleInOrder
<1>4. CASE /\ At(c, "calling") /\ agent = "research" /\ "complete" \in cycles[c].sent
           /\ Continue(c, [cycles[c] EXCEPT !.at = "metering"])
  <2>1. PICK r : r = [cycles[c] EXCEPT !.at = "metering"]
    OBVIOUS
  <2>2. "metering" \in Places
    BY DEF Places
  <2>3. /\ r \in Cycle /\ r.at = "metering" /\ r.sent = cycles[c].sent /\ r.asked = cycles[c].asked
        /\ r.code = cycles[c].code /\ r.artifact = cycles[c].artifact /\ r.seen = cycles[c].seen
        /\ r.wanted = cycles[c].wanted /\ r.supplied = cycles[c].supplied
    BY <1>1, <2>1, <2>2 DEF Cycle
  <2>4. CycleInv(r)
    BY <1>1, <2>3 DEF CycleInv, PlaceInv, VerdictInv, EvidenceInv, Unasked, Silent
  <2>5. Continue(c, r)
    BY <1>4, <2>1
  <2>6. cycles[c].sent = {"complete"}
    BY <1>1, <1>4 DEF CycleInv, VerdictInv
  <2>7. Shows(cycles[c], r)
    BY <1>4, <2>3, <2>6 DEF Shows, At
  <2> QED
    BY <1>1, <2>3, <2>4, <2>5, <2>7, ContinueInOrder
<1> QED
  BY <1>2, <1>3, <1>4 DEF CommandReturns, CommandThrows, Metered

-----------------------------------------------------------------------------
(* Every statement of a cycle leaves it in order.                          *)
THEOREM CycleStepInOrder ==
  ASSUME IInv, NEW c \in Slots, CycleStep(c)
  PROVE  InOrder(c)
BY ObserveNextInOrder, ObserveStartInOrder, SourceDoneInOrder, CheckInOrder, SignAndDispatchInOrder,
   ResponseInOrder, AnsweredInOrder, CommandInOrder, ClaimEmptyInOrder, ClaimTaskInOrder
   DEF CycleStep, Step, Database, Outside

(* One cycle moved and is in order; the others did not move.               *)
LEMMA InOrderKeepsIInv ==
  ASSUME IInv, NEW c \in Slots, InOrder(c), UNCHANGED <<agent, config, stopped>>
  PROVE  IInv'
<1>1. PICK r \in Cycle : Steps(c, r)
  BY DEF InOrder
<1>2. cycles \in [Slots -> Cycle] /\ cycles' = [cycles EXCEPT ![c] = r] /\ agent' = agent
  BY <1>1 DEF Steps, Update, IInv, TypeOK
<1>3. cycles' \in [Slots -> Cycle] /\ cycles'[c] = r /\ \A d \in Slots : d # c => cycles'[d] = cycles[d]
  BY <1>2
<1>4. inFlight' \in BOOLEAN
  BY <1>1 DEF Steps, IInv, TypeOK
<1>5. TypeOK'
  BY <1>3, <1>4 DEF IInv, TypeOK
<1>6. \A d \in Slots : d # c => ~ Running(d)'
  BY <1>1, <1>3 DEF Steps, IInv, OneWriter, Running
<1>7. OneWriter'
  BY <1>6 DEF OneWriter
<1>8. Running(c)' => inFlight'
  BY <1>1, <1>3 DEF Steps, Running, IInv
<1>9. ASSUME NEW d \in Slots PROVE CycleInv(cycles[d])'
  <2>1. CASE d = c
    BY <1>1, <1>2, <1>3, <2>1 DEF Steps, CycleInv, PlaceInv, VerdictInv, EvidenceInv
  <2>2. CASE d # c
    BY <1>2, <1>3, <2>2 DEF IInv, CycleInv, PlaceInv, VerdictInv, EvidenceInv
  <2> QED
    BY <2>1, <2>2
<1> QED
  BY <1>5, <1>6, <1>7, <1>8, <1>9 DEF IInv

-----------------------------------------------------------------------------
LEMMA TimerTickIInv ==
  ASSUME IInv, NEW c \in Slots, TimerTick(c)
  PROVE  IInv'
<1>1. PICK r : r = [Fresh EXCEPT !.at = "claiming"]
  OBVIOUS
<1>2. /\ cycles' = [cycles EXCEPT ![c] = r] /\ inFlight' = TRUE
      /\ UNCHANGED <<agent, config, stopped>> /\ ~ inFlight
  BY <1>1 DEF TimerTick, Update
<1>3. Fresh \in Cycle
  <2>1. /\ "free" \in Places /\ "none" \in Replies /\ "none" \in AllCodes /\ "none" \in Outcomes
        /\ NoArtifact \in Artifacts /\ NoTimer \in Int /\ 0 \in Int
    BY DEF Places, Replies, AllCodes, Outcomes, NoArtifact, Artifacts, NoTimer
  <2> QED
    BY <2>1 DEF Fresh, Cycle
<1>4. /\ r \in Cycle /\ r.at = "claiming" /\ r.sent = {} /\ r.asked = 0 /\ r.code = "none"
      /\ r.wanted = {} /\ r.supplied = {}
  <2>1. "claiming" \in Places
    BY DEF Places
  <2>2. r \in Cycle
    BY <1>1, <1>3, <2>1 DEF Cycle
  <2> QED
    BY <1>1, <2>2 DEF Fresh
<1>5. CycleInv(r)
  BY <1>4 DEF CycleInv, PlaceInv, VerdictInv, EvidenceInv, ProtocolDefects, Unasked
<1>6. cycles' \in [Slots -> Cycle] /\ cycles'[c] = r /\ \A d \in Slots : d # c => cycles'[d] = cycles[d]
  BY <1>2, <1>4 DEF IInv, TypeOK
<1>7. TypeOK'
  BY <1>2, <1>6 DEF IInv, TypeOK
<1>8. \A d \in Slots : d # c => ~ Running(d)'
  BY <1>2, <1>6 DEF IInv, Running
<1>9. OneWriter'
  BY <1>8 DEF OneWriter
<1>10. ASSUME NEW d \in Slots PROVE CycleInv(cycles[d])'
  <2>1. CASE d = c
    BY <1>2, <1>5, <1>6, <2>1 DEF CycleInv, PlaceInv, VerdictInv, EvidenceInv
  <2>2. CASE d # c
    BY <1>2, <1>6, <2>2 DEF IInv, CycleInv, PlaceInv, VerdictInv, EvidenceInv
  <2> QED
    BY <2>1, <2>2
<1> QED
  BY <1>2, <1>7, <1>9, <1>10 DEF IInv

LEMMA ElapsedFacts ==
  ASSUME NEW r \in Cycle
  PROVE  /\ Elapsed(r) \in Cycle
         /\ Elapsed(r).at = r.at /\ Elapsed(r).sent = r.sent /\ Elapsed(r).asked = r.asked
         /\ Elapsed(r).code = r.code /\ Elapsed(r).reply = r.reply
         /\ Elapsed(r).artifact = r.artifact /\ Elapsed(r).seen = r.seen
         /\ Elapsed(r).wanted = r.wanted /\ Elapsed(r).supplied = r.supplied
<1>1. PICK left : left = IF r.left > -1 THEN r.left - 1 ELSE r.left
  OBVIOUS
<1>2. PICK timer : timer = Down(r.timer)
  OBVIOUS
<1>3. Elapsed(r) = [r EXCEPT !.left = left, !.timer = timer, !.early = FALSE]
  BY <1>1, <1>2 DEF Elapsed
<1>4. r.left \in Int /\ r.timer \in Int
  BY DEF Cycle
<1>5. left \in Int /\ timer \in Int
  BY <1>1, <1>2, <1>4 DEF Down
<1> QED
  BY <1>3, <1>5 DEF Cycle

LEMMA TickIInv ==
  ASSUME IInv, Tick
  PROVE  IInv'
<1>1. ASSUME NEW d \in Slots
      PROVE  /\ cycles'[d] \in Cycle
             /\ cycles'[d].at = cycles[d].at /\ cycles'[d].sent = cycles[d].sent
             /\ cycles'[d].asked = cycles[d].asked /\ cycles'[d].code = cycles[d].code
             /\ cycles'[d].reply = cycles[d].reply
             /\ cycles'[d].artifact = cycles[d].artifact /\ cycles'[d].seen = cycles[d].seen
             /\ cycles'[d].wanted = cycles[d].wanted /\ cycles'[d].supplied = cycles[d].supplied
  <2>1. cycles[d] \in Cycle /\ cycles'[d] = Elapsed(cycles[d])
    BY DEF IInv, TypeOK, Tick
  <2> QED
    BY <2>1, ElapsedFacts
<1>2. cycles' \in [Slots -> Cycle] /\ UNCHANGED <<agent, config, stopped, inFlight>>
  BY <1>1 DEF Tick
<1>3. TypeOK'
  BY <1>2 DEF IInv, TypeOK
<1>4. OneWriter' /\ \A d \in Slots : Running(d)' => inFlight'
  BY <1>1, <1>2 DEF IInv, OneWriter, Running
<1>5. ASSUME NEW d \in Slots PROVE CycleInv(cycles[d])'
  <2>1. CycleInv(cycles[d])
    BY DEF IInv
  <2>2. PlaceInv(cycles[d])'
    BY <1>1, <1>2, <2>1 DEF CycleInv, PlaceInv
  <2>3. VerdictInv(cycles[d])'
    BY <1>1, <1>2, <2>1 DEF CycleInv, VerdictInv
  <2>4. EvidenceInv(cycles[d])'
    BY <1>1, <1>2, <2>1 DEF CycleInv, EvidenceInv
  <2> QED
    BY <2>2, <2>3, <2>4 DEF CycleInv
<1> QED
  BY <1>3, <1>4, <1>5 DEF IInv

-----------------------------------------------------------------------------
(* Every step of the service keeps the invariant.                          *)
THEOREM NextIInv ==
  ASSUME IInv, [Next]_vars
  PROVE  IInv'
<1>1. ASSUME NEW c \in Slots, TimerTick(c) PROVE IInv'
  BY <1>1, TimerTickIInv
<1>2. ASSUME NEW c \in Slots, CycleStep(c) PROVE IInv'
  BY <1>2, CycleStepInOrder, InOrderKeepsIInv DEF CycleStep
<1>3. CASE Stop
  BY <1>3 DEF Stop, IInv, TypeOK, OneWriter, Running, CycleInv, PlaceInv, VerdictInv, EvidenceInv
<1>4. CASE Tick
  BY <1>4, TickIInv
<1>5. CASE UNCHANGED vars
  BY <1>5 DEF vars, IInv, TypeOK, OneWriter, Running, CycleInv, PlaceInv, VerdictInv, EvidenceInv
<1> QED
  BY <1>1, <1>2, <1>3, <1>4, <1>5 DEF Next

(* At first no cycle has begun.                                            *)
THEOREM InitIInv ==
  ASSUME Init
  PROVE  IInv
<1>1. Fresh \in Cycle
  <2>1. /\ "free" \in Places /\ "none" \in Replies /\ "none" \in AllCodes /\ "none" \in Outcomes
        /\ NoArtifact \in Artifacts /\ NoTimer \in Int /\ 0 \in Int
    BY DEF Places, Replies, AllCodes, Outcomes, NoArtifact, Artifacts, NoTimer
  <2> QED
    BY <2>1 DEF Fresh, Cycle
<1>2. TypeOK
  BY <1>1 DEF Init, TypeOK
<1>3. \A c \in Slots : cycles[c] = Fresh /\ ~ Running(c)
  BY DEF Init, Running, Fresh
<1>4. CycleInv(Fresh)
  BY DEF CycleInv, PlaceInv, VerdictInv, EvidenceInv, Fresh, ProtocolDefects
<1> QED
  BY <1>2, <1>3, <1>4 DEF IInv, OneWriter

(* The inductive invariant holds of every behaviour.                       *)
THEOREM Invariance == Spec => []IInv
<1>1. IInv /\ [Next]_vars => IInv'
  BY NextIInv
<1> QED
  BY <1>1, InitIInv, PTL DEF Spec

(* The service and its cycles keep their types.                            *)
THEOREM TypeCorrectness == Spec => []TypeOK
<1>1. IInv => TypeOK
  BY DEF IInv
<1> QED
  BY <1>1, Invariance, PTL

(* One agent profile has no simultaneous writers.                          *)
THEOREM NoTwoWriters == Spec => []OneWriter
<1>1. IInv => OneWriter
  BY DEF IInv
<1> QED
  BY <1>1, Invariance, PTL

(* An attempt gets one verdict, one that the database accepts, and the     *)
(* agent is asked once.                                                    *)
THEOREM AtMostOneVerdict == Spec => []OneVerdictPerAttempt
<1>1. IInv => OneVerdictPerAttempt
  <2> SUFFICES ASSUME IInv, NEW c \in Slots
               PROVE  /\ Cardinality(cycles[c].sent) <= 1 /\ cycles[c].asked <= 1
                      /\ cycles[c].sent \subseteq {"complete"} \cup AcceptedCodes(agent)
                      /\ cycles[c].code \in ProtocolDefects => cycles[c].sent \cap RetryableCodes = {}
    BY DEF OneVerdictPerAttempt
  <2>1. PlaceInv(cycles[c]) /\ VerdictInv(cycles[c])
    BY DEF IInv, CycleInv
  <2>2. Cardinality(cycles[c].sent) <= 1
    <3>1. CASE cycles[c].sent = {}
      BY <3>1, FS_EmptySet
    <3>2. CASE cycles[c].sent # {}
      <4>1. PICK x : cycles[c].sent = {x}
        BY <2>1, <3>2 DEF VerdictInv
      <4>2. Cardinality({x}) = 1
        BY FS_Singleton
      <4> QED
        BY <4>1, <4>2
    <3> QED
      BY <3>1, <3>2
  <2>3. cycles[c].asked <= 1
    BY <2>1 DEF PlaceInv
  <2> QED
    BY <2>1, <2>2, <2>3 DEF VerdictInv, Verdicts
<1> QED
  BY <1>1, Invariance, PTL

(* What is completed rests on what the host saw or supplied.               *)
THEOREM CompletionsAreGrounded == Spec => []HostSawTheEvidence
<1>1. IInv => HostSawTheEvidence
  BY DEF IInv, CycleInv, EvidenceInv, HostSawTheEvidence
<1> QED
  BY <1>1, Invariance, PTL

(* A lease is never dropped in silence.                                    *)
THEOREM LeasesAreAnswered == Spec => NoSilentDrop
<1> DEFINE A == \A c \in Slots :
                  Running(c) /\ cycles'[c].at = "settled" /\ cycles[c].wanted # {} /\ cycles[c].sent = {} =>
                    LeaseOver(c) \/ ~ config.key \/ cycles[c].early
<1>1. IInv /\ [Next]_vars => [A]_vars
  <2> SUFFICES ASSUME IInv, [Next]_vars, NEW c \in Slots, Running(c), cycles'[c].at = "settled",
                      cycles[c].wanted # {}, cycles[c].sent = {}
               PROVE  LeaseOver(c) \/ ~ config.key \/ cycles[c].early
    OBVIOUS
  <2>1. cycles \in [Slots -> Cycle] /\ cycles[c].at # "settled"
    BY DEF IInv, TypeOK, Running
  <2>2. ASSUME NEW d \in Slots, TimerTick(d) PROVE FALSE
    BY <2>2 DEF TimerTick, IInv
  <2>3. ASSUME NEW d \in Slots, CycleStep(d) PROVE Excused(c)
    <3>1. PICK r \in Cycle : Steps(d, r)
      BY <2>3, CycleStepInOrder DEF InOrder
    <3>2. d = c
      BY <2>1, <3>1 DEF Steps, IInv, OneWriter
    <3> QED
      BY <2>1, <3>1, <3>2 DEF Steps, Update
  <2>4. CASE Stop \/ UNCHANGED vars
    BY <2>1, <2>4 DEF Stop, vars
  <2>5. CASE Tick
    BY <2>1, <2>5, ElapsedFacts DEF Tick
  <2> QED
    BY <2>2, <2>3, <2>4, <2>5 DEF Next, Excused
<1> QED
  BY <1>1, Invariance, PTL DEF Spec, NoSilentDrop
-----------------------------------------------------------------------------
(* The service seen as a worker: what a step of one cycle shows.           *)
ShownAt(phase, call) == [phase |-> phase, task |-> "task", attempt |-> 1, call |-> call]
AtRest == [phase |-> "idle", task |-> "none", attempt |-> 0, call |-> "none"]

LEMMA OneShows ==
  ASSUME IInv, NEW c \in Slots, NEW r, Update(c, r)
  PROVE  Shown' = [Shown EXCEPT ![c] = ShownWorker(r)]
<1>1. cycles' = [cycles EXCEPT ![c] = r] /\ DOMAIN cycles = Slots
  BY DEF Update, IInv, TypeOK
<1> QED
  BY <1>1 DEF Shown

\* A record that shows the same leaves what is shown as it was.
LEMMA SameShown ==
  ASSUME NEW c \in Slots, NEW r, ShownWorker(r) = ShownWorker(cycles[c]),
         Shown' = [Shown EXCEPT ![c] = ShownWorker(r)]
  PROVE  Shown' = Shown
BY DEF Shown

LEMMA BecomeShown ==
  ASSUME NEW c \in Slots, NEW phase, NEW call, NEW from, NEW last,
         ShownWorker(cycles[c]) = ShownAt(from, last),
         Shown' = [Shown EXCEPT ![c] = ShownAt(phase, call)]
  PROVE  Worker!Become(c, phase, call)
<1>1. c \in DOMAIN Shown /\ Shown[c] = ShownAt(from, last)
  BY DEF Shown
<1>2. PICK x : x = [Shown[c] EXCEPT !.phase = phase]
  OBVIOUS
<1>3. [x EXCEPT !.call = call] = ShownAt(phase, call)
  <2>1. x = [[phase |-> from, task |-> "task", attempt |-> 1, call |-> last] EXCEPT !.phase = phase]
    BY <1>1, <1>2, Zenon DEF ShownAt
  <2>2. x = [phase |-> phase, task |-> "task", attempt |-> 1, call |-> last]
    BY <2>1
  <2> QED
    BY <2>2 DEF ShownAt
<1>4. PICK y : y = ShownAt(phase, call)
  OBVIOUS
<1>5. PICK g : g = [Shown EXCEPT ![c].phase = phase]
  OBVIOUS
<1>6. g = [Shown EXCEPT ![c] = x] /\ g[c] = x
  BY <1>1, <1>2, <1>5
<1>7. [g EXCEPT ![c].call = call] = [g EXCEPT ![c] = y]
  BY <1>3, <1>4, <1>6
<1>8. [g EXCEPT ![c] = y] = [Shown EXCEPT ![c] = y]
  BY <1>1, <1>6
<1>9. Shown' = [g EXCEPT ![c].call = call]
  BY <1>4, <1>7, <1>8
<1> QED
  BY <1>5, <1>9, Zenon DEF Worker!Become

\* How a record shows, place by place.
LEMMA ShownPlaces ==
  ASSUME NEW r
  PROVE  /\ r.at \in {"free", "claiming", "settled"} => ShownWorker(r) = AtRest
         /\ r.at \in Before \cup {"dispatched"} =>
              /\ r.asked = 0 => ShownWorker(r) = ShownAt("observing", "none")
              /\ r.asked = 1 => ShownWorker(r) = ShownAt("dispatching", "none")
         /\ \A call : r.at = "calling" /\ r.sent = {call} => ShownWorker(r) = ShownAt("calling", call)
         /\ r.at = "metering" => ShownWorker(r) = ShownAt("metering", "record")
<1>1. CASE r.at \in {"free", "claiming", "settled"}
  BY <1>1 DEF ShownWorker, PhaseOf, AtRest, Before
<1>2. CASE r.at \in Before \cup {"dispatched"}
  BY <1>2 DEF ShownWorker, PhaseOf, CallOf, ShownAt, Before
<1>3. ASSUME NEW call, r.at = "calling", r.sent = {call} PROVE ShownWorker(r) = ShownAt("calling", call)
  <2>1. CallOf(r) = call
    BY <1>3 DEF CallOf
  <2> QED
    BY <1>3, <2>1 DEF ShownWorker, PhaseOf, ShownAt
<1>4. CASE r.at = "metering"
  BY <1>4 DEF ShownWorker, PhaseOf, CallOf, ShownAt, Before
<1> QED
  BY <1>1, <1>2, <1>3, <1>4 DEF Before

LEMMA VerdictsAreCalls ==
  ASSUME NEW a \in Agents
  PROVE  Verdicts(a) \subseteq Worker!Verdicts
BY DEF Verdicts, Worker!Verdicts, FailCodes

(* A step of a cycle is a step of the worker, or shows nothing.            *)
LEMMA StepsAreWorkerSteps ==
  ASSUME IInv, NEW c \in Slots, NEW r \in Cycle, Steps(c, r), UNCHANGED agent
  PROVE  Worker!CycleNext \/ UNCHANGED Shown
<1>1. cycles[c] \in Cycle /\ PlaceInv(cycles[c]) /\ VerdictInv(cycles[c]) /\ agent \in Agents
  BY CycleType DEF CycleInv
<1>2. Shown' = [Shown EXCEPT ![c] = ShownWorker(r)] /\ Shown[c] = ShownWorker(cycles[c])
  BY OneShows DEF Steps, Shown
<1>3. Shows(cycles[c], r) /\ cycles[c].at \in Places \ {"free", "settled"}
  BY <1>1 DEF Steps, Running, Cycle
<1>4. ASSUME Worker!Take(c, "task", 1) \/ Worker!SettleUnasked(c) \/ Worker!Ask(c) \/ Worker!Answer(c)
               \/ Worker!Meter(c) \/ Worker!Leave(c)
      PROVE  Worker!CycleNext
  BY <1>4 DEF Worker!CycleNext
<1>5. CASE r.at = "settled"
  <2>1. ShownWorker(r) = AtRest
    BY <1>5, ShownPlaces
  <2>2. CASE cycles[c].at = "claiming"
    BY <1>2, <2>1, <2>2, ShownPlaces, SameShown
  <2>3. CASE cycles[c].at # "claiming"
    <3>1. \E phase \in {"observing", "dispatching", "calling", "metering"} :
            \E call : ShownWorker(cycles[c]) = ShownAt(phase, call)
      <4>1. cycles[c].at \in Before \cup {"dispatched", "calling", "metering"}
        BY <1>3, <2>3 DEF Places, Before
      <4>2. cycles[c].asked \in {0, 1} /\ (cycles[c].at = "calling" => \E x : cycles[c].sent = {x})
        BY <1>1 DEF PlaceInv, VerdictInv
      <4> QED
        BY <4>1, <4>2, ShownPlaces
    <3>2. Shown[c].phase # "idle"
      BY <1>2, <3>1 DEF ShownAt
    <3>3. Worker!Leave(c)
      BY <1>2, <2>1, <3>2 DEF Worker!Leave, Worker!Rest, Worker!Idle, AtRest
    <3> QED
      BY <1>4, <3>3
  <2> QED
    BY <2>2, <2>3
<1>6. CASE cycles[c].at = "claiming" /\ r.at \in Before /\ r.asked = 0
  <2>1. ShownWorker(r) = ShownAt("observing", "none") /\ Shown[c].phase = "idle"
    BY <1>2, <1>6, ShownPlaces DEF AtRest
  <2>2. Worker!Take(c, "task", 1)
    BY <1>2, <2>1 DEF Worker!Take, Worker!Start, ShownAt
  <2> QED
    BY <1>4, <2>2
<1>7. CASE /\ cycles[c].at = "claiming" /\ agent = "research"
           /\ r.at = "calling" /\ r.sent = {"invalid_contract"}
  <2>1. ShownWorker(r) = ShownAt("calling", "invalid_contract") /\ Shown[c].phase = "idle"
    BY <1>2, <1>7, ShownPlaces DEF AtRest
  <2>2. "invalid_contract" \in FailCodes
    BY DEF FailCodes, AcceptedCodes, Agents
  <2>3. Worker!Take(c, "task", 1)
    BY <1>2, <1>7, <2>1, <2>2 DEF Worker!Take, Worker!Start, ShownAt
  <2> QED
    BY <1>4, <2>3
<1>8. CASE /\ cycles[c].at \in Before \cup {"dispatched"} /\ r.at \in Before \cup {"dispatched"}
           /\ cycles[c].asked = 0 \/ r.asked = 1
           /\ r.asked \in {0, 1}
  <2>1. cycles[c].asked \in {0, 1}
    BY <1>1 DEF PlaceInv
  <2>2. CASE cycles[c].asked = r.asked
    BY <1>2, <1>8, <2>1, <2>2, ShownPlaces, SameShown
  <2>3. CASE cycles[c].asked = 0 /\ r.asked = 1
    <3>1. /\ ShownWorker(cycles[c]) = ShownAt("observing", "none")
          /\ ShownWorker(r) = ShownAt("dispatching", "none")
      BY <1>8, <2>3, ShownPlaces
    <3>2. Shown[c].phase = "observing"
      BY <1>2, <3>1 DEF ShownAt
    <3>3. Worker!Become(c, "dispatching", "none")
      BY <1>2, <3>1, BecomeShown
    <3>4. Worker!Ask(c)
      BY <3>2, <3>3 DEF Worker!Ask
    <3> QED
      BY <1>4, <3>4
  <2> QED
    BY <1>8, <2>1, <2>2, <2>3
<1>9. ASSUME NEW call \in Verdicts(agent),
             cycles[c].at \in Before \cup {"dispatched"}, r.at = "calling", r.sent = {call},
             cycles[c].asked = 0 => call \in Worker!UnaskedCalls
      PROVE  Worker!CycleNext
  <2>1. cycles[c].asked \in {0, 1} /\ ShownWorker(r) = ShownAt("calling", call) /\ call \in Worker!Verdicts
    BY <1>1, <1>9, ShownPlaces, VerdictsAreCalls DEF PlaceInv
  <2>2. CASE cycles[c].asked = 0
    <3>1. ShownWorker(cycles[c]) = ShownAt("observing", "none")
      BY <1>9, <2>2, ShownPlaces
    <3>2. Shown[c].phase = "observing"
      BY <1>2, <2>1, <3>1 DEF ShownAt
    <3>3. Worker!Become(c, "calling", call)
      BY <1>2, <2>1, <3>1, BecomeShown
    <3>4. Worker!SettleUnasked(c)
      BY <1>9, <2>1, <2>2, <3>2, <3>3 DEF Worker!SettleUnasked
    <3> QED
      BY <1>4, <3>4
  <2>3. CASE cycles[c].asked = 1
    <3>1. ShownWorker(cycles[c]) = ShownAt("dispatching", "none")
      BY <1>9, <2>3, ShownPlaces
    <3>2. Shown[c].phase = "dispatching"
      BY <1>2, <2>1, <3>1 DEF ShownAt
    <3>3. Worker!Become(c, "calling", call)
      BY <1>2, <2>1, <3>1, BecomeShown
    <3>4. Worker!Answer(c)
      BY <2>1, <3>2, <3>3 DEF Worker!Answer
    <3> QED
      BY <1>4, <3>4
  <2> QED
    BY <2>1, <2>2, <2>3
<1>10. CASE /\ cycles[c].at = "calling" /\ agent = "research" /\ cycles[c].sent = {"complete"}
            /\ r.at = "metering"
  <2>1. /\ ShownWorker(cycles[c]) = ShownAt("calling", "complete")
        /\ ShownWorker(r) = ShownAt("metering", "record")
    BY <1>10, ShownPlaces
  <2>2. Shown[c].phase = "calling" /\ Shown[c].call = "complete"
    BY <1>2, <2>1 DEF ShownAt
  <2>3. Worker!Become(c, "metering", "record")
    BY <1>2, <2>1, BecomeShown
  <2>4. Worker!Meter(c)
    BY <1>10, <2>2, <2>3 DEF Worker!Meter
  <2> QED
    BY <1>4, <2>4
<1> QED
  BY <1>3, <1>5, <1>6, <1>7, <1>8, <1>9, <1>10 DEF Shows

\* The timer and the clock show nothing.
LEMMA TimerTickShowsNothing ==
  ASSUME IInv, NEW c \in Slots, TimerTick(c)
  PROVE  UNCHANGED <<agent, Shown>>
<1>1. PICK r : r = [Fresh EXCEPT !.at = "claiming"]
  OBVIOUS
<1>2. Update(c, r) /\ agent' = agent /\ ~ Running(c)
  BY <1>1 DEF TimerTick, FirstFree
<1>3. ShownWorker(r) = AtRest /\ ShownWorker(cycles[c]) = AtRest
  <2>1. r.at = "claiming"
    BY <1>1 DEF Fresh
  <2> QED
    BY <1>2, <2>1, ShownPlaces DEF Running
<1> QED
  BY <1>2, <1>3, OneShows, SameShown

LEMMA TickShowsNothing ==
  ASSUME IInv, Tick
  PROVE  UNCHANGED <<agent, Shown>>
<1>1. ASSUME NEW d \in Slots PROVE ShownWorker(cycles'[d]) = ShownWorker(cycles[d])
  <2>1. cycles[d] \in Cycle /\ cycles'[d] = Elapsed(cycles[d])
    BY DEF IInv, TypeOK, Tick
  <2>2. /\ cycles'[d].at = cycles[d].at /\ cycles'[d].asked = cycles[d].asked
        /\ cycles'[d].sent = cycles[d].sent
    BY <2>1, ElapsedFacts
  <2> QED
    BY <2>2 DEF ShownWorker, PhaseOf, CallOf
<1>2. Shown' = [d \in Slots |-> ShownWorker(cycles'[d])]
  BY DEF Shown, ShownWorker, PhaseOf, CallOf
<1> QED
  BY <1>1, <1>2 DEF Shown, Tick

(* The service, statement by statement, is one of the workers: of its      *)
(* cycle a worker on the queue takes no step that is missing here.         *)
THEOREM ServiceIsAWorker == Spec => CyclesAreWorkers
<1>1. Init => Worker!CycleInit
  <2> SUFFICES ASSUME Init PROVE Shown = [c \in Slots |-> Worker!Idle]
    BY DEF Worker!CycleInit
  <2>1. ShownWorker(Fresh) = AtRest
    BY ShownPlaces DEF Fresh
  <2> QED
    BY <2>1 DEF Init, Shown, Worker!Idle, AtRest
<1>2. IInv /\ [Next]_vars => [Worker!CycleNext /\ UNCHANGED agent]_<<agent, Shown>>
  <2> SUFFICES ASSUME IInv, [Next]_vars
               PROVE  (Worker!CycleNext /\ UNCHANGED agent) \/ UNCHANGED <<agent, Shown>>
    OBVIOUS
  <2>1. ASSUME NEW c \in Slots, TimerTick(c) PROVE UNCHANGED <<agent, Shown>>
    BY <2>1, TimerTickShowsNothing
  <2>2. ASSUME NEW c \in Slots, CycleStep(c)
        PROVE  (Worker!CycleNext /\ UNCHANGED agent) \/ UNCHANGED <<agent, Shown>>
    <3>1. UNCHANGED agent
      BY <2>2 DEF CycleStep
    <3>2. PICK r \in Cycle : Steps(c, r)
      BY <2>2, CycleStepInOrder DEF InOrder
    <3> QED
      BY <3>1, <3>2, StepsAreWorkerSteps
  <2>3. CASE Stop \/ UNCHANGED vars
    <3>1. UNCHANGED <<agent, cycles>>
      BY <2>3 DEF Stop, vars
    <3> QED
      BY <3>1 DEF Shown, ShownWorker, PhaseOf, CallOf
  <2>4. CASE Tick
    BY <2>4, TickShowsNothing
  <2> QED
    BY <2>1, <2>2, <2>3, <2>4 DEF Next
<1> QED
  BY <1>1, <1>2, Invariance, PTL DEF Spec, CyclesAreWorkers, Worker!CycleSpec
=============================================================================
