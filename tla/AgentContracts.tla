---------------------------- MODULE AgentContracts ----------------------------
(***************************************************************************)
(* What the three executors and the agents behind them agree on: the       *)
(* failure codes a worker may send, the error codes an agent may answer    *)
(* with, and which artifacts the host accepts (packages/core/contracts).   *)
(* Ids, texts and hashes are reduced to whether they match.                *)
(***************************************************************************)
CONSTANT Items   \* what a task may ask for: sources, modalities, platforms

Agents == {"research", "reel", "calendar"}

-----------------------------------------------------------------------------
(* Each contract has one code of its own.                                  *)
OwnCode(agent) ==
  CASE agent = "research" -> "uninspected_source"
    [] agent = "reel"     -> "uninspected_modality"
    [] agent = "calendar" -> "unrequested_platform"

SharedCodes == {"provider_failure", "timeout", "invalid_contract", "unauthorized", "persistence_failure"}

ResearchCodes == SharedCodes \cup {OwnCode("research")}
ReelCodes == SharedCodes \cup {OwnCode("reel")}
CalendarCodes == SharedCodes \cup {OwnCode("calendar")}

\* The literal set in the worker, kept in step with the database by hand.
FailureCodes(agent) ==
  CASE agent = "research" -> ResearchCodes
    [] agent = "reel"     -> ReelCodes
    [] agent = "calendar" -> CalendarCodes

\* What fail_research_attempt and its two counterparts accept, and retry.
AcceptedCodes(agent) ==
  {"provider_failure", "timeout", "invalid_contract", "unauthorized", "persistence_failure",
   OwnCode(agent)}
RetryableCodes == {"provider_failure", "timeout", "persistence_failure"}

\* A lapsed signing window or a replayed request: sending it again cannot help.
ProtocolDefects == {"expired", "stale_attempt"}

\* Error codes on the wire; an agent may also send something else altogether.
WireCodes(agent) ==
  SharedCodes \cup ProtocolDefects \cup {OwnCode(agent), "idempotency_conflict", "no code"}

FailureCode(agent, code) ==
  IF code \in FailureCodes(agent) THEN code
  ELSE IF code \in ProtocolDefects THEN "invalid_contract"
  ELSE "provider_failure"

-----------------------------------------------------------------------------
(* A task as its executor sees it.  Of a research brief every source is    *)
(* supplied; a reel brief names the modalities it supplies among those it  *)
(* requests; a calendar brief requests platforms.                          *)
ResearchTask(wanted, supplied) == wanted # {} /\ supplied = wanted
ReelTask(wanted, supplied) == wanted # {} /\ supplied \subseteq wanted
CalendarTask(wanted, supplied) == wanted # {} /\ supplied = wanted
IsTask(agent, wanted, supplied) ==
  CASE agent = "research" -> ResearchTask(wanted, supplied)
    [] agent = "reel"     -> ReelTask(wanted, supplied)
    [] agent = "calendar" -> CalendarTask(wanted, supplied)

(* bound: every id and the source revision are those of the task.          *)
(* shaped: it parses; seven entries on seven days for a calendar.          *)
(* claims: sources cited, modalities inspected, platforms of the entries.  *)
(* missing: the modalities it declares unavailable.                        *)
Artifacts == [bound : BOOLEAN, shaped : BOOLEAN, claims : SUBSET Items, missing : SUBSET Items]

ResearchArtifactProblemTrusting(a, wanted, seen) ==   \* mutant: receipts are not compared
  IF a.bound /\ a.shaped /\ a.claims # {} /\ a.claims \subseteq wanted THEN "none" ELSE "invalid_contract"
(* Every piece of evidence names a source of the brief and the receipt the *)
(* host issued when it inspected that source.                              *)
ResearchArtifactProblem(a, wanted, seen) ==
  IF a.bound /\ a.shaped /\ a.claims # {} /\ a.claims \subseteq wanted \cap seen
  THEN "none" ELSE "invalid_contract"

(* An inspected modality was supplied, and what was requested is either    *)
(* inspected or declared unavailable, never both and never neither.        *)
ReelArtifactProblem(a, wanted, supplied) ==
  IF a.bound /\ a.shaped /\ a.claims \subseteq supplied /\ a.missing = wanted \ a.claims
  THEN "none" ELSE "invalid_contract"

CalendarArtifactProblem(a, wanted) ==
  IF ~ (a.bound /\ a.shaped) \/ a.claims = {} THEN "invalid_contract"
  ELSE IF a.claims \subseteq wanted THEN "none" ELSE "unrequested_platform"

ArtifactProblem(agent, a, wanted, supplied, seen) ==
  CASE agent = "research" -> ResearchArtifactProblem(a, wanted, seen)
    [] agent = "reel"     -> ReelArtifactProblem(a, wanted, supplied)
    [] agent = "calendar" -> CalendarArtifactProblem(a, wanted)

\* The artifact the host builds itself when a reel task supplies no media.
UnavailableMedia(wanted) == [bound |-> TRUE, shaped |-> TRUE, claims |-> {}, missing |-> wanted]
=============================================================================
