------------------------------ MODULE LeaseQueue ------------------------------
(***************************************************************************)
(* One agent's durable task queue, as the SQL commands in                  *)
(* supabase/migrations implement it.  Three queues have this shape:        *)
(* research (competitor_analyst), reel_analysis (reel_analyst) and         *)
(* content_calendar (content_creator).  The lines in PROJECT.json are      *)
(* those of the research queue; the other two are the same commands on     *)
(* tables of their own.                                                    *)
(*                                                                         *)
(* Every command first writes the tenant's row, so commands are serialised *)
(* by that row lock and each one is a single action here.  A command that  *)
(* raises rolls back and is no step at all: its condition is the missing   *)
(* guard.  The callers are not modelled: any attempt ever issued may be    *)
(* completed or failed by its worker at any later moment, however late,    *)
(* and any number of times.                                                *)
(***************************************************************************)
EXTENDS Naturals, Sequences

CONSTANTS
  Tasks,        \* identities of task rows
  Users,        \* identities of members
  NoUser,       \* the requester of a task row that does not exist
  Digests,      \* digests of the payloads a completion may carry
  NoOutcome,    \* the outcome of a task that has none
  Codes,        \* error codes in play
  Stamps,       \* values of created_at
  MaxAttempts,  \* attempt_number between 1 and 3
  Lease         \* expires_at - issued_at, in ticks of the clock

VARIABLES
  tenantActive, \* tenants.status = 'active'
  members,      \* users with an active owner or operator membership
  requester,    \* requester_id of each task row
  created,      \* created_at of each task row
  run,          \* agent_runs.state of each task's run
  attempts,     \* the task's attempt rows in attempt_number order
  outcome       \* the task's outcome row

envVars == <<tenantActive, members>>
rowVars == <<requester, created>>
vars == <<tenantActive, members, requester, created, run, attempts, outcome>>

RunStates == {"none", "queued", "running", "failed", "succeeded"}
AttemptStates == {"running", "failed", "succeeded"}
TransientCodes == {"provider_failure", "timeout", "persistence_failure"}
NoCode == "none"

(* An attempt row.  expires_at is kept as the ticks left until it: the row *)
(* has expired (expires_at <= clock_timestamp()) when none is left.  The   *)
(* columns retryable and retry_requested_at are one field: a retry is not  *)
(* offered, offered, or requested.                                         *)
Attempt == [state : AttemptStates, left : 0 .. Lease, code : Codes \cup {NoCode},
            retry : {"no", "offered", "requested"}]
Outcome == [attempt : Nat \ {0}, digest : Digests]

ASSUME LeaseQueueAssumption ==
  /\ NoUser \notin Users
  /\ NoCode \notin Codes
  /\ NoOutcome \notin Digests \cup Outcome
  /\ {"timeout", "unauthorized"} \subseteq Codes
  /\ MaxAttempts \in Nat \ {0}
  /\ Lease \in Nat \ {0}
  /\ Stamps \subseteq Nat

TypeOK ==
  /\ tenantActive \in BOOLEAN
  /\ members \subseteq Users
  /\ requester \in [Tasks -> Users \cup {NoUser}]
  /\ created \in [Tasks -> Stamps \cup {0}]
  /\ run \in [Tasks -> RunStates]
  /\ attempts \in [Tasks -> Seq(Attempt)]
  /\ outcome \in [Tasks -> Outcome \cup {NoOutcome}]

-----------------------------------------------------------------------------
(* Reading the tables.                                                     *)

Last(t) == attempts[t][Len(attempts[t])]
Issued(t) == DOMAIN attempts[t]

LastRunning(t) == attempts[t] # <<>> /\ Last(t).state = "running"

\* An attempt its worker can still finish.
Live(t, n) == attempts[t][n].state = "running" /\ attempts[t][n].left > 0

Authorised(t) == requester[t] \in members

(* What the claim's SELECT finds: queued runs, and running runs that hold  *)
(* some expired running attempt.                                           *)
Claimable(t) ==
  \/ run[t] = "queued"
  \/ /\ run[t] = "running"
     /\ \E n \in Issued(t) : attempts[t][n].state = "running" /\ attempts[t][n].left = 0

(* ORDER BY created_at, id LIMIT 1.  Ids are random, so among rows with    *)
(* one created_at any may come first.                                      *)
Chosen(t) == Claimable(t) /\ \A u \in Tasks : Claimable(u) => created[t] <= created[u]

(* The rows a command writes.                                              *)
NewAttempt == [state |-> "running", left |-> Lease, code |-> NoCode, retry |-> "no"]
RefusedAttempt == [state |-> "failed", left |-> Lease, code |-> "unauthorized", retry |-> "no"]

OfferedIf(condition) == IF condition THEN "offered" ELSE "no"
FailedAttempt(a, n, c) ==
  [a EXCEPT !.state = "failed", !.code = c,
            !.retry = OfferedIf(n < MaxAttempts /\ c \in TransientCodes)]
TimedOutAttempt(a, n) ==
  [a EXCEPT !.state = "failed", !.code = "timeout", !.retry = OfferedIf(n < MaxAttempts)]
SucceededAttempt(a) == [a EXCEPT !.state = "succeeded"]

SetAttempt(t, n, row) == attempts' = [attempts EXCEPT ![t][n] = row]
AddAttempt(t, row) == attempts' = [attempts EXCEPT ![t] = Append(@, row)]
SetRun(t, s) == run' = [run EXCEPT ![t] = s]

-----------------------------------------------------------------------------
Init ==
  /\ tenantActive = TRUE
  /\ members = Users
  /\ requester = [t \in Tasks |-> NoUser]
  /\ created = [t \in Tasks |-> 0]
  /\ run = [t \in Tasks |-> "none"]
  /\ attempts = [t \in Tasks |-> <<>>]
  /\ outcome = [t \in Tasks |-> NoOutcome]

(* A task row and its queued run appear: the insert part of                *)
(* submit_research_brief, and of the fan-out triggers in the other queues. *)
(* created_at is the start of the inserting transaction, which need not be *)
(* the order in which the transactions got the tenant's lock.              *)
Enqueue(t, u, stamp) ==
  /\ tenantActive
  /\ u \in members
  /\ run[t] = "none"
  /\ requester' = [requester EXCEPT ![t] = u]
  /\ created' = [created EXCEPT ![t] = stamp]
  /\ SetRun(t, "queued")
  /\ UNCHANGED <<envVars, attempts, outcome>>

ClaimReapRequeues(t) ==   \* mutant: the queue retries a timeout on its own
  /\ tenantActive
  /\ Chosen(t)
  /\ LastRunning(t)
  /\ SetAttempt(t, Len(attempts[t]), TimedOutAttempt(Last(t), Len(attempts[t])))
  /\ SetRun(t, "queued")
  /\ UNCHANGED <<envVars, rowVars, outcome>>

(* claim_research_task, when the chosen task's last attempt ran out: the   *)
(* attempt times out, and this claim hands out nothing.                    *)
ClaimReap(t) ==
  /\ tenantActive
  /\ Chosen(t)
  /\ LastRunning(t)
  /\ SetAttempt(t, Len(attempts[t]), TimedOutAttempt(Last(t), Len(attempts[t])))
  /\ SetRun(t, "failed")
  /\ UNCHANGED <<envVars, rowVars, outcome>>

(* claim_research_task, when the requester's membership is gone: the       *)
(* attempt is spent without a lease.  Past the last attempt the command    *)
(* raises attempt_limit, here and below.                                   *)
ClaimRefuse(t) ==
  /\ tenantActive
  /\ Chosen(t)
  /\ ~ LastRunning(t)
  /\ Len(attempts[t]) < MaxAttempts
  /\ ~ Authorised(t)
  /\ AddAttempt(t, RefusedAttempt)
  /\ SetRun(t, "failed")
  /\ UNCHANGED <<envVars, rowVars, outcome>>

ClaimIssueOverRunning(t) ==   \* mutant: running runs are taken too, whatever their attempts
  /\ tenantActive
  /\ run[t] \in {"queued", "running"}
  /\ Len(attempts[t]) < MaxAttempts
  /\ Authorised(t)
  /\ AddAttempt(t, NewAttempt)
  /\ SetRun(t, "running")
  /\ UNCHANGED <<envVars, rowVars, outcome>>

(* claim_research_task, when it hands out a lease.                         *)
ClaimIssue(t) ==
  /\ tenantActive
  /\ Chosen(t)
  /\ ~ LastRunning(t)
  /\ Len(attempts[t]) < MaxAttempts
  /\ Authorised(t)
  /\ AddAttempt(t, NewAttempt)
  /\ SetRun(t, "running")
  /\ UNCHANGED <<envVars, rowVars, outcome>>

Claim(t) == ClaimReap(t) \/ ClaimRefuse(t) \/ ClaimIssue(t)

(* fail_research_attempt.  It asks neither for an active tenant nor for an *)
(* active requester.  Reporting the code already recorded is answered      *)
(* without a change.                                                       *)
Fail(t, n, c) ==
  /\ Live(t, n)
  /\ run[t] = "running"
  /\ SetAttempt(t, n, FailedAttempt(attempts[t][n], n, c))
  /\ SetRun(t, "failed")
  /\ UNCHANGED <<envVars, rowVars, outcome>>

CompleteUnauthorised(t, n, d) ==   \* mutant: authority is checked at the claim only
  /\ outcome[t] = NoOutcome
  /\ Live(t, n)
  /\ n = Len(attempts[t])
  /\ run[t] = "running"
  /\ outcome' = [outcome EXCEPT ![t] = [attempt |-> n, digest |-> d]]
  /\ SetAttempt(t, n, SucceededAttempt(attempts[t][n]))
  /\ SetRun(t, "succeeded")
  /\ UNCHANGED <<envVars, rowVars>>

(* complete_research_attempt with a payload that validates.  When the      *)
(* attempt already has an outcome the command answers without a change,    *)
(* with success or with idempotency_conflict.  The unique key on           *)
(* (tenant_id, task_id) refuses a second outcome.                          *)
Complete(t, n, d) ==
  /\ tenantActive
  /\ Authorised(t)
  /\ outcome[t] = NoOutcome
  /\ Live(t, n)
  /\ n = Len(attempts[t])
  /\ run[t] = "running"
  /\ outcome' = [outcome EXCEPT ![t] = [attempt |-> n, digest |-> d]]
  /\ SetAttempt(t, n, SucceededAttempt(attempts[t][n]))
  /\ SetRun(t, "succeeded")
  /\ UNCHANGED <<envVars, rowVars>>

(* retry_research_attempt, by the member who submitted the task, in a      *)
(* session strong enough for the role.  A second request for one attempt   *)
(* is answered without a change.                                           *)
Retry(t, n) ==
  /\ tenantActive
  /\ Authorised(t)
  /\ attempts[t][n].state = "failed" /\ attempts[t][n].retry = "offered"
  /\ n < MaxAttempts
  /\ run[t] = "failed"
  /\ SetAttempt(t, n, [attempts[t][n] EXCEPT !.retry = "requested"])
  /\ SetRun(t, "queued")
  /\ UNCHANGED <<envVars, rowVars, outcome>>

(* The platform suspends or reactivates the tenant; an owner adds, revokes *)
(* or restores members.  Both are writes of rows this queue only reads.    *)
SetTenant ==
  /\ tenantActive' = ~ tenantActive
  /\ UNCHANGED <<members, rowVars, run, attempts, outcome>>
SetMember(u) ==
  /\ members' = IF u \in members THEN members \ {u} ELSE members \cup {u}
  /\ UNCHANGED <<tenantActive, rowVars, run, attempts, outcome>>

(* Time passes for every lease that is still running.                      *)
Aged(a) == IF a.state = "running" /\ a.left > 0 THEN [a EXCEPT !.left = @ - 1] ELSE a
Age == attempts' = [t \in Tasks |-> [n \in Issued(t) |-> Aged(attempts[t][n])]]
SomeLive == \E t \in Tasks : \E n \in Issued(t) : Live(t, n)
Tick ==
  /\ SomeLive
  /\ Age
  /\ UNCHANGED <<envVars, rowVars, run, outcome>>

Next ==
  \/ \E t \in Tasks, u \in Users, s \in Stamps : Enqueue(t, u, s)
  \/ \E t \in Tasks : Claim(t)
  \/ \E t \in Tasks : \E n \in Issued(t) : \E c \in Codes : Fail(t, n, c)
  \/ \E t \in Tasks : \E n \in Issued(t) : \E d \in Digests : Complete(t, n, d)
  \/ \E t \in Tasks : \E n \in Issued(t) : Retry(t, n)
  \/ SetTenant
  \/ \E u \in Users : SetMember(u)
  \/ Tick

Spec == Init /\ [][Next]_vars

-----------------------------------------------------------------------------
(* Safety.                                                                 *)

(* Every attempt before the last one failed for a transient reason and was *)
(* given up by exactly one human retry.  Nothing else opens a new attempt, *)
(* so an attempt is never run twice and none is skipped.                   *)
RetriesPayForAttempts ==
  \A t \in Tasks : \A n \in Issued(t) :
    n < Len(attempts[t]) => /\ attempts[t][n].state = "failed"
                            /\ attempts[t][n].code \in TransientCodes
                            /\ attempts[t][n].retry = "requested"

(* The run row and the last attempt row, which different commands update,  *)
(* always tell the same story, also when leases expire and late workers    *)
(* report.                                                                 *)
RunMatchesAttempts ==
  \A t \in Tasks :
    /\ run[t] = "none" => attempts[t] = <<>>
    /\ run[t] = "queued" => attempts[t] = <<>> \/ Last(t).retry = "requested"
    /\ run[t] = "running" => LastRunning(t)
    /\ run[t] = "failed" => /\ attempts[t] # <<>>
                           /\ Last(t).state = "failed"
                           /\ Last(t).retry # "requested"
    /\ run[t] = "succeeded" => attempts[t] # <<>> /\ Last(t).state = "succeeded"

(* A queued run always has an attempt left, so the claim never raises      *)
(* attempt_limit.  If it could, that run would stay the oldest claimable   *)
(* one and block every run behind it.                                      *)
NoPoisonedHead == \A t \in Tasks : run[t] = "queued" => Len(attempts[t]) < MaxAttempts

(* A task has an outcome exactly when its run succeeded, and the outcome   *)
(* is the work of its last attempt, the only one that succeeded.           *)
OneWinner ==
  \A t \in Tasks :
    /\ (outcome[t] # NoOutcome) <=> (run[t] = "succeeded")
    /\ outcome[t] # NoOutcome => outcome[t].attempt = Len(attempts[t])
    /\ \A n \in Issued(t) :
         attempts[t][n].state = "succeeded" => outcome[t] # NoOutcome /\ n = outcome[t].attempt

(* No command can trip a CHECK of the attempt table, whatever late calls   *)
(* it serves: at most MaxAttempts rows, a code exactly on failed rows, and *)
(* a retry only of a transient failure with an attempt left, so a retry    *)
(* the page offers is one the queue can honour.                            *)
AttemptRowsPassChecks ==
  \A t \in Tasks :
    /\ Len(attempts[t]) <= MaxAttempts
    /\ \A n \in Issued(t) :
         LET a == attempts[t][n] IN
           /\ (a.state = "failed") <=> (a.code # NoCode)
           /\ a.retry # "no" => /\ a.state = "failed"
                               /\ a.code \in TransientCodes
                               /\ n < MaxAttempts

(* What a step may never do to finished work: an attempt row that has      *)
(* failed or succeeded keeps its verdict, its code and its retryability,   *)
(* a consumed retry stays consumed and no row disappears.                  *)
KeepsVerdict(old, new) ==
  /\ old.state # "running" => /\ new.state = old.state
                              /\ new.code = old.code
                              /\ old.retry = "no" => new.retry = "no"
  /\ old.retry = "requested" => new.retry = "requested"
KeepsVerdicts ==
  \A t \in Tasks : \A n \in Issued(t) :
    n \in Issued(t)' /\ KeepsVerdict(attempts[t][n], attempts'[t][n])
FinishedIsFinal == [][KeepsVerdicts]_vars

(* While the requester's membership is gone or the tenant is not active,   *)
(* a task gains neither a lease nor an outcome, whatever was in flight     *)
(* when it was revoked.                                                    *)
GainsNothingUnauthorised ==
  \A t \in Tasks :
    (~ tenantActive \/ ~ Authorised(t)) =>
      /\ outcome'[t] = outcome[t]
      /\ \A n \in Issued(t)' : attempts'[t][n].state = "running" => n \in Issued(t)
RevocationIsImmediate == [][GainsNothingUnauthorised]_vars

(* Late, repeated and abandoned calls included, the queue is a fenced      *)
(* single-value register per task: see FencedResult.                       *)
Fenced == INSTANCE FencedResult WITH
  Values <- Digests,
  NoValue <- NoOutcome,
  MaxTokens <- MaxAttempts,
  token <- [t \in Tasks |-> Len(attempts[t])],
  open <- {t \in Tasks : \E n \in Issued(t) : attempts[t][n].state = "running"},
  value <- [t \in Tasks |-> IF outcome[t] = NoOutcome THEN NoOutcome ELSE outcome[t].digest]

ImplementsFencedResult == Fenced!Spec
=============================================================================
