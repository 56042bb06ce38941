---------------------------- MODULE UsageAllowance ----------------------------
(***************************************************************************)
(* Monthly token allowances (20260920100000 to 20260920170000): an owner   *)
(* sets a member's limit, finished work records what it consumed, and      *)
(* submit_research_brief refuses a new brief once the month's consumption  *)
(* has reached the limit.                                                  *)
(*                                                                         *)
(* Commands run at READ COMMITTED, one action per statement that reads or  *)
(* writes what others write.  A submission holds the tenant row from its   *)
(* second statement on, as membership changes do (see Membership); the     *)
(* allowance and metering commands do not, so they and the clock move      *)
(* between the statements of a submission.                                 *)
(*                                                                         *)
(* A brief is named by its requester and idempotency key, and has one      *)
(* metered attempt.                                                        *)
(***************************************************************************)
EXTENDS Naturals, FiniteSets

CONSTANTS
  Members, ClientKeys, Contents,
  Limits,       \* token limits an owner may set
  Tokens,       \* figures a provider may report
  Sessions,
  MaxMonth,     \* the clock stops after this month
  NoTask, NoLimit, NoUsage, Unreported, Nobody

ASSUME UsageAllowanceAssumption ==
  /\ Limits \subseteq Nat \ {0}
  /\ Tokens \subseteq Nat
  /\ MaxMonth \in Nat
  /\ NoTask \notin Contents /\ NoLimit \notin Limits /\ Unreported \notin Tokens
  /\ Nobody \notin Sessions

VARIABLES
  tenantActive,
  role,      \* each member's active role, or "gone"
  month,     \* clock_timestamp(), truncated
  limits,    \* usage_allowances: a member's limit for a month
  tasks,     \* agent_tasks: the content submitted under a member's key
  usage,     \* usage_records of a task
  holder,    \* the session that holds the tenant row
  command,   \* what each session is running
  spent      \* history: submissions that began with nothing left this month

allowanceVars == <<tenantActive, role, month, limits, tasks, usage, holder, command, spent>>
tables == <<tenantActive, role, month, limits, tasks, usage>>

-----------------------------------------------------------------------------
Months == 0..MaxMonth
UsageRow == [month : Months, tokens : Tokens \cup {Unreported}]

Idle == [step |-> "idle"]
Submission == [step : {"limit", "sum", "insert"}, member : Members, key : ClientKeys, content : Contents,
               limit : Limits \cup {NoLimit}]
Allowance == [step : {"allow"}, member : Members, limit : Limits, period : Months]

TypeOK ==
  /\ tenantActive \in BOOLEAN
  /\ role \in [Members -> {"owner", "operator", "gone"}]
  /\ month \in Months
  /\ limits \in [Members -> [Months -> Limits \cup {NoLimit}]]
  /\ tasks \in [Members -> [ClientKeys -> Contents \cup {NoTask}]]
  /\ usage \in [Members -> [ClientKeys -> UsageRow \cup {NoUsage}]]
  /\ holder \in Sessions \cup {Nobody}
  /\ command \in [Sessions -> {Idle} \cup Submission \cup Allowance]
  /\ spent \subseteq Sessions

\* The month's substantiated usage: rows without a figure are not in the sum.
Reported(m, mo) ==
  {k \in ClientKeys : usage[m][k] # NoUsage /\ usage[m][k].month = mo /\ usage[m][k].tokens # Unreported}
\* Their sum: each row stands for as many tokens as it reports.
ConsumedTokens(m, mo) == UNION {{k} \X (1..usage[m][k].tokens) : k \in Reported(m, mo)}
Consumed(m, mo) == Cardinality(ConsumedTokens(m, mo))

UsedUp(m, limit) == Consumed(m, month) >= limit
NothingLeft(m) == limits[m][month] # NoLimit /\ UsedUp(m, limits[m][month])

Does(s, c) == command' = [command EXCEPT ![s] = c]
Release(s) ==
  /\ Does(s, Idle)
  /\ holder' = IF holder = s THEN Nobody ELSE holder
  /\ spent' = spent \ {s}

AllowanceInit ==
  /\ tenantActive = TRUE
  /\ \E o \in Members : role = [m \in Members |-> IF m = o THEN "owner" ELSE "operator"]
  /\ month = 0
  /\ limits = [m \in Members |-> [mo \in Months |-> NoLimit]]
  /\ tasks = [m \in Members |-> [k \in ClientKeys |-> NoTask]]
  /\ usage = [m \in Members |-> [k \in ClientKeys |-> NoUsage]]
  /\ holder = Nobody
  /\ command = [s \in Sessions |-> Idle]
  /\ spent = {}

-----------------------------------------------------------------------------
(* submit_research_brief.                                                  *)

NewSubmission(m, k, c) ==
  [step |-> "limit", member |-> m, key |-> k, content |-> c, limit |-> NoLimit]
MarkSpent(s, m) == spent' = IF NothingLeft(m) THEN spent \cup {s} ELSE spent

SubmitBeginReadOnly(s, m, k, c) ==   \* mutant: the tenant row is read, not written
  /\ command[s] = Idle /\ holder = Nobody
  /\ tenantActive /\ role[m] # "gone"
  /\ tasks[m][k] = NoTask
  /\ Does(s, NewSubmission(m, k, c))
  /\ MarkSpent(s, m)
  /\ UNCHANGED <<tables, holder>>
SubmitBeginGatesReplays(s, m, k, c) ==   \* mutant: the allowance is checked before the key
  /\ command[s] = Idle /\ holder = Nobody
  /\ tenantActive /\ role[m] # "gone"
  /\ Does(s, NewSubmission(m, k, c))
  /\ holder' = s
  /\ MarkSpent(s, m)
  /\ UNCHANGED tables
(* Takes the tenant row of an active tenant, reads the membership and      *)
(* looks the key up.  A key that is known is answered here, with the       *)
(* receipt or a conflict, and changes nothing.                             *)
SubmitBegin(s, m, k, c) ==
  /\ command[s] = Idle /\ holder = Nobody
  /\ tenantActive /\ role[m] # "gone"
  /\ tasks[m][k] = NoTask
  /\ Does(s, NewSubmission(m, k, c))
  /\ holder' = s
  /\ MarkSpent(s, m)
  /\ UNCHANGED tables

\* Reads this month's limit; a member without one is not limited.
SubmitLimit(s) ==
  LET c == command[s] IN
  /\ c.step = "limit"
  /\ Does(s, [c EXCEPT !.limit = limits[c.member][month],
                       !.step = IF limits[c.member][month] = NoLimit THEN "insert" ELSE "sum"])
  /\ UNCHANGED <<tables, holder, spent>>

SubmitSumPast(s) ==   \* mutant: refuses only past the limit
  LET c == command[s] IN
  /\ c.step = "sum"
  /\ IF Consumed(c.member, month) > c.limit
       THEN Release(s)
       ELSE Does(s, [c EXCEPT !.step = "insert"]) /\ UNCHANGED <<holder, spent>>
  /\ UNCHANGED tables
\* Sums this month's consumption, by a second reading of the clock.
SubmitSum(s) ==
  LET c == command[s] IN
  /\ c.step = "sum"
  /\ IF UsedUp(c.member, c.limit)
       THEN Release(s)
       ELSE Does(s, [c EXCEPT !.step = "insert"]) /\ UNCHANGED <<holder, spent>>
  /\ UNCHANGED tables

\* Inserts the task and everything around it, and commits.
SubmitInsert(s) ==
  LET c == command[s] IN
  /\ c.step = "insert"
  /\ tasks' = [tasks EXCEPT ![c.member][c.key] = c.content]
  /\ Release(s)
  /\ UNCHANGED <<tenantActive, role, month, limits, usage>>

\* The connection is lost, or a constraint refuses the command.
Abort(s) ==
  /\ command[s] # Idle
  /\ Release(s)
  /\ UNCHANGED tables

-----------------------------------------------------------------------------
(* set_usage_allowance: the wrapper derives the period, the command checks *)
(* caller and member, then writes, all without the tenant row.             *)
AllowanceBegin(s, owner, m, limit) ==
  /\ command[s] = Idle
  /\ role[owner] = "owner" /\ role[m] # "gone"
  /\ Does(s, [step |-> "allow", member |-> m, limit |-> limit, period |-> month])
  /\ UNCHANGED <<tables, holder, spent>>
AllowanceWrite(s) ==
  LET c == command[s] IN
  /\ c.step = "allow"
  /\ limits' = [limits EXCEPT ![c.member][c.period] = c.limit]
  /\ Does(s, Idle)
  /\ UNCHANGED <<tenantActive, role, month, tasks, usage, holder>>
  /\ spent' = IF c.period = month /\ ~ UsedUp(c.member, c.limit)
                THEN {o \in spent : command[o].member # c.member} ELSE spent

(* record_agent_usage, called once by the worker that finished the attempt.*)
(* created_at is the start of its transaction, which may lie before the    *)
(* turn of the month.                                                      *)
RecordUsage(m, k, began, tokens) ==
  /\ tasks[m][k] # NoTask /\ usage[m][k] = NoUsage
  /\ began <= month /\ month <= began + 1
  /\ usage' = [usage EXCEPT ![m][k] = [month |-> began, tokens |-> tokens]]
  /\ UNCHANGED <<tenantActive, role, month, limits, tasks, holder, command, spent>>

-----------------------------------------------------------------------------
(* A membership or tenant transaction, which holds the tenant row from its *)
(* first write to its end (see Membership, whose owner rule it obeys).     *)
SetRole(m, r) ==
  /\ holder = Nobody
  /\ role' = [role EXCEPT ![m] = r]
  /\ \E o \in Members : role'[o] = "owner"
  /\ UNCHANGED <<tenantActive, month, limits, tasks, usage, holder, command, spent>>
SetTenant ==
  /\ holder = Nobody
  /\ tenantActive' = ~ tenantActive
  /\ UNCHANGED <<role, month, limits, tasks, usage, holder, command, spent>>

NextMonth ==
  /\ month < MaxMonth
  /\ month' = month + 1
  /\ spent' = {}
  /\ UNCHANGED <<tenantActive, role, limits, tasks, usage, holder, command>>

AllowanceNext ==
  \/ \E s \in Sessions :
       \/ \E m \in Members, k \in ClientKeys, c \in Contents : SubmitBegin(s, m, k, c)
       \/ SubmitLimit(s)
       \/ SubmitSum(s)
       \/ SubmitInsert(s)
       \/ Abort(s)
       \/ \E o, m \in Members, l \in Limits : AllowanceBegin(s, o, m, l)
       \/ AllowanceWrite(s)
  \/ \E m \in Members, k \in ClientKeys, b \in Months, t \in Tokens \cup {Unreported} : RecordUsage(m, k, b, t)
  \/ \E m \in Members, r \in {"owner", "operator", "gone"} : SetRole(m, r)
  \/ SetTenant
  \/ NextMonth

AllowanceSpec == AllowanceInit /\ [][AllowanceNext]_allowanceVars

-----------------------------------------------------------------------------
(* "This can never re-block a task the requester already paid for": what   *)
(* reaches the allowance check, and the insert behind it, is a key that    *)
(* still has no task, although other sessions may send the same key at the *)
(* same time.  So a replay is never refused as exhausted and the insert    *)
(* never trips the unique key.                                             *)
GatedBriefsAreNew ==
  \A s \in Sessions :
    LET c == command[s] IN
    c.step \in {"limit", "sum", "insert"} => tasks[c.member][c.key] = NoTask

(* A submission that begins with nothing left does not reach its insert,   *)
(* unless the limit is raised or the month turns while it runs.            *)
ExhaustedGetsNothing == \A s \in spent : command[s].step # "insert"

(* "Revocation cannot race creation": a task is only ever created for a    *)
(* member of an active tenant at that very moment, however long ago the    *)
(* command looked.                                                         *)
CreatedForMembers ==
  \A m \in Members, k \in ClientKeys :
    tasks'[m][k] # tasks[m][k] => tenantActive /\ role[m] # "gone"
RevocationCannotRaceCreation == [][CreatedForMembers]_allowanceVars
=============================================================================
