--------------------------- MODULE LeaseQueueProofs ---------------------------
(***************************************************************************)
(* Proofs about LeaseQueue for every set of tasks, users, codes and        *)
(* digests, every MaxAttempts and every lease length.                      *)
(***************************************************************************)
EXTENDS LeaseQueue, SequenceTheorems, TLAPS

-----------------------------------------------------------------------------
(* What the three ways of writing the attempt table do to it.              *)

(* Overwriting row n of task t changes that row alone.                     *)
LEMMA SetAttemptFacts ==
  ASSUME attempts \in [Tasks -> Seq(Attempt)],
         NEW t \in Tasks, NEW n \in Issued(t), NEW row \in Attempt,
         SetAttempt(t, n, row)
  PROVE  /\ attempts' \in [Tasks -> Seq(Attempt)]
         /\ \A u \in Tasks : u # t => attempts'[u] = attempts[u]
         /\ Len(attempts'[t]) = Len(attempts[t])
         /\ Issued(t)' = Issued(t)
         /\ \A m \in Issued(t) : attempts'[t][m] = IF m = n THEN row ELSE attempts[t][m]
<1>1. attempts[t] \in Seq(Attempt) /\ n \in 1 .. Len(attempts[t])
  BY DEF Issued
<1>2. attempts' = [attempts EXCEPT ![t] = [attempts[t] EXCEPT ![n] = row]]
  BY DEF SetAttempt
<1>3. /\ [attempts[t] EXCEPT ![n] = row] \in Seq(Attempt)
      /\ Len([attempts[t] EXCEPT ![n] = row]) = Len(attempts[t])
  BY <1>1, ExceptSeq
<1>4. attempts'[t] = [attempts[t] EXCEPT ![n] = row]
  BY <1>2
<1>5. attempts' \in [Tasks -> Seq(Attempt)]
  BY <1>2, <1>3
<1>6. \A m \in Issued(t) : attempts'[t][m] = IF m = n THEN row ELSE attempts[t][m]
  BY <1>1, <1>4 DEF Issued
<1>7. \A u \in Tasks : u # t => attempts'[u] = attempts[u]
  BY <1>2
<1>8. Issued(t)' = Issued(t)
  BY <1>1, <1>3, <1>4, <1>5 DEF Issued
<1> QED
  BY <1>3, <1>4, <1>5, <1>6, <1>7, <1>8

(* A new row of task t goes behind its rows and changes none of them.      *)
LEMMA AddAttemptFacts ==
  ASSUME attempts \in [Tasks -> Seq(Attempt)],
         NEW t \in Tasks, NEW row \in Attempt,
         AddAttempt(t, row)
  PROVE  /\ attempts' \in [Tasks -> Seq(Attempt)]
         /\ \A u \in Tasks : u # t => attempts'[u] = attempts[u]
         /\ Len(attempts'[t]) = Len(attempts[t]) + 1
         /\ Issued(t)' = Issued(t) \cup {Len(attempts[t]) + 1}
         /\ \A m \in Issued(t) : attempts'[t][m] = attempts[t][m]
         /\ attempts'[t][Len(attempts[t]) + 1] = row
<1>1. attempts[t] \in Seq(Attempt)
  OBVIOUS
<1>2. /\ attempts' = [attempts EXCEPT ![t] = Append(attempts[t], row)]
      /\ attempts'[t] = Append(attempts[t], row)
  BY DEF AddAttempt
<1>3. /\ Append(attempts[t], row) \in Seq(Attempt)
      /\ Len(Append(attempts[t], row)) = Len(attempts[t]) + 1
      /\ \A m \in 1 .. Len(attempts[t]) : Append(attempts[t], row)[m] = attempts[t][m]
      /\ Append(attempts[t], row)[Len(attempts[t]) + 1] = row
  BY <1>1, AppendProperties
<1>4. attempts' \in [Tasks -> Seq(Attempt)]
  BY <1>2, <1>3
<1>5. \A u \in Tasks : u # t => attempts'[u] = attempts[u]
  BY <1>2
<1>6. Issued(t)' = Issued(t) \cup {Len(attempts[t]) + 1}
  <2>1. Len(attempts[t]) \in Nat
    BY <1>1
  <2>2. Issued(t) = 1 .. Len(attempts[t])
    BY <1>1 DEF Issued
  <2>3. Issued(t)' = 1 .. (Len(attempts[t]) + 1)
    BY <1>2, <1>3, <1>4 DEF Issued
  <2> QED
    BY <2>1, <2>2, <2>3
<1> QED
  BY <1>1, <1>2, <1>3, <1>4, <1>5, <1>6 DEF Issued

(* A tick shortens running leases and changes nothing else of any row.     *)
LEMMA TickFacts ==
  ASSUME attempts \in [Tasks -> Seq(Attempt)], LeaseQueueAssumption, Tick
  PROVE  /\ attempts' \in [Tasks -> Seq(Attempt)]
         /\ \A u \in Tasks :
              /\ Len(attempts'[u]) = Len(attempts[u])
              /\ Issued(u)' = Issued(u)
              /\ \A m \in Issued(u) :
                   /\ attempts'[u][m].state = attempts[u][m].state
                   /\ attempts'[u][m].code = attempts[u][m].code
                   /\ attempts'[u][m].retry = attempts[u][m].retry
<1>1. ASSUME NEW a \in Attempt
      PROVE  /\ Aged(a) \in Attempt
             /\ Aged(a).state = a.state
             /\ Aged(a).code = a.code
             /\ Aged(a).retry = a.retry
  <2>1. CASE a.state = "running" /\ a.left > 0
    <3>1. Aged(a) = [a EXCEPT !.left = a.left - 1]
      BY <2>1 DEF Aged
    <3>2. a.left \in 0 .. Lease /\ a.left - 1 \in 0 .. Lease
      BY <2>1 DEF Attempt, LeaseQueueAssumption
    <3> QED
      BY <3>1, <3>2 DEF Attempt
  <2>2. CASE ~ (a.state = "running" /\ a.left > 0)
    BY <2>2 DEF Aged
  <2> QED
    BY <2>1, <2>2
<1>2. ASSUME NEW u \in Tasks
      PROVE  /\ attempts'[u] \in Seq(Attempt)
             /\ Len(attempts'[u]) = Len(attempts[u])
             /\ Issued(u)' = Issued(u)
             /\ \A m \in Issued(u) : attempts[u][m] \in Attempt /\ attempts'[u][m] = Aged(attempts[u][m])
  <2>1. attempts'[u] = [m \in 1 .. Len(attempts[u]) |-> Aged(attempts[u][m])]
    BY DEF Tick, Age, Issued
  <2>2. \A m \in 1 .. Len(attempts[u]) : attempts[u][m] \in Attempt
    OBVIOUS
  <2>3. Len(attempts[u]) \in Nat
    OBVIOUS
  <2>4. /\ attempts'[u] \in Seq(Attempt)
        /\ Len(attempts'[u]) = Len(attempts[u])
    BY <1>1, <2>1, <2>2, <2>3
  <2> QED
    BY <2>1, <2>2, <2>4 DEF Issued
<1>3. attempts' = [u \in Tasks |-> attempts'[u]]
  BY DEF Tick, Age
<1>4. attempts' \in [Tasks -> Seq(Attempt)]
  BY <1>2, <1>3
<1> QED
  BY <1>1, <1>2, <1>4

-----------------------------------------------------------------------------
(* The inductive invariant, task by task: the conjuncts of the invariants  *)
(* of LeaseQueue, which are inductive only together.  RunMatchesAttempts   *)
(* needs the history (RetriesPayForAttempts) to know that the attempt a    *)
(* late call names is the last one; the history needs the CHECKs to know   *)
(* that a retried row is a transient failure; NoPoisonedHead needs both.   *)
TaskInv(t) ==
  /\ Len(attempts[t]) <= MaxAttempts
  /\ \A n \in Issued(t) :
       /\ (attempts[t][n].state = "failed") <=> (attempts[t][n].code # NoCode)
       /\ attempts[t][n].retry # "no" => /\ attempts[t][n].state = "failed"
                                        /\ attempts[t][n].code \in TransientCodes
                                        /\ n < MaxAttempts
       /\ n < Len(attempts[t]) => attempts[t][n].retry = "requested"
       /\ attempts[t][n].state = "succeeded" => outcome[t] # NoOutcome /\ n = outcome[t].attempt
  /\ run[t] = "none" => attempts[t] = <<>>
  /\ run[t] = "queued" => attempts[t] = <<>> \/ Last(t).retry = "requested"
  /\ run[t] = "running" => LastRunning(t)
  /\ run[t] = "failed" => /\ attempts[t] # <<>>
                         /\ Last(t).state = "failed"
                         /\ Last(t).retry # "requested"
  /\ run[t] = "succeeded" => attempts[t] # <<>> /\ Last(t).state = "succeeded"
  /\ (outcome[t] # NoOutcome) <=> (run[t] = "succeeded")
  /\ outcome[t] # NoOutcome => outcome[t].attempt = Len(attempts[t])

IInv == TypeOK /\ \A t \in Tasks : TaskInv(t)

(* The last row exists and is a row, unless there is none.                 *)
LEMMA LastFacts ==
  ASSUME TypeOK, NEW t \in Tasks, attempts[t] # <<>>
  PROVE  /\ Len(attempts[t]) \in Nat \ {0}
         /\ Len(attempts[t]) \in Issued(t)
         /\ Last(t) \in Attempt
<1>1. attempts[t] \in Seq(Attempt)
  BY DEF TypeOK
<1>2. Len(attempts[t]) \in Nat \ {0}
  BY <1>1, EmptySeq
<1> QED
  BY <1>1, <1>2 DEF Issued, Last

(* A row whose retry was not requested can only be the last one.           *)
LEMMA OpenRowIsLast ==
  ASSUME IInv, NEW t \in Tasks, NEW n \in Issued(t), attempts[t][n].retry # "requested"
  PROVE  n = Len(attempts[t]) /\ attempts[t] # <<>> /\ attempts[t][n] = Last(t)
<1>1. attempts[t] \in Seq(Attempt)
  BY DEF IInv, TypeOK
<1>2. n \in 1 .. Len(attempts[t]) /\ Len(attempts[t]) \in Nat
  BY <1>1 DEF Issued
<1>3. ~ (n < Len(attempts[t]))
  BY DEF IInv, TaskInv
<1> QED
  BY <1>1, <1>2, <1>3 DEF Last

(* A queued run always has room for one more attempt.                      *)
LEMMA QueuedHasRoom ==
  ASSUME LeaseQueueAssumption, IInv, NEW t \in Tasks, run[t] = "queued"
  PROVE  Len(attempts[t]) < MaxAttempts /\ ~ LastRunning(t)
<1>1. CASE attempts[t] = <<>>
  BY <1>1, EmptySeq DEF LastRunning, LeaseQueueAssumption
<1>2. CASE attempts[t] # <<>>
  <2>1. Last(t).retry = "requested"
    BY <1>2 DEF IInv, TaskInv
  <2>2. Len(attempts[t]) \in Issued(t)
    BY <1>2, LastFacts DEF IInv
  <2>3. Last(t).state = "failed" /\ Len(attempts[t]) < MaxAttempts
    BY <2>1, <2>2 DEF IInv, TaskInv, Last
  <2> QED
    BY <2>3 DEF LastRunning
<1> QED
  BY <1>1, <1>2

(* The invariant of a task is about its own rows only.                     *)
LEMMA TaskInvFrame ==
  ASSUME NEW u \in Tasks, TaskInv(u),
         run'[u] = run[u], attempts'[u] = attempts[u], outcome'[u] = outcome[u]
  PROVE  TaskInv(u)'
BY DEF TaskInv, Issued, Last, LastRunning

THEOREM InitIInv == ASSUME LeaseQueueAssumption, Init PROVE IInv
<1>1. TypeOK
  BY DEF Init, TypeOK, RunStates
<1>2. ASSUME NEW t \in Tasks PROVE TaskInv(t)
  BY DEF Init, TaskInv, Issued, LeaseQueueAssumption
<1> QED
  BY <1>1, <1>2 DEF IInv

(* Each action of a task keeps the invariant: first the types, then the    *)
(* rows of that task, then, by the frame, those of every other task.       *)
LEMMA EnqueueIInv ==
  ASSUME LeaseQueueAssumption, IInv,
         NEW t \in Tasks, NEW u \in Users, NEW s \in Stamps, Enqueue(t, u, s)
  PROVE  IInv'
<1>1. TypeOK'
  BY DEF IInv, TypeOK, Enqueue, SetRun, RunStates, envVars
<1>2. TaskInv(t)'
  <2>1. /\ run[t] = "none" /\ run'[t] = "queued"
        /\ attempts' = attempts /\ outcome' = outcome
        /\ attempts[t] = <<>>
    BY DEF IInv, TypeOK, TaskInv, Enqueue, SetRun
  <2> QED
    BY <2>1 DEF IInv, TaskInv, Issued
<1>3. ASSUME NEW v \in Tasks, v # t PROVE TaskInv(v)'
  <2>1. run'[v] = run[v] /\ attempts'[v] = attempts[v] /\ outcome'[v] = outcome[v]
    BY <1>3 DEF IInv, TypeOK, Enqueue, SetRun
  <2> QED
    BY <2>1, TaskInvFrame DEF IInv
<1> QED
  BY <1>1, <1>2, <1>3 DEF IInv

(* The last, running attempt of a task fails: what a reaping claim and a   *)
(* failure report do.                                                      *)
LEMMA FailLastIInv ==
  ASSUME LeaseQueueAssumption, IInv, NEW t \in Tasks, LastRunning(t),
         NEW row \in Attempt, row.state = "failed", row.code # NoCode,
         row.retry \in {"no", "offered"},
         row.retry # "no" => row.code \in TransientCodes /\ Len(attempts[t]) < MaxAttempts,
         SetAttempt(t, Len(attempts[t]), row), SetRun(t, "failed"),
         UNCHANGED <<envVars, rowVars, outcome>>
  PROVE  IInv'
<1> DEFINE n == Len(attempts[t])
<1>1. /\ attempts[t] # <<>> /\ Last(t).state = "running" /\ Last(t) = attempts[t][n]
      /\ n \in Issued(t) /\ n \in Nat \ {0} /\ n <= MaxAttempts
  BY LastFacts DEF IInv, TaskInv, LastRunning, Last
<1>2. /\ attempts' \in [Tasks -> Seq(Attempt)]
      /\ \A v \in Tasks : v # t => attempts'[v] = attempts[v]
      /\ Len(attempts'[t]) = n
      /\ Issued(t)' = Issued(t)
      /\ \A m \in Issued(t) : attempts'[t][m] = IF m = n THEN row ELSE attempts[t][m]
  BY <1>1, SetAttemptFacts DEF IInv, TypeOK
<1>3. run' = [run EXCEPT ![t] = "failed"] /\ outcome' = outcome
  BY DEF SetRun
<1>4. TypeOK'
  BY <1>2, <1>3 DEF IInv, TypeOK, RunStates, envVars, rowVars
<1>5. TaskInv(t)'
  <2>1. outcome[t] = NoOutcome
    BY <1>1 DEF IInv, TaskInv
  <2>2. run'[t] = "failed" /\ outcome'[t] = outcome[t]
    BY <1>3 DEF IInv, TypeOK
  <2>3. attempts'[t] # <<>>
    BY <1>1, <1>2
  <2>4. Last(t)' = row
    BY <1>1, <1>2 DEF Last
  <2> QED
    BY <1>1, <1>2, <2>1, <2>2, <2>3, <2>4 DEF IInv, TaskInv
<1>6. ASSUME NEW v \in Tasks, v # t PROVE TaskInv(v)'
  BY <1>2, <1>3, <1>6, TaskInvFrame DEF IInv, TypeOK
<1> QED
  BY <1>4, <1>5, <1>6 DEF IInv

LEMMA ClaimReapIInv ==
  ASSUME LeaseQueueAssumption, IInv, NEW t \in Tasks, ClaimReap(t)
  PROVE  IInv'
<1> DEFINE row == TimedOutAttempt(Last(t), Len(attempts[t]))
<1>1. Last(t) \in Attempt /\ LastRunning(t)
  BY LastFacts DEF IInv, ClaimReap, LastRunning
<1>2. /\ row \in Attempt /\ row.state = "failed" /\ row.code = "timeout"
      /\ row.retry \in {"no", "offered"}
      /\ row.retry # "no" => Len(attempts[t]) < MaxAttempts
  BY <1>1 DEF TimedOutAttempt, OfferedIf, Attempt, AttemptStates, LeaseQueueAssumption
<1> QED
  BY <1>1, <1>2, FailLastIInv DEF ClaimReap, TransientCodes, LeaseQueueAssumption

LEMMA FailIInv ==
  ASSUME LeaseQueueAssumption, IInv,
         NEW t \in Tasks, NEW n \in Issued(t), NEW c \in Codes, Fail(t, n, c)
  PROVE  IInv'
<1> DEFINE row == FailedAttempt(attempts[t][n], n, c)
<1>1. attempts[t][n].retry # "requested"
  BY DEF IInv, TaskInv, Fail, Live
<1>2. n = Len(attempts[t]) /\ attempts[t] # <<>> /\ attempts[t][n] = Last(t)
  BY <1>1, OpenRowIsLast
<1>3. Last(t) \in Attempt /\ LastRunning(t)
  BY <1>2, LastFacts DEF IInv, LastRunning, Fail, Live
<1>4. /\ row \in Attempt /\ row.state = "failed" /\ row.code = c
      /\ row.retry \in {"no", "offered"}
      /\ row.retry # "no" => c \in TransientCodes /\ n < MaxAttempts
  BY <1>2, <1>3 DEF FailedAttempt, OfferedIf, Attempt, AttemptStates
<1> QED
  BY <1>2, <1>3, <1>4, FailLastIInv DEF Fail, LeaseQueueAssumption

(* A queued task gains a row: refused as it is made, or leased.            *)
LEMMA AddLastIInv ==
  ASSUME LeaseQueueAssumption, IInv, NEW t \in Tasks,
         run[t] = "queued", Len(attempts[t]) < MaxAttempts,
         NEW row \in Attempt, NEW state \in {"running", "failed"}, row.state = state,
         (state = "failed") <=> (row.code # NoCode), row.retry = "no",
         AddAttempt(t, row), SetRun(t, state),
         UNCHANGED <<envVars, rowVars, outcome>>
  PROVE  IInv'
<1> DEFINE n == Len(attempts[t])
<1>1. n \in Nat /\ Issued(t) = 1 .. n
  BY DEF IInv, TypeOK, Issued
<1>2. /\ attempts' \in [Tasks -> Seq(Attempt)]
      /\ \A v \in Tasks : v # t => attempts'[v] = attempts[v]
      /\ Len(attempts'[t]) = n + 1
      /\ Issued(t)' = Issued(t) \cup {n + 1}
      /\ \A m \in Issued(t) : attempts'[t][m] = attempts[t][m]
      /\ attempts'[t][n + 1] = row
  BY AddAttemptFacts DEF IInv, TypeOK
<1>3. run' = [run EXCEPT ![t] = state] /\ outcome' = outcome
  BY DEF SetRun
<1>4. TypeOK'
  BY <1>2, <1>3 DEF IInv, TypeOK, RunStates, envVars, rowVars
<1>5. TaskInv(t)'
  <2>1. outcome[t] = NoOutcome
    BY DEF IInv, TaskInv
  <2>2. run'[t] = state /\ outcome'[t] = outcome[t]
    BY <1>3 DEF IInv, TypeOK
  <2>3. attempts'[t] # <<>>
    BY <1>1, <1>2
  <2>4. Last(t)' = row
    BY <1>2 DEF Last
  <2>5. \A m \in Issued(t) : attempts[t][m].retry = "requested"
    <3>1. CASE attempts[t] = <<>>
      BY <1>1, <3>1
    <3>2. CASE attempts[t] # <<>>
      BY <1>1, <3>2 DEF IInv, TaskInv, Last
    <3> QED
      BY <3>1, <3>2
  <2>6. MaxAttempts \in Nat /\ n + 1 <= MaxAttempts
    BY <1>1 DEF LeaseQueueAssumption
  <2>7. \A m \in Issued(t)' :
          \/ m \in Issued(t) /\ m < n + 1 /\ attempts'[t][m] = attempts[t][m]
          \/ m = n + 1 /\ attempts'[t][m] = row
    BY <1>1, <1>2
  <2> QED
    BY <1>2, <2>1, <2>2, <2>3, <2>4, <2>5, <2>6, <2>7 DEF IInv, TaskInv, LastRunning
<1>6. ASSUME NEW v \in Tasks, v # t PROVE TaskInv(v)'
  BY <1>2, <1>3, <1>6, TaskInvFrame DEF IInv, TypeOK
<1> QED
  BY <1>4, <1>5, <1>6 DEF IInv

(* A claim chooses a queued run whenever the last attempt is not running.  *)
LEMMA ChosenIsQueued ==
  ASSUME IInv, NEW t \in Tasks, Chosen(t), ~ LastRunning(t)
  PROVE  run[t] = "queued"
BY DEF Chosen, Claimable, IInv, TaskInv

LEMMA ClaimRefuseIInv ==
  ASSUME LeaseQueueAssumption, IInv, NEW t \in Tasks, ClaimRefuse(t)
  PROVE  IInv'
<1>1. /\ RefusedAttempt \in Attempt /\ RefusedAttempt.state = "failed"
      /\ RefusedAttempt.code # NoCode /\ RefusedAttempt.retry = "no"
  BY DEF RefusedAttempt, Attempt, AttemptStates, LeaseQueueAssumption
<1>2. run[t] = "queued"
  BY ChosenIsQueued DEF ClaimRefuse
<1> QED
  BY <1>1, <1>2, AddLastIInv DEF ClaimRefuse

LEMMA ClaimIssueIInv ==
  ASSUME LeaseQueueAssumption, IInv, NEW t \in Tasks, ClaimIssue(t)
  PROVE  IInv'
<1>1. /\ NewAttempt \in Attempt /\ NewAttempt.state = "running"
      /\ NewAttempt.code = NoCode /\ NewAttempt.retry = "no"
  BY DEF NewAttempt, Attempt, AttemptStates, LeaseQueueAssumption
<1>2. run[t] = "queued"
  BY ChosenIsQueued DEF ClaimIssue
<1> QED
  BY <1>1, <1>2, AddLastIInv DEF ClaimIssue

LEMMA CompleteIInv ==
  ASSUME LeaseQueueAssumption, IInv,
         NEW t \in Tasks, NEW n \in Issued(t), NEW d \in Digests, Complete(t, n, d)
  PROVE  IInv'
<1> DEFINE row == SucceededAttempt(attempts[t][n])
           result == [attempt |-> n, digest |-> d]
<1>1. /\ n = Len(attempts[t]) /\ attempts[t] # <<>> /\ attempts[t][n] = Last(t)
      /\ n \in Nat \ {0} /\ n <= MaxAttempts /\ Last(t) \in Attempt /\ Last(t).state = "running"
  BY OpenRowIsLast, LastFacts DEF IInv, TaskInv, Complete, Live, Last
<1>2. /\ row \in Attempt /\ row.state = "succeeded" /\ row.code = Last(t).code
      /\ row.retry = Last(t).retry
  BY <1>1 DEF SucceededAttempt, Attempt, AttemptStates
<1>3. /\ attempts' \in [Tasks -> Seq(Attempt)]
      /\ \A v \in Tasks : v # t => attempts'[v] = attempts[v]
      /\ Len(attempts'[t]) = n
      /\ Issued(t)' = Issued(t)
      /\ \A m \in Issued(t) : attempts'[t][m] = IF m = n THEN row ELSE attempts[t][m]
  BY <1>1, <1>2, SetAttemptFacts DEF IInv, TypeOK, Complete
<1>4. /\ run' = [run EXCEPT ![t] = "succeeded"]
      /\ outcome' = [outcome EXCEPT ![t] = result]
      /\ result \in Outcome /\ result # NoOutcome /\ result.attempt = n
  BY <1>1 DEF Complete, SetRun, Outcome, LeaseQueueAssumption
<1>5. TypeOK'
  BY <1>3, <1>4 DEF IInv, TypeOK, Complete, RunStates, envVars, rowVars
<1> HIDE DEF row, result
<1>6. TaskInv(t)'
  <2>1. run'[t] = "succeeded" /\ outcome'[t] = result
    BY <1>4 DEF IInv, TypeOK
  <2>2. attempts'[t] # <<>>
    BY <1>1, <1>3
  <2>3. Last(t)' = row
    BY <1>1, <1>3 DEF Last
  <2>4. \A m \in Issued(t) : m # n => attempts[t][m].state # "succeeded"
    BY <1>1 DEF IInv, TaskInv, Complete
  <2>5. /\ (Last(t).state = "failed") <=> (Last(t).code # NoCode)
        /\ Last(t).retry = "no"
    BY <1>1 DEF IInv, TaskInv
  <2>6. ASSUME NEW m \in Issued(t)
        PROVE  /\ (attempts'[t][m].state = "failed") <=> (attempts'[t][m].code # NoCode)
               /\ attempts'[t][m].retry # "no" => /\ attempts'[t][m].state = "failed"
                                                 /\ attempts'[t][m].code \in TransientCodes
                                                 /\ m < MaxAttempts
               /\ m < n => attempts'[t][m].retry = "requested"
               /\ attempts'[t][m].state = "succeeded" => m = n
    <3>1. CASE m = n
      BY <1>1, <1>2, <1>3, <3>1, <2>5 DEF IInv, TaskInv
    <3>2. CASE m # n
      <4>1. attempts'[t][m] = attempts[t][m]
        BY <1>3, <3>2
      <4>2. /\ (attempts[t][m].state = "failed") <=> (attempts[t][m].code # NoCode)
            /\ attempts[t][m].retry # "no" => /\ attempts[t][m].state = "failed"
                                             /\ attempts[t][m].code \in TransientCodes
                                             /\ m < MaxAttempts
            /\ m < Len(attempts[t]) => attempts[t][m].retry = "requested"
        BY DEF IInv, TaskInv
      <4>3. attempts[t][m].state # "succeeded"
        BY <2>4, <3>2
      <4> QED
        BY <1>1, <4>1, <4>2, <4>3
    <3> QED
      BY <3>1, <3>2
  <2> QED
    BY <1>1, <1>2, <1>3, <1>4, <2>1, <2>2, <2>3, <2>6 DEF TaskInv
<1>7. ASSUME NEW v \in Tasks, v # t PROVE TaskInv(v)'
  BY <1>3, <1>4, <1>7, TaskInvFrame DEF IInv, TypeOK
<1> QED
  BY <1>5, <1>6, <1>7 DEF IInv

LEMMA RetryIInv ==
  ASSUME LeaseQueueAssumption, IInv, NEW t \in Tasks, NEW n \in Issued(t), Retry(t, n)
  PROVE  IInv'
<1> DEFINE row == [attempts[t][n] EXCEPT !.retry = "requested"]
<1>1. /\ n = Len(attempts[t]) /\ attempts[t] # <<>> /\ attempts[t][n] = Last(t)
      /\ n \in Nat \ {0} /\ Last(t) \in Attempt /\ Last(t).state = "failed"
      /\ Last(t).retry = "offered" /\ n < MaxAttempts
  BY OpenRowIsLast, LastFacts DEF IInv, Retry, Last
<1>2. /\ row \in Attempt /\ row.state = "failed" /\ row.code = Last(t).code
      /\ row.retry = "requested"
  BY <1>1 DEF Attempt
<1>3. /\ attempts' \in [Tasks -> Seq(Attempt)]
      /\ \A v \in Tasks : v # t => attempts'[v] = attempts[v]
      /\ Len(attempts'[t]) = n
      /\ Issued(t)' = Issued(t)
      /\ \A m \in Issued(t) : attempts'[t][m] = IF m = n THEN row ELSE attempts[t][m]
  BY <1>1, <1>2, SetAttemptFacts DEF IInv, TypeOK, Retry
<1>4. run' = [run EXCEPT ![t] = "queued"] /\ outcome' = outcome
  BY DEF Retry, SetRun
<1>5. TypeOK'
  BY <1>3, <1>4 DEF IInv, TypeOK, Retry, RunStates, envVars, rowVars
<1> HIDE DEF row
<1>6. TaskInv(t)'
  <2>1. run'[t] = "queued" /\ outcome'[t] = outcome[t] /\ outcome[t] = NoOutcome
    BY <1>4 DEF IInv, TypeOK, TaskInv, Retry
  <2>2. Last(t)' = row
    BY <1>1, <1>3 DEF Last
  <2>3. /\ (Last(t).state = "failed") <=> (Last(t).code # NoCode)
        /\ Last(t).code \in TransientCodes
    BY <1>1 DEF IInv, TaskInv
  <2>4. ASSUME NEW m \in Issued(t)
        PROVE  /\ (attempts'[t][m].state = "failed") <=> (attempts'[t][m].code # NoCode)
               /\ attempts'[t][m].retry # "no" => /\ attempts'[t][m].state = "failed"
                                                 /\ attempts'[t][m].code \in TransientCodes
                                                 /\ m < MaxAttempts
               /\ m < n => attempts'[t][m].retry = "requested"
               /\ attempts'[t][m].state = "succeeded" => FALSE
    <3>1. CASE m = n
      BY <1>1, <1>2, <1>3, <3>1, <2>3 DEF IInv, TaskInv
    <3>2. CASE m # n
      BY <1>1, <1>3, <3>2, <2>1 DEF IInv, TaskInv
    <3> QED
      BY <3>1, <3>2
  <2> QED
    BY <1>1, <1>2, <1>3, <2>1, <2>2, <2>4 DEF IInv, TaskInv
<1>7. ASSUME NEW v \in Tasks, v # t PROVE TaskInv(v)'
  BY <1>3, <1>4, <1>7, TaskInvFrame DEF IInv, TypeOK
<1> QED
  BY <1>5, <1>6, <1>7 DEF IInv

LEMMA TickIInv ==
  ASSUME LeaseQueueAssumption, IInv, Tick
  PROVE  IInv'
<1>1. /\ attempts' \in [Tasks -> Seq(Attempt)]
      /\ \A u \in Tasks :
           /\ Len(attempts'[u]) = Len(attempts[u])
           /\ Issued(u)' = Issued(u)
           /\ \A m \in Issued(u) :
                /\ attempts'[u][m].state = attempts[u][m].state
                /\ attempts'[u][m].code = attempts[u][m].code
                /\ attempts'[u][m].retry = attempts[u][m].retry
  BY TickFacts DEF IInv, TypeOK
<1>2. run' = run /\ outcome' = outcome
  BY DEF Tick
<1>3. TypeOK'
  BY <1>1, <1>2 DEF IInv, TypeOK, Tick, envVars, rowVars
<1>4. ASSUME NEW u \in Tasks PROVE TaskInv(u)'
  <2>1. (attempts'[u] = <<>>) <=> (attempts[u] = <<>>)
    BY <1>1, EmptySeq DEF IInv, TypeOK
  <2>2. ASSUME attempts[u] # <<>>
        PROVE  /\ Last(u)'.state = Last(u).state
               /\ Last(u)'.retry = Last(u).retry
    BY <1>1, <2>2, LastFacts DEF IInv, Last
  <2> QED
    BY <1>1, <1>2, <2>1, <2>2 DEF IInv, TaskInv, LastRunning
<1> QED
  BY <1>3, <1>4 DEF IInv

THEOREM NextIInv ==
  ASSUME LeaseQueueAssumption, IInv, [Next]_vars
  PROVE  IInv'
<1>1. ASSUME NEW t \in Tasks, NEW u \in Users, NEW s \in Stamps, Enqueue(t, u, s)
      PROVE  IInv'
  BY <1>1, EnqueueIInv
<1>2. ASSUME NEW t \in Tasks, Claim(t) PROVE IInv'
  BY <1>2, ClaimReapIInv, ClaimRefuseIInv, ClaimIssueIInv DEF Claim
<1>3. ASSUME NEW t \in Tasks, NEW n \in Issued(t), NEW c \in Codes, Fail(t, n, c)
      PROVE  IInv'
  BY <1>3, FailIInv
<1>4. ASSUME NEW t \in Tasks, NEW n \in Issued(t), NEW d \in Digests, Complete(t, n, d)
      PROVE  IInv'
  BY <1>4, CompleteIInv
<1>5. ASSUME NEW t \in Tasks, NEW n \in Issued(t), Retry(t, n) PROVE IInv'
  BY <1>5, RetryIInv
<1>6. ASSUME \/ SetTenant
             \/ \E u \in Users : SetMember(u)
             \/ UNCHANGED vars
      PROVE  IInv'
  <2>1. TypeOK'
    BY <1>6 DEF IInv, TypeOK, SetTenant, SetMember, rowVars, vars
  <2>2. run' = run /\ attempts' = attempts /\ outcome' = outcome
    BY <1>6 DEF SetTenant, SetMember, vars
  <2> QED
    BY <2>1, <2>2, TaskInvFrame DEF IInv
<1>7. CASE Tick
  BY <1>7, TickIInv
<1> QED
  BY <1>1, <1>2, <1>3, <1>4, <1>5, <1>6, <1>7 DEF Next

(* Whatever the sizes, every reachable state satisfies the invariant.      *)
THEOREM Invariance == Spec => []IInv
<1>1. LeaseQueueAssumption
  BY LeaseQueueAssumption
<1>2. Init => IInv
  BY <1>1, InitIInv
<1>3. IInv /\ [Next]_vars => IInv'
  BY <1>1, NextIInv
<1> QED
  BY <1>2, <1>3, PTL DEF Spec

-----------------------------------------------------------------------------
(* What another queue sees of this one: its outcomes, its requesters and   *)
(* which of its tasks exist.  Most commands leave that alone.              *)
Quiet ==
  /\ outcome' = outcome
  /\ requester' = requester
  /\ \A t \in Tasks : (run'[t] = "none") <=> (run[t] = "none")

LEMMA CommandsAreQuiet ==
  ASSUME IInv, NEW t \in Tasks,
         \/ Claim(t)
         \/ \E n \in Issued(t) : Retry(t, n) \/ \E c \in Codes : Fail(t, n, c)
  PROVE  Quiet
<1>1. run[t] \in {"queued", "running", "failed"}
  BY DEF Claim, ClaimReap, ClaimRefuse, ClaimIssue, Chosen, Claimable, Retry, Fail
<1>2. outcome' = outcome /\ requester' = requester
  BY DEF Claim, ClaimReap, ClaimRefuse, ClaimIssue, Retry, Fail, rowVars
<1>3. \E s \in {"queued", "running", "failed"} : run' = [run EXCEPT ![t] = s]
  BY DEF Claim, ClaimReap, ClaimRefuse, ClaimIssue, Retry, Fail, SetRun
<1> QED
  BY <1>1, <1>2, <1>3 DEF Quiet, IInv, TypeOK

(* Attempts are numbered from 1 to the limit.                              *)
LEMMA IssuedNumbers ==
  ASSUME LeaseQueueAssumption, IInv, NEW t \in Tasks
  PROVE  Issued(t) \subseteq 1 .. MaxAttempts
<1>1. attempts[t] \in Seq(Attempt) /\ Len(attempts[t]) <= MaxAttempts
  BY DEF IInv, TypeOK, TaskInv
<1> QED
  BY <1>1 DEF Issued, LeaseQueueAssumption

(* A task that does not exist has no outcome.                              *)
LEMMA NoneHasNothing ==
  ASSUME IInv, NEW t \in Tasks, run[t] = "none"
  PROVE  outcome[t] = NoOutcome
BY DEF IInv, TaskInv

(* What won is an attempt.                                                 *)
LEMMA WinnerNumber ==
  ASSUME LeaseQueueAssumption, IInv, NEW t \in Tasks, outcome[t] # NoOutcome
  PROVE  outcome[t].attempt \in 1 .. MaxAttempts /\ run[t] # "none"
<1>1. /\ attempts[t] \in Seq(Attempt) /\ Len(attempts[t]) <= MaxAttempts
      /\ outcome[t].attempt = Len(attempts[t])
      /\ run[t] = "succeeded" /\ attempts[t] # <<>>
  BY DEF IInv, TypeOK, TaskInv
<1>2. Len(attempts[t]) \in Nat /\ Len(attempts[t]) # 0
  BY <1>1, EmptySeq
<1> QED
  BY <1>1, <1>2 DEF LeaseQueueAssumption

(* A completed task has no attempt that could still complete.              *)
LEMMA WonIsOver ==
  ASSUME IInv, NEW t \in Tasks, outcome[t] # NoOutcome, NEW n \in Issued(t)
  PROVE  ~ Live(t, n)
<1>1. ~ LastRunning(t)
  BY DEF IInv, TaskInv, LastRunning
<1>2. CASE attempts[t][n].retry # "requested"
  BY <1>1, <1>2, OpenRowIsLast DEF Live, LastRunning
<1>3. CASE attempts[t][n].retry = "requested"
  BY <1>3 DEF IInv, TaskInv, Live
<1> QED
  BY <1>2, <1>3

(* With no live lease, time changes nothing.                               *)
LEMMA IdleAge ==
  ASSUME attempts \in [Tasks -> Seq(Attempt)], Age, ~ SomeLive
  PROVE  attempts' = attempts
<1>1. ASSUME NEW t \in Tasks
      PROVE  attempts[t] = [n \in Issued(t) |-> Aged(attempts[t][n])]
  <2>1. \A n \in Issued(t) : Aged(attempts[t][n]) = attempts[t][n]
    BY DEF SomeLive, Live, Aged
  <2>2. attempts[t] = [n \in 1 .. Len(attempts[t]) |-> attempts[t][n]]
    OBVIOUS
  <2> QED
    BY <2>1, <2>2 DEF Issued
<1> QED
  BY <1>1 DEF Age

-----------------------------------------------------------------------------
(* The invariants of LeaseQueue.                                           *)

(* Every variable keeps its type.                                          *)
THEOREM TypeCorrectness == Spec => []TypeOK
<1>1. IInv => TypeOK
  BY DEF IInv
<1> QED
  BY <1>1, Invariance, PTL

(* A queued run always has an attempt left: the claim cannot raise         *)
(* attempt_limit and so cannot get stuck on the head of its queue.         *)
THEOREM QueueNeverPoisoned == Spec => []NoPoisonedHead
<1>1. LeaseQueueAssumption
  BY LeaseQueueAssumption
<1>2. IInv => NoPoisonedHead
  BY <1>1, QueuedHasRoom DEF NoPoisonedHead
<1> QED
  BY <1>2, Invariance, PTL

(* Run rows and attempt rows agree in every reachable state.               *)
THEOREM RunsMatchAttempts == Spec => []RunMatchesAttempts
<1>1. IInv => RunMatchesAttempts
  BY DEF IInv, TaskInv, RunMatchesAttempts
<1> QED
  BY <1>1, Invariance, PTL

(* No task ever has two results, nor a result of an attempt that was not   *)
(* its last, nor a succeeded attempt without a result.                     *)
THEOREM OneResultPerTask == Spec => []OneWinner
<1>1. IInv => OneWinner
  BY DEF IInv, TaskInv, OneWinner
<1> QED
  BY <1>1, Invariance, PTL

(* No command trips a CHECK of the attempt table.                          *)
THEOREM ChecksNeverTrip == Spec => []AttemptRowsPassChecks
<1>1. IInv => AttemptRowsPassChecks
  BY DEF IInv, TaskInv, AttemptRowsPassChecks
<1> QED
  BY <1>1, Invariance, PTL

(* Every attempt but the last was a transient failure whose retry a member *)
(* asked for.                                                              *)
THEOREM RetriesAreAskedFor == Spec => []RetriesPayForAttempts
<1>1. IInv => RetriesPayForAttempts
  <2> SUFFICES ASSUME IInv, NEW t \in Tasks, NEW n \in Issued(t), n < Len(attempts[t])
               PROVE  /\ attempts[t][n].state = "failed"
                      /\ attempts[t][n].code \in TransientCodes
                      /\ attempts[t][n].retry = "requested"
    BY DEF RetriesPayForAttempts
  <2>1. attempts[t][n].retry = "requested"
    BY DEF IInv, TaskInv
  <2> QED
    BY <2>1 DEF IInv, TaskInv
<1> QED
  BY <1>1, Invariance, PTL

-----------------------------------------------------------------------------
(* What no step does.                                                      *)

(* Rewriting the last row keeps every verdict if it keeps that row's.      *)
LEMMA SetLastKeepsVerdicts ==
  ASSUME TypeOK, NEW t \in Tasks, NEW n \in Issued(t), NEW row \in Attempt,
         SetAttempt(t, n, row), KeepsVerdict(attempts[t][n], row)
  PROVE  \A u \in Tasks : \A m \in Issued(u) :
           m \in Issued(u)' /\ KeepsVerdict(attempts[u][m], attempts'[u][m])
<1>1. /\ \A v \in Tasks : v # t => attempts'[v] = attempts[v]
      /\ Issued(t)' = Issued(t)
      /\ \A m \in Issued(t) : attempts'[t][m] = IF m = n THEN row ELSE attempts[t][m]
  BY SetAttemptFacts DEF TypeOK
<1>2. ASSUME NEW m \in Issued(t)
      PROVE  m \in Issued(t)' /\ KeepsVerdict(attempts[t][m], attempts'[t][m])
  BY <1>1 DEF KeepsVerdict
<1>3. ASSUME NEW u \in Tasks, u # t, NEW m \in Issued(u)
      PROVE  m \in Issued(u)' /\ KeepsVerdict(attempts[u][m], attempts'[u][m])
  BY <1>1, <1>3 DEF KeepsVerdict, Issued
<1> QED
  BY <1>2, <1>3

LEMMA StepsKeepVerdicts ==
  ASSUME IInv, [Next]_vars
  PROVE  KeepsVerdicts
<1>0. TypeOK /\ LeaseQueueAssumption
  BY LeaseQueueAssumption DEF IInv
<1>1. ASSUME attempts' = attempts PROVE KeepsVerdicts
  BY <1>1 DEF KeepsVerdicts, KeepsVerdict, Issued
<1>2. ASSUME NEW t \in Tasks, NEW n \in Issued(t), NEW row \in Attempt,
             SetAttempt(t, n, row), KeepsVerdict(attempts[t][n], row)
      PROVE  KeepsVerdicts
  BY <1>0, <1>2, SetLastKeepsVerdicts DEF KeepsVerdicts
<1>3. ASSUME NEW t \in Tasks, NEW row \in Attempt, AddAttempt(t, row) PROVE KeepsVerdicts
  BY <1>0, <1>3, AddAttemptFacts DEF TypeOK, KeepsVerdicts, KeepsVerdict, Issued
<1>4. ASSUME NEW t \in Tasks, ClaimReap(t) PROVE KeepsVerdicts
  <2> DEFINE n == Len(attempts[t])
             row == TimedOutAttempt(Last(t), n)
  <2>1. n \in Issued(t) /\ Last(t) \in Attempt /\ Last(t) = attempts[t][n]
        /\ Last(t).state = "running"
    BY <1>0, <1>4, LastFacts DEF ClaimReap, LastRunning, Last
  <2>2. Last(t).retry = "no"
    BY <2>1 DEF IInv, TaskInv
  <2>3. row \in Attempt /\ KeepsVerdict(Last(t), row)
    BY <1>0, <2>1, <2>2 DEF TimedOutAttempt, OfferedIf, Attempt, AttemptStates, KeepsVerdict, LeaseQueueAssumption
  <2> QED
    BY <1>2, <1>4, <2>1, <2>3 DEF ClaimReap
<1>5. ASSUME NEW t \in Tasks, ClaimRefuse(t) \/ ClaimIssue(t) PROVE KeepsVerdicts
  <2>1. RefusedAttempt \in Attempt /\ NewAttempt \in Attempt
    BY <1>0 DEF RefusedAttempt, NewAttempt, Attempt, AttemptStates, LeaseQueueAssumption
  <2> QED
    BY <1>3, <1>5, <2>1 DEF ClaimRefuse, ClaimIssue
<1>6. ASSUME NEW t \in Tasks, NEW n \in Issued(t), NEW c \in Codes, Fail(t, n, c) PROVE KeepsVerdicts
  <2> DEFINE row == FailedAttempt(attempts[t][n], n, c)
  <2>1. attempts[t][n] \in Attempt /\ attempts[t][n].state = "running"
    BY <1>0, <1>6 DEF TypeOK, Issued, Fail, Live
  <2>2. attempts[t][n].retry = "no"
    BY <2>1 DEF IInv, TaskInv
  <2>3. row \in Attempt /\ KeepsVerdict(attempts[t][n], row)
    BY <2>1, <2>2 DEF FailedAttempt, OfferedIf, Attempt, AttemptStates, KeepsVerdict
  <2> QED
    BY <1>2, <1>6, <2>3 DEF Fail
<1>7. ASSUME NEW t \in Tasks, NEW n \in Issued(t), NEW d \in Digests, Complete(t, n, d) PROVE KeepsVerdicts
  <2> DEFINE row == SucceededAttempt(attempts[t][n])
  <2>1. attempts[t][n] \in Attempt /\ attempts[t][n].state = "running"
    BY <1>0, <1>7 DEF TypeOK, Issued, Complete, Live
  <2>2. row \in Attempt /\ KeepsVerdict(attempts[t][n], row)
    BY <2>1 DEF SucceededAttempt, Attempt, AttemptStates, KeepsVerdict
  <2> QED
    BY <1>2, <1>7, <2>2 DEF Complete
<1>8. ASSUME NEW t \in Tasks, NEW n \in Issued(t), Retry(t, n) PROVE KeepsVerdicts
  <2> DEFINE row == [attempts[t][n] EXCEPT !.retry = "requested"]
  <2>1. attempts[t][n] \in Attempt /\ attempts[t][n].retry = "offered"
    BY <1>0, <1>8 DEF TypeOK, Issued, Retry
  <2>2. row \in Attempt /\ KeepsVerdict(attempts[t][n], row)
    BY <2>1 DEF Attempt, KeepsVerdict
  <2> QED
    BY <1>2, <1>8, <2>2 DEF Retry
<1>9. CASE Tick
  BY <1>0, <1>9, TickFacts DEF TypeOK, KeepsVerdicts, KeepsVerdict
<1> QED
  BY <1>1, <1>4, <1>5, <1>6, <1>7, <1>8, <1>9 DEF Next, Claim, Enqueue, SetTenant, SetMember, vars

(* A finished attempt keeps its verdict for good, whoever calls what when. *)
THEOREM FinishedStaysFinished == Spec => FinishedIsFinal
<1>1. IInv /\ [Next]_vars => [KeepsVerdicts]_vars
  BY StepsKeepVerdicts
<1> QED
  BY <1>1, Invariance, PTL DEF Spec, FinishedIsFinal

(* Revoking a member or suspending the tenant stops their work at once:    *)
(* whatever is in flight, no lease is handed out and no result is taken.   *)
THEOREM RevocationStopsWork == Spec => RevocationIsImmediate
<1>1. IInv /\ [Next]_vars => [GainsNothingUnauthorised]_vars
  <2> SUFFICES ASSUME IInv, Next, NEW t \in Tasks, ~ tenantActive \/ ~ Authorised(t)
               PROVE  /\ outcome'[t] = outcome[t]
                      /\ \A n \in Issued(t)' : attempts'[t][n].state = "running" => n \in Issued(t)
    BY DEF GainsNothingUnauthorised
  <2>0. TypeOK /\ LeaseQueueAssumption
    BY LeaseQueueAssumption DEF IInv
  <2> DEFINE Goal == /\ outcome'[t] = outcome[t]
                     /\ \A n \in Issued(t)' : attempts'[t][n].state = "running" => n \in Issued(t)
  <2>1. ASSUME outcome' = outcome, attempts' = attempts PROVE Goal
    BY <2>1 DEF Issued
  <2>2. ASSUME NEW u \in Tasks, NEW n \in Issued(u), NEW row \in Attempt,
               SetAttempt(u, n, row), outcome'[t] = outcome[t]
        PROVE  Goal
    BY <2>0, <2>2, SetAttemptFacts DEF TypeOK, Issued
  <2>3. ASSUME NEW u \in Tasks, ClaimReap(u) PROVE Goal
    <3>1. Len(attempts[u]) \in Issued(u) /\ Last(u) \in Attempt
      BY <2>0, <2>3, LastFacts DEF ClaimReap, LastRunning
    <3>2. TimedOutAttempt(Last(u), Len(attempts[u])) \in Attempt
      BY <2>0, <3>1 DEF TimedOutAttempt, OfferedIf, Attempt, AttemptStates, LeaseQueueAssumption
    <3> QED
      BY <2>2, <2>3, <3>1, <3>2 DEF ClaimReap
  <2>4. ASSUME NEW u \in Tasks, ClaimRefuse(u) PROVE Goal
    <3>1. RefusedAttempt \in Attempt /\ RefusedAttempt.state = "failed"
      BY <2>0 DEF RefusedAttempt, Attempt, AttemptStates, LeaseQueueAssumption
    <3>2. /\ \A v \in Tasks : v # u => attempts'[v] = attempts[v]
          /\ Issued(u)' = Issued(u) \cup {Len(attempts[u]) + 1}
          /\ attempts'[u][Len(attempts[u]) + 1] = RefusedAttempt
      BY <2>0, <2>4, <3>1, AddAttemptFacts DEF TypeOK, ClaimRefuse
    <3>3. outcome' = outcome
      BY <2>4 DEF ClaimRefuse
    <3> QED
      BY <3>1, <3>2, <3>3 DEF Issued
  <2>5. ASSUME NEW u \in Tasks, ClaimIssue(u) PROVE Goal
    <3>1. u # t
      BY <2>5 DEF ClaimIssue
    <3>2. NewAttempt \in Attempt
      BY <2>0 DEF NewAttempt, Attempt, AttemptStates, LeaseQueueAssumption
    <3>3. attempts'[t] = attempts[t] /\ outcome' = outcome
      BY <2>0, <2>5, <3>1, <3>2, AddAttemptFacts DEF TypeOK, ClaimIssue
    <3> QED
      BY <3>3 DEF Issued
  <2>6. ASSUME NEW u \in Tasks, NEW n \in Issued(u), NEW c \in Codes, Fail(u, n, c) PROVE Goal
    <3>1. attempts[u][n] \in Attempt
      BY <2>0 DEF TypeOK, Issued
    <3>2. FailedAttempt(attempts[u][n], n, c) \in Attempt
      BY <3>1 DEF FailedAttempt, OfferedIf, Attempt, AttemptStates
    <3> QED
      BY <2>2, <2>6, <3>2 DEF Fail
  <2>7. ASSUME NEW u \in Tasks, NEW n \in Issued(u), NEW d \in Digests, Complete(u, n, d) PROVE Goal
    <3>1. u # t
      BY <2>7 DEF Complete
    <3>2. attempts[u][n] \in Attempt
      BY <2>0 DEF TypeOK, Issued
    <3>3. SucceededAttempt(attempts[u][n]) \in Attempt
      BY <3>2 DEF SucceededAttempt, Attempt, AttemptStates
    <3>4. outcome'[t] = outcome[t]
      BY <2>7, <3>1 DEF Complete
    <3> QED
      BY <2>2, <2>7, <3>3, <3>4 DEF Complete
  <2>8. ASSUME NEW u \in Tasks, NEW n \in Issued(u), Retry(u, n) PROVE Goal
    <3>1. attempts[u][n] \in Attempt
      BY <2>0 DEF TypeOK, Issued
    <3>2. [attempts[u][n] EXCEPT !.retry = "requested"] \in Attempt
      BY <3>1 DEF Attempt
    <3> QED
      BY <2>2, <2>8, <3>2 DEF Retry
  <2>9. CASE Tick
    BY <2>0, <2>9, TickFacts DEF TypeOK, Tick
  <2>10. Goal
    BY <2>1, <2>3, <2>4, <2>5, <2>6, <2>7, <2>8, <2>9 DEF Next, Claim, Enqueue, SetTenant, SetMember
  <2> QED
    BY <2>10
<1> QED
  BY <1>1, Invariance, PTL DEF Spec, RevocationIsImmediate

-----------------------------------------------------------------------------
(* What a reader of the tables sees of a task, one command at a time.      *)

Seen(t) ==
  [state |-> run[t], n |-> Len(attempts[t]),
   last |-> IF attempts[t] = <<>> THEN "none" ELSE Last(t).state,
   offered |-> attempts[t] # <<>> /\ Last(t).retry = "offered"]
OthersSeen(t) == \A u \in Tasks : u # t => Seen(u)' = Seen(u)

(* Commands that leave both tables alone are not seen.                     *)
LEMMA SameSeen ==
  ASSUME run' = run, attempts' = attempts
  PROVE  \A t \in Tasks : Seen(t)' = Seen(t)
BY DEF Seen, Last

LEMMA EnqueueSeen ==
  ASSUME IInv, NEW t \in Tasks, NEW u, NEW s, Enqueue(t, u, s)
  PROVE  /\ Seen(t) = [state |-> "none", n |-> 0, last |-> "none", offered |-> FALSE]
         /\ Seen(t)' = [state |-> "queued", n |-> 0, last |-> "none", offered |-> FALSE]
         /\ OthersSeen(t)
<1>1. /\ run[t] = "none" /\ attempts[t] = <<>> /\ attempts' = attempts
      /\ run'[t] = "queued" /\ \A v \in Tasks : v # t => run'[v] = run[v]
  BY DEF Enqueue, SetRun, IInv, TypeOK, TaskInv
<1> QED
  BY <1>1 DEF Seen, OthersSeen, Last

(* The last row is overwritten.                                            *)
LEMMA SetLastSeen ==
  ASSUME IInv, NEW t \in Tasks, NEW n \in Issued(t), n = Len(attempts[t]), NEW row \in Attempt, NEW s,
         SetAttempt(t, n, row), SetRun(t, s)
  PROVE  /\ Seen(t)' = [state |-> s, n |-> n, last |-> row.state, offered |-> row.retry = "offered"]
         /\ OthersSeen(t)
<1>1. /\ \A v \in Tasks : v # t => attempts'[v] = attempts[v]
      /\ Len(attempts'[t]) = n /\ Issued(t)' = Issued(t)
      /\ attempts'[t][n] = row
  BY SetAttemptFacts DEF IInv, TypeOK
<1>2. run'[t] = s /\ \A v \in Tasks : v # t => run'[v] = run[v]
  BY DEF SetRun, IInv, TypeOK
<1>3. attempts'[t] # <<>>
  BY <1>1 DEF Issued
<1>4. Last(t)' = row
  BY <1>1 DEF Last
<1> QED
  BY <1>1, <1>2, <1>3, <1>4 DEF Seen, OthersSeen, Last

(* A row is added.                                                         *)
LEMMA AddSeen ==
  ASSUME IInv, NEW t \in Tasks, NEW row \in Attempt, NEW s, AddAttempt(t, row), SetRun(t, s)
  PROVE  /\ Seen(t)' = [state |-> s, n |-> Len(attempts[t]) + 1, last |-> row.state,
                        offered |-> row.retry = "offered"]
         /\ OthersSeen(t)
<1>1. /\ \A v \in Tasks : v # t => attempts'[v] = attempts[v]
      /\ Len(attempts'[t]) = Len(attempts[t]) + 1
      /\ Issued(t)' = Issued(t) \cup {Len(attempts[t]) + 1}
      /\ attempts'[t][Len(attempts[t]) + 1] = row
  BY AddAttemptFacts DEF IInv, TypeOK
<1>2. run'[t] = s /\ \A v \in Tasks : v # t => run'[v] = run[v]
  BY DEF SetRun, IInv, TypeOK
<1>3. attempts'[t] # <<>>
  BY <1>1 DEF Issued
<1>4. Last(t)' = row
  BY <1>1 DEF Last
<1> QED
  BY <1>1, <1>2, <1>3, <1>4 DEF Seen, OthersSeen, Last

(* An attempt that fails, by its worker's report or by its lease.          *)
FailedSeen(t, offered) ==
  /\ Seen(t).state = "running"
  /\ offered => Seen(t).n < MaxAttempts
  /\ Seen(t)' = [state |-> "failed", n |-> Seen(t).n, last |-> "failed", offered |-> offered]
  /\ OthersSeen(t)

LEMMA FailSeen ==
  ASSUME IInv, NEW t \in Tasks, NEW n \in Issued(t), NEW c \in Codes, Fail(t, n, c)
  PROVE  \E offered \in BOOLEAN : FailedSeen(t, offered)
<1>0. attempts[t][n].retry # "requested"
  BY DEF IInv, TaskInv, Fail, Live
<1>1. n = Len(attempts[t]) /\ attempts[t][n] \in Attempt
  BY <1>0, OpenRowIsLast DEF IInv, TypeOK, Issued
<1> DEFINE row == FailedAttempt(attempts[t][n], n, c)
<1>2. /\ row \in Attempt /\ row.state = "failed"
      /\ row.retry = "offered" => n < MaxAttempts
  BY <1>1 DEF FailedAttempt, OfferedIf, Attempt, AttemptStates
<1>3. SetAttempt(t, n, row) /\ SetRun(t, "failed") /\ run[t] = "running"
  BY DEF Fail
<1>4. /\ Seen(t)' = [state |-> "failed", n |-> n, last |-> row.state, offered |-> row.retry = "offered"]
      /\ OthersSeen(t)
  <2> HIDE DEF row
  <2> QED
    BY <1>1, <1>2, <1>3, SetLastSeen
<1>5. Seen(t).n = n /\ Seen(t).state = "running"
  BY <1>1, <1>3 DEF Seen
<1> HIDE DEF row
<1>6. FailedSeen(t, row.retry = "offered")
  BY <1>2, <1>4, <1>5 DEF FailedSeen
<1>7. (row.retry = "offered") \in BOOLEAN
  OBVIOUS
<1> QED
  BY <1>6, <1>7

LEMMA ReapSeen ==
  ASSUME LeaseQueueAssumption, IInv, NEW t \in Tasks, ClaimReap(t)
  PROVE  \E offered \in BOOLEAN : FailedSeen(t, offered)
<1> DEFINE n == Len(attempts[t])
<1> DEFINE row == TimedOutAttempt(Last(t), n)
<1>1. n \in Issued(t) /\ Last(t) \in Attempt
  BY LastFacts DEF IInv, ClaimReap, LastRunning
<1>2. /\ row \in Attempt /\ row.state = "failed"
      /\ row.retry = "offered" => n < MaxAttempts
  BY <1>1 DEF TimedOutAttempt, OfferedIf, Attempt, AttemptStates, LeaseQueueAssumption
<1>3. SetAttempt(t, n, row) /\ SetRun(t, "failed")
  BY DEF ClaimReap
<1>4. run[t] = "running"
  BY QueuedHasRoom DEF ClaimReap, Chosen, Claimable
<1>5. /\ Seen(t)' = [state |-> "failed", n |-> n, last |-> row.state, offered |-> row.retry = "offered"]
      /\ OthersSeen(t)
  <2> HIDE DEF row
  <2> QED
    BY <1>1, <1>2, <1>3, SetLastSeen
<1> HIDE DEF row
<1>6. Seen(t).n = n /\ Seen(t).state = "running"
  BY <1>4 DEF Seen
<1>7. FailedSeen(t, row.retry = "offered")
  BY <1>2, <1>5, <1>6 DEF FailedSeen
<1>8. (row.retry = "offered") \in BOOLEAN
  OBVIOUS
<1> QED
  BY <1>7, <1>8

(* An attempt that is handed out or, for want of authority, spent.         *)
LEMMA ClaimSeen ==
  ASSUME LeaseQueueAssumption, IInv, NEW t \in Tasks, ClaimRefuse(t) \/ ClaimIssue(t)
  PROVE  /\ Seen(t).state = "queued" /\ Seen(t).n < MaxAttempts
         /\ \E state \in {"running", "failed"} :
              Seen(t)' = [state |-> state, n |-> Seen(t).n + 1, last |-> state, offered |-> FALSE]
         /\ OthersSeen(t)
<1>1. /\ RefusedAttempt \in Attempt /\ RefusedAttempt.state = "failed" /\ RefusedAttempt.retry = "no"
      /\ NewAttempt \in Attempt /\ NewAttempt.state = "running" /\ NewAttempt.retry = "no"
  BY DEF RefusedAttempt, NewAttempt, Attempt, AttemptStates, LeaseQueueAssumption
<1>2. run[t] = "queued" /\ Len(attempts[t]) < MaxAttempts
  BY ChosenIsQueued DEF ClaimRefuse, ClaimIssue
<1>3. Seen(t).state = "queued" /\ Seen(t).n = Len(attempts[t])
  BY <1>2 DEF Seen
<1>4. CASE ClaimRefuse(t)
  <2>1. /\ Seen(t)' = [state |-> "failed", n |-> Len(attempts[t]) + 1, last |-> "failed", offered |-> FALSE]
        /\ OthersSeen(t)
    BY <1>1, <1>4, AddSeen DEF ClaimRefuse
  <2> QED
    BY <1>2, <1>3, <2>1
<1>5. CASE ClaimIssue(t)
  <2>1. /\ Seen(t)' = [state |-> "running", n |-> Len(attempts[t]) + 1, last |-> "running", offered |-> FALSE]
        /\ OthersSeen(t)
    BY <1>1, <1>5, AddSeen DEF ClaimIssue
  <2> QED
    BY <1>2, <1>3, <2>1
<1> QED
  BY <1>4, <1>5

LEMMA CompleteSeen ==
  ASSUME IInv, NEW t \in Tasks, NEW n \in Issued(t), NEW d, Complete(t, n, d)
  PROVE  /\ Seen(t) = [state |-> "running", n |-> n, last |-> "running", offered |-> FALSE]
         /\ Seen(t)' = [state |-> "succeeded", n |-> n, last |-> "succeeded", offered |-> FALSE]
         /\ OthersSeen(t)
<1> DEFINE row == SucceededAttempt(attempts[t][n])
<1>0. attempts[t][n].retry = "no" /\ attempts[t][n].state = "running"
  BY DEF IInv, TaskInv, Complete, Live
<1>1. n = Len(attempts[t]) /\ attempts[t][n] \in Attempt /\ attempts[t] # <<>> /\ attempts[t][n] = Last(t)
  BY <1>0, OpenRowIsLast DEF IInv, TypeOK, Issued
<1>2. row \in Attempt /\ row.state = "succeeded" /\ row.retry = "no"
  BY <1>0, <1>1 DEF SucceededAttempt, Attempt, AttemptStates
<1>3. SetAttempt(t, n, row) /\ SetRun(t, "succeeded") /\ run[t] = "running"
  BY DEF Complete
<1>4. /\ Seen(t)' = [state |-> "succeeded", n |-> n, last |-> row.state, offered |-> row.retry = "offered"]
      /\ OthersSeen(t)
  <2> HIDE DEF row
  <2> QED
    BY <1>1, <1>2, <1>3, SetLastSeen
<1> HIDE DEF row
<1>5. Seen(t) = [state |-> "running", n |-> n, last |-> "running", offered |-> FALSE]
  BY <1>0, <1>1, <1>3 DEF Seen
<1> QED
  BY <1>2, <1>4, <1>5

LEMMA RetrySeen ==
  ASSUME IInv, NEW t \in Tasks, NEW n \in Issued(t), Retry(t, n)
  PROVE  /\ Seen(t) = [state |-> "failed", n |-> n, last |-> "failed", offered |-> TRUE]
         /\ Seen(t)' = [state |-> "queued", n |-> n, last |-> "failed", offered |-> FALSE]
         /\ OthersSeen(t)
<1> DEFINE row == [attempts[t][n] EXCEPT !.retry = "requested"]
<1>1. /\ n = Len(attempts[t]) /\ attempts[t][n] \in Attempt /\ attempts[t] # <<>> /\ attempts[t][n] = Last(t)
  BY OpenRowIsLast DEF IInv, TypeOK, Retry, Issued
<1>2. row \in Attempt /\ row.state = "failed" /\ row.retry = "requested"
  BY <1>1 DEF Attempt, Retry
<1>3. /\ SetAttempt(t, n, row) /\ SetRun(t, "queued") /\ run[t] = "failed"
      /\ Last(t).state = "failed" /\ Last(t).retry = "offered"
  BY <1>1 DEF Retry
<1>4. /\ Seen(t)' = [state |-> "queued", n |-> n, last |-> row.state, offered |-> row.retry = "offered"]
      /\ OthersSeen(t)
  <2> HIDE DEF row
  <2> QED
    BY <1>1, <1>2, <1>3, SetLastSeen
<1> HIDE DEF row
<1>5. Seen(t) = [state |-> "failed", n |-> n, last |-> "failed", offered |-> TRUE]
  BY <1>1, <1>3 DEF Seen
<1> QED
  BY <1>2, <1>4, <1>5

(* A command that completes nothing changes what is seen of one task, as a *)
(* claim, a failure or a retry.                                            *)
RowStep(old, new) ==
  \/ /\ old.state = "queued" /\ old.n < MaxAttempts
     /\ \E state \in {"running", "failed"} :
          new = [state |-> state, n |-> old.n + 1, last |-> state, offered |-> FALSE]
  \/ /\ old.state = "running"
     /\ \E offered \in BOOLEAN :
          /\ offered => old.n < MaxAttempts
          /\ new = [state |-> "failed", n |-> old.n, last |-> "failed", offered |-> offered]
  \/ /\ old.state = "failed" /\ old.offered
     /\ new = [state |-> "queued", n |-> old.n, last |-> old.last, offered |-> FALSE]

LEMMA FailedIsRowStep ==
  ASSUME NEW t \in Tasks, NEW offered \in BOOLEAN, FailedSeen(t, offered)
  PROVE  RowStep(Seen(t), Seen(t)') /\ OthersSeen(t)
BY DEF FailedSeen, RowStep

LEMMA CommandSeen ==
  ASSUME LeaseQueueAssumption, IInv, NEW t \in Tasks,
         \/ Claim(t)
         \/ \E n \in Issued(t) : Retry(t, n) \/ \E c \in Codes : Fail(t, n, c)
  PROVE  RowStep(Seen(t), Seen(t)') /\ OthersSeen(t) /\ run[t] # "none"
<1>1. run[t] # "none"
  BY DEF Claim, ClaimReap, ClaimRefuse, ClaimIssue, Chosen, Claimable, Retry, Fail
<1>2. RowStep(Seen(t), Seen(t)') /\ OthersSeen(t)
  <2>1. CASE ClaimReap(t)
    BY <2>1, ReapSeen, FailedIsRowStep
  <2>2. CASE ClaimRefuse(t) \/ ClaimIssue(t)
    BY <2>2, ClaimSeen, Zenon DEF RowStep
  <2>3. CASE \E n \in Issued(t) : Retry(t, n)
    <3>1. PICK n \in Issued(t) : Retry(t, n)
      BY <2>3
    <3>2. /\ Seen(t).state = "failed" /\ Seen(t).offered /\ Seen(t).n = n /\ Seen(t).last = "failed"
          /\ Seen(t)' = [state |-> "queued", n |-> n, last |-> "failed", offered |-> FALSE]
          /\ OthersSeen(t)
      BY <3>1, RetrySeen
    <3> QED
      BY <3>2 DEF RowStep
  <2>4. CASE \E n \in Issued(t), c \in Codes : Fail(t, n, c)
    BY <2>4, FailSeen, FailedIsRowStep
  <2> QED
    BY <2>1, <2>2, <2>3, <2>4 DEF Claim
<1> QED
  BY <1>1, <1>2

(* The clock is not seen: only what a claim makes of it.                   *)
LEMMA TickSeen ==
  ASSUME LeaseQueueAssumption, IInv, Tick
  PROVE  \A t \in Tasks : Seen(t)' = Seen(t)
<1> SUFFICES ASSUME NEW t \in Tasks PROVE Seen(t)' = Seen(t)
  OBVIOUS
<1>1. /\ attempts[t] \in Seq(Attempt) /\ attempts'[t] \in Seq(Attempt)
      /\ Len(attempts'[t]) = Len(attempts[t]) /\ Issued(t)' = Issued(t)
      /\ \A m \in Issued(t) : /\ attempts'[t][m].state = attempts[t][m].state
                              /\ attempts'[t][m].retry = attempts[t][m].retry
      /\ run' = run
  BY TickFacts DEF IInv, TypeOK, Tick
<1>2. (attempts'[t] = <<>>) <=> (attempts[t] = <<>>)
  BY <1>1, EmptySeq
<1>3. CASE attempts[t] = <<>>
  BY <1>1, <1>2, <1>3 DEF Seen
<1>4. CASE attempts[t] # <<>>
  <2>1. Len(attempts[t]) \in Issued(t)
    BY <1>4, LastFacts DEF IInv
  <2>2. Last(t)'.state = Last(t).state /\ Last(t)'.retry = Last(t).retry
    BY <1>1, <2>1 DEF Last
  <2> QED
    BY <1>1, <1>2, <2>2 DEF Seen
<1> QED
  BY <1>3, <1>4

-----------------------------------------------------------------------------
(* The queue implements the fenced result register.                        *)

TokenOf(t) == Len(attempts[t])
OpenTasks == {t \in Tasks : \E n \in Issued(t) : attempts[t][n].state = "running"}
ValueOf(t) == IF outcome[t] = NoOutcome THEN NoOutcome ELSE outcome[t].digest
Register == <<[t \in Tasks |-> TokenOf(t)], OpenTasks, [t \in Tasks |-> ValueOf(t)]>>

(* A token is open exactly when the last attempt is running.               *)
OpenMeansLastRunning == \A t \in Tasks : t \in OpenTasks <=> LastRunning(t)

LEMMA OpenIsLastRunning == IInv => OpenMeansLastRunning
<1> SUFFICES ASSUME IInv, NEW t \in Tasks PROVE t \in OpenTasks <=> LastRunning(t)
  BY DEF OpenMeansLastRunning
<1>1. ASSUME NEW n \in Issued(t), attempts[t][n].state = "running" PROVE LastRunning(t)
  <2>1. attempts[t][n].retry # "requested"
    BY <1>1 DEF IInv, TaskInv
  <2> QED
    BY <1>1, <2>1, OpenRowIsLast DEF LastRunning
<1>2. ASSUME LastRunning(t) PROVE t \in OpenTasks
  BY <1>2, LastFacts DEF IInv, OpenTasks, LastRunning, Last
<1> QED
  BY <1>1, <1>2 DEF OpenTasks

LEMMA OpenIsLastRunningNext == IInv' => OpenMeansLastRunning'
BY OpenIsLastRunning, PTL

(* A value is written exactly when there is an outcome.                    *)
LEMMA NoValueIsNoOutcome ==
  ASSUME LeaseQueueAssumption, IInv, NEW t \in Tasks
  PROVE  (ValueOf(t) = NoOutcome) <=> (outcome[t] = NoOutcome)
BY DEF IInv, TypeOK, ValueOf, Outcome, LeaseQueueAssumption

(* The register as the abstract specification sees it.                     *)
LEMMA FencedVars ==
  /\ Fenced!vars = Register
  /\ Fenced!vars' = Register'
BY DEF Fenced!vars, Register, TokenOf, OpenTasks, ValueOf

(* A step that writes one task's rows changes the register of that task    *)
(* alone.                                                                  *)
LEMMA RegisterFrame ==
  ASSUME IInv, IInv', NEW t \in Tasks,
         \A v \in Tasks : v # t => attempts'[v] = attempts[v] /\ outcome'[v] = outcome[v]
  PROVE  /\ [v \in Tasks |-> TokenOf(v)]' = [[v \in Tasks |-> TokenOf(v)] EXCEPT ![t] = TokenOf(t)']
         /\ [v \in Tasks |-> ValueOf(v)]' = [[v \in Tasks |-> ValueOf(v)] EXCEPT ![t] = ValueOf(t)']
         /\ OpenTasks' = IF LastRunning(t)' THEN OpenTasks \cup {t} ELSE OpenTasks \ {t}
<1>1. /\ [v \in Tasks |-> TokenOf(v)]' = [[v \in Tasks |-> TokenOf(v)] EXCEPT ![t] = TokenOf(t)']
      /\ [v \in Tasks |-> ValueOf(v)]' = [[v \in Tasks |-> ValueOf(v)] EXCEPT ![t] = ValueOf(t)']
  BY DEF TokenOf, ValueOf
<1>2. \A v \in Tasks : v # t => (v \in OpenTasks' <=> v \in OpenTasks)
  BY DEF OpenTasks, Issued
<1>3. t \in OpenTasks' <=> LastRunning(t)'
  BY OpenIsLastRunningNext DEF OpenMeansLastRunning
<1>4. OpenTasks \subseteq Tasks /\ OpenTasks' \subseteq Tasks
  BY DEF OpenTasks
<1> QED
  BY <1>1, <1>2, <1>3, <1>4

(* A row that stops running closes its token; a row whose failure is       *)
(* retried changes nothing the register shows.                             *)
LEMMA SetLastRefines ==
  ASSUME IInv, IInv', NEW t \in Tasks, NEW n \in Issued(t), n = Len(attempts[t]), NEW row \in Attempt,
         SetAttempt(t, n, row), row.state # "running", outcome' = outcome
  PROVE  IF LastRunning(t) THEN Fenced!Close(t) ELSE Register' = Register
<1>1. /\ \A v \in Tasks : v # t => attempts'[v] = attempts[v]
      /\ Len(attempts'[t]) = Len(attempts[t])
      /\ attempts'[t][n] = row
  BY SetAttemptFacts DEF IInv, TypeOK
<1>2. ~ LastRunning(t)'
  BY <1>1 DEF LastRunning, Last
<1>3. TokenOf(t)' = TokenOf(t) /\ ValueOf(t)' = ValueOf(t)
  BY <1>1 DEF TokenOf, ValueOf
<1>4. /\ [v \in Tasks |-> TokenOf(v)]' = [v \in Tasks |-> TokenOf(v)]
      /\ [v \in Tasks |-> ValueOf(v)]' = [v \in Tasks |-> ValueOf(v)]
      /\ OpenTasks' = OpenTasks \ {t}
  BY <1>1, <1>2, <1>3, RegisterFrame
<1>5. t \in OpenTasks <=> LastRunning(t)
  BY OpenIsLastRunning DEF OpenMeansLastRunning
<1>6. CASE LastRunning(t)
  BY <1>4, <1>5, <1>6 DEF Fenced!Close, TokenOf, OpenTasks, ValueOf
<1>7. CASE ~ LastRunning(t)
  BY <1>4, <1>5, <1>7 DEF Register
<1> QED
  BY <1>6, <1>7

(* A new row is a new token, open if it holds a lease.                     *)
LEMMA AddAttemptRefines ==
  ASSUME LeaseQueueAssumption, IInv, IInv', NEW t \in Tasks, NEW row \in Attempt,
         run[t] = "queued", AddAttempt(t, row), outcome' = outcome
  PROVE  Fenced!Issue(t, row.state = "running")
<1>1. /\ \A v \in Tasks : v # t => attempts'[v] = attempts[v]
      /\ Len(attempts'[t]) = Len(attempts[t]) + 1
      /\ attempts'[t][Len(attempts[t]) + 1] = row
  BY AddAttemptFacts DEF IInv, TypeOK
<1>2. Len(attempts[t]) \in Nat /\ Len(attempts[t]) < MaxAttempts /\ ~ LastRunning(t)
  BY QueuedHasRoom DEF IInv, TypeOK
<1>3. attempts'[t] # <<>>
  BY <1>1, <1>2
<1>4. LastRunning(t)' <=> row.state = "running"
  BY <1>1, <1>3 DEF LastRunning, Last
<1>5. TokenOf(t)' = TokenOf(t) + 1 /\ ValueOf(t)' = ValueOf(t)
  BY <1>1 DEF TokenOf, ValueOf
<1>6. /\ [v \in Tasks |-> TokenOf(v)]' = [[v \in Tasks |-> TokenOf(v)] EXCEPT ![t] = TokenOf(t) + 1]
      /\ [v \in Tasks |-> ValueOf(v)]' = [v \in Tasks |-> ValueOf(v)]
      /\ OpenTasks' = IF row.state = "running" THEN OpenTasks \cup {t} ELSE OpenTasks \ {t}
  BY <1>1, <1>4, <1>5, RegisterFrame
<1>7. t \notin OpenTasks
  BY <1>2, OpenIsLastRunning DEF OpenMeansLastRunning
<1>8. ValueOf(t) = NoOutcome
  BY NoValueIsNoOutcome DEF IInv, TaskInv
<1> QED
  BY <1>2, <1>6, <1>7, <1>8 DEF Fenced!Issue, TokenOf, OpenTasks, ValueOf

(* A recorded completion is the one write of the register.                 *)
LEMMA CompleteRefines ==
  ASSUME LeaseQueueAssumption, IInv, IInv', NEW t \in Tasks, NEW n \in Issued(t), NEW d \in Digests,
         Complete(t, n, d)
  PROVE  Fenced!Write(t, d)
<1>1. n = Len(attempts[t]) /\ attempts[t][n] \in Attempt /\ LastRunning(t)
  BY OpenRowIsLast DEF IInv, TypeOK, TaskInv, Complete, Live, Issued, LastRunning
<1>2. /\ SucceededAttempt(attempts[t][n]) \in Attempt
      /\ SucceededAttempt(attempts[t][n]).state = "succeeded"
  BY <1>1 DEF SucceededAttempt, Attempt, AttemptStates
<1>3. /\ \A v \in Tasks : v # t => attempts'[v] = attempts[v]
      /\ Len(attempts'[t]) = Len(attempts[t])
      /\ attempts'[t][n] = SucceededAttempt(attempts[t][n])
  BY <1>2, SetAttemptFacts DEF IInv, TypeOK, Complete
<1>4. ~ LastRunning(t)'
  BY <1>1, <1>2, <1>3 DEF LastRunning, Last
<1>5. outcome' = [outcome EXCEPT ![t] = [attempt |-> n, digest |-> d]] /\ outcome[t] = NoOutcome
  BY DEF Complete
<1>6. [attempt |-> n, digest |-> d] \in Outcome
  BY <1>1, LastFacts DEF IInv, Outcome, LastRunning
<1>7. TokenOf(t)' = TokenOf(t) /\ ValueOf(t)' = d /\ ValueOf(t) = NoOutcome
  BY <1>3, <1>5, <1>6 DEF TokenOf, ValueOf, IInv, TypeOK, LeaseQueueAssumption
<1>8. /\ [v \in Tasks |-> TokenOf(v)]' = [v \in Tasks |-> TokenOf(v)]
      /\ [v \in Tasks |-> ValueOf(v)]' = [[v \in Tasks |-> ValueOf(v)] EXCEPT ![t] = d]
      /\ OpenTasks' = OpenTasks \ {t}
  <2>1. \A v \in Tasks : v # t => outcome'[v] = outcome[v]
    BY <1>5 DEF IInv, TypeOK
  <2> QED
    BY <1>3, <1>4, <1>7, <2>1, RegisterFrame
<1>9. t \in OpenTasks
  BY <1>1, OpenIsLastRunning DEF OpenMeansLastRunning
<1> QED
  BY <1>7, <1>8, <1>9 DEF Fenced!Write, TokenOf, OpenTasks, ValueOf

(* The queue, with its clock, its states and its late calls, implements    *)
(* the fenced register.                                                    *)
THEOREM QueueIsFenced == Spec => ImplementsFencedResult
<1>0. LeaseQueueAssumption
  BY LeaseQueueAssumption
<1>1. Init => Fenced!Init
  BY DEF Init, Fenced!Init, Issued
<1>2. IInv /\ IInv' /\ [Next]_vars => [Fenced!Next]_(Fenced!vars)
  <2> SUFFICES ASSUME IInv, IInv', [Next]_vars PROVE Fenced!Next \/ Register' = Register
    BY FencedVars
  <2>1. ASSUME attempts' = attempts, outcome' = outcome PROVE Register' = Register
    BY <2>1 DEF Register, TokenOf, OpenTasks, ValueOf, Issued
  <2>2. ASSUME NEW t \in Tasks, ClaimReap(t) PROVE Fenced!Close(t)
    <3>1. Len(attempts[t]) \in Issued(t) /\ Last(t) \in Attempt
      BY <2>2, LastFacts DEF IInv, ClaimReap, LastRunning
    <3>2. /\ TimedOutAttempt(Last(t), Len(attempts[t])) \in Attempt
          /\ TimedOutAttempt(Last(t), Len(attempts[t])).state = "failed"
      BY <1>0, <3>1 DEF TimedOutAttempt, OfferedIf, Attempt, AttemptStates, LeaseQueueAssumption
    <3> QED
      BY <2>2, <3>1, <3>2, SetLastRefines DEF ClaimReap
  <2>3. ASSUME NEW t \in Tasks, ClaimRefuse(t) \/ ClaimIssue(t)
        PROVE  \E usable \in BOOLEAN : Fenced!Issue(t, usable)
    <3>1. RefusedAttempt \in Attempt /\ NewAttempt \in Attempt
      BY <1>0 DEF RefusedAttempt, NewAttempt, Attempt, AttemptStates, LeaseQueueAssumption
    <3>2. run[t] = "queued"
      BY <2>3, ChosenIsQueued DEF ClaimRefuse, ClaimIssue
    <3>3. \/ Fenced!Issue(t, RefusedAttempt.state = "running")
          \/ Fenced!Issue(t, NewAttempt.state = "running")
      BY <1>0, <2>3, <3>1, <3>2, AddAttemptRefines DEF ClaimRefuse, ClaimIssue
    <3> QED
      BY <3>3
  <2>4. ASSUME NEW t \in Tasks, NEW n \in Issued(t), NEW c \in Codes, Fail(t, n, c)
        PROVE  Fenced!Close(t)
    <3>0. attempts[t][n].retry # "requested"
      BY <2>4 DEF IInv, TaskInv, Fail, Live
    <3>1. n = Len(attempts[t]) /\ attempts[t][n] \in Attempt /\ LastRunning(t)
      BY <2>4, <3>0, OpenRowIsLast DEF IInv, TypeOK, Fail, Live, Issued, LastRunning
    <3>2. /\ FailedAttempt(attempts[t][n], n, c) \in Attempt
          /\ FailedAttempt(attempts[t][n], n, c).state = "failed"
      BY <3>1 DEF FailedAttempt, OfferedIf, Attempt, AttemptStates
    <3> QED
      BY <2>4, <3>1, <3>2, SetLastRefines DEF Fail
  <2>5. ASSUME NEW t \in Tasks, NEW n \in Issued(t), NEW d \in Digests, Complete(t, n, d)
        PROVE  Fenced!Write(t, d)
    BY <1>0, <2>5, CompleteRefines
  <2>6. ASSUME NEW t \in Tasks, NEW n \in Issued(t), Retry(t, n) PROVE Register' = Register
    <3> DEFINE row == [attempts[t][n] EXCEPT !.retry = "requested"]
    <3>1. n = Len(attempts[t]) /\ attempts[t][n] \in Attempt /\ attempts[t][n] = Last(t)
      BY <2>6, OpenRowIsLast DEF IInv, TypeOK, Retry, Issued
    <3>2. row \in Attempt /\ row.state = "failed" /\ ~ LastRunning(t)
      BY <2>6, <3>1 DEF Attempt, Retry, LastRunning
    <3> QED
      BY <2>6, <3>1, <3>2, SetLastRefines DEF Retry
  <2>7. ASSUME Tick PROVE Register' = Register
    <3>1. /\ outcome' = outcome
          /\ \A t \in Tasks :
               /\ Len(attempts'[t]) = Len(attempts[t])
               /\ Issued(t)' = Issued(t)
               /\ \A n \in Issued(t) : attempts'[t][n].state = attempts[t][n].state
      BY <1>0, <2>7, TickFacts DEF IInv, TypeOK, Tick
    <3>2. OpenTasks' = OpenTasks
      BY <3>1 DEF OpenTasks
    <3>3. /\ [t \in Tasks |-> TokenOf(t)]' = [t \in Tasks |-> TokenOf(t)]
          /\ [t \in Tasks |-> ValueOf(t)]' = [t \in Tasks |-> ValueOf(t)]
      BY <3>1 DEF TokenOf, ValueOf
    <3> QED
      BY <3>2, <3>3 DEF Register
  <2>8. \/ Register' = Register
        \/ \E t \in Tasks : \/ \E usable \in BOOLEAN : Fenced!Issue(t, usable)
                           \/ Fenced!Close(t)
                           \/ \E d \in Digests : Fenced!Write(t, d)
    BY <2>1, <2>2, <2>3, <2>4, <2>5, <2>6, <2>7
      DEF Next, Claim, Enqueue, SetTenant, SetMember, vars
  <2> QED
    BY <2>8 DEF Fenced!Next
<1> QED
  BY <1>1, <1>2, Invariance, PTL DEF Spec, ImplementsFencedResult, Fenced!Spec
=============================================================================
