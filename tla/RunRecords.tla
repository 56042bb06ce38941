------------------------------ MODULE RunRecords ------------------------------
(***************************************************************************)
(* What the tables tell a reader of the chain of a brief: the run of each  *)
(* of its three stages (research, reel analysis, content calendar) and the *)
(* last attempt at it.  No leases, no members and no workers: every step   *)
(* is one a reader can see.  BriefPanel reads these records; ChainPipeline *)
(* keeps them.                                                             *)
(***************************************************************************)
EXTENDS Naturals

CONSTANTS
  Keys,        \* the idempotency keys of briefs
  MaxAttempts  \* by key and stage: attempts at its run

VARIABLE db    \* by key and stage: the run

Stages == 1 .. 3

\* A run: its state, number and state of its last attempt, whether a retry is on offer.
Row(state, n, last, offered) == [state |-> state, n |-> n, last |-> last, offered |-> offered]
NoRow == Row("none", 0, "none", FALSE)
Queued == Row("queued", 0, "none", FALSE)
RecordsInit == db = [k \in Keys |-> [s \in Stages |-> NoRow]]

Created(k) == db[k][1].state # "none"
SetRun(k, s, row) == db' = [db EXCEPT ![k][s] = row]

\* submit_research_brief under a key: made once, found again afterwards.
Submitted(k) == IF Created(k) THEN UNCHANGED db ELSE SetRun(k, 1, Queued)

\* A claim hands out an attempt, or spends it on a requester without authority.
Claim(k, s) ==
  /\ db[k][s].state = "queued" /\ db[k][s].n < MaxAttempts[k][s]
  /\ \E state \in {"running", "failed"} :
       SetRun(k, s, Row(state, db[k][s].n + 1, state, FALSE))
Fail(k, s) ==
  /\ db[k][s].state = "running"
  /\ \E offered \in BOOLEAN :
       /\ offered => db[k][s].n < MaxAttempts[k][s]
       /\ SetRun(k, s, Row("failed", db[k][s].n, "failed", offered))

\* A retry of what has failed, as its row offers it.
Offered(k, s) == db[k][s].state = "failed" /\ db[k][s].offered
Requeue(k, s) == SetRun(k, s, Row("queued", db[k][s].n, db[k][s].last, FALSE))

\* The run of the next stage comes with the completion of the one before.
Complete(k, s) ==
  /\ db[k][s].state = "running"
  /\ db' = [db EXCEPT ![k] = [t \in Stages |->
       CASE t = s     -> Row("succeeded", db[k][s].n, "succeeded", FALSE)
         [] t = s + 1 -> Queued
         [] OTHER     -> db[k][t]]]

RunStep(k, s) == Claim(k, s) \/ Fail(k, s) \/ Complete(k, s) \/ (Offered(k, s) /\ Requeue(k, s))
RecordsNext == \E k \in Keys : Submitted(k) \/ \E s \in Stages : RunStep(k, s)
RecordsSpec == RecordsInit /\ [][RecordsNext]_db
=============================================================================
