------------------------------ MODULE BriefPanel ------------------------------
(***************************************************************************)
(* The page on which a member submits a brief and watches its chain        *)
(* (WorkflowBriefForm), the routes it calls and the reads behind them.     *)
(* The run of each stage is read in several statements, a refresh in       *)
(* several requests, and refreshes overlap: the one of the page's effect,  *)
(* of a click, of a submission.  Any request may fail; a POST, of a brief  *)
(* or of a retry, may also fail for its caller and still be carried out,   *)
(* then or later.                                                          *)
(*                                                                         *)
(* The database is what its readers see of it (RunRecords); that the three *)
(* queues and their triggers show no more is proved of ChainPipeline.      *)
(***************************************************************************)
EXTENDS Integers, FiniteSets

CONSTANTS
  Drafts,       \* contents the form may hold
  Ops,          \* requests of the page that may be under way at once
  MaxKeys,      \* bound: idempotency keys drawn
  MaxAttempts,  \* bound: by key and stage, attempts at its run
  None

\* None is neither a key nor an origin.
ASSUME BriefPanelAssumption ==
  /\ MaxKeys \in Nat /\ MaxAttempts \in [1 .. MaxKeys -> [1 .. 3 -> Nat]]
  /\ None \notin Int
  /\ None \notin [draft : Drafts, here : BOOLEAN]

VARIABLES
  db,       \* by key and stage: the run
  origin,   \* by key: the brief it was drawn for, and whether by this page
  late,     \* POSTs whose caller is gone and which would still do something
  form,     \* key of the last submission, busy, run in the address
  shown,    \* what is on the screen
  ops       \* the requests under way

vars == <<db, origin, late, form, shown, ops>>

Keys == 1 .. MaxKeys

\* The rows the page reads.
INSTANCE RunRecords

\* A request under way: where it is, of the read of which stage; what of a
\* run it has read; the attempt it retries or has found on offer; how many
\* later stages it has found.
NoOp == [kind |-> "none", key |-> None, at |-> "free", stage |-> 1, got |-> NoRow, offer |-> 0, found |-> 0]
Blank == [corrupt |-> FALSE, alone |-> TRUE, key |-> None, offer |-> 0, reel |-> None, calendar |-> None]
\* The attempt the page offers to retry, 0 for none.
Offer(run) == IF run.state = "failed" /\ run.offered THEN run.n ELSE 0

Init ==
  /\ RecordsInit
  /\ origin = [k \in Keys |-> None]
  /\ late = {}
  /\ form = [submission |-> None, busy |-> FALSE, address |-> None]
  /\ shown = Blank
  /\ ops = [o \in Ops |-> NoOp]

-----------------------------------------------------------------------------
(* The workers of the three queues, retries asked for elsewhere, and what  *)
(* is carried out late.                                                    *)
Elsewhere ==
  /\ \E k \in Keys, s \in Stages : RunStep(k, s)
  /\ late' = {post \in late : post[2] # 0 => Offer(db'[post[1]][1]) = post[2]}
  /\ UNCHANGED <<origin, form, shown, ops>>

\* An attempt is retried once: asked for again, retry_research_attempt
\* answers the same and does nothing.
Stands(k, offer) == offer # 0 /\ Offer(db[k][1]) = offer

\* What a POST does, by its key and the attempt it retries, 0 for that of a brief.
Effect(k, offer) ==
  IF offer = 0 THEN Submitted(k)
  ELSE IF Stands(k, offer) THEN Requeue(k, 1) ELSE UNCHANGED db
LateArrives(k, offer) ==
  /\ <<k, offer>> \in late /\ late' = late \ {<<k, offer>>}
  /\ Effect(k, offer)
  /\ UNCHANGED <<origin, form, shown, ops>>

-----------------------------------------------------------------------------
(* The form.                                                               *)
Free(o) == ops[o].at = "free"
Alone == \A o \in Ops : Free(o)
Start(o, op) == ops' = [ops EXCEPT ![o] = op]
Refresh(k) == [NoOp EXCEPT !.kind = "refresh", !.key = k, !.at = "state"]
\* POSTs on their way that would still do something if they arrived.
Outstanding(o) ==
  LET k == ops[o].key offer == ops[o].offer IN
    IF ops[o].at = "posting" /\ (IF offer = 0 THEN ~ Created(k) ELSE Stands(k, offer))
    THEN {<<k, offer>>} ELSE {}

\* The effect of the page: what the address names is refreshed.
Load ==
  /\ form' = [form EXCEPT !.submission = None, !.busy = FALSE]
  /\ origin' = [k \in Keys |-> IF origin[k] = None THEN None ELSE [origin[k] EXCEPT !.here = FALSE]]
  /\ shown' = Blank
  /\ \E first \in Ops :
       ops' = [o \in Ops |-> IF o = first /\ form.address # None THEN Refresh(form.address) ELSE NoOp]
  /\ late' = late \cup UNION {Outstanding(o) : o \in Ops}
  /\ UNCHANGED db

Unused(k) == origin[k] = None /\ \A j \in Keys : j < k => origin[j] # None
Post(o, k) ==
  /\ form' = [form EXCEPT !.busy = TRUE, !.submission = k]
  /\ Start(o, [NoOp EXCEPT !.kind = "submit", !.key = k, !.at = "posting"])
  /\ shown' = [shown EXCEPT !.alone = Alone]
  /\ UNCHANGED <<db, late>>
SubmitAlwaysDraws(o, d) ==   \* mutant: every submission draws a new key
  /\ ~ form.busy /\ Free(o)
  /\ \E k \in Keys :
       Unused(k) /\ origin' = [origin EXCEPT ![k] = [draft |-> d, here |-> TRUE]] /\ Post(o, k)
(* The button, with d in the form.  A key is drawn when the content        *)
(* differs from that of the last submission of this page, and used again   *)
(* when it does not.                                                       *)
Submit(o, d) ==
  /\ ~ form.busy /\ Free(o)
  /\ \E k \in Keys :
       /\ IF form.submission # None /\ origin[form.submission].draft = d
          THEN k = form.submission /\ UNCHANGED origin
          ELSE Unused(k) /\ origin' = [origin EXCEPT ![k] = [draft |-> d, here |-> TRUE]]
       /\ Post(o, k)

\* Offered while the shown run has failed and its attempt may be retried.
RetryButton(o) ==
  /\ ~ form.busy /\ Free(o)
  /\ shown.offer # 0
  /\ form' = [form EXCEPT !.busy = TRUE]
  /\ Start(o, [NoOp EXCEPT !.kind = "retry", !.key = shown.key, !.at = "posting", !.offer = shown.offer])
  /\ shown' = [shown EXCEPT !.alone = Alone]
  /\ UNCHANGED <<db, origin, late>>

\* Refresh status: disabled while busy, but does not make the form busy.
RefreshButton(o) ==
  /\ ~ form.busy /\ Free(o) /\ shown.key # None
  /\ Start(o, Refresh(shown.key))
  /\ shown' = [shown EXCEPT !.alone = Alone]
  /\ UNCHANGED <<db, origin, late, form>>

-----------------------------------------------------------------------------
(* A request under way.                                                    *)
Released(o) == IF ops[o].kind = "refresh" THEN form ELSE [form EXCEPT !.busy = FALSE]
End(o) == ops' = [ops EXCEPT ![o] = NoOp] /\ form' = Released(o)

\* The line of the page, or of the chain, says what went wrong.
Broken(o, code) ==
  /\ End(o)
  /\ shown' = [shown EXCEPT !.corrupt = code = "invalid_contract", !.alone = FALSE]

\* The network, the session, the database: any of them may fail a request.
RequestFails(o) ==
  /\ ops[o].at # "free"
  /\ Broken(o, "failed")
  /\ late' = late \cup Outstanding(o)
  /\ UNCHANGED <<db, origin>>

SubmitArrives(o) ==
  /\ ops[o].kind = "submit" /\ ops[o].at = "posting"
  /\ Effect(ops[o].key, 0)
  /\ late' = late \ {<<ops[o].key, 0>>}
  /\ Start(o, [ops[o] EXCEPT !.at = "accepted"])
  /\ UNCHANGED <<origin, form, shown>>

\* The answer: the address names the run, and the run is refreshed.
SubmitAccepted(o) ==
  /\ ops[o].at = "accepted"
  /\ form' = [form EXCEPT !.address = ops[o].key]
  /\ Start(o, [ops[o] EXCEPT !.kind = "post", !.at = "state"])
  /\ UNCHANGED <<db, origin, late, shown>>

\* The answer to a retry: the run is refreshed.
RetryAccepted(o) ==
  /\ ops[o].kind = "retry" /\ ops[o].at = "posting"
  /\ Start(o, [ops[o] EXCEPT !.kind = "post", !.at = "state", !.offer = 0])
  /\ late' = late \ {<<ops[o].key, ops[o].offer>>}
  /\ UNCHANGED <<origin, form, shown>>
RetryArrivesUnchecked(o) ==   \* mutant: the command does not look whether the offer still stands
  RetryAccepted(o) /\ Requeue(ops[o].key, 1)
RetryArrives(o) == RetryAccepted(o) /\ Effect(ops[o].key, ops[o].offer)

-----------------------------------------------------------------------------
(* Reading the run of a stage: its state, then its last attempt, then, if  *)
(* it has succeeded, the artifact.                                         *)
Run(o) == db[ops[o].key][ops[o].stage]

ReadAttemptFirst(o) ==   \* mutant: the attempt is read before the run
  /\ ops[o].at = "state"
  /\ Start(o, [ops[o] EXCEPT !.at = "attempt", !.got = [Run(o) EXCEPT !.state = "none"]])
  /\ UNCHANGED <<db, origin, late, form, shown>>
ReadState(o) ==
  /\ ops[o].at = "state"
  /\ Start(o, [ops[o] EXCEPT !.at = "attempt", !.got = [NoRow EXCEPT !.state = Run(o).state]])
  /\ UNCHANGED <<db, origin, late, form, shown>>

\* Only the page of the research run offers a retry.
ReadAttempt(o) ==
  /\ ops[o].at = "attempt"
  /\ LET got == IF ops[o].got.state = "none" THEN [ops[o].got EXCEPT !.state = Run(o).state]
                ELSE [Run(o) EXCEPT !.state = ops[o].got.state]
     IN Start(o, IF got.state = "succeeded" THEN [ops[o] EXCEPT !.got = got, !.at = "outcome"]
                 ELSE [ops[o] EXCEPT !.got = NoRow, !.at = "read",
                                     !.offer = IF ops[o].stage = 1 THEN Offer(got) ELSE 0])
  /\ UNCHANGED <<db, origin, late, form, shown>>

(* The artifact, whose attempt, the one that succeeded, must be the one    *)
(* read before, and read as succeeded.  Of a later stage it must also cite *)
(* the revision that the brief of its task names, which is read last: both *)
(* are written once and compared when the attempt is completed, so when    *)
(* they are read makes no difference.                                      *)
ReadOutcome(o) ==
  /\ ops[o].at = "outcome"
  /\ IF ops[o].got.n = Run(o).n /\ ops[o].got.last = "succeeded"
     THEN Start(o, [ops[o] EXCEPT !.got = NoRow, !.at = "read"]) /\ UNCHANGED <<form, shown>>
     ELSE Broken(o, "invalid_contract")
  /\ UNCHANGED <<db, origin, late>>

\* The three reads: the same statements, on the tables of their stage.
ReadStatement(o) == ReadState(o) \/ ReadAttempt(o) \/ ReadOutcome(o)
ReadRun(o) == ops[o].stage = 1 /\ ReadStatement(o)
ReadReel(o) == ops[o].stage = 2 /\ ReadStatement(o)
ReadCalendar(o) == ops[o].stage = 3 /\ ReadStatement(o)

\* The page shows the run and asks for the chain.
ShowRun(o) ==
  /\ ops[o].at = "read" /\ ops[o].stage = 1
  /\ shown' = [shown EXCEPT !.key = ops[o].key, !.offer = ops[o].offer]
  /\ Start(o, [ops[o] EXCEPT !.at = "chain", !.offer = 0])
  /\ UNCHANGED <<db, origin, late, form>>

\* readWorkflowChain: which later stages have a run.  Runs are never deleted,
\* so its two reads find what one read at one of the two moments finds.
Later(k) == Cardinality({s \in 2 .. 3 : db[k][s].state # "none"})
ReadChain(o) ==
  /\ ops[o].at = "chain"
  /\ Start(o, [ops[o] EXCEPT !.at = "found", !.found = Later(ops[o].key)])
  /\ UNCHANGED <<db, origin, late, form, shown>>

\* What has a run is read and shown; what has none is cleared.
ReadStage(o, s) == Start(o, [ops[o] EXCEPT !.at = "state", !.stage = s])
ShowChain(o) ==
  /\ ops[o].at = "found"
  /\ IF ops[o].found = 0
     THEN shown' = [shown EXCEPT !.reel = None, !.calendar = None] /\ End(o)
     ELSE ReadStage(o, 2) /\ UNCHANGED <<form, shown>>
  /\ UNCHANGED <<db, origin, late>>

ShowReelOnly(o) ==   \* mutant: a calendar that has not started is left as it was
  /\ ops[o].at = "read" /\ ops[o].stage = 2
  /\ shown' = [shown EXCEPT !.reel = ops[o].key]
  /\ IF ops[o].found = 1 THEN End(o) ELSE ReadStage(o, 3) /\ UNCHANGED form
  /\ UNCHANGED <<db, origin, late>>
ShowReel(o) ==
  /\ ops[o].at = "read" /\ ops[o].stage = 2
  /\ IF ops[o].found = 1
     THEN shown' = [shown EXCEPT !.reel = ops[o].key, !.calendar = None] /\ End(o)
     ELSE shown' = [shown EXCEPT !.reel = ops[o].key] /\ ReadStage(o, 3) /\ UNCHANGED form
  /\ UNCHANGED <<db, origin, late>>

ShowCalendar(o) ==
  /\ ops[o].at = "read" /\ ops[o].stage = 3
  /\ shown' = [shown EXCEPT !.calendar = ops[o].key]
  /\ End(o)
  /\ UNCHANGED <<db, origin, late>>

-----------------------------------------------------------------------------
Answer(o) ==
  \/ SubmitArrives(o) \/ SubmitAccepted(o) \/ RetryArrives(o)
  \/ ReadRun(o) \/ ReadReel(o) \/ ReadCalendar(o)
  \/ ShowRun(o) \/ ReadChain(o) \/ ShowChain(o) \/ ShowReel(o) \/ ShowCalendar(o)

User ==
  \/ Load
  \/ \E o \in Ops : (\E d \in Drafts : Submit(o, d)) \/ RetryButton(o) \/ RefreshButton(o)

Next ==
  \/ User
  \/ Elsewhere
  \/ \E post \in late : LateArrives(post[1], post[2])
  \/ \E o \in Ops : Answer(o) \/ RequestFails(o)

Spec == Init /\ [][Next]_vars

-----------------------------------------------------------------------------
(* Within one page a brief that is sent again, after an error, a lost      *)
(* answer or an answer that is still to come, does not become a second     *)
(* run: two runs of one page for the same content lie on two sides of      *)
(* another content.                                                        *)
OneRunPerBrief ==
  \A j, k \in Keys :
    j < k /\ Created(j) /\ Created(k) /\ origin[j] = origin[k] /\ origin[j].here =>
      \E i \in j .. k : origin[i].draft # origin[j].draft

(* Reading a run of any stage in separate statements never looks like      *)
(* corrupt data: the order of the statements is such that nothing a worker *)
(* or a retry does in between makes the artifact and the attempt disagree. *)
ReadsNeverTrip == ~ shown.corrupt

(* A finished or running run is not set back, whatever an old screen still *)
(* offers and however late a retry that was given up arrives.              *)
RetryOnlyWhatFailed ==
  [][\A k \in Keys, s \in Stages :
       db[k][s].state \in {"running", "succeeded"} => db'[k][s].state # "queued"]_vars

(* A refresh that was alone from its first request to its last, and met no *)
(* error, leaves one chain on the screen: every later stage shown belongs  *)
(* to the run shown.                                                       *)
LoneRefreshIsCoherent ==
  Alone /\ shown.alone => {shown.reel, shown.calendar} \subseteq {None, shown.key}
=============================================================================
