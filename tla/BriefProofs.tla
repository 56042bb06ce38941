------------------------------ MODULE BriefProofs ------------------------------
(***************************************************************************)
(* What a member can rely on when a brief is submitted: at the page that   *)
(* submits it and watches its run (BriefPanel), for any contents, any      *)
(* number of keys, attempts and overlapping requests; and in the database  *)
(* that admits it (UsageAllowance), for any members, keys, months and any  *)
(* number of sessions.                                                     *)
(*                                                                         *)
(* The panel's properties are about what is shown. They hold because of    *)
(* what is not: which keys the page drew itself and for what, and what a   *)
(* read that is still on its way has found. IInv says both. That a run     *)
(* found finished is finished as it was found (RunsGoOn) is what makes     *)
(* reading it in several statements safe.                                  *)
(*                                                                         *)
(* The first two properties of the submission rest on one fact: past its   *)
(* first statement it holds the tenant row, so what it has read of the     *)
(* tenant, of the membership and of the key is still so (SubmissionInv).   *)
(* The third is about a count that others write meanwhile: rows are added  *)
(* one at a time and add tokens, so that the count stays finite and what   *)
(* is used up stays used up (SpentInv).                                    *)
(***************************************************************************)
EXTENDS BriefPanel, UsageAllowance, FiniteSetTheorems, TLAPS

-----------------------------------------------------------------------------
(* The page.                                                               *)
\* The records of the panel, with the values their fields may have.
States == {"none", "queued", "running", "failed", "succeeded"}
RunRows == [state : States, n : Nat, last : States, offered : BOOLEAN]
Chains == [Stages -> RunRows]
Origins == [draft : Drafts, here : BOOLEAN]
KeyOrNone == Keys \cup {None}
Kinds == {"none", "submit", "retry", "post", "refresh"}
Places == {"free", "posting", "accepted", "state", "attempt", "outcome", "read", "chain", "found"}
Requests ==
  [kind : Kinds, key : KeyOrNone, at : Places, stage : Stages, got : RunRows, offer : Nat, found : 0 .. 2]
Screens == [corrupt : BOOLEAN, alone : BOOLEAN, key : KeyOrNone, offer : Nat, reel : KeyOrNone, calendar : KeyOrNone]
Forms == [submission : KeyOrNone, busy : BOOLEAN, address : KeyOrNone]

PanelTypeOK ==
  /\ db \in [Keys -> Chains]
  /\ origin \in [Keys -> Origins \cup {None}]
  /\ late \subseteq Keys \X Nat
  /\ form \in Forms
  /\ shown \in Screens
  /\ ops \in [Ops -> Requests]

\* A key that has been drawn, and one the page that is open has drawn itself.
Drawn(k) == origin[k] # None
Here(k) == Drawn(k) /\ origin[k].here
\* Keys are drawn in order; the page that is open drew the last ones, and
\* never two in a row for one content.
OriginInv ==
  /\ \A j, k \in Keys : j < k /\ Drawn(k) => Drawn(j)
  /\ \A j, k \in Keys : j < k /\ Here(j) /\ Drawn(k) => Here(k)
  /\ \A k \in Keys : Here(k) /\ k + 1 \in Keys /\ Drawn(k + 1) => origin[k].draft # origin[k + 1].draft
\* The form remembers the key it drew last, and no key has been drawn since.
FormInv ==
  /\ \A k \in Keys : Here(k) => form.submission # None
  /\ form.submission # None =>
       Here(form.submission) /\ \A k \in Keys : form.submission < k => ~ Drawn(k)
\* The address of the page names a run only when there is one.
AddressInv == form.address # None => Created(form.address)
\* A finished run has a finished attempt, and a run of a later stage comes
\* only of a finished one.
RowsInv ==
  /\ \A k \in Keys, s \in Stages : db[k][s].state = "succeeded" => db[k][s].last = "succeeded"
  /\ \A k \in Keys, s \in 1 .. 2 : db[k][s].state # "succeeded" => db[k][s + 1].state = "none"
\* A run is that of a key.
RunInv == \A k \in Keys : Created(k) => Drawn(k)
LateInv == \A post \in late : Drawn(post[1])
\* What is shown is a run, and only with it a retry of it.
ShownInv ==
  /\ ~ shown.corrupt
  /\ shown.key # None => Created(shown.key)
  /\ shown.offer # 0 => shown.key # None
\* The first n stages of a chain have a run.
Begun(k, n) == \A s \in Stages : s <= n => db[k][s].state # "none"
\* A request is about a key, and about a run unless it is a submission on its
\* way; it reads the stages it has found, and knows of the run it reads what
\* is still so: a finished run stays as it was found.
Request(o) ==
  LET r == ops[o] IN
    /\ r.at = "free" => r.kind = "none"
    /\ r.at # "free" => r.key # None /\ Drawn(r.key) /\ r.stage <= r.found + 1
    /\ r.at # "free" => Begun(r.key, r.found + 1) \/ (r.kind = "submit" /\ r.at = "posting" /\ r.found = 0)
    /\ r.at \in {"chain", "found"} => r.stage = 1
    /\ r.kind = "retry" => r.offer # 0 /\ r.at = "posting"
    /\ r.at = "attempt" => r.got.state # "none" /\ (r.got.state = "succeeded" => Run(o).state = "succeeded")
    /\ r.at = "outcome" => Run(o).state = "succeeded" /\ r.got.n = Run(o).n /\ r.got.last = "succeeded"
RequestInv == \A o \in Ops : Request(o)
\* While a refresh is alone, what it has shown already belongs to its run.
Busy(o) == ops[o].at # "free"
PastTheRun(o) == ops[o].at \in {"chain", "found"} \/ (Busy(o) /\ ops[o].stage # 1)
AloneInv ==
  shown.alone =>
    /\ \A o, p \in Ops : Busy(o) /\ Busy(p) => o = p
    /\ \A o \in Ops :
         /\ PastTheRun(o) => shown.key = ops[o].key
         /\ Busy(o) /\ ops[o].stage = 3 => shown.reel = shown.key
    /\ Alone => {shown.reel, shown.calendar} \subseteq {None, shown.key}

\* The inductive invariant: the properties say little of the keys, of the
\* form that draws them and of what a read on its way has found, and rest on
\* it.
IInv ==
  /\ OriginInv /\ FormInv /\ AddressInv /\ RowsInv /\ RunInv
  /\ LateInv /\ ShownInv /\ RequestInv /\ AloneInv

-----------------------------------------------------------------------------
(* The records.                                                            *)
\* What a step may do to a run: it comes to be and stays, a finished run does
\* not change, and a running one is not set back.
RunsGoOn ==
  \A k \in Keys, s \in Stages :
    /\ db[k][s].state # "none" => db'[k][s].state # "none"
    /\ db[k][s].state = "succeeded" => db'[k][s] = db[k][s]
    /\ db[k][s].state \in {"running", "succeeded"} => db'[k][s].state # "queued"

\* A step of the records keeps them sound.
GoesOn == RunsGoOn /\ RowsInv' /\ db' \in [Keys -> Chains]

(* A row of a run.                                                         *)
LEMMA RowTyped ==
  ASSUME NEW state \in States, NEW n \in Nat, NEW last \in States, NEW offered \in BOOLEAN
  PROVE  /\ Row(state, n, last, offered) \in RunRows
         /\ Row(state, n, last, offered).state = state
         /\ Row(state, n, last, offered).last = last
BY DEF Row, RunRows

(* A change of the run of one stage that neither makes nor ends it.        *)
LEMMA SetRunGoesOn ==
  ASSUME db \in [Keys -> Chains], RowsInv, NEW k \in Keys, NEW s \in Stages, NEW row \in RunRows, SetRun(k, s, row),
         db[k][s].state # "succeeded", row.state \notin {"none", "succeeded"},
         db[k][s].state = "running" => row.state # "queued",
         db[k][s].state # "none" \/ s = 1
  PROVE  GoesOn /\ db'[k][s] = row /\ \A j \in Keys, t \in Stages : j # k \/ t # s => db'[j][t] = db[j][t]
<1>1. /\ db' \in [Keys -> Chains] /\ db'[k][s] = row
      /\ \A j \in Keys, t \in Stages : j # k \/ t # s => db'[j][t] = db[j][t]
  BY DEF SetRun, Chains
<1>2. RunsGoOn
  BY <1>1 DEF RunsGoOn
<1>3. RowsInv'
  <2>1. ASSUME NEW j \in Keys, NEW t \in Stages, db'[j][t].state = "succeeded"
        PROVE  db'[j][t].last = "succeeded"
    BY <1>1, <2>1 DEF RowsInv
  <2>2. ASSUME NEW j \in Keys, NEW t \in 1 .. 2, db'[j][t].state # "succeeded"
        PROVE  db'[j][t + 1].state = "none"
    <3>1. t \in Stages /\ t + 1 \in Stages /\ t + 1 # t
      BY DEF Stages
    <3>2. CASE j = k /\ t = s
      <4>1. db[j][t + 1].state = "none"
        BY <3>2 DEF RowsInv
      <4> QED
        BY <1>1, <3>1, <3>2, <4>1
    <3>3. CASE j = k /\ t + 1 = s
      <4>1. db[j][t + 1].state # "none"
        BY <3>1, <3>3 DEF Stages
      <4>2. db[j][t].state # "succeeded"
        BY <1>1, <2>2, <3>1, <3>3
      <4> QED
        BY <4>1, <4>2 DEF RowsInv
    <3>4. CASE j # k \/ (t # s /\ t + 1 # s)
      BY <1>1, <2>2, <3>1, <3>4 DEF RowsInv
    <3> QED
      BY <3>2, <3>3, <3>4
  <2> QED
    BY <2>1, <2>2 DEF RowsInv
<1> QED
  BY <1>1, <1>2, <1>3 DEF GoesOn

(* A completion makes the run of the next stage, which had none.           *)
LEMMA CompleteGoesOn ==
  ASSUME db \in [Keys -> Chains], RowsInv, NEW k \in Keys, NEW s \in Stages, Complete(k, s)
  PROVE  GoesOn /\ \A j \in Keys : Created(j)' => Created(j)
<1> DEFINE done == Row("succeeded", db[k][s].n, "succeeded", FALSE)
<1>0. /\ db[k][s].state = "running" /\ db[k][s] \in RunRows /\ db[k] \in Chains
      /\ db' = [db EXCEPT ![k] = [t \in Stages |->
           CASE t = s -> done [] t = s + 1 -> Queued [] OTHER -> db[k][t]]]
  BY DEF Complete, Chains
<1>1. done \in RunRows /\ done.state = "succeeded" /\ done.last = "succeeded"
  BY <1>0 DEF Row, RunRows, States
<1>2. Queued \in RunRows /\ Queued.state = "queued"
  BY DEF Queued, Row, RunRows, States
<1> HIDE DEF done
<1>3. \A j \in Keys, t \in Stages :
        db'[j][t] = IF j # k THEN db[j][t]
                    ELSE IF t = s THEN done ELSE IF t = s + 1 THEN Queued ELSE db[j][t]
  <2>1. PICK chain : chain = [t \in Stages |->
          CASE t = s -> done [] t = s + 1 -> Queued [] OTHER -> db[k][t]]
    OBVIOUS
  <2>2. ASSUME NEW t \in Stages
        PROVE  chain[t] = IF t = s THEN done ELSE IF t = s + 1 THEN Queued ELSE db[k][t]
    <3>1. chain[t] = CASE t = s -> done [] t = s + 1 -> Queued [] OTHER -> db[k][t]
      BY <2>1
    <3>2. s + 1 # s
      BY DEF Stages
    <3> QED
      BY <3>1, <3>2
  <2>3. db' = [db EXCEPT ![k] = chain]
    BY <1>0, <2>1
  <2> QED
    BY <2>2, <2>3
<1>4. db' \in [Keys -> Chains]
  <2>1. \A t \in Stages : (CASE t = s -> done [] t = s + 1 -> Queued [] OTHER -> db[k][t]) \in RunRows
    BY <1>0, <1>1, <1>2 DEF Chains
  <2>2. [t \in Stages |-> CASE t = s -> done [] t = s + 1 -> Queued [] OTHER -> db[k][t]] \in Chains
    BY <2>1 DEF Chains
  <2> QED
    BY <1>0, <2>2
<1>5. s + 1 \in Stages => s \in 1 .. 2 /\ db[k][s + 1].state = "none"
  BY <1>0 DEF RowsInv, Stages
<1>6. RunsGoOn
  BY <1>0, <1>1, <1>2, <1>3, <1>5 DEF RunsGoOn
<1>7. RowsInv'
  <2>1. ASSUME NEW j \in Keys, NEW t \in Stages, db'[j][t].state = "succeeded"
        PROVE  db'[j][t].last = "succeeded"
    BY <1>1, <1>2, <1>3, <2>1 DEF RowsInv
  <2>2. ASSUME NEW j \in Keys, NEW t \in 1 .. 2, db'[j][t].state # "succeeded"
        PROVE  db'[j][t + 1].state = "none"
    <3>1. t \in Stages /\ t + 1 \in Stages /\ t + 1 # t
      BY DEF Stages
    <3>2. CASE j # k
      BY <1>3, <2>2, <3>1, <3>2 DEF RowsInv
    <3>3. CASE j = k /\ t = s
      BY <1>1, <1>3, <2>2, <3>1, <3>3
    <3>4. CASE j = k /\ t + 1 = s
      <4>1. db[j][t].state = "succeeded"
        BY <1>0, <3>4 DEF RowsInv
      <4>2. db'[j][t] = db[j][t]
        BY <1>3, <3>1, <3>4 DEF Stages
      <4> QED
        BY <2>2, <4>1, <4>2
    <3>5. CASE j = k /\ t # s /\ t + 1 # s
      <4>1. t + 1 # s + 1
        BY <3>5 DEF Stages
      <4>2. db'[j][t + 1] = db[j][t + 1]
        BY <1>3, <3>1, <3>5, <4>1
      <4>3. db[j][t].state # "succeeded"
        <5>1. CASE t = s + 1
          BY <1>5, <3>1, <3>5, <5>1
        <5>2. CASE t # s + 1
          BY <1>3, <2>2, <3>1, <3>5, <5>2
        <5> QED
          BY <5>1, <5>2
      <4> QED
        BY <4>2, <4>3 DEF RowsInv
    <3> QED
      BY <3>2, <3>3, <3>4, <3>5
  <2> QED
    BY <2>1, <2>2 DEF RowsInv
<1>8. \A j \in Keys : Created(j)' => Created(j)
  <2>1. 1 \in Stages /\ (1 = s + 1 => FALSE)
    BY DEF Stages
  <2> QED
    BY <1>0, <1>3, <2>1 DEF Created
<1> QED
  BY <1>4, <1>6, <1>7, <1>8 DEF GoesOn

LEMMA RunStepGoesOn ==
  ASSUME db \in [Keys -> Chains], RowsInv, NEW k \in Keys, NEW s \in Stages, RunStep(k, s)
  PROVE  GoesOn /\ \A j \in Keys : Created(j)' => Created(j)
<1>1. db[k][s] \in RunRows
  BY DEF Chains
<1>2. ASSUME NEW row \in RunRows, SetRun(k, s, row),
             db[k][s].state \notin {"none", "succeeded"}, row.state \notin {"none", "succeeded"},
             db[k][s].state = "running" => row.state # "queued"
      PROVE  GoesOn /\ \A j \in Keys : Created(j)' => Created(j)
  <2>1. /\ GoesOn
        /\ \A j \in Keys, t \in Stages : j # k \/ t # s => db'[j][t] = db[j][t]
    BY <1>2, SetRunGoesOn
  <2> QED
    BY <1>2, <2>1 DEF Created, Stages
<1>3. CASE Claim(k, s)
  <2>1. PICK state \in {"running", "failed"} : SetRun(k, s, Row(state, db[k][s].n + 1, state, FALSE))
    BY <1>3, Zenon DEF Claim
  <2>2. PICK row : row = Row(state, db[k][s].n + 1, state, FALSE)
    OBVIOUS
  <2>3. row \in RunRows /\ row.state \in {"running", "failed"}
    BY <1>1, <2>2 DEF Row, RunRows, States
  <2>4. db[k][s].state = "queued"
    BY <1>3 DEF Claim
  <2> QED
    BY <1>2, <2>1, <2>2, <2>3, <2>4
<1>4. CASE Fail(k, s)
  <2>1. PICK offered \in BOOLEAN : SetRun(k, s, Row("failed", db[k][s].n, "failed", offered))
    BY <1>4, Zenon DEF Fail
  <2>2. PICK row : row = Row("failed", db[k][s].n, "failed", offered)
    OBVIOUS
  <2>3. row \in RunRows /\ row.state = "failed"
    BY <1>1, <2>2, RowTyped DEF RunRows, States
  <2>4. db[k][s].state = "running"
    BY <1>4 DEF Fail
  <2> QED
    BY <1>2, <2>1, <2>2, <2>3, <2>4
<1>5. CASE Offered(k, s) /\ Requeue(k, s)
  <2>1. PICK row : row = Row("queued", db[k][s].n, db[k][s].last, FALSE)
    OBVIOUS
  <2>2. row \in RunRows /\ row.state = "queued"
    BY <1>1, <2>1 DEF Row, RunRows, States
  <2>3. db[k][s].state = "failed" /\ SetRun(k, s, row)
    BY <1>5, <2>1 DEF Offered, Requeue
  <2> QED
    BY <1>2, <2>2, <2>3
<1> QED
  BY <1>3, <1>4, <1>5, CompleteGoesOn DEF RunStep

LEMMA SubmittedGoesOn ==
  ASSUME db \in [Keys -> Chains], RowsInv, NEW k \in Keys, Submitted(k)
  PROVE  GoesOn /\ Created(k)' /\ \A j \in Keys : Created(j)' => Created(j) \/ j = k
<1>1. Queued \in RunRows /\ Queued.state = "queued" /\ 1 \in Stages
  BY DEF Queued, Row, RunRows, States, Stages
<1>2. CASE Created(k)
  <2>1. db' = db
    BY <1>2 DEF Submitted
  <2> QED
    BY <1>2, <2>1 DEF GoesOn, RunsGoOn, RowsInv, Created
<1>3. CASE ~ Created(k)
  <2>1. SetRun(k, 1, Queued) /\ db[k][1].state = "none"
    BY <1>3 DEF Submitted, Created
  <2> QED
    BY <1>1, <2>1, SetRunGoesOn DEF Created
<1> QED
  BY <1>2, <1>3

\* What a POST does that arrives, in time or late.
LEMMA EffectGoesOn ==
  ASSUME db \in [Keys -> Chains], RowsInv, NEW k \in Keys, NEW offer \in Nat, Effect(k, offer)
  PROVE  /\ GoesOn
         /\ \A j \in Keys : Created(j)' => Created(j) \/ j = k
         /\ offer = 0 => Created(k)'
         /\ RecordsNext \/ db' = db
<1>1. CASE offer = 0
  <2>1. Submitted(k)
    BY <1>1 DEF Effect
  <2> QED
    BY <2>1, SubmittedGoesOn DEF RecordsNext
<1>2. CASE offer # 0 /\ Stands(k, offer)
  <2>1. Offered(k, 1) /\ Requeue(k, 1)
    BY <1>2 DEF Effect, Stands, Offer, Offered
  <2>2. 1 \in Stages /\ RunStep(k, 1)
    BY <2>1 DEF RunStep, Stages
  <2> QED
    BY <1>2, <2>2, RunStepGoesOn DEF RecordsNext
<1>3. CASE offer # 0 /\ ~ Stands(k, offer)
  <2>1. db' = db
    BY <1>3 DEF Effect
  <2> QED
    BY <1>3, <2>1 DEF GoesOn, RunsGoOn, RowsInv, Created
<1> QED
  BY <1>1, <1>2, <1>3

-----------------------------------------------------------------------------
(* Each action keeps the types.                                            *)
LEMMA OpTyped ==
  ASSUME PanelTypeOK, NEW o \in Ops, NEW op \in Requests, Start(o, op)
  PROVE  ops' \in [Ops -> Requests] /\ ops'[o] = op /\ \A p \in Ops : p # o => ops'[p] = ops[p]
BY DEF PanelTypeOK, Start

LEMMA Names ==
  /\ {"none", "submit", "retry", "post", "refresh"} \subseteq Kinds
  /\ {"free", "posting", "accepted", "state", "attempt", "outcome", "read", "chain", "found"} \subseteq Places
  /\ None \in KeyOrNone /\ Keys \subseteq KeyOrNone
  /\ \A k \in Keys : k # None
BY BriefPanelAssumption DEF Kinds, Places, KeyOrNone, Keys

LEMMA Values ==
  /\ NoRow \in RunRows /\ NoOp \in Requests /\ Blank \in Screens
  /\ \A k \in Keys : Refresh(k) \in Requests
  /\ \A row \in RunRows : Offer(row) \in Nat
<1>1. NoRow \in RunRows
  BY RowTyped DEF NoRow, States
<1>2. NoOp \in Requests
  BY <1>1, Names DEF NoOp, Requests, Stages
<1>3. Blank \in Screens
  BY Names DEF Blank, Screens
<1>4. ASSUME NEW k \in Keys PROVE Refresh(k) \in Requests
  BY <1>2, Names DEF Refresh, Requests
<1>5. ASSUME NEW row \in RunRows PROVE Offer(row) \in Nat
  BY DEF Offer, RunRows
<1> QED
  BY <1>1, <1>2, <1>3, <1>4, <1>5

LEMMA InitTyped == Init => PanelTypeOK
<1> SUFFICES ASSUME Init PROVE PanelTypeOK
  OBVIOUS
<1>1. db \in [Keys -> Chains]
  BY Values DEF Init, RecordsInit, Chains
<1>2. form \in Forms
  BY Names DEF Init, Forms
<1> QED
  BY <1>1, <1>2, Values DEF Init, PanelTypeOK

LEMMA RequestKeyed ==
  ASSUME PanelTypeOK, NEW o \in Ops, Request(o), Busy(o)
  PROVE  ops[o] \in Requests /\ ops[o].key \in Keys /\ Drawn(ops[o].key)
BY DEF PanelTypeOK, Request, Requests, KeyOrNone, Busy

LEMMA OutstandingDrawn ==
  ASSUME PanelTypeOK, NEW o \in Ops, Request(o)
  PROVE  Outstanding(o) \subseteq Keys \X Nat /\ \A post \in Outstanding(o) : Drawn(post[1])
<1>1. CASE ops[o].at = "posting"
  <2>1. Busy(o)
    BY <1>1 DEF Busy
  <2> QED
    BY <2>1, RequestKeyed DEF Outstanding, Requests
<1>2. CASE ops[o].at # "posting"
  BY <1>2 DEF Outstanding
<1> QED
  BY <1>1, <1>2

LEMMA ElsewhereTyped ==
  ASSUME PanelTypeOK, RowsInv, Elsewhere
  PROVE  PanelTypeOK' /\ GoesOn /\ RecordsNext /\ \A j \in Keys : Created(j)' => Created(j)
<1>1. PICK k \in Keys, s \in Stages : RunStep(k, s)
  BY DEF Elsewhere
<1>2. GoesOn /\ RecordsNext /\ \A j \in Keys : Created(j)' => Created(j)
  BY <1>1, RunStepGoesOn DEF PanelTypeOK, RecordsNext
<1>3. late' \subseteq Keys \X Nat
  BY DEF Elsewhere, PanelTypeOK
<1> QED
  BY <1>2, <1>3 DEF Elsewhere, PanelTypeOK, GoesOn

LEMMA LateTyped ==
  ASSUME PanelTypeOK, RowsInv, NEW post \in late, LateArrives(post[1], post[2])
  PROVE  /\ PanelTypeOK' /\ GoesOn /\ (RecordsNext \/ db' = db)
         /\ \A j \in Keys : Created(j)' => Created(j) \/ j = post[1]
<1>1. post[1] \in Keys /\ post[2] \in Nat /\ Effect(post[1], post[2])
  BY DEF LateArrives, PanelTypeOK
<1>2. /\ GoesOn /\ (RecordsNext \/ db' = db)
      /\ \A j \in Keys : Created(j)' => Created(j) \/ j = post[1]
  BY <1>1, EffectGoesOn DEF PanelTypeOK
<1> QED
  BY <1>2 DEF LateArrives, PanelTypeOK, GoesOn

LEMMA LoadTyped ==
  ASSUME PanelTypeOK, RequestInv, Load
  PROVE  PanelTypeOK'
<1>1. form' \in Forms
  BY Names DEF Load, PanelTypeOK, Forms
<1>2. origin' \in [Keys -> Origins \cup {None}]
  <2>1. \A r \in Origins : [r EXCEPT !.here = FALSE] \in Origins
    BY DEF Origins
  <2> QED
    BY <2>1 DEF Load, PanelTypeOK
<1>3. ops' \in [Ops -> Requests]
  <2>1. form.address # None => form.address \in Keys
    BY DEF PanelTypeOK, Forms, KeyOrNone
  <2> QED
    BY <2>1, Values DEF Load, PanelTypeOK
<1>4. late' \subseteq Keys \X Nat
  BY OutstandingDrawn DEF Load, PanelTypeOK, RequestInv
<1>5. shown' \in Screens /\ db' = db
  BY Values DEF Load, PanelTypeOK
<1> QED
  BY <1>1, <1>2, <1>3, <1>4, <1>5 DEF PanelTypeOK

LEMMA ButtonTyped ==
  ASSUME PanelTypeOK, NEW o \in Ops, (\E d \in Drafts : Submit(o, d)) \/ RetryButton(o) \/ RefreshButton(o)
  PROVE  PanelTypeOK'
<1>0. \A b \in BOOLEAN : [shown EXCEPT !.alone = b] \in Screens
  BY DEF PanelTypeOK, Screens
<1>1. Alone \in BOOLEAN
  BY DEF Alone
<1>2. ASSUME NEW k \in Keys, Post(o, k)
      PROVE  form' \in Forms /\ ops' \in [Ops -> Requests] /\ shown' \in Screens /\ db' = db /\ late' = late
  <2>1. [NoOp EXCEPT !.kind = "submit", !.key = k, !.at = "posting"] \in Requests
    BY Names, Values DEF NoOp, Requests
  <2>2. ops' \in [Ops -> Requests]
    BY <1>2, <2>1, OpTyped DEF Post
  <2>3. form' \in Forms
    BY <1>2, Names DEF Post, PanelTypeOK, Forms
  <2> QED
    BY <1>0, <1>1, <1>2, <2>2, <2>3 DEF Post
<1>3. ASSUME NEW d \in Drafts, Submit(o, d) PROVE PanelTypeOK'
  <2>1. PICK k \in Keys :
          /\ UNCHANGED origin \/ origin' = [origin EXCEPT ![k] = [draft |-> d, here |-> TRUE]]
          /\ Post(o, k)
    BY <1>3 DEF Submit
  <2>2. origin' \in [Keys -> Origins \cup {None}]
    <3>1. [draft |-> d, here |-> TRUE] \in Origins
      BY DEF Origins
    <3> QED
      BY <2>1, <3>1 DEF PanelTypeOK
  <2> QED
    BY <1>2, <2>1, <2>2 DEF PanelTypeOK
<1>4. CASE RetryButton(o)
  <2>1. [NoOp EXCEPT !.kind = "retry", !.key = shown.key, !.at = "posting", !.offer = shown.offer] \in Requests
    <3>1. shown.key \in KeyOrNone /\ shown.offer \in Nat
      BY DEF PanelTypeOK, Screens
    <3> QED
      BY <3>1, Names, Values DEF NoOp, Requests
  <2>2. form' \in Forms
    BY <1>4 DEF RetryButton, PanelTypeOK, Forms
  <2>3. ops' \in [Ops -> Requests]
    BY <1>4, <2>1, OpTyped DEF RetryButton
  <2> QED
    BY <1>0, <1>1, <1>4, <2>2, <2>3 DEF RetryButton, PanelTypeOK
<1>5. CASE RefreshButton(o)
  <2>1. shown.key \in Keys
    BY <1>5 DEF RefreshButton, PanelTypeOK, Screens, KeyOrNone
  <2>2. ops' \in [Ops -> Requests]
    BY <1>5, <2>1, OpTyped, Values DEF RefreshButton
  <2> QED
    BY <1>0, <1>1, <1>5, <2>2 DEF RefreshButton, PanelTypeOK
<1> QED
  BY <1>3, <1>4, <1>5

LEMMA EndTyped ==
  ASSUME PanelTypeOK, NEW o \in Ops, End(o)
  PROVE  ops' \in [Ops -> Requests] /\ form' \in Forms
<1>1. Released(o) \in Forms
  BY DEF Released, PanelTypeOK, Forms
<1> QED
  BY <1>1, Values DEF End, PanelTypeOK

LEMMA BrokenTyped ==
  ASSUME PanelTypeOK, NEW o \in Ops, NEW code, Broken(o, code)
  PROVE  ops' \in [Ops -> Requests] /\ shown' \in Screens /\ form' \in Forms
<1>1. shown' \in Screens
  BY DEF Broken, PanelTypeOK, Screens
<1> QED
  BY <1>1, EndTyped DEF Broken

LEMMA PostingTyped ==
  ASSUME PanelTypeOK, RowsInv, NEW o \in Ops, Request(o), Busy(o),
         SubmitArrives(o) \/ SubmitAccepted(o) \/ RetryArrives(o) \/ RequestFails(o)
  PROVE  /\ PanelTypeOK' /\ GoesOn /\ (RecordsNext \/ db' = db)
         /\ \A j \in Keys : Created(j)' => Created(j) \/ j = ops[o].key
         /\ SubmitArrives(o) => \A k \in Keys : k = ops[o].key => Created(k)'
<1>0. ops[o] \in Requests /\ ops[o].key \in Keys /\ ops[o].offer \in Nat /\ 0 \in Nat
  BY RequestKeyed DEF Requests
<1>1. ASSUME db' = db PROVE GoesOn /\ \A j \in Keys : Created(j)' <=> Created(j)
  BY <1>1 DEF GoesOn, RunsGoOn, RowsInv, Created, PanelTypeOK
<1>2. CASE SubmitArrives(o)
  <2>1. Effect(ops[o].key, 0) /\ Start(o, [ops[o] EXCEPT !.at = "accepted"])
    BY <1>2 DEF SubmitArrives
  <2>2. /\ GoesOn /\ (RecordsNext \/ db' = db) /\ \A k \in Keys : k = ops[o].key => Created(k)'
        /\ \A j \in Keys : Created(j)' => Created(j) \/ j = ops[o].key
    <3>1. PICK k \in Keys, offer \in Nat : k = ops[o].key /\ offer = 0
      BY <1>0
    <3>2. Effect(k, offer)
      BY <2>1, <3>1, Zenon
    <3> QED
      BY <3>1, <3>2, EffectGoesOn DEF PanelTypeOK
  <2>3. [ops[o] EXCEPT !.at = "accepted"] \in Requests
    BY <1>0, Names DEF Requests
  <2>4. ops' \in [Ops -> Requests]
    BY <2>1, <2>3, OpTyped
  <2> QED
    BY <1>2, <2>2, <2>4 DEF SubmitArrives, PanelTypeOK, GoesOn
<1>3. CASE SubmitAccepted(o)
  <2>1. [ops[o] EXCEPT !.kind = "post", !.at = "state"] \in Requests
    BY <1>0, Names DEF Requests
  <2>2. ops' \in [Ops -> Requests]
    BY <1>3, <2>1, OpTyped DEF SubmitAccepted
  <2>3. form' \in Forms
    BY <1>0, <1>3, Names DEF SubmitAccepted, PanelTypeOK, Forms
  <2>4. ~ SubmitArrives(o)
    BY <1>3 DEF SubmitAccepted, SubmitArrives
  <2> QED
    BY <1>1, <1>3, <2>2, <2>3, <2>4 DEF SubmitAccepted, PanelTypeOK
<1>4. CASE RetryArrives(o)
  <2>1. Effect(ops[o].key, ops[o].offer) /\ RetryAccepted(o) /\ ~ SubmitArrives(o)
    BY <1>4 DEF RetryArrives, RetryAccepted, SubmitArrives
  <2>2. /\ GoesOn /\ (RecordsNext \/ db' = db)
        /\ \A j \in Keys : Created(j)' => Created(j) \/ j = ops[o].key
    BY <1>0, <2>1, EffectGoesOn DEF PanelTypeOK
  <2>3. [ops[o] EXCEPT !.kind = "post", !.at = "state", !.offer = 0] \in Requests
    BY <1>0, Names DEF Requests
  <2>4. ops' \in [Ops -> Requests]
    BY <2>1, <2>3, OpTyped DEF RetryAccepted
  <2> QED
    BY <2>1, <2>2, <2>4 DEF RetryAccepted, PanelTypeOK, GoesOn
<1>5. CASE RequestFails(o)
  <2>1. late' \subseteq Keys \X Nat
    BY <1>5, OutstandingDrawn DEF RequestFails, PanelTypeOK
  <2>2. db' = db /\ origin' = origin /\ Broken(o, "failed")
    BY <1>5 DEF RequestFails
  <2>3. ops'[o] = NoOp
    BY <2>2 DEF Broken, End, PanelTypeOK
  <2>4. ~ SubmitArrives(o)
    <3>1. NoOp.at = "free"
      BY DEF NoOp
    <3>2. SubmitArrives(o) => ops'[o].at = "accepted"
      BY <1>0 DEF SubmitArrives, Start, PanelTypeOK, Requests
    <3> QED
      BY <2>3, <3>1, <3>2
  <2> QED
    BY <1>1, <2>1, <2>2, <2>4, BrokenTyped DEF PanelTypeOK
<1> QED
  BY <1>2, <1>3, <1>4, <1>5

LEMMA ReadingTyped ==
  ASSUME PanelTypeOK, NEW o \in Ops, ReadStatement(o), ops[o].key \in Keys
  PROVE  PanelTypeOK' /\ db' = db
<1>0. ops[o] \in Requests /\ Run(o) \in RunRows
  BY DEF PanelTypeOK, Run, Requests, Chains
<1>1. CASE ReadState(o)
  <2>1. [NoRow EXCEPT !.state = Run(o).state] \in RunRows
    BY <1>0 DEF NoRow, Row, RunRows, States
  <2>2. [ops[o] EXCEPT !.at = "attempt", !.got = [NoRow EXCEPT !.state = Run(o).state]] \in Requests
    BY <1>0, <2>1, Names DEF Requests
  <2>3. ops' \in [Ops -> Requests]
    BY <1>1, <2>2, OpTyped DEF ReadState
  <2> QED
    BY <1>1, <2>3 DEF ReadState, PanelTypeOK
<1>2. CASE ReadAttempt(o)
  <2>1. PICK got : got = IF ops[o].got.state = "none" THEN [ops[o].got EXCEPT !.state = Run(o).state]
                ELSE [Run(o) EXCEPT !.state = ops[o].got.state]
    OBVIOUS
  <2>2. ops[o].got \in RunRows
    BY <1>0 DEF Requests
  <2>3. got \in RunRows
    BY <1>0, <2>1, <2>2 DEF RunRows
  <2>4. PICK offer \in Nat : offer = IF ops[o].stage = 1 THEN Offer(got) ELSE 0
    BY <2>3, Values
  <2>5. Start(o, IF got.state = "succeeded" THEN [ops[o] EXCEPT !.got = got, !.at = "outcome"]
                 ELSE [ops[o] EXCEPT !.got = NoRow, !.at = "read", !.offer = offer])
    BY <1>2, <2>1, <2>4 DEF ReadAttempt
  <2>6. /\ [ops[o] EXCEPT !.got = got, !.at = "outcome"] \in Requests
        /\ [ops[o] EXCEPT !.got = NoRow, !.at = "read", !.offer = offer] \in Requests
    BY <1>0, <2>3, Names, Values DEF Requests
  <2>7. ops' \in [Ops -> Requests]
    BY <2>5, <2>6, OpTyped
  <2> QED
    BY <1>2, <2>7 DEF ReadAttempt, PanelTypeOK
<1>3. CASE ReadOutcome(o)
  <2>1. CASE Broken(o, "invalid_contract")
    BY <1>3, <2>1, BrokenTyped DEF ReadOutcome, PanelTypeOK
  <2>2. CASE Start(o, [ops[o] EXCEPT !.got = NoRow, !.at = "read"]) /\ UNCHANGED <<form, shown>>
    <3>1. [ops[o] EXCEPT !.got = NoRow, !.at = "read"] \in Requests
      BY <1>0, Names, Values DEF Requests
    <3>2. ops' \in [Ops -> Requests]
      BY <2>2, <3>1, OpTyped
    <3> QED
      BY <1>3, <2>2, <3>2 DEF ReadOutcome, PanelTypeOK
  <2> QED
    BY <1>3, <2>1, <2>2 DEF ReadOutcome
<1> QED
  BY <1>1, <1>2, <1>3 DEF ReadStatement

\* The stages that readWorkflowChain finds are the first ones.
LEMMA LaterBegun ==
  ASSUME db \in [Keys -> Chains], RowsInv, NEW k \in Keys, Created(k)
  PROVE  Later(k) \in 0 .. 2 /\ Begun(k, Later(k) + 1)
<1> DEFINE found == {s \in 2 .. 3 : db[k][s].state # "none"}
<1>1. db[k][3].state # "none" => db[k][2].state # "none"
  <2>1. 2 \in 1 .. 2 /\ 2 + 1 = 3
    OBVIOUS
  <2>2. db[k][2].state # "succeeded" => db[k][2 + 1].state = "none"
    BY <2>1 DEF RowsInv
  <2> QED
    BY <2>2
<1>2. Later(k) = Cardinality(found)
  BY DEF Later
<1>3. CASE db[k][2].state = "none"
  <2>1. found = {}
    BY <1>1, <1>3
  <2>2. Later(k) = 0
    BY <1>2, <2>1, FS_EmptySet
  <2> QED
    BY <2>2 DEF Begun, Created, Stages
<1>4. CASE db[k][2].state # "none" /\ db[k][3].state = "none"
  <2>1. found = {2}
    BY <1>4
  <2>2. Later(k) = 1
    BY <1>2, <2>1, FS_Singleton
  <2> QED
    BY <1>4, <2>2 DEF Begun, Created, Stages
<1>5. CASE db[k][3].state # "none"
  <2>1. found = {2} \cup {3}
    BY <1>1, <1>5
  <2>2. Cardinality({2} \cup {3}) = 2
    <3>1. 3 \notin {2}
      OBVIOUS
    <3>2. IsFiniteSet({2}) /\ Cardinality({2}) = 1
      BY FS_Singleton, Zenon
    <3> QED
      BY <3>1, <3>2, FS_AddElement
  <2>3. Later(k) = 2
    BY <1>2, <2>1, <2>2
  <2> QED
    BY <1>1, <1>5, <2>3 DEF Begun, Created, Stages
<1> QED
  BY <1>3, <1>4, <1>5

Showing(o) == ShowRun(o) \/ ReadChain(o) \/ ShowChain(o) \/ ShowReel(o) \/ ShowCalendar(o)

LEMMA ShowingTyped ==
  ASSUME PanelTypeOK, RowsInv, NEW o \in Ops, Request(o), Busy(o), Showing(o)
  PROVE  PanelTypeOK' /\ db' = db
<1>0. ops[o] \in Requests /\ ops[o].key \in Keys /\ shown \in Screens
  BY RequestKeyed DEF PanelTypeOK
<1>1. ASSUME NEW s \in Stages, ReadStage(o, s) PROVE ops' \in [Ops -> Requests]
  <2>1. [ops[o] EXCEPT !.at = "state", !.stage = s] \in Requests
    BY <1>0, Names DEF Requests
  <2> QED
    BY <1>1, <2>1, OpTyped DEF ReadStage
<1>2. CASE ShowRun(o)
  <2>1. [ops[o] EXCEPT !.at = "chain", !.offer = 0] \in Requests
    BY <1>0, Names DEF Requests
  <2>2. ops' \in [Ops -> Requests]
    BY <1>2, <2>1, OpTyped DEF ShowRun
  <2>3. [shown EXCEPT !.key = ops[o].key, !.offer = ops[o].offer] \in Screens
    BY <1>0 DEF Screens, Requests
  <2> QED
    BY <1>2, <2>2, <2>3 DEF ShowRun, PanelTypeOK
<1>3. CASE ReadChain(o)
  <2>1. Created(ops[o].key)
    BY <1>0, <1>3 DEF ReadChain, Request, Begun, Created, Stages, Requests
  <2>2. PICK found \in 0 .. 2 : found = Later(ops[o].key)
    BY <1>0, <2>1, LaterBegun DEF PanelTypeOK
  <2>3. [ops[o] EXCEPT !.at = "found", !.found = found] \in Requests
    BY <1>0, Names DEF Requests
  <2>4. ops' \in [Ops -> Requests]
    BY <1>3, <2>2, <2>3, OpTyped DEF ReadChain
  <2> QED
    BY <1>3, <2>4 DEF ReadChain, PanelTypeOK
<1>4. CASE ShowChain(o)
  <2>1. CASE ops[o].found = 0
    <3>1. [shown EXCEPT !.reel = None, !.calendar = None] \in Screens
      BY <1>0, Names DEF Screens
    <3> QED
      BY <1>4, <2>1, <3>1, EndTyped DEF ShowChain, PanelTypeOK
  <2>2. CASE ops[o].found # 0
    <3>1. 2 \in Stages
      BY DEF Stages
    <3> QED
      BY <1>1, <1>4, <2>2, <3>1 DEF ShowChain, PanelTypeOK
  <2> QED
    BY <2>1, <2>2
<1>5. CASE ShowReel(o)
  <2>1. /\ [shown EXCEPT !.reel = ops[o].key, !.calendar = None] \in Screens
        /\ [shown EXCEPT !.reel = ops[o].key] \in Screens
    BY <1>0, Names DEF Screens
  <2>2. CASE ops[o].found = 1
    BY <1>5, <2>1, <2>2, EndTyped DEF ShowReel, PanelTypeOK
  <2>3. CASE ops[o].found # 1
    <3>1. 3 \in Stages
      BY DEF Stages
    <3> QED
      BY <1>1, <1>5, <2>1, <2>3, <3>1 DEF ShowReel, PanelTypeOK
  <2> QED
    BY <2>2, <2>3
<1>6. CASE ShowCalendar(o)
  <2>1. [shown EXCEPT !.calendar = ops[o].key] \in Screens
    BY <1>0, Names DEF Screens
  <2> QED
    BY <1>6, <2>1, EndTyped DEF ShowCalendar, PanelTypeOK
<1> QED
  BY <1>2, <1>3, <1>4, <1>5, <1>6 DEF Showing

LEMMA UserKeepsRuns == ASSUME User PROVE db' = db
<1>1. CASE Load
  BY <1>1 DEF Load
<1>2. ASSUME NEW o \in Ops, NEW d \in Drafts, Submit(o, d) PROVE db' = db
  BY <1>2 DEF Submit, Post
<1>3. ASSUME NEW o \in Ops, RetryButton(o) \/ RefreshButton(o) PROVE db' = db
  BY <1>3 DEF RetryButton, RefreshButton
<1> QED
  BY <1>1, <1>2, <1>3 DEF User

\* What a request under way does next.
LEMMA Answers ==
  ASSUME PanelTypeOK, NEW o \in Ops, Request(o), Answer(o) \/ RequestFails(o)
  PROVE  /\ Busy(o) /\ ops[o].key \in Keys
         /\ \/ SubmitArrives(o) \/ SubmitAccepted(o) \/ RetryArrives(o) \/ RequestFails(o)
            \/ ReadStatement(o) \/ Showing(o)
<1>1. \/ SubmitArrives(o) \/ SubmitAccepted(o) \/ RetryArrives(o) \/ RequestFails(o)
      \/ ReadStatement(o) \/ Showing(o)
  BY DEF Answer, ReadRun, ReadReel, ReadCalendar, Showing
<1>2. Busy(o)
  BY <1>1 DEF Busy, RequestFails, SubmitArrives, SubmitAccepted, RetryArrives, RetryAccepted,
              ReadStatement, ReadState, ReadAttempt, ReadOutcome, Showing, ShowRun, ReadChain, ShowChain,
              ShowReel, ShowCalendar
<1> QED
  BY <1>1, <1>2, RequestKeyed

\* Every step keeps the types and the records sound, and is to the records
\* one of theirs.
LEMMA StepTyped ==
  ASSUME PanelTypeOK, RowsInv, RequestInv, [Next]_vars
  PROVE  PanelTypeOK' /\ GoesOn /\ (RecordsNext \/ db' = db)
<1>1. ASSUME db' = db PROVE GoesOn
  BY <1>1 DEF GoesOn, RunsGoOn, RowsInv, PanelTypeOK
<1>2. CASE User
  <2>1. PanelTypeOK'
    BY <1>2, LoadTyped, ButtonTyped DEF User
  <2> QED
    BY <1>1, <1>2, <2>1, UserKeepsRuns
<1>3. CASE Elsewhere
  BY <1>3, ElsewhereTyped
<1>4. ASSUME NEW post \in late, LateArrives(post[1], post[2])
      PROVE  PanelTypeOK' /\ GoesOn /\ (RecordsNext \/ db' = db)
  BY <1>4, LateTyped
<1>5. ASSUME NEW o \in Ops, Answer(o) \/ RequestFails(o)
      PROVE  PanelTypeOK' /\ GoesOn /\ (RecordsNext \/ db' = db)
  <2>1. Request(o)
    BY DEF RequestInv
  <2>2. /\ Busy(o) /\ ops[o].key \in Keys
        /\ \/ SubmitArrives(o) \/ SubmitAccepted(o) \/ RetryArrives(o) \/ RequestFails(o)
           \/ ReadStatement(o) \/ Showing(o)
    BY <1>5, <2>1, Answers
  <2>3. CASE SubmitArrives(o) \/ SubmitAccepted(o) \/ RetryArrives(o) \/ RequestFails(o)
    BY <2>1, <2>2, <2>3, PostingTyped
  <2>4. CASE ReadStatement(o)
    BY <1>1, <2>2, <2>4, ReadingTyped
  <2>5. CASE Showing(o)
    BY <1>1, <2>1, <2>2, <2>5, ShowingTyped
  <2> QED
    BY <2>2, <2>3, <2>4, <2>5
<1>6. CASE UNCHANGED vars
  <2>1. PanelTypeOK' /\ db' = db
    BY <1>6 DEF vars, PanelTypeOK
  <2> QED
    BY <1>1, <2>1
<1> QED
  BY <1>2, <1>3, <1>4, <1>5, <1>6 DEF Next

-----------------------------------------------------------------------------
(* What the parts of the invariant need of a step.                         *)
LEMMA CreatedKept == ASSUME RunsGoOn, NEW k \in Keys, Created(k) PROVE Created(k)'
BY DEF RunsGoOn, Created, Stages

LEMMA BegunKept == ASSUME RunsGoOn, NEW k \in Keys, NEW n, Begun(k, n) PROVE Begun(k, n)'
BY DEF RunsGoOn, Begun

LEMMA RequestKept ==
  ASSUME PanelTypeOK, RunsGoOn, NEW p \in Ops, Request(p), ops'[p] = ops[p],
         \A k \in Keys : Drawn(k) => Drawn(k)'
  PROVE  Request(p)'
<1>1. CASE ~ Busy(p)
  BY <1>1 DEF Request, Busy
<1>2. CASE Busy(p)
  <2>1. PICK k \in Keys, s \in Stages, n \in 1 .. 3 : k = ops[p].key /\ s = ops[p].stage /\ n = ops[p].found + 1
    BY <1>2, RequestKeyed DEF Requests
  <2>2. Drawn(k)' /\ (Begun(k, n) => Begun(k, n)')
    BY <1>2, <2>1, RequestKeyed, BegunKept
  <2>3. Run(p).state = "succeeded" => Run(p)' = Run(p)
    BY <2>1 DEF RunsGoOn, Run
  <2> QED
    BY <1>2, <2>1, <2>2, <2>3 DEF Request, Busy
<1> QED
  BY <1>1, <1>2

LEMMA FormKept ==
  ASSUME OriginInv, FormInv, origin' = origin, form'.submission = form.submission
  PROVE  OriginInv' /\ FormInv'
BY DEF OriginInv, FormInv, Drawn, Here

LEMMA DatabaseKeepsInv ==
  ASSUME PanelTypeOK, IInv, GoesOn, \A k \in Keys : Created(k)' => Drawn(k),
         late' \subseteq late, UNCHANGED <<origin, form, shown, ops>>
  PROVE  IInv'
<1>1. OriginInv' /\ FormInv'
  BY FormKept DEF IInv
<1>2. RunInv' /\ RowsInv' /\ RunsGoOn
  BY DEF RunInv, GoesOn, Drawn
<1>3. AddressInv'
  BY <1>2, CreatedKept DEF IInv, AddressInv, PanelTypeOK, Forms, KeyOrNone
<1>4. LateInv'
  BY DEF IInv, LateInv, Drawn
<1>5. ShownInv'
  BY <1>2, CreatedKept DEF IInv, ShownInv, PanelTypeOK, Screens, KeyOrNone
<1>6. RequestInv'
  <2>1. \A k \in Keys : Drawn(k) => Drawn(k)'
    BY DEF Drawn
  <2>2. ASSUME NEW p \in Ops PROVE Request(p)'
    BY <1>2, <2>1, RequestKept DEF IInv, RequestInv
  <2> QED
    BY <2>2 DEF RequestInv
<1>7. AloneInv'
  BY DEF IInv, AloneInv, Alone, Free, Busy, PastTheRun
<1> QED
  BY <1>1, <1>2, <1>3, <1>4, <1>5, <1>6, <1>7 DEF IInv

LEMMA DatabaseStepKeepsInv ==
  ASSUME PanelTypeOK, IInv, Elsewhere \/ \E post \in late : LateArrives(post[1], post[2]) PROVE IInv'
<1>1. RowsInv /\ LateInv /\ \A k \in Keys : Created(k) => Drawn(k)
  BY DEF IInv, RunInv
<1>2. CASE Elsewhere
  <2>1. GoesOn /\ \A k \in Keys : Created(k)' => Drawn(k)
    BY <1>1, <1>2, ElsewhereTyped
  <2> QED
    BY <1>2, <2>1, DatabaseKeepsInv DEF Elsewhere
<1>3. ASSUME NEW post \in late, LateArrives(post[1], post[2]) PROVE IInv'
  <2>1. Drawn(post[1])
    BY <1>1 DEF LateInv
  <2>2. GoesOn /\ \A j \in Keys : Created(j)' => Drawn(j)
    BY <1>1, <1>3, <2>1, LateTyped
  <2> QED
    BY <1>3, <2>2, DatabaseKeepsInv DEF LateArrives
<1> QED
  BY <1>2, <1>3

\* A refresh that begins is about a run and has found nothing yet.
LEMMA RefreshBegins ==
  ASSUME NEW k \in Keys
  PROVE  /\ Refresh(k).kind = "refresh" /\ Refresh(k).key = k /\ Refresh(k).at = "state"
         /\ Refresh(k).stage = 1 /\ Refresh(k).found = 0
         /\ NoOp.at = "free" /\ NoOp.kind = "none" /\ NoOp.stage = 1 /\ NoOp.found = 0
BY DEF Refresh, NoOp

LEMMA LoadKeepsInv == ASSUME PanelTypeOK, IInv, Load PROVE IInv'
<1>0. \A k \in Keys : (Drawn(k)' <=> Drawn(k)) /\ ~ Here(k)'
  <2> SUFFICES ASSUME NEW k \in Keys PROVE (Drawn(k)' <=> Drawn(k)) /\ ~ Here(k)'
    OBVIOUS
  <2>1. CASE origin[k] = None
    BY <2>1 DEF Load, Drawn, Here
  <2>2. CASE origin[k] # None
    <3>1. origin[k] \in Origins
      BY <2>2 DEF PanelTypeOK
    <3>2. PICK r : r = [origin[k] EXCEPT !.here = FALSE]
      OBVIOUS
    <3>3. r \in Origins /\ r.here = FALSE
      BY <3>1, <3>2 DEF Origins
    <3>4. origin'[k] = r
      BY <2>2, <3>2 DEF Load
    <3> QED
      BY <2>2, <3>3, <3>4, BriefPanelAssumption DEF Drawn, Here, Origins
  <2> QED
    BY <2>1, <2>2
<1>1. db' = db /\ form'.submission = None /\ form'.address = form.address /\ shown' = Blank
  BY DEF Load, PanelTypeOK, Forms
<1>2. OriginInv' /\ FormInv'
  BY <1>0, <1>1 DEF IInv, OriginInv, FormInv
<1>3. AddressInv' /\ RunInv' /\ RowsInv'
  BY <1>0, <1>1 DEF IInv, AddressInv, RunInv, RowsInv, Created
<1>4. LateInv'
  <2>1. ASSUME NEW post \in late' PROVE post[1] \in Keys /\ Drawn(post[1])
    <3>1. post \in late \/ \E o \in Ops : post \in Outstanding(o)
      BY DEF Load
    <3>2. \A o \in Ops : Outstanding(o) \subseteq Keys \X Nat /\ \A q \in Outstanding(o) : Drawn(q[1])
      BY OutstandingDrawn DEF IInv, RequestInv
    <3> QED
      BY <3>1, <3>2 DEF IInv, LateInv, PanelTypeOK
  <2> QED
    BY <1>0, <2>1 DEF LateInv
<1>5. ShownInv'
  BY <1>1 DEF ShownInv, Blank
<1>6. PICK first \in Ops : \A o \in Ops :
        ops'[o] = NoOp \/ (o = first /\ form.address # None /\ ops'[o] = Refresh(form.address))
  BY DEF Load
<1>7. RequestInv'
  <2>1. form.address # None => form.address \in Keys /\ Created(form.address) /\ Drawn(form.address)
    BY DEF IInv, PanelTypeOK, Forms, KeyOrNone, AddressInv, RunInv
  <2>2. ASSUME NEW o \in Ops PROVE Request(o)'
    <3>1. CASE ops'[o] = NoOp
      BY <3>1 DEF Request, NoOp
    <3>2. CASE form.address # None /\ ops'[o] = Refresh(form.address)
      <4>1. PICK k \in Keys : k = form.address
        BY <2>1, <3>2
      <4>2. Begun(k, 1)' /\ Drawn(k)'
        BY <1>0, <1>1, <2>1, <3>2, <4>1 DEF Created, Begun, Stages
      <4>3. /\ ops'[o].kind = "refresh" /\ ops'[o].key = k /\ ops'[o].at = "state"
            /\ ops'[o].stage = 1 /\ ops'[o].found = 0
        BY <3>2, <4>1, RefreshBegins
      <4> QED
        BY <4>2, <4>3, Names DEF Request
    <3> QED
      BY <1>6, <3>1, <3>2
  <2> QED
    BY <2>2 DEF RequestInv
<1>8. AloneInv'
  <2>1. \A o \in Ops : /\ Busy(o)' => o = first /\ ops'[o].stage = 1
                       /\ ~ PastTheRun(o)'
    <3>1. form.address # None => form.address \in Keys
      BY DEF PanelTypeOK, Forms, KeyOrNone
    <3>2. NoOp.at = "free"
      BY DEF NoOp
    <3> QED
      BY <1>6, <3>1, <3>2, RefreshBegins DEF Busy, PastTheRun
  <2>2. {shown'.reel, shown'.calendar} \subseteq {None, shown'.key}
    BY <1>1 DEF Blank
  <2> QED
    BY <2>1, <2>2 DEF AloneInv
<1> QED
  BY <1>2, <1>3, <1>4, <1>5, <1>7, <1>8 DEF IInv

LEMMA RequestsKeep ==
  ASSUME PanelTypeOK, RequestInv, RunsGoOn, NEW o \in Ops, NEW r \in Requests, Start(o, r), Request(o)',
         \A k \in Keys : Drawn(k) => Drawn(k)'
  PROVE  RequestInv'
<1>1. ASSUME NEW p \in Ops, p # o PROVE Request(p)'
  <2>1. ops'[p] = ops[p]
    BY <1>1 DEF Start, PanelTypeOK
  <2> QED
    BY <2>1, RequestKept DEF RequestInv
<1> QED
  BY <1>1 DEF RequestInv

LEMMA ButtonKeepsAlone ==
  ASSUME PanelTypeOK, AloneInv, NEW o \in Ops, NEW r \in Requests, Start(o, r),
         r.at \in {"posting", "state"}, r.stage = 1, shown' = [shown EXCEPT !.alone = Alone]
  PROVE  AloneInv'
<1>1. /\ shown'.alone <=> Alone
      /\ shown'.reel = shown.reel /\ shown'.calendar = shown.calendar /\ shown'.key = shown.key
  BY DEF PanelTypeOK, Screens, Alone
<1>2. ops'[o] = r /\ \A p \in Ops : p # o => ops'[p] = ops[p]
  BY OpTyped
<1>3. CASE Alone
  <2>1. \A p \in Ops : p # o => ops'[p].at = "free"
    BY <1>2, <1>3 DEF Alone, Free
  <2>2. ~ Alone'
    BY <1>2 DEF Alone, Free
  <2>3. \A p \in Ops : ~ PastTheRun(p)' /\ (Busy(p)' => p = o /\ ops'[p].stage = 1)
    BY <1>2, <2>1 DEF PastTheRun, Busy
  <2> QED
    BY <2>2, <2>3 DEF AloneInv
<1>4. CASE ~ Alone
  BY <1>1, <1>4 DEF AloneInv
<1> QED
  BY <1>3, <1>4

LEMMA SubmitKeepsOrigins ==
  ASSUME PanelTypeOK, IInv, NEW o \in Ops, NEW d \in Drafts, Submit(o, d)
  PROVE  /\ OriginInv' /\ FormInv' /\ \A k \in Keys : Drawn(k) => Drawn(k)'
         /\ \E k \in Keys : Drawn(k)' /\ Post(o, k)
<1>0. IInv /\ OriginInv /\ FormInv
  BY DEF IInv
<1>1. PICK k \in Keys :
        /\ IF form.submission # None /\ origin[form.submission].draft = d
           THEN k = form.submission /\ UNCHANGED origin
           ELSE Unused(k) /\ origin' = [origin EXCEPT ![k] = [draft |-> d, here |-> TRUE]]
        /\ Post(o, k)
  BY Zenon DEF Submit
<1>2. form'.submission = k
  BY <1>1 DEF Post, PanelTypeOK, Forms
<1>3. CASE k = form.submission /\ UNCHANGED origin
  <2>1. form'.submission = form.submission
    BY <1>2, <1>3
  <2>2. k # None
    BY <1>1, BriefPanelAssumption DEF Keys
  <2>3. Drawn(k)
    BY <1>0, <1>3, <2>2 DEF FormInv, Here
  <2> QED
    BY <1>0, <1>1, <1>3, <2>1, <2>3, FormKept DEF Drawn
<1>4. CASE /\ form.submission # None => origin[form.submission].draft # d
           /\ Unused(k) /\ origin' = [origin EXCEPT ![k] = [draft |-> d, here |-> TRUE]]
  <2>1. PICK new : new = [draft |-> d, here |-> TRUE]
    OBVIOUS
  <2>2. new # None /\ new.here /\ new.draft = d
    <3>1. new \in [draft : Drafts, here : BOOLEAN] /\ new.here /\ new.draft = d
      BY <2>1
    <3> QED
      BY <3>1, BriefPanelAssumption
  <2>3. origin'[k] = new /\ \A j \in Keys : j # k => origin'[j] = origin[j]
    BY <1>4, <2>1 DEF PanelTypeOK
  <2>4. ~ Drawn(k) /\ \A j \in Keys : j < k => Drawn(j)
    BY <1>4 DEF Unused, Drawn
  <2>5. Drawn(k)' /\ Here(k)' /\ \A j \in Keys : j # k => (Drawn(j)' <=> Drawn(j)) /\ (Here(j)' <=> Here(j))
    BY <2>2, <2>3 DEF Drawn, Here
  <2>6. \A j \in Keys : k < j => ~ Drawn(j)
    BY <1>0, <2>4 DEF OriginInv
  <2>7. \A j, l \in Keys : j < l /\ Drawn(l)' => Drawn(j)'
    BY <1>0, <2>4, <2>5 DEF OriginInv, Keys
  <2>8. \A j, l \in Keys : j < l /\ Here(j)' /\ Drawn(l)' => Here(l)'
    BY <1>0, <2>4, <2>5, <2>6 DEF OriginInv, Keys
  <2>9. ASSUME NEW l \in Keys, Here(l)', l + 1 \in Keys, Drawn(l + 1)'
        PROVE  origin'[l].draft # origin'[l + 1].draft
    <3>1. CASE l + 1 = k
      <4>1. l # k /\ Here(l)
        BY <2>5, <2>9, <3>1 DEF Keys
      <4>2. form.submission # None /\ Here(form.submission) /\ form.submission \in Keys
        BY <1>0, <4>1 DEF FormInv, PanelTypeOK, Forms, KeyOrNone
      <4>3. ~ (form.submission < l) /\ ~ (k < form.submission) /\ form.submission # k
        BY <1>0, <2>4, <2>6, <4>1, <4>2 DEF FormInv, Here
      <4>4. form.submission = l
        BY <3>1, <4>2, <4>3 DEF Keys
      <4> QED
        BY <1>4, <2>2, <2>3, <3>1, <4>1, <4>2, <4>4
    <3>2. CASE l = k
      <4>1. l + 1 # k /\ k < l + 1
        BY <3>2 DEF Keys
      <4> QED
        BY <2>5, <2>6, <2>9, <4>1
    <3>3. CASE l + 1 # k /\ l # k
      <4>1. Here(l) /\ Drawn(l + 1)
        BY <2>5, <2>9, <3>3
      <4> QED
        BY <1>0, <2>3, <2>9, <3>3, <4>1 DEF OriginInv
    <3> QED
      BY <3>1, <3>2, <3>3
  <2>10. OriginInv'
    BY <2>7, <2>8, <2>9 DEF OriginInv
  <2>11. FormInv'
    <3>1. k # None
      BY <1>1, BriefPanelAssumption DEF Keys
    <3> QED
      BY <1>2, <2>5, <2>6, <3>1 DEF FormInv, Keys
  <2> QED
    BY <1>1, <2>5, <2>10, <2>11
<1> QED
  BY <1>1, <1>3, <1>4

\* A button starts r for a brief that is drawn by now, a read only of a run that exists.
Begins(o, k, r) ==
  /\ Start(o, r) /\ r.key = k /\ r.at \in {"posting", "state"} /\ r.stage = 1 /\ r.found = 0
  /\ r.at = "posting" => (Created(k) /\ r.kind = "retry" /\ r.offer # 0) \/ r.kind = "submit"
  /\ r.at = "state" => Created(k) /\ r.kind = "refresh"
Pressed(o) ==
  /\ db' = db /\ late' = late /\ shown' = [shown EXCEPT !.alone = Alone] /\ form'.address = form.address
  /\ OriginInv' /\ FormInv'
  /\ \A k \in Keys : Drawn(k) => Drawn(k)'
  /\ \E k \in Keys, r \in Requests : Drawn(k)' /\ Begins(o, k, r)

LEMMA ButtonKeepsInv ==
  ASSUME PanelTypeOK, IInv, NEW o \in Ops, (\E d \in Drafts : Submit(o, d)) \/ RetryButton(o) \/ RefreshButton(o)
  PROVE  IInv'
<1>0. OriginInv /\ FormInv /\ AddressInv /\ RowsInv /\ RunInv /\ LateInv /\ ShownInv /\ RequestInv /\ AloneInv
  BY DEF IInv
<1>1. shown \in Screens /\ (shown.key # None => shown.key \in Keys /\ Created(shown.key) /\ Drawn(shown.key))
  BY <1>0 DEF PanelTypeOK, Screens, KeyOrNone, ShownInv, RunInv
<1>2. Pressed(o)
  <2>1. ASSUME NEW d \in Drafts, Submit(o, d) PROVE Pressed(o)
    <3>1. PICK k \in Keys : Drawn(k)' /\ Post(o, k)
      BY <2>1, SubmitKeepsOrigins
    <3>2. PICK r : r = [NoOp EXCEPT !.kind = "submit", !.key = k, !.at = "posting"]
      OBVIOUS
    <3>3. Begins(o, k, r) /\ r \in Requests
      BY <3>1, <3>2, Names, Values DEF Begins, Post, NoOp, Requests
    <3>4. db' = db /\ late' = late /\ shown' = [shown EXCEPT !.alone = Alone] /\ form'.address = form.address
      BY <3>1 DEF Post, PanelTypeOK, Forms
    <3> QED
      BY <2>1, <3>1, <3>3, <3>4, SubmitKeepsOrigins DEF Pressed
  <2>2. CASE RetryButton(o)
    <3>1. PICK k : k = shown.key
      OBVIOUS
    <3>2. k \in Keys /\ Created(k) /\ Drawn(k) /\ shown.offer # 0
      BY <1>0, <1>1, <2>2, <3>1 DEF RetryButton, ShownInv
    <3>3. PICK r : r = [NoOp EXCEPT !.kind = "retry", !.key = k, !.at = "posting", !.offer = shown.offer]
      OBVIOUS
    <3>4. Begins(o, k, r) /\ r \in Requests
      BY <1>1, <2>2, <3>1, <3>2, <3>3, Names, Values DEF Begins, RetryButton, NoOp, Requests, Screens
    <3>5. /\ db' = db /\ late' = late /\ shown' = [shown EXCEPT !.alone = Alone]
          /\ origin' = origin /\ form'.address = form.address /\ form'.submission = form.submission
      BY <2>2 DEF RetryButton, PanelTypeOK, Forms
    <3>6. OriginInv' /\ FormInv' /\ \A j \in Keys : Drawn(j) => Drawn(j)'
      BY <1>0, <3>5, FormKept DEF Drawn
    <3> QED
      BY <3>2, <3>4, <3>5, <3>6 DEF Pressed
  <2>3. CASE RefreshButton(o)
    <3>1. PICK k : k = shown.key
      OBVIOUS
    <3>2. k \in Keys /\ Created(k) /\ Drawn(k)
      BY <1>1, <2>3, <3>1 DEF RefreshButton
    <3>3. PICK r : r = Refresh(k)
      OBVIOUS
    <3>4. Begins(o, k, r) /\ r \in Requests
      <4>1. r \in Requests /\ Start(o, r)
        BY <2>3, <3>1, <3>2, <3>3, Values DEF RefreshButton
      <4>2. r.key = k /\ r.at = "state" /\ r.kind = "refresh" /\ r.stage = 1 /\ r.found = 0
        BY <3>2, <3>3, RefreshBegins
      <4> QED
        BY <3>2, <4>1, <4>2 DEF Begins
    <3>5. /\ db' = db /\ late' = late /\ shown' = [shown EXCEPT !.alone = Alone]
          /\ origin' = origin /\ form' = form
      BY <2>3 DEF RefreshButton
    <3>6. OriginInv' /\ FormInv' /\ \A j \in Keys : Drawn(j) => Drawn(j)'
      BY <1>0, <3>5, FormKept DEF Drawn
    <3> QED
      BY <3>2, <3>4, <3>5, <3>6 DEF Pressed
  <2> QED
    BY <2>1, <2>2, <2>3
<1>3. PICK k \in Keys, r \in Requests : Drawn(k)' /\ Begins(o, k, r)
  BY <1>2, Zenon DEF Pressed
<1>4. Start(o, r) /\ r.at \in {"posting", "state"} /\ r.stage = 1
  BY <1>3 DEF Begins
<1>5. \A j \in Keys : Created(j)' <=> Created(j)
  BY <1>2 DEF Created, Pressed
<1>6. RunsGoOn /\ RowsInv'
  BY <1>0, <1>2 DEF RunsGoOn, RowsInv, Pressed
<1>7. Request(o)'
  <2>1. ops'[o] = r
    BY <1>4, OpTyped
  <2>2. Created(k) => Begun(k, 1)'
    BY <1>5 DEF Created, Begun, Stages
  <2> QED
    BY <1>3, <2>1, <2>2, Names DEF Request, Begins
<1>8. RequestInv'
  BY <1>0, <1>2, <1>4, <1>6, <1>7, RequestsKeep DEF Pressed
<1>9. AloneInv'
  BY <1>0, <1>2, <1>4, ButtonKeepsAlone DEF Pressed
<1>10. AddressInv' /\ RunInv' /\ LateInv' /\ ShownInv'
  <2>1. AddressInv'
    BY <1>0, <1>2, <1>5 DEF AddressInv, Pressed, PanelTypeOK, Forms, KeyOrNone
  <2>2. RunInv' /\ LateInv'
    BY <1>0, <1>2, <1>5 DEF RunInv, LateInv, PanelTypeOK, Pressed
  <2>3. shown'.corrupt = shown.corrupt /\ shown'.key = shown.key /\ shown'.offer = shown.offer
    BY <1>1, <1>2 DEF Screens, Pressed
  <2>4. ShownInv'
    BY <1>0, <1>1, <1>5, <2>3 DEF ShownInv
  <2> QED
    BY <2>1, <2>2, <2>4
<1> QED
  BY <1>2, <1>6, <1>8, <1>9, <1>10 DEF IInv, Pressed

LEMMA ScreenKept ==
  ASSUME PanelTypeOK, ShownInv, RunsGoOn, ~ shown'.corrupt, shown'.key = shown.key, shown'.offer = shown.offer
  PROVE  ShownInv'
BY CreatedKept DEF ShownInv, PanelTypeOK, Screens, KeyOrNone

LEMMA AnswerFrame ==
  ASSUME PanelTypeOK, IInv, GoesOn, NEW o \in Ops, NEW r \in Requests, Start(o, r), Request(o)', ShownInv', AloneInv',
         origin' = origin, form'.submission = form.submission, form'.address = form.address,
         \A post \in late' : Drawn(post[1]), \A k \in Keys : Created(k)' => Drawn(k)
  PROVE  IInv'
<1>1. OriginInv' /\ FormInv'
  BY FormKept DEF IInv
<1>2. RunInv' /\ RowsInv' /\ RunsGoOn
  BY DEF RunInv, GoesOn, Drawn
<1>3. AddressInv'
  BY <1>2, CreatedKept DEF IInv, AddressInv, PanelTypeOK, Forms, KeyOrNone
<1>4. LateInv'
  BY DEF LateInv, Drawn
<1>5. RequestInv'
  <2>1. \A k \in Keys : Drawn(k) => Drawn(k)'
    BY DEF Drawn
  <2> QED
    BY <1>2, <2>1, RequestsKeep DEF IInv
<1> QED
  BY <1>1, <1>2, <1>3, <1>4, <1>5 DEF IInv

\* A request that goes on without a change of the screen.
LEMMA MovesOn ==
  ASSUME PanelTypeOK, AloneInv, NEW o \in Ops, Busy(o), NEW r \in Requests, Start(o, r), shown' = shown,
         r.key = ops[o].key, r.stage = ops[o].stage,
         r.at \in {"accepted", "state", "attempt", "outcome", "read"}
  PROVE  AloneInv'
<1>1. ops'[o] = r /\ \A p \in Ops : p # o => ops'[p] = ops[p]
  BY OpTyped
<1>2. ~ Alone' /\ Busy(o)'
  BY <1>1 DEF Alone, Free, Busy
<1>3. \A p \in Ops : Busy(p)' <=> Busy(p)
  BY <1>1, <1>2 DEF Busy
<1>4. \A p \in Ops : ops'[p].key = ops[p].key /\ ops'[p].stage = ops[p].stage /\ (PastTheRun(p)' => PastTheRun(p))
  BY <1>1, <1>3 DEF PastTheRun
<1> QED
  BY <1>2, <1>3, <1>4 DEF AloneInv

LEMMA BrokenKeepsInv ==
  ASSUME PanelTypeOK, IInv, NEW o \in Ops, NEW code, code # "invalid_contract", Broken(o, code),
         UNCHANGED <<db, origin>>, \A post \in late' : Drawn(post[1])
  PROVE  IInv'
<1>1. Start(o, NoOp) /\ NoOp \in Requests
  BY Values DEF Broken, End, Start
<1>2. form'.submission = form.submission /\ form'.address = form.address
  BY DEF Broken, End, Released, PanelTypeOK, Forms
<1>3. /\ ~ shown'.corrupt /\ ~ shown'.alone
      /\ shown'.key = shown.key /\ shown'.offer = shown.offer
  BY DEF Broken, PanelTypeOK, Screens
<1>4. AloneInv'
  BY <1>3 DEF AloneInv
<1>5. GoesOn /\ RunsGoOn
  BY DEF GoesOn, RunsGoOn, RowsInv, IInv, PanelTypeOK
<1>6. ShownInv'
  BY <1>3, <1>5, ScreenKept DEF IInv
<1>7. Request(o)'
  <2>1. ops'[o] = NoOp
    BY <1>1, OpTyped
  <2> QED
    BY <2>1 DEF Request, NoOp
<1>8. \A k \in Keys : Created(k)' => Drawn(k)
  BY DEF IInv, RunInv, Created
<1> QED
  BY <1>1, <1>2, <1>4, <1>5, <1>6, <1>7, <1>8, AnswerFrame

LEMMA PostingKeepsInv ==
  ASSUME PanelTypeOK, IInv, NEW o \in Ops, SubmitArrives(o) \/ RetryArrives(o) \/ RequestFails(o)
  PROVE  IInv'
<1>0. RowsInv /\ RunInv /\ LateInv /\ ShownInv /\ AloneInv /\ Request(o) /\ Busy(o)
  BY DEF IInv, RequestInv, SubmitArrives, RetryArrives, RetryAccepted, RequestFails, Busy
<1>1. PICK k \in Keys : k = ops[o].key /\ Drawn(k) /\ ops[o] \in Requests
  BY <1>0, RequestKeyed
<1>2. /\ GoesOn /\ (\A j \in Keys : Created(j)' => Drawn(j)) /\ RunsGoOn
      /\ SubmitArrives(o) => Created(k)'
  BY <1>0, <1>1, PostingTyped DEF RunInv, GoesOn
<1>3. ASSUME NEW r \in Requests, Start(o, r), late' \subseteq late, UNCHANGED <<origin, form, shown>>,
             r.key = k, r.stage = ops[o].stage, r.found = ops[o].found,
             r.kind \in {"submit", "post"}, r.at \in {"accepted", "state"}, Begun(k, r.found + 1)'
      PROVE  IInv'
  <2>1. ops'[o] = r
    BY <1>3, OpTyped
  <2>2. Request(o)'
    BY <1>0, <1>1, <1>3, <2>1, Names DEF Request, Drawn, Busy
  <2>3. AloneInv'
    BY <1>0, <1>1, <1>3, MovesOn
  <2>4. ShownInv'
    BY <1>0, <1>2, <1>3, ScreenKept DEF ShownInv
  <2> QED
    BY <1>0, <1>2, <1>3, <2>2, <2>3, <2>4, AnswerFrame DEF LateInv
<1>4. CASE SubmitArrives(o)
  <2>1. PICK r : r = [ops[o] EXCEPT !.at = "accepted"]
    OBVIOUS
  <2>2. /\ r \in Requests /\ r.key = k /\ r.kind = "submit" /\ r.at = "accepted"
        /\ r.stage = ops[o].stage /\ r.found = ops[o].found
    BY <1>1, <1>4, <2>1, Names DEF SubmitArrives, Requests
  <2>3. Start(o, r) /\ late' \subseteq late /\ UNCHANGED <<origin, form, shown>>
    BY <1>4, <2>1 DEF SubmitArrives
  <2>4. Begun(k, r.found + 1)'
    <3>1. CASE r.found = 0
      BY <1>2, <1>4, <3>1 DEF Begun, Created, Stages
    <3>2. CASE Begun(k, r.found + 1)
      BY <1>2, <3>2, BegunKept
    <3> QED
      BY <1>0, <1>1, <2>2, <3>1, <3>2 DEF Request, Busy
  <2> QED
    BY <1>3, <2>2, <2>3, <2>4
<1>5. CASE RetryArrives(o)
  <2>1. PICK r : r = [ops[o] EXCEPT !.kind = "post", !.at = "state", !.offer = 0]
    OBVIOUS
  <2>2. /\ r \in Requests /\ r.key = k /\ r.kind = "post" /\ r.at = "state"
        /\ r.stage = ops[o].stage /\ r.found = ops[o].found
    BY <1>1, <2>1, Names DEF Requests
  <2>3. Start(o, r) /\ late' \subseteq late /\ UNCHANGED <<origin, form, shown>> /\ ops[o].kind = "retry"
    BY <1>5, <2>1 DEF RetryArrives, RetryAccepted
  <2>4. Begun(k, r.found + 1)
    BY <1>0, <1>1, <2>2, <2>3 DEF Request, Busy
  <2>5. Begun(k, r.found + 1)'
    BY <1>2, <2>4, BegunKept
  <2> QED
    BY <1>3, <2>2, <2>3, <2>5
<1>6. CASE RequestFails(o)
  <2>1. \A post \in late' : Drawn(post[1])
    BY <1>0, <1>6, OutstandingDrawn DEF RequestFails, LateInv
  <2> QED
    BY <1>6, <2>1, BrokenKeepsInv DEF RequestFails
<1> QED
  BY <1>4, <1>5, <1>6

LEMMA AcceptedKeepsInv == ASSUME PanelTypeOK, IInv, NEW o \in Ops, SubmitAccepted(o) PROVE IInv'
<1>0. /\ OriginInv /\ FormInv /\ RowsInv /\ RunInv /\ LateInv /\ ShownInv /\ RequestInv /\ AloneInv
      /\ Request(o) /\ ops[o].at = "accepted" /\ Busy(o)
  BY DEF IInv, RequestInv, SubmitAccepted, Busy
<1>1. PICK k \in Keys : k = ops[o].key /\ Drawn(k) /\ ops[o] \in Requests
  BY <1>0, RequestKeyed
<1>2. PICK r : r = [ops[o] EXCEPT !.kind = "post", !.at = "state"]
  OBVIOUS
<1>3. /\ r \in Requests /\ r.key = k /\ r.kind = "post" /\ r.at = "state"
      /\ r.stage = ops[o].stage /\ r.found = ops[o].found
  BY <1>1, <1>2, Names DEF Requests
<1>4. /\ Start(o, r) /\ UNCHANGED <<db, origin, late, shown>>
      /\ form'.submission = form.submission /\ form'.address = k
  BY <1>1, <1>2 DEF SubmitAccepted, PanelTypeOK, Forms
<1>5. /\ RunsGoOn /\ RowsInv'
      /\ \A j \in Keys : (Created(j)' <=> Created(j)) /\ (Drawn(j)' <=> Drawn(j))
      /\ \A n : Begun(k, n) => Begun(k, n)'
  BY <1>0, <1>4 DEF RunsGoOn, RowsInv, Created, Drawn, Begun
<1>6. Begun(k, r.found + 1) /\ Created(k)
  BY <1>0, <1>1, <1>3 DEF Request, Begun, Created, Stages, Requests
<1>7. Request(o)'
  <2>1. ops'[o] = r
    BY <1>3, <1>4, OpTyped
  <2> QED
    BY <1>0, <1>1, <1>3, <1>5, <1>6, <2>1, Names DEF Request
<1>8. RequestInv'
  BY <1>0, <1>3, <1>4, <1>5, <1>7, RequestsKeep
<1>9. AloneInv' /\ OriginInv' /\ FormInv'
  BY <1>0, <1>1, <1>3, <1>4, MovesOn, FormKept
<1>10. RunInv' /\ LateInv' /\ AddressInv'
  BY <1>0, <1>4, <1>5, <1>6 DEF RunInv, LateInv, AddressInv, Created, Drawn
<1>11. ShownInv'
  BY <1>0, <1>4, <1>5, ScreenKept DEF ShownInv
<1> QED
  BY <1>5, <1>8, <1>9, <1>10, <1>11 DEF IInv

LEMMA ReadFrame ==
  ASSUME PanelTypeOK, IInv, NEW o \in Ops, NEW r \in Requests, Start(o, r), Request(o)', AloneInv', ShownInv',
         UNCHANGED <<db, origin, late>>, form'.submission = form.submission, form'.address = form.address
  PROVE  IInv'
<1>1. GoesOn
  BY DEF GoesOn, RunsGoOn, RowsInv, IInv, PanelTypeOK
<1>2. \A k \in Keys : Created(k)' => Drawn(k)
  BY DEF IInv, RunInv, Created
<1>3. \A post \in late' : Drawn(post[1])
  BY DEF IInv, LateInv
<1> QED
  BY <1>1, <1>2, <1>3, AnswerFrame

LEMMA ReadingKeepsInv ==
  ASSUME PanelTypeOK, IInv, NEW o \in Ops, ReadStatement(o)
  PROVE  IInv'
<1>0. RowsInv /\ ShownInv /\ AloneInv /\ Request(o) /\ ops[o].at \in {"state", "attempt", "outcome"} /\ Busy(o)
  BY DEF IInv, RequestInv, ReadStatement, ReadState, ReadAttempt, ReadOutcome, Busy
<1>1. PICK k \in Keys, s \in Stages :
        k = ops[o].key /\ s = ops[o].stage /\ Drawn(k) /\ ops[o] \in Requests
  BY <1>0, RequestKeyed DEF Requests
<1>2. Run(o) = db[k][s] /\ Run(o) \in RunRows
  BY <1>1 DEF PanelTypeOK, Run, Chains
<1>3. Run(o).state # "none" /\ (Run(o).state = "succeeded" => Run(o).last = "succeeded")
  BY <1>0, <1>1, <1>2 DEF Request, Begun, RowsInv, Stages, Requests
<1>4. ASSUME NEW r \in Requests, Start(o, r), UNCHANGED <<db, origin, late, form, shown>>,
             r.key = k, r.stage = s, r.found = ops[o].found, r.kind = ops[o].kind,
             r.at \in {"attempt", "outcome", "read"},
             r.at = "attempt" => r.got.state = Run(o).state,
             r.at = "outcome" => Run(o).state = "succeeded" /\ r.got.n = Run(o).n /\ r.got.last = "succeeded"
      PROVE  IInv'
  <2>1. ops'[o] = r
    BY <1>4, OpTyped
  <2>2. Run(o)' = Run(o)
    BY <1>1, <1>2, <1>4, <2>1 DEF Run
  <2>3. r.kind # "retry" /\ (Drawn(k)' <=> Drawn(k)) /\ (\A n : Begun(k, n)' <=> Begun(k, n))
    BY <1>0, <1>4 DEF Request, Drawn, Begun
  <2>4. r.stage <= r.found + 1 /\ Begun(k, r.found + 1)
    BY <1>0, <1>1, <1>4 DEF Request, Busy
  <2>5. Request(o)'
    BY <1>1, <1>3, <1>4, <2>1, <2>2, <2>3, <2>4, Names DEF Request
  <2>6. AloneInv'
    BY <1>0, <1>1, <1>4, MovesOn
  <2>7. ShownInv'
    BY <1>0, <1>4 DEF ShownInv, Created
  <2> QED
    BY <1>4, <2>5, <2>6, <2>7, ReadFrame
<1>5. CASE ReadState(o)
  <2>1. PICK r : r = [ops[o] EXCEPT !.at = "attempt", !.got = [NoRow EXCEPT !.state = Run(o).state]]
    OBVIOUS
  <2>2. Start(o, r) /\ UNCHANGED <<db, origin, late, form, shown>>
    BY <1>5, <2>1 DEF ReadState
  <2>3. PICK got : got = [NoRow EXCEPT !.state = Run(o).state]
    OBVIOUS
  <2>4. got \in RunRows /\ got.state = Run(o).state
    BY <1>2, <2>3 DEF NoRow, Row, RunRows, States
  <2>5. /\ r \in Requests /\ r.key = k /\ r.stage = s /\ r.found = ops[o].found
        /\ r.kind = ops[o].kind /\ r.at = "attempt" /\ r.got = got
    BY <1>1, <2>1, <2>3, <2>4, Names DEF Requests
  <2> QED
    BY <1>4, <2>2, <2>4, <2>5
<1>6. CASE ReadAttempt(o)
  <2>1. PICK got : got = [Run(o) EXCEPT !.state = ops[o].got.state]
    OBVIOUS
  <2>2. got \in RunRows /\ got.state = ops[o].got.state /\ got.n = Run(o).n /\ got.last = Run(o).last
    BY <1>1, <1>2, <2>1 DEF RunRows, Requests
  <2>3. PICK offer \in Nat : offer = IF ops[o].stage = 1 THEN Offer(got) ELSE 0
    BY <2>2, Values
  <2>4. Start(o, IF got.state = "succeeded" THEN [ops[o] EXCEPT !.got = got, !.at = "outcome"]
                 ELSE [ops[o] EXCEPT !.got = NoRow, !.at = "read", !.offer = offer])
    BY <1>0, <1>6, <2>1, <2>3 DEF ReadAttempt, Request
  <2>5. UNCHANGED <<db, origin, late, form, shown>> /\ ops[o].at = "attempt"
    BY <1>6 DEF ReadAttempt
  <2>6. CASE got.state = "succeeded"
    <3>1. PICK r : r = [ops[o] EXCEPT !.got = got, !.at = "outcome"]
      OBVIOUS
    <3>2. /\ r \in Requests /\ r.key = k /\ r.stage = s /\ r.found = ops[o].found
          /\ r.kind = ops[o].kind /\ r.at = "outcome" /\ r.got = got
      BY <1>1, <2>2, <3>1, Names DEF Requests
    <3>3. Run(o).state = "succeeded" /\ got.last = "succeeded"
      BY <1>0, <1>3, <2>2, <2>5, <2>6 DEF Request
    <3>4. Start(o, r)
      BY <2>4, <2>6, <3>1
    <3> QED
      BY <1>4, <2>2, <2>5, <3>2, <3>3, <3>4
  <2>7. CASE got.state # "succeeded"
    <3>1. PICK r : r = [ops[o] EXCEPT !.got = NoRow, !.at = "read", !.offer = offer]
      OBVIOUS
    <3>2. /\ r \in Requests /\ r.key = k /\ r.stage = s /\ r.found = ops[o].found
          /\ r.kind = ops[o].kind /\ r.at = "read"
      BY <1>1, <3>1, Names, Values DEF Requests
    <3>3. Start(o, r)
      BY <2>4, <2>7, <3>1
    <3> QED
      BY <1>4, <2>5, <3>2, <3>3
  <2> QED
    BY <2>6, <2>7
<1>7. CASE ReadOutcome(o)
  <2>1. ops[o].got.n = Run(o).n /\ ops[o].got.last = "succeeded"
    BY <1>0, <1>7 DEF ReadOutcome, Request
  <2>2. PICK r : r = [ops[o] EXCEPT !.got = NoRow, !.at = "read"]
    OBVIOUS
  <2>3. Start(o, r) /\ UNCHANGED <<db, origin, late, form, shown>>
    BY <1>7, <2>1, <2>2 DEF ReadOutcome
  <2>4. /\ r \in Requests /\ r.key = k /\ r.stage = s /\ r.found = ops[o].found
        /\ r.kind = ops[o].kind /\ r.at = "read"
    BY <1>1, <2>2, Names, Values DEF Requests
  <2> QED
    BY <1>4, <2>3, <2>4
<1> QED
  BY <1>5, <1>6, <1>7 DEF ReadStatement

\* What is shown of a chain is of the run that was shown first.
LEMMA ShowingKeepsInv ==
  ASSUME PanelTypeOK, IInv, NEW o \in Ops, Showing(o)
  PROVE  IInv'
<1>0. RowsInv /\ ShownInv /\ AloneInv /\ Request(o) /\ ops[o].at \in {"read", "chain", "found"} /\ Busy(o)
  BY DEF IInv, RequestInv, Showing, ShowRun, ReadChain, ShowChain, ShowReel, ShowCalendar, Busy
<1>1. PICK k \in Keys : k = ops[o].key /\ Drawn(k) /\ ops[o] \in Requests /\ shown \in Screens
  BY <1>0, RequestKeyed DEF PanelTypeOK
<1>2. /\ ops[o].kind # "retry" /\ ops[o].stage <= ops[o].found + 1 /\ Begun(k, ops[o].found + 1)
      /\ Created(k) /\ UNCHANGED <<db, origin, late>>
  <2>1. ops[o].kind # "retry" /\ ops[o].stage <= ops[o].found + 1 /\ Begun(k, ops[o].found + 1)
    BY <1>0, <1>1 DEF Request, Busy
  <2>2. Created(k)
    BY <1>1, <2>1 DEF Begun, Created, Stages, Requests
  <2> QED
    BY <2>1, <2>2 DEF Showing, ShowRun, ReadChain, ShowChain, ShowReel, ShowCalendar
<1>3. /\ shown.alone => \A p \in Ops : Busy(p) => p = o
      /\ shown.alone /\ PastTheRun(o) => shown.key = k
      /\ shown.alone /\ ops[o].stage = 3 => shown.reel = shown.key
  BY <1>0, <1>1 DEF AloneInv
<1>4. ASSUME shown'.corrupt = shown.corrupt,
             \/ shown'.key = shown.key /\ shown'.offer = shown.offer
             \/ shown'.key = k
      PROVE  ShownInv'
  BY <1>0, <1>1, <1>2, <1>4, Names DEF ShownInv, Created
<1>5. ASSUME NEW r \in Requests, Start(o, r), r.key = k, r.kind = ops[o].kind, form' = form,
             r.stage <= r.found + 1, Begun(k, r.found + 1),
             r.at \in {"chain", "found", "state"}, r.at # "state" => r.stage = 1,
             shown'.corrupt = shown.corrupt, shown'.alone = shown.alone,
             \/ shown'.key = shown.key /\ shown'.offer = shown.offer
             \/ shown'.key = k,
             shown.alone => shown'.key = k,
             shown.alone /\ r.stage = 3 => shown'.reel = shown'.key
      PROVE  IInv'
  <2>1. ops'[o] = r /\ \A p \in Ops : p # o => ops'[p] = ops[p]
    BY <1>5, OpTyped
  <2>2. Begun(k, r.found + 1)' /\ Drawn(k)'
    BY <1>1, <1>2, <1>5 DEF Begun, Drawn
  <2>3. Request(o)'
    BY <1>2, <1>5, <2>1, <2>2, Names DEF Request
  <2>4. AloneInv'
    <3>1. Busy(o)' /\ ~ Alone'
      BY <1>5, <2>1 DEF Busy, Alone, Free
    <3>2. shown'.alone => \A p \in Ops : Busy(p)' => p = o
      BY <1>3, <1>5, <2>1 DEF Busy
    <3>3. \A p \in Ops : PastTheRun(p)' => Busy(p)'
      BY DEF PastTheRun, Busy
    <3> QED
      BY <1>5, <2>1, <3>1, <3>2, <3>3 DEF AloneInv
  <2>5. form'.submission = form.submission /\ form'.address = form.address
    BY <1>5
  <2> QED
    BY <1>2, <1>4, <1>5, <2>3, <2>4, <2>5, ReadFrame
<1>6. ASSUME End(o), shown'.corrupt = shown.corrupt, shown'.alone = shown.alone,
             shown'.key = shown.key, shown'.offer = shown.offer,
             shown.alone => {shown'.reel, shown'.calendar} \subseteq {None, shown.key}
      PROVE  IInv'
  <2>1. /\ Start(o, NoOp) /\ NoOp \in Requests
        /\ form'.submission = form.submission /\ form'.address = form.address
    BY <1>6, Values DEF End, Start, Released, PanelTypeOK, Forms
  <2>2. ops'[o] = NoOp /\ \A p \in Ops : p # o => ops'[p] = ops[p]
    BY <2>1, OpTyped
  <2>3. Request(o)' /\ ~ Busy(o)'
    BY <2>2 DEF Request, NoOp, Busy
  <2>4. AloneInv'
    <3>1. shown'.alone => \A p \in Ops : ~ Busy(p)'
      BY <1>3, <1>6, <2>2, <2>3 DEF Busy
    <3>2. \A p \in Ops : PastTheRun(p)' => Busy(p)'
      BY DEF PastTheRun, Busy
    <3> QED
      BY <1>6, <3>1, <3>2 DEF AloneInv
  <2> QED
    BY <1>2, <1>4, <1>6, <2>1, <2>3, <2>4, ReadFrame
<1>7. CASE ShowRun(o)
  <2>1. PICK r : r = [ops[o] EXCEPT !.at = "chain", !.offer = 0]
    OBVIOUS
  <2>2. /\ r \in Requests /\ r.key = k /\ r.kind = ops[o].kind /\ r.at = "chain"
        /\ r.stage = ops[o].stage /\ r.found = ops[o].found
    BY <1>1, <2>1, Names DEF Requests
  <2>3. Start(o, r) /\ form' = form /\ ops[o].stage = 1
    BY <1>7, <2>1 DEF ShowRun
  <2>4. shown'.corrupt = shown.corrupt /\ shown'.alone = shown.alone /\ shown'.key = k
    BY <1>1, <1>7 DEF ShowRun, Screens
  <2> QED
    BY <1>2, <1>5, <2>2, <2>3, <2>4
<1>8. CASE ReadChain(o)
  <2>1. PICK found \in 0 .. 2 : found = Later(ops[o].key) /\ Begun(k, found + 1)
    BY <1>0, <1>1, <1>2, LaterBegun DEF PanelTypeOK
  <2>2. PICK r : r = [ops[o] EXCEPT !.at = "found", !.found = found]
    OBVIOUS
  <2>3. /\ r \in Requests /\ r.key = k /\ r.kind = ops[o].kind /\ r.at = "found"
        /\ r.stage = ops[o].stage /\ r.found = found
    BY <1>1, <2>2, Names DEF Requests
  <2>4. Start(o, r) /\ form' = form /\ shown' = shown /\ ops[o].at = "chain"
    BY <1>8, <2>1, <2>2 DEF ReadChain
  <2>5. ops[o].stage = 1 /\ PastTheRun(o)
    BY <1>0, <2>4 DEF Request, PastTheRun
  <2>6. r.stage <= r.found + 1
    BY <2>3, <2>5
  <2> QED
    BY <1>3, <1>5, <2>1, <2>3, <2>4, <2>5, <2>6
<1>9. ASSUME NEW s \in Stages, ReadStage(o, s), form' = form, s <= ops[o].found + 1,
             shown'.corrupt = shown.corrupt, shown'.alone = shown.alone,
             shown'.key = shown.key, shown'.offer = shown.offer,
             shown.alone => shown.key = k,
             shown.alone /\ s = 3 => shown'.reel = shown'.key
      PROVE  IInv'
  <2>1. PICK r : r = [ops[o] EXCEPT !.at = "state", !.stage = s]
    OBVIOUS
  <2>2. /\ r \in Requests /\ r.key = k /\ r.kind = ops[o].kind /\ r.at = "state"
        /\ r.stage = s /\ r.found = ops[o].found
    BY <1>1, <2>1, Names DEF Requests
  <2>3. Start(o, r)
    BY <1>9, <2>1 DEF ReadStage
  <2> QED
    BY <1>2, <1>5, <1>9, <2>2, <2>3
<1>10. CASE ShowChain(o)
  <2>1. CASE ops[o].found = 0
    <3>1. End(o) /\ shown' = [shown EXCEPT !.reel = None, !.calendar = None]
      BY <1>10, <2>1 DEF ShowChain
    <3>2. /\ shown'.corrupt = shown.corrupt /\ shown'.alone = shown.alone
          /\ shown'.key = shown.key /\ shown'.offer = shown.offer
          /\ shown'.reel = None /\ shown'.calendar = None
      BY <1>1, <3>1 DEF Screens
    <3> QED
      BY <1>6, <3>1, <3>2
  <2>2. CASE ops[o].found # 0
    <3>1. ReadStage(o, 2) /\ form' = form /\ shown' = shown /\ PastTheRun(o)
      BY <1>10, <2>2 DEF ShowChain, PastTheRun
    <3>2. 2 \in Stages /\ 2 <= ops[o].found + 1
      BY <1>1, <2>2 DEF Stages, Requests
    <3> QED
      BY <1>3, <1>9, <3>1, <3>2
  <2> QED
    BY <2>1, <2>2
<1>11. CASE ShowReel(o)
  <2>1. ops[o].stage = 2 /\ PastTheRun(o) /\ ops[o].found \in 1 .. 2
    BY <1>0, <1>1, <1>2, <1>11 DEF ShowReel, PastTheRun, Requests
  <2>2. CASE ops[o].found = 1
    <3>1. End(o) /\ shown' = [shown EXCEPT !.reel = k, !.calendar = None]
      BY <1>1, <1>11, <2>2 DEF ShowReel
    <3>2. /\ shown'.corrupt = shown.corrupt /\ shown'.alone = shown.alone
          /\ shown'.key = shown.key /\ shown'.offer = shown.offer
          /\ shown'.reel = k /\ shown'.calendar = None
      BY <1>1, <3>1 DEF Screens
    <3> QED
      BY <1>3, <1>6, <2>1, <3>1, <3>2
  <2>3. CASE ops[o].found # 1
    <3>1. ReadStage(o, 3) /\ form' = form /\ shown' = [shown EXCEPT !.reel = k]
      BY <1>1, <1>11, <2>3 DEF ShowReel
    <3>2. /\ shown'.corrupt = shown.corrupt /\ shown'.alone = shown.alone
          /\ shown'.key = shown.key /\ shown'.offer = shown.offer /\ shown'.reel = k
      BY <1>1, <3>1 DEF Screens
    <3>3. 3 \in Stages /\ 3 <= ops[o].found + 1
      BY <2>1, <2>3 DEF Stages
    <3> QED
      BY <1>3, <1>9, <2>1, <3>1, <3>2, <3>3
  <2> QED
    BY <2>2, <2>3
<1>12. CASE ShowCalendar(o)
  <2>1. ops[o].stage = 3 /\ PastTheRun(o) /\ End(o) /\ shown' = [shown EXCEPT !.calendar = k]
    BY <1>0, <1>1, <1>12 DEF ShowCalendar, PastTheRun
  <2>2. /\ shown'.corrupt = shown.corrupt /\ shown'.alone = shown.alone /\ shown'.reel = shown.reel
        /\ shown'.key = shown.key /\ shown'.offer = shown.offer /\ shown'.calendar = k
    BY <1>1, <2>1 DEF Screens
  <2> QED
    BY <1>3, <1>6, <2>1, <2>2
<1> QED
  BY <1>7, <1>8, <1>10, <1>11, <1>12 DEF Showing

-----------------------------------------------------------------------------
\* The invariant holds at first and is kept by every step.
LEMMA InitInv == Init => PanelTypeOK /\ IInv
<1> SUFFICES ASSUME Init PROVE IInv
  BY InitTyped
<1>1. /\ \A k \in Keys, s \in Stages : db[k][s].state = "none"
      /\ \A k \in Keys : ~ Drawn(k) /\ ~ Created(k) /\ ~ Here(k)
  <2>1. \A k \in Keys, s \in Stages : db[k][s].state = "none"
    BY DEF Init, RecordsInit, NoRow, Row
  <2> QED
    BY <2>1 DEF Init, Drawn, Created, Here, Stages
<1>2. form.submission = None /\ form.address = None
  BY DEF Init
<1>3. OriginInv /\ FormInv /\ AddressInv /\ RunInv /\ LateInv
  BY <1>1, <1>2 DEF Init, OriginInv, FormInv, AddressInv, RunInv, LateInv
<1>4. RowsInv
  <2>1. \A s \in 1 .. 2 : s + 1 \in Stages
    BY DEF Stages
  <2> QED
    BY <1>1, <2>1 DEF RowsInv
<1>5. ShownInv
  BY DEF Init, ShownInv, Blank
<1>6. \A o \in Ops : ops[o].at = "free" /\ ops[o].kind = "none" /\ ~ Busy(o) /\ ~ PastTheRun(o)
  BY DEF Init, NoOp, Busy, PastTheRun
<1>7. RequestInv
  BY <1>6 DEF RequestInv, Request
<1>8. AloneInv
  <2>1. shown.reel = None /\ shown.calendar = None
    BY DEF Init, Blank
  <2> QED
    BY <1>6, <2>1 DEF AloneInv
<1> QED
  BY <1>3, <1>4, <1>5, <1>7, <1>8 DEF IInv

LEMMA StepInv == PanelTypeOK /\ IInv /\ [Next]_vars => PanelTypeOK' /\ IInv'
<1> SUFFICES ASSUME PanelTypeOK, IInv, [Next]_vars PROVE IInv'
  BY StepTyped DEF IInv
<1>1. CASE Load
  BY <1>1, LoadKeepsInv
<1>2. ASSUME NEW o \in Ops, (\E d \in Drafts : Submit(o, d)) \/ RetryButton(o) \/ RefreshButton(o)
      PROVE  IInv'
  BY <1>2, ButtonKeepsInv
<1>3. CASE Elsewhere \/ \E post \in late : LateArrives(post[1], post[2])
  BY <1>3, DatabaseStepKeepsInv
<1>4. ASSUME NEW o \in Ops, Answer(o) \/ RequestFails(o) PROVE IInv'
  <2>1. Request(o)
    BY DEF IInv, RequestInv
  <2>2. \/ SubmitArrives(o) \/ SubmitAccepted(o) \/ RetryArrives(o) \/ RequestFails(o)
        \/ ReadStatement(o) \/ Showing(o)
    BY <1>4, <2>1, Answers
  <2> QED
    BY <2>2, PostingKeepsInv, AcceptedKeepsInv, ReadingKeepsInv, ShowingKeepsInv
<1>5. CASE UNCHANGED vars
  <2>1. /\ GoesOn /\ \A k \in Keys : Created(k)' => Drawn(k)
        /\ late' = late /\ UNCHANGED <<origin, form, shown, ops>>
    BY <1>5 DEF vars, GoesOn, RunsGoOn, RowsInv, Created, IInv, RunInv, PanelTypeOK
  <2> QED
    BY <2>1, DatabaseKeepsInv
<1> QED
  BY <1>1, <1>2, <1>3, <1>4, <1>5 DEF Next, User

\* The inductive invariant of the page, its requests and the runs.
THEOREM PanelInvariance == Spec => [](PanelTypeOK /\ IInv)
BY InitInv, StepInv, PTL DEF Spec

\* The screen, the form, the requests and the tables keep their types.
THEOREM PanelTypes == Spec => []PanelTypeOK
BY PanelInvariance, PTL

\* Two runs of one page for one content: the key drawn after the first was
\* drawn for another content, because the form draws one only then.
LEMMA OneRunFollows == PanelTypeOK /\ IInv => OneRunPerBrief
<1> SUFFICES ASSUME PanelTypeOK, IInv,
                    NEW j \in Keys, NEW k \in Keys,
                    j < k, Created(j), Created(k), origin[j] = origin[k], origin[j].here
             PROVE  \E i \in j .. k : origin[i].draft # origin[j].draft
  BY DEF OneRunPerBrief
<1>1. Here(j) /\ Drawn(k)
  BY DEF IInv, RunInv, Here
<1>2. j + 1 \in Keys /\ j + 1 \in j .. k
  BY BriefPanelAssumption DEF Keys
<1>3. Drawn(j + 1)
  <2>1. j + 1 < k \/ j + 1 = k
    BY <1>2 DEF Keys
  <2> QED
    BY <1>1, <1>2, <2>1 DEF IInv, OriginInv
<1>4. origin[j].draft # origin[j + 1].draft
  BY <1>1, <1>2, <1>3 DEF IInv, OriginInv
<1> QED
  BY <1>2, <1>4

\* However often a member sends a brief again, on errors or lost answers, one
\* page makes one run of it (submissionKey of WorkflowBriefForm), for any
\* contents and any number of keys and requests.
THEOREM OneRunPerBriefHolds == Spec => []OneRunPerBrief
BY PanelInvariance, OneRunFollows, PTL

\* Reading state, attempt and artifact of a run, of any stage, in separate
\* statements never looks like corrupt data, whatever workers and retries do
\* in between.
THEOREM ReadsNeverTripHolds == Spec => []ReadsNeverTrip
<1>1. IInv => ReadsNeverTrip
  BY DEF IInv, ShownInv, ReadsNeverTrip
<1> QED
  BY <1>1, PanelInvariance, PTL

\* A refresh that was alone leaves one chain on the screen.
THEOREM LoneRefreshIsCoherentHolds == Spec => []LoneRefreshIsCoherent
<1>1. IInv => LoneRefreshIsCoherent
  BY DEF IInv, AloneInv, LoneRefreshIsCoherent
<1> QED
  BY <1>1, PanelInvariance, PTL

\* No step of the page, the routes or the workers, and no retry that arrives
\* late, sets a running or a finished run back.
THEOREM RetryOnlyWhatFailedHolds == Spec => RetryOnlyWhatFailed
<1>1. PanelTypeOK /\ IInv /\ [Next]_vars =>
        [\A k \in Keys, s \in Stages :
           db[k][s].state \in {"running", "succeeded"} => db'[k][s].state # "queued"]_vars
  BY StepTyped DEF IInv, GoesOn, RunsGoOn
<1> QED
  BY <1>1, PanelInvariance, PTL DEF Spec, RetryOnlyWhatFailed

\* The page, its routes and what is carried out late write nothing the
\* chain would not: a retry is one its row still offers, and a submission
\* makes a run once.  It works on the records the queues keep.
THEOREM PageKeepsTheRecords == Spec => RecordsSpec
<1>1. Init => RecordsInit
  BY DEF Init
<1>2. PanelTypeOK /\ IInv /\ [Next]_vars => [RecordsNext]_db
  BY StepTyped DEF IInv
<1> QED
  BY <1>1, <1>2, PanelInvariance, PTL DEF Spec, RecordsSpec

-----------------------------------------------------------------------------
(* The submission in the database.                                         *)
\* A submission past its first statement, and what of its reading is still
\* so.
Submits(s) == command[s].step \in {"limit", "sum", "insert"}

StillSo(s) ==
  Submits(s) =>
    /\ holder = s
    /\ tenantActive
    /\ role[command[s].member] # "gone"
    /\ tasks[command[s].member][command[s].key] = NoTask

SubmissionInv == TypeOK /\ \A s \in Sessions : StillSo(s)

\* The step of a command tells which kind of command it is.
LEMMA StepTellsKind ==
  ASSUME TypeOK, NEW s \in Sessions
  PROVE  /\ Submits(s) => command[s] \in Submission
         /\ command[s].step = "allow" => command[s] \in Allowance
         /\ command[s] = Idle => ~ Submits(s)
BY DEF TypeOK, Submits, Idle, Submission, Allowance

\* A change of one command leaves the others as they were.
LEMMA OtherCommands ==
  ASSUME TypeOK, NEW s \in Sessions, NEW c, Does(s, c)
  PROVE  command'[s] = c /\ \A o \in Sessions \ {s} : command'[o] = command[o]
BY DEF TypeOK, Does

\* Ending a command, whatever it was, keeps what the others rely on.
LEMMA ReleaseKeeps ==
  ASSUME SubmissionInv, NEW s \in Sessions, Release(s),
         UNCHANGED <<tenantActive, role, month, limits, usage>>,
         tasks' \in [Members -> [ClientKeys -> Contents \cup {NoTask}]],
         tasks' = tasks \/ holder = s
  PROVE  SubmissionInv'
<1>1. command'[s] = Idle /\ \A o \in Sessions \ {s} : command'[o] = command[o]
  BY OtherCommands DEF Release, SubmissionInv
<1>2. TypeOK'
  <2>1. command' \in [Sessions -> {Idle} \cup Submission \cup Allowance]
    BY DEF Release, Does, SubmissionInv, TypeOK
  <2> QED BY <2>1 DEF Release, SubmissionInv, TypeOK
<1>3. ASSUME NEW o \in Sessions PROVE StillSo(o)'
  <2>1. CASE o = s
    BY <1>1, <2>1 DEF StillSo, Submits, Idle
  <2>2. CASE o # s
    <3>1. command'[o] = command[o]
      BY <1>1, <2>2
    <3>2. Submits(o) => holder = o /\ holder' = o /\ tasks' = tasks
      BY <2>2 DEF SubmissionInv, StillSo, Release
    <3> QED BY <3>1, <3>2 DEF SubmissionInv, StillSo, Submits
  <2> QED BY <2>1, <2>2
<1> QED BY <1>2, <1>3 DEF SubmissionInv

\* A submission moves on without a change of what it has read.
LEMMA MoveOnKeeps ==
  ASSUME SubmissionInv, NEW s \in Sessions, Submits(s),
         NEW c \in Submission, c.member = command[s].member, c.key = command[s].key,
         Does(s, c), UNCHANGED <<tables, holder, spent>>
  PROVE  SubmissionInv'
<1>1. command'[s] = c /\ \A o \in Sessions \ {s} : command'[o] = command[o]
  BY OtherCommands DEF SubmissionInv
<1>2. TypeOK'
  <2>1. command' \in [Sessions -> {Idle} \cup Submission \cup Allowance]
    BY DEF Does, SubmissionInv, TypeOK
  <2> QED BY <2>1 DEF tables, SubmissionInv, TypeOK
<1>3. StillSo(s)'
  BY <1>1 DEF tables, SubmissionInv, StillSo
<1>4. ASSUME NEW o \in Sessions \ {s} PROVE StillSo(o)'
  <2>1. command'[o] = command[o]
    BY <1>1
  <2> QED BY <2>1 DEF tables, SubmissionInv, StillSo, Submits
<1> QED BY <1>2, <1>3, <1>4 DEF SubmissionInv

LEMMA SubmissionInit == ASSUME AllowanceInit PROVE SubmissionInv
<1>1. TypeOK
  <2>1. role \in [Members -> {"owner", "operator", "gone"}]
    BY DEF AllowanceInit
  <2>2. month \in Months
    BY UsageAllowanceAssumption DEF AllowanceInit, Months
  <2>3. /\ limits \in [Members -> [Months -> Limits \cup {NoLimit}]]
        /\ tasks \in [Members -> [ClientKeys -> Contents \cup {NoTask}]]
        /\ usage \in [Members -> [ClientKeys -> UsageRow \cup {NoUsage}]]
    BY DEF AllowanceInit
  <2>4. command \in [Sessions -> {Idle} \cup Submission \cup Allowance]
    BY DEF AllowanceInit
  <2> QED BY <2>1, <2>2, <2>3, <2>4 DEF AllowanceInit, TypeOK
<1>2. ASSUME NEW s \in Sessions PROVE StillSo(s)
  BY DEF AllowanceInit, StillSo, Submits, Idle
<1> QED BY <1>1, <1>2 DEF SubmissionInv

LEMMA SubmitBeginKeeps ==
  ASSUME SubmissionInv, NEW s \in Sessions, NEW m \in Members,
         NEW k \in ClientKeys, NEW c \in Contents, SubmitBegin(s, m, k, c)
  PROVE  SubmissionInv'
<1> DEFINE new == NewSubmission(m, k, c)
<1>1. command'[s] = new /\ \A o \in Sessions \ {s} : command'[o] = command[o]
  BY OtherCommands DEF SubmitBegin, SubmissionInv
<1>2. new \in Submission /\ new.member = m /\ new.key = k
  BY DEF NewSubmission, Submission
<1>3. TypeOK'
  <2>1. command' \in [Sessions -> {Idle} \cup Submission \cup Allowance]
    BY <1>2 DEF SubmitBegin, Does, SubmissionInv, TypeOK
  <2> QED BY <2>1 DEF SubmitBegin, MarkSpent, tables, SubmissionInv, TypeOK
<1>4. StillSo(s)'
  BY <1>1, <1>2 DEF SubmitBegin, tables, StillSo
<1>5. ASSUME NEW o \in Sessions \ {s} PROVE StillSo(o)'
  <2>1. ~ Submits(o)
    BY UsageAllowanceAssumption DEF SubmitBegin, SubmissionInv, StillSo
  <2> QED BY <1>1, <2>1 DEF StillSo, Submits
<1> QED BY <1>3, <1>4, <1>5 DEF SubmissionInv

LEMMA SubmitLimitKeeps ==
  ASSUME SubmissionInv, NEW s \in Sessions, SubmitLimit(s)
  PROVE  SubmissionInv'
<1>1. Submits(s) /\ command[s] \in Submission
  BY StepTellsKind DEF SubmitLimit, Submits, SubmissionInv
<1>2. PICK limit, step : limit = limits[command[s].member][month]
                         /\ step = IF limit = NoLimit THEN "insert" ELSE "sum"
  OBVIOUS
<1>3. limit \in Limits \cup {NoLimit} /\ step \in {"sum", "insert"}
  BY <1>1, <1>2 DEF SubmissionInv, TypeOK, Submission
<1>4. PICK c : c = [command[s] EXCEPT !.limit = limit, !.step = step]
  OBVIOUS
<1>5. Does(s, c) /\ UNCHANGED <<tables, holder, spent>>
  BY <1>2, <1>4 DEF SubmitLimit
<1>6. c \in Submission /\ c.member = command[s].member /\ c.key = command[s].key
  BY <1>1, <1>3, <1>4 DEF Submission
<1> QED BY <1>1, <1>5, <1>6, MoveOnKeeps

LEMMA SubmitSumKeeps ==
  ASSUME SubmissionInv, NEW s \in Sessions, SubmitSum(s)
  PROVE  SubmissionInv'
<1>1. Submits(s) /\ command[s] \in Submission
  BY StepTellsKind DEF SubmitSum, Submits, SubmissionInv
<1>2. CASE Release(s) /\ UNCHANGED tables
  BY <1>2, ReleaseKeeps DEF tables, SubmissionInv, TypeOK
<1>3. PICK c : c = [command[s] EXCEPT !.step = "insert"]
  OBVIOUS
<1>4. CASE Does(s, c) /\ UNCHANGED <<tables, holder, spent>>
  <2>1. c \in Submission /\ c.member = command[s].member /\ c.key = command[s].key
    BY <1>1, <1>3 DEF Submission
  <2> QED BY <1>1, <1>4, <2>1, MoveOnKeeps
<1> QED BY <1>2, <1>3, <1>4 DEF SubmitSum

LEMMA SubmitInsertKeeps ==
  ASSUME SubmissionInv, NEW s \in Sessions, SubmitInsert(s)
  PROVE  SubmissionInv'
<1>1. Submits(s) /\ holder = s
  BY DEF SubmitInsert, Submits, SubmissionInv, StillSo
<1>2. command[s] \in Submission
  BY <1>1, StepTellsKind DEF SubmissionInv
<1>3. tasks' \in [Members -> [ClientKeys -> Contents \cup {NoTask}]]
  BY <1>2 DEF SubmitInsert, SubmissionInv, TypeOK, Submission
<1> QED BY <1>1, <1>3, ReleaseKeeps DEF SubmitInsert

LEMMA AbortKeeps ==
  ASSUME SubmissionInv, NEW s \in Sessions, Abort(s)
  PROVE  SubmissionInv'
BY ReleaseKeeps DEF Abort, tables, SubmissionInv, TypeOK

LEMMA AllowanceBeginKeeps ==
  ASSUME SubmissionInv, NEW s \in Sessions, NEW o \in Members, NEW m \in Members,
         NEW l \in Limits, AllowanceBegin(s, o, m, l)
  PROVE  SubmissionInv'
<1> DEFINE new == [step |-> "allow", member |-> m, limit |-> l, period |-> month]
<1>1. command'[s] = new /\ \A other \in Sessions \ {s} : command'[other] = command[other]
  BY OtherCommands DEF AllowanceBegin, SubmissionInv
<1>2. TypeOK'
  <2>1. new \in Allowance
    BY DEF Allowance, SubmissionInv, TypeOK
  <2>2. command' \in [Sessions -> {Idle} \cup Submission \cup Allowance]
    BY <2>1 DEF AllowanceBegin, Does, SubmissionInv, TypeOK
  <2> QED BY <2>2 DEF AllowanceBegin, tables, SubmissionInv, TypeOK
<1>3. ASSUME NEW other \in Sessions PROVE StillSo(other)'
  BY <1>1 DEF AllowanceBegin, tables, SubmissionInv, StillSo, Submits
<1> QED BY <1>2, <1>3 DEF SubmissionInv

LEMMA AllowanceWriteKeeps ==
  ASSUME SubmissionInv, NEW s \in Sessions, AllowanceWrite(s)
  PROVE  SubmissionInv'
<1>1. command'[s] = Idle /\ \A o \in Sessions \ {s} : command'[o] = command[o]
  BY OtherCommands DEF AllowanceWrite, SubmissionInv
<1>2. TypeOK'
  <2>1. command[s] \in Allowance
    BY StepTellsKind DEF AllowanceWrite, SubmissionInv
  <2>2. limits' \in [Members -> [Months -> Limits \cup {NoLimit}]]
    BY <2>1 DEF AllowanceWrite, Allowance, SubmissionInv, TypeOK
  <2>3. command' \in [Sessions -> {Idle} \cup Submission \cup Allowance]
    BY DEF AllowanceWrite, Does, SubmissionInv, TypeOK
  <2>4. spent' \subseteq Sessions
    BY DEF AllowanceWrite, SubmissionInv, TypeOK
  <2> QED BY <2>2, <2>3, <2>4 DEF AllowanceWrite, SubmissionInv, TypeOK
<1>3. ASSUME NEW o \in Sessions PROVE StillSo(o)'
  BY <1>1 DEF AllowanceWrite, SubmissionInv, StillSo, Submits, Idle
<1> QED BY <1>2, <1>3 DEF SubmissionInv

LEMMA RecordUsageKeeps ==
  ASSUME SubmissionInv, NEW m \in Members, NEW k \in ClientKeys,
         NEW b \in Months,
         NEW t \in Tokens \cup {Unreported}, RecordUsage(m, k, b, t)
  PROVE  SubmissionInv'
<1>1. TypeOK'
  BY DEF RecordUsage, UsageRow, SubmissionInv, TypeOK
<1>2. ASSUME NEW o \in Sessions PROVE StillSo(o)'
  BY DEF RecordUsage, SubmissionInv, StillSo, Submits
<1> QED BY <1>1, <1>2 DEF SubmissionInv

\* Membership and tenant transactions find no submission under way.
LEMMA SetRoleKeeps ==
  ASSUME SubmissionInv, NEW m \in Members,
         NEW r \in {"owner", "operator", "gone"}, SetRole(m, r)
  PROVE  SubmissionInv'
<1>1. TypeOK'
  BY DEF SetRole, SubmissionInv, TypeOK
<1>2. ASSUME NEW o \in Sessions PROVE StillSo(o)'
  BY UsageAllowanceAssumption DEF SetRole, SubmissionInv, StillSo, Submits
<1> QED BY <1>1, <1>2 DEF SubmissionInv

LEMMA SetTenantKeeps ==
  ASSUME SubmissionInv, SetTenant
  PROVE  SubmissionInv'
<1>1. TypeOK'
  BY DEF SetTenant, SubmissionInv, TypeOK
<1>2. ASSUME NEW o \in Sessions PROVE StillSo(o)'
  BY UsageAllowanceAssumption DEF SetTenant, SubmissionInv, StillSo, Submits
<1> QED BY <1>1, <1>2 DEF SubmissionInv

LEMMA NextMonthKeeps ==
  ASSUME SubmissionInv, NextMonth
  PROVE  SubmissionInv'
<1>1. TypeOK'
  <2>1. month' \in Months
    BY UsageAllowanceAssumption DEF NextMonth, Months, SubmissionInv, TypeOK
  <2> QED BY <2>1 DEF NextMonth, SubmissionInv, TypeOK
<1>2. ASSUME NEW o \in Sessions PROVE StillSo(o)'
  BY DEF NextMonth, SubmissionInv, StillSo, Submits
<1> QED BY <1>1, <1>2 DEF SubmissionInv

LEMMA SubmissionNext ==
  ASSUME SubmissionInv, [AllowanceNext]_allowanceVars
  PROVE  SubmissionInv'
<1>1. CASE UNCHANGED allowanceVars
  BY <1>1 DEF allowanceVars, SubmissionInv, TypeOK, StillSo, Submits
<1>2. CASE AllowanceNext
  BY <1>2, SubmitBeginKeeps, SubmitLimitKeeps, SubmitSumKeeps, SubmitInsertKeeps, AbortKeeps,
     AllowanceBeginKeeps, AllowanceWriteKeeps, RecordUsageKeeps, SetRoleKeeps, SetTenantKeeps, NextMonthKeeps
     DEF AllowanceNext
<1> QED BY <1>1, <1>2

\* The inductive invariant: what a submission has read stays so until it ends.
THEOREM SubmissionInvariance ==
  AllowanceSpec => []SubmissionInv
<1>1. AllowanceInit => SubmissionInv
  BY SubmissionInit
<1>2. SubmissionInv /\ [AllowanceNext]_allowanceVars => SubmissionInv'
  BY SubmissionNext
<1> QED BY <1>1, <1>2, PTL DEF AllowanceSpec

\* Tables and commands keep their types.
THEOREM AllowanceTypes ==
  AllowanceSpec => []TypeOK
<1>1. SubmissionInv => TypeOK
  BY DEF SubmissionInv
<1> QED BY <1>1, SubmissionInvariance, PTL

\* A replay is never refused for its allowance and the insert never trips the
\* unique key, however many sessions send one key.
THEOREM ReplaysPassTheGate ==
  AllowanceSpec => []GatedBriefsAreNew
<1>1. SubmissionInv => GatedBriefsAreNew
  BY DEF SubmissionInv, StillSo, Submits, GatedBriefsAreNew
<1> QED BY <1>1, SubmissionInvariance, PTL

\* A task is created only for a member of an active tenant at that moment.
THEOREM CreationIsAuthorised ==
  AllowanceSpec => RevocationCannotRaceCreation
<1>1. ASSUME SubmissionInv, [AllowanceNext]_allowanceVars
      PROVE  [CreatedForMembers]_allowanceVars
  <2>1. CASE tasks' = tasks
    BY <2>1 DEF CreatedForMembers
  <2>2. ASSUME NEW s \in Sessions, SubmitInsert(s) PROVE CreatedForMembers
    <3>1. Submits(s)
      BY <2>2 DEF SubmitInsert, Submits
    <3>2. ASSUME NEW m \in Members, NEW k \in ClientKeys, tasks'[m][k] # tasks[m][k]
          PROVE  m = command[s].member
      <4>1. tasks' = [tasks EXCEPT ![command[s].member][command[s].key] = command[s].content]
        BY <2>2 DEF SubmitInsert
      <4>2. m # command[s].member => tasks'[m] = tasks[m]
        BY <4>1, <1>1 DEF SubmissionInv, TypeOK
      <4> QED BY <3>2, <4>2
    <3> QED BY <1>1, <3>1, <3>2 DEF SubmissionInv, StillSo, CreatedForMembers
  <2>3. tasks' = tasks \/ \E s \in Sessions : SubmitInsert(s)
    <3>1. CASE UNCHANGED allowanceVars
      BY <3>1 DEF allowanceVars
    <3>2. CASE AllowanceNext
      <4>1. \A s \in Sessions : SubmitLimit(s) \/ SubmitSum(s) \/ Abort(s) => tasks' = tasks
        BY Zenon DEF SubmitLimit, SubmitSum, Abort, tables
      <4>2. \A s \in Sessions, m \in Members, k \in ClientKeys, c \in Contents :
              SubmitBegin(s, m, k, c) => tasks' = tasks
        BY Zenon DEF SubmitBegin, tables
      <4>3. \A s \in Sessions : AllowanceWrite(s) => tasks' = tasks
        BY Zenon DEF AllowanceWrite
      <4>4. \A s \in Sessions, o, m \in Members, l \in Limits : AllowanceBegin(s, o, m, l) => tasks' = tasks
        BY Zenon DEF AllowanceBegin, tables
      <4>5. \A m \in Members, k \in ClientKeys, b \in Months, t \in Tokens \cup {Unreported} :
              RecordUsage(m, k, b, t) => tasks' = tasks
        BY Zenon DEF RecordUsage
      <4>6. SetTenant \/ NextMonth => tasks' = tasks
        BY Zenon DEF SetTenant, NextMonth
      <4>7. \A m \in Members, r \in {"owner", "operator", "gone"} : SetRole(m, r) => tasks' = tasks
        BY Zenon DEF SetRole
      <4> QED BY <3>2, <4>1, <4>2, <4>3, <4>4, <4>5, <4>6, <4>7, Zenon DEF AllowanceNext
    <3> QED BY <1>1, <3>1, <3>2
  <2> QED BY <1>1, <2>1, <2>2, <2>3
<1>2. SubmissionInv /\ [AllowanceNext]_allowanceVars => [CreatedForMembers]_allowanceVars
  BY <1>1
<1> QED BY <1>2, SubmissionInvariance, PTL DEF AllowanceSpec, RevocationCannotRaceCreation
-----------------------------------------------------------------------------
(* What the month has left.                                                *)
\* Consumption is a count, so it can be compared with a limit, and it only
\* grows within a month.
CountInv == \A m \in Members, mo \in Months : IsFiniteSet(ConsumedTokens(m, mo))

\* A submission that began with nothing left still has nothing left, and the
\* limit it has read, if it has read one, is a limit that is used up.
LostCause(s) ==
  LET c == command[s] IN
    /\ Submits(s) /\ c.step # "insert"
    /\ NothingLeft(c.member)
    /\ c.step = "sum" => c.limit # NoLimit /\ UsedUp(c.member, c.limit)
SpentInv == CountInv /\ \A s \in spent : LostCause(s)

LEMMA ConsumptionCounts ==
  ASSUME CountInv, NEW m \in Members, NEW mo \in Months
  PROVE  Consumed(m, mo) \in Nat
BY FS_CardinalityType DEF CountInv, Consumed

\* The record of one attempt adds to one member's month and takes nothing
\* from any other.
LEMMA RecordAddsUp ==
  ASSUME TypeOK, CountInv, NEW k \in ClientKeys, NEW n \in Members, NEW b \in Months,
         NEW t \in Tokens \cup {Unreported}, RecordUsage(n, k, b, t),
         NEW m \in Members, NEW mo \in Months
  PROVE  /\ IsFiniteSet(ConsumedTokens(m, mo))'
         /\ Consumed(m, mo)' \in Nat /\ Consumed(m, mo)' >= Consumed(m, mo)
<1> DEFINE row == [month |-> b, tokens |-> t]
           new == IF t = Unreported THEN {} ELSE {k} \X (1 .. t)
<1>1. usage' = [usage EXCEPT ![n][k] = row] /\ usage[n][k] = NoUsage
  BY DEF RecordUsage
<1>2. /\ usage \in [Members -> [ClientKeys -> UsageRow \cup {NoUsage}]]
      /\ usage'[n][k] = row
      /\ \A x \in Members, y \in ClientKeys : x # n \/ y # k => usage'[x][y] = usage[x][y]
  BY <1>1 DEF TypeOK
<1>3. IsFiniteSet(new)
  <2>1. CASE t = Unreported
    BY <2>1, FS_EmptySet
  <2>2. CASE t # Unreported
    <3>1. t \in Int
      BY <2>2, UsageAllowanceAssumption
    <3>2. IsFiniteSet(1 .. t)
      BY <3>1, FS_Interval
    <3>3. IsFiniteSet({k})
      BY FS_Singleton
    <3> QED
      BY <2>2, <3>2, <3>3, FS_Product
  <2> QED
    BY <2>1, <2>2
<1>4. ConsumedTokens(m, mo) \subseteq ConsumedTokens(m, mo)'
  <2>1. Reported(m, mo) \subseteq Reported(m, mo)'
    BY <1>1, <1>2 DEF Reported
  <2>2. \A x \in Reported(m, mo) : usage'[m][x].tokens = usage[m][x].tokens
    BY <1>1, <1>2 DEF Reported
  <2> QED
    BY <2>1, <2>2 DEF ConsumedTokens
<1>5. ConsumedTokens(m, mo)' \subseteq ConsumedTokens(m, mo) \cup new
  <2>1. ASSUME NEW x \in Reported(m, mo)', x \notin Reported(m, mo)
        PROVE  x = k /\ m = n /\ usage'[m][x] = row /\ t # Unreported
    BY <1>2, <2>1 DEF Reported
  <2>2. \A x \in Reported(m, mo) : x \in Reported(m, mo)' => usage'[m][x].tokens = usage[m][x].tokens
    BY <1>1, <1>2 DEF Reported
  <2>3. ASSUME NEW x \in Reported(m, mo)'
        PROVE  {x} \X (1 .. usage'[m][x].tokens) \subseteq ConsumedTokens(m, mo) \cup new
    <3>1. CASE x \in Reported(m, mo)
      BY <2>2, <3>1 DEF ConsumedTokens
    <3>2. CASE x \notin Reported(m, mo)
      BY <2>1, <3>2
    <3> QED
      BY <3>1, <3>2
  <2> QED
    BY <2>3 DEF ConsumedTokens
<1>6. IsFiniteSet(ConsumedTokens(m, mo)')
  <2>1. IsFiniteSet(ConsumedTokens(m, mo) \cup new)
    BY <1>3, FS_Union DEF CountInv
  <2> QED
    BY <1>5, <2>1, FS_Subset
<1>7. Cardinality(ConsumedTokens(m, mo)) <= Cardinality(ConsumedTokens(m, mo)')
  BY <1>4, <1>6, FS_Subset
<1>8. Cardinality(ConsumedTokens(m, mo)) \in Nat /\ Cardinality(ConsumedTokens(m, mo)') \in Nat
  BY <1>6, FS_CardinalityType DEF CountInv
<1> QED
  BY <1>6, <1>7, <1>8 DEF Consumed

\* Where no row of usage is written, consumption stays as it is.
LEMMA SameConsumption ==
  ASSUME usage' = usage, NEW m, NEW mo
  PROVE  ConsumedTokens(m, mo)' = ConsumedTokens(m, mo) /\ Consumed(m, mo)' = Consumed(m, mo)
<1>1. Reported(m, mo)' = Reported(m, mo)
  BY DEF Reported
<1>2. ConsumedTokens(m, mo)' = ConsumedTokens(m, mo)
  BY <1>1 DEF ConsumedTokens
<1> QED
  BY <1>2 DEF Consumed

LEMMA CountKept == ASSUME CountInv, usage' = usage PROVE CountInv'
BY SameConsumption DEF CountInv, Months

\* A submission that has lost stays lost while the month lasts, unless its
\* member's limit is written.
LEMMA LostStays ==
  ASSUME TypeOK, SpentInv, NEW s \in spent, command'[s] = command[s], month' = month, usage' = usage,
         limits'[command[s].member][month] = limits[command[s].member][month]
  PROVE  LostCause(s)'
<1>1. LostCause(s)
  BY DEF SpentInv
<1>2. \A l : UsedUp(command[s].member, l) => UsedUp(command[s].member, l)'
  BY SameConsumption DEF UsedUp
<1> QED
  BY <1>1, <1>2 DEF LostCause, NothingLeft, Submits, UsedUp

LEMMA SpentInit == AllowanceInit => SpentInv
<1> SUFFICES ASSUME AllowanceInit PROVE SpentInv
  OBVIOUS
<1>1. ASSUME NEW m \in Members, NEW mo \in Months PROVE IsFiniteSet(ConsumedTokens(m, mo))
  <2>1. Reported(m, mo) = {}
    BY DEF AllowanceInit, Reported
  <2>2. ConsumedTokens(m, mo) = {}
    BY <2>1 DEF ConsumedTokens
  <2> QED
    BY <2>2, FS_EmptySet
<1> QED
  BY <1>1 DEF SpentInv, CountInv, AllowanceInit

\* A submission enters with what its member has left just then.
LEMMA BeginSpent ==
  ASSUME SubmissionInv, SpentInv, NEW s \in Sessions, NEW m \in Members, NEW k \in ClientKeys,
         NEW c \in Contents, SubmitBegin(s, m, k, c)
  PROVE  SpentInv'
<1>1. /\ command'[s] = NewSubmission(m, k, c) /\ UNCHANGED tables
      /\ \A o \in Sessions \ {s} : command'[o] = command[o]
  BY OtherCommands DEF SubmissionInv, SubmitBegin
<1>2. NothingLeft(m)' <=> NothingLeft(m)
  BY <1>1, SameConsumption DEF tables, NothingLeft, UsedUp
<1>3. ASSUME NEW o \in spent' PROVE LostCause(o)'
  <2>1. CASE o = s /\ NothingLeft(m)
    BY <1>1, <1>2, <2>1 DEF LostCause, NewSubmission, Submits
  <2>2. CASE ~ (o = s /\ NothingLeft(m))
    <3>1. o \in spent
      BY <2>2 DEF SubmitBegin, MarkSpent
    <3>2. o # s
      BY <3>1, StepTellsKind DEF SubmissionInv, SpentInv, LostCause, SubmitBegin
    <3>3. o \in Sessions
      BY <3>1 DEF SubmissionInv, TypeOK
    <3> QED
      BY <1>1, <3>1, <3>2, <3>3, LostStays DEF SubmissionInv, tables
  <2> QED
    BY <2>1, <2>2
<1> QED
  BY <1>1, <1>3, CountKept DEF SpentInv, tables

\* A lost submission reads a limit that is used up.
LEMMA LimitSpent ==
  ASSUME SubmissionInv, SpentInv, NEW s \in Sessions, SubmitLimit(s)
  PROVE  SpentInv'
<1>1. UNCHANGED <<tables, spent>> /\ \A o \in Sessions \ {s} : command'[o] = command[o]
  BY OtherCommands DEF SubmissionInv, SubmitLimit
<1>2. ASSUME NEW o \in spent' PROVE LostCause(o)'
  <2>1. CASE o = s
    <3>1. LostCause(s)
      BY <1>1, <2>1 DEF SpentInv
    <3>2. command[s] \in Submission
      BY <3>1, StepTellsKind DEF SubmissionInv, LostCause
    <3>3. command'[s] = [command[s] EXCEPT !.limit = limits[command[s].member][month], !.step = "sum"]
      BY <3>1, OtherCommands DEF SubmissionInv, SubmitLimit, LostCause, NothingLeft
    <3>4. /\ command'[s].step = "sum" /\ command'[s].member = command[s].member
          /\ command'[s].limit = limits[command[s].member][month]
      BY <3>2, <3>3 DEF Submission
    <3> QED
      BY <1>1, <2>1, <3>1, <3>4, SameConsumption DEF LostCause, NothingLeft, UsedUp, Submits, tables
  <2>2. CASE o # s
    <3>1. o \in spent /\ o \in Sessions
      BY <1>1 DEF SubmissionInv, TypeOK
    <3> QED
      BY <1>1, <2>2, <3>1, LostStays DEF SubmissionInv, tables
  <2> QED
    BY <2>1, <2>2
<1> QED
  BY <1>1, <1>2, CountKept DEF SpentInv, tables

\* A command that ends is no submission any more.
LEMMA ReleaseSpent ==
  ASSUME SubmissionInv, SpentInv, NEW s \in Sessions, Release(s), UNCHANGED <<month, limits, usage>>
  PROVE  SpentInv'
<1>1. \A o \in Sessions \ {s} : command'[o] = command[o]
  BY OtherCommands DEF SubmissionInv, Release
<1>2. ASSUME NEW o \in spent' PROVE LostCause(o)'
  <2>1. o \in spent /\ o # s /\ o \in Sessions
    BY DEF Release, SubmissionInv, TypeOK
  <2> QED
    BY <1>1, <2>1, LostStays DEF SubmissionInv
<1> QED
  BY <1>2, CountKept DEF SpentInv

\* A submission that has not lost goes on; a lost one is refused.
LEMMA SumSpent ==
  ASSUME SubmissionInv, SpentInv, NEW s \in Sessions, SubmitSum(s)
  PROVE  SpentInv'
<1>1. CASE UsedUp(command[s].member, command[s].limit)
  BY <1>1, ReleaseSpent DEF SubmitSum, tables
<1>2. CASE ~ UsedUp(command[s].member, command[s].limit)
  <2>1. s \notin spent
    BY <1>2 DEF SubmitSum, SpentInv, LostCause
  <2>2. UNCHANGED <<tables, spent>> /\ \A o \in Sessions \ {s} : command'[o] = command[o]
    BY <1>2, OtherCommands DEF SubmissionInv, SubmitSum
  <2>3. ASSUME NEW o \in spent' PROVE LostCause(o)'
    <3>1. o \in spent /\ o # s /\ o \in Sessions
      BY <2>1, <2>2 DEF SubmissionInv, TypeOK
    <3> QED
      BY <2>2, <3>1, LostStays DEF SubmissionInv, tables
  <2> QED
    BY <2>2, <2>3, CountKept DEF SpentInv, tables
<1> QED
  BY <1>1, <1>2

\* An owner's command is no submission; when it writes a limit that leaves
\* something, who waits for that limit is no longer lost.
LEMMA OwnerSpent ==
  ASSUME SubmissionInv, SpentInv, NEW s \in Sessions,
         AllowanceWrite(s) \/ \E o, m \in Members, l \in Limits : AllowanceBegin(s, o, m, l)
  PROVE  SpentInv'
<1>1. s \notin spent
  BY StepTellsKind DEF SubmissionInv, SpentInv, LostCause, AllowanceWrite, AllowanceBegin, Submits
<1>2. CASE \E o, m \in Members, l \in Limits : AllowanceBegin(s, o, m, l)
  <2>1. UNCHANGED <<tables, spent>> /\ \A o \in Sessions \ {s} : command'[o] = command[o]
    BY <1>2, OtherCommands DEF SubmissionInv, AllowanceBegin
  <2>2. ASSUME NEW o \in spent' PROVE LostCause(o)'
    <3>1. o \in spent /\ o # s /\ o \in Sessions
      BY <1>1, <2>1 DEF SubmissionInv, TypeOK
    <3> QED
      BY <2>1, <3>1, LostStays DEF SubmissionInv, tables
  <2> QED
    BY <2>1, <2>2, CountKept DEF SpentInv, tables
<1>3. CASE AllowanceWrite(s)
  <2> DEFINE c == command[s]
  <2>1. /\ UNCHANGED <<month, usage>> /\ \A o \in Sessions \ {s} : command'[o] = command[o]
        /\ limits' = [limits EXCEPT ![c.member][c.period] = c.limit]
    BY <1>3, OtherCommands DEF SubmissionInv, AllowanceWrite
  <2>2. c \in Allowance /\ limits \in [Members -> [Months -> Limits \cup {NoLimit}]] /\ month \in Months
    BY <1>3, StepTellsKind DEF SubmissionInv, TypeOK, AllowanceWrite
  <2>3. c.member \in Members /\ c.period \in Months /\ c.limit \in Limits
    BY <2>2 DEF Allowance
  <2>4. ASSUME NEW o \in spent' PROVE LostCause(o)'
    <3>1. o \in spent
      BY <1>3 DEF AllowanceWrite
    <3>2. o # s /\ o \in Sessions /\ LostCause(o) /\ command'[o] = command[o]
      BY <1>1, <2>1, <3>1 DEF SubmissionInv, TypeOK, SpentInv
    <3>3. command[o] \in Submission /\ command[o].member \in Members
      BY <3>2, StepTellsKind DEF SubmissionInv, LostCause, Submission
    <3>4. CASE command[o].member = c.member /\ c.period = month
      <4>1. UsedUp(c.member, c.limit)
        BY <1>3, <3>4 DEF AllowanceWrite
      <4>2. limits'[c.member][month] = c.limit /\ c.limit # NoLimit
        BY <2>1, <2>2, <2>3, <3>4, UsageAllowanceAssumption
      <4> QED
        BY <2>1, <3>2, <3>4, <4>1, <4>2, SameConsumption DEF LostCause, NothingLeft, UsedUp, Submits
    <3>5. CASE ~ (command[o].member = c.member /\ c.period = month)
      <4>1. limits'[command[o].member][month] = limits[command[o].member][month]
        BY <2>1, <2>2, <2>3, <3>3, <3>5
      <4> QED
        BY <2>1, <3>1, <3>2, <4>1, LostStays DEF SubmissionInv
    <3> QED
      BY <3>4, <3>5
  <2> QED
    BY <2>1, <2>4, CountKept DEF SpentInv
<1> QED
  BY <1>2, <1>3

\* What is recorded makes nothing left over; what a new month brings does,
\* and nobody is lost in it.
LEMMA RecordSpent ==
  ASSUME SubmissionInv, SpentInv, NEW m \in Members, NEW k \in ClientKeys, NEW b \in Months,
         NEW t \in Tokens \cup {Unreported}, RecordUsage(m, k, b, t)
  PROVE  SpentInv'
<1>1. UNCHANGED <<limits, month, command, spent>>
  BY DEF RecordUsage
<1>2. CountInv'
  BY <1>1, RecordAddsUp DEF SubmissionInv, SpentInv, CountInv, Months
<1>3. ASSUME NEW s \in spent PROVE LostCause(s)'
  <2>1. LostCause(s) /\ s \in Sessions
    BY DEF SubmissionInv, TypeOK, SpentInv
  <2>2. command[s] \in Submission
    BY <2>1, StepTellsKind DEF SubmissionInv, LostCause
  <2>3. PICK n \in Members, mo \in Months : n = command[s].member /\ mo = month
    BY <2>2 DEF Submission, SubmissionInv, TypeOK
  <2>4. Consumed(n, mo) \in Nat /\ Consumed(n, mo)' \in Nat /\ Consumed(n, mo)' >= Consumed(n, mo)
    BY RecordAddsUp, ConsumptionCounts DEF SubmissionInv, SpentInv
  <2>5. \A l \in Limits : UsedUp(n, l) => UsedUp(n, l)'
    BY <1>1, <2>3, <2>4, UsageAllowanceAssumption DEF UsedUp
  <2>6. command[s].limit \in Limits \cup {NoLimit} /\ limits[n][mo] \in Limits \cup {NoLimit}
    BY <2>2, <2>3 DEF Submission, SubmissionInv, TypeOK
  <2> QED
    BY <1>1, <2>1, <2>3, <2>5, <2>6 DEF LostCause, NothingLeft, Submits
<1> QED
  BY <1>1, <1>2, <1>3 DEF SpentInv

LEMMA RestSpent ==
  ASSUME SubmissionInv, SpentInv,
         SetTenant \/ NextMonth \/ \E m \in Members, r \in {"owner", "operator", "gone"} : SetRole(m, r)
  PROVE  SpentInv'
<1>1. CountInv'
  BY CountKept DEF SpentInv, SetTenant, NextMonth, SetRole
<1>2. CASE NextMonth
  BY <1>1, <1>2 DEF NextMonth, SpentInv
<1>3. CASE ~ NextMonth
  <2>1. UNCHANGED <<month, limits, usage, command, spent>>
    BY <1>3 DEF SetTenant, SetRole
  <2> QED
    BY <1>1, <2>1, LostStays DEF SubmissionInv, SpentInv
<1> QED
  BY <1>2, <1>3

LEMMA SpentNext ==
  ASSUME SubmissionInv, SpentInv, [AllowanceNext]_allowanceVars
  PROVE  SpentInv'
<1>1. CASE UNCHANGED allowanceVars
  BY <1>1, CountKept, LostStays DEF allowanceVars, SubmissionInv, SpentInv
<1>2. CASE AllowanceNext
  <2>1. ASSUME NEW s \in Sessions, SubmitInsert(s) \/ Abort(s) PROVE SpentInv'
    BY <2>1, ReleaseSpent DEF SubmitInsert, Abort, tables
  <2> QED
    BY <1>2, <2>1, BeginSpent, LimitSpent, SumSpent, OwnerSpent, RecordSpent, RestSpent DEF AllowanceNext
<1> QED
  BY <1>1, <1>2

\* The inductive invariant of the month's count.
THEOREM SpentInvariance == AllowanceSpec => []SpentInv
<1>1. AllowanceInit => SpentInv
  BY SpentInit
<1>2. SubmissionInv /\ SpentInv /\ [AllowanceNext]_allowanceVars => SpentInv'
  BY SpentNext
<1> QED
  BY <1>1, <1>2, SubmissionInvariance, PTL DEF AllowanceSpec

\* A submission that begins with nothing left never reaches its insert,
\* whatever is submitted, allowed and recorded while it runs, unless the limit
\* is raised or the month turns.
THEOREM ExhaustedStays == AllowanceSpec => []ExhaustedGetsNothing
<1>1. SpentInv => ExhaustedGetsNothing
  BY DEF SpentInv, LostCause, ExhaustedGetsNothing
<1> QED
  BY <1>1, SpentInvariance, PTL
=============================================================================
