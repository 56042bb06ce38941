-------------------------- MODULE ApprovalGateProofs --------------------------
(***************************************************************************)
(* Proofs about ApprovalGate for every set of sessions, calendars and days *)
(* and every bound on packages and revisions.  The commands are several    *)
(* steps each, so the argument is about what a session in the middle of    *)
(* its command may rely on, and who holds the locks it relies on.          *)
(***************************************************************************)
EXTENDS ApprovalGate, SequenceTheorems, TLAPS

-----------------------------------------------------------------------------
(* Sequences of posts.                                                     *)

\* Writing a status leaves everything else of the posts alone.
LEMMA SetPostStatusFacts ==
  ASSUME posts \in Seq(Post), NEW ids, NEW status \in Statuses, SetPostStatus(ids, status)
  PROVE  /\ posts' \in Seq(Post) /\ Len(posts') = Len(posts) /\ Created' = Created
         /\ \A p \in Created : /\ posts'[p].calendar = posts[p].calendar
                               /\ posts'[p].day = posts[p].day
                               /\ posts'[p].status = IF p \in ids THEN status ELSE posts[p].status
<1> DEFINE row(p) == IF p \in ids THEN [posts[p] EXCEPT !.status = status] ELSE posts[p]
<1>1. posts' = [p \in 1 .. Len(posts) |-> row(p)] /\ Len(posts) \in Nat
  BY DEF SetPostStatus, Created
<1>2. ASSUME NEW p \in 1 .. Len(posts)
      PROVE  /\ row(p) \in Post
             /\ row(p).calendar = posts[p].calendar /\ row(p).day = posts[p].day
             /\ row(p).status = IF p \in ids THEN status ELSE posts[p].status
  <2>1. posts[p] \in Post
    OBVIOUS
  <2> QED
    BY <2>1 DEF Post
<1> HIDE DEF row
<1>3. posts' \in Seq(Post) /\ Len(posts') = Len(posts)
  BY <1>1, <1>2
<1>4. \A p \in 1 .. Len(posts) : posts'[p] = row(p)
  BY <1>1
<1> QED
  BY <1>2, <1>3, <1>4 DEF Created

\* Posts are numbered within the bound.
LEMMA CreatedFacts ==
  ASSUME TypeOK
  PROVE  Created \subseteq PostIds /\ \A p \in Created : posts[p] \in Post
<1>1. posts \in Seq(Post) /\ Len(posts) <= MaxPosts /\ MaxPosts \in Nat /\ Len(posts) \in Nat
  BY ApprovalGateAssumption DEF TypeOK
<1>2. \A p \in 1 .. Len(posts) : p \in 1 .. MaxPosts
  BY <1>1
<1>3. \A p \in 1 .. Len(posts) : posts[p] \in Post
  BY <1>1
<1> QED
  BY <1>2, <1>3 DEF Created, PostIds

\* Both ways out of a command free the session's locks and nobody else's.
LEMMA EndFacts ==
  ASSUME TypeOK, NEW s \in Sessions, End(s)
  PROVE  /\ command' \in [Sessions -> Command] /\ command'[s] = Quiet
         /\ \A t \in Sessions : t # s => command'[t] = command[t]
         /\ rowLock' \in [PostIds -> Sessions \cup {None}]
         /\ \A p \in PostIds : rowLock'[p] = IF rowLock[p] = s THEN None ELSE rowLock[p]
         /\ dayLock' \in [CalendarDays -> Sessions \cup {None}]
         /\ \A cd \in CalendarDays : dayLock'[cd] = IF dayLock[cd] = s THEN None ELSE dayLock[cd]
<1>1. Quiet \in Command
  BY DEF Quiet, Doing, Command, Steps
<1> QED
  BY <1>1 DEF End, ReleaseRows, ReleaseDays, TypeOK

-----------------------------------------------------------------------------
(* What a session in the middle of a command relies on: its operands, the  *)
(* day it has locked, the row it has locked, and, before it inserts, that  *)
(* it holds every decision still open for its day.                         *)
PostSteps == {"approvePost", "approveGate", "approveWrite", "rejectPost"}
StrategySteps == {"approveStrategy", "rejectStrategy"}
PackageSteps == {"packageLock", "packageGate", "packageSupersede", "packageInsert"}

SessionInv(s) ==
  /\ command[s].step \in PostSteps => command[s].post \in Created
  /\ command[s].step \in StrategySteps \cup PackageSteps => command[s].calendar \in Calendars
  /\ command[s].step \in PackageSteps => command[s].day \in Days
  /\ command[s].step \in {"packageSupersede", "packageInsert"} => command[s].calendar \in everApproved
  /\ command[s].step \in {"packageGate", "packageSupersede", "packageInsert"} => dayLock[Place(s)] = s
  /\ command[s].step \in {"approveGate", "approveWrite"} => rowLock[command[s].post] = s
  /\ At(s, "packageInsert") => \A p \in PendingFor(Place(s)) : rowLock[p] = s

(* A locked post is pending, and its holder has a reason.                  *)
Held(p, s) ==
  /\ p \in Created /\ posts[p].status = "pending"
  /\ \/ command[s].step \in {"approveGate", "approveWrite"} /\ command[s].post = p
     \/ At(s, "packageInsert") /\ Place(s) = <<posts[p].calendar, posts[p].day>>
RowInv(p) == \A s \in Sessions : rowLock[p] = s => Held(p, s)

StrategyInv ==
  \A c \in Calendars : /\ c \in everApproved => strategy[c] \in {"approved", "invalidated"}
                       /\ strategy[c] = "approved" => c \in everApproved

PostInv == \A p \in Created : posts[p].calendar \in everApproved

IInv ==
  /\ TypeOK
  /\ \A s \in Sessions : SessionInv(s)
  /\ \A p \in PostIds : RowInv(p)
  /\ StrategyInv
  /\ PostInv
  /\ OneOpenDecisionPerDay

LEMMA NoneIsNobody == None \notin Sessions
BY ApprovalGateAssumption

LEMMA NoneIsNoStatus == None \notin Statuses
BY ApprovalGateAssumption

(* A session's step that writes no table: it moves on, locks something     *)
(* free or lets go of its own.                                             *)
LEMMA OwnStepIInv ==
  ASSUME IInv, TypeOK', NEW s \in Sessions, SessionInv(s)',
         UNCHANGED <<strategy, posts, everApproved>>,
         \A t \in Sessions : t # s => command'[t] = command[t],
         \A cd \in CalendarDays : dayLock[cd] \in {s, None} \/ dayLock'[cd] = dayLock[cd],
         \A p \in PostIds : \/ rowLock'[p] = rowLock[p]
                            \/ rowLock[p] \in {s, None} /\ rowLock'[p] \in {s, None},
         \A p \in PostIds : rowLock'[p] = s => Held(p, s)'
  PROVE  IInv'
<1>1. ASSUME NEW t \in Sessions, t # s PROVE SessionInv(t)'
  <2>1. SessionInv(t) /\ command[t] \in Command
    BY DEF IInv, TypeOK
  <2>2. command'[t] = command[t] /\ Created' = Created /\ Place(t)' = Place(t)
        /\ (\A q : PendingFor(q)' = PendingFor(q))
    BY <1>1 DEF Created, Place, PendingFor
  <2>3. \A p \in PostIds : rowLock[p] = t => rowLock'[p] = t
    BY <1>1, NoneIsNobody
  <2>4. \A cd \in CalendarDays : dayLock[cd] = t => dayLock'[cd] = t
    BY <1>1, NoneIsNobody
  <2>5. Created \subseteq PostIds
    BY CreatedFacts DEF IInv
  <2>6. command[t].calendar \in Calendars /\ command[t].day \in Days => Place(t) \in CalendarDays
    BY DEF Place, CalendarDays
  <2>7. \A q : PendingFor(q) \subseteq PostIds
    BY <2>5 DEF PendingFor
  <2>8. command[t].step \in {"packageGate", "packageSupersede", "packageInsert"} => dayLock'[Place(t)] = t
    BY <2>1, <2>4, <2>6 DEF SessionInv, PackageSteps
  <2>9. command[t].step \in {"approveGate", "approveWrite"} => rowLock'[command[t].post] = t
    BY <2>1, <2>3, <2>5 DEF SessionInv, PostSteps
  <2>10. At(t, "packageInsert") => \A p \in PendingFor(Place(t)) : rowLock'[p] = t
    BY <2>1, <2>3, <2>7 DEF SessionInv
  <2>11. At(t, "packageInsert")' => \A p \in PendingFor(Place(t))' : rowLock'[p] = t
    BY <2>2, <2>10 DEF At
  <2> QED
    BY <2>1, <2>2, <2>8, <2>9, <2>11 DEF SessionInv
<1>2. ASSUME NEW p \in PostIds PROVE RowInv(p)'
  <2>1. ASSUME NEW t \in Sessions, rowLock'[p] = t PROVE Held(p, t)'
    <3>1. CASE t = s
      BY <2>1, <3>1
    <3>2. CASE t # s
      <4>1. rowLock[p] = t
        BY <2>1, <3>2, NoneIsNobody
      <4>2. Held(p, t)
        BY <4>1 DEF IInv, RowInv
      <4> QED
        BY <4>2, <3>2 DEF Held, At, Place, Created
    <3> QED
      BY <3>1, <3>2
  <2> QED
    BY <2>1 DEF RowInv
<1>3. StrategyInv' /\ PostInv' /\ OneOpenDecisionPerDay'
  BY DEF IInv, StrategyInv, PostInv, OneOpenDecisionPerDay, Created
<1> QED
  BY <1>1, <1>2, <1>3 DEF IInv

LEMMA RaiseIInv ==
  ASSUME IInv, NEW s \in Sessions, Raise(s)
  PROVE  IInv'
<1>1. End(s) /\ UNCHANGED <<role, strategy, posts, revisions, everApproved>>
  BY DEF Raise, tables
<1>2. /\ command' \in [Sessions -> Command] /\ command'[s] = Quiet
      /\ \A t \in Sessions : t # s => command'[t] = command[t]
      /\ rowLock' \in [PostIds -> Sessions \cup {None}]
      /\ \A p \in PostIds : rowLock'[p] = IF rowLock[p] = s THEN None ELSE rowLock[p]
      /\ dayLock' \in [CalendarDays -> Sessions \cup {None}]
      /\ \A cd \in CalendarDays : dayLock'[cd] = IF dayLock[cd] = s THEN None ELSE dayLock[cd]
  BY <1>1, EndFacts DEF IInv
<1>3. TypeOK'
  BY <1>1, <1>2 DEF IInv, TypeOK
<1>4. SessionInv(s)'
  BY <1>2 DEF SessionInv, Quiet, Doing, At, PostSteps, StrategySteps, PackageSteps
<1>5. \A p \in PostIds : rowLock'[p] # s
  BY <1>2, NoneIsNobody
<1> QED
  BY <1>1, <1>2, <1>3, <1>4, <1>5, OwnStepIInv

-----------------------------------------------------------------------------
(* The beginnings.  A session that does nothing holds no lock.             *)
LEMMA BeginIInv ==
  ASSUME IInv, NEW s \in Sessions, NEW doing \in Command, IsQuiet(s),
         command' = [command EXCEPT ![s] = doing],
         UNCHANGED <<role, tables, locks, revisions, everApproved>>,
         doing.step \in {"approvePost", "rejectPost", "approveStrategy", "rejectStrategy", "packageLock"},
         doing.step \in {"approvePost", "rejectPost"} => doing.post \in Created,
         doing.step \notin {"approvePost", "rejectPost"} => doing.calendar \in Calendars,
         doing.step = "packageLock" => doing.day \in Days
  PROVE  IInv'
<1>1. /\ UNCHANGED <<role, strategy, posts, rowLock, dayLock, revisions, everApproved>>
      /\ command' \in [Sessions -> Command] /\ command'[s] = doing
      /\ \A t \in Sessions : t # s => command'[t] = command[t]
  BY DEF tables, locks, IInv, TypeOK
<1>2. TypeOK'
  BY <1>1 DEF IInv, TypeOK
<1>3. SessionInv(s)'
  BY <1>1 DEF SessionInv, At, PostSteps, StrategySteps, PackageSteps, Created
<1>4. \A p \in PostIds : rowLock[p] # s
  <2>1. \A p \in PostIds : rowLock[p] = s => Held(p, s)
    BY DEF IInv, RowInv
  <2> QED
    BY <2>1 DEF Held, IsQuiet, At
<1> QED
  BY <1>1, <1>2, <1>3, <1>4, OwnStepIInv

LEMMA BeginStrategyIInv ==
  ASSUME IInv, NEW s \in Sessions, NEW c \in Calendars, NEW step \in StrategySteps, BeginStrategy(s, c, step)
  PROVE  IInv'
<1> DEFINE doing == Doing(step, None, c, None)
<1>1. doing \in Command /\ doing.step = step /\ doing.calendar = c
  BY DEF Doing, Command, Steps, StrategySteps
<1>2. /\ IsQuiet(s) /\ command' = [command EXCEPT ![s] = doing]
      /\ UNCHANGED <<role, tables, locks, revisions, everApproved>>
  BY DEF BeginStrategy
<1> HIDE DEF doing
<1> QED
  BY <1>1, <1>2, BeginIInv DEF StrategySteps

LEMMA BeginPostIInv ==
  ASSUME IInv, NEW s \in Sessions, NEW p \in Created, NEW step \in {"approvePost", "rejectPost"},
         BeginPost(s, p, step)
  PROVE  IInv'
<1> DEFINE doing == Doing(step, p, None, None)
<1>1. doing \in Command /\ doing.step = step /\ doing.post = p
  <2>1. p \in PostIds
    BY CreatedFacts DEF IInv
  <2> QED
    BY <2>1 DEF Doing, Command, Steps
<1>2. /\ IsQuiet(s) /\ command' = [command EXCEPT ![s] = doing]
      /\ UNCHANGED <<role, tables, locks, revisions, everApproved>>
  BY DEF BeginPost
<1> HIDE DEF doing
<1> QED
  BY <1>1, <1>2, BeginIInv

LEMMA BeginPackageIInv ==
  ASSUME IInv, NEW s \in Sessions, NEW cd \in CalendarDays, BeginPackage(s, cd)
  PROVE  IInv'
<1> DEFINE doing == Doing("packageLock", None, cd[1], cd[2])
<1>1. /\ doing \in Command /\ doing.step = "packageLock"
      /\ doing.calendar \in Calendars /\ doing.day \in Days
  <2>1. cd[1] \in Calendars /\ cd[2] \in Days
    BY DEF CalendarDays
  <2> QED
    BY <2>1 DEF Doing, Command, Steps
<1>2. /\ IsQuiet(s) /\ command' = [command EXCEPT ![s] = doing]
      /\ UNCHANGED <<role, tables, locks, revisions, everApproved>>
  BY DEF BeginPackage
<1> HIDE DEF doing
<1> QED
  BY <1>1, <1>2, BeginIInv

-----------------------------------------------------------------------------
(* The steps of the commands that write no table.                          *)

\* Moving on to the next step of a command keeps its operands.
LEMMA GotoFacts ==
  ASSUME TypeOK, NEW s \in Sessions, NEW step \in Steps, Goto(s, step)
  PROVE  /\ command' \in [Sessions -> Command] /\ command'[s].step = step
         /\ command'[s].post = command[s].post
         /\ command'[s].calendar = command[s].calendar /\ command'[s].day = command[s].day
         /\ \A t \in Sessions : t # s => command'[t] = command[t]
<1>1. command[s] \in Command /\ [command[s] EXCEPT !.step = step] \in Command
  BY DEF TypeOK, Command
<1>2. command' = [command EXCEPT ![s] = [command[s] EXCEPT !.step = step]]
  BY DEF Goto
<1> QED
  BY <1>1, <1>2 DEF TypeOK, Command

LEMMA ApproveLockIInv ==
  ASSUME IInv, NEW s \in Sessions, ApproveLock(s)
  PROVE  IInv'
<1> DEFINE p == command[s].post
<1>1. CASE Raise(s)
  BY <1>1, RaiseIInv
<1>2. CASE /\ posts[p].status = "pending"
           /\ rowLock' = [rowLock EXCEPT ![p] = s]
           /\ Goto(s, "approveGate")
           /\ UNCHANGED <<role, tables, dayLock, revisions, everApproved>>
  <2>1. At(s, "approvePost") /\ rowLock[p] = None
    BY DEF ApproveLock
  <2>2. p \in Created /\ p \in PostIds
    BY <2>1, CreatedFacts DEF IInv, SessionInv, At, PostSteps
  <2>3. /\ command' \in [Sessions -> Command] /\ command'[s].step = "approveGate" /\ command'[s].post = p
        /\ \A t \in Sessions : t # s => command'[t] = command[t]
    BY <1>2, GotoFacts DEF IInv, Steps
  <2>4. /\ rowLock' \in [PostIds -> Sessions \cup {None}]
        /\ rowLock'[p] = s
        /\ \A q \in PostIds : q # p => rowLock'[q] = rowLock[q]
    BY <1>2, <2>2 DEF IInv, TypeOK
  <2>5. UNCHANGED <<role, strategy, posts, dayLock, revisions, everApproved>> /\ Created' = Created
    BY <1>2 DEF tables, Created
  <2>6. TypeOK'
    BY <2>3, <2>4, <2>5 DEF IInv, TypeOK
  <2>7. SessionInv(s)'
    BY <2>2, <2>3, <2>4, <2>5 DEF SessionInv, At, PostSteps, StrategySteps, PackageSteps
  <2>8. \A q \in PostIds : q # p => rowLock[q] # s
    <3>1. \A q \in PostIds : rowLock[q] = s => Held(q, s)
      BY DEF IInv, RowInv
    <3> QED
      BY <3>1, <2>1 DEF Held, At
  <2>9. Held(p, s)'
    BY <1>2, <2>2, <2>3, <2>5 DEF Held
  <2>10. ASSUME NEW q \in PostIds, rowLock'[q] = s PROVE Held(q, s)'
    <3>1. q = p
      BY <2>4, <2>8, <2>10
    <3> QED
      BY <1>2, <2>2, <2>3, <2>5, <3>1 DEF Held
  <2>11. \A q \in PostIds : \/ rowLock'[q] = rowLock[q]
                            \/ rowLock[q] \in {s, None} /\ rowLock'[q] \in {s, None}
    BY <2>1, <2>4
  <2> QED
    BY <2>3, <2>5, <2>6, <2>7, <2>10, <2>11, OwnStepIInv
<1> QED
  BY <1>1, <1>2 DEF ApproveLock

LEMMA ApproveGateIInv ==
  ASSUME IInv, NEW s \in Sessions, ApproveGate(s)
  PROVE  IInv'
<1> DEFINE p == command[s].post
<1>1. CASE Raise(s)
  BY <1>1, RaiseIInv
<1>2. CASE Goto(s, "approveWrite") /\ UNCHANGED <<role, tables, locks, revisions, everApproved>>
  <2>1. command[s].step = "approveGate"
    BY DEF ApproveGate, At
  <2>2. p \in Created /\ rowLock[p] = s
    BY <2>1 DEF IInv, SessionInv, PostSteps
  <2>3. /\ command' \in [Sessions -> Command] /\ command'[s].step = "approveWrite" /\ command'[s].post = p
        /\ \A t \in Sessions : t # s => command'[t] = command[t]
    BY <1>2, GotoFacts DEF IInv, Steps
  <2>4. UNCHANGED <<role, strategy, posts, rowLock, dayLock, revisions, everApproved>> /\ Created' = Created
    BY <1>2 DEF tables, locks, Created
  <2>5. TypeOK'
    BY <2>3, <2>4 DEF IInv, TypeOK
  <2>6. SessionInv(s)'
    BY <2>2, <2>3, <2>4 DEF SessionInv, At, PostSteps, StrategySteps, PackageSteps
  <2>7. ASSUME NEW q \in PostIds, rowLock'[q] = s PROVE Held(q, s)'
    <3>1. Held(q, s)
      BY <2>4, <2>7 DEF IInv, RowInv
    <3> QED
      BY <3>1, <2>1, <2>3, <2>4 DEF Held, At
  <2> QED
    BY <2>3, <2>4, <2>5, <2>6, <2>7, OwnStepIInv
<1> QED
  BY <1>1, <1>2 DEF ApproveGate

\* A session about to package a day holds no row yet.
LEMMA NoRowsYet ==
  ASSUME IInv, NEW s \in Sessions, command[s].step \in {"packageLock", "packageGate", "packageSupersede"}
  PROVE  \A p \in PostIds : rowLock[p] # s
<1>1. \A p \in PostIds : rowLock[p] = s => Held(p, s)
  BY DEF IInv, RowInv
<1> QED
  BY <1>1 DEF Held, At

LEMMA PackageLockIInv ==
  ASSUME IInv, NEW s \in Sessions, PackageLock(s)
  PROVE  IInv'
<1>1. /\ command[s].step = "packageLock" /\ dayLock[Place(s)] = None
      /\ dayLock' = [dayLock EXCEPT ![Place(s)] = s]
      /\ Goto(s, "packageGate")
      /\ UNCHANGED <<role, strategy, posts, rowLock, revisions, everApproved>>
  BY DEF PackageLock, At, tables
<1>2. command[s].calendar \in Calendars /\ command[s].day \in Days /\ Place(s) \in CalendarDays
  BY <1>1 DEF IInv, SessionInv, PackageSteps, Place, CalendarDays
<1>3. /\ command' \in [Sessions -> Command] /\ command'[s].step = "packageGate"
      /\ command'[s].calendar = command[s].calendar /\ command'[s].day = command[s].day
      /\ \A t \in Sessions : t # s => command'[t] = command[t]
  BY <1>1, GotoFacts DEF IInv, Steps
<1>4. Place(s)' = Place(s)
  BY <1>3 DEF Place
<1>5. /\ dayLock' \in [CalendarDays -> Sessions \cup {None}] /\ dayLock'[Place(s)] = s
      /\ \A cd \in CalendarDays : dayLock[cd] \in {s, None} \/ dayLock'[cd] = dayLock[cd]
  BY <1>1, <1>2 DEF IInv, TypeOK
<1>6. TypeOK'
  BY <1>1, <1>3, <1>5 DEF IInv, TypeOK
<1>7. SessionInv(s)'
  BY <1>2, <1>3, <1>4, <1>5 DEF SessionInv, At, PostSteps, StrategySteps, PackageSteps
<1>8. \A p \in PostIds : rowLock'[p] # s
  BY <1>1, NoRowsYet
<1> QED
  BY <1>1, <1>3, <1>5, <1>6, <1>7, <1>8, OwnStepIInv

LEMMA PackageGateIInv ==
  ASSUME IInv, NEW s \in Sessions, PackageGate(s)
  PROVE  IInv'
<1>1. CASE Raise(s)
  BY <1>1, RaiseIInv
<1>2. CASE /\ strategy[command[s].calendar] = "approved"
           /\ Goto(s, "packageSupersede")
           /\ UNCHANGED <<role, tables, locks, revisions, everApproved>>
  <2>1. command[s].step = "packageGate"
    BY DEF PackageGate, At
  <2>2. /\ command[s].calendar \in Calendars /\ command[s].day \in Days /\ dayLock[Place(s)] = s
        /\ command[s].calendar \in everApproved
    BY <1>2, <2>1 DEF IInv, SessionInv, PackageSteps, StrategyInv
  <2>3. /\ command' \in [Sessions -> Command] /\ command'[s].step = "packageSupersede"
        /\ command'[s].calendar = command[s].calendar /\ command'[s].day = command[s].day
        /\ \A t \in Sessions : t # s => command'[t] = command[t]
    BY <1>2, GotoFacts DEF IInv, Steps
  <2>4. UNCHANGED <<role, strategy, posts, rowLock, dayLock, revisions, everApproved>> /\ Place(s)' = Place(s)
    BY <1>2, <2>3 DEF tables, locks, Place
  <2>5. TypeOK'
    BY <2>3, <2>4 DEF IInv, TypeOK
  <2>6. SessionInv(s)'
    BY <2>2, <2>3, <2>4 DEF SessionInv, At, PostSteps, StrategySteps, PackageSteps
  <2>7. \A p \in PostIds : rowLock'[p] # s
    BY <2>1, <2>4, NoRowsYet
  <2> QED
    BY <2>3, <2>4, <2>5, <2>6, <2>7, OwnStepIInv
<1> QED
  BY <1>1, <1>2 DEF PackageGate

LEMMA PackageSupersedeIInv ==
  ASSUME IInv, NEW s \in Sessions, PackageSupersede(s)
  PROVE  IInv'
<1> DEFINE stale == PendingFor(Place(s))
<1>1. /\ command[s].step = "packageSupersede"
      /\ \A p \in stale : rowLock[p] = None
      /\ rowLock' = [p \in PostIds |-> IF p \in stale THEN s ELSE rowLock[p]]
      /\ Goto(s, "packageInsert")
      /\ UNCHANGED <<role, strategy, posts, dayLock, revisions, everApproved>>
  BY DEF PackageSupersede, At, tables
<1>2. /\ command[s].calendar \in Calendars /\ command[s].day \in Days /\ dayLock[Place(s)] = s
      /\ command[s].calendar \in everApproved
  BY <1>1 DEF IInv, SessionInv, PackageSteps
<1>3. /\ command' \in [Sessions -> Command] /\ command'[s].step = "packageInsert"
      /\ command'[s].calendar = command[s].calendar /\ command'[s].day = command[s].day
      /\ \A t \in Sessions : t # s => command'[t] = command[t]
  BY <1>1, GotoFacts DEF IInv, Steps
<1>4. Place(s)' = Place(s) /\ stale' = stale /\ Created' = Created
  BY <1>1, <1>3 DEF Place, PendingFor, Created
<1>5. stale \subseteq PostIds /\ stale \subseteq Created
  BY CreatedFacts DEF IInv, PendingFor
<1>6. /\ rowLock' \in [PostIds -> Sessions \cup {None}]
      /\ \A p \in stale : rowLock'[p] = s
      /\ \A p \in PostIds : p \notin stale => rowLock'[p] = rowLock[p]
  BY <1>1, <1>5 DEF IInv, TypeOK
<1>7. TypeOK'
  BY <1>1, <1>3, <1>6 DEF IInv, TypeOK
<1>8. SessionInv(s)'
  BY <1>1, <1>2, <1>3, <1>4, <1>6 DEF SessionInv, At, PostSteps, StrategySteps, PackageSteps
<1>9. ASSUME NEW p \in PostIds, rowLock'[p] = s PROVE Held(p, s)'
  <2>1. p \in stale
    BY <1>1, <1>6, <1>9, NoRowsYet
  <2>2. /\ p \in Created /\ posts[p].status = "pending"
        /\ posts[p].calendar = command[s].calendar /\ posts[p].day = command[s].day
    BY <2>1 DEF PendingFor, Place
  <2> QED
    BY <2>2, <1>1, <1>3, <1>4 DEF Held, At, Place
<1>10. \A p \in PostIds : \/ rowLock'[p] = rowLock[p]
                          \/ rowLock[p] \in {s, None} /\ rowLock'[p] \in {s, None}
  BY <1>1, <1>6
<1> QED
  BY <1>1, <1>3, <1>7, <1>8, <1>9, <1>10, OwnStepIInv

-----------------------------------------------------------------------------
(* The steps that write a table.  A strategy may move as StrategyInv says, *)
(* an open decision may close; a session either ends its command or goes   *)
(* on with what it holds, and keeps the rows it has locked as they were.   *)
LEMMA WriteIInv ==
  ASSUME IInv, TypeOK', StrategyInv', everApproved \subseteq everApproved', Created' = Created,
         NEW ids \in SUBSET Created,
         \A p \in Created : /\ posts'[p].calendar = posts[p].calendar
                            /\ posts'[p].day = posts[p].day
                            /\ p \notin ids => posts'[p].status = posts[p].status
                            /\ p \in ids => posts'[p].status # "pending",
         \A t \in Sessions : \/ command'[t] = Quiet
                             \/ /\ command'[t] = command[t]
                                /\ \A p \in PostIds : rowLock[p] = t => rowLock'[p] = t
                                /\ \A cd \in CalendarDays : dayLock[cd] = t => dayLock'[cd] = t,
         \A t \in Sessions, p \in PostIds :
           rowLock'[p] = t => rowLock[p] = t /\ command'[t] = command[t] /\ p \notin ids
  PROVE  IInv'
<1>1. ASSUME NEW t \in Sessions PROVE SessionInv(t)'
  <2>1. CASE command'[t] = Quiet
    BY <2>1 DEF SessionInv, Quiet, Doing, At, PostSteps, StrategySteps, PackageSteps
  <2>2. CASE /\ command'[t] = command[t]
             /\ \A p \in PostIds : rowLock[p] = t => rowLock'[p] = t
             /\ \A cd \in CalendarDays : dayLock[cd] = t => dayLock'[cd] = t
    <3>1. SessionInv(t) /\ Place(t)' = Place(t) /\ Created \subseteq PostIds
      BY <2>2, CreatedFacts DEF IInv, Place
    <3>2. command[t].calendar \in Calendars /\ command[t].day \in Days => Place(t) \in CalendarDays
      BY DEF Place, CalendarDays
    <3>3. command[t].step \in {"packageGate", "packageSupersede", "packageInsert"} => dayLock'[Place(t)] = t
      BY <2>2, <3>1, <3>2 DEF SessionInv, PackageSteps
    <3>4. command[t].step \in {"approveGate", "approveWrite"} => rowLock'[command[t].post] = t
      BY <2>2, <3>1 DEF SessionInv, PostSteps
    <3>5. PendingFor(Place(t))' \subseteq PendingFor(Place(t))
      <4>1. ASSUME NEW p \in PendingFor(Place(t))' PROVE p \in PendingFor(Place(t))
        <5>1. /\ p \in Created' /\ posts'[p].calendar = Place(t)'[1] /\ posts'[p].day = Place(t)'[2]
              /\ posts'[p].status = "pending"
          BY DEF PendingFor
        <5>2. p \in Created /\ p \notin ids
          BY <5>1
        <5>3. /\ posts[p].calendar = Place(t)[1] /\ posts[p].day = Place(t)[2]
              /\ posts[p].status = "pending"
          BY <5>1, <5>2, <3>1
        <5> QED
          BY <5>2, <5>3 DEF PendingFor
      <4> QED
        BY <4>1
    <3>6. \A p \in PendingFor(Place(t)) : p \in PostIds
      BY <3>1 DEF PendingFor
    <3>7. At(t, "packageInsert") => \A p \in PendingFor(Place(t))' : rowLock'[p] = t
      BY <2>2, <3>1, <3>5, <3>6 DEF SessionInv
    <3>8. At(t, "packageInsert")' = At(t, "packageInsert")
      BY <2>2 DEF At
    <3> QED
      BY <2>2, <3>1, <3>3, <3>4, <3>7, <3>8 DEF SessionInv
  <2> QED
    BY <2>1, <2>2
<1>2. ASSUME NEW p \in PostIds, NEW t \in Sessions, rowLock'[p] = t PROVE Held(p, t)'
  <2>1. rowLock[p] = t /\ command'[t] = command[t] /\ p \notin ids
    BY <1>2
  <2>2. Held(p, t)
    BY <2>1 DEF IInv, RowInv
  <2>3. p \in Created
    BY <2>2 DEF Held
  <2>4. /\ posts'[p].status = posts[p].status
        /\ posts'[p].calendar = posts[p].calendar /\ posts'[p].day = posts[p].day
    BY <2>1, <2>3
  <2> QED
    BY <2>1, <2>2, <2>3, <2>4 DEF Held, At, Place
<1>3. PostInv'
  BY DEF IInv, PostInv
<1>4. OneOpenDecisionPerDay'
  BY DEF IInv, OneOpenDecisionPerDay
<1> QED
  BY <1>1, <1>2, <1>3, <1>4 DEF IInv, RowInv

\* The last step of a command: it writes, and lets go of all its locks.
LEMMA EndWriteIInv ==
  ASSUME IInv, TypeOK', StrategyInv', everApproved \subseteq everApproved', Created' = Created,
         NEW s \in Sessions, End(s), NEW ids \in SUBSET Created,
         \A p \in Created : /\ posts'[p].calendar = posts[p].calendar
                            /\ posts'[p].day = posts[p].day
                            /\ p \notin ids => posts'[p].status = posts[p].status
                            /\ p \in ids => posts'[p].status # "pending",
         \A p \in ids : rowLock[p] \in {s, None}
  PROVE  IInv'
<1>1. /\ command'[s] = Quiet
      /\ \A t \in Sessions : t # s => command'[t] = command[t]
      /\ \A p \in PostIds : rowLock'[p] = IF rowLock[p] = s THEN None ELSE rowLock[p]
      /\ \A cd \in CalendarDays : dayLock'[cd] = IF dayLock[cd] = s THEN None ELSE dayLock[cd]
  BY EndFacts DEF IInv
<1>2. \A t \in Sessions : \/ command'[t] = Quiet
                          \/ /\ command'[t] = command[t]
                             /\ \A p \in PostIds : rowLock[p] = t => rowLock'[p] = t
                             /\ \A cd \in CalendarDays : dayLock[cd] = t => dayLock'[cd] = t
  BY <1>1
<1>3. ASSUME NEW t \in Sessions, NEW p \in PostIds, rowLock'[p] = t
      PROVE  rowLock[p] = t /\ command'[t] = command[t] /\ p \notin ids
  <2>1. t # None
    BY NoneIsNobody
  <2>2. rowLock[p] = t /\ t # s
    BY <1>1, <1>3, <2>1
  <2> QED
    BY <1>1, <2>1, <2>2
<1> QED
  BY <1>2, <1>3, WriteIInv

\* A step that leaves the posts, the locks and the commands alone.
LEMMA AsideIInv ==
  ASSUME IInv, TypeOK', StrategyInv', everApproved \subseteq everApproved',
         UNCHANGED <<posts, rowLock, dayLock, command>>
  PROVE  IInv'
<1>1. {} \in SUBSET Created /\ Created' = Created
  BY DEF Created
<1> QED
  BY <1>1, WriteIInv

LEMMA DecideStrategyIInv ==
  ASSUME IInv, NEW s \in Sessions, DecideStrategy(s)
  PROVE  IInv'
<1> DEFINE c == command[s].calendar
           verdict == IF At(s, "approveStrategy") THEN "approved" ELSE "rejected"
<1>1. CASE Raise(s)
  BY <1>1, RaiseIInv
<1>2. CASE /\ strategy[c] = "pending"
           /\ strategy' = [strategy EXCEPT ![c] = verdict]
           /\ everApproved' = IF At(s, "approveStrategy") THEN everApproved \cup {c} ELSE everApproved
           /\ End(s)
           /\ UNCHANGED <<role, posts, revisions>>
  <2>1. c \in Calendars
    BY DEF DecideStrategy, IInv, SessionInv, At, StrategySteps
  <2>2. strategy \in [Calendars -> Statuses \cup {None}] /\ everApproved \subseteq Calendars
    BY DEF IInv, TypeOK
  <2>3. /\ strategy' \in [Calendars -> Statuses \cup {None}]
        /\ everApproved \subseteq everApproved' /\ everApproved' \subseteq Calendars
    BY <1>2, <2>1, <2>2 DEF Statuses
  <2>4. TypeOK' /\ Created' = Created
    BY <1>2, <2>3, EndFacts DEF IInv, TypeOK, Created
  <2>5. StrategyInv'
    <3>1. c \notin everApproved
      BY <1>2, <2>1 DEF IInv, StrategyInv
    <3>2. strategy'[c] = verdict /\ (\A d \in Calendars : d # c => strategy'[d] = strategy[d])
      BY <1>2, <2>1, <2>2
    <3>3. c \in everApproved' <=> verdict = "approved"
      BY <1>2, <3>1
    <3>4. \A d \in Calendars : d # c => (d \in everApproved' <=> d \in everApproved)
      BY <1>2
    <3>5. ASSUME NEW d \in Calendars
          PROVE  /\ d \in everApproved' => strategy'[d] \in {"approved", "invalidated"}
                 /\ strategy'[d] = "approved" => d \in everApproved'
      <4>1. CASE d = c
        BY <4>1, <3>2, <3>3
      <4>2. CASE d # c
        BY <4>2, <3>2, <3>4 DEF IInv, StrategyInv
      <4> QED
        BY <4>1, <4>2
    <3> QED
      BY <3>5 DEF StrategyInv
  <2>6. {} \in SUBSET Created /\ posts' = posts
    BY <1>2
  <2> QED
    BY <1>2, <2>3, <2>4, <2>5, <2>6, EndWriteIInv
<1> QED
  BY <1>1, <1>2 DEF DecideStrategy

\* A verdict about a finished post, written by the session that may.
LEMMA PostVerdictIInv ==
  ASSUME IInv, NEW s \in Sessions, NEW p \in Created, rowLock[p] \in {s, None},
         NEW verdict \in {"approved", "rejected"},
         SetPostStatus({p}, verdict), End(s), UNCHANGED <<role, strategy, revisions, everApproved>>
  PROVE  IInv'
<1>1. /\ posts' \in Seq(Post) /\ Len(posts') = Len(posts) /\ Created' = Created
      /\ \A q \in Created : /\ posts'[q].calendar = posts[q].calendar
                            /\ posts'[q].day = posts[q].day
                            /\ posts'[q].status = IF q \in {p} THEN verdict ELSE posts[q].status
  BY SetPostStatusFacts DEF IInv, TypeOK, Statuses
<1>2. TypeOK' /\ StrategyInv'
  BY <1>1, EndFacts DEF IInv, TypeOK, StrategyInv
<1>3. {p} \in SUBSET Created /\ verdict # "pending" /\ everApproved' = everApproved
  OBVIOUS
<1> QED
  BY <1>1, <1>2, <1>3, EndWriteIInv

LEMMA RejectPostIInv ==
  ASSUME IInv, NEW s \in Sessions, RejectPost(s)
  PROVE  IInv'
<1>1. command[s].post \in Created /\ rowLock[command[s].post] = None
  BY DEF RejectPost, At, IInv, SessionInv, PostSteps
<1> QED
  BY <1>1, RaiseIInv, PostVerdictIInv DEF RejectPost

LEMMA ApproveWriteIInv ==
  ASSUME IInv, NEW s \in Sessions, ApproveWrite(s)
  PROVE  IInv'
<1>1. command[s].post \in Created /\ rowLock[command[s].post] = s
  BY DEF ApproveWrite, At, IInv, SessionInv, PostSteps
<1> QED
  BY <1>1, PostVerdictIInv DEF ApproveWrite

-----------------------------------------------------------------------------
(* The package: the decisions it supersedes and the one it opens.          *)
LEMMA AppendedFacts ==
  ASSUME TypeOK, NEW ids, NEW new \in Post, Len(posts) < MaxPosts,
         posts' = Append(Decisions!Marked(ids, "invalidated"), new)
  PROVE  /\ posts' \in Seq(Post) /\ Len(posts') = Len(posts) + 1
         /\ Created' = Created \cup {Len(posts) + 1} /\ Len(posts) + 1 \notin Created
         /\ posts'[Len(posts) + 1] = new
         /\ \A p \in Created : /\ posts'[p].calendar = posts[p].calendar
                               /\ posts'[p].day = posts[p].day
                               /\ posts'[p].status = IF p \in ids THEN "invalidated" ELSE posts[p].status
<1> DEFINE row(p) == IF p \in ids THEN [posts[p] EXCEPT !.status = "invalidated"] ELSE posts[p]
           old == [p \in 1 .. Len(posts) |-> row(p)]
<1>1. posts' = Append(old, new) /\ Len(posts) \in Nat /\ posts \in Seq(Post)
  BY DEF Created, TypeOK, Decisions!Marked, Decisions!Ids
<1>2. ASSUME NEW p \in 1 .. Len(posts)
      PROVE  /\ row(p) \in Post
             /\ row(p).calendar = posts[p].calendar /\ row(p).day = posts[p].day
             /\ row(p).status = IF p \in ids THEN "invalidated" ELSE posts[p].status
  <2>1. posts[p] \in Post
    BY <1>1
  <2> QED
    BY <2>1 DEF Post, Statuses
<1> HIDE DEF row
<1>3. /\ old \in Seq(Post) /\ Len(old) = Len(posts)
      /\ \A p \in 1 .. Len(posts) : old[p] = row(p)
  BY <1>1, <1>2
<1> HIDE DEF old
<1>4. /\ posts' \in Seq(Post) /\ Len(posts') = Len(posts) + 1
      /\ posts'[Len(posts) + 1] = new
      /\ \A p \in 1 .. Len(posts) : posts'[p] = old[p]
  <2>1. old \in Seq(Post) /\ new \in Post /\ Len(old) = Len(posts)
    BY <1>3
  <2>2. /\ Append(old, new) \in Seq(Post) /\ Len(Append(old, new)) = Len(old) + 1
        /\ \A p \in 1 .. Len(old) : Append(old, new)[p] = old[p]
        /\ Append(old, new)[Len(old) + 1] = new
    BY <2>1, AppendProperties
  <2> QED
    BY <1>1, <2>1, <2>2
<1>5. Created' = Created \cup {Len(posts) + 1} /\ Len(posts) + 1 \notin Created
  BY <1>1, <1>4 DEF Created
<1> QED
  BY <1>2, <1>3, <1>4, <1>5 DEF Created

LEMMA PackageInsertFacts ==
  ASSUME TypeOK, NEW s \in Sessions, NEW new \in Post, Len(posts) < MaxPosts,
         posts' = Append([p \in Created |-> IF p \in Superseded(s)
                                            THEN [posts[p] EXCEPT !.status = "invalidated"]
                                            ELSE posts[p]], new)
  PROVE  /\ posts' \in Seq(Post) /\ Len(posts') = Len(posts) + 1
         /\ Created' = Created \cup {Len(posts) + 1} /\ Len(posts) + 1 \notin Created
         /\ posts'[Len(posts) + 1] = new
         /\ \A p \in Created : /\ posts'[p].calendar = posts[p].calendar
                               /\ posts'[p].day = posts[p].day
                               /\ rowLock[p] = s => posts'[p].status = "invalidated"
                               /\ rowLock[p] # s => posts'[p].status = posts[p].status
<1>1. \A p \in Created : p \in Superseded(s) <=> rowLock[p] = s
  BY DEF Superseded
<1>2. posts' = Append(Decisions!Marked(Superseded(s), "invalidated"), new)
  BY DEF Decisions!Marked, Decisions!Ids, Created
<1> QED
  BY <1>1, <1>2, AppendedFacts

LEMMA PackageInsertIInv ==
  ASSUME IInv, NEW s \in Sessions, PackageInsert(s)
  PROVE  IInv'
<1> DEFINE n == Len(posts) + 1
           new == NewPost(Place(s))
<1>1. CASE Raise(s)
  BY <1>1, RaiseIInv
<1>2. CASE /\ Len(posts) < MaxPosts
           /\ posts' = Append([p \in Created |-> IF p \in Superseded(s)
                                                 THEN [posts[p] EXCEPT !.status = "invalidated"]
                                                 ELSE posts[p]], new)
           /\ End(s)
           /\ UNCHANGED <<role, strategy, revisions, everApproved>>
  <2>1. command[s].step = "packageInsert"
    BY DEF PackageInsert, At
  <2>2. /\ command[s].calendar \in Calendars /\ command[s].day \in Days
        /\ command[s].calendar \in everApproved /\ dayLock[Place(s)] = s
        /\ \A p \in PendingFor(Place(s)) : rowLock[p] = s
    BY <2>1 DEF IInv, SessionInv, PackageSteps, At
  <2>3. /\ new \in Post /\ new.calendar = command[s].calendar /\ new.day = command[s].day
        /\ new.status = "pending"
    BY <2>2 DEF NewPost, Place, Post, Statuses
  <2>4. /\ posts' \in Seq(Post) /\ Len(posts') = Len(posts) + 1
        /\ Created' = Created \cup {n} /\ n \notin Created
        /\ posts'[n] = new
        /\ \A p \in Created : /\ posts'[p].calendar = posts[p].calendar
                              /\ posts'[p].day = posts[p].day
                              /\ rowLock[p] = s => posts'[p].status = "invalidated"
                              /\ rowLock[p] # s => posts'[p].status = posts[p].status
    <3> HIDE DEF new
    <3> QED
      BY <1>2, <2>3, PackageInsertFacts DEF IInv
  <2> HIDE DEF new, n
  <2>5. /\ command' \in [Sessions -> Command] /\ command'[s] = Quiet
        /\ \A t \in Sessions : t # s => command'[t] = command[t]
        /\ rowLock' \in [PostIds -> Sessions \cup {None}]
        /\ \A p \in PostIds : rowLock'[p] = IF rowLock[p] = s THEN None ELSE rowLock[p]
        /\ dayLock' \in [CalendarDays -> Sessions \cup {None}]
        /\ \A cd \in CalendarDays : dayLock'[cd] = IF dayLock[cd] = s THEN None ELSE dayLock[cd]
    BY <1>2, EndFacts DEF IInv
  <2>6. TypeOK'
    <3>1. Len(posts) \in Nat /\ MaxPosts \in Nat
      BY ApprovalGateAssumption DEF IInv, TypeOK
    <3>2. Len(posts') <= MaxPosts
      BY <1>2, <2>4, <3>1
    <3> QED
      BY <1>2, <2>4, <2>5, <3>2 DEF IInv, TypeOK
  <2>7. ASSUME NEW t \in Sessions PROVE SessionInv(t)'
    <3>1. CASE t = s
      BY <3>1, <2>5 DEF SessionInv, Quiet, Doing, At, PostSteps, StrategySteps, PackageSteps
    <3>2. CASE t # s
      <4>1. SessionInv(t) /\ command'[t] = command[t] /\ Place(t)' = Place(t)
        BY <3>2, <2>5 DEF IInv, Place
      <4>2. Created \subseteq PostIds /\ Created \subseteq Created'
        BY <2>4, CreatedFacts DEF IInv
      <4>3. (\A p \in PostIds : rowLock[p] = t => rowLock'[p] = t)
            /\ \A cd \in CalendarDays : dayLock[cd] = t => dayLock'[cd] = t
        BY <2>5, <3>2
      <4>4. command[t].calendar \in Calendars /\ command[t].day \in Days => Place(t) \in CalendarDays
        BY DEF Place, CalendarDays
      <4>5. command[t].step \in {"packageGate", "packageSupersede", "packageInsert"} => dayLock'[Place(t)] = t
        BY <4>1, <4>3, <4>4 DEF SessionInv, PackageSteps
      <4>6. command[t].step \in {"approveGate", "approveWrite"} => rowLock'[command[t].post] = t
        BY <4>1, <4>2, <4>3 DEF SessionInv, PostSteps
      <4>7. ASSUME command[t].step = "packageInsert", NEW p \in PendingFor(Place(t))'
            PROVE  rowLock'[p] = t
        <5>1. /\ p \in Created' /\ posts'[p].calendar = command[t].calendar
              /\ posts'[p].day = command[t].day /\ posts'[p].status = "pending"
          BY <4>1 DEF PendingFor, Place
        <5>2. Place(t) # Place(s)
          BY <2>2, <3>2, <4>1, <4>7 DEF SessionInv
        <5>3. p # n
          BY <5>1, <5>2, <2>3, <2>4 DEF Place
        <5>4. p \in Created
          BY <5>1, <5>3, <2>4
        <5>5. posts[p].status = "pending"
          BY <5>1, <5>4, <2>4
        <5>6. p \in PendingFor(Place(t))
          BY <5>1, <5>4, <5>5, <2>4 DEF PendingFor, Place
        <5>7. rowLock[p] = t
          BY <5>6, <4>1, <4>7 DEF SessionInv, At
        <5> QED
          BY <5>4, <5>7, <4>2, <4>3
      <4>8. At(t, "packageInsert")' => command[t].step = "packageInsert"
        BY <4>1 DEF At
      <4> QED
        BY <1>2, <4>1, <4>2, <4>5, <4>6, <4>7, <4>8 DEF SessionInv
    <3> QED
      BY <3>1, <3>2
  <2>8. ASSUME NEW p \in PostIds, NEW t \in Sessions, rowLock'[p] = t PROVE Held(p, t)'
    <3>1. rowLock[p] = t /\ t # s
      BY <2>5, <2>8, NoneIsNobody
    <3>2. Held(p, t) /\ command'[t] = command[t]
      BY <3>1, <2>5 DEF IInv, RowInv
    <3>3. p \in Created
      BY <3>2 DEF Held
    <3>4. /\ posts'[p].status = posts[p].status /\ p \in Created'
          /\ posts'[p].calendar = posts[p].calendar /\ posts'[p].day = posts[p].day
      BY <3>1, <3>3, <2>4
    <3> QED
      BY <3>2, <3>4 DEF Held, At, Place
  <2>9. StrategyInv'
    BY <1>2 DEF IInv, StrategyInv
  <2>10. PostInv'
    BY <1>2, <2>2, <2>3, <2>4 DEF IInv, PostInv
  <2>11. ASSUME NEW p \in Created, posts'[p].status = "pending",
                posts'[p].calendar = new.calendar, posts'[p].day = new.day
         PROVE  FALSE
    <3>1. posts[p].status = "pending" /\ rowLock[p] # s
      BY <2>4, <2>11
    <3>2. p \in PendingFor(Place(s))
      BY <3>1, <2>3, <2>4, <2>11 DEF PendingFor, Place
    <3> QED
      BY <3>1, <3>2, <2>2
  <2>12. ASSUME NEW p \in Created', NEW q \in Created',
                posts'[p].status = "pending", posts'[q].status = "pending",
                posts'[p].calendar = posts'[q].calendar, posts'[p].day = posts'[q].day
         PROVE  p = q
    <3>1. CASE p = n \/ q = n
      BY <3>1, <2>4, <2>11, <2>12
    <3>2. CASE p # n /\ q # n
      <4>1. p \in Created /\ q \in Created
        BY <3>2, <2>4
      <4>2. posts[p].status = "pending" /\ posts[q].status = "pending"
        BY <4>1, <2>4, <2>12
      <4> QED
        BY <4>1, <4>2, <2>4, <2>12 DEF IInv, OneOpenDecisionPerDay
    <3> QED
      BY <3>1, <3>2
  <2>13. OneOpenDecisionPerDay'
    BY <2>12 DEF OneOpenDecisionPerDay
  <2> QED
    BY <2>6, <2>7, <2>8, <2>9, <2>10, <2>13 DEF IInv, RowInv
<1> QED
  BY <1>1, <1>2 DEF PackageInsert

-----------------------------------------------------------------------------
(* The triggers, and what happens to memberships.                          *)
LEMMA CreateStrategyApprovalIInv ==
  ASSUME IInv, NEW c \in Calendars, CreateStrategyApproval(c)
  PROVE  IInv'
<1>1. /\ strategy[c] = None /\ strategy' = [strategy EXCEPT ![c] = "pending"]
      /\ UNCHANGED <<role, posts, rowLock, dayLock, command, revisions, everApproved>>
  BY DEF CreateStrategyApproval, locks
<1>2. strategy \in [Calendars -> Statuses \cup {None}]
  BY DEF IInv, TypeOK
<1>3. TypeOK' /\ Created' = Created
  BY <1>1, <1>2 DEF IInv, TypeOK, Statuses, Created
<1>4. StrategyInv'
  <2>1. c \notin everApproved
    BY <1>1, NoneIsNoStatus DEF IInv, StrategyInv, Statuses
  <2> QED
    BY <1>1, <1>2, <2>1 DEF IInv, StrategyInv
<1> QED
  BY <1>1, <1>3, <1>4, AsideIInv

LEMMA ReviseCalendarIInv ==
  ASSUME IInv, NEW c \in Calendars, ReviseCalendar(c)
  PROVE  IInv'
<1>1. /\ strategy' = [strategy EXCEPT ![c] = "invalidated"]
      /\ revisions < MaxRevisions /\ revisions' = revisions + 1
      /\ UNCHANGED <<role, posts, rowLock, dayLock, command, everApproved>>
  BY DEF ReviseCalendar, locks
<1>2. strategy \in [Calendars -> Statuses \cup {None}] /\ revisions' \in 0 .. MaxRevisions
  BY <1>1, ApprovalGateAssumption DEF IInv, TypeOK
<1>3. TypeOK' /\ Created' = Created
  BY <1>1, <1>2 DEF IInv, TypeOK, Statuses, Created
<1>4. StrategyInv'
  BY <1>1, <1>2 DEF IInv, StrategyInv
<1> QED
  BY <1>1, <1>3, <1>4, AsideIInv

LEMMA RevisePackageIInv ==
  ASSUME IInv, NEW p \in Created, RevisePackage(p)
  PROVE  IInv'
<1>1. /\ SetPostStatus({p}, "invalidated") /\ rowLock[p] = None
      /\ revisions < MaxRevisions /\ revisions' = revisions + 1
      /\ UNCHANGED <<role, strategy, rowLock, dayLock, command, everApproved>>
  BY DEF RevisePackage, locks
<1>2. /\ posts' \in Seq(Post) /\ Len(posts') = Len(posts) /\ Created' = Created
      /\ \A q \in Created : /\ posts'[q].calendar = posts[q].calendar
                            /\ posts'[q].day = posts[q].day
                            /\ posts'[q].status = IF q \in {p} THEN "invalidated" ELSE posts[q].status
  BY <1>1, SetPostStatusFacts DEF IInv, TypeOK, Statuses
<1>3. revisions' \in 0 .. MaxRevisions
  BY <1>1, ApprovalGateAssumption DEF IInv, TypeOK
<1>4. TypeOK' /\ StrategyInv'
  BY <1>1, <1>2, <1>3 DEF IInv, TypeOK, StrategyInv
<1>5. {p} \in SUBSET Created /\ \A t \in Sessions : rowLock[p] # t
  BY <1>1, NoneIsNobody
<1> QED
  BY <1>1, <1>2, <1>4, <1>5, WriteIInv

LEMMA SetRoleIInv ==
  ASSUME IInv, NEW s \in Sessions, NEW r \in Roles, SetRole(s, r)
  PROVE  IInv'
<1>1. /\ role' \in [Sessions -> Roles]
      /\ UNCHANGED <<strategy, posts, rowLock, dayLock, command, revisions, everApproved>>
  BY DEF SetRole, tables, locks, IInv, TypeOK
<1>2. TypeOK' /\ StrategyInv' /\ Created' = Created
  BY <1>1 DEF IInv, TypeOK, StrategyInv, Created
<1> QED
  BY <1>1, <1>2, AsideIInv

-----------------------------------------------------------------------------
LEMMA ContinueIInv ==
  ASSUME IInv, NEW s \in Sessions, Continue(s)
  PROVE  IInv'
BY DecideStrategyIInv, RejectPostIInv, ApproveLockIInv, ApproveGateIInv, ApproveWriteIInv,
   PackageLockIInv, PackageGateIInv, PackageSupersedeIInv, PackageInsertIInv DEF Continue

(* Every step keeps the invariant.                                         *)
THEOREM NextIInv ==
  ASSUME IInv, [Next]_vars
  PROVE  IInv'
<1>1. ASSUME NEW c \in Calendars, CreateStrategyApproval(c) \/ ReviseCalendar(c) PROVE IInv'
  BY <1>1, CreateStrategyApprovalIInv, ReviseCalendarIInv
<1>2. ASSUME NEW s \in Sessions, NEW c \in Calendars, NEW step \in {"approveStrategy", "rejectStrategy"},
             BeginStrategy(s, c, step)
      PROVE  IInv'
  BY <1>2, BeginStrategyIInv DEF StrategySteps
<1>3. ASSUME NEW s \in Sessions, NEW step \in {"approvePost", "rejectPost"}, NEW p \in Created,
             BeginPost(s, p, step)
      PROVE  IInv'
  BY <1>3, BeginPostIInv
<1>4. ASSUME NEW s \in Sessions, NEW cd \in CalendarDays, BeginPackage(s, cd) PROVE IInv'
  BY <1>4, BeginPackageIInv
<1>5. ASSUME NEW s \in Sessions, Continue(s) PROVE IInv'
  BY <1>5, ContinueIInv
<1>6. ASSUME NEW p \in Created, RevisePackage(p) PROVE IInv'
  BY <1>6, RevisePackageIInv
<1>7. ASSUME NEW s \in Sessions, NEW r \in Roles, SetRole(s, r) PROVE IInv'
  BY <1>7, SetRoleIInv
<1>8. CASE UNCHANGED vars
  <2>1. UNCHANGED <<role, strategy, posts, rowLock, dayLock, command, revisions, everApproved>>
    BY <1>8 DEF vars
  <2>2. TypeOK' /\ StrategyInv' /\ Created' = Created
    BY <2>1 DEF IInv, TypeOK, StrategyInv, Created
  <2> QED
    BY <2>1, <2>2, AsideIInv
<1> QED
  BY <1>1, <1>2, <1>3, <1>4, <1>5, <1>6, <1>7, <1>8 DEF Next

(* The invariant holds at first: no command, no approval, no lock.         *)
THEOREM InitIInv ==
  ASSUME Init
  PROVE  IInv
<1>1. TypeOK
  BY ApprovalGateAssumption DEF Init, TypeOK, Quiet, Doing, Command, Steps, Roles
<1>2. Created = {}
  BY DEF Init, Created
<1>3. ASSUME NEW s \in Sessions PROVE SessionInv(s)
  BY DEF Init, SessionInv, Quiet, Doing, At, PostSteps, StrategySteps, PackageSteps
<1>4. \A p \in PostIds, s \in Sessions : rowLock[p] # s
  <2>1. rowLock = [p \in PostIds |-> None]
    BY DEF Init
  <2> QED
    BY <2>1, NoneIsNobody
<1>5. StrategyInv
  BY NoneIsNoStatus DEF Init, StrategyInv, Statuses
<1>6. PostInv /\ OneOpenDecisionPerDay
  BY <1>2 DEF PostInv, OneOpenDecisionPerDay
<1> QED
  BY <1>1, <1>3, <1>4, <1>5, <1>6 DEF IInv, RowInv

(* The inductive invariant holds of every behaviour.                       *)
THEOREM Invariance == Spec => []IInv
<1>1. Init => IInv
  BY InitIInv
<1>2. IInv /\ [Next]_vars => IInv'
  BY NextIInv
<1> QED
  BY <1>1, <1>2, PTL DEF Spec

(* The tables, the locks and the commands keep their shape.                *)
THEOREM TypeCorrectness == Spec => []TypeOK
<1>1. IInv => TypeOK
  BY DEF IInv
<1> QED
  BY <1>1, Invariance, PTL

(* However many sessions package a day at once, one decision is open.      *)
THEOREM OneDecisionPerDay == Spec => []OneOpenDecisionPerDay
<1>1. IInv => OneOpenDecisionPerDay
  BY DEF IInv
<1> QED
  BY <1>1, Invariance, PTL

(* Nothing is built of a calendar whose strategy no owner approved.        *)
THEOREM PostsTraceToApproval == Spec => []PostsNeedApprovedStrategy
<1>1. IInv => PostsNeedApprovedStrategy
  <2>1. IInv => \A p \in Created : posts[p].calendar \in Calendars
    BY CreatedFacts DEF IInv, Post
  <2> QED
    BY <2>1 DEF IInv, PostInv, StrategyInv, PostsNeedApprovedStrategy
<1> QED
  BY <1>1, Invariance, PTL

-----------------------------------------------------------------------------
(* A step that closes open decisions only, or none, keeps every decision.  *)
LEMMA PostsKeptFacts ==
  ASSUME posts \in Seq(Post), NEW ids, NEW status \in Statuses, SetPostStatus(ids, status),
         \A p \in Created : p \in ids => KeepsDecision(posts[p].status, status)
  PROVE  \A p \in Created : p \in Created' /\ KeepsDecision(posts[p].status, posts'[p].status)
<1>1. /\ Created' = Created
      /\ \A p \in Created : posts'[p].status = IF p \in ids THEN status ELSE posts[p].status
  BY SetPostStatusFacts
<1> QED
  BY <1>1 DEF KeepsDecision

LEMMA SameTables ==
  ASSUME UNCHANGED <<strategy, posts>>
  PROVE  KeepsDecisions
BY DEF KeepsDecisions, KeepsDecision, Created

\* Of a command's steps, only the last may write a decision.
LEMMA ContinueKeeps ==
  ASSUME IInv, NEW s \in Sessions, Continue(s)
  PROVE  KeepsDecisions
<1>1. TypeOK /\ posts \in Seq(Post) /\ SessionInv(s)
  BY DEF IInv, TypeOK
<1>2. ASSUME UNCHANGED strategy,
             \A p \in Created : p \in Created' /\ KeepsDecision(posts[p].status, posts'[p].status)
      PROVE  KeepsDecisions
  BY <1>2 DEF KeepsDecisions, KeepsDecision
<1>3. ASSUME Raise(s) PROVE KeepsDecisions
  BY <1>3, SameTables DEF Raise, tables
<1>4. CASE DecideStrategy(s)
  <2>1. CASE Raise(s)
    BY <2>1, <1>3
  <2>2. CASE ~ Raise(s)
    <3>1. /\ strategy[command[s].calendar] = "pending"
          /\ \E v : strategy' = [strategy EXCEPT ![command[s].calendar] = v]
          /\ posts' = posts
      BY <1>4, <2>2 DEF DecideStrategy
    <3>2. \A c \in Calendars : strategy[c] = "pending" \/ strategy'[c] = strategy[c]
      BY <3>1, <1>1 DEF TypeOK
    <3> QED
      BY <3>1, <3>2 DEF KeepsDecisions, KeepsDecision, Created
  <2> QED
    BY <2>1, <2>2
<1>5. CASE RejectPost(s)
  <2>1. CASE Raise(s)
    BY <2>1, <1>3
  <2>2. CASE ~ Raise(s)
    <3>1. /\ posts[command[s].post].status = "pending"
          /\ SetPostStatus({command[s].post}, "rejected") /\ UNCHANGED strategy
      BY <1>5, <2>2 DEF RejectPost
    <3>2. "rejected" \in Statuses
      BY DEF Statuses
    <3>3. \A p \in Created : p \in {command[s].post} => KeepsDecision(posts[p].status, "rejected")
      BY <3>1 DEF KeepsDecision
    <3> QED
      BY <1>1, <1>2, <3>1, <3>2, <3>3, PostsKeptFacts
  <2> QED
    BY <2>1, <2>2
<1>6. CASE ApproveWrite(s)
  <2>1. command[s].step = "approveWrite" /\ command[s].post \in Created
        /\ rowLock[command[s].post] = s
    BY <1>6, <1>1 DEF ApproveWrite, At, SessionInv, PostSteps
  <2>2. Held(command[s].post, s)
    <3>1. command[s].post \in PostIds
      BY <2>1, <1>1, CreatedFacts
    <3> QED
      BY <2>1, <3>1 DEF IInv, RowInv
  <2>3. posts[command[s].post].status = "pending"
    BY <2>2 DEF Held
  <2>4. "approved" \in Statuses
    BY DEF Statuses
  <2>5. \A p \in Created : p \in {command[s].post} => KeepsDecision(posts[p].status, "approved")
    BY <2>3 DEF KeepsDecision
  <2> QED
    BY <1>1, <1>2, <1>6, <2>4, <2>5, PostsKeptFacts DEF ApproveWrite
<1>7. CASE PackageInsert(s)
  <2>1. CASE Raise(s)
    BY <2>1, <1>3
  <2>2. CASE ~ Raise(s)
    <3>1. /\ Len(posts) < MaxPosts /\ UNCHANGED strategy
          /\ posts' = Append([p \in Created |-> IF p \in Superseded(s)
                                                THEN [posts[p] EXCEPT !.status = "invalidated"]
                                                ELSE posts[p]],
                             NewPost(Place(s)))
      BY <1>7, <2>2 DEF PackageInsert
    <3>2. NewPost(Place(s)) \in Post
      BY <1>1, <1>7 DEF PackageInsert, At, SessionInv, PackageSteps, NewPost, Place, Post, Statuses
    <3>3. /\ Created \subseteq Created'
          /\ \A p \in Created : /\ rowLock[p] = s => posts'[p].status = "invalidated"
                                /\ rowLock[p] # s => posts'[p].status = posts[p].status
      BY <3>1, <3>2, <1>1, PackageInsertFacts
    <3>4. \A p \in Created : rowLock[p] = s => posts[p].status = "pending"
      BY <1>1, CreatedFacts DEF IInv, RowInv, Held
    <3>5. \A p \in Created : p \in Created' /\ KeepsDecision(posts[p].status, posts'[p].status)
      BY <3>3, <3>4 DEF KeepsDecision
    <3> QED
      BY <1>2, <3>1, <3>5
  <2> QED
    BY <2>1, <2>2
<1>8. CASE ApproveLock(s) \/ ApproveGate(s) \/ PackageLock(s) \/ PackageGate(s) \/ PackageSupersede(s)
  BY <1>8, <1>3, SameTables DEF ApproveLock, ApproveGate, PackageLock, PackageGate, PackageSupersede, tables
<1> QED
  BY <1>4, <1>5, <1>6, <1>7, <1>8 DEF Continue

(* A decision, once taken, is never taken again and never taken back; only *)
(* a newer revision retires an approval.                                   *)
THEOREM DecisionsStay == Spec => DecisionsAreFinal
<1>1. ASSUME IInv, [Next]_vars PROVE [KeepsDecisions]_vars
  <2>1. TypeOK /\ posts \in Seq(Post)
    BY <1>1 DEF IInv, TypeOK
  <2>2. ASSUME UNCHANGED tables PROVE KeepsDecisions
    BY <2>2, SameTables DEF tables
  <2>3. ASSUME NEW c \in Calendars, CreateStrategyApproval(c) PROVE KeepsDecisions
    <3>1. strategy[c] = None /\ strategy' = [strategy EXCEPT ![c] = "pending"] /\ posts' = posts
      BY <2>3 DEF CreateStrategyApproval
    <3>2. \A d \in Calendars : strategy[d] # None => strategy'[d] = strategy[d]
      BY <2>1, <3>1 DEF TypeOK
    <3> QED
      BY <3>1, <3>2 DEF KeepsDecisions, KeepsDecision, Created
  <2>4. ASSUME NEW c \in Calendars, ReviseCalendar(c) PROVE KeepsDecisions
    <3>1. /\ strategy[c] \in {"pending", "approved"} /\ strategy' = [strategy EXCEPT ![c] = "invalidated"]
          /\ posts' = posts /\ revisions' = revisions + 1
      BY <2>4 DEF ReviseCalendar, Stale
    <3>2. \A d \in Calendars : strategy'[d] = IF d = c THEN "invalidated" ELSE strategy[d]
      BY <2>1, <3>1 DEF TypeOK
    <3>3. \A d \in Calendars : KeepsDecision(strategy[d], strategy'[d])
      BY <3>1, <3>2 DEF KeepsDecision
    <3> QED
      BY <3>1, <3>3 DEF KeepsDecisions, KeepsDecision, Created
  <2>5. ASSUME NEW p \in Created, RevisePackage(p) PROVE KeepsDecisions
    <3>1. /\ posts[p].status \in {"pending", "approved"} /\ SetPostStatus({p}, "invalidated")
          /\ strategy' = strategy /\ revisions' = revisions + 1
      BY <2>5 DEF RevisePackage, Stale
    <3>2. "invalidated" \in Statuses
      BY DEF Statuses
    <3>3. \A q \in Created : q \in {p} => KeepsDecision(posts[q].status, "invalidated")
      BY <3>1 DEF KeepsDecision
    <3>4. \A q \in Created : q \in Created' /\ KeepsDecision(posts[q].status, posts'[q].status)
      BY <2>1, <3>1, <3>2, <3>3, PostsKeptFacts
    <3> QED
      BY <3>1, <3>4 DEF KeepsDecisions, KeepsDecision
  <2>6. ASSUME NEW s \in Sessions, Continue(s) PROVE KeepsDecisions
    BY <1>1, <2>6, ContinueKeeps
  <2>7. CASE UNCHANGED vars
    BY <2>7
  <2> QED
    BY <1>1, <2>2, <2>3, <2>4, <2>5, <2>6, <2>7
       DEF Next, BeginStrategy, BeginPost, BeginPackage, SetRole
<1> QED
  BY <1>1, Invariance, PTL DEF Spec, DecisionsAreFinal
-----------------------------------------------------------------------------
(* Who waits, and for whom.  Only a package past its first statement holds *)
(* a day: the lock of the day is taken on the way to it and given back by  *)
(* every way out.                                                          *)
DaySteps == {"packageGate", "packageSupersede", "packageInsert"}
DayInv == \A cd \in CalendarDays, s \in Sessions : dayLock[cd] = s => command[s].step \in DaySteps

\* A step that takes no day, of a session that holds none or keeps to its
\* package.
LEMMA DayKept ==
  ASSUME TypeOK, DayInv, NEW s \in Sessions,
         \A t \in Sessions : t # s => command'[t] = command[t],
         \A cd \in CalendarDays : dayLock'[cd] = dayLock[cd] \/ dayLock'[cd] = None,
         \A cd \in CalendarDays : dayLock'[cd] = s => command'[s].step \in DaySteps
  PROVE  DayInv'
BY NoneIsNobody DEF DayInv

LEMMA EndDay == ASSUME TypeOK, DayInv, NEW s \in Sessions, End(s) PROVE DayInv'
<1>1. /\ \A t \in Sessions : t # s => command'[t] = command[t]
      /\ \A cd \in CalendarDays : dayLock'[cd] = IF dayLock[cd] = s THEN None ELSE dayLock[cd]
  BY EndFacts
<1> QED
  BY <1>1, NoneIsNobody, DayKept

\* Moving on without touching a day: from a place without one, or along the
\* package.
LEMMA GotoDay ==
  ASSUME TypeOK, DayInv, NEW s \in Sessions, NEW step \in Steps, Goto(s, step), UNCHANGED dayLock,
         command[s].step \in DaySteps => step \in DaySteps
  PROVE  DayInv'
<1>1. command'[s].step = step /\ \A t \in Sessions : t # s => command'[t] = command[t]
  BY GotoFacts
<1> QED
  BY <1>1, DayKept DEF DayInv

LEMMA BeginDay ==
  ASSUME TypeOK, DayInv, NEW s \in Sessions, IsQuiet(s), NEW doing, command' = [command EXCEPT ![s] = doing],
         UNCHANGED dayLock
  PROVE  DayInv'
<1>1. \A cd \in CalendarDays : dayLock[cd] # s
  BY DEF DayInv, DaySteps, IsQuiet, At
<1>2. \A t \in Sessions : t # s => command'[t] = command[t]
  BY DEF TypeOK
<1> QED
  BY <1>1, <1>2, DayKept

LEMMA ContinueDay == ASSUME TypeOK, DayInv, NEW s \in Sessions, Continue(s) PROVE DayInv'
<1>1. CASE End(s)
  BY <1>1, EndDay
<1>2. ASSUME ~ End(s), ~ PackageLock(s) PROVE DayInv'
  <2>1. \E step \in {"approveGate", "approveWrite", "packageSupersede", "packageInsert"} :
          /\ Goto(s, step) /\ UNCHANGED dayLock
          /\ command[s].step \in DaySteps => step \in DaySteps
    BY <1>2 DEF Continue, DecideStrategy, RejectPost, ApproveLock, ApproveGate, ApproveWrite, PackageGate,
                PackageSupersede, PackageInsert, Raise, locks, At, DaySteps
  <2> QED
    BY <2>1, GotoDay DEF Steps
<1>3. CASE PackageLock(s)
  <2>1. "packageGate" \in Steps
    BY DEF Steps
  <2>2. command'[s].step = "packageGate" /\ \A t \in Sessions : t # s => command'[t] = command[t]
    BY <1>3, <2>1, GotoFacts DEF PackageLock
  <2>3. \A cd \in CalendarDays : dayLock'[cd] = dayLock[cd] \/ dayLock'[cd] = s
    BY <1>3 DEF PackageLock, TypeOK
  <2> QED
    BY <2>2, <2>3 DEF DayInv, DaySteps
<1> QED
  BY <1>1, <1>2, <1>3

LEMMA NextDay == ASSUME TypeOK, DayInv, [Next]_vars PROVE DayInv'
<1>1. ASSUME UNCHANGED <<command, dayLock>> PROVE DayInv'
  BY <1>1 DEF DayInv
<1>2. ASSUME NEW s \in Sessions, NEW c \in Calendars, NEW step, BeginStrategy(s, c, step) PROVE DayInv'
  BY <1>2, BeginDay DEF BeginStrategy, locks
<1>3. ASSUME NEW s \in Sessions, NEW p, NEW step, BeginPost(s, p, step) PROVE DayInv'
  BY <1>3, BeginDay DEF BeginPost, locks
<1>4. ASSUME NEW s \in Sessions, NEW cd, BeginPackage(s, cd) PROVE DayInv'
  BY <1>4, BeginDay DEF BeginPackage, locks
<1>5. ASSUME NEW s \in Sessions, Continue(s) PROVE DayInv'
  BY <1>5, ContinueDay
<1> QED
  BY <1>1, <1>2, <1>3, <1>4, <1>5
     DEF Next, CreateStrategyApproval, ReviseCalendar, RevisePackage, SetRole, locks, vars

\* Who holds a row is about to end its command and waits for nobody.
LEMMA RowHolder ==
  ASSUME IInv, NEW p \in PostIds, NEW t \in Sessions, rowLock[p] = t
  PROVE  ~ IsQuiet(t) /\ WaitsFor(t) = {}
<1>1. Held(p, t)
  BY DEF IInv, RowInv
<1> QED
  BY <1>1 DEF Held, WaitsFor, IsQuiet, At

\* In any number of sessions, no command waits in a circle or for a lock that
\* was left behind: a package may wait for another package of its day, which
\* may wait for decisions and those for nobody.
THEOREM NobodyWaitsForever == Spec => []NoStandoff
<1>1. ASSUME IInv, DayInv PROVE NoStandoff
  <2>1. ASSUME NEW s \in Sessions, NEW t \in WaitsFor(s), ~ At(s, "packageLock")
        PROVE  ~ IsQuiet(t) /\ WaitsFor(t) = {}
    <3>1. t \in Sessions /\ SessionInv(s)
      BY <1>1 DEF WaitsFor, IInv
    <3>2. \E p \in PostIds : rowLock[p] = t
      BY <1>1, <2>1, <3>1, CreatedFacts DEF WaitsFor, SessionInv, At, PostSteps, PendingFor, IInv
    <3> QED
      BY <1>1, <3>1, <3>2, RowHolder
  <2>2. ASSUME NEW s \in Sessions, NEW t \in WaitsFor(s), At(s, "packageLock")
        PROVE  ~ IsQuiet(t) /\ ~ At(t, "packageLock") /\ t \in Sessions
    <3>1. t \in Sessions /\ dayLock[Place(s)] = t
      BY <2>2 DEF WaitsFor, At
    <3>2. Place(s) \in CalendarDays
      BY <1>1, <2>2 DEF IInv, SessionInv, At, PackageSteps, Place, CalendarDays
    <3> QED
      BY <1>1, <3>1, <3>2 DEF DayInv, DaySteps, IsQuiet, At
  <2> QED
    BY <2>1, <2>2 DEF NoStandoff
<1>2. Init => DayInv
  BY NoneIsNobody DEF Init, DayInv
<1>3. IInv /\ DayInv /\ [Next]_vars => DayInv'
  BY NextDay DEF IInv
<1>4. IInv /\ DayInv => NoStandoff
  BY <1>1
<1> QED
  BY <1>2, <1>3, <1>4, Invariance, PTL DEF Spec

-----------------------------------------------------------------------------
(* Every step of the commands is a step of AtomicDecisions or none.        *)
LEMMA SameDecisions == ASSUME UNCHANGED <<tables, revisions, everApproved>> PROVE UNCHANGED Decisions!decisionVars
BY DEF tables, Decisions!decisionVars

LEMMA MarkedPosts ==
  ASSUME NEW ids, NEW status, SetPostStatus(ids, status)
  PROVE  posts' = Decisions!Marked(ids, status)
BY DEF SetPostStatus, Decisions!Marked, Decisions!Ids, Created

\* What a package locked before it inserts are the open decisions of its day,
\* all of them and no other.
LEMMA SupersededIsOpen ==
  ASSUME IInv, NEW s \in Sessions, At(s, "packageInsert")
  PROVE  Superseded(s) = Decisions!OpenOf(command[s].calendar, command[s].day)
<1>1. SessionInv(s) /\ \A p \in Created : p \in PostIds
  BY CreatedFacts DEF IInv
<1>2. \A p \in Created : rowLock[p] = s => Held(p, s)
  BY <1>1 DEF IInv, RowInv
<1>3. PendingFor(Place(s)) = Decisions!OpenOf(command[s].calendar, command[s].day)
  BY DEF PendingFor, Place, Decisions!OpenOf, Decisions!Ids, Created
<1>4. PendingFor(Place(s)) \subseteq Superseded(s)
  BY <1>1 DEF SessionInv, Superseded, PendingFor
<1>5. Superseded(s) \subseteq PendingFor(Place(s))
  BY <1>2 DEF Held, At, Superseded, PendingFor, Place
<1> QED
  BY <1>3, <1>4, <1>5

LEMMA ContinueDecides ==
  ASSUME IInv, NEW s \in Sessions, Continue(s)
  PROVE  [Decisions!DecisionNext]_(Decisions!decisionVars)
<1>0. SessionInv(s) /\ PostInv /\ \A p \in Created : p \in PostIds
  BY CreatedFacts DEF IInv
<1>1. CASE Raise(s)
  BY <1>1, SameDecisions DEF Raise
<1>2. CASE DecideStrategy(s) /\ ~ Raise(s)
  <2>1. PICK verdict \in {"approved", "rejected"} : verdict = IF At(s, "approveStrategy") THEN "approved" ELSE "rejected"
    OBVIOUS
  <2>2. command[s].calendar \in Calendars
    BY <1>0, <1>2 DEF SessionInv, DecideStrategy, At, StrategySteps
  <2>3. Decisions!DecideCalendar(command[s].calendar, verdict)
    BY <1>2, <2>1 DEF DecideStrategy, Decisions!DecideCalendar
  <2> QED
    BY <2>2, <2>3 DEF Decisions!DecisionNext
<1>3. CASE RejectPost(s) /\ ~ Raise(s)
  <2>1. command[s].post \in Decisions!Ids /\ posts[command[s].post].calendar \in everApproved
    BY <1>0, <1>3 DEF SessionInv, RejectPost, At, PostSteps, PostInv, Decisions!Ids, Created
  <2>2. Decisions!DecidePackage(command[s].post, "rejected")
    BY <1>3, <2>1, MarkedPosts DEF RejectPost, Decisions!DecidePackage
  <2> QED
    BY <2>1, <2>2 DEF Decisions!DecisionNext
<1>4. CASE ApproveWrite(s)
  <2>1. /\ command[s].post \in Created /\ rowLock[command[s].post] = s
        /\ posts[command[s].post].calendar \in everApproved
    BY <1>0, <1>4 DEF SessionInv, ApproveWrite, At, PostSteps, PostInv
  <2>2. posts[command[s].post].status = "pending"
    BY <1>0, <2>1 DEF IInv, RowInv, Held
  <2>3. Decisions!DecidePackage(command[s].post, "approved")
    BY <1>4, <2>1, <2>2, MarkedPosts DEF ApproveWrite, Decisions!DecidePackage
  <2> QED
    BY <2>1, <2>3 DEF Decisions!DecisionNext, Decisions!Ids, Created
<1>5. CASE PackageInsert(s) /\ ~ Raise(s)
  <2> DEFINE c == command[s].calendar
             d == command[s].day
  <2>1. At(s, "packageInsert") /\ c \in Calendars /\ d \in Days /\ c \in everApproved
    BY <1>0, <1>5 DEF PackageInsert, SessionInv, At, PackageSteps
  <2>2. posts' = Append([p \in Created |-> IF p \in Decisions!OpenOf(c, d)
                                           THEN [posts[p] EXCEPT !.status = "invalidated"]
                                           ELSE posts[p]], NewPost(Place(s)))
    BY <1>5, <2>1, SupersededIsOpen DEF PackageInsert
  <2>3. NewPost(Place(s)) = [calendar |-> c, day |-> d, status |-> "pending"]
    BY DEF NewPost, Place
  <2>4. Decisions!Package(c, d)
    BY <1>5, <2>1, <2>2, <2>3 DEF PackageInsert, Decisions!Package, Decisions!Marked, Decisions!Ids, Created
  <2> QED
    BY <2>1, <2>4 DEF Decisions!DecisionNext
<1>6. CASE (ApproveLock(s) \/ ApproveGate(s) \/ PackageLock(s) \/ PackageGate(s) \/ PackageSupersede(s)) /\ ~ Raise(s)
  BY <1>6, SameDecisions DEF ApproveLock, ApproveGate, PackageLock, PackageGate, PackageSupersede
<1> QED
  BY <1>1, <1>2, <1>3, <1>4, <1>5, <1>6 DEF Continue

LEMMA NextDecides ==
  ASSUME IInv, [Next]_vars PROVE [Decisions!DecisionNext]_(Decisions!decisionVars)
<1>1. ASSUME NEW c \in Calendars, CreateStrategyApproval(c) PROVE Decisions!DecisionNext
  BY <1>1 DEF CreateStrategyApproval, Decisions!Submit, Decisions!DecisionNext
<1>2. ASSUME NEW c \in Calendars, ReviseCalendar(c) PROVE Decisions!Revise
  BY <1>2 DEF ReviseCalendar, Stale, Decisions!Revise
<1>3. ASSUME NEW p \in Created, RevisePackage(p) PROVE Decisions!Revise
  BY <1>3, MarkedPosts DEF RevisePackage, Stale, Decisions!Revise, Decisions!Ids, Created
<1>4. CASE UNCHANGED <<tables, revisions, everApproved>>
  BY <1>4, SameDecisions
<1>5. ASSUME NEW s \in Sessions, Continue(s) PROVE [Decisions!DecisionNext]_(Decisions!decisionVars)
  BY <1>5, ContinueDecides
<1> QED
  BY <1>1, <1>2, <1>3, <1>4, <1>5
     DEF Next, BeginStrategy, BeginPost, BeginPackage, SetRole, vars, tables, Decisions!DecisionNext

\* For any number of sessions, statements and locks make the commands atomic.
THEOREM LocksMakeAtomic == Spec => CommandsAreAtomic
<1>1. Init => Decisions!DecisionInit
  BY DEF Init, Decisions!DecisionInit
<1>2. IInv /\ [Next]_vars => [Decisions!DecisionNext]_(Decisions!decisionVars)
  BY NextDecides
<1> QED
  BY <1>1, <1>2, Invariance, PTL DEF Spec, CommandsAreAtomic, Decisions!DecisionSpec

-----------------------------------------------------------------------------
(* A decision, a package or a revision, made at one moment, changes the    *)
(* rows of its calendar as ApprovalRecords says and no other calendar's.   *)
LEMMA RowsOf ==
  ASSUME NEW c \in Calendars
  PROVE  /\ Records(c)!Rows = 0 .. MaxPosts /\ Records(c)!Strategy = 0 /\ Records(c)!Posts = 1 .. MaxPosts
         /\ ShownRows(c)[0] = Shown(strategy[c])
         /\ \A r \in 1 .. MaxPosts :
              ShownRows(c)[r] = IF r \in Created /\ posts[r].calendar = c THEN Shown(posts[r].status) ELSE "none"
         /\ DOMAIN ShownRows(c) = 0 .. MaxPosts
BY ApprovalGateAssumption DEF Records!Rows, Records!Strategy, Records!Posts, ShownRows

\* One row of the calendar changes, or none.
LEMMA RowBecomes ==
  ASSUME NEW c \in Calendars, NEW row \in 0 .. MaxPosts,
         \A r \in 0 .. MaxPosts : r # row => ShownRows(c)'[r] = ShownRows(c)[r]
  PROVE  ShownRows(c)' = [ShownRows(c) EXCEPT ![row] = ShownRows(c)'[row]]
BY DEF ShownRows

\* A verdict or a revision that takes a row of the calendar, the strategy
\* for one, and what the abstract step needs of it.
LEMMA RowDecided ==
  ASSUME TypeOK, NEW c \in Calendars, NEW row \in 0 .. MaxPosts, NEW status \in {"approved", "closed"},
         ShownRows(c)[row] = "pending" \/ (ShownRows(c)[row] = "approved" /\ status = "closed"),
         row # 0 /\ status = "approved" => c \in everApproved,
         ShownRows(c)'[row] = status,
         \A r \in 0 .. MaxPosts : r # row => ShownRows(c)'[r] = ShownRows(c)[r],
         c \in everApproved' <=> (c \in everApproved \/ (row = 0 /\ status = "approved"))
  PROVE  Records(c)!RecordsNext
<1>1. ShownRows(c)' = [ShownRows(c) EXCEPT ![row] = status]
  BY RowBecomes
<1>2. Given(c)' = Records(c)!GivenBy(row, status)
  BY RowsOf DEF Given, Records!GivenBy
<1>3. Records(c)!MayBecome(row, status)
  BY RowsOf DEF Given, Records!MayBecome
<1>4. Records(c)!Decide(row, status)
  BY <1>1, <1>2, <1>3 DEF Records!Decide
<1>5. row \in Records(c)!Rows
  BY RowsOf
<1> QED
  BY <1>4, <1>5 DEF Records!RecordsNext

\* A verdict on a post, or a revision of one.
LEMMA PostDecided ==
  ASSUME TypeOK, NEW c \in Calendars, NEW p \in Created, NEW status \in {"approved", "rejected", "invalidated"},
         posts' = Decisions!Marked({p}, status), UNCHANGED <<strategy, everApproved>>,
         posts[p].status = "pending" \/ (posts[p].status = "approved" /\ status = "invalidated"),
         status = "approved" => posts[p].calendar \in everApproved
  PROVE  [Records(c)!RecordsNext]_<<ShownRows(c), Given(c)>>
<1>1. status \in Statuses /\ posts \in Seq(Post) /\ SetPostStatus({p}, status) /\ p \in 1 .. MaxPosts
  BY CreatedFacts DEF Statuses, TypeOK, SetPostStatus, Decisions!Marked, Decisions!Ids, Created, PostIds
<1>2. /\ Created' = Created
      /\ \A q \in Created : /\ posts'[q].calendar = posts[q].calendar
                            /\ posts'[q].status = IF q = p THEN status ELSE posts[q].status
  <2>1. PICK ids : ids = {p}
    OBVIOUS
  <2>2. SetPostStatus(ids, status)
    BY <1>1, <2>1
  <2>3. \A q \in Created : q \in ids <=> q = p
    BY <2>1
  <2> QED
    BY <1>1, <2>2, <2>3, SetPostStatusFacts
<1>3. ASSUME NEW r \in 0 .. MaxPosts, r # p \/ posts[p].calendar # c PROVE ShownRows(c)'[r] = ShownRows(c)[r]
  BY <1>2, <1>3 DEF ShownRows
<1>4. CASE posts[p].calendar # c
  <2>1. ShownRows(c)' = ShownRows(c)
    BY <1>3, <1>4 DEF ShownRows
  <2> QED
    BY <2>1 DEF Given
<1>5. CASE posts[p].calendar = c
  <2>1. p # 0 /\ p \in 0 .. MaxPosts
    BY <1>1
  <2>2. ShownRows(c)[p] = Shown(posts[p].status) /\ ShownRows(c)'[p] = Shown(posts'[p].status)
    BY <1>2, <1>5, <2>1 DEF ShownRows
  <2>3. ShownRows(c)[p] = posts[p].status
    BY <2>2, NoneIsNoStatus DEF Shown, Statuses
  <2>4. ShownRows(c)'[p] = IF status = "approved" THEN "approved" ELSE "closed"
    BY <1>2, <2>2, NoneIsNoStatus DEF Shown, Statuses
  <2> QED
    BY <1>3, <1>5, <2>1, <2>3, <2>4, RowDecided
<1> QED
  BY <1>4, <1>5

\* A verdict on a strategy, or a revision of its calendar.
LEMMA StrategyDecided ==
  ASSUME TypeOK, NEW c \in Calendars, NEW d \in Calendars, NEW status \in {"approved", "rejected", "invalidated"},
         strategy' = [strategy EXCEPT ![d] = status], UNCHANGED posts,
         strategy[d] = "pending" \/ (strategy[d] = "approved" /\ status = "invalidated"),
         everApproved' = IF status = "approved" THEN everApproved \cup {d} ELSE everApproved
  PROVE  [Records(c)!RecordsNext]_<<ShownRows(c), Given(c)>>
<1>1. \A e \in Calendars : strategy'[e] = IF e = d THEN status ELSE strategy[e]
  BY DEF TypeOK
<1>2. ASSUME NEW r \in 0 .. MaxPosts, r # 0 \/ d # c PROVE ShownRows(c)'[r] = ShownRows(c)[r]
  BY <1>1, <1>2 DEF ShownRows, Created
<1>3. CASE d # c
  <2>1. ShownRows(c)' = ShownRows(c)
    BY <1>2, <1>3 DEF ShownRows
  <2>2. Given(c)' = Given(c)
    BY <1>3 DEF Given
  <2> QED
    BY <2>1, <2>2
<1>4. CASE d = c
  <2>1. 0 \in 0 .. MaxPosts
    BY ApprovalGateAssumption
  <2>2. ShownRows(c)[0] = strategy[c] /\ ShownRows(c)'[0] = Shown(status)
    BY <1>1, <1>4, <2>1, NoneIsNoStatus DEF ShownRows, Shown, Statuses
  <2>3. Shown(status) = IF status = "approved" THEN "approved" ELSE "closed"
    BY NoneIsNoStatus DEF Shown, Statuses
  <2> QED
    BY <1>2, <1>4, <2>1, <2>2, <2>3, RowDecided
<1> QED
  BY <1>3, <1>4

LEMMA StrategySubmitted ==
  ASSUME TypeOK, NEW c \in Calendars, NEW d \in Calendars, Decisions!Submit(d)
  PROVE  [Records(c)!RecordsNext]_<<ShownRows(c), Given(c)>>
<1>1. /\ strategy[d] = None /\ UNCHANGED <<posts, everApproved>>
      /\ \A e \in Calendars : strategy'[e] = IF e = d THEN "pending" ELSE strategy[e]
  BY DEF Decisions!Submit, TypeOK
<1>2. ASSUME NEW r \in 0 .. MaxPosts, r # 0 \/ d # c PROVE ShownRows(c)'[r] = ShownRows(c)[r]
  BY <1>1, <1>2 DEF ShownRows, Created
<1>3. Given(c)' = Given(c)
  BY <1>1 DEF Given
<1>4. CASE d # c
  <2>1. ShownRows(c)' = ShownRows(c)
    BY <1>2, <1>4 DEF ShownRows
  <2> QED
    BY <1>3, <2>1
<1>5. CASE d = c
  <2>1. 0 \in 0 .. MaxPosts
    BY ApprovalGateAssumption
  <2>2. ShownRows(c)[0] = "none" /\ ShownRows(c)'[0] = "pending"
    BY <1>1, <1>5, <2>1, NoneIsNoStatus DEF ShownRows, Shown, Statuses
  <2>3. ShownRows(c)' = [ShownRows(c) EXCEPT ![0] = "pending"]
    BY <1>2, <2>1, <2>2, RowBecomes
  <2>4. Records(c)!Submit
    BY <1>3, <2>2, <2>3, RowsOf DEF Records!Submit
  <2> QED
    BY <2>4 DEF Records!RecordsNext
<1> QED
  BY <1>4, <1>5

LEMMA PostPrepared ==
  ASSUME TypeOK, NEW c \in Calendars, NEW d \in Calendars, NEW day \in Days, Decisions!Package(d, day)
  PROVE  [Records(c)!RecordsNext]_<<ShownRows(c), Given(c)>>
<1> DEFINE new == [calendar |-> d, day |-> day, status |-> "pending"]
           open == Decisions!OpenOf(d, day)
           post == Len(posts) + 1
<1>1. new \in Post /\ Len(posts) < MaxPosts /\ d \in everApproved /\ UNCHANGED <<strategy, everApproved>>
  BY DEF Decisions!Package, Post, Statuses
<1>2. posts' = Append(Decisions!Marked(open, "invalidated"), new)
  BY DEF Decisions!Package
<1>3. /\ Created' = Created \cup {post} /\ post \notin Created
      /\ posts'[post] = new
      /\ \A p \in Created : /\ posts'[p].calendar = posts[p].calendar
                            /\ posts'[p].status = IF p \in open THEN "invalidated" ELSE posts[p].status
  <2> HIDE DEF new, open
  <2> QED
    BY <1>1, <1>2, AppendedFacts
<1>4. post \in 1 .. MaxPosts /\ open \subseteq Created /\ Created \subseteq 1 .. MaxPosts
      /\ \A p \in open : posts[p].calendar = d /\ posts[p].status = "pending"
  <2>1. Len(posts) \in Nat /\ MaxPosts \in Nat
    BY ApprovalGateAssumption DEF TypeOK
  <2> QED
    BY <1>1, <2>1, CreatedFacts DEF Decisions!OpenOf, Decisions!Ids, Created, PostIds
<1> HIDE DEF new, open, post
<1>5. Given(c)' = Given(c)
  BY <1>1 DEF Given
<1>6. CASE d # c
  <2>1. \A r \in 0 .. MaxPosts : ShownRows(c)'[r] = ShownRows(c)[r]
    BY <1>1, <1>3, <1>4, <1>6 DEF ShownRows, new
  <2>2. ShownRows(c)' = ShownRows(c)
    BY <2>1 DEF ShownRows
  <2> QED
    BY <1>5, <2>2
<1>7. CASE d = c
  <2>1. /\ ShownRows(c)'[0] = ShownRows(c)[0]
        /\ ShownRows(c)[post] = "none" /\ ShownRows(c)'[post] = "pending"
        /\ \A p \in open : ShownRows(c)[p] = "pending" /\ ShownRows(c)'[p] = "closed"
        /\ \A r \in 1 .. MaxPosts : r # post /\ r \notin open => ShownRows(c)'[r] = ShownRows(c)[r]
    BY <1>1, <1>3, <1>4, <1>7, NoneIsNoStatus, ApprovalGateAssumption DEF ShownRows, Shown, Statuses, new
  <2>2. ShownRows(c)' = Records(c)!Prepared(post, open)
    <3>1. ShownRows(c)' = [r \in 0 .. MaxPosts |-> ShownRows(c)'[r]]
      BY DEF ShownRows
    <3>2. \A r \in 0 .. MaxPosts :
            ShownRows(c)'[r] = IF r = post THEN "pending" ELSE IF r \in open THEN "closed" ELSE ShownRows(c)[r]
      BY <1>4, <2>1
    <3> QED
      BY <3>1, <3>2, RowsOf DEF Records!Prepared
  <2>3. Records(c)!MayOpen(post)
    BY <1>1, <1>7, <2>1 DEF Records!MayOpen, Given
  <2>4. Records(c)!Prepare(post, open)
    BY <1>5, <2>1, <2>2, <2>3 DEF Records!Prepare
  <2>5. post \in Records(c)!Posts /\ open \in SUBSET Records(c)!Posts
    BY <1>4, RowsOf
  <2> QED
    BY <2>4, <2>5 DEF Records!RecordsNext
<1> QED
  BY <1>6, <1>7

LEMMA DecisionIsShown ==
  ASSUME TypeOK, [Decisions!DecisionNext]_(Decisions!decisionVars), NEW c \in Calendars
  PROVE  [Records(c)!RecordsNext]_<<ShownRows(c), Given(c)>>
<1>1. CASE UNCHANGED Decisions!decisionVars
  <2>1. ShownRows(c)' = ShownRows(c) /\ Given(c)' = Given(c)
    BY <1>1 DEF Decisions!decisionVars, ShownRows, Created, Given
  <2> QED
    BY <2>1
<1>2. ASSUME NEW d \in Calendars, NEW verdict \in {"approved", "rejected"}, Decisions!DecideCalendar(d, verdict)
      PROVE  [Records(c)!RecordsNext]_<<ShownRows(c), Given(c)>>
  BY <1>2, StrategyDecided DEF Decisions!DecideCalendar
<1>3. ASSUME NEW p \in Decisions!Ids, NEW verdict \in {"approved", "rejected"}, Decisions!DecidePackage(p, verdict)
      PROVE  [Records(c)!RecordsNext]_<<ShownRows(c), Given(c)>>
  <2>1. p \in Created
    BY DEF Decisions!Ids, Created
  <2> QED
    BY <1>3, <2>1, PostDecided DEF Decisions!DecidePackage
<1>4. ASSUME NEW d \in Calendars, strategy[d] \in {"pending", "approved"},
             strategy' = [strategy EXCEPT ![d] = "invalidated"], UNCHANGED <<posts, everApproved>>
      PROVE  [Records(c)!RecordsNext]_<<ShownRows(c), Given(c)>>
  BY <1>4, StrategyDecided
<1>5. ASSUME NEW p \in Decisions!Ids, posts[p].status \in {"pending", "approved"},
             posts' = Decisions!Marked({p}, "invalidated"), UNCHANGED <<strategy, everApproved>>
      PROVE  [Records(c)!RecordsNext]_<<ShownRows(c), Given(c)>>
  <2>1. p \in Created
    BY DEF Decisions!Ids, Created
  <2> QED
    BY <1>5, <2>1, PostDecided
<1>6. CASE Decisions!Revise
  BY <1>4, <1>5, <1>6 DEF Decisions!Revise
<1> QED
  BY <1>1, <1>2, <1>3, <1>6, StrategySubmitted, PostPrepared DEF Decisions!DecisionNext

(* Whatever the sessions do, the rows a reader of a calendar sees change   *)
(* one step of ApprovalRecords at a time: what TenantDesk expects of other *)
(* members and of the database is all that can happen to it.               *)
THEOREM GateKeepsTheRecords == Spec => ReadersSeeOneApproval
<1> SUFFICES ASSUME NEW c \in Calendars PROVE Spec => Records(c)!RecordsSpec
  BY DEF ReadersSeeOneApproval
<1>1. Init => Records(c)!RecordsInit
  <2> SUFFICES ASSUME Init PROVE Records(c)!RecordsInit
    OBVIOUS
  <2>1. strategy[c] = None /\ Created = {} /\ ~ Given(c)
    BY DEF Init, Created, Given
  <2>2. \A r \in 0 .. MaxPosts : ShownRows(c)[r] = "none"
    BY <2>1, NoneIsNoStatus DEF ShownRows, Shown, Statuses
  <2>3. ShownRows(c) = [r \in 0 .. MaxPosts |-> "none"]
    BY <2>2 DEF ShownRows
  <2> QED
    BY <2>1, <2>3, RowsOf DEF Records!RecordsInit
<1>2. IInv /\ [Next]_vars => [Records(c)!RecordsNext]_<<ShownRows(c), Given(c)>>
  BY NextDecides, DecisionIsShown DEF IInv
<1> QED
  BY <1>1, <1>2, Invariance, PTL DEF Spec, Records!RecordsSpec
=============================================================================
