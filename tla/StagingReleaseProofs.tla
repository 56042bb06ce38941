------------------------- MODULE StagingReleaseProofs -------------------------
(***************************************************************************)
(* Proofs about StagingRelease for every set of deployments and commits.   *)
(* The lock makes the jobs of the activation script one sequential program *)
(* that may stop anywhere; the invariant says, for each place it can stop, *)
(* what the host looks like and what the script remembers of it.           *)
(***************************************************************************)
EXTENDS StagingRelease, TLAPS

Job == [phase : Phases, sha : Shas, previous : Shas \cup {NoLink}, had : Configurations]

\* The places at which a job holds the lock, and those at which it has looked.
Working == Activating \cup RollingBack
Looked == Working \ {"locked"}

\* Only the holder of the lock is at work.
LockInv == \A j \in Jobs : job[j].phase \in Working => lock = j

\* Nothing refers to a release that is not there.
DiskInv ==
  /\ \A sha \in Shas : disk[sha] # "partial"
  /\ link # NoLink => disk[link] = "complete"
  /\ \A j \in Jobs :
       /\ job[j].phase \in {"installed"} \cup Working => disk[job[j].sha] = "complete"
       /\ job[j].phase \in Looked /\ job[j].previous # NoLink => disk[job[j].previous] = "complete"

\* What the host looks like at each place of the script.
PlaceInv(j) ==
  /\ job[j].phase \in Looked =>
       /\ (job[j].had = "managed") <=> (job[j].previous # NoLink)
       /\ job[j].had = "managed" => dropin = "managed"
       /\ activated => job[j].had = "managed"
       /\ link \in {job[j].previous, job[j].sha}
  /\ At(j, "inspected") => link = job[j].previous /\ dropin = job[j].had
  /\ At(j, "switching") => dropin = "managed"
  /\ At(j, "switched") => dropin = "managed" /\ link = job[j].sha
  /\ At(j, "restarted") => /\ dropin = "managed" /\ link = job[j].sha
                           /\ unit = "managed" /\ serving = job[j].sha
  /\ At(j, "unlinked") => job[j].previous = NoLink
  /\ At(j, "restoring") /\ job[j].previous # NoLink => link = job[j].previous /\ dropin = job[j].had

IInv ==
  /\ TypeOK
  /\ LockInv
  /\ DiskInv
  /\ \A j \in Jobs : PlaceInv(j)
  /\ NeverWedgedAgain

-----------------------------------------------------------------------------
(* A step moves one job and leaves its operands alone.                     *)
LEMMA GoToFacts ==
  ASSUME TypeOK, NEW j \in Jobs, NEW phase \in Phases, GoTo(j, phase)
  PROVE  /\ job' \in [Jobs -> Job]
         /\ job'[j].phase = phase /\ job'[j].sha = job[j].sha
         /\ job'[j].previous = job[j].previous /\ job'[j].had = job[j].had
         /\ \A k \in Jobs : k # j => job'[k] = job[k]
<1>1. job \in [Jobs -> Job] /\ job[j] \in Job
  BY DEF TypeOK, Job
<1>2. job' = [job EXCEPT ![j] = [job[j] EXCEPT !.phase = phase]]
  BY DEF GoTo
<1>3. [job[j] EXCEPT !.phase = phase] \in Job
  BY <1>1 DEF Job
<1> QED
  BY <1>1, <1>2, <1>3 DEF Job

LEMMA PhaseSets ==
  /\ Working \subseteq Phases /\ Ended \subseteq Phases /\ Receiving \subseteq Phases
  /\ Ended \cap Working = {} /\ Receiving \cap Working = {} /\ Looked \subseteq Working
BY DEF Working, Looked, Phases, Receiving, Activating, RollingBack, Ended

LEMMA NobodyIsNoJob == \A j \in Jobs : j # Nobody
BY StagingReleaseAssumption

(* A job that moves to a place where it is not at work.                    *)
LEMMA LeaveIInv ==
  ASSUME IInv, NEW j \in Jobs, NEW phase \in {"extracting", "extracted", "renaming"} \cup Ended,
         GoTo(j, phase), lock' = lock \/ lock' = IF lock = j THEN Nobody ELSE lock,
         UNCHANGED <<disk, link, dropin>>,
         unit' \in Configurations, serving' \in Shas \cup {"legacy", "down"}, activated' \in BOOLEAN,
         \/ UNCHANGED <<unit, serving, activated>>
         \/ /\ \A k \in Jobs : k # j => job[k].phase \notin Working
            /\ NeverWedgedAgain'
  PROVE  IInv'
<1>1. phase \in Phases /\ phase \notin Working /\ phase \notin {"installed"} /\ phase \notin Looked
  BY DEF Ended, Phases, Receiving, Working, Looked, Activating, RollingBack
<1>2. /\ job' \in [Jobs -> Job] /\ job'[j].phase = phase
      /\ \A k \in Jobs : k # j => job'[k] = job[k]
  BY <1>1, GoToFacts DEF IInv
<1>3. TypeOK'
  BY <1>2 DEF IInv, TypeOK, Job
<1>4. LockInv'
  BY <1>1, <1>2 DEF IInv, LockInv
<1>5. DiskInv'
  BY <1>1, <1>2 DEF IInv, DiskInv
<1>6. ASSUME NEW k \in Jobs PROVE PlaceInv(k)'
  <2>1. CASE k = j
    BY <2>1, <1>1, <1>2 DEF PlaceInv, At, Working, Looked, Activating, RollingBack
  <2>2. CASE k # j
    <3>1. PlaceInv(k) /\ job'[k] = job[k]
      BY <2>2, <1>2 DEF IInv
    <3>2. CASE UNCHANGED <<unit, serving, activated>>
      BY <2>2, <3>1, <3>2 DEF PlaceInv, At
    <3>3. CASE job[k].phase \notin Working
      BY <3>1, <3>3 DEF PlaceInv, At, Working, Looked, Activating, RollingBack
    <3> QED
      BY <2>2, <3>2, <3>3
  <2> QED
    BY <2>1, <2>2
<1>7. NeverWedgedAgain'
  BY DEF IInv, NeverWedgedAgain
<1> QED
  BY <1>3, <1>4, <1>5, <1>6, <1>7 DEF IInv

(* A step of the job that holds the lock: nobody else is at work, so it    *)
(* has to account for its own place only.                                  *)
LEMMA WorkIInv ==
  ASSUME IInv, TypeOK', NEW j \in Jobs, lock' = j,
         \A k \in Jobs : k # j => job'[k] = job[k],
         \A k \in Jobs : k # j => job[k].phase \notin Working,
         \A sha \in Shas : disk[sha] = "complete" => disk'[sha] = "complete",
         \A sha \in Shas : disk'[sha] # "partial",
         link' # NoLink => disk'[link'] = "complete",
         disk'[job'[j].sha] = "complete",
         job'[j].phase \in Looked /\ job'[j].previous # NoLink => disk'[job'[j].previous] = "complete",
         PlaceInv(j)', NeverWedgedAgain'
  PROVE  IInv'
<1>1. LockInv'
  BY DEF IInv, LockInv
<1>2. DiskInv'
  BY PhaseSets DEF IInv, DiskInv, TypeOK
<1>3. ASSUME NEW k \in Jobs PROVE PlaceInv(k)'
  <2>1. CASE k # j
    <3>1. job'[k] = job[k] /\ job[k].phase \notin Working
      BY <2>1
    <3> QED
      BY <3>1 DEF PlaceInv, At, Working, Looked, Activating, RollingBack
  <2> QED
    BY <2>1
<1> QED
  BY <1>1, <1>2, <1>3 DEF IInv

(* A job at work holds the lock, alone.                                    *)
LEMMA Alone ==
  ASSUME IInv, NEW j \in Jobs, job[j].phase \in Working
  PROVE  lock = j /\ \A k \in Jobs : k # j => job[k].phase \notin Working
BY DEF IInv, LockInv

LEMMA EndIInv ==
  ASSUME IInv, NEW j \in Jobs, NEW phase \in Ended, End(j, phase), UNCHANGED <<host, disk>>
  PROVE  IInv'
BY LeaveIInv DEF End, host, IInv, TypeOK

\* Going on, with nothing of the host changed.
LEMMA GoOnIInv ==
  ASSUME IInv, NEW j \in Jobs, job[j].phase \in Looked, NEW phase \in Looked, GoTo(j, phase),
         UNCHANGED <<host, disk, lock>>, PlaceInv(j)'
  PROVE  IInv'
<1>1. phase \in Phases /\ job[j].phase \in Working
  BY PhaseSets
<1>2. /\ job' \in [Jobs -> Job] /\ job'[j].phase = phase /\ job'[j].sha = job[j].sha
      /\ job'[j].previous = job[j].previous
      /\ \A k \in Jobs : k # j => job'[k] = job[k]
  BY <1>1, GoToFacts DEF IInv
<1>3. lock' = j /\ \A k \in Jobs : k # j => job[k].phase \notin Working
  BY <1>1, Alone
<1>4. UNCHANGED <<disk, link, dropin, unit, serving, activated>>
  BY DEF host
<1>5. TypeOK' /\ NeverWedgedAgain'
  BY <1>2, <1>3, <1>4 DEF IInv, TypeOK, NeverWedgedAgain, Job
<1>6. /\ \A sha \in Shas : disk'[sha] # "partial"
      /\ link' # NoLink => disk'[link'] = "complete"
      /\ disk'[job'[j].sha] = "complete"
      /\ job'[j].previous # NoLink => disk'[job'[j].previous] = "complete"
  BY <1>1, <1>2, <1>4 DEF IInv, DiskInv
<1> QED
  BY <1>2, <1>3, <1>4, <1>5, <1>6, WorkIInv

\* Any place of the script may give way to the rollback.
LEMMA ToRollbackIInv ==
  ASSUME IInv, NEW j \in Jobs, job[j].phase \in Looked, GoTo(j, "rollback"),
         UNCHANGED <<host, disk, lock>>
  PROVE  IInv'
<1>1. "rollback" \in Looked /\ "rollback" \in Phases
  BY DEF Looked, Working, RollingBack, Activating, Phases
<1>2. /\ job'[j].phase = "rollback" /\ job'[j].previous = job[j].previous /\ job'[j].had = job[j].had
      /\ job'[j].sha = job[j].sha
      /\ PlaceInv(j)
  BY <1>1, GoToFacts DEF IInv
<1>3. PlaceInv(j)'
  BY <1>1, <1>2 DEF PlaceInv, At, host
<1> QED
  BY <1>1, <1>3, GoOnIInv

-----------------------------------------------------------------------------
(* The receiver.                                                           *)
LEMMA ReceiverIInv ==
  ASSUME IInv, NEW j \in Jobs, Receive(j) \/ Extract(j) \/ Look(j) \/ Rename(j)
  PROVE  IInv'
<1>1. job[j].phase \notin Working /\ job[j].phase # "installed"
  BY DEF Receive, Extract, Look, Rename, At, Working, Activating, RollingBack
<1>2. UNCHANGED <<link, dropin, unit, serving, activated, lock>>
  BY DEF Receive, Extract, Look, Rename, host
<1>3. PICK phase \in {"extracting", "extracted", "refused", "renaming", "installed"} : GoTo(j, phase)
  BY DEF Receive, Extract, Look, Rename
<1>4. phase \in Phases /\ phase \notin Working
  BY DEF Phases, Receiving, Ended, Working, Activating, RollingBack
<1>5. /\ job' \in [Jobs -> Job] /\ job'[j].phase = phase /\ job'[j].sha = job[j].sha
      /\ \A k \in Jobs : k # j => job'[k] = job[k]
  BY <1>3, <1>4, GoToFacts DEF IInv
<1>6. job \in [Jobs -> Job] /\ disk \in [Shas -> {"absent", "partial", "complete"}]
      /\ link \in Shas \cup {NoLink}
  BY DEF IInv, TypeOK, Job
<1>7. \A k \in Jobs : job[k].sha \in Shas /\ job[k].previous \in Shas \cup {NoLink}
  BY <1>6 DEF Job
<1>8. /\ disk' \in [Shas -> {"absent", "partial", "complete"}]
      /\ \A sha \in Shas : disk[sha] = "complete" => disk'[sha] = "complete"
      /\ \A sha \in Shas : disk'[sha] \in {disk[sha], "complete"}
  BY <1>6, <1>7 DEF Receive, Extract, Look, Rename
<1>9. job'[j].phase = "installed" => disk'[job[j].sha] = "complete"
  <2>1. \A sha \in Shas : disk[sha] \in {"absent", "complete"}
    BY <1>6 DEF IInv, DiskInv
  <2>2. CASE Look(j)
    <3>1. disk' = disk /\ (disk[job[j].sha] = "absent" => job'[j].phase = "renaming")
      BY <2>2, <1>6, GoToFacts DEF Look, IInv, Phases, Receiving
    <3> QED
      BY <3>1, <2>1, <1>7
  <2>3. CASE Rename(j)
    <3>1. \/ GoTo(j, "refused")
          \/ disk' = [disk EXCEPT ![job[j].sha] = "complete"]
      BY <2>3 DEF Rename
    <3>2. GoTo(j, "refused") => job'[j].phase = "refused"
      BY GoToFacts DEF IInv, Phases, Ended
    <3> QED
      BY <3>1, <3>2, <1>6, <1>7
  <2>4. CASE Receive(j) \/ Extract(j)
    <3>1. \E other \in {"extracting", "extracted", "refused"} : GoTo(j, other)
      BY <2>4 DEF Receive, Extract
    <3>2. job'[j].phase # "installed"
      BY <3>1, GoToFacts DEF IInv, Phases, Receiving, Ended
    <3> QED
      BY <3>2
  <2> QED
    BY <2>2, <2>3, <2>4
<1>10. TypeOK'
  BY <1>2, <1>5, <1>8 DEF IInv, TypeOK, Job
<1>11. LockInv'
  BY <1>2, <1>4, <1>5 DEF IInv, LockInv
<1>12. DiskInv'
  <2>1. (\A sha \in Shas : disk'[sha] # "partial") /\ (link' # NoLink => disk'[link'] = "complete")
    BY <1>2, <1>6, <1>8 DEF IInv, DiskInv
  <2>2. ASSUME NEW k \in Jobs
        PROVE  /\ job'[k].phase \in {"installed"} \cup Working => disk'[job'[k].sha] = "complete"
               /\ job'[k].phase \in Looked /\ job'[k].previous # NoLink =>
                    disk'[job'[k].previous] = "complete"
    <3>1. CASE k = j
      BY <3>1, <1>4, <1>5, <1>9, PhaseSets
    <3>2. CASE k # j
      BY <3>2, <1>5, <1>7, <1>8 DEF IInv, DiskInv
    <3> QED
      BY <3>1, <3>2
  <2> QED
    BY <2>1, <2>2 DEF DiskInv
<1>13. ASSUME NEW k \in Jobs PROVE PlaceInv(k)'
  <2>1. CASE k = j
    BY <2>1, <1>4, <1>5 DEF PlaceInv, At, Working, Looked, Activating, RollingBack
  <2>2. CASE k # j
    <3>1. PlaceInv(k) /\ job'[k] = job[k]
      BY <2>2, <1>5 DEF IInv
    <3> QED
      BY <3>1, <1>2 DEF PlaceInv, At
  <2> QED
    BY <2>1, <2>2
<1>14. NeverWedgedAgain'
  BY <1>2 DEF IInv, NeverWedgedAgain
<1> QED
  BY <1>10, <1>11, <1>12, <1>13, <1>14 DEF IInv

-----------------------------------------------------------------------------
(* The activation script.                                                  *)
LEMMA LockIInv ==
  ASSUME IInv, NEW j \in Jobs, Lock(j)
  PROVE  IInv'
<1>1. At(j, "installed") /\ UNCHANGED <<disk, link, dropin, unit, serving, activated>>
  BY DEF Lock, host
<1>2. CASE lock = Nobody
  <2>1. lock' = j /\ GoTo(j, "locked")
    BY <1>2 DEF Lock
  <2>2. /\ job' \in [Jobs -> Job] /\ job'[j].phase = "locked" /\ job'[j].sha = job[j].sha
        /\ \A k \in Jobs : k # j => job'[k] = job[k]
    BY <2>1, GoToFacts DEF IInv, Phases, Activating
  <2>3. \A k \in Jobs : job[k].phase \notin Working
    BY <1>2, NobodyIsNoJob DEF IInv, LockInv
  <2>4. TypeOK' /\ NeverWedgedAgain'
    BY <1>1, <2>1, <2>2 DEF IInv, TypeOK, Job, NeverWedgedAgain
  <2>5. PlaceInv(j)'
    BY <2>2 DEF PlaceInv, At, Looked, Working
  <2>6. /\ \A sha \in Shas : disk'[sha] # "partial"
        /\ link' # NoLink => disk'[link'] = "complete"
        /\ disk'[job'[j].sha] = "complete"
    BY <1>1, <2>2 DEF IInv, DiskInv, At
  <2>7. job'[j].phase \notin Looked
    BY <2>2 DEF Looked
  <2> QED
    BY <1>1, <2>1, <2>2, <2>3, <2>4, <2>5, <2>6, <2>7, WorkIInv
<1>3. CASE lock # Nobody
  <2>1. lock' = lock /\ GoTo(j, "refused") /\ "refused" \in Ended
    BY <1>3 DEF Lock, Ended
  <2>2. unit \in Configurations /\ serving \in Shas \cup {"legacy", "down"} /\ activated \in BOOLEAN
    BY DEF IInv, TypeOK
  <2> QED
    BY <1>1, <2>1, <2>2, LeaveIInv
<1> QED
  BY <1>2, <1>3

LEMMA InspectIInv ==
  ASSUME IInv, NEW j \in Jobs, Inspect(j)
  PROVE  IInv'
<1>1. /\ job[j].phase = "locked" /\ job[j].phase \in Working
      /\ UNCHANGED <<disk, link, dropin, unit, serving, activated>>
  BY DEF Inspect, At, host, Working, Activating
<1>2. CASE End(j, "refused")
  BY <1>1, <1>2, EndIInv DEF Ended, host
<1>3. CASE /\ (dropin = "managed") <=> (link # NoLink)
           /\ job' = [job EXCEPT ![j].phase = "inspected", ![j].previous = link, ![j].had = dropin]
           /\ UNCHANGED lock
  <2>1. job \in [Jobs -> Job] /\ job[j] \in Job
    BY DEF IInv, TypeOK, Job
  <2>2. job' = [job EXCEPT ![j] = [job[j] EXCEPT !.phase = "inspected", !.previous = link, !.had = dropin]]
    BY <1>3, <2>1
  <2>3. [job[j] EXCEPT !.phase = "inspected", !.previous = link, !.had = dropin] \in Job
    BY <2>1 DEF Job, IInv, TypeOK, Phases, Activating
  <2>4. /\ job' \in [Jobs -> Job] /\ job'[j].phase = "inspected" /\ job'[j].sha = job[j].sha
        /\ job'[j].previous = link /\ job'[j].had = dropin
        /\ \A k \in Jobs : k # j => job'[k] = job[k]
    BY <2>1, <2>2, <2>3 DEF Job
  <2>5. lock' = j /\ \A k \in Jobs : k # j => job[k].phase \notin Working
    BY <1>1, <1>3, Alone
  <2>6. TypeOK' /\ NeverWedgedAgain'
    BY <1>1, <2>4, <2>5 DEF IInv, TypeOK, Job, NeverWedgedAgain
  <2>7. PlaceInv(j)'
    BY <1>1, <1>3, <2>4 DEF PlaceInv, At, IInv, NeverWedgedAgain
  <2>8. /\ \A sha \in Shas : disk'[sha] # "partial"
        /\ link' # NoLink => disk'[link'] = "complete"
        /\ disk'[job'[j].sha] = "complete"
        /\ job'[j].previous # NoLink => disk'[job'[j].previous] = "complete"
    BY <1>1, <2>4 DEF IInv, DiskInv
  <2> QED
    BY <1>1, <2>4, <2>5, <2>6, <2>7, <2>8, WorkIInv
<1> QED
  BY <1>2, <1>3 DEF Inspect

\* The steps of the script that change the host.
LEMMA ChangeIInv ==
  ASSUME IInv, NEW j \in Jobs, job[j].phase \in Looked, NEW phase \in Looked, GoTo(j, phase),
         UNCHANGED <<disk, lock, activated>>,
         link' \in {link, job[j].sha, job[j].previous},
         dropin' \in Configurations, unit' \in Configurations, serving' \in Shas \cup {"legacy", "down"},
         PlaceInv(j)', NeverWedgedAgain'
  PROVE  IInv'
<1>1. phase \in Phases /\ job[j].phase \in Working
  BY PhaseSets
<1>2. /\ job' \in [Jobs -> Job] /\ job'[j].phase = phase /\ job'[j].sha = job[j].sha
      /\ job'[j].previous = job[j].previous
      /\ \A k \in Jobs : k # j => job'[k] = job[k]
  BY <1>1, GoToFacts DEF IInv
<1>3. lock' = j /\ \A k \in Jobs : k # j => job[k].phase \notin Working
  BY <1>1, Alone
<1>4. job[j] \in Job
  BY DEF IInv, TypeOK, Job
<1>5. TypeOK'
  BY <1>2, <1>3, <1>4 DEF IInv, TypeOK, Job
<1>6. /\ \A sha \in Shas : disk'[sha] # "partial"
      /\ link' # NoLink => disk'[link'] = "complete"
      /\ disk'[job'[j].sha] = "complete"
      /\ job'[j].previous # NoLink => disk'[job'[j].previous] = "complete"
  BY <1>1, <1>2 DEF IInv, DiskInv
<1> QED
  BY <1>2, <1>3, <1>5, <1>6, WorkIInv

LEMMA WriteDropinIInv ==
  ASSUME IInv, NEW j \in Jobs, WriteDropin(j)
  PROVE  IInv'
<1>1. /\ job[j].phase = "inspected" /\ job[j].had = "legacy" /\ dropin' = "managed"
      /\ GoTo(j, "switching")
      /\ UNCHANGED <<disk, link, unit, serving, lock, activated>>
  BY DEF WriteDropin, At
<1>2. job[j].phase \in Looked /\ "switching" \in Looked /\ "switching" \in Phases
  BY <1>1 DEF Looked, Working, Activating, Phases
<1>3. /\ job'[j].phase = "switching" /\ job'[j].previous = job[j].previous /\ job'[j].had = job[j].had
      /\ job'[j].sha = job[j].sha
  BY <1>1, <1>2, GoToFacts DEF IInv
<1>4. PlaceInv(j)'
  BY <1>1, <1>2, <1>3 DEF PlaceInv, At, IInv
<1>5. NeverWedgedAgain' /\ TypeOK
  BY <1>1 DEF NeverWedgedAgain, IInv
<1> QED
  BY <1>1, <1>2, <1>4, <1>5, ChangeIInv DEF Configurations, TypeOK

LEMMA SwitchIInv ==
  ASSUME IInv, NEW j \in Jobs, Switch(j)
  PROVE  IInv'
<1>1. /\ job[j].phase = "switching" \/ (job[j].phase = "inspected" /\ job[j].had = "managed")
      /\ link' = job[j].sha /\ GoTo(j, "switched")
      /\ UNCHANGED <<disk, dropin, unit, serving, lock, activated>>
  BY DEF Switch, CanSwitch, At
<1>2. job[j].phase \in Looked /\ "switched" \in Looked /\ "switched" \in Phases
  BY <1>1 DEF Looked, Working, Activating, Phases
<1>3. /\ job'[j].phase = "switched" /\ job'[j].previous = job[j].previous /\ job'[j].had = job[j].had
      /\ job'[j].sha = job[j].sha /\ job[j].sha \in Shas
  BY <1>1, <1>2, GoToFacts DEF IInv, TypeOK
<1>4. PlaceInv(j)'
  BY <1>1, <1>2, <1>3 DEF PlaceInv, At, IInv
<1>5. NeverWedgedAgain' /\ TypeOK
  BY <1>1, <1>3, StagingReleaseAssumption DEF NeverWedgedAgain, IInv
<1> QED
  BY <1>1, <1>2, <1>4, <1>5, ChangeIInv DEF TypeOK

\* What a service can be started from is a commit, the old checkout, or nothing.
LEMMA RunByFacts ==
  ASSUME TypeOK, NEW u \in Configurations
  PROVE  /\ RunBy(u) \in Shas \cup {"legacy", "down"}
         /\ u = "managed" /\ link # NoLink => RunBy(u) = link
BY DEF RunBy, TypeOK, Configurations

LEMMA RestartIInv ==
  ASSUME IInv, NEW j \in Jobs, Restart(j)
  PROVE  IInv'
<1>1. job[j].phase = "switched" /\ UNCHANGED <<disk, link, dropin, lock, activated>>
  BY DEF Restart, At
<1>2. /\ job[j].phase \in Looked
      /\ "restarted" \in Looked /\ "restarted" \in Phases /\ "rollback" \in Looked /\ "rollback" \in Phases
  BY <1>1 DEF Looked, Working, Activating, RollingBack, Phases
<1>3. PlaceInv(j) /\ TypeOK /\ NeverWedgedAgain'
  BY <1>1 DEF IInv, NeverWedgedAgain
<1>4. CASE unit' = dropin /\ serving' = RunBy(unit') /\ GoTo(j, "restarted")
  <2>1. /\ job'[j].phase = "restarted" /\ job'[j].previous = job[j].previous /\ job'[j].had = job[j].had
        /\ job'[j].sha = job[j].sha
    BY <1>2, <1>3, <1>4, GoToFacts
  <2>2. dropin = "managed" /\ link = job[j].sha /\ job[j].sha \in Shas /\ link # NoLink
    BY <1>1, <1>3, StagingReleaseAssumption DEF PlaceInv, At, TypeOK
  <2>3. unit' = "managed" /\ unit' \in Configurations
    BY <1>4, <2>2 DEF Configurations
  <2>4. serving' = link
    BY <1>3, <1>4, <2>2, <2>3, RunByFacts
  <2>5. PlaceInv(j)'
    BY <1>1, <1>2, <1>3, <2>1, <2>2, <2>3, <2>4 DEF PlaceInv, At
  <2> QED
    BY <1>1, <1>2, <1>3, <1>4, <2>2, <2>3, <2>4, <2>5, ChangeIInv DEF TypeOK
<1>5. CASE RestartFails /\ GoTo(j, "rollback")
  <2>1. /\ job'[j].phase = "rollback" /\ job'[j].previous = job[j].previous /\ job'[j].had = job[j].had
        /\ job'[j].sha = job[j].sha
    BY <1>2, <1>3, <1>5, GoToFacts
  <2>2. PlaceInv(j)'
    BY <1>1, <1>2, <1>3, <2>1 DEF PlaceInv, At
  <2>3. unit' \in Configurations /\ serving' \in Shas \cup {"legacy", "down"}
    BY <1>3, <1>5 DEF RestartFails, TypeOK
  <2> QED
    BY <1>1, <1>2, <1>3, <1>5, <2>2, <2>3, ChangeIInv DEF TypeOK
<1> QED
  BY <1>4, <1>5 DEF Restart

LEMMA CheckIInv ==
  ASSUME IInv, NEW j \in Jobs, Check(j)
  PROVE  IInv'
<1>1. job[j].phase = "restarted" /\ UNCHANGED <<disk, link, dropin, unit, serving>>
  BY DEF Check, At
<1>2. job[j].phase \in Looked /\ job[j].phase \in Working
  BY <1>1 DEF Looked, Working, Activating
<1>3. CASE End(j, "done") /\ activated' = TRUE
  <2>1. link = job[j].sha /\ dropin = "managed" /\ link # NoLink
    BY <1>1, StagingReleaseAssumption DEF IInv, PlaceInv, At, TypeOK
  <2>2. NeverWedgedAgain'
    BY <1>1, <2>1 DEF NeverWedgedAgain
  <2>3. \A k \in Jobs : k # j => job[k].phase \notin Working
    BY <1>2, Alone
  <2>4. unit' \in Configurations /\ serving' \in Shas \cup {"legacy", "down"} /\ activated' \in BOOLEAN
    BY <1>1, <1>3 DEF IInv, TypeOK
  <2>5. "done" \in Ended
    BY DEF Ended
  <2> QED
    BY <1>1, <1>3, <2>2, <2>3, <2>4, <2>5, LeaveIInv DEF End
<1>4. CASE GoTo(j, "rollback") /\ UNCHANGED <<lock, activated>>
  BY <1>1, <1>2, <1>4, ToRollbackIInv DEF host
<1> QED
  BY <1>3, <1>4 DEF Check

LEMMA StepFailsIInv ==
  ASSUME IInv, NEW j \in Jobs, StepFails(j)
  PROVE  IInv'
<1>1. job[j].phase \in Looked /\ UNCHANGED <<host, disk>>
  BY DEF StepFails, Looked, Working, Activating
<1>2. CASE End(j, "refused")
  BY <1>1, <1>2, EndIInv DEF Ended
<1>3. CASE GoTo(j, "rollback") /\ UNCHANGED lock
  BY <1>1, <1>3, ToRollbackIInv
<1> QED
  BY <1>2, <1>3 DEF StepFails

-----------------------------------------------------------------------------
(* The rollback.                                                           *)
LEMMA RollbackLinkIInv ==
  ASSUME IInv, NEW j \in Jobs, RollbackLink(j)
  PROVE  IInv'
<1>1. job[j].phase = "rollback" /\ UNCHANGED <<disk, dropin, unit, serving, activated>>
  BY DEF RollbackLink, At
<1>2. /\ job[j].phase \in Looked
      /\ "unlinked" \in Looked /\ "unlinked" \in Phases /\ "restoring" \in Looked /\ "restoring" \in Phases
  BY <1>1 DEF Looked, Working, RollingBack, Activating, Phases
<1>3. PlaceInv(j) /\ TypeOK
  BY DEF IInv
<1>4. CASE UNCHANGED link /\ End(j, "critical")
  BY <1>1, <1>4, EndIInv DEF Ended, host
<1>5. ASSUME NEW phase \in {"unlinked", "restoring"}, GoTo(j, phase), UNCHANGED lock,
             link' \in {link, job[j].previous},
             phase = "unlinked" => job[j].previous = NoLink,
             job[j].previous # NoLink => link' = job[j].previous
      PROVE  IInv'
  <2>1. phase \in Looked /\ phase \in Phases
    BY <1>2
  <2>2. /\ job'[j].phase = phase /\ job'[j].previous = job[j].previous /\ job'[j].had = job[j].had
        /\ job'[j].sha = job[j].sha
    BY <1>3, <1>5, <2>1, GoToFacts
  <2>3. job[j].had \in Configurations /\ dropin \in Configurations /\ unit \in Configurations
        /\ serving \in Shas \cup {"legacy", "down"}
    BY <1>3 DEF TypeOK
  <2>4. activated => job[j].previous # NoLink
    BY <1>2, <1>3 DEF PlaceInv
  <2>5. NeverWedgedAgain'
    BY <1>1, <1>5, <2>4 DEF IInv, NeverWedgedAgain
  <2>6. PlaceInv(j)'
    BY <1>1, <1>2, <1>3, <1>5, <2>2, <2>3 DEF PlaceInv, At, Configurations
  <2> QED
    BY <1>1, <1>2, <1>5, <2>1, <2>3, <2>5, <2>6, ChangeIInv
<1> QED
  BY <1>4, <1>5 DEF RollbackLink

LEMMA RollbackDropinIInv ==
  ASSUME IInv, NEW j \in Jobs, RollbackDropin(j)
  PROVE  IInv'
<1>1. /\ job[j].phase = "unlinked" /\ dropin' \in {dropin, job[j].had} /\ GoTo(j, "restoring")
      /\ UNCHANGED <<disk, link, unit, serving, lock, activated>>
  BY DEF RollbackDropin, At
<1>2. job[j].phase \in Looked /\ "restoring" \in Looked /\ "restoring" \in Phases
  BY <1>1 DEF Looked, Working, RollingBack, Activating, Phases
<1>3. PlaceInv(j) /\ TypeOK
  BY DEF IInv
<1>4. /\ job'[j].phase = "restoring" /\ job'[j].previous = job[j].previous /\ job'[j].had = job[j].had
      /\ job'[j].sha = job[j].sha
  BY <1>1, <1>2, <1>3, GoToFacts
<1>5. dropin \in Configurations /\ job[j].had \in Configurations
  BY <1>3 DEF TypeOK
<1>6. ~ activated
  BY <1>1, <1>2, <1>3 DEF PlaceInv, At
<1>7. NeverWedgedAgain'
  BY <1>1, <1>6 DEF NeverWedgedAgain
<1>8. PlaceInv(j)'
  BY <1>1, <1>2, <1>3, <1>4 DEF PlaceInv, At
<1> QED
  BY <1>1, <1>2, <1>3, <1>5, <1>7, <1>8, ChangeIInv DEF TypeOK

LEMMA RollbackRestartIInv ==
  ASSUME IInv, NEW j \in Jobs, RollbackRestart(j)
  PROVE  IInv'
<1>1. job[j].phase \in Working /\ UNCHANGED <<disk, link, dropin, activated>>
  BY DEF RollbackRestart, At, Working, RollingBack
<1>2. PICK phase \in {"failed", "critical"} : End(j, phase)
  BY DEF RollbackRestart
<1>3. unit' \in Configurations
  BY DEF RollbackRestart, RestartFails, IInv, TypeOK
<1>4. serving' \in Shas \cup {"legacy", "down"} /\ activated' \in BOOLEAN
  BY <1>1, <1>3, RunByFacts DEF RollbackRestart, RestartFails, IInv, TypeOK
<1>5. NeverWedgedAgain'
  BY <1>1 DEF IInv, NeverWedgedAgain
<1>6. \A k \in Jobs : k # j => job[k].phase \notin Working
  BY <1>1, Alone
<1>7. phase \in Ended
  BY DEF Ended
<1> QED
  BY <1>1, <1>2, <1>3, <1>4, <1>5, <1>6, <1>7, LeaveIInv DEF End

-----------------------------------------------------------------------------
(* Signals, kills and reboots.                                             *)
LEMMA InterruptIInv ==
  ASSUME IInv, NEW j \in Jobs, Signal(j) \/ Kill(j)
  PROVE  IInv'
<1>1. UNCHANGED <<host, disk>> /\ "killed" \in Ended /\ "refused" \in Ended
  BY DEF Signal, Kill, Ended
<1>2. CASE End(j, "killed") \/ End(j, "refused")
  BY <1>1, <1>2, EndIInv
<1>3. CASE job[j].phase \in Activating \ {"locked"} /\ GoTo(j, "rollback") /\ UNCHANGED lock
  <2>1. job[j].phase \in Looked
    BY <1>3 DEF Looked, Working
  <2> QED
    BY <1>1, <1>3, <2>1, ToRollbackIInv
<1> QED
  BY <1>2, <1>3 DEF Signal, Kill

LEMMA RebootIInv ==
  ASSUME IInv, Reboot
  PROVE  IInv'
<1>1. /\ lock' = Nobody /\ unit' = dropin /\ serving' = RunBy(dropin)
      /\ UNCHANGED <<disk, link, dropin, activated>>
  BY DEF Reboot
<1>2. job \in [Jobs -> Job]
  BY DEF IInv, TypeOK, Job
<1>3. ASSUME NEW j \in Jobs
      PROVE  /\ job'[j] \in Job /\ job'[j].phase \in Ended \cup {"waiting"}
  <2>1. job[j] \in Job
    BY <1>2
  <2>2. job'[j] = IF job[j].phase \in Ended \cup {"waiting"} THEN job[j] ELSE [job[j] EXCEPT !.phase = "killed"]
    BY DEF Reboot
  <2> QED
    BY <2>1, <2>2 DEF Job, Phases, Ended
<1>4. job' \in [Jobs -> Job]
  <2>1. job' = [j \in Jobs |-> job'[j]]
    BY DEF Reboot
  <2> QED
    BY <1>3, <2>1
<1>5. ASSUME NEW j \in Jobs PROVE job'[j].phase \notin Working \cup {"installed"}
  BY <1>3 DEF Working, Activating, RollingBack, Ended
<1>6. dropin \in Configurations /\ serving' \in Shas \cup {"legacy", "down"}
  BY <1>1, RunByFacts DEF IInv, TypeOK
<1>7. TypeOK'
  BY <1>1, <1>4, <1>6 DEF IInv, TypeOK, Job
<1>8. LockInv' /\ NeverWedgedAgain'
  BY <1>1, <1>5 DEF IInv, LockInv, NeverWedgedAgain
<1>9. DiskInv'
  BY <1>1, <1>5, PhaseSets DEF IInv, DiskInv
<1>10. ASSUME NEW j \in Jobs PROVE PlaceInv(j)'
  BY <1>5 DEF PlaceInv, At, Working, Looked, Activating, RollingBack
<1> QED
  BY <1>7, <1>8, <1>9, <1>10 DEF IInv

-----------------------------------------------------------------------------
(* Every step keeps the invariant.                                         *)
THEOREM NextIInv ==
  ASSUME IInv, [Next]_vars
  PROVE  IInv'
<1>1. ASSUME NEW j \in Jobs,
             \/ Receive(j) \/ Extract(j) \/ Look(j) \/ Rename(j)
             \/ Lock(j) \/ Inspect(j) \/ WriteDropin(j) \/ Switch(j) \/ Restart(j) \/ Check(j)
             \/ StepFails(j) \/ RollbackLink(j) \/ RollbackDropin(j) \/ RollbackRestart(j)
             \/ Signal(j) \/ Kill(j)
      PROVE  IInv'
  BY <1>1, ReceiverIInv, LockIInv, InspectIInv, WriteDropinIInv, SwitchIInv, RestartIInv, CheckIInv,
     StepFailsIInv, RollbackLinkIInv, RollbackDropinIInv, RollbackRestartIInv, InterruptIInv
<1>2. CASE Reboot
  BY <1>2, RebootIInv
<1>3. CASE UNCHANGED vars
  <2>1. UNCHANGED <<disk, link, dropin, unit, serving, lock, job, activated>>
    BY <1>3 DEF vars
  <2>2. TypeOK' /\ LockInv' /\ DiskInv' /\ NeverWedgedAgain'
    BY <2>1 DEF IInv, TypeOK, LockInv, DiskInv, NeverWedgedAgain
  <2>3. ASSUME NEW j \in Jobs PROVE PlaceInv(j)'
    <3>1. PlaceInv(j)
      BY DEF IInv
    <3> QED
      BY <2>1, <3>1 DEF PlaceInv, At
  <2> QED
    BY <2>2, <2>3 DEF IInv
<1> QED
  BY <1>1, <1>2, <1>3 DEF Next

(* At first no deployment has begun and the host runs the old checkout.    *)
THEOREM InitIInv ==
  ASSUME Init
  PROVE  IInv
<1>1. PICK commit \in [Jobs -> Shas] :
        job = [j \in Jobs |-> [phase |-> "waiting", sha |-> commit[j], previous |-> NoLink, had |-> "legacy"]]
  BY DEF Init
<1>2. job \in [Jobs -> Job] /\ \A j \in Jobs : job[j].phase = "waiting"
  BY <1>1 DEF Job, Phases, Configurations
<1>3. TypeOK
  BY <1>2 DEF Init, TypeOK, Job, Configurations
<1>4. LockInv /\ DiskInv /\ NeverWedgedAgain
  BY <1>2 DEF Init, LockInv, DiskInv, NeverWedgedAgain, Working, Looked, Activating, RollingBack
<1>5. ASSUME NEW j \in Jobs PROVE PlaceInv(j)
  BY <1>2 DEF PlaceInv, At, Working, Looked, Activating, RollingBack
<1> QED
  BY <1>3, <1>4, <1>5 DEF IInv

(* The inductive invariant holds of every behaviour.                       *)
THEOREM Invariance == Spec => []IInv
<1>1. Init => IInv
  BY InitIInv
<1>2. IInv /\ [Next]_vars => IInv'
  BY NextIInv
<1> QED
  BY <1>1, <1>2, PTL DEF Spec

(* Disk, link, unit, service, lock and jobs keep their shape.              *)
THEOREM TypeCorrectness == Spec => []TypeOK
<1>1. IInv => TypeOK
  BY DEF IInv
<1> QED
  BY <1>1, Invariance, PTL

(* The active release was extracted to the end.                            *)
THEOREM ActiveReleaseIsComplete == Spec => []ActiveIsComplete
<1>1. IInv => ActiveIsComplete
  BY DEF IInv, DiskInv, ActiveIsComplete
<1> QED
  BY <1>1, Invariance, PTL

(* After one success the host always has an active release and its drop-in. *)
THEOREM HostStaysUsable == Spec => []NeverWedgedAgain
<1>1. IInv => NeverWedgedAgain
  BY DEF IInv
<1> QED
  BY <1>1, Invariance, PTL

-----------------------------------------------------------------------------
\* A job's own steps, but for the two that report an end of the script.
OtherSteps(j) ==
  \/ Receive(j) \/ Extract(j) \/ Look(j) \/ Rename(j)
  \/ Lock(j) \/ Inspect(j) \/ WriteDropin(j) \/ Switch(j) \/ Restart(j)
  \/ StepFails(j) \/ RollbackLink(j) \/ RollbackDropin(j)
  \/ Signal(j) \/ Kill(j)

LEMMA OtherStepsEndNothing ==
  ASSUME TypeOK, NEW k \in Jobs, OtherSteps(k)
  PROVE  /\ \A j \in Jobs : j # k => job'[j] = job[j]
         /\ job'[k].phase \notin {"done", "failed"}
<1>1. CASE \E phase \in Phases \ {"done", "failed"} : GoTo(k, phase)
  BY <1>1, GoToFacts
<1>2. CASE Inspect(k) /\ ~ End(k, "refused")
  <2>1. job' = [job EXCEPT ![k].phase = "inspected", ![k].previous = link, ![k].had = dropin]
    BY <1>2 DEF Inspect
  <2>2. job \in [Jobs -> Job] /\ job[k] \in Job
    BY DEF TypeOK, Job
  <2>3. job' = [job EXCEPT ![k] = [job[k] EXCEPT !.phase = "inspected", !.previous = link, !.had = dropin]]
    BY <2>1, <2>2
  <2> QED
    BY <2>2, <2>3 DEF Job
<1>3. {"extracting", "extracted", "renaming", "installed", "locked", "switching", "switched", "restarted",
       "rollback", "unlinked", "restoring", "refused", "critical", "killed"}
      \subseteq Phases \ {"done", "failed"}
  BY DEF Phases, Receiving, Activating, RollingBack, Ended
<1>4. CASE Receive(k) \/ Extract(k) \/ Look(k) \/ Rename(k) \/ Lock(k)
  BY <1>1, <1>3, <1>4 DEF Receive, Extract, Look, Rename, Lock
<1>5. CASE WriteDropin(k) \/ Switch(k) \/ Restart(k) \/ StepFails(k)
  BY <1>1, <1>3, <1>5 DEF WriteDropin, Switch, Restart, StepFails, End
<1>6. CASE RollbackLink(k) \/ RollbackDropin(k) \/ Signal(k) \/ Kill(k)
  BY <1>1, <1>3, <1>6 DEF RollbackLink, RollbackDropin, Signal, Kill, End
<1>7. CASE Inspect(k)
  BY <1>1, <1>2, <1>3, <1>7 DEF Inspect, End
<1> QED
  BY <1>4, <1>5, <1>6, <1>7 DEF OtherSteps

\* A deployment ends with success only in Check, with a completed rollback
\* only in the last step of the rollback; the host is not touched by either end.
LEMMA EndsWhere ==
  ASSUME TypeOK, [Next]_vars, NEW j \in Jobs, Becomes(j, "done") \/ Becomes(j, "failed")
  PROVE  /\ Becomes(j, "done") => Check(j)
         /\ Becomes(j, "failed") => RollbackRestart(j)
         /\ job'[j].sha = job[j].sha /\ job'[j].previous = job[j].previous /\ job'[j].had = job[j].had
<1>1. job'[j] # job[j] /\ job'[j].phase \in {"done", "failed"}
  BY DEF Becomes, At
<1>2. ASSUME NEW k \in Jobs, OtherSteps(k) PROVE FALSE
  BY <1>1, <1>2, OtherStepsEndNothing
<1>3. ~ Reboot
  <2>1. ASSUME Reboot PROVE job'[j].phase # "done" \/ job'[j] = job[j]
    <3>1. job'[j] = IF job[j].phase \in Ended \cup {"waiting"} THEN job[j] ELSE [job[j] EXCEPT !.phase = "killed"]
      BY <2>1 DEF Reboot
    <3> QED
      BY <3>1 DEF TypeOK
  <2>2. ASSUME Reboot PROVE job'[j].phase # "failed" \/ job'[j] = job[j]
    <3>1. job'[j] = IF job[j].phase \in Ended \cup {"waiting"} THEN job[j] ELSE [job[j] EXCEPT !.phase = "killed"]
      BY <2>2 DEF Reboot
    <3> QED
      BY <3>1 DEF TypeOK
  <2> QED
    BY <1>1, <2>1, <2>2
<1>4. PICK k \in Jobs : Check(k) \/ RollbackRestart(k)
  <2>1. ~ UNCHANGED vars
    BY <1>1 DEF vars
  <2> QED
    BY <1>2, <1>3, <2>1 DEF Next, OtherSteps
<1>5. CASE Check(k)
  <2>1. PICK phase \in {"done", "rollback"} : GoTo(k, phase)
    BY <1>5 DEF Check, End
  <2>2. phase \in Phases
    BY DEF Phases, Ended, RollingBack
  <2>3. /\ job'[k].phase = phase /\ job'[k].sha = job[k].sha
        /\ job'[k].previous = job[k].previous /\ job'[k].had = job[k].had
        /\ \A i \in Jobs : i # k => job'[i] = job[i]
    BY <2>1, <2>2, GoToFacts
  <2>4. k = j /\ phase = "done"
    BY <1>1, <2>1, <2>3
  <2> QED
    BY <1>5, <2>3, <2>4 DEF Becomes
<1>6. CASE RollbackRestart(k)
  <2>1. PICK phase \in {"failed", "critical"} : GoTo(k, phase)
    BY <1>6 DEF RollbackRestart, End
  <2>2. phase \in Phases
    BY DEF Phases, Ended
  <2>3. /\ job'[k].phase = phase /\ job'[k].sha = job[k].sha
        /\ job'[k].previous = job[k].previous /\ job'[k].had = job[k].had
        /\ \A i \in Jobs : i # k => job'[i] = job[i]
    BY <2>1, <2>2, GoToFacts
  <2>4. k = j /\ phase = "failed"
    BY <1>1, <2>1, <2>3
  <2> QED
    BY <1>6, <2>3, <2>4 DEF Becomes
<1> QED
  BY <1>4, <1>5, <1>6

(* A deployment that reports success has its own commit linked, loaded and *)
(* running.                                                                *)
THEOREM SuccessMeansServed == Spec => SuccessIsServed
<1>1. ASSUME IInv, [Next]_vars PROVE SuccessRuns
  <2>1. ASSUME NEW j \in Jobs, Becomes(j, "done")
        PROVE  link' = job[j].sha /\ serving' = job[j].sha /\ unit' = "managed"
    <3>1. Check(j) /\ PlaceInv(j)
      BY <1>1, <2>1, EndsWhere DEF IInv
    <3> QED
      BY <3>1 DEF Check, PlaceInv
  <2> QED
    BY <2>1 DEF SuccessRuns
<1>2. IInv /\ [Next]_vars => [SuccessRuns]_vars
  BY <1>1
<1> QED
  BY <1>2, Invariance, PTL DEF Spec, SuccessIsServed

(* A deployment that reports a completed rollback has put back the release *)
(* and the drop-in it found; after a first activation it can have left no  *)
(* other release linked than its own.                                      *)
THEOREM FailureMeansUndone == Spec => FailureIsUndone
<1>1. ASSUME IInv, [Next]_vars PROVE FailureUndone
  <2>1. ASSUME NEW j \in Jobs, Becomes(j, "failed")
        PROVE  IF job[j].previous # NoLink
                 THEN link' = job[j].previous /\ dropin' = job[j].had
                 ELSE link' \in {NoLink, job[j].sha} /\ ~ activated
    <3>1. RollbackRestart(j) /\ PlaceInv(j)
      BY <1>1, <2>1, EndsWhere DEF IInv
    <3>2. At(j, "restoring") /\ link' = link /\ dropin' = dropin
      BY <3>1 DEF RollbackRestart
    <3>3. job[j].phase \in Looked
      BY <3>2 DEF At, Looked, Working, RollingBack
    <3> QED
      BY <3>1, <3>2, <3>3 DEF PlaceInv
  <2> QED
    BY <2>1 DEF FailureUndone
<1>2. IInv /\ [Next]_vars => [FailureUndone]_vars
  BY <1>1
<1> QED
  BY <1>2, Invariance, PTL DEF Spec, FailureIsUndone
=============================================================================
