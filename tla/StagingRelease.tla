---------------------------- MODULE StagingRelease ----------------------------
(***************************************************************************)
(* The staging deployment: deploy/istemer-staging-receive.py installs a    *)
(* release directory, deploy/istemer-staging-activate.sh makes it the      *)
(* active one.                                                             *)
(*                                                                         *)
(* The first activation also brings the systemd unit under management with *)
(* a drop-in; before it the service runs the legacy checkout.  Activations *)
(* exclude each other with a lock file the kernel releases when the script *)
(* ends.  A step that fails, or a signal, runs the script's rollback; a    *)
(* signal during the rollback, or a kill at any time, just ends it.        *)
(***************************************************************************)
CONSTANTS
  Jobs,      \* deployments, each one SSH command
  Shas,      \* commits
  NoLink, Nobody

ASSUME StagingReleaseAssumption == NoLink \notin Shas /\ Nobody \notin Jobs

VARIABLES
  disk,       \* the release directory of each commit
  link,       \* the target of active-release
  dropin,     \* the drop-in file of the unit
  unit,       \* the configuration systemd has loaded
  serving,    \* what the running service was started from
  lock,       \* the job that holds the activation lock
  job,        \* the state of each deployment
  activated   \* history: some activation has succeeded

vars == <<disk, link, dropin, unit, serving, lock, job, activated>>
host == <<link, dropin, unit, serving, activated>>

-----------------------------------------------------------------------------
Receiving == {"extracting", "extracted", "renaming", "installed"}
Activating == {"locked", "inspected", "switching", "switched", "restarted"}
RollingBack == {"rollback", "unlinked", "restoring"}
Ended == {"done", "refused", "failed", "critical", "killed"}
Phases == {"waiting"} \cup Receiving \cup Activating \cup RollingBack \cup Ended

Configurations == {"legacy", "managed"}

TypeOK ==
  /\ disk \in [Shas -> {"absent", "partial", "complete"}]
  /\ link \in Shas \cup {NoLink}
  /\ dropin \in Configurations /\ unit \in Configurations
  /\ serving \in Shas \cup {"legacy", "down"}
  /\ lock \in Jobs \cup {Nobody}
  /\ job \in [Jobs -> [phase : Phases, sha : Shas, previous : Shas \cup {NoLink}, had : Configurations]]
  /\ activated \in BOOLEAN

Init ==
  /\ disk = [sha \in Shas |-> "absent"]
  /\ link = NoLink
  /\ dropin = "legacy" /\ unit = "legacy" /\ serving = "legacy"
  /\ lock = Nobody
  /\ \E commit \in [Jobs -> Shas] :
       job = [j \in Jobs |-> [phase |-> "waiting", sha |-> commit[j], previous |-> NoLink, had |-> "legacy"]]
  /\ activated = FALSE

At(j, phase) == job[j].phase = phase
GoTo(j, phase) == job' = [job EXCEPT ![j].phase = phase]
End(j, phase) ==
  /\ GoTo(j, phase)
  /\ lock' = IF lock = j THEN Nobody ELSE lock

\* What a service started under this configuration runs, if it can start.
RunBy(u) ==
  CASE u = "legacy" -> "legacy"
    [] u = "managed" /\ link # NoLink -> link
    [] OTHER -> "down"

-----------------------------------------------------------------------------
(* The receiver.                                                           *)

Receive(j) ==
  /\ At(j, "waiting")
  /\ GoTo(j, "extracting")
  /\ UNCHANGED <<host, disk, lock>>

\* Into a temporary directory of its own; a refused archive is removed.
Extract(j) ==
  /\ At(j, "extracting")
  /\ \E outcome \in {"extracted", "refused"} : GoTo(j, outcome)
  /\ UNCHANGED <<host, disk, lock>>

LookInPlace(j) ==   \* mutant: an absent release is filled under its final name
  /\ At(j, "extracted")
  /\ IF disk[job[j].sha] = "absent"
       THEN GoTo(j, "renaming") /\ disk' = [disk EXCEPT ![job[j].sha] = "partial"]
       ELSE GoTo(j, "installed") /\ UNCHANGED disk
  /\ UNCHANGED <<host, lock>>
\* Is the release there already?
Look(j) ==
  /\ At(j, "extracted")
  /\ IF disk[job[j].sha] = "absent" THEN GoTo(j, "renaming") ELSE GoTo(j, "installed")
  /\ UNCHANGED <<host, disk, lock>>

\* rename(2) refuses a directory another receiver has put there meanwhile.
Rename(j) ==
  /\ At(j, "renaming")
  /\ IF disk[job[j].sha] = "complete"
       THEN GoTo(j, "refused") /\ UNCHANGED disk
       ELSE GoTo(j, "installed") /\ disk' = [disk EXCEPT ![job[j].sha] = "complete"]
  /\ UNCHANGED <<host, lock>>

-----------------------------------------------------------------------------
(* The activation script.                                                  *)

LockShared(j) ==   \* mutant: the lock file is opened but never locked
  /\ At(j, "installed")
  /\ lock' = j /\ GoTo(j, "locked")
  /\ UNCHANGED <<host, disk>>
\* flock -n: a second activation does not wait, it is refused.
Lock(j) ==
  /\ At(j, "installed")
  /\ IF lock = Nobody
       THEN lock' = j /\ GoTo(j, "locked")
       ELSE UNCHANGED lock /\ GoTo(j, "refused")
  /\ UNCHANGED <<host, disk>>

(* Verifies the package and remembers what a rollback has to restore.  A   *)
(* managed unit without a link, or a link without one, is refused.         *)
Inspect(j) ==
  /\ At(j, "locked")
  /\ \/ /\ (dropin = "managed") <=> (link # NoLink)
        /\ job' = [job EXCEPT ![j].phase = "inspected", ![j].previous = link, ![j].had = dropin]
        /\ UNCHANGED lock
     \/ End(j, "refused")
  /\ UNCHANGED <<host, disk>>

WriteDropin(j) ==
  /\ At(j, "inspected") /\ job[j].had = "legacy"
  /\ dropin' = "managed"
  /\ GoTo(j, "switching")
  /\ UNCHANGED <<disk, link, unit, serving, lock, activated>>

CanSwitch(j) == At(j, "switching") \/ (At(j, "inspected") /\ job[j].had = "managed")
SwitchInTwo(j) ==   \* mutant: the old link is removed before the new one is made
  /\ CanSwitch(j)
  /\ IF link # NoLink THEN link' = NoLink /\ GoTo(j, "switching")
                      ELSE link' = job[j].sha /\ GoTo(j, "switched")
  /\ UNCHANGED <<disk, dropin, unit, serving, lock, activated>>
\* A new link under a temporary name, renamed over the old one.
Switch(j) ==
  /\ CanSwitch(j)
  /\ link' = job[j].sha
  /\ GoTo(j, "switched")
  /\ UNCHANGED <<disk, dropin, unit, serving, lock, activated>>

\* A restart that fails may leave the old service up, or none.
RestartFails == unit' \in {unit, dropin} /\ serving' \in {serving, "down"}

\* daemon-reload and restart.
Restart(j) ==
  /\ At(j, "switched")
  /\ \/ unit' = dropin /\ serving' = RunBy(unit') /\ GoTo(j, "restarted")
     \/ RestartFails /\ GoTo(j, "rollback")
  /\ UNCHANGED <<disk, link, dropin, lock, activated>>

\* The service answers and the routes show the expected labels, or it is rolled back.
Check(j) ==
  /\ At(j, "restarted")
  /\ \/ End(j, "done") /\ activated' = TRUE
     \/ GoTo(j, "rollback") /\ UNCHANGED <<lock, activated>>
  /\ UNCHANGED <<disk, link, dropin, unit, serving>>

(* Any other command of the script fails: set -e and the ERR trap.  Before *)
(* the first change a foreign drop-in makes it exit without a rollback.    *)
StepFails(j) ==
  /\ job[j].phase \in {"inspected", "switching", "switched"}
  /\ \/ At(j, "inspected") /\ job[j].had = "legacy" /\ End(j, "refused")
     \/ GoTo(j, "rollback") /\ UNCHANGED lock
  /\ UNCHANGED <<host, disk>>

-----------------------------------------------------------------------------
(* The rollback.                                                           *)

RollbackLinkBlind(j) ==   \* mutant: a rename that failed is not noticed either
  /\ At(j, "rollback")
  /\ link' \in {link, job[j].previous}
  /\ GoTo(j, IF job[j].previous = NoLink THEN "unlinked" ELSE "restoring")
  /\ UNCHANGED <<disk, dropin, unit, serving, lock, activated>>
(* A link that replaced a release is renamed back, and a failure of that   *)
(* is critical.  The link of a first activation is removed; nobody looks   *)
(* whether it could be.                                                    *)
RollbackLink(j) ==
  /\ At(j, "rollback")
  /\ \/ /\ job[j].previous # NoLink
        /\ \/ link' = job[j].previous /\ GoTo(j, "restoring") /\ UNCHANGED lock
           \/ UNCHANGED link /\ End(j, "critical")
     \/ /\ job[j].previous = NoLink
        /\ link' \in {link, NoLink}
        /\ GoTo(j, "unlinked") /\ UNCHANGED lock
  /\ UNCHANGED <<disk, dropin, unit, serving, activated>>

\* Nor whether the drop-in could be removed.
RollbackDropin(j) ==
  /\ At(j, "unlinked")
  /\ dropin' \in {dropin, job[j].had}
  /\ GoTo(j, "restoring")
  /\ UNCHANGED <<disk, link, unit, serving, lock, activated>>

(* Restarts without looking at the result, then waits for any answer on    *)
(* the port; without one the rollback is reported as critical.             *)
RollbackRestart(j) ==
  /\ At(j, "restoring")
  /\ \/ unit' \in {unit, dropin} /\ serving' = RunBy(unit')
     \/ RestartFails
  /\ \/ serving' # "down" /\ End(j, "failed")
     \/ End(j, "critical")
  /\ UNCHANGED <<disk, link, dropin, activated>>

-----------------------------------------------------------------------------
(* HUP, INT or TERM.  Before the traps are set, and in a rollback, which   *)
(* removes them, the script just dies; in between it exits, and rolls back *)
(* if it has announced a change.                                           *)
Signal(j) ==
  /\ \/ job[j].phase \in {"locked"} \cup RollingBack /\ End(j, "killed")
     \/ At(j, "inspected") /\ End(j, "refused")
     \/ job[j].phase \in Activating \ {"locked"} /\ GoTo(j, "rollback") /\ UNCHANGED lock
  /\ UNCHANGED <<host, disk>>

Kill(j) ==
  /\ job[j].phase \in Receiving \cup Activating \cup RollingBack
  /\ End(j, "killed")
  /\ UNCHANGED <<host, disk>>

\* The host restarts: every job dies, systemd loads the unit and starts the service.
Reboot ==
  /\ job' = [j \in Jobs |->
               IF job[j].phase \in Ended \cup {"waiting"} THEN job[j] ELSE [job[j] EXCEPT !.phase = "killed"]]
  /\ lock' = Nobody
  /\ unit' = dropin
  /\ serving' = RunBy(dropin)
  /\ UNCHANGED <<disk, link, dropin, activated>>

Next ==
  \/ \E j \in Jobs :
       \/ Receive(j) \/ Extract(j) \/ Look(j) \/ Rename(j)
       \/ Lock(j) \/ Inspect(j) \/ WriteDropin(j) \/ Switch(j) \/ Restart(j) \/ Check(j)
       \/ StepFails(j) \/ RollbackLink(j) \/ RollbackDropin(j) \/ RollbackRestart(j)
       \/ Signal(j) \/ Kill(j)
  \/ Reboot

Spec == Init /\ [][Next]_vars

-----------------------------------------------------------------------------
(* The active release is one that was extracted to the end, also when two  *)
(* deployments bring the same commit and receivers die half way.           *)
ActiveIsComplete == link # NoLink => disk[link] = "complete"

(* Once an activation has succeeded the host never again lacks an active   *)
(* release or its drop-in, wherever later activations are interrupted,     *)
(* killed or cut off by a reboot.  The script refuses to run without them, *)
(* so nothing but a person could repair that.                              *)
NeverWedgedAgain == activated => link # NoLink /\ dropin = "managed"

Becomes(j, phase) == ~ At(j, phase) /\ job'[j].phase = phase

(* A deployment that exits with success has its own commit linked, loaded  *)
(* and running.                                                            *)
SuccessRuns ==
  \A j \in Jobs : Becomes(j, "done") => link' = job[j].sha /\ serving' = job[j].sha /\ unit' = "managed"
SuccessIsServed == [][SuccessRuns]_vars

(* "Restores the previous release if a check fails": a deployment that     *)
(* reports a completed rollback has put back the release and the drop-in   *)
(* it found.  After a first activation that promise is weaker, since a     *)
(* removal that fails is reported as a rollback all the same: then it is   *)
(* only the job's own release that can be left linked, and only on a host  *)
(* where no activation has ever succeeded.                                 *)
FailureUndone ==
  \A j \in Jobs : Becomes(j, "failed") =>
    IF job[j].previous # NoLink
      THEN link' = job[j].previous /\ dropin' = job[j].had
      ELSE link' \in {NoLink, job[j].sha} /\ ~ activated
FailureIsUndone == [][FailureUndone]_vars
=============================================================================
