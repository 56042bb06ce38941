------------------------------ MODULE Membership ------------------------------
(***************************************************************************)
(* The tenant row, the memberships of its users and the rule that a tenant *)
(* in use has an active owner (20260909165106_phase_1a_schema_security).   *)
(*                                                                         *)
(* The rule spans rows, so no constraint of one row can keep it.  The code *)
(* keeps it with two triggers: every membership write first writes the     *)
(* tenant row, which serialises the writers, and a deferred check at the   *)
(* end of the transaction looks for an owner.  The schema ships without    *)
(* commands of its own, so the writers here are any transactions a later   *)
(* command may run: READ COMMITTED, where each statement sees what is      *)
(* committed, or REPEATABLE READ, where the whole transaction sees the     *)
(* snapshot it began with.                                                 *)
(***************************************************************************)
CONSTANTS Users, Sessions, Nobody, NoTx, NoSnapshot

VARIABLES
  committed, \* what is committed: the tenant's status and its memberships
  tx,        \* the open transaction of each session
  holder,    \* the session that has written the tenant row and not yet ended
  stale      \* sessions whose snapshot is older than the tenant row

membershipVars == <<committed, tx, holder, stale>>

-----------------------------------------------------------------------------
Statuses == {"pending", "active", "suspended"}

\* No row; an active owner or operator; a row that is pending or revoked.
Standings == {"none", "owner", "operator", "idle"}

Committed == [status : Statuses, member : [Users -> Standings]]

Unwritten == "unwritten"
RowWrites == [status : Statuses \cup {Unwritten}, member : [Users -> Standings \cup {Unwritten}]]
NoWrites == [status |-> Unwritten, member |-> [u \in Users |-> Unwritten]]

\* A transaction without a snapshot runs at READ COMMITTED.
Tx == [snapshot : Committed \cup {NoSnapshot}, wrote : RowWrites]

ASSUME MembershipAssumption ==
  /\ Nobody \notin Sessions
  /\ NoTx \notin Tx
  /\ NoSnapshot \notin Committed

TypeOK ==
  /\ committed \in Committed
  /\ tx \in [Sessions -> Tx \cup {NoTx}]
  /\ holder \in Sessions \cup {Nobody}
  /\ stale \subseteq Sessions

(* A row version written by UPDATE or INSERT over what was there.          *)
Overlay(base, wrote) ==
  [status |-> IF wrote.status = Unwritten THEN base.status ELSE wrote.status,
   member |-> [u \in Users |->
                 IF wrote.member[u] = Unwritten THEN base.member[u] ELSE wrote.member[u]]]

\* What a statement of the transaction sees.
Base(s) == IF tx[s].snapshot = NoSnapshot THEN committed ELSE tx[s].snapshot
View(s) == Overlay(Base(s), tx[s].wrote)

OwnerKept(d) == d.status \in {"active", "suspended"} => \E u \in Users : d.member[u] = "owner"

MembershipInit ==
  /\ committed = [status |-> "pending", member |-> [u \in Users |-> "none"]]
  /\ tx = [s \in Sessions |-> NoTx]
  /\ holder = Nobody
  /\ stale = {}

Begin(s) ==
  /\ tx[s] = NoTx
  /\ \E snapshot \in {committed, NoSnapshot} :
       tx' = [tx EXCEPT ![s] = [snapshot |-> snapshot, wrote |-> NoWrites]]
  /\ stale' = stale \ {s}
  /\ UNCHANGED <<committed, holder>>

TakeTenantRowForUpdate(s) ==   \* mutant: FOR UPDATE, which leaves no new row version behind
  /\ holder \in {Nobody, s}
  /\ holder' = s
(* UPDATE tenants SET updated_at: waits for another writer of the row, and *)
(* aborts a repeatable-read transaction when the row is newer than its     *)
(* snapshot (the abort is a Rollback).                                     *)
TakeTenantRow(s) ==
  /\ holder \in {Nobody, s}
  /\ tx[s].snapshot # NoSnapshot => s \notin stale
  /\ holder' = s

\* Inserts or updates one membership; rows are never deleted.
WriteMember(s, u, standing) ==
  /\ tx[s] # NoTx
  /\ standing # "none"
  /\ TakeTenantRow(s)
  /\ tx' = [tx EXCEPT ![s].wrote.member[u] = standing]
  /\ UNCHANGED <<committed, stale>>

WriteStatus(s, status) ==
  /\ tx[s] # NoTx
  /\ TakeTenantRow(s)
  /\ tx' = [tx EXCEPT ![s].wrote.status = status]
  /\ UNCHANGED <<committed, stale>>

\* An error, a refusal, a client that goes away, or a COMMIT without writes.
Rollback(s) ==
  /\ tx[s] # NoTx
  /\ tx' = [tx EXCEPT ![s] = NoTx]
  /\ holder' = IF holder = s THEN Nobody ELSE holder
  /\ stale' = stale \ {s}
  /\ UNCHANGED committed

(* COMMIT.  The deferred triggers of tenants and memberships run first, in *)
(* the view of the transaction; then its rows and the new version of the   *)
(* tenant row become visible.                                              *)
Commit(s) ==
  /\ tx[s] # NoTx /\ holder = s
  /\ OwnerKept(View(s))
  /\ committed' = Overlay(committed, tx[s].wrote)
  /\ tx' = [tx EXCEPT ![s] = NoTx]
  /\ holder' = Nobody
  /\ stale' = {o \in Sessions \ {s} : tx[o] # NoTx}

MembershipNext ==
  \E s \in Sessions :
    \/ Begin(s)
    \/ \E u \in Users, standing \in Standings : WriteMember(s, u, standing)
    \/ \E status \in Statuses : WriteStatus(s, status)
    \/ Rollback(s)
    \/ Commit(s)

MembershipSpec == MembershipInit /\ [][MembershipNext]_membershipVars

-----------------------------------------------------------------------------
(* A tenant that is active or suspended has an active owner, whatever      *)
(* transactions revoke, demote and activate at once and at which isolation *)
(* level, although each of them checks only its own view.                  *)
ActiveTenantHasOwner == OwnerKept(committed)

(* "Invalidate stale repeatable-read writers": a transaction that has      *)
(* written anything decides on what is committed now.  Its snapshot, if it *)
(* has one, is the database, and nobody else has uncommitted writes.       *)
WritersAreCurrent ==
  \A s \in Sessions :
    tx[s] # NoTx /\ (tx[s].wrote # NoWrites \/ holder = s) =>
      /\ holder = s
      /\ Base(s) = committed
=============================================================================
