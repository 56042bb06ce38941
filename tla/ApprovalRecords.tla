---------------------------- MODULE ApprovalRecords ----------------------------
(***************************************************************************)
(* What a reader sees of the approvals of one calendar: its strategy and   *)
(* the posts packaged for it, row by row, with no sessions, no statements  *)
(* and no days.  A row that was rejected, superseded or overtaken by a     *)
(* newer revision is closed and does not come back.                        *)
(*                                                                         *)
(* TenantDesk takes what others do to these rows from here; ApprovalGate,  *)
(* whose commands run statement by statement, does nothing else to them.   *)
(***************************************************************************)
EXTENDS Naturals

CONSTANT MaxPosts

VARIABLES
  rows,   \* the status of each row
  given   \* history: the strategy was approved once

Strategy == 0
Posts == 1 .. MaxPosts
Rows == {Strategy} \cup Posts

RecordsInit == rows = [r \in Rows |-> "none"] /\ given = FALSE

Submit ==
  /\ rows[Strategy] = "none"
  /\ rows' = [rows EXCEPT ![Strategy] = "pending"]
  /\ UNCHANGED given

(* A verdict on what is pending, or a revision that overtakes it.  A post  *)
(* is approved on the strength of a strategy that was approved: the        *)
(* command read that before it wrote, and the strategy may have gone.      *)
MayBecome(row, status) ==
  /\ rows[row] = "pending" \/ (rows[row] = "approved" /\ status = "closed")
  /\ row # Strategy /\ status = "approved" => given
GivenBy(row, status) == given \/ (row = Strategy /\ status = "approved")
Decide(row, status) ==
  /\ MayBecome(row, status)
  /\ rows' = [rows EXCEPT ![row] = status]
  /\ given' = GivenBy(row, status)

\* A package opens its decision and closes those still open for its day.
MayOpen(post) == given /\ rows[post] = "none"
Prepared(post, superseded) ==
  [r \in Rows |-> IF r = post THEN "pending" ELSE IF r \in superseded THEN "closed" ELSE rows[r]]
Prepare(post, superseded) ==
  /\ MayOpen(post)
  /\ \A r \in superseded : rows[r] = "pending"
  /\ rows' = Prepared(post, superseded)
  /\ UNCHANGED given

RecordsNext ==
  \/ Submit
  \/ \E row \in Rows, status \in {"approved", "closed"} : Decide(row, status)
  \/ \E post \in Posts, superseded \in SUBSET Posts : Prepare(post, superseded)

RecordsSpec == RecordsInit /\ [][RecordsNext]_<<rows, given>>
=============================================================================
