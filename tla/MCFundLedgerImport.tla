------------------------- MODULE MCFundLedgerImport -------------------------
(***************************************************************************)
(* Instances of FundLedgerImport for TLC: one import job and the sessions  *)
(* of a manager and one or two admins.                                     *)
(***************************************************************************)
EXTENDS FundLedgerImport, TLC

CONSTANTS pm, admin, other

\* One admin and one manager.
OneAdmin == (pm :> {"create"}) @@ (admin :> AdminOperations)

\* A manager and an admin who never rejects a request.
Approver == (pm :> {"create"}) @@ (admin :> {"setup", "approve", "amend"})

\* A manager and two admins who approve requests.
TwoApprovers ==
  (pm :> {"create"}) @@ (admin :> {"setup", "approve"}) @@ (other :> {"approve"})
=============================================================================
