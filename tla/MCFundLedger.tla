---------------------------- MODULE MCFundLedger ----------------------------
(***************************************************************************)
(* Instances of FundLedger for TLC: one line, a few requests, and sessions *)
(* whose operations select the interleavings a run explores.               *)
(***************************************************************************)
EXTENDS FundLedger, TLC

CONSTANTS pm, admin, other

\* One admin and one manager.
OneAdmin == (pm :> {"create"}) @@ (admin :> AdminOperations)

\* Two admins, each able to do everything, and two managers: the third session
\* serves the second admin's requests and the second manager's, one at a time.
TwoAdmins == OneAdmin @@ (other :> AdminOperations \cup {"create"})

\* Two admins who approve requests; one alone gives the first contract.
TwoApprovers ==
  (pm :> {"create"}) @@ (admin :> {"setup", "approve"}) @@ (other :> {"approve"})

\* The same two admins, who also reject requests.
TwoDeciders ==
  (pm :> {"create"}) @@ (admin :> {"setup", "approve", "reject"}) @@ (other :> {"approve", "reject"})

\* One admin approves while another amends the contract.
ApproverAndAmender ==
  (pm :> {"create"}) @@ (admin :> {"setup", "approve"}) @@ (other :> {"amend"})
=============================================================================
