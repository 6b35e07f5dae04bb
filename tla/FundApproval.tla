---------------------------- MODULE FundApproval ----------------------------
(***************************************************************************)
(* What the fund ledger promises: every operation on it takes effect as    *)
(* one step that checks the rule it enforces against the very state it     *)
(* changes.  FundLedger, with one admin session, implements this module.   *)
(***************************************************************************)
EXTENDS PoLedger

\* Every operation ends by reconciling the one line it concerns.
Reconcile(l) ==
  totals' = [totals EXCEPT ![l] = computeFinancials(fundRequest', l, contractAmount'[l])]

\* A manager asks for money on a line.
CreateRequest(r, l, amount) ==
  /\ fundRequest[r].status = "NONE"
  /\ amount > 0
  /\ FitsContract(fundRequest, l, contractAmount[l], amount)
  /\ fundRequest' = Inserted(fundRequest, r, l, amount)
  /\ UNCHANGED <<contractAmount, amendments>>
  /\ Reconcile(l)

\* An admin approves a pending request, for the amount asked or another one.
ApproveRequest(r, amount, s) ==
  LET l == fundRequest[r].line IN
  /\ fundRequest[r].status = "PENDING"
  /\ contractAmount[l] # 0
  /\ getApprovedAggregate(fundRequest, l, r) + amount <= contractAmount[l]
  /\ fundRequest' = Approved(fundRequest, r, amount, s)
  /\ UNCHANGED <<contractAmount, amendments>>
  /\ Reconcile(l)

\* An admin rejects a pending request.
RejectRequest(r, s) ==
  /\ fundRequest[r].status = "PENDING"
  /\ fundRequest' = Rejected(fundRequest, r, s)
  /\ UNCHANGED <<contractAmount, amendments>>
  /\ Reconcile(fundRequest[r].line)

\* While looking at a pending request an admin gives its line a first contract.
SetUpContract(r, amount) ==
  LET l == fundRequest[r].line IN
  /\ fundRequest[r].status = "PENDING"
  /\ contractAmount[l] = 0
  /\ amount > 0
  /\ contractAmount' = [contractAmount EXCEPT ![l] = amount]
  /\ UNCHANGED <<fundRequest, amendments>>
  /\ Reconcile(l)

\* An admin replaces a contract, never below what is already approved.
AmendContract(l, amount) ==
  /\ contractAmount[l] # 0
  /\ amount > 0
  /\ SumRequested(fundRequest, l, {"APPROVED"}, {}) <= amount
  /\ contractAmount' = [contractAmount EXCEPT ![l] = amount]
  /\ amendments' = [amendments EXCEPT ![l] =
                      Append(@, [oldAmount |-> contractAmount[l], newAmount |-> amount])]
  /\ UNCHANGED fundRequest
  /\ Reconcile(l)

Next ==
  \/ \E r \in Requests, l \in Lines, amount \in Amounts : CreateRequest(r, l, amount)
  \/ \E r \in Requests, s \in Sessions :
       \/ \E amount \in Overrides \cup {fundRequest[r].amount} : ApproveRequest(r, amount, s)
       \/ RejectRequest(r, s)
  \/ \E r \in Requests, amount \in Contracts : SetUpContract(r, amount)
  \/ \E l \in Lines, amount \in Contracts :
       Len(amendments[l]) < MaxAmendments /\ AmendContract(l, amount)

Spec == LedgerInit /\ [][Next]_ledger
=============================================================================
