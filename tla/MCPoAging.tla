----------------------------- MODULE MCPoAging -----------------------------
(***************************************************************************)
(* An instance of PoAging for TLC: two lines, a dashboard that sees both   *)
(* and one that sees the first, synced one line at a time.                 *)
(***************************************************************************)
EXTENDS PoAging

CONSTANTS aging, ageless, wide, own

ScopeOf == [s \in Dashboards |-> IF s = wide THEN Lines ELSE {aging}]

AllowedOf == [l \in Lines |-> IF l = aging THEN 4 ELSE 0]
=============================================================================
