----------------------------- MODULE MCPoImport -----------------------------
(***************************************************************************)
(* An instance of PoImport for TLC: one file uploaded twice, on two        *)
(* processes.                                                              *)
(***************************************************************************)
EXTENDS PoImport

CONSTANTS orders

SameFile == [u \in Uploads |-> orders]
=============================================================================
