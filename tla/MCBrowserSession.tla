-------------------------- MODULE MCBrowserSession --------------------------
(***************************************************************************)
(* Instances of BrowserSession for TLC: one browser, with two requests at  *)
(* a time in one tab or with one in each of two tabs.                      *)
(***************************************************************************)
EXTENDS BrowserSession, TLC

CONSTANTS b1, t1, t2, s1, s2

OneTab == t1 :> b1

TwoRequests == (s1 :> t1) @@ (s2 :> t1)

TwoTabs == (t1 :> b1) @@ (t2 :> b1)

RequestEach == (s1 :> t1) @@ (s2 :> t2)
=============================================================================
