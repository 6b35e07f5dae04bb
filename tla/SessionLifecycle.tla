-------------------------- MODULE SessionLifecycle --------------------------
(***************************************************************************)
(* What the sessions of a user look like when every operation is one step: *)
(* only a login opens a session, with a refresh token nobody else has,     *)
(* only an open session is renewed, a closed one stays closed, and a       *)
(* logout or a password reset raises the version with which access tokens  *)
(* are signed in the same step.                                            *)
(***************************************************************************)
EXTENDS Integers

CONSTANTS Devices, Tokens, None

VARIABLES
  asked,   \* devices for which the user has given the password
  key,     \* the current refresh token of each device, or None
  version  \* the version access tokens must have

Open == {d \in Devices : key[d] # None}

Unused(k) == k \in Tokens /\ \A d \in Devices : key[d] # k

Init ==
  /\ asked = {}
  /\ key = [d \in Devices |-> None]
  /\ version = 0

AskForSession(d) ==
  /\ d \notin Open \cup asked
  /\ asked' = asked \cup {d}
  /\ UNCHANGED <<key, version>>

OpenSession(d, k) ==
  /\ d \in asked \ Open /\ Unused(k)
  /\ asked' = asked \ {d}
  /\ key' = [key EXCEPT ![d] = k]
  /\ UNCHANGED version

RenewSession(d, k) ==
  /\ d \in Open /\ Unused(k)
  /\ key' = [key EXCEPT ![d] = k]
  /\ UNCHANGED <<asked, version>>

\* A refused refresh, or the cleanup of expired sessions.
CloseSessions(D) ==
  /\ key' = [d \in Devices |-> IF d \in D THEN None ELSE key[d]]
  /\ UNCHANGED <<asked, version>>

\* A logout (D has one device at most) or a password reset (all of them).
RevokeSessions(D) ==
  /\ key' = [d \in Devices |-> IF d \in D THEN None ELSE key[d]]
  /\ version' = version + 1
  /\ UNCHANGED asked

Next ==
  \/ \E d \in Devices : AskForSession(d)
  \/ \E d \in Devices, k \in Tokens : OpenSession(d, k) \/ RenewSession(d, k)
  \/ \E D \in SUBSET Devices : CloseSessions(D) \/ RevokeSessions(D)

Spec == Init /\ [][Next]_<<asked, key, version>>
=============================================================================
