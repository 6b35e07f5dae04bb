----------------------------- MODULE AuthSession -----------------------------
(***************************************************************************)
(* The sessions of one user, as auth.service.ts keeps them.  A device has  *)
(* a row with the hash of its current refresh token and of the one before. *)
(* A refresh is four statements in no transaction (session, its user, the  *)
(* user again, then an update or a delete); a logout or a password reset   *)
(* is one transaction that deletes rows and raises the token version all   *)
(* access tokens are compared with.                                        *)
(*                                                                         *)
(* A hash is modelled by the token it belongs to; a cookie says whether it *)
(* carries a token or a hash, because the hash of a hash matches nothing.  *)
(*                                                                         *)
(* "Fault:" introduces plausible bugs, as in PoLedger.                     *)
(***************************************************************************)
EXTENDS Integers

CONSTANTS
  Devices,   \* device ids, used or not
  Tokens,    \* refresh tokens, used or not
  Requests,  \* requests in progress
  None       \* no row, token, cookie

\* previous counts only for 30 s after rotatedAt, and is None from then on.
Rows == [current : Tokens, previous : Tokens \cup {None}]

ASSUME SessionAssumption == None \notin Devices \cup Tokens \cup Rows

VARIABLES
  version,  \* user.tokenVersion
  link,     \* there is a password reset token that has not expired
  session,  \* the refresh_session row of each device
  call      \* what the backend is doing for each request

serverVars == <<version, link, session, call>>

Cookies == [token : Tokens, hashed : BOOLEAN]

\* The device and cookie a call came with, the row and version it has read.
\* A granted call holds the cookie it sets and the version it has signed.
Calls == [step : {"none", "session", "version", "user", "rotate", "end", "login",
                  "logout", "reset", "granted", "refused", "done"},
          device : Devices \cup {None}, cookie : Cookies \cup {None},
          row : Rows \cup {None}, seen : Nat]

NoCall == [step |-> "none", device |-> None, cookie |-> None, row |-> None, seen |-> 0]

Raw(k) == [token |-> k, hashed |-> FALSE]

Hash(k) == [token |-> k, hashed |-> TRUE]

ServerTypeOK ==
  /\ version \in Nat
  /\ link \in BOOLEAN
  /\ session \in [Devices -> Rows \cup {None}]
  /\ call \in [Requests -> Calls]

ServerInit ==
  /\ version = 0
  /\ link = FALSE
  /\ session = [d \in Devices |-> None]
  /\ call = [c \in Requests |-> NoCall]

Answer(c, step) == call' = [call EXCEPT ![c] = [NoCall EXCEPT !.step = step]]

Grant(c, d, k, v) ==
  call' = [call EXCEPT ![c] =
             [step |-> "granted", device |-> d, cookie |-> k, row |-> None, seen |-> v]]

GoTo(c, step) == call' = [call EXCEPT ![c].step = step]

Account == <<version, link>>

-----------------------------------------------------------------------------
(* refresh.                                                                *)

\* The controller refuses a request without its cookies.
BeginRefresh(c, d, k) ==
  call' = [call EXCEPT ![c] =
             IF d = None THEN [NoCall EXCEPT !.step = "refused"]
             ELSE [NoCall EXCEPT !.step = "session", !.device = d, !.cookie = k]]

\* findValidSession, and then the user of the row it has found.
FindSession(c) ==
  /\ call[c].step = "session"
  /\ IF session[call[c].device] # None
     THEN call' = [call EXCEPT ![c].step = "version", ![c].row = session[call[c].device]]
     ELSE Answer(c, "refused")
  /\ UNCHANGED <<Account, session>>

ReadVersion(c) ==
  /\ call[c].step = "version"
  /\ call' = [call EXCEPT ![c].step = "user", ![c].seen = version]
  /\ UNCHANGED <<Account, session>>

Carries(c, k) == call[c].cookie = Raw(k)

InGrace(c) == Carries(c, call[c].row.previous)

\* "CASE 1" of the code: the cookie is set to the stored hash.
RepeatRefresh(c) ==
  /\ call[c].step = "user" /\ call[c].seen = version /\ InGrace(c)
  /\ Grant(c, call[c].device, Hash(call[c].row.current), version)
  /\ UNCHANGED <<Account, session>>

\* The version has changed since it was read, or "CASE 2": the cookie is
\* not the current token.  Either way the session is deleted.
RefuseRefresh(c) ==
  /\ call[c].step = "user"
  /\ \/ call[c].seen # version
     \/ ~InGrace(c) /\ ~Carries(c, call[c].row.current)
  /\ GoTo(c, "end")
  /\ UNCHANGED <<Account, session>>

EndSession(c) ==
  /\ call[c].step = "end"
  /\ session' = [session EXCEPT ![call[c].device] = None]
  /\ Answer(c, "refused")
  /\ UNCHANGED Account

\* "CASE 3": the cookie is the current token.
AcceptRefresh(c) ==
  /\ call[c].step = "user" /\ call[c].seen = version
  /\ ~InGrace(c) /\ Carries(c, call[c].row.current)
  /\ GoTo(c, "rotate")
  /\ UNCHANGED <<Account, session>>

\* Fault: a row that is gone is created again.
RotateUpserting(c, k) ==
  /\ call[c].step = "rotate"
  /\ session' = [session EXCEPT ![call[c].device] =
                   [current |-> k, previous |-> call[c].row.current]]
  /\ Grant(c, call[c].device, Raw(k), call[c].seen)
  /\ UNCHANGED Account

\* The row is updated by its id, whatever its tokens are by now; a row that
\* is gone is an error (P2025).
Rotate(c, k) ==
  /\ call[c].step = "rotate"
  /\ IF session[call[c].device] # None
     THEN /\ session' = [session EXCEPT ![call[c].device] =
                           [current |-> k, previous |-> call[c].row.current]]
          /\ Grant(c, call[c].device, Raw(k), call[c].seen)
     ELSE Answer(c, "refused") /\ UNCHANGED session
  /\ UNCHANGED Account

-----------------------------------------------------------------------------
(* login, logout, password resets.                                         *)

\* The password is right; freshUser is read and the access token signed.  No
\* page sends a device id, so d is a new one.
BeginLogin(c, d) ==
  call' = [call EXCEPT ![c] =
             [NoCall EXCEPT !.step = "login", !.device = d, !.seen = version]]

Login(c, k) ==
  /\ call[c].step = "login"
  /\ session' = [session EXCEPT ![call[c].device] = [current |-> k, previous |-> None]]
  /\ Grant(c, call[c].device, Raw(k), call[c].seen)
  /\ UNCHANGED Account

\* The guards have let the request pass.
BeginLogout(c, d) == call' = [call EXCEPT ![c].step = "logout", ![c].device = d]

Logout(c) ==
  /\ call[c].step = "logout"
  /\ session' = [d \in Devices |-> IF d = call[c].device THEN None ELSE session[d]]
  /\ version' = version + 1
  /\ Answer(c, "done")
  /\ UNCHANGED link

\* Fault: the version is lowered.
LogoutElsewhereLowering(all) ==
  /\ session' = IF all THEN [d \in Devices |-> None] ELSE session
  /\ version' = version - 1
  /\ UNCHANGED <<link, call>>

\* A device that is not in Devices logs out, itself alone or all of them.
LogoutElsewhere(all) ==
  /\ session' = IF all THEN [d \in Devices |-> None] ELSE session
  /\ version' = version + 1
  /\ UNCHANGED <<link, call>>

ForgotPassword ==
  /\ ~link /\ link' = TRUE
  /\ UNCHANGED <<version, session, call>>

LinkExpires ==
  /\ link /\ link' = FALSE
  /\ UNCHANGED <<version, session, call>>

\* The link has been checked; then comes bcrypt.
BeginReset(c) == GoTo(c, "reset")

\* Fault: sessions are deleted, access tokens stay good.
ResetKeepingVersion(c) ==
  /\ call[c].step = "reset"
  /\ session' = [d \in Devices |-> None]
  /\ link' = FALSE
  /\ Answer(c, "done")
  /\ UNCHANGED version

\* resetForgottenPassword; resetPassword ends in the same transaction.
Reset(c) ==
  /\ call[c].step = "reset"
  /\ session' = [d \in Devices |-> None]
  /\ version' = version + 1
  /\ link' = FALSE
  /\ Answer(c, "done")

-----------------------------------------------------------------------------
(* Time.                                                                   *)

Aged(row) == IF row = None THEN None ELSE [row EXCEPT !.previous = None]

\* The 30 s are measured when a refresh compares, not when it reads.
GraceEnds(d) ==
  /\ session' = [session EXCEPT ![d] = Aged(session[d])]
  /\ call' = [c \in Requests |-> IF call[c].device = d
                                 THEN [call[c] EXCEPT !.row = Aged(call[c].row)] ELSE call[c]]
  /\ UNCHANGED Account

\* findValidSession does not find a row that has expired, and the cleanup of
\* the night (cleanup.service.ts) deletes it: the one is as good as the other.
Expire(d) ==
  /\ session[d] # None
  /\ session' = [session EXCEPT ![d] = None]
  /\ UNCHANGED <<Account, call>>

-----------------------------------------------------------------------------
(* What the server promises.                                               *)

Key == [d \in Devices |-> IF session[d] = None THEN None ELSE session[d].current]

Asked == {d \in Devices : \E c \in Requests : call[c].step = "login" /\ call[c].device = d}

Lifecycle == INSTANCE SessionLifecycle WITH asked <- Asked, key <- Key, version <- version
=============================================================================
