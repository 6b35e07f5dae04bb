--------------------------- MODULE BrowserSession ---------------------------
(***************************************************************************)
(* The browsers of the user of AuthSession.  Tabs of one browser share the *)
(* cookies and the access token in localStorage; each has an axios client  *)
(* of its own (axios.ts), whose interceptor sends one refresh at a time    *)
(* and lets the other requests that were refused wait for it.              *)
(*                                                                         *)
(* Requests are the places a tab has for requests in progress: a page's    *)
(* queries, a logout or a login.                                           *)
(***************************************************************************)
EXTENDS AuthSession, FiniteSets

CONSTANTS
  Tabs,        \* tabs that stay open
  TabOf,       \* [Requests -> Tabs]
  Browsers,
  BrowserOf,   \* [Tabs -> Browsers]
  Reloading,   \* the tabs the user may reload at any time
  MaxVersion   \* bound on logouts and resets

ASSUME BrowserAssumption ==
  /\ None \notin Tabs \cup Browsers
  /\ TabOf \in [Requests -> Tabs]
  /\ BrowserOf \in [Tabs -> Browsers]
  /\ Reloading \subseteq Tabs
  /\ MaxVersion \in Nat

VARIABLES
  jar,     \* the deviceId and refreshToken cookies of each browser
  access,  \* the access token in its localStorage
  slot,    \* the requests of the tabs, as axios.ts sees them
  lost     \* history: an answer has been lost to a reload since the login

vars == <<serverVars, jar, access, slot, lost>>

Jars == [device : Devices \cup {None}, cookie : Cookies \cup {None}]

NoCookies == [device |-> None, cookie |-> None]

\* An access token is live until its 15 minutes are over.
AccessTokens == [version : Nat, live : BOOLEAN]

Kinds == {"query", "logout"}

\* A request carries the access token it was sent with; retry is _retry.
Slots == [step : {"idle", "sent", "queued", "refreshing", "login", "working"},
          kind : Kinds, token : AccessTokens, retry : BOOLEAN]

IdleSlot == [step |-> "idle", kind |-> "query",
             token |-> [version |-> 0, live |-> FALSE], retry |-> FALSE]

\* Type: every variable of server and browsers keeps its type.
TypeOK ==
  /\ ServerTypeOK
  /\ jar \in [Browsers -> Jars]
  /\ access \in [Browsers -> AccessTokens \cup {None}]
  /\ slot \in [Requests -> Slots]
  /\ lost \in [Browsers -> BOOLEAN]

Init ==
  /\ ServerInit
  /\ jar = [b \in Browsers |-> NoCookies]
  /\ access = [b \in Browsers |-> None]
  /\ slot = [s \in Requests |-> IdleSlot]
  /\ lost = [b \in Browsers |-> FALSE]

Of(s) == BrowserOf[TabOf[s]]

Siblings(s) == {u \in Requests : TabOf[u] = TabOf[s]}

Refreshing(s) == \E u \in Siblings(s) : slot[u].step = "refreshing"

Quiet(s) == slot[s].step = "idle" /\ call[s].step = "none"

\* randomBytes: no row, cookie or statement in progress has the value.
FreshToken(k) ==
  /\ \A d \in Devices : session[d] # None => k \notin {session[d].current, session[d].previous}
  /\ \A b \in Browsers : jar[b].cookie # None => jar[b].cookie.token # k
  /\ \A c \in Requests :
       /\ call[c].cookie # None => call[c].cookie.token # k
       /\ call[c].row # None => k \notin {call[c].row.current, call[c].row.previous}

FreshDevice(d) ==
  /\ session[d] = None
  /\ \A b \in Browsers : jar[b].device # d
  /\ \A c \in Requests : call[c].device # d

\* Random tokens and device ids: one unused value is as good as another.
NewToken == CHOOSE k \in Tokens : FreshToken(k)

NewDevice == CHOOSE d \in Devices : FreshDevice(d)

\* Bound: a logout or reset is begun only while the version stays in bounds.
MayRevoke ==
  version + Cardinality({s \in Requests :
    slot[s].kind = "logout" \/ call[s].step \in {"logout", "reset"}})
      < MaxVersion

-----------------------------------------------------------------------------
(* Requests.                                                               *)

Send(s, kind) ==
  /\ Quiet(s) /\ access[Of(s)] # None
  /\ kind = "logout" => MayRevoke
  /\ slot' = [slot EXCEPT ![s] = [step |-> "sent", kind |-> kind,
                                  token |-> access[Of(s)], retry |-> FALSE]]
  /\ UNCHANGED <<serverVars, jar, access>>

\* JwtAuthGuard and JwtStrategy.
Accepted(t) == t.live /\ t.version = version

\* Logging out ends in this tab with a redirect to the login page, whatever
\* the answer: its other requests are forgotten, not undone.
Ended(s, f) ==
  IF \E u \in Siblings(s) : f[u] = IdleSlot /\ slot[u].kind = "logout"
  THEN [u \in Requests |-> IF u \in Siblings(s) THEN IdleSlot ELSE f[u]]
  ELSE f

Clear(b) == access' = [access EXCEPT ![b] = None]

Finish(s) ==
  /\ slot' = Ended(s, [slot EXCEPT ![s] = IdleSlot])
  /\ IF slot[s].kind = "logout" THEN Clear(Of(s)) ELSE UNCHANGED access

\* A query is answered, a logout handed to the service.
Serve(s) ==
  /\ slot[s].step = "sent" /\ call[s].step = "none" /\ Accepted(slot[s].token)
  /\ IF slot[s].kind = "logout"
     THEN /\ BeginLogout(s, jar[Of(s)].device)
          /\ slot' = [slot EXCEPT ![s].step = "working"]
          /\ UNCHANGED access
     ELSE Finish(s) /\ UNCHANGED call
  /\ UNCHANGED <<Account, session, jar>>

\* Fault: every refused request sends a refresh of its own.
UnauthorizedUnshared(s) ==
  /\ slot[s].step = "sent" /\ call[s].step = "none" /\ ~Accepted(slot[s].token)
  /\ IF slot[s].retry THEN Finish(s) /\ UNCHANGED call
     ELSE /\ slot' = [slot EXCEPT ![s].step = "refreshing"]
          /\ BeginRefresh(s, jar[Of(s)].device, jar[Of(s)].cookie)
          /\ UNCHANGED access
  /\ UNCHANGED <<Account, session, jar>>

\* TOKEN_EXPIRED: give up after a retry, wait for the refresh in progress,
\* or send one.
Unauthorized(s) ==
  /\ slot[s].step = "sent" /\ call[s].step = "none" /\ ~Accepted(slot[s].token)
  /\ IF slot[s].retry THEN Finish(s) /\ UNCHANGED call
     ELSE /\ IF Refreshing(s)
             THEN slot' = [slot EXCEPT ![s].step = "queued"] /\ UNCHANGED call
             ELSE /\ slot' = [slot EXCEPT ![s].step = "refreshing"]
                  /\ BeginRefresh(s, jar[Of(s)].device, jar[Of(s)].cookie)
          /\ UNCHANGED access
  /\ UNCHANGED <<Account, session, jar>>

-----------------------------------------------------------------------------
(* Answers.                                                                *)

AnswerTaken(s) == call' = [call EXCEPT ![s] = NoCall]

SetCookies(s) ==
  jar' = [jar EXCEPT ![Of(s)] = [device |-> call[s].device, cookie |-> call[s].cookie]]

Issued(s) == [version |-> call[s].seen, live |-> TRUE]

\* processQueue(null, token), and the request that sent the refresh.
Resent(s) ==
  [u \in Requests |->
     IF u = s THEN [slot[u] EXCEPT !.step = "sent", !.token = Issued(s), !.retry = TRUE]
     ELSE IF u \in Siblings(s) /\ slot[u].step = "queued"
          THEN [slot[u] EXCEPT !.step = "sent", !.token = Issued(s)] ELSE slot[u]]

\* The deviceId cookie stays what it is, and need not be the refreshed one's.
Refreshed(s) ==
  /\ slot[s].step = "refreshing" /\ call[s].step = "granted"
  /\ jar' = [jar EXCEPT ![Of(s)].cookie = call[s].cookie]
  /\ AnswerTaken(s)
  /\ access' = [access EXCEPT ![Of(s)] = Issued(s)]
  /\ slot' = Resent(s)
  /\ UNCHANGED <<Account, session>>

\* Fault: the waiting requests are forgotten.
RefreshFailedAlone(s) ==
  /\ slot[s].step = "refreshing" /\ call[s].step = "refused"
  /\ AnswerTaken(s) /\ Clear(Of(s))
  /\ slot' = Ended(s, [slot EXCEPT ![s] = IdleSlot])
  /\ UNCHANGED <<Account, session, jar>>

\* processQueue(error), localStorage.clear() and the login page.
RefreshFailed(s) ==
  /\ slot[s].step = "refreshing" /\ call[s].step = "refused"
  /\ AnswerTaken(s) /\ Clear(Of(s))
  /\ slot' = Ended(s, [u \in Requests |->
       IF u \in Siblings(s) /\ slot[u].step \in {"refreshing", "queued"}
       THEN IdleSlot ELSE slot[u]])
  /\ UNCHANGED <<Account, session, jar>>

\* Both cookies are cleared.
LoggedOut(s) ==
  /\ slot[s].step = "working" /\ call[s].step = "done"
  /\ AnswerTaken(s) /\ Finish(s)
  /\ jar' = [jar EXCEPT ![Of(s)] = NoCookies]
  /\ UNCHANGED <<Account, session>>

\* The login page.  Devices bounds the logins whose sessions remain.
SubmitLogin(s) ==
  /\ access[Of(s)] = None
  /\ \A u \in Siblings(s) : Quiet(u)
  /\ \E d \in Devices : FreshDevice(d)
  /\ BeginLogin(s, NewDevice)
  /\ slot' = [slot EXCEPT ![s].step = "login"]
  /\ UNCHANGED <<Account, session, jar, access>>

LoggedIn(s) ==
  /\ slot[s].step = "login" /\ call[s].step = "granted"
  /\ SetCookies(s) /\ AnswerTaken(s)
  /\ access' = [access EXCEPT ![Of(s)] = Issued(s)]
  /\ slot' = [slot EXCEPT ![s] = IdleSlot]
  /\ lost' = [lost EXCEPT ![Of(s)] = FALSE]
  /\ UNCHANGED <<Account, session>>

\* The page of a mailed link, in any tab, needs no login.
SubmitRecovery(s) ==
  /\ Quiet(s) /\ link /\ MayRevoke
  /\ BeginReset(s)
  /\ UNCHANGED <<Account, session, jar, access, slot>>

\* A reload forgets the requests of the tab; the backend goes on with them
\* and nobody takes the answer or its cookies.  Bound: once for each login.
Reload(t) ==
  /\ t \in Reloading /\ ~lost[BrowserOf[t]]
  /\ \E s \in Requests : TabOf[s] = t /\ slot[s].step = "refreshing"
  /\ slot' = [s \in Requests |-> IF TabOf[s] = t THEN IdleSlot ELSE slot[s]]
  /\ lost' = [lost EXCEPT ![BrowserOf[t]] = TRUE]
  /\ UNCHANGED <<serverVars, jar, access>>

Unheard(s) ==
  /\ slot[s].step = "idle" /\ call[s].step \in {"granted", "refused", "done"}
  /\ AnswerTaken(s)
  /\ UNCHANGED <<Account, session, jar, access, slot>>

-----------------------------------------------------------------------------
(* Time.  An access token outlives no pause between requests but every     *)
(* request, a session all its access tokens: 15 minutes and 8 hours.       *)

AllQuiet(b) == \A s \in Requests : Of(s) = b => Quiet(s)

AccessExpires(b) ==
  /\ AllQuiet(b) /\ access[b] # None /\ access[b].live
  /\ access' = [access EXCEPT ![b].live = FALSE]
  /\ UNCHANGED <<serverVars, jar, slot>>

SessionExpires(d) ==
  /\ \A b \in Browsers :
       jar[b].device = d => AllQuiet(b) /\ (access[b] # None => ~access[b].live)
  /\ \A c \in Requests : call[c].device # d
  /\ Expire(d)
  /\ UNCHANGED <<jar, access, slot>>

-----------------------------------------------------------------------------

Work(s) ==
  /\ \/ FindSession(s) \/ ReadVersion(s) \/ RepeatRefresh(s) \/ RefuseRefresh(s)
     \/ EndSession(s) \/ AcceptRefresh(s) \/ Logout(s) \/ Reset(s)
     \/ /\ \E k \in Tokens : FreshToken(k)
        /\ Rotate(s, NewToken) \/ Login(s, NewToken)
  /\ UNCHANGED <<jar, access, slot, lost>>

React(s) ==
  \/ LoggedIn(s)
  \/ /\ \/ Serve(s) \/ Unauthorized(s) \/ Refreshed(s)
        \/ RefreshFailed(s) \/ LoggedOut(s) \/ Unheard(s)
     /\ UNCHANGED lost

User(s) ==
  /\ (\E kind \in Kinds : Send(s, kind)) \/ SubmitLogin(s) \/ SubmitRecovery(s)
  /\ UNCHANGED lost

\* Nobody waits for these.
World ==
  \/ \E d \in Devices : SessionExpires(d)
  \/ \E b \in Browsers : AccessExpires(b)
  \/ /\ \/ \E d \in Devices : GraceEnds(d)
        \/ MayRevoke /\ \E all \in BOOLEAN : LogoutElsewhere(all)
        \/ MayRevoke /\ ForgotPassword
        \/ LinkExpires
     /\ UNCHANGED <<jar, access, slot>>

Next ==
  \/ \E s \in Requests : Work(s) \/ React(s) \/ User(s)
  \/ \E t \in Tabs : Reload(t)
  \/ World /\ UNCHANGED lost

Spec == Init /\ [][Next]_vars

\* The backend works on a call, the browser reacts to its answer, never both
\* at a time: what has been begun is finished.  Users do as they like.
FairSpec == Spec /\ \A s \in Requests : WF_vars(Work(s) \/ React(s))

-----------------------------------------------------------------------------
(* Properties.                                                             *)

Current(b) == access[b] # None /\ Accepted(access[b])

SessionOf(b) == IF jar[b].device = None THEN None ELSE session[jar[b].device]

\* A browser whose cookies nobody else changes and that has had all answers.
SoleTab(b) ==
  /\ \A t, u \in Tabs : BrowserOf[t] = b /\ BrowserOf[u] = b => t = u
  /\ ~lost[b]

InSync(b) ==
  AllQuiet(b) /\ access[b] # None /\ SessionOf(b) # None
    => jar[b].cookie = Raw(SessionOf(b).current)

\* Safety (refresh, "re-sync the cookie with the CURRENT valid refresh
\* token"): a browser that is logged in and at rest holds the current token of
\* its session, so that its next refresh succeeds.
CookieInSync == \A b \in Browsers : InSync(b)

\* Safety: the same where one tab does all the refreshing.  It is the
\* interceptor's waiting list that makes it so.
SoleTabInSync == \A b \in Browsers : SoleTab(b) => InSync(b)

\* Safety (logout, resetPassword): an access token the backend accepts has a
\* session, so that whoever ends sessions ends the access they gave as well.
AcceptedHasSession == \A b \in Browsers : SoleTab(b) /\ Current(b) => SessionOf(b) # None

\* Refinement: refreshes, logins, logouts and resets that interleave
\* statement by statement still never renew a session that has been ended.
ImplementsLifecycle == Lifecycle!Spec

\* Liveness (axios.ts): a request that waits for a refresh, its own or that
\* of another request, is answered.
EveryRequestEnds == \A s \in Requests : slot[s].step # "idle" ~> slot[s].step = "idle"
=============================================================================
