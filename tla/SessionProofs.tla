---------------------------- MODULE SessionProofs ----------------------------
(***************************************************************************)
(* Proofs about BrowserSession, for any devices, tabs and requests: types, *)
(* that the server's statements, however they interleave, implement        *)
(* SessionLifecycle, and that a browser with one tab that has had all its  *)
(* answers keeps in step with its session.                                 *)
(*                                                                         *)
(* Almost every action changes the call of one request, to one that is not *)
(* a login and has a device that was there before: what such a step keeps  *)
(* is proved once (StepKeepsCalls, StepKeepsAsked).                        *)
(*                                                                         *)
(* The tab's invariant, TabInv, is about one browser at a time: a device   *)
(* is one browser's (BrowsersApart), so that what a request does is of no  *)
(* concern to another browser (LocalElsewhere), except that its session    *)
(* may be deleted, with a new version (UndisturbedKept).                   *)
(***************************************************************************)
EXTENDS BrowserSession, TLAPS

\* A call has the device, and the row, that its next statement is about.
Begun(r) ==
  /\ r.step \in {"session", "version", "user", "rotate", "end", "login"} => r.device \in Devices
  /\ r.step \in {"version", "user", "rotate"} => r.row \in Rows

CallsBegun == \A c \in Requests : Begun(call[c])

\* The device of a login in progress is nobody else's.
LoginsApart ==
  \A c \in Requests : call[c].step = "login" =>
    /\ session[call[c].device] = None
    /\ \A b \in Browsers : jar[b].device # call[c].device
    /\ \A u \in Requests \ {c} : call[u].device # call[c].device

SessionInv == TypeOK /\ CallsBegun /\ LoginsApart

\* The step changes the call of s, and begins no login.
OneCall(s) ==
  /\ call' = [call EXCEPT ![s] = call'[s]]
  /\ call'[s] \in Calls /\ Begun(call'[s]) /\ call'[s].step # "login"
  /\ call'[s].device # None =>
       call'[s].device = call[s].device \/ \E b \in Browsers : call'[s].device = jar[b].device

\* Rows and cookies appear only for the device of the call of s.
OwnDevice(s) ==
  /\ session' \in [Devices -> Rows \cup {None}]
  /\ jar' \in [Browsers -> Jars]
  /\ \A d \in Devices : session'[d] # None => session[d] # None \/ d = call[s].device
  /\ \A b \in Browsers : jar'[b].device \in {jar[b].device, call[s].device, None}

-----------------------------------------------------------------------------
(* The operators from which the actions are built.                         *)

LEMMA NewTokenIsFresh ==
  ASSUME \E k \in Tokens : FreshToken(k)
  PROVE  NewToken \in Tokens /\ FreshToken(NewToken)
BY DEF NewToken

LEMMA NewDeviceIsFresh ==
  ASSUME \E d \in Devices : FreshDevice(d)
  PROVE  NewDevice \in Devices /\ FreshDevice(NewDevice)
BY DEF NewDevice

LEMMA NoCallTyped ==
  /\ NoCall \in Calls /\ NoCall.step = "none" /\ NoCall.device = None
  /\ \A step \in {"none", "refused", "done"} :
       /\ [NoCall EXCEPT !.step = step] \in Calls
       /\ [NoCall EXCEPT !.step = step].step = step
       /\ [NoCall EXCEPT !.step = step].device = None
BY DEF NoCall, Calls

LEMMA IdleTyped == IdleSlot \in Slots /\ IdleSlot.step = "idle"
BY DEF IdleSlot, Slots, Kinds, AccessTokens

LEMMA EndedTyped ==
  ASSUME NEW s \in Requests, NEW f \in [Requests -> Slots]
  PROVE  Ended(s, f) \in [Requests -> Slots]
BY IdleTyped DEF Ended

LEMMA FinishTyped ==
  ASSUME TypeOK, NEW s \in Requests, Finish(s)
  PROVE  /\ slot' \in [Requests -> Slots]
         /\ access' \in [Browsers -> AccessTokens \cup {None}]
<1>1. [slot EXCEPT ![s] = IdleSlot] \in [Requests -> Slots]
  BY IdleTyped DEF TypeOK
<1>2. slot' \in [Requests -> Slots]
  BY <1>1, EndedTyped DEF Finish
<1>. QED  BY <1>2 DEF Finish, Clear, TypeOK

LEMMA OfTyped == \A s \in Requests : Of(s) \in Browsers
BY BrowserAssumption DEF Of

\* Answer, Grant, GoTo and AnswerTaken each change one call.
LEMMA AnswerIsOneCall ==
  ASSUME SessionInv, NEW s \in Requests, NEW step \in {"refused", "done"}, Answer(s, step)
  PROVE  OneCall(s)
BY NoCallTyped DEF SessionInv, TypeOK, ServerTypeOK, Answer, OneCall, Begun

LEMMA TakenIsOneCall ==
  ASSUME SessionInv, NEW s \in Requests, AnswerTaken(s)
  PROVE  OneCall(s)
BY NoCallTyped DEF SessionInv, TypeOK, ServerTypeOK, AnswerTaken, OneCall, Begun

LEMMA GoToIsOneCall ==
  ASSUME SessionInv, NEW s \in Requests, NEW step \in {"rotate", "end", "reset"}, GoTo(s, step),
         step # "reset" => call[s].step = "user"
  PROVE  OneCall(s)
<1>1. call[s] \in Calls /\ Begun(call[s])
  BY DEF SessionInv, TypeOK, ServerTypeOK, CallsBegun
<1>2. call' = [call EXCEPT ![s] = [call[s] EXCEPT !.step = step]]
  BY DEF GoTo
<1>3. [call[s] EXCEPT !.step = step] \in Calls
  BY <1>1 DEF Calls
<1>4. Begun([call[s] EXCEPT !.step = step])
  BY <1>1 DEF Begun, Calls
<1>5. /\ [call[s] EXCEPT !.step = step].step = step
      /\ [call[s] EXCEPT !.step = step].device = call[s].device
  BY <1>1 DEF Calls
<1>. QED  BY <1>2, <1>3, <1>4, <1>5 DEF OneCall, SessionInv, TypeOK, ServerTypeOK

LEMMA GrantIsOneCall ==
  ASSUME SessionInv, NEW s \in Requests, NEW k \in Cookies, NEW v \in Nat,
         Grant(s, call[s].device, k, v)
  PROVE  OneCall(s)
<1> DEFINE r == [step |-> "granted", device |-> call[s].device, cookie |-> k,
                 row |-> None, seen |-> v]
<1>1. call[s].device \in Devices \cup {None}
  BY DEF SessionInv, TypeOK, ServerTypeOK, Calls
<1>2. r \in Calls /\ Begun(r) /\ r.step # "login" /\ r.device = call[s].device
  BY <1>1 DEF Calls, Begun
<1>3. call' = [call EXCEPT ![s] = r]
  BY DEF Grant
<1>. HIDE DEF r
<1>. QED  BY <1>2, <1>3 DEF OneCall, SessionInv, TypeOK, ServerTypeOK

LEMMA StepKeepsCalls ==
  ASSUME SessionInv, NEW s \in Requests, OneCall(s), OwnDevice(s)
  PROVE  call' \in [Requests -> Calls] /\ CallsBegun' /\ LoginsApart'
<1>1. \A c \in Requests : c # s => call'[c] = call[c]
  BY DEF OneCall, SessionInv, TypeOK, ServerTypeOK
<1>2. call' \in [Requests -> Calls]
  BY DEF OneCall, SessionInv, TypeOK, ServerTypeOK
<1>3. CallsBegun'
  <2>1. \A c \in Requests : Begun(call'[c])
    BY <1>1 DEF OneCall, SessionInv, CallsBegun
  <2>. QED  BY <2>1 DEF CallsBegun, Begun
<1>4. LoginsApart'
  <2>. SUFFICES ASSUME NEW c \in Requests, call'[c].step = "login"
                PROVE  /\ session'[call'[c].device] = None
                       /\ \A b \in Browsers : jar'[b].device # call'[c].device
                       /\ \A u \in Requests \ {c} : call'[u].device # call'[c].device
    BY DEF LoginsApart
  <2>1. c # s /\ call'[c] = call[c]
    BY <1>1 DEF OneCall
  <2>2. /\ call[c].device \in Devices
        /\ session[call[c].device] = None
        /\ \A b \in Browsers : jar[b].device # call[c].device
        /\ \A u \in Requests \ {c} : call[u].device # call[c].device
    BY <2>1 DEF SessionInv, CallsBegun, Begun, LoginsApart
  <2>3. call[s].device # call[c].device /\ None # call[c].device
    BY <2>1, <2>2, SessionAssumption
  <2>4. session'[call[c].device] = None
    BY <2>2, <2>3 DEF OwnDevice
  <2>5. \A b \in Browsers : jar'[b].device # call[c].device
    BY <2>2, <2>3 DEF OwnDevice
  <2>6. call'[s].device # call[c].device
    BY <2>2, <2>3 DEF OneCall
  <2>. QED  BY <1>1, <2>1, <2>2, <2>4, <2>5, <2>6
<1>. QED  BY <1>2, <1>3, <1>4

LEMMA StepKeepsAsked ==
  ASSUME SessionInv, NEW s \in Requests, OneCall(s), call[s].step # "login"
  PROVE  Asked' = Asked
<1>1. \A c \in Requests : c # s => call'[c] = call[c]
  BY DEF OneCall, SessionInv, TypeOK, ServerTypeOK
<1>2. call'[s].step # "login"
  BY DEF OneCall
<1>3. \A c \in Requests, d \in Devices :
        (call'[c].step = "login" /\ call'[c].device = d)
          <=> (call[c].step = "login" /\ call[c].device = d)
  BY <1>1, <1>2
<1>. QED  BY <1>3 DEF Asked

\* A step of one call that writes no row, and one that deletes rows only.
LEMMA StepOnCall ==
  ASSUME SessionInv, NEW s \in Requests, OneCall(s), UNCHANGED <<session, jar>>
  PROVE  call' \in [Requests -> Calls] /\ CallsBegun' /\ LoginsApart'
<1>1. OwnDevice(s)
  BY DEF OwnDevice, SessionInv, TypeOK, ServerTypeOK
<1>. QED  BY <1>1, StepKeepsCalls

LEMMA StepDeleting ==
  ASSUME SessionInv, NEW s \in Requests, OneCall(s), UNCHANGED jar,
         session' \in [Devices -> Rows \cup {None}],
         \A d \in Devices : session'[d] = None \/ session'[d] = session[d]
  PROVE  call' \in [Requests -> Calls] /\ CallsBegun' /\ LoginsApart'
<1>1. OwnDevice(s)
  BY DEF OwnDevice, SessionInv, TypeOK
<1>. QED  BY <1>1, StepKeepsCalls

\* No call changes, and rows are deleted at most.
LEMMA CallsKept ==
  ASSUME SessionInv, UNCHANGED <<call, jar>>,
         session' \in [Devices -> Rows \cup {None}],
         \A d \in Devices : session'[d] = None \/ session'[d] = session[d]
  PROVE  CallsBegun' /\ LoginsApart' /\ Asked' = Asked
<1>1. CallsBegun' /\ Asked' = Asked
  BY DEF SessionInv, CallsBegun, Begun, Asked
<1>2. \A c \in Requests : call[c].step = "login" => call[c].device \in Devices
  BY DEF SessionInv, CallsBegun, Begun
<1>3. LoginsApart'
  BY <1>2 DEF SessionInv, LoginsApart
<1>. QED  BY <1>1, <1>3

-----------------------------------------------------------------------------
(* Which step of SessionLifecycle a step of the rows is.                   *)

LifecycleStep == [Lifecycle!Next]_<<Asked, Key, version>>

LEMMA KeyTyped ==
  ASSUME SessionInv, NEW d \in Devices
  PROVE  /\ Key[d] = IF session[d] = None THEN None ELSE session[d].current
         /\ Key[d] # None <=> session[d] # None
BY SessionAssumption DEF Key, SessionInv, TypeOK, ServerTypeOK, Rows

LEMMA Stutters ==
  ASSUME Asked' = Asked, UNCHANGED <<session, version>>
  PROVE  LifecycleStep
<1>1. Key' = Key
  BY DEF Key
<1>. QED  BY <1>1 DEF LifecycleStep

LEMMA Closes ==
  ASSUME SessionInv, NEW D \in SUBSET Devices, Asked' = Asked, UNCHANGED version,
         session' = [d \in Devices |-> IF d \in D THEN None ELSE session[d]]
  PROVE  LifecycleStep
<1>1. Key' = [d \in Devices |-> IF d \in D THEN None ELSE Key[d]]
  BY DEF Key
<1>2. Lifecycle!CloseSessions(D)
  BY <1>1 DEF Lifecycle!CloseSessions
<1>. QED  BY <1>2 DEF LifecycleStep, Lifecycle!Next

LEMMA Revokes ==
  ASSUME SessionInv, NEW D \in SUBSET Devices, Asked' = Asked, version' = version + 1,
         session' = [d \in Devices |-> IF d \in D THEN None ELSE session[d]]
  PROVE  LifecycleStep
<1>1. Key' = [d \in Devices |-> IF d \in D THEN None ELSE Key[d]]
  BY DEF Key
<1>2. Lifecycle!RevokeSessions(D)
  BY <1>1 DEF Lifecycle!RevokeSessions
<1>. QED  BY <1>2 DEF LifecycleStep, Lifecycle!Next

\* A fresh token is nobody's key.
LEMMA FreshIsUnused ==
  ASSUME SessionInv, NEW k \in Tokens, FreshToken(k)
  PROVE  Lifecycle!Unused(k)
<1>1. \A d \in Devices : Key[d] # k
  BY KeyTyped, SessionAssumption DEF FreshToken
<1>. QED  BY <1>1 DEF Lifecycle!Unused

LEMMA KeySet ==
  ASSUME SessionInv, NEW d \in Devices, NEW k \in Tokens, NEW p,
         session' = [session EXCEPT ![d] = [current |-> k, previous |-> p]],
         [current |-> k, previous |-> p] \in Rows
  PROVE  Key' = [Key EXCEPT ![d] = k]
<1>1. [current |-> k, previous |-> p] # None
  BY SessionAssumption
<1>2. session'[d] = [current |-> k, previous |-> p]
  BY DEF SessionInv, TypeOK, ServerTypeOK
<1>3. \A e \in Devices : e # d => session'[e] = session[e]
  BY DEF SessionInv, TypeOK, ServerTypeOK
<1>4. \A e \in Devices : Key'[e] = IF e = d THEN k ELSE Key[e]
  <2>. TAKE e \in Devices
  <2>1. Key'[e] = IF session'[e] = None THEN None ELSE session'[e].current
    BY DEF Key
  <2>2. Key[e] = IF session[e] = None THEN None ELSE session[e].current
    BY DEF Key
  <2>. QED  BY <1>1, <1>2, <1>3, <2>1, <2>2
<1>5. /\ Key = [e \in Devices |-> Key[e]]
      /\ Key' = [e \in Devices |-> Key'[e]]
  BY DEF Key
<1>. QED  BY <1>4, <1>5

-----------------------------------------------------------------------------
(* Initial states.                                                         *)

LEMMA SessionInit == Init => SessionInv
<1>. SUFFICES ASSUME Init PROVE SessionInv
  OBVIOUS
<1>1. ServerTypeOK
  BY NoCallTyped DEF Init, ServerInit, ServerTypeOK
<1>2. TypeOK
  BY <1>1, IdleTyped DEF Init, TypeOK, NoCookies, Jars
<1>3. \A c \in Requests : call[c].step = "none"
  BY NoCallTyped DEF Init, ServerInit
<1>. QED  BY <1>2, <1>3 DEF SessionInv, CallsBegun, Begun, LoginsApart

LEMMA LifecycleInit == Init => Lifecycle!Init
<1>. SUFFICES ASSUME Init PROVE Lifecycle!Init
  OBVIOUS
<1>1. \A c \in Requests : call[c].step = "none"
  BY NoCallTyped DEF Init, ServerInit
<1>. QED  BY <1>1 DEF Init, ServerInit, Lifecycle!Init, Asked, Key

-----------------------------------------------------------------------------
(* The statements of the backend.                                          *)

\* What the lemmas about actions show.
Preserves == SessionInv' /\ LifecycleStep

LEMMA WorkPreserves ==
  ASSUME SessionInv, NEW s \in Requests, Work(s)
  PROVE  Preserves
<1>. USE DEF SessionInv
<1>1. UNCHANGED <<jar, access, slot, lost>>
  BY DEF Work
<1>2. call[s] \in Calls /\ Begun(call[s])
  BY DEF TypeOK, ServerTypeOK, CallsBegun
<1>3. ASSUME OneCall(s), UNCHANGED <<Account, session>>, call[s].step # "login"
      PROVE  Preserves
  <2>1. call' \in [Requests -> Calls] /\ CallsBegun' /\ LoginsApart'
    BY <1>1, <1>3, StepOnCall DEF SessionInv
  <2>2. TypeOK'
    BY <1>1, <1>3, <2>1 DEF TypeOK, ServerTypeOK, Account
  <2>3. LifecycleStep
    BY <1>3, StepKeepsAsked, Stutters DEF Account
  <2>. QED  BY <2>1, <2>2, <2>3 DEF Preserves
<1>4. ASSUME FindSession(s) PROVE Preserves
  <2>1. CASE session[call[s].device] # None
    <3> DEFINE r == [call[s] EXCEPT !.step = "version", !.row = session[call[s].device]]
    <3>1. call[s].device \in Devices /\ session[call[s].device] \in Rows
      BY <1>2, <1>4, <2>1 DEF FindSession, Begun, TypeOK, ServerTypeOK
    <3>2. r \in Calls /\ r.step = "version" /\ r.device = call[s].device /\ r.row \in Rows
      BY <1>2, <3>1 DEF Calls
    <3>3. call' = [call EXCEPT ![s] = r]
      BY <1>2, <1>4, <2>1 DEF FindSession, TypeOK, ServerTypeOK
    <3>. HIDE DEF r
    <3>4. OneCall(s)
      BY <3>1, <3>2, <3>3 DEF OneCall, Begun, TypeOK, ServerTypeOK
    <3>. QED  BY <1>3, <1>4, <3>4 DEF FindSession
  <2>2. CASE session[call[s].device] = None
    BY <1>3, <1>4, <2>2, AnswerIsOneCall DEF FindSession
  <2>. QED  BY <2>1, <2>2
<1>5. ASSUME ReadVersion(s) PROVE Preserves
  <2> DEFINE r == [call[s] EXCEPT !.step = "user", !.seen = version]
  <2>1. /\ r \in Calls /\ r.step = "user"
        /\ r.device = call[s].device /\ r.row = call[s].row
    BY <1>2 DEF Calls, TypeOK, ServerTypeOK
  <2>2. call' = [call EXCEPT ![s] = r]
    BY <1>2, <1>5 DEF ReadVersion, TypeOK, ServerTypeOK
  <2>3. call[s].step = "version"
    BY <1>5 DEF ReadVersion
  <2>. HIDE DEF r
  <2>4. OneCall(s)
    BY <1>2, <2>1, <2>2, <2>3 DEF OneCall, Begun, TypeOK, ServerTypeOK
  <2>. QED  BY <1>3, <1>5, <2>4 DEF ReadVersion
<1>6. ASSUME RepeatRefresh(s) PROVE Preserves
  <2>1. call[s].step = "user" /\ version \in Nat
    BY <1>6 DEF RepeatRefresh, TypeOK, ServerTypeOK
  <2>2. Hash(call[s].row.current) \in Cookies
    BY <1>2, <2>1 DEF Begun, Rows, Hash, Cookies
  <2>3. OneCall(s)
    BY <1>6, <2>1, <2>2, GrantIsOneCall DEF RepeatRefresh
  <2>. QED  BY <1>3, <1>6, <2>1, <2>3 DEF RepeatRefresh
<1>7. ASSUME RefuseRefresh(s) \/ AcceptRefresh(s) PROVE Preserves
  <2>1. OneCall(s)
    BY <1>7, GoToIsOneCall DEF RefuseRefresh, AcceptRefresh
  <2>. QED  BY <1>3, <1>7, <2>1 DEF RefuseRefresh, AcceptRefresh
<1>8. ASSUME NEW D \in SUBSET Devices, OneCall(s), call[s].step # "login",
             session' = [d \in Devices |-> IF d \in D THEN None ELSE session[d]],
             version' \in {version, version + 1}, link' \in BOOLEAN
      PROVE  Preserves
  <2>1. /\ session' \in [Devices -> Rows \cup {None}]
        /\ \A d \in Devices : session'[d] = None \/ session'[d] = session[d]
    BY <1>8 DEF TypeOK, ServerTypeOK
  <2>2. call' \in [Requests -> Calls] /\ CallsBegun' /\ LoginsApart'
    BY <1>1, <1>8, <2>1, StepDeleting DEF SessionInv
  <2>3. TypeOK'
    BY <1>1, <1>8, <2>1, <2>2 DEF TypeOK, ServerTypeOK
  <2>4. Asked' = Asked
    BY <1>8, StepKeepsAsked
  <2>5. LifecycleStep
    BY <1>8, <2>4, Closes, Revokes
  <2>. QED  BY <2>2, <2>3, <2>5 DEF Preserves
<1>9. ASSUME EndSession(s) PROVE Preserves
  <2> DEFINE D == {call[s].device}
  <2>1. call[s].device \in Devices /\ call[s].step # "login"
    BY <1>2, <1>9 DEF EndSession, Begun
  <2>2. session' = [d \in Devices |-> IF d \in D THEN None ELSE session[d]]
    BY <1>9 DEF EndSession, TypeOK, ServerTypeOK
  <2>3. OneCall(s)
    BY <1>9, AnswerIsOneCall DEF EndSession
  <2>4. version' = version /\ link' \in BOOLEAN
    BY <1>9 DEF EndSession, Account, TypeOK, ServerTypeOK
  <2>. QED  BY <1>8, <2>1, <2>2, <2>3, <2>4
<1>10. ASSUME Logout(s) PROVE Preserves
  <2> DEFINE D == {d \in Devices : d = call[s].device}
  <2>1. session' = [d \in Devices |-> IF d \in D THEN None ELSE session[d]]
    BY <1>10 DEF Logout
  <2>2. OneCall(s) /\ call[s].step # "login"
    BY <1>10, AnswerIsOneCall DEF Logout
  <2>3. version' = version + 1 /\ link' \in BOOLEAN
    BY <1>10 DEF Logout, TypeOK, ServerTypeOK
  <2>. QED  BY <1>8, <2>1, <2>2, <2>3
<1>11. ASSUME Reset(s) PROVE Preserves
  <2>1. session' = [d \in Devices |-> IF d \in Devices THEN None ELSE session[d]]
    BY <1>11 DEF Reset
  <2>2. OneCall(s) /\ call[s].step # "login"
    BY <1>11, AnswerIsOneCall DEF Reset
  <2>3. version' = version + 1 /\ link' \in BOOLEAN
    BY <1>11 DEF Reset
  <2>. QED  BY <1>8, <2>1, <2>2, <2>3
<1>12. ASSUME NEW k \in Tokens, NEW p \in Tokens \cup {None}, call[s].device \in Devices,
              session' = [session EXCEPT ![call[s].device] = [current |-> k, previous |-> p]],
              Grant(s, call[s].device, Raw(k), call[s].seen), UNCHANGED Account
       PROVE  /\ SessionInv' /\ OneCall(s) /\ UNCHANGED version
              /\ Key' = [Key EXCEPT ![call[s].device] = k]
  <2>1. [current |-> k, previous |-> p] \in Rows
    BY DEF Rows
  <2>2. Raw(k) \in Cookies /\ call[s].seen \in Nat
    BY <1>2 DEF Raw, Cookies, Calls
  <2>3. OneCall(s)
    BY <1>12, <2>2, GrantIsOneCall
  <2>4. OwnDevice(s)
    BY <1>1, <1>12, <2>1 DEF OwnDevice, TypeOK, ServerTypeOK
  <2>5. call' \in [Requests -> Calls] /\ CallsBegun' /\ LoginsApart'
    BY <2>3, <2>4, StepKeepsCalls
  <2>6. TypeOK'
    BY <1>1, <1>12, <2>4, <2>5 DEF TypeOK, ServerTypeOK, OwnDevice, Account
  <2>7. Key' = [Key EXCEPT ![call[s].device] = k]
    BY <1>12, <2>1, KeySet
  <2>. QED  BY <1>12, <2>3, <2>5, <2>6, <2>7 DEF Account
<1>13. ASSUME \E k \in Tokens : FreshToken(k), Rotate(s, NewToken) PROVE Preserves
  <2>1. NewToken \in Tokens /\ FreshToken(NewToken)
    BY <1>13, NewTokenIsFresh
  <2>2. /\ call[s].step = "rotate" /\ call[s].device \in Devices
        /\ call[s].row.current \in Tokens
    BY <1>2, <1>13 DEF Rotate, Begun, Rows
  <2>3. CASE session[call[s].device] = None
    BY <1>3, <1>13, <2>2, <2>3, AnswerIsOneCall DEF Rotate
  <2>4. CASE session[call[s].device] # None
    <3>1. /\ SessionInv' /\ OneCall(s) /\ UNCHANGED version
          /\ Key' = [Key EXCEPT ![call[s].device] = NewToken]
      BY <1>12, <1>13, <2>1, <2>2, <2>4 DEF Rotate
    <3>2. Asked' = Asked
      BY <2>2, <3>1, StepKeepsAsked
    <3>3. call[s].device \in Lifecycle!Open
      BY <2>2, <2>4, KeyTyped DEF Lifecycle!Open
    <3>4. Lifecycle!RenewSession(call[s].device, NewToken)
      BY <2>1, <3>1, <3>2, <3>3, FreshIsUnused DEF Lifecycle!RenewSession
    <3>. QED  BY <2>1, <2>2, <3>1, <3>4 DEF Preserves, LifecycleStep, Lifecycle!Next
  <2>. QED  BY <2>3, <2>4
<1>14. ASSUME \E k \in Tokens : FreshToken(k), Login(s, NewToken) PROVE Preserves
  <2>1. NewToken \in Tokens /\ FreshToken(NewToken)
    BY <1>14, NewTokenIsFresh
  <2>2. call[s].step = "login" /\ call[s].device \in Devices
    BY <1>2, <1>14 DEF Login, Begun
  <2>3. /\ SessionInv' /\ OneCall(s) /\ UNCHANGED version
        /\ Key' = [Key EXCEPT ![call[s].device] = NewToken]
    BY <1>12, <1>14, <2>1, <2>2 DEF Login
  <2>4. Asked' = Asked \ {call[s].device}
    <3>1. \A c \in Requests : c # s => call'[c] = call[c] /\ call[c].device # call[s].device
      BY <2>2, <2>3 DEF OneCall, TypeOK, ServerTypeOK, LoginsApart
    <3>2. call'[s].step # "login"
      BY <2>3 DEF OneCall
    <3>3. ASSUME NEW d \in Devices PROVE d \in Asked' <=> d \in Asked \ {call[s].device}
      BY <2>2, <3>1, <3>2 DEF Asked
    <3>. QED  BY <3>3 DEF Asked
  <2>5. call[s].device \in Asked \ Lifecycle!Open
    BY <2>2, KeyTyped DEF Asked, LoginsApart, Lifecycle!Open
  <2>6. Lifecycle!OpenSession(call[s].device, NewToken)
    BY <2>1, <2>3, <2>4, <2>5, FreshIsUnused DEF Lifecycle!OpenSession
  <2>. QED  BY <2>1, <2>2, <2>3, <2>6 DEF Preserves, LifecycleStep, Lifecycle!Next
<1>. QED
  BY <1>4, <1>5, <1>6, <1>7, <1>9, <1>10, <1>11, <1>13, <1>14 DEF Work

-----------------------------------------------------------------------------
(* The browsers and the user.                                              *)

\* A step of one call that writes nothing of the backend but that call.
LEMMA PagePreserves ==
  ASSUME SessionInv, NEW s \in Requests, OneCall(s), call[s].step # "login",
         UNCHANGED <<Account, session>>,
         jar' \in [Browsers -> Jars],
         \A b \in Browsers : jar'[b].device \in {jar[b].device, call[s].device, None},
         access' \in [Browsers -> AccessTokens \cup {None}],
         slot' \in [Requests -> Slots], lost' \in [Browsers -> BOOLEAN]
  PROVE  Preserves
<1>1. OwnDevice(s)
  BY DEF OwnDevice, SessionInv, TypeOK, ServerTypeOK
<1>2. call' \in [Requests -> Calls] /\ CallsBegun' /\ LoginsApart'
  BY <1>1, StepKeepsCalls
<1>3. TypeOK'
  BY <1>2 DEF SessionInv, TypeOK, ServerTypeOK, Account
<1>4. LifecycleStep
  BY StepKeepsAsked, Stutters DEF Account
<1>. QED  BY <1>2, <1>3, <1>4 DEF SessionInv, Preserves

\* A step that changes no call and no cookie, and deletes rows at most.
LEMMA OutsidePreserves ==
  ASSUME SessionInv, UNCHANGED <<call, jar>>, NEW D \in SUBSET Devices,
         session' = [d \in Devices |-> IF d \in D THEN None ELSE session[d]],
         version' \in {version, version + 1}, link' \in BOOLEAN,
         access' \in [Browsers -> AccessTokens \cup {None}],
         slot' \in [Requests -> Slots], lost' \in [Browsers -> BOOLEAN]
  PROVE  Preserves
<1>1. /\ session' \in [Devices -> Rows \cup {None}]
      /\ \A d \in Devices : session'[d] = None \/ session'[d] = session[d]
  BY DEF SessionInv, TypeOK, ServerTypeOK
<1>2. CallsBegun' /\ LoginsApart' /\ Asked' = Asked
  BY <1>1, CallsKept
<1>3. TypeOK'
  BY <1>1 DEF SessionInv, TypeOK, ServerTypeOK
<1>4. LifecycleStep
  BY <1>2, Closes, Revokes
<1>. QED  BY <1>2, <1>3, <1>4 DEF SessionInv, Preserves

\* The same where no row is deleted.
LEMMA QuietPreserves ==
  ASSUME SessionInv, UNCHANGED <<session, version, call, jar>>, link' \in BOOLEAN,
         access' \in [Browsers -> AccessTokens \cup {None}],
         slot' \in [Requests -> Slots], lost' \in [Browsers -> BOOLEAN]
  PROVE  Preserves
<1> DEFINE D == {}
<1>1. session' = [d \in Devices |-> IF d \in D THEN None ELSE session[d]]
  BY DEF SessionInv, TypeOK, ServerTypeOK
<1>2. D \in SUBSET Devices
  OBVIOUS
<1>. HIDE DEF D
<1>. QED  BY <1>1, <1>2, OutsidePreserves

\* The cookie of a refresh, and the cookies of a login.
LEMMA RefreshedTyped ==
  ASSUME SessionInv, NEW s \in Requests, jar' = [jar EXCEPT ![Of(s)].cookie = call[s].cookie]
  PROVE  /\ jar' \in [Browsers -> Jars]
         /\ \A b \in Browsers : jar'[b].device \in {jar[b].device, call[s].device, None}
<1>1. call[s] \in Calls /\ jar \in [Browsers -> Jars] /\ jar[Of(s)] \in Jars
  BY OfTyped DEF SessionInv, TypeOK, ServerTypeOK
<1>2. [jar[Of(s)] EXCEPT !.cookie = call[s].cookie] \in Jars
  BY <1>1 DEF Jars, Calls
<1>3. [jar[Of(s)] EXCEPT !.cookie = call[s].cookie].device = jar[Of(s)].device
  BY <1>1 DEF Jars
<1>. QED  BY <1>1, <1>2, <1>3, OfTyped

LEMMA SetCookiesTyped ==
  ASSUME SessionInv, NEW s \in Requests, SetCookies(s)
  PROVE  /\ jar' \in [Browsers -> Jars]
         /\ \A b \in Browsers : jar'[b].device \in {jar[b].device, call[s].device, None}
<1>1. call[s] \in Calls
  BY DEF SessionInv, TypeOK, ServerTypeOK
<1>2. [device |-> call[s].device, cookie |-> call[s].cookie] \in Jars
  BY <1>1 DEF Jars, Calls
<1>. QED  BY <1>2, OfTyped DEF SetCookies, SessionInv, TypeOK

LEMMA IssuedTyped ==
  ASSUME SessionInv, NEW s \in Requests
  PROVE  Issued(s) \in AccessTokens
BY DEF SessionInv, TypeOK, ServerTypeOK, Calls, Issued, AccessTokens

LEMMA BeginRefreshIsOneCall ==
  ASSUME SessionInv, NEW s \in Requests, NEW b \in Browsers,
         BeginRefresh(s, jar[b].device, jar[b].cookie)
  PROVE  OneCall(s)
<1>1. jar[b] \in Jars /\ call \in [Requests -> Calls]
  BY DEF SessionInv, TypeOK, ServerTypeOK
<1>2. CASE jar[b].device = None
  <2>1. call' = [call EXCEPT ![s] = [NoCall EXCEPT !.step = "refused"]]
    BY <1>2 DEF BeginRefresh
  <2>. QED  BY <1>1, <2>1, NoCallTyped DEF OneCall, Begun
<1>3. CASE jar[b].device # None
  <2> DEFINE r == [NoCall EXCEPT !.step = "session", !.device = jar[b].device,
                                 !.cookie = jar[b].cookie]
  <2>1. call' = [call EXCEPT ![s] = r]
    BY <1>3 DEF BeginRefresh
  <2>2. r \in Calls /\ r.step = "session" /\ r.device = jar[b].device
    BY <1>1 DEF NoCall, Calls, Jars
  <2>3. jar[b].device \in Devices
    BY <1>1, <1>3 DEF Jars
  <2>. HIDE DEF r
  <2>. QED  BY <1>1, <2>1, <2>2, <2>3 DEF OneCall, Begun
<1>. QED  BY <1>2, <1>3

LEMMA ReactPreserves ==
  ASSUME SessionInv, NEW s \in Requests, React(s)
  PROVE  Preserves
<1>1. /\ call \in [Requests -> Calls] /\ call[s] \in Calls
      /\ jar \in [Browsers -> Jars] /\ slot \in [Requests -> Slots]
      /\ access \in [Browsers -> AccessTokens \cup {None}] /\ lost \in [Browsers -> BOOLEAN]
  BY DEF SessionInv, TypeOK, ServerTypeOK
<1>2. \A step \in {"sent", "queued", "refreshing", "working", "login"} :
        [slot EXCEPT ![s].step = step] \in [Requests -> Slots]
  BY <1>1 DEF Slots
<1>3. /\ Issued(s) \in AccessTokens
      /\ [access EXCEPT ![Of(s)] = Issued(s)] \in [Browsers -> AccessTokens \cup {None}]
      /\ [access EXCEPT ![Of(s)] = None] \in [Browsers -> AccessTokens \cup {None}]
  BY <1>1, IssuedTyped, OfTyped
<1>4. ASSUME Serve(s), UNCHANGED lost PROVE Preserves
  <2>1. call[s].step = "none" /\ UNCHANGED <<Account, session, jar>>
    BY <1>4 DEF Serve
  <2>2. CASE slot[s].kind = "logout"
    <3> DEFINE r == [call[s] EXCEPT !.step = "logout", !.device = jar[Of(s)].device]
    <3>1. r \in Calls /\ r.step = "logout" /\ r.device = jar[Of(s)].device
      BY <1>1, OfTyped DEF Calls, Jars
    <3>2. call' = [call EXCEPT ![s] = r]
      BY <1>1, <1>4, <2>2 DEF Serve, BeginLogout
    <3>. HIDE DEF r
    <3>3. OneCall(s)
      BY <1>1, <3>1, <3>2, OfTyped DEF OneCall, Begun
    <3>4. slot' \in [Requests -> Slots] /\ UNCHANGED access
      BY <1>2, <1>4, <2>2 DEF Serve
    <3>. QED  BY <1>1, <1>4, <2>1, <3>3, <3>4, PagePreserves
  <2>3. CASE slot[s].kind # "logout"
    <3>1. Finish(s) /\ UNCHANGED call
      BY <1>4, <2>3 DEF Serve
    <3>2. /\ slot' \in [Requests -> Slots]
          /\ access' \in [Browsers -> AccessTokens \cup {None}]
      BY <3>1, FinishTyped DEF SessionInv
    <3>3. link' \in BOOLEAN /\ UNCHANGED <<version, session, jar>>
      BY <2>1 DEF Account, SessionInv, TypeOK, ServerTypeOK
    <3>. QED  BY <1>1, <1>4, <3>1, <3>2, <3>3, QuietPreserves
  <2>. QED  BY <2>2, <2>3
<1>5. ASSUME Unauthorized(s), UNCHANGED lost PROVE Preserves
  <2>1. call[s].step = "none" /\ UNCHANGED <<Account, session, jar>>
    BY <1>5 DEF Unauthorized
  <2>2. link' \in BOOLEAN /\ UNCHANGED <<version, session, jar>>
    BY <2>1 DEF Account, SessionInv, TypeOK, ServerTypeOK
  <2>3. CASE slot[s].retry
    <3>1. Finish(s) /\ UNCHANGED call
      BY <1>5, <2>3 DEF Unauthorized
    <3>2. /\ slot' \in [Requests -> Slots]
          /\ access' \in [Browsers -> AccessTokens \cup {None}]
      BY <3>1, FinishTyped DEF SessionInv
    <3>. QED  BY <1>1, <1>5, <2>2, <3>1, <3>2, QuietPreserves
  <2>4. CASE ~slot[s].retry /\ Refreshing(s)
    <3>1. slot' \in [Requests -> Slots] /\ UNCHANGED <<call, access>>
      BY <1>2, <1>5, <2>4 DEF Unauthorized
    <3>. QED  BY <1>1, <1>5, <2>2, <3>1, QuietPreserves
  <2>5. CASE ~slot[s].retry /\ ~Refreshing(s)
    <3>1. slot' \in [Requests -> Slots] /\ UNCHANGED access
      BY <1>2, <1>5, <2>5 DEF Unauthorized
    <3>2. OneCall(s)
      BY <1>5, <2>5, OfTyped, BeginRefreshIsOneCall DEF Unauthorized
    <3>. QED  BY <1>1, <1>5, <2>1, <3>1, <3>2, PagePreserves
  <2>. QED  BY <2>3, <2>4, <2>5
<1>6. ASSUME Refreshed(s), UNCHANGED lost PROVE Preserves
  <2>1. Resent(s) \in [Requests -> Slots]
    BY <1>1, <1>3 DEF Resent, Slots
  <2>2. OneCall(s) /\ call[s].step # "login" /\ UNCHANGED <<Account, session>>
    BY <1>6, TakenIsOneCall DEF Refreshed
  <2>3. /\ slot' \in [Requests -> Slots]
        /\ access' \in [Browsers -> AccessTokens \cup {None}]
        /\ jar' = [jar EXCEPT ![Of(s)].cookie = call[s].cookie]
    BY <1>3, <1>6, <2>1 DEF Refreshed
  <2>. QED  BY <1>1, <1>6, <2>2, <2>3, RefreshedTyped, PagePreserves
<1>7. ASSUME RefreshFailed(s), UNCHANGED lost PROVE Preserves
  <2> DEFINE f == [u \in Requests |->
                     IF u \in Siblings(s) /\ slot[u].step \in {"refreshing", "queued"}
                     THEN IdleSlot ELSE slot[u]]
  <2>1. f \in [Requests -> Slots]
    BY <1>1, IdleTyped
  <2>2. slot' \in [Requests -> Slots]
    BY <1>7, <2>1, EndedTyped DEF RefreshFailed
  <2>3. OneCall(s) /\ call[s].step # "login" /\ UNCHANGED <<Account, session, jar>>
    BY <1>7, TakenIsOneCall DEF RefreshFailed
  <2>4. access' \in [Browsers -> AccessTokens \cup {None}]
    BY <1>3, <1>7 DEF RefreshFailed, Clear
  <2>. QED  BY <1>1, <1>7, <2>2, <2>3, <2>4, PagePreserves
<1>8. ASSUME LoggedOut(s), UNCHANGED lost PROVE Preserves
  <2>1. OneCall(s) /\ call[s].step # "login" /\ UNCHANGED <<Account, session>>
    BY <1>8, TakenIsOneCall DEF LoggedOut
  <2>2. /\ slot' \in [Requests -> Slots]
        /\ access' \in [Browsers -> AccessTokens \cup {None}]
    BY <1>8, FinishTyped DEF LoggedOut, SessionInv
  <2>3. /\ jar' \in [Browsers -> Jars]
        /\ \A b \in Browsers : jar'[b].device \in {jar[b].device, call[s].device, None}
    <3>1. NoCookies \in Jars /\ NoCookies.device = None
      BY DEF NoCookies, Jars
    <3>. QED  BY <1>1, <1>8, <3>1, OfTyped DEF LoggedOut
  <2>. QED  BY <1>1, <1>8, <2>1, <2>2, <2>3, PagePreserves
<1>9. ASSUME Unheard(s), UNCHANGED lost PROVE Preserves
  <2>1. /\ OneCall(s) /\ call[s].step # "login"
        /\ UNCHANGED <<Account, session, jar, access, slot>>
    BY <1>9, TakenIsOneCall DEF Unheard
  <2>. QED  BY <1>1, <1>9, <2>1, PagePreserves
<1>10. ASSUME LoggedIn(s) PROVE Preserves
  <2>1. OneCall(s) /\ call[s].step # "login" /\ UNCHANGED <<Account, session>>
    BY <1>10, TakenIsOneCall DEF LoggedIn
  <2>2. /\ slot' \in [Requests -> Slots]
        /\ access' \in [Browsers -> AccessTokens \cup {None}]
        /\ lost' \in [Browsers -> BOOLEAN]
    BY <1>1, <1>3, <1>10, IdleTyped DEF LoggedIn
  <2>3. SetCookies(s)
    BY <1>10 DEF LoggedIn
  <2>. QED  BY <2>1, <2>2, <2>3, SetCookiesTyped, PagePreserves
<1>. QED
  BY <1>4, <1>5, <1>6, <1>7, <1>8, <1>9, <1>10 DEF React

LEMMA UserPreserves ==
  ASSUME SessionInv, NEW s \in Requests, User(s)
  PROVE  Preserves
<1>1. /\ call \in [Requests -> Calls] /\ call[s] \in Calls
      /\ jar \in [Browsers -> Jars] /\ slot \in [Requests -> Slots]
      /\ access \in [Browsers -> AccessTokens \cup {None}] /\ lost \in [Browsers -> BOOLEAN]
      /\ version \in Nat /\ link \in BOOLEAN /\ session \in [Devices -> Rows \cup {None}]
  BY DEF SessionInv, TypeOK, ServerTypeOK
<1>2. UNCHANGED lost
  BY DEF User
<1>3. ASSUME NEW kind \in Kinds, Send(s, kind) PROVE Preserves
  <2>1. access[Of(s)] \in AccessTokens
    BY <1>1, <1>3, OfTyped DEF Send
  <2>2. [step |-> "sent", kind |-> kind, token |-> access[Of(s)], retry |-> FALSE] \in Slots
    BY <2>1 DEF Slots
  <2>3. slot' \in [Requests -> Slots]
    BY <1>1, <1>3, <2>2 DEF Send
  <2>4. UNCHANGED <<version, link, session, call, jar, access>>
    BY <1>3 DEF Send, serverVars
  <2>. QED  BY <1>1, <1>2, <2>3, <2>4, QuietPreserves
<1>4. ASSUME SubmitRecovery(s) PROVE Preserves
  <2>1. call[s].step # "login" /\ UNCHANGED <<Account, session, jar, access, slot>>
    BY <1>4 DEF SubmitRecovery, Quiet
  <2>2. OneCall(s)
    BY <1>4, GoToIsOneCall DEF SubmitRecovery, BeginReset
  <2>. QED  BY <1>1, <1>2, <2>1, <2>2, PagePreserves
<1>5. ASSUME SubmitLogin(s) PROVE Preserves
  <2> DEFINE d == NewDevice
             r == [NoCall EXCEPT !.step = "login", !.device = d, !.seen = version]
  <2>1. d \in Devices /\ FreshDevice(d)
    BY <1>5, NewDeviceIsFresh DEF SubmitLogin
  <2>. HIDE DEF d
  <2>2. /\ r \in Calls /\ Begun(r) /\ r.step = "login" /\ r.device = d
    BY <1>1, <2>1 DEF NoCall, Calls, Begun
  <2>3. call' = [call EXCEPT ![s] = r]
    BY <1>5 DEF SubmitLogin, BeginLogin, d
  <2>4. UNCHANGED <<version, link, session, jar, access>>
    BY <1>5 DEF SubmitLogin, Account
  <2>5. call[s].step = "none"
    BY <1>5 DEF SubmitLogin, Siblings, Quiet
  <2>. HIDE DEF r
  <2>6. call'[s] = r /\ \A c \in Requests : c # s => call'[c] = call[c]
    BY <1>1, <2>3
  <2>7. TypeOK'
    <3>1. slot' \in [Requests -> Slots]
      BY <1>1, <1>5 DEF SubmitLogin, Slots
    <3>. QED  BY <1>1, <1>2, <2>2, <2>3, <2>4, <3>1 DEF TypeOK, ServerTypeOK
  <2>8. CallsBegun'
    <3>1. \A c \in Requests : Begun(call'[c])
      BY <2>2, <2>6 DEF SessionInv, CallsBegun
    <3>. QED  BY <3>1 DEF CallsBegun, Begun
  <2>9. LoginsApart'
    <3>. SUFFICES ASSUME NEW c \in Requests, call'[c].step = "login"
                  PROVE  /\ session[call'[c].device] = None
                         /\ \A b \in Browsers : jar[b].device # call'[c].device
                         /\ \A u \in Requests \ {c} : call'[u].device # call'[c].device
      BY <2>4 DEF LoginsApart
    <3>1. CASE c = s
      BY <2>1, <2>2, <2>6, <3>1 DEF FreshDevice
    <3>2. CASE c # s
      BY <2>1, <2>2, <2>6, <3>2 DEF FreshDevice, SessionInv, LoginsApart
    <3>. QED  BY <3>1, <3>2
  <2>10. Asked' = Asked \cup {d}
    BY <2>1, <2>2, <2>5, <2>6 DEF Asked
  <2>11. d \notin Lifecycle!Open \cup Asked
    BY <2>1, KeyTyped DEF FreshDevice, Lifecycle!Open, Asked
  <2>12. Key' = Key
    BY <2>4 DEF Key
  <2>13. Lifecycle!AskForSession(d)
    BY <2>4, <2>10, <2>11, <2>12 DEF Lifecycle!AskForSession
  <2>14. LifecycleStep
    BY <2>1, <2>13 DEF LifecycleStep, Lifecycle!Next
  <2>. QED  BY <2>7, <2>8, <2>9, <2>14 DEF Preserves, SessionInv
<1>. QED  BY <1>3, <1>4, <1>5 DEF User

-----------------------------------------------------------------------------
(* Reloads and time.                                                       *)

LEMMA AgedTyped ==
  ASSUME NEW row \in Rows \cup {None}
  PROVE  /\ Aged(row) \in Rows \cup {None}
         /\ Aged(row) = None <=> row = None
         /\ row # None => Aged(row).current = row.current
BY SessionAssumption DEF Aged, Rows

LEMMA GraceEndsPreserves ==
  ASSUME SessionInv, NEW d \in Devices, GraceEnds(d), UNCHANGED <<jar, access, slot, lost>>
  PROVE  Preserves
<1>1. session \in [Devices -> Rows \cup {None}] /\ call \in [Requests -> Calls]
  BY DEF SessionInv, TypeOK, ServerTypeOK
<1>2. /\ session' \in [Devices -> Rows \cup {None}]
      /\ \A e \in Devices : session'[e] = IF e = d THEN Aged(session[e]) ELSE session[e]
  BY <1>1, AgedTyped DEF GraceEnds
<1>3. ASSUME NEW c \in Requests
      PROVE  /\ call'[c] \in Calls /\ Begun(call'[c])
             /\ call'[c].step = call[c].step /\ call'[c].device = call[c].device
  <2>1. call[c] \in Calls /\ Begun(call[c])
    BY <1>1 DEF SessionInv, CallsBegun
  <2>2. call'[c] = IF call[c].device = d THEN [call[c] EXCEPT !.row = Aged(call[c].row)]
                   ELSE call[c]
    BY DEF GraceEnds
  <2>3. /\ Aged(call[c].row) \in Rows \cup {None}
        /\ call[c].row \in Rows => Aged(call[c].row) \in Rows
    BY <2>1, AgedTyped, SessionAssumption DEF Calls
  <2>. QED  BY <2>1, <2>2, <2>3 DEF Calls, Begun
<1>4. TypeOK'
  <2>1. call' \in [Requests -> Calls]
    BY <1>3 DEF GraceEnds
  <2>. QED  BY <1>2, <2>1 DEF SessionInv, TypeOK, ServerTypeOK, GraceEnds, Account
<1>5. CallsBegun'
  BY <1>3 DEF CallsBegun, Begun
<1>6. LoginsApart'
  <2>1. \A c \in Requests : call[c].step = "login" => call[c].device \in Devices
    BY DEF SessionInv, CallsBegun, Begun
  <2>2. \A e \in Devices : session[e] = None => session'[e] = None
    BY <1>1, <1>2, AgedTyped
  <2>. QED  BY <1>3, <2>1, <2>2 DEF SessionInv, LoginsApart
<1>7. Asked' = Asked
  BY <1>3 DEF Asked
<1>8. Key' = Key
  <2>1. ASSUME NEW e \in Devices
        PROVE  (IF session'[e] = None THEN None ELSE session'[e].current)
                 = IF session[e] = None THEN None ELSE session[e].current
    BY <1>1, <1>2, AgedTyped
  <2>. QED  BY <2>1 DEF Key
<1>9. LifecycleStep
  BY <1>7, <1>8 DEF LifecycleStep, GraceEnds, Account
<1>. QED  BY <1>4, <1>5, <1>6, <1>9 DEF Preserves, SessionInv

LEMMA ReloadPreserves ==
  ASSUME SessionInv, NEW t \in Tabs, Reload(t)
  PROVE  Preserves
<1>1. slot' \in [Requests -> Slots] /\ lost' \in [Browsers -> BOOLEAN]
  BY IdleTyped, BrowserAssumption DEF Reload, SessionInv, TypeOK
<1>2. UNCHANGED <<version, link, session, call, jar, access>>
  BY DEF Reload, serverVars
<1>. QED  BY <1>1, <1>2, QuietPreserves DEF SessionInv, TypeOK, ServerTypeOK

LEMMA WorldPreserves ==
  ASSUME SessionInv, World, UNCHANGED lost
  PROVE  Preserves
<1>1. /\ access \in [Browsers -> AccessTokens \cup {None}] /\ slot \in [Requests -> Slots]
      /\ lost \in [Browsers -> BOOLEAN] /\ version \in Nat /\ link \in BOOLEAN
      /\ session \in [Devices -> Rows \cup {None}]
  BY DEF SessionInv, TypeOK, ServerTypeOK
<1>2. ASSUME NEW d \in Devices, SessionExpires(d) PROVE Preserves
  <2> DEFINE D == {d}
  <2>1. session' = [e \in Devices |-> IF e \in D THEN None ELSE session[e]]
    BY <1>1, <1>2 DEF SessionExpires, Expire
  <2>2. UNCHANGED <<call, jar, version, link, access, slot>>
    BY <1>2 DEF SessionExpires, Expire, Account
  <2>3. D \in SUBSET Devices
    OBVIOUS
  <2>. HIDE DEF D
  <2>. QED  BY <1>1, <2>1, <2>2, <2>3, OutsidePreserves
<1>3. ASSUME NEW b \in Browsers, AccessExpires(b) PROVE Preserves
  <2>1. access' \in [Browsers -> AccessTokens \cup {None}]
    BY <1>1, <1>3 DEF AccessExpires, AccessTokens
  <2>2. UNCHANGED <<session, call, jar, version, link, slot>>
    BY <1>3 DEF AccessExpires, serverVars
  <2>. QED  BY <1>1, <2>1, <2>2, QuietPreserves
<1>4. ASSUME NEW d \in Devices, GraceEnds(d), UNCHANGED <<jar, access, slot>> PROVE Preserves
  BY <1>4, GraceEndsPreserves
<1>5. ASSUME NEW all \in BOOLEAN, LogoutElsewhere(all), UNCHANGED <<jar, access, slot>>
      PROVE  Preserves
  <2> DEFINE D == IF all THEN Devices ELSE {}
  <2>1. session' = [d \in Devices |-> IF d \in D THEN None ELSE session[d]]
    BY <1>1, <1>5 DEF LogoutElsewhere
  <2>2. D \in SUBSET Devices /\ version' = version + 1 /\ UNCHANGED <<link, call>>
    BY <1>5 DEF LogoutElsewhere
  <2>. QED  BY <1>1, <1>5, <2>1, <2>2, OutsidePreserves
<1>6. ASSUME ForgotPassword \/ LinkExpires, UNCHANGED <<jar, access, slot>> PROVE Preserves
  BY <1>1, <1>6, QuietPreserves DEF ForgotPassword, LinkExpires
<1>. QED  BY <1>2, <1>3, <1>4, <1>5, <1>6 DEF World

-----------------------------------------------------------------------------

LEMMA NextPreserves == SessionInv /\ [Next]_vars => Preserves
<1>. SUFFICES ASSUME SessionInv, [Next]_vars PROVE Preserves
  OBVIOUS
<1>1. CASE Next
  <2>1. ASSUME NEW s \in Requests, Work(s) \/ React(s) \/ User(s) PROVE Preserves
    BY <2>1, WorkPreserves, ReactPreserves, UserPreserves
  <2>. QED  BY <1>1, <2>1, ReloadPreserves, WorldPreserves DEF Next
<1>2. CASE UNCHANGED vars
  BY <1>2, QuietPreserves DEF vars, serverVars, SessionInv, TypeOK, ServerTypeOK
<1>. QED  BY <1>1, <1>2

LEMMA SessionInvariant == Spec => []SessionInv
<1>1. SessionInv /\ [Next]_vars => SessionInv'
  BY NextPreserves DEF Preserves
<1>. QED  BY <1>1, SessionInit, PTL DEF Spec

\* Safety: every variable of the backend and of the browsers keeps its type,
\* so that no statement of a refresh finds a call without device or row.
THEOREM SessionTypeCorrect == Spec => []TypeOK
<1>1. SessionInv => TypeOK
  BY DEF SessionInv
<1>. QED  BY <1>1, SessionInvariant, PTL

\* Refinement (auth.service.ts): the statements of refreshes, logins,
\* logouts and resets, interleaved in any order, with any number of tabs and
\* devices, implement the sessions that every operation changes in one step.
THEOREM SessionsImplement == Spec => ImplementsLifecycle
<1>1. SessionInv /\ [Next]_vars => [Lifecycle!Next]_<<Asked, Key, version>>
  BY NextPreserves DEF Preserves, LifecycleStep
<1>. QED
  BY <1>1, SessionInvariant, LifecycleInit, PTL DEF Spec, ImplementsLifecycle, Lifecycle!Spec

-----------------------------------------------------------------------------
(* One tab, and all its answers.                                           *)

\* One tab of b at most is open.
SoleBrowser(b) == \A t, u \in Tabs : BrowserOf[t] = b /\ BrowserOf[u] = b => t = u

\* What the backend does for a request is what the tab has asked of it, and
\* a call has a device while it is about one.
Fits(s) ==
  /\ slot[s].step \in {"sent", "queued"} => call[s].step = "none"
  /\ slot[s].step = "refreshing" =>
       call[s].step \in {"session", "version", "user", "rotate", "end", "granted", "refused"}
  /\ slot[s].step = "working" => slot[s].kind = "logout" /\ call[s].step \in {"logout", "done"}
  /\ slot[s].step = "login" => call[s].step \in {"login", "granted"}
  /\ call[s].step = "granted" => call[s].device \in Devices
  /\ call[s].step \in {"none", "reset", "refused", "done"} => call[s].device = None

\* The interceptor's single flight.
OneRefresh ==
  \A s, u \in Requests :
    TabOf[s] = TabOf[u] /\ slot[s].step = "refreshing" /\ slot[u].step = "refreshing" => s = u

HasDevice(b, d) == jar[b].device = d \/ \E s \in Requests : Of(s) = b /\ call[s].device = d

\* A device is one browser's.
BrowsersApart ==
  \A d \in Devices, b, c \in Browsers : HasDevice(b, d) /\ HasDevice(c, d) => b = c

\* A row's previous token is not its current one.
RowsDiffer ==
  /\ \A d \in Devices : session[d] # None => session[d].previous # session[d].current
  /\ \A s \in Requests : call[s].row # None => call[s].row.previous # call[s].row.current

VersionsSeen ==
  /\ \A s \in Requests : call[s].seen <= version
  /\ \A b \in Browsers : access[b] # None => access[b].version <= version

\* Nothing is asked of the backend that concerns a device.
Silent(s) == call[s].step \in {"none", "reset", "done"}

\* An answer that grants carries the token of its session, or its access
\* token is out of date.
Good(s) ==
  call[s].step = "granted" =>
    /\ session[call[s].device] # None => call[s].cookie = Raw(session[call[s].device].current)
    /\ session[call[s].device] = None => call[s].seen # version

\* A login is the only thing a tab does.
LoginAlone(s) ==
  slot[s].step = "login" /\ SoleBrowser(Of(s)) =>
    /\ access[Of(s)] = None
    /\ Good(s)
    /\ \A u \in Requests \ {s} : Of(u) = Of(s) => slot[u].step = "idle" /\ Silent(u)

\* Logged in, or with requests that were sent while it was.
Engaged(b) ==
  access[b] # None \/ \E s \in Requests : Of(s) = b /\ slot[s].step \notin {"idle", "login"}

\* A refresh is about the browser's session and carries its current token; if
\* it ends the session, the access token is already out of date.
InRefresh(s) ==
  /\ call[s].step # "refused" => call[s].device = jar[Of(s)].device
  /\ call[s].step = "refused" => SessionOf(Of(s)) = None
  /\ call[s].step = "session" => call[s].cookie = jar[Of(s)].cookie
  /\ call[s].step \in {"version", "user", "rotate"} => Carries(s, call[s].row.current)
  /\ call[s].step \in {"user", "rotate", "end"} /\ access[Of(s)] # None
       => access[Of(s)].version <= call[s].seen
  /\ call[s].step = "end" => call[s].seen # version
  /\ Good(s)

\* A refresh has rotated the session, its answer has not arrived.
Rotated(b) ==
  \E s \in Requests : Of(s) = b /\ slot[s].step = "refreshing" /\ call[s].step = "granted"

\* The state of a browser with one tab that has had all its answers.
Attended(b) ==
  SoleTab(b) /\ Engaged(b) =>
    /\ \A s \in Requests : Of(s) = b =>
         /\ slot[s].step # "login"
         /\ slot[s].step = "idle" => Silent(s)
         /\ slot[s].step = "refreshing" => InRefresh(s)
    /\ SessionOf(b) # None /\ ~Rotated(b) => jar[b].cookie = Raw(SessionOf(b).current)
    /\ Current(b) => SessionOf(b) # None

\* What holds of all browsers, however many tabs they have.
Common ==
  /\ BrowsersApart /\ RowsDiffer /\ VersionsSeen /\ OneRefresh
  /\ \A s \in Requests : Fits(s)

TabInv ==
  /\ SessionInv
  /\ Common
  /\ \A s \in Requests : LoginAlone(s)
  /\ \A b \in Browsers : Attended(b)

-----------------------------------------------------------------------------
(* What a step of one request leaves alone.                                *)

\* Rows change only for the device of the call, or are all deleted with a new
\* version; devices come from the call, the cookies, or are new.
Local(s) ==
  /\ \A u \in Requests \ {s} : call'[u] = call[u]
  /\ \A u \in Requests : TabOf[u] # TabOf[s] => slot'[u] = slot[u]
  /\ \A b \in Browsers \ {Of(s)} : jar'[b] = jar[b] /\ access'[b] = access[b] /\ lost'[b] = lost[b]
  /\ version' \in Nat /\ version' >= version
  /\ \A d \in Devices : \/ session'[d] = session[d] \/ d = call[s].device
                        \/ session'[d] = None /\ version' > version
  /\ \/ call'[s].device \in {None, call[s].device, jar[Of(s)].device}
     \/ FreshDevice(call'[s].device)
  /\ jar'[Of(s)].device \in {None, call[s].device, jar[Of(s)].device}

LEMMA EndedElsewhere ==
  ASSUME NEW s \in Requests, NEW f, NEW u \in Requests, u \notin Siblings(s)
  PROVE  Ended(s, f)[u] = f[u]
BY DEF Ended

LEMMA WorkIsLocal ==
  ASSUME SessionInv, NEW s \in Requests, Work(s)
  PROVE  Local(s)
<1>1. /\ call \in [Requests -> Calls] /\ version \in Nat /\ session \in [Devices -> Rows \cup {None}]
      /\ UNCHANGED <<jar, access, slot, lost>>
  BY DEF SessionInv, TypeOK, ServerTypeOK, Work
<1>2. NoCall.device = None /\ \A step : [NoCall EXCEPT !.step = step].device = None
  BY DEF NoCall
<1>3. ASSUME UNCHANGED <<Account, session>>, NEW r, call' = [call EXCEPT ![s] = r],
             r.device \in {None, call[s].device}
      PROVE  Local(s)
  BY <1>1, <1>3 DEF Local, Account
<1>4. CASE FindSession(s) \/ ReadVersion(s)
  <2>1. CASE session[call[s].device] # None /\ FindSession(s)
    BY <1>1, <1>3, <2>1 DEF FindSession, Calls
  <2>2. CASE session[call[s].device] = None /\ FindSession(s)
    BY <1>1, <1>2, <1>3, <2>2 DEF FindSession, Answer
  <2>3. CASE ReadVersion(s)
    BY <1>1, <1>3, <2>3 DEF ReadVersion, Calls
  <2>. QED BY <1>4, <2>1, <2>2, <2>3
<1>5. CASE RepeatRefresh(s)
  BY <1>1, <1>3, <1>5 DEF RepeatRefresh, Grant
<1>6. CASE RefuseRefresh(s) \/ AcceptRefresh(s)
  BY <1>1, <1>3, <1>6 DEF RefuseRefresh, AcceptRefresh, GoTo, Calls
<1>7. CASE EndSession(s)
  BY <1>1, <1>2, <1>7 DEF EndSession, Answer, Local, Account
<1>8. CASE Logout(s)
  BY <1>1, <1>2, <1>8 DEF Logout, Answer, Local
<1>9. CASE Reset(s)
  BY <1>1, <1>2, <1>9 DEF Reset, Answer, Local
<1>10. CASE Rotate(s, NewToken)
  <2>1. CASE session[call[s].device] # None
    BY <1>1, <1>10, <2>1 DEF Rotate, Grant, Local, Account
  <2>2. CASE session[call[s].device] = None
    BY <1>2, <1>3, <1>10, <2>2 DEF Rotate, Answer
  <2>. QED BY <2>1, <2>2
<1>11. CASE Login(s, NewToken)
  BY <1>1, <1>11 DEF Login, Grant, Local, Account
<1>. QED BY <1>4, <1>5, <1>6, <1>7, <1>8, <1>9, <1>10, <1>11 DEF Work

LEMMA ReactIsLocal ==
  ASSUME SessionInv, NEW s \in Requests, React(s)
  PROVE  Local(s)
<1>1. /\ call \in [Requests -> Calls] /\ version \in Nat /\ slot \in [Requests -> Slots]
      /\ jar \in [Browsers -> Jars] /\ access \in [Browsers -> AccessTokens \cup {None}]
      /\ lost \in [Browsers -> BOOLEAN] /\ Of(s) \in Browsers
      /\ UNCHANGED <<Account, session>>
  BY OfTyped DEF SessionInv, TypeOK, ServerTypeOK, React, Serve, Unauthorized, Refreshed, RefreshFailed,
     LoggedOut, Unheard, LoggedIn
<1>2. NoCall.device = None /\ \A step : [NoCall EXCEPT !.step = step].device = None
  BY DEF NoCall
<1>3. ASSUME NEW r, call' = [call EXCEPT ![s] = r], r.device \in {None, call[s].device, jar[Of(s)].device},
             NEW k, jar' = [jar EXCEPT ![Of(s)] = k], k.device \in {None, call[s].device, jar[Of(s)].device},
             NEW a, access' = [access EXCEPT ![Of(s)] = a],
             NEW l, lost' = [lost EXCEPT ![Of(s)] = l],
             \A u \in Requests : u \notin Siblings(s) => slot'[u] = slot[u]
      PROVE  Local(s)
  BY <1>1, <1>3 DEF Local, Account, Siblings
<1>4. /\ UNCHANGED call => call' = [call EXCEPT ![s] = call[s]]
      /\ UNCHANGED jar => jar' = [jar EXCEPT ![Of(s)] = jar[Of(s)]]
      /\ UNCHANGED access => access' = [access EXCEPT ![Of(s)] = access[Of(s)]]
      /\ UNCHANGED lost => lost' = [lost EXCEPT ![Of(s)] = lost[Of(s)]]
  BY <1>1
<1>5. s \in Siblings(s)
  BY DEF Siblings
<1>6. ASSUME Finish(s)
      PROVE  /\ \A u \in Requests : u \notin Siblings(s) => slot'[u] = slot[u]
             /\ \E a : access' = [access EXCEPT ![Of(s)] = a]
  <2>1. \A u \in Requests : u \notin Siblings(s) => slot'[u] = [slot EXCEPT ![s] = IdleSlot][u]
    BY <1>6, EndedElsewhere DEF Finish
  <2>2. \A u \in Requests : u \notin Siblings(s) => slot'[u] = slot[u]
    BY <1>1, <1>5, <2>1
  <2>. QED BY <1>4, <1>6, <2>2 DEF Finish, Clear
<1>7. CASE Serve(s) /\ UNCHANGED lost
  <2>1. CASE slot[s].kind = "logout"
    BY <1>1, <1>3, <1>4, <1>5, <1>7, <2>1 DEF Serve, BeginLogout, Calls
  <2>2. CASE slot[s].kind # "logout"
    BY <1>1, <1>3, <1>4, <1>6, <1>7, <2>2 DEF Serve
  <2>. QED BY <2>1, <2>2
<1>8. CASE Unauthorized(s) /\ UNCHANGED lost
  <2>1. CASE slot[s].retry
    BY <1>1, <1>3, <1>4, <1>6, <1>8, <2>1 DEF Unauthorized
  <2>2. CASE ~slot[s].retry /\ Refreshing(s)
    BY <1>1, <1>3, <1>4, <1>5, <1>8, <2>2 DEF Unauthorized
  <2>3. CASE ~slot[s].retry /\ ~Refreshing(s)
    <3> DEFINE r == IF jar[Of(s)].device = None THEN [NoCall EXCEPT !.step = "refused"]
                    ELSE [NoCall EXCEPT !.step = "session", !.device = jar[Of(s)].device,
                                        !.cookie = jar[Of(s)].cookie]
    <3>1. call' = [call EXCEPT ![s] = r]
      BY <1>1, <1>8, <2>3 DEF Unauthorized, BeginRefresh
    <3>2. r.device \in {None, jar[Of(s)].device}
      BY DEF NoCall
    <3>. HIDE DEF r
    <3>. QED BY <1>1, <1>3, <1>4, <1>5, <1>8, <2>3, <3>1, <3>2 DEF Unauthorized
  <2>. QED BY <2>1, <2>2, <2>3
<1>9. CASE Refreshed(s) /\ UNCHANGED lost
  <2>1. \A u \in Requests : u \notin Siblings(s) => slot'[u] = slot[u]
    BY <1>5, <1>9 DEF Refreshed, Resent
  <2> DEFINE k == [jar[Of(s)] EXCEPT !.cookie = call[s].cookie]
  <2>2. jar' = [jar EXCEPT ![Of(s)] = k]
    BY <1>9 DEF Refreshed
  <2>3. k.device = jar[Of(s)].device
    BY <1>1 DEF Jars
  <2>. HIDE DEF k
  <2>. QED BY <1>2, <1>3, <1>4, <1>9, <2>1, <2>2, <2>3 DEF Refreshed, AnswerTaken
<1>10. CASE RefreshFailed(s) /\ UNCHANGED lost
  <2>1. \A u \in Requests : u \notin Siblings(s) => slot'[u] = slot[u]
    BY <1>10, EndedElsewhere DEF RefreshFailed
  <2>. QED BY <1>2, <1>3, <1>4, <1>10, <2>1 DEF RefreshFailed, Clear, AnswerTaken
<1>11. CASE LoggedOut(s) /\ UNCHANGED lost
  <2>1. NoCookies.device = None
    BY DEF NoCookies
  <2>. QED BY <1>2, <1>3, <1>4, <1>6, <1>11, <2>1 DEF LoggedOut, AnswerTaken
<1>12. CASE Unheard(s) /\ UNCHANGED lost
  BY <1>2, <1>3, <1>4, <1>12 DEF Unheard, AnswerTaken
<1>13. CASE LoggedIn(s)
  <2>1. \A u \in Requests : u \notin Siblings(s) => slot'[u] = slot[u]
    BY <1>1, <1>5, <1>13 DEF LoggedIn
  <2>. QED BY <1>2, <1>3, <1>4, <1>13, <2>1 DEF LoggedIn, SetCookies, AnswerTaken
<1>. QED BY <1>7, <1>8, <1>9, <1>10, <1>11, <1>12, <1>13 DEF React

LEMMA UserIsLocal ==
  ASSUME SessionInv, NEW s \in Requests, User(s)
  PROVE  Local(s)
<1>1. /\ call \in [Requests -> Calls] /\ version \in Nat /\ slot \in [Requests -> Slots]
      /\ Of(s) \in Browsers
      /\ UNCHANGED <<version, session, jar, access, lost>>
  BY OfTyped DEF SessionInv, TypeOK, ServerTypeOK, User, Send, SubmitLogin, SubmitRecovery, Account, serverVars
<1>2. ASSUME NEW kind \in Kinds, Send(s, kind) PROVE Local(s)
  BY <1>1, <1>2 DEF Send, Local, serverVars
<1>3. CASE SubmitLogin(s)
  <2>1. FreshDevice(NewDevice)
    BY <1>3, NewDeviceIsFresh DEF SubmitLogin
  <2>2. call' = [call EXCEPT ![s] = [NoCall EXCEPT !.step = "login", !.device = NewDevice, !.seen = version]]
    BY <1>3 DEF SubmitLogin, BeginLogin
  <2>3. [NoCall EXCEPT !.step = "login", !.device = NewDevice, !.seen = version].device = NewDevice
    BY DEF NoCall
  <2>4. FreshDevice(call'[s].device)
    BY <1>1, <2>1, <2>2, <2>3
  <2>. QED BY <1>1, <1>3, <2>2, <2>4 DEF SubmitLogin, Local
<1>4. CASE SubmitRecovery(s)
  BY <1>1, <1>4 DEF SubmitRecovery, BeginReset, GoTo, Local, Calls
<1>. QED BY <1>2, <1>3, <1>4 DEF User

-----------------------------------------------------------------------------
(* What holds of all browsers.                                             *)

LEMMA LocalApart ==
  ASSUME SessionInv, BrowsersApart, NEW s \in Requests, Local(s)
  PROVE  BrowsersApart'
<1>. USE DEF HasDevice
<1>1. None \notin Devices /\ Of(s) \in Browsers
  BY SessionAssumption, OfTyped
<1>2. ASSUME NEW b \in Browsers, NEW d \in Devices, HasDevice(b, d)'
      PROVE  \/ HasDevice(b, d)
             \/ b = Of(s) /\ FreshDevice(d)
  <2>1. CASE jar'[b].device = d
    BY <1>1, <2>1 DEF Local
  <2>2. CASE \E u \in Requests : Of(u) = b /\ call'[u].device = d
    <3>1. PICK u \in Requests : Of(u) = b /\ call'[u].device = d
      BY <2>2
    <3>2. CASE u = s
      BY <1>1, <3>1, <3>2 DEF Local
    <3>3. CASE u # s
      BY <3>1, <3>3 DEF Local
    <3>. QED BY <3>2, <3>3
  <2>. QED BY <1>2, <2>1, <2>2
<1>3. ASSUME NEW b \in Browsers, NEW d \in Devices, FreshDevice(d) PROVE ~ HasDevice(b, d)
  BY <1>3 DEF FreshDevice
<1>. QED BY <1>2, <1>3 DEF BrowsersApart

\* Rows, versions, flights and calls: what remains of Common.
Unshared == RowsDiffer /\ VersionsSeen /\ OneRefresh /\ \A u \in Requests : Fits(u)

LEMMA WorkCommon ==
  ASSUME TabInv, NEW s \in Requests, Work(s)
  PROVE  Unshared'
<1>1. /\ call \in [Requests -> Calls] /\ version \in Nat /\ session \in [Devices -> Rows \cup {None}]
      /\ access \in [Browsers -> AccessTokens \cup {None}] /\ call' \in [Requests -> Calls]
      /\ UNCHANGED <<jar, access, slot, lost>>
      /\ call[s] \in Calls /\ Begun(call[s])
      /\ SessionInv /\ Local(s) /\ Common /\ None \notin Rows
  BY WorkPreserves, WorkIsLocal, SessionAssumption
     DEF TabInv, Preserves, SessionInv, TypeOK, ServerTypeOK, Work, CallsBegun
<1>2. OneRefresh'
  BY <1>1 DEF OneRefresh, Common
<1>3. /\ call'[s].seen <= version'
      /\ call'[s].row # None => call'[s].row.previous # call'[s].row.current
      /\ \A d \in Devices : session'[d] # None => session'[d].previous # session'[d].current
      /\ Fits(s)'
  <2>. USE DEF Common, RowsDiffer, VersionsSeen, Fits
  <2>. DEFINE Holds == /\ call'[s].seen <= version'
                       /\ call'[s].row # None => call'[s].row.previous # call'[s].row.current
                       /\ Fits(s)'
              Rowwise == \A d \in Devices : session'[d] # None => session'[d].previous # session'[d].current
  <2>0. /\ NoCall.device = None /\ NoCall.row = None /\ NoCall.seen = 0
        /\ \A step \in {"refused", "done"} : /\ [NoCall EXCEPT !.step = step].device = None
                                             /\ [NoCall EXCEPT !.step = step].row = None
                                             /\ [NoCall EXCEPT !.step = step].seen = 0
                                             /\ [NoCall EXCEPT !.step = step].step = step
    BY DEF NoCall
  <2>1. CASE FindSession(s)
    <3>1. CASE session[call[s].device] # None
      BY <1>1, <2>1, <3>1 DEF FindSession, Calls, Account, Begun
    <3>2. CASE session[call[s].device] = None
      <4>0. call'[s] = [NoCall EXCEPT !.step = "refused"] /\ version' = version
        BY <1>1, <2>1, <3>2 DEF FindSession, Answer, Account
      <4>1. Holds
        BY <1>1, <2>0, <2>1, <4>0 DEF FindSession
      <4>2. Rowwise
        BY <1>1, <2>1 DEF FindSession
      <4>. QED BY <4>1, <4>2
    <3>. QED BY <3>1, <3>2
  <2>2. CASE ReadVersion(s)
    BY <1>1, <2>2 DEF ReadVersion, Calls, Account
  <2>3. CASE RepeatRefresh(s)
    BY <1>1, <2>3 DEF RepeatRefresh, Grant, Account, Begun
  <2>4. CASE RefuseRefresh(s) \/ AcceptRefresh(s)
    BY <1>1, <2>4 DEF RefuseRefresh, AcceptRefresh, GoTo, Calls, Account
  <2>5. CASE EndSession(s)
    <3>1. Holds
      BY <1>1, <2>0, <2>5 DEF EndSession, Answer, Account
    <3>2. Rowwise
      BY <1>1, <2>5 DEF EndSession
    <3>. QED BY <3>1, <3>2
  <2>6. CASE Logout(s)
    <3>1. Holds
      BY <1>1, <2>0, <2>6 DEF Logout, Answer
    <3>2. Rowwise
      BY <1>1, <2>6 DEF Logout
    <3>. QED BY <3>1, <3>2
  <2>7. CASE Reset(s)
    <3>1. Holds
      BY <1>1, <2>0, <2>7 DEF Reset, Answer
    <3>2. Rowwise
      BY <1>1, <2>7 DEF Reset
    <3>. QED BY <3>1, <3>2
  <2>8. ASSUME \E k \in Tokens : FreshToken(k), Rotate(s, NewToken) PROVE Holds /\ Rowwise
    <3>1. CASE session[call[s].device] # None
      <4>1. Holds
        BY <1>1, <2>8, <3>1 DEF Rotate, Grant, Account, Begun
      <4>2. NewToken # call[s].row.current
        BY <1>1, <2>8, NewTokenIsFresh DEF FreshToken, Rotate, Begun
      <4>3. Rowwise
        BY <1>1, <2>8, <3>1, <4>2 DEF Rotate
      <4>. QED BY <4>1, <4>3
    <3>2. CASE session[call[s].device] = None
      <4>0. call'[s] = [NoCall EXCEPT !.step = "refused"] /\ version' = version
        BY <1>1, <2>8, <3>2 DEF Rotate, Answer, Account
      <4>1. Holds
        BY <1>1, <2>0, <2>8, <4>0 DEF Rotate
      <4>2. Rowwise
        BY <1>1, <2>8, <3>2 DEF Rotate
      <4>. QED BY <4>1, <4>2
    <3>. QED BY <3>1, <3>2
  <2>9. ASSUME \E k \in Tokens : FreshToken(k), Login(s, NewToken) PROVE Holds /\ Rowwise
    <3>1. Holds
      BY <1>1, <2>9 DEF Login, Grant, Account, Begun
    <3>2. NewToken # None
      BY <2>9, NewTokenIsFresh, SessionAssumption
    <3>3. Rowwise
      BY <1>1, <2>9, <3>2 DEF Login
    <3>. QED BY <3>1, <3>3
  <2>. QED BY <2>1, <2>2, <2>3, <2>4, <2>5, <2>6, <2>7, <2>8, <2>9 DEF Work
<1>4. ASSUME NEW u \in Requests \ {s} PROVE call'[u] = call[u]
  BY <1>1 DEF Local
<1>5. RowsDiffer'
  BY <1>1, <1>3, <1>4 DEF RowsDiffer, Common
<1>6. VersionsSeen'
  <2>. \A u \in Requests : call[u].seen \in Nat
    BY <1>1 DEF Calls
  <2>. \A b \in Browsers : access[b] # None => access[b].version \in Nat
    BY <1>1 DEF AccessTokens
  <2>. QED BY <1>1, <1>3, <1>4 DEF VersionsSeen, Common, Local
<1>7. \A u \in Requests : Fits(u)'
  BY <1>1, <1>3, <1>4 DEF Fits, Common
<1>. QED BY <1>2, <1>5, <1>6, <1>7 DEF Unshared

\* A browser's step changes slots of one tab, and the call of one request.
LEMMA EndedSlots ==
  ASSUME TypeOK, NEW s \in Requests, NEW f \in [Requests -> Slots], NEW u \in Requests
  PROVE  Ended(s, f)[u] \in {f[u], IdleSlot}
BY DEF Ended

LEMMA FinishSlots ==
  ASSUME TypeOK, NEW s \in Requests, Finish(s)
  PROVE  /\ slot'[s] = IdleSlot
         /\ \A u \in Requests : slot'[u] \in {slot[u], IdleSlot}
         /\ \A b \in Browsers : access'[b] \in {access[b], None}
<1>1. [slot EXCEPT ![s] = IdleSlot] \in [Requests -> Slots]
  BY IdleTyped DEF TypeOK
<1>2. \A u \in Requests : slot'[u] \in {[slot EXCEPT ![s] = IdleSlot][u], IdleSlot}
  BY <1>1, EndedSlots DEF Finish
<1>. QED BY <1>2 DEF Finish, Clear, TypeOK

\* The tab's own fields change, the rows and the version do not.
LEMMA PageCommon ==
  ASSUME TabInv, NEW s \in Requests, UNCHANGED <<session, version>>,
         \A u \in Requests \ {s} : call'[u] = call[u],
         \A u \in Requests : Fits(u)',
         call'[s].seen <= version, call'[s].row \in {None, call[s].row},
         \A b \in Browsers : access'[b] # None => access'[b].version <= version,
         \A u \in Requests : slot'[u].step = "refreshing"
            => slot[u].step = "refreshing" \/ (u = s /\ ~ Refreshing(s)),
         \A u \in Requests \ {s} : slot'[u].step = "refreshing" => slot[u].step = "refreshing"
  PROVE  Unshared'
<1>1. RowsDiffer'
  BY DEF RowsDiffer, TabInv, Common
<1>2. VersionsSeen'
  BY DEF VersionsSeen, TabInv, Common
<1>3. OneRefresh'
  BY DEF OneRefresh, TabInv, Common, Refreshing, Siblings
<1>. QED BY <1>1, <1>2, <1>3 DEF Unshared

LEMMA ReactCommon ==
  ASSUME TabInv, NEW s \in Requests, React(s)
  PROVE  Unshared'
<1>1. /\ call \in [Requests -> Calls] /\ version \in Nat /\ slot \in [Requests -> Slots]
      /\ jar \in [Browsers -> Jars] /\ access \in [Browsers -> AccessTokens \cup {None}]
      /\ Of(s) \in Browsers /\ call[s] \in Calls /\ slot[s] \in Slots
      /\ \A b \in Browsers : access[b] # None => access[b].version <= version
      /\ \A u \in Requests : Fits(u)
      /\ call[s].seen <= version
      /\ UNCHANGED <<session, version>> /\ SessionInv /\ TypeOK
  BY OfTyped DEF TabInv, Common, VersionsSeen, SessionInv, TypeOK, ServerTypeOK, React, Serve, Unauthorized,
     Refreshed, RefreshFailed, LoggedOut, Unheard, LoggedIn, Account
<1>2. \A u \in Requests \ {s} : call'[u] = call[u]
  BY <1>1, ReactIsLocal DEF Local
<1>3. /\ NoCall.device = None /\ NoCall.row = None /\ NoCall.seen = 0 /\ NoCall.step = "none"
      /\ [NoCall EXCEPT !.step = "refused"].device = None
      /\ [NoCall EXCEPT !.step = "refused"].row = None
      /\ [NoCall EXCEPT !.step = "refused"].seen = 0
      /\ [NoCall EXCEPT !.step = "refused"].step = "refused"
      /\ IdleSlot.step = "idle"
  BY DEF NoCall, IdleSlot
<1>4. Issued(s) # None => Issued(s).version = call[s].seen
  BY DEF Issued
<1>5. \A b \in Browsers : access[b] # None => access[b].version <= version
  BY <1>1
<1>6. CASE Serve(s)
  <2>1. CASE slot[s].kind = "logout"
    <3>1. /\ slot' = [slot EXCEPT ![s].step = "working"] /\ slot[s].step = "sent" /\ UNCHANGED access
          /\ call' = [call EXCEPT ![s].step = "logout", ![s].device = jar[Of(s)].device]
      BY <1>6, <2>1 DEF Serve, BeginLogout
    <3>2. /\ call'[s].step = "logout" /\ call'[s].row = call[s].row /\ call'[s].seen = call[s].seen
          /\ slot'[s].step = "working" /\ slot'[s].kind = "logout"
          /\ \A u \in Requests \ {s} : slot'[u] = slot[u]
      BY <1>1, <2>1, <3>1 DEF Calls, Slots
    <3>3. \A u \in Requests : Fits(u)'
      BY <1>1, <1>2, <3>2 DEF Fits
    <3>. QED BY <1>1, <1>2, <3>1, <3>2, <3>3, PageCommon
  <2>2. CASE slot[s].kind # "logout"
    <3>1. Finish(s) /\ UNCHANGED call
      BY <1>6, <2>2 DEF Serve
    <3>2. \A u \in Requests : Fits(u)'
      BY <1>1, <1>3, <3>1, FinishSlots DEF Fits
    <3>. QED BY <1>1, <1>2, <1>3, <3>1, <3>2, FinishSlots, PageCommon
  <2>. QED BY <2>1, <2>2
<1>7. CASE Unauthorized(s)
  <2>0. slot[s].step = "sent" /\ call[s].step = "none"
    BY <1>7 DEF Unauthorized
  <2>1. CASE slot[s].retry
    <3>1. Finish(s) /\ UNCHANGED call
      BY <1>7, <2>1 DEF Unauthorized
    <3>2. \A u \in Requests : Fits(u)'
      BY <1>1, <1>3, <3>1, FinishSlots DEF Fits
    <3>. QED BY <1>1, <1>2, <1>3, <3>1, <3>2, FinishSlots, PageCommon
  <2>2. CASE ~slot[s].retry /\ Refreshing(s)
    <3>1. slot' = [slot EXCEPT ![s].step = "queued"] /\ UNCHANGED <<call, access>>
      BY <1>7, <2>2 DEF Unauthorized
    <3>2. \A u \in Requests : Fits(u)'
      BY <1>1, <2>0, <3>1 DEF Fits, Slots
    <3>3. \A u \in Requests : slot'[u].step = "refreshing" => slot[u].step = "refreshing"
      BY <1>1, <3>1 DEF Slots
    <3>. QED BY <1>1, <1>2, <3>1, <3>2, <3>3, PageCommon
  <2>3. CASE ~slot[s].retry /\ ~Refreshing(s)
    <3> DEFINE r == IF jar[Of(s)].device = None THEN [NoCall EXCEPT !.step = "refused"]
                    ELSE [NoCall EXCEPT !.step = "session", !.device = jar[Of(s)].device,
                                        !.cookie = jar[Of(s)].cookie]
    <3>1. /\ slot' = [slot EXCEPT ![s].step = "refreshing"] /\ UNCHANGED access
          /\ call' = [call EXCEPT ![s] = r]
      BY <1>7, <2>3 DEF Unauthorized, BeginRefresh
    <3>2. /\ r.row = None /\ r.seen = 0
          /\ \/ r.step = "refused" /\ r.device = None
             \/ r.step = "session"
      BY DEF NoCall
    <3>. HIDE DEF r
    <3>3. \A u \in Requests : Fits(u)'
      <4>1. slot'[s].step = "refreshing" /\ \A u \in Requests \ {s} : slot'[u] = slot[u]
        BY <1>1, <3>1 DEF Slots
      <4>2. call'[s] = r
        BY <1>1, <3>1
      <4>. QED BY <1>1, <1>2, <3>2, <4>1, <4>2 DEF Fits
    <3>. QED BY <1>1, <1>2, <2>3, <3>1, <3>2, <3>3, PageCommon DEF Slots
  <2>. QED BY <2>1, <2>2, <2>3
<1>8. ASSUME AnswerTaken(s) PROVE call'[s] = NoCall
  BY <1>1, <1>8 DEF AnswerTaken
<1>9. CASE Refreshed(s)
  <2>1. call'[s] = NoCall
    BY <1>8, <1>9 DEF Refreshed
  <2>2. /\ slot'[s].step = "sent"
        /\ \A u \in Requests \ {s} : \/ slot'[u] = slot[u]
                                     \/ slot[u].step = "queued" /\ slot'[u].step = "sent"
    <3>1. slot'[s] = [slot[s] EXCEPT !.step = "sent", !.token = Issued(s), !.retry = TRUE]
      BY <1>9 DEF Refreshed, Resent
    <3>2. ASSUME NEW u \in Requests \ {s}
          PROVE  \/ slot'[u] = slot[u]
                 \/ slot[u].step = "queued" /\ slot'[u] = [slot[u] EXCEPT !.step = "sent", !.token = Issued(s)]
      BY <1>9 DEF Refreshed, Resent
    <3>3. \A u \in Requests : slot[u] \in Slots
      BY <1>1
    <3>4. slot'[s].step = "sent"
      BY <3>1, <3>3 DEF Slots
    <3>5. ASSUME NEW u \in Requests \ {s}
          PROVE  \/ slot'[u] = slot[u]
                 \/ slot[u].step = "queued" /\ slot'[u].step = "sent"
      BY <3>2, <3>3 DEF Slots
    <3>. QED BY <3>4, <3>5
  <2>3. \A u \in Requests : Fits(u)'
    BY <1>1, <1>2, <1>3, <2>1, <2>2 DEF Fits
  <2>4. \A b \in Browsers : access'[b] # None => access'[b].version <= version
    BY <1>1, <1>4, <1>9 DEF Refreshed
  <2>. QED BY <1>1, <1>2, <1>3, <2>1, <2>2, <2>3, <2>4, PageCommon
<1>10. CASE RefreshFailed(s)
  <2> DEFINE f == [u \in Requests |->
                     IF u \in Siblings(s) /\ slot[u].step \in {"refreshing", "queued"}
                     THEN IdleSlot ELSE slot[u]]
  <2>1. call'[s] = NoCall /\ f \in [Requests -> Slots]
    BY <1>1, <1>8, <1>10, IdleTyped DEF RefreshFailed
  <2>2. \A u \in Requests : slot'[u] \in {slot[u], IdleSlot}
    BY <2>1, <1>1, <1>10, EndedSlots DEF RefreshFailed
  <2>3. slot'[s] = IdleSlot
    BY <2>1, <1>1, <1>10, EndedSlots DEF RefreshFailed, Siblings
  <2>4. \A u \in Requests : Fits(u)'
    BY <1>1, <1>2, <1>3, <2>1, <2>2, <2>3 DEF Fits
  <2>5. \A b \in Browsers : access'[b] # None => access'[b].version <= version
    BY <1>1, <1>10 DEF RefreshFailed, Clear
  <2>. QED BY <1>1, <1>2, <1>3, <2>1, <2>2, <2>4, <2>5, PageCommon
<1>11. CASE LoggedOut(s)
  <2>1. call'[s] = NoCall /\ Finish(s)
    BY <1>8, <1>11 DEF LoggedOut
  <2>2. \A u \in Requests : Fits(u)'
    BY <1>1, <1>2, <1>3, <2>1, FinishSlots DEF Fits
  <2>. QED BY <1>1, <1>2, <1>3, <2>1, <2>2, FinishSlots, PageCommon
<1>12. CASE Unheard(s)
  <2>1. call'[s] = NoCall /\ UNCHANGED <<access, slot>> /\ slot[s].step = "idle"
    BY <1>8, <1>12 DEF Unheard
  <2>2. \A u \in Requests : Fits(u)'
    BY <1>1, <1>2, <1>3, <2>1 DEF Fits
  <2>. QED BY <1>1, <1>2, <1>3, <2>1, <2>2, PageCommon
<1>13. CASE LoggedIn(s)
  <2>1. call'[s] = NoCall
    BY <1>8, <1>13 DEF LoggedIn
  <2>2. slot'[s] = IdleSlot /\ \A u \in Requests \ {s} : slot'[u] = slot[u]
    BY <1>1, <1>13 DEF LoggedIn
  <2>3. \A u \in Requests : Fits(u)'
    BY <1>1, <1>2, <1>3, <2>1, <2>2 DEF Fits
  <2>4. \A b \in Browsers : access'[b] # None => access'[b].version <= version
    BY <1>1, <1>4, <1>13 DEF LoggedIn
  <2>. QED BY <1>1, <1>2, <1>3, <2>1, <2>2, <2>3, <2>4, PageCommon
<1>. QED BY <1>6, <1>7, <1>9, <1>10, <1>11, <1>12, <1>13 DEF React

LEMMA UserCommon ==
  ASSUME TabInv, NEW s \in Requests, User(s)
  PROVE  Unshared'
<1>1. /\ call \in [Requests -> Calls] /\ version \in Nat /\ slot \in [Requests -> Slots]
      /\ call[s] \in Calls /\ slot[s] \in Slots
      /\ \A b \in Browsers : access[b] # None => access[b].version <= version
      /\ \A u \in Requests : Fits(u)
      /\ call[s].seen <= version
      /\ UNCHANGED <<session, version, access>> /\ SessionInv
  BY DEF TabInv, Common, VersionsSeen, SessionInv, TypeOK, ServerTypeOK, User, Send, SubmitLogin,
     SubmitRecovery, Account, serverVars
<1>2. \A u \in Requests \ {s} : call'[u] = call[u]
  BY <1>1, UserIsLocal DEF Local
<1>3. ASSUME NEW kind \in Kinds, Send(s, kind) PROVE Unshared'
  <2>1. /\ call' = call /\ call[s].step = "none" /\ slot'[s].step = "sent"
        /\ \A u \in Requests \ {s} : slot'[u] = slot[u]
    BY <1>1, <1>3 DEF Send, serverVars, Quiet
  <2>2. \A u \in Requests : Fits(u)'
    BY <1>1, <2>1 DEF Fits
  <2>. QED BY <1>1, <1>2, <2>1, <2>2, PageCommon
<1>4. CASE SubmitLogin(s)
  <2>1. /\ slot'[s].step = "login" /\ \A u \in Requests \ {s} : slot'[u] = slot[u]
        /\ call' = [call EXCEPT ![s] = [NoCall EXCEPT !.step = "login", !.device = NewDevice, !.seen = version]]
    BY <1>1, <1>4 DEF SubmitLogin, BeginLogin, Slots
  <2>2. call'[s].step = "login" /\ call'[s].row = None /\ call'[s].seen = version
    BY <1>1, <2>1 DEF NoCall
  <2>3. \A u \in Requests : Fits(u)'
    BY <1>1, <1>2, <2>1, <2>2 DEF Fits
  <2>. QED BY <1>1, <1>2, <2>1, <2>2, <2>3, PageCommon
<1>5. CASE SubmitRecovery(s)
  <2>1. /\ slot[s].step = "idle" /\ call[s].step = "none" /\ UNCHANGED slot
        /\ call' = [call EXCEPT ![s].step = "reset"]
    BY <1>5 DEF SubmitRecovery, Quiet, BeginReset, GoTo
  <2>2. /\ call'[s].step = "reset" /\ call'[s].device = call[s].device
        /\ call'[s].row = call[s].row /\ call'[s].seen = call[s].seen
    BY <1>1, <2>1 DEF Calls
  <2>3. \A u \in Requests : Fits(u)'
    BY <1>1, <1>2, <2>1, <2>2 DEF Fits
  <2>. QED BY <1>1, <1>2, <2>1, <2>2, <2>3, PageCommon
<1>. QED BY <1>3, <1>4, <1>5 DEF User

\* Time and reloads: no call begins, no slot is new, rows age or are deleted.
LEMMA OutsideCommon ==
  ASSUME TabInv, [Next]_vars,
         UNCHANGED vars \/ (World /\ UNCHANGED lost) \/ \E t \in Tabs : Reload(t)
  PROVE  Common'
<1>1. /\ call \in [Requests -> Calls] /\ version \in Nat /\ slot \in [Requests -> Slots]
      /\ session \in [Devices -> Rows \cup {None}]
      /\ access \in [Browsers -> AccessTokens \cup {None}]
      /\ Common /\ SessionInv
  BY DEF TabInv, SessionInv, TypeOK, ServerTypeOK
<1>2. /\ \A u \in Requests : call[u] \in Calls /\ call[u].seen \in Nat /\ call[u].row \in Rows \cup {None}
      /\ \A b \in Browsers : access[b] # None => access[b].version \in Nat
  BY <1>1 DEF Calls, AccessTokens
<1>3. IdleSlot.step = "idle"
  BY DEF IdleSlot
<1>4. ASSUME UNCHANGED jar, version' \in Nat, version' >= version,
             \A u \in Requests : /\ call'[u].device = call[u].device /\ call'[u].step = call[u].step
                                 /\ call'[u].seen = call[u].seen
                                 /\ call'[u].row = call[u].row \/ call'[u].row = Aged(call[u].row),
             \A d \in Devices : \/ session'[d] = None \/ session'[d] = session[d]
                                \/ session'[d] = Aged(session[d]),
             \A b \in Browsers : access'[b] # None => access[b] # None /\ access'[b].version = access[b].version,
             \A u \in Requests : slot'[u] = slot[u] \/ slot'[u] = IdleSlot
      PROVE  Common'
  <2>1. BrowsersApart'
    <3>1. \A b \in Browsers, d \in Devices : HasDevice(b, d)' => HasDevice(b, d)
      BY <1>4 DEF HasDevice
    <3>. QED BY <1>1, <3>1 DEF BrowsersApart, Common
  <2>2. RowsDiffer'
    <3>1. \A row \in Rows : Aged(row) # None => Aged(row).previous = None /\ Aged(row).current = row.current
      BY DEF Aged, Rows
    <3>2. \A row \in Rows : row.current # None
      BY SessionAssumption DEF Rows
    <3>3. Aged(None) = None
      BY DEF Aged
    <3>. QED BY <1>1, <1>2, <1>4, <3>1, <3>2, <3>3 DEF RowsDiffer, Common
  <2>3. VersionsSeen'
    BY <1>1, <1>2, <1>4 DEF VersionsSeen, Common
  <2>4. OneRefresh'
    BY <1>1, <1>3, <1>4 DEF OneRefresh, Common
  <2>5. \A u \in Requests : Fits(u)'
    BY <1>1, <1>3, <1>4 DEF Fits, Common
  <2>. QED BY <2>1, <2>2, <2>3, <2>4, <2>5 DEF Common
<1>5. CASE UNCHANGED vars
  BY <1>1, <1>4, <1>5 DEF vars, serverVars
<1>6. ASSUME NEW t \in Tabs, Reload(t) PROVE Common'
  BY <1>1, <1>4, <1>6 DEF Reload, serverVars
<1>7. ASSUME NEW d \in Devices, SessionExpires(d) PROVE Common'
  BY <1>1, <1>4, <1>7 DEF SessionExpires, Expire, Account
<1>8. ASSUME NEW b \in Browsers, AccessExpires(b) PROVE Common'
  <2>1. access[b] \in AccessTokens
    BY <1>1, <1>8 DEF AccessExpires
  <2>. QED BY <1>1, <1>4, <1>8, <2>1 DEF AccessExpires, AccessTokens, serverVars
<1>9. ASSUME NEW d \in Devices, GraceEnds(d), UNCHANGED <<jar, access, slot>> PROVE Common'
  <2>1. \A u \in Requests : \/ call'[u] = call[u]
                            \/ call'[u] = [call[u] EXCEPT !.row = Aged(call[u].row)]
    BY <1>9 DEF GraceEnds
  <2>2. \A u \in Requests : /\ call'[u].device = call[u].device /\ call'[u].step = call[u].step
                            /\ call'[u].seen = call[u].seen
                            /\ call'[u].row = call[u].row \/ call'[u].row = Aged(call[u].row)
    BY <1>2, <2>1 DEF Calls
  <2>. QED BY <1>1, <1>4, <1>9, <2>2 DEF GraceEnds, Account
<1>10. ASSUME NEW all \in BOOLEAN, LogoutElsewhere(all), UNCHANGED <<jar, access, slot>> PROVE Common'
  BY <1>1, <1>4, <1>10 DEF LogoutElsewhere
<1>11. ASSUME ForgotPassword \/ LinkExpires, UNCHANGED <<jar, access, slot>> PROVE Common'
  BY <1>1, <1>4, <1>11 DEF ForgotPassword, LinkExpires
<1>. QED BY <1>5, <1>6, <1>7, <1>8, <1>9, <1>10, <1>11 DEF World

-----------------------------------------------------------------------------
(* Each browser.                                                           *)

\* A step that is none of b's business: at most its session is deleted, with
\* a new version, or something ends that is no refresh and no login.
Undisturbed(b) ==
  /\ \A u \in Requests : Of(u) = b =>
       /\ slot'[u] = slot[u]
       /\ \/ call'[u] = call[u]
          \/ Silent(u)' /\ slot[u].step \notin {"refreshing", "login"}
  /\ jar'[b] = jar[b] /\ access'[b] = access[b] /\ lost'[b] = lost[b]
  /\ version' \in Nat /\ version' >= version
  /\ \A d \in Devices : HasDevice(b, d) => \/ session'[d] = session[d]
                                           \/ session'[d] = None /\ version' > version

\* What TabInv says of one browser.
BrowserInv(b) ==
  /\ Attended(b)
  /\ \A u \in Requests : Of(u) = b => LoginAlone(u)

LEMMA UndisturbedKept ==
  ASSUME TabInv, NEW b \in Browsers, Undisturbed(b)
  PROVE  BrowserInv(b)'
<1>1. /\ version \in Nat /\ call \in [Requests -> Calls] /\ jar[b] \in Jars
      /\ access[b] \in AccessTokens \cup {None} /\ None \notin Devices
      /\ session \in [Devices -> Rows \cup {None}]
      /\ VersionsSeen /\ \A u \in Requests : Fits(u)
  BY SessionAssumption DEF TabInv, Common, SessionInv, TypeOK, ServerTypeOK
<1>2. /\ version \in Nat
      /\ \A u \in Requests : call[u].seen \in Nat /\ call[u].seen <= version
      /\ access[b] # None => access[b].version \in Nat /\ access[b].version <= version
  BY <1>1 DEF Calls, AccessTokens, VersionsSeen
<1>3. ASSUME NEW u \in Requests, Of(u) = b, Good(u), call'[u] = call[u] PROVE Good(u)'
  <2>. SUFFICES ASSUME call[u].step = "granted" PROVE Good(u)'
    BY <1>3 DEF Good, Undisturbed
  <2>1. call[u].device \in Devices /\ HasDevice(b, call[u].device)
    BY <1>1, <1>3 DEF Fits, HasDevice
  <2>. QED BY <1>2, <1>3, <2>1 DEF Good, Undisturbed
<1>4. \/ SessionOf(b)' = SessionOf(b)
      \/ SessionOf(b)' = None /\ version' > version
  BY <1>1 DEF SessionOf, Undisturbed, HasDevice, Jars
<1>5. ASSUME NEW u \in Requests, Of(u) = b, InRefresh(u), call'[u] = call[u] PROVE InRefresh(u)'
  <2>1. Good(u) /\ Good(u)'
    BY <1>3, <1>5 DEF InRefresh
  <2>2. SessionOf(b) = None => SessionOf(b)' = None
    BY <1>4
  <2>3. call[u].seen # version => call[u].seen # version'
    BY <1>2 DEF Undisturbed
  <2>. QED BY <1>5, <2>1, <2>2, <2>3 DEF InRefresh, Undisturbed, Carries
<1>6. Engaged(b)' <=> Engaged(b)
  BY DEF Engaged, Undisturbed
<1>7. Rotated(b)' <=> Rotated(b)
  BY DEF Rotated, Undisturbed
<1>8. Current(b)' => Current(b) /\ version' = version
  BY <1>2 DEF Current, Accepted, Undisturbed
<1>9. Attended(b)'
  <2>. SUFFICES ASSUME SoleTab(b)', Engaged(b)'
                PROVE  /\ \A s \in Requests : Of(s) = b =>
                            /\ slot'[s].step # "login"
                            /\ slot'[s].step = "idle" => Silent(s)'
                            /\ slot'[s].step = "refreshing" => InRefresh(s)'
                       /\ SessionOf(b)' # None /\ ~Rotated(b)'
                            => jar'[b].cookie = Raw(SessionOf(b)'.current)
                       /\ Current(b)' => SessionOf(b)' # None
    BY DEF Attended, Raw
  <2>1. SoleTab(b) /\ Engaged(b) /\ Attended(b)
    BY <1>6 DEF SoleTab, Undisturbed, TabInv
  <2>2. \A s \in Requests : Of(s) = b /\ Silent(s) => Silent(s)'
    BY DEF Silent, Undisturbed
  <2>. QED BY <1>4, <1>5, <1>7, <1>8, <2>1, <2>2 DEF Attended, Undisturbed
<1>10. ASSUME NEW u \in Requests, Of(u) = b PROVE LoginAlone(u)'
  BY <1>3, <1>10 DEF LoginAlone, Undisturbed, TabInv, Silent, SoleBrowser
<1>. QED BY <1>9, <1>10 DEF BrowserInv

\* What a request does is none of another browser's business.
LEMMA LocalElsewhere ==
  ASSUME TabInv, NEW s \in Requests, Local(s), NEW b \in Browsers, b # Of(s)
  PROVE  BrowserInv(b)'
<1>1. Of(s) \in Browsers /\ BrowsersApart
  BY OfTyped DEF TabInv, Common
<1>2. \A u \in Requests : Of(u) = b => u # s /\ TabOf[u] # TabOf[s]
  BY DEF Of
<1>3. \A d \in Devices : HasDevice(b, d) => d # call[s].device
  BY <1>1 DEF BrowsersApart, HasDevice
<1>4. Undisturbed(b)
  BY <1>2, <1>3 DEF Local, Undisturbed
<1>. QED BY <1>4, UndisturbedKept

\* A tab that does nothing and is not logged in satisfies everything.
LEMMA ClosedKept ==
  ASSUME NEW b \in Browsers, access'[b] = None,
         \A u \in Requests : Of(u) = b => slot'[u].step = "idle"
  PROVE  BrowserInv(b)'
<1>1. ~ Engaged(b)'
  BY DEF Engaged
<1>. QED BY <1>1 DEF BrowserInv, Attended, LoginAlone

\* Of a browser with several tabs nothing is claimed.
LEMMA ManyTabsKept ==
  ASSUME NEW b \in Browsers, ~ SoleBrowser(b)
  PROVE  BrowserInv(b)'
BY DEF BrowserInv, Attended, LoginAlone, SoleTab, SoleBrowser

LEMMA SoleSiblings ==
  ASSUME NEW s \in Requests, SoleBrowser(Of(s)), NEW u \in Requests, Of(u) = Of(s)
  PROVE  TabOf[u] = TabOf[s] /\ u \in Siblings(s)
BY BrowserAssumption DEF SoleBrowser, Of, Siblings

\* While a tab does anything else there is no login.
LEMMA EngagedNoLogin ==
  ASSUME TabInv, NEW b \in Browsers, SoleBrowser(b), Engaged(b), NEW u \in Requests, Of(u) = b
  PROVE  slot[u].step # "login"
BY DEF TabInv, LoginAlone, Engaged

\* A request in the middle of a refresh is the one its tab refreshes with.
LEMMA RefreshAlone ==
  ASSUME TabInv, NEW s \in Requests, SoleBrowser(Of(s)),
         call[s].step \in {"session", "version", "user", "rotate", "end"} \/ slot[s].step = "refreshing"
  PROVE  /\ \A u \in Requests : Of(u) = Of(s) => slot[u].step # "login"
         /\ SoleTab(Of(s)) /\ Engaged(Of(s)) =>
              /\ slot[s].step = "refreshing" /\ InRefresh(s)
              /\ \A u \in Requests \ {s} : Of(u) = Of(s) => slot[u].step # "refreshing"
              /\ Rotated(Of(s)) <=> call[s].step = "granted"
<1>1. /\ Of(s) \in Browsers /\ Fits(s) /\ OneRefresh /\ Attended(Of(s)) /\ slot[s] \in Slots
      /\ \A u \in Requests : LoginAlone(u)
  BY OfTyped DEF TabInv, Common, SessionInv, TypeOK
<1>2. ASSUME NEW u \in Requests, Of(u) = Of(s) PROVE slot[u].step # "login"
  BY <1>1, <1>2 DEF LoginAlone, Silent, Fits
<1>3. ASSUME SoleTab(Of(s)), Engaged(Of(s))
      PROVE  /\ slot[s].step = "refreshing" /\ InRefresh(s)
             /\ \A u \in Requests \ {s} : Of(u) = Of(s) => slot[u].step # "refreshing"
             /\ Rotated(Of(s)) <=> call[s].step = "granted"
  <2>0. slot[s].step \in {"refreshing", "idle"}
    BY <1>1, <1>2 DEF Fits, Slots
  <2>1. slot[s].step = "refreshing" /\ InRefresh(s)
    BY <1>1, <1>3, <2>0 DEF Attended, Silent
  <2>2. \A u \in Requests \ {s} : Of(u) = Of(s) => slot[u].step # "refreshing"
    BY <1>1, <2>1, SoleSiblings DEF OneRefresh
  <2>. QED BY <2>1, <2>2 DEF Rotated
<1>. QED BY <1>2, <1>3

\* A statement of a refresh: what it must keep.
LEMMA RefreshKept ==
  ASSUME TabInv, NEW s \in Requests, NEW b, b = Of(s), SoleBrowser(b),
         call[s].step \in {"session", "version", "user", "rotate", "end"},
         UNCHANGED <<slot, jar, access, lost, version>>,
         \A u \in Requests \ {s} : call'[u] = call[u],
         SoleTab(b) /\ Engaged(b) =>
           /\ InRefresh(s)'
           /\ call'[s].step # "granted" => SessionOf(b)' \in {SessionOf(b), None}
           /\ Current(b) => SessionOf(b)' # None
  PROVE  BrowserInv(b)'
<1>1. \A u \in Requests : Of(u) = b => slot'[u].step # "login"
  BY RefreshAlone
<1>2. ASSUME SoleTab(b), Engaged(b)
      PROVE  /\ \A u \in Requests : Of(u) = b =>
                  /\ slot'[u].step = "idle" => Silent(u)'
                  /\ slot'[u].step = "refreshing" => InRefresh(u)'
             /\ SessionOf(b)' # None /\ ~Rotated(b)' => jar'[b].cookie = Raw(SessionOf(b)'.current)
             /\ Current(b)' => SessionOf(b)' # None
  <2>1. /\ slot[s].step = "refreshing" /\ ~Rotated(b) /\ Attended(b)
        /\ \A u \in Requests \ {s} : Of(u) = b => slot[u].step # "refreshing"
    BY <1>2, RefreshAlone, OfTyped DEF TabInv
  <2>2. Current(b)' <=> Current(b)
    BY DEF Current, Accepted
  <2>3. call'[s].step = "granted" => Rotated(b)'
    BY <2>1 DEF Rotated
  <2>. QED BY <1>2, <2>1, <2>2, <2>3 DEF Attended, Silent
<1>3. Engaged(b)' = Engaged(b) /\ SoleTab(b)' = SoleTab(b)
  BY DEF Engaged, SoleTab
<1>4. Attended(b)'
  BY <1>1, <1>2, <1>3 DEF Attended, Raw
<1>. QED BY <1>1, <1>4 DEF BrowserInv, LoginAlone

LEMMA WorkOwn ==
  ASSUME TabInv, NEW s \in Requests, Work(s), SoleBrowser(Of(s))
  PROVE  BrowserInv(Of(s))'
<1> DEFINE b == Of(s)
           d == call[s].device
<1>1. /\ call \in [Requests -> Calls] /\ version \in Nat /\ session \in [Devices -> Rows \cup {None}]
      /\ jar \in [Browsers -> Jars] /\ access \in [Browsers -> AccessTokens \cup {None}]
      /\ b \in Browsers /\ call[s] \in Calls /\ Begun(call[s]) /\ None \notin Rows /\ None \notin Devices
      /\ UNCHANGED <<jar, access, slot, lost>>
      /\ Local(s) /\ \A u \in Requests : Fits(u)
      /\ RowsDiffer /\ VersionsSeen /\ Attended(b) /\ LoginAlone(s)
  BY WorkIsLocal, OfTyped, SessionAssumption
     DEF TabInv, Common, SessionInv, TypeOK, ServerTypeOK, Work, CallsBegun
<1>2. /\ \A u \in Requests : call[u].seen \in Nat /\ call[u].seen <= version
      /\ access[b] # None => access[b].version \in Nat /\ access[b].version <= version
      /\ \A u \in Requests \ {s} : call'[u] = call[u]
  BY <1>1 DEF Calls, AccessTokens, VersionsSeen, Local
<1>3. SessionOf(b)' = IF jar[b].device = None THEN None ELSE session'[jar[b].device]
  BY <1>1 DEF SessionOf
<1>. HIDE DEF b
<1>4. b = Of(s)
  BY DEF b
<1>5. CASE Reset(s) \/ Logout(s)
  <2>1. /\ version' = version + 1 /\ call'[s] = [NoCall EXCEPT !.step = "done"]
        /\ call[s].step \in {"reset", "logout"}
        /\ \A e \in Devices : session'[e] \in {session[e], None}
    BY <1>1, <1>5 DEF Reset, Logout, Answer
  <2>2. Silent(s)' /\ slot[s].step \notin {"refreshing", "login"}
    BY <1>1, <2>1 DEF Silent, NoCall, Fits
  <2>3. Undisturbed(b)
    BY <1>1, <1>2, <2>1, <2>2 DEF Undisturbed
  <2>. QED BY <1>1, <1>4, <2>3, UndisturbedKept
<1>6. CASE (\E k \in Tokens : FreshToken(k)) /\ Login(s, NewToken)
  <2>1. /\ call'[s].step = "granted" /\ call'[s].device = d /\ call'[s].cookie = Raw(NewToken)
        /\ session'[d] = [current |-> NewToken, previous |-> None] /\ d \in Devices
        /\ call[s].step = "login" /\ version' = version
    BY <1>1, <1>6 DEF Login, Grant, Begun, Account
  <2>2. ASSUME NEW u \in Requests, Of(u) = b, slot[u].step = "login" PROVE LoginAlone(u)'
    <3>1. u = s
      BY <1>1, <1>4, <2>1, <2>2 DEF TabInv, LoginAlone, Silent
    <3>2. /\ access[b] = None
          /\ \A w \in Requests \ {s} : Of(w) = b => slot[w].step = "idle" /\ Silent(w)
      BY <1>1, <1>4, <2>2, <3>1 DEF LoginAlone
    <3>3. Good(s)'
      <4>1. session'[d] \in Rows
        BY <1>6, <2>1, NewTokenIsFresh DEF Rows
      <4>. QED BY <1>1, <2>1, <4>1 DEF Good, Raw
    <3>. QED BY <1>1, <1>2, <1>4, <3>1, <3>2, <3>3 DEF LoginAlone, Silent
  <2>3. ASSUME SoleTab(b), Engaged(b) PROVE FALSE
    <3>1. slot[s].step # "login"
      BY <1>1, <1>4, <2>3, EngagedNoLogin
    <3>2. slot[s].step = "idle"
      BY <1>1, <2>1, <3>1 DEF Fits, TabInv, SessionInv, TypeOK, Slots
    <3>. QED BY <1>1, <1>4, <2>1, <2>3, <3>2 DEF Attended, Silent
  <2>4. Engaged(b)' = Engaged(b) /\ SoleTab(b)' = SoleTab(b)
    BY <1>1 DEF Engaged, SoleTab
  <2>5. \A u \in Requests : Of(u) = b => LoginAlone(u)'
    BY <1>1, <2>2 DEF LoginAlone
  <2>. QED BY <1>4, <2>3, <2>4, <2>5 DEF BrowserInv, Attended
<1>7. ASSUME call[s].step \in {"session", "version", "user", "rotate", "end"}, version' = version,
             SoleTab(b) /\ Engaged(b) =>
               /\ InRefresh(s)'
               /\ call'[s].step # "granted" => SessionOf(b)' \in {SessionOf(b), None}
               /\ Current(b) => SessionOf(b)' # None
      PROVE  BrowserInv(Of(s))'
  BY <1>1, <1>2, <1>4, <1>7, RefreshKept
<1>8. ASSUME call[s].step \in {"session", "version", "user", "rotate", "end"}, SoleTab(b), Engaged(b)
      PROVE  /\ InRefresh(s)
             /\ call[s].step = "session" /\ SessionOf(b) # None => Carries(s, SessionOf(b).current)
             /\ Current(b) => SessionOf(b) # None
             /\ d = jar[b].device /\ d \in Devices
  <2>1. InRefresh(s) /\ ~Rotated(b)
    BY <1>4, <1>8, RefreshAlone
  <2>2. /\ SessionOf(b) # None => jar[b].cookie = Raw(SessionOf(b).current)
        /\ Current(b) => SessionOf(b) # None
    BY <1>1, <1>8, <2>1 DEF Attended
  <2>. QED BY <1>1, <1>4, <1>8, <2>1, <2>2 DEF InRefresh, Carries, Begun
<1>9. ASSUME UNCHANGED session PROVE SessionOf(b)' = SessionOf(b)
  BY <1>1, <1>9 DEF SessionOf
<1>10. ASSUME call'[s] = [NoCall EXCEPT !.step = "refused"], SessionOf(b)' = None PROVE InRefresh(s)'
  <2>1. call'[s].step = "refused"
    BY <1>10 DEF NoCall
  <2>. QED BY <1>4, <1>10, <2>1 DEF InRefresh, Good
<1>11. CASE FindSession(s)
  <2>1. call[s].step = "session" /\ UNCHANGED <<version, session>>
    BY <1>11 DEF FindSession, Account
  <2>2. ASSUME SoleTab(b), Engaged(b) PROVE InRefresh(s)' /\ call'[s].step # "granted"
    <3>1. SessionOf(b) = session[d]
      BY <1>1, <1>8, <2>1, <2>2 DEF SessionOf
    <3>2. CASE session[d] # None
      <4>1. call'[s] = [call[s] EXCEPT !.step = "version", !.row = session[d]]
        BY <1>1, <1>11, <3>2 DEF FindSession
      <4>2. /\ call'[s].step = "version" /\ call'[s].device = d
            /\ call'[s].cookie = call[s].cookie /\ call'[s].row = session[d]
        BY <1>1, <4>1 DEF Calls
      <4>. QED BY <1>1, <1>4, <1>8, <2>1, <2>2, <3>1, <3>2, <4>2 DEF InRefresh, Carries, Good, Raw
    <3>3. CASE session[d] = None
      <4>1. call'[s] = [NoCall EXCEPT !.step = "refused"]
        BY <1>1, <1>11, <3>3 DEF FindSession, Answer
      <4>. QED BY <1>9, <1>10, <2>1, <3>1, <3>3, <4>1 DEF NoCall
    <3>. QED BY <3>2, <3>3
  <2>. QED BY <1>7, <1>8, <1>9, <2>1, <2>2
<1>12. CASE ReadVersion(s)
  <2>1. /\ call[s].step = "version" /\ UNCHANGED <<version, session>>
        /\ call'[s] = [call[s] EXCEPT !.step = "user", !.seen = version]
    BY <1>1, <1>12 DEF ReadVersion, Account
  <2>2. /\ call'[s].step = "user" /\ call'[s].device = d /\ call'[s].seen = version
        /\ call'[s].cookie = call[s].cookie /\ call'[s].row = call[s].row
    BY <1>1, <2>1 DEF Calls
  <2>3. ASSUME SoleTab(b), Engaged(b) PROVE InRefresh(s)'
    BY <1>1, <1>2, <1>4, <1>8, <2>1, <2>2, <2>3 DEF InRefresh, Carries, Good, Raw
  <2>. QED BY <1>7, <1>8, <1>9, <2>1, <2>2, <2>3
<1>13. CASE RepeatRefresh(s)
  <2>1. call[s].step = "user" /\ Carries(s, call[s].row.previous) /\ UNCHANGED <<version, session>>
    BY <1>13 DEF RepeatRefresh, InGrace, Account
  <2>2. call[s].row.previous # call[s].row.current
    BY <1>1, <2>1 DEF RowsDiffer, Begun
  <2>3. ASSUME SoleTab(b), Engaged(b) PROVE FALSE
    BY <1>8, <2>1, <2>2, <2>3 DEF InRefresh, Carries, Raw
  <2>. QED BY <1>7, <2>1, <2>3
<1>14. CASE RefuseRefresh(s)
  <2>1. /\ call[s].step = "user" /\ UNCHANGED <<version, session>>
        /\ call'[s] = [call[s] EXCEPT !.step = "end"]
        /\ call[s].seen # version \/ ~Carries(s, call[s].row.current)
    BY <1>1, <1>14 DEF RefuseRefresh, GoTo, Account
  <2>2. /\ call'[s].step = "end" /\ call'[s].device = d /\ call'[s].seen = call[s].seen
    BY <1>1, <2>1 DEF Calls
  <2>3. ASSUME SoleTab(b), Engaged(b) PROVE InRefresh(s)'
    BY <1>1, <1>2, <1>4, <1>8, <2>1, <2>2, <2>3 DEF InRefresh, Carries, Good
  <2>. QED BY <1>7, <1>8, <1>9, <2>1, <2>2, <2>3
<1>15. CASE EndSession(s)
  <2>1. /\ call[s].step = "end" /\ version' = version
        /\ call'[s] = [NoCall EXCEPT !.step = "refused"]
        /\ d \in Devices => session'[d] = None
    BY <1>1, <1>15 DEF EndSession, Answer, Account
  <2>2. ASSUME SoleTab(b), Engaged(b)
        PROVE  InRefresh(s)' /\ SessionOf(b)' = None /\ ~Current(b)
    <3>1. SessionOf(b)' = None
      BY <1>3, <1>8, <2>1, <2>2
    <3>2. ~Current(b)
      BY <1>2, <1>4, <1>8, <2>1, <2>2 DEF InRefresh, Current, Accepted
    <3>. QED BY <1>10, <2>1, <3>1, <3>2
  <2>. QED BY <1>7, <2>1, <2>2
<1>16. CASE AcceptRefresh(s)
  <2>1. /\ call[s].step = "user" /\ UNCHANGED <<version, session>>
        /\ call'[s] = [call[s] EXCEPT !.step = "rotate"]
    BY <1>1, <1>16 DEF AcceptRefresh, GoTo, Account
  <2>2. /\ call'[s].step = "rotate" /\ call'[s].device = d /\ call'[s].seen = call[s].seen
        /\ call'[s].cookie = call[s].cookie /\ call'[s].row = call[s].row
    BY <1>1, <2>1 DEF Calls
  <2>3. ASSUME SoleTab(b), Engaged(b) PROVE InRefresh(s)'
    BY <1>1, <1>2, <1>4, <1>8, <2>1, <2>2, <2>3 DEF InRefresh, Carries, Good, Raw
  <2>. QED BY <1>7, <1>8, <1>9, <2>1, <2>2, <2>3
<1>17. CASE (\E k \in Tokens : FreshToken(k)) /\ Rotate(s, NewToken)
  <2>1. call[s].step = "rotate" /\ version' = version
    BY <1>17 DEF Rotate, Account
  <2>2. ASSUME SoleTab(b), Engaged(b)
        PROVE  /\ InRefresh(s)'
               /\ call'[s].step # "granted" => SessionOf(b)' \in {SessionOf(b), None}
               /\ Current(b) => SessionOf(b)' # None
    <3>0. SessionOf(b) = session[d] /\ SessionOf(b)' = session'[d]
      BY <1>1, <1>3, <1>8, <2>1, <2>2 DEF SessionOf
    <3>1. CASE session[d] # None
      <4>1. /\ session'[d] = [current |-> NewToken, previous |-> call[s].row.current]
            /\ call'[s].step = "granted" /\ call'[s].device = d /\ call'[s].cookie = Raw(NewToken)
        BY <1>1, <1>8, <1>17, <2>1, <2>2, <3>1 DEF Rotate, Grant
      <4>2. session'[d] \in Rows
        <5>1. call[s].row.current \in Tokens
          BY <1>1, <2>1 DEF Begun, Rows
        <5>2. NewToken \in Tokens
          BY <1>17, NewTokenIsFresh
        <5>. QED BY <4>1, <5>1, <5>2 DEF Rows
      <4>3. Good(s)'
        <5>1. session'[d] # None /\ session'[d].current = NewToken
          BY <1>1, <4>1, <4>2
        <5>. QED BY <4>1, <5>1 DEF Good, Raw
      <4>4. InRefresh(s)'
        <5>1. d = jar[b].device
          BY <1>8, <2>1, <2>2
        <5>. QED BY <1>1, <1>4, <4>1, <4>3, <5>1 DEF InRefresh
      <4>. QED BY <1>1, <3>0, <4>1, <4>2, <4>4
    <3>2. CASE session[d] = None
      <4>1. UNCHANGED session /\ call'[s] = [NoCall EXCEPT !.step = "refused"]
        BY <1>1, <1>17, <3>2 DEF Rotate, Answer
      <4>. QED BY <1>8, <1>9, <1>10, <2>1, <2>2, <3>0, <3>2, <4>1
    <3>. QED BY <3>1, <3>2
  <2>. QED BY <1>7, <2>1, <2>2
<1>. QED BY <1>4, <1>5, <1>6, <1>11, <1>12, <1>13, <1>14, <1>15, <1>16, <1>17 DEF Work

LEMMA SameInRefresh ==
  ASSUME NEW u \in Requests, InRefresh(u), call'[u] = call[u],
         UNCHANGED <<session, version, jar, access>>
  PROVE  InRefresh(u)'
BY DEF InRefresh, Good, SessionOf, Carries, Raw

\* Whoever ends a logout, ends all requests of the tab.
LEMMA FinishEnds ==
  ASSUME TypeOK, NEW s \in Requests, Finish(s)
  PROVE  /\ slot[s].kind = "logout" =>
              /\ access' = [access EXCEPT ![Of(s)] = None]
              /\ \A u \in Siblings(s) : slot'[u] = IdleSlot
         /\ slot[s].kind # "logout" =>
              UNCHANGED access /\ slot' = [slot EXCEPT ![s] = IdleSlot]
<1>1. slot \in [Requests -> Slots] /\ s \in Siblings(s)
  BY DEF TypeOK, Siblings
<1>2. IdleSlot.kind = "query"
  BY DEF IdleSlot
<1>3. CASE slot[s].kind = "logout"
  BY <1>1, <1>3 DEF Finish, Ended, Clear, Siblings
<1>4. CASE slot[s].kind # "logout"
  <2>1. \A u \in Requests : [slot EXCEPT ![s] = IdleSlot][u] = IdleSlot => slot[u].kind # "logout"
    BY <1>1, <1>2, <1>4
  <2>. QED BY <1>4, <2>1 DEF Finish, Ended, Siblings
<1>. QED BY <1>3, <1>4

\* The tab's own fields change, with no answer to a refresh or login.
LEMMA PageKept ==
  ASSUME TabInv, NEW b \in Browsers, UNCHANGED <<session, version, jar, access, lost>>,
         \A u \in Requests : Of(u) = b => slot'[u].step # "login",
         SoleTab(b) /\ Engaged(b)' =>
           /\ Engaged(b)
           /\ Rotated(b) => Rotated(b)'
           /\ \A u \in Requests : Of(u) = b =>
                /\ slot'[u].step = "idle" => Silent(u)'
                /\ slot'[u].step = "refreshing" => InRefresh(u)'
  PROVE  BrowserInv(b)'
<1>1. SoleTab(b)' = SoleTab(b) /\ Current(b)' = Current(b) /\ SessionOf(b)' = SessionOf(b) /\ Attended(b)
  BY DEF SoleTab, Current, Accepted, SessionOf, TabInv
<1>2. Attended(b)'
  BY <1>1 DEF Attended, Raw
<1>. QED BY <1>2 DEF BrowserInv, LoginAlone

LEMMA FinishKept ==
  ASSUME TabInv, NEW s \in Requests, SoleBrowser(Of(s)), Finish(s),
         slot[s].step \in {"sent", "working"}, Silent(s)',
         \A u \in Requests \ {s} : call'[u] = call[u],
         UNCHANGED <<session, version, lost>>,
         slot[s].kind # "logout" => UNCHANGED jar
  PROVE  BrowserInv(Of(s))'
<1>1. /\ TypeOK /\ slot \in [Requests -> Slots] /\ access \in [Browsers -> AccessTokens \cup {None}]
      /\ Of(s) \in Browsers /\ IdleSlot.step = "idle"
      /\ Attended(Of(s))
  BY OfTyped, IdleTyped DEF TabInv, SessionInv, TypeOK
<1>2. CASE slot[s].kind = "logout"
  <2>1. \A u \in Requests : Of(u) = Of(s) => slot'[u].step = "idle"
    BY <1>1, <1>2, FinishEnds, SoleSiblings
  <2>2. access'[Of(s)] = None
    BY <1>1, <1>2, FinishEnds
  <2>. QED BY <1>1, <2>1, <2>2, ClosedKept
<1>3. CASE slot[s].kind # "logout"
  <2>1. /\ slot'[s].step = "idle" /\ \A u \in Requests \ {s} : slot'[u] = slot[u]
        /\ UNCHANGED <<access, jar>>
    BY <1>1, <1>3, FinishEnds
  <2>2. Engaged(Of(s))
    BY DEF Engaged
  <2>3. \A u \in Requests : Of(u) = Of(s) => slot'[u].step # "login"
    BY <1>1, <2>1, <2>2, EngagedNoLogin
  <2>4. Rotated(Of(s)) => Rotated(Of(s))'
    <3>. SUFFICES ASSUME Rotated(Of(s)) PROVE Rotated(Of(s))'
      OBVIOUS
    <3>1. PICK u \in Requests : Of(u) = Of(s) /\ slot[u].step = "refreshing" /\ call[u].step = "granted"
      BY DEF Rotated
    <3>2. slot'[u].step = "refreshing" /\ call'[u].step = "granted"
      BY <2>1, <3>1
    <3>. QED BY <3>1, <3>2 DEF Rotated
  <2>5. ASSUME SoleTab(Of(s)), NEW u \in Requests, Of(u) = Of(s)
        PROVE  /\ slot'[u].step = "idle" => Silent(u)'
               /\ slot'[u].step = "refreshing" => InRefresh(u)'
    <3>1. CASE u = s
      BY <2>1, <3>1
    <3>2. CASE u # s
      BY <1>1, <2>1, <2>2, <2>5, <3>2, SameInRefresh DEF Attended, Silent
    <3>. QED BY <3>1, <3>2
  <2>. QED BY <1>1, <2>1, <2>2, <2>3, <2>4, <2>5, PageKept
<1>. QED BY <1>2, <1>3

\* One request's slot and call change; the slot is no login's before or after.
LEMMA OneSlotKept ==
  ASSUME TabInv, NEW s \in Requests, SoleBrowser(Of(s)),
         UNCHANGED <<session, version, jar, access, lost>>,
         \A u \in Requests \ {s} : slot'[u] = slot[u] /\ call'[u] = call[u],
         Engaged(Of(s)), ~ Rotated(Of(s)) \/ slot[s].step # "refreshing",
         slot'[s].step \notin {"login", "idle"},
         SoleTab(Of(s)) /\ slot'[s].step = "refreshing" => InRefresh(s)'
  PROVE  BrowserInv(Of(s))'
<1> DEFINE b == Of(s)
<1>1. b \in Browsers /\ Attended(b)
  BY OfTyped DEF TabInv
<1>2. \A u \in Requests : Of(u) = b => slot'[u].step # "login"
  BY <1>1, EngagedNoLogin
<1>3. Rotated(b) => Rotated(b)'
  <2>. SUFFICES ASSUME Rotated(b) PROVE Rotated(b)'
    OBVIOUS
  <2>1. PICK u \in Requests : Of(u) = b /\ slot[u].step = "refreshing" /\ call[u].step = "granted"
    BY DEF Rotated
  <2>. QED BY <2>1 DEF Rotated
<1>4. ASSUME SoleTab(b), NEW u \in Requests, Of(u) = b
      PROVE  /\ slot'[u].step = "idle" => Silent(u)'
             /\ slot'[u].step = "refreshing" => InRefresh(u)'
  <2>1. CASE u = s
    BY <1>4, <2>1
  <2>2. CASE u # s
    BY <1>1, <1>4, <2>2, SameInRefresh DEF Attended, Silent
  <2>. QED BY <2>1, <2>2
<1>. QED BY <1>1, <1>2, <1>3, <1>4, PageKept

LEMMA ReactOwn ==
  ASSUME TabInv, NEW s \in Requests, React(s), SoleBrowser(Of(s))
  PROVE  BrowserInv(Of(s))'
<1> DEFINE b == Of(s)
<1>1. /\ call \in [Requests -> Calls] /\ version \in Nat /\ slot \in [Requests -> Slots]
      /\ jar \in [Browsers -> Jars] /\ access \in [Browsers -> AccessTokens \cup {None}]
      /\ lost \in [Browsers -> BOOLEAN]
      /\ b \in Browsers /\ call[s] \in Calls /\ slot[s] \in Slots
      /\ \A u \in Requests : Fits(u)
      /\ UNCHANGED <<session, version>> /\ SessionInv /\ TypeOK /\ Attended(b)
      /\ None \notin Devices
  BY OfTyped, SessionAssumption DEF TabInv, Common, SessionInv, TypeOK, ServerTypeOK, React, Serve,
     Unauthorized, Refreshed, RefreshFailed, LoggedOut, Unheard, LoggedIn, Account
<1>2. \A u \in Requests \ {s} : call'[u] = call[u]
  BY <1>1, ReactIsLocal DEF Local
<1>3. NoCall.step = "none" /\ IdleSlot.step = "idle"
  BY DEF NoCall, IdleSlot
<1>4. ASSUME AnswerTaken(s) PROVE call'[s] = NoCall /\ Silent(s)'
  BY <1>1, <1>3, <1>4 DEF AnswerTaken, Silent
<1>5. slot[s].step \notin {"idle", "login"} => Engaged(b)
  BY DEF Engaged
<1>6. CASE Serve(s) /\ UNCHANGED lost
  <2>1. slot[s].step = "sent" /\ call[s].step = "none" /\ UNCHANGED jar
    BY <1>6 DEF Serve
  <2>2. CASE slot[s].kind = "logout"
    <3>1. slot' = [slot EXCEPT ![s].step = "working"] /\ UNCHANGED access
      BY <1>6, <2>2 DEF Serve
    <3>2. slot'[s].step = "working" /\ \A u \in Requests \ {s} : slot'[u] = slot[u]
      BY <1>1, <3>1 DEF Slots
    <3>. QED BY <1>1, <1>2, <1>5, <1>6, <2>1, <3>1, <3>2, OneSlotKept
  <2>3. CASE slot[s].kind # "logout"
    <3>1. Finish(s) /\ UNCHANGED call
      BY <1>6, <2>3 DEF Serve
    <3>2. Silent(s)'
      BY <2>1, <3>1 DEF Silent
    <3>. QED BY <1>1, <1>6, <2>1, <3>1, <3>2, FinishKept
  <2>. QED BY <2>2, <2>3
<1>7. CASE Unauthorized(s) /\ UNCHANGED lost
  <2>1. slot[s].step = "sent" /\ call[s].step = "none" /\ UNCHANGED jar
    BY <1>7 DEF Unauthorized
  <2>2. CASE slot[s].retry
    <3>1. Finish(s) /\ UNCHANGED call
      BY <1>7, <2>2 DEF Unauthorized
    <3>2. Silent(s)'
      BY <2>1, <3>1 DEF Silent
    <3>. QED BY <1>1, <1>7, <2>1, <3>1, <3>2, FinishKept
  <2>3. CASE ~slot[s].retry /\ Refreshing(s)
    <3>1. slot' = [slot EXCEPT ![s].step = "queued"] /\ UNCHANGED <<call, access>>
      BY <1>7, <2>3 DEF Unauthorized
    <3>2. slot'[s].step = "queued" /\ \A u \in Requests \ {s} : slot'[u] = slot[u]
      BY <1>1, <3>1 DEF Slots
    <3>. QED BY <1>1, <1>2, <1>5, <1>7, <2>1, <3>1, <3>2, OneSlotKept
  <2>4. CASE ~slot[s].retry /\ ~Refreshing(s)
    <3>1. slot' = [slot EXCEPT ![s].step = "refreshing"] /\ UNCHANGED access
      BY <1>7, <2>4 DEF Unauthorized
    <3>2. slot'[s].step = "refreshing" /\ \A u \in Requests \ {s} : slot'[u] = slot[u]
      BY <1>1, <3>1 DEF Slots
    <3>3. InRefresh(s)'
      <4>1. CASE jar[b].device = None
        <5>1. call'[s] = [NoCall EXCEPT !.step = "refused"]
          BY <1>1, <1>7, <2>4, <4>1 DEF Unauthorized, BeginRefresh
        <5>2. call'[s].step = "refused"
          BY <5>1 DEF NoCall
        <5>3. SessionOf(b)' = None
          BY <2>1, <4>1 DEF SessionOf
        <5>. QED BY <5>2, <5>3 DEF InRefresh, Good
      <4>2. CASE jar[b].device # None
        <5>1. call'[s] = [NoCall EXCEPT !.step = "session", !.device = jar[b].device,
                                        !.cookie = jar[b].cookie]
          BY <1>1, <1>7, <2>4, <4>2 DEF Unauthorized, BeginRefresh
        <5>2. /\ call'[s].step = "session" /\ call'[s].device = jar[b].device
              /\ call'[s].cookie = jar[b].cookie
          BY <5>1 DEF NoCall
        <5>. QED BY <2>1, <5>2 DEF InRefresh, Good
      <4>. QED BY <4>1, <4>2
    <3>. QED BY <1>1, <1>2, <1>5, <1>7, <2>1, <3>1, <3>2, <3>3, OneSlotKept
  <2>. QED BY <2>2, <2>3, <2>4
<1>8. ASSUME slot[s].step = "refreshing", SoleTab(b)
      PROVE  /\ InRefresh(s) /\ Engaged(b)
             /\ \A u \in Requests \ {s} : Of(u) = b => slot[u].step # "refreshing"
  BY <1>5, <1>8, RefreshAlone
<1>9. ASSUME slot[s].step = "refreshing", NEW u \in Requests, Of(u) = b PROVE slot[u].step # "login"
  BY <1>9, RefreshAlone
<1>10. CASE Refreshed(s) /\ UNCHANGED lost
  <2>1. /\ slot[s].step = "refreshing" /\ call[s].step = "granted" /\ call[s].device \in Devices
        /\ call'[s] = NoCall /\ Silent(s)'
        /\ jar'[b].device = jar[b].device /\ jar'[b].cookie = call[s].cookie
        /\ access'[b] = [version |-> call[s].seen, live |-> TRUE]
        /\ slot' = Resent(s)
    <3>1. jar'[b] = [jar[b] EXCEPT !.cookie = call[s].cookie] /\ jar[b] \in Jars
      BY <1>1, <1>10 DEF Refreshed
    <3>2. jar'[b].device = jar[b].device /\ jar'[b].cookie = call[s].cookie
      BY <3>1 DEF Jars
    <3>. QED BY <1>1, <1>4, <1>10, <3>2 DEF Refreshed, Issued, Fits
  <2>2. slot'[s].step = "sent"
    <3>1. slot'[s] = [slot[s] EXCEPT !.step = "sent", !.token = Issued(s), !.retry = TRUE]
      BY <2>1 DEF Resent
    <3>. QED BY <1>1, <3>1 DEF Slots
  <2>3. ASSUME NEW u \in Requests \ {s} PROVE slot'[u] = slot[u] \/ slot'[u].step = "sent"
    <3>1. \/ slot'[u] = slot[u]
          \/ slot'[u] = [slot[u] EXCEPT !.step = "sent", !.token = Issued(s)]
      BY <2>1 DEF Resent
    <3>2. slot[u] \in Slots
      BY <1>1
    <3>. QED BY <3>1, <3>2 DEF Slots
  <2>4. \A u \in Requests : Of(u) = b => slot'[u].step # "login"
    BY <1>9, <2>1, <2>2, <2>3
  <2>5. ASSUME SoleTab(b)'
        PROVE  /\ \A u \in Requests : Of(u) = b =>
                    /\ slot'[u].step = "idle" => Silent(u)'
                    /\ slot'[u].step = "refreshing" => InRefresh(u)'
               /\ SessionOf(b)' # None => jar'[b].cookie = Raw(SessionOf(b)'.current)
               /\ Current(b)' => SessionOf(b)' # None
    <3>1. SoleTab(b)
      BY <1>10, <2>5 DEF SoleTab
    <3>2. jar'[b].device = call[s].device /\ SessionOf(b)' = session[call[s].device]
      BY <1>1, <1>8, <2>1, <3>1 DEF SessionOf, InRefresh
    <3>3. Good(s)
      BY <1>8, <2>1, <3>1 DEF InRefresh
    <3>4. Current(b)' => call[s].seen = version
      BY <1>1, <2>1 DEF Current, Accepted
    <3>5. ASSUME NEW u \in Requests, Of(u) = b
          PROVE  /\ slot'[u].step = "idle" => Silent(u)'
                 /\ slot'[u].step # "refreshing"
      <4>1. CASE u = s
        BY <2>2, <4>1
      <4>2. CASE u # s
        BY <1>1, <1>2, <1>8, <2>1, <2>3, <3>1, <3>5, <4>2 DEF Attended, Silent
      <4>. QED BY <4>1, <4>2
    <3>. QED BY <2>1, <3>2, <3>3, <3>4, <3>5 DEF Good, Raw
  <2>6. Attended(b)'
    BY <2>4, <2>5 DEF Attended, Raw
  <2>. QED BY <2>4, <2>6 DEF BrowserInv, LoginAlone
<1>11. CASE RefreshFailed(s) /\ UNCHANGED lost
  <2> DEFINE f == [u \in Requests |->
                     IF u \in Siblings(s) /\ slot[u].step \in {"refreshing", "queued"}
                     THEN IdleSlot ELSE slot[u]]
  <2>1. /\ slot[s].step = "refreshing" /\ call[s].step = "refused" /\ UNCHANGED jar
        /\ access'[b] = None /\ slot' = Ended(s, f) /\ Silent(s)'
    BY <1>1, <1>4, <1>11 DEF RefreshFailed, Clear
  <2>. HIDE DEF f
  <2>2. CASE \A u \in Siblings(s) : slot'[u] = IdleSlot
    <3>1. \A u \in Requests : Of(u) = b => slot'[u].step = "idle"
      BY <1>3, <2>2, SoleSiblings
    <3>. QED BY <1>1, <2>1, <3>1, ClosedKept
  <2>3. CASE slot' = f
    <3>1. ASSUME NEW u \in Requests, Of(u) = b
          PROVE  /\ slot'[u].step \notin {"refreshing", "login"}
                 /\ slot'[u].step = "idle" => u = s \/ slot[u].step \in {"idle", "refreshing", "queued"}
      <4>1. u \in Siblings(s)
        BY <3>1, SoleSiblings
      <4>. QED BY <1>3, <1>9, <2>1, <2>3, <3>1, <4>1 DEF f
    <3>2. ASSUME SoleTab(b), NEW u \in Requests, Of(u) = b, slot'[u].step = "idle"
          PROVE  Silent(u)'
      <4>1. CASE u = s
        BY <2>1, <4>1
      <4>2. CASE u # s
        <5>1. slot[u].step \in {"idle", "queued"} /\ call'[u] = call[u]
          BY <1>2, <1>8, <2>1, <3>1, <3>2, <4>2
        <5>2. slot[u].step = "queued" => call[u].step = "none"
          BY <1>1 DEF Fits
        <5>. QED BY <1>1, <1>8, <2>1, <3>2, <5>1, <5>2 DEF Attended, Silent
      <4>. QED BY <4>1, <4>2
    <3>3. SoleTab(b) => SessionOf(b)' = None
      BY <1>1, <1>8, <2>1 DEF InRefresh, SessionOf
    <3>4. SoleTab(b)' = SoleTab(b) /\ ~Current(b)'
      BY <1>11, <2>1 DEF SoleTab, Current
    <3>. QED BY <3>1, <3>2, <3>3, <3>4 DEF BrowserInv, LoginAlone, Attended
  <2>4. (\A u \in Siblings(s) : slot'[u] = IdleSlot) \/ slot' = f
    <3>1. f \in [Requests -> Slots]
      BY <1>1, IdleTyped DEF f
    <3>. QED BY <2>1, <3>1 DEF Ended, Siblings
  <2>. QED BY <2>2, <2>3, <2>4
<1>12. CASE LoggedOut(s) /\ UNCHANGED lost
  <2>1. slot[s].step = "working" /\ slot[s].kind = "logout" /\ Finish(s) /\ Silent(s)'
    BY <1>1, <1>4, <1>12 DEF LoggedOut, Fits
  <2>. QED BY <1>1, <1>2, <1>12, <2>1, FinishKept
<1>13. CASE Unheard(s) /\ UNCHANGED lost
  <2>1. slot[s].step = "idle" /\ Silent(s)' /\ UNCHANGED <<jar, access, slot>>
    BY <1>4, <1>13 DEF Unheard
  <2>2. Undisturbed(b)
    BY <1>1, <1>2, <1>13, <2>1 DEF Undisturbed
  <2>. QED BY <1>1, <2>2, UndisturbedKept
<1>14. CASE LoggedIn(s)
  <2>1. /\ slot[s].step = "login" /\ call[s].step = "granted" /\ call[s].device \in Devices
        /\ call'[s] = NoCall /\ Silent(s)'
        /\ jar'[b] = [device |-> call[s].device, cookie |-> call[s].cookie]
        /\ access'[b] = [version |-> call[s].seen, live |-> TRUE]
        /\ slot'[s] = IdleSlot /\ \A u \in Requests \ {s} : slot'[u] = slot[u]
    BY <1>1, <1>4, <1>14 DEF LoggedIn, SetCookies, Issued, Fits
  <2>2. /\ Good(s)
        /\ \A u \in Requests \ {s} : Of(u) = b => slot[u].step = "idle" /\ Silent(u)
    BY <2>1 DEF TabInv, LoginAlone
  <2>3. \A u \in Requests : Of(u) = b => slot'[u].step = "idle" /\ Silent(u)'
    BY <1>2, <1>3, <2>1, <2>2 DEF Silent
  <2>4. SessionOf(b)' = session[call[s].device]
    BY <1>1, <2>1 DEF SessionOf
  <2>5. Current(b)' => call[s].seen = version
    BY <1>1, <2>1 DEF Current, Accepted
  <2>6. /\ SessionOf(b)' # None => jar'[b].cookie = Raw(SessionOf(b)'.current)
        /\ Current(b)' => SessionOf(b)' # None
    BY <2>1, <2>2, <2>4, <2>5 DEF Good, Raw
  <2>. QED BY <2>3, <2>6 DEF BrowserInv, LoginAlone, Attended, Raw
<1>. QED BY <1>6, <1>7, <1>10, <1>11, <1>12, <1>13, <1>14 DEF React

LEMMA UserOwn ==
  ASSUME TabInv, NEW s \in Requests, User(s), SoleBrowser(Of(s))
  PROVE  BrowserInv(Of(s))'
<1> DEFINE b == Of(s)
<1>1. /\ call \in [Requests -> Calls] /\ version \in Nat /\ slot \in [Requests -> Slots]
      /\ b \in Browsers /\ call[s] \in Calls /\ slot[s] \in Slots /\ Attended(b)
      /\ UNCHANGED <<session, version, jar, access, lost>> /\ SessionInv
  BY OfTyped DEF TabInv, SessionInv, TypeOK, ServerTypeOK, User, Send, SubmitLogin, SubmitRecovery,
     Account, serverVars
<1>2. \A u \in Requests \ {s} : call'[u] = call[u]
  BY <1>1, UserIsLocal DEF Local
<1>3. ASSUME NEW kind \in Kinds, Send(s, kind) PROVE BrowserInv(b)'
  <2>1. /\ slot'[s].step = "sent" /\ slot[s].step = "idle"
        /\ \A u \in Requests \ {s} : slot'[u] = slot[u]
    BY <1>1, <1>3 DEF Send, Quiet
  <2>2. Engaged(b)
    BY <1>3 DEF Send, Engaged
  <2>. QED BY <1>1, <1>2, <2>1, <2>2, OneSlotKept
<1>4. CASE SubmitLogin(s)
  <2>1. /\ access[b] = None /\ \A u \in Requests : Of(u) = b => Quiet(u)
        /\ slot'[s].step = "login" /\ \A u \in Requests \ {s} : slot'[u] = slot[u]
        /\ call' = [call EXCEPT ![s] = [NoCall EXCEPT !.step = "login", !.device = NewDevice, !.seen = version]]
    BY <1>1, <1>4, SoleSiblings DEF SubmitLogin, BeginLogin, Slots
  <2>2. call'[s].step = "login"
    BY <1>1, <2>1 DEF NoCall
  <2>3. ~Engaged(b)'
    BY <1>1, <2>1 DEF Engaged, Quiet
  <2>4. LoginAlone(s)'
    BY <1>1, <1>2, <2>1, <2>2 DEF LoginAlone, Good, Silent, Quiet
  <2>5. \A u \in Requests : Of(u) = b => LoginAlone(u)'
    BY <2>1, <2>4 DEF LoginAlone, Quiet
  <2>. QED BY <2>3, <2>5 DEF BrowserInv, Attended
<1>5. CASE SubmitRecovery(s)
  <2>1. slot[s].step = "idle" /\ UNCHANGED slot /\ call' = [call EXCEPT ![s].step = "reset"]
    BY <1>5 DEF SubmitRecovery, Quiet, BeginReset, GoTo
  <2>2. Silent(s)'
    BY <1>1, <2>1 DEF Silent, Calls
  <2>3. Undisturbed(b)
    BY <1>1, <1>2, <2>1, <2>2 DEF Undisturbed
  <2>. QED BY <1>1, <2>3, UndisturbedKept
<1>. QED BY <1>3, <1>4, <1>5 DEF User

\* A row that ages keeps its current token, which is all that counts here.
LEMMA GraceEndsKept ==
  ASSUME TabInv, NEW b \in Browsers, NEW d \in Devices, GraceEnds(d), UNCHANGED <<jar, access, slot, lost>>
  PROVE  BrowserInv(b)'
<1>1. /\ call \in [Requests -> Calls] /\ session \in [Devices -> Rows \cup {None}]
      /\ None \notin Rows /\ None \notin Devices /\ jar[b] \in Jars
      /\ \A u \in Requests : Fits(u) /\ Begun(call[u])
      /\ Attended(b) /\ UNCHANGED version
  BY SessionAssumption DEF TabInv, Common, SessionInv, TypeOK, ServerTypeOK, CallsBegun, GraceEnds, Account
<1>2. \A row \in Rows : Aged(row) \in Rows /\ Aged(row).current = row.current
  BY <1>1 DEF Aged, Rows
<1>3. \A e \in Devices : /\ session'[e] = None <=> session[e] = None
                         /\ session[e] # None => session'[e].current = session[e].current
  <2>1. \A e \in Devices : session'[e] = IF e = d THEN Aged(session[e]) ELSE session[e]
    BY <1>1 DEF GraceEnds
  <2>2. Aged(None) = None
    BY DEF Aged
  <2>. QED BY <1>1, <1>2, <2>1, <2>2
<1>4. ASSUME NEW u \in Requests
      PROVE  /\ call'[u].step = call[u].step /\ call'[u].device = call[u].device
             /\ call'[u].cookie = call[u].cookie /\ call'[u].seen = call[u].seen
             /\ call[u].row \in Rows => call'[u].row.current = call[u].row.current
  <2>1. call'[u] = call[u] \/ call'[u] = [call[u] EXCEPT !.row = Aged(call[u].row)]
    BY DEF GraceEnds
  <2>2. call[u] \in Calls
    BY <1>1
  <2>. QED BY <1>2, <2>1, <2>2 DEF Calls
<1>5. ASSUME NEW u \in Requests PROVE Good(u)' <=> Good(u)
  <2>1. call[u].step = "granted" => call[u].device \in Devices
    BY <1>1 DEF Fits
  <2>. QED BY <1>1, <1>3, <1>4, <2>1 DEF Good, Raw
<1>6. /\ SessionOf(b)' = None <=> SessionOf(b) = None
      /\ SessionOf(b) # None => SessionOf(b)'.current = SessionOf(b).current
  BY <1>1, <1>3 DEF SessionOf, Jars
<1>7. ASSUME NEW u \in Requests, Of(u) = b, InRefresh(u) PROVE InRefresh(u)'
  <2>1. call[u].step \in {"version", "user", "rotate"} => Carries(u, call[u].row.current)'
    <3>1. call[u].step \in {"version", "user", "rotate"} => call[u].row \in Rows
      BY <1>1 DEF Begun
    <3>. QED BY <1>4, <1>7, <3>1 DEF InRefresh, Carries, Raw
  <2>. QED BY <1>1, <1>4, <1>5, <1>6, <1>7, <2>1 DEF InRefresh
<1>8. /\ SoleTab(b)' = SoleTab(b) /\ Engaged(b)' = Engaged(b) /\ Current(b)' = Current(b)
      /\ \A u \in Requests : Silent(u)' = Silent(u)
  BY <1>1, <1>4 DEF SoleTab, Engaged, Current, Accepted, Silent
<1>9. Rotated(b)' = Rotated(b)
  BY <1>4 DEF Rotated
<1>10. Attended(b)'
  BY <1>1, <1>6, <1>7, <1>8, <1>9 DEF Attended, Raw
<1>11. \A u \in Requests : LoginAlone(u)'
  BY <1>5, <1>8 DEF LoginAlone, SoleBrowser, TabInv
<1>. QED BY <1>10, <1>11 DEF BrowserInv

LEMMA OutsideOwn ==
  ASSUME TabInv, NEW b \in Browsers,
         UNCHANGED vars \/ (World /\ UNCHANGED lost) \/ \E t \in Tabs : Reload(t)
  PROVE  BrowserInv(b)'
<1>1. /\ call \in [Requests -> Calls] /\ version \in Nat /\ slot \in [Requests -> Slots]
      /\ session \in [Devices -> Rows \cup {None}]
      /\ access \in [Browsers -> AccessTokens \cup {None}]
      /\ lost \in [Browsers -> BOOLEAN] /\ Attended(b)
      /\ None \notin Devices
  BY SessionAssumption DEF TabInv, SessionInv, TypeOK, ServerTypeOK
<1>2. CASE ~SoleBrowser(b)
  BY <1>2, ManyTabsKept
<1>3. CASE UNCHANGED vars
  <2>1. Undisturbed(b)
    BY <1>1, <1>3 DEF Undisturbed, vars, serverVars
  <2>. QED BY <2>1, UndisturbedKept
<1>4. ASSUME NEW t \in Tabs, Reload(t), SoleBrowser(b) PROVE BrowserInv(b)'
  <2>1. CASE BrowserOf[t] = b
    <3>1. lost'[b] = TRUE
      BY <1>1, <1>4, <2>1 DEF Reload
    <3>2. \A u \in Requests : Of(u) = b => TabOf[u] = t
      BY <1>4, <2>1, BrowserAssumption DEF SoleBrowser, Of
    <3>3. \A u \in Requests : Of(u) = b => slot'[u].step = "idle"
      BY <1>4, <3>2, IdleTyped DEF Reload
    <3>. QED BY <3>1, <3>3 DEF BrowserInv, Attended, SoleTab, LoginAlone
  <2>2. CASE BrowserOf[t] # b
    <3>1. \A u \in Requests : Of(u) = b => slot'[u] = slot[u]
      BY <1>4, <2>2 DEF Reload, Of
    <3>2. lost'[b] = lost[b] /\ UNCHANGED <<version, session, call, jar, access>>
      BY <1>1, <1>4, <2>2 DEF Reload, serverVars
    <3>3. Undisturbed(b)
      BY <1>1, <3>1, <3>2 DEF Undisturbed
    <3>. QED BY <3>3, UndisturbedKept
  <2>. QED BY <2>1, <2>2
<1>5. ASSUME NEW d \in Devices, SessionExpires(d), UNCHANGED lost PROVE BrowserInv(b)'
  <2>1. /\ UNCHANGED <<version, call, jar, access, slot>>
        /\ session' = [session EXCEPT ![d] = None]
        /\ \A u \in Requests : call[u].device # d
    BY <1>5 DEF SessionExpires, Expire, Account
  <2>2. CASE jar[b].device = d
    <3>1. AllQuiet(b) /\ ~Current(b)
      BY <1>5, <2>2 DEF SessionExpires, Current, Accepted
    <3>2. ~Current(b)' /\ SessionOf(b)' = None
      BY <1>1, <2>1, <2>2, <3>1 DEF Current, Accepted, SessionOf
    <3>3. \A u \in Requests : Of(u) = b => slot'[u].step = "idle" /\ Silent(u)'
      BY <2>1, <3>1 DEF AllQuiet, Quiet, Silent
    <3>. QED BY <3>2, <3>3 DEF BrowserInv, Attended, LoginAlone
  <2>3. CASE jar[b].device # d
    <3>1. \A e \in Devices : HasDevice(b, e) => e # d
      BY <2>1, <2>3 DEF HasDevice
    <3>2. Undisturbed(b)
      BY <1>1, <1>5, <2>1, <3>1 DEF Undisturbed
    <3>. QED BY <3>2, UndisturbedKept
  <2>. QED BY <2>2, <2>3
<1>6. ASSUME NEW c \in Browsers, AccessExpires(c), UNCHANGED lost PROVE BrowserInv(b)'
  <2>1. CASE b # c
    <3>1. Undisturbed(b)
      BY <1>1, <1>6, <2>1 DEF Undisturbed, AccessExpires, serverVars
    <3>. QED BY <3>1, UndisturbedKept
  <2>2. CASE b = c
    <3>1. /\ AllQuiet(b) /\ access[b] \in AccessTokens
          /\ access'[b] = [access[b] EXCEPT !.live = FALSE]
          /\ UNCHANGED <<version, session, call, jar, slot>>
      BY <1>1, <1>6, <2>2 DEF AccessExpires, serverVars
    <3>2. ~Current(b)'
      BY <3>1 DEF Current, Accepted, AccessTokens
    <3>3. \A u \in Requests : Of(u) = b => slot'[u].step = "idle" /\ Silent(u)'
      BY <3>1 DEF AllQuiet, Quiet, Silent
    <3>4. Engaged(b) /\ SoleTab(b)' = SoleTab(b) /\ SessionOf(b)' = SessionOf(b)
      BY <1>6, <2>2, <3>1 DEF AccessExpires, Engaged, SoleTab, SessionOf
    <3>5. ~Rotated(b)
      BY <3>1 DEF Rotated, AllQuiet, Quiet
    <3>6. Attended(b)'
      BY <1>1, <3>1, <3>2, <3>3, <3>4, <3>5 DEF Attended, Raw
    <3>. QED BY <3>3, <3>6 DEF BrowserInv, LoginAlone
  <2>. QED BY <2>1, <2>2
<1>7. ASSUME NEW d \in Devices, GraceEnds(d), UNCHANGED <<jar, access, slot, lost>> PROVE BrowserInv(b)'
  BY <1>7, GraceEndsKept
<1>8. ASSUME NEW all \in BOOLEAN, LogoutElsewhere(all), UNCHANGED <<jar, access, slot, lost>>
      PROVE  BrowserInv(b)'
  <2>1. Undisturbed(b)
    BY <1>1, <1>8 DEF Undisturbed, LogoutElsewhere
  <2>. QED BY <2>1, UndisturbedKept
<1>9. ASSUME ForgotPassword \/ LinkExpires, UNCHANGED <<jar, access, slot, lost>> PROVE BrowserInv(b)'
  <2>1. Undisturbed(b)
    BY <1>1, <1>9 DEF Undisturbed, ForgotPassword, LinkExpires
  <2>. QED BY <2>1, UndisturbedKept
<1>. QED BY <1>2, <1>3, <1>4, <1>5, <1>6, <1>7, <1>8, <1>9 DEF World

LEMMA TabInit == Init => TabInv
<1>. SUFFICES ASSUME Init PROVE TabInv
  OBVIOUS
<1>1. /\ \A u \in Requests : call[u] = NoCall /\ slot[u] = IdleSlot
      /\ \A d \in Devices : session[d] = None
      /\ \A b \in Browsers : access[b] = None /\ jar[b] = NoCookies
      /\ version = 0 /\ None \notin Devices
  BY SessionAssumption DEF Init, ServerInit
<1>2. /\ NoCall.step = "none" /\ NoCall.device = None /\ NoCall.row = None /\ NoCall.seen = 0
      /\ IdleSlot.step = "idle" /\ NoCookies.device = None
  BY DEF NoCall, IdleSlot, NoCookies
<1>3. BrowsersApart
  BY <1>1, <1>2 DEF BrowsersApart, HasDevice
<1>4. RowsDiffer /\ VersionsSeen /\ OneRefresh /\ \A s \in Requests : Fits(s)
  BY <1>1, <1>2 DEF RowsDiffer, VersionsSeen, OneRefresh, Fits
<1>5. (\A s \in Requests : LoginAlone(s)) /\ \A b \in Browsers : Attended(b)
  BY <1>1, <1>2 DEF LoginAlone, Attended, Engaged
<1>. QED BY <1>3, <1>4, <1>5, SessionInit DEF TabInv, Common

LEMMA NextKeepsTabs == TabInv /\ [Next]_vars => TabInv'
<1>. SUFFICES ASSUME TabInv, [Next]_vars PROVE TabInv'
  OBVIOUS
<1>1. SessionInv /\ SessionInv'
  BY NextPreserves DEF TabInv, Preserves
<1>2. \A s \in Requests : Of(s) \in Browsers
  BY OfTyped
<1>3. ASSUME NEW s \in Requests, Work(s) \/ React(s) \/ User(s)
      PROVE  Common' /\ \A b \in Browsers : BrowserInv(b)'
  <2>1. Local(s)
    BY <1>1, <1>3, WorkIsLocal, ReactIsLocal, UserIsLocal
  <2>2. BrowsersApart'
    BY <1>1, <2>1, LocalApart DEF TabInv, Common
  <2>3. Unshared'
    BY <1>3, WorkCommon, ReactCommon, UserCommon
  <2>4. ASSUME NEW b \in Browsers PROVE BrowserInv(b)'
    <3>1. CASE b # Of(s)
      BY <2>1, <3>1, LocalElsewhere
    <3>2. CASE b = Of(s) /\ SoleBrowser(b)
      BY <1>3, <3>2, WorkOwn, ReactOwn, UserOwn
    <3>3. CASE ~SoleBrowser(b)
      BY <3>3, ManyTabsKept
    <3>. QED BY <3>1, <3>2, <3>3
  <2>. QED BY <2>2, <2>3, <2>4 DEF Common, Unshared
<1>4. ASSUME UNCHANGED vars \/ (World /\ UNCHANGED lost) \/ \E t \in Tabs : Reload(t)
      PROVE  Common' /\ \A b \in Browsers : BrowserInv(b)'
  BY <1>4, OutsideCommon, OutsideOwn
<1>5. Common' /\ \A b \in Browsers : BrowserInv(b)'
  BY <1>3, <1>4 DEF Next
<1>. QED BY <1>1, <1>2, <1>5 DEF TabInv, BrowserInv

LEMMA TabsInvariant == Spec => []TabInv
<1>1. Init => TabInv
  BY TabInit
<1>2. TabInv /\ [Next]_vars => TabInv'
  BY NextKeepsTabs
<1>. QED BY <1>1, <1>2, PTL DEF Spec

\* Safety (refresh, "re-sync the cookie with the CURRENT valid refresh
\* token"): where one tab does all the refreshing, and has had all answers, a
\* browser that is logged in and at rest holds the current token.
THEOREM SoleTabsInSync == Spec => []SoleTabInSync
<1>1. ASSUME TabInv PROVE SoleTabInSync
  <2>. SUFFICES ASSUME NEW b \in Browsers, SoleTab(b), AllQuiet(b), access[b] # None, SessionOf(b) # None
                PROVE  jar[b].cookie = Raw(SessionOf(b).current)
    BY DEF SoleTabInSync, InSync
  <2>1. Engaged(b) /\ ~Rotated(b)
    BY DEF Engaged, Rotated, AllQuiet, Quiet
  <2>. QED BY <1>1, <2>1 DEF TabInv, Attended
<1>. QED BY <1>1, TabsInvariant, PTL

\* Safety (logout, resetPassword): where one tab does all the refreshing, an
\* access token the backend accepts has a session, so that whoever ends
\* sessions ends the access they gave as well.
THEOREM AcceptedHaveSessions == Spec => []AcceptedHasSession
<1>1. ASSUME TabInv PROVE AcceptedHasSession
  <2>1. \A b \in Browsers : Current(b) => Engaged(b)
    BY DEF Current, Engaged
  <2>. QED BY <1>1, <2>1 DEF AcceptedHasSession, TabInv, Attended
<1>. QED BY <1>1, TabsInvariant, PTL
=============================================================================
