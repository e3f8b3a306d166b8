---------------------------- MODULE SessionProofs ----------------------------
(***************************************************************************)
(* Proofs about Sessions, for every value of the constants: any number of  *)
(* sessions and concurrent requests, with every fault, and any lifetimes   *)
(* and clocks within NonceAssumption.                                      *)
(***************************************************************************)
EXTENDS Sessions, TLAPS

AllCalls == RefreshCall \cup RevokeCall \cup UseCall

\* A request that has an answer is over, and one past the middleware has a row.
LocalInv ==
  \A r \in Requests :
    /\ reply[r] # None => step[r] = "done"
    /\ reply[r] = "ok" => sess[r] # None /\ sessions[sess[r]] # None

TypeInv == TypeOK /\ LocalInv

LEMMA InitTypeInv == Init => TypeInv
  BY NoneAssumption, TimesAssumption
  DEF Init, TypeInv, TypeOK, LocalInv, Running, Codes

LEMMA CallFields ==
  /\ \A c \in RefreshCall : c.op = "refresh" /\ c.token \in Tokens /\ c.refresh \in Tokens
  /\ \A c \in RevokeCall : c.op = "revoke" /\ c.token \in Tokens
  /\ \A c \in UseCall : /\ c.op = "use" /\ c.token \in Tokens /\ c.nonce \in Nonces
                        /\ c.ts \in Nat /\ c.body \in BOOLEAN
  BY TimesAssumption DEF RefreshCall, RevokeCall, UseCall

LEMMA CallType ==
  ASSUME TypeInv, NEW r \in Requests, step[r] # "idle"
  PROVE  /\ call[r] \in AllCalls
         /\ call[r].op = "refresh" => call[r] \in RefreshCall
         /\ call[r].op = "revoke" => call[r] \in RevokeCall
         /\ call[r].op = "use" => call[r] \in UseCall
         /\ call[r].op \in {"refresh", "revoke", "use"}
         /\ call[r].token \in Tokens
<1>1. call[r] \in AllCalls
  BY DEF TypeInv, TypeOK, AllCalls
<1> QED
  BY <1>1, CallFields DEF AllCalls

LEMMA SignInTypeInv ==
  ASSUME TypeInv, NEW s \in SessionIds, SignIn(s)
  PROVE  TypeInv'
<1>1. [access |-> s, refresh |-> s, expires |-> clock + AccessTTL,
       refreshExpires |-> clock + RefreshTTL, status |-> "active"] \in Row
  BY TimesAssumption DEF Row, Tokens, TypeInv, TypeOK
<1>2. /\ sessions' \in [SessionIds -> Row \cup {None}]
      /\ \A q \in SessionIds : sessions[q] # None => sessions'[q] # None
  BY <1>1, NoneAssumption DEF SignIn, TypeInv, TypeOK
<1> QED
  BY <1>2 DEF SignIn, TypeInv, TypeOK, LocalInv, Running

LEMMA SendTypeInv ==
  ASSUME TypeInv, NEW r \in Requests, Send(r) \/ Crash(r)
  PROVE  TypeInv'
<1>1. CASE Send(r)
  <2>1. \E c \in AllCalls : c # None /\ call' = [call EXCEPT ![r] = c]
    BY <1>1, NoneAssumption DEF Send, AllCalls
  <2> QED
    BY <1>1, <2>1 DEF Send, Goto, TypeInv, TypeOK, LocalInv, Running, AllCalls
<1>2. CASE Crash(r)
  BY <1>2 DEF Crash, Goto, TypeInv, TypeOK, LocalInv, Running
<1> QED
  BY <1>1, <1>2

\* The rows that a refresh or a revocation writes.
LEMMA WrittenRows ==
  ASSUME TypeInv, NEW r \in Requests, step[r] \in {"rotate", "revoke"}
  PROVE  /\ sess[r] \in SessionIds /\ sessions[sess[r]] \in Row
         /\ Rotated(r) \in Row
         /\ Rotated(r).access = r /\ Rotated(r).refresh = r
         /\ Rotated(r).status = sessions[sess[r]].status
         /\ [sessions[sess[r]] EXCEPT !.status = "revoked"] \in Row
<1> DEFINE row == sessions[sess[r]]
<1>1. sess[r] \in SessionIds /\ row \in Row /\ stamp[r] \in Nat
  BY DEF TypeInv, TypeOK, Running
<1>2. stamp[r] + AccessTTL \in Nat /\ stamp[r] + RefreshTTL \in Nat
  BY <1>1, TimesAssumption
<1>4. row.status \in {"active", "revoked"} /\ r \in Tokens
  BY <1>1 DEF Row, Tokens
<1>5. Rotated(r) \in Row
  BY <1>2, <1>4 DEF Rotated, Row
<1>6. [row EXCEPT !.status = "revoked"] \in Row
  BY <1>1 DEF Row
<1> QED
  BY <1>1, <1>5, <1>6 DEF Rotated

LEMMA WriteTypeInv ==
  ASSUME TypeInv, NEW s \in SessionIds, NEW row \in Row,
         sessions' = [sessions EXCEPT ![s] = row]
  PROVE  /\ sessions' \in [SessionIds -> Row \cup {None}]
         /\ \A q \in SessionIds : sessions[q] # None => sessions'[q] # None
  BY NoneAssumption DEF TypeInv, TypeOK

LEMMA ServeTypeInv ==
  ASSUME TypeInv, NEW r \in Requests, Serve(r)
  PROVE  TypeInv'
<1> USE DEF TypeInv
<1>1. CASE FindSession(r)
  BY <1>1, NoneAssumption
  DEF FindSession, WithAccess, Proceed, Fails, Answer, Goto, TypeOK, LocalInv, Running, Codes
<1>2. CASE LoadContext(r)
  <2>1. /\ step[r] = "context" /\ stamp' = [stamp EXCEPT ![r] = clock]
        /\ UNCHANGED <<sessions, nonces, clock, call, sess>>
    BY <1>2 DEF LoadContext
  <2>2. reply[r] = None /\ sess[r] # None /\ sessions[sess[r]] # None
    BY <2>1 DEF TypeOK, LocalInv, Running
  <2>3. CASE Proceed(r, Handler(r))
    <3>1. \/ Handler(r) = "find" /\ call[r] \in RefreshCall
          \/ Handler(r) = "revoke" /\ call[r] \in RevokeCall
          \/ Handler(r) = "nonce" /\ call[r] \in UseCall
      BY <2>1, CallType DEF Handler
    <3> QED
      BY <2>1, <2>2, <2>3, <3>1 DEF Proceed, Goto, TypeOK, LocalInv, Running
  <2>4. ASSUME NEW code \in Codes \ {"ok"}, Answer(r, code)
        PROVE  TypeInv'
    BY <2>1, <2>2, <2>4 DEF Answer, Goto, TypeOK, LocalInv, Running
  <2> QED
    BY <1>2, <2>3, <2>4 DEF LoadContext, Fails, Codes
<1>3. CASE TakeNonce(r)
  <2>1. Key(r) \in SessionIds \X Nonces
    BY <1>3, CallFields DEF TakeNonce, Key, TypeOK, Running
  <2> QED
    BY <1>3, <2>1, NoneAssumption
    DEF TakeNonce, Answer, Goto, TypeOK, LocalInv, Running, Codes
<1>4. CASE FindRefresh(r)
  BY <1>4, NoneAssumption
  DEF FindRefresh, WithRefresh, Proceed, Fails, Answer, Goto, TypeOK, LocalInv, Running, Codes
<1>5. CASE UpdateSessionTokens(r)
  <2>1. /\ sessions' \in [SessionIds -> Row \cup {None}]
        /\ \A q \in SessionIds : sessions[q] # None => sessions'[q] # None
    <3>1. sess[r] \in SessionIds /\ Rotated(r) \in Row
      BY <1>5, WrittenRows DEF UpdateSessionTokens
    <3>2. CASE UNCHANGED sessions
      BY <3>2 DEF TypeOK
    <3>3. CASE sessions' = [sessions EXCEPT ![sess[r]] = Rotated(r)]
      BY <3>1, <3>3, WriteTypeInv
    <3> QED
      BY <1>5, <3>2, <3>3 DEF UpdateSessionTokens
  <2>2. UNCHANGED <<nonces, clock, call, sess, stamp>>
    BY <1>5 DEF UpdateSessionTokens
  <2>3. \E code \in {"ok", "internal"} : Answer(r, code)
    BY <1>5 DEF UpdateSessionTokens, Fails
  <2>4. step[r] = "rotate" /\ sess[r] # None /\ sessions[sess[r]] # None
    BY <1>5 DEF UpdateSessionTokens, TypeOK, Running
  <2>5. TypeOK'
    BY <2>1, <2>2, <2>3, <2>4 DEF Answer, Goto, TypeOK, Running, Codes
  <2>6. LocalInv'
    BY <2>1, <2>2, <2>3, <2>4 DEF Answer, Goto, TypeOK, LocalInv
  <2> QED
    BY <2>5, <2>6
<1>6. CASE RevokeSession(r)
  <2>1. /\ sessions' \in [SessionIds -> Row \cup {None}]
        /\ \A q \in SessionIds : sessions[q] # None => sessions'[q] # None
    <3>1. UNCHANGED sessions \/ sessions' =
            [sessions EXCEPT ![sess[r]] = [sessions[sess[r]] EXCEPT !.status = "revoked"]]
      BY <1>6 DEF RevokeSession
    <3>2. step[r] = "revoke"
      BY <1>6 DEF RevokeSession
    <3>3. CASE UNCHANGED sessions
      BY <3>3 DEF TypeOK
    <3>4. CASE ~UNCHANGED sessions
      <4>1. \E row \in Row : sessions' = [sessions EXCEPT ![sess[r]] = row]
        BY <3>1, <3>2, <3>4, WrittenRows
      <4> QED
        BY <4>1, <3>2, WrittenRows, WriteTypeInv
    <3> QED
      BY <3>3, <3>4
  <2> QED
    BY <1>6, <2>1 DEF RevokeSession, Fails, Answer, Goto, TypeOK, LocalInv, Running, Codes
<1> QED
  BY <1>1, <1>2, <1>3, <1>4, <1>5, <1>6 DEF Serve

LEMMA StepTypeInv == TypeInv /\ [Next]_vars => TypeInv'
<1> SUFFICES ASSUME TypeInv, [Next]_vars PROVE TypeInv'
  OBVIOUS
<1>1. CASE UNCHANGED vars
  BY <1>1 DEF vars, TypeInv, TypeOK, LocalInv
<1>2. CASE Tick
  BY <1>2 DEF Tick, TypeInv, TypeOK, LocalInv
<1> QED
  BY <1>1, <1>2, SignInTypeInv, SendTypeInv, ServeTypeInv DEF Next

\* Every reachable state is well typed, and a request past the middleware works
\* on a session that exists.
THEOREM TypeCorrect == Spec => []TypeInv
<1> QED
  BY InitTypeInv, StepTypeInv, PTL DEF Spec

\* Every variable keeps its type, in every instance (auth/service.go:283-328, middleware.go:25-112).
THEOREM TypeOKHolds == Spec => []TypeOK
<1>1. TypeInv => TypeOK
  BY DEF TypeInv
<1> QED
  BY <1>1, TypeCorrect, PTL

-----------------------------------------------------------------------------
(* What a step leaves alone.                                               *)

LEMMA RowWriters ==
  ASSUME TypeInv, [Next]_vars
  PROVE  \/ UNCHANGED sessions
         \/ \E s \in SessionIds : SignIn(s)
         \/ \E r \in Requests :
              /\ step[r] = "rotate" /\ step'[r] = "done"
              /\ sessions' = [sessions EXCEPT ![sess[r]] = Rotated(r)]
         \/ \E r \in Requests :
              /\ step[r] = "revoke"
              /\ sessions' = [sessions EXCEPT ![sess[r]].status = "revoked"]
<1>1. ASSUME NEW r \in Requests, UpdateSessionTokens(r), ~UNCHANGED sessions
      PROVE  /\ step[r] = "rotate" /\ step'[r] = "done"
             /\ sessions' = [sessions EXCEPT ![sess[r]] = Rotated(r)]
  BY <1>1 DEF UpdateSessionTokens, Fails, Answer, Goto, TypeInv, TypeOK
<1>2. ASSUME NEW r \in Requests, RevokeSession(r), ~UNCHANGED sessions
      PROVE  /\ step[r] = "revoke"
             /\ sessions' = [sessions EXCEPT ![sess[r]].status = "revoked"]
  BY <1>2 DEF RevokeSession
<1> QED
  BY <1>1, <1>2 DEF Next, vars, Send, Crash, Tick, Serve, FindSession, LoadContext,
     TakeNonce, FindRefresh

LEMMA RowsStay ==
  ASSUME TypeInv, [Next]_vars, NEW s \in SessionIds, sessions[s] # None
  PROVE  /\ sessions'[s] # None
         /\ sessions[s].status = "revoked" => sessions'[s].status = "revoked"
<1>1. sessions[s] \in Row /\ sessions \in [SessionIds -> Row \cup {None}]
  BY DEF TypeInv, TypeOK
<1>2. CASE \E q \in SessionIds : SignIn(q)
  BY <1>1, <1>2 DEF SignIn
<1>3. ASSUME NEW r \in Requests, step[r] = "rotate",
             sessions' = [sessions EXCEPT ![sess[r]] = Rotated(r)]
      PROVE  /\ sessions'[s] # None
             /\ sessions[s].status = "revoked" => sessions'[s].status = "revoked"
  <2>1. /\ sess[r] \in SessionIds /\ Rotated(r) \in Row
        /\ Rotated(r).status = sessions[sess[r]].status
    BY <1>3, WrittenRows
  <2> QED
    BY <1>1, <1>3, <2>1, NoneAssumption
<1>4. ASSUME NEW r \in Requests, step[r] = "revoke",
             sessions' = [sessions EXCEPT ![sess[r]].status = "revoked"]
      PROVE  /\ sessions'[s] # None
             /\ sessions[s].status = "revoked" => sessions'[s].status = "revoked"
  <2>1. CASE s = sess[r]
    <3>1. sessions'[s] = [sessions[s] EXCEPT !.status = "revoked"]
      BY <1>1, <1>4, <2>1
    <3>2. sessions'[s] \in Row
      BY <3>1, <2>1, <1>4, WrittenRows
    <3> QED
      BY <1>1, <3>1, <3>2, NoneAssumption DEF Row
  <2>2. CASE s # sess[r]
    BY <1>1, <1>4, <2>2
  <2> QED
    BY <2>1, <2>2
<1> QED
  BY <1>2, <1>3, <1>4, RowWriters

\* A request keeps its call, and an answered one keeps its answer and session.
LEMMA RequestStays ==
  ASSUME TypeInv, [Next]_vars, NEW r \in Requests, step[r] # "idle"
  PROVE  /\ call'[r] = call[r] /\ step'[r] # "idle"
         /\ reply[r] # None =>
              /\ reply'[r] = reply[r] /\ sess'[r] = sess[r] /\ step'[r] = "done"
<1> USE DEF TypeInv, TypeOK
<1>1. ASSUME NEW q \in Requests, Serve(q)
      PROVE  /\ call' = call /\ step[q] \in Running
             /\ \E next \in (Running \ {"session"}) \cup {"done"} :
                  step' = [step EXCEPT ![q] = next]
             /\ \E v : reply' = [reply EXCEPT ![q] = v] \/ reply' = reply
             /\ \E v : sess' = [sess EXCEPT ![q] = v] \/ sess' = sess
  <2>1. /\ call' = call /\ step[q] \in Running
        /\ \E v : sess' = [sess EXCEPT ![q] = v] \/ sess' = sess
    BY <1>1 DEF Serve, FindSession, LoadContext, TakeNonce, FindRefresh,
       UpdateSessionTokens, RevokeSession, Running
  <2>2. \/ \E code : Answer(q, code)
        \/ \E next \in Running \ {"session"} : Proceed(q, next)
    <3>1. step[q] = "context" => Handler(q) \in Running \ {"session"}
      BY CallType DEF Handler, Running
    <3> QED
      BY <1>1, <3>1 DEF Serve, FindSession, LoadContext, TakeNonce, FindRefresh,
         UpdateSessionTokens, RevokeSession, Fails, Running
  <2> QED
    BY <2>1, <2>2 DEF Answer, Proceed, Goto
<1>2. ASSUME NEW q \in Requests, Send(q) \/ Crash(q)
      PROVE  /\ call'[r] = call[r] /\ step'[r] # "idle"
             /\ reply' = reply /\ sess' = sess
             /\ step[r] = "done" => step'[r] = "done"
  BY <1>2 DEF Send, Crash, Goto, Running
<1>3. ASSUME UNCHANGED vars \/ Tick \/ \E s \in SessionIds : SignIn(s)
      PROVE  UNCHANGED <<call, step, sess, reply>>
  BY <1>3 DEF vars, Tick, SignIn
<1>4. reply[r] # None => step[r] = "done"
  BY DEF LocalInv
<1>5. CASE \E q \in Requests : Serve(q)
  <2>1. PICK q \in Requests : Serve(q)
    BY <1>5
  <2>2. q # r \/ step[r] \in Running
    BY <2>1, <1>1
  <2> QED
    BY <2>1, <2>2, <1>1, <1>4 DEF Running
<1> QED
  BY <1>2, <1>3, <1>4, <1>5 DEF Next

\* One request's step leaves every other request alone.
LEMMA ServeIsLocal ==
  ASSUME TypeInv, NEW q \in Requests, Serve(q), NEW r \in Requests, r # q
  PROVE  step'[r] = step[r] /\ sess'[r] = sess[r] /\ reply'[r] = reply[r]
<1> USE DEF TypeInv, TypeOK, Fails, Answer, Proceed, Goto
<1>1. CASE FindSession(q) \/ LoadContext(q)
  BY <1>1 DEF FindSession, LoadContext
<1>2. CASE TakeNonce(q) \/ FindRefresh(q)
  BY <1>2 DEF TakeNonce, FindRefresh
<1>3. CASE UpdateSessionTokens(q) \/ RevokeSession(q)
  BY <1>3 DEF UpdateSessionTokens, RevokeSession
<1> QED
  BY <1>1, <1>2, <1>3 DEF Serve

\* What it takes for the state of a request to change.
LEMMA WhoMoves ==
  ASSUME TypeInv, [Next]_vars, NEW r \in Requests
  PROVE  /\ step'[r] # step[r] => Serve(r) \/ Send(r) \/ Crash(r)
         /\ sess'[r] # sess[r] \/ reply'[r] # reply[r] => Serve(r)
<1>1. ASSUME NEW q \in Requests, Send(q) \/ Crash(q)
      PROVE  sess' = sess /\ reply' = reply /\ (q # r => step'[r] = step[r])
  BY <1>1 DEF Send, Crash, Goto, TypeInv, TypeOK
<1>2. UNCHANGED vars \/ Tick \/ (\E s \in SessionIds : SignIn(s))
      => UNCHANGED <<step, sess, reply>>
  BY DEF vars, Tick, SignIn
<1> QED
  BY <1>1, <1>2, ServeIsLocal DEF Next

-----------------------------------------------------------------------------
(* Revocation.                                                             *)

\* What a step may answer to a revocation and whom it admits.
LEMMA NewRevocation ==
  ASSUME TypeInv, [Next]_vars, NEW r \in Requests,
         reply[r] = None, reply'[r] = "ok", step[r] = "revoke"
  PROVE  /\ sess'[r] = sess[r] /\ sess[r] \in SessionIds
         /\ sessions'[sess[r]].status = "revoked"
<1> USE DEF TypeInv, TypeOK
<1>1. RevokeSession(r)
  <2>1. Serve(r)
    BY WhoMoves, NoneAssumption DEF Codes
  <2> QED
    BY <2>1 DEF Serve, FindSession, LoadContext, TakeNonce, FindRefresh,
       UpdateSessionTokens
<1>2. sessions' = [sessions EXCEPT ![sess[r]].status = "revoked"] /\ sess' = sess
  BY <1>1 DEF RevokeSession, Fails, Answer, Codes
<1>3. sess[r] \in SessionIds /\ sessions[sess[r]] \in Row
  BY <1>1, WrittenRows DEF RevokeSession
<1> QED
  BY <1>2, <1>3 DEF Row

LEMMA StepRevocationSticks ==
  TypeInv /\ RevocationSticks /\ [Next]_vars => RevocationSticks'
<1> SUFFICES ASSUME TypeInv, RevocationSticks, [Next]_vars,
                    NEW r \in Requests, Answered(r, "revoke", "ok")'
             PROVE  sessions'[sess'[r]].status = "revoked"
  BY DEF RevocationSticks
<1>1. CASE step[r] = "idle"
  <2>1. reply'[r] = reply[r] /\ reply[r] = None
    <3>1. reply[r] = None
      BY <1>1 DEF TypeInv, LocalInv
    <3>2. ASSUME NEW q \in Requests, Serve(q)
          PROVE  reply'[r] = reply[r]
      <4>1. q # r
        BY <1>1, <3>2 DEF Serve, FindSession, LoadContext, TakeNonce, FindRefresh,
           UpdateSessionTokens, RevokeSession
      <4>2. UNCHANGED reply \/ \E code \in Codes : reply' = [reply EXCEPT ![q] = code]
        BY <3>2 DEF Serve, FindSession, LoadContext, TakeNonce, FindRefresh,
           UpdateSessionTokens, RevokeSession, Fails, Answer, Proceed, Codes
      <4> QED
        BY <4>1, <4>2 DEF TypeInv, TypeOK
    <3> QED
      BY <3>1, <3>2 DEF Next, vars, Send, Crash, Tick, SignIn
  <2> QED
    BY <2>1, NoneAssumption DEF Answered, Codes
<1>2. CASE step[r] # "idle" /\ reply[r] # None
  <2>1. Answered(r, "revoke", "ok") /\ sess'[r] = sess[r]
    BY <1>2, RequestStays DEF Answered
  <2>2. sess[r] \in SessionIds /\ sessions[sess[r]] # None
    BY <2>1 DEF Answered, TypeInv, TypeOK, LocalInv
  <2> QED
    BY <2>1, <2>2, RowsStay DEF RevocationSticks
<1>3. CASE step[r] # "idle" /\ reply[r] = None
  <2>1. call[r].op = "revoke" /\ reply'[r] = "ok"
    BY <1>3, RequestStays DEF Answered
  <2>2. step[r] = "revoke"
    <3>1. call[r] \notin RefreshCall /\ call[r] \notin UseCall
      BY <2>1, CallFields
    <3>2. Serve(r)
      BY <1>3, <2>1, WhoMoves, NoneAssumption DEF Codes
    <3> QED
      BY <1>3, <2>1, <3>1, <3>2, NoneAssumption DEF TypeInv, TypeOK, Codes, Serve,
         FindSession, LoadContext, TakeNonce, FindRefresh, UpdateSessionTokens,
         RevokeSession, Fails, Answer, Proceed
  <2> QED
    BY <1>3, <2>1, <2>2, NewRevocation
<1> QED
  BY <1>1, <1>2, <1>3

\* A session revoked with success stays revoked, whatever refreshes race.
THEOREM RevocationIsFinal == Spec => []RevocationSticks
<1>1. Init => RevocationSticks
  BY NoneAssumption DEF Init, RevocationSticks, Answered, Codes
<1> QED
  BY <1>1, StepRevocationSticks, TypeCorrect, PTL DEF Spec

LEMMA StepRevokedAdmitsNothing ==
  ASSUME TypeInv, [Next]_vars, NEW s \in SessionIds,
         sessions[s] # None, sessions[s].status = "revoked"
  PROVE  (Admitted(s))' \subseteq Admitted(s)
<1> SUFFICES ASSUME NEW r \in (Admitted(s))' PROVE r \in Admitted(s)
  OBVIOUS
<1> USE DEF TypeInv, TypeOK
<1>1. r \in Requests /\ step'[r] \in Running \ {"session"} /\ sess'[r] = s
  BY DEF Admitted
<1>2. CASE step'[r] = step[r] /\ sess'[r] = sess[r]
  BY <1>1, <1>2 DEF Admitted
<1>3. ASSUME NEW q \in Requests, Send(q) \/ Crash(q) PROVE step'[r] = step[r] /\ sess' = sess
  BY <1>1, <1>3 DEF Send, Crash, Goto, Running
<1>4. ASSUME NEW q \in Requests, Serve(q) PROVE r \in Admitted(s)
  <2>1. CASE q # r
    BY <1>1, <1>2, <1>4, <2>1 DEF Serve, FindSession, LoadContext, TakeNonce, FindRefresh,
       UpdateSessionTokens, RevokeSession, Fails, Answer, Proceed, Goto
  <2>2. CASE q = r
    <3>1. ~FindSession(r)
      BY <1>1 DEF FindSession, Fails, Answer, Goto, Running, WithAccess
    <3>2. ~FindRefresh(r)
      BY <1>1 DEF FindRefresh, Fails, Answer, Goto, Running, WithRefresh
    <3>3. LoadContext(r)
      BY <1>1, <1>4, <2>2, <3>1, <3>2
      DEF Serve, TakeNonce, UpdateSessionTokens, RevokeSession, Fails, Answer, Goto, Running
    <3> QED
      BY <1>1, <3>3 DEF LoadContext, Admitted, Running
  <2> QED
    BY <2>1, <2>2
<1> QED
  BY <1>2, <1>3, <1>4 DEF Next, vars, Tick, SignIn

\* A revoked session admits no further request.
THEOREM RevokedIsShut == Spec => RevokedAdmitsNothing
<1>1. TypeInv /\ [Next]_vars =>
        [\A s \in SessionIds : sessions[s] # None /\ sessions[s].status = "revoked" =>
           (Admitted(s))' \subseteq Admitted(s)]_vars
  BY StepRevokedAdmitsNothing
<1> QED
  BY <1>1, TypeCorrect, PTL DEF Spec, RevokedAdmitsNothing

-----------------------------------------------------------------------------
(* Tokens.                                                                 *)

\* The two tokens of a row were drawn together, at its own sign-in or by a
\* refresh that is over.
TokensInv ==
  \A s \in SessionIds : sessions[s] # None =>
    /\ sessions[s].access = sessions[s].refresh
    /\ sessions[s].refresh \in SessionIds => sessions[s].refresh = s
    /\ sessions[s].refresh \in Requests => step[sessions[s].refresh] = "done"

\* A refresh is sent with the refresh token of a sign-in, works on the session
\* of that sign-in, and spends the token.
SpentInv ==
  \A r \in Requests : call[r] \in RefreshCall =>
    /\ call[r].refresh \in SessionIds /\ sessions[call[r].refresh] # None
    /\ step[r] = "rotate" => sess[r] = call[r].refresh
    /\ reply[r] = "ok" => sessions[call[r].refresh].refresh \in Requests

\* A request that is over stays over.
LEMMA DoneStays ==
  ASSUME TypeInv, [Next]_vars, NEW r \in Requests, step[r] = "done"
  PROVE  step'[r] = "done"
<1>1. ASSUME NEW q \in Requests, Serve(q) \/ Send(q) \/ Crash(q)
      PROVE  step'[r] = "done"
  <2>1. q # r
    BY <1>1 DEF Serve, FindSession, LoadContext, TakeNonce, FindRefresh,
       UpdateSessionTokens, RevokeSession, Send, Crash, Running
  <2>2. \E next : Goto(q, next)
    BY <1>1 DEF Serve, FindSession, LoadContext, TakeNonce, FindRefresh,
       UpdateSessionTokens, RevokeSession, Send, Crash, Fails, Answer, Proceed
  <2> QED
    BY <2>1, <2>2 DEF Goto, TypeInv, TypeOK
<1> QED
  BY <1>1 DEF Next, vars, Tick, SignIn

LEMMA StepTokensInv == TypeInv /\ TokensInv /\ [Next]_vars => TokensInv'
<1> SUFFICES ASSUME TypeInv, TokensInv, [Next]_vars,
                    NEW s \in SessionIds, sessions'[s] # None
             PROVE  /\ sessions'[s].access = sessions'[s].refresh
                    /\ sessions'[s].refresh \in SessionIds => sessions'[s].refresh = s
                    /\ sessions'[s].refresh \in Requests => step'[sessions'[s].refresh] = "done"
  BY DEF TokensInv
<1>1. \A r \in Requests : step[r] = "done" => step'[r] = "done"
  BY DoneStays
<1>2. sessions \in [SessionIds -> Row \cup {None}]
  BY DEF TypeInv, TypeOK
<1>3. CASE UNCHANGED sessions
  BY <1>1, <1>3 DEF TokensInv
<1>4. CASE \E q \in SessionIds : SignIn(q)
  BY <1>1, <1>2, <1>4, NoneAssumption DEF TokensInv, SignIn
<1>5. ASSUME NEW r \in Requests, step[r] = "rotate", step'[r] = "done",
             sessions' = [sessions EXCEPT ![sess[r]] = Rotated(r)]
      PROVE  /\ sessions'[s].access = sessions'[s].refresh
             /\ sessions'[s].refresh \in SessionIds => sessions'[s].refresh = s
             /\ sessions'[s].refresh \in Requests => step'[sessions'[s].refresh] = "done"
  <2>1. /\ sess[r] \in SessionIds /\ sessions[sess[r]] \in Row
        /\ Rotated(r).access = r /\ Rotated(r).refresh = r
    BY <1>5, WrittenRows
  <2>2. CASE s = sess[r]
    <3>1. sessions'[s] = Rotated(r)
      BY <1>2, <1>5, <2>1, <2>2
    <3>2. r \notin SessionIds
      BY NoneAssumption
    <3> QED
      BY <1>5, <2>1, <3>1, <3>2
  <2>3. CASE s # sess[r]
    <3>1. sessions'[s] = sessions[s]
      BY <1>2, <1>5, <2>1, <2>3
    <3> QED
      BY <1>1, <3>1 DEF TokensInv
  <2> QED
    BY <2>2, <2>3
<1>6. ASSUME NEW r \in Requests, step[r] = "revoke",
             sessions' = [sessions EXCEPT ![sess[r]].status = "revoked"]
      PROVE  /\ sessions'[s].access = sessions'[s].refresh
             /\ sessions'[s].refresh \in SessionIds => sessions'[s].refresh = s
             /\ sessions'[s].refresh \in Requests => step'[sessions'[s].refresh] = "done"
  <2>1. sess[r] \in SessionIds /\ sessions[sess[r]] \in Row
    BY <1>6, WrittenRows
  <2>2. /\ sessions[s] # None
        /\ sessions'[s].access = sessions[s].access
        /\ sessions'[s].refresh = sessions[s].refresh
    BY <1>2, <1>6, <2>1, NoneAssumption DEF Row
  <2> QED
    BY <1>1, <2>2 DEF TokensInv
<1> QED
  BY <1>3, <1>4, <1>5, <1>6, RowWriters

\* A spent refresh token stays out of the table.
LEMMA RotatedStays ==
  ASSUME TypeInv, [Next]_vars, NEW s \in SessionIds, sessions[s] # None,
         sessions[s].refresh \in Requests
  PROVE  sessions'[s].refresh \in Requests
<1>1. sessions \in [SessionIds -> Row \cup {None}] /\ sessions[s] \in Row
  BY DEF TypeInv, TypeOK
<1>2. CASE \E q \in SessionIds : SignIn(q)
  BY <1>1, <1>2 DEF SignIn
<1>3. ASSUME NEW r \in Requests, step[r] = "rotate",
             sessions' = [sessions EXCEPT ![sess[r]] = Rotated(r)]
      PROVE  sessions'[s].refresh \in Requests
  BY <1>1, <1>3, WrittenRows
<1>4. ASSUME NEW r \in Requests, step[r] = "revoke",
             sessions' = [sessions EXCEPT ![sess[r]].status = "revoked"]
      PROVE  sessions'[s].refresh = sessions[s].refresh
  BY <1>1, <1>4, WrittenRows DEF Row
<1> QED
  BY <1>2, <1>3, <1>4, RowWriters

LEMMA StepSpentInv == TypeInv /\ TokensInv /\ SpentInv /\ [Next]_vars => SpentInv'
<1> SUFFICES ASSUME TypeInv, TokensInv, SpentInv, [Next]_vars,
                    NEW r \in Requests, call'[r] \in RefreshCall
             PROVE  /\ call'[r].refresh \in SessionIds /\ sessions'[call'[r].refresh] # None
                    /\ step'[r] = "rotate" => sess'[r] = call'[r].refresh
                    /\ reply'[r] = "ok" => sessions'[call'[r].refresh].refresh \in Requests
  BY DEF SpentInv
<1> USE DEF TypeInv, TypeOK
<1>1. CASE step[r] = "idle"
  <2>1. Send(r) /\ UNCHANGED reply
    <3>1. call[r] = None /\ call'[r] # None
      BY <1>1, NoneAssumption
    <3>2. PICK q \in Requests : Send(q)
      BY <3>1 DEF Next, vars, Crash, Tick, SignIn, Serve, FindSession, LoadContext,
         TakeNonce, FindRefresh, UpdateSessionTokens, RevokeSession
    <3>3. q = r
      BY <3>1, <3>2 DEF Send
    <3> QED
      BY <3>2, <3>3 DEF Send
  <2> QED
    BY <1>1, <2>1, NoneAssumption DEF Send, Goto, KnownRefresh, LocalInv, Codes
<1>2. CASE step[r] # "idle"
  <2> DEFINE T == call[r].refresh
  <2>1. call'[r] = call[r] /\ T \in SessionIds /\ sessions[T] # None
    BY <1>2, RequestStays DEF SpentInv
  <2>2. sessions'[T] # None
    BY <2>1, RowsStay
  <2>3. ASSUME step'[r] = "rotate" PROVE sess'[r] = T
    <3>1. CASE step[r] = "rotate" /\ sess'[r] = sess[r]
      BY <2>1, <3>1 DEF SpentInv
    <3>2. CASE FindRefresh(r)
      <4>1. PICK s \in WithRefresh(T) : sess' = [sess EXCEPT ![r] = s]
        BY <2>3, <3>2 DEF FindRefresh, Fails, Answer, Goto
      <4> QED
        BY <2>1, <4>1 DEF WithRefresh, TokensInv
    <3>3. ASSUME NEW q \in Requests, Serve(q), q # r
          PROVE  step'[r] = step[r] /\ sess'[r] = sess[r]
      BY <3>3 DEF Serve, FindSession, LoadContext, TakeNonce, FindRefresh,
         UpdateSessionTokens, RevokeSession, Fails, Answer, Proceed, Goto
    <3>4. ASSUME NEW q \in Requests, Send(q) \/ Crash(q)
          PROVE  step[r] = "rotate" /\ sess'[r] = sess[r]
      BY <2>3, <3>4 DEF Send, Crash, Goto
    <3>5. Serve(r) => FindRefresh(r)
      BY <2>3, CallType DEF Serve, FindSession, LoadContext, Handler, TakeNonce,
         UpdateSessionTokens, RevokeSession, Fails, Answer, Proceed, Goto
    <3> QED
      BY <2>3, <3>1, <3>2, <3>3, <3>4, <3>5 DEF Next, vars, Tick, SignIn
  <2>4. ASSUME reply'[r] = "ok" PROVE sessions'[T].refresh \in Requests
    <3>1. CASE reply[r] # None
      BY <1>2, <2>1, <2>4, <3>1, RequestStays, RotatedStays DEF SpentInv
    <3>2. CASE reply[r] = None
      <4>1. Serve(r)
        BY <2>4, <3>2, WhoMoves, NoneAssumption DEF Codes
      <4>2. UpdateSessionTokens(r)
        <5>1. call[r] \notin UseCall /\ call[r] \notin RevokeCall
          BY <2>1, CallFields
        <5> QED
          BY <2>4, <3>2, <4>1, <5>1, NoneAssumption DEF Codes, Serve, FindSession, LoadContext,
             TakeNonce, FindRefresh, RevokeSession, Fails, Answer, Proceed
      <4>3. sess[r] = T /\ sessions' = [sessions EXCEPT ![T] = Rotated(r)]
        BY <2>1, <2>4, <4>2 DEF UpdateSessionTokens, Fails, Answer, SpentInv
      <4> QED
        BY <2>1, <4>2, <4>3, WrittenRows DEF UpdateSessionTokens
    <3> QED
      BY <3>1, <3>2
  <2> QED
    BY <2>1, <2>2, <2>3, <2>4
<1> QED
  BY <1>1, <1>2

LEMMA StepOldTokens ==
  ASSUME TypeInv, TokensInv, SpentInv, [Next]_vars
  PROVE  /\ \A r, q \in Requests :
              /\ Answered(r, "refresh", "ok") /\ step[q] = "find"
              /\ call[q].refresh = call[r].refresh
              => step'[q] # "rotate"
         /\ \A t \in KnownAccess : WithAccess(t) = {} => (WithAccess(t))' = {}
<1> USE DEF TypeInv, TypeOK
<1>1. ASSUME NEW r \in Requests, NEW q \in Requests, Answered(r, "refresh", "ok"),
             step[q] = "find", call[q].refresh = call[r].refresh, step'[q] = "rotate"
      PROVE  FALSE
  <2> DEFINE T == call[r].refresh
  <2>1. T \in SessionIds /\ sessions[T] # None /\ sessions[T].refresh \in Requests
    BY <1>1, CallFields DEF Answered, SpentInv
  <2>2. WithRefresh(T) = {}
    BY <2>1, NoneAssumption DEF WithRefresh, TokensInv
  <2>3. FindRefresh(q)
    <3>1. Serve(q)
      BY <1>1, WhoMoves DEF Send, Crash, Goto
    <3> QED
      BY <1>1, <3>1 DEF Serve, FindSession, LoadContext, TakeNonce, UpdateSessionTokens,
         RevokeSession
  <2> QED
    BY <1>1, <2>2, <2>3 DEF FindRefresh, Fails, Answer, Goto
<1>2. ASSUME NEW t \in KnownAccess, WithAccess(t) = {}, NEW s \in (WithAccess(t))'
      PROVE  FALSE
  <2>1. s \in SessionIds /\ sessions'[s] # None /\ sessions'[s].access = t
    BY <1>2 DEF WithAccess
  <2>2. ~(sessions[s] # None /\ sessions[s].access = t)
    BY <1>2, <2>1 DEF WithAccess
  <2>3. \/ t \in SessionIds /\ sessions[t] # None
        \/ t \in Requests /\ reply[t] = "ok" /\ step[t] = "done"
    BY NoneAssumption DEF KnownAccess, Answered, LocalInv, Codes
  <2>4. ~ \E q \in SessionIds : SignIn(q)
    BY <2>1, <2>2, <2>3, NoneAssumption DEF SignIn
  <2>5. ~ \E r \in Requests :
            step[r] = "rotate" /\ sessions' = [sessions EXCEPT ![sess[r]] = Rotated(r)]
    <3> SUFFICES ASSUME NEW r \in Requests, step[r] = "rotate",
                        sessions' = [sessions EXCEPT ![sess[r]] = Rotated(r)]
                 PROVE  FALSE
      OBVIOUS
    <3>1. Rotated(r).access = r /\ sess[r] \in SessionIds
      BY WrittenRows
    <3>2. s = sess[r] /\ t = r
      BY <2>1, <2>2, <3>1
    <3> QED
      BY <2>3, <3>2, NoneAssumption
  <2>6. ~ \E r \in Requests :
            step[r] = "revoke" /\ sessions' = [sessions EXCEPT ![sess[r]].status = "revoked"]
    <3> SUFFICES ASSUME NEW r \in Requests, step[r] = "revoke",
                        sessions' = [sessions EXCEPT ![sess[r]].status = "revoked"]
                 PROVE  FALSE
      OBVIOUS
    <3>1. sess[r] \in SessionIds /\ sessions[sess[r]] \in Row
      BY WrittenRows
    <3>2. s = sess[r] /\ sessions'[s].access = sessions[s].access
      BY <2>1, <2>2, <3>1 DEF Row
    <3> QED
      BY <2>1, <2>2, <3>1, <3>2, NoneAssumption
  <2> QED
    BY <2>1, <2>2, <2>4, <2>5, <2>6, RowWriters
<1> QED
  BY <1>1, <1>2

\* A refresh token that was answered for begins no other refresh, and replaced
\* access tokens stay dead.
THEOREM OldTokensStayDead == Spec => OldTokensAreDead
<1>1. Init => TokensInv /\ SpentInv
  BY NoneAssumption DEF Init, TokensInv, SpentInv
<1>2. TypeInv /\ TokensInv /\ SpentInv /\ [Next]_vars =>
        [/\ \A r, q \in Requests :
              /\ Answered(r, "refresh", "ok") /\ step[q] = "find"
              /\ call[q].refresh = call[r].refresh
              => step'[q] # "rotate"
         /\ \A t \in KnownAccess : WithAccess(t) = {} => (WithAccess(t))' = {}]_vars
  BY StepOldTokens
<1> QED
  BY <1>1, <1>2, StepTokensInv, StepSpentInv, TypeCorrect, PTL DEF Spec, OldTokensAreDead

-----------------------------------------------------------------------------
(* Nonces.                                                                 *)

\* What a high-fidelity request relies on: its timestamp was in the window when
\* it was read, and once it is let through its key has an age that its
\* timestamp bounds.
NonceInv ==
  /\ \A k \in SessionIds \X Nonces : nonces[k] # None => nonces[k] <= clock
  /\ \A r \in Requests : call[r] \in UseCall =>
       /\ call[r].ts <= clock + MaxAhead
       /\ step[r] = "nonce" => stamp[r] <= call[r].ts + Skew
       /\ reply[r] = "ok" =>
            /\ nonces[Key(r)] # None
            /\ call[r].ts <= nonces[Key(r)] + MaxAhead

LEMMA ClockGrows ==
  ASSUME TypeInv, [Next]_vars
  PROVE  clock \in Nat /\ clock' \in Nat /\ clock <= clock'
<1>1. clock' = clock \/ Tick
  BY DEF Next, vars, Send, Crash, SignIn, Serve, FindSession,
     LoadContext, TakeNonce, FindRefresh, UpdateSessionTokens, RevokeSession
<1> QED
  BY <1>1 DEF Tick, TypeInv, TypeOK

\* A key is only ever set to the present.
LEMMA KeysGrow ==
  ASSUME TypeInv, NonceInv, [Next]_vars, NEW k \in SessionIds \X Nonces
  PROVE  /\ nonces[k] \in Nat \cup {None} /\ nonces'[k] \in Nat \cup {None}
         /\ nonces'[k] = nonces[k] \/ nonces'[k] = clock
         /\ nonces'[k] # None => nonces'[k] <= clock'
         /\ nonces[k] # None => nonces'[k] # None /\ nonces[k] <= nonces'[k]
<1>1. nonces \in [SessionIds \X Nonces -> Nat \cup {None}]
  BY DEF TypeInv, TypeOK
<1>2. UNCHANGED nonces
      \/ \E r \in Requests : TakeNonce(r) /\ nonces' = [nonces EXCEPT ![Key(r)] = clock]
  BY DEF Next, vars, Send, Crash, Tick, SignIn, Serve, FindSession,
     LoadContext, TakeNonce, FindRefresh, UpdateSessionTokens, RevokeSession
<1>3. nonces'[k] = nonces[k] \/ nonces'[k] = clock
  BY <1>1, <1>2
<1> QED
  BY <1>1, <1>3, ClockGrows, NoneAssumption DEF NonceInv

\* A request that is let through a high-fidelity route sets its key.
LEMMA NewPass ==
  ASSUME TypeInv, [Next]_vars, NEW r \in Requests, call[r] \in UseCall,
         reply[r] # "ok", reply'[r] = "ok"
  PROVE  /\ step[r] = "nonce" /\ sess'[r] = sess[r] /\ Key(r) \in SessionIds \X Nonces
         /\ MayBeFree(Key(r)) /\ clock <= stamp[r] + MaxDelay
         /\ nonces'[Key(r)] = clock /\ clock' = clock
<1> USE DEF TypeInv, TypeOK
<1>1. Serve(r)
  BY WhoMoves
<1>2. call[r] \notin RefreshCall /\ call[r] \notin RevokeCall
  BY CallFields
<1>3. TakeNonce(r)
  BY <1>1, <1>2 DEF Serve, FindSession, LoadContext, FindRefresh, UpdateSessionTokens,
     RevokeSession, Fails, Answer, Proceed
<1>4. Key(r) \in SessionIds \X Nonces
  BY <1>3, CallFields DEF TakeNonce, Key, Running
<1> QED
  BY <1>3, <1>4 DEF TakeNonce, Answer

LEMMA StepNonceInv == TypeInv /\ NonceInv /\ [Next]_vars => NonceInv'
<1> SUFFICES ASSUME TypeInv, NonceInv, [Next]_vars PROVE NonceInv'
  OBVIOUS
<1>1. \A k \in SessionIds \X Nonces : nonces'[k] # None => nonces'[k] <= clock'
  BY KeysGrow
<1>2. ASSUME NEW r \in Requests, call'[r] \in UseCall, step[r] = "idle"
      PROVE  /\ call'[r].ts <= clock' + MaxAhead
             /\ step'[r] # "nonce" /\ reply'[r] # "ok"
  <2>1. call[r] = None /\ reply[r] = None
    BY <1>2, NoneAssumption DEF TypeInv, TypeOK, LocalInv
  <2>2. PICK q \in Requests : Send(q)
    BY <1>2, <2>1, NoneAssumption DEF Next, vars, Crash, Tick, SignIn, Serve, FindSession,
       LoadContext, TakeNonce, FindRefresh, UpdateSessionTokens, RevokeSession
  <2>3. q = r
    BY <1>2, <2>1, <2>2, NoneAssumption DEF Send, TypeInv, TypeOK
  <2> QED
    BY <1>2, <2>1, <2>2, <2>3, NoneAssumption DEF Send, Goto, TypeInv, TypeOK, Codes
<1>3. ASSUME NEW r \in Requests, call'[r] \in UseCall, step[r] # "idle"
      PROVE  /\ call'[r].ts <= clock' + MaxAhead
             /\ step'[r] = "nonce" => stamp'[r] <= call'[r].ts + Skew
             /\ reply'[r] = "ok" => /\ nonces'[Key(r)'] # None
                                    /\ call'[r].ts <= nonces'[Key(r)'] + MaxAhead
  <2>1. call'[r] = call[r] /\ call[r] \in UseCall /\ call[r].ts \in Nat
    BY <1>3, RequestStays, CallFields
  <2>2. call[r].ts <= clock + MaxAhead
    BY <2>1 DEF NonceInv
  <2>3. call[r].ts <= clock' + MaxAhead
    BY <2>1, <2>2, ClockGrows, TimesAssumption
  <2>4. ASSUME step'[r] = "nonce" PROVE stamp'[r] <= call[r].ts + Skew
    <3>1. CASE step[r] = "nonce"
      <4>1. stamp'[r] = stamp[r]
        BY <2>4, <3>1 DEF Next, vars, Send, Crash, Tick, SignIn, Serve, FindSession,
           LoadContext, TakeNonce, FindRefresh, UpdateSessionTokens, RevokeSession,
           TypeInv, TypeOK
      <4> QED
        BY <2>1, <3>1, <4>1 DEF NonceInv
    <3>2. CASE step[r] # "nonce"
      <4>1. Serve(r)
        BY <2>4, <3>2, WhoMoves DEF Send, Crash, Goto, TypeInv, TypeOK
      <4>2. LoadContext(r)
        BY <2>4, <4>1 DEF Serve, FindSession, TakeNonce, FindRefresh, UpdateSessionTokens,
           RevokeSession, Fails, Answer, Proceed, Goto, TypeInv, TypeOK
      <4>3. InWindow(call[r].ts) /\ stamp'[r] = clock
        BY <2>1, <2>4, <4>2, CallFields
        DEF LoadContext, Fails, Answer, Goto, TypeInv, TypeOK
      <4> QED
        BY <2>1, <4>3, TimesAssumption DEF InWindow, TypeInv, TypeOK
    <3> QED
      BY <3>1, <3>2
  <2>5. ASSUME reply'[r] = "ok"
        PROVE  nonces'[Key(r)'] # None /\ call[r].ts <= nonces'[Key(r)'] + MaxAhead
    <3>1. CASE reply[r] = "ok"
      <4>1. Key(r)' = Key(r) /\ Key(r) \in SessionIds \X Nonces
        BY <1>3, <2>1, <3>1, RequestStays, CallFields, NoneAssumption
        DEF Key, TypeInv, TypeOK, LocalInv, Codes
      <4>2. nonces[Key(r)] # None /\ call[r].ts <= nonces[Key(r)] + MaxAhead
        BY <2>1, <3>1 DEF NonceInv
      <4> QED
        BY <2>1, <4>1, <4>2, KeysGrow, TimesAssumption
    <3>2. CASE reply[r] # "ok"
      <4>1. Key(r)' = Key(r) /\ nonces'[Key(r)] = clock
        BY <2>1, <2>5, <3>2, NewPass DEF Key
      <4> QED
        BY <2>2, <4>1, ClockGrows, NoneAssumption
    <3> QED
      BY <3>1, <3>2
  <2> QED
    BY <2>1, <2>3, <2>4, <2>5
<1> QED
  BY <1>1, <1>2, <1>3 DEF NonceInv

LEMMA StepPassedOnce == TypeInv /\ NonceInv /\ PassedOnce /\ [Next]_vars => PassedOnce'
<1> SUFFICES ASSUME TypeInv, NonceInv, PassedOnce, [Next]_vars,
                    NEW r \in Requests, NEW q \in Requests,
                    Answered(r, "use", "ok")', Answered(q, "use", "ok")',
                    sess'[r] = sess'[q], call'[r].nonce = call'[q].nonce,
                    call'[r].ts = call'[q].ts
             PROVE  r = q
  BY DEF PassedOnce
<1>1. \A p \in {r, q} : call'[p] = call[p] /\ call[p] \in UseCall
  <2> SUFFICES ASSUME NEW p \in {r, q}
               PROVE  call'[p] = call[p] /\ call[p] \in UseCall
    OBVIOUS
  <2>1. step[p] # "idle"
    <3>1. ASSUME step[p] = "idle" PROVE reply'[p] = None
      BY <3>1, WhoMoves DEF TypeInv, LocalInv, Serve, FindSession, LoadContext, TakeNonce,
         FindRefresh, UpdateSessionTokens, RevokeSession
    <3> QED
      BY <3>1, NoneAssumption DEF Answered, Codes
  <2> QED
    BY <2>1, RequestStays, CallType DEF Answered
\* Nobody is let through with the key of one that was.
<1>2. ASSUME NEW p \in {r, q}, NEW o \in {r, q}, reply[p] = "ok", reply[o] # "ok"
      PROVE  FALSE
  <2>1. sess'[p] = sess[p]
    BY <1>2, RequestStays, NoneAssumption DEF TypeInv, TypeOK, LocalInv, Codes
  <2>2. /\ step[o] = "nonce" /\ sess'[o] = sess[o] /\ Key(o) \in SessionIds \X Nonces
        /\ MayBeFree(Key(o)) /\ clock <= stamp[o] + MaxDelay
    BY <1>1, <1>2, NewPass DEF Answered
  <2>3. Key(o) = Key(p) /\ call[o].ts = call[p].ts
    BY <1>1, <2>1, <2>2 DEF Key
  <2> DEFINE age == nonces[Key(p)]
             ts  == call[p].ts
  <2>4. age # None /\ ts <= age + MaxAhead /\ stamp[o] <= ts + Skew
    BY <1>1, <1>2, <2>2, <2>3 DEF NonceInv
  <2>5. age \in Nat /\ ts \in Nat /\ stamp[o] \in Nat /\ clock \in Nat
    BY <1>1, <2>2, <2>3, <2>4, CallFields DEF TypeInv, TypeOK
  <2>6. age + NonceTTL <= clock
    BY <2>2, <2>3, <2>4 DEF MayBeFree
  <2> HIDE DEF age, ts
  <2> QED
    BY <2>2, <2>4, <2>5, <2>6, TimesAssumption, NonceAssumption
<1>3. CASE reply[r] = "ok" /\ reply[q] = "ok"
  <2>1. sess'[r] = sess[r] /\ sess'[q] = sess[q]
    BY <1>3, RequestStays, NoneAssumption DEF TypeInv, TypeOK, LocalInv, Codes
  <2>2. Answered(r, "use", "ok") /\ Answered(q, "use", "ok")
    BY <1>1, <1>3, CallFields, NoneAssumption DEF Answered
  <2>3. /\ call[r].nonce = call[q].nonce /\ call[r].ts = call[q].ts
        /\ sess[r] = sess[q]
    BY <1>1, <2>1
  <2> QED
    BY <2>2, <2>3 DEF PassedOnce
\* One request moves at a time.
<1>4. CASE reply[r] # "ok" /\ reply[q] # "ok"
  <2>1. Serve(r) /\ Serve(q)
    BY <1>4, WhoMoves DEF Answered
  <2> QED
    BY <1>4, <2>1, ServeIsLocal DEF Answered
<1> QED
  BY <1>2, <1>3, <1>4

\* A high-fidelity request is let through once, however many replays race.
THEOREM RequestPassesOnce == Spec => []PassedOnce
<1>1. Init => NonceInv /\ PassedOnce
  BY NoneAssumption DEF Init, NonceInv, PassedOnce, Answered, Codes
<1> QED
  BY <1>1, StepNonceInv, StepPassedOnce, TypeCorrect, PTL DEF Spec

-----------------------------------------------------------------------------
(* SessionRefreshRace.cfg has the race in which one refresh token serves   *)
(* two refreshes; it needs two requests that both found the session before *)
(* either wrote its tokens.                                                *)

\* No two refreshes with one token are between the read of the session and the
\* update.
RefreshesApart ==
  \A r, q \in Requests :
    /\ step[r] = "rotate" /\ step[q] = "rotate" /\ call[r].refresh = call[q].refresh
    => r = q

\* A refresh that is to write its tokens replaces the token it was sent.
FreshInv ==
  \A r \in Requests : step[r] = "rotate" =>
    sessions[call[r].refresh].refresh = call[r].refresh

\* A refresh goes on only if its session has the token it was sent.
LEMMA RefreshFound ==
  ASSUME TypeInv, TokensInv, SpentInv, NEW r \in Requests, FindRefresh(r),
         step'[r] = "rotate"
  PROVE  sessions[call[r].refresh].refresh = call[r].refresh
<1>1. PICK s \in WithRefresh(call[r].refresh) : TRUE
  BY DEF FindRefresh, Fails, Answer, Goto, TypeInv, TypeOK
<1>2. s \in SessionIds /\ sessions[s] # None /\ sessions[s].refresh = call[r].refresh
  BY <1>1 DEF WithRefresh
<1>3. call[r].refresh \in SessionIds
  BY DEF FindRefresh, SpentInv, TypeInv, TypeOK
<1> QED
  BY <1>2, <1>3 DEF TokensInv

\* While a refresh is to write its tokens, its session keeps the token.
LEMMA RefreshWaits ==
  ASSUME TypeInv, SpentInv, RefreshesApart, [Next]_vars, NEW r \in Requests,
         step[r] = "rotate", step'[r] = "rotate"
  PROVE  /\ call'[r] = call[r]
         /\ sessions'[call[r].refresh].refresh = sessions[call[r].refresh].refresh
<1> DEFINE t == call[r].refresh
<1>1. call'[r] = call[r]
  BY RequestStays
<1>2. call[r] \in RefreshCall /\ t \in SessionIds /\ sessions[t] # None
  BY DEF TypeInv, TypeOK, SpentInv
<1>3. sessions \in [SessionIds -> Row \cup {None}] /\ sessions[t] \in Row
  BY <1>2 DEF TypeInv, TypeOK
<1>4. ASSUME NEW s \in SessionIds, SignIn(s) PROVE sessions'[t].refresh = sessions[t].refresh
  BY <1>2, <1>3, <1>4 DEF SignIn
<1>5. ASSUME NEW q \in Requests, step[q] = "rotate", step'[q] = "done",
             sessions' = [sessions EXCEPT ![sess[q]] = Rotated(q)]
      PROVE  sessions'[t].refresh = sessions[t].refresh
  <2>1. call[q] \in RefreshCall /\ sess[q] = call[q].refresh
    BY <1>5 DEF TypeInv, TypeOK, SpentInv
  <2>2. sess[q] # t
    BY <1>5, <2>1 DEF RefreshesApart
  <2> QED
    BY <1>3, <1>5, <2>2
<1>6. ASSUME NEW q \in Requests,
             sessions' = [sessions EXCEPT ![sess[q]].status = "revoked"]
      PROVE  sessions'[t].refresh = sessions[t].refresh
  BY <1>2, <1>3, <1>6 DEF Row
<1>7. sessions'[t].refresh = sessions[t].refresh
  BY <1>4, <1>5, <1>6, RowWriters
<1> QED
  BY <1>1, <1>7

LEMMA StepFreshInv ==
  TypeInv /\ TokensInv /\ SpentInv /\ RefreshesApart /\ FreshInv /\ [Next]_vars => FreshInv'
<1> SUFFICES ASSUME TypeInv, TokensInv, SpentInv, RefreshesApart, FreshInv, [Next]_vars,
                    NEW r \in Requests, step'[r] = "rotate"
             PROVE  sessions'[call'[r].refresh].refresh = call'[r].refresh
  BY DEF FreshInv
<1>1. CASE step[r] = "rotate"
  BY <1>1, RefreshWaits DEF FreshInv
<1>2. CASE step[r] # "rotate"
  <2>1. Serve(r) \/ Send(r) \/ Crash(r)
    BY <1>2, WhoMoves
  <2>2. LoadContext(r) => Handler(r) # "rotate"
    BY CallType DEF LoadContext, Handler, TypeInv, TypeOK
  <2>3. FindRefresh(r)
    BY <1>2, <2>1, <2>2 DEF Serve, Send, Crash, FindSession, LoadContext, TakeNonce,
       UpdateSessionTokens, RevokeSession, Proceed, Fails, Answer, Goto, TypeInv, TypeOK
  <2> QED
    BY <2>3, RefreshFound DEF FindRefresh
<1> QED
  BY <1>1, <1>2

\* A refresh that has just succeeded found its token unspent.
LEMMA NewRefresh ==
  ASSUME TypeInv, SpentInv, FreshInv, [Next]_vars, NEW r \in Requests,
         Answered(r, "refresh", "ok")', ~Answered(r, "refresh", "ok")
  PROVE  /\ step[r] = "rotate" /\ call'[r] = call[r]
         /\ sessions[call[r].refresh].refresh \in SessionIds
         /\ \A q \in Requests \ {r} : call'[q] = call[q] /\ reply'[q] = reply[q]
<1> USE DEF TypeInv, TypeOK
<1>1. reply'[r] # reply[r] \/ step[r] = "idle"
  BY RequestStays DEF Answered
<1>2. Serve(r)
  <2>1. reply[r] # "ok" \/ step[r] # "idle"
    BY NoneAssumption DEF LocalInv, Codes
  <2> QED
    BY <1>1, <2>1, WhoMoves DEF Answered
<1>3. call' = call /\ call[r].op = "refresh"
  BY <1>2 DEF Serve, FindSession, LoadContext, TakeNonce, FindRefresh, UpdateSessionTokens,
     RevokeSession, Answered
<1>4. reply[r] # "ok"
  BY <1>3 DEF Answered
<1>5. step[r] \notin {"nonce", "revoke"}
  BY <1>3, CallFields
<1>6. UpdateSessionTokens(r)
  BY <1>2, <1>4, <1>5 DEF Answered, Serve, FindSession, LoadContext, TakeNonce, FindRefresh,
     RevokeSession, Proceed, Fails, Answer, Goto
<1>7. step[r] = "rotate" /\ call[r] \in RefreshCall
  BY <1>6 DEF UpdateSessionTokens
<1>8. sessions[call[r].refresh].refresh \in SessionIds
  BY <1>7 DEF FreshInv, SpentInv
<1>9. \A q \in Requests \ {r} : reply'[q] = reply[q]
  BY <1>2, ServeIsLocal
<1> QED
  BY <1>3, <1>7, <1>8, <1>9

LEMMA StepSingleUse ==
  TypeInv /\ SpentInv /\ FreshInv /\ RefreshTokenIsSingleUse /\ [Next]_vars =>
    RefreshTokenIsSingleUse'
<1> SUFFICES ASSUME TypeInv, SpentInv, FreshInv, RefreshTokenIsSingleUse, [Next]_vars,
                    NEW r \in Requests, NEW q \in Requests, r # q,
                    Answered(r, "refresh", "ok")', Answered(q, "refresh", "ok")',
                    call'[r].refresh = call'[q].refresh
             PROVE  FALSE
  BY DEF RefreshTokenIsSingleUse
<1>1. \A p \in Requests : Answered(p, "refresh", "ok") =>
        /\ call[p] \in RefreshCall /\ call'[p] = call[p]
        /\ sessions[call[p].refresh].refresh \in Requests
  <2> SUFFICES ASSUME NEW p \in Requests, Answered(p, "refresh", "ok")
               PROVE  /\ call[p] \in RefreshCall /\ call'[p] = call[p]
                      /\ sessions[call[p].refresh].refresh \in Requests
    OBVIOUS
  <2>1. step[p] # "idle" /\ reply[p] = "ok"
    BY DEF Answered, TypeInv, TypeOK
  <2>2. call[p] \in RefreshCall /\ call'[p] = call[p]
    BY <2>1, CallType, RequestStays DEF Answered
  <2> QED
    BY <2>1, <2>2 DEF SpentInv
<1>2. CASE Answered(r, "refresh", "ok") /\ Answered(q, "refresh", "ok")
  BY <1>1, <1>2 DEF RefreshTokenIsSingleUse
<1>3. ASSUME NEW p \in {r, q}, NEW o \in {r, q}, p # o, ~Answered(p, "refresh", "ok")
      PROVE  FALSE
  <2>1. /\ call'[p] = call[p] /\ sessions[call[p].refresh].refresh \in SessionIds
        /\ call'[o] = call[o] /\ reply'[o] = reply[o]
    BY <1>3, NewRefresh
  <2>2. Answered(o, "refresh", "ok")
    BY <2>1 DEF Answered
  <2>3. sessions[call[o].refresh].refresh \in Requests
    BY <1>1, <2>2
  <2>4. call[o].refresh = call[p].refresh
    BY <1>3, <2>1
  <2> QED
    BY <2>1, <2>3, <2>4, NoneAssumption
<1> QED
  BY <1>2, <1>3

\* That race is the only way to use a refresh token twice: as long as no two
\* refreshes with one token are between the read and the update, a token serves
\* one refresh, with every fault and crash (auth/service.go:283-328).
THEOREM RefreshTokensAreSingleUse == Spec /\ []RefreshesApart => []RefreshTokenIsSingleUse
<1>1. Init => TokensInv /\ SpentInv /\ FreshInv /\ RefreshTokenIsSingleUse
  BY NoneAssumption
  DEF Init, TokensInv, SpentInv, FreshInv, RefreshTokenIsSingleUse, Answered, Codes
<1> QED
  BY <1>1, TypeCorrect, StepTokensInv, StepSpentInv, StepFreshInv, StepSingleUse, PTL DEF Spec

=============================================================================
