------------------------------- MODULE Sessions -------------------------------
(***************************************************************************)
(* Sessions of the API: the auth middleware in front of every private      *)
(* route, with its high-fidelity check, and the two operations on a        *)
(* session, refresh and revoke (internal/domain/auth).                     *)
(*                                                                         *)
(* A request is a goroutine; an action is one call to PostgreSQL or Redis  *)
(* and the code up to the next.  The two tokens of a session are drawn     *)
(* together and named by what drew them: the session at sign-in, a refresh *)
(* request after that.  A session has a device integrity record of its     *)
(* own, so the session stands for it in the keys of nonces.                *)
(*                                                                         *)
(* A definition X_Y before a definition X is a mutation of X.              *)
(***************************************************************************)
EXTENDS Integers

CONSTANTS
  SessionIds,  \* sessions that sign-ins create
  Requests,    \* HTTP requests, each used for one call
  Nonces,      \* nonces a client draws
  AccessTTL,   \* accessTokenTTL, 15 minutes
  RefreshTTL,  \* refreshTokenTTL, 30 days
  Skew,        \* highFidelitySkewSeconds, 300
  NonceTTL,    \* nonceTTL, 600 seconds
  MaxAhead,    \* bound: seconds that a client's clock is ahead
  MaxDelay,    \* bound: seconds a SETNX takes before the client gives up
  MaxTime,     \* bound: last value of the clock
  StoreFaults, \* may a PostgreSQL or Redis call fail?
  Crashes,     \* may a request die half way?
  None

ASSUME TimesAssumption ==
  /\ AccessTTL \in Nat /\ RefreshTTL \in Nat
  /\ Skew \in Nat /\ NonceTTL \in Nat
  /\ MaxAhead \in Nat /\ MaxDelay \in Nat /\ MaxTime \in Nat

ASSUME FlagsAssumption == StoreFaults \in BOOLEAN /\ Crashes \in BOOLEAN

\* A nonce is remembered for as long as its request may be sent again.
ASSUME NonceAssumption == Skew + MaxAhead + MaxDelay < NonceTTL

Tokens == SessionIds \cup Requests

Row == [access: Tokens, refresh: Tokens, expires: Nat, refreshExpires: Nat,
        status: {"active", "revoked"}]

RefreshCall == [op: {"refresh"}, token: Tokens, refresh: Tokens]
RevokeCall  == [op: {"revoke"}, token: Tokens]
UseCall     == [op: {"use"}, token: Tokens, nonce: Nonces,
                ts: 0 .. MaxTime + MaxAhead, body: BOOLEAN]

VARIABLES
  sessions, \* table sessions: id -> row or None
  nonces,   \* "hf:nonce:<device integrity>:<nonce>" -> when it was set, or None
  clock,    \* utils.NowUnix()
  call,     \* request -> what the client asked, None before it is sent
  step,     \* request -> its next call
  sess,     \* request -> the session that it found, or None
  stamp,    \* request -> the time it read last
  reply     \* request -> what the client was answered

vars == <<sessions, nonces, clock, call, step, sess, stamp, reply>>

Running == {"session", "context", "nonce", "find", "rotate", "revoke"}
Codes   == {"ok", "invalid_token", "session_revoked", "session_expired",
            "timestamp_out_of_window", "replay_detected", "body_hash_mismatch",
            "internal"}

ASSUME NoneAssumption ==
  /\ None \notin Row /\ None \notin Nat /\ None \notin SessionIds
  /\ None \notin Codes
  /\ None \notin RefreshCall \cup RevokeCall \cup UseCall
  /\ SessionIds \cap Requests = {}

TypeOK ==
  /\ sessions \in [SessionIds -> Row \cup {None}]
  /\ nonces \in [SessionIds \X Nonces -> Nat \cup {None}]
  /\ clock \in Nat
  /\ call \in [Requests -> RefreshCall \cup RevokeCall \cup UseCall \cup {None}]
  /\ step \in [Requests -> Running \cup {"idle", "done", "lost"}]
  /\ sess \in [Requests -> SessionIds \cup {None}]
  /\ stamp \in [Requests -> Nat]
  /\ reply \in [Requests -> Codes \cup {None}]
  /\ \A r \in Requests :
       /\ step[r] = "idle" <=> call[r] = None
       /\ step[r] = "nonce" => call[r] \in UseCall
       /\ step[r] \in {"find", "rotate"} => call[r] \in RefreshCall
       /\ step[r] = "revoke" => call[r] \in RevokeCall
       /\ step[r] \in Running \ {"session"} =>
            sess[r] # None /\ sessions[sess[r]] # None

Init ==
  /\ sessions = [s \in SessionIds |-> None]
  /\ nonces = [k \in SessionIds \X Nonces |-> None]
  /\ clock = 0
  /\ call = [r \in Requests |-> None]
  /\ step = [r \in Requests |-> "idle"]
  /\ sess = [r \in Requests |-> None]
  /\ stamp = [r \in Requests |-> 0]
  /\ reply = [r \in Requests |-> None]

-----------------------------------------------------------------------------
(* Helpers.                                                                *)

Goto(r, next) == step' = [step EXCEPT ![r] = next]

Answer(r, code) == Goto(r, "done") /\ reply' = [reply EXCEPT ![r] = code]

Proceed(r, next) == Goto(r, next) /\ UNCHANGED reply

Fails(r) == StoreFaults /\ Answer(r, "internal")

Answered(r, op, code) == call[r] # None /\ call[r].op = op /\ reply[r] = code

WithAccess(t)  == {s \in SessionIds : sessions[s] # None /\ sessions[s].access = t}
WithRefresh(t) == {s \in SessionIds : sessions[s] # None /\ sessions[s].refresh = t}

\* The answer to a sign-in has both tokens, the answer to a refresh only the
\* access token (SessionRefreshResponse).
KnownAccess ==
  {s \in SessionIds : sessions[s] # None}
    \cup {r \in Requests : Answered(r, "refresh", "ok")}

KnownRefresh == {s \in SessionIds : sessions[s] # None}

-----------------------------------------------------------------------------
(* The middleware.                                                         *)

\* A sign-in ends with CreateSession.
SignIn(s) ==
  /\ sessions[s] = None
  /\ sessions' = [sessions EXCEPT ![s] =
       [access |-> s, refresh |-> s, expires |-> clock + AccessTTL,
        refreshExpires |-> clock + RefreshTTL, status |-> "active"]]
  /\ UNCHANGED <<nonces, clock, call, step, sess, stamp, reply>>

\* A client, or the network, may send a request again as it is.
Send(r) ==
  /\ step[r] = "idle"
  /\ \E c \in RefreshCall \cup RevokeCall \cup UseCall :
       /\ c.token \in KnownAccess
       /\ c \in RefreshCall => c.refresh \in KnownRefresh
       /\ c \in UseCall => c.ts <= clock + MaxAhead
       /\ call' = [call EXCEPT ![r] = c]
  /\ Goto(r, "session")
  /\ UNCHANGED <<sessions, nonces, clock, sess, stamp, reply>>

FindSession_IgnoresStatus(r) ==
  /\ step[r] = "session"
  /\ \/ /\ WithAccess(call[r].token) = {}
        /\ Answer(r, "invalid_token")
        /\ UNCHANGED sess
     \/ \E s \in WithAccess(call[r].token) :
          /\ sess' = [sess EXCEPT ![r] = s]
          /\ \/ sessions[s].expires < clock /\ Answer(r, "session_expired")
             \/ sessions[s].expires >= clock /\ Proceed(r, "context")
     \/ Fails(r) /\ UNCHANGED sess
  /\ UNCHANGED <<sessions, nonces, clock, call, stamp>>

\* GetSessionByAccessTokenHash and the checks of VerifyAccessToken.
FindSession(r) ==
  /\ step[r] = "session"
  /\ \/ /\ WithAccess(call[r].token) = {}
        /\ Answer(r, "invalid_token")
        /\ UNCHANGED sess
     \/ \E s \in WithAccess(call[r].token) :
          LET row == sessions[s] IN
          /\ sess' = [sess EXCEPT ![r] = s]
          /\ \/ row.status = "revoked" /\ Answer(r, "session_revoked")
             \/ /\ row.status = "active" /\ row.expires < clock
                /\ Answer(r, "session_expired")
             \/ /\ row.status = "active" /\ row.expires >= clock
                /\ Proceed(r, "context")
     \/ Fails(r) /\ UNCHANGED sess
  /\ UNCHANGED <<sessions, nonces, clock, call, stamp>>

InWindow_Wider(ts) == clock - ts <= Skew + 1 /\ ts - clock <= Skew

\* |now - ts| <= skewSeconds
InWindow(ts) == clock - ts <= Skew /\ ts - clock <= Skew

Handler(r) ==
  CASE call[r].op = "refresh" -> "find"
    [] call[r].op = "revoke"  -> "revoke"
    [] call[r].op = "use"     -> "nonce"

\* User, device and integrity record, whose status nothing changes, and for a
\* high-fidelity route the timestamp, read before the call to Redis.
LoadContext(r) ==
  /\ step[r] = "context"
  /\ \/ /\ call[r].op = "use" => InWindow(call[r].ts)
        /\ Proceed(r, Handler(r))
     \/ /\ call[r].op = "use" /\ ~InWindow(call[r].ts)
        /\ Answer(r, "timestamp_out_of_window")
     \/ Fails(r)
  /\ stamp' = [stamp EXCEPT ![r] = clock]
  /\ UNCHANGED <<sessions, nonces, clock, call, sess>>

Key(r) == <<sess[r], call[r].nonce>>

\* Redis may drop a key any time in the second in which its time is over.
MayBeFree(k) == nonces[k] # None => nonces[k] + NonceTTL <= clock
MayBeHeld(k) == nonces[k] # None /\ clock <= nonces[k] + NonceTTL

\* SETNX, then the hash of the body, then the handler.
TakeNonce(r) ==
  /\ step[r] = "nonce"
  /\ \/ /\ MayBeFree(Key(r)) /\ clock <= stamp[r] + MaxDelay
        /\ nonces' = [nonces EXCEPT ![Key(r)] = clock]
        /\ Answer(r, IF call[r].body THEN "ok" ELSE "body_hash_mismatch")
     \/ /\ MayBeHeld(Key(r)) /\ clock <= stamp[r] + MaxDelay
        /\ Answer(r, "replay_detected")
        /\ UNCHANGED nonces
     \/ /\ StoreFaults \/ clock > stamp[r] + MaxDelay
        /\ Answer(r, "internal")
        /\ \/ UNCHANGED nonces
           \/ /\ MayBeFree(Key(r))
              /\ nonces' = [nonces EXCEPT ![Key(r)] = clock]
  /\ UNCHANGED <<sessions, clock, call, sess, stamp>>

-----------------------------------------------------------------------------
(* POST /v1/auth/refresh                                                   *)

\* GetSessionByRefreshTokenHash and its checks; the session need not be the one
\* whose access token was sent.
FindRefresh(r) ==
  /\ step[r] = "find"
  /\ \/ /\ WithRefresh(call[r].refresh) = {}
        /\ Answer(r, "invalid_token")
        /\ UNCHANGED sess
     \/ \E s \in WithRefresh(call[r].refresh) :
          LET row == sessions[s] IN
          /\ sess' = [sess EXCEPT ![r] = s]
          /\ \/ row.status = "revoked" /\ Answer(r, "session_revoked")
             \/ /\ row.status = "active" /\ row.refreshExpires < clock
                /\ Answer(r, "session_expired")
             \/ /\ row.status = "active" /\ row.refreshExpires >= clock
                /\ Proceed(r, "rotate")
     \/ Fails(r) /\ UNCHANGED sess
  /\ stamp' = [stamp EXCEPT ![r] = clock]
  /\ UNCHANGED <<sessions, nonces, clock, call>>

Rotated_KeepsRefresh(r) ==
  [sessions[sess[r]] EXCEPT !.access = r, !.expires = stamp[r] + AccessTTL]

Rotated_Revives(r) ==
  [access |-> r, refresh |-> r, expires |-> stamp[r] + AccessTTL,
   refreshExpires |-> stamp[r] + RefreshTTL, status |-> "active"]

\* UpdateSessionTokens sets every column but the status.
Rotated(r) ==
  [access |-> r, refresh |-> r, expires |-> stamp[r] + AccessTTL,
   refreshExpires |-> stamp[r] + RefreshTTL, status |-> sessions[sess[r]].status]

\* UPDATE ... WHERE id, whatever tokens and status the row has by now.
UpdateSessionTokens(r) ==
  /\ step[r] = "rotate"
  /\ \/ /\ sessions' = [sessions EXCEPT ![sess[r]] = Rotated(r)]
        /\ Answer(r, "ok") \/ Fails(r)
     \/ Fails(r) /\ UNCHANGED sessions
  /\ UNCHANGED <<nonces, clock, call, sess, stamp>>

-----------------------------------------------------------------------------
(* POST /v1/auth/revoke                                                    *)

RevokeSession(r) ==
  /\ step[r] = "revoke"
  /\ \/ /\ sessions' = [sessions EXCEPT ![sess[r]].status = "revoked"]
        /\ Answer(r, "ok") \/ Fails(r)
     \/ Fails(r) /\ UNCHANGED sessions
  /\ UNCHANGED <<nonces, clock, call, sess, stamp>>

-----------------------------------------------------------------------------
(* The environment.                                                        *)

Crash(r) ==
  /\ Crashes
  /\ step[r] \in Running
  /\ Goto(r, "lost")
  /\ UNCHANGED <<sessions, nonces, clock, call, sess, stamp, reply>>

Tick ==
  /\ clock < MaxTime
  /\ clock' = clock + 1
  /\ UNCHANGED <<sessions, nonces, call, step, sess, stamp, reply>>

Serve(r) ==
  \/ FindSession(r) \/ LoadContext(r) \/ TakeNonce(r)
  \/ FindRefresh(r) \/ UpdateSessionTokens(r) \/ RevokeSession(r)

Next ==
  \/ \E s \in SessionIds : SignIn(s)
  \/ \E r \in Requests : Send(r) \/ Serve(r) \/ Crash(r)
  \/ Tick

Spec == Init /\ [][Next]_vars

-----------------------------------------------------------------------------
(* Properties.                                                             *)

\* A session that was revoked with success stays revoked: a refresh that found
\* it active before, and writes its tokens after, does not bring it back.
RevocationSticks ==
  \A r \in Requests : Answered(r, "revoke", "ok") =>
    sessions[sess[r]].status = "revoked"

Admitted(s) == {r \in Requests : step[r] \in Running \ {"session"} /\ sess[r] = s}

\* A revoked session lets no further request in, whichever of its tokens, old
\* or freshly rotated, the request has.
RevokedAdmitsNothing ==
  [][\A s \in SessionIds :
       sessions[s] # None /\ sessions[s].status = "revoked" =>
         (Admitted(s))' \subseteq Admitted(s)]_vars

\* After a refresh was answered, its refresh token begins no other refresh
\* (TEST_GUIDE.md:79), and no access token that was ever replaced works again.
OldTokensAreDead ==
  [][/\ \A r, q \in Requests :
          /\ Answered(r, "refresh", "ok") /\ step[q] = "find"
          /\ call[q].refresh = call[r].refresh
          => step'[q] # "rotate"
     /\ \A t \in KnownAccess :
          WithAccess(t) = {} => (WithAccess(t))' = {}]_vars

\* A high-fidelity request is let through once, however often it is sent again,
\* even with a new access token and in the last second of its window, as long
\* as clocks and delays keep to NonceAssumption.
PassedOnce ==
  \A r, q \in Requests :
    /\ Answered(r, "use", "ok") /\ Answered(q, "use", "ok")
    /\ sess[r] = sess[q]
    /\ call[r].nonce = call[q].nonce /\ call[r].ts = call[q].ts
    => r = q

\* "Each refresh token is single-use" (TEST_GUIDE.md:79).
RefreshTokenIsSingleUse ==
  \A r, q \in Requests :
    /\ Answered(r, "refresh", "ok") /\ Answered(q, "refresh", "ok")
    /\ call[r].refresh = call[q].refresh
    => r = q

=============================================================================
