-------------------------------- MODULE Logins --------------------------------
(***************************************************************************)
(* Sign-in of the API: OAuthBegin and OAuthComplete of                     *)
(* internal/domain/auth, with the OAuth states in Redis and the tables     *)
(* they fill (users, oauth_identities, zklogin_salts, wallet_bindings,     *)
(* devices, device_integrity_records, sessions).                           *)
(*                                                                         *)
(* A login is one call of OAuthComplete, a goroutine that makes its store  *)
(* calls one by one, in no transaction.  An action is one such call and    *)
(* the code up to the next; calls that read or write nothing that another  *)
(* login can change (Google, the user row, the device rows) are part of a  *)
(* neighbouring action.  What a login draws at random (user id, salt) is   *)
(* named by the login.                                                     *)
(*                                                                         *)
(* A definition X_Y before a definition X is a mutation of X.              *)
(***************************************************************************)
EXTENDS Integers, FiniteSets

CONSTANTS
  Begins,      \* sign-ins started with OAuthBegin, each has its own state
  LoginCalls,  \* calls of OAuthComplete
  Accounts,    \* Google accounts: issuer, subject and audience
  Addresses,   \* Sui addresses that clients send
  Concurrent,  \* may an account have several logins under way?
  StoreFaults, \* may a PostgreSQL or Redis call fail?
  Crashes,     \* may a login die half way?
  None         \* no account, no user, no address

ASSUME FlagsAssumption ==
  Concurrent \in BOOLEAN /\ StoreFaults \in BOOLEAN /\ Crashes \in BOOLEAN

Calls == [state: Begins, code: Begins, address: Addresses \cup {None},
          provider: BOOLEAN]

VARIABLES
  states,     \* keys "oauth:state:<state>" in Redis
  account,    \* begin -> the account that signed in at Google, or None
  users,      \* table users
  identities, \* table oauth_identities: account -> user or None
  salts,      \* table zklogin_salts: account -> salt or None
  wallets,    \* table wallet_bindings: user -> address or None
  rows,       \* login -> how many of device, integrity record and session exist
  call,       \* login -> what the client sent
  step,       \* login -> its next store call
  user,       \* login -> userID, None while unknown
  salt,       \* login -> the salt to answer, None while unknown
  reply       \* login -> what the client was answered

vars == <<states, account, users, identities, salts, wallets, rows, call, step,
          user, salt, reply>>

tables == <<users, identities, salts, wallets, rows>>
locals == <<user, salt>>

Running == {"state", "identity", "createUser", "createIdentity", "loadSalt",
            "createSalt", "bind", "open"}
Codes   == {"ok", "state_mismatch", "oauth_failed", "internal"}

ASSUME NoneAssumption ==
  /\ None \notin LoginCalls /\ None \notin Accounts /\ None \notin Addresses
  /\ None \notin Calls /\ None \notin Codes

TypeOK ==
  /\ states \subseteq Begins
  /\ account \in [Begins -> Accounts \cup {None}]
  /\ users \subseteq LoginCalls
  /\ identities \in [Accounts -> users \cup {None}]
  /\ salts \in [Accounts -> LoginCalls \cup {None}]
  /\ wallets \in [LoginCalls -> Addresses \cup {None}]
  /\ rows \in [LoginCalls -> 0 .. 3]
  /\ call \in [LoginCalls -> Calls \cup {None}]
  /\ step \in [LoginCalls -> Running \cup {"idle", "done", "lost"}]
  /\ user \in [LoginCalls -> LoginCalls \cup {None}]
  /\ salt \in [LoginCalls -> LoginCalls \cup {None}]
  /\ reply \in [LoginCalls -> Codes \cup {None}]
  /\ \A r \in LoginCalls :
       /\ step[r] = "idle" <=> call[r] = None
       /\ step[r] # "idle" => account[call[r].code] # None
       /\ wallets[r] # None => r \in users

Init ==
  /\ states = {}
  /\ account = [b \in Begins |-> None]
  /\ users = {}
  /\ identities = [a \in Accounts |-> None]
  /\ salts = [a \in Accounts |-> None]
  /\ wallets = [u \in LoginCalls |-> None]
  /\ rows = [r \in LoginCalls |-> 0]
  /\ call = [r \in LoginCalls |-> None]
  /\ step = [r \in LoginCalls |-> "idle"]
  /\ user = [r \in LoginCalls |-> None]
  /\ salt = [r \in LoginCalls |-> None]
  /\ reply = [r \in LoginCalls |-> None]

-----------------------------------------------------------------------------
(* POST /v1/auth/oauth/begin                                               *)

\* The state is stored, and then the user signs in at Google.
OAuthBegin(b, a) ==
  /\ account[b] = None
  /\ account' = [account EXCEPT ![b] = a]
  /\ states' = states \cup {b}
  /\ UNCHANGED <<tables, call, step, locals, reply>>

\* oauthStateTTL is over.
ExpireState(b) ==
  /\ b \in states
  /\ states' = states \ {b}
  /\ UNCHANGED <<account, tables, call, step, locals, reply>>

-----------------------------------------------------------------------------
(* POST /v1/auth/oauth/complete                                            *)

Goto(r, next) == step' = [step EXCEPT ![r] = next]

Answer(r, code) == Goto(r, "done") /\ reply' = [reply EXCEPT ![r] = code]

Proceed(r, next) == Goto(r, next) /\ UNCHANGED reply

Fails(r) == StoreFaults /\ Answer(r, "internal")

\* The account that the ID token of a login names.
Account(r) == account[call[r].code]

StartLogin(r) ==
  /\ step[r] = "idle"
  /\ \E c \in Calls :
       /\ account[c.state] # None /\ account[c.code] # None
       /\ Concurrent \/ \A q \in LoginCalls :
                          step[q] \in Running => Account(q) # account[c.code]
       /\ call' = [call EXCEPT ![r] = c]
  /\ Goto(r, "state")
  /\ UNCHANGED <<states, account, tables, locals, reply>>

\* The nonce claim of the ID token is the one that was stored with the state.
NonceMatches(r) == call[r].code = call[r].state

TakeState_Get(r) ==
  /\ step[r] = "state"
  /\ \/ call[r].state \in states /\ NonceMatches(r) /\ Proceed(r, "identity")
     \/ call[r].state \in states /\ Answer(r, "oauth_failed")
     \/ call[r].state \notin states /\ Answer(r, "state_mismatch")
     \/ StoreFaults /\ Answer(r, "state_mismatch")
  /\ UNCHANGED <<states, account, tables, call, locals>>

\* GETDEL of the state, then the exchange of the code and the check of the ID
\* token, which Google may refuse.
TakeState(r) ==
  /\ step[r] = "state"
  /\ \/ /\ call[r].state \in states
        /\ states' = states \ {call[r].state}
        /\ \/ NonceMatches(r) /\ Proceed(r, "identity")
           \/ Answer(r, "oauth_failed")
     \/ /\ call[r].state \notin states
        /\ Answer(r, "state_mismatch")
        /\ UNCHANGED states
     \/ /\ StoreFaults
        /\ states' \in {states, states \ {call[r].state}}
        /\ Answer(r, "state_mismatch")
  /\ UNCHANGED <<account, tables, call, locals>>

\* GetOAuthIdentity
LoadIdentity(r) ==
  /\ step[r] = "identity"
  /\ LET known == identities[Account(r)] IN
     \/ /\ known # None
        /\ user' = [user EXCEPT ![r] = known]
        /\ Proceed(r, "loadSalt")
     \/ /\ known = None
        /\ user' = [user EXCEPT ![r] = r]
        /\ Proceed(r, "createUser")
     \/ Fails(r) /\ UNCHANGED user
  /\ UNCHANGED <<states, account, tables, call, salt>>

\* INSERT INTO users, which may be applied though it is reported failed.
CreateUser(r) ==
  /\ step[r] = "createUser"
  /\ \/ users' = users \cup {r} /\ (Proceed(r, "createIdentity") \/ Fails(r))
     \/ Fails(r) /\ UNCHANGED users
  /\ UNCHANGED <<states, account, identities, salts, wallets, rows, call, locals>>

CreateOAuthIdentity_OnConflict(r) ==
  /\ step[r] = "createIdentity"
  /\ identities' = [identities EXCEPT ![Account(r)] = IF @ = None THEN r ELSE @]
  /\ Proceed(r, "loadSalt")
  /\ UNCHANGED <<states, account, users, salts, wallets, rows, call, locals>>

\* INSERT, refused by UNIQUE(issuer, subject, audience): the user row of a
\* login that comes second stays behind, and that login ends in an error.
CreateOAuthIdentity(r) ==
  /\ step[r] = "createIdentity"
  /\ \/ /\ identities[Account(r)] = None
        /\ identities' = [identities EXCEPT ![Account(r)] = r]
        /\ Proceed(r, "loadSalt") \/ Fails(r)
     \/ /\ identities[Account(r)] # None \/ StoreFaults
        /\ Answer(r, "internal")
        /\ UNCHANGED identities
  /\ UNCHANGED <<states, account, users, salts, wallets, rows, call, locals>>

\* No wallet is bound unless the client sent an address.
AfterSalt(r) == IF call[r].address = None THEN "open" ELSE "bind"

LoadSalt_KeptInMemory(r) ==
  /\ step[r] = "loadSalt"
  /\ LET known == salts[Account(r)] IN
     /\ salt' = [salt EXCEPT ![r] = IF known = None THEN r ELSE known]
     /\ Proceed(r, AfterSalt(r))
  /\ UNCHANGED <<states, account, tables, call, user>>

\* GetUserByID, whose status nothing changes, and GetOrCreateZkLoginSalt, which
\* only reads.
LoadSalt(r) ==
  /\ step[r] = "loadSalt"
  /\ LET known == salts[Account(r)] IN
     \/ /\ known # None
        /\ salt' = [salt EXCEPT ![r] = known]
        /\ Proceed(r, AfterSalt(r))
     \/ /\ known = None
        /\ salt' = [salt EXCEPT ![r] = r]
        /\ Proceed(r, "createSalt")
     \/ Fails(r) /\ UNCHANGED salt
  /\ UNCHANGED <<states, account, tables, call, user>>

\* INSERT ... ON CONFLICT DO NOTHING; the login keeps the salt it drew.
CreateZkLoginSalt(r) ==
  /\ step[r] = "createSalt"
  /\ \/ /\ salts' = [salts EXCEPT ![Account(r)] = IF @ = None THEN r ELSE @]
        /\ Proceed(r, AfterSalt(r)) \/ Fails(r)
     \/ Fails(r) /\ UNCHANGED salts
  /\ UNCHANGED <<states, account, users, identities, wallets, rows, call, locals>>

Taken_Never(r) == FALSE

\* UNIQUE(sui_address)
Taken(r) == \E u \in LoginCalls \ {user[r]} : wallets[u] = call[r].address

\* INSERT ... ON CONFLICT (user_id) DO UPDATE SET sui_address
UpsertWalletBinding(r) ==
  /\ step[r] = "bind"
  /\ \/ /\ ~Taken(r)
        /\ wallets' = [wallets EXCEPT ![user[r]] = call[r].address]
        /\ Proceed(r, "open") \/ Fails(r)
     \/ /\ Taken(r) \/ StoreFaults
        /\ Answer(r, "internal")
        /\ UNCHANGED wallets
  /\ UNCHANGED <<states, account, users, identities, salts, rows, call, locals>>

\* CreateDevice, CreateDeviceIntegrityRecord (with a CHECK on the provider that
\* the client named) and CreateSession: rows that no other login touches.
OpenSession(r) ==
  /\ step[r] = "open"
  /\ \/ call[r].provider /\ rows' = [rows EXCEPT ![r] = 3] /\ Answer(r, "ok")
     \/ ~call[r].provider /\ rows' = [rows EXCEPT ![r] = 1] /\ Answer(r, "internal")
     \/ /\ Fails(r)
        /\ \E n \in 0 .. 3 :
             /\ ~call[r].provider => n < 2
             /\ rows' = [rows EXCEPT ![r] = n]
  /\ UNCHANGED <<states, account, users, identities, salts, wallets, call, locals>>

\* The process dies, or the client disconnects and cancels the next call; in
\* the midst of OpenSession some of its rows may be there.
Crash(r) ==
  /\ Crashes
  /\ step[r] \in Running
  /\ Goto(r, "lost")
  /\ \/ UNCHANGED rows
     \/ /\ step[r] = "open"
        /\ \E n \in 1 .. 3 :
             /\ ~call[r].provider => n < 2
             /\ rows' = [rows EXCEPT ![r] = n]
  /\ UNCHANGED <<states, account, users, identities, salts, wallets, call, locals, reply>>

Serve(r) ==
  \/ TakeState(r) \/ LoadIdentity(r) \/ CreateUser(r) \/ CreateOAuthIdentity(r)
  \/ LoadSalt(r) \/ CreateZkLoginSalt(r) \/ UpsertWalletBinding(r) \/ OpenSession(r)

Next ==
  \/ \E r \in LoginCalls : StartLogin(r) \/ Serve(r) \/ Crash(r)
  \/ \E b \in Begins : ExpireState(b) \/ \E a \in Accounts : OAuthBegin(b, a)

Spec == Init /\ [][Next]_vars

-----------------------------------------------------------------------------
(* Properties.                                                             *)

SignedIn == {r \in LoginCalls : reply[r] = "ok"}

\* However the first logins of an account race and die between their inserts,
\* all that succeed sign in one user, and no other account signs in that user.
SameAccountSameUser ==
  \A r, q \in SignedIn : user[r] = user[q] <=> Account(r) = Account(q)

\* An OAuth state lets in one login at most, and only with the code that was
\* issued for it, though the same request may be sent several times.
StateAdmitsOneLogin ==
  \A r \in SignedIn :
    /\ call[r].code = call[r].state
    /\ \A q \in SignedIn : call[q].state = call[r].state => q = r

\* A login that is answered with tokens left all its rows: they are there for
\* the next login and for the session middleware, whatever other logins of the
\* account met.
LoginIsComplete ==
  \A r \in SignedIn :
    /\ user[r] \in users
    /\ identities[Account(r)] = user[r]
    /\ salts[Account(r)] # None
    /\ call[r].address # None => wallets[user[r]] # None
    /\ rows[r] = 3

\* A wallet address has one owner: no two accounts that signed in have the same
\* address bound.
AddressHasOneOwner ==
  \A a, b \in Accounts :
    /\ a # b /\ identities[a] # None /\ identities[b] # None
    /\ wallets[identities[a]] # None
    => wallets[identities[a]] # wallets[identities[b]]

\* The salt of an account is stable (002-arch-auth.md:462): every login of it is
\* answered the salt that is stored, so that all derive one address.
SaltIsStable == \A r \in SignedIn : salt[r] = salts[Account(r)]

=============================================================================
