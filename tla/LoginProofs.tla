----------------------------- MODULE LoginProofs -----------------------------
(***************************************************************************)
(* Proofs about Logins, for every value of the constants: any number of    *)
(* concurrent logins, accounts and devices, with every fault.              *)
(***************************************************************************)
EXTENDS Logins, TLAPS

KnownUser == {"loadSalt", "createSalt", "bind", "open"}

\* How far a login got says what it knows of its user.
UserInv ==
  \A r \in LoginCalls :
    /\ step[r] = "createIdentity" => r \in users
    /\ step[r] \in {"createUser", "createIdentity"} => user[r] = r
    /\ step[r] \in KnownUser \/ reply[r] = "ok" =>
         user[r] # None /\ user[r] = identities[Account(r)]
    /\ reply[r] = "ok" => step[r] = "done"
    /\ step[r] = "bind" => call[r].address # None

TypeInv == TypeOK /\ UserInv

LEMMA InitTypeInv == Init => TypeInv
  BY NoneAssumption DEF Init, TypeInv, TypeOK, UserInv, KnownUser, Codes

LEMMA CallType ==
  ASSUME TypeInv, NEW r \in LoginCalls, step[r] # "idle"
  PROVE  /\ call[r] \in Calls /\ Account(r) \in Accounts
         /\ call[r].state \in Begins /\ call[r].code \in Begins
         /\ call[r].address \in Addresses \cup {None}
<1>1. call[r] \in Calls
  BY DEF TypeInv, TypeOK
<1> QED
  BY <1>1, NoneAssumption DEF TypeInv, TypeOK, Calls, Account

LEMMA EnvironmentTypeInv ==
  ASSUME TypeInv,
         \E b \in Begins : ExpireState(b) \/ \E a \in Accounts : OAuthBegin(b, a)
  PROVE  TypeInv'
<1>1. ASSUME NEW b \in Begins, ExpireState(b) PROVE TypeInv'
  BY <1>1 DEF ExpireState, TypeInv, TypeOK, UserInv, Account, tables, locals
<1>2. ASSUME NEW b \in Begins, NEW a \in Accounts, OAuthBegin(b, a) PROVE TypeInv'
  <2>1. \A r \in LoginCalls : step[r] # "idle" => Account(r)' = Account(r)
    BY <1>2, CallType DEF OAuthBegin, Account, TypeInv, TypeOK
  <2>2. \A c \in Begins : account[c] # None => account'[c] # None
    BY <1>2 DEF OAuthBegin, TypeInv, TypeOK
  <2>3. TypeOK'
    <3>1. \A r \in LoginCalls : step[r] # "idle" => account'[call[r].code] # None
      BY <2>2, CallType DEF TypeInv, TypeOK
    <3> QED
      BY <1>2, <3>1 DEF OAuthBegin, TypeInv, TypeOK, tables, locals
  <2>4. UserInv'
    BY <1>2, <2>1 DEF OAuthBegin, TypeInv, UserInv, KnownUser, tables, locals
  <2> QED
    BY <2>3, <2>4 DEF TypeInv
<1> QED
  BY <1>1, <1>2

LEMMA StartTypeInv ==
  ASSUME TypeInv, NEW r \in LoginCalls, StartLogin(r) \/ Crash(r)
  PROVE  TypeInv'
<1> USE DEF TypeInv
<1>1. CASE StartLogin(r)
  <2>1. PICK c \in Calls : account[c.code] # None /\ call' = [call EXCEPT ![r] = c]
    BY <1>1 DEF StartLogin
  <2>2. c # None
    BY NoneAssumption
  <2>3. \A q \in LoginCalls \ {r} : call'[q] = call[q] /\ step'[q] = step[q]
    BY <1>1, <2>1 DEF StartLogin, Goto, TypeOK
  <2>4. call'[r] = c /\ step'[r] = "state"
    BY <1>1, <2>1 DEF StartLogin, Goto, TypeOK
  <2>5. TypeOK'
    BY <1>1, <2>1, <2>2, <2>3, <2>4 DEF StartLogin, Goto, TypeOK, Running, tables, locals
  <2>6. UserInv'
    BY <1>1, <2>3, <2>4 DEF StartLogin, UserInv, KnownUser, Account, TypeOK, tables, locals
  <2> QED
    BY <2>5, <2>6
<1>2. CASE Crash(r)
  BY <1>2 DEF Crash, Goto, TypeOK, UserInv, KnownUser, Account, Running, locals
<1> QED
  BY <1>1, <1>2

LEMMA ServeTypeInv ==
  ASSUME TypeInv, NEW r \in LoginCalls, Serve(r)
  PROVE  TypeInv'
<1> USE DEF TypeInv
<1>1. CASE TakeState(r)
  BY <1>1 DEF TakeState, Proceed, Answer, Goto, TypeOK, UserInv, KnownUser,
     Account, Running, Codes, tables, locals
<1>2. CASE LoadIdentity(r)
  <2>1. Account(r) \in Accounts
    BY <1>2, CallType DEF LoadIdentity
  <2>2. TypeOK'
    BY <1>2, <2>1 DEF LoadIdentity, Proceed, Fails, Answer, Goto, TypeOK, Running, Codes, tables
  <2>3. UserInv'
    BY <1>2, <2>1, NoneAssumption
    DEF LoadIdentity, Proceed, Fails, Answer, Goto, TypeOK, UserInv, KnownUser,
        Account, tables
  <2> QED
    BY <2>2, <2>3
<1>3. CASE CreateUser(r)
  BY <1>3 DEF CreateUser, Proceed, Fails, Answer, Goto, TypeOK, UserInv, KnownUser,
     Account, Running, Codes, locals
<1>4. CASE CreateOAuthIdentity(r)
  <2>1. Account(r) \in Accounts /\ r \in users /\ user[r] = r
    BY <1>4, CallType DEF CreateOAuthIdentity, UserInv
  <2>2. TypeOK'
    BY <1>4, <2>1 DEF CreateOAuthIdentity, Proceed, Fails, Answer, Goto, TypeOK, Running, Codes, locals
  <2>3. \A a \in Accounts : identities[a] # None => identities'[a] = identities[a]
    BY <1>4, <2>1 DEF CreateOAuthIdentity, TypeOK
  <2>4. ASSUME NEW q \in LoginCalls, step[q] \in KnownUser \/ reply[q] = "ok"
        PROVE  user[q] = identities'[Account(q)]
    <3>1. Account(q) \in Accounts /\ user[q] # None /\ user[q] = identities[Account(q)]
      BY <2>4, CallType DEF UserInv, KnownUser
    <3> QED
      BY <2>3, <3>1
  <2>5. \A q \in LoginCalls \ {r} : step'[q] = step[q] /\ reply'[q] = reply[q]
    BY <1>4 DEF CreateOAuthIdentity, Proceed, Fails, Answer, Goto, TypeOK
  <2>6. /\ step'[r] \notin {"createIdentity", "createUser", "bind"}
        /\ reply'[r] # "ok"
        /\ step'[r] \in KnownUser => identities'[Account(r)] = r
    BY <1>4, <2>1 DEF CreateOAuthIdentity, Proceed, Fails, Answer, Goto, TypeOK, UserInv, KnownUser
  <2>7. UserInv'
    BY <1>4, <2>1, <2>4, <2>5, <2>6, NoneAssumption
    DEF CreateOAuthIdentity, UserInv, Account, locals
  <2> QED
    BY <2>2, <2>7
<1>5. CASE LoadSalt(r)
  <2>1. Account(r) \in Accounts
    BY <1>5, CallType DEF LoadSalt
  <2>2. TypeOK'
    BY <1>5, <2>1 DEF LoadSalt, Proceed, Fails, Answer, Goto, AfterSalt, TypeOK, Running, Codes, tables
  <2>3. UserInv'
    BY <1>5 DEF LoadSalt, Proceed, Fails, Answer, Goto, AfterSalt, TypeOK, UserInv, KnownUser,
       Account, tables
  <2> QED
    BY <2>2, <2>3
<1>6. CASE CreateZkLoginSalt(r)
  <2>1. Account(r) \in Accounts
    BY <1>6, CallType DEF CreateZkLoginSalt
  <2>2. TypeOK'
    BY <1>6, <2>1 DEF CreateZkLoginSalt, Proceed, Fails, Answer, Goto, AfterSalt, TypeOK, Running, Codes, locals
  <2>3. UserInv'
    BY <1>6 DEF CreateZkLoginSalt, Proceed, Fails, Answer, Goto, AfterSalt, TypeOK, UserInv, KnownUser,
       Account, locals
  <2> QED
    BY <2>2, <2>3
<1>7. CASE UpsertWalletBinding(r)
  <2>1. /\ Account(r) \in Accounts /\ user[r] \in users
        /\ call[r].address \in Addresses \cup {None}
    BY <1>7, CallType DEF UpsertWalletBinding, UserInv, KnownUser, TypeOK
  <2>2. TypeOK'
    BY <1>7, <2>1 DEF UpsertWalletBinding, Proceed, Fails, Answer, Goto, TypeOK, Running, Codes, locals
  <2>3. UserInv'
    BY <1>7 DEF UpsertWalletBinding, Proceed, Fails, Answer, Goto, TypeOK, UserInv, KnownUser,
       Account, locals
  <2> QED
    BY <2>2, <2>3
<1>8. CASE OpenSession(r)
  BY <1>8 DEF OpenSession, Fails, Answer, Goto, TypeOK, UserInv, KnownUser,
     Account, Running, Codes, locals
<1> QED
  BY <1>1, <1>2, <1>3, <1>4, <1>5, <1>6, <1>7, <1>8 DEF Serve

LEMMA StepTypeInv == TypeInv /\ [Next]_vars => TypeInv'
<1> SUFFICES ASSUME TypeInv, [Next]_vars PROVE TypeInv'
  OBVIOUS
<1>1. CASE UNCHANGED vars
  BY <1>1 DEF vars, tables, locals, TypeInv, TypeOK, UserInv, KnownUser, Account
<1> QED
  BY <1>1, EnvironmentTypeInv, StartTypeInv, ServeTypeInv DEF Next

\* Every reachable state is well typed, keeps the foreign keys, and a login
\* works for the user that its account's identity names.
THEOREM TypeCorrect == Spec => []TypeInv
<1> QED
  BY InitTypeInv, StepTypeInv, PTL DEF Spec

\* Every variable keeps its type, in every instance (auth/service.go:59-281).
THEOREM TypeOKHolds == Spec => []TypeOK
<1>1. TypeInv => TypeOK
  BY DEF TypeInv
<1> QED
  BY <1>1, TypeCorrect, PTL

-----------------------------------------------------------------------------
(* What a step leaves alone.                                               *)

LEMMA CallStays ==
  ASSUME TypeInv, [Next]_vars, NEW r \in LoginCalls, step[r] # "idle"
  PROVE  /\ call'[r] = call[r] /\ account'[call[r].code] = account[call[r].code]
         /\ step'[r] # "idle"
<1> USE DEF TypeInv, TypeOK
<1>1. call[r].code \in Begins /\ account[call[r].code] # None
  BY CallType
<1>2. ASSUME NEW q \in LoginCalls, StartLogin(q) \/ Serve(q) \/ Crash(q)
      PROVE  call'[r] = call[r] /\ account' = account /\ step'[r] # "idle"
  <2>1. CASE StartLogin(q)
    BY <2>1 DEF StartLogin, Goto
  <2>2. CASE Crash(q)
    BY <2>2 DEF Crash, Goto
  <2>3. CASE Serve(q)
    <3>1. call' = call /\ account' = account
      BY <2>3 DEF Serve, TakeState, LoadIdentity, CreateUser, CreateOAuthIdentity,
         LoadSalt, CreateZkLoginSalt, UpsertWalletBinding, OpenSession
    <3>2. \E next \in (Running \ {"state"}) \cup {"done"} : step' = [step EXCEPT ![q] = next]
      BY <2>3 DEF Serve, TakeState, LoadIdentity, CreateUser, CreateOAuthIdentity,
         LoadSalt, CreateZkLoginSalt, UpsertWalletBinding, OpenSession, Proceed, Fails,
         Answer, Goto, AfterSalt, Running
    <3> QED
      BY <3>1, <3>2 DEF Running
  <2> QED
    BY <1>2, <2>1, <2>2, <2>3
<1>3. ASSUME NEW b \in Begins, ExpireState(b) \/ \E a \in Accounts : OAuthBegin(b, a)
      PROVE  /\ call' = call /\ step' = step
             /\ account'[call[r].code] = account[call[r].code]
  BY <1>1, <1>3 DEF ExpireState, OAuthBegin
<1> QED
  BY <1>2, <1>3 DEF Next, vars

LEMMA TablesStay ==
  ASSUME TypeInv, [Next]_vars
  PROVE  /\ users \subseteq users'
         /\ \A a \in Accounts :
              /\ identities[a] # None => identities'[a] = identities[a]
              /\ salts[a] # None => salts'[a] = salts[a]
         /\ \A u \in LoginCalls : wallets[u] # None => wallets'[u] # None
<1> USE DEF TypeInv, TypeOK
<1>1. ASSUME NEW r \in LoginCalls, CreateUser(r) PROVE users \subseteq users'
  BY <1>1 DEF CreateUser
<1>2. ASSUME NEW r \in LoginCalls, CreateOAuthIdentity(r)
      PROVE  \A a \in Accounts : identities[a] # None => identities'[a] = identities[a]
  BY <1>2 DEF CreateOAuthIdentity
<1>3. ASSUME NEW r \in LoginCalls, CreateZkLoginSalt(r)
      PROVE  \A a \in Accounts : salts[a] # None => salts'[a] = salts[a]
  BY <1>3 DEF CreateZkLoginSalt
<1>4. ASSUME NEW r \in LoginCalls, UpsertWalletBinding(r)
      PROVE  \A u \in LoginCalls : wallets[u] # None => wallets'[u] # None
  BY <1>4 DEF UpsertWalletBinding, UserInv
<1>5. /\ UNCHANGED users \/ \E r \in LoginCalls : CreateUser(r)
      /\ UNCHANGED identities \/ \E r \in LoginCalls : CreateOAuthIdentity(r)
      /\ UNCHANGED salts \/ \E r \in LoginCalls : CreateZkLoginSalt(r)
      /\ UNCHANGED wallets \/ \E r \in LoginCalls : UpsertWalletBinding(r)
  BY DEF Next, vars, StartLogin, Crash, Serve, TakeState, LoadIdentity, CreateUser,
     CreateOAuthIdentity, LoadSalt, CreateZkLoginSalt, UpsertWalletBinding, OpenSession,
     ExpireState, OAuthBegin, tables
<1> QED
  BY <1>1, <1>2, <1>3, <1>4, <1>5

-----------------------------------------------------------------------------
(* Users and addresses.                                                    *)

\* The user of an account is named by a login of that account, and no two
\* users have one address.
UsersApart ==
  /\ \A a \in Accounts : identities[a] # None =>
       step[identities[a]] # "idle" /\ Account(identities[a]) = a
  /\ \A u, v \in LoginCalls : u # v /\ wallets[u] # None => wallets[u] # wallets[v]

LEMMA StepUsersApart == TypeInv /\ UsersApart /\ [Next]_vars => UsersApart'
<1> SUFFICES ASSUME TypeInv, UsersApart, [Next]_vars PROVE UsersApart'
  OBVIOUS
<1> USE DEF TypeInv, TypeOK
<1>1. ASSUME NEW a \in Accounts, identities'[a] # None
      PROVE  step'[identities'[a]] # "idle" /\ Account(identities[a])' = a
  <2>1. CASE identities[a] # None
    <3>1. /\ identities'[a] = identities[a] /\ identities[a] \in LoginCalls
          /\ step[identities[a]] # "idle" /\ Account(identities[a]) = a
      BY <2>1, TablesStay DEF UsersApart
    <3> QED
      BY <3>1, CallStays DEF Account
  <2>2. CASE identities[a] = None
    <3>1. PICK r \in LoginCalls : CreateOAuthIdentity(r)
      BY <1>1, <2>2 DEF Next, vars, StartLogin, Crash, Serve, TakeState, LoadIdentity,
         CreateUser, LoadSalt, CreateZkLoginSalt, UpsertWalletBinding, OpenSession,
         ExpireState, OAuthBegin, tables
    <3>2. Account(r) = a /\ identities'[a] = r /\ step[r] # "idle"
      BY <1>1, <2>2, <3>1 DEF CreateOAuthIdentity
    <3> QED
      BY <3>2, CallStays DEF Account
  <2> QED
    BY <2>1, <2>2
<1>2. ASSUME NEW u \in LoginCalls, NEW v \in LoginCalls, u # v, wallets'[u] # None
      PROVE  wallets'[u] # wallets'[v]
  <2>1. CASE UNCHANGED wallets
    BY <1>2, <2>1 DEF UsersApart
  <2>2. ASSUME NEW r \in LoginCalls, UpsertWalletBinding(r)
        PROVE  wallets'[u] # wallets'[v]
    <3>1. CASE UNCHANGED wallets
      BY <1>2, <3>1 DEF UsersApart
    <3>2. CASE ~Taken(r) /\ wallets' = [wallets EXCEPT ![user[r]] = call[r].address]
      BY <1>2, <2>2, <3>2 DEF UsersApart, Taken
    <3> QED
      BY <2>2, <3>1, <3>2 DEF UpsertWalletBinding
  <2> QED
    BY <2>1, <2>2 DEF Next, vars, StartLogin, Crash, Serve, TakeState, LoadIdentity,
       CreateUser, CreateOAuthIdentity, LoadSalt, CreateZkLoginSalt, OpenSession,
       ExpireState, OAuthBegin, tables
<1> QED
  BY <1>1, <1>2 DEF UsersApart

LEMMA UsersApartAlways == Spec => []UsersApart
<1>1. Init => UsersApart
  BY DEF Init, UsersApart
<1> QED
  BY <1>1, TypeCorrect, StepUsersApart, PTL DEF Spec

\* All successful logins of an account sign in one user, and no other account
\* does.
THEOREM OneUserPerAccount == Spec => []SameAccountSameUser
<1>1. TypeInv /\ UsersApart => SameAccountSameUser
  <2> SUFFICES ASSUME TypeInv, UsersApart, NEW r \in SignedIn, NEW q \in SignedIn
               PROVE  user[r] = user[q] <=> Account(r) = Account(q)
    BY DEF SameAccountSameUser
  <2>1. \A p \in SignedIn :
          /\ Account(p) \in Accounts
          /\ user[p] # None /\ user[p] = identities[Account(p)]
    BY CallType DEF SignedIn, TypeInv, UserInv
  <2> QED
    BY <2>1 DEF UsersApart
<1> QED
  BY <1>1, TypeCorrect, UsersApartAlways, PTL

\* No address is bound to the users of two accounts.
THEOREM OneOwnerPerAddress == Spec => []AddressHasOneOwner
<1>1. TypeInv /\ UsersApart => AddressHasOneOwner
  BY DEF AddressHasOneOwner, UsersApart, TypeInv, TypeOK
<1> QED
  BY <1>1, TypeCorrect, UsersApartAlways, PTL

-----------------------------------------------------------------------------
(* What a successful login leaves behind.                                  *)

RowsInv ==
  \A r \in LoginCalls :
    /\ step[r] \in {"bind", "open"} \/ reply[r] = "ok" => salts[Account(r)] # None
    /\ step[r] = "open" \/ reply[r] = "ok" =>
         (call[r].address # None => wallets[user[r]] # None)
    /\ reply[r] = "ok" => rows[r] = 3

LEMMA UserStays ==
  ASSUME TypeInv, [Next]_vars, NEW r \in LoginCalls,
         step[r] \in KnownUser \/ reply[r] = "ok"
  PROVE  user'[r] = user[r]
<1> USE DEF TypeInv, TypeOK
<1>1. ASSUME NEW q \in LoginCalls, LoadIdentity(q) PROVE user'[r] = user[r]
  BY <1>1 DEF LoadIdentity, UserInv, KnownUser
<1> QED
  BY <1>1 DEF Next, vars, StartLogin, Crash, Serve, TakeState, CreateUser,
     CreateOAuthIdentity, LoadSalt, CreateZkLoginSalt, UpsertWalletBinding, OpenSession,
     ExpireState, OAuthBegin, tables, locals

\* How a login comes to its last steps.
LEMMA LastSteps ==
  ASSUME TypeInv, [Next]_vars, NEW r \in LoginCalls
  PROVE  /\ step'[r] = "bind" =>
              \/ step[r] = "bind"
              \/ LoadSalt(r) /\ salts[Account(r)] # None
              \/ CreateZkLoginSalt(r) /\ salts'[Account(r)] # None
         /\ step'[r] = "open" =>
              \/ step[r] = "open"
              \/ /\ call[r].address = None
                 /\ LoadSalt(r) \/ CreateZkLoginSalt(r)
                 /\ salts'[Account(r)] # None
              \/ UpsertWalletBinding(r) /\ wallets'[user[r]] # None
         /\ reply'[r] = "ok" =>
              \/ reply[r] = "ok" /\ rows'[r] = rows[r]
              \/ OpenSession(r) /\ rows'[r] = 3
<1> USE DEF TypeInv, TypeOK
<1>1. ASSUME NEW q \in LoginCalls, q # r, StartLogin(q) \/ Serve(q) \/ Crash(q)
      PROVE  step'[r] = step[r] /\ reply'[r] = reply[r] /\ rows'[r] = rows[r]
  BY <1>1 DEF StartLogin, Crash, Serve, TakeState, LoadIdentity, CreateUser,
     CreateOAuthIdentity, LoadSalt, CreateZkLoginSalt, UpsertWalletBinding, OpenSession,
     Proceed, Fails, Answer, Goto, tables
<1>2. CASE TakeState(r) \/ LoadIdentity(r) \/ CreateUser(r) \/ CreateOAuthIdentity(r)
  BY <1>2 DEF TakeState, LoadIdentity, CreateUser, CreateOAuthIdentity, Proceed, Fails,
     Answer, Goto, UserInv, tables
<1>3. CASE LoadSalt(r)
  BY <1>3 DEF LoadSalt, AfterSalt, Proceed, Fails, Answer, Goto, UserInv, tables
<1>4. CASE CreateZkLoginSalt(r)
  <2>1. Account(r) \in Accounts
    BY <1>4, CallType DEF CreateZkLoginSalt
  <2>2. salts'[Account(r)] # None \/ Fails(r)
    BY <1>4, <2>1, NoneAssumption DEF CreateZkLoginSalt
  <2> QED
    BY <1>4, <2>2 DEF CreateZkLoginSalt, AfterSalt, Proceed, Fails, Answer, Goto, UserInv
<1>5. CASE UpsertWalletBinding(r)
  <2>1. user[r] \in LoginCalls /\ call[r].address # None
    BY <1>5 DEF UpsertWalletBinding, UserInv, KnownUser
  <2> QED
    BY <1>5, <2>1 DEF UpsertWalletBinding, Proceed, Fails, Answer, Goto, UserInv
<1>6. CASE OpenSession(r)
  BY <1>6 DEF OpenSession, Fails, Answer, Goto, UserInv
<1>7. CASE StartLogin(r) \/ Crash(r)
  BY <1>7 DEF StartLogin, Crash, Goto, UserInv, Running, tables
<1>8. CASE UNCHANGED <<step, reply, rows>>
  BY <1>8
<1>9. UNCHANGED <<step, reply, rows>>
      \/ \E q \in LoginCalls : StartLogin(q) \/ Serve(q) \/ Crash(q)
  BY DEF Next, vars, ExpireState, OAuthBegin, tables
<1> QED
  BY <1>1, <1>2, <1>3, <1>4, <1>5, <1>6, <1>7, <1>8, <1>9 DEF Serve

LEMMA StepRowsInv == TypeInv /\ RowsInv /\ [Next]_vars => RowsInv'
<1> SUFFICES ASSUME TypeInv, RowsInv, [Next]_vars, NEW r \in LoginCalls
             PROVE  /\ step'[r] \in {"bind", "open"} \/ reply'[r] = "ok" =>
                         salts'[Account(r)'] # None
                    /\ step'[r] = "open" \/ reply'[r] = "ok" =>
                         (call'[r].address # None => wallets'[user'[r]] # None)
                    /\ reply'[r] = "ok" => rows'[r] = 3
  BY DEF RowsInv
<1>1. /\ step'[r] \in {"bind", "open"} => step[r] \in KnownUser
      /\ reply'[r] = "ok" => reply[r] = "ok" \/ step[r] \in KnownUser
  BY LastSteps DEF LoadSalt, CreateZkLoginSalt, UpsertWalletBinding, OpenSession, KnownUser
<1>2. CASE step'[r] \in {"bind", "open"} \/ reply'[r] = "ok"
  <2>1. /\ step[r] # "idle" /\ call'[r] = call[r] /\ Account(r)' = Account(r)
        /\ user'[r] = user[r]
    BY <1>1, <1>2, CallStays, UserStays DEF KnownUser, TypeInv, UserInv, Account
  <2>2. Account(r) \in Accounts /\ user[r] \in LoginCalls
    BY <1>1, <1>2, <2>1, CallType DEF TypeInv, TypeOK, UserInv
  <2>3. salts'[Account(r)] # None
    <3>1. salts[Account(r)] # None \/ salts'[Account(r)] # None
      BY <1>2, LastSteps DEF RowsInv, UpsertWalletBinding, OpenSession
    <3> QED
      BY <2>2, <3>1, TablesStay
  <2>4. step'[r] = "open" \/ reply'[r] = "ok" =>
          (call[r].address # None => wallets'[user[r]] # None)
    <3>1. step'[r] = "open" \/ reply'[r] = "ok" =>
            \/ call[r].address = None
            \/ wallets[user[r]] # None
            \/ wallets'[user[r]] # None
      BY LastSteps DEF RowsInv, OpenSession
    <3> QED
      BY <2>2, <3>1, TablesStay
  <2> QED
    BY <2>1, <2>3, <2>4, LastSteps DEF RowsInv
<1> QED
  BY <1>2

\* A login answered with tokens has all its rows, whatever other logins of the
\* account met.
THEOREM LoginsAreComplete == Spec => []LoginIsComplete
<1>1. Init => RowsInv
  BY NoneAssumption DEF Init, RowsInv, Codes
<1>2. TypeInv /\ RowsInv => LoginIsComplete
  <2> SUFFICES ASSUME TypeInv, RowsInv, NEW r \in SignedIn
               PROVE  /\ user[r] \in users /\ identities[Account(r)] = user[r]
                      /\ salts[Account(r)] # None
                      /\ call[r].address # None => wallets[user[r]] # None
                      /\ rows[r] = 3
    BY DEF LoginIsComplete
  <2>1. Account(r) \in Accounts
    BY CallType DEF SignedIn, TypeInv, UserInv
  <2> QED
    BY <2>1 DEF SignedIn, TypeInv, TypeOK, UserInv, RowsInv
<1> QED
  BY <1>1, <1>2, TypeCorrect, StepRowsInv, PTL DEF Spec

-----------------------------------------------------------------------------
(* OAuth states.                                                           *)

Admitted == {r \in LoginCalls : step[r] \in Running \ {"state"} \/ reply[r] = "ok"}

\* A login that passed the check of its state took that state away.
StateTaken ==
  \A r \in Admitted :
    /\ call[r].code = call[r].state
    /\ call[r].state \notin states
    /\ \A q \in Admitted : call[q].state = call[r].state => q = r

LEMMA StepStateTaken == TypeInv /\ StateTaken /\ [Next]_vars => StateTaken'
<1> SUFFICES ASSUME TypeInv, StateTaken, [Next]_vars PROVE StateTaken'
  OBVIOUS
<1> USE DEF TypeInv, TypeOK
<1>1. \A r \in Admitted : step[r] # "idle" /\ call'[r] = call[r]
  BY CallStays DEF Admitted, Running, UserInv
<1>2. CASE Admitted' \subseteq Admitted /\ states' \subseteq states
  BY <1>1, <1>2 DEF StateTaken
<1>3. ASSUME NEW b \in Begins, NEW a \in Accounts, OAuthBegin(b, a) PROVE StateTaken'
  <2>1. Admitted' = Admitted /\ states' = states \cup {b} /\ account[b] = None
    BY <1>3 DEF OAuthBegin, Admitted
  <2>2. ASSUME NEW r \in Admitted PROVE call[r].state # b
    <3>1. account[call[r].code] # None
      BY <1>1 DEF Admitted
    <3> QED
      BY <2>1, <3>1 DEF StateTaken
  <2> QED
    BY <1>1, <2>1, <2>2 DEF StateTaken
<1>4. ASSUME NEW r \in LoginCalls, TakeState(r) PROVE StateTaken'
  <2>1. CASE Admitted' \subseteq Admitted
    BY <1>2, <1>4, <2>1 DEF TakeState
  <2>2. CASE ~(Admitted' \subseteq Admitted)
    <3>1. /\ call[r].state \in states /\ states' = states \ {call[r].state}
          /\ NonceMatches(r) /\ Admitted' \subseteq Admitted \cup {r} /\ call' = call
      BY <1>4, <2>2 DEF TakeState, Proceed, Answer, Goto, Admitted, Running
    <3> QED
      BY <3>1 DEF StateTaken, NonceMatches
  <2> QED
    BY <2>1, <2>2
<1>5. ASSUME NEW r \in LoginCalls, Serve(r), ~TakeState(r)
      PROVE  Admitted' \subseteq Admitted /\ states' = states
  BY <1>5 DEF Serve, LoadIdentity, CreateUser, CreateOAuthIdentity, LoadSalt,
     CreateZkLoginSalt, UpsertWalletBinding, OpenSession, Proceed, Fails, Answer, Goto,
     Admitted, Running
<1>6. ASSUME NEW r \in LoginCalls, StartLogin(r) \/ Crash(r)
      PROVE  Admitted' \subseteq Admitted /\ states' = states
  BY <1>6 DEF StartLogin, Crash, Goto, Admitted, Running
<1>7. ASSUME NEW b \in Begins, ExpireState(b)
      PROVE  Admitted' \subseteq Admitted /\ states' \subseteq states
  BY <1>7 DEF ExpireState, Admitted
<1>8. CASE UNCHANGED vars
  BY <1>2, <1>8 DEF vars, Admitted
<1> QED
  BY <1>2, <1>3, <1>4, <1>5, <1>6, <1>7, <1>8 DEF Next

\* An OAuth state admits one login at most, with its own code.
THEOREM OneLoginPerState == Spec => []StateAdmitsOneLogin
<1>1. Init => StateTaken
  BY NoneAssumption DEF Init, StateTaken, Admitted, Running, Codes
<1>2. StateTaken => StateAdmitsOneLogin
  BY DEF StateTaken, StateAdmitsOneLogin, SignedIn, Admitted
<1> QED
  BY <1>1, <1>2, TypeCorrect, StepStateTaken, PTL DEF Spec

-----------------------------------------------------------------------------
(* Salts.  LoginSaltRace.cfg has the race in which a login answers a salt  *)
(* that is not stored; it needs two logins of one account that both found  *)
(* no salt before either wrote its own.                                    *)

\* No two logins of an account are between the read that found no salt and the
\* insert.
DrawsApart ==
  \A r, q \in LoginCalls :
    /\ step[r] = "createSalt" /\ step[q] = "createSalt" /\ Account(r) = Account(q)
    => r = q

\* A login that is to insert its salt is the first of its account; one past
\* that has the salt that is stored.
SaltInv ==
  \A r \in LoginCalls :
    /\ step[r] = "createSalt" => salts[Account(r)] = None /\ salt[r] = r
    /\ step[r] \in {"bind", "open"} \/ reply[r] = "ok" => salt[r] = salts[Account(r)]

LEMMA SaltStays ==
  ASSUME TypeInv, [Next]_vars, NEW r \in LoginCalls, ~LoadSalt(r)
  PROVE  salt'[r] = salt[r]
<1>1. ASSUME NEW q \in LoginCalls, LoadSalt(q) PROVE salt'[r] = salt[r]
  BY <1>1 DEF LoadSalt, TypeInv, TypeOK
<1> QED
  BY <1>1 DEF Next, vars, StartLogin, Crash, Serve, TakeState, LoadIdentity, CreateUser,
     CreateOAuthIdentity, CreateZkLoginSalt, UpsertWalletBinding, OpenSession,
     ExpireState, OAuthBegin, tables, locals

\* Only a login that finds no salt goes on to insert one.
LEMMA DrawsSalt ==
  ASSUME TypeInv, [Next]_vars, NEW r \in LoginCalls, step'[r] = "createSalt"
  PROVE  \/ step[r] = "createSalt"
         \/ /\ LoadSalt(r) /\ salts[Account(r)] = None
            /\ salt'[r] = r /\ salts' = salts
<1> USE DEF TypeInv, TypeOK
<1>1. ASSUME NEW q \in LoginCalls, q # r, StartLogin(q) \/ Serve(q) \/ Crash(q)
      PROVE  step'[r] = step[r]
  BY <1>1 DEF StartLogin, Crash, Serve, TakeState, LoadIdentity, CreateUser,
     CreateOAuthIdentity, LoadSalt, CreateZkLoginSalt, UpsertWalletBinding, OpenSession,
     Proceed, Fails, Answer, Goto
<1>2. CASE LoadSalt(r)
  BY <1>2 DEF LoadSalt, AfterSalt, Proceed, Fails, Answer, Goto, tables
<1>3. ASSUME StartLogin(r) \/ Crash(r) \/ (Serve(r) /\ ~LoadSalt(r)) PROVE FALSE
  BY <1>3 DEF StartLogin, Crash, Serve, TakeState, LoadIdentity, CreateUser,
     CreateOAuthIdentity, CreateZkLoginSalt, UpsertWalletBinding, OpenSession,
     AfterSalt, Proceed, Fails, Answer, Goto
<1>4. step' = step \/ \E q \in LoginCalls : StartLogin(q) \/ Serve(q) \/ Crash(q)
  BY DEF Next, vars, ExpireState, OAuthBegin
<1> QED
  BY <1>1, <1>2, <1>3, <1>4

\* While a login is to insert its salt, no other login of the account does.
LEMMA SaltWaits ==
  ASSUME TypeInv, DrawsApart, [Next]_vars, NEW r \in LoginCalls,
         step[r] = "createSalt", step'[r] = "createSalt"
  PROVE  salts'[Account(r)] = salts[Account(r)]
<1> USE DEF TypeInv, TypeOK
<1>1. ASSUME NEW q \in LoginCalls, CreateZkLoginSalt(q)
      PROVE  salts'[Account(r)] = salts[Account(r)]
  <2>1. q # r
    BY <1>1 DEF CreateZkLoginSalt, AfterSalt, Proceed, Fails, Answer, Goto
  <2>2. Account(q) # Account(r)
    BY <1>1, <2>1 DEF CreateZkLoginSalt, DrawsApart
  <2>3. Account(r) \in Accounts /\ Account(q) \in Accounts
    BY <1>1, CallType DEF CreateZkLoginSalt
  <2> QED
    BY <1>1, <2>2, <2>3 DEF CreateZkLoginSalt
<1> QED
  BY <1>1 DEF Next, vars, StartLogin, Crash, Serve, TakeState, LoadIdentity, CreateUser,
     CreateOAuthIdentity, LoadSalt, UpsertWalletBinding, OpenSession,
     ExpireState, OAuthBegin, tables

\* How a login comes to have its salt: it read it, or it wrote it.
LEMMA SaltArrives ==
  ASSUME TypeInv, RowsInv, SaltInv, [Next]_vars, NEW r \in LoginCalls,
         step'[r] \in {"bind", "open"} \/ reply'[r] = "ok"
  PROVE  salt'[r] = salts'[Account(r)]
<1>1. CASE LoadSalt(r)
  <2>1. salts' = salts /\ reply'[r] # "ok" /\ salts[Account(r)] # None
    BY <1>1 DEF LoadSalt, AfterSalt, Proceed, Fails, Answer, Goto, TypeInv, TypeOK, UserInv, tables
  <2> QED
    BY <1>1, <2>1 DEF LoadSalt, Fails, Answer, Goto, TypeInv, TypeOK, UserInv
<1>2. CASE CreateZkLoginSalt(r)
  <2>1. Account(r) \in Accounts /\ salts[Account(r)] = None /\ salt[r] = r
    BY <1>2, CallType DEF CreateZkLoginSalt, SaltInv
  <2>2. reply'[r] # "ok" /\ ~Fails(r)
    BY <1>2 DEF CreateZkLoginSalt, Proceed, Fails, Answer, Goto, TypeInv, TypeOK, UserInv
  <2>3. salts'[Account(r)] = r
    BY <1>2, <2>1, <2>2 DEF CreateZkLoginSalt, TypeInv, TypeOK
  <2> QED
    BY <1>2, <2>1, <2>3 DEF CreateZkLoginSalt, locals
<1>3. CASE ~LoadSalt(r) /\ ~CreateZkLoginSalt(r)
  <2>1. step[r] \in {"bind", "open"} \/ reply[r] = "ok"
    BY <1>3, LastSteps DEF UpsertWalletBinding, OpenSession
  <2>2. Account(r) \in Accounts
    BY <2>1, CallType DEF TypeInv, UserInv
  <2>3. salts'[Account(r)] = salts[Account(r)]
    BY <2>1, <2>2, TablesStay DEF RowsInv
  <2> QED
    BY <1>3, <2>1, <2>3, SaltStays DEF SaltInv
<1> QED
  BY <1>1, <1>2, <1>3

LEMMA StepSaltInv ==
  TypeInv /\ RowsInv /\ DrawsApart /\ SaltInv /\ [Next]_vars => SaltInv'
<1> SUFFICES ASSUME TypeInv, RowsInv, DrawsApart, SaltInv, [Next]_vars, NEW r \in LoginCalls
             PROVE  /\ step'[r] = "createSalt" => salts'[Account(r)'] = None /\ salt'[r] = r
                    /\ step'[r] \in {"bind", "open"} \/ reply'[r] = "ok" =>
                         salt'[r] = salts'[Account(r)']
  BY DEF SaltInv
<1>1. ASSUME step[r] # "idle" PROVE Account(r)' = Account(r)
  BY <1>1, CallStays DEF Account
<1>2. ASSUME step'[r] = "createSalt"
      PROVE  step[r] # "idle" /\ salts'[Account(r)] = None /\ salt'[r] = r
  <2>1. CASE step[r] = "createSalt"
    <3>1. ~LoadSalt(r)
      BY <2>1 DEF LoadSalt
    <3> QED
      BY <1>2, <2>1, <3>1, SaltStays, SaltWaits DEF SaltInv
  <2>2. CASE step[r] # "createSalt"
    BY <1>2, <2>2, DrawsSalt DEF LoadSalt
  <2> QED
    BY <2>1, <2>2
<1>3. ASSUME step'[r] \in {"bind", "open"} \/ reply'[r] = "ok"
      PROVE  step[r] # "idle" /\ salt'[r] = salts'[Account(r)]
  <2>1. step[r] # "idle"
    BY <1>3, LastSteps
    DEF LoadSalt, CreateZkLoginSalt, UpsertWalletBinding, OpenSession, TypeInv, UserInv
  <2> QED
    BY <1>3, <2>1, SaltArrives
<1> QED
  BY <1>1, <1>2, <1>3

\* With one login of an account at a time there is no such race.
OneLogin ==
  \A r, q \in LoginCalls :
    step[r] \in Running /\ step[q] \in Running /\ Account(r) = Account(q) => r = q

\* Only StartLogin makes a login run.
LEMMA WhoRuns ==
  ASSUME TypeInv, [Next]_vars, NEW r \in LoginCalls, step'[r] \in Running
  PROVE  step[r] \in Running \/ StartLogin(r)
<1> USE DEF TypeInv, TypeOK
<1>1. ASSUME NEW q \in LoginCalls, q # r, StartLogin(q) \/ Serve(q) \/ Crash(q)
      PROVE  step'[r] = step[r]
  BY <1>1 DEF StartLogin, Crash, Serve, TakeState, LoadIdentity, CreateUser,
     CreateOAuthIdentity, LoadSalt, CreateZkLoginSalt, UpsertWalletBinding, OpenSession,
     Proceed, Fails, Answer, Goto
<1>2. Serve(r) \/ Crash(r) => step[r] \in Running
  BY DEF Crash, Serve, TakeState, LoadIdentity, CreateUser, CreateOAuthIdentity, LoadSalt,
     CreateZkLoginSalt, UpsertWalletBinding, OpenSession, Running
<1>3. step' = step \/ \E q \in LoginCalls : StartLogin(q) \/ Serve(q) \/ Crash(q)
  BY DEF Next, vars, ExpireState, OAuthBegin
<1> QED
  BY <1>1, <1>2, <1>3

LEMMA StepOneLogin ==
  ASSUME ~Concurrent, TypeInv, OneLogin, [Next]_vars
  PROVE  OneLogin'
<1> SUFFICES ASSUME NEW r \in LoginCalls, NEW q \in LoginCalls, r # q,
                    step'[r] \in Running, step'[q] \in Running, Account(r)' = Account(q)'
             PROVE  FALSE
  BY DEF OneLogin
<1>1. \A p \in LoginCalls : step[p] \in Running => Account(p)' = Account(p)
  BY CallStays DEF Account, Running
<1>2. CASE step[r] \in Running /\ step[q] \in Running
  BY <1>1, <1>2 DEF OneLogin
<1>3. ASSUME NEW p \in {r, q}, NEW o \in {r, q}, p # o, StartLogin(p) PROVE FALSE
  <2>1. step'[o] = step[o] /\ account' = account
    BY <1>3 DEF StartLogin, Goto, TypeInv, TypeOK
  <2>2. step[o] \in Running
    BY <1>3, <2>1
  <2>3. Account(p)' # Account(o)
    BY <1>3, <2>1, <2>2 DEF StartLogin, Account, TypeInv, TypeOK
  <2> QED
    BY <1>1, <1>3, <2>2, <2>3
<1> QED
  BY <1>2, <1>3, WhoRuns

LEMMA SerialLoginsDrawApart ==
  ASSUME ~Concurrent PROVE Spec => []DrawsApart
<1>1. Init => OneLogin
  BY DEF Init, OneLogin, Running
<1>2. OneLogin => DrawsApart
  BY DEF OneLogin, DrawsApart, Running
<1>3. TypeInv /\ OneLogin /\ [Next]_vars => OneLogin'
  BY StepOneLogin
<1> QED
  BY <1>1, <1>2, <1>3, TypeCorrect, PTL DEF Spec

\* That race is the only way to an unstable salt: as long as no two logins of
\* an account draw a salt at a time, every login is answered the stored one,
\* with every fault and crash (auth/service.go:179-212).
THEOREM SaltsAreStable == Spec /\ []DrawsApart => []SaltIsStable
<1>1. Init => RowsInv /\ SaltInv
  BY NoneAssumption DEF Init, RowsInv, SaltInv, Codes
<1>2. SaltInv => SaltIsStable
  BY DEF SaltInv, SaltIsStable, SignedIn
<1> QED
  BY <1>1, <1>2, TypeCorrect, StepRowsInv, StepSaltInv, PTL DEF Spec

\* So the salt is stable if each account has one login at a time.
THEOREM SerialLoginsKeepSalts ==
  ASSUME ~Concurrent PROVE Spec => []SaltIsStable
<1> QED
  BY SaltsAreStable, SerialLoginsDrawApart, PTL

=============================================================================
