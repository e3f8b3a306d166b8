---------------------------- MODULE DepositOptions ----------------------------
(***************************************************************************)
(* GET /v1/deposit/options: the hosted KYC link, the virtual account and   *)
(* the crypto addresses of a user, made on demand at Bridge and written to *)
(* bridge_links and deposit_routes (internal/domain/deposit).              *)
(*                                                                         *)
(* A request is a goroutine; an action is one call to PostgreSQL or Bridge *)
(* and the code up to the next.  A request makes at most one KYC link, with *)
(* its customer, and one account at each place of the list it works off:   *)
(* 0 is the virtual account, 1 .. Chains the liquidation addresses.  So the *)
(* request names the customer, and request and place name the account.     *)
(*                                                                         *)
(* A definition X_Y before a definition X is a mutation of X.              *)
(***************************************************************************)
EXTENDS Integers

CONSTANTS
  Users,
  Requests,    \* HTTP requests, each used for one call
  Chains,      \* pairs of chain and currency, 3 in getCryptoState
  MaxWallets,  \* bound: Sui addresses that a user binds
  MaxFaults,   \* bound: failing calls to PostgreSQL
  BridgeFaults, \* may a call to Bridge fail?
  Crashes,     \* may a request die half way?
  None

ASSUME BoundsAssumption ==
  Chains \in Nat \ {0} /\ MaxWallets \in Nat /\ MaxFaults \in Nat

ASSUME FlagsAssumption == BridgeFaults \in BOOLEAN /\ Crashes \in BOOLEAN

Places == 0 .. Chains

\* No address is bound to two users (Logins!AddressHasOneOwner).
Addresses == Users \X (1 .. MaxWallets)

Ids == Requests \X Places

\* An account or address at Bridge delivers to one Sui address for ever.
Account == [by: Requests, at: Places, customer: Requests, to: Addresses]

\* The row of an account, with the hash of the address it is said to deliver to.
Route == [by: Requests, at: Places, user: Users, to: Addresses]

VARIABLES
  wallet, \* table wallet_bindings: user -> address or None
  links,  \* table bridge_links: user -> customer or None
  routes, \* table deposit_routes
  bridge, \* accounts and addresses that exist at Bridge
  faults, \* calls to PostgreSQL that failed
  user,   \* request -> its user, None before it is sent
  step,   \* request -> its next call
  at,     \* request -> the place it works on
  mine,   \* request -> the wallet that it read, or None
  link,   \* request -> the customer it works for, or None
  found,  \* request -> the account that Bridge answered last, or None
  shown,  \* request -> what its answer lists, None for an empty address
  reply   \* request -> what the client was answered

local == <<user, at, mine, link, found, shown>>
vars  == <<wallet, links, routes, bridge, faults, user, step, at, mine, link, found,
           shown, reply>>

Running == {"link", "kyc", "save", "eligible", "list", "create", "route", "insert",
            "crypto"}
Codes   == {"ok", "unprocessable", "bridge_unavailable", "internal"}

ASSUME NoneAssumption ==
  None \notin Addresses \cup Requests \cup Users \cup Ids \cup Codes

TypeOK ==
  /\ wallet \in [Users -> Addresses \cup {None}]
  /\ links \in [Users -> Requests \cup {None}]
  /\ routes \subseteq Route
  /\ bridge \subseteq Account
  /\ faults \in 0 .. MaxFaults
  /\ user \in [Requests -> Users \cup {None}]
  /\ step \in [Requests -> Running \cup {"idle", "done", "lost"}]
  /\ at \in [Requests -> Places]
  /\ mine \in [Requests -> Addresses \cup {None}]
  /\ link \in [Requests -> Requests \cup {None}]
  /\ found \in [Requests -> Ids \cup {None}]
  /\ shown \in [Requests -> SUBSET (Ids \cup {None})]
  /\ reply \in [Requests -> Codes \cup {None}]
  /\ \A r \in Requests :
       /\ step[r] \in Running => user[r] # None /\ mine[r] # None
       /\ step[r] \in Running \ {"link", "kyc", "crypto"} => link[r] # None
       /\ step[r] \in Running \ {"link", "kyc", "save"} => links[user[r]] # None
       /\ step[r] = "insert" => found[r] # None

Init ==
  /\ wallet = [u \in Users |-> None]
  /\ links = [u \in Users |-> None]
  /\ routes = {}
  /\ bridge = {}
  /\ faults = 0
  /\ user = [r \in Requests |-> None]
  /\ step = [r \in Requests |-> "idle"]
  /\ at = [r \in Requests |-> 0]
  /\ mine = [r \in Requests |-> None]
  /\ link = [r \in Requests |-> None]
  /\ found = [r \in Requests |-> None]
  /\ shown = [r \in Requests |-> {}]
  /\ reply = [r \in Requests |-> None]

-----------------------------------------------------------------------------
(* Helpers.                                                                *)

Id(x) == <<x.by, x.at>>

Goto(r, next) == step' = [step EXCEPT ![r] = next] /\ UNCHANGED <<at, reply>>

Answer(r, code) ==
  /\ step' = [step EXCEPT ![r] = "done"]
  /\ reply' = [reply EXCEPT ![r] = code]
  /\ UNCHANGED at

Works == UNCHANGED faults
Fails == faults < MaxFaults /\ faults' = faults + 1

\* To the next place; the virtual account is followed by getCryptoState.
Advance(r) ==
  \/ at[r] = 0 /\ Goto(r, "crypto")
  \/ at[r] = Chains /\ Answer(r, "ok")
  \/ /\ at[r] \in 1 .. Chains - 1
     /\ step' = [step EXCEPT ![r] = "route"]
     /\ at' = [at EXCEPT ![r] = @ + 1]
     /\ UNCHANGED reply

Show(r, id) == shown' = [shown EXCEPT ![r] = @ \cup {id}] /\ Advance(r)

\* After a virtual account comes a look for its route, and after a liquidation
\* address, for which there was none, its insert.
Ensured(r) == IF at[r] = 0 THEN "route" ELSE "insert"

-----------------------------------------------------------------------------
(* The steps of a request.                                                 *)

\* A sign-in binds the address it was sent (Logins!UpsertWalletBinding).
BindWallet(u) ==
  /\ \E w \in Addresses :
       w[1] = u /\ w # wallet[u] /\ wallet' = [wallet EXCEPT ![u] = w]
  /\ UNCHANGED <<links, routes, bridge, faults, local, step, reply>>

GetOptions(r) ==
  /\ step[r] = "idle"
  /\ \E u \in Users :
       /\ user' = [user EXCEPT ![r] = u]
       /\ mine' = [mine EXCEPT ![r] = wallet[u]]
       /\ \/ Works /\ wallet[u] # None /\ Goto(r, "link")
          \/ Works /\ wallet[u] = None /\ Answer(r, "unprocessable")
          \/ Fails /\ Answer(r, "internal")
  /\ UNCHANGED <<wallet, links, routes, bridge, link, found, shown>>

FindLink(r) ==
  /\ step[r] = "link"
  /\ \/ /\ Works /\ links[user[r]] = None
        /\ Goto(r, "kyc") /\ UNCHANGED link
     \/ /\ Works /\ links[user[r]] # None
        /\ link' = [link EXCEPT ![r] = links[user[r]]]
        /\ Goto(r, "eligible")
     \/ Fails /\ Answer(r, "internal") /\ UNCHANGED link
  /\ UNCHANGED <<wallet, links, routes, bridge, user, mine, found, shown>>

CreateHostedKycLink(r) ==
  /\ step[r] = "kyc"
  /\ \/ link' = [link EXCEPT ![r] = r] /\ Goto(r, "save")
     \/ BridgeFaults /\ Answer(r, "bridge_unavailable") /\ UNCHANGED link
  /\ UNCHANGED <<wallet, links, routes, bridge, faults, user, mine, found, shown>>

UpsertBridgeLink(r) ==
  /\ step[r] = "save"
  /\ LET saved == [links EXCEPT ![user[r]] = link[r]] IN
       \/ Works /\ links' = saved /\ Goto(r, "crypto")
       \/ Fails /\ links' \in {links, saved} /\ Answer(r, "internal")
  /\ UNCHANGED <<wallet, routes, bridge, user, mine, link, found, shown>>

\* Bridge decides; what is not approved, or not answered, ends with the KYC
\* link, which Bridge is asked for too.
GetEligibility(r) ==
  /\ step[r] = "eligible"
  /\ \/ Goto(r, "list") \/ Goto(r, "crypto")
     \/ BridgeFaults /\ Answer(r, "bridge_unavailable")
  /\ UNCHANGED <<wallet, links, routes, bridge, faults, user, mine, link, found, shown>>

Listed_AllCustomers(r) == {a \in bridge : a.at = at[r]}

Listed(r) == {a \in bridge : a.customer = link[r] /\ a.at = at[r]}

\* A list that fails counts as empty.
ListAccounts(r) ==
  /\ step[r] = "list"
  /\ \/ \E a \in Listed(r) :
          found' = [found EXCEPT ![r] = Id(a)] /\ Goto(r, Ensured(r))
     \/ /\ Listed(r) # {} => BridgeFaults
        /\ Goto(r, "create") /\ UNCHANGED found
  /\ UNCHANGED <<wallet, links, routes, bridge, faults, user, mine, link, shown>>

\* A crypto address that cannot be made is left out of the answer.
CreateAccount(r) ==
  /\ step[r] = "create"
  /\ LET new == [by |-> r, at |-> at[r], customer |-> link[r], to |-> mine[r]] IN
       \/ /\ bridge' = bridge \cup {new}
          /\ found' = [found EXCEPT ![r] = Id(new)]
          /\ Goto(r, Ensured(r))
       \/ /\ BridgeFaults
          /\ bridge' \in {bridge, bridge \cup {new}}
          /\ IF at[r] = 0 THEN Answer(r, "bridge_unavailable") ELSE Advance(r)
          /\ UNCHANGED found
  /\ UNCHANGED <<wallet, links, routes, faults, user, mine, link, shown>>

\* getCryptoState reads the link again; nothing deletes it.  One that cannot be
\* read is taken for one without customer.
GetCryptoState(r) ==
  /\ step[r] = "crypto"
  /\ \/ /\ Works
        /\ link' = [link EXCEPT ![r] = links[user[r]]]
        /\ at' = [at EXCEPT ![r] = 1]
        /\ step' = [step EXCEPT ![r] = "route"]
        /\ UNCHANGED reply
     \/ Fails /\ Answer(r, "ok") /\ UNCHANGED link
  /\ UNCHANGED <<wallet, links, routes, bridge, user, mine, found, shown>>

\* Rows for the same user and place differ in age by whole seconds, if at all:
\* any of them may be the newest.
Stored(r) == {x \in routes : x.user = user[r] /\ x.at = at[r]}

\* GetDepositRoute.  When it fails its row is empty, not nil, and the error is
\* dropped: the virtual account passes for stored, the address is empty.
GetDepositRoute(r) ==
  /\ step[r] = "route"
  /\ \/ /\ Works /\ Stored(r) = {}
        /\ Goto(r, IF at[r] = 0 THEN "insert" ELSE "list")
        /\ UNCHANGED shown
     \/ \E x \in Stored(r) : Works /\ Show(r, IF at[r] = 0 THEN found[r] ELSE Id(x))
     \/ Fails /\ Show(r, IF at[r] = 0 THEN found[r] ELSE None)
  /\ UNCHANGED <<wallet, links, bridge, routes, user, mine, link, found>>

CreateDepositRoute_OnUserConflict(r) ==
  /\ step[r] = "insert"
  /\ LET row == [by |-> found[r][1], at |-> found[r][2], user |-> user[r], to |-> mine[r]]
         stored == IF Stored(r) # {} THEN routes ELSE routes \cup {row}
     IN  \/ Works /\ routes' = stored
         \/ Fails /\ routes' \in {routes, stored}
  /\ Show(r, found[r])
  /\ UNCHANGED <<wallet, links, bridge, user, mine, link, found>>

\* ON CONFLICT (provider, provider_route_id) DO NOTHING; errors are dropped.
CreateDepositRoute(r) ==
  /\ step[r] = "insert"
  /\ LET row == [by |-> found[r][1], at |-> found[r][2], user |-> user[r], to |-> mine[r]]
         stored == IF found[r] \in {Id(x) : x \in routes} THEN routes ELSE routes \cup {row}
     IN  \/ Works /\ routes' = stored
         \/ Fails /\ routes' \in {routes, stored}
  /\ Show(r, found[r])
  /\ UNCHANGED <<wallet, links, bridge, user, mine, link, found>>

Crash(r) ==
  /\ Crashes
  /\ step[r] \in Running
  /\ Goto(r, "lost")
  /\ UNCHANGED <<wallet, links, routes, bridge, faults, user, mine, link, found, shown>>

Serve(r) ==
  \/ GetOptions(r) \/ FindLink(r) \/ CreateHostedKycLink(r) \/ UpsertBridgeLink(r)
  \/ GetEligibility(r) \/ ListAccounts(r) \/ CreateAccount(r) \/ GetCryptoState(r)
  \/ GetDepositRoute(r) \/ CreateDepositRoute(r)

Next ==
  \/ \E u \in Users : BindWallet(u)
  \/ \E r \in Requests : Serve(r) \/ Crash(r)

Spec == Init /\ [][Next]_vars

-----------------------------------------------------------------------------
(* Properties.                                                             *)

\* Whatever a user is shown exists at Bridge, for a customer made for that
\* user, and delivers to an address that the user bound.
ShownIsOwn ==
  \A r \in Requests : \A id \in shown[r] \ {None} :
    \E a \in bridge :
      Id(a) = id /\ user[a.customer] = user[r] /\ a.to[1] = user[r]

\* Unless PostgreSQL failed, a deposit to any crypto address that was shown
\* finds the row of its user, and who was shown a virtual account has the row
\* of one: concurrent requests, requests that died before the insert, and what
\* Bridge made but did not answer do not leave an address without row.
ShownIsRouted ==
  faults = 0 => \A r \in Requests : \A id \in shown[r] :
    \E x \in routes :
      x.user = user[r] /\ IF id[2] = 0 THEN x.at = 0 ELSE Id(x) = id

=============================================================================
