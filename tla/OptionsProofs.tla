----------------------------- MODULE OptionsProofs -----------------------------
(***************************************************************************)
(* Proofs about DepositOptions, for any number of users, requests and      *)
(* addresses, and every fault of PostgreSQL and Bridge.                    *)
(***************************************************************************)
EXTENDS DepositOptions, TLAPS

\* A request has a user from its first step on, which everything it holds
\* needs, and inserts a route for an account of the place it works on.
LocalInv ==
  \A r \in Requests :
    /\ step[r] = "idle" <=> user[r] = None
    /\ user[r] = None => mine[r] = None /\ link[r] = None /\ found[r] = None /\ shown[r] = {}
    /\ step[r] = "insert" \/ (step[r] = "route" /\ at[r] = 0) =>
         found[r] # None /\ found[r][2] = at[r]

TypeInv == TypeOK /\ LocalInv

LEMMA InitTypeInv == Init => TypeInv
  BY NoneAssumption, BoundsAssumption
  DEF Init, TypeInv, TypeOK, LocalInv, Running, Places, Ids

\* What the steps of one request do to what it does next.
LEMMA AdvanceSteps ==
  ASSUME TypeInv, NEW r \in Requests, Advance(r)
  PROVE  /\ \E next \in {"crypto", "done", "route"} : step' = [step EXCEPT ![r] = next]
         /\ \E p \in Places : at' = [at EXCEPT ![r] = p]
         /\ reply' = reply \/ reply' = [reply EXCEPT ![r] = "ok"]
         /\ step'[r] = "route" => at'[r] # 0
         /\ step'[r] = "crypto" => at[r] = 0
<1>1. at[r] \in Places /\ at = [at EXCEPT ![r] = at[r]]
  BY DEF TypeInv, TypeOK
<1>2. at[r] \in 1 .. Chains - 1 => at[r] + 1 \in Places /\ at[r] + 1 # 0
  BY BoundsAssumption DEF Places
<1> QED
  BY <1>1, <1>2 DEF Advance, Goto, Answer, TypeInv, TypeOK

LEMMA FaultsStep ==
  ASSUME TypeInv, Works \/ Fails
  PROVE  faults' \in 0 .. MaxFaults /\ (faults' = 0 => faults = 0)
BY BoundsAssumption DEF Works, Fails, TypeInv, TypeOK

LEMMA BindTypeInv ==
  ASSUME TypeInv, NEW u \in Users, BindWallet(u)
  PROVE  TypeInv'
BY DEF BindWallet, local, TypeInv, TypeOK, LocalInv

LEMMA StartTypeInv ==
  ASSUME TypeInv, NEW r \in Requests, GetOptions(r)
  PROVE  TypeInv'
<1> PICK u \in Users : /\ user' = [user EXCEPT ![r] = u]
                       /\ mine' = [mine EXCEPT ![r] = wallet[u]]
                       /\ wallet[u] = None => step'[r] = "done"
  BY DEF GetOptions, Goto, Answer, TypeInv, TypeOK
<1>1. faults' \in 0 .. MaxFaults
  BY FaultsStep DEF GetOptions
<1>2. \E next \in {"link", "done"} : step' = [step EXCEPT ![r] = next]
  BY DEF GetOptions, Goto, Answer
<1>3. \E v \in Codes \cup {None} : reply' = [reply EXCEPT ![r] = v] \/ reply' = reply
  BY DEF GetOptions, Goto, Answer, Codes
<1>4. TypeOK'
  BY <1>1, <1>2, <1>3, NoneAssumption
  DEF GetOptions, Goto, Answer, TypeInv, TypeOK, Running
<1>5. LocalInv'
  BY <1>2, NoneAssumption DEF GetOptions, Goto, Answer, TypeInv, TypeOK, LocalInv
<1> QED
  BY <1>4, <1>5 DEF TypeInv

LEMMA LinkTypeInv ==
  ASSUME TypeInv, NEW r \in Requests,
         \/ FindLink(r) \/ CreateHostedKycLink(r) \/ UpsertBridgeLink(r)
         \/ GetEligibility(r) \/ Crash(r)
  PROVE  TypeInv'
<1> USE NoneAssumption DEF TypeInv, Goto, Answer, Running, Codes
<1>1. CASE FindLink(r)
  <2>1. faults' \in 0 .. MaxFaults
    BY <1>1, FaultsStep DEF FindLink
  <2>2. user[r] \in Users
    BY <1>1 DEF FindLink, TypeOK
  <2>3. TypeOK'
    BY <1>1, <2>1, <2>2 DEF FindLink, TypeOK
  <2>4. LocalInv'
    BY <1>1, <2>2 DEF FindLink, TypeOK, LocalInv
  <2> QED
    BY <2>3, <2>4
<1>2. CASE CreateHostedKycLink(r)
  BY <1>2 DEF CreateHostedKycLink, TypeOK, LocalInv
<1>3. CASE UpsertBridgeLink(r)
  <2> DEFINE saved == [links EXCEPT ![user[r]] = link[r]]
  <2>1. faults' \in 0 .. MaxFaults
    BY <1>3, FaultsStep DEF UpsertBridgeLink
  <2>2. user[r] \in Users /\ link[r] \in Requests
    BY <1>3 DEF UpsertBridgeLink, TypeOK
  <2>3. /\ saved \in [Users -> Requests \cup {None}]
        /\ saved[user[r]] # None
        /\ \A u \in Users : links[u] # None => saved[u] # None
    BY <2>2 DEF TypeOK
  <2>4. \/ links' = saved /\ step' = [step EXCEPT ![r] = "crypto"] /\ reply' = reply
        \/ /\ links' \in {links, saved} /\ step' = [step EXCEPT ![r] = "done"]
           /\ reply' = [reply EXCEPT ![r] = "internal"]
    BY <1>3 DEF UpsertBridgeLink
  <2>5. UNCHANGED <<wallet, routes, bridge, user, at, mine, link, found, shown>>
    BY <1>3 DEF UpsertBridgeLink
  <2> HIDE DEF saved
  <2>8. /\ links' \in [Users -> Requests \cup {None}]
        /\ step'[r] = "crypto" => links'[user[r]] # None
        /\ \A u \in Users : links[u] # None => links'[u] # None
    BY <2>3, <2>4 DEF TypeOK
  <2>9. /\ step' \in [Requests -> Running \cup {"idle", "done", "lost"}]
        /\ reply' \in [Requests -> Codes \cup {None}]
        /\ step'[r] \in {"crypto", "done"}
        /\ \A q \in Requests \ {r} : step'[q] = step[q]
    BY <2>4 DEF TypeOK
  <2>10. ASSUME NEW q \in Requests
         PROVE  /\ step'[q] \in Running => user[q] # None /\ mine[q] # None
                /\ step'[q] \in Running \ {"link", "kyc", "crypto"} => link[q] # None
                /\ step'[q] \in Running \ {"link", "kyc", "save"} => links'[user[q]] # None
                /\ step'[q] = "insert" => found[q] # None
    <3>1. CASE q = r
      BY <1>3, <2>8, <2>9, <3>1 DEF UpsertBridgeLink, TypeOK
    <3>2. CASE q # r
      <4>1. user[q] # None => user[q] \in Users
        BY DEF TypeOK
      <4> QED
        BY <2>8, <2>9, <3>2, <4>1 DEF TypeOK
    <3> QED
      BY <3>1, <3>2
  <2>6. TypeOK'
    BY <2>1, <2>5, <2>8, <2>9, <2>10 DEF TypeOK
  <2>7. LocalInv'
    BY <1>3, <2>4, <2>5 DEF TypeOK, LocalInv, UpsertBridgeLink
  <2> QED
    BY <2>6, <2>7
<1>4. CASE GetEligibility(r)
  BY <1>4 DEF GetEligibility, TypeOK, LocalInv
<1>5. CASE Crash(r)
  BY <1>5 DEF Crash, TypeOK, LocalInv
<1> QED
  BY <1>1, <1>2, <1>3, <1>4, <1>5

\* How the steps that show something end.
LEMMA ShowSteps ==
  ASSUME TypeInv, NEW r \in Requests, step[r] \in {"route", "insert"},
         NEW id \in Ids \cup {None}, Show(r, id)
  PROVE  /\ shown' \in [Requests -> SUBSET (Ids \cup {None})]
         /\ shown' = [shown EXCEPT ![r] = @ \cup {id}]
         /\ step' \in [Requests -> Running \cup {"idle", "done", "lost"}]
         /\ at' \in [Requests -> Places] /\ reply' \in [Requests -> Codes \cup {None}]
         /\ step'[r] \in {"crypto", "done", "route"}
         /\ step'[r] = "route" => at'[r] # 0
         /\ \A q \in Requests \ {r} : step'[q] = step[q] /\ at'[q] = at[q]
<1>1. Advance(r) /\ shown' = [shown EXCEPT ![r] = @ \cup {id}]
  BY DEF Show
<1> QED
  BY <1>1, AdvanceSteps DEF TypeInv, TypeOK, Running, Codes

LEMMA FoundType ==
  ASSUME TypeInv, NEW r \in Requests, step[r] = "insert" \/ (step[r] = "route" /\ at[r] = 0)
  PROVE  /\ found[r] \in Ids /\ found[r][1] \in Requests
         /\ found[r][2] = at[r] /\ at[r] \in Places
         /\ found[r] = <<found[r][1], found[r][2]>>
BY DEF TypeInv, TypeOK, LocalInv, Ids

LEMMA RowTypes ==
  /\ \A x \in Route : /\ x.by \in Requests /\ x.at \in Places /\ x.user \in Users
                      /\ x.to \in Addresses /\ Id(x) \in Ids
  /\ \A a \in Account : /\ a.by \in Requests /\ a.at \in Places /\ a.customer \in Requests
                        /\ a.to \in Addresses /\ Id(a) \in Ids
BY DEF Route, Account, Id, Ids

\* The row that a request inserts.
LEMMA NewRoute ==
  ASSUME TypeInv, NEW r \in Requests, step[r] = "insert"
  PROVE  [by |-> found[r][1], at |-> found[r][2], user |-> user[r], to |-> mine[r]] \in Route
<1>1. user[r] \in Users /\ mine[r] \in Addresses
  BY DEF TypeInv, TypeOK, Running
<1> QED
  BY <1>1, FoundType DEF Route

LEMMA NewAccount ==
  ASSUME TypeInv, NEW r \in Requests, step[r] = "create"
  PROVE  [by |-> r, at |-> at[r], customer |-> link[r], to |-> mine[r]] \in Account
<1>1. at[r] \in Places /\ mine[r] \in Addresses /\ link[r] \in Requests
  BY DEF TypeInv, TypeOK, Running
<1> QED
  BY <1>1 DEF Account

\* What the steps of a request that work on a place keep.
PlaceStep(r) ==
  /\ UNCHANGED <<wallet, links, user, mine>>
  /\ step[r] \in Running \ {"link", "kyc", "save", "eligible"}
  /\ faults' \in 0 .. MaxFaults
  /\ routes' \subseteq Route /\ bridge' \subseteq Account
  /\ step' \in [Requests -> Running \cup {"idle", "done", "lost"}]
  /\ at' \in [Requests -> Places] /\ reply' \in [Requests -> Codes \cup {None}]
  /\ link' \in [Requests -> Requests \cup {None}]
  /\ found' \in [Requests -> Ids \cup {None}]
  /\ shown' \in [Requests -> SUBSET (Ids \cup {None})]
  /\ step'[r] \in {"create", "list", "route", "insert", "crypto", "done"}
  /\ link'[r] # None \/ step'[r] \in {"crypto", "done"}
  /\ step'[r] = "insert" \/ (step'[r] = "route" /\ at'[r] = 0) =>
       found'[r] # None /\ found'[r][2] = at'[r]
  /\ \A q \in Requests \ {r} :
       /\ step'[q] = step[q] /\ at'[q] = at[q] /\ link'[q] = link[q]
       /\ found'[q] = found[q] /\ shown'[q] = shown[q]

LEMMA PlaceTypeInv ==
  ASSUME TypeInv, NEW r \in Requests, PlaceStep(r)
  PROVE  TypeInv'
<1>1. ASSUME NEW q \in Requests
      PROVE  /\ step'[q] \in Running => user[q] # None /\ mine[q] # None
             /\ step'[q] \in Running \ {"link", "kyc", "crypto"} => link'[q] # None
             /\ step'[q] \in Running \ {"link", "kyc", "save"} => links[user[q]] # None
             /\ step'[q] = "insert" => found'[q] # None
  <2>1. CASE q = r
    BY <2>1 DEF PlaceStep, TypeInv, TypeOK, Running
  <2>2. CASE q # r
    BY <2>2 DEF PlaceStep, TypeInv, TypeOK
  <2> QED
    BY <2>1, <2>2
<1>2. TypeOK'
  BY <1>1 DEF PlaceStep, TypeInv, TypeOK
<1>3. LocalInv'
  <2> SUFFICES ASSUME NEW q \in Requests
               PROVE  /\ step'[q] = "idle" <=> user[q] = None
                      /\ user[q] = None => /\ mine[q] = None /\ link'[q] = None
                                           /\ found'[q] = None /\ shown'[q] = {}
                      /\ step'[q] = "insert" \/ (step'[q] = "route" /\ at'[q] = 0) =>
                           found'[q] # None /\ found'[q][2] = at'[q]
    BY DEF LocalInv, PlaceStep
  <2>1. CASE q = r
    BY <2>1 DEF PlaceStep, TypeInv, TypeOK, LocalInv, Running
  <2>2. CASE q # r
    BY <2>2 DEF PlaceStep, TypeInv, LocalInv
  <2> QED
    BY <2>1, <2>2
<1> QED
  BY <1>2, <1>3 DEF TypeInv

LEMMA ListPlaceStep ==
  ASSUME TypeInv, NEW r \in Requests, ListAccounts(r)
  PROVE  PlaceStep(r)
<1> USE DEF TypeInv, TypeOK
<1>1. step[r] = "list" /\ link[r] # None /\ at[r] \in Places
  BY DEF ListAccounts, Running
<1>2. CASE \E a \in Listed(r) : found' = [found EXCEPT ![r] = Id(a)] /\ Goto(r, Ensured(r))
  <2>1. PICK a \in Listed(r) : found' = [found EXCEPT ![r] = Id(a)] /\ Goto(r, Ensured(r))
    BY <1>2
  <2>2. Id(a) \in Ids /\ Id(a) # None /\ Id(a)[2] = at[r]
    BY <2>1, RowTypes, NoneAssumption DEF Listed, Id
  <2> QED
    BY <1>1, <2>1, <2>2
    DEF ListAccounts, PlaceStep, Goto, Ensured, Running
<1>3. CASE Goto(r, "create") /\ UNCHANGED found
  BY <1>1, <1>3 DEF ListAccounts, PlaceStep, Goto, Running
<1> QED
  BY <1>2, <1>3 DEF ListAccounts

LEMMA CreatePlaceStep ==
  ASSUME TypeInv, NEW r \in Requests, CreateAccount(r)
  PROVE  PlaceStep(r)
<1> DEFINE new == [by |-> r, at |-> at[r], customer |-> link[r], to |-> mine[r]]
<1> USE DEF TypeInv, TypeOK
<1>1. step[r] = "create" /\ link[r] # None /\ at[r] \in Places
  BY DEF CreateAccount, Running
<1>2. new \in Account /\ Id(new) = <<r, at[r]>> /\ Id(new) # None /\ Id(new) \in Ids
  BY <1>1, NewAccount, NoneAssumption DEF Id, Ids
<1>3. CASE /\ bridge' = bridge \cup {new}
           /\ found' = [found EXCEPT ![r] = Id(new)]
           /\ Goto(r, Ensured(r))
  <2>1. found'[r] = Id(new) /\ Id(new)[2] = at[r]
    BY <1>2, <1>3
  <2> HIDE DEF new
  <2> QED
    BY <1>1, <1>2, <1>3, <2>1 DEF CreateAccount, PlaceStep, Goto, Ensured, Running
<1>4. CASE /\ bridge' \in {bridge, bridge \cup {new}}
           /\ IF at[r] = 0 THEN Answer(r, "bridge_unavailable") ELSE Advance(r)
           /\ UNCHANGED found
  <2>1. /\ step' \in [Requests -> Running \cup {"idle", "done", "lost"}]
        /\ at' \in [Requests -> Places] /\ reply' \in [Requests -> Codes \cup {None}]
        /\ step'[r] \in {"crypto", "done", "route"}
        /\ step'[r] = "route" => at'[r] # 0
        /\ \A q \in Requests \ {r} : step'[q] = step[q] /\ at'[q] = at[q]
    BY <1>4, AdvanceSteps DEF Answer, Running, Codes
  <2>2. bridge' \subseteq Account
    BY <1>2, <1>4
  <2> HIDE DEF new
  <2> QED
    BY <1>1, <1>4, <2>1, <2>2 DEF CreateAccount, PlaceStep, Running
<1> QED
  BY <1>3, <1>4 DEF CreateAccount

LEMMA CryptoPlaceStep ==
  ASSUME TypeInv, NEW r \in Requests, GetCryptoState(r)
  PROVE  PlaceStep(r)
<1> USE DEF TypeInv, TypeOK
<1>1. step[r] = "crypto" /\ user[r] \in Users /\ links[user[r]] \in Requests
  BY DEF GetCryptoState, Running
<1>2. faults' \in 0 .. MaxFaults
  BY FaultsStep DEF GetCryptoState
<1>3. 1 \in Places
  BY BoundsAssumption DEF Places
<1>4. links[user[r]] # None
  BY <1>1 DEF Running
<1> QED
  BY <1>1, <1>2, <1>3, <1>4 DEF GetCryptoState, PlaceStep, Answer, Running, Codes

LEMMA RoutePlaceStep ==
  ASSUME TypeInv, NEW r \in Requests, GetDepositRoute(r)
  PROVE  PlaceStep(r)
<1> USE DEF TypeInv, TypeOK
<1>1. step[r] = "route" /\ link[r] # None /\ at[r] \in Places
  BY DEF GetDepositRoute, Running
<1>2. faults' \in 0 .. MaxFaults
  BY FaultsStep DEF GetDepositRoute
<1>3. UNCHANGED <<wallet, links, bridge, routes, user, mine, link, found>>
  BY DEF GetDepositRoute
<1>4. CASE Goto(r, IF at[r] = 0 THEN "insert" ELSE "list") /\ UNCHANGED shown
  <2>1. at[r] = 0 => found[r] # None /\ found[r][2] = at[r]
    BY <1>1 DEF LocalInv
  <2> QED
    BY <1>1, <1>2, <1>3, <1>4, <2>1 DEF PlaceStep, Goto, Running
<1>5. CASE \E id \in Ids \cup {None} : Show(r, id)
  BY <1>1, <1>2, <1>3, <1>5, ShowSteps DEF PlaceStep, Running
<1>6. at[r] = 0 => found[r] \in Ids
  BY <1>1, FoundType
<1>7. \A x \in Stored(r) : Id(x) \in Ids
  BY RowTypes DEF Stored
<1> QED
  BY <1>4, <1>5, <1>6, <1>7 DEF GetDepositRoute

LEMMA InsertPlaceStep ==
  ASSUME TypeInv, NEW r \in Requests, CreateDepositRoute(r)
  PROVE  PlaceStep(r)
<1> USE DEF TypeInv, TypeOK
<1>1. step[r] = "insert" /\ link[r] # None
  BY DEF CreateDepositRoute, Running
<1>2. faults' \in 0 .. MaxFaults
  BY FaultsStep DEF CreateDepositRoute
<1>3. routes' \subseteq Route
  BY <1>1, NewRoute DEF CreateDepositRoute
<1>4. Show(r, found[r]) /\ found[r] \in Ids
  BY <1>1, FoundType DEF CreateDepositRoute
<1>5. UNCHANGED <<wallet, links, bridge, user, mine, link, found>>
  BY DEF CreateDepositRoute
<1> QED
  BY <1>1, <1>2, <1>3, <1>4, <1>5, ShowSteps DEF PlaceStep, Running

LEMMA StepTypeInv == TypeInv /\ [Next]_vars => TypeInv'
<1> SUFFICES ASSUME TypeInv, [Next]_vars PROVE TypeInv'
  OBVIOUS
<1>1. CASE UNCHANGED vars
  BY <1>1 DEF vars, TypeInv, TypeOK, LocalInv
<1>2. ASSUME NEW r \in Requests, Serve(r) PROVE TypeInv'
  BY <1>2, StartTypeInv, LinkTypeInv, ListPlaceStep, CreatePlaceStep, CryptoPlaceStep,
     RoutePlaceStep, InsertPlaceStep, PlaceTypeInv DEF Serve
<1> QED
  BY <1>1, <1>2, BindTypeInv, LinkTypeInv DEF Next

\* Every reachable state is well typed, and a request that inserts a route has
\* an account to insert it for.
THEOREM TypeCorrect == Spec => []TypeInv
<1> QED
  BY InitTypeInv, StepTypeInv, PTL DEF Spec

\* Every variable keeps its type, in every instance (deposit/service.go:32-247).
THEOREM TypeOKHolds == Spec => []TypeOK
<1>1. TypeInv => TypeOK
  BY DEF TypeInv
<1> QED
  BY <1>1, TypeCorrect, PTL

-----------------------------------------------------------------------------
(* Whose accounts a user is shown.                                         *)

Owned(id, u) == (\E a \in bridge : Id(a) = id) /\ user[id[1]] = u

WalletInv == \A u \in Users : wallet[u] # None => wallet[u][1] = u

LinkInv == \A u \in Users : links[u] # None => user[links[u]] = u

CallInv ==
  \A r \in Requests :
    /\ mine[r] # None => mine[r][1] = user[r]
    /\ link[r] # None => user[link[r]] = user[r]

BridgeInv ==
  \A a \in bridge :
    /\ user[a.by] \in Users /\ user[a.customer] = user[a.by]
    /\ a.to[1] = user[a.by]

FoundInv == \A r \in Requests : found[r] # None => Owned(found[r], user[r])

RouteInv == \A x \in routes : Owned(Id(x), x.user)

ShownInv == \A r \in Requests : \A id \in shown[r] \ {None} : Owned(id, user[r])

OwnInv ==
  /\ WalletInv /\ LinkInv /\ CallInv
  /\ BridgeInv /\ FoundInv /\ RouteInv /\ ShownInv

LEMMA Growth ==
  ASSUME TypeInv, [Next]_vars
  PROVE  /\ \A r \in Requests : user[r] # None => user'[r] = user[r]
         /\ bridge \subseteq bridge' /\ routes \subseteq routes'
<1> USE DEF Next, vars, local, BindWallet, Serve, Crash, FindLink, CreateHostedKycLink,
      UpsertBridgeLink, GetEligibility, ListAccounts, GetCryptoState, GetDepositRoute
<1>1. \A r \in Requests : user[r] # None => user'[r] = user[r]
  <2>1. user' = user \/ \E r \in Requests : GetOptions(r)
    BY DEF CreateAccount, CreateDepositRoute
  <2> QED
    BY <2>1 DEF GetOptions, TypeInv, TypeOK, LocalInv
<1>2. bridge \subseteq bridge'
  BY DEF GetOptions, CreateAccount, CreateDepositRoute
<1>3. routes \subseteq routes'
  BY DEF GetOptions, CreateAccount, CreateDepositRoute
<1> QED
  BY <1>1, <1>2, <1>3

LEMMA OwnedStays ==
  ASSUME TypeInv, [Next]_vars, NEW id \in Ids, NEW u \in Users, Owned(id, u)
  PROVE  Owned(id, u)'
<1>1. id[1] \in Requests /\ user[id[1]] # None
  BY NoneAssumption DEF Ids, Owned
<1> QED
  BY <1>1, Growth DEF Owned, Id

LEMMA StepWalletInv == WalletInv /\ TypeInv /\ [Next]_vars => WalletInv'
<1> SUFFICES ASSUME WalletInv, TypeInv, [Next]_vars PROVE WalletInv'
  OBVIOUS
<1>1. CASE wallet' = wallet
  BY <1>1 DEF WalletInv
<1>2. ASSUME NEW u \in Users, BindWallet(u) PROVE WalletInv'
  BY <1>2 DEF BindWallet, WalletInv, TypeInv, TypeOK
<1> QED
  BY <1>1, <1>2 DEF Next, vars, Serve, Crash, GetOptions, FindLink, CreateHostedKycLink,
     UpsertBridgeLink, GetEligibility, ListAccounts, CreateAccount, GetCryptoState,
     GetDepositRoute, CreateDepositRoute

LEMMA StepLinkInv == LinkInv /\ CallInv /\ TypeInv /\ [Next]_vars => LinkInv'
<1> SUFFICES ASSUME LinkInv, CallInv, TypeInv, [Next]_vars,
                    NEW u \in Users, links'[u] # None
             PROVE  user'[links'[u]] = u
  BY DEF LinkInv
<1>1. CASE links'[u] = links[u]
  <2>1. links[u] \in Requests /\ user[links[u]] = u /\ u # None
    BY <1>1, NoneAssumption DEF LinkInv, TypeInv, TypeOK
  <2> QED
    BY <1>1, <2>1, Growth
<1>2. CASE links'[u] # links[u]
  <2>1. PICK r \in Requests : UpsertBridgeLink(r)
    BY <1>2 DEF Next, vars, local, BindWallet, Serve, Crash, GetOptions, FindLink,
       CreateHostedKycLink, GetEligibility, ListAccounts, CreateAccount, GetCryptoState,
       GetDepositRoute, CreateDepositRoute
  <2>2. user[r] = u /\ links'[u] = link[r]
    BY <1>2, <2>1 DEF UpsertBridgeLink, TypeInv, TypeOK
  <2>3. link[r] # None /\ link[r] \in Requests
    BY <2>1 DEF UpsertBridgeLink, TypeInv, TypeOK, Running
  <2> QED
    BY <2>1, <2>2, <2>3 DEF CallInv, UpsertBridgeLink
<1> QED
  BY <1>1, <1>2

\* A request's user and address are set when it starts.
LEMMA UserStays ==
  ASSUME TypeInv, [Next]_vars, NEW r \in Requests, ~GetOptions(r)
  PROVE  /\ mine'[r] = mine[r] /\ user'[r] = user[r]
         /\ user[r] # None => user[r] \in Users
<1>1. ASSUME NEW q \in Requests, GetOptions(q)
      PROVE  mine'[r] = mine[r] /\ user'[r] = user[r]
  <2>1. q # r
    BY <1>1
  <2>2. \E u \in Users : /\ user' = [user EXCEPT ![q] = u]
                         /\ mine' = [mine EXCEPT ![q] = wallet[u]]
    BY <1>1 DEF GetOptions
  <2> QED
    BY <2>1, <2>2 DEF TypeInv, TypeOK
<1>2. UNCHANGED <<mine, user>> \/ \E q \in Requests : GetOptions(q)
  BY DEF Next, vars, local, BindWallet, Serve, Crash, FindLink, CreateHostedKycLink,
     UpsertBridgeLink, GetEligibility, ListAccounts, CreateAccount, GetCryptoState,
     GetDepositRoute, CreateDepositRoute
<1> QED
  BY <1>1, <1>2 DEF TypeInv, TypeOK

\* A request's customer is set by the three steps that ask for it.
LEMMA LinkStays ==
  ASSUME TypeInv, [Next]_vars, NEW r \in Requests,
         ~(FindLink(r) \/ CreateHostedKycLink(r) \/ GetCryptoState(r))
  PROVE  link'[r] = link[r]
<1>1. ASSUME NEW q \in Requests, FindLink(q) \/ CreateHostedKycLink(q) \/ GetCryptoState(q)
      PROVE  link'[r] = link[r]
  <2>1. q # r
    BY <1>1
  <2>2. UNCHANGED link \/ \E x : link' = [link EXCEPT ![q] = x]
    BY <1>1 DEF FindLink, CreateHostedKycLink, GetCryptoState
  <2> QED
    BY <2>1, <2>2 DEF TypeInv, TypeOK
<1>2. \/ UNCHANGED link
      \/ \E q \in Requests : FindLink(q) \/ CreateHostedKycLink(q) \/ GetCryptoState(q)
  BY DEF Next, vars, local, BindWallet, Serve, Crash, GetOptions, UpsertBridgeLink,
     GetEligibility, ListAccounts, CreateAccount, GetDepositRoute, CreateDepositRoute
<1> QED
  BY <1>1, <1>2

LEMMA StepCallInv ==
  LinkInv /\ WalletInv /\ CallInv /\ TypeInv /\ [Next]_vars => CallInv'
<1> SUFFICES ASSUME LinkInv, WalletInv, CallInv, TypeInv, [Next]_vars, NEW r \in Requests
             PROVE  /\ mine'[r] # None => mine'[r][1] = user'[r]
                    /\ link'[r] # None => user'[link'[r]] = user'[r]
  BY DEF CallInv
<1> USE DEF TypeInv, TypeOK
<1>1. CASE GetOptions(r)
  <2>1. link'[r] = None
    BY <1>1 DEF GetOptions, LocalInv
  <2>2. PICK u \in Users : user'[r] = u /\ mine'[r] = wallet[u]
    BY <1>1 DEF GetOptions
  <2> QED
    BY <2>1, <2>2 DEF WalletInv
<1>2. CASE ~GetOptions(r) /\ user[r] = None
  <2>1. step[r] = "idle" /\ link[r] = None /\ mine[r] = None
    BY <1>2 DEF LocalInv
  <2>2. ~(FindLink(r) \/ CreateHostedKycLink(r) \/ GetCryptoState(r))
    BY <2>1 DEF FindLink, CreateHostedKycLink, GetCryptoState
  <2> QED
    BY <1>2, <2>1, <2>2, UserStays, LinkStays
<1>3. CASE ~GetOptions(r) /\ user[r] # None
  <2>1. mine'[r] = mine[r] /\ user'[r] = user[r] /\ user[r] \in Users
    BY <1>3, UserStays
  <2>2. link'[r] \in {link[r], r, links[user[r]]}
    <3>1. CASE FindLink(r) \/ CreateHostedKycLink(r) \/ GetCryptoState(r)
      BY <3>1 DEF FindLink, CreateHostedKycLink, GetCryptoState
    <3> QED
      BY <3>1, LinkStays
  <2>3. link'[r] # None => user[link'[r]] = user[r] /\ link'[r] \in Requests
    BY <2>1, <2>2 DEF CallInv, LinkInv
  <2> QED
    BY <1>3, <2>1, <2>3, Growth DEF CallInv
<1> QED
  BY <1>1, <1>2, <1>3

LEMMA StepBridgeInv == BridgeInv /\ CallInv /\ TypeInv /\ [Next]_vars => BridgeInv'
<1> SUFFICES ASSUME BridgeInv, CallInv, TypeInv, [Next]_vars, NEW a \in bridge'
             PROVE  /\ user'[a.by] \in Users /\ user'[a.customer] = user'[a.by]
                    /\ a.to[1] = user'[a.by]
  BY DEF BridgeInv
<1>1. CASE a \in bridge
  <2>1. /\ a.by \in Requests /\ a.customer \in Requests
        /\ user[a.by] # None /\ user[a.customer] # None
    BY <1>1, RowTypes, NoneAssumption DEF BridgeInv, TypeInv, TypeOK
  <2> QED
    BY <1>1, <2>1, Growth DEF BridgeInv
<1>2. CASE a \notin bridge
  <2>1. PICK r \in Requests : CreateAccount(r)
    BY <1>2 DEF Next, vars, local, BindWallet, Serve, Crash, GetOptions, FindLink,
       CreateHostedKycLink, UpsertBridgeLink, GetEligibility, ListAccounts, GetCryptoState,
       GetDepositRoute, CreateDepositRoute
  <2>2. a = [by |-> r, at |-> at[r], customer |-> link[r], to |-> mine[r]] /\ user' = user
    BY <1>2, <2>1 DEF CreateAccount
  <2>3. user[r] \in Users /\ link[r] # None /\ mine[r] # None
    BY <2>1 DEF CreateAccount, TypeInv, TypeOK, Running
  <2> QED
    BY <2>2, <2>3 DEF CallInv
<1> QED
  BY <1>1, <1>2

LEMMA StepFoundInv ==
  FoundInv /\ CallInv /\ BridgeInv /\ TypeInv /\ [Next]_vars => FoundInv'
<1> SUFFICES ASSUME FoundInv, CallInv, BridgeInv, TypeInv, [Next]_vars,
                    NEW r \in Requests, NEW id, id = found'[r], id # None,
                    NEW u, u = user'[r]
             PROVE  Owned(id, u)'
  BY DEF FoundInv
<1>1. CASE found'[r] = found[r]
  <2>1. found[r] \in Ids /\ user[r] \in Users /\ user'[r] = user[r]
    BY <1>1, Growth DEF TypeInv, TypeOK, LocalInv
  <2>2. Owned(found[r], user[r])
    BY <1>1 DEF FoundInv
  <2> QED
    BY <1>1, <2>1, <2>2, OwnedStays
<1>2. CASE found'[r] # found[r]
  <2>1. PICK q \in Requests : ListAccounts(q) \/ CreateAccount(q)
    BY <1>2 DEF Next, vars, local, BindWallet, Serve, Crash, GetOptions, FindLink,
       CreateHostedKycLink, UpsertBridgeLink, GetEligibility, GetCryptoState,
       GetDepositRoute, CreateDepositRoute
  <2>2. q = r
    BY <1>2, <2>1 DEF ListAccounts, CreateAccount, TypeInv, TypeOK
  <2>3. user' = user /\ user[r] \in Users /\ link[r] # None
    BY <2>1, <2>2 DEF ListAccounts, CreateAccount, TypeInv, TypeOK, Running
  <2>4. CASE ListAccounts(r)
    <3>1. PICK a \in bridge : a.customer = link[r] /\ found'[r] = Id(a)
      BY <1>2, <2>4 DEF ListAccounts, Listed, TypeInv, TypeOK
    <3>2. user[a.by] = user[r]
      BY <2>3, <3>1 DEF BridgeInv, CallInv
    <3> QED
      BY <2>3, <2>4, <3>1, <3>2 DEF ListAccounts, Owned, Id
  <2>5. CASE CreateAccount(r)
    <3> DEFINE new == [by |-> r, at |-> at[r], customer |-> link[r], to |-> mine[r]]
    <3>1. found'[r] = Id(new) /\ new \in bridge' /\ Id(new)[1] = r
      BY <1>2, <2>5 DEF CreateAccount, Id, TypeInv, TypeOK
    <3> HIDE DEF new
    <3> QED
      BY <2>3, <3>1 DEF Owned
  <2> QED
    BY <2>1, <2>2, <2>4, <2>5
<1> QED
  BY <1>1, <1>2

LEMMA StepRouteInv == RouteInv /\ FoundInv /\ TypeInv /\ [Next]_vars => RouteInv'
<1> SUFFICES ASSUME RouteInv, FoundInv, TypeInv, [Next]_vars, NEW x \in routes'
             PROVE  Owned(Id(x), x.user)'
  BY DEF RouteInv
<1>1. CASE x \in routes
  <2>1. Id(x) \in Ids /\ x.user \in Users
    BY <1>1, RowTypes DEF TypeInv, TypeOK
  <2> QED
    BY <1>1, <2>1, OwnedStays DEF RouteInv
<1>2. CASE x \notin routes
  <2>1. PICK r \in Requests : CreateDepositRoute(r)
    BY <1>2 DEF Next, vars, local, BindWallet, Serve, Crash, GetOptions, FindLink,
       CreateHostedKycLink, UpsertBridgeLink, GetEligibility, ListAccounts, CreateAccount,
       GetCryptoState, GetDepositRoute
  <2>2. step[r] = "insert" /\ user[r] \in Users
    BY <2>1 DEF CreateDepositRoute, TypeInv, TypeOK, Running
  <2>3. x = [by |-> found[r][1], at |-> found[r][2], user |-> user[r], to |-> mine[r]]
    BY <1>2, <2>1 DEF CreateDepositRoute
  <2>4. Id(x) = found[r] /\ x.user = user[r] /\ found[r] \in Ids /\ found[r] # None
    BY <2>2, <2>3, FoundType, NoneAssumption DEF Id
  <2> QED
    BY <2>2, <2>4, OwnedStays DEF FoundInv
<1> QED
  BY <1>1, <1>2

\* What a step adds to an answer.
LEMMA ShownSteps ==
  ASSUME TypeInv, [Next]_vars, NEW r \in Requests, NEW id \in shown'[r], id \notin shown[r]
  PROVE  /\ GetDepositRoute(r) \/ CreateDepositRoute(r)
         /\ \/ /\ id = found[r] /\ found[r] \in Ids /\ found[r][2] = at[r]
               /\ CreateDepositRoute(r) \/ (at[r] = 0 /\ (Fails \/ Stored(r) # {}))
            \/ at[r] # 0 /\ \E x \in routes : x.user = user[r] /\ id = Id(x) /\ x.at = at[r]
            \/ at[r] # 0 /\ id = None /\ Fails
<1>1. PICK q \in Requests : GetDepositRoute(q) \/ CreateDepositRoute(q)
  <2>1. shown' # shown
    OBVIOUS
  <2> QED
    BY <2>1 DEF Next, vars, local, BindWallet, Serve, Crash, GetOptions, FindLink,
       CreateHostedKycLink, UpsertBridgeLink, GetEligibility, ListAccounts, CreateAccount,
       GetCryptoState
<1>2. q = r
  BY <1>1 DEF GetDepositRoute, CreateDepositRoute, Show, TypeInv, TypeOK
<1>3. CASE CreateDepositRoute(r)
  <2>1. id = found[r]
    BY <1>3 DEF CreateDepositRoute, Show, TypeInv, TypeOK
  <2> QED
    BY <1>3, <2>1, FoundType DEF CreateDepositRoute
<1>4. CASE GetDepositRoute(r)
  <2>1. \/ \E x \in Stored(r) : Works /\ Show(r, IF at[r] = 0 THEN found[r] ELSE Id(x))
        \/ Fails /\ Show(r, IF at[r] = 0 THEN found[r] ELSE None)
    BY <1>4 DEF GetDepositRoute
  <2>2. \/ id = found[r] /\ at[r] = 0 /\ (Fails \/ Stored(r) # {})
        \/ at[r] # 0 /\ \E x \in Stored(r) : id = Id(x)
        \/ at[r] # 0 /\ id = None /\ Fails
    BY <2>1 DEF Show, TypeInv, TypeOK
  <2>3. at[r] = 0 => found[r] \in Ids /\ found[r][2] = at[r]
    BY <1>4, FoundType DEF GetDepositRoute
  <2> QED
    BY <1>4, <2>2, <2>3 DEF Stored
<1> QED
  BY <1>1, <1>2, <1>3, <1>4

LEMMA StepShownInv ==
  ShownInv /\ FoundInv /\ RouteInv /\ TypeInv /\ [Next]_vars => ShownInv'
<1> SUFFICES ASSUME ShownInv, FoundInv, RouteInv, TypeInv, [Next]_vars,
                    NEW r \in Requests, NEW id \in shown'[r], id # None,
                    NEW u, u = user'[r]
             PROVE  Owned(id, u)'
  BY DEF ShownInv
<1>1. user[r] \in Users /\ id \in Ids /\ Owned(id, user[r])
  <2>1. CASE id \in shown[r]
    BY <2>1 DEF ShownInv, TypeInv, TypeOK, LocalInv
  <2>2. CASE id \notin shown[r]
    <3>1. step[r] \in {"route", "insert"}
      BY <2>2, ShownSteps DEF GetDepositRoute, CreateDepositRoute
    <3>2. user[r] \in Users
      BY <3>1 DEF TypeInv, TypeOK, Running
    <3>3. CASE id = found[r] /\ found[r] \in Ids
      BY <3>2, <3>3 DEF FoundInv
    <3>4. CASE \E x \in routes : x.user = user[r] /\ id = Id(x)
      BY <3>2, <3>4, RowTypes DEF RouteInv, TypeInv, TypeOK
    <3> QED
      BY <2>2, <3>3, <3>4, ShownSteps
  <2> QED
    BY <2>1, <2>2
<1>2. user'[r] = user[r]
  BY <1>1, Growth, NoneAssumption
<1> QED
  BY <1>1, <1>2, OwnedStays

LEMMA OwnInvHolds == Spec => []OwnInv
<1>1. Init => OwnInv
  BY DEF Init, OwnInv, WalletInv, LinkInv, CallInv, BridgeInv, FoundInv, RouteInv, ShownInv
<1>2. TypeInv /\ OwnInv /\ [Next]_vars => OwnInv'
  BY StepWalletInv, StepLinkInv, StepCallInv, StepBridgeInv, StepFoundInv, StepRouteInv,
     StepShownInv DEF OwnInv
<1> QED
  BY InitTypeInv, StepTypeInv, <1>1, <1>2, PTL DEF Spec

\* Whatever a user is shown exists at Bridge, for a customer made for that user,
\* and delivers to an address that the user bound.
THEOREM UsersAreShownTheirOwn == Spec => []ShownIsOwn
<1>1. OwnInv => ShownIsOwn
  BY DEF OwnInv, ShownInv, BridgeInv, Owned, ShownIsOwn, Id
<1> QED
  BY OwnInvHolds, <1>1, PTL

-----------------------------------------------------------------------------
(* Every address that is shown has a row.                                  *)

Routed(id, u) ==
  \E x \in routes : x.user = u /\ IF id[2] = 0 THEN x.at = 0 ELSE Id(x) = id

LEMMA StepShownIsRouted ==
  ShownIsRouted /\ FoundInv /\ RouteInv /\ TypeInv /\ [Next]_vars => ShownIsRouted'
<1> SUFFICES ASSUME ShownIsRouted, FoundInv, RouteInv, TypeInv, [Next]_vars, faults' = 0,
                    NEW r \in Requests, NEW id \in shown'[r], NEW u, u = user'[r]
             PROVE  Routed(id, u)'
  BY DEF ShownIsRouted, Routed
<1>1. faults = 0 /\ ~Fails
  <2>1. faults' = faults \/ Fails
    BY DEF Next, vars, local, BindWallet, Serve, Crash, GetOptions, FindLink,
       CreateHostedKycLink, UpsertBridgeLink, GetEligibility, ListAccounts, CreateAccount,
       GetCryptoState, GetDepositRoute, CreateDepositRoute, Works
  <2> QED
    BY <2>1, FaultsStep DEF Works, Fails, TypeInv, TypeOK
<1>2. CASE id \in shown[r]
  <2>1. user'[r] = user[r] /\ Routed(id, user[r])
    BY <1>1, <1>2, Growth DEF ShownIsRouted, Routed, TypeInv, LocalInv
  <2> QED
    BY <2>1, Growth DEF Routed
<1>3. CASE id \notin shown[r]
  <2>1. user'[r] = user[r] /\ user[r] \in Users
    BY <1>3, ShownSteps
    DEF GetDepositRoute, CreateDepositRoute, TypeInv, TypeOK, Running
  <2>2. CASE CreateDepositRoute(r)
    <3> DEFINE row == [by |-> found[r][1], at |-> found[r][2], user |-> user[r],
                       to |-> mine[r]]
    <3>1. step[r] = "insert" /\ id = found[r]
      BY <1>3, <2>2 DEF CreateDepositRoute, Show, TypeInv, TypeOK
    <3>2. id \in Ids /\ id = Id(row) /\ row.user = user[r] /\ row.at = id[2]
      BY <3>1, FoundType DEF Id
    <3>3. CASE row \in routes'
      <4> HIDE DEF row
      <4> QED
        BY <2>1, <3>2, <3>3 DEF Routed
    <3>4. CASE \E x \in routes : Id(x) = id
      <4>1. PICK x \in routes : Id(x) = id
        BY <3>4
      <4>2. x.user = user[r]
        <5>1. found[r] # None /\ Owned(id, user[r])
          BY <3>1, <3>2, NoneAssumption DEF FoundInv
        <5>2. Owned(id, x.user)
          BY <4>1 DEF RouteInv
        <5> QED
          BY <5>1, <5>2 DEF Owned
      <4>3. x.at = id[2] /\ x \in routes'
        BY <4>1, Growth DEF Id
      <4> QED
        BY <2>1, <4>1, <4>2, <4>3 DEF Routed
    <3> QED
      BY <1>1, <2>2, <3>1, <3>3, <3>4 DEF CreateDepositRoute
  <2>3. CASE at[r] = 0 /\ id = found[r] /\ found[r][2] = at[r] /\ Stored(r) # {}
    BY <2>1, <2>3, Growth DEF Stored, Routed
  <2>4. CASE at[r] # 0 /\ \E x \in routes : x.user = user[r] /\ id = Id(x) /\ x.at = at[r]
    BY <2>1, <2>4, Growth DEF Routed, Id
  <2> QED
    BY <1>1, <1>3, <2>2, <2>3, <2>4, ShownSteps
<1> QED
  BY <1>2, <1>3

\* Unless PostgreSQL failed, a deposit to any crypto address that was shown finds
\* the row of its user, and who was shown a virtual account has the row of one.
THEOREM ShownAddressesAreRouted == Spec => []ShownIsRouted
<1>1. Init => ShownIsRouted
  BY DEF Init, ShownIsRouted
<1>2. TypeInv /\ OwnInv /\ ShownIsRouted /\ [Next]_vars => ShownIsRouted'
  BY StepShownIsRouted DEF OwnInv
<1> QED
  BY TypeCorrect, OwnInvHolds, <1>1, <1>2, PTL DEF Spec

=============================================================================
