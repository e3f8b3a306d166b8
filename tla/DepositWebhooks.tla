--------------------------- MODULE DepositWebhooks ---------------------------
(***************************************************************************)
(* Deposits of the API: the Bridge webhook handler, the table of webhook   *)
(* events it fills, and the processor goroutine that turns events into     *)
(* rows of the deposits table (internal/domain/deposit).                   *)
(*                                                                         *)
(* Bridge sends an event until it is answered 200, and may send it twice   *)
(* at a time and in any order.  A delivery is a goroutine of the HTTP      *)
(* server, the processor is one goroutine; an action is one call to        *)
(* PostgreSQL and the code up to the next.  The events of one deposit are  *)
(* numbered by the stage they report: funds received, payment submitted,   *)
(* and so on.  All but the first carry a tx hash, preliminary until the    *)
(* last.                                                                   *)
(* Virtual accounts and liquidation addresses take the same path, so one   *)
(* kind of route stands for both.                                          *)
(*                                                                         *)
(* A definition X_Y before a definition X is a mutation of X.              *)
(***************************************************************************)
EXTENDS Integers, FiniteSets, FiniteSetsExt

CONSTANTS
  Deposits,    \* deposits Bridge reports, one per route
  Stages,      \* number of stages of a deposit, the last one is final
  Ignored,     \* events that need no work: kyc_link.*, unknown, empty fields
  Unparsable,  \* events whose data does not fit the expected types
  Copies,      \* bound: deliveries of one event at a time
  Limit,       \* batch size of the processor, 50 in the code
  MaxTime,     \* bound: last value of the clock, in seconds
  MaxFaults,   \* bound: failing calls to PostgreSQL
  MaxRestarts, \* bound: restarts of the server
  RoutesFirst, \* does a deposit start only after its route is stored?
  InOrder,     \* does Bridge await the answer, and a second, between stages?
  None

DepositEvents == [deposit: Deposits, stage: 1 .. Stages]
Events        == DepositEvents \cup Ignored \cup Unparsable

ASSUME WebhookAssumption ==
  /\ Stages \in Nat \ {0} /\ Copies \in Nat /\ Limit \in Nat \ {0}
  /\ MaxTime \in Nat /\ MaxFaults \in Nat /\ MaxRestarts \in Nat
  /\ RoutesFirst \in BOOLEAN /\ InOrder \in BOOLEAN

ASSUME KindsAssumption ==
  /\ DepositEvents \cap Ignored = {} /\ DepositEvents \cap Unparsable = {}
  /\ Ignored \cap Unparsable = {}

Deliveries == Events \X (1 .. Copies)

VARIABLES
  events,   \* table bridge_webhook_events: provider event id -> row or None
  routes,   \* deposits whose route is in table deposit_routes
  deposits, \* table deposits: deposit -> row or None
  clock,    \* utils.NowUnix()
  call,     \* delivery -> the next call of its handler
  stamp,    \* delivery -> the time its handler read
  acked,    \* events that were answered 200
  batch,    \* processAll: events fetched and not yet looked at
  event,    \* processAll: the event at hand, or None
  step,     \* processAll: its next call
  faults, restarts \* counters of what the environment did

vars == <<events, routes, deposits, clock, call, stamp, acked, batch, event,
          step, faults, restarts>>

server    == <<call, stamp, acked>>
processor == <<batch, event, step>>

EventRow == [at: Nat, processed: BOOLEAN]
Deposit  == [stage: 1 .. Stages, txHash: 0 .. Stages]  \* txHash 0 is NULL

\* None is no event, and no row of either table.
ASSUME NoneAssumption ==
  None \notin Events /\ None \notin EventRow /\ None \notin Deposit

Stored(e)    == events[e] # None
Processed(e) == Stored(e) /\ events[e].processed
Unprocessed  == {e \in Events : Stored(e) /\ ~Processed(e)}

TypeOK ==
  /\ events \in [Events -> EventRow \cup {None}]
  /\ routes \subseteq Deposits
  /\ deposits \in [Deposits -> Deposit \cup {None}]
  /\ clock \in Nat
  /\ call \in [Deliveries -> {"idle", "exists", "insert"}]
  /\ stamp \in [Deliveries -> Nat]
  /\ acked \subseteq Events
  /\ batch \subseteq Events
  /\ event \in Events \cup {None}
  /\ step \in {"idle", "route", "upsert", "mark"}
  /\ faults \in Nat /\ restarts \in Nat
  /\ step = "idle" <=> event = None
  /\ step \in {"route", "upsert"} => event \in DepositEvents
  /\ step = "mark" => event \in DepositEvents \cup Ignored

Init ==
  /\ events = [e \in Events |-> None]
  /\ routes = {}
  /\ deposits = [d \in Deposits |-> None]
  /\ clock = 0
  /\ call = [c \in Deliveries |-> "idle"]
  /\ stamp = [c \in Deliveries |-> 0]
  /\ acked = {}
  /\ batch = {}
  /\ event = None
  /\ step = "idle"
  /\ faults = 0
  /\ restarts = 0

Fault == faults < MaxFaults /\ faults' = faults + 1

-----------------------------------------------------------------------------
(* POST /v1/webhooks/bridge                                                *)

Earlier(e) ==
  {f \in DepositEvents : f.deposit = e.deposit /\ f.stage < e.stage}

MaySend(e) ==
  e \in DepositEvents =>
    /\ RoutesFirst => e.deposit \in routes
    /\ InOrder => \A f \in Earlier(e) :
                    f \in acked /\ Stored(f) /\ events[f].at < clock

\* A delivery arrives.  A body that is unsigned or not an envelope is answered
\* 401 or 400 and changes nothing.
Deliver(e, n) ==
  /\ call[<<e, n>>] = "idle"
  /\ MaySend(e)
  /\ call' = [call EXCEPT ![<<e, n>>] = "exists"]
  /\ UNCHANGED <<events, routes, deposits, clock, stamp, acked, processor, faults, restarts>>

\* The handler ends, and with it what it read.
Answer(c, ok) ==
  /\ call' = [call EXCEPT ![c] = "idle"]
  /\ stamp' = [stamp EXCEPT ![c] = 0]
  /\ acked' = IF ok THEN acked \cup {c[1]} ELSE acked

CheckExists_Conflicts(e, n) ==
  LET c == <<e, n>> IN
  /\ call[c] = "exists"
  /\ \/ Stored(e) /\ Answer(c, FALSE) /\ UNCHANGED faults
     \/ /\ ~Stored(e)
        /\ call' = [call EXCEPT ![c] = "insert"]
        /\ stamp' = [stamp EXCEPT ![c] = clock]
        /\ UNCHANGED <<acked, faults>>
     \/ Fault /\ Answer(c, FALSE)
  /\ UNCHANGED <<events, routes, deposits, clock, processor, restarts>>

\* WebhookEventExists; the row is stamped before the next call.
CheckExists(e, n) ==
  LET c == <<e, n>> IN
  /\ call[c] = "exists"
  /\ \/ Stored(e) /\ Answer(c, TRUE) /\ UNCHANGED faults
     \/ /\ ~Stored(e)
        /\ call' = [call EXCEPT ![c] = "insert"]
        /\ stamp' = [stamp EXCEPT ![c] = clock]
        /\ UNCHANGED <<acked, faults>>
     \/ Fault /\ Answer(c, FALSE)
  /\ UNCHANGED <<events, routes, deposits, clock, processor, restarts>>

NewRow(c) == [at |-> stamp[c], processed |-> FALSE]

InsertEvent_Optimistic(e, n) ==
  LET c == <<e, n>> IN
  /\ call[c] = "insert"
  /\ \/ ~Stored(e) /\ events' = [events EXCEPT ![e] = NewRow(c)] /\ UNCHANGED faults
     \/ Stored(e) /\ UNCHANGED <<events, faults>>
     \/ Fault /\ UNCHANGED events
  /\ Answer(c, TRUE)
  /\ UNCHANGED <<routes, deposits, clock, processor, restarts>>

\* INSERT, refused by UNIQUE(provider_event_id) when another delivery came
\* first.  It may also be applied and its acknowledgement lost.
InsertEvent(e, n) ==
  LET c == <<e, n>> IN
  /\ call[c] = "insert"
  /\ \/ /\ ~Stored(e)
        /\ events' = [events EXCEPT ![e] = NewRow(c)]
        /\ \/ Answer(c, TRUE) /\ UNCHANGED faults
           \/ Fault /\ Answer(c, FALSE)
     \/ Stored(e) /\ Answer(c, FALSE) /\ UNCHANGED <<events, faults>>
     \/ Fault /\ Answer(c, FALSE) /\ UNCHANGED events
  /\ UNCHANGED <<routes, deposits, clock, processor, restarts>>

-----------------------------------------------------------------------------
(* The processor.                                                          *)

FirstOf(some, all) ==
  \A e \in some, f \in all \ some : events[e].at <= events[f].at

Fetch_Unordered ==
  /\ step = "idle" /\ batch = {}
  /\ \E chosen \in kSubset(Min({Limit, Cardinality(Unprocessed)}), Unprocessed) :
       batch' = chosen
  /\ UNCHANGED <<events, routes, deposits, clock, server, event, step, faults, restarts>>

\* GetUnprocessedWebhookEvents: ORDER BY created_at LIMIT; rows of one second
\* come in any order.  When the query fails, the next tick tries again.
Fetch ==
  /\ step = "idle" /\ batch = {}
  /\ \E chosen \in kSubset(Min({Limit, Cardinality(Unprocessed)}), Unprocessed) :
       /\ FirstOf(chosen, Unprocessed)
       /\ batch' = chosen
  /\ UNCHANGED <<events, routes, deposits, clock, server, event, step, faults, restarts>>

TakeEvent_ReturnsOnError(e) ==
  /\ step = "idle" /\ e \in batch /\ FirstOf({e}, batch)
  /\ \/ /\ e \in Unparsable
        /\ batch' = {}
        /\ UNCHANGED <<event, step>>
     \/ /\ e \notin Unparsable
        /\ batch' = batch \ {e}
        /\ event' = e
        /\ step' = IF e \in Ignored THEN "mark" ELSE "route"
  /\ UNCHANGED <<events, routes, deposits, clock, server, faults, restarts>>

\* The loop of processAll and the switch of process.  An event that cannot be
\* parsed is logged and left unprocessed.
TakeEvent(e) ==
  /\ step = "idle" /\ e \in batch /\ FirstOf({e}, batch)
  /\ batch' = batch \ {e}
  /\ \/ e \in Unparsable /\ UNCHANGED <<event, step>>
     \/ /\ e \notin Unparsable
        /\ event' = e
        /\ step' = IF e \in Ignored THEN "mark" ELSE "route"
  /\ UNCHANGED <<events, routes, deposits, clock, server, faults, restarts>>

Skip == event' = None /\ step' = "idle"

FindRoute_Unchecked ==
  /\ step = "route"
  /\ step' = "upsert"
  /\ UNCHANGED <<events, routes, deposits, clock, server, batch, event, faults, restarts>>

\* GetDepositRouteByProviderRouteID.  Without a route the event counts as done.
FindRoute ==
  /\ step = "route"
  /\ \/ /\ step' = IF event.deposit \in routes THEN "upsert" ELSE "mark"
        /\ UNCHANGED <<event, faults>>
     \/ Fault /\ Skip
  /\ UNCHANGED <<events, routes, deposits, clock, server, batch, restarts>>

HasTxHash(e) == e.stage > 1

Upserted_NoCoalesce(e) ==
  [stage |-> e.stage, txHash |-> IF HasTxHash(e) THEN e.stage ELSE 0]

Upserted_DoNothing(e) ==
  IF deposits[e.deposit] # None
    THEN deposits[e.deposit]
    ELSE [stage |-> e.stage, txHash |-> IF HasTxHash(e) THEN e.stage ELSE 0]

\* ON CONFLICT DO UPDATE: the status of this event, whatever the row held, and
\* COALESCE(EXCLUDED.tx_hash, deposits.tx_hash).
Upserted(e) ==
  LET old == deposits[e.deposit]
      kept == IF old = None THEN 0 ELSE old.txHash
  IN  [stage |-> e.stage, txHash |-> IF HasTxHash(e) THEN e.stage ELSE kept]

UpsertDeposit_MarksAnyway ==
  /\ step = "upsert"
  /\ \/ deposits' = [deposits EXCEPT ![event.deposit] = Upserted(event)] /\ UNCHANGED faults
     \/ Fault /\ UNCHANGED deposits
  /\ step' = "mark"
  /\ UNCHANGED <<events, routes, clock, server, batch, event, restarts>>

UpsertDeposit ==
  /\ step = "upsert"
  /\ \/ /\ deposits' = [deposits EXCEPT ![event.deposit] = Upserted(event)]
        /\ \/ step' = "mark" /\ UNCHANGED <<event, faults>>
           \/ Fault /\ Skip
     \/ Fault /\ Skip /\ UNCHANGED deposits
  /\ UNCHANGED <<events, routes, clock, server, batch, restarts>>

\* MarkWebhookEventProcessed; a failure is logged.
MarkProcessed ==
  /\ step = "mark"
  /\ \/ /\ events' = [events EXCEPT ![event].processed = TRUE]
        /\ Fault \/ UNCHANGED faults
     \/ Fault /\ UNCHANGED events
  /\ Skip
  /\ UNCHANGED <<routes, deposits, clock, server, batch, restarts>>

-----------------------------------------------------------------------------
(* The environment.                                                        *)

\* A user asks for the deposit options, and CreateDepositRoute stores a route.
StoreRoute(d) ==
  /\ d \notin routes
  /\ routes' = routes \cup {d}
  /\ UNCHANGED <<events, deposits, clock, server, processor, faults, restarts>>

\* The server process is replaced: deliveries end unanswered, and the processor
\* starts over.
Restart ==
  /\ restarts < MaxRestarts
  /\ restarts' = restarts + 1
  /\ call' = [c \in Deliveries |-> "idle"]
  /\ stamp' = [c \in Deliveries |-> 0]
  /\ batch' = {}
  /\ Skip
  /\ UNCHANGED <<events, routes, deposits, clock, acked, faults>>

Tick ==
  /\ clock < MaxTime
  /\ clock' = clock + 1
  /\ UNCHANGED <<events, routes, deposits, server, processor, faults, restarts>>

Handle(e, n) == CheckExists(e, n) \/ InsertEvent(e, n)

Process ==
  \/ Fetch \/ FindRoute \/ UpsertDeposit \/ MarkProcessed
  \/ \E e \in Events : TakeEvent(e)

Next ==
  \/ \E e \in Events, n \in 1 .. Copies : Deliver(e, n) \/ Handle(e, n)
  \/ Process
  \/ \E d \in Deposits : StoreRoute(d)
  \/ Restart
  \/ Tick

Spec == Init /\ [][Next]_vars

\* The Go scheduler runs handlers and processor, the processor's ticker fires,
\* time passes, and Bridge sends an event again until it is acknowledged.
Fairness ==
  /\ \A e \in Events, n \in 1 .. Copies :
       /\ WF_vars(Handle(e, n))
       /\ WF_vars(e \notin acked /\ Deliver(e, n))
  /\ WF_vars(Process)
  /\ WF_vars(Tick)

FairSpec == Spec /\ Fairness

-----------------------------------------------------------------------------
(* Properties.                                                             *)

\* An event that was answered 200 is in the table, so Bridge may forget it:
\* neither two deliveries at once nor a failing insert acknowledge what is not
\* stored.
AckedIsStored == \A e \in acked : Stored(e)

\* A deposit row belongs to a stored route and shows a stage, and a tx hash,
\* that a stored event of that deposit reported.
DepositIsReported ==
  \A d \in Deposits : deposits[d] # None =>
    /\ d \in routes
    /\ Stored([deposit |-> d, stage |-> deposits[d].stage])
    /\ deposits[d].txHash # 0 =>
         Stored([deposit |-> d, stage |-> deposits[d].txHash])

\* A deposit that shows a tx hash never shows none again, whichever event is
\* applied later or again.
TxHashStays ==
  [][\A d \in Deposits : deposits[d] # None =>
       /\ deposits'[d] # None
       /\ deposits[d].txHash # 0 => deposits'[d].txHash # 0]_vars

\* If users learn of a route only after it is stored, an event is marked
\* processed only after it was applied to its deposit, whatever fails or
\* restarts between the two writes: no deposit is lost.
ProcessedIsApplied ==
  \A e \in DepositEvents : Processed(e) =>
    /\ deposits[e.deposit] # None
    /\ HasTxHash(e) => deposits[e.deposit].txHash # 0

Final(d) == deposits[d] # None /\ deposits[d].stage = Stages

\* The final state of a deposit is final: no preliminary event applied after it
\* replaces it (005-arch-deposit-routes.md:524).
FinalStays == [][\A d \in Deposits : Final(d) => Final(d)']_vars

\* Bridge's retries end: every event it may send is acknowledged at last,
\* though a retry meets the row that a lost answer left behind.
EventuallyAcked ==
  \A e \in Events : MaySend(e) ~> e \in acked

\* Every event that can be parsed is processed at last, though others in its
\* batches cannot be.
EventuallyProcessed ==
  \A e \in Events \ Unparsable : Stored(e) ~> Processed(e)

\* A final event that waits for the processor, with its route stored, is shown
\* at last and for good.
Waits(e) ==
  Stored(e) /\ ~Processed(e) /\ event # e /\ e.deposit \in routes

FinalIsShown ==
  \A d \in Deposits : Waits([deposit |-> d, stage |-> Stages]) ~> []Final(d)

=============================================================================
