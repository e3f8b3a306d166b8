---------------------------- MODULE DepositProofs ----------------------------
(***************************************************************************)
(* Proofs about DepositWebhooks, for every value of the constants.         *)
(***************************************************************************)
EXTENDS DepositWebhooks, TLAPS

\* What is at hand in the processor was fetched from the table.
AtHandIsStored ==
  /\ \A e \in batch : Stored(e)
  /\ event # None => Stored(event)

TypeInv == TypeOK /\ AtHandIsStored

LEMMA InitTypeInv == Init => TypeInv
  BY DEF Init, TypeInv, TypeOK, AtHandIsStored

LEMMA FaultType == ASSUME faults \in Nat, Fault PROVE faults' \in Nat
  BY DEF Fault

LEMMA AnswerType ==
  ASSUME TypeOK, NEW e \in Events, NEW n \in 1 .. Copies, NEW ok \in BOOLEAN,
         Answer(<<e, n>>, ok)
  PROVE  /\ call' \in [Deliveries -> {"idle", "exists", "insert"}]
         /\ stamp' \in [Deliveries -> Nat]
         /\ acked' \subseteq Events
  BY DEF TypeOK, Answer, Deliveries

LEMMA HandlerTypeInv ==
  ASSUME TypeInv, NEW e \in Events, NEW n \in 1 .. Copies,
         Deliver(e, n) \/ Handle(e, n)
  PROVE  TypeInv'
<1> USE DEF TypeInv
<1>1. CASE Deliver(e, n)
  BY <1>1 DEF Deliver, TypeOK, AtHandIsStored, Stored, Deliveries, processor
<1>2. CASE CheckExists(e, n)
  <2>1. faults' \in Nat
    BY <1>2, FaultType DEF CheckExists, TypeOK
  <2>2. /\ call' \in [Deliveries -> {"idle", "exists", "insert"}]
        /\ stamp' \in [Deliveries -> Nat]
        /\ acked' \subseteq Events
    BY <1>2, AnswerType DEF CheckExists, TypeOK, Deliveries
  <2> QED
    BY <1>2, <2>1, <2>2 DEF CheckExists, TypeOK, AtHandIsStored, Stored, processor
<1>3. CASE InsertEvent(e, n)
  <2>1. faults' \in Nat
    BY <1>3, FaultType DEF InsertEvent, TypeOK
  <2>2. /\ call' \in [Deliveries -> {"idle", "exists", "insert"}]
        /\ stamp' \in [Deliveries -> Nat]
        /\ acked' \subseteq Events
    BY <1>3, AnswerType DEF InsertEvent
  <2>3. NewRow(<<e, n>>) \in EventRow
    BY DEF NewRow, EventRow, TypeOK, Deliveries
  <2>4. events' = events \/ events' = [events EXCEPT ![e] = NewRow(<<e, n>>)]
    BY <1>3 DEF InsertEvent
  <2>5. /\ events' \in [Events -> EventRow \cup {None}]
        /\ \A f \in Events : Stored(f) => Stored(f)'
    <3>1. NewRow(<<e, n>>) # None
      BY <2>3, NoneAssumption
    <3> QED
      BY <2>3, <2>4, <3>1 DEF TypeOK, Stored
  <2> QED
    BY <1>3, <2>1, <2>2, <2>5 DEF InsertEvent, TypeOK, AtHandIsStored, processor
<1> QED
  BY <1>1, <1>2, <1>3 DEF Handle

LEMMA FetchTypeInv == ASSUME TypeInv, Fetch PROVE TypeInv'
<1>1. PICK chosen \in SUBSET Unprocessed : batch' = chosen
  BY DEF Fetch, kSubset
<1>2. batch' \subseteq Events /\ \A e \in batch' : Stored(e)
  BY <1>1 DEF Unprocessed
<1> QED
  BY <1>2 DEF TypeInv, Fetch, TypeOK, AtHandIsStored, Stored, server

LEMMA ProcessTypeInv ==
  ASSUME TypeInv,
         \/ FindRoute \/ UpsertDeposit \/ MarkProcessed
         \/ \E e \in Events : TakeEvent(e)
  PROVE  TypeInv'
<1> USE DEF TypeInv
<1>1. ASSUME NEW e \in Events, TakeEvent(e) PROVE TypeInv'
  BY <1>1, NoneAssumption, KindsAssumption
  DEF TakeEvent, TypeOK, AtHandIsStored, Stored, server, Events
<1>2. CASE FindRoute
  BY <1>2, FaultType DEF FindRoute, TypeOK, AtHandIsStored, Stored, server, Skip
<1>3. CASE UpsertDeposit
  <2>1. event \in DepositEvents
    BY <1>3 DEF UpsertDeposit, TypeOK
  <2>2. Upserted(event) \in Deposit
    BY <2>1, WebhookAssumption, NoneAssumption
    DEF Upserted, Deposit, DepositEvents, TypeOK
  <2>3. deposits' \in [Deposits -> Deposit \cup {None}]
    BY <1>3, <2>2 DEF UpsertDeposit, TypeOK
  <2> QED
    BY <1>3, <2>3, FaultType DEF UpsertDeposit, TypeOK, AtHandIsStored, Stored, server, Skip
<1>4. CASE MarkProcessed
  <2>1. event \in Events /\ events[event] \in EventRow
    BY <1>4, NoneAssumption DEF MarkProcessed, TypeOK, AtHandIsStored, Stored, Events
  <2>2. [events[event] EXCEPT !.processed = TRUE] \in EventRow
    BY <2>1 DEF EventRow
  <2>3. /\ events' \in [Events -> EventRow \cup {None}]
        /\ \A f \in Events : Stored(f) => Stored(f)'
    <3>1. \/ UNCHANGED events
          \/ events' = [events EXCEPT ![event] = [events[event] EXCEPT !.processed = TRUE]]
      BY <1>4 DEF MarkProcessed
    <3>2. CASE UNCHANGED events
      BY <3>2 DEF TypeOK, Stored
    <3>3. ASSUME NEW row \in EventRow, events' = [events EXCEPT ![event] = row]
          PROVE  /\ events' \in [Events -> EventRow \cup {None}]
                 /\ \A f \in Events : Stored(f) => Stored(f)'
      BY <2>1, <3>3, NoneAssumption DEF TypeOK, Stored
    <3> QED
      BY <2>2, <3>1, <3>2, <3>3
  <2> QED
    BY <1>4, <2>3, FaultType DEF MarkProcessed, TypeOK, AtHandIsStored, server, Skip
<1> QED
  BY <1>1, <1>2, <1>3, <1>4

LEMMA StepTypeInv == TypeInv /\ [Next]_vars => TypeInv'
<1> SUFFICES ASSUME TypeInv, [Next]_vars PROVE TypeInv'
  OBVIOUS
<1>1. ASSUME NEW d \in Deposits, StoreRoute(d) PROVE TypeInv'
  BY <1>1 DEF TypeInv, StoreRoute, TypeOK, AtHandIsStored, Stored, server, processor
<1>2. CASE Restart
  BY <1>2 DEF TypeInv, Restart, TypeOK, AtHandIsStored, Stored, Skip
<1>3. CASE Tick
  BY <1>3 DEF TypeInv, Tick, TypeOK, AtHandIsStored, Stored, server, processor
<1>4. CASE UNCHANGED vars
  BY <1>4 DEF TypeInv, vars, TypeOK, AtHandIsStored, Stored, server, processor
<1> QED
  BY <1>1, <1>2, <1>3, <1>4, HandlerTypeInv, FetchTypeInv, ProcessTypeInv DEF Next, Process

\* Every reachable state is well typed, and the processor works on stored
\* events only.
THEOREM TypeCorrect == Spec => []TypeInv
<1> QED
  BY InitTypeInv, StepTypeInv, PTL DEF Spec

\* Every variable keeps its type, in every instance (webhook.go:41-97, processor.go:22-166).
THEOREM TypeOKHolds == Spec => []TypeOK
<1>1. TypeInv => TypeOK
  BY DEF TypeInv
<1> QED
  BY <1>1, TypeCorrect, PTL

-----------------------------------------------------------------------------
(* Nothing leaves the tables.                                              *)

LEMMA EventsStay ==
  ASSUME TypeInv, [Next]_vars, NEW e \in Events
  PROVE  /\ Stored(e) => events'[e] # None /\ events'[e].at = events[e].at
         /\ Processed(e) => events'[e].processed
<1> USE DEF TypeInv, Stored, Processed
<1>1. CASE UNCHANGED events
  BY <1>1
<1>2. ASSUME NEW f \in Events, NEW n \in 1 .. Copies, InsertEvent(f, n)
      PROVE  Stored(e) => events'[e] = events[e]
  BY <1>2 DEF InsertEvent, TypeOK
<1>3. CASE MarkProcessed
  <2>1. event \in Events /\ events[event] \in EventRow
    BY <1>3, NoneAssumption DEF MarkProcessed, TypeOK, AtHandIsStored, Events
  <2>2. [events[event] EXCEPT !.processed = TRUE] \in EventRow
    BY <2>1 DEF EventRow
  <2>3. CASE UNCHANGED events
    BY <2>3
  <2>4. CASE events' = [events EXCEPT ![event].processed = TRUE] /\ e # event
    BY <2>1, <2>4 DEF TypeOK
  <2>5. CASE events' = [events EXCEPT ![event].processed = TRUE] /\ e = event
    <3>1. events'[e] = [events[e] EXCEPT !.processed = TRUE]
      BY <2>1, <2>5 DEF TypeOK
    <3>2. events'[e].at = events[e].at /\ events'[e].processed
      BY <2>1, <2>5, <3>1 DEF EventRow
    <3>3. events'[e] # None
      BY <2>2, <2>5, <3>1, NoneAssumption
    <3> QED
      BY <3>2, <3>3
  <2> QED
    BY <1>3, <2>3, <2>4, <2>5 DEF MarkProcessed
<1>4. \/ UNCHANGED events
      \/ \E f \in Events, n \in 1 .. Copies : InsertEvent(f, n)
      \/ MarkProcessed
  BY DEF Next, Handle, Process, vars, Deliver, CheckExists, Fetch, TakeEvent,
     FindRoute, UpsertDeposit, StoreRoute, Restart, Tick
<1> QED
  BY <1>1, <1>2, <1>3, <1>4

LEMMA RoutesStay ==
  ASSUME [Next]_vars PROVE routes \subseteq routes'
  BY DEF Next, Handle, Process, vars, Deliver, CheckExists, InsertEvent, Fetch,
     TakeEvent, FindRoute, UpsertDeposit, MarkProcessed, StoreRoute, Restart, Tick

LEMMA DepositWriters ==
  ASSUME [Next]_vars PROVE UNCHANGED deposits \/ UpsertDeposit
  BY DEF Next, Handle, Process, vars, Deliver, CheckExists, InsertEvent, Fetch,
     TakeEvent, FindRoute, MarkProcessed, StoreRoute, Restart, Tick

\* What the processor writes.
LEMMA UpsertedRow ==
  ASSUME TypeInv, UpsertDeposit
  PROVE  /\ event \in DepositEvents /\ event.deposit \in Deposits
         /\ event.stage \in 1 .. Stages /\ Stored(event)
         /\ \/ UNCHANGED deposits
            \/ deposits' = [deposits EXCEPT ![event.deposit] = Upserted(event)]
         /\ Upserted(event) \in Deposit /\ Upserted(event) # None
         /\ Upserted(event).stage = event.stage
         /\ HasTxHash(event) => Upserted(event).txHash = event.stage
         /\ ~HasTxHash(event) =>
              Upserted(event).txHash =
                IF deposits[event.deposit] = None THEN 0
                                                  ELSE deposits[event.deposit].txHash
<1>1. event \in DepositEvents /\ event # None /\ Stored(event)
  BY NoneAssumption DEF UpsertDeposit, TypeInv, TypeOK, AtHandIsStored, Events
<1>2. event.deposit \in Deposits /\ event.stage \in 1 .. Stages
  BY <1>1 DEF DepositEvents
<1>3. Upserted(event) \in Deposit
  BY <1>2, WebhookAssumption, NoneAssumption DEF Upserted, Deposit, TypeInv, TypeOK
<1> QED
  BY <1>1, <1>2, <1>3, NoneAssumption DEF UpsertDeposit, Upserted

LEMMA StepTxHash ==
  TypeInv /\ [Next]_vars =>
    [\A d \in Deposits : deposits[d] # None =>
       /\ deposits'[d] # None
       /\ deposits[d].txHash # 0 => deposits'[d].txHash # 0]_vars
<1> SUFFICES ASSUME TypeInv, [Next]_vars, NEW d \in Deposits, deposits[d] # None
             PROVE  /\ deposits'[d] # None
                    /\ deposits[d].txHash # 0 => deposits'[d].txHash # 0
  OBVIOUS
<1>1. CASE UNCHANGED deposits
  BY <1>1
<1>2. CASE UpsertDeposit /\ deposits' = [deposits EXCEPT ![event.deposit] = Upserted(event)]
  BY <1>2, UpsertedRow DEF TypeInv, TypeOK, HasTxHash
<1> QED
  BY <1>1, <1>2, DepositWriters, UpsertedRow

\* A tx hash that a client has seen does not vanish, whatever is applied late
\* or twice.
THEOREM TxHashIsKept == Spec => TxHashStays
<1> QED
  BY TypeCorrect, StepTxHash, PTL DEF Spec, TxHashStays

-----------------------------------------------------------------------------
(* Ingestion: what is acknowledged, and what is shown.                     *)

LEMMA StepAckedIsStored ==
  TypeInv /\ AckedIsStored /\ [Next]_vars => AckedIsStored'
<1> SUFFICES ASSUME TypeInv, AckedIsStored, [Next]_vars, NEW e \in acked'
             PROVE  events'[e] # None
  BY DEF AckedIsStored, Stored
<1>1. CASE e \in acked
  BY <1>1, EventsStay DEF AckedIsStored, TypeInv, TypeOK
<1>2. ASSUME NEW f \in Events, NEW n \in 1 .. Copies, Handle(f, n), e \notin acked
      PROVE  events'[e] # None
  <2>1. e = f
    BY <1>2 DEF Handle, CheckExists, InsertEvent, Answer
  <2>2. CASE CheckExists(f, n)
    BY <1>2, <2>1, <2>2 DEF CheckExists, Answer, Stored
  <2>3. CASE InsertEvent(f, n)
    <3>1. events' = [events EXCEPT ![f] = NewRow(<<f, n>>)]
      BY <1>2, <2>3 DEF InsertEvent, Answer
    <3>2. NewRow(<<f, n>>) \in EventRow
      BY DEF NewRow, EventRow, TypeInv, TypeOK, Deliveries
    <3> QED
      BY <2>1, <3>1, <3>2, NoneAssumption DEF TypeInv, TypeOK
  <2> QED
    BY <1>2, <2>2, <2>3 DEF Handle
<1>3. \/ UNCHANGED acked
      \/ \E f \in Events, n \in 1 .. Copies : Handle(f, n)
  BY DEF Next, Process, vars, Deliver, Fetch, TakeEvent, FindRoute, UpsertDeposit,
     MarkProcessed, StoreRoute, Restart, Tick, server
<1> QED
  BY <1>1, <1>2, <1>3

\* No event is acknowledged before it is in the table.
THEOREM AcknowledgedIsStored == Spec => []AckedIsStored
<1>1. Init => AckedIsStored
  BY DEF Init, AckedIsStored
<1> QED
  BY <1>1, TypeCorrect, StepAckedIsStored, PTL DEF Spec

\* The processor is about to write a deposit whose route it found.
RouteFound == step = "upsert" => event.deposit \in routes

LEMMA StepRouteFound == TypeInv /\ RouteFound /\ [Next]_vars => RouteFound'
<1> SUFFICES ASSUME TypeInv, RouteFound, [Next]_vars, step' = "upsert"
             PROVE  event'.deposit \in routes'
  BY DEF RouteFound
<1>1. CASE UNCHANGED <<step, event>>
  BY <1>1, RoutesStay DEF RouteFound
<1>2. CASE FindRoute
  BY <1>2 DEF FindRoute, Skip
<1>3. step' = "upsert" => UNCHANGED <<step, event>> \/ FindRoute
  BY DEF Next, Handle, Process, vars, Deliver, CheckExists, InsertEvent, Fetch,
     TakeEvent, UpsertDeposit, MarkProcessed, StoreRoute, Restart, Tick, Skip, processor
<1> QED
  BY <1>1, <1>2, <1>3

LEMMA StepDepositIsReported ==
  TypeInv /\ RouteFound /\ DepositIsReported /\ [Next]_vars => DepositIsReported'
<1> SUFFICES ASSUME TypeInv, RouteFound, DepositIsReported, [Next]_vars,
                    NEW d \in Deposits, deposits'[d] # None
             PROVE  /\ d \in routes'
                    /\ events'[[deposit |-> d, stage |-> deposits'[d].stage]] # None
                    /\ deposits'[d].txHash # 0 =>
                         events'[[deposit |-> d, stage |-> deposits'[d].txHash]] # None
  BY DEF DepositIsReported, Stored
<1> DEFINE Report(s) == [deposit |-> d, stage |-> s]
<1>1. ASSUME NEW s \in 1 .. Stages, Stored(Report(s))
      PROVE  events'[Report(s)] # None
  <2>1. Report(s) \in Events
    BY DEF Events, DepositEvents
  <2> HIDE DEF Report
  <2> QED
    BY <1>1, <2>1, EventsStay
<1>2. ASSUME deposits[d] # None
      PROVE  /\ d \in routes' /\ deposits[d] \in Deposit
             /\ events'[Report(deposits[d].stage)] # None
             /\ deposits[d].txHash # 0 => events'[Report(deposits[d].txHash)] # None
  <2>1. deposits[d] \in Deposit
    BY <1>2 DEF TypeInv, TypeOK
  <2>2. /\ deposits[d].stage \in 1 .. Stages
        /\ deposits[d].txHash # 0 => deposits[d].txHash \in 1 .. Stages
    BY <2>1, WebhookAssumption DEF Deposit
  <2>3. d \in routes'
    BY <1>2, RoutesStay DEF DepositIsReported
  <2> QED
    BY <1>1, <1>2, <2>1, <2>2, <2>3 DEF DepositIsReported
<1>3. CASE UNCHANGED deposits
  BY <1>2, <1>3
<1>4. CASE UpsertDeposit /\ deposits' = [deposits EXCEPT ![event.deposit] = Upserted(event)]
  <2>1. CASE d # event.deposit
    BY <1>2, <1>4, <2>1 DEF TypeInv, TypeOK
  <2>2. CASE d = event.deposit
    <3>1. deposits'[d] = Upserted(event)
      BY <1>4, <2>2 DEF TypeInv, TypeOK
    <3>2. event = Report(event.stage) /\ Stored(event) /\ event.stage \in 1 .. Stages
      BY <1>4, <2>2, UpsertedRow DEF DepositEvents
    <3>3. events'[Report(event.stage)] # None
      BY <1>1, <3>2
    <3>4. d \in routes'
      BY <1>4, <2>2, RoutesStay DEF UpsertDeposit, RouteFound
    <3>5. Upserted(event).stage = event.stage
      BY <1>4, UpsertedRow
    <3>6. CASE HasTxHash(event)
      BY <1>4, <3>1, <3>3, <3>4, <3>5, <3>6, UpsertedRow
    <3>7. CASE ~HasTxHash(event) /\ deposits[d] = None
      BY <1>4, <2>2, <3>1, <3>3, <3>4, <3>5, <3>7, UpsertedRow
    <3>8. CASE ~HasTxHash(event) /\ deposits[d] # None
      BY <1>2, <1>4, <2>2, <3>1, <3>3, <3>4, <3>5, <3>8, UpsertedRow
    <3> QED
      BY <3>6, <3>7, <3>8
  <2> QED
    BY <2>1, <2>2
<1> QED
  BY <1>3, <1>4, DepositWriters, UpsertedRow

\* A client is shown only what Bridge reported, of a route that is stored.
THEOREM ShownIsReported == Spec => []DepositIsReported
<1>1. Init => RouteFound /\ DepositIsReported
  BY DEF Init, RouteFound, DepositIsReported
<1> QED
  BY <1>1, TypeCorrect, StepRouteFound, StepDepositIsReported, PTL DEF Spec

-----------------------------------------------------------------------------
(* No deposit is lost.                                                     *)

\* When routes come first, an event that arrived has its route.
RoutesKnown ==
  \A e \in DepositEvents :
    Stored(e) \/ (\E n \in 1 .. Copies : call[<<e, n>>] # "idle")
    => e.deposit \in routes

LEMMA StepRoutesKnown ==
  ASSUME RoutesFirst
  PROVE  TypeInv /\ RoutesKnown /\ [Next]_vars => RoutesKnown'
<1> SUFFICES ASSUME TypeInv, RoutesKnown, [Next]_vars, NEW e \in DepositEvents,
                    \/ events'[e] # None
                    \/ \E n \in 1 .. Copies : call'[<<e, n>>] # "idle"
             PROVE  e.deposit \in routes'
  BY DEF RoutesKnown, Stored
<1>1. e \in Events
  BY DEF Events
<1>2. CASE UNCHANGED <<events, call>>
  BY <1>2, RoutesStay DEF RoutesKnown, Stored
<1>3. ASSUME NEW f \in Events, NEW k \in 1 .. Copies, Deliver(f, k)
      PROVE  e.deposit \in routes'
  <2>1. CASE e = f
    BY <1>3, <2>1 DEF Deliver, MaySend
  <2>2. CASE e # f
    BY <1>1, <1>3, <2>2 DEF Deliver, RoutesKnown, Stored, TypeInv, TypeOK, Deliveries
  <2> QED
    BY <2>1, <2>2
<1>4. ASSUME NEW f \in Events, NEW k \in 1 .. Copies, Handle(f, k)
      PROVE  e.deposit \in routes'
  <2>1. call[<<f, k>>] # "idle" /\ <<f, k>> \in Deliveries
    BY <1>4 DEF Handle, CheckExists, InsertEvent, Deliveries
  <2>2. CASE e = f
    BY <2>1, <2>2, RoutesStay DEF RoutesKnown
  <2>3. CASE e # f
    <3>1. events'[e] = events[e]
      BY <1>1, <1>4, <2>3 DEF Handle, CheckExists, InsertEvent, TypeInv, TypeOK
    <3>2. \A n \in 1 .. Copies : call'[<<e, n>>] = call[<<e, n>>]
      BY <1>1, <1>4, <2>1, <2>3
      DEF Handle, CheckExists, InsertEvent, Answer, TypeInv, TypeOK, Deliveries
    <3> QED
      BY <3>1, <3>2, RoutesStay DEF RoutesKnown, Stored
  <2> QED
    BY <2>2, <2>3
<1>5. CASE Restart
  BY <1>1, <1>5, RoutesStay DEF Restart, RoutesKnown, Stored, Deliveries
<1>6. CASE MarkProcessed
  <2>1. event \in Events /\ Stored(event)
    BY <1>6, NoneAssumption DEF MarkProcessed, TypeInv, TypeOK, AtHandIsStored, Events
  <2>2. events'[e] # None => events[e] # None
    BY <1>1, <1>6, <2>1 DEF MarkProcessed, TypeInv, TypeOK, Stored
  <2> QED
    BY <1>6, <2>2, RoutesStay DEF MarkProcessed, RoutesKnown, Stored, server
<1>7. \/ UNCHANGED <<events, call>>
      \/ \E f \in Events, k \in 1 .. Copies : Deliver(f, k) \/ Handle(f, k)
      \/ Restart
      \/ MarkProcessed
  BY DEF Next, Process, vars, Fetch, TakeEvent, FindRoute, UpsertDeposit,
     StoreRoute, Tick, server
<1> QED
  BY <1>2, <1>3, <1>4, <1>5, <1>6, <1>7

\* An event about to be marked was applied.
MarkedIsApplied ==
  step = "mark" /\ event \in DepositEvents =>
    /\ deposits[event.deposit] # None
    /\ HasTxHash(event) => deposits[event.deposit].txHash # 0

LEMMA StepMarkedIsApplied ==
  ASSUME RoutesFirst
  PROVE  TypeInv /\ RoutesKnown /\ MarkedIsApplied /\ [Next]_vars => MarkedIsApplied'
<1> SUFFICES ASSUME TypeInv, RoutesKnown, MarkedIsApplied, [Next]_vars,
                    step' = "mark", event' \in DepositEvents
             PROVE  /\ deposits'[event'.deposit] # None
                    /\ event'.stage > 1 => deposits'[event'.deposit].txHash # 0
  BY DEF MarkedIsApplied, HasTxHash
<1>1. CASE UNCHANGED <<step, event>>
  <2>1. step = "mark" /\ UNCHANGED deposits
    BY <1>1, DepositWriters DEF UpsertDeposit
  <2> QED
    BY <1>1, <2>1 DEF MarkedIsApplied, HasTxHash
<1>2. CASE FindRoute
  <2>1. event \in DepositEvents /\ event # None /\ Stored(event)
    BY <1>2, NoneAssumption DEF FindRoute, TypeInv, TypeOK, AtHandIsStored, Events
  <2> QED
    BY <1>2, <2>1 DEF FindRoute, RoutesKnown, Skip
<1>3. CASE UpsertDeposit
  <2>1. /\ event' = event
        /\ deposits' = [deposits EXCEPT ![event.deposit] = Upserted(event)]
    BY <1>3 DEF UpsertDeposit, Skip
  <2>2. deposits'[event.deposit] = Upserted(event)
    BY <1>3, <2>1, UpsertedRow DEF TypeInv, TypeOK
  <2> QED
    BY <1>3, <2>1, <2>2, UpsertedRow DEF HasTxHash
<1>4. ASSUME NEW e \in Events, TakeEvent(e) PROVE FALSE
  BY <1>4, KindsAssumption, NoneAssumption DEF TakeEvent, TypeInv, TypeOK, Events
<1>5. UNCHANGED <<step, event>> \/ FindRoute \/ UpsertDeposit \/ \E e \in Events : TakeEvent(e)
  BY DEF Next, Handle, Process, vars, Deliver, CheckExists, InsertEvent, Fetch,
     MarkProcessed, StoreRoute, Restart, Tick, Skip, processor
<1> QED
  BY <1>1, <1>2, <1>3, <1>4, <1>5

\* Only the processor takes an event off its list, the one it has at hand.
LEMMA ProcessedByMark ==
  ASSUME TypeInv, [Next]_vars, NEW e \in Events, events'[e] # None, events'[e].processed
  PROVE  Processed(e) \/ (MarkProcessed /\ e = event)
<1>1. CASE UNCHANGED events
  BY <1>1 DEF Processed, Stored
<1>2. ASSUME NEW f \in Events, NEW n \in 1 .. Copies, InsertEvent(f, n)
      PROVE  Processed(e)
  <2>1. NewRow(<<f, n>>).processed = FALSE
    BY DEF NewRow
  <2> QED
    BY <1>2, <2>1 DEF InsertEvent, Processed, Stored, TypeInv, TypeOK
<1>3. CASE MarkProcessed /\ e # event
  BY <1>3 DEF MarkProcessed, Processed, Stored, TypeInv, TypeOK
<1>4. \/ UNCHANGED events
      \/ \E f \in Events, n \in 1 .. Copies : InsertEvent(f, n)
      \/ MarkProcessed
  BY DEF Next, Handle, Process, vars, Deliver, CheckExists, Fetch, TakeEvent,
     FindRoute, UpsertDeposit, StoreRoute, Restart, Tick
<1> QED
  BY <1>1, <1>2, <1>3, <1>4

LEMMA StepProcessedIsApplied ==
  TypeInv /\ MarkedIsApplied /\ ProcessedIsApplied /\ [Next]_vars => ProcessedIsApplied'
<1> SUFFICES ASSUME TypeInv, MarkedIsApplied, ProcessedIsApplied, [Next]_vars,
                    NEW e \in DepositEvents, Processed(e)'
             PROVE  /\ deposits'[e.deposit] # None
                    /\ HasTxHash(e) => deposits'[e.deposit].txHash # 0
  BY DEF ProcessedIsApplied, HasTxHash
<1>1. e \in Events /\ e.deposit \in Deposits
  BY DEF Events, DepositEvents
<1>2. \/ Processed(e)
      \/ MarkProcessed /\ e = event
  BY <1>1, ProcessedByMark DEF Processed, Stored
<1>3. /\ deposits[e.deposit] # None
      /\ HasTxHash(e) => deposits[e.deposit].txHash # 0
  BY <1>2 DEF ProcessedIsApplied, MarkedIsApplied, MarkProcessed
<1> QED
  BY <1>1, <1>3, StepTxHash DEF vars

\* No event is taken off the list before its deposit shows it, though any call
\* may fail and the server may restart between the two writes.
THEOREM NoDepositIsLost ==
  ASSUME RoutesFirst
  PROVE  Spec => []ProcessedIsApplied
<1>1. Init => RoutesKnown /\ MarkedIsApplied /\ ProcessedIsApplied
  BY DEF Init, RoutesKnown, MarkedIsApplied, ProcessedIsApplied, Stored, Processed,
     Deliveries, Events
<1>2. TypeInv /\ RoutesKnown /\ [Next]_vars => RoutesKnown'
  BY StepRoutesKnown
<1>3. TypeInv /\ RoutesKnown /\ MarkedIsApplied /\ [Next]_vars => MarkedIsApplied'
  BY StepMarkedIsApplied
<1> QED
  BY <1>1, <1>2, <1>3, TypeCorrect, StepProcessedIsApplied, PTL DEF Spec

-----------------------------------------------------------------------------
(* The final state is final.  From here on Bridge awaits each answer, and    *)
(* calls to PostgreSQL do not fail; restarts may happen at any time.         *)

NoFaults == faults = MaxFaults

LEMMA StepNoFaults ==
  ASSUME MaxFaults = 0
  PROVE  /\ Init => NoFaults
         /\ TypeInv /\ NoFaults /\ [Next]_vars => NoFaults'
<1>1. Init => NoFaults
  BY DEF Init, NoFaults
<1>2. ASSUME TypeInv, NoFaults, [Next]_vars PROVE NoFaults'
  <2>1. ~Fault
    BY <1>2, WebhookAssumption DEF NoFaults, Fault
  <2> QED
    BY <1>2, <2>1
    DEF NoFaults, Next, Handle, Process, vars, Deliver, CheckExists,
        InsertEvent, Fetch, TakeEvent, FindRoute, UpsertDeposit, MarkProcessed,
        StoreRoute, Restart, Tick
<1> QED
  BY <1>1, <1>2

\* The stages of a deposit are stored one after the other, each with an older
\* created_at than the next.
Since(e, t) == \A f \in Earlier(e) : Stored(f) /\ events[f].at < t

StoredInOrder ==
  \A e \in DepositEvents :
    /\ Stored(e) => Since(e, events[e].at)
    /\ \A n \in 1 .. Copies :
         /\ call[<<e, n>>] = "exists" => Since(e, clock)
         /\ call[<<e, n>>] = "insert" => Since(e, stamp[<<e, n>>])

LEMMA ClockGrows == TypeInv /\ [Next]_vars => clock <= clock'
<1> SUFFICES ASSUME TypeInv, [Next]_vars PROVE clock <= clock'
  OBVIOUS
<1>1. UNCHANGED clock \/ Tick
  BY DEF Next, Handle, Process, vars, Deliver, CheckExists, InsertEvent, Fetch,
     TakeEvent, FindRoute, UpsertDeposit, MarkProcessed, StoreRoute, Restart
<1> QED
  BY <1>1 DEF Tick, TypeInv, TypeOK

\* What was stored before t stays so.
LEMMA SinceStays ==
  ASSUME TypeInv, [Next]_vars, NEW e \in DepositEvents, NEW t \in Nat, NEW u \in Nat,
         Since(e, t), t <= u
  PROVE  \A f \in Earlier(e) : events'[f] # None /\ events'[f].at < u
<1> SUFFICES ASSUME NEW f \in Earlier(e)
             PROVE  events'[f] # None /\ events'[f].at < u
  OBVIOUS
<1>1. f \in Events /\ Stored(f) /\ events[f].at < t
  BY DEF Since, Earlier, Events
<1>2. events[f].at \in Nat
  BY <1>1 DEF TypeInv, TypeOK, Stored, EventRow
<1> QED
  BY <1>1, <1>2, EventsStay

LEMMA StepStoredInOrder ==
  ASSUME InOrder
  PROVE  TypeInv /\ StoredInOrder /\ [Next]_vars => StoredInOrder'
<1> SUFFICES ASSUME TypeInv, StoredInOrder, [Next]_vars, NEW e \in DepositEvents
             PROVE  /\ Stored(e)' => Since(e, events[e].at)'
                    /\ \A n \in 1 .. Copies :
                         /\ call'[<<e, n>>] = "exists" => Since(e, clock)'
                         /\ call'[<<e, n>>] = "insert" => Since(e, stamp[<<e, n>>])'
  BY DEF StoredInOrder
<1> USE DEF TypeInv, TypeOK
<1>1. e \in Events /\ clock <= clock' /\ clock' \in Nat /\ TypeInv'
  BY StepTypeInv, ClockGrows DEF Events
<1>2. ASSUME events'[e] # None PROVE Since(e, events[e].at)'
  <2>1. CASE Stored(e)
    <3>1. events[e].at \in Nat /\ events'[e].at = events[e].at
      BY <1>1, <2>1, EventsStay DEF Stored, EventRow
    <3>2. PICK t \in Nat : t = events[e].at
      BY <3>1
    <3>3. Since(e, t)
      BY <2>1, <3>2 DEF StoredInOrder
    <3>4. t <= t
      OBVIOUS
    <3>5. \A f \in Earlier(e) : events'[f] # None /\ events'[f].at < t
      BY <3>2, <3>3, <3>4, SinceStays
    <3> QED
      BY <3>1, <3>2, <3>5 DEF Since, Earlier, Stored
  <2>2. CASE ~Stored(e)
    <3>1. PICK n \in 1 .. Copies : InsertEvent(e, n)
      <4>1. ASSUME NEW f \in Events, NEW n \in 1 .. Copies, InsertEvent(f, n), f # e
            PROVE  FALSE
        BY <1>1, <1>2, <2>2, <4>1 DEF InsertEvent, Stored
      <4>2. ASSUME MarkProcessed PROVE FALSE
        <5>1. event \in Events /\ Stored(event)
          BY <4>2, NoneAssumption DEF MarkProcessed, AtHandIsStored, Events
        <5> QED
          BY <1>1, <1>2, <2>2, <4>2, <5>1 DEF MarkProcessed, Stored
      <4>3. \/ UNCHANGED events
            \/ \E f \in Events, n \in 1 .. Copies : InsertEvent(f, n)
            \/ MarkProcessed
        BY DEF Next, Handle, Process, vars, Deliver, CheckExists, Fetch, TakeEvent,
           FindRoute, UpsertDeposit, StoreRoute, Restart, Tick
      <4> QED
        BY <1>2, <2>2, <4>1, <4>2, <4>3 DEF Stored
    <3>2. events' = [events EXCEPT ![e] = NewRow(<<e, n>>)]
      BY <1>2, <2>2, <3>1 DEF InsertEvent, Stored
    <3>3. events'[e].at = stamp[<<e, n>>] /\ stamp[<<e, n>>] \in Nat
      BY <1>1, <3>2 DEF NewRow, Deliveries
    <3>4. Since(e, stamp[<<e, n>>])
      BY <3>1 DEF InsertEvent, StoredInOrder
    <3>5. PICK t \in Nat : t = stamp[<<e, n>>]
      BY <3>3
    <3>6. \A f \in Earlier(e) : events'[f] # None /\ events'[f].at < t
      BY <3>4, <3>5, SinceStays
    <3> QED
      BY <3>3, <3>5, <3>6 DEF Since, Earlier, Stored
  <2> QED
    BY <2>1, <2>2
<1>3. ASSUME NEW n \in 1 .. Copies, call'[<<e, n>>] = "exists"
      PROVE  Since(e, clock)'
  <2>1. Since(e, clock)
    <3>1. CASE call[<<e, n>>] = "exists"
      BY <3>1 DEF StoredInOrder
    <3>2. CASE call[<<e, n>>] # "exists"
      <4>1. Deliver(e, n)
        <5>1. ASSUME NEW f \in Events, NEW k \in 1 .. Copies, Handle(f, k)
              PROVE  FALSE
          BY <1>1, <1>3, <3>2, <5>1
          DEF Handle, CheckExists, InsertEvent, Answer, Deliveries
        <5>2. ASSUME NEW f \in Events, NEW k \in 1 .. Copies, Deliver(f, k)
              PROVE  f = e /\ k = n
          BY <1>1, <1>3, <3>2, <5>2 DEF Deliver, Deliveries
        <5>3. ~UNCHANGED call /\ ~Restart
          BY <1>1, <1>3, <3>2 DEF Restart, Deliveries
        <5> QED
          BY <5>1, <5>2, <5>3 DEF Next, vars, server, Process, Fetch, TakeEvent, FindRoute,
             UpsertDeposit, MarkProcessed, StoreRoute, Tick
      <4> QED
        BY <4>1 DEF Deliver, MaySend, Since
    <3> QED
      BY <3>1, <3>2
  <2> QED
    BY <1>1, <2>1, SinceStays DEF Since, Earlier, Stored
<1>4. ASSUME NEW n \in 1 .. Copies, call'[<<e, n>>] = "insert"
      PROVE  Since(e, stamp[<<e, n>>])'
  <2>1. stamp'[<<e, n>>] \in Nat /\ Since(e, stamp'[<<e, n>>])
    <3>0. <<e, n>> \in Deliveries
      BY <1>1 DEF Deliveries
    <3>1. CASE call[<<e, n>>] = "insert" /\ stamp'[<<e, n>>] = stamp[<<e, n>>]
      BY <3>0, <3>1 DEF StoredInOrder
    <3>2. CASE call[<<e, n>>] = "exists" /\ stamp'[<<e, n>>] = clock
      BY <3>0, <3>2 DEF StoredInOrder
    <3>3. ASSUME NEW f \in Events, NEW k \in 1 .. Copies, Deliver(f, k) \/ Handle(f, k)
          PROVE  \/ call[<<e, n>>] = "insert" /\ stamp'[<<e, n>>] = stamp[<<e, n>>]
                 \/ call[<<e, n>>] = "exists" /\ stamp'[<<e, n>>] = clock
      BY <1>4, <3>0, <3>3
      DEF Deliver, Handle, CheckExists, InsertEvent, Answer, Deliveries
    <3>4. \/ UNCHANGED <<call, stamp>>
          \/ Restart
          \/ \E f \in Events, k \in 1 .. Copies : Deliver(f, k) \/ Handle(f, k)
      BY DEF Next, Process, vars, Fetch, TakeEvent, FindRoute, UpsertDeposit,
         MarkProcessed, StoreRoute, Tick, server
    <3>5. ~Restart
      BY <1>4, <3>0 DEF Restart
    <3> QED
      BY <1>4, <3>1, <3>2, <3>3, <3>4, <3>5
  <2>2. PICK t \in Nat : t = stamp'[<<e, n>>] /\ Since(e, t)
    BY <2>1
  <2>3. \A f \in Earlier(e) : events'[f] # None /\ events'[f].at < t
    BY <2>2, SinceStays
  <2> QED
    BY <2>2, <2>3 DEF Since, Earlier, Stored
<1> QED
  BY <1>2, <1>3, <1>4 DEF Stored

\* The processor has unprocessed events at hand, and an event of a deposit only
\* when those of its earlier stages are processed or come first.
AtHandUnprocessed ==
  /\ \A e \in batch : ~Processed(e)
  /\ event # None => ~Processed(event) /\ event \notin batch

BatchInOrder ==
  \A e \in DepositEvents : \A f \in Earlier(e) :
    /\ e \in batch => Processed(f) \/ f \in batch \/ f = event
    /\ e = event => Processed(f)

LEMMA StepAtHandUnprocessed ==
  ASSUME MaxFaults = 0
  PROVE  TypeInv /\ NoFaults /\ AtHandUnprocessed /\ [Next]_vars => AtHandUnprocessed'
<1> SUFFICES ASSUME TypeInv, NoFaults, AtHandUnprocessed, [Next]_vars
             PROVE  AtHandUnprocessed'
  OBVIOUS
<1>1. ASSUME NEW e \in Events, e \in batch \/ e = event, ~MarkProcessed
      PROVE  ~(events'[e] # None /\ events'[e].processed)
  BY <1>1, ProcessedByMark, NoneAssumption DEF AtHandUnprocessed
<1>2. CASE Fetch
  <2>1. batch' \subseteq Unprocessed
    BY <1>2 DEF Fetch, kSubset
  <2>2. event = None
    BY <1>2 DEF Fetch, TypeInv, TypeOK
  <2> QED
    BY <1>2, <2>1, <2>2 DEF Fetch, AtHandUnprocessed, Unprocessed, Processed, Stored
<1>3. ASSUME NEW e \in Events, TakeEvent(e) PROVE AtHandUnprocessed'
  BY <1>3, NoneAssumption
  DEF TakeEvent, AtHandUnprocessed, Processed, Stored, TypeInv, TypeOK
<1>4. CASE MarkProcessed
  <2>1. event \in Events /\ event # None
    BY <1>4, NoneAssumption DEF MarkProcessed, TypeInv, TypeOK, Events
  <2>2. event' = None /\ batch' = batch /\ event \notin batch
    BY <1>4, <2>1 DEF MarkProcessed, Skip, AtHandUnprocessed
  <2>3. \A e \in batch : events'[e] = events[e]
    BY <1>4, <2>1, <2>2 DEF MarkProcessed, TypeInv, TypeOK
  <2> QED
    BY <2>2, <2>3 DEF AtHandUnprocessed, Processed, Stored
<1>5. CASE Restart
  BY <1>5 DEF Restart, Skip, AtHandUnprocessed
<1>6. CASE UNCHANGED <<batch, event>> /\ ~MarkProcessed
  BY <1>1, <1>6, NoneAssumption
  DEF AtHandUnprocessed, Processed, Stored, TypeInv, TypeOK
<1>7. ~Fault
  BY WebhookAssumption DEF NoFaults, Fault
<1>8. \/ UNCHANGED <<batch, event>> \/ Fetch \/ MarkProcessed \/ Restart
      \/ \E e \in Events : TakeEvent(e)
  BY <1>7 DEF Next, Handle, Process, vars, Deliver, CheckExists, InsertEvent,
     FindRoute, UpsertDeposit, StoreRoute, Tick, processor
<1> QED
  BY <1>2, <1>3, <1>4, <1>5, <1>6, <1>8

\* The order of created_at is the order of the stages.
LEMMA EarlierIsOlder ==
  ASSUME TypeInv, StoredInOrder, NEW e \in DepositEvents, NEW f \in Earlier(e), Stored(e)
  PROVE  /\ e \in Events /\ f \in Events /\ e # f /\ Stored(f)
         /\ ~(events[e].at <= events[f].at)
<1>1. e \in Events /\ f \in Events /\ f.stage < e.stage
  BY DEF Events, Earlier
<1>2. Stored(f) /\ events[f].at < events[e].at
  BY DEF StoredInOrder, Since
<1>3. events[e].at \in Nat /\ events[f].at \in Nat
  BY <1>1, <1>2 DEF TypeInv, TypeOK, Stored, EventRow
<1> QED
  BY <1>1, <1>2, <1>3

LEMMA StepBatchInOrder ==
  ASSUME MaxFaults = 0
  PROVE  TypeInv /\ NoFaults /\ StoredInOrder /\ AtHandUnprocessed /\ BatchInOrder
           /\ [Next]_vars => BatchInOrder'
<1> SUFFICES ASSUME TypeInv, NoFaults, StoredInOrder, AtHandUnprocessed, BatchInOrder,
                    [Next]_vars, NEW e \in DepositEvents, NEW f \in Earlier(e)
             PROVE  /\ e \in batch' => (events'[f] # None /\ events'[f].processed)
                                        \/ f \in batch' \/ f = event'
                    /\ e = event' => events'[f] # None /\ events'[f].processed
  BY DEF BatchInOrder, Processed, Stored, Earlier
<1>1. e \in Events /\ f \in Events /\ f \in DepositEvents
  BY DEF Events, Earlier
<1>2. Processed(f) => events'[f] # None /\ events'[f].processed
  BY <1>1, EventsStay DEF Processed, Stored
<1>3. CASE Fetch
  <2>1. /\ batch' \subseteq Unprocessed /\ FirstOf(batch', Unprocessed)
        /\ event = None /\ event' = None /\ UNCHANGED events
    BY <1>3 DEF Fetch, kSubset, TypeInv, TypeOK
  <2>2. ASSUME e \in batch' PROVE Processed(f) \/ f \in batch'
    <3>1. Stored(e)
      BY <2>1, <2>2 DEF Unprocessed
    <3>2. Stored(f) /\ ~(events[e].at <= events[f].at)
      BY <3>1, EarlierIsOlder
    <3> QED
      BY <1>1, <2>1, <2>2, <3>2 DEF FirstOf, Unprocessed
  <2> QED
    BY <1>1, <1>2, <2>1, <2>2, NoneAssumption
<1>4. ASSUME NEW g \in Events, TakeEvent(g)
      PROVE  /\ e \in batch' => Processed(f) \/ f \in batch' \/ f = event'
             /\ e = event' => Processed(f)
  <2>1. event = None /\ g \in batch /\ batch' = batch \ {g} /\ FirstOf({g}, batch)
    BY <1>4 DEF TakeEvent, TypeInv, TypeOK
  <2>2. event' = g \/ (g \in Unparsable /\ event' = None)
    BY <1>4, <2>1 DEF TakeEvent
  <2>3. CASE e \in batch'
    <3>1. Processed(f) \/ f \in batch
      BY <1>1, <2>1, <2>3, NoneAssumption DEF BatchInOrder
    <3>2. e # event'
      BY <1>1, <2>1, <2>2, <2>3, NoneAssumption
    <3>3. g \in Unparsable => f # g
      BY <1>1, KindsAssumption
    <3> QED
      BY <2>1, <2>2, <3>1, <3>2, <3>3
  <2>4. CASE e = event'
    <3>1. e = g /\ e \in batch /\ e \notin batch'
      BY <1>1, <2>1, <2>2, <2>4, NoneAssumption
    <3>2. Processed(f) \/ f \in batch
      BY <1>1, <2>1, <3>1, NoneAssumption DEF BatchInOrder
    <3>3. Stored(e)
      BY <3>1 DEF TypeInv, AtHandIsStored
    <3>4. f # e /\ ~(events[e].at <= events[f].at)
      BY <3>3, EarlierIsOlder
    <3>5. f \notin batch
      BY <2>1, <3>1, <3>4 DEF FirstOf
    <3> QED
      BY <3>1, <3>2, <3>5
  <2> QED
    BY <2>3, <2>4
<1>5. CASE MarkProcessed
  <2>1. event \in Events /\ Stored(event) /\ events[event] \in EventRow
    BY <1>5, NoneAssumption DEF MarkProcessed, TypeInv, TypeOK, AtHandIsStored, Stored, Events
  <2>2. /\ events' = [events EXCEPT ![event].processed = TRUE]
        /\ batch' = batch /\ event' = None
    BY <1>5, WebhookAssumption DEF MarkProcessed, Skip, NoFaults, Fault
  <2>3. [events[event] EXCEPT !.processed = TRUE] \in EventRow
    BY <2>1 DEF EventRow
  <2>4. events'[event] = [events[event] EXCEPT !.processed = TRUE]
    BY <2>1, <2>2 DEF TypeInv, TypeOK
  <2>5. events'[event] # None /\ events'[event].processed
    BY <2>1, <2>3, <2>4, NoneAssumption DEF EventRow
  <2> QED
    BY <1>1, <1>2, <2>2, <2>5, NoneAssumption DEF BatchInOrder
<1>6. CASE Restart
  BY <1>1, <1>6, NoneAssumption DEF Restart, Skip
<1>7. CASE UNCHANGED <<batch, event>>
  BY <1>2, <1>7 DEF BatchInOrder
<1>8. ~Fault
  BY WebhookAssumption DEF NoFaults, Fault
<1>9. \/ UNCHANGED <<batch, event>> \/ Fetch \/ MarkProcessed \/ Restart
      \/ \E g \in Events : TakeEvent(g)
  BY <1>8 DEF Next, Handle, Process, vars, Deliver, CheckExists, InsertEvent,
     FindRoute, UpsertDeposit, StoreRoute, Tick, processor
<1> QED
  BY <1>2, <1>3, <1>4, <1>5, <1>6, <1>7, <1>9

\* A deposit that shows its final stage has none of the others outstanding.
FinalIsComplete ==
  \A d \in Deposits : Final(d) =>
    \A f \in DepositEvents : f.deposit = d /\ f.stage < Stages => Processed(f)

LEMMA StepFinalIsComplete ==
  TypeInv /\ BatchInOrder /\ FinalIsComplete /\ [Next]_vars => FinalIsComplete'
<1> SUFFICES ASSUME TypeInv, BatchInOrder, FinalIsComplete, [Next]_vars,
                    NEW d \in Deposits, deposits'[d] # None, deposits'[d].stage = Stages,
                    NEW f \in DepositEvents, f.deposit = d, f.stage < Stages
             PROVE  events'[f] # None /\ events'[f].processed
  BY DEF FinalIsComplete, Final, Processed, Stored
<1>1. Processed(f)
  <2>1. CASE Final(d)
    BY <2>1 DEF FinalIsComplete
  <2>2. CASE ~Final(d)
    <3>1. /\ UpsertDeposit
          /\ deposits' = [deposits EXCEPT ![event.deposit] = Upserted(event)]
      BY <2>2, DepositWriters, UpsertedRow DEF Final
    <3>2. d = event.deposit /\ deposits'[d] = Upserted(event)
      BY <2>2, <3>1, UpsertedRow DEF Final, TypeInv, TypeOK
    <3>3. event \in DepositEvents /\ event.stage = Stages
      BY <3>1, <3>2, UpsertedRow
    <3> QED
      BY <3>2, <3>3 DEF BatchInOrder, Earlier
  <2> QED
    BY <2>1, <2>2
<1>2. f \in Events
  BY DEF Events
<1> QED
  BY <1>1, <1>2, EventsStay DEF Processed, Stored

LEMMA StepFinal ==
  TypeInv /\ AtHandUnprocessed /\ FinalIsComplete /\ [Next]_vars =>
    [\A d \in Deposits : Final(d) => Final(d)']_vars
<1> SUFFICES ASSUME TypeInv, AtHandUnprocessed, FinalIsComplete, [Next]_vars,
                    NEW d \in Deposits, Final(d)
             PROVE  deposits'[d] # None /\ deposits'[d].stage = Stages
  BY DEF Final
<1>1. CASE UNCHANGED deposits
  BY <1>1 DEF Final
<1>2. CASE UpsertDeposit /\ deposits' = [deposits EXCEPT ![event.deposit] = Upserted(event)]
  <2>1. CASE d # event.deposit
    BY <1>2, <2>1 DEF Final, TypeInv, TypeOK
  <2>2. CASE d = event.deposit
    <3>1. event \in DepositEvents /\ event.stage \in 1 .. Stages /\ event # None
      BY <1>2, UpsertedRow, NoneAssumption DEF Events
    <3>2. event.stage = Stages
      BY <2>2, <3>1, WebhookAssumption DEF FinalIsComplete, AtHandUnprocessed
    <3>3. deposits'[d] = Upserted(event)
      BY <1>2, <2>2 DEF TypeInv, TypeOK
    <3> QED
      BY <1>2, <3>2, <3>3, UpsertedRow
  <2> QED
    BY <2>1, <2>2
<1> QED
  BY <1>1, <1>2, DepositWriters, UpsertedRow

\* When Bridge awaits each answer and a second between the stages, and no call
\* to PostgreSQL fails, a deposit once shown as final stays so, whatever the
\* batch size and however often the server restarts.
THEOREM FinalIsFinal ==
  ASSUME InOrder, MaxFaults = 0
  PROVE  Spec => FinalStays
<1> DEFINE IInv == NoFaults /\ StoredInOrder /\ AtHandUnprocessed /\ BatchInOrder
                  /\ FinalIsComplete
<1>1. Init => IInv
  <2>1. ASSUME Init PROVE StoredInOrder /\ AtHandUnprocessed
    BY <2>1 DEF Init, StoredInOrder, AtHandUnprocessed, Stored, Events, Deliveries
  <2>2. ASSUME Init PROVE BatchInOrder /\ FinalIsComplete
    BY <2>2, NoneAssumption
    DEF Init, BatchInOrder, FinalIsComplete, Final, Events
  <2> QED
    BY <2>1, <2>2, StepNoFaults
<1>2. TypeInv /\ IInv /\ [Next]_vars => IInv'
  BY StepNoFaults, StepStoredInOrder, StepAtHandUnprocessed, StepBatchInOrder,
     StepFinalIsComplete
<1>3. TypeInv /\ IInv /\ [Next]_vars => [\A d \in Deposits : Final(d) => Final(d)']_vars
  BY StepFinal
<1> HIDE DEF IInv
<1> QED
  BY <1>1, <1>2, <1>3, TypeCorrect, PTL DEF Spec, FinalStays

=============================================================================
