------------------------ MODULE PaymentLedgerProofs -------------------------
(***************************************************************************)
(* What the payment API promises a client that awaits each answer, for     *)
(* every value of the other constants.  Whatever fails, a cancellation is  *)
(* final.  If the store works, a confirmed payment can be read.  If no     *)
(* request dies either, an intent is paid at most once, however the node's *)
(* replies are lost, and the handlers implement PaymentLedger.             *)
(***************************************************************************)
EXTENDS PaymentRefinement, PaymentIntentsProofs, FiniteSetTheorems

\* Nothing fails on the server's side.
Reliable == ~StoreFaults /\ ~Crashes

-----------------------------------------------------------------------------
(* The inductive invariant.  No two handlers of one user run at a time, so  *)
(* the one that passed the checks of an intent is the only one that writes  *)
(* its row, relays for it or records it until it answers.                   *)

OneCall ==
  \A r, q \in Requests :
    /\ step[r] \in Running /\ step[q] \in Running
    /\ call[r].user = call[q].user
    => r = q

\* Past the checks of its intent.
Working == Admitted \cup {"markCancelled"}

OwnWork == \A r \in Requests : step[r] \in Working => Owned(r)

\* What the chain and the tables hold for an intent while a handler works on it.
Knows(r, i) ==
  /\ step[r] # "insertPayment" => intents[i].status = "pending"
  /\ step[r] = "insertPayment" /\ ~StoreFaults =>
       intents[i].status = "submitted" /\ PaymentsOf(i) = {}
  /\ Reliable =>
       /\ step[r] \in {"relay", "markCancelled"} => Sent(i) = {}
       /\ step[r] \in {"await", "markSubmitted", "markFailed"} =>
            Sent(i) \subseteq {TxOf(r)}

WorksOn(r, i) == step[r] \in Working /\ call[r].intent = i

WorkKnows == \A r, i \in Requests : WorksOn(r, i) => Knows(r, i)

\* A transaction is sent for one submission, which ends the intent.
SentOnce ==
  \A i \in Requests :
    /\ \A t, u \in Sent(i) : t = u
    /\ Sent(i) # {} =>
         /\ Exists(i) /\ intents[i].status # "cancelled"
         /\ intents[i].status = "pending" => InSubmission(i) # {}

\* A payment is inserted by a request that then answers.
FreshPayments == \A p \in Requests : payments[p] # None => step[p] = "done"

CancelledHasRow ==
  \A r \in Requests : Answered(r, "cancel", "ok") =>
    call[r].intent \in Requests /\ Exists(call[r].intent)

SerialInv ==
  /\ BackedInv
  /\ OneCall /\ OwnWork /\ WorkKnows /\ FreshPayments
  /\ CancelledHasRow /\ CancelSticks
  /\ ~StoreFaults => PaymentSettlesIntent /\ ConfirmedPaymentIsReadable
  /\ Reliable => SentOnce

-----------------------------------------------------------------------------
(* Who changes what an intent's handler relies on.                          *)

\* Only its own handler moves a request that works on an intent.
LEMMA WhoMoves ==
  ASSUME TypeInv, [Next]_vars, NEW q \in Requests, step'[q] # step[q]
  PROVE  Serve(q) \/ RelayBreaks(q) \/ Crash(q) \/ \E u \in Users : Ask(q, u)
<1>1. ASSUME NEW r \in Requests, NEW next, Goto(r, next) PROVE r = q
  BY <1>1 DEF Goto, TypeInv, TypeOK
<1>2. ASSUME NEW r \in Requests, Serve(r) PROVE r = q
  BY <1>1, <1>2 DEF Serve, ReserveKey, LookupKey, InsertIntent, AdmitSubmit, Relay,
     RelayReturns, MarkSubmitted, InsertPayment, MarkFailed, CheckCancel,
     MarkCancelled, Refuse, Answer
<1>3. ASSUME NEW r \in Requests,
             RelayBreaks(r) \/ Crash(r) \/ \E u \in Users : Ask(r, u)
      PROVE  r = q
  BY <1>1, <1>3 DEF RelayBreaks, Crash, Ask, StartCreate, StartSubmit, StartCancel
<1>4. \E r \in Requests :
        Serve(r) \/ RelayBreaks(r) \/ Crash(r) \/ \E u \in Users : Ask(r, u)
  BY DEF Next, vars, Execute, ExpireKey, Tick
<1> QED
  BY <1>2, <1>3, <1>4

\* A transaction is sent by the handler that relays it, and by no other step.
LEMMA SentChanges ==
  ASSUME TypeInv, [Next]_vars, NEW i \in Requests
  PROVE  \/ Sent(i)' = Sent(i)
         \/ \E r \in Requests :
              /\ Relay(r) /\ step'[r] = "await"
              /\ call[r].intent = i
              /\ Sent(i)' = Sent(i) \cup {TxOf(r)}
<1>1. CASE UNCHANGED chain
  BY <1>1 DEF Sent
<1>2. ASSUME NEW t \in Txs, Execute(t) PROVE Sent(i)' = Sent(i)
  BY <1>2 DEF Execute, Sent, TypeInv, TypeOK
<1>3. ASSUME NEW r \in Requests, Relay(r), ~UNCHANGED chain
      PROVE  \/ Sent(i)' = Sent(i)
             \/ /\ step'[r] = "await" /\ call[r].intent = i
                /\ Sent(i)' = Sent(i) \cup {TxOf(r)}
  <2>1. /\ chain' = [chain EXCEPT ![TxOf(r)] = IF @ = "unsent" THEN "sent" ELSE @]
        /\ step' = [step EXCEPT ![r] = "await"]
    BY <1>3 DEF Relay, Goto
  <2>2. TxOf(r) \in Txs /\ TxOf(r).intent = call[r].intent
    BY <1>3, TxOfType DEF Relay, SubmitSteps, TypeInv, TxOf
  <2>3. step'[r] = "await"
    BY <2>1 DEF TypeInv, TypeOK
  <2>4. \A t \in Txs : chain'[t] # "unsent" <=> chain[t] # "unsent" \/ t = TxOf(r)
    BY <2>1, <2>2 DEF TypeInv, TypeOK
  <2>5. CASE call[r].intent = i
    BY <2>2, <2>3, <2>4, <2>5 DEF Sent
  <2>6. CASE call[r].intent # i
    BY <2>2, <2>4, <2>6 DEF Sent
  <2> QED
    BY <2>5, <2>6, <2>3
<1>4. \/ UNCHANGED chain
      \/ \E r \in Requests : Relay(r)
      \/ \E t \in Txs : Execute(t)
  BY DEF Next, Serve, Ask, vars, StartCreate, ReserveKey, LookupKey, InsertIntent,
     StartSubmit, AdmitSubmit, RelayReturns, RelayBreaks, MarkSubmitted,
     InsertPayment, MarkFailed, StartCancel, CheckCancel, MarkCancelled, Crash,
     ExpireKey, Tick
<1> QED
  BY <1>1, <1>2, <1>3, <1>4

\* The row of an intent is written by a handler that works on it.
LEMMA RowChanges ==
  ASSUME TypeInv, [Next]_vars, NEW i \in Requests, Exists(i)', FreshIds
  PROVE  \/ intents'[i] = intents[i]
         \/ InsertIntent(i) /\ ~Exists(i) /\ intents'[i] = NewIntent(i)
         \/ \E r \in Requests :
              /\ call[r].intent = i
              /\ \/ MarkSubmitted(r) /\ intents'[i].status = "submitted"
                 \/ MarkFailed(r) /\ intents'[i].status = "failed"
                 \/ MarkCancelled(r) /\ intents'[i].status = "cancelled"
<1>1. CASE UNCHANGED intents
  BY <1>1
<1>2. CASE ~Exists(i)
  BY <1>2, RowArrivals DEF TypeInv, TypeOK
<1>3. ASSUME NEW r \in Requests, InsertIntent(r), Exists(i)
      PROVE  intents'[i] = intents[i]
  BY <1>3 DEF InsertIntent, FreshIds, CreateSteps, TypeInv, TypeOK
<1>4. ASSUME NEW r \in Requests, MarkSubmitted(r) \/ MarkFailed(r) \/ MarkCancelled(r),
             ~UNCHANGED intents, intents'[i] # intents[i]
      PROVE  /\ call[r].intent = i
             /\ \/ MarkSubmitted(r) /\ intents'[i].status = "submitted"
                \/ MarkFailed(r) /\ intents'[i].status = "failed"
                \/ MarkCancelled(r) /\ intents'[i].status = "cancelled"
  <2> DEFINE j == call[r].intent
  <2>1. j \in Requests /\ Exists(j) /\ TypeOK
    BY <1>4, WrittenRowExists
  <2>2. ASSUME NEW status \in Statuses, NEW digest \in Txs \cup {None},
               UpdateIntentStatus(j, status, digest)
        PROVE  j = i /\ intents'[i].status = status
    <3>1. j = i
      BY <1>4, <2>1, <2>2, UpdateIntentStatusType
    <3> QED
      BY <2>1, <2>2, <3>1, UpdateIntentStatusRow
  <2>3. MarkFailed(r) => UpdateIntentStatus(j, "failed", None)
    BY <1>4 DEF MarkFailed
  <2>4. MarkCancelled(r) => UpdateIntentStatus(j, "cancelled", None)
    BY <1>4 DEF MarkCancelled
  <2>5. MarkSubmitted(r) => TxOf(r) \in Txs /\ UpdateIntentStatus(j, "submitted", TxOf(r))
    BY <1>4, TxOfType, <2>1 DEF MarkSubmitted, SubmitSteps
  <2> QED
    BY <1>4, <2>2, <2>3, <2>4, <2>5 DEF Statuses
<1> QED
  BY <1>1, <1>2, <1>3, <1>4, IntentWriters

-----------------------------------------------------------------------------
(* One call at a time.                                                      *)

LEMMA RunningArrivals ==
  ASSUME TypeInv, [Next]_vars, NEW q \in Requests, step'[q] \in Running
  PROVE  \/ step[q] \in Running /\ call'[q] = call[q]
         \/ \E u \in Users : Ask(q, u)
<1>1. step[q] \in Running => step[q] # "idle"
  BY DEF Running, CreateSteps, SubmitSteps, CancelSteps
<1>2. Serve(q) \/ RelayBreaks(q) => step[q] \in Running
  BY DEF Serve, ReserveKey, LookupKey, InsertIntent, AdmitSubmit, Relay,
     RelayReturns, RelayBreaks, MarkSubmitted, InsertPayment, MarkFailed,
     CheckCancel, MarkCancelled, Running, CreateSteps, SubmitSteps, CancelSteps
<1>3. ~Crash(q)
  BY DEF Crash, Goto, TypeInv, TypeOK, Running, CreateSteps, SubmitSteps, CancelSteps
<1> QED
  BY <1>1, <1>2, <1>3, WhoMoves, CallIsStable

\* The client that asks has no other call under way.
LEMMA AsksAlone ==
  ASSUME TypeInv, ~Concurrent, NEW q \in Requests, NEW u \in Users, Ask(q, u),
         NEW r \in Requests \ {q}
  PROVE  /\ step[q] = "idle" /\ call'[q].user = u
         /\ step'[r] = step[r] /\ call'[r] = call[r]
         /\ step[r] \in Running => call[r].user # u
<1>1. PICK c, next : /\ c.user = u /\ call' = [call EXCEPT ![q] = c]
                     /\ step' = [step EXCEPT ![q] = next]
                     /\ MayCall(q, u)
  BY DEF Ask, StartCreate, StartSubmit, StartCancel, Goto
<1> QED
  BY <1>1 DEF MayCall, TypeInv, TypeOK

LEMMA StepOneCall == TypeInv /\ ~Concurrent /\ OneCall /\ [Next]_vars => OneCall'
<1> SUFFICES ASSUME TypeInv, ~Concurrent, OneCall, [Next]_vars,
                    NEW r \in Requests, NEW q \in Requests, r # q,
                    step'[r] \in Running, step'[q] \in Running,
                    call'[r].user = call'[q].user
             PROVE  FALSE
  BY DEF OneCall, Running, CreateSteps, SubmitSteps, CancelSteps
<1>1. CASE step[r] \in Running /\ step[q] \in Running /\ UNCHANGED <<call[r], call[q]>>
  BY <1>1 DEF OneCall
<1>2. ASSUME NEW n \in Requests, NEW o \in Requests, n # o, NEW u \in Users, Ask(n, u),
             step'[o] \in Running, call'[n].user = call'[o].user
      PROVE  FALSE
  BY <1>2, AsksAlone
<1> QED
  BY <1>1, <1>2, RunningArrivals

\* The owner's call is the only one that works on an intent.
LEMMA Alone ==
  ASSUME OneCall, OwnWork, NEW r \in Requests, NEW q \in Requests, NEW i \in Requests,
         WorksOn(r, i), step[q] \in Running, Owned(q), call[q].intent = i
  PROVE  r = q
<1>1. step[r] \in Running
  BY DEF WorksOn, Working, Admitted, Running, SubmitSteps, CancelSteps
<1>2. call[r].user = call[q].user
  BY DEF WorksOn, OwnWork, Owned, Row
<1> QED
  BY <1>1, <1>2 DEF OneCall

-----------------------------------------------------------------------------
(* How a handler comes to work on an intent, and how it stops.              *)

LEMMA WorkArrivals ==
  ASSUME TypeInv, [Next]_vars, NEW q \in Requests,
         step'[q] \in Working, step'[q] # step[q]
  PROVE  \/ AdmitSubmit(q) /\ step'[q] = "relay" /\ Owned(q) /\ Pending(q)
         \/ CheckCancel(q) /\ step'[q] = "markCancelled" /\ Owned(q) /\ Pending(q)
         \/ Relay(q) /\ step'[q] \in {"await", "markFailed"}
         \/ RelayReturns(q) /\ step'[q] = "markSubmitted"
         \/ RelayBreaks(q) /\ step'[q] = "markFailed"
         \/ /\ MarkSubmitted(q) /\ step'[q] = "insertPayment"
            /\ StoreFaults \/ UpdateIntentStatus(call[q].intent, "submitted", TxOf(q))
<1>1. \A next : Goto(q, next) => step'[q] = next
  BY DEF Goto, TypeInv, TypeOK
<1>2. \A code : ~Refuse(q, code) /\ \A i : ~Answer(q, code, i)
  BY <1>1 DEF Refuse, Answer, Working, Admitted, SubmitSteps
<1>3. ~Crash(q) /\ ~(\E u \in Users : Ask(q, u))
  BY <1>1 DEF Crash, Ask, StartCreate, StartSubmit, StartCancel, Working, Admitted,
     SubmitSteps
<1>4. ~ReserveKey(q) /\ ~LookupKey(q) /\ ~InsertIntent(q) /\ ~InsertPayment(q)
      /\ ~MarkFailed(q) /\ ~MarkCancelled(q)
  BY <1>1, <1>2 DEF ReserveKey, LookupKey, InsertIntent, InsertPayment, MarkFailed,
     MarkCancelled, Working, Admitted, SubmitSteps
<1>5. /\ AdmitSubmit(q) => step'[q] = "relay" /\ Owned(q) /\ Pending(q)
      /\ CheckCancel(q) => step'[q] = "markCancelled" /\ Owned(q) /\ Pending(q)
      /\ Relay(q) => step'[q] \in {"await", "markFailed"}
      /\ RelayReturns(q) => step'[q] = "markSubmitted"
      /\ RelayBreaks(q) => step'[q] = "markFailed"
      /\ MarkSubmitted(q) =>
           /\ step'[q] = "insertPayment"
           /\ StoreFaults \/ UpdateIntentStatus(call[q].intent, "submitted", TxOf(q))
  BY <1>1, <1>2 DEF AdmitSubmit, CheckCancel, Relay, RelayReturns, RelayBreaks,
     MarkSubmitted
<1> QED
  BY <1>3, <1>4, <1>5, WhoMoves DEF Serve

\* A submission that ends has closed the intent, unless it never reached the
\* node.
LEMMA WorkDepartures ==
  ASSUME TypeInv, [Next]_vars, Reliable, NEW q \in Requests,
         step[q] \in Admitted, step'[q] \notin Admitted
  PROVE  \/ step[q] = "relay"
         \/ step[q] = "insertPayment"
         \/ UpdateIntentStatus(call[q].intent, "failed", None)
<1>1. \A next : Goto(q, next) => step'[q] = next
  BY DEF Goto, TypeInv, TypeOK
<1>2. Relay(q) \/ RelayReturns(q) \/ RelayBreaks(q) \/ MarkSubmitted(q)
      \/ InsertPayment(q) \/ MarkFailed(q)
  <2>1. ~Crash(q) /\ ~(\E u \in Users : Ask(q, u))
    BY DEF Reliable, Crash, Ask, StartCreate, StartSubmit, StartCancel, MayCall, Admitted,
       SubmitSteps
  <2>2. Serve(q) \/ RelayBreaks(q)
    BY <2>1, WhoMoves
  <2> QED
    BY <2>2 DEF Serve, ReserveKey, LookupKey, InsertIntent, AdmitSubmit, CheckCancel,
       MarkCancelled, Admitted, SubmitSteps
<1>3. ~RelayReturns(q) /\ ~RelayBreaks(q) /\ ~MarkSubmitted(q)
  BY <1>1 DEF RelayReturns, RelayBreaks, MarkSubmitted, Admitted, SubmitSteps
<1> QED
  BY <1>2, <1>3 DEF Relay, InsertPayment, MarkFailed, Reliable

-----------------------------------------------------------------------------
(* A step keeps the invariant.                                              *)

\* A payment row is inserted by the handler that works on its intent.
LEMMA PaymentChanges ==
  ASSUME TypeInv, [Next]_vars, FreshPayments, NEW i \in Requests
  PROVE  \/ PaymentsOf(i)' = PaymentsOf(i)
         \/ \E r \in Requests : InsertPayment(r) /\ call[r].intent = i
<1>1. CASE UNCHANGED payments
  BY <1>1 DEF PaymentsOf
<1>2. ASSUME NEW r \in Requests, InsertPayment(r), call[r].intent # i
      PROVE  PaymentsOf(i)' = PaymentsOf(i)
  <2>1. payments[r] = None
    BY <1>2 DEF InsertPayment, FreshPayments
  <2>2. \/ UNCHANGED payments
        \/ payments' = [payments EXCEPT ![r] = NewPayment(r)] /\ NewPayment(r).intent # i
    BY <1>2 DEF InsertPayment, NewPayment
  <2> QED
    BY <2>1, <2>2 DEF PaymentsOf, TypeInv, TypeOK
<1> QED
  BY <1>1, <1>2, PaymentWriters

\* What a handler asked for, and the row of the intent it asked about.
LEMMA WorkFacts ==
  ASSUME SerialInv, [Next]_vars, NEW q \in Requests,
         step[q] \in Working \cup {"admit", "check"}
  PROVE  /\ call'[q] = call[q] /\ TxOf(q)' = TxOf(q)
         /\ call[q].intent \in Requests /\ step[q] \in Running
         /\ Exists(call[q].intent) /\ SameTerms(call[q].intent)
<1>1. /\ TypeInv /\ TypeOK /\ CallsHaveRows /\ FreshIds
      /\ step[q] \in SubmitSteps \cup CancelSteps
  BY DEF SerialInv, BackedInv, HandlerInv, TypeInv, Working, Admitted, SubmitSteps, CancelSteps
<1>2. call[q].intent \in Requests /\ Exists(call[q].intent) /\ step[q] # "idle"
  BY <1>1 DEF TypeOK, CallsHaveRows, SubmitCall, CancelCall, SubmitSteps, CancelSteps
<1>3. call'[q] = call[q]
  BY <1>1, <1>2, CallIsStable
<1>4. SameTerms(call[q].intent)
  BY <1>1, <1>2, RowsAreStable
<1> QED
  BY <1>1, <1>2, <1>3, <1>4 DEF TxOf, Running

\* While a handler waits, nobody touches the intent it works on.
LEMMA IntentStays ==
  ASSUME SerialInv, [Next]_vars, NEW q \in Requests, NEW i \in Requests,
         WorksOn(q, i), step'[q] = step[q]
  PROVE  /\ intents'[i] = intents[i] /\ Sent(i)' = Sent(i)
         /\ PaymentsOf(i)' = PaymentsOf(i)
<1>1. /\ TypeInv /\ TypeOK /\ FreshIds /\ FreshPayments /\ OneCall /\ OwnWork
      /\ Owned(q) /\ step[q] \in Running /\ Exists(i) /\ Exists(i)'
  BY WorkFacts
  DEF SerialInv, BackedInv, HandlerInv, TypeInv, WorksOn, OwnWork, SameTerms, Exists
<1>2. ASSUME NEW r \in Requests, WorksOn(r, i) PROVE r = q
  BY <1>1, <1>2, Alone DEF WorksOn
<1>3. \A r \in Requests : \A next : Goto(r, next) => step'[r] = next
  BY <1>1 DEF Goto, TypeOK
<1>4. ASSUME NEW r \in Requests, call[r].intent = i
      PROVE  /\ ~MarkSubmitted(r) /\ ~MarkFailed(r) /\ ~MarkCancelled(r)
             /\ ~InsertPayment(r) /\ ~(Relay(r) /\ step'[r] = "await")
  BY <1>2, <1>3, <1>4
  DEF MarkSubmitted, MarkFailed, MarkCancelled, InsertPayment, Relay, Refuse, Answer,
      WorksOn, Working, Admitted, SubmitSteps
<1> QED
  BY <1>1, <1>4, RowChanges, SentChanges, PaymentChanges

LEMMA StepOwnWork == SerialInv /\ [Next]_vars => OwnWork'
<1> SUFFICES ASSUME SerialInv, [Next]_vars, NEW q \in Requests, step'[q] \in Working
             PROVE  Owned(q)'
  BY DEF OwnWork
<1>1. TypeInv /\ OwnWork
  BY DEF SerialInv, BackedInv, HandlerInv
<1>2. step[q] \in Working \cup {"admit", "check"} /\ Owned(q)
  BY <1>1, WorkArrivals
  DEF OwnWork, AdmitSubmit, CheckCancel, Relay, RelayReturns, RelayBreaks,
      MarkSubmitted, Working, Admitted, SubmitSteps
<1> QED
  BY <1>2, WorkFacts DEF Owned, Row, SameTerms

LEMMA StepWorkKnows == SerialInv /\ [Next]_vars => WorkKnows'
<1> SUFFICES ASSUME SerialInv, [Next]_vars,
                    NEW q \in Requests, NEW i \in Requests, WorksOn(q, i)'
             PROVE  Knows(q, i)'
  BY DEF WorkKnows
<1>1. /\ TypeInv /\ TypeOK /\ WorkKnows /\ OneCall /\ OwnWork
      /\ step'[q] \in Working /\ call'[q].intent = i
      /\ Reliable => SentOnce
      /\ ~StoreFaults => PaymentSettlesIntent
  BY DEF SerialInv, BackedInv, HandlerInv, TypeInv, WorksOn
<1>2. CASE step'[q] = step[q]
  <2>1. WorksOn(q, i) /\ TxOf(q)' = TxOf(q)
    BY <1>1, <1>2, WorkFacts DEF WorksOn
  <2>2. Knows(q, i)
    BY <1>1, <2>1 DEF WorkKnows
  <2> QED
    BY <1>2, <2>1, <2>2, IntentStays DEF Knows
<1>3. ASSUME step'[q] # step[q],
             step[q] \in Working \cup {"admit", "check"}
      PROVE  /\ call[q].intent = i /\ TxOf(q)' = TxOf(q) /\ step[q] \in Running
             /\ Exists(i)
             /\ step[q] \in Working => Knows(q, i)
  BY <1>1, <1>3, WorkFacts DEF WorkKnows, WorksOn
<1>4. ASSUME \/ AdmitSubmit(q) /\ step'[q] = "relay"
             \/ CheckCancel(q) /\ step'[q] = "markCancelled",
             Owned(q), Pending(q)
      PROVE  Knows(q, i)'
  <2>1. /\ step[q] \in {"admit", "check"} /\ UNCHANGED <<intents, chain>>
        /\ step'[q] # step[q]
    BY <1>4 DEF AdmitSubmit, CheckCancel
  <2>2. call[q].intent = i /\ step[q] \in Running
    BY <1>3, <2>1
  <2>3. InSubmission(i) = {}
    <3> SUFFICES ASSUME NEW r \in InSubmission(i) PROVE FALSE
      OBVIOUS
    <3>1. WorksOn(r, i) /\ r \in Requests
      BY DEF InSubmission, WorksOn, Working, Admitted
    <3>2. r = q
      BY <1>1, <1>4, <2>2, <3>1, Alone
    <3> QED
      BY <2>1, <3>1, <3>2 DEF WorksOn, Working, Admitted, SubmitSteps
  <2>4. intents[i].status = "pending" /\ (Reliable => Sent(i) = {})
    BY <1>1, <1>4, <2>2, <2>3 DEF SentOnce, Pending, Row
  <2> QED
    BY <1>4, <2>1, <2>4 DEF Knows, Sent
<1>5. CASE Relay(q) /\ step'[q] \in {"await", "markFailed"}
  <2>1. step[q] = "relay" /\ step[q] \in Working /\ UNCHANGED intents
    BY <1>5 DEF Relay, Working, Admitted, SubmitSteps
  <2>2. Knows(q, i) /\ TxOf(q)' = TxOf(q)
    BY <1>3, <1>5, <2>1
  <2>3. Reliable => Sent(i)' \subseteq {TxOf(q)}
    <3>1. \/ Sent(i)' = Sent(i)
          \/ \E r \in Requests :
              /\ Relay(r) /\ step'[r] = "await" /\ Sent(i)' = Sent(i) \cup {TxOf(r)}
      BY <1>1, SentChanges
    <3>2. ASSUME NEW r \in Requests, Relay(r), step'[r] = "await" PROVE r = q
      BY <1>1, <1>5, <2>1, <3>2 DEF Relay, Goto, Refuse, Answer, TypeOK
    <3> QED
      BY <2>1, <2>2, <3>1, <3>2 DEF Knows
  <2> QED
    BY <1>5, <2>1, <2>2, <2>3 DEF Knows
<1>6. CASE (RelayReturns(q) /\ step'[q] = "markSubmitted")
           \/ (RelayBreaks(q) /\ step'[q] = "markFailed")
  <2>1. step[q] = "await" /\ step[q] \in Working /\ UNCHANGED <<intents, chain>>
    BY <1>6 DEF RelayReturns, RelayBreaks, Working, Admitted, SubmitSteps
  <2>2. Knows(q, i) /\ TxOf(q)' = TxOf(q)
    BY <1>3, <1>6, <2>1
  <2> QED
    BY <1>6, <2>1, <2>2 DEF Knows, Sent
<1>7. CASE /\ MarkSubmitted(q) /\ step'[q] = "insertPayment"
           /\ StoreFaults \/ UpdateIntentStatus(call[q].intent, "submitted", TxOf(q))
  <2>1. step[q] = "markSubmitted" /\ step[q] \in Working /\ UNCHANGED payments
    BY <1>7 DEF MarkSubmitted, Working, Admitted, SubmitSteps
  <2>2. Knows(q, i) /\ call[q].intent = i /\ TxOf(q) \in Txs /\ Exists(i)
    BY <1>1, <1>3, <1>7, <2>1, TxOfType DEF SubmitSteps
  <2>3. ~StoreFaults => PaymentsOf(i)' = {}
    BY <1>1, <2>1, <2>2 DEF Knows, PaymentSettlesIntent, PaymentsOf
  <2>4. ~StoreFaults => intents'[i].status = "submitted"
    BY <1>1, <1>7, <2>2, UpdateIntentStatusRow DEF Statuses
  <2> QED
    BY <1>7, <2>3, <2>4 DEF Knows
<1> QED
  BY <1>1, <1>2, <1>4, <1>5, <1>6, <1>7, WorkArrivals

\* Rows are written while they are pending only.
LEMMA ClosedRowStays ==
  ASSUME SerialInv, [Next]_vars, NEW i \in Requests, Exists(i),
         intents[i].status # "pending"
  PROVE  intents'[i] = intents[i]
<1>1. TypeInv /\ FreshIds /\ WorkKnows
  BY DEF SerialInv, BackedInv, HandlerInv
<1>2. Exists(i)'
  BY <1>1, RowsAreStable DEF SameTerms, Exists
<1>3. ASSUME NEW r \in Requests, call[r].intent = i
      PROVE  ~MarkSubmitted(r) /\ ~MarkFailed(r) /\ ~MarkCancelled(r)
  BY <1>1, <1>3
  DEF WorkKnows, WorksOn, Knows, MarkSubmitted, MarkFailed, MarkCancelled, Working,
      Admitted, SubmitSteps
<1> QED
  BY <1>1, <1>2, <1>3, RowChanges

LEMMA StepSentOnce == SerialInv /\ Reliable /\ [Next]_vars => SentOnce'
<1> SUFFICES ASSUME SerialInv, Reliable, [Next]_vars, NEW i \in Requests
             PROVE  /\ \A t, u \in Sent(i)' : t = u
                    /\ Sent(i)' # {} =>
                         /\ Exists(i)' /\ intents'[i].status # "cancelled"
                         /\ intents'[i].status = "pending" => InSubmission(i)' # {}
  BY DEF SentOnce
<1>1. TypeInv /\ TypeOK /\ FreshIds /\ WorkKnows /\ SentOnce /\ Reliable
  BY DEF SerialInv, BackedInv, HandlerInv, TypeInv
<1>2. ASSUME NEW r \in Requests, step[r] \in Working \cup {"admit", "check"},
             call[r].intent = i
      PROVE  call'[r].intent = i /\ Exists(i) /\ Exists(i)'
  BY <1>2, WorkFacts DEF SameTerms, Exists
<1>3. CASE Sent(i)' = Sent(i)
  <2> SUFFICES ASSUME Sent(i) # {}
               PROVE  /\ Exists(i)' /\ intents'[i].status # "cancelled"
                      /\ intents'[i].status = "pending" => InSubmission(i)' # {}
    BY <1>1, <1>3 DEF SentOnce
  <2>1. /\ Exists(i) /\ intents[i].status # "cancelled"
        /\ intents[i].status = "pending" => InSubmission(i) # {}
    BY <1>1 DEF SentOnce
  <2>2. SameTerms(i) /\ Exists(i)'
    BY <1>1, <2>1, RowsAreStable DEF SameTerms, Exists
  <2>3. ASSUME intents'[i].status = "cancelled" PROVE FALSE
    <3>1. PICK r \in Requests : call[r].intent = i /\ MarkCancelled(r)
      BY <1>1, <2>1, <2>2, <2>3, RowChanges
    <3>2. Sent(i) = {}
      BY <1>1, <3>1 DEF MarkCancelled, WorkKnows, WorksOn, Knows, Working
    <3> QED
      BY <3>2
  <2>4. ASSUME intents'[i].status = "pending" PROVE InSubmission(i)' # {}
    <3>1. PICK r \in InSubmission(i) : TRUE
      BY <2>1, <2>2, <2>4 DEF SameTerms
    <3>2. r \in Requests /\ step[r] \in Admitted /\ call[r].intent = i
      BY DEF InSubmission, Admitted
    <3>3. Knows(r, i)
      BY <1>1, <3>2 DEF WorkKnows, WorksOn, Working
    <3>4. step[r] # "relay" /\ step[r] # "insertPayment"
      BY <2>2, <2>4, <3>3 DEF Knows, SameTerms, Reliable
    <3>5. ~UpdateIntentStatus(i, "failed", None)
      BY <1>1, <2>1, <2>4, UpdateIntentStatusRow DEF Statuses
    <3>6. step'[r] \in Admitted
      BY <1>1, <3>2, <3>4, <3>5, WorkDepartures
    <3> QED
      BY <1>2, <3>2, <3>6 DEF InSubmission, Admitted, Working
  <2> QED
    BY <2>2, <2>3, <2>4
<1>4. ASSUME NEW r \in Requests, Relay(r), step'[r] = "await", call[r].intent = i,
             Sent(i)' = Sent(i) \cup {TxOf(r)}
      PROVE  /\ \A t, u \in Sent(i)' : t = u
             /\ Exists(i)' /\ intents'[i].status # "cancelled"
             /\ InSubmission(i)' # {}
  <2>1. step[r] = "relay" /\ step[r] \in Working /\ UNCHANGED intents
    BY <1>4 DEF Relay, Working, Admitted, SubmitSteps
  <2>2. Knows(r, i)
    BY <1>1, <1>4, <2>1 DEF WorkKnows, WorksOn
  <2>3. Sent(i)' = {TxOf(r)}
    BY <1>4, <2>1, <2>2 DEF Knows
  <2>4. intents'[i].status = "pending"
    BY <2>1, <2>2 DEF Knows
  <2>5. r \in InSubmission(i)' /\ Exists(i)'
    BY <1>2, <1>4, <2>1 DEF InSubmission, SubmitSteps
  <2> QED
    BY <2>3, <2>4, <2>5
<1> QED
  BY <1>1, <1>3, <1>4, SentChanges

\* A handler that answered is through.
LEMMA DoneIsFinal ==
  ASSUME TypeInv, [Next]_vars, NEW q \in Requests, step[q] = "done"
  PROVE  step'[q] = "done"
<1>1. ~Serve(q) /\ ~RelayBreaks(q) /\ ~Crash(q)
  BY DEF Serve, ReserveKey, LookupKey, InsertIntent, AdmitSubmit, Relay,
     RelayReturns, RelayBreaks, MarkSubmitted, InsertPayment, MarkFailed,
     CheckCancel, MarkCancelled, Crash, Running, CreateSteps, SubmitSteps, CancelSteps
<1>2. ~(\E u \in Users : Ask(q, u))
  BY DEF Ask, StartCreate, StartSubmit, StartCancel, MayCall
<1> QED
  BY <1>1, <1>2, WhoMoves

LEMMA StepFreshPayments == SerialInv /\ [Next]_vars => FreshPayments'
<1> SUFFICES ASSUME SerialInv, [Next]_vars, NEW p \in Requests, payments'[p] # None
             PROVE  step'[p] = "done"
  BY DEF FreshPayments
<1>1. TypeInv /\ FreshPayments
  BY DEF SerialInv, BackedInv, HandlerInv
<1>2. CASE payments[p] # None
  BY <1>1, <1>2, DoneIsFinal DEF FreshPayments
<1>3. CASE InsertPayment(p)
  BY <1>1, <1>3 DEF InsertPayment, Answer, Goto, TypeInv, TypeOK
<1> QED
  BY <1>1, <1>2, <1>3, PaymentArrivals

LEMMA StepCancelled ==
  SerialInv /\ [Next]_vars => (CancelledHasRow /\ CancelSticks)'
<1> SUFFICES ASSUME SerialInv, [Next]_vars, NEW q \in Requests,
                    Answered(q, "cancel", "ok")'
             PROVE  (/\ call[q].intent \in Requests /\ Exists(call[q].intent)
                     /\ intents[call[q].intent].status = "cancelled")'
  BY DEF CancelledHasRow, CancelSticks
<1> DEFINE i == call[q].intent
<1>1. /\ TypeInv /\ TypeOK /\ FreshIds /\ RepliesAreFinal
      /\ CancelledHasRow /\ CancelSticks
      /\ reply'[q] # None /\ call'[q].op = "cancel" /\ reply'[q].code = "ok"
  BY DEF SerialInv, BackedInv, HandlerInv, TypeInv, Answered
<1>2. /\ step[q] # "idle" /\ call'[q] = call[q]
      /\ \/ reply'[q] = reply[q] /\ step[q] = "done"
         \/ step[q] \in CreateSteps \cup CancelSteps
         \/ InsertPayment(q)
  BY <1>1, ReplyArrivals, CallIsStable
<1>3. step[q] \notin CreateSteps /\ ~InsertPayment(q)
  BY <1>1, <1>2 DEF TypeOK, CreateCall, SubmitCall, InsertPayment, SubmitSteps
<1>4. i \in Requests /\ intents'[i] # None /\ intents'[i].status = "cancelled"
  <2>1. CASE reply'[q] = reply[q]
    <3>1. i \in Requests /\ Exists(i) /\ intents[i].status = "cancelled"
      BY <1>1, <1>2, <2>1 DEF CancelledHasRow, CancelSticks, Answered
    <3> QED
      BY <3>1, ClosedRowStays DEF Exists
  <2>2. CASE step[q] \in CancelSteps /\ reply'[q] # reply[q]
    <3>1. CheckCancel(q) \/ MarkCancelled(q)
      BY <1>1, <2>2, WhoReplies
      DEF Serve, CancelSteps, ReserveKey, LookupKey, InsertIntent, AdmitSubmit, Relay,
          RelayReturns, MarkSubmitted, InsertPayment, MarkFailed
    <3>2. ~CheckCancel(q)
      BY <1>1, <2>2 DEF CheckCancel, Refuse, Answer, TypeOK
    <3>3. UpdateIntentStatus(i, "cancelled", None)
      BY <1>1, <2>2, <3>1, <3>2 DEF MarkCancelled, Refuse, Answer, TypeOK
    <3>4. i \in Requests /\ Exists(i)
      BY <1>1, <3>1, <3>2, WrittenRowExists
    <3> QED
      BY <1>1, <3>3, <3>4, UpdateIntentStatusRow DEF Statuses, Exists
  <2> QED
    BY <1>2, <1>3, <2>1, <2>2
<1> QED
  BY <1>2, <1>4 DEF Exists

LEMMA StepReadable ==
  SerialInv /\ ~StoreFaults /\ [Next]_vars => ConfirmedPaymentIsReadable'
<1> SUFFICES ASSUME SerialInv, ~StoreFaults, [Next]_vars, NEW q \in Requests,
                    Answered(q, "submit", "ok")'
             PROVE  payments'[q] # None /\ payments'[q].user = call'[q].user
  BY DEF ConfirmedPaymentIsReadable, GetPayment
<1>1. /\ TypeInv /\ TypeOK /\ RepliesAreFinal /\ WorkKnows
      /\ ConfirmedPaymentIsReadable
      /\ reply'[q] # None /\ call'[q].op = "submit" /\ reply'[q].code = "ok"
  BY DEF SerialInv, BackedInv, HandlerInv, TypeInv, Answered
<1>2. /\ step[q] # "idle" /\ call'[q] = call[q]
      /\ \/ reply'[q] = reply[q] /\ step[q] = "done"
         \/ step[q] \in CreateSteps \cup CancelSteps
         \/ InsertPayment(q)
  BY <1>1, ReplyArrivals, CallIsStable
<1>3. step[q] \notin CreateSteps \cup CancelSteps
  BY <1>1, <1>2 DEF TypeOK, CreateCall, CancelCall
<1>4. CASE InsertPayment(q)
  <2>1. step[q] = "insertPayment" /\ call[q].intent \in Requests
    BY <1>1, <1>4, TxOfType DEF InsertPayment, SubmitSteps
  <2>2. PaymentsOf(call[q].intent) = {}
    BY <1>1, <2>1 DEF WorkKnows, WorksOn, Knows, Working, Admitted, SubmitSteps
  <2>3. payments'[q] = NewPayment(q)
    BY <1>1, <1>4, <2>2 DEF InsertPayment, TypeOK
  <2>4. NewPayment(q) \in Payment
    BY <1>1, <2>1, TxOfType DEF NewPayment, Payment, SubmitCall, SubmitSteps
  <2> QED
    BY <1>2, <2>3, <2>4, NoneAssumption DEF NewPayment
<1>5. CASE reply'[q] = reply[q] /\ step[q] = "done"
  <2>1. payments[q] # None /\ payments[q].user = call[q].user
    BY <1>1, <1>2, <1>5 DEF ConfirmedPaymentIsReadable, GetPayment, Answered
  <2>2. payments'[q] = payments[q]
    <3>1. ASSUME NEW r \in Requests, InsertPayment(r) PROVE payments'[q] = payments[q]
      BY <1>1, <1>5, <3>1 DEF InsertPayment, TypeOK
    <3> QED
      BY <3>1, PaymentWriters
  <2> QED
    BY <1>2, <2>1, <2>2
<1> QED
  BY <1>2, <1>3, <1>4, <1>5

LEMMA InitSerialInv == Init => SerialInv
<1> SUFFICES ASSUME Init PROVE SerialInv
  OBVIOUS
<1>1. BackedInv /\ PaymentSettlesIntent
  BY BackedInvInit DEF Init, PaymentSettlesIntent, PaymentsOf
<1>2. OneCall /\ OwnWork /\ WorkKnows
  BY DEF Init, OneCall, OwnWork, WorkKnows, WorksOn, Working, Admitted, Running,
     CreateSteps, SubmitSteps, CancelSteps
<1>3. SentOnce
  BY DEF Init, SentOnce, Sent
<1>4. /\ FreshPayments /\ CancelledHasRow /\ CancelSticks /\ ConfirmedPaymentIsReadable
  BY DEF Init, FreshPayments, CancelledHasRow, CancelSticks, ConfirmedPaymentIsReadable,
     Answered
<1> QED
  BY <1>1, <1>2, <1>3, <1>4 DEF SerialInv

LEMMA StepSerialInv == SerialInv /\ ~Concurrent /\ [Next]_vars => SerialInv'
<1> SUFFICES ASSUME SerialInv, ~Concurrent, [Next]_vars PROVE SerialInv'
  OBVIOUS
<1>1. BackedInv' /\ (~StoreFaults => PaymentSettlesIntent')
  BY BackedInvStep, StepSettles DEF SerialInv, BackedInv
<1>2. OneCall'
  BY StepOneCall DEF SerialInv, BackedInv, HandlerInv
<1> QED
  BY <1>1, <1>2, StepOwnWork, StepWorkKnows, StepSentOnce, StepFreshPayments,
     StepCancelled, StepReadable
  DEF SerialInv

-----------------------------------------------------------------------------
(* The promises.                                                            *)

\* A client that awaits each answer pays an intent with one transaction at most:
\* an ambiguous answer of the node closes the intent before it may try again.
\* A status that is not written, or a handler that dies before it writes it,
\* would leave the intent open.
THEOREM PaidOnce ==
  ASSUME ~Concurrent, ~StoreFaults, ~Crashes
  PROVE  Spec => []PaidAtMostOnce
<1>1. SerialInv => PaidAtMostOnce
  <2> SUFFICES ASSUME SerialInv, Reliable, NEW i \in Requests
               PROVE  Cardinality(Sent(i)) <= 1
    BY DEF PaidAtMostOnce, Reliable
  <2>1. Sent(i) = {} \/ \E t : Sent(i) = {t}
    BY DEF SerialInv, SentOnce
  <2>2. CASE Sent(i) = {}
    BY <2>2, FS_EmptySet
  <2>3. ASSUME NEW t, Sent(i) = {t} PROVE Cardinality(Sent(i)) <= 1
    <3>1. Cardinality({t}) = 1
      BY FS_Singleton
    <3> QED
      BY <2>3, <3>1
  <2> QED
    BY <2>1, <2>2, <2>3
<1>2. SerialInv /\ [Next]_vars => SerialInv'
  BY StepSerialInv
<1> QED
  BY InitSerialInv, <1>1, <1>2, PTL DEF Spec

\* For a client that awaits each answer, an intent whose cancellation was
\* confirmed stays cancelled, whatever else fails or dies.
THEOREM CancellationSticks ==
  ASSUME ~Concurrent
  PROVE  Spec => []CancelSticks
<1>1. SerialInv => CancelSticks
  BY DEF SerialInv
<1>2. SerialInv /\ [Next]_vars => SerialInv'
  BY StepSerialInv
<1> QED
  BY InitSerialInv, <1>1, <1>2, PTL DEF Spec

\* For a client that awaits each answer, and with a reliable store, a confirmed
\* submission names a payment that its user can read.
THEOREM ConfirmedIsReadable ==
  ASSUME ~Concurrent, ~StoreFaults
  PROVE  Spec => []ConfirmedPaymentIsReadable
<1>1. SerialInv => ConfirmedPaymentIsReadable
  BY DEF SerialInv
<1>2. SerialInv /\ [Next]_vars => SerialInv'
  BY StepSerialInv
<1> QED
  BY InitSerialInv, <1>1, <1>2, PTL DEF Spec

-----------------------------------------------------------------------------
(* The handlers implement the ledger.                                       *)

LedgerStatus  == [i \in Requests |-> StatusOf(i)]
LedgerMoved   == [i \in Requests |-> MovedFor(i)]
LedgerReceipt == [i \in Requests |-> ReceiptOf(i)]

LedgerStep == Ledger!Next \/ UNCHANGED <<LedgerStatus, LedgerMoved, LedgerReceipt>>

\* What the ledger reads of the tables and of the chain.
LEMMA StatusStays == UNCHANGED intents => UNCHANGED LedgerStatus
  BY DEF LedgerStatus, StatusOf, Exists

LEMMA MovedStays ==
  ASSUME \A t \in Txs : Executed(t)' <=> Executed(t)
  PROVE  UNCHANGED LedgerMoved
  BY DEF LedgerMoved, MovedFor

LEMMA SameChain == UNCHANGED chain => UNCHANGED LedgerMoved
  BY MovedStays DEF Executed

LEMMA ReceiptStays == UNCHANGED payments => UNCHANGED LedgerReceipt
  BY DEF LedgerReceipt, ReceiptOf, PaymentsOf

LEMMA Stutter ==
  UNCHANGED <<intents, payments, chain>> => LedgerStep
  BY StatusStays, SameChain, ReceiptStays DEF LedgerStep

\* A status that changes is a move of the ledger.
LEMMA StatusMoves ==
  ASSUME NEW i \in Requests, NEW from, NEW to,
         StatusOf(i) = from, StatusOf(i)' = to,
         \A j \in Requests \ {i} : intents'[j] = intents[j],
         UNCHANGED <<chain, payments>>
  PROVE  Ledger!End(i, from, to)
<1>1. LedgerStatus[i] = from
  BY DEF LedgerStatus
<1>2. LedgerStatus' = [LedgerStatus EXCEPT ![i] = to]
  BY DEF LedgerStatus, StatusOf, Exists
<1>3. UNCHANGED <<LedgerMoved, LedgerReceipt>>
  BY SameChain, ReceiptStays
<1> QED
  BY <1>1, <1>2, <1>3 DEF Ledger!End, LedgerStatus, LedgerMoved, LedgerReceipt

LEMMA InsertImplements ==
  ASSUME SerialInv, NEW r \in Requests, InsertIntent(r)
  PROVE  LedgerStep
<1>1. TypeOK /\ FreshIds /\ UNCHANGED <<chain, payments>>
  BY DEF SerialInv, BackedInv, HandlerInv, TypeInv, InsertIntent
<1>2. CASE UNCHANGED intents
  BY <1>1, <1>2, Stutter
<1>3. CASE Accepted(r) /\ intents' = [intents EXCEPT ![r] = NewIntent(r)]
  <2>1. NewIntent(r) # None /\ StatusOf(r) = "none"
    BY <1>1, <1>3, NewIntentType DEF InsertIntent, CreateSteps, FreshIds, StatusOf
  <2>2. intents'[r] = NewIntent(r) /\ \A j \in Requests \ {r} : intents'[j] = intents[j]
    BY <1>1, <1>3 DEF TypeOK
  <2>3. StatusOf(r)' = "pending"
    BY <2>1, <2>2 DEF StatusOf, Exists, NewIntent
  <2>4. Ledger!Open(r)
    BY <1>1, <2>1, <2>2, <2>3, StatusMoves DEF Ledger!Open
  <2> QED
    BY <2>4 DEF LedgerStep, Ledger!Next
<1> QED
  BY <1>2, <1>3 DEF InsertIntent

\* Settling, failing and cancelling.
LEMMA CloseImplements ==
  ASSUME SerialInv, Reliable, NEW r \in Requests,
         MarkSubmitted(r) \/ MarkFailed(r) \/ MarkCancelled(r)
  PROVE  LedgerStep
<1>1. TypeInv /\ TypeOK /\ RepliesAreReal /\ WorkKnows /\ UNCHANGED <<chain, payments>>
  BY DEF SerialInv, BackedInv, HandlerInv, TypeInv, MarkSubmitted, MarkFailed, MarkCancelled
<1>2. PICK i \in Requests : i = call[r].intent /\ Exists(i)
  BY <1>1, WrittenRowExists
<1>3. WorksOn(r, i) /\ Knows(r, i) /\ StatusOf(i) = "pending"
  BY <1>1, <1>2
  DEF WorkKnows, WorksOn, Knows, StatusOf, Working, Admitted, SubmitSteps,
      MarkSubmitted, MarkFailed, MarkCancelled
<1>4. ASSUME NEW status \in Statuses, NEW digest \in Txs \cup {None},
             UpdateIntentStatus(i, status, digest)
      PROVE  Ledger!End(i, "pending", status)
  <2>1. StatusOf(i)' = status
    BY <1>1, <1>2, <1>4, UpdateIntentStatusRow DEF StatusOf
  <2>2. \A j \in Requests \ {i} : intents'[j] = intents[j]
    BY <1>1, <1>2, <1>4, UpdateIntentStatusType
  <2> QED
    BY <1>1, <1>3, <2>1, <2>2, StatusMoves
<1>5. CASE MarkSubmitted(r)
  <2>1. TxOf(r) \in Txs /\ UpdateIntentStatus(i, "submitted", TxOf(r))
    BY <1>1, <1>2, <1>5, TxOfType DEF MarkSubmitted, SubmitSteps, Reliable
  <2>2. Executed(TxOf(r)) /\ TxOf(r).intent = i
    BY <1>1, <1>2, <1>5 DEF RepliesAreReal, MarkSubmitted, TxOf
  <2>3. LedgerMoved[i] # {}
    BY <2>1, <2>2 DEF LedgerMoved, MovedFor
  <2>4. Ledger!Settle(i)
    BY <1>4, <2>1, <2>3 DEF Ledger!Settle, LedgerMoved, Statuses
  <2> QED
    BY <2>4 DEF LedgerStep, Ledger!Next
<1>6. CASE MarkFailed(r)
  <2>1. UpdateIntentStatus(i, "failed", None)
    BY <1>2, <1>6 DEF MarkFailed, Reliable
  <2>2. Ledger!Fail(i)
    BY <1>4, <2>1 DEF Ledger!Fail, Statuses
  <2> QED
    BY <2>2 DEF LedgerStep, Ledger!Next
<1>7. CASE MarkCancelled(r)
  <2>1. UpdateIntentStatus(i, "cancelled", None)
    BY <1>2, <1>7 DEF MarkCancelled, Reliable
  <2>2. Sent(i) = {}
    BY <1>3, <1>7 DEF MarkCancelled, Knows
  <2>3. LedgerMoved[i] = {}
    BY <2>2 DEF LedgerMoved, MovedFor, Sent, Executed
  <2>4. Ledger!Cancel(i)
    BY <1>4, <2>1, <2>3 DEF Ledger!Cancel, LedgerMoved, Statuses
  <2> QED
    BY <2>4 DEF LedgerStep, Ledger!Next
<1> QED
  BY <1>5, <1>6, <1>7

\* Money moves for an intent that nobody closed otherwise, and once.
LEMMA ExecuteImplements ==
  ASSUME SerialInv, Reliable, NEW t \in Txs, Execute(t)
  PROVE  LedgerStep
<1>1. /\ TypeOK /\ SentOnce /\ SubmittedBackedByChain
      /\ UNCHANGED <<intents, payments>>
  BY DEF SerialInv, BackedInv, HandlerInv, TypeInv, Execute
<1>2. PICK i \in Requests : i = t.intent
  BY DEF Txs
<1>3. t \in Sent(i) /\ ~Executed(t)
  BY <1>2 DEF Sent, Executed, Execute
<1>4. \A u \in Sent(i) : u = t
  BY <1>1, <1>3 DEF SentOnce
<1>5. MovedFor(i) = {}
  BY <1>3, <1>4 DEF MovedFor, Sent, Executed
<1>6. StatusOf(i) \in {"pending", "failed"}
  <2>1. Exists(i) /\ intents[i] \in Intent /\ intents[i].status # "cancelled"
    BY <1>1, <1>3 DEF SentOnce, TypeOK, Exists
  <2>2. ASSUME intents[i].status = "submitted" PROVE FALSE
    <3> DEFINE d == intents[i].digest
    <3>1. d # None /\ Executed(d) /\ d.intent = i
      BY <1>1, <2>1, <2>2 DEF SubmittedBackedByChain
    <3>2. d \in Txs
      BY <2>1, <3>1 DEF Intent
    <3>3. d \in Sent(i)
      BY <3>1, <3>2 DEF Sent, Executed
    <3> QED
      BY <1>3, <1>4, <3>1, <3>3
  <2> QED
    BY <2>1, <2>2 DEF StatusOf, Intent, Statuses
<1>7. \A u \in Txs : Executed(u)' <=> Executed(u) \/ u = t
  BY <1>1 DEF Execute, Executed, TypeOK
<1>8. \A j \in Requests : MovedFor(j)' = IF j = i THEN {t} ELSE MovedFor(j)
  BY <1>2, <1>5, <1>7 DEF MovedFor
<1>9. LedgerMoved' = [LedgerMoved EXCEPT ![i] = {t}]
  BY <1>8 DEF LedgerMoved
<1>10. /\ LedgerStatus[i] \in {"pending", "failed"} /\ LedgerMoved[i] = {}
       /\ UNCHANGED <<LedgerStatus, LedgerReceipt>>
  BY <1>1, <1>5, <1>6, StatusStays, ReceiptStays DEF LedgerStatus, LedgerMoved
<1>11. Ledger!Move(i, t)
  BY <1>9, <1>10 DEF Ledger!Move, LedgerStatus, LedgerMoved, LedgerReceipt
<1> QED
  BY <1>11 DEF LedgerStep, Ledger!Next

\* The receipt is for the money that moved.
LEMMA RecordImplements ==
  ASSUME SerialInv, Reliable, NEW r \in Requests, InsertPayment(r)
  PROVE  LedgerStep
<1>1. /\ TypeInv /\ TypeOK /\ RepliesAreReal /\ WorkKnows /\ FreshPayments
      /\ UNCHANGED <<chain, intents>> /\ step[r] = "insertPayment"
  BY DEF SerialInv, BackedInv, HandlerInv, TypeInv, InsertPayment
<1>2. PICK i \in Requests : i = call[r].intent /\ Exists(i)
  BY <1>1, TxOfType DEF TypeInv, CallsHaveRows, SubmitSteps
<1>3. /\ intents[i].status = "submitted" /\ PaymentsOf(i) = {}
      /\ payments[r] = None /\ Executed(TxOf(r)) /\ TxOf(r) \in Txs /\ TxOf(r).intent = i
  <2>1. Knows(r, i)
    BY <1>1, <1>2 DEF WorkKnows, WorksOn, Working, Admitted, SubmitSteps
  <2>2. TxOf(r) \in Txs /\ TxOf(r).intent = i
    BY <1>1, <1>2, TxOfType DEF TxOf, SubmitSteps
  <2> QED
    BY <1>1, <2>1, <2>2 DEF Knows, FreshPayments, RepliesAreReal, Reliable
<1>4. /\ payments'[r] = NewPayment(r) /\ NewPayment(r).intent = i
      /\ NewPayment(r).digest = TxOf(r) /\ NewPayment(r) # None
      /\ \A p \in Requests \ {r} : payments'[p] = payments[p]
  <2>1. payments' = [payments EXCEPT ![r] = NewPayment(r)]
    BY <1>2, <1>3 DEF InsertPayment, Reliable
  <2>2. NewPayment(r) \in Payment
    BY <1>1, <1>2, <1>3, TxOfType DEF NewPayment, Payment, SubmitCall, SubmitSteps
  <2> QED
    BY <1>1, <1>2, <2>1, <2>2, NoneAssumption DEF NewPayment, TypeOK
<1>5. ReceiptOf(i)' = TxOf(r) /\ ReceiptOf(i) = None
  <2>1. PaymentsOf(i)' = {r}
    BY <1>3, <1>4 DEF PaymentsOf
  <2>2. (CHOOSE p \in {r} : TRUE) = r
    OBVIOUS
  <2> QED
    BY <1>3, <1>4, <2>1, <2>2 DEF ReceiptOf
<1>6. ASSUME NEW j \in Requests \ {i} PROVE ReceiptOf(j)' = ReceiptOf(j)
  <2>1. PaymentsOf(j)' = PaymentsOf(j) /\ r \notin PaymentsOf(j)
    BY <1>3, <1>4 DEF PaymentsOf
  <2>2. CASE PaymentsOf(j) = {}
    BY <2>1, <2>2 DEF ReceiptOf
  <2>3. CASE PaymentsOf(j) # {}
    <3> DEFINE p == CHOOSE p \in PaymentsOf(j) : TRUE
    <3>1. p \in PaymentsOf(j)
      BY <2>3
    <3>2. payments'[p] = payments[p]
      BY <1>4, <2>1, <3>1 DEF PaymentsOf
    <3> QED
      BY <2>1, <2>3, <3>2 DEF ReceiptOf
  <2> QED
    BY <2>2, <2>3
<1>7. LedgerReceipt' = [LedgerReceipt EXCEPT ![i] = TxOf(r)]
  BY <1>5, <1>6 DEF LedgerReceipt
<1>8. /\ LedgerStatus[i] = "submitted" /\ LedgerReceipt[i] = None
      /\ TxOf(r) \in LedgerMoved[i] /\ UNCHANGED <<LedgerStatus, LedgerMoved>>
  BY <1>1, <1>2, <1>3, <1>5, StatusStays, SameChain
  DEF LedgerStatus, LedgerReceipt, LedgerMoved, MovedFor, StatusOf
<1>9. Ledger!Record(i)
  BY <1>7, <1>8 DEF Ledger!Record, LedgerStatus, LedgerMoved, LedgerReceipt
<1> QED
  BY <1>9 DEF LedgerStep, Ledger!Next

\* Sending a transaction moves no money yet.
LEMMA RelayImplements ==
  ASSUME TypeInv, NEW r \in Requests, Relay(r)
  PROVE  LedgerStep
<1>1. \A t \in Txs : Executed(t)' <=> Executed(t)
  BY DEF Relay, Executed, TypeInv, TypeOK
<1> QED
  BY <1>1, StatusStays, MovedStays, ReceiptStays DEF Relay, LedgerStep

LEMMA StepImplements ==
  ASSUME SerialInv, Reliable, [Next]_vars
  PROVE  LedgerStep
<1>1. ASSUME NEW r \in Requests, Serve(r) PROVE LedgerStep
  <2>1. CASE ReserveKey(r) \/ LookupKey(r) \/ AdmitSubmit(r) \/ RelayReturns(r) \/ CheckCancel(r)
    BY <2>1, Stutter DEF ReserveKey, LookupKey, AdmitSubmit, RelayReturns, CheckCancel
  <2>2. CASE Relay(r)
    BY <2>2, RelayImplements DEF SerialInv, BackedInv, HandlerInv
  <2> QED
    BY <1>1, <2>1, <2>2, InsertImplements, CloseImplements, RecordImplements DEF Serve
<1>2. ASSUME NEW t \in Txs, Execute(t) PROVE LedgerStep
  BY <1>2, ExecuteImplements
<1>3. CASE \/ \E r \in Requests : RelayBreaks(r) \/ Crash(r)
           \/ \E r \in Requests, u \in Users : Ask(r, u)
           \/ \E k \in Keys : ExpireKey(k)
           \/ Tick \/ UNCHANGED vars
  BY <1>3, Stutter DEF RelayBreaks, Crash, Ask, StartCreate, StartSubmit, StartCancel,
     ExpireKey, Tick, vars
<1> QED
  BY <1>1, <1>2, <1>3 DEF Next

\* With clients that await each answer, a reliable store and no request that
\* dies, every behaviour of the handlers is one of the ledger: an intent ends once,
\* money moves for it at most once and never after a cancellation, and the
\* receipt names the transaction that moved it.
THEOREM LedgerIsImplemented ==
  ASSUME ~Concurrent, ~StoreFaults, ~Crashes
  PROVE  Spec => ImplementsLedger
<1>1. Init => Ledger!Init
  BY DEF Init, Ledger!Init, StatusOf, MovedFor, ReceiptOf, Exists, Executed, PaymentsOf
<1>2. SerialInv /\ [Next]_vars => SerialInv'
  BY StepSerialInv
<1>3. SerialInv /\ [Next]_vars => [Ledger!Next]_(Ledger!vars)
  <2>1. SerialInv /\ [Next]_vars => LedgerStep
    BY StepImplements DEF Reliable
  <2>2. UNCHANGED <<LedgerStatus, LedgerMoved, LedgerReceipt>> => UNCHANGED Ledger!vars
    BY DEF Ledger!vars, LedgerStatus, LedgerMoved, LedgerReceipt
  <2> QED
    BY <2>1, <2>2 DEF LedgerStep
<1> QED
  BY InitSerialInv, <1>1, <1>2, <1>3, PTL DEF Spec, ImplementsLedger, Ledger!Spec

=============================================================================
