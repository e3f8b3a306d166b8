------------------------ MODULE PaymentIntentsProofs ------------------------
(***************************************************************************)
(* Proofs about PaymentIntents, for every value of the constants: any      *)
(* number of requests, users, keys and transactions, and every combination *)
(* of concurrency, faults and crashes.                                     *)
(***************************************************************************)
EXTENDS PaymentIntents, TLAPS

\* The start of a request, of any kind: a call of that kind, and nothing else.
LEMMA AskTypeOK ==
  ASSUME TypeOK, NEW r \in Requests, NEW u \in Users, Ask(r, u)
  PROVE  TypeOK'
<1>1. CASE StartCreate(r, u)
  <2>1. PICK c \in CreateCall : call' = [call EXCEPT ![r] = c]
    BY <1>1 DEF StartCreate
  <2>2. step' = [step EXCEPT ![r] = "reserve"]
    BY <1>1 DEF StartCreate, Goto
  <2> QED
    BY <1>1, <2>1, <2>2, NoneAssumption
    DEF TypeOK, StartCreate, Running, CreateSteps, SubmitSteps, CancelSteps
<1>2. CASE StartSubmit(r, u)
  <2>1. PICK c \in SubmitCall : call' = [call EXCEPT ![r] = c]
    BY <1>2 DEF StartSubmit
  <2>2. step' = [step EXCEPT ![r] = "admit"]
    BY <1>2 DEF StartSubmit, Goto
  <2> QED
    BY <1>2, <2>1, <2>2, NoneAssumption
    DEF TypeOK, StartSubmit, Running, CreateSteps, SubmitSteps, CancelSteps
<1>3. CASE StartCancel(r, u)
  <2>1. PICK c \in CancelCall : call' = [call EXCEPT ![r] = c]
    BY <1>3 DEF StartCancel
  <2>2. step' = [step EXCEPT ![r] = "check"]
    BY <1>3 DEF StartCancel, Goto
  <2> QED
    BY <1>3, <2>1, <2>2, NoneAssumption
    DEF TypeOK, StartCancel, Running, CreateSteps, SubmitSteps, CancelSteps
<1> QED
  BY <1>1, <1>2, <1>3 DEF Ask

\* A submission or cancellation names an intent that is in the table: no code
\* deletes a row.  Its columns decide how the handler goes on, so this is part
\* of every invariant below.
CallsHaveRows ==
  \A r \in Requests :
    step[r] \in SubmitSteps \cup CancelSteps => Exists(call[r].intent)

TypeInv == TypeOK /\ CallsHaveRows

\* Facts about a request that is answered, or that goes on to its next call.
LEMMA AnswerTypeOK ==
  ASSUME TypeOK, NEW r \in Requests, step[r] \in Running,
         NEW code \in Codes, NEW i \in Requests \cup {None},
         Answer(r, code, i),
         intents' \in [Requests -> Intent \cup {None}],
         payments' \in [Requests -> Payment \cup {None}],
         redis' \subseteq Keys,
         UNCHANGED <<chain, clock, call, stamp>>
  PROVE  TypeOK'
  BY DEF TypeOK, Answer, Goto, Answers, Running, CreateSteps, SubmitSteps,
         CancelSteps

LEMMA RefuseTypeOK ==
  ASSUME TypeOK, NEW r \in Requests, step[r] \in Running,
         NEW code \in Codes,
         Refuse(r, code),
         intents' \in [Requests -> Intent \cup {None}],
         payments' \in [Requests -> Payment \cup {None}],
         redis' \subseteq Keys,
         UNCHANGED <<chain, clock, call, stamp>>
  PROVE  TypeOK'
  BY AnswerTypeOK DEF Refuse

\* Writing a status keeps the table well typed.
LEMMA UpdateIntentStatusType ==
  ASSUME TypeOK, NEW i \in Requests, Exists(i),
         NEW status \in Statuses, NEW digest \in Txs \cup {None},
         UpdateIntentStatus(i, status, digest)
  PROVE  /\ intents' \in [Requests -> Intent \cup {None}]
         /\ \A j \in Requests : Exists(j)' <=> Exists(j)
         /\ \A j \in Requests \ {i} : intents'[j] = intents[j]
         /\ intents'[i] = [intents[i] EXCEPT !.status = status, !.digest = digest]
<1>1. intents[i] \in Intent
  BY DEF TypeOK, Exists
<1>2. [intents[i] EXCEPT !.status = status, !.digest = digest] \in Intent
  BY <1>1 DEF Intent
<1> QED
  BY <1>1, <1>2, NoneAssumption DEF TypeOK, UpdateIntentStatus, Exists

LEMMA UpdateIntentStatusRow ==
  ASSUME TypeOK, NEW i \in Requests, Exists(i),
         NEW status \in Statuses, NEW digest \in Txs \cup {None},
         UpdateIntentStatus(i, status, digest)
  PROVE  /\ Exists(i)'
         /\ intents'[i].owner = intents[i].owner
         /\ intents'[i].key = intents[i].key
         /\ intents'[i].expires = intents[i].expires
         /\ intents'[i].status = status
         /\ intents'[i].digest = digest
<1> DEFINE row == [intents[i] EXCEPT !.status = status, !.digest = digest]
<1>1. intents[i] \in Intent
  BY DEF TypeOK, Exists
<1>2. /\ row.owner = intents[i].owner
      /\ row.key = intents[i].key
      /\ row.expires = intents[i].expires
      /\ row.status = status
      /\ row.digest = digest
  BY <1>1 DEF Intent
<1>0. intents \in [Requests -> Intent \cup {None}]
  BY DEF TypeOK
<1>3. intents'[i] = row
  BY <1>0 DEF UpdateIntentStatus
<1>4. Exists(i)'
  BY UpdateIntentStatusType
<1> HIDE DEF row
<1> QED
  BY <1>2, <1>3, <1>4

LEMMA NewIntentType ==
  ASSUME TypeOK, NEW r \in Requests, step[r] \in CreateSteps, Accepted(r)
  PROVE  NewIntent(r) \in Intent /\ NewIntent(r) # None
  BY BoundsAssumption, NoneAssumption
  DEF Accepted, NewIntent, Intent, CreateCall, TypeOK, AllModes, Statuses

LEMMA CreateTypeInv ==
  ASSUME TypeInv, NEW r \in Requests,
         ReserveKey(r) \/ LookupKey(r) \/ InsertIntent(r)
  PROVE  TypeInv'
<1> USE DEF TypeInv
<1>1. CASE ReserveKey(r)
  <2>1. call[r] \in CreateCall /\ step[r] \in Running
    BY <1>1 DEF ReserveKey, TypeOK, CreateSteps, Running
  <2>2. redis' \subseteq Keys
    BY <1>1, <2>1 DEF ReserveKey, TypeOK, CreateCall
  <2>3. CASE Goto(r, "lookup") /\ UNCHANGED reply
    BY <1>1, <2>1, <2>2, <2>3
    DEF ReserveKey, Goto, TypeOK, CallsHaveRows, Exists,
        Running, CreateSteps, SubmitSteps, CancelSteps
  <2>4. CASE \E code \in Codes : Refuse(r, code)
    <3>1. TypeOK'
      BY <1>1, <2>1, <2>2, <2>4, RefuseTypeOK DEF ReserveKey, TypeOK
    <3>2. CallsHaveRows'
      BY <1>1, <2>4
      DEF ReserveKey, CallsHaveRows, Refuse, Answer, Goto, Exists, TypeOK,
          SubmitSteps, CancelSteps
    <3> QED BY <3>1, <3>2
  <2> QED
    BY <1>1, <2>3, <2>4 DEF ReserveKey, Codes
<1>2. CASE LookupKey(r)
  <2>1. call[r] \in CreateCall /\ step[r] \in Running
    BY <1>2 DEF LookupKey, TypeOK, CreateSteps, Running
  <2>3. CASE Goto(r, "insert") /\ UNCHANGED reply /\ stamp' = [stamp EXCEPT ![r] = clock]
    BY <1>2, <2>1, <2>3
    DEF LookupKey, Goto, TypeOK, CallsHaveRows, Exists,
        Running, CreateSteps, SubmitSteps, CancelSteps
  <2>4. CASE (\E code \in Codes, i \in Requests \cup {None} : Answer(r, code, i))
              /\ UNCHANGED stamp
    <3>1. TypeOK'
      BY <1>2, <2>1, <2>4, AnswerTypeOK DEF LookupKey, TypeOK
    <3>2. CallsHaveRows'
      BY <1>2, <2>4
      DEF LookupKey, CallsHaveRows, Answer, Goto, Exists, TypeOK,
          SubmitSteps, CancelSteps
    <3> QED BY <3>1, <3>2
  <2> QED
    BY <1>2, <2>3, <2>4 DEF LookupKey, Codes, Refuse, WithKey
<1>3. CASE InsertIntent(r)
  <2>1. call[r] \in CreateCall /\ step[r] \in Running
    BY <1>3 DEF InsertIntent, TypeOK, CreateSteps, Running
  <2>2. intents' \in [Requests -> Intent \cup {None}]
    <3>1. Accepted(r) => NewIntent(r) \in Intent
      BY <1>3, NewIntentType DEF InsertIntent, CreateSteps
    <3> QED
      BY <1>3, <3>1 DEF InsertIntent, TypeOK
  <2>3. \A j \in Requests : Exists(j) => Exists(j)'
    <3>1. Accepted(r) => NewIntent(r) # None
      BY <1>3, NewIntentType DEF InsertIntent, CreateSteps
    <3> QED
      BY <1>3, <3>1 DEF InsertIntent, Exists, TypeOK
  <2>4. PICK code \in Codes, i \in Requests \cup {None} : Answer(r, code, i)
    BY <1>3 DEF InsertIntent, Refuse, Codes
  <2>5. TypeOK'
    BY <1>3, <2>1, <2>2, <2>4, AnswerTypeOK DEF InsertIntent, TypeOK
  <2>6. CallsHaveRows'
    BY <1>3, <2>3, <2>4
    DEF InsertIntent, CallsHaveRows, Answer, Goto, TypeOK, SubmitSteps, CancelSteps,
        SubmitCall, CancelCall
  <2> QED BY <2>5, <2>6
<1> QED
  BY <1>1, <1>2, <1>3

\* A submit or cancel step that neither answers nor writes: only step changes.
LEMMA GotoTypeInv ==
  ASSUME TypeInv, NEW r \in Requests,
         step[r] \in SubmitSteps \cup CancelSteps,
         NEW next \in SubmitSteps \cup CancelSteps,
         Goto(r, next),
         next \in SubmitSteps => call[r] \in SubmitCall,
         next \in CancelSteps => call[r] \in CancelCall,
         next \in SubmitSteps \ {"admit"} => call[r].bytes # "malformed",
         next \in {"await", "markSubmitted", "insertPayment"} =>
           call[r].bytes = "signed",
         chain' \in [Txs -> {"unsent", "sent", "success", "abort"}],
         intents' \in [Requests -> Intent \cup {None}],
         \A j \in Requests : Exists(j) => Exists(j)',
         UNCHANGED <<payments, redis, clock, call, stamp, reply>>
  PROVE  TypeInv'
<1>1. /\ step[r] # "idle"
      /\ next \in Running
      /\ next \notin CreateSteps
      /\ step' = [step EXCEPT ![r] = next]
  BY DEF Goto, Running, CreateSteps, SubmitSteps, CancelSteps
<1>2. TypeOK'
  BY <1>1 DEF TypeInv, TypeOK, Running, SubmitSteps, CancelSteps, CreateSteps
<1>3. CallsHaveRows'
  <2>1. Exists(call[r].intent) /\ call[r].intent \in Requests
    BY DEF TypeInv, TypeOK, CallsHaveRows, SubmitCall, CancelCall
  <2>2. \A q \in Requests : step[q] \in SubmitSteps \cup CancelSteps =>
          call[q].intent \in Requests /\ Exists(call[q].intent)
    BY DEF TypeInv, TypeOK, CallsHaveRows, SubmitCall, CancelCall
  <2> QED
    BY <1>1, <2>1, <2>2 DEF TypeInv, TypeOK, CallsHaveRows
<1> QED
  BY <1>2, <1>3 DEF TypeInv

\* A submit or cancel step that answers.
LEMMA AnswerTypeInv ==
  ASSUME TypeInv, NEW r \in Requests,
         step[r] \in SubmitSteps \cup CancelSteps,
         NEW code \in Codes, NEW i \in Requests \cup {None},
         Answer(r, code, i),
         intents' \in [Requests -> Intent \cup {None}],
         payments' \in [Requests -> Payment \cup {None}],
         \A j \in Requests : Exists(j) => Exists(j)',
         UNCHANGED <<redis, chain, clock, call, stamp>>
  PROVE  TypeInv'
<1>1. TypeOK'
  BY AnswerTypeOK DEF TypeInv, TypeOK, Running
<1>2. CallsHaveRows'
  BY DEF TypeInv, TypeOK, CallsHaveRows, Answer, Goto, SubmitSteps, CancelSteps,
         SubmitCall, CancelCall
<1> QED
  BY <1>1, <1>2 DEF TypeInv

LEMMA TxOfType ==
  ASSUME TypeOK, NEW r \in Requests, step[r] \in SubmitSteps
  PROVE  TxOf(r) \in Txs /\ call[r] \in SubmitCall /\ call[r].intent \in Requests
  BY DEF TypeOK, TxOf, Txs, SubmitCall

LEMMA SubmitTypeInv ==
  ASSUME TypeInv, NEW r \in Requests,
         \/ AdmitSubmit(r) \/ Relay(r) \/ RelayReturns(r) \/ RelayBreaks(r)
         \/ MarkSubmitted(r) \/ InsertPayment(r) \/ MarkFailed(r)
  PROVE  TypeInv'
<1> DEFINE i == call[r].intent
<1>1. step[r] \in SubmitSteps
  BY DEF AdmitSubmit, Relay, RelayReturns, RelayBreaks, MarkSubmitted,
         InsertPayment, MarkFailed, SubmitSteps
<1>2. TxOf(r) \in Txs /\ call[r] \in SubmitCall /\ i \in Requests /\ Exists(i)
  BY <1>1, TxOfType DEF TypeInv, CallsHaveRows
<1>3. TypeOK
  BY DEF TypeInv
<1>4. CASE AdmitSubmit(r)
  <2>1. CASE Goto(r, "relay") /\ call[r].bytes # "malformed" /\ UNCHANGED reply
    BY <1>1, <1>2, <1>3, <1>4, <2>1, GotoTypeInv
    DEF AdmitSubmit, TypeOK, SubmitSteps, CancelSteps, Exists
  <2>2. CASE \E code \in Codes : Refuse(r, code)
    BY <1>1, <1>3, <1>4, <2>2, AnswerTypeInv DEF AdmitSubmit, Refuse, TypeOK, Exists
  <2> QED
    BY <1>4, <2>1, <2>2 DEF AdmitSubmit, Codes
<1>5. CASE Relay(r)
  <2>1. call[r].bytes \in Bytes \ {"malformed"}
    BY <1>2, <1>3, <1>5 DEF Relay, TypeOK, SubmitCall, SubmitSteps
  <2>2. CASE Refuse(r, "internal") /\ UNCHANGED chain
    BY <1>1, <1>3, <1>5, <2>2, AnswerTypeInv DEF Relay, Refuse, TypeOK, Codes, Exists
  <2>3. CASE Goto(r, "markFailed") /\ UNCHANGED <<chain, reply>>
    BY <1>1, <1>2, <1>3, <1>5, <2>1, <2>3, GotoTypeInv
    DEF Relay, TypeOK, SubmitSteps, CancelSteps, Exists
  <2>4. CASE /\ call[r].bytes # "short"
             /\ chain' = [chain EXCEPT ![TxOf(r)] = IF @ = "unsent" THEN "sent" ELSE @]
             /\ Goto(r, "await")
             /\ UNCHANGED reply
    <3>1. chain' \in [Txs -> {"unsent", "sent", "success", "abort"}]
      BY <1>2, <1>3, <2>4 DEF TypeOK
    <3> QED
      BY <1>1, <1>2, <1>3, <1>5, <2>1, <2>4, <3>1, GotoTypeInv
      DEF Relay, TypeOK, SubmitSteps, CancelSteps, Exists, Bytes
  <2> QED
    BY <1>5, <2>2, <2>3, <2>4 DEF Relay
<1>6. CASE RelayReturns(r)
  BY <1>1, <1>2, <1>3, <1>6, GotoTypeInv
  DEF RelayReturns, TypeOK, SubmitSteps, CancelSteps, Exists
<1>7. CASE RelayBreaks(r)
  BY <1>1, <1>2, <1>3, <1>7, GotoTypeInv
  DEF RelayBreaks, TypeOK, SubmitSteps, CancelSteps, Exists
<1>8. CASE MarkSubmitted(r)
  <2>1. UpdateIntentStatus(i, "submitted", TxOf(r)) \/ UNCHANGED intents
    BY <1>8 DEF MarkSubmitted
  <2>2. /\ intents' \in [Requests -> Intent \cup {None}]
        /\ \A j \in Requests : Exists(j) => Exists(j)'
    BY <1>2, <1>3, <2>1, UpdateIntentStatusType DEF TypeOK, Exists, Statuses
  <2> QED
    BY <1>1, <1>2, <1>3, <1>8, <2>2, GotoTypeInv
    DEF MarkSubmitted, TypeOK, SubmitSteps, CancelSteps
<1>9. CASE InsertPayment(r)
  <2>1. NewPayment(r) \in Payment
    BY <1>2 DEF NewPayment, Payment, SubmitCall
  <2>2. payments' \in [Requests -> Payment \cup {None}]
    BY <1>3, <1>9, <2>1 DEF InsertPayment, TypeOK
  <2> QED
    BY <1>1, <1>2, <1>3, <1>9, <2>2, AnswerTypeInv
    DEF InsertPayment, TypeOK, Codes, Exists
<1>10. CASE MarkFailed(r)
  <2>1. UpdateIntentStatus(i, "failed", None) \/ UNCHANGED intents
    BY <1>10 DEF MarkFailed
  <2>2. /\ intents' \in [Requests -> Intent \cup {None}]
        /\ \A j \in Requests : Exists(j) => Exists(j)'
    BY <1>2, <1>3, <2>1, UpdateIntentStatusType DEF TypeOK, Exists, Statuses
  <2> QED
    BY <1>1, <1>3, <1>10, <2>2, AnswerTypeInv DEF MarkFailed, Refuse, TypeOK, Codes
<1> QED
  BY <1>4, <1>5, <1>6, <1>7, <1>8, <1>9, <1>10

LEMMA CancelTypeInv ==
  ASSUME TypeInv, NEW r \in Requests, CheckCancel(r) \/ MarkCancelled(r)
  PROVE  TypeInv'
<1> DEFINE i == call[r].intent
<1>1. step[r] \in CancelSteps
  BY DEF CheckCancel, MarkCancelled, CancelSteps
<1>2. TypeOK /\ call[r] \in CancelCall /\ i \in Requests /\ Exists(i)
  BY <1>1 DEF TypeInv, TypeOK, CallsHaveRows, CancelCall
<1>3. CASE CheckCancel(r)
  <2>1. CASE Goto(r, "markCancelled") /\ UNCHANGED reply
    BY <1>1, <1>2, <1>3, <2>1, GotoTypeInv
    DEF CheckCancel, TypeOK, SubmitSteps, CancelSteps, Exists
  <2>2. CASE \E code \in Codes : Refuse(r, code)
    BY <1>1, <1>2, <1>3, <2>2, AnswerTypeInv DEF CheckCancel, Refuse, TypeOK, Exists
  <2> QED
    BY <1>3, <2>1, <2>2 DEF CheckCancel, Codes
<1>4. CASE MarkCancelled(r)
  <2>1. UpdateIntentStatus(i, "cancelled", None) \/ UNCHANGED intents
    BY <1>4 DEF MarkCancelled
  <2>2. /\ intents' \in [Requests -> Intent \cup {None}]
        /\ \A j \in Requests : Exists(j) => Exists(j)'
    BY <1>2, <2>1, UpdateIntentStatusType DEF TypeOK, Exists, Statuses
  <2>3. PICK code \in Codes, k \in Requests \cup {None} : Answer(r, code, k)
    BY <1>2, <1>4 DEF MarkCancelled, Refuse, Codes
  <2> QED
    BY <1>1, <1>2, <1>4, <2>2, <2>3, AnswerTypeInv DEF MarkCancelled, TypeOK
<1> QED
  BY <1>3, <1>4

LEMMA EnvironmentTypeInv ==
  ASSUME TypeInv,
         \/ \E r \in Requests : Crash(r)
         \/ \E t \in Txs : Execute(t)
         \/ \E k \in Keys : ExpireKey(k)
         \/ Tick
         \/ UNCHANGED vars
  PROVE  TypeInv'
<1> USE DEF TypeInv, TypeOK, CallsHaveRows, Exists
<1>1. ASSUME NEW r \in Requests, Crash(r) PROVE TypeInv'
  BY <1>1 DEF Crash, Goto, Running, CreateSteps, SubmitSteps, CancelSteps
<1>2. ASSUME NEW t \in Txs, Execute(t) PROVE TypeInv'
  BY <1>2 DEF Execute
<1>3. ASSUME NEW k \in Keys, ExpireKey(k) PROVE TypeInv'
  BY <1>3 DEF ExpireKey
<1>4. CASE Tick
  BY <1>4 DEF Tick
<1>5. CASE UNCHANGED vars
  BY <1>5 DEF vars
<1> QED
  BY <1>1, <1>2, <1>3, <1>4, <1>5

LEMMA StepTypeInv == TypeInv /\ [Next]_vars => TypeInv'
<1> SUFFICES ASSUME TypeInv, [Next]_vars PROVE TypeInv'
  OBVIOUS
<1>1. ASSUME NEW r \in Requests, Serve(r) \/ RelayBreaks(r) PROVE TypeInv'
  BY <1>1, CreateTypeInv, SubmitTypeInv, CancelTypeInv DEF Serve
<1>2. ASSUME NEW r \in Requests, NEW u \in Users, Ask(r, u) PROVE TypeInv'
  <2>1. TypeOK'
    BY <1>2, AskTypeOK DEF TypeInv
  <2>2. UNCHANGED intents
    BY <1>2 DEF Ask, StartCreate, StartSubmit, StartCancel
  <2>3. \A q \in Requests \ {r} : call'[q] = call[q] /\ step'[q] = step[q]
    BY <1>2 DEF Ask, StartCreate, StartSubmit, StartCancel, Goto, TypeInv, TypeOK
  <2>4. step'[r] \in SubmitSteps \cup CancelSteps => Exists(call'[r].intent)
    BY <1>2 DEF Ask, StartCreate, StartSubmit, StartCancel, Goto, TypeInv, TypeOK,
                SubmitSteps, CancelSteps
  <2>5. CallsHaveRows'
    BY <2>2, <2>3, <2>4 DEF TypeInv, CallsHaveRows, Exists
  <2> QED BY <2>1, <2>5 DEF TypeInv
<1>3. CASE \/ \E r \in Requests : Crash(r)
           \/ \E t \in Txs : Execute(t)
           \/ \E k \in Keys : ExpireKey(k)
           \/ Tick
           \/ UNCHANGED vars
  BY <1>3, EnvironmentTypeInv
<1> QED
  BY <1>1, <1>2, <1>3 DEF Next

LEMMA InitTypeInv == Init => TypeInv
  BY DEF Init, TypeInv, TypeOK, CallsHaveRows, Running, CreateSteps, SubmitSteps,
         CancelSteps

\* Every reachable state is well typed: rows, calls and answers have the shape
\* the code gives them, and every submission and cancellation under way names
\* an intent in the table.
THEOREM TypeCorrect == Spec => []TypeInv
<1>1. Init => TypeInv
  BY InitTypeInv
<1>2. TypeInv /\ [Next]_vars => TypeInv'
  BY StepTypeInv
<1> QED
  BY <1>1, <1>2, PTL DEF Spec

COROLLARY TypeOKHolds == Spec => []TypeOK
<1>1. TypeInv => TypeOK
  BY DEF TypeInv
<1> QED
  BY <1>1, TypeCorrect, PTL

-----------------------------------------------------------------------------
(* What a step can do to a row and to a transaction.                       *)

\* An action that does not write the intents table.
LEMMA IntentWriters ==
  ASSUME [Next]_vars
  PROVE  \/ UNCHANGED intents
         \/ \E r \in Requests : InsertIntent(r)
         \/ \E r \in Requests : MarkSubmitted(r)
         \/ \E r \in Requests : MarkFailed(r)
         \/ \E r \in Requests : MarkCancelled(r)
  BY DEF Next, Serve, Ask, vars, StartCreate, ReserveKey, LookupKey, StartSubmit,
         AdmitSubmit, Relay, Execute, RelayReturns, RelayBreaks, InsertPayment,
         StartCancel, CheckCancel, Crash, ExpireKey, Tick

\* The writers of the intents table other than InsertIntent, seen as one update.
LEMMA StatusWrites ==
  ASSUME TypeInv, NEW r \in Requests,
         MarkSubmitted(r) \/ MarkFailed(r) \/ MarkCancelled(r)
  PROVE  \/ UNCHANGED intents
         \/ /\ MarkSubmitted(r) /\ TxOf(r) \in Txs
            /\ UpdateIntentStatus(call[r].intent, "submitted", TxOf(r))
         \/ /\ MarkFailed(r) \/ MarkCancelled(r)
            /\ \E status \in {"failed", "cancelled"} :
                 UpdateIntentStatus(call[r].intent, status, None)
<1>1. MarkSubmitted(r) => TxOf(r) \in Txs
  BY TxOfType DEF MarkSubmitted, SubmitSteps, TypeInv
<1> QED
  BY <1>1 DEF MarkSubmitted, MarkFailed, MarkCancelled

LEMMA WrittenRowExists ==
  ASSUME TypeInv, NEW r \in Requests,
         MarkSubmitted(r) \/ MarkFailed(r) \/ MarkCancelled(r)
  PROVE  call[r].intent \in Requests /\ Exists(call[r].intent) /\ TypeOK
  BY DEF MarkSubmitted, MarkFailed, MarkCancelled, TypeInv, TypeOK,
     CallsHaveRows, SubmitSteps, CancelSteps, SubmitCall, CancelCall

\* An identifier is drawn for a new row only: the request that draws it has
\* not inserted anything yet.
FreshIds ==
  \A r \in Requests : step[r] \in CreateSteps \cup {"idle"} => ~Exists(r)

LEMMA CreationsComeFromIdle ==
  ASSUME TypeInv, [Next]_vars, NEW q \in Requests,
         step'[q] \in CreateSteps \cup {"idle"}
  PROVE  step[q] \in CreateSteps \cup {"idle"} /\ ~InsertIntent(q)
<1> USE DEF Goto, CreateSteps, TypeInv, TypeOK
<1>1. CASE UNCHANGED step
  BY <1>1 DEF InsertIntent, Answer, Refuse
<1>2. ASSUME NEW r \in Requests,
             \/ ReserveKey(r) \/ LookupKey(r) \/ InsertIntent(r)
             \/ \E u \in Users : StartCreate(r, u)
      PROVE  step[q] \in CreateSteps \cup {"idle"} /\ ~InsertIntent(q)
  BY <1>2 DEF ReserveKey, LookupKey, InsertIntent, StartCreate, MayCall, Answer, Refuse
<1>3. ASSUME NEW r \in Requests, NEW next \in SubmitSteps \cup CancelSteps \cup {"lost", "done"},
             Goto(r, next), step[r] # "insert"
      PROVE  step[q] \in CreateSteps \cup {"idle"} /\ ~InsertIntent(q)
  BY <1>3 DEF SubmitSteps, CancelSteps, InsertIntent, Answer, Refuse
<1>4. ASSUME NEW r \in Requests, Crash(r)
      PROVE  step[q] \in CreateSteps \cup {"idle"} /\ ~InsertIntent(q)
  BY <1>4 DEF Crash, InsertIntent, Answer, Refuse
<1>5. ASSUME NEW r \in Requests,
             \/ AdmitSubmit(r) \/ Relay(r) \/ RelayReturns(r) \/ RelayBreaks(r)
             \/ MarkSubmitted(r) \/ InsertPayment(r) \/ MarkFailed(r)
             \/ CheckCancel(r) \/ MarkCancelled(r)
             \/ \E u \in Users : StartSubmit(r, u) \/ StartCancel(r, u)
      PROVE  /\ \E next \in SubmitSteps \cup CancelSteps \cup {"done"} : Goto(r, next)
             /\ step[r] # "insert"
  BY <1>5 DEF AdmitSubmit, Relay, RelayReturns, RelayBreaks, MarkSubmitted,
     InsertPayment, MarkFailed, CheckCancel, MarkCancelled, StartSubmit, StartCancel,
     MayCall, Answer, Refuse, SubmitSteps, CancelSteps
<1>6. \/ UNCHANGED step
      \/ \E r \in Requests :
           \/ ReserveKey(r) \/ LookupKey(r) \/ InsertIntent(r)
           \/ \E u \in Users : StartCreate(r, u)
           \/ Crash(r)
           \/ AdmitSubmit(r) \/ Relay(r) \/ RelayReturns(r) \/ RelayBreaks(r)
           \/ MarkSubmitted(r) \/ InsertPayment(r) \/ MarkFailed(r)
           \/ CheckCancel(r) \/ MarkCancelled(r)
           \/ \E u \in Users : StartSubmit(r, u) \/ StartCancel(r, u)
  BY DEF Next, Serve, Ask, vars, Execute, ExpireKey, Tick
<1> HIDE DEF Goto, CreateSteps, TypeInv, TypeOK
<1> QED
  BY <1>1, <1>2, <1>3, <1>4, <1>5, <1>6

LEMMA StepFreshIds == TypeInv /\ FreshIds /\ [Next]_vars => FreshIds'
<1> SUFFICES ASSUME TypeInv, FreshIds, [Next]_vars, NEW q \in Requests,
                    step'[q] \in CreateSteps \cup {"idle"}, Exists(q)'
             PROVE  FALSE
  BY DEF FreshIds, CreateSteps
<1>1. step[q] \in CreateSteps \cup {"idle"} /\ ~InsertIntent(q)
  BY CreationsComeFromIdle
<1>2. ~Exists(q)
  BY <1>1 DEF FreshIds
<1>3. CASE UNCHANGED intents
  BY <1>2, <1>3 DEF Exists
<1>4. ASSUME NEW r \in Requests, InsertIntent(r) PROVE FALSE
  BY <1>1, <1>2, <1>4 DEF InsertIntent, Exists, TypeInv, TypeOK
<1>5. ASSUME NEW r \in Requests, MarkSubmitted(r) \/ MarkFailed(r) \/ MarkCancelled(r)
      PROVE  FALSE
  BY <1>2, <1>5, <1>3, StatusWrites, WrittenRowExists, UpdateIntentStatusType
  DEF Statuses
<1> QED
  BY <1>3, <1>4, <1>5, IntentWriters

SameTerms(i) ==
  /\ intents'[i] # None
  /\ intents'[i].owner = intents[i].owner
  /\ intents'[i].key = intents[i].key
  /\ intents'[i].expires = intents[i].expires
  /\ intents[i].status # "pending" => intents'[i].status # "pending"

\* A row never disappears, keeps its owner, key and expiry, and once out of
\* "pending" stays out.
LEMMA RowsAreStable ==
  ASSUME TypeInv, FreshIds, [Next]_vars, NEW i \in Requests, Exists(i)
  PROVE  SameTerms(i)
<1>0. intents[i] \in Intent
  BY DEF TypeInv, TypeOK, Exists
<1>1. CASE UNCHANGED intents
  BY <1>1 DEF SameTerms, Exists
<1>2. ASSUME NEW r \in Requests, InsertIntent(r) PROVE SameTerms(i)
  <2>1. r # i
    BY <1>2 DEF InsertIntent, FreshIds, CreateSteps
  <2> QED
    BY <1>2, <2>1 DEF SameTerms, InsertIntent, Exists, TypeInv, TypeOK
<1>3. ASSUME NEW r \in Requests, MarkSubmitted(r) \/ MarkFailed(r) \/ MarkCancelled(r)
      PROVE  SameTerms(i)
  <2> DEFINE j == call[r].intent
  <2>1. j \in Requests /\ Exists(j) /\ TypeOK
    BY <1>3, WrittenRowExists
  <2>2. ASSUME NEW status \in Statuses \ {"pending"}, NEW digest \in Txs \cup {None},
               UpdateIntentStatus(j, status, digest)
        PROVE  SameTerms(i)
    <3>1. CASE i = j
      <4>1. /\ Exists(i)'
            /\ intents'[i].owner = intents[i].owner
            /\ intents'[i].key = intents[i].key
            /\ intents'[i].expires = intents[i].expires
            /\ intents'[i].status = status
        BY <1>0, <2>1, <2>2, <3>1, UpdateIntentStatusRow
      <4> QED
        BY <4>1 DEF SameTerms, Exists
    <3>2. CASE i # j
      <4>1. intents'[i] = intents[i]
        BY <2>1, <2>2, <3>2, UpdateIntentStatusType
      <4> QED
        BY <4>1 DEF SameTerms, Exists
    <3> QED BY <3>1, <3>2
  <2> QED
    BY <1>1, <1>3, <2>2, StatusWrites DEF Statuses
<1> QED
  BY <1>1, <1>2, <1>3, IntentWriters

\* TRUE of every step of the system, so of every behaviour: an intent is
\* submitted, failed or cancelled for good.
THEOREM PendingIsLeft == Spec => PendingIsLeftForGood
<1>1. Init => TypeInv /\ FreshIds
  BY InitTypeInv DEF Init, FreshIds, Exists
<1>2. TypeInv /\ FreshIds /\ [Next]_vars => (TypeInv /\ FreshIds)'
  BY StepTypeInv, StepFreshIds
<1>3. TypeInv /\ FreshIds /\ [Next]_vars =>
        [\A i \in Requests : Exists(i) =>
           /\ intents[i].status # "pending" => intents'[i].status # "pending"
           /\ intents'[i].owner = intents[i].owner
           /\ intents'[i].key = intents[i].key
           /\ intents'[i].expires = intents[i].expires]_vars
  BY RowsAreStable DEF SameTerms
<1> QED
  BY <1>1, <1>2, <1>3, PTL DEF Spec, PendingIsLeftForGood

-----------------------------------------------------------------------------
(* What the tables and the answers say is backed by the chain.  First what  *)
(* a step leaves alone.                                                    *)

\* Execution is final.
LEMMA ExecutedIsStable ==
  ASSUME TypeInv, [Next]_vars, NEW t \in Txs, Executed(t)
  PROVE  Executed(t)'
<1>1. CASE UNCHANGED chain
  BY <1>1 DEF Executed
<1>2. ASSUME NEW r \in Requests, Relay(r) PROVE Executed(t)'
  BY <1>2 DEF Relay, Executed, TypeInv, TypeOK
<1>3. ASSUME NEW x \in Txs, Execute(x) PROVE Executed(t)'
  BY <1>3 DEF Execute, Executed, TypeInv, TypeOK
<1>4. \/ UNCHANGED chain
      \/ \E r \in Requests : Relay(r)
      \/ \E x \in Txs : Execute(x)
  BY DEF Next, Serve, Ask, vars, StartCreate, ReserveKey, LookupKey, InsertIntent,
     StartSubmit, AdmitSubmit, RelayReturns, RelayBreaks, MarkSubmitted,
     InsertPayment, MarkFailed, StartCancel, CheckCancel, MarkCancelled, Crash,
     ExpireKey, Tick
<1> QED
  BY <1>1, <1>2, <1>3, <1>4

\* A client's call does not change once it is made.
LEMMA CallIsStable ==
  ASSUME TypeInv, [Next]_vars, NEW q \in Requests, step[q] # "idle"
  PROVE  call'[q] = call[q]
<1>1. CASE UNCHANGED call
  BY <1>1
<1>2. ASSUME NEW r \in Requests, NEW u \in Users, Ask(r, u)
      PROVE  call'[q] = call[q]
  BY <1>2 DEF Ask, StartCreate, StartSubmit, StartCancel, MayCall, TypeInv, TypeOK
<1>3. UNCHANGED call \/ \E r \in Requests, u \in Users : Ask(r, u)
  BY DEF Next, Serve, vars, ReserveKey, LookupKey, InsertIntent, AdmitSubmit,
     Relay, Execute, RelayReturns, RelayBreaks, MarkSubmitted, InsertPayment,
     MarkFailed, CheckCancel, MarkCancelled, Crash, ExpireKey, Tick
<1> QED
  BY <1>1, <1>2, <1>3

-----------------------------------------------------------------------------
(* How a request comes to be where it is.                                  *)

Admitted == SubmitSteps \ {"admit"}

Arrival(q) ==
  /\ step'[q] \in Admitted =>
       \/ step[q] \in Admitted
       \/ step[q] = "admit" /\ Owned(q) /\ Pending(q) /\ ~Expired(q)
  /\ step'[q] = "markSubmitted" =>
       step[q] = "markSubmitted" \/ (step[q] = "await" /\ Executed(TxOf(q)))
  /\ step'[q] = "insertPayment" =>
       \/ step[q] = "insertPayment"
       \/ /\ step[q] = "markSubmitted"
          /\ \/ UpdateIntentStatus(call[q].intent, "submitted", TxOf(q))
             \/ StoreFaults

\* Each step of a submission is reached from the step before it only, having
\* learnt what that step establishes.
LEMMA Arrivals ==
  ASSUME TypeInv, [Next]_vars, NEW q \in Requests
  PROVE  Arrival(q)
<1> USE DEF Arrival, Admitted, SubmitSteps, Goto, TypeInv, TypeOK
<1>1. CASE UNCHANGED step
  BY <1>1
<1>2. ASSUME NEW r \in Requests, AdmitSubmit(r) \/ CheckCancel(r) \/ MarkCancelled(r)
      PROVE  Arrival(q)
  BY <1>2 DEF AdmitSubmit, CheckCancel, MarkCancelled, Refuse, Answer
<1>3. ASSUME NEW r \in Requests, Relay(r) \/ RelayReturns(r) \/ RelayBreaks(r)
      PROVE  Arrival(q)
  BY <1>3 DEF Relay, RelayReturns, RelayBreaks, Refuse, Answer
<1>4. ASSUME NEW r \in Requests, MarkSubmitted(r) \/ InsertPayment(r) \/ MarkFailed(r)
      PROVE  Arrival(q)
  BY <1>4 DEF MarkSubmitted, InsertPayment, MarkFailed, Refuse, Answer
<1>5. ASSUME NEW r \in Requests, ReserveKey(r) \/ LookupKey(r) \/ InsertIntent(r) \/ Crash(r)
      PROVE  Arrival(q)
  BY <1>5 DEF ReserveKey, LookupKey, InsertIntent, Crash, Refuse, Answer
<1>6. ASSUME NEW r \in Requests, NEW u \in Users, Ask(r, u)
      PROVE  Arrival(q)
  BY <1>6 DEF Ask, StartCreate, StartSubmit, StartCancel
<1>7. UNCHANGED step \/ \E r \in Requests :
        \/ AdmitSubmit(r) \/ CheckCancel(r) \/ MarkCancelled(r)
        \/ Relay(r) \/ RelayReturns(r) \/ RelayBreaks(r)
        \/ MarkSubmitted(r) \/ InsertPayment(r) \/ MarkFailed(r)
        \/ ReserveKey(r) \/ LookupKey(r) \/ InsertIntent(r) \/ Crash(r)
        \/ \E u \in Users : Ask(r, u)
  BY DEF Next, Serve, vars, Execute, ExpireKey, Tick
<1> HIDE DEF Arrival, Admitted, SubmitSteps, Goto, TypeInv, TypeOK
<1> QED
  BY <1>1, <1>2, <1>3, <1>4, <1>5, <1>6, <1>7

\* Only a handler that is through has answered.
RepliesAreFinal == \A r \in Requests : reply[r] # None => step[r] = "done"

LEMMA ReplyArrivals ==
  ASSUME TypeInv, RepliesAreFinal, [Next]_vars, NEW q \in Requests, reply'[q] # None
  PROVE  /\ step'[q] = "done" /\ step[q] # "idle"
         /\ \/ reply'[q] = reply[q] /\ step[q] = "done"
            \/ step[q] \in CreateSteps \cup CancelSteps
            \/ InsertPayment(q)
            \/ reply'[q].code # "ok"
<1> DEFINE Good == /\ step'[q] = "done" /\ step[q] # "idle"
                   /\ \/ reply'[q] = reply[q] /\ step[q] = "done"
                      \/ step[q] \in CreateSteps \cup CancelSteps
                      \/ InsertPayment(q)
                      \/ reply'[q].code # "ok"
<1> USE DEF RepliesAreFinal, Goto, TypeInv, TypeOK, CreateSteps, CancelSteps
<1>1. CASE UNCHANGED <<step, reply>>
  BY <1>1
<1>2. ASSUME NEW r \in Requests, AdmitSubmit(r) \/ CheckCancel(r) \/ MarkCancelled(r)
      PROVE  Good
  BY <1>2 DEF AdmitSubmit, CheckCancel, MarkCancelled, Refuse, Answer
<1>3. ASSUME NEW r \in Requests, Relay(r) \/ RelayReturns(r) \/ RelayBreaks(r)
      PROVE  Good
  BY <1>3 DEF Relay, RelayReturns, RelayBreaks, Refuse, Answer
<1>4. ASSUME NEW r \in Requests, MarkSubmitted(r) \/ InsertPayment(r) \/ MarkFailed(r)
      PROVE  Good
  BY <1>4 DEF MarkSubmitted, InsertPayment, MarkFailed, Refuse, Answer
<1>5. ASSUME NEW r \in Requests, ReserveKey(r) \/ LookupKey(r) \/ InsertIntent(r)
      PROVE  Good
  BY <1>5 DEF ReserveKey, LookupKey, InsertIntent, Refuse, Answer
<1>6. ASSUME NEW r \in Requests, Crash(r)
      PROVE  Good
  BY <1>6 DEF Crash, Running, SubmitSteps
<1>7. ASSUME NEW r \in Requests, NEW u \in Users, Ask(r, u)
      PROVE  Good
  BY <1>7 DEF Ask, StartCreate, StartSubmit, StartCancel, MayCall
<1>8. UNCHANGED <<step, reply>> \/ \E r \in Requests :
        \/ AdmitSubmit(r) \/ CheckCancel(r) \/ MarkCancelled(r)
        \/ Relay(r) \/ RelayReturns(r) \/ RelayBreaks(r)
        \/ MarkSubmitted(r) \/ InsertPayment(r) \/ MarkFailed(r)
        \/ ReserveKey(r) \/ LookupKey(r) \/ InsertIntent(r) \/ Crash(r)
        \/ \E u \in Users : Ask(r, u)
  BY DEF Next, Serve, vars, Execute, ExpireKey, Tick
<1> HIDE DEF RepliesAreFinal, Goto, TypeInv, TypeOK, CreateSteps, CancelSteps
<1> QED
  BY <1>1, <1>2, <1>3, <1>4, <1>5, <1>6, <1>7, <1>8

-----------------------------------------------------------------------------
(* The inductive invariant: the properties, and what a handler has learnt by *)
(* the time it is about to make a given call.                                *)

\* Past the checks, the caller owns the intent.
AdmittedByOwner ==
  \A r \in Requests : step[r] \in Admitted => Row(r).owner = call[r].user

\* The status and the payment row are written after the node's answer only.
RepliesAreReal ==
  \A r \in Requests :
    step[r] \in {"markSubmitted", "insertPayment"} => Executed(TxOf(r))

\* The payment row is written after the status.
SettledFirst ==
  \A r \in Requests :
    step[r] = "insertPayment" => StoreFaults \/ Row(r).status # "pending"

\* What was confirmed was a submission of an intent in the table.
ConfirmedHasRow ==
  \A r \in Requests : Answered(r, "submit", "ok") =>
    /\ TxOf(r) \in Txs
    /\ call[r].intent \in Requests /\ Exists(call[r].intent)

HandlerInv ==
  /\ TypeInv
  /\ FreshIds
  /\ RepliesAreFinal
  /\ AdmittedByOwner
  /\ RepliesAreReal
  /\ SettledFirst

LEMMA InitHandlerInv == Init => HandlerInv
<1>1. Init => TypeInv
  BY InitTypeInv
<1> QED
  BY <1>1 DEF HandlerInv, Init, FreshIds, Exists, RepliesAreFinal, AdmittedByOwner,
          RepliesAreReal, SettledFirst, Admitted, SubmitSteps

\* What a submission knows stays true of it.
LEMMA SubmissionFacts ==
  ASSUME HandlerInv, [Next]_vars, NEW q \in Requests, step[q] \in SubmitSteps
  PROVE  /\ call'[q] = call[q] /\ TxOf(q)' = TxOf(q)
         /\ TxOf(q) \in Txs /\ TxOf(q).intent = call[q].intent
         /\ call[q].intent \in Requests
         /\ Exists(call[q].intent) /\ SameTerms(call[q].intent)
<1>1. TypeInv /\ TypeOK /\ FreshIds /\ step[q] # "idle"
  BY DEF HandlerInv, TypeInv, SubmitSteps
<1>2. TxOf(q) \in Txs /\ call[q].intent \in Requests
  BY <1>1, TxOfType
<1>3. Exists(call[q].intent)
  BY <1>1 DEF TypeInv, CallsHaveRows
<1>4. call'[q] = call[q]
  BY <1>1, CallIsStable
<1>5. TxOf(q)' = TxOf(q) /\ TxOf(q).intent = call[q].intent
  BY <1>4 DEF TxOf
<1>6. SameTerms(call[q].intent)
  BY <1>1, <1>2, <1>3, RowsAreStable
<1> QED
  BY <1>2, <1>3, <1>4, <1>5, <1>6

LEMMA StepHandlerInv == HandlerInv /\ [Next]_vars => HandlerInv'
<1> SUFFICES ASSUME HandlerInv, [Next]_vars PROVE HandlerInv'
  OBVIOUS
<1>1. TypeInv' /\ FreshIds'
  BY StepTypeInv, StepFreshIds DEF HandlerInv
<1>2. RepliesAreFinal'
  BY ReplyArrivals DEF HandlerInv, RepliesAreFinal
<1>3. AdmittedByOwner'
  <2> SUFFICES ASSUME NEW q \in Requests, step'[q] \in Admitted
               PROVE  (Row(q).owner = call[q].user)'
    BY DEF AdmittedByOwner
  <2>1. step[q] \in SubmitSteps /\ Row(q).owner = call[q].user
    BY Arrivals DEF HandlerInv, Arrival, AdmittedByOwner, Admitted, Owned, SubmitSteps
  <2> QED
    BY <2>1, SubmissionFacts DEF Row, SameTerms
<1>4. RepliesAreReal'
  <2> SUFFICES ASSUME NEW q \in Requests,
                      step'[q] \in {"markSubmitted", "insertPayment"}
               PROVE  Executed(TxOf(q))'
    BY DEF RepliesAreReal
  <2>1. step[q] \in SubmitSteps /\ Executed(TxOf(q))
    BY Arrivals DEF HandlerInv, Arrival, RepliesAreReal, SubmitSteps
  <2>2. TxOf(q) \in Txs /\ TxOf(q)' = TxOf(q)
    BY <2>1, SubmissionFacts
  <2> DEFINE t == TxOf(q)
  <2>3. Executed(t) => chain'[t] \in {"success", "abort"}
    BY <2>2, ExecutedIsStable DEF HandlerInv, Executed
  <2> QED
    BY <2>1, <2>2, <2>3 DEF Executed
<1>5. SettledFirst'
  <2> SUFFICES ASSUME NEW q \in Requests, step'[q] = "insertPayment", ~StoreFaults
               PROVE  (Row(q).status # "pending")'
    BY DEF SettledFirst
  <2> DEFINE i == call[q].intent
  <2>1. /\ step[q] \in {"insertPayment", "markSubmitted"}
        /\ step[q] # "insertPayment" => UpdateIntentStatus(i, "submitted", TxOf(q))
    BY Arrivals DEF HandlerInv, Arrival
  <2>2. /\ call'[q] = call[q] /\ TxOf(q) \in Txs /\ i \in Requests
        /\ Exists(i) /\ SameTerms(i)
    BY <2>1, SubmissionFacts DEF SubmitSteps
  <2>3. CASE step[q] = "insertPayment"
    BY <2>2, <2>3 DEF HandlerInv, SettledFirst, SameTerms, Row
  <2>4. CASE UpdateIntentStatus(i, "submitted", TxOf(q))
    <3>1. intents'[i].status = "submitted"
      BY <2>2, <2>4, UpdateIntentStatusRow DEF HandlerInv, TypeInv, Statuses
    <3> QED
      BY <2>2, <3>1 DEF Row
  <2> QED
    BY <2>1, <2>3, <2>4
<1> QED
  BY <1>1, <1>2, <1>3, <1>4, <1>5 DEF HandlerInv

-----------------------------------------------------------------------------
(* The properties, one step at a time.                                      *)

DigestBacked(i) ==
  /\ intents[i].status = "submitted" =>
       /\ intents[i].digest # None
       /\ Executed(intents[i].digest)
       /\ intents[i].digest.intent = i
  /\ intents[i].status # "submitted" => intents[i].digest = None

\* A row that the step leaves alone keeps its backing.
LEMMA SameRowBacked ==
  ASSUME HandlerInv, SubmittedBackedByChain, [Next]_vars,
         NEW i \in Requests, Exists(i), intents'[i] = intents[i]
  PROVE  DigestBacked(i)'
<1>1. TypeInv /\ intents[i] \in Intent
  BY DEF HandlerInv, TypeInv, TypeOK, Exists
<1>2. CASE intents[i].status = "submitted"
  <2> DEFINE d == intents[i].digest
  <2>1. d \in Txs /\ Executed(d) /\ d.intent = i
    BY <1>1, <1>2 DEF SubmittedBackedByChain, Intent
  <2>2. chain'[d] \in {"success", "abort"}
    BY <1>1, <2>1, ExecutedIsStable DEF Executed
  <2> QED
    BY <1>2, <2>1, <2>2, NoneAssumption DEF DigestBacked, Executed
<1>3. CASE intents[i].status # "submitted"
  BY <1>3 DEF SubmittedBackedByChain, DigestBacked
<1> QED
  BY <1>2, <1>3

\* A row that the step writes gets its backing from the handler.
LEMMA WrittenRowBacked ==
  ASSUME HandlerInv, [Next]_vars, NEW r \in Requests,
         MarkSubmitted(r) \/ MarkFailed(r) \/ MarkCancelled(r),
         ~UNCHANGED intents
  PROVE  DigestBacked(call[r].intent)'
<1> DEFINE i == call[r].intent
<1>1. TypeInv /\ TypeOK /\ i \in Requests /\ Exists(i) /\ call'[r] = call[r]
  BY WrittenRowExists, CallIsStable
  DEF HandlerInv, MarkSubmitted, MarkFailed, MarkCancelled
<1>2. CASE MarkSubmitted(r) /\ TxOf(r) \in Txs
           /\ UpdateIntentStatus(i, "submitted", TxOf(r))
  <2> DEFINE d == TxOf(r)
  <2>1. Executed(d) /\ d.intent = i /\ d \in Txs
    BY <1>2 DEF HandlerInv, RepliesAreReal, MarkSubmitted, TxOf
  <2>2. chain'[d] \in {"success", "abort"}
    BY <1>1, <2>1, ExecutedIsStable DEF Executed
  <2>3. intents'[i].digest = d /\ intents'[i].status = "submitted"
    BY <1>1, <1>2, UpdateIntentStatusRow DEF Statuses
  <2> HIDE DEF d
  <2> QED
    BY <1>1, <2>1, <2>2, <2>3, NoneAssumption DEF DigestBacked, Executed
<1>3. ASSUME NEW status \in {"failed", "cancelled"}, UpdateIntentStatus(i, status, None)
      PROVE  DigestBacked(i)'
  <2>1. intents'[i].digest = None /\ intents'[i].status = status
    BY <1>1, <1>3, UpdateIntentStatusRow DEF Statuses
  <2> QED
    BY <1>1, <2>1 DEF DigestBacked
<1> QED
  BY <1>1, <1>2, <1>3, StatusWrites

LEMMA StepSubmittedBacked ==
  HandlerInv /\ SubmittedBackedByChain /\ [Next]_vars => SubmittedBackedByChain'
<1> SUFFICES ASSUME HandlerInv, SubmittedBackedByChain, [Next]_vars,
                    NEW i \in Requests, Exists(i)'
             PROVE  DigestBacked(i)'
  BY DEF SubmittedBackedByChain, DigestBacked
<1>1. TypeInv /\ TypeOK
  BY DEF HandlerInv, TypeInv
<1>2. CASE UNCHANGED intents
  BY <1>2, SameRowBacked DEF Exists
<1>3. ASSUME NEW r \in Requests, InsertIntent(r), ~UNCHANGED intents
      PROVE  DigestBacked(i)'
  <2>1. intents' = [intents EXCEPT ![r] = NewIntent(r)]
    BY <1>3 DEF InsertIntent
  <2>2. CASE r = i
    <3>1. intents'[i] = NewIntent(i)
      BY <1>1, <2>1, <2>2 DEF TypeOK
    <3> QED
      BY <3>1 DEF NewIntent, DigestBacked
  <2>3. CASE r # i
    BY <1>1, <2>1, <2>3, SameRowBacked DEF TypeOK, Exists
  <2> QED
    BY <2>2, <2>3
<1>4. ASSUME NEW r \in Requests,
             MarkSubmitted(r) \/ MarkFailed(r) \/ MarkCancelled(r),
             ~UNCHANGED intents
      PROVE  DigestBacked(i)'
  <2> DEFINE j == call[r].intent
  <2>1. j \in Requests /\ Exists(j)
    BY <1>1, <1>4, WrittenRowExists
  <2>2. CASE i = j
    BY <1>4, <2>2, WrittenRowBacked, CallIsStable, <1>1
    DEF DigestBacked, MarkSubmitted, MarkFailed, MarkCancelled
  <2>3. CASE i # j
    <3>1. \E status \in Statuses, digest \in Txs \cup {None} :
            UpdateIntentStatus(j, status, digest)
      BY <1>1, <1>4, StatusWrites DEF Statuses
    <3>2. intents'[i] = intents[i]
      BY <1>1, <2>3, <3>1 DEF UpdateIntentStatus, TypeOK
    <3> QED
      BY <3>2, SameRowBacked DEF Exists
  <2> QED
    BY <2>2, <2>3
<1> QED
  BY <1>2, <1>3, <1>4, IntentWriters

LEMMA PaymentWriters ==
  ASSUME [Next]_vars
  PROVE  UNCHANGED payments \/ \E r \in Requests : InsertPayment(r)
  BY DEF Next, Serve, Ask, vars, StartCreate, ReserveKey, LookupKey, InsertIntent,
     StartSubmit, AdmitSubmit, Relay, Execute, RelayReturns, RelayBreaks,
     MarkSubmitted, MarkFailed, StartCancel, CheckCancel, MarkCancelled, Crash,
     ExpireKey, Tick

\* A row of the payments table is there already, or is the one that the step
\* inserts.
LEMMA PaymentArrivals ==
  ASSUME TypeInv, [Next]_vars, NEW p \in Requests, payments'[p] # None
  PROVE  \/ payments[p] # None /\ payments'[p] = payments[p]
         \/ InsertPayment(p) /\ payments'[p] = NewPayment(p)
<1>1. CASE UNCHANGED payments
  BY <1>1
<1>2. ASSUME NEW r \in Requests, InsertPayment(r)
      PROVE  \/ payments[p] # None /\ payments'[p] = payments[p]
             \/ InsertPayment(p) /\ payments'[p] = NewPayment(p)
  BY <1>2 DEF InsertPayment, TypeInv, TypeOK
<1> QED
  BY <1>1, <1>2, PaymentWriters

LEMMA StepPaymentBacked ==
  HandlerInv /\ PaymentBackedByChain /\ [Next]_vars => PaymentBackedByChain'
<1> SUFFICES ASSUME HandlerInv, PaymentBackedByChain, [Next]_vars,
                    NEW p \in Requests, payments'[p] # None
             PROVE  /\ chain'[payments'[p].digest] \in {"success", "abort"}
                    /\ payments'[p].digest.intent = payments'[p].intent
                    /\ intents'[payments'[p].intent] # None
                    /\ intents'[payments'[p].intent].owner = payments'[p].user
  BY DEF PaymentBackedByChain, Executed, Exists
<1>0. TypeInv /\ TypeOK /\ FreshIds
  BY DEF HandlerInv, TypeInv
<1>1. CASE payments[p] # None /\ payments'[p] = payments[p]
  <2> DEFINE pay == payments[p]
  <2>1. pay.digest \in Txs /\ pay.intent \in Requests
    BY <1>0, <1>1 DEF TypeOK, Payment
  <2>2. /\ Executed(pay.digest) /\ pay.digest.intent = pay.intent
        /\ Exists(pay.intent) /\ intents[pay.intent].owner = pay.user
    BY <1>1 DEF PaymentBackedByChain
  <2>3. chain'[pay.digest] \in {"success", "abort"}
    BY <1>0, <2>1, <2>2, ExecutedIsStable DEF Executed
  <2>4. SameTerms(pay.intent)
    BY <1>0, <2>1, <2>2, RowsAreStable
  <2> QED
    BY <1>1, <2>2, <2>3, <2>4 DEF SameTerms, Exists
<1>2. CASE InsertPayment(p) /\ payments'[p] = NewPayment(p)
  <2> DEFINE i == call[p].intent
             d == TxOf(p)
  <2>1. step[p] = "insertPayment"
    BY <1>2 DEF InsertPayment
  <2>2. /\ d \in Txs /\ d.intent = i /\ i \in Requests
        /\ Exists(i) /\ SameTerms(i)
    BY <2>1, SubmissionFacts DEF SubmitSteps
  <2>3. Executed(d) /\ Row(p).owner = call[p].user
    BY <2>1 DEF HandlerInv, RepliesAreReal, AdmittedByOwner, Admitted, SubmitSteps
  <2>4. chain'[d] \in {"success", "abort"}
    BY <1>0, <2>2, <2>3, ExecutedIsStable DEF Executed
  <2>5. /\ payments'[p].intent = i /\ payments'[p].digest = d
        /\ payments'[p].user = call[p].user
    BY <1>2 DEF NewPayment
  <2>6. intents'[i] # None /\ intents'[i].owner = call[p].user
    BY <2>2, <2>3 DEF SameTerms, Exists, Row
  <2> HIDE DEF i, d
  <2> QED
    BY <2>2, <2>4, <2>5, <2>6
<1> QED
  BY <1>0, <1>1, <1>2, PaymentArrivals

LEMMA StepConfirmed ==
  HandlerInv /\ ConfirmedHasRow /\ ConfirmedMeansExecuted /\ [Next]_vars =>
    (ConfirmedHasRow /\ ConfirmedMeansExecuted)'
<1> SUFFICES ASSUME HandlerInv, ConfirmedHasRow, ConfirmedMeansExecuted, [Next]_vars,
                    NEW q \in Requests, Answered(q, "submit", "ok")'
             PROVE  (/\ TxOf(q) \in Txs
                     /\ call[q].intent \in Requests /\ Exists(call[q].intent)
                     /\ Executed(TxOf(q))
                     /\ StoreFaults \/ intents[call[q].intent].status # "pending")'
  BY DEF ConfirmedHasRow, ConfirmedMeansExecuted
<1> DEFINE i == call[q].intent
           t == TxOf(q)
<1>1. /\ reply'[q] # None /\ call'[q].op = "submit" /\ reply'[q].code = "ok"
      /\ TypeInv /\ TypeOK /\ FreshIds /\ RepliesAreFinal
  BY DEF Answered, HandlerInv, TypeInv
<1>2. /\ step[q] # "idle" /\ call'[q] = call[q]
      /\ \/ reply'[q] = reply[q] /\ step[q] = "done"
         \/ step[q] \in CreateSteps \cup CancelSteps
         \/ InsertPayment(q)
  BY <1>1, ReplyArrivals, CallIsStable
<1>3. step[q] \notin CreateSteps \cup CancelSteps
  BY <1>1, <1>2 DEF TypeOK, CreateCall, CancelCall
<1>4. /\ t \in Txs /\ i \in Requests /\ Exists(i) /\ Executed(t)
      /\ StoreFaults \/ intents[i].status # "pending"
  <2>1. CASE reply'[q] = reply[q] /\ step[q] = "done"
    BY <1>1, <1>2, <2>1 DEF ConfirmedHasRow, ConfirmedMeansExecuted, Answered
  <2>2. CASE InsertPayment(q)
    <3>1. step[q] = "insertPayment"
      BY <2>2 DEF InsertPayment
    <3> QED
      BY <3>1, SubmissionFacts
      DEF HandlerInv, RepliesAreReal, SettledFirst, Row, SubmitSteps
  <2> QED
    BY <1>2, <1>3, <2>1, <2>2
<1>5. chain'[t] \in {"success", "abort"}
  BY <1>1, <1>4, ExecutedIsStable DEF Executed
<1>6. intents'[i] # None /\ (StoreFaults \/ intents'[i].status # "pending")
  BY <1>1, <1>4, RowsAreStable DEF SameTerms
<1>7. TxOf(q)' = t /\ call'[q].intent = i
  BY <1>2 DEF TxOf
<1> HIDE DEF i, t
<1> QED
  BY <1>4, <1>5, <1>6, <1>7 DEF Executed, Exists

LEMMA StepSettles ==
  HandlerInv /\ PaymentBackedByChain /\ ~StoreFaults /\ PaymentSettlesIntent /\ [Next]_vars
    => PaymentSettlesIntent'
<1> SUFFICES ASSUME HandlerInv, PaymentBackedByChain, ~StoreFaults,
                    PaymentSettlesIntent, [Next]_vars,
                    NEW i \in Requests, NEW p \in Requests,
                    payments'[p] # None, payments'[p].intent = i
             PROVE  intents'[i].status # "pending"
  BY DEF PaymentSettlesIntent, PaymentsOf
<1>1. TypeInv /\ TypeOK /\ FreshIds
  BY DEF HandlerInv, TypeInv
<1>2. Exists(i) /\ intents[i].status # "pending"
  <2>1. CASE payments[p] # None /\ payments'[p] = payments[p]
    BY <2>1 DEF PaymentBackedByChain, PaymentSettlesIntent, PaymentsOf
  <2>2. CASE InsertPayment(p) /\ payments'[p] = NewPayment(p)
    <3>1. step[p] = "insertPayment" /\ call[p].intent = i
      BY <2>2 DEF InsertPayment, NewPayment
    <3> QED
      BY <3>1, SubmissionFacts DEF HandlerInv, SettledFirst, Row, SubmitSteps
  <2> QED
    BY <1>1, <2>1, <2>2, PaymentArrivals
<1> QED
  BY <1>1, <1>2, RowsAreStable DEF SameTerms

-----------------------------------------------------------------------------
(* The theorems.                                                            *)

BackedInv ==
  /\ HandlerInv
  /\ SubmittedBackedByChain
  /\ PaymentBackedByChain
  /\ ConfirmedHasRow
  /\ ConfirmedMeansExecuted

LEMMA BackedInvInit == Init => BackedInv
  BY InitHandlerInv
  DEF Init, BackedInv, SubmittedBackedByChain, PaymentBackedByChain, Exists,
      ConfirmedHasRow, ConfirmedMeansExecuted, Answered

LEMMA BackedInvStep == BackedInv /\ [Next]_vars => BackedInv'
  BY StepHandlerInv, StepSubmittedBacked, StepPaymentBacked, StepConfirmed
  DEF BackedInv

LEMMA BackedInvHolds == Spec => []BackedInv
  BY BackedInvInit, BackedInvStep, PTL DEF Spec

\* Whatever requests race, fail or die: an intent that says "submitted" carries
\* the digest of an executed transaction that was built for it.
THEOREM SubmittedIsBacked == Spec => []SubmittedBackedByChain
<1>1. BackedInv => SubmittedBackedByChain
  BY DEF BackedInv
<1> QED
  BY <1>1, BackedInvHolds, PTL

\* Whatever requests race, fail or die: a payment row names an executed
\* transaction of its intent, and the owner of that intent.
THEOREM PaymentIsBacked == Spec => []PaymentBackedByChain
<1>1. BackedInv => PaymentBackedByChain
  BY DEF BackedInv
<1> QED
  BY <1>1, BackedInvHolds, PTL

\* No client is told "confirmed" of a transaction that was not executed, nor,
\* with a reliable store, of an intent that can still be paid.
THEOREM ConfirmedIsExecuted == Spec => []ConfirmedMeansExecuted
<1>1. BackedInv => ConfirmedMeansExecuted
  BY DEF BackedInv
<1> QED
  BY <1>1, BackedInvHolds, PTL

\* With a reliable store the two writes of a submission keep their order for
\* every observer: a payment row is never seen beside a pending intent.
THEOREM PaymentSettles ==
  ASSUME ~StoreFaults
  PROVE  Spec => []PaymentSettlesIntent
<1>1. Init => BackedInv /\ PaymentSettlesIntent
  BY BackedInvInit DEF Init, PaymentSettlesIntent, PaymentsOf
<1>2. BackedInv /\ PaymentSettlesIntent /\ [Next]_vars =>
        (BackedInv /\ PaymentSettlesIntent)'
  BY BackedInvStep, StepSettles DEF BackedInv
<1> QED
  BY <1>1, <1>2, PTL DEF Spec

-----------------------------------------------------------------------------
(* Admission.                                                               *)

\* Once an intent expired or left "pending", no submission of it is admitted
\* any more, whoever asks and whatever else is under way.
THEOREM ClosedStaysClosed == Spec => ClosedAdmitsNothing
<1>1. HandlerInv /\ [Next]_vars =>
        [\A i \in Requests :
           /\ Exists(i)
           /\ intents[i].expires < clock \/ intents[i].status # "pending"
           => (InSubmission(i))' \subseteq InSubmission(i)]_vars
  <2> SUFFICES ASSUME HandlerInv, [Next]_vars, NEW i \in Requests,
                      intents[i].expires < clock \/ intents[i].status # "pending",
                      NEW q \in Requests, step'[q] \in Admitted, call'[q].intent = i
               PROVE  step[q] \in Admitted /\ call[q].intent = i
    BY DEF InSubmission, Admitted
  <2>1. \/ step[q] \in Admitted
        \/ step[q] = "admit" /\ Owned(q) /\ Pending(q) /\ ~Expired(q)
    BY Arrivals DEF HandlerInv, Arrival
  <2>2. call'[q] = call[q]
    BY <2>1, SubmissionFacts DEF Admitted, SubmitSteps
  <2>3. step[q] # "admit" \/ ~Pending(q) \/ Expired(q)
    BY <2>2 DEF Pending, Expired, Row
  <2> QED
    BY <2>1, <2>2, <2>3
<1>2. Init => BackedInv
  BY BackedInvInit
<1>3. BackedInv /\ [Next]_vars => BackedInv'
  BY BackedInvStep
<1>4. BackedInv => HandlerInv
  BY DEF BackedInv
<1> QED
  BY <1>1, <1>2, <1>3, <1>4, PTL DEF Spec, ClosedAdmitsNothing

-----------------------------------------------------------------------------
(* Idempotency keys.                                                        *)

\* A row that appears is the one a creation inserts, past the unique index.
LEMMA RowArrivals ==
  ASSUME TypeInv, [Next]_vars, NEW i \in Requests, Exists(i)'
  PROVE  \/ Exists(i)
         \/ /\ InsertIntent(i) /\ Accepted(i)
            /\ intents' = [intents EXCEPT ![i] = NewIntent(i)]
<1>1. CASE UNCHANGED intents
  BY <1>1 DEF Exists
<1>2. ASSUME NEW r \in Requests, InsertIntent(r), ~UNCHANGED intents
      PROVE  \/ Exists(i)
             \/ /\ InsertIntent(i) /\ Accepted(i)
                /\ intents' = [intents EXCEPT ![i] = NewIntent(i)]
  <2>1. Accepted(r) /\ intents' = [intents EXCEPT ![r] = NewIntent(r)]
    BY <1>2 DEF InsertIntent
  <2>2. r # i => intents'[i] = intents[i]
    BY <2>1 DEF TypeInv, TypeOK
  <2> QED
    BY <1>2, <2>1, <2>2 DEF Exists
<1>3. ASSUME NEW r \in Requests, MarkSubmitted(r) \/ MarkFailed(r) \/ MarkCancelled(r),
             ~UNCHANGED intents
      PROVE  Exists(i)
  <2>1. call[r].intent \in Requests /\ Exists(call[r].intent) /\ TypeOK
    BY <1>3, WrittenRowExists
  <2>2. \E status \in Statuses, digest \in Txs \cup {None} :
          UpdateIntentStatus(call[r].intent, status, digest)
    BY <1>3, StatusWrites DEF Statuses
  <2> QED
    BY <2>1, <2>2, UpdateIntentStatusType
<1> QED
  BY <1>1, <1>2, <1>3, IntentWriters

\* Nobody but its own handler answers a request.
LEMMA WhoReplies ==
  ASSUME TypeInv, [Next]_vars, NEW q \in Requests, reply'[q] # reply[q]
  PROVE  Serve(q)
<1>1. \A r \in Requests : Serve(r) =>
        \/ UNCHANGED reply
        \/ \E code \in Codes, i \in Requests \cup {None} : Answer(r, code, i)
  <2> SUFFICES ASSUME NEW r \in Requests
               PROVE  Serve(r) =>
                        \/ UNCHANGED reply
                        \/ \E code \in Codes, i \in Requests \cup {None} :
                             Answer(r, code, i)
    OBVIOUS
  <2> USE DEF Refuse, Codes
  <2>1. ReserveKey(r) \/ AdmitSubmit(r) \/ Relay(r) \/ RelayReturns(r) =>
          \/ UNCHANGED reply
          \/ \E code \in Codes, i \in Requests \cup {None} : Answer(r, code, i)
    BY DEF ReserveKey, AdmitSubmit, Relay, RelayReturns
  <2>2. LookupKey(r) \/ InsertIntent(r) =>
          \/ UNCHANGED reply
          \/ \E code \in Codes, i \in Requests \cup {None} : Answer(r, code, i)
    BY DEF LookupKey, InsertIntent, WithKey
  <2>3. \/ MarkSubmitted(r) \/ MarkFailed(r) \/ CheckCancel(r) =>
          \/ UNCHANGED reply
          \/ \E code \in Codes, i \in Requests \cup {None} : Answer(r, code, i)
    BY DEF MarkSubmitted, MarkFailed, CheckCancel
  <2>4. ASSUME InsertPayment(r) \/ MarkCancelled(r)
        PROVE  \E code \in Codes, i \in Requests \cup {None} : Answer(r, code, i)
    <3>1. call[r].intent \in Requests
      BY <2>4 DEF InsertPayment, MarkCancelled, TypeInv, TypeOK, SubmitSteps,
         CancelSteps, SubmitCall, CancelCall
    <3> QED
      BY <2>4, <3>1 DEF InsertPayment, MarkCancelled
  <2> HIDE DEF Refuse, Codes
  <2> QED
    BY <2>1, <2>2, <2>3, <2>4 DEF Serve
<1>2. UNCHANGED reply \/ \E r \in Requests : Serve(r)
  BY DEF Next, vars, RelayBreaks, Crash, Ask, StartCreate, StartSubmit, StartCancel,
     Execute, ExpireKey, Tick
<1>3. ASSUME NEW r \in Requests, NEW code, NEW i, Answer(r, code, i) PROVE r = q
  BY <1>3 DEF Answer, TypeInv, TypeOK
<1> QED
  BY <1>1, <1>2, <1>3

\* A creation is answered "ok" for the row it found or for the one it inserted.
LEMMA CreateAnswers ==
  ASSUME TypeInv, RepliesAreFinal, [Next]_vars, NEW q \in Requests,
         step[q] \in CreateSteps, reply'[q] # None, reply'[q].code = "ok"
  PROVE  LET i == reply'[q].intent IN
         \/ i \in WithKey(call[q].key) /\ UNCHANGED intents
         \/ /\ i = q /\ Accepted(q)
            /\ intents' = [intents EXCEPT ![q] = NewIntent(q)]
<1> DEFINE i == reply'[q].intent
<1>1. reply[q] = None
  BY DEF RepliesAreFinal, CreateSteps
<1>2. Serve(q)
  BY <1>1, WhoReplies
<1>3. ReserveKey(q) \/ LookupKey(q) \/ InsertIntent(q)
  BY <1>2 DEF Serve, CreateSteps, AdmitSubmit, Relay, RelayReturns, MarkSubmitted,
     InsertPayment, MarkFailed, CheckCancel, MarkCancelled
<1>4. ASSUME NEW code, NEW j, Answer(q, code, j)
      PROVE  code = "ok" /\ j = i
  BY <1>4 DEF Answer, TypeInv, TypeOK
<1>5. ASSUME NEW code, Refuse(q, code) PROVE code = "ok"
  BY <1>4, <1>5 DEF Refuse
<1>6. CASE ReserveKey(q)
  BY <1>1, <1>5, <1>6 DEF ReserveKey
<1>7. CASE LookupKey(q)
  BY <1>1, <1>4, <1>5, <1>7 DEF LookupKey
<1>8. CASE InsertIntent(q)
  BY <1>1, <1>4, <1>5, <1>8 DEF InsertIntent
<1> QED
  BY <1>3, <1>6, <1>7, <1>8

\* The unique index on the key, and whose keys they are.
UniqueKeys ==
  \A i, j \in Requests :
    Exists(i) /\ Exists(j) /\ intents[i].key = intents[j].key => i = j

OwnKeys ==
  /\ \A i \in Requests : Exists(i) => intents[i].key[1] = intents[i].owner
  /\ \A r \in Requests : step[r] # "idle" /\ call[r].op = "create" =>
       call[r].key[1] = call[r].user

\* A successful creation names a row with its key.
CreationsHaveRows ==
  \A r \in Requests : Answered(r, "create", "ok") =>
    LET i == reply[r].intent IN
    i \in Requests /\ Exists(i) /\ intents[i].key = call[r].key

KeyInv ==
  /\ TypeInv /\ FreshIds /\ RepliesAreFinal
  /\ UniqueKeys /\ OwnKeys /\ CreationsHaveRows

LEMMA StepUniqueKeys == KeyInv /\ [Next]_vars => UniqueKeys'
<1> SUFFICES ASSUME KeyInv, [Next]_vars,
                    NEW i \in Requests, NEW j \in Requests, Exists(i)', Exists(j)',
                    intents'[i].key = intents'[j].key, i # j
             PROVE  FALSE
  BY DEF UniqueKeys
<1>1. TypeInv /\ TypeOK /\ FreshIds
  BY DEF KeyInv, TypeInv
<1>2. CASE Exists(i) /\ Exists(j)
  BY <1>1, <1>2, RowsAreStable DEF SameTerms, KeyInv, UniqueKeys
<1>3. ASSUME NEW n \in Requests, NEW o \in Requests, n # o, ~Exists(n), Exists(n)',
             Exists(o)', intents'[n].key = intents'[o].key
      PROVE  FALSE
  <2>1. Accepted(n) /\ intents' = [intents EXCEPT ![n] = NewIntent(n)]
    BY <1>1, <1>3, RowArrivals
  <2>2. intents'[o] = intents[o] /\ intents'[n] = NewIntent(n)
    BY <1>1, <1>3, <2>1 DEF TypeOK
  <2>3. Exists(o) /\ intents[o].key = call[n].key
    BY <1>3, <2>2 DEF Exists, NewIntent
  <2> QED
    BY <2>1, <2>3 DEF Accepted, WithKey
<1> QED
  BY <1>2, <1>3

\* A call changes when a client makes it.
LEMMA CallArrivals ==
  ASSUME TypeInv, [Next]_vars, NEW q \in Requests, call'[q] # call[q]
  PROVE  \E u \in Users : Ask(q, u)
<1>1. UNCHANGED call \/ \E r \in Requests, u \in Users : Ask(r, u)
  BY DEF Next, Serve, vars, ReserveKey, LookupKey, InsertIntent, AdmitSubmit,
     Relay, Execute, RelayReturns, RelayBreaks, MarkSubmitted, InsertPayment,
     MarkFailed, CheckCancel, MarkCancelled, Crash, ExpireKey, Tick
<1>2. ASSUME NEW r \in Requests, NEW u \in Users, Ask(r, u) PROVE r = q
  BY <1>2 DEF Ask, StartCreate, StartSubmit, StartCancel, TypeInv, TypeOK
<1> QED
  BY <1>1, <1>2

LEMMA StepOwnKeys == KeyInv /\ [Next]_vars => OwnKeys'
<1> SUFFICES ASSUME KeyInv, [Next]_vars PROVE OwnKeys'
  OBVIOUS
<1>1. TypeInv /\ TypeOK /\ FreshIds /\ OwnKeys
  BY DEF KeyInv, TypeInv
<1>2. ASSUME NEW i \in Requests, Exists(i)'
      PROVE  intents'[i].key[1] = intents'[i].owner
  <2>1. CASE Exists(i)
    BY <1>1, <2>1, RowsAreStable DEF SameTerms, OwnKeys
  <2>2. CASE InsertIntent(i) /\ intents' = [intents EXCEPT ![i] = NewIntent(i)]
    <3>1. step[i] # "idle" /\ call[i].op = "create"
      BY <1>1, <2>2 DEF InsertIntent, TypeOK, CreateSteps, CreateCall
    <3>2. intents'[i].key = call[i].key /\ intents'[i].owner = call[i].user
      BY <1>1, <2>2 DEF TypeOK, NewIntent
    <3> QED
      BY <1>1, <3>1, <3>2 DEF OwnKeys
  <2> QED
    BY <1>1, <1>2, <2>1, <2>2, RowArrivals
<1>3. ASSUME NEW r \in Requests, step'[r] # "idle", call'[r].op = "create"
      PROVE  call'[r].key[1] = call'[r].user
  <2>1. CASE step[r] # "idle"
    BY <1>1, <1>3, <2>1, CallIsStable DEF OwnKeys
  <2>2. CASE step[r] = "idle"
    <3>1. call'[r] # None /\ call[r] = None
      BY <1>1, <1>3, <2>2, StepTypeInv DEF TypeInv, TypeOK
    <3>2. PICK u \in Users : Ask(r, u)
      BY <1>1, <3>1, CallArrivals
    <3> QED
      BY <1>1, <1>3, <3>2
      DEF Ask, StartCreate, StartSubmit, StartCancel, SubmitCall, CancelCall, TypeOK
  <2> QED
    BY <2>1, <2>2
<1> QED
  BY <1>2, <1>3 DEF OwnKeys

LEMMA StepCreations == KeyInv /\ [Next]_vars => CreationsHaveRows'
<1> SUFFICES ASSUME KeyInv, [Next]_vars, NEW r \in Requests,
                    Answered(r, "create", "ok")'
             PROVE  /\ reply'[r].intent \in Requests
                    /\ intents'[reply'[r].intent] # None
                    /\ intents'[reply'[r].intent].key = call'[r].key
  BY DEF CreationsHaveRows, Exists
<1> DEFINE i == reply'[r].intent
<1>1. /\ TypeInv /\ TypeOK /\ FreshIds /\ RepliesAreFinal /\ CreationsHaveRows
      /\ reply'[r] # None /\ call'[r].op = "create" /\ reply'[r].code = "ok"
  BY DEF KeyInv, TypeInv, Answered
<1>2. /\ step[r] # "idle" /\ call'[r] = call[r]
      /\ \/ reply'[r] = reply[r] /\ step[r] = "done"
         \/ step[r] \in CreateSteps \cup CancelSteps
         \/ InsertPayment(r)
  BY <1>1, ReplyArrivals, CallIsStable
<1>3. step[r] \notin CancelSteps /\ ~InsertPayment(r)
  BY <1>1, <1>2 DEF TypeOK, CancelCall, SubmitCall, InsertPayment, SubmitSteps
<1>4. CASE i \in Requests /\ Exists(i) /\ intents[i].key = call[r].key
  BY <1>1, <1>2, <1>4, RowsAreStable DEF SameTerms, Exists
<1>5. CASE reply'[r] = reply[r]
  BY <1>1, <1>2, <1>4, <1>5 DEF CreationsHaveRows, Answered
<1>6. CASE step[r] \in CreateSteps
  <2>1. \/ i \in WithKey(call[r].key)
        \/ i = r /\ Accepted(r) /\ intents' = [intents EXCEPT ![r] = NewIntent(r)]
    BY <1>1, <1>6, CreateAnswers
  <2>2. CASE i = r /\ Accepted(r) /\ intents' = [intents EXCEPT ![r] = NewIntent(r)]
    <3>1. NewIntent(r) # None
      BY <1>1, <1>6, <2>2, NewIntentType
    <3>2. intents'[r] = NewIntent(r) /\ NewIntent(r).key = call[r].key
      BY <1>1, <2>2 DEF TypeOK, NewIntent
    <3> QED
      BY <1>2, <2>2, <3>1, <3>2 DEF Exists
  <2> QED
    BY <1>4, <2>1, <2>2 DEF WithKey
<1> QED
  BY <1>2, <1>3, <1>5, <1>6

\* However creations race, fail and are repeated, with one key there is one
\* intent, and every successful answer names it to the user who owns it.
THEOREM OneIntentPerKey == Spec => []SameKeySameIntent
<1>1. Init => KeyInv
  BY InitTypeInv DEF Init, KeyInv, FreshIds, RepliesAreFinal, UniqueKeys, OwnKeys,
     CreationsHaveRows, Exists, Answered
<1>2. KeyInv /\ [Next]_vars => KeyInv'
  BY StepTypeInv, StepFreshIds, StepUniqueKeys, StepOwnKeys, StepCreations, ReplyArrivals
  DEF KeyInv, RepliesAreFinal
<1>3. KeyInv => SameKeySameIntent
  <2> SUFFICES ASSUME KeyInv, NEW r \in Requests, NEW q \in Requests,
                      Answered(r, "create", "ok"), Answered(q, "create", "ok"),
                      call[r].key = call[q].key
               PROVE  /\ reply[r].intent = reply[q].intent
                      /\ GetIntent(reply[r].intent, call[r].user) # None
                      /\ intents[reply[r].intent].key = call[r].key
    BY DEF SameKeySameIntent
  <2>1. /\ reply[r].intent \in Requests /\ Exists(reply[r].intent)
        /\ reply[q].intent \in Requests /\ Exists(reply[q].intent)
        /\ intents[reply[r].intent].key = call[r].key
        /\ intents[reply[q].intent].key = call[q].key
    BY DEF KeyInv, CreationsHaveRows
  <2>2. step[r] # "idle" /\ call[r].op = "create"
    BY DEF KeyInv, RepliesAreFinal, Answered
  <2>3. intents[reply[r].intent].owner = call[r].user
    BY <2>1, <2>2 DEF KeyInv, OwnKeys
  <2> QED
    BY <2>1, <2>3 DEF KeyInv, UniqueKeys, GetIntent, Exists
<1> QED
  BY <1>1, <1>2, <1>3, PTL DEF Spec

=============================================================================
