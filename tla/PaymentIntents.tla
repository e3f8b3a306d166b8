--------------------------- MODULE PaymentIntents ---------------------------
(***************************************************************************)
(* The payment intents of the API: internal/domain/payment together with   *)
(* the Idempotency middleware in front of it, the two PostgreSQL tables it *)
(* writes (payment_intents, payments) and the Sui chain it relays to.      *)
(*                                                                         *)
(* A request is a goroutine of the HTTP server.  It runs its handler one   *)
(* store or network call at a time, so an action is one such call with the *)
(* code that follows it up to the next one; requests interleave at those   *)
(* points.  Nothing in the code locks a row or wraps two statements in a   *)
(* transaction.  An identifier drawn with utils.NewID() is named by the    *)
(* request that drew it: the intent of create request r is intent r, the   *)
(* payment of submit request r is payment r.                               *)
(*                                                                         *)
(* A definition X_Y before a definition X is a mutation of X: no           *)
(* specification uses it, and putting it in the place of X must violate a  *)
(* property.                                                               *)
(***************************************************************************)
EXTENDS Integers, FiniteSets

CONSTANTS
  Requests,    \* HTTP requests, each used for one call
  Users,       \* authenticated users
  MaxKeys,     \* bound: idempotency keys a user's client draws
  Modes,       \* funding modes clients ask for, a subset of AllModes
  MaxTx,       \* bound: distinct transactions a client builds for one intent
  IntentTTL,   \* intentTTL, in clock ticks
  MaxTime,     \* bound: last value of the clock
  Concurrent,  \* may a user have several calls outstanding?
  StoreFaults, \* may a PostgreSQL or Redis call fail?
  RpcFaults,   \* may the reply of the Sui node be lost?
  Crashes,     \* may a request die half way (crash, redeploy, panic)?
  None         \* no intent, no digest

AllModes == {"user_paid", "sponsored", "unsupported"}

ASSUME BoundsAssumption ==
  /\ MaxKeys \in Nat
  /\ MaxTx \in Nat
  /\ IntentTTL \in Nat
  /\ MaxTime \in Nat

ASSUME ConstantsAssumption ==
  /\ Modes \subseteq AllModes
  /\ Concurrent \in BOOLEAN
  /\ StoreFaults \in BOOLEAN
  /\ RpcFaults \in BOOLEAN
  /\ Crashes \in BOOLEAN

\* A client draws its keys at random, so no two users share one.
Keys == Users \X (1 .. MaxKeys)

\* A signed transaction; its digest is the transaction itself.  A client
\* builds a transaction for one intent, and may build a second one.
Txs == [intent: Requests, n: 1 .. MaxTx]

\* What a client may put in txBytes: a signed transaction, bytes too short for
\* the slice txBytes[:32], or text that is not base64.
Bytes == {"signed", "short", "malformed"}

Statuses == {"pending", "submitted", "failed", "cancelled"}

VARIABLES
  intents,  \* table payment_intents: id -> row or None
  payments, \* table payments: id -> row or None
  redis,    \* the keys "idempotency:<header>" that Redis holds
  chain,    \* Sui: transaction -> what became of it
  clock,    \* utils.NowUnix()
  call,     \* request -> what the client asked, None before it is sent
  step,     \* request -> the next store or network call of its handler
  stamp,    \* request -> the time CreateIntent read
  reply     \* request -> what the client was answered

vars == <<intents, payments, redis, chain, clock, call, step, stamp, reply>>

Intent == [owner: Users, key: Keys, mode: {"user_paid", "sponsored"},
           status: Statuses, digest: Txs \cup {None}, expires: Nat]

Payment == [intent: Requests, user: Users, digest: Txs]

CreateCall == [op: {"create"}, user: Users, header: Keys, key: Keys,
               mode: AllModes, valid: BOOLEAN]
SubmitCall == [op: {"submit"}, user: Users, intent: Requests,
               bytes: Bytes, n: 1 .. MaxTx]
CancelCall == [op: {"cancel"}, user: Users, intent: Requests]

CreateSteps == {"reserve", "lookup", "insert"}
SubmitSteps == {"admit", "relay", "await", "markSubmitted", "insertPayment",
                "markFailed"}
CancelSteps == {"check", "markCancelled"}
Running     == CreateSteps \cup SubmitSteps \cup CancelSteps

Codes == {"ok", "bad_request", "idempotent_replay", "not_found", "not_pending",
          "expired", "submit_failed", "internal"}
Answers == [code: Codes, intent: Requests \cup {None}]

\* None is no value that a table, an answer or a call can hold.
ASSUME NoneAssumption ==
  /\ None \notin Requests /\ None \notin Txs
  /\ None \notin Intent /\ None \notin Payment /\ None \notin Answers
  /\ None \notin CreateCall /\ None \notin SubmitCall /\ None \notin CancelCall

TypeOK ==
  /\ intents  \in [Requests -> Intent \cup {None}]
  /\ payments \in [Requests -> Payment \cup {None}]
  /\ redis \subseteq Keys
  /\ chain \in [Txs -> {"unsent", "sent", "success", "abort"}]
  /\ clock \in Nat
  /\ call  \in [Requests -> CreateCall \cup SubmitCall \cup CancelCall \cup {None}]
  /\ step  \in [Requests -> Running \cup {"idle", "done", "lost"}]
  /\ stamp \in [Requests -> Nat]
  /\ reply \in [Requests -> Answers \cup {None}]
  /\ \A r \in Requests :
       /\ step[r] = "idle" <=> call[r] = None
       /\ step[r] \in CreateSteps => call[r] \in CreateCall
       /\ step[r] \in SubmitSteps => call[r] \in SubmitCall
       /\ step[r] \in CancelSteps => call[r] \in CancelCall
       /\ step[r] \in SubmitSteps \ {"admit"} => call[r].bytes # "malformed"
       /\ step[r] \in {"await", "markSubmitted", "insertPayment"} =>
            call[r].bytes = "signed"

Init ==
  /\ intents  = [r \in Requests |-> None]
  /\ payments = [r \in Requests |-> None]
  /\ redis = {}
  /\ chain = [t \in Txs |-> "unsent"]
  /\ clock = 0
  /\ call  = [r \in Requests |-> None]
  /\ step  = [r \in Requests |-> "idle"]
  /\ stamp = [r \in Requests |-> 0]
  /\ reply = [r \in Requests |-> None]

-----------------------------------------------------------------------------
(* Helpers.                                                                *)

Exists(i) == intents[i] # None

\* "payment_intents.idempotency_key UNIQUE" and the lookup by that column.
WithKey(k) == {i \in Requests : Exists(i) /\ intents[i].key = k}

\* "payments.intent_id UNIQUE".
PaymentsOf(i) == {p \in Requests : payments[p] # None /\ payments[p].intent = i}

Executed(t) == chain[t] \in {"success", "abort"}

\* The transaction a submit request carries.
TxOf(r) == [intent |-> call[r].intent, n |-> call[r].n]

UpdateIntentStatus_KeepsDigest(i, status, digest) ==
  intents' = [intents EXCEPT ![i].status = status]

\* UpdateIntentStatus: UPDATE ... WHERE id = $4, whatever the row holds now.
UpdateIntentStatus(i, status, digest) ==
  intents' = [intents EXCEPT ![i].status = status, ![i].digest = digest]

Goto(r, next) == step' = [step EXCEPT ![r] = next]

Answer(r, code, i) ==
  /\ Goto(r, "done")
  /\ reply' = [reply EXCEPT ![r] = [code |-> code, intent |-> i]]

Refuse(r, code) == Answer(r, code, None)

\* A client that awaits each answer has one call outstanding at a time.
MayCall(r, u) ==
  /\ step[r] = "idle"
  /\ Concurrent \/ \A q \in Requests :
                     step[q] \in Running => call[q].user # u

-----------------------------------------------------------------------------
(* POST /v1/payments/intents                                               *)

StartCreate(r, u) ==
  /\ MayCall(r, u)
  /\ \E c \in CreateCall :
       /\ c.user = u /\ c.header[1] = u /\ c.key[1] = u /\ c.mode \in Modes
       /\ call' = [call EXCEPT ![r] = c]
  /\ Goto(r, "reserve")
  /\ UNCHANGED <<intents, payments, redis, chain, clock, stamp, reply>>

\* Idempotency: SETNX on the header key, before the handler runs.  Nothing
\* deletes the key again, whatever the handler answers.
ReserveKey(r) ==
  /\ step[r] = "reserve"
  /\ \/ /\ call[r].header \notin redis
        /\ redis' = redis \cup {call[r].header}
        /\ Goto(r, "lookup")
        /\ UNCHANGED reply
     \/ /\ call[r].header \in redis
        /\ Refuse(r, "idempotent_replay")
        /\ UNCHANGED redis
     \/ /\ StoreFaults
        /\ redis' \in {redis, redis \cup {call[r].header}}
        /\ Refuse(r, "internal")
  /\ UNCHANGED <<intents, payments, chain, clock, call, stamp>>

\* The validation, then GetIntentByIdempotencyKey: a row with this key is the
\* answer, as it is.
LookupKey(r) ==
  /\ step[r] = "lookup"
  /\ LET found == WithKey(call[r].key) IN
     \/ /\ ~call[r].valid
        /\ Refuse(r, "bad_request")
        /\ UNCHANGED stamp
     \/ /\ call[r].valid
        /\ \E i \in found : Answer(r, "ok", i)
        /\ UNCHANGED stamp
     \/ /\ call[r].valid
        /\ found = {}
        /\ stamp' = [stamp EXCEPT ![r] = clock]
        /\ Goto(r, "insert")
        /\ UNCHANGED reply
     \/ /\ StoreFaults
        /\ call[r].valid
        /\ Refuse(r, "internal")
        /\ UNCHANGED stamp
  /\ UNCHANGED <<intents, payments, redis, chain, clock, call>>

NewIntent(r) ==
  [owner |-> call[r].user, key |-> call[r].key, mode |-> call[r].mode,
   status |-> "pending", digest |-> None, expires |-> stamp[r] + IntentTTL]

Accepted_AnyKey(r) == call[r].mode # "unsupported"

\* UNIQUE(idempotency_key) and CHECK(funding_mode).
Accepted(r) == WithKey(call[r].key) = {} /\ call[r].mode # "unsupported"

\* INSERT.  It may also be applied and its acknowledgement lost.
InsertIntent(r) ==
  /\ step[r] = "insert"
  /\ \/ /\ Accepted(r)
        /\ intents' = [intents EXCEPT ![r] = NewIntent(r)]
        /\ \/ Answer(r, "ok", r)
           \/ StoreFaults /\ Refuse(r, "internal")
     \/ /\ ~Accepted(r) \/ StoreFaults
        /\ Refuse(r, "internal")
        /\ UNCHANGED intents
  /\ UNCHANGED <<payments, redis, chain, clock, call, stamp>>

-----------------------------------------------------------------------------
(* POST /v1/payments/intents/{id}/submit                                   *)

StartSubmit(r, u) ==
  /\ MayCall(r, u)
  /\ \E c \in SubmitCall :
       /\ c.user = u
       /\ Exists(c.intent)
       /\ c.bytes # "signed" => c.n = 1
       /\ call' = [call EXCEPT ![r] = c]
  /\ Goto(r, "admit")
  /\ UNCHANGED <<intents, payments, redis, chain, clock, stamp, reply>>

Row(r) == intents[call[r].intent]

Owned_Anyone(r) == TRUE
Owned(r) == Row(r).owner = call[r].user

Pending_Unchecked(r) == TRUE
Pending_OrFailed(r) == Row(r).status \in {"pending", "failed"}
Pending(r) == Row(r).status = "pending"

Expired_OffByOne(r) == Row(r).expires + 1 < clock
Expired(r) == Row(r).expires < clock

\* GetIntentByID and the checks on the row it returned.
AdmitSubmit(r) ==
  /\ step[r] = "admit"
  /\ \/ ~Owned(r) /\ Refuse(r, "not_found")
     \/ Owned(r) /\ ~Pending(r) /\ Refuse(r, "not_pending")
     \/ Owned(r) /\ Pending(r) /\ Expired(r) /\ Refuse(r, "expired")
     \/ /\ Owned(r) /\ Pending(r) /\ ~Expired(r)
        /\ call[r].bytes = "malformed"
        /\ Refuse(r, "internal")
     \/ /\ Owned(r) /\ Pending(r) /\ ~Expired(r)
        /\ call[r].bytes # "malformed"
        /\ Goto(r, "relay")
        /\ UNCHANGED reply
     \/ StoreFaults /\ Refuse(r, "internal")
  /\ UNCHANGED <<intents, payments, redis, chain, clock, call, stamp>>

\* SubmitSponsoredTransaction or RelayUserTransaction up to the HTTP request
\* to the node.  txBytes[:32] panics on short bytes in the sponsored mode and
\* middleware.Recovery answers 500.  The AVS, or the node, may turn the
\* transaction down: then nothing reaches the chain.
Relay(r) ==
  /\ step[r] = "relay"
  /\ LET short  == call[r].bytes = "short"
         panics == short /\ Row(r).mode = "sponsored"
     IN
     \/ panics /\ Refuse(r, "internal") /\ UNCHANGED chain
     \/ /\ ~panics
        /\ Goto(r, "markFailed")
        /\ UNCHANGED <<chain, reply>>
     \/ /\ ~short
        /\ chain' = [chain EXCEPT ![TxOf(r)] = IF @ = "unsent" THEN "sent" ELSE @]
        /\ Goto(r, "await")
        /\ UNCHANGED reply
  /\ UNCHANGED <<intents, payments, redis, clock, call, stamp>>

\* Sui executes a transaction at most once, with success or abort effects.
Execute(t) ==
  /\ chain[t] = "sent"
  /\ \E effects \in {"success", "abort"} : chain' = [chain EXCEPT ![t] = effects]
  /\ UNCHANGED <<intents, payments, redis, clock, call, step, stamp, reply>>

RelayReturns_ToPayment(r) ==
  /\ step[r] = "await"
  /\ Executed(TxOf(r))
  /\ Goto(r, "insertPayment")
  /\ UNCHANGED <<intents, payments, redis, chain, clock, call, stamp, reply>>

RelayReturns_ReadsAgain(r) ==
  /\ step[r] = "await"
  /\ Executed(TxOf(r))
  /\ IF Pending(r) THEN Goto(r, "markSubmitted") /\ UNCHANGED reply
                   ELSE Refuse(r, "not_pending")
  /\ UNCHANGED <<intents, payments, redis, chain, clock, call, stamp>>

\* The node answers with the digest; SubmitIntent never reads the effects.
RelayReturns(r) ==
  /\ step[r] = "await"
  /\ Executed(TxOf(r))
  /\ Goto(r, "markSubmitted")
  /\ UNCHANGED <<intents, payments, redis, chain, clock, call, stamp, reply>>

RelayBreaks_Ignored(r) ==
  /\ RpcFaults
  /\ step[r] = "await"
  /\ Goto(r, "markSubmitted")
  /\ UNCHANGED <<intents, payments, redis, chain, clock, call, stamp, reply>>

\* The reply is lost: the request ends in an error, the transaction does not.
RelayBreaks(r) ==
  /\ RpcFaults
  /\ step[r] = "await"
  /\ Goto(r, "markFailed")
  /\ UNCHANGED <<intents, payments, redis, chain, clock, call, stamp, reply>>

\* Its error is ignored, so the handler goes on whether the row changed or not.
MarkSubmitted(r) ==
  /\ step[r] = "markSubmitted"
  /\ \/ UpdateIntentStatus(call[r].intent, "submitted", TxOf(r))
     \/ StoreFaults /\ UNCHANGED intents
  /\ Goto(r, "insertPayment")
  /\ UNCHANGED <<payments, redis, chain, clock, call, stamp, reply>>

NewPayment(r) ==
  [intent |-> call[r].intent, user |-> call[r].user, digest |-> TxOf(r)]

InsertPayment_Stuck(r) ==
  /\ step[r] = "insertPayment"
  /\ PaymentsOf(call[r].intent) = {}
  /\ payments' = [payments EXCEPT ![r] = NewPayment(r)]
  /\ Answer(r, "ok", call[r].intent)
  /\ UNCHANGED <<intents, redis, chain, clock, call, stamp>>

\* INSERT, refused by UNIQUE(intent_id); the error is ignored again and the
\* client is told "confirmed" with payment id r.
InsertPayment(r) ==
  /\ step[r] = "insertPayment"
  /\ \/ /\ PaymentsOf(call[r].intent) = {}
        /\ payments' = [payments EXCEPT ![r] = NewPayment(r)]
     \/ /\ PaymentsOf(call[r].intent) # {} \/ StoreFaults
        /\ UNCHANGED payments
  /\ Answer(r, "ok", call[r].intent)
  /\ UNCHANGED <<intents, redis, chain, clock, call, stamp>>

MarkFailed_Reopens(r) ==
  /\ step[r] = "markFailed"
  /\ UpdateIntentStatus(call[r].intent, "pending", None)
  /\ Refuse(r, "submit_failed")
  /\ UNCHANGED <<payments, redis, chain, clock, call, stamp>>

MarkFailed(r) ==
  /\ step[r] = "markFailed"
  /\ \/ UpdateIntentStatus(call[r].intent, "failed", None)
     \/ StoreFaults /\ UNCHANGED intents
  /\ Refuse(r, "submit_failed")
  /\ UNCHANGED <<payments, redis, chain, clock, call, stamp>>

-----------------------------------------------------------------------------
(* POST /v1/payments/intents/{id}/cancel                                   *)

StartCancel(r, u) ==
  /\ MayCall(r, u)
  /\ \E c \in CancelCall :
       /\ c.user = u
       /\ Exists(c.intent)
       /\ call' = [call EXCEPT ![r] = c]
  /\ Goto(r, "check")
  /\ UNCHANGED <<intents, payments, redis, chain, clock, stamp, reply>>

CheckCancel(r) ==
  /\ step[r] = "check"
  /\ \/ ~Owned(r) /\ Refuse(r, "not_found")
     \/ Owned(r) /\ ~Pending(r) /\ Refuse(r, "not_pending")
     \/ Owned(r) /\ Pending(r) /\ Goto(r, "markCancelled") /\ UNCHANGED reply
     \/ StoreFaults /\ Refuse(r, "internal")
  /\ UNCHANGED <<intents, payments, redis, chain, clock, call, stamp>>

MarkCancelled(r) ==
  /\ step[r] = "markCancelled"
  /\ \/ /\ UpdateIntentStatus(call[r].intent, "cancelled", None)
        /\ \/ Answer(r, "ok", call[r].intent)
           \/ StoreFaults /\ Refuse(r, "internal")
     \/ /\ StoreFaults
        /\ Refuse(r, "internal")
        /\ UNCHANGED intents
  /\ UNCHANGED <<payments, redis, chain, clock, call, stamp>>

-----------------------------------------------------------------------------
(* GET /v1/payments/intents/{id} and GET /v1/payments/{id}: what a read    *)
(* would return now.                                                       *)

GetIntent(i, u) ==
  IF Exists(i) /\ intents[i].owner = u THEN intents[i] ELSE None

GetPayment(p, u) ==
  IF payments[p] # None /\ payments[p].user = u THEN payments[p] ELSE None

-----------------------------------------------------------------------------
(* The environment.                                                        *)

\* The server process dies or is replaced: the request ends where it is and
\* the client hears nothing.
Crash(r) ==
  /\ Crashes
  /\ step[r] \in Running
  /\ Goto(r, "lost")
  /\ UNCHANGED <<intents, payments, redis, chain, clock, call, stamp, reply>>

\* Redis drops a reserved key after idempotencyTTL, 24 hours.
ExpireKey(k) ==
  /\ k \in redis
  /\ redis' = redis \ {k}
  /\ UNCHANGED <<intents, payments, chain, clock, call, step, stamp, reply>>

Tick ==
  /\ clock < MaxTime
  /\ clock' = clock + 1
  /\ UNCHANGED <<intents, payments, redis, chain, call, step, stamp, reply>>

Serve(r) ==
  \/ ReserveKey(r) \/ LookupKey(r) \/ InsertIntent(r)
  \/ AdmitSubmit(r) \/ Relay(r) \/ RelayReturns(r)
  \/ MarkSubmitted(r) \/ InsertPayment(r) \/ MarkFailed(r)
  \/ CheckCancel(r) \/ MarkCancelled(r)

Ask(r, u) == StartCreate(r, u) \/ StartSubmit(r, u) \/ StartCancel(r, u)

Next ==
  \/ \E r \in Requests : Serve(r) \/ RelayBreaks(r) \/ Crash(r)
  \/ \E r \in Requests, u \in Users : Ask(r, u)
  \/ \E t \in Txs : Execute(t)
  \/ \E k \in Keys : ExpireKey(k)
  \/ Tick

Spec == Init /\ [][Next]_vars

\* The Go scheduler runs every goroutine, and a node that holds a valid
\* transaction executes it.  Clients, faults, crashes and the clock owe nothing.
Fairness ==
  /\ \A r \in Requests : WF_vars(Serve(r))
  /\ \A t \in Txs : WF_vars(Execute(t))

FairSpec == Spec /\ Fairness

-----------------------------------------------------------------------------
(* Properties.                                                             *)

Sent(i) == {t \in Txs : t.intent = i /\ chain[t] # "unsent"}

Answered(r, op, code) ==
  reply[r] # None /\ call[r].op = op /\ reply[r].code = code

\* A row of the payments table says that a transaction built for its intent is
\* on the chain, and belongs to the owner of the intent: SubmitIntent inserts
\* the row after the relay answered, whatever other requests and faults did
\* to the intent in between.
PaymentBackedByChain ==
  \A p \in Requests : payments[p] # None =>
    LET pay == payments[p] IN
    /\ Executed(pay.digest)
    /\ pay.digest.intent = pay.intent
    /\ Exists(pay.intent) /\ intents[pay.intent].owner = pay.user

\* An intent whose row says "submitted" carries the digest of an executed
\* transaction built for it, and no other status carries a digest: the two
\* columns are always written together by UpdateIntentStatus.
SubmittedBackedByChain ==
  \A i \in Requests : Exists(i) =>
    IF intents[i].status = "submitted"
      THEN /\ intents[i].digest # None
           /\ Executed(intents[i].digest)
           /\ intents[i].digest.intent = i
      ELSE intents[i].digest = None

\* However creations with one idempotency key race, fail and are repeated after
\* Redis dropped the header key, all their successful answers name one and the
\* same intent, which has that key and that owner (service.go:52-58).
SameKeySameIntent ==
  \A r, q \in Requests :
    /\ Answered(r, "create", "ok")
    /\ Answered(q, "create", "ok")
    /\ call[r].key = call[q].key
    => /\ reply[r].intent = reply[q].intent
       /\ GetIntent(reply[r].intent, call[r].user) # None
       /\ intents[reply[r].intent].key = call[r].key

\* A submission is answered "confirmed" only for a transaction that the chain
\* executed, and after its intent left "pending" or the status update failed.
ConfirmedMeansExecuted ==
  \A r \in Requests : Answered(r, "submit", "ok") =>
    /\ Executed(TxOf(r))
    /\ StoreFaults \/ intents[call[r].intent].status # "pending"

\* While PostgreSQL accepts every write, the payment row appears only after its
\* intent left "pending", even when the request dies between the two writes.
PaymentSettlesIntent ==
  \A i \in Requests :
    PaymentsOf(i) # {} => intents[i].status # "pending"

\* An intent that left "pending" never returns to it, so it is submitted again
\* by no request that has not yet read it; and nothing rewrites the columns the
\* owner agreed to.
PendingIsLeftForGood ==
  [][\A i \in Requests : Exists(i) =>
       /\ intents[i].status # "pending" => intents'[i].status # "pending"
       /\ intents'[i].owner = intents[i].owner
       /\ intents'[i].key = intents[i].key
       /\ intents'[i].expires = intents[i].expires]_vars

InSubmission(i) ==
  {r \in Requests : step[r] \in SubmitSteps \ {"admit"} /\ call[r].intent = i}

\* Once an intent is past its expiry or out of "pending", no further submission
\* of it passes the checks: only those already under way may still reach the
\* chain (service.go:123-128).
ClosedAdmitsNothing ==
  [][\A i \in Requests :
       /\ Exists(i)
       /\ intents[i].expires < clock \/ intents[i].status # "pending"
       => (InSubmission(i))' \subseteq InSubmission(i)]_vars

\* A client that awaits each answer pays an intent with one transaction at
\* most, as long as the store works and no request dies: an ambiguous reply of
\* the node closes the intent as "failed" before the client may try again.
PaidAtMostOnce ==
  \A i \in Requests : Cardinality(Sent(i)) <= 1

\* After a cancellation was answered 204, reading the intent returns
\* "cancelled" (TEST_GUIDE.md:207).
CancelSticks ==
  \A r \in Requests : Answered(r, "cancel", "ok") =>
    intents[call[r].intent].status = "cancelled"

\* A submission answered 200 "confirmed" names a payment that GET returns
\* (TEST_GUIDE.md:222-232).
ConfirmedPaymentIsReadable ==
  \A r \in Requests : Answered(r, "submit", "ok") =>
    GetPayment(r, call[r].user) # None

\* Money that moved is accounted for: with a reliable store, node and server
\* every executed transaction leads to a payment row for its intent.
ExecutedIsRecorded ==
  \A t \in Txs : Executed(t) ~> (PaymentsOf(t.intent) # {})

\* Every call that is not lost in a crash gets its answer.
EveryCallAnswered ==
  \A r \in Requests : step[r] \in Running ~> step[r] \in {"done", "lost"}

=============================================================================
