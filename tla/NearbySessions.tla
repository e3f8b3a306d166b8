---------------------------- MODULE NearbySessions ----------------------------
(***************************************************************************)
(* Nearby sessions (internal/domain/nearby) on the instances of Migrations *)
(* that serve: one user offers a payload, the other accepts or declines it *)
(* within five minutes.                                                    *)
(*                                                                         *)
(* A request runs on one instance and dies with it; an action is one call  *)
(* to PostgreSQL and the code up to the next.  The migrations meet the     *)
(* sessions in one place: the last file, 011, drops the table and creates  *)
(* it anew.  While its transaction is open, statements on the table wait;  *)
(* left out, as its rollback leaves the table as it was.                   *)
(*                                                                         *)
(* A definition X_Y before a definition X is a mutation of X.              *)
(***************************************************************************)
EXTENDS Migrations

CONSTANTS
  SessionIds, \* NewID(): each is drawn once
  Users,      \* users with a bound wallet
  Requests,   \* requests in progress at a time
  Resets,     \* files that drop nearby_sessions
  SessionTTL, \* sessionTTL, 300 seconds
  MaxTime,    \* bound: last value of the clock
  None

ASSUME SessionsAssumption ==
  /\ Resets \subseteq Files
  /\ SessionTTL \in Nat /\ MaxTime \in Nat

Row == [initiator: Users, recipient: Users,
        status: {"pending", "accepted", "declined"}, expires: Nat]

Answers == {"accepted", "declined"}

InitiateCall == [op: {"initiate"}, instance: Instances, session: SessionIds, row: Row]
AcknowledgeCall == [op: {"acknowledge"}, instance: Instances, session: SessionIds,
                    status: Answers, late: BOOLEAN]

ASSUME NoneAssumption == None \notin Row \cup InitiateCall \cup AcknowledgeCall

VARIABLES
  rows,     \* table nearby_sessions: id -> row or None
  call,     \* request -> what it is about to write, None when it is free
  told,     \* session -> the row its initiator was answered, or None
  answered, \* session -> the answers its recipient was acknowledged
  now       \* utils.NowUnix()

nearbyVars == <<rows, call, told, answered, now>>
vars == <<migrationVars, nearbyVars>>

TypeOK ==
  /\ MigrationsTypeOK
  /\ rows \in [SessionIds -> Row \cup {None}]
  /\ call \in [Requests -> InitiateCall \cup AcknowledgeCall \cup {None}]
  /\ told \in [SessionIds -> Row \cup {None}]
  /\ answered \in [SessionIds -> SUBSET Answers]
  /\ now \in 0 .. MaxTime

Init ==
  /\ MigrationsInit
  /\ rows = [s \in SessionIds |-> None]
  /\ call = [r \in Requests |-> None]
  /\ told = [s \in SessionIds |-> None]
  /\ answered = [s \in SessionIds |-> {}]
  /\ now = 0

-----------------------------------------------------------------------------
(* The two operations that write, and the read.                            *)

Idle(r) == call[r] = None

Begin(r, c) ==
  /\ Idle(r) /\ call' = [call EXCEPT ![r] = c]
  /\ UNCHANGED <<migrationVars, rows, told, answered, now>>

End(r) == call' = [call EXCEPT ![r] = None]

\* The validated request with the owner of the recipient's address.
InitiateSession(r, i, s, initiator, recipient) ==
  /\ at[i] = "serve"
  /\ rows[s] = None /\ told[s] = None
  /\ \A q \in Requests : call[q] # None => call[q].session # s
  /\ Begin(r, [op |-> "initiate", instance |-> i, session |-> s,
               row |-> [initiator |-> initiator, recipient |-> recipient,
                        status |-> "pending", expires |-> now + SessionTTL]])

CreateSession(r) ==
  /\ call[r] \in InitiateCall
  /\ rows' = [rows EXCEPT ![call[r].session] = call[r].row]
  /\ told' = [told EXCEPT ![call[r].session] = call[r].row]
  /\ End(r)
  /\ UNCHANGED <<migrationVars, answered, now>>

\* GetSessionByID and the checks; a refusal writes nothing.  `late' notes
\* that the recipient had been answered before.
AcknowledgeSession_AnyStatus(r, i, s, user, status) ==
  /\ at[i] = "serve"
  /\ rows[s] # None /\ rows[s].recipient = user
  /\ rows[s].expires >= now
  /\ Begin(r, [op |-> "acknowledge", instance |-> i, session |-> s,
               status |-> status, late |-> answered[s] # {}])

AcknowledgeSession(r, i, s, user, status) ==
  /\ at[i] = "serve"
  /\ rows[s] # None /\ rows[s].recipient = user
  /\ rows[s].status = "pending"
  /\ rows[s].expires >= now
  /\ Begin(r, [op |-> "acknowledge", instance |-> i, session |-> s,
               status |-> status, late |-> answered[s] # {}])

\* The update names the session by its id alone.
SetStatus(s, status) ==
  rows' = IF rows[s] = None THEN rows ELSE [rows EXCEPT ![s].status = status]

UpdateSessionStatus(r) ==
  /\ call[r] \in AcknowledgeCall
  /\ SetStatus(call[r].session, call[r].status)
  /\ answered' = [answered EXCEPT ![call[r].session] = @ \cup {call[r].status}]
  /\ End(r)
  /\ UNCHANGED <<migrationVars, told, now>>

\* A write fails, or takes effect and is reported as failed: the client is
\* answered 500.
WriteFails(r) ==
  /\ ~Idle(r)
  /\ faults < MaxFaults /\ faults' = faults + 1
  /\ \/ UNCHANGED rows
     \/ /\ call[r] \in InitiateCall
        /\ rows' = [rows EXCEPT ![call[r].session] = call[r].row]
     \/ call[r] \in AcknowledgeCall /\ SetStatus(call[r].session, call[r].status)
  /\ End(r)
  /\ UNCHANGED <<at, file, schema, told, answered, now>>

\* What GET /v1/nearby/sessions/{id} answers a user.
GetSession(s, user) ==
  IF rows[s] = None THEN "session_not_found"
  ELSE IF user \notin {rows[s].initiator, rows[s].recipient} THEN "session_not_found"
  ELSE IF rows[s].expires < now THEN "session_expired" ELSE rows[s].status

Tick ==
  /\ now < MaxTime /\ now' = now + 1
  /\ UNCHANGED <<migrationVars, rows, call, told, answered>>

-----------------------------------------------------------------------------
(* The instances, with what becomes of the requests and of the table.      *)

\* A file that drops the table does so at its commit.
ResetRows(i) ==
  rows' = IF file[i] \in Resets THEN [s \in SessionIds |-> None] ELSE rows

RequestsDie(i) ==
  call' = [r \in Requests |->
             IF call[r] # None /\ call[r].instance = i THEN None ELSE call[r]]

Start(i) ==
  /\ MigrationStep(i)
  /\ IF at[i] = "commit" THEN ResetRows(i) ELSE UNCHANGED rows
  /\ UNCHANGED <<call, told, answered, now>>

InstanceStops(i) ==
  /\ \/ Stop(i) /\ UNCHANGED rows
     \/ CommitUnheard(i) /\ ResetRows(i)
  /\ RequestsDie(i)
  /\ UNCHANGED <<told, answered, now>>

Next ==
  \/ \E i \in Instances : Start(i) \/ InstanceStops(i)
  \/ \E r \in Requests :
       \/ CreateSession(r) \/ UpdateSessionStatus(r) \/ WriteFails(r)
       \/ \E i \in Instances, s \in SessionIds, user, other \in Users :
            InitiateSession(r, i, s, user, other)
       \/ \E i \in Instances, s \in SessionIds, user \in Users, status \in Answers :
            AcknowledgeSession(r, i, s, user, status)
  \/ Tick

\* Railway starts an instance that exited again, and PostgreSQL answers.
Fairness == \A i \in Instances : WF_vars(Start(i))

Spec == Init /\ [][Next]_vars /\ Fairness

-----------------------------------------------------------------------------

\* A session whose initiator was answered 201 is there for both of its users
\* until it expires (service.go:82-95), though an instance with a stale check
\* runs the file that drops the table under the servers (migrate.go:42).
SessionsSurvive ==
  \A s \in SessionIds :
    told[s] # None =>
      \A user \in {told[s].initiator, told[s].recipient} :
        GetSession(s, user) # "session_not_found"

\* Of the acknowledgements of a session only those that overlap can both
\* succeed (service.go:129): from the first answer on its status is the
\* recipient's, and no later request gets past the check.
AnswerStands ==
  /\ \A s \in SessionIds : answered[s] # {} => rows[s] # None /\ rows[s].status # "pending"
  /\ \A r \in Requests : call[r] \in AcknowledgeCall => ~call[r].late

\* Each instance serves in the end, whatever failed before and whoever else
\* migrates at the same time (migrate.go:14-80, main.go:60-63).
EveryInstanceServes == \A i \in Instances : <>[](at[i] = "serve")

=============================================================================
