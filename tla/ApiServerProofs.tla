---------------------------- MODULE ApiServerProofs ----------------------------
(***************************************************************************)
(* The migrations and the nearby sessions, for any number of instances,    *)
(* files, sessions and requests, and any bound on the faults.              *)
(*                                                                         *)
(* An instance commits a file that is not recorded: no other transaction   *)
(* holds its version, by the primary key.  All files before it are, by the *)
(* loop, so each commit extends the history by its next file.  A session   *)
(* exists only when all files are recorded, and from then on no file is    *)
(* committed any more, the one that drops the table included.              *)
(***************************************************************************)
EXTENDS NearbySessions, TLAPS

InstanceMoves(i) == MigrationStep(i) \/ Stop(i) \/ CommitUnheard(i)

Opened == {"exec", "record", "commit"}

MigrationsTypeInv ==
  /\ MigrationsTypeOK
  /\ \A i \in Instances : at[i] \in Opened => file[i] \in Files

LEMMA MigrationsTyped ==
  ASSUME MigrationsTypeInv, NEW i \in Instances, InstanceMoves(i)
  PROVE  MigrationsTypeInv'
<1> USE FilesAssumption
    DEF MigrationsTypeInv, MigrationsTypeOK, Opened, Files, Goto, schema
<1>1. CASE Boot(i) BY <1>1 DEF Boot
<1>2. CASE Check(i)
  <2>1. CASE file[i] \in recorded
    <3>1. file[i] \in 1 .. NumFiles /\ at' = at /\ at[i] = "check"
          /\ file' = [file EXCEPT ![i] = @ + 1]
      BY <1>2, <2>1 DEF Check, Advance
    <3>2. file' \in [Instances -> 1 .. NumFiles + 1]
      BY <3>1
    <3>3. \A j \in Instances : at'[j] \in {"exec", "record", "commit"} => file'[j] \in 1 .. NumFiles
      BY <3>1
    <3> QED BY <1>2, <2>1, <3>1, <3>2, <3>3 DEF Check
  <2>2. CASE file[i] \notin recorded
    BY <1>2, <2>2 DEF Check
  <2> QED BY <2>1, <2>2
<1>3. CASE Execute(i) BY <1>3 DEF Execute
<1>4. CASE ExecuteRefused(i) BY <1>4 DEF ExecuteRefused
<1>5. CASE Record(i) BY <1>5 DEF Record
<1>6. ASSUME at[i] = "commit", Apply(i)
      PROVE  recorded' \in SUBSET Files /\ history' \in Seq(Files)
  <2>1. file[i] \in Files
    BY <1>6
  <2>2. history' \in Seq(Files)
    <3>1. history \in Seq(Files) /\ history' = Append(history, file[i])
      BY <1>6 DEF Apply
    <3> HIDE DEF Files
    <3> QED BY <2>1, <3>1
  <2> QED BY <1>6, <2>1, <2>2 DEF Apply
<1>7. CASE Commit(i)
  <2>1. at[i] = "commit" /\ Apply(i)
    BY <1>7 DEF Commit
  <2> HIDE DEF Files
  <2>2. file[i] \in 1 .. NumFiles /\ file' = [file EXCEPT ![i] = @ + 1]
    BY <1>7 DEF Commit, Advance, Files
  <2>3. file' \in [Instances -> 1 .. NumFiles + 1]
    BY <2>2
  <2> QED BY <1>6, <1>7, <2>1, <2>2, <2>3 DEF Commit
<1>8. CASE Serve(i) BY <1>8 DEF Serve
<1>9. CASE Stop(i) BY <1>9 DEF Stop, Fault
<1>10. CASE CommitUnheard(i)
  <2>1. at[i] = "commit" /\ Apply(i)
    BY <1>10 DEF CommitUnheard
  <2> HIDE DEF Files
  <2> QED BY <1>6, <1>10, <2>1 DEF CommitUnheard, Fault
<1> QED
  BY <1>1, <1>2, <1>3, <1>4, <1>5, <1>7, <1>8, <1>9, <1>10
  DEF InstanceMoves, MigrationStep

-----------------------------------------------------------------------------
(* The history of the schema.                                              *)

\* The loop has passed what is recorded, and a file about to be committed
\* is not, and is one instance's only.
LoopInv ==
  /\ \A i \in Instances : at[i] # "down" => 1 .. file[i] - 1 \subseteq recorded
  /\ \A i \in Instances : at[i] = "serve" => file[i] = NumFiles + 1
  /\ \A i \in Instances : at[i] = "commit" => file[i] \notin recorded
  /\ \A i, j \in Instances :
       at[i] = "commit" /\ at[j] = "commit" /\ file[i] = file[j] => i = j

HistoryInv == AppliedOnceInOrder /\ LoopInv

\* What a commit does to the history.
LEMMA ApplyExtends ==
  ASSUME MigrationsTypeInv, HistoryInv, NEW i \in Instances, at[i] = "commit", Apply(i)
  PROVE  AppliedOnceInOrder'
<1> DEFINE n == Len(history)
<1>1. n \in Nat /\ file[i] \in Nat /\ file[i] >= 1
  BY FilesAssumption DEF MigrationsTypeInv, MigrationsTypeOK, Opened, Files
<1>2. /\ \A k \in 1 .. file[i] - 1 : k \in 1 .. n
      /\ file[i] \notin 1 .. n
  BY DEF HistoryInv, LoopInv, AppliedOnceInOrder
<1>3. file[i] = n + 1
  <2>1. file[i] > n
    BY <1>1, <1>2
  <2>2. ASSUME file[i] > n + 1 PROVE FALSE
    <3>1. n + 1 \in 1 .. file[i] - 1
      BY <1>1, <2>2
    <3> QED BY <3>1, <1>1, <1>2
  <2> QED BY <1>1, <2>1, <2>2
<1>4. history \in Seq(Files) /\ file[i] \in Files
  BY DEF MigrationsTypeInv, MigrationsTypeOK, Opened
<1>5. history' = Append(history, n + 1)
  BY <1>3 DEF Apply
<1>6. Len(history') = n + 1
  BY <1>4, <1>5
<1>7. history' = [k \in 1 .. n + 1 |-> k]
  BY <1>4, <1>5, <1>1 DEF HistoryInv, AppliedOnceInOrder
<1>8. recorded' = 1 .. n + 1
  BY <1>3, <1>1 DEF Apply, HistoryInv, AppliedOnceInOrder
<1> QED BY <1>6, <1>7, <1>8 DEF AppliedOnceInOrder

LEMMA LoopInvHolds ==
  ASSUME MigrationsTypeInv, LoopInv, NEW i \in Instances, InstanceMoves(i)
  PROVE  LoopInv'
<1> USE FilesAssumption
    DEF MigrationsTypeInv, MigrationsTypeOK, Opened, LoopInv, Files, Goto, Advance, Apply, schema
<1>1. CASE Boot(i) BY <1>1 DEF Boot
<1>2. CASE Check(i)
  <2>1. CASE file[i] \in recorded
    <3>1. /\ file' = [file EXCEPT ![i] = @ + 1] /\ at' = at /\ recorded' = recorded
          /\ at[i] = "check"
      BY <1>2, <2>1 DEF Check
    <3>2. 1 .. file'[i] - 1 \subseteq recorded'
      BY <2>1, <3>1
    <3> QED BY <3>1, <3>2
  <2>2. CASE file[i] \notin recorded
    <3>1. /\ file' = file /\ recorded' = recorded
          /\ at[i] = "check" /\ at' = [at EXCEPT ![i] = "exec"]
      BY <1>2, <2>2 DEF Check
    <3> QED BY <3>1
  <2> QED BY <2>1, <2>2
<1>3. CASE Execute(i) BY <1>3 DEF Execute
<1>4. CASE ExecuteRefused(i) BY <1>4 DEF ExecuteRefused
<1>5. CASE Record(i) BY <1>5 DEF Record
<1>6. CASE Commit(i)
  <2>1. /\ file' = [file EXCEPT ![i] = @ + 1] /\ at' = [at EXCEPT ![i] = "check"]
        /\ recorded' = recorded \cup {file[i]} /\ at[i] = "commit"
    BY <1>6 DEF Commit
  <2>2. 1 .. file'[i] - 1 \subseteq recorded'
    <3>1. file[i] \in Nat /\ file'[i] = file[i] + 1
      BY <2>1
    <3>2. 1 .. file[i] - 1 \subseteq recorded
      BY <2>1
    <3>3. \A k \in 1 .. file'[i] - 1 : k \in 1 .. file[i] - 1 \/ k = file[i]
      BY ONLY <3>1
    <3> QED BY ONLY <2>1, <3>2, <3>3
  <2>3. ASSUME NEW j \in Instances, at'[j] # "down"
        PROVE  1 .. file'[j] - 1 \subseteq recorded'
    <3>1. CASE j = i BY <2>2, <3>1
    <3>2. CASE j # i
      <4>1. file'[j] = file[j] /\ at'[j] = at[j]
        BY <2>1, <3>2
      <4>2. 1 .. file[j] - 1 \subseteq recorded
        BY <2>3, <4>1
      <4> QED BY <2>1, <4>1, <4>2
    <3> QED BY <3>1, <3>2
  <2> QED BY <2>1, <2>3
<1>7. CASE Serve(i) BY <1>7 DEF Serve
<1>8. CASE Stop(i) BY <1>8 DEF Stop, Fault
<1>9. CASE CommitUnheard(i) BY <1>9 DEF CommitUnheard, Fault
<1> QED
  BY <1>1, <1>2, <1>3, <1>4, <1>5, <1>6, <1>7, <1>8, <1>9
  DEF InstanceMoves, MigrationStep

\* Only a commit, heard of or not, changes the schema.
LEMMA SchemaChanges ==
  ASSUME NEW i \in Instances, InstanceMoves(i)
  PROVE  (at[i] = "commit" /\ Apply(i)) \/ UNCHANGED schema
  BY DEF InstanceMoves, MigrationStep, Boot, Check, Execute, ExecuteRefused, Record,
         Commit, Serve, Stop, CommitUnheard, schema

LEMMA HistoryInvHolds ==
  ASSUME MigrationsTypeInv, HistoryInv, NEW i \in Instances, InstanceMoves(i)
  PROVE  HistoryInv'
<1>1. LoopInv'
  BY LoopInvHolds DEF HistoryInv
<1>2. CASE at[i] = "commit" /\ Apply(i)
  BY <1>1, <1>2, ApplyExtends DEF HistoryInv
<1>3. CASE UNCHANGED schema
  BY <1>1, <1>3 DEF HistoryInv, AppliedOnceInOrder, schema
<1> QED BY <1>2, <1>3, SchemaChanges

-----------------------------------------------------------------------------
(* Types of the sessions.                                                  *)

LEMMA CallFields ==
  /\ \A c \in InitiateCall :
       /\ c.op = "initiate" /\ c.instance \in Instances
       /\ c.session \in SessionIds /\ c.row \in Row
  /\ \A c \in AcknowledgeCall :
       /\ c.op = "acknowledge" /\ c.instance \in Instances
       /\ c.session \in SessionIds /\ c.status \in Answers /\ c.late \in BOOLEAN
  /\ \A c \in InitiateCall : c \notin AcknowledgeCall /\ c # None
  /\ \A c \in AcknowledgeCall : c # None
  BY NoneAssumption DEF InitiateCall, AcknowledgeCall

LEMMA StatusType ==
  ASSUME TypeOK, NEW s \in SessionIds, NEW status \in Answers, SetStatus(s, status)
  PROVE  /\ rows' \in [SessionIds -> Row \cup {None}]
         /\ \A q \in SessionIds :
              /\ rows[q] = None <=> rows'[q] = None
              /\ q # s => rows'[q] = rows[q]
              /\ rows[q] # None => /\ rows'[q].initiator = rows[q].initiator
                                   /\ rows'[q].recipient = rows[q].recipient
         /\ rows[s] # None => rows'[s].status = status
<1>1. CASE rows[s] = None BY <1>1 DEF SetStatus, TypeOK
<1>2. CASE rows[s] # None
  <2>1. rows' = [rows EXCEPT ![s].status = status] /\ rows \in [SessionIds -> Row \cup {None}]
    BY <1>2 DEF SetStatus, TypeOK
  <2>2. rows[s] \in Row
    BY <1>2, <2>1
  <2>3. /\ [rows[s] EXCEPT !.status = status] \in Row
        /\ [rows[s] EXCEPT !.status = status].status = status
        /\ [rows[s] EXCEPT !.status = status].initiator = rows[s].initiator
        /\ [rows[s] EXCEPT !.status = status].recipient = rows[s].recipient
    BY <2>2 DEF Row, Answers
  <2>4. rows'[s] = [rows[s] EXCEPT !.status = status]
    BY <2>1
  <2>5. rows'[s] \in Row /\ rows'[s] # None
    BY <2>3, <2>4, NoneAssumption
  <2>6. \A q \in SessionIds : q # s => rows'[q] = rows[q]
    BY <2>1
  <2>7. rows' \in [SessionIds -> Row \cup {None}]
    <3>1. DOMAIN rows' = SessionIds /\ rows' = [q \in SessionIds |-> rows'[q]]
      BY <2>1
    <3>2. \A q \in SessionIds : rows'[q] \in Row \cup {None}
      BY <2>1, <2>5, <2>6
    <3> QED BY <3>1, <3>2
  <2> QED BY <1>2, <2>3, <2>4, <2>5, <2>6, <2>7
<1> QED BY <1>1, <1>2

TypeInv == TypeOK /\ MigrationsTypeInv

LEMMA InitTypeInv == Init => TypeInv
<1> SUFFICES ASSUME Init PROVE TypeInv
  OBVIOUS
<1>1. history \in Seq(Files)
  BY DEF Init, MigrationsInit
<1> QED
  BY <1>1, FilesAssumption, SessionsAssumption
  DEF Init, MigrationsInit, TypeInv, TypeOK, MigrationsTypeInv, MigrationsTypeOK, Opened, Files

LEMMA MigrationsStay ==
  ASSUME MigrationsTypeInv, UNCHANGED <<at, file, schema>>, faults' \in 0 .. MaxFaults
  PROVE  MigrationsTypeInv'
  BY DEF MigrationsTypeInv, MigrationsTypeOK, schema

LEMMA InstanceTyped ==
  ASSUME TypeInv, NEW i \in Instances, Start(i) \/ InstanceStops(i)
  PROVE  TypeInv'
<1>1. MigrationsTypeInv'
  BY MigrationsTyped DEF TypeInv, Start, InstanceStops, InstanceMoves
<1>2. rows' \in [SessionIds -> Row \cup {None}]
  BY DEF TypeInv, TypeOK, Start, InstanceStops, ResetRows
<1>3. call' \in [Requests -> InitiateCall \cup AcknowledgeCall \cup {None}]
  BY DEF TypeInv, TypeOK, Start, InstanceStops, RequestsDie
<1>4. UNCHANGED <<told, answered, now>>
  BY DEF Start, InstanceStops
<1> QED
  BY <1>1, <1>2, <1>3, <1>4 DEF TypeInv, TypeOK, MigrationsTypeInv

LEMMA InitiateCallType ==
  ASSUME TypeOK, NEW i \in Instances, NEW s \in SessionIds, NEW from \in Users, NEW to \in Users
  PROVE  [op |-> "initiate", instance |-> i, session |-> s,
          row |-> [initiator |-> from, recipient |-> to,
                   status |-> "pending", expires |-> now + SessionTTL]] \in InitiateCall
<1>1. now + SessionTTL \in Nat
  BY SessionsAssumption DEF TypeOK
<1> QED BY <1>1 DEF InitiateCall, Row

LEMMA AcknowledgeCallType ==
  ASSUME NEW i \in Instances, NEW s \in SessionIds, NEW status \in Answers
  PROVE  [op |-> "acknowledge", instance |-> i, session |-> s,
          status |-> status, late |-> answered[s] # {}] \in AcknowledgeCall
  BY DEF AcknowledgeCall

LEMMA RequestTyped ==
  ASSUME TypeInv, NEW r \in Requests,
         \/ CreateSession(r) \/ UpdateSessionStatus(r) \/ WriteFails(r)
         \/ \E i \in Instances, s \in SessionIds, user, other \in Users :
              InitiateSession(r, i, s, user, other)
         \/ \E i \in Instances, s \in SessionIds, user \in Users, status \in Answers :
              AcknowledgeSession(r, i, s, user, status)
  PROVE  TypeInv'
<1> USE DEF TypeInv
<1>1. CASE CreateSession(r)
  <2>1. call[r].session \in SessionIds /\ call[r].row \in Row
    BY <1>1, CallFields DEF CreateSession
  <2>2. MigrationsTypeInv'
    BY <1>1, MigrationsStay DEF CreateSession, migrationVars, schema, MigrationsTypeInv, MigrationsTypeOK
  <2>3. /\ rows' \in [SessionIds -> Row \cup {None}] /\ told' \in [SessionIds -> Row \cup {None}]
        /\ call' \in [Requests -> InitiateCall \cup AcknowledgeCall \cup {None}]
        /\ UNCHANGED <<answered, now>>
    BY <1>1, <2>1 DEF CreateSession, End, TypeOK
  <2> QED BY <2>2, <2>3 DEF TypeOK, MigrationsTypeInv
<1>2. CASE UpdateSessionStatus(r)
  <2>1. call[r].session \in SessionIds /\ call[r].status \in Answers
    BY <1>2, CallFields DEF UpdateSessionStatus
  <2>2. MigrationsTypeInv'
    BY <1>2, MigrationsStay
    DEF UpdateSessionStatus, migrationVars, schema, MigrationsTypeInv, MigrationsTypeOK
  <2>3. rows' \in [SessionIds -> Row \cup {None}]
    BY <1>2, <2>1, StatusType DEF UpdateSessionStatus
  <2>4. /\ call' \in [Requests -> InitiateCall \cup AcknowledgeCall \cup {None}]
        /\ answered' \in [SessionIds -> SUBSET Answers]
        /\ UNCHANGED <<told, now>>
    BY <1>2, <2>1 DEF UpdateSessionStatus, End, TypeOK
  <2> QED BY <2>2, <2>3, <2>4 DEF TypeOK, MigrationsTypeInv
<1>3. CASE WriteFails(r)
  <2>1. faults' \in 0 .. MaxFaults /\ UNCHANGED <<at, file, schema>>
    BY <1>3, FilesAssumption DEF WriteFails, MigrationsTypeInv, MigrationsTypeOK
  <2>2. MigrationsTypeInv'
    BY <2>1, MigrationsStay
  <2>3. rows' \in [SessionIds -> Row \cup {None}]
    <3>1. CASE UNCHANGED rows BY <3>1 DEF TypeOK
    <3>2. CASE /\ call[r] \in InitiateCall
               /\ rows' = [rows EXCEPT ![call[r].session] = call[r].row]
      BY <3>2, CallFields DEF TypeOK
    <3>3. CASE call[r] \in AcknowledgeCall /\ SetStatus(call[r].session, call[r].status)
      BY <3>3, CallFields, StatusType
    <3> QED BY <1>3, <3>1, <3>2, <3>3 DEF WriteFails
  <2>4. /\ call' \in [Requests -> InitiateCall \cup AcknowledgeCall \cup {None}]
        /\ UNCHANGED <<told, answered, now>>
    BY <1>3 DEF WriteFails, End, TypeOK
  <2> QED BY <2>2, <2>3, <2>4 DEF TypeOK, MigrationsTypeInv
<1>4. ASSUME NEW c \in InitiateCall \cup AcknowledgeCall, Begin(r, c)
      PROVE  TypeInv'
  <2>1. MigrationsTypeInv'
    BY <1>4, MigrationsStay DEF Begin, migrationVars, schema, MigrationsTypeInv, MigrationsTypeOK
  <2>2. /\ call' \in [Requests -> InitiateCall \cup AcknowledgeCall \cup {None}]
        /\ UNCHANGED <<rows, told, answered, now>>
    BY <1>4 DEF Begin, TypeOK
  <2> QED BY <2>1, <2>2 DEF TypeOK, MigrationsTypeInv
<1>5. ASSUME NEW i \in Instances, NEW s \in SessionIds, NEW user \in Users, NEW other \in Users,
             InitiateSession(r, i, s, user, other)
      PROVE  TypeInv'
  BY <1>5, <1>4, InitiateCallType DEF InitiateSession
<1>6. ASSUME NEW i \in Instances, NEW s \in SessionIds, NEW user \in Users, NEW status \in Answers,
             AcknowledgeSession(r, i, s, user, status)
      PROVE  TypeInv'
  BY <1>6, <1>4, AcknowledgeCallType DEF AcknowledgeSession
<1> QED BY <1>1, <1>2, <1>3, <1>5, <1>6

LEMMA TickTyped == TypeInv /\ Tick => TypeInv'
<1> SUFFICES ASSUME TypeInv, Tick PROVE TypeInv'
  OBVIOUS
<1>1. MigrationsTypeInv'
  BY MigrationsStay DEF Tick, migrationVars, schema, TypeInv, MigrationsTypeInv, MigrationsTypeOK
<1>2. now' \in 0 .. MaxTime
  BY SessionsAssumption DEF Tick, TypeInv, TypeOK
<1> QED BY <1>1, <1>2 DEF Tick, TypeInv, TypeOK, MigrationsTypeInv

LEMMA NextTyped == TypeInv /\ [Next]_vars => TypeInv'
<1> SUFFICES ASSUME TypeInv, [Next]_vars PROVE TypeInv'
  OBVIOUS
<1>1. CASE UNCHANGED vars
  BY <1>1 DEF vars, migrationVars, nearbyVars, schema, TypeInv, TypeOK,
              MigrationsTypeInv, MigrationsTypeOK
<1> QED
  BY <1>1, InstanceTyped, RequestTyped, TickTyped DEF Next

THEOREM TypeCorrect == Spec => []TypeInv
  BY InitTypeInv, NextTyped, PTL DEF Spec

\* Every variable keeps its type, for any number of instances, files,
\* sessions and requests (migrate.go:14-80, service.go:37-149).
THEOREM TypeOKHolds == Spec => []TypeOK
<1>1. TypeInv => TypeOK
  BY DEF TypeInv
<1> QED BY <1>1, TypeCorrect, PTL

-----------------------------------------------------------------------------
(* What the migrations promise.                                            *)

LEMMA NextHistory == TypeInv /\ HistoryInv /\ [Next]_vars => HistoryInv'
<1> SUFFICES ASSUME TypeInv, HistoryInv, [Next]_vars PROVE HistoryInv'
  OBVIOUS
<1>1. ASSUME NEW i \in Instances, Start(i) \/ InstanceStops(i) PROVE HistoryInv'
  BY <1>1, HistoryInvHolds DEF TypeInv, Start, InstanceStops, InstanceMoves
<1>2. ASSUME UNCHANGED <<at, file, schema>> PROVE HistoryInv'
  BY <1>2 DEF HistoryInv, LoopInv, AppliedOnceInOrder, schema
<1>3. ASSUME NEW r \in Requests,
             \/ CreateSession(r) \/ UpdateSessionStatus(r) \/ WriteFails(r)
             \/ \E i \in Instances, s \in SessionIds, user, other \in Users :
                  InitiateSession(r, i, s, user, other)
             \/ \E i \in Instances, s \in SessionIds, user \in Users, status \in Answers :
                  AcknowledgeSession(r, i, s, user, status)
      PROVE  UNCHANGED <<at, file, schema>>
  BY <1>3 DEF CreateSession, UpdateSessionStatus, WriteFails, InitiateSession,
              AcknowledgeSession, Begin, migrationVars, schema
<1>4. Tick => UNCHANGED <<at, file, schema>>
  BY DEF Tick, migrationVars, schema
<1>5. UNCHANGED vars => UNCHANGED <<at, file, schema>>
  BY DEF vars, migrationVars, schema
<1> QED BY <1>1, <1>2, <1>3, <1>4, <1>5 DEF Next

LEMMA InitHistory == Init => HistoryInv
  BY DEF Init, MigrationsInit, HistoryInv, LoopInv, AppliedOnceInOrder

THEOREM HistoryInvCorrect == Spec => []HistoryInv
  BY TypeCorrect, InitHistory, NextHistory, PTL DEF Spec

\* The files take effect once each and in order, and schema_migrations
\* names just them (migrate.go:38-77).
THEOREM FilesAreAppliedOnce == Spec => []AppliedOnceInOrder
<1>1. HistoryInv => AppliedOnceInOrder
  BY DEF HistoryInv
<1> QED BY <1>1, HistoryInvCorrect, PTL

-----------------------------------------------------------------------------
(* What the sessions promise.                                              *)

Whole == Files \subseteq recorded

\* A session, a request or an answer means that all files are recorded.
SchemaInv ==
  /\ \A s \in SessionIds : rows[s] # None \/ told[s] # None \/ answered[s] # {} => Whole
  /\ \A r \in Requests : call[r] # None => Whole

\* A session that is being created is nobody else's yet, and one that is
\* being acknowledged is stored.
CallInv ==
  /\ \A r \in Requests : call[r] \in InitiateCall =>
       /\ rows[call[r].session] = None /\ told[call[r].session] = None
       /\ answered[call[r].session] = {}
       /\ \A q \in Requests :
            q # r /\ call[q] # None => call[q].session # call[r].session
  /\ \A r \in Requests : call[r] \in AcknowledgeCall => rows[call[r].session] # None

\* What a client was told of is stored.
ToldInv ==
  \A s \in SessionIds : told[s] # None =>
    /\ rows[s] # None
    /\ rows[s].initiator = told[s].initiator /\ rows[s].recipient = told[s].recipient

SessionInv == SchemaInv /\ CallInv /\ ToldInv /\ AnswerStands

Inv == TypeInv /\ HistoryInv /\ SessionInv

\* An instance that serves has seen the whole schema.
LEMMA ServingIsWhole ==
  ASSUME TypeInv, HistoryInv, NEW i \in Instances, at[i] = "serve"
  PROVE  Whole
  BY FilesAssumption DEF HistoryInv, LoopInv, Whole, Files, TypeInv

\* A migration leaves the rows alone: the table is dropped when it is empty.
LEMMA RowsStand ==
  ASSUME Inv, NEW i \in Instances, Start(i) \/ InstanceStops(i)
  PROVE  /\ UNCHANGED <<rows, told, answered>>
         /\ Whole => Whole'
         /\ \A r \in Requests : call'[r] = call[r] \/ call'[r] = None
<1>1. ASSUME at[i] = "commit", ResetRows(i) PROVE rows' = rows
  <2>1. CASE file[i] \in Resets
    <3>1. ~Whole
      BY <1>1, <2>1, SessionsAssumption DEF Whole, Inv, HistoryInv, LoopInv
    <3>2. \A s \in SessionIds : rows[s] = None
      BY <3>1 DEF Inv, SessionInv, SchemaInv
    <3>3. rows = [s \in SessionIds |-> None]
      BY <3>2 DEF Inv, TypeInv, TypeOK
    <3> QED BY <1>1, <2>1, <3>3 DEF ResetRows
  <2>2. CASE file[i] \notin Resets
    BY <1>1, <2>2 DEF ResetRows
  <2> QED BY <2>1, <2>2
<1>2. rows' = rows
  BY <1>1 DEF Start, InstanceStops, CommitUnheard
<1>3. Whole => Whole'
  <2>1. recorded \subseteq recorded'
    BY SchemaChanges DEF Start, InstanceStops, InstanceMoves, Apply, schema
  <2> QED BY <2>1 DEF Whole
<1>4. \A r \in Requests : call'[r] = call[r] \/ call'[r] = None
  BY DEF Start, InstanceStops, RequestsDie
<1> QED BY <1>2, <1>3, <1>4 DEF Start, InstanceStops

LEMMA InstanceKeepsSessions ==
  ASSUME Inv, NEW i \in Instances, Start(i) \/ InstanceStops(i)
  PROVE  SessionInv'
<1>1. /\ UNCHANGED <<rows, told, answered>>
      /\ Whole => Whole'
      /\ \A r \in Requests : call'[r] = call[r] \/ call'[r] = None
  BY RowsStand
<1> USE <1>1, CallFields DEF Inv, SessionInv
<1>2. SchemaInv' BY DEF SchemaInv
<1>3. CallInv' BY DEF CallInv
<1>4. ToldInv' BY DEF ToldInv
<1>5. AnswerStands' BY DEF AnswerStands
<1> QED BY <1>2, <1>3, <1>4, <1>5

\* The insert of a session, answered or not.
LEMMA InsertKeepsSessions ==
  ASSUME Inv, NEW r \in Requests, call[r] \in InitiateCall,
         rows' = [rows EXCEPT ![call[r].session] = call[r].row],
         \/ told' = [told EXCEPT ![call[r].session] = call[r].row]
         \/ told' = told,
         End(r), UNCHANGED <<answered, schema>>
  PROVE  SessionInv'
<1> DEFINE s == call[r].session
<1>1. /\ s \in SessionIds /\ call[r].row \in Row /\ call[r].row # None /\ call[r] # None
      /\ Whole /\ Whole'
  BY CallFields, NoneAssumption DEF Inv, SessionInv, SchemaInv, Whole, schema
<1>2. /\ \A q \in Requests : q # r => call'[q] = call[q]
      /\ call'[r] = None
  BY DEF End, Inv, TypeInv, TypeOK
<1>3. /\ rows'[s] = call[r].row
      /\ \A q \in SessionIds : q # s => rows'[q] = rows[q]
      /\ \A q \in SessionIds : rows[q] # None => rows'[q] # None
  BY <1>1 DEF Inv, TypeInv, TypeOK
<1>4. /\ \A q \in SessionIds : q # s => told'[q] = told[q]
      /\ told'[s] = told[s] \/ told'[s] = call[r].row
  BY <1>1 DEF Inv, TypeInv, TypeOK
<1>5. /\ told[s] = None /\ rows[s] = None /\ answered[s] = {}
      /\ \A q \in Requests : q # r /\ call[q] # None => call[q].session # s
  BY DEF Inv, SessionInv, CallInv
<1>6. SchemaInv'
  BY <1>1 DEF SchemaInv
<1>7. CallInv'
  BY <1>2, <1>3, <1>4, <1>5, CallFields DEF CallInv, Inv, SessionInv
<1>8. ToldInv'
  BY <1>3, <1>4, <1>5 DEF ToldInv, Inv, SessionInv
<1>9. AnswerStands'
  BY <1>2, <1>3, <1>5, CallFields DEF AnswerStands, Inv, SessionInv
<1> QED BY <1>6, <1>7, <1>8, <1>9 DEF SessionInv

\* The update of a session, answered or not.
LEMMA UpdateKeepsSessions ==
  ASSUME Inv, NEW r \in Requests, call[r] \in AcknowledgeCall,
         SetStatus(call[r].session, call[r].status),
         \/ answered' = [answered EXCEPT ![call[r].session] = @ \cup {call[r].status}]
         \/ answered' = answered,
         End(r), UNCHANGED <<told, schema>>
  PROVE  SessionInv'
<1> DEFINE s == call[r].session
<1>1. /\ s \in SessionIds /\ call[r].status \in Answers /\ call[r] # None
      /\ Whole /\ Whole' /\ rows[s] # None
  BY CallFields DEF Inv, SessionInv, SchemaInv, CallInv, Whole, schema
<1>2. /\ \A q \in Requests : q # r => call'[q] = call[q]
      /\ call'[r] = None
  BY DEF End, Inv, TypeInv, TypeOK
<1>3. /\ \A q \in SessionIds :
           /\ rows[q] = None <=> rows'[q] = None
           /\ q # s => rows'[q] = rows[q]
           /\ rows[q] # None => /\ rows'[q].initiator = rows[q].initiator
                                /\ rows'[q].recipient = rows[q].recipient
      /\ rows'[s].status = call[r].status
  BY <1>1, StatusType DEF Inv, TypeInv
<1>4. /\ \A q \in SessionIds : q # s => answered'[q] = answered[q]
      /\ answered'[s] # {} => answered[s] # {} \/ rows'[s].status \in Answers
  BY <1>1, <1>3 DEF Inv, TypeInv, TypeOK
<1>5. rows'[s].status # "pending" /\ rows'[s] # None
  BY <1>1, <1>3 DEF Answers
<1>6. SchemaInv'
  BY <1>1 DEF SchemaInv
<1>7. CallInv'
  <2>1. ASSUME NEW q \in Requests, call'[q] \in InitiateCall
        PROVE  q # r /\ call[q] = call'[q] /\ call[q].session # s
    <3>1. q # r
      BY <2>1, <1>2, CallFields
    <3>2. call[q] = call'[q]
      BY <3>1, <1>2
    <3>3. call[q].session # s
      BY <2>1, <3>1, <3>2, <1>1 DEF Inv, SessionInv, CallInv
    <3> QED BY <3>1, <3>2, <3>3
  <2>2. ASSUME NEW q \in Requests, call'[q] \in InitiateCall
        PROVE  /\ rows'[call'[q].session] = None /\ told'[call'[q].session] = None
               /\ answered'[call'[q].session] = {}
               /\ \A p \in Requests :
                    p # q /\ call'[p] # None => call'[p].session # call'[q].session
    <3>1. call[q] \in InitiateCall /\ call[q].session \in SessionIds
      BY <2>1, <2>2, CallFields
    <3>2. /\ rows[call[q].session] = None /\ told[call[q].session] = None
          /\ answered[call[q].session] = {}
          /\ \A p \in Requests : p # q /\ call[p] # None => call[p].session # call[q].session
      BY <3>1 DEF Inv, SessionInv, CallInv
    <3>3. call'[q].session = call[q].session /\ call[q].session # s
      BY <2>1, <2>2
    <3> QED BY <3>1, <3>2, <3>3, <1>2, <1>3, <1>4
  <2>3. ASSUME NEW q \in Requests, call'[q] \in AcknowledgeCall
        PROVE  rows'[call'[q].session] # None
    BY <2>3, <1>2, <1>3, CallFields DEF CallInv, Inv, SessionInv
  <2> QED BY <2>2, <2>3 DEF CallInv
<1>8. ToldInv'
  BY <1>3 DEF ToldInv, Inv, SessionInv
<1>9. AnswerStands'
  BY <1>2, <1>3, <1>4, <1>5, CallFields DEF AnswerStands, Inv, SessionInv
<1> QED BY <1>6, <1>7, <1>8, <1>9 DEF SessionInv

\* A request that ends without an effect.
LEMMA EndKeepsSessions ==
  ASSUME Inv, NEW r \in Requests, End(r), UNCHANGED <<rows, told, answered, schema>>
  PROVE  SessionInv'
<1>1. \A q \in Requests : call'[q] = call[q] \/ call'[q] = None
  BY DEF End, Inv, TypeInv, TypeOK
<1> USE <1>1, CallFields DEF Inv, SessionInv
<1>2. SchemaInv' BY DEF SchemaInv, Whole, schema
<1>3. CallInv' BY DEF CallInv
<1>4. ToldInv' BY DEF ToldInv
<1>5. AnswerStands' BY DEF AnswerStands
<1> QED BY <1>2, <1>3, <1>4, <1>5

LEMMA InitiateKeepsSessions ==
  ASSUME Inv, NEW r \in Requests, NEW i \in Instances, NEW s \in SessionIds,
         NEW user \in Users, NEW other \in Users, InitiateSession(r, i, s, user, other)
  PROVE  SessionInv'
<1> DEFINE c == [op |-> "initiate", instance |-> i, session |-> s,
                 row |-> [initiator |-> user, recipient |-> other,
                          status |-> "pending", expires |-> now + SessionTTL]]
<1>1. c \in InitiateCall /\ c.session = s
  BY InitiateCallType DEF Inv, TypeInv
<1>2. /\ call' = [call EXCEPT ![r] = c] /\ call[r] = None
      /\ UNCHANGED <<rows, told, answered, recorded>>
      /\ rows[s] = None /\ told[s] = None
      /\ \A q \in Requests : call[q] # None => call[q].session # s
      /\ Whole
  BY ServingIsWhole DEF InitiateSession, Begin, Idle, migrationVars, Inv
<1> HIDE DEF c
<1>3. /\ \A q \in Requests : q # r => call'[q] = call[q]
      /\ call'[r] = c
  BY <1>2 DEF Inv, TypeInv, TypeOK
<1>4. answered[s] = {}
  BY <1>2 DEF Inv, SessionInv, AnswerStands
<1>5. SchemaInv'
  BY <1>2 DEF SchemaInv, Whole
<1>6. CallInv'
  BY <1>1, <1>2, <1>3, <1>4, CallFields DEF CallInv, Inv, SessionInv
<1>7. ToldInv'
  BY <1>2 DEF ToldInv, Inv, SessionInv
<1>8. AnswerStands'
  BY <1>1, <1>2, <1>3, CallFields DEF AnswerStands, Inv, SessionInv
<1> QED BY <1>5, <1>6, <1>7, <1>8 DEF SessionInv

LEMMA AcknowledgeKeepsSessions ==
  ASSUME Inv, NEW r \in Requests, NEW i \in Instances, NEW s \in SessionIds,
         NEW user \in Users, NEW status \in Answers, AcknowledgeSession(r, i, s, user, status)
  PROVE  SessionInv'
<1> DEFINE c == [op |-> "acknowledge", instance |-> i, session |-> s,
                 status |-> status, late |-> answered[s] # {}]
<1>1. c \in AcknowledgeCall /\ c.session = s
  BY AcknowledgeCallType
<1>2. /\ call' = [call EXCEPT ![r] = c] /\ call[r] = None
      /\ UNCHANGED <<rows, told, answered, recorded>>
      /\ rows[s] # None /\ rows[s].status = "pending"
      /\ Whole
  BY ServingIsWhole DEF AcknowledgeSession, Begin, Idle, migrationVars, Inv
<1>3. answered[s] = {} /\ c.late = FALSE
  BY <1>2 DEF Inv, SessionInv, AnswerStands
<1> HIDE DEF c
<1>4. /\ \A q \in Requests : q # r => call'[q] = call[q]
      /\ call'[r] = c
  BY <1>2 DEF Inv, TypeInv, TypeOK
<1>5. SchemaInv'
  BY <1>2 DEF SchemaInv, Whole
<1>6. CallInv'
  BY <1>1, <1>2, <1>4, CallFields DEF CallInv, Inv, SessionInv
<1>7. ToldInv'
  BY <1>2 DEF ToldInv, Inv, SessionInv
<1>8. AnswerStands'
  BY <1>1, <1>2, <1>3, <1>4, CallFields DEF AnswerStands, Inv, SessionInv
<1> QED BY <1>5, <1>6, <1>7, <1>8 DEF SessionInv

LEMMA NextSessions == Inv /\ [Next]_vars => SessionInv'
<1> SUFFICES ASSUME Inv, [Next]_vars PROVE SessionInv'
  OBVIOUS
<1>1. ASSUME NEW r \in Requests, CreateSession(r) PROVE SessionInv'
  BY <1>1, InsertKeepsSessions DEF CreateSession, migrationVars, schema
<1>2. ASSUME NEW r \in Requests, UpdateSessionStatus(r) PROVE SessionInv'
  BY <1>2, UpdateKeepsSessions DEF UpdateSessionStatus, migrationVars, schema
<1>3. ASSUME NEW r \in Requests, WriteFails(r) PROVE SessionInv'
  <2>1. End(r) /\ UNCHANGED <<told, answered, schema>>
    BY <1>3 DEF WriteFails
  <2>2. CASE UNCHANGED rows
    BY <2>1, <2>2, EndKeepsSessions
  <2>3. CASE /\ call[r] \in InitiateCall
             /\ rows' = [rows EXCEPT ![call[r].session] = call[r].row]
    BY <2>1, <2>3, InsertKeepsSessions
  <2>4. CASE call[r] \in AcknowledgeCall /\ SetStatus(call[r].session, call[r].status)
    BY <2>1, <2>4, UpdateKeepsSessions
  <2> QED BY <1>3, <2>2, <2>3, <2>4 DEF WriteFails
<1>4. ASSUME UNCHANGED <<rows, call, told, answered, recorded>> PROVE SessionInv'
  BY <1>4 DEF Inv, SessionInv, SchemaInv, CallInv, ToldInv, AnswerStands, Whole
<1>5. Tick => UNCHANGED <<rows, call, told, answered, recorded>>
  BY DEF Tick, migrationVars
<1>6. UNCHANGED vars => UNCHANGED <<rows, call, told, answered, recorded>>
  BY DEF vars, migrationVars, nearbyVars
<1> QED
  BY <1>1, <1>2, <1>3, <1>4, <1>5, <1>6, InstanceKeepsSessions,
     InitiateKeepsSessions, AcknowledgeKeepsSessions DEF Next

LEMMA InitSessions == Init => SessionInv
<1> SUFFICES ASSUME Init PROVE SessionInv
  OBVIOUS
<1>1. \A r \in Requests : call[r] \notin InitiateCall /\ call[r] \notin AcknowledgeCall
  BY NoneAssumption DEF Init
<1> QED
  BY <1>1 DEF Init, SessionInv, SchemaInv, CallInv, ToldInv, AnswerStands

THEOREM SessionInvCorrect == Spec => []SessionInv
<1>1. TypeInv /\ HistoryInv /\ SessionInv /\ [Next]_vars => SessionInv'
  BY NextSessions DEF Inv
<1> QED BY <1>1, TypeCorrect, HistoryInvCorrect, InitSessions, PTL DEF Spec

\* A session that a client was told of is there for both of its users,
\* whatever instance migrates meanwhile (service.go:82-95, migrate.go:42).
THEOREM ToldSessionsSurvive == Spec => []SessionsSurvive
<1>1. TypeInv /\ SessionInv => SessionsSurvive
  <2> SUFFICES ASSUME TypeInv, SessionInv, NEW s \in SessionIds, told[s] # None,
                      NEW user \in {told[s].initiator, told[s].recipient}
               PROVE  GetSession(s, user) # "session_not_found"
    BY DEF SessionsSurvive
  <2>1. rows[s] # None /\ user \in {rows[s].initiator, rows[s].recipient}
    BY DEF SessionInv, ToldInv
  <2>2. rows[s].status # "session_not_found"
    BY <2>1 DEF TypeInv, TypeOK, Row
  <2> QED BY <2>1, <2>2 DEF GetSession
<1> QED BY <1>1, TypeCorrect, SessionInvCorrect, PTL

\* Acknowledgements that both succeed overlapped, and the status is the
\* recipient's from the first answer on (service.go:121-148).
THEOREM AnswersStand == Spec => []AnswerStands
<1>1. SessionInv => AnswerStands
  BY DEF SessionInv
<1> QED BY <1>1, SessionInvCorrect, PTL

=============================================================================
