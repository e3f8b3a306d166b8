------------------------ MODULE RemoteCacheRefinement ------------------------
(***************************************************************************)
(* RemoteCache read as a BuildCache: the objects under ac/ and cas/, and   *)
(* each request for them as a question.                                    *)
(***************************************************************************)
EXTENDS RemoteCache

\* What a request means, by its method, path, token and body.
QuestionOf(q) ==
  IF q.token /\ q.target \in BazelKeys
    THEN CASE q.method = "PUT" /\ q.body # None ->
                [op |-> "write", key |-> q.target, value |-> q.body]
           [] q.method = "GET"  -> [op |-> "read", key |-> q.target]
           [] q.method = "HEAD" -> [op |-> "exists", key |-> q.target]
           [] OTHER -> [op |-> "invalid"]
    ELSE [op |-> "invalid"]

ToBazel(c) == call[c] # None /\ ~ForMaven(c)

Asked(c) == IF ToBazel(c) THEN QuestionOf(call[c]) ELSE None

AnswerOf(op, r) ==
  [kind |-> CASE r.status = 200 -> "ok"
              [] r.status = 404 /\ op # "invalid" -> "absent"
              [] r.status = 500 -> "error"
              [] OTHER -> "refused",
   value |-> r.data]

Answered(c) ==
  IF ToBazel(c) /\ reply[c] # None
    THEN AnswerOf(Asked(c).op, reply[c])
    ELSE None

Contents(k) == IF Stored(k) THEN bucket[k].data ELSE None

Cache == INSTANCE BuildCache
  WITH Askers  <- Clients,
       Keys    <- BazelKeys,
       Values  <- Data,
       entries <- [k \in BazelKeys |-> Contents(k)],
       asked   <- [c \in Clients |-> Asked(c)],
       answer  <- [c \in Clients |-> Answered(c)]

ASSUME QuestionsAssumption == None \notin Cache!Question

\* The worker keeps the promise of a build cache to every client, whatever the
\* routes, tokens, faults, copies kept by other caches, pushes and deletions.
ImplementsBuildCache == Cache!Spec

=============================================================================
