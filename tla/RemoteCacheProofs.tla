-------------------------- MODULE RemoteCacheProofs --------------------------
(***************************************************************************)
(* Proofs about RemoteCache, for every value of the constants: any number  *)
(* of builds, pushes, readers and other clients, with every fault.         *)
(***************************************************************************)
EXTENDS RemoteCacheRefinement, TLAPS

\* Each job has its request.
CallInv(c) ==
  /\ job[c] \in {"idle", "push", "done"} => call[c] = None
  /\ job[c] = "lookup" => call[c] = LookupCall(act[c])
  /\ job[c] = "fetch" => \E d \in Digests : call[c] = FetchCall(d)
  /\ job[c] = "upload" =>
       todo[c] \subseteq outs[c] /\ \E d \in outs[c] : call[c] = BlobCall(d)
  /\ job[c] = "publish" => call[c] = EntryCall(act[c], outs[c]) /\ todo[c] = {}
  /\ job[c] = "gradle" => \E k \in MavenKeys : call[c] = ReadCall(k)
  /\ job[c] = "probe" => call[c] \in Probes

CallsInv == \A c \in Clients : CallInv(c)

\* A request that waits for R2 was in order.
StepInv(c) ==
  /\ step[c] \in Waiting =>
       call[c].target \in MavenKeys \/ (call[c].token /\ call[c].target \in BazelKeys)
  /\ step[c] = "put" =>
       /\ call[c].method = "PUT" /\ call[c].body # None /\ call[c].token
       /\ call[c].target \in BazelKeys
       /\ job[c] \in {"upload", "publish"}
  /\ step[c] = "get" => call[c].method = "GET"
  /\ step[c] = "head" => call[c].method = "HEAD"

StepsInv == \A c \in Clients : StepInv(c)

\* What is stored under ac/ is an entry, and only Maven files are kept by others.
DataInv ==
  /\ \A d \in Digests : Stored(<<"ac", d>>) => bucket[<<"ac", d>>].data \in Entry
  /\ \A k \in BazelKeys : kept[k] = None
  /\ \A c \in Clients :
       reply[c] # None /\ reply[c].status = 200 =>
         /\ job[c] = "lookup" => reply[c].data \in Entry
         /\ job[c] = "gradle" => reply[c].data \in Data

TypeInv == TypeOK /\ CallsInv /\ StepsInv /\ DataInv

LEMMA KeyFacts ==
  /\ \A k \in BazelKeys : k \in Keys /\ k[1] \in {"ac", "cas"} /\ k[1] # "maven" /\ k[2] \in Digests
  /\ \A k \in BazelKeys : k = <<k[1], k[2]>>
  /\ \A k \in MavenKeys : k \in Keys /\ k[1] = "maven" /\ k \notin BazelKeys
  /\ \A k \in Keys : k \in BazelKeys \/ k \in MavenKeys
  /\ \A k \in Keys : k # Elsewhere
  /\ \A d \in Digests : <<"ac", d>> \in BazelKeys /\ <<"cas", d>> \in BazelKeys
  /\ \A d, e \in Digests : <<"ac", d>> # <<"cas", e>>
  /\ \A d, e \in Digests : <<"cas", d>> = <<"cas", e>> => d = e
  /\ \A i \in DOMAIN Parts : <<"maven", Parts[i]>> \in MavenKeys
  /\ Dotted[1] = "maven" /\ Elsewhere[1] # "maven"
  /\ Dotted \notin BazelKeys /\ Elsewhere \notin BazelKeys
<1>1. \A k \in BazelKeys :
        /\ k[1] \in {"ac", "cas"} /\ k[1] # "maven" /\ k[2] \in Digests
        /\ k = <<k[1], k[2]>>
  BY DEF BazelKeys
<1>2. \A k \in MavenKeys : k[1] = "maven" /\ k \notin BazelKeys
  BY <1>1 DEF MavenKeys
<1>3. Dotted[1] = "maven" /\ Elsewhere[1] = "other"
  BY DEF Dotted, Elsewhere
<1>4. \A d \in Digests : <<"ac", d>> \in BazelKeys /\ <<"cas", d>> \in BazelKeys
  BY DEF BazelKeys
<1>5. \A d, e \in Digests : <<"ac", d>> # <<"cas", e>> /\ (<<"cas", d>> = <<"cas", e>> => d = e)
  OBVIOUS
<1>6. \A i \in DOMAIN Parts : <<"maven", Parts[i]>> \in MavenKeys
  BY DEF MavenKeys
<1>7. \A k \in Keys : k \in BazelKeys \/ k \in MavenKeys
  BY DEF Keys
<1>8. \A k \in Keys : k # Elsewhere
  BY <1>1, <1>2, <1>3, <1>7
<1>9. Dotted \notin BazelKeys /\ Elsewhere \notin BazelKeys
  BY <1>1, <1>3
<1>10. BazelKeys \subseteq Keys /\ MavenKeys \subseteq Keys
  BY DEF Keys
<1> QED
  BY <1>1, <1>2, <1>3, <1>4, <1>5, <1>6, <1>7, <1>8, <1>9, <1>10

LEMMA RequestFacts ==
  /\ \A a \in Digests : LookupCall(a) \in Call /\ FetchCall(a) \in Call /\ BlobCall(a) \in Call
  /\ \A a \in Digests, S \in SUBSET Digests : EntryCall(a, S) \in Call
  /\ \A k \in MavenKeys : ReadCall(k) \in Call
  /\ Probes \subseteq Call
  /\ None \notin Call
<1>1. None \in Data \cup {None}
  OBVIOUS
<1>2. \A d \in Digests : d \in Data
  BY DEF Data
<1>3. \A S \in SUBSET Digests : [blobs |-> S] \in Data
  BY DEF Data, Entry
<1> QED
  BY <1>1, <1>2, <1>3, KeyFacts, ProbesAssumption, NoneAssumption
  DEF LookupCall, FetchCall, BlobCall, EntryCall, ReadCall, Request, Call

LEMMA CallFields ==
  ASSUME NEW q \in Call
  PROVE  /\ q.method \in {"PUT", "GET", "HEAD", "POST"}
         /\ q.target \in Keys \cup {Dotted, Elsewhere}
         /\ q.token \in BOOLEAN /\ q.body \in Data \cup {None}
         /\ q # None
  BY NoneAssumption DEF Call

LEMMA InitTypeInv == Init => TypeInv
<1> SUFFICES ASSUME Init PROVE TypeInv
  OBVIOUS
<1>1. 0 \in 0 .. Len(Parts) - 1
  BY PartsAssumption
<1>2. TypeOK
  BY <1>1, TeamsAssumption DEF Init, TypeOK, Waiting, Building
<1>3. \A d \in Digests : <<"ac", d>> \in Keys
  BY KeyFacts
<1>4. CallsInv /\ StepsInv
  BY DEF Init, CallsInv, CallInv, StepsInv, StepInv, Waiting
<1>5. DataInv
  BY <1>3, KeyFacts DEF Init, DataInv, Stored
<1> QED
  BY <1>2, <1>4, <1>5 DEF TypeInv

-----------------------------------------------------------------------------
(* Types.                                                                  *)

\* What the objects, and the copies kept by others, are.
StoreTypes ==
  /\ bucket \in [Keys -> [data: Data, at: Nat] \cup {None}]
  /\ kept \in [Keys -> [data: Data, until: Nat] \cup {None}]
  /\ \A d \in Digests : Stored(<<"ac", d>>) => bucket[<<"ac", d>>].data \in Entry
  /\ \A k \in BazelKeys : kept[k] = None

LEMMA AnswerTypeInv ==
  ASSUME TypeInv, StoreTypes', NEW c \in Clients, call[c] # None,
         NEW status \in Nat, NEW data \in Data \cup {None}, Answer(c, status, data),
         job[c] = "lookup" /\ status = 200 => data \in Entry,
         job[c] = "gradle" /\ status = 200 => data \in Data,
         UNCHANGED <<clock, release, role, job, work>>
  PROVE  TypeInv'
<1> DEFINE r == [status |-> status, data |-> data]
<1>1. r \in [status: Nat, data: Data \cup {None}] /\ r # None
  BY NoneAssumption
<1>2. /\ reply' = [reply EXCEPT ![c] = r] /\ step' = [step EXCEPT ![c] = "answered"]
      /\ call' = call
  BY DEF Answer
<1> HIDE DEF r
<1>3. /\ reply' \in [Clients -> [status: Nat, data: Data \cup {None}] \cup {None}]
      /\ step' \in [Clients -> Waiting \cup {"none", "sent", "answered"}]
  BY <1>1, <1>2 DEF TypeInv, TypeOK, Waiting
<1>4. \A d \in Clients : reply'[d] = (IF d = c THEN r ELSE reply[d])
                      /\ step'[d] = (IF d = c THEN "answered" ELSE step[d])
  BY <1>2 DEF TypeInv, TypeOK
<1>5. TypeOK'
  BY <1>1, <1>2, <1>3, <1>4 DEF TypeInv, TypeOK, work, Waiting, StoreTypes
<1>6. CallsInv'
  BY <1>2 DEF TypeInv, CallsInv, CallInv, work
<1>7. StepsInv'
  BY <1>2, <1>4 DEF TypeInv, StepsInv, StepInv, Waiting
<1>8. r.status = status /\ r.data = data
  BY DEF r
<1>9. DataInv'
  BY <1>4, <1>8 DEF TypeInv, DataInv, StoreTypes
<1> QED
  BY <1>5, <1>6, <1>7, <1>9 DEF TypeInv

LEMMA AwaitTypeInv ==
  ASSUME TypeInv, NEW c \in Clients, NEW op \in Waiting, Await(c, op), step[c] = "sent",
         call[c].target \in MavenKeys \/ (call[c].token /\ call[c].target \in BazelKeys),
         op = "put" => /\ call[c].method = "PUT" /\ call[c].body # None /\ call[c].token
                       /\ call[c].target \in BazelKeys
                       /\ job[c] \in {"upload", "publish"},
         op = "get" => call[c].method = "GET",
         op = "head" => call[c].method = "HEAD",
         UNCHANGED <<bucket, kept, clock, release, role, job, work>>
  PROVE  TypeInv'
<1>1. step' = [step EXCEPT ![c] = op] /\ call' = call /\ reply' = reply
  BY DEF Await
<1>2. /\ step' \in [Clients -> Waiting \cup {"none", "sent", "answered"}]
      /\ \A d \in Clients : step'[d] = (IF d = c THEN op ELSE step[d])
  BY <1>1 DEF TypeInv, TypeOK
<1>3. op \notin {"none", "sent", "answered"}
  BY DEF Waiting
<1>4. TypeOK'
  BY <1>1, <1>2, <1>3, KeyFacts DEF TypeInv, TypeOK, work
<1>5. CallsInv' /\ DataInv'
  BY <1>1 DEF TypeInv, CallsInv, CallInv, DataInv, work, Stored
<1>6. StepsInv'
  BY <1>1, <1>2 DEF TypeInv, StepsInv, StepInv
<1> QED
  BY <1>4, <1>5, <1>6 DEF TypeInv

LEMMA SameStore ==
  ASSUME TypeInv, UNCHANGED <<bucket, kept>>
  PROVE  StoreTypes'
  BY DEF TypeInv, TypeOK, DataInv, StoreTypes, Stored

\* A request with a token and a body that is sent to Bazel's keys is a build's.
LEMMA OnlyBuildsPut ==
  ASSUME TypeInv, NEW c \in Clients, call[c] # None,
         call[c].method = "PUT", call[c].token, call[c].body # None,
         call[c].target \in BazelKeys
  PROVE  job[c] \in {"upload", "publish"}
<1>1. job[c] \in Building \cup {"idle", "gradle", "probe", "push", "done"}
  BY DEF TypeInv, TypeOK
<1>2. job[c] # "probe"
  BY ProbesAssumption DEF TypeInv, CallsInv, CallInv
<1>0. /\ \A a : LookupCall(a).method = "GET" /\ FetchCall(a).method = "GET"
      /\ \A k : ReadCall(k).method = "GET"
  BY DEF LookupCall, FetchCall, ReadCall, Request
<1>3. job[c] \notin {"lookup", "fetch", "gradle"}
  BY <1>0 DEF TypeInv, CallsInv, CallInv
<1>4. job[c] \notin {"idle", "push", "done"}
  BY DEF TypeInv, CallsInv, CallInv
<1> QED
  BY <1>1, <1>2, <1>3, <1>4 DEF Building

LEMMA FetchTypeInv ==
  ASSUME TypeInv, NEW c \in Clients, Fetch(c), UNCHANGED role
  PROVE  TypeInv'
<1>1. /\ step[c] = "sent" /\ call[c] # None /\ call[c] \in Call
      /\ UNCHANGED <<bucket, kept, clock, release, role, job, work>>
  BY DEF Fetch, TypeInv, TypeOK, Waiting
<1>2. StoreTypes'
  BY <1>1, SameStore
<1>3. ASSUME NEW status \in {400, 401, 404, 405}, Answer(c, status, None) PROVE TypeInv'
  <2>1. status \in Nat /\ status # 200 /\ None \in Data \cup {None}
    OBVIOUS
  <2> QED
    BY <1>1, <1>2, <1>3, <2>1, AnswerTypeInv
<1>4. CASE ForMaven(c) /\ HandleMavenRepository(c)
  <2>1. call[c].target # Dotted => call[c].target \in MavenKeys
    BY <1>1, <1>4, CallFields, KeyFacts DEF ForMaven
  <2>2. CASE call[c].method = "GET" /\ call[c].target # Dotted /\ Await(c, "get")
    BY <1>1, <2>1, <2>2, AwaitTypeInv DEF Waiting
  <2>3. CASE call[c].method = "HEAD" /\ call[c].target # Dotted /\ Await(c, "head")
    BY <1>1, <2>1, <2>3, AwaitTypeInv DEF Waiting
  <2> QED
    BY <1>3, <1>4, <2>2, <2>3 DEF HandleMavenRepository
<1>5. CASE /\ ~ForMaven(c) /\ Authorized(c) /\ call[c].target # Elsewhere
           /\ HandleBazelCache(c)
  <2>1. call[c].target \in BazelKeys /\ call[c].token
    BY <1>1, <1>5, CallFields, KeyFacts DEF ForMaven, Authorized
  <2>2. CASE call[c].method = "PUT" /\ call[c].body # None /\ Await(c, "put")
    <3>1. job[c] \in {"upload", "publish"}
      BY <1>1, <2>1, <2>2, OnlyBuildsPut
    <3> QED
      BY <1>1, <2>1, <2>2, <3>1, AwaitTypeInv DEF Waiting
  <2>3. CASE call[c].method = "GET" /\ Await(c, "get")
    BY <1>1, <2>1, <2>3, AwaitTypeInv DEF Waiting
  <2>4. CASE call[c].method = "HEAD" /\ Await(c, "head")
    BY <1>1, <2>1, <2>4, AwaitTypeInv DEF Waiting
  <2> QED
    BY <1>3, <1>5, <2>2, <2>3, <2>4 DEF HandleBazelCache
<1> QED
  BY <1>3, <1>4, <1>5 DEF Fetch

\* What a put, of a build or of the script, makes of the bucket.
LEMMA PutTypes ==
  ASSUME TypeInv, NEW k \in Keys, NEW data \in Data,
         \A d \in Digests : k = <<"ac", d>> => data \in Entry,
         bucket' = [bucket EXCEPT ![k] = [data |-> data, at |-> clock]],
         UNCHANGED kept
  PROVE  /\ StoreTypes'
         /\ bucket'[k] = [data |-> data, at |-> clock] /\ bucket'[k] # None
         /\ \A j \in Keys : j # k => bucket'[j] = bucket[j]
<1> DEFINE o == [data |-> data, at |-> clock]
<1>1. o \in [data: Data, at: Nat] /\ o # None
  BY NoneAssumption DEF TypeInv, TypeOK
<1>2. bucket' = [bucket EXCEPT ![k] = o] /\ o.data = data
  OBVIOUS
<1>3. bucket'[k] = o /\ \A j \in Keys : j # k => bucket'[j] = bucket[j]
  BY <1>2 DEF TypeInv, TypeOK
<1> HIDE DEF o
<1>4. bucket' \in [Keys -> [data: Data, at: Nat] \cup {None}]
  BY <1>1, <1>2 DEF TypeInv, TypeOK
<1>5. ASSUME NEW d \in Digests, Stored(<<"ac", d>>)'
      PROVE  (bucket[<<"ac", d>>])'.data \in Entry
  BY <1>2, <1>3, <1>5, KeyFacts DEF TypeInv, DataInv, Stored
<1>6. kept' \in [Keys -> [data: Data, until: Nat] \cup {None}] /\ \A j \in BazelKeys : kept'[j] = None
  BY DEF TypeInv, TypeOK, DataInv
<1>7. StoreTypes'
  BY <1>4, <1>5, <1>6 DEF StoreTypes, Stored
<1> QED
  BY <1>1, <1>3, <1>7 DEF o

\* What a build puts: a blob under its digest, or the entry of its action.
LEMMA BuildPuts ==
  ASSUME TypeInv, NEW c \in Clients, step[c] = "put"
  PROVE  /\ call[c].target \in BazelKeys /\ call[c].body \in Data
         /\ \/ /\ job[c] = "upload"
               /\ \E d \in outs[c] : call[c].target = <<"cas", d>> /\ call[c].body = d
            \/ /\ job[c] = "publish" /\ todo[c] = {}
               /\ call[c].target = <<"ac", act[c]>> /\ act[c] \in Digests
               /\ call[c].body = [blobs |-> outs[c]]
         /\ \A d \in Digests : call[c].target = <<"ac", d>> => call[c].body \in Entry
         /\ outs[c] \subseteq Digests
<1>1. /\ call[c] \in Call /\ call[c].target \in BazelKeys /\ call[c].body # None
      /\ outs[c] \subseteq Digests /\ job[c] \in {"upload", "publish"}
  BY DEF TypeInv, TypeOK, StepsInv, StepInv, Waiting
<1>2. call[c].body \in Data
  BY <1>1, CallFields
<1>3. CASE job[c] = "upload"
  <2>1. PICK d \in outs[c] : call[c] = BlobCall(d)
    BY <1>3 DEF TypeInv, CallsInv, CallInv
  <2>2. call[c].target = <<"cas", d>> /\ call[c].body = d
    BY <2>1 DEF BlobCall, Request
  <2> QED
    BY <1>1, <1>2, <1>3, <2>2, KeyFacts
<1>4. CASE job[c] = "publish"
  <2>1. act[c] \in Actions
    BY <1>4 DEF TypeInv, TypeOK, Building
  <2>0. call[c] = EntryCall(act[c], outs[c]) /\ todo[c] = {}
    BY <1>4 DEF TypeInv, CallsInv, CallInv
  <2>2. /\ call[c].target = <<"ac", act[c]>> /\ todo[c] = {}
        /\ call[c].body = [blobs |-> outs[c]]
    BY <2>0 DEF EntryCall, Request
  <2>3. [blobs |-> outs[c]] \in Entry
    BY <1>1 DEF Entry
  <2> QED
    BY <1>1, <1>2, <1>4, <2>1, <2>2, <2>3, ActionsAssumption
<1> QED
  BY <1>1, <1>3, <1>4

LEMMA RejectedTypeInv ==
  ASSUME TypeInv, StoreTypes', NEW c \in Clients, step[c] \in Waiting, Rejected(c),
         UNCHANGED <<clock, release, role, job, work>>
  PROVE  TypeInv'
<1>1. call[c] # None /\ Answer(c, 500, None) /\ 500 \in Nat /\ 500 # 200
  BY DEF Rejected, TypeInv, TypeOK, Waiting
<1> QED
  BY <1>1, AnswerTypeInv

LEMMA R2PutTypeInv ==
  ASSUME TypeInv, NEW c \in Clients, R2Put(c), UNCHANGED role
  PROVE  TypeInv'
<1>1. /\ step[c] = "put" /\ call[c] # None /\ step[c] \in Waiting
      /\ UNCHANGED <<kept, clock, release, role, job, work>>
  BY DEF R2Put, TypeInv, TypeOK, Waiting
<1>2. StoreTypes'
  <2>1. CASE StorePut(c)
    BY <1>1, <2>1, BuildPuts, PutTypes, KeyFacts DEF StorePut, Key
  <2> QED
    BY <1>1, <2>1, SameStore DEF R2Put
<1>3. CASE Answer(c, 200, None)
  <2>1. job[c] \notin {"lookup", "gradle"}
    BY <1>1, BuildPuts
  <2>2. 200 \in Nat /\ None \in Data \cup {None}
    OBVIOUS
  <2> QED
    BY <1>1, <1>2, <1>3, <2>1, <2>2, AnswerTypeInv
<1> QED
  BY <1>1, <1>2, <1>3, RejectedTypeInv DEF R2Put

LEMMA LookupAsksEntry ==
  ASSUME TypeInv, NEW c \in Clients, job[c] = "lookup"
  PROVE  act[c] \in Digests /\ call[c].target = <<"ac", act[c]>>
<1>1. act[c] \in Digests /\ call[c] = LookupCall(act[c])
  BY ActionsAssumption DEF TypeInv, TypeOK, CallsInv, CallInv, Building
<1> QED
  BY <1>1 DEF LookupCall, Request

LEMMA R2GetTypeInv ==
  ASSUME TypeInv, NEW c \in Clients, R2Get(c), UNCHANGED role
  PROVE  TypeInv'
<1>1. /\ step[c] = "get" /\ call[c] # None /\ step[c] \in Waiting
      /\ call[c].target \in Keys
      /\ UNCHANGED <<bucket, clock, release, role, job, work>>
  BY DEF R2Get, TypeInv, TypeOK, Waiting
<1>2. CASE UNCHANGED kept
  <2>1. StoreTypes'
    BY <1>1, <1>2, SameStore
  <2>2. CASE bucket[Key(c)] # None /\ Answer(c, 200, bucket[Key(c)].data)
    <3>1. bucket[Key(c)].data \in Data
      BY <1>1, <2>2 DEF Key, TypeInv, TypeOK
    <3>2. ASSUME job[c] = "lookup" PROVE bucket[Key(c)].data \in Entry
      <4>1. act[c] \in Digests /\ call[c].target = <<"ac", act[c]>>
        BY <3>2, LookupAsksEntry
      <4> QED
        BY <2>2, <4>1 DEF Key, TypeInv, DataInv, Stored
    <3> QED
      BY <1>1, <2>1, <2>2, <3>1, <3>2, AnswerTypeInv
  <2>3. CASE Answer(c, 404, None)
    BY <1>1, <2>1, <2>3, AnswerTypeInv
  <2> QED
    BY <1>1, <2>1, <2>2, <2>3, RejectedTypeInv DEF R2Get
<1>3. CASE /\ bucket[Key(c)] # None /\ Answer(c, 200, bucket[Key(c)].data)
           /\ Headers(c).scope = "public"
           /\ kept' = [kept EXCEPT ![call[c].target] =
                [data |-> bucket[Key(c)].data, until |-> clock + Headers(c).maxAge]]
  <2>1. ForMaven(c) /\ Headers(c).maxAge \in Nat
    BY <1>3, TimesAssumption
    DEF Headers, CacheObjectHeaders, MavenObjectHeaders
  <2>2. call[c].target \notin BazelKeys
    BY <2>1, KeyFacts DEF ForMaven
  <2>3. bucket[Key(c)].data \in Data
    BY <1>1, <1>3 DEF Key, TypeInv, TypeOK
  <2>4. job[c] # "lookup"
    <3> SUFFICES ASSUME job[c] = "lookup" PROVE FALSE
      OBVIOUS
    <3>1. act[c] \in Digests /\ call[c].target = <<"ac", act[c]>>
      BY LookupAsksEntry
    <3>2. <<"ac", act[c]>> \in BazelKeys
      BY <3>1, KeyFacts
    <3> QED
      BY <2>2, <3>1, <3>2
  <2> DEFINE copy == [data |-> bucket[Key(c)].data, until |-> clock + Headers(c).maxAge]
  <2>5. copy \in [data: Data, until: Nat]
    BY <2>1, <2>3 DEF TypeInv, TypeOK
  <2>5a. kept' = [kept EXCEPT ![call[c].target] = copy]
    BY <1>3
  <2> HIDE DEF copy
  <2>6. /\ kept' \in [Keys -> [data: Data, until: Nat] \cup {None}]
        /\ \A k \in BazelKeys : kept'[k] = None
    BY <1>1, <2>2, <2>5, <2>5a, KeyFacts DEF TypeInv, TypeOK, DataInv
  <2>7. StoreTypes'
    BY <1>1, <2>6 DEF StoreTypes, Stored, TypeInv, TypeOK, DataInv
  <2> QED
    BY <1>1, <1>3, <2>3, <2>4, <2>7, AnswerTypeInv
<1> QED
  BY <1>2, <1>3 DEF R2Get, MayBeKept

LEMMA R2HeadTypeInv ==
  ASSUME TypeInv, NEW c \in Clients, R2Head(c), UNCHANGED role
  PROVE  TypeInv'
<1>1. /\ step[c] = "head" /\ call[c] # None /\ step[c] \in Waiting
      /\ UNCHANGED <<bucket, kept, clock, release, role, job, work>>
  BY DEF R2Head, TypeInv, TypeOK, Waiting
<1>2. StoreTypes'
  BY <1>1, SameStore
<1>0. LookupCall(act[c]).method = "GET" /\ \A k : ReadCall(k).method = "GET"
  BY DEF LookupCall, ReadCall, Request
<1>3. job[c] \notin {"lookup", "gradle"}
  BY <1>0, <1>1 DEF TypeInv, StepsInv, StepInv, CallsInv, CallInv
<1>4. ASSUME NEW status \in {200, 404}, Answer(c, status, None) PROVE TypeInv'
  <2>1. status \in Nat /\ None \in Data \cup {None}
    OBVIOUS
  <2> QED
    BY <1>1, <1>2, <1>3, <1>4, <2>1, AnswerTypeInv
<1> QED
  BY <1>1, <1>2, <1>4, RejectedTypeInv DEF R2Head

LEMMA OnTheWayTypeInv ==
  ASSUME TypeInv, NEW c \in Clients, AnsweredOnTheWay(c), UNCHANGED role
  PROVE  TypeInv' /\ call[c].target \in MavenKeys
<1>1. /\ call[c].target \in Keys /\ kept[call[c].target] # None /\ call[c] # None
      /\ Answer(c, 200, kept[call[c].target].data)
      /\ UNCHANGED <<bucket, kept, clock, release, role, job, work>>
  BY DEF AnsweredOnTheWay, TypeInv, TypeOK, Waiting
<1>2. call[c].target \in MavenKeys
  BY <1>1, KeyFacts DEF TypeInv, DataInv
<1>3. job[c] # "lookup"
  <2> SUFFICES ASSUME job[c] = "lookup" PROVE FALSE
    OBVIOUS
  <2>1. act[c] \in Digests /\ call[c].target = <<"ac", act[c]>>
    BY LookupAsksEntry
  <2> QED
    BY <1>2, <2>1, KeyFacts
<1>4. kept[call[c].target].data \in Data
  BY <1>1 DEF TypeInv, TypeOK
<1>5. StoreTypes'
  BY <1>1, SameStore
<1>6. 200 \in Nat
  OBVIOUS
<1> QED
  BY <1>1, <1>2, <1>3, <1>4, <1>5, <1>6, AnswerTypeInv

LEMMA ExpireTypeInv ==
  ASSUME TypeInv, NEW k \in Keys, Expire(k), UNCHANGED role
  PROVE  TypeInv'
<1>1. /\ bucket' \in [Keys -> [data: Data, at: Nat] \cup {None}]
      /\ \A j \in Keys : bucket'[j] = bucket[j] \/ bucket'[j] = None
      /\ UNCHANGED <<kept, clock, release, role, job, work, http>>
  BY DEF Expire, TypeInv, TypeOK
<1>2. DataInv'
  BY <1>1, KeyFacts DEF TypeInv, DataInv, Stored, http
<1> QED
  BY <1>1, <1>2 DEF TypeInv, TypeOK, CallsInv, CallInv, StepsInv, StepInv, work, http

LEMMA TickTypeInv ==
  ASSUME TypeInv, Tick, UNCHANGED role
  PROVE  TypeInv'
  BY DEF Tick, TypeInv, TypeOK, CallsInv, CallInv, StepsInv, StepInv, DataInv, Stored, work, http

\* A client that sends its next request, or ends.
\* What a client works on keeps its types, and no other client's work changes.
WorkTypes(c) ==
  /\ clock' \in Nat /\ release' \in [by: Clients, at: Nat] \cup {None}
  /\ act' \in [Clients -> Actions \cup {None}]
  /\ outs' \in [Clients -> SUBSET Digests] /\ todo' \in [Clients -> SUBSET Digests]
  /\ begun' \in [Clients -> Nat] /\ pushed' \in [Clients -> 0 .. Len(Parts) - 1]
  /\ got' \in [Clients -> SUBSET Data]
  /\ \A d \in Clients \ {c} :
       act'[d] = act[d] /\ outs'[d] = outs[d] /\ todo'[d] = todo[d]

\* The request is the one that the job it is sent for calls for.
SentFits(c, q, next) ==
  /\ next \in Building => act'[c] # None
  /\ next = "lookup" => q = LookupCall(act'[c])
  /\ next = "fetch" => \E d \in Digests : q = FetchCall(d)
  /\ next = "upload" =>
       todo'[c] \subseteq outs'[c] /\ \E d \in outs'[c] : q = BlobCall(d)
  /\ next = "publish" => q = EntryCall(act'[c], outs'[c]) /\ todo'[c] = {}
  /\ next = "gradle" => \E k \in MavenKeys : q = ReadCall(k)
  /\ next = "probe" => q \in Probes

LEMMA SendTypeInv ==
  ASSUME TypeInv, StoreTypes', NEW c \in Clients, role' = role, WorkTypes(c),
         NEW q \in Call, Send(c, q),
         NEW next \in Building \cup {"gradle", "probe"}, job' = [job EXCEPT ![c] = next],
         SentFits(c, q, next)
  PROVE  TypeInv'
<1> USE DEF WorkTypes, SentFits
<1>1. q # None
  BY NoneAssumption
<1>2. \A d \in Clients : /\ call'[d] = (IF d = c THEN q ELSE call[d])
                         /\ step'[d] = (IF d = c THEN "sent" ELSE step[d])
                         /\ reply'[d] = (IF d = c THEN None ELSE reply[d])
                         /\ job'[d] = (IF d = c THEN next ELSE job[d])
  BY DEF Send, TypeInv, TypeOK
<1>3. /\ call' \in [Clients -> Call \cup {None}]
      /\ step' \in [Clients -> Waiting \cup {"none", "sent", "answered"}]
      /\ reply' \in [Clients -> [status: Nat, data: Data \cup {None}] \cup {None}]
      /\ job' \in [Clients -> Building \cup {"idle", "gradle", "probe", "push", "done"}]
  BY DEF Send, TypeInv, TypeOK
<1>4. TypeOK'
  BY <1>1, <1>2, <1>3 DEF TypeInv, TypeOK, StoreTypes, Waiting
<1>5. CallsInv'
  <2> SUFFICES ASSUME NEW d \in Clients PROVE CallInv(d)'
    BY DEF CallsInv
  <2>1. CASE d = c
    BY <1>2, <2>1 DEF Building, CallInv
  <2>2. CASE d # c
    <3>1. CallInv(d)
      BY DEF TypeInv, CallsInv
    <3> QED
      BY <1>2, <2>2, <3>1 DEF CallInv
  <2> QED
    BY <2>1, <2>2
<1>6. StepsInv'
  <2> SUFFICES ASSUME NEW d \in Clients PROVE StepInv(d)'
    BY DEF StepsInv
  <2>1. CASE d = c
    BY <1>2, <2>1 DEF StepInv, Waiting
  <2>2. CASE d # c
    <3>1. StepInv(d)
      BY DEF TypeInv, StepsInv
    <3> QED
      BY <1>2, <2>2, <3>1 DEF StepInv
  <2> QED
    BY <2>1, <2>2
<1>7. DataInv'
  <2>1. ASSUME NEW d \in Clients, reply'[d] # None
        PROVE  reply'[d] = reply[d] /\ job'[d] = job[d]
    BY <1>2, <2>1
  <2>2. ASSUME NEW d \in Clients, reply'[d] # None, reply'[d].status = 200
        PROVE  /\ job'[d] = "lookup" => reply'[d].data \in Entry
               /\ job'[d] = "gradle" => reply'[d].data \in Data
    <3>1. reply'[d] = reply[d] /\ job'[d] = job[d]
      BY <2>1, <2>2
    <3>2. reply[d] # None /\ reply[d].status = 200 =>
            /\ job[d] = "lookup" => reply[d].data \in Entry
            /\ job[d] = "gradle" => reply[d].data \in Data
      BY DEF TypeInv, DataInv
    <3> QED
      BY <2>2, <3>1, <3>2
  <2> QED
    BY <2>2 DEF DataInv, StoreTypes
<1> QED
  BY <1>4, <1>5, <1>6, <1>7 DEF TypeInv

LEMMA HangupTypeInv ==
  ASSUME TypeInv, StoreTypes', NEW c \in Clients, Hangup(c),
         clock' \in Nat, release' \in [by: Clients, at: Nat] \cup {None}, role' = role,
         NEW next \in {"idle", "done"}, job' = [job EXCEPT ![c] = next],
         act' \in [Clients -> Actions \cup {None}],
         outs' \in [Clients -> SUBSET Digests], todo' \in [Clients -> SUBSET Digests],
         begun' \in [Clients -> Nat], pushed' \in [Clients -> 0 .. Len(Parts) - 1],
         got' \in [Clients -> SUBSET Data],
         \A d \in Clients \ {c} :
           act'[d] = act[d] /\ outs'[d] = outs[d] /\ todo'[d] = todo[d]
  PROVE  TypeInv'
<1>2. \A d \in Clients : /\ call'[d] = (IF d = c THEN None ELSE call[d])
                         /\ step'[d] = (IF d = c THEN "none" ELSE step[d])
                         /\ reply'[d] = (IF d = c THEN None ELSE reply[d])
                         /\ job'[d] = (IF d = c THEN next ELSE job[d])
  BY DEF Hangup, TypeInv, TypeOK
<1>3. /\ call' \in [Clients -> Call \cup {None}]
      /\ step' \in [Clients -> Waiting \cup {"none", "sent", "answered"}]
      /\ reply' \in [Clients -> [status: Nat, data: Data \cup {None}] \cup {None}]
      /\ job' \in [Clients -> Building \cup {"idle", "gradle", "probe", "push", "done"}]
  BY DEF Hangup, TypeInv, TypeOK
<1>4. TypeOK'
  BY <1>2, <1>3 DEF TypeInv, TypeOK, StoreTypes, Waiting, Building
<1>5. CallsInv'
  <2> SUFFICES ASSUME NEW d \in Clients PROVE CallInv(d)'
    BY DEF CallsInv
  <2>1. CASE d = c
    BY <1>2, <2>1 DEF CallInv
  <2>2. CASE d # c
    <3>1. CallInv(d)
      BY DEF TypeInv, CallsInv
    <3> QED
      BY <1>2, <2>2, <3>1 DEF CallInv
  <2> QED
    BY <2>1, <2>2
<1>6. StepsInv'
  <2> SUFFICES ASSUME NEW d \in Clients PROVE StepInv(d)'
    BY DEF StepsInv
  <2>1. CASE d = c
    BY <1>2, <2>1 DEF StepInv, Waiting
  <2>2. CASE d # c
    <3>1. StepInv(d)
      BY DEF TypeInv, StepsInv
    <3> QED
      BY <1>2, <2>2, <3>1 DEF StepInv
  <2> QED
    BY <2>1, <2>2
<1>7. DataInv'
  <2>1. ASSUME NEW d \in Clients, reply'[d] # None
        PROVE  reply'[d] = reply[d] /\ job'[d] = job[d]
    BY <1>2, <2>1
  <2>2. ASSUME NEW d \in Clients, reply'[d] # None, reply'[d].status = 200
        PROVE  /\ job'[d] = "lookup" => reply'[d].data \in Entry
               /\ job'[d] = "gradle" => reply'[d].data \in Data
    <3>1. reply'[d] = reply[d] /\ job'[d] = job[d]
      BY <2>1, <2>2
    <3>2. reply[d] # None /\ reply[d].status = 200 =>
            /\ job[d] = "lookup" => reply[d].data \in Entry
            /\ job[d] = "gradle" => reply[d].data \in Data
      BY DEF TypeInv, DataInv
    <3> QED
      BY <2>2, <3>1, <3>2
  <2> QED
    BY <2>2 DEF DataInv, StoreTypes
<1> QED
  BY <1>4, <1>5, <1>6, <1>7 DEF TypeInv

LEMMA EndTypeInv ==
  ASSUME TypeInv, StoreTypes', NEW c \in Clients, End(c), UNCHANGED <<clock, release, role>>
  PROVE  TypeInv'
<1>1. 0 \in 0 .. Len(Parts) - 1 /\ 0 \in Nat
  BY PartsAssumption
<1>2. /\ Hangup(c) /\ job' = [job EXCEPT ![c] = "done"]
      /\ act' = [act EXCEPT ![c] = None]
      /\ outs' = [outs EXCEPT ![c] = {}]
      /\ todo' = [todo EXCEPT ![c] = {}]
      /\ begun' = [begun EXCEPT ![c] = 0]
      /\ pushed' = [pushed EXCEPT ![c] = 0]
      /\ got' = [got EXCEPT ![c] = {}]
  BY DEF End, Become, Forget
<1>3. /\ act' \in [Clients -> Actions \cup {None}]
      /\ outs' \in [Clients -> SUBSET Digests] /\ todo' \in [Clients -> SUBSET Digests]
      /\ begun' \in [Clients -> Nat] /\ pushed' \in [Clients -> 0 .. Len(Parts) - 1]
      /\ got' \in [Clients -> SUBSET Data]
      /\ \A d \in Clients \ {c} :
           act'[d] = act[d] /\ outs'[d] = outs[d] /\ todo'[d] = todo[d]
      /\ clock' \in Nat /\ release' \in [by: Clients, at: Nat] \cup {None}
  BY <1>1, <1>2 DEF TypeInv, TypeOK
<1>4. "done" \in {"idle", "done"}
  OBVIOUS
<1> QED
  BY ONLY TypeInv, StoreTypes', <1>2, <1>3, <1>4, HangupTypeInv, c \in Clients, role' = role

LEMMA StartBuildTypeInv ==
  ASSUME TypeInv, NEW c \in Clients, StartBuild(c), UNCHANGED role
  PROVE  TypeInv'
<1>1. PICK a \in Actions : act' = [act EXCEPT ![c] = a] /\ Send(c, LookupCall(a))
  BY DEF StartBuild
<1>2. /\ job' = [job EXCEPT ![c] = "lookup"]
      /\ UNCHANGED <<bucket, kept, clock, release, outs, todo, begun, pushed, got>>
  BY DEF StartBuild, Become, Worker
<1>3. StoreTypes' /\ a \in Digests /\ a # None
  BY <1>2, SameStore, ActionsAssumption, NoneAssumption DEF Data
<1>4. LookupCall(a) \in Call
  BY <1>3, RequestFacts
<1>5. /\ act' \in [Clients -> Actions \cup {None}] /\ act'[c] = a
      /\ \A d \in Clients \ {c} : act'[d] = act[d]
  BY <1>1 DEF TypeInv, TypeOK
<1>6. /\ clock' \in Nat /\ release' \in [by: Clients, at: Nat] \cup {None}
      /\ outs' \in [Clients -> SUBSET Digests] /\ todo' \in [Clients -> SUBSET Digests]
      /\ begun' \in [Clients -> Nat] /\ pushed' \in [Clients -> 0 .. Len(Parts) - 1]
      /\ got' \in [Clients -> SUBSET Data]
  BY <1>2 DEF TypeInv, TypeOK
<1> QED
  <2>1. WorkTypes(c)
    BY <1>5, <1>6, <1>2 DEF WorkTypes
  <2>2. SentFits(c, LookupCall(a), "lookup")
    BY <1>3, <1>5 DEF SentFits
  <2> QED
    BY <1>1, <1>2, <1>3, <1>4, <2>1, <2>2, SendTypeInv DEF Building

LEMMA ExecuteTypeInv ==
  ASSUME TypeInv, NEW c \in Clients, job[c] \in Building, Execute(c),
         UNCHANGED <<Worker, role>>
  PROVE  TypeInv'
<1>1. PICK S \in SUBSET Digests :
        /\ outs' = [outs EXCEPT ![c] = S] /\ todo' = [todo EXCEPT ![c] = S]
        /\ \E d \in S : Send(c, BlobCall(d))
  BY DEF Execute, Todo
<1>2. PICK d \in S : Send(c, BlobCall(d))
  BY <1>1
<1>3. /\ job' = [job EXCEPT ![c] = "upload"] /\ begun' = [begun EXCEPT ![c] = clock]
      /\ UNCHANGED <<bucket, kept, clock, release, act, pushed, got>>
  BY DEF Execute, Become, Worker
<1>4. StoreTypes' /\ BlobCall(d) \in Call
  BY <1>3, SameStore, RequestFacts
<1>5. /\ outs' \in [Clients -> SUBSET Digests] /\ todo' \in [Clients -> SUBSET Digests]
      /\ outs'[c] = S /\ todo'[c] = S /\ begun' \in [Clients -> Nat]
      /\ \A e \in Clients \ {c} : outs'[e] = outs[e] /\ todo'[e] = todo[e]
  BY <1>1, <1>3 DEF TypeInv, TypeOK
<1>6. /\ clock' \in Nat /\ release' \in [by: Clients, at: Nat] \cup {None}
      /\ act' \in [Clients -> Actions \cup {None}] /\ act'[c] # None
      /\ pushed' \in [Clients -> 0 .. Len(Parts) - 1]
      /\ got' \in [Clients -> SUBSET Data]
      /\ \A e \in Clients \ {c} : act'[e] = act[e]
  BY <1>3 DEF TypeInv, TypeOK
<1>7. todo'[c] \subseteq outs'[c] /\ \E e \in outs'[c] : BlobCall(d) = BlobCall(e)
  BY <1>5
<1>8. WorkTypes(c)
  BY <1>5, <1>6 DEF WorkTypes
<1>9. SentFits(c, BlobCall(d), "upload")
  BY <1>6, <1>7 DEF SentFits
<1> QED
  BY <1>2, <1>3, <1>4, <1>8, <1>9, SendTypeInv DEF Building

LEMMA LookUpTypeInv ==
  ASSUME TypeInv, NEW c \in Clients, LookUp(c), UNCHANGED role
  PROVE  TypeInv'
<1>1. /\ job[c] = "lookup" /\ step[c] = "answered" /\ job[c] \in Building
      /\ UNCHANGED <<bucket, kept, clock, release>> /\ UNCHANGED Worker
  BY DEF LookUp, Reads, Worker, Building
<1>2. CASE /\ Succeeded(c)
           /\ Todo(c, reply[c].data.blobs)
           /\ \E d \in reply[c].data.blobs : Send(c, FetchCall(d))
           /\ Become(c, "fetch")
           /\ UNCHANGED <<act, outs, begun, pushed, got>>
  <2>1. reply[c].data.blobs \in SUBSET Digests
    BY <1>1, <1>2 DEF Succeeded, Entry, TypeInv, TypeOK, DataInv
  <2>2. PICK d \in Digests : Send(c, FetchCall(d))
    BY <1>2, <2>1
  <2>3. /\ todo' \in [Clients -> SUBSET Digests]
        /\ \A e \in Clients \ {c} : todo'[e] = todo[e]
        /\ job' = [job EXCEPT ![c] = "fetch"]
    BY <1>2, <2>1 DEF Todo, Become, TypeInv, TypeOK
  <2>4. /\ clock' \in Nat /\ release' \in [by: Clients, at: Nat] \cup {None}
        /\ act' \in [Clients -> Actions \cup {None}] /\ act'[c] # None
        /\ outs' \in [Clients -> SUBSET Digests] /\ begun' \in [Clients -> Nat]
        /\ pushed' \in [Clients -> 0 .. Len(Parts) - 1]
        /\ got' \in [Clients -> SUBSET Data]
        /\ \A e \in Clients \ {c} : act'[e] = act[e] /\ outs'[e] = outs[e]
    BY <1>1, <1>2 DEF TypeInv, TypeOK
  <2>5. StoreTypes' /\ FetchCall(d) \in Call
    BY <1>1, SameStore, RequestFacts
  <2> QED
    <3>1. WorkTypes(c)
      BY <2>3, <2>4 DEF WorkTypes
    <3>2. SentFits(c, FetchCall(d), "fetch")
      BY <2>4 DEF SentFits
    <3> QED
      BY <2>2, <2>3, <2>5, <3>1, <3>2, SendTypeInv DEF Building
<1> QED
  BY <1>1, <1>2, ExecuteTypeInv DEF LookUp

\* Sends of a client that goes on with its job, or with the next.
LEMMA GoOnTypeInv ==
  ASSUME TypeInv, NEW c \in Clients, NEW q \in Call, Send(c, q),
         UNCHANGED <<Worker, role, act, outs, begun, pushed>>,
         NEW blobs \in SUBSET Digests, todo' = [todo EXCEPT ![c] = blobs],
         got' \in [Clients -> SUBSET Data],
         NEW next \in Building \cup {"gradle", "probe"}, job' = [job EXCEPT ![c] = next],
         next \in Building => act[c] # None,
         next = "lookup" => q = LookupCall(act[c]),
         next = "fetch" => \E d \in Digests : q = FetchCall(d),
         next = "upload" =>
           blobs \subseteq outs[c] /\ \E d \in outs[c] : q = BlobCall(d),
         next = "publish" => q = EntryCall(act[c], outs[c]) /\ blobs = {},
         next = "gradle" => \E k \in MavenKeys : q = ReadCall(k),
         next = "probe" => q \in Probes
  PROVE  TypeInv'
<1>1. UNCHANGED <<bucket, kept, clock, release>>
  BY DEF Worker
<1>2. StoreTypes'
  BY <1>1, SameStore
<1>3. /\ todo' \in [Clients -> SUBSET Digests] /\ todo'[c] = blobs
      /\ \A d \in Clients \ {c} : todo'[d] = todo[d]
      /\ act' = act /\ outs' = outs
  BY DEF TypeInv, TypeOK
<1>4. /\ clock' \in Nat /\ release' \in [by: Clients, at: Nat] \cup {None}
      /\ act' \in [Clients -> Actions \cup {None}]
      /\ outs' \in [Clients -> SUBSET Digests] /\ begun' \in [Clients -> Nat]
      /\ pushed' \in [Clients -> 0 .. Len(Parts) - 1]
  BY <1>1 DEF TypeInv, TypeOK
<1> QED
  <2>1. WorkTypes(c)
    BY <1>3, <1>4 DEF WorkTypes
  <2>2. SentFits(c, q, next)
    BY <1>3 DEF SentFits
  <2> QED
    BY <1>2, <2>1, <2>2, SendTypeInv

LEMMA Unmoved ==
  ASSUME TypeInv, NEW c \in Clients
  PROVE  /\ job = [job EXCEPT ![c] = job[c]] /\ todo = [todo EXCEPT ![c] = todo[c]]
         /\ todo[c] \in SUBSET Digests /\ outs[c] \in SUBSET Digests
         /\ got \in [Clients -> SUBSET Data]
  BY DEF TypeInv, TypeOK

LEMMA FetchBlobTypeInv ==
  ASSUME TypeInv, NEW c \in Clients, FetchBlob(c), UNCHANGED role
  PROVE  TypeInv'
<1> DEFINE left == todo[c] \ {call[c].target[2]}
<1>1. /\ job[c] = "fetch" /\ job[c] \in Building /\ act[c] # None
      /\ UNCHANGED Worker /\ UNCHANGED <<bucket, kept, clock, release>>
      /\ left \in SUBSET Digests
  BY Unmoved DEF FetchBlob, Reads, Worker, Building, TypeInv, TypeOK
<1>2. CASE End(c)
  BY <1>1, <1>2, SameStore, EndTypeInv
<1>3. CASE /\ \E d \in left : Send(c, FetchCall(d))
           /\ Todo(c, left)
           /\ UNCHANGED <<job, act, outs, begun, pushed, got>>
  <2>1. PICK d \in Digests : Send(c, FetchCall(d))
    BY <1>1, <1>3
  <2>2. todo' = [todo EXCEPT ![c] = left] /\ job' = [job EXCEPT ![c] = "fetch"]
    BY <1>1, <1>3, Unmoved DEF Todo
  <2>3. FetchCall(d) \in Call /\ got' \in [Clients -> SUBSET Data]
    BY <1>3, Unmoved, RequestFacts
  <2> HIDE DEF left
  <2> QED
    <3>1. "fetch" \in Building \cup {"gradle", "probe"}
      BY DEF Building
    <3>2. /\ UNCHANGED <<Worker, role, act, outs, begun, pushed>>
          /\ act[c] # None /\ left \in SUBSET Digests
      BY <1>1, <1>3
    <3> QED
      BY ONLY TypeInv, c \in Clients, <2>1, <2>2, <2>3, <3>1, <3>2, GoOnTypeInv
<1> QED
  BY <1>1, <1>2, <1>3, ExecuteTypeInv DEF FetchBlob

LEMMA RecoverTypeInv ==
  ASSUME TypeInv, NEW c \in Clients, job[c] \in {"upload", "publish"}, Recover(c),
         UNCHANGED <<Worker, role>>
  PROVE  TypeInv'
<1>1. UNCHANGED <<bucket, kept, clock, release>>
  BY DEF Worker
<1>2. CASE End(c)
  BY <1>1, <1>2, SameStore, EndTypeInv
<1>3. CASE Send(c, call[c]) /\ UNCHANGED <<job, work>>
  <2>1. CallInv(c) /\ act[c] # None
    BY DEF TypeInv, TypeOK, CallsInv, Building
  <2>2. call[c] \in Call
    <3>1. CASE job[c] = "upload"
      BY <2>1, <3>1, Unmoved, RequestFacts DEF CallInv
    <3>2. CASE job[c] = "publish"
      BY <2>1, <3>2, Unmoved, RequestFacts, ActionsAssumption DEF CallInv, TypeInv, TypeOK
    <3> QED
      BY <3>1, <3>2
  <2>3. /\ job' = [job EXCEPT ![c] = job[c]] /\ todo' = [todo EXCEPT ![c] = todo[c]]
        /\ got' \in [Clients -> SUBSET Data] /\ todo[c] \in SUBSET Digests
        /\ UNCHANGED <<act, outs, begun, pushed>>
    BY <1>3, Unmoved DEF work
  <2>4. job[c] \in Building \cup {"gradle", "probe"}
    BY DEF Building
  <2> QED
    BY <1>3, <2>1, <2>2, <2>3, <2>4, GoOnTypeInv DEF CallInv
<1> QED
  BY <1>2, <1>3 DEF Recover

LEMMA UploadBlobTypeInv ==
  ASSUME TypeInv, NEW c \in Clients, UploadBlob(c), UNCHANGED role
  PROVE  TypeInv'
<1> DEFINE left == todo[c] \ {call[c].target[2]}
<1>1. /\ job[c] = "upload" /\ act[c] # None /\ act[c] \in Digests
      /\ UNCHANGED Worker /\ left \in SUBSET Digests
  BY Unmoved, ActionsAssumption
  DEF UploadBlob, Reads, Worker, Building, TypeInv, TypeOK
<1>2. CASE /\ \E d \in left : Send(c, BlobCall(d)) /\ UNCHANGED job
           /\ Todo(c, left)
           /\ UNCHANGED <<act, outs, begun, pushed, got>>
  <2>0. left \subseteq outs[c]
    BY <1>1 DEF TypeInv, CallsInv, CallInv
  <2>1. PICK d \in outs[c] : Send(c, BlobCall(d))
    BY <1>2, <2>0
  <2>2. todo' = [todo EXCEPT ![c] = left] /\ job' = [job EXCEPT ![c] = "upload"]
    BY <1>1, <1>2, Unmoved DEF Todo
  <2>3. BlobCall(d) \in Call /\ got' \in [Clients -> SUBSET Data]
    BY <1>2, Unmoved, RequestFacts
  <2> HIDE DEF left
  <2> QED
    BY <1>1, <1>2, <2>0, <2>1, <2>2, <2>3, GoOnTypeInv DEF Building
<1>3. CASE /\ left = {}
           /\ Send(c, EntryCall(act[c], outs[c]))
           /\ Become(c, "publish")
           /\ Todo(c, left)
           /\ UNCHANGED <<act, outs, begun, pushed, got>>
  <2>2. todo' = [todo EXCEPT ![c] = left] /\ job' = [job EXCEPT ![c] = "publish"]
    BY <1>3 DEF Todo, Become
  <2>3. EntryCall(act[c], outs[c]) \in Call /\ got' \in [Clients -> SUBSET Data]
    BY <1>1, <1>3, Unmoved, RequestFacts
  <2> HIDE DEF left
  <2> QED
    BY <1>1, <1>3, <2>2, <2>3, GoOnTypeInv DEF Building
<1> QED
  BY <1>1, <1>2, <1>3, RecoverTypeInv DEF UploadBlob

LEMMA OtherJobsTypeInv ==
  ASSUME TypeInv, NEW c \in Clients, UNCHANGED role,
         PublishEntry(c) \/ ProbeEnds(c) \/ Probe(c)
  PROVE  TypeInv'
<1>1. UNCHANGED Worker /\ UNCHANGED <<bucket, kept, clock, release>>
  BY DEF PublishEntry, ProbeEnds, Reads, Probe, Worker
<1>2. CASE End(c)
  BY <1>1, <1>2, SameStore, EndTypeInv
<1>3. CASE Probe(c)
  <2>1. PICK q \in Probes : Send(c, q)
    BY <1>3 DEF Probe
  <2>2. /\ q \in Call /\ got' \in [Clients -> SUBSET Data]
        /\ todo' = [todo EXCEPT ![c] = todo[c]] /\ todo[c] \in SUBSET Digests
        /\ job' = [job EXCEPT ![c] = "probe"]
        /\ UNCHANGED <<act, outs, begun, pushed>>
    BY <1>3, Unmoved, RequestFacts DEF Probe, Become, work
  <2> QED
    BY <1>1, <2>1, <2>2, GoOnTypeInv DEF Building
<1> QED
  BY <1>1, <1>2, <1>3, RecoverTypeInv DEF PublishEntry, ProbeEnds, Reads

LEMMA StartGradleTypeInv ==
  ASSUME TypeInv, NEW c \in Clients, StartGradle(c), UNCHANGED role
  PROVE  TypeInv'
<1>1. PICK k \in MavenKeys : Send(c, ReadCall(k))
  BY DEF StartGradle
<1>2. /\ job' = [job EXCEPT ![c] = "gradle"]
      /\ begun' = [begun EXCEPT ![c] = clock] /\ got' = [got EXCEPT ![c] = {}]
      /\ UNCHANGED <<bucket, kept, clock, release, act, outs, todo, pushed>>
  BY DEF StartGradle, Become, Worker
<1>3. StoreTypes' /\ ReadCall(k) \in Call
  BY <1>2, SameStore, RequestFacts
<1>4. /\ begun' \in [Clients -> Nat] /\ got' \in [Clients -> SUBSET Data]
      /\ clock' \in Nat /\ release' \in [by: Clients, at: Nat] \cup {None}
      /\ outs' \in [Clients -> SUBSET Digests] /\ todo' \in [Clients -> SUBSET Digests]
      /\ act' \in [Clients -> Actions \cup {None}]
      /\ pushed' \in [Clients -> 0 .. Len(Parts) - 1]
      /\ \A d \in Clients \ {c} : act'[d] = act[d] /\ outs'[d] = outs[d] /\ todo'[d] = todo[d]
  BY <1>2 DEF TypeInv, TypeOK
<1> QED
  <2>1. WorkTypes(c)
    BY <1>4 DEF WorkTypes
  <2>2. SentFits(c, ReadCall(k), "gradle")
    BY DEF SentFits, Building
  <2> QED
    BY <1>1, <1>2, <1>3, <2>1, <2>2, SendTypeInv

\* A read of Gradle that succeeded was given data.
LEMMA ResolveGot ==
  ASSUME TypeInv, NEW c \in Clients, Resolve(c)
  PROVE  /\ \/ got' = got /\ ~Succeeded(c)
            \/ got' = [got EXCEPT ![c] = @ \cup {reply[c].data}] /\ Succeeded(c)
  BY DEF Resolve, TypeInv, TypeOK

LEMMA ResolveTypeInv ==
  ASSUME TypeInv, NEW c \in Clients, Resolve(c), UNCHANGED role
  PROVE  TypeInv'
<1>1. /\ job[c] = "gradle" /\ reply[c] # None
      /\ UNCHANGED Worker /\ UNCHANGED <<bucket, kept, clock, release>>
      /\ UNCHANGED <<act, outs, todo, begun, pushed>>
  BY DEF Resolve, Reads, Worker, TypeInv, TypeOK
<1>2. got' \in [Clients -> SUBSET Data]
  <2>1. CASE got' = got
    BY <2>1, Unmoved
  <2>2. CASE got' = [got EXCEPT ![c] = @ \cup {reply[c].data}] /\ Succeeded(c)
    <3>1. reply[c].data \in Data
      BY <1>1, <2>2 DEF Succeeded, TypeInv, DataInv
    <3> QED
      BY <2>2, <3>1 DEF TypeInv, TypeOK
  <2> QED
    BY <2>1, <2>2, ResolveGot
<1>3. todo' = [todo EXCEPT ![c] = todo[c]] /\ todo[c] \in SUBSET Digests
  BY <1>1, Unmoved
<1>4. CASE \E k \in MavenKeys : Send(c, ReadCall(k)) /\ UNCHANGED job
  <2>1. PICK k \in MavenKeys : Send(c, ReadCall(k)) /\ UNCHANGED job
    BY <1>4
  <2>2. ReadCall(k) \in Call /\ job' = [job EXCEPT ![c] = "gradle"]
    BY <1>1, <2>1, Unmoved, RequestFacts
  <2>3. /\ \E j \in MavenKeys : ReadCall(k) = ReadCall(j)
        /\ "gradle" \in Building \cup {"gradle", "probe"} /\ "gradle" \notin Building
        /\ "gradle" \notin {"lookup", "fetch", "upload", "publish", "probe"}
        /\ Send(c, ReadCall(k))
    BY <2>1 DEF Building
  <2> DEFINE q == ReadCall(k)
  <2> HIDE DEF q
  <2>4. /\ q \in Call /\ Send(c, q) /\ \E j \in MavenKeys : q = ReadCall(j)
    BY <2>2, <2>3 DEF q
  <2> QED
    BY <1>1, <1>2, <1>3, <2>2, <2>3, <2>4, GoOnTypeInv
<1>5. CASE Hangup(c) /\ Become(c, "idle")
  <2>1. StoreTypes' /\ job' = [job EXCEPT ![c] = "idle"]
    BY <1>1, <1>5, SameStore DEF Become
  <2>2. /\ clock' \in Nat /\ release' \in [by: Clients, at: Nat] \cup {None}
        /\ outs' \in [Clients -> SUBSET Digests] /\ todo' \in [Clients -> SUBSET Digests]
        /\ act' \in [Clients -> Actions \cup {None}] /\ begun' \in [Clients -> Nat]
        /\ pushed' \in [Clients -> 0 .. Len(Parts) - 1]
        /\ \A d \in Clients \ {c} :
             act'[d] = act[d] /\ outs'[d] = outs[d] /\ todo'[d] = todo[d]
    BY <1>1 DEF TypeInv, TypeOK
  <2> QED
    BY <1>2, <1>5, <2>1, <2>2, HangupTypeInv
<1> QED
  BY <1>4, <1>5 DEF Resolve

\* The jobs whose requests are of other kinds say nothing of a push.
LEMMA PushJobTypeInv ==
  ASSUME TypeInv, StoreTypes', NEW c \in Clients, job[c] \in {"idle", "push"},
         UNCHANGED <<clock, role, act, outs, todo, begun, got, http>>,
         release' \in [by: Clients, at: Nat] \cup {None},
         pushed' \in [Clients -> 0 .. Len(Parts) - 1],
         NEW next \in {"push", "done"}, job' = [job EXCEPT ![c] = next]
  PROVE  TypeInv'
<1>1. /\ \A d \in Clients : job'[d] = (IF d = c THEN next ELSE job[d])
      /\ job' \in [Clients -> Building \cup {"idle", "gradle", "probe", "push", "done"}]
      /\ next \notin Building /\ call[c] = None /\ step[c] = "none"
  BY DEF TypeInv, TypeOK, CallsInv, CallInv, Building
<1>2. TypeOK'
  BY <1>1 DEF TypeInv, TypeOK, StoreTypes, http
<1>3. CallsInv'
  <2> SUFFICES ASSUME NEW d \in Clients PROVE CallInv(d)'
    BY DEF CallsInv
  <2>1. CallInv(d)
    BY DEF TypeInv, CallsInv
  <2> QED
    BY <1>1, <2>1 DEF CallInv, http, Building
<1>4. StepsInv'
  <2> SUFFICES ASSUME NEW d \in Clients PROVE StepInv(d)'
    BY DEF StepsInv
  <2>1. StepInv(d)
    BY DEF TypeInv, StepsInv
  <2> QED
    BY <1>1, <2>1 DEF StepInv, http, Waiting
<1>5. DataInv'
  BY <1>1 DEF TypeInv, DataInv, StoreTypes, http
<1> QED
  BY <1>2, <1>3, <1>4, <1>5 DEF TypeInv

LEMMA PartTypes ==
  ASSUME TypeInv, NEW c \in Clients, PutPart(c), UNCHANGED kept
  PROVE  /\ StoreTypes'
         /\ <<"maven", Parts[pushed[c] + 1]>> \in MavenKeys
         /\ pushed[c] + 1 \in DOMAIN Parts
         /\ bucket'[<<"maven", Parts[pushed[c] + 1]>>] = [data |-> c, at |-> clock]
         /\ bucket'[<<"maven", Parts[pushed[c] + 1]>>] # None
         /\ \A j \in Keys : j # <<"maven", Parts[pushed[c] + 1]>> => bucket'[j] = bucket[j]
<1> DEFINE k == <<"maven", Parts[pushed[c] + 1]>>
<1>1. pushed[c] + 1 \in DOMAIN Parts
  BY PartsAssumption DEF TypeInv, TypeOK
<1>2. k \in MavenKeys /\ k \in Keys /\ \A d \in Digests : k # <<"ac", d>>
  BY <1>1, KeyFacts
<1>3. c \in Data
  BY DEF Data
<1>4. bucket' = [bucket EXCEPT ![k] = [data |-> c, at |-> clock]]
  BY DEF PutPart
<1> HIDE DEF k
<1>5. /\ StoreTypes' /\ bucket'[k] = [data |-> c, at |-> clock] /\ bucket'[k] # None
      /\ \A j \in Keys : j # k => bucket'[j] = bucket[j]
  BY <1>2, <1>3, <1>4, PutTypes
<1> QED
  BY <1>1, <1>2, <1>5 DEF k

LEMMA PushTypeInv ==
  ASSUME TypeInv, NEW c \in Clients, StartPush(c) \/ PushPart(c), UNCHANGED role
  PROVE  TypeInv'
<1>0. 0 \in 0 .. Len(Parts) - 1
  BY PartsAssumption
<1>1. CASE StartPush(c)
  <2>1. /\ job[c] = "idle" /\ job' = [job EXCEPT ![c] = "push"] /\ release' = None
        /\ UNCHANGED <<bucket, kept, clock, work, http>>
    BY <1>1 DEF StartPush, Idle, Become
  <2>2. StoreTypes' /\ pushed' \in [Clients -> 0 .. Len(Parts) - 1]
    BY <2>1, SameStore DEF TypeInv, TypeOK, work
  <2> QED
    BY <2>1, <2>2, PushJobTypeInv DEF work
<1>2. CASE PushPart(c)
  <2>1. /\ job[c] = "push" /\ job = [job EXCEPT ![c] = "push"]
        /\ UNCHANGED <<kept, clock, act, outs, todo, begun, got, http>>
    BY <1>2, Unmoved DEF PushPart
  <2>2. StoreTypes'
    BY <1>2, <2>1, PartTypes, SameStore DEF PushPart
  <2>3. pushed' \in [Clients -> 0 .. Len(Parts) - 1]
    BY <1>0, <1>2 DEF PushPart, TypeInv, TypeOK
  <2>4. release' \in [by: Clients, at: Nat] \cup {None}
    BY <1>2 DEF PushPart, TypeInv, TypeOK
  <2>5. job' = [job EXCEPT ![c] = "push"] \/ job' = [job EXCEPT ![c] = "done"]
    BY <1>2, <2>1 DEF PushPart, Become
  <2> QED
    BY <2>1, <2>2, <2>3, <2>4, <2>5, PushJobTypeInv
<1> QED
  BY <1>1, <1>2

LEMMA CrashTypeInv ==
  ASSUME TypeInv, NEW c \in Clients, Crash(c), UNCHANGED role
  PROVE  TypeInv'
<1>1. End(c) /\ UNCHANGED <<kept, clock, release>>
  BY DEF Crash
<1>2. StoreTypes'
  <2>1. CASE step[c] = "put" /\ StorePut(c)
    BY <1>1, <2>1, BuildPuts, PutTypes, KeyFacts DEF StorePut, Key
  <2> QED
    BY <1>1, <2>1, PartTypes, SameStore DEF Crash
<1> QED
  BY <1>1, <1>2, EndTypeInv

THEOREM TypeCorrect == Spec => []TypeInv
<1>1. ASSUME TypeInv, [Next]_vars PROVE TypeInv'
  <2>1. CASE UNCHANGED vars
    BY <1>1, <2>1
    DEF vars, work, http, TypeInv, TypeOK, CallsInv, CallInv, StepsInv, StepInv, DataInv, Stored
  <2>2. ASSUME NEW c \in Clients, Handle(c) \/ AnsweredOnTheWay(c) \/ Act(c), UNCHANGED role
        PROVE  TypeInv'
    BY <1>1, <2>2, FetchTypeInv, R2PutTypeInv, R2GetTypeInv, R2HeadTypeInv, OnTheWayTypeInv,
       StartBuildTypeInv, LookUpTypeInv, FetchBlobTypeInv, UploadBlobTypeInv,
       OtherJobsTypeInv, StartGradleTypeInv, ResolveTypeInv, PushTypeInv, CrashTypeInv
    DEF Handle, Act
  <2> QED
    BY <1>1, <2>1, <2>2, ExpireTypeInv, TickTypeInv DEF Next
<1> QED
  BY InitTypeInv, <1>1, PTL DEF Spec

\* Variables keep their types, and a request its shape: the worker never asks R2
\* for a path it does not serve.
THEOREM TypeOKHolds == Spec => []TypeOK
<1>1. TypeInv => TypeOK
  BY DEF TypeInv
<1> QED
  BY TypeCorrect, <1>1, PTL

-----------------------------------------------------------------------------
(* What a client's step leaves alone.                                      *)

Mine(c) == <<job[c], act[c], outs[c], todo[c], begun[c], pushed[c], got[c],
             call[c], step[c], reply[c]>>

LEMMA HttpAlone ==
  ASSUME TypeInv, NEW c \in Clients, NEW e \in Clients, e # c,
         \/ \E status, data : Answer(c, status, data)
         \/ \E op : Await(c, op)
         \/ \E q : Send(c, q)
         \/ Hangup(c)
         \/ UNCHANGED http
  PROVE  call'[e] = call[e] /\ step'[e] = step[e] /\ reply'[e] = reply[e]
  BY DEF Answer, Await, Send, Hangup, http, TypeInv, TypeOK

LEMMA HandleAlone ==
  ASSUME TypeInv, NEW c \in Clients, Handle(c) \/ AnsweredOnTheWay(c)
  PROVE  /\ UNCHANGED <<clock, release, job, work>>
         /\ (\E status, data : Answer(c, status, data)) \/ (\E op : Await(c, op))
<1>1. CASE Fetch(c)
  BY <1>1 DEF Fetch, HandleMavenRepository, HandleBazelCache
<1>2. CASE R2Put(c)
  BY <1>2 DEF R2Put, Rejected
<1>3. CASE R2Get(c)
  BY <1>3 DEF R2Get, Rejected
<1>4. CASE R2Head(c)
  BY <1>4 DEF R2Head, Rejected
<1>5. CASE AnsweredOnTheWay(c)
  BY <1>5 DEF AnsweredOnTheWay
<1> QED
  BY <1>1, <1>2, <1>3, <1>4, <1>5 DEF Handle

LEMMA EndAlone ==
  ASSUME TypeInv, NEW c \in Clients, NEW e \in Clients, e # c, End(c)
  PROVE  UNCHANGED Mine(e)
<1>1. call'[e] = call[e] /\ step'[e] = step[e] /\ reply'[e] = reply[e]
  BY HttpAlone DEF End
<1> QED
  BY <1>1 DEF End, Become, Forget, TypeInv, TypeOK, Mine

LEMMA ExecuteAlone ==
  ASSUME TypeInv, NEW c \in Clients, NEW e \in Clients, e # c, Execute(c)
  PROVE  UNCHANGED Mine(e)
<1>1. call'[e] = call[e] /\ step'[e] = step[e] /\ reply'[e] = reply[e]
  BY HttpAlone DEF Execute
<1> QED
  BY <1>1 DEF Execute, Become, Todo, TypeInv, TypeOK, Mine

LEMMA RecoverAlone ==
  ASSUME TypeInv, NEW c \in Clients, NEW e \in Clients, e # c, Recover(c)
  PROVE  UNCHANGED Mine(e)
<1>1. CASE End(c)
  BY <1>1, EndAlone
<1>2. CASE Send(c, call[c]) /\ UNCHANGED <<job, work>>
  BY <1>2, HttpAlone DEF work, Mine
<1> QED
  BY <1>1, <1>2 DEF Recover

\* The same of a step that sends the next request of a build.
LEMMA GoOnAlone ==
  ASSUME TypeInv, NEW c \in Clients, NEW e \in Clients, e # c,
         NEW q, Send(c, q), NEW blobs, Todo(c, blobs),
         UNCHANGED job \/ \E next : Become(c, next),
         UNCHANGED <<act, outs, begun, pushed, got>>
  PROVE  UNCHANGED Mine(e)
<1>1. call'[e] = call[e] /\ step'[e] = step[e] /\ reply'[e] = reply[e]
  BY HttpAlone
<1>2. job'[e] = job[e] /\ todo'[e] = todo[e]
  BY DEF Become, Todo, TypeInv, TypeOK
<1> QED
  BY <1>1, <1>2 DEF Mine

LEMMA OthersAlone ==
  ASSUME TypeInv, NEW c \in Clients, Handle(c) \/ AnsweredOnTheWay(c) \/ Act(c),
         NEW e \in Clients, e # c
  PROVE  clock' = clock /\ UNCHANGED Mine(e)
<1>1. CASE Handle(c) \/ AnsweredOnTheWay(c)
  BY <1>1, HandleAlone, HttpAlone DEF Mine, work
<1>2. CASE StartBuild(c)
  BY <1>2, HttpAlone DEF StartBuild, Become, Worker, Mine, TypeInv, TypeOK
<1>3. CASE LookUp(c)
  <2>1. clock' = clock
    BY <1>3 DEF LookUp, Reads, Worker
  <2> QED
    BY <1>3, <2>1, GoOnAlone, ExecuteAlone DEF LookUp
<1>4. CASE FetchBlob(c)
  <2>1. clock' = clock
    BY <1>4 DEF FetchBlob, Reads, Worker
  <2>2. CASE End(c) \/ Execute(c)
    BY <2>1, <2>2, ExecuteAlone, EndAlone
  <2> QED
    BY <1>4, <2>1, <2>2, GoOnAlone DEF FetchBlob
<1>5. CASE UploadBlob(c)
  <2>1. clock' = clock
    BY <1>5 DEF UploadBlob, Reads, Worker
  <2>2. CASE Recover(c)
    BY <2>1, <2>2, RecoverAlone
  <2> QED
    BY <1>5, <2>1, <2>2, GoOnAlone DEF UploadBlob
<1>6. CASE PublishEntry(c)
  BY <1>6, RecoverAlone, EndAlone DEF PublishEntry, Reads, Worker
<1>7. CASE StartGradle(c)
  BY <1>7, HttpAlone DEF StartGradle, Become, Worker, Mine, TypeInv, TypeOK
<1>8. CASE Resolve(c)
  BY <1>8, HttpAlone DEF Resolve, Reads, Become, Worker, Mine, TypeInv, TypeOK
<1>9. CASE Probe(c) \/ ProbeEnds(c)
  BY <1>9, HttpAlone, EndAlone
  DEF Probe, ProbeEnds, Reads, Become, Worker, work, Mine, TypeInv, TypeOK
<1>10. CASE StartPush(c) \/ PushPart(c)
  BY <1>10 DEF StartPush, PushPart, Become, work, http, Mine, TypeInv, TypeOK
<1>11. CASE Crash(c)
  BY <1>11, EndAlone DEF Crash
<1> QED
  BY <1>1, <1>2, <1>3, <1>4, <1>5, <1>6, <1>7, <1>8, <1>9, <1>10, <1>11 DEF Act

-----------------------------------------------------------------------------
(* An entry names what is stored: each blob is put before the entry of the *)
(* build that uploads it, and no more than MaxUpload before, so that it is *)
(* deleted no more than MaxUpload before the entry is.                     *)

\* A blob is stored, and has been put no earlier than a time.
Held(d, t) == Stored(<<"cas", d>>) /\ bucket[<<"cas", d>>].at >= t

Uploading(c) == job[c] \in {"upload", "publish"}

UploadInv(c) ==
  Uploading(c) =>
    /\ begun[c] <= clock /\ clock <= begun[c] + MaxUpload
    /\ \A d \in outs[c] \ todo[c] : Held(d, begun[c])
    /\ \A d \in Digests :
         /\ job[c] = "upload" /\ call[c].target = <<"cas", d>>
         /\ reply[c] # None /\ reply[c].status = 200
         => Held(d, begun[c])

UploadsInv == \A c \in Clients : UploadInv(c)

\* Objects are as old as they say, and blobs are what their digests say.
ObjectsInv ==
  /\ \A k \in Keys : Stored(k) => bucket[k].at <= clock
  /\ \A d \in Digests : Stored(<<"cas", d>>) => bucket[<<"cas", d>>].data = d

EntryInv(a) ==
  Stored(<<"ac", a>>) /\ clock + MaxUpload <= bucket[<<"ac", a>>].at + MaxAge =>
    \A d \in bucket[<<"ac", a>>].data.blobs :
      Held(d, bucket[<<"ac", a>>].at - MaxUpload)

StoreInv == ObjectsInv /\ \A a \in Digests : EntryInv(a)

FreshInv == UploadsInv /\ StoreInv

LEMMA ObjectFacts ==
  ASSUME TypeInv
  PROVE  /\ clock \in Nat /\ MaxAge \in Nat /\ MaxUpload \in Nat /\ MaxUpload <= MaxAge
         /\ \A k \in Keys : Stored(k) => bucket[k].at \in Nat
         /\ \A a \in Digests : Stored(<<"ac", a>>) =>
              bucket[<<"ac", a>>].data.blobs \subseteq Digests
         /\ \A d \in Digests : <<"ac", d>> \in Keys /\ <<"cas", d>> \in Keys
         /\ \A c \in Clients : begun[c] \in Nat
<1>1. \A k \in Keys : Stored(k) => bucket[k].at \in Nat
  BY DEF TypeInv, TypeOK, Stored
<1>2. \A a \in Digests : Stored(<<"ac", a>>) => bucket[<<"ac", a>>].data.blobs \subseteq Digests
  BY DEF TypeInv, DataInv, Entry
<1> QED
  BY <1>1, <1>2, KeyFacts, TimesAssumption DEF TypeInv, TypeOK

\* A put makes no blob younger than it is, and loses none.
LEMMA PutKeepsHeld ==
  ASSUME TypeInv, ObjectsInv, UNCHANGED clock, NEW k \in Keys,
         bucket'[k] # None, bucket'[k].at = clock,
         \A j \in Keys : j # k => bucket'[j] = bucket[j],
         NEW d \in Digests, NEW t \in Int, t <= clock, Held(d, t)
  PROVE  Held(d, t)'
<1>1. <<"cas", d>> \in Keys /\ clock \in Nat
  BY ObjectFacts
<1>2. CASE k = <<"cas", d>>
  BY <1>1, <1>2 DEF Held, Stored
<1>3. CASE k # <<"cas", d>>
  BY <1>1, <1>3 DEF Held, Stored
<1> QED
  BY <1>2, <1>3

\* What is put by a build in its time leaves each entry complete.
LEMMA PutStoreInv ==
  ASSUME TypeInv, StoreInv, UNCHANGED clock, NEW k \in Keys, NEW data,
         bucket'[k] # None, bucket'[k].at = clock, bucket'[k].data = data,
         \A j \in Keys : j # k => bucket'[j] = bucket[j],
         \A d \in Digests : k = <<"cas", d>> => data = d,
         \A a \in Digests : k = <<"ac", a>> =>
           \A d \in data.blobs : d \in Digests /\ Held(d, clock - MaxUpload)
  PROVE  StoreInv'
<1>1. ObjectsInv'
  <2>1. \A j \in Keys : Stored(j)' => (bucket[j].at)' <= clock
    BY ObjectFacts DEF StoreInv, ObjectsInv, Stored
  <2>2. \A d \in Digests : Stored(<<"cas", d>>)' => (bucket[<<"cas", d>>].data)' = d
    BY ObjectFacts DEF StoreInv, ObjectsInv, Stored
  <2> QED
    BY <2>1, <2>2 DEF ObjectsInv
<1>2. ASSUME NEW a \in Digests PROVE EntryInv(a)'
  <2>0. <<"ac", a>> \in Keys /\ clock \in Nat /\ MaxUpload \in Nat /\ MaxAge \in Nat
    BY ObjectFacts
  <2> SUFFICES ASSUME Stored(<<"ac", a>>)',
                      clock + MaxUpload <= bucket'[<<"ac", a>>].at + MaxAge,
                      NEW d \in bucket'[<<"ac", a>>].data.blobs
               PROVE  Held(d, bucket[<<"ac", a>>].at - MaxUpload)'
    BY DEF EntryInv
  <2>1. CASE k = <<"ac", a>>
    <3>1. d \in Digests /\ Held(d, clock - MaxUpload)
      BY <2>1
    <3>2. Held(d, clock - MaxUpload)'
      BY <2>0, <3>1, PutKeepsHeld DEF StoreInv
    <3> QED
      BY <2>1, <3>2
  <2>2. CASE k # <<"ac", a>>
    <3>1. bucket'[<<"ac", a>>] = bucket[<<"ac", a>>] /\ Stored(<<"ac", a>>)
      BY <2>0, <2>2 DEF Stored
    <3>2. d \in Digests /\ bucket[<<"ac", a>>].at \in Nat /\ bucket[<<"ac", a>>].at <= clock
      BY <2>0, <3>1, ObjectFacts DEF StoreInv, ObjectsInv
    <3>3. Held(d, bucket[<<"ac", a>>].at - MaxUpload)
      BY <3>1 DEF StoreInv, EntryInv
    <3>4. Held(d, bucket[<<"ac", a>>].at - MaxUpload)'
      <4> DEFINE t == bucket[<<"ac", a>>].at - MaxUpload
      <4>1. t \in Int /\ t <= clock /\ Held(d, t) /\ t' = t
        BY <2>0, <3>1, <3>2, <3>3
      <4> HIDE DEF t
      <4>2. Held(d, t)'
        BY <3>2, <4>1, PutKeepsHeld DEF StoreInv
      <4> QED
        BY <4>2 DEF t
    <3> QED
      BY <3>4
  <2> QED
    BY <2>1, <2>2
<1> QED
  BY <1>1, <1>2 DEF StoreInv

\* The put of a build keeps the store, and its blob is there.
LEMMA BuildPutFresh ==
  ASSUME TypeInv, FreshInv, NEW c \in Clients, step[c] = "put", StorePut(c),
         UNCHANGED <<kept, clock>>
  PROVE  /\ StoreInv'
         /\ \A d \in Digests, t \in Int : t <= clock /\ Held(d, t) => Held(d, t)'
         /\ \A d \in Digests, t \in Int :
              t <= clock /\ call[c].target = <<"cas", d>> => Held(d, t)'
<1> DEFINE k == call[c].target
           data == call[c].body
<1>1. /\ k \in BazelKeys /\ k \in Keys /\ data \in Data
      /\ \A d \in Digests : k = <<"ac", d>> => data \in Entry
  BY BuildPuts, KeyFacts
<1>2. bucket' = [bucket EXCEPT ![k] = [data |-> data, at |-> clock]]
  BY DEF StorePut, Key
<1>3. /\ bucket'[k] = [data |-> data, at |-> clock] /\ bucket'[k] # None
      /\ \A j \in Keys : j # k => bucket'[j] = bucket[j]
  BY <1>1, <1>2, PutTypes
<1>4. bucket'[k].data = data /\ bucket'[k].at = clock
  BY <1>3
<1>5. \A d \in Digests : k = <<"cas", d>> => data = d
  <2> SUFFICES ASSUME NEW d \in Digests, k = <<"cas", d>> PROVE data = d
    OBVIOUS
  <2>1. \A a : k # <<"ac", a>>
    OBVIOUS
  <2>2. PICK e \in outs[c] : k = <<"cas", e>> /\ data = e
    BY <2>1, BuildPuts
  <2> QED
    BY <2>2
<1>6. ASSUME NEW a \in Digests, k = <<"ac", a>>, NEW d \in data.blobs
      PROVE  d \in Digests /\ Held(d, clock - MaxUpload)
  <2>1. \A e : k # <<"cas", e>>
    BY <1>6
  <2>2. /\ job[c] = "publish" /\ todo[c] = {} /\ data = [blobs |-> outs[c]]
        /\ outs[c] \subseteq Digests
    BY <2>1, BuildPuts
  <2>3. d \in outs[c] \ todo[c]
    BY <1>6, <2>2
  <2>4. Held(d, begun[c]) /\ clock <= begun[c] + MaxUpload
    BY <2>2, <2>3 DEF FreshInv, UploadsInv, UploadInv, Uploading
  <2>5. Stored(<<"cas", d>>) => bucket[<<"cas", d>>].at \in Nat
    BY <2>2, <2>3, ObjectFacts
  <2> QED
    BY <2>2, <2>3, <2>4, <2>5, ObjectFacts DEF Held
<1> HIDE DEF k, data
<1>7. StoreInv'
  BY <1>1, <1>3, <1>4, <1>5, <1>6, PutStoreInv DEF FreshInv
<1>8. \A d \in Digests, t \in Int : t <= clock /\ Held(d, t) => Held(d, t)'
  BY <1>1, <1>3, <1>4, PutKeepsHeld DEF FreshInv, StoreInv
<1>9. \A d \in Digests, t \in Int : t <= clock /\ k = <<"cas", d>> => Held(d, t)'
  BY <1>3, <1>4, ObjectFacts DEF Held, Stored
<1> QED
  BY <1>7, <1>8, <1>9 DEF k

\* The script's put has nothing to do with it.
LEMMA PartFresh ==
  ASSUME TypeInv, FreshInv, NEW c \in Clients, PutPart(c), UNCHANGED <<kept, clock>>
  PROVE  /\ StoreInv'
         /\ \A d \in Digests, t \in Int : t <= clock /\ Held(d, t) => Held(d, t)'
<1> DEFINE k == <<"maven", Parts[pushed[c] + 1]>>
<1>1. /\ k \in Keys /\ \A d \in Digests : k # <<"ac", d>> /\ k # <<"cas", d>>
      /\ bucket'[k] = [data |-> c, at |-> clock] /\ bucket'[k] # None
      /\ \A j \in Keys : j # k => bucket'[j] = bucket[j]
  BY PartTypes, KeyFacts
<1> HIDE DEF k
<1>2. bucket'[k].at = clock /\ bucket'[k].data = c
  BY <1>1
<1> QED
  BY <1>1, <1>2, PutStoreInv, PutKeepsHeld DEF FreshInv, StoreInv

\* The rule deletes no blob that an upload has put, nor one that an entry in
\* its time names.
LEMMA ExpireFresh ==
  ASSUME TypeInv, FreshInv, NEW k \in Keys, Expire(k)
  PROVE  FreshInv'
<1>1. /\ bucket'[k] = None /\ \A j \in Keys : j # k => bucket'[j] = bucket[j]
      /\ Stored(k) /\ clock > bucket[k].at + MaxAge
      /\ UNCHANGED <<clock, job, work, http>>
  BY DEF Expire, Stored, TypeInv, TypeOK
<1>2. ASSUME NEW d \in Digests, NEW t \in Int, Held(d, t), clock <= t + MaxAge
      PROVE  Held(d, t)'
  <2>1. <<"cas", d>> \in Keys /\ Stored(<<"cas", d>>) /\ bucket[<<"cas", d>>].at \in Nat
    BY <1>2, ObjectFacts DEF Held
  <2>2. k # <<"cas", d>>
    BY <1>1, <1>2, <2>1, ObjectFacts DEF Held
  <2> QED
    BY <1>1, <1>2, <2>1, <2>2 DEF Held, Stored
<1>3. ObjectsInv'
  BY <1>1, ObjectFacts DEF FreshInv, StoreInv, ObjectsInv, Stored
<1>4. ASSUME NEW a \in Digests PROVE EntryInv(a)'
  <2> DEFINE e == bucket[<<"ac", a>>]
  <2> SUFFICES ASSUME Stored(<<"ac", a>>)', clock + MaxUpload <= e'.at + MaxAge,
                      NEW d \in e'.data.blobs
               PROVE  Held(d, e.at - MaxUpload)'
    BY <1>1 DEF EntryInv
  <2>1. e' = e /\ Stored(<<"ac", a>>)
    BY <1>1, ObjectFacts DEF Stored
  <2>2. e.at \in Nat /\ d \in Digests /\ Held(d, e.at - MaxUpload)
    BY <2>1, ObjectFacts DEF FreshInv, StoreInv, EntryInv
  <2>3. e.at - MaxUpload \in Int /\ clock <= (e.at - MaxUpload) + MaxAge
    BY <2>1, <2>2, ObjectFacts
  <2> HIDE DEF e
  <2> QED
    BY <1>2, <2>1, <2>2, <2>3
<1>5. ASSUME NEW c \in Clients PROVE UploadInv(c)'
  <2> SUFFICES ASSUME Uploading(c) PROVE UploadInv(c)'
    BY <1>1 DEF UploadInv, Uploading
  <2>1. begun[c] \in Int /\ clock <= begun[c] + MaxAge /\ outs[c] \subseteq Digests
    BY ObjectFacts DEF FreshInv, UploadsInv, UploadInv, TypeInv, TypeOK
  <2>2. UploadInv(c)
    BY DEF FreshInv, UploadsInv
  <2> QED
    BY <1>1, <1>2, <2>1, <2>2 DEF UploadInv, Uploading, work, http
<1> QED
  BY <1>3, <1>4, <1>5 DEF FreshInv, StoreInv, UploadsInv

LEMMA TickFresh ==
  ASSUME TypeInv, FreshInv, Tick
  PROVE  FreshInv'
<1>1. /\ clock' = clock + 1 /\ UNCHANGED <<bucket, job, work, http>>
      /\ \A c \in Clients : Uploading(c) => clock < begun[c] + MaxUpload
  BY DEF Tick, Uploading
<1>2. ObjectsInv'
  BY <1>1, ObjectFacts DEF FreshInv, StoreInv, ObjectsInv, Stored
<1>3. ASSUME NEW a \in Digests PROVE EntryInv(a)'
  <2>1. EntryInv(a) /\ bucket' = bucket
    BY <1>1 DEF FreshInv, StoreInv
  <2>2. Stored(<<"ac", a>>) => bucket[<<"ac", a>>].at \in Nat
    BY ObjectFacts
  <2>3. Stored(<<"ac", a>>) /\ clock + 1 + MaxUpload <= bucket[<<"ac", a>>].at + MaxAge =>
          clock + MaxUpload <= bucket[<<"ac", a>>].at + MaxAge
    BY <2>2, ObjectFacts
  <2>4. \A d, t : Held(d, t) => Held(d, t)'
    BY <2>1 DEF Held, Stored
  <2> QED
    BY <1>1, <2>1, <2>3, <2>4 DEF EntryInv, Stored
<1>4. ASSUME NEW c \in Clients PROVE UploadInv(c)'
  <2>1. UploadInv(c)
    BY DEF FreshInv, UploadsInv
  <2> QED
    BY <1>1, <2>1, ObjectFacts DEF UploadInv, Uploading, Held, Stored, work, http
<1> QED
  BY <1>2, <1>3, <1>4 DEF FreshInv, StoreInv, UploadsInv

\* Other uploads than a client's own go on as they were.
LEMMA OneUpload ==
  ASSUME TypeInv, FreshInv, NEW c \in Clients, StoreInv', UNCHANGED clock,
         \A d \in Digests, t \in Int : t <= clock /\ Held(d, t) => Held(d, t)',
         \A e \in Clients : e # c => UNCHANGED Mine(e),
         UploadInv(c)'
  PROVE  FreshInv'
<1> SUFFICES ASSUME NEW e \in Clients, e # c PROVE UploadInv(e)'
  BY DEF FreshInv, UploadsInv
<1>1. /\ job'[e] = job[e] /\ outs'[e] = outs[e] /\ todo'[e] = todo[e]
      /\ begun'[e] = begun[e] /\ call'[e] = call[e] /\ reply'[e] = reply[e]
  BY DEF Mine
<1>2. UploadInv(e) /\ begun[e] \in Int /\ outs[e] \subseteq Digests
  BY ObjectFacts DEF FreshInv, UploadsInv, TypeInv, TypeOK
<1> QED
  BY <1>1, <1>2 DEF UploadInv, Uploading

LEMMA HeldStays ==
  ASSUME UNCHANGED bucket
  PROVE  \A d \in Digests, t \in Int : Held(d, t) => Held(d, t)'
  BY DEF Held, Stored

LEMMA SameStoreInv ==
  ASSUME StoreInv, UNCHANGED <<bucket, clock>>
  PROVE  StoreInv'
  BY DEF StoreInv, ObjectsInv, EntryInv, Held, Stored

\* What an answer of the worker means to the upload that asked for it.
LEMMA AnswerUpload ==
  ASSUME TypeInv, FreshInv, NEW c \in Clients, NEW status, NEW data,
         Answer(c, status, data), UNCHANGED <<clock, job, work>>,
         \A d \in Digests, t \in Int : t <= clock /\ Held(d, t) => Held(d, t)',
         \A d \in Digests :
           job[c] = "upload" /\ status = 200 /\ call[c].target = <<"cas", d>> =>
             Held(d, begun[c])'
  PROVE  UploadInv(c)'
<1>1. reply'[c] = [status |-> status, data |-> data] /\ call' = call
  BY DEF Answer, TypeInv, TypeOK
<1>2. UploadInv(c) /\ begun[c] \in Int /\ outs[c] \subseteq Digests
  BY ObjectFacts DEF FreshInv, UploadsInv, TypeInv, TypeOK
<1>3. UNCHANGED <<job, outs, todo, begun>>
  BY DEF work
<1> QED
  BY <1>1, <1>2, <1>3 DEF UploadInv, Uploading

\* Reads are not an upload's.
LEMMA UploadsPut ==
  ASSUME TypeInv, NEW c \in Clients, job[c] = "upload"
  PROVE  call[c].method = "PUT" /\ step[c] \notin {"get", "head"}
<1>1. PICK d \in outs[c] : call[c] = BlobCall(d)
  BY DEF TypeInv, CallsInv, CallInv
<1>2. call[c].method = "PUT"
  BY <1>1 DEF BlobCall, Request
<1> QED
  BY <1>2 DEF TypeInv, StepsInv, StepInv

LEMMA HandleFresh ==
  ASSUME TypeInv, FreshInv, NEW c \in Clients, Handle(c) \/ AnsweredOnTheWay(c)
  PROVE  FreshInv'
<1>1. UNCHANGED <<clock, release, job, work>>
  BY HandleAlone
<1>2. \A e \in Clients : e # c => UNCHANGED Mine(e)
  BY OthersAlone
<1>3. ASSUME UNCHANGED bucket, NEW status, NEW data, Answer(c, status, data),
             job[c] = "upload" => status # 200
      PROVE  FreshInv'
  BY <1>1, <1>2, <1>3, HeldStays, SameStoreInv, AnswerUpload, OneUpload DEF FreshInv
<1>4. ASSUME UNCHANGED bucket, NEW op, Await(c, op) PROVE FreshInv'
  <2>1. UploadInv(c)'
    <3>1. UploadInv(c) /\ begun[c] \in Int /\ outs[c] \subseteq Digests
      BY ObjectFacts DEF FreshInv, UploadsInv, TypeInv, TypeOK
    <3>2. UNCHANGED <<job, outs, todo, begun, call, reply>>
      BY <1>1, <1>4 DEF work, Await
    <3> QED
      BY <1>1, <1>4, <3>1, <3>2, HeldStays DEF UploadInv, Uploading
  <2> QED
    BY <1>1, <1>2, <1>4, <2>1, HeldStays, SameStoreInv, OneUpload DEF FreshInv
<1>5. CASE Fetch(c)
  BY <1>3, <1>4, <1>5 DEF Fetch, HandleMavenRepository, HandleBazelCache
<1>6. CASE R2Put(c)
  <2>1. step[c] = "put" /\ UNCHANGED <<kept, clock>>
    BY <1>6 DEF R2Put
  <2>2. PICK status, data : Answer(c, status, data)
    BY <1>6 DEF R2Put, Rejected
  <2>3. CASE StorePut(c)
    <3>0. job[c] = "upload" => begun[c] <= clock
      BY DEF FreshInv, UploadsInv, UploadInv, Uploading
    <3>1. ASSUME NEW d \in Digests, job[c] = "upload", call[c].target = <<"cas", d>>
          PROVE  Held(d, begun[c])'
      <4> DEFINE t == begun[c]
      <4>1. t \in Int /\ t <= clock /\ t' = t
        BY <1>1, <3>0, <3>1, ObjectFacts DEF work
      <4> HIDE DEF t
      <4>2. Held(d, t)'
        BY <2>1, <2>3, <3>1, <4>1, BuildPutFresh
      <4> QED
        BY <4>2 DEF t
    <3>2. UploadInv(c)'
      BY <1>1, <2>1, <2>2, <2>3, <3>1, BuildPutFresh, AnswerUpload
    <3> QED
      BY <1>2, <2>1, <2>3, <3>2, BuildPutFresh, OneUpload
  <2>4. CASE UNCHANGED bucket /\ Rejected(c)
    BY <1>3, <2>4 DEF Rejected
  <2> QED
    BY <1>6, <2>3, <2>4 DEF R2Put
<1>7. CASE R2Get(c) \/ R2Head(c)
  <2>1. job[c] # "upload" /\ UNCHANGED bucket
    BY <1>7, UploadsPut DEF R2Get, R2Head
  <2> QED
    BY <1>3, <1>7, <2>1 DEF R2Get, R2Head, Rejected
<1>8. CASE AnsweredOnTheWay(c)
  <2>1. job[c] # "upload" /\ UNCHANGED bucket
    BY <1>8, UploadsPut DEF AnsweredOnTheWay
  <2> QED
    BY <1>3, <1>8, <2>1 DEF AnsweredOnTheWay
<1> QED
  BY <1>5, <1>6, <1>7, <1>8 DEF Handle

\* A build takes all it will upload to be missing when it begins, and counts a
\* blob as uploaded when it was told so.
LEMMA ActUpload ==
  ASSUME TypeInv, FreshInv, NEW c \in Clients, UNCHANGED <<bucket, clock>>, Act(c), ~Crash(c)
  PROVE  UploadInv(c)'
<1>0. /\ UploadInv(c) /\ begun[c] \in Int /\ outs[c] \subseteq Digests /\ clock \in Nat
      /\ MaxUpload \in Nat /\ CallInv(c)
  BY ObjectFacts DEF FreshInv, UploadsInv, TypeInv, TypeOK, CallsInv
<1>1. ASSUME job'[c] \notin {"upload", "publish"} PROVE UploadInv(c)'
  BY <1>1 DEF UploadInv, Uploading
<1>2. ASSUME NEW next, Become(c, next), next \notin {"upload", "publish"} PROVE UploadInv(c)'
  BY <1>1, <1>2 DEF Become, TypeInv, TypeOK
<1>3. CASE End(c)
  BY <1>2, <1>3 DEF End
<1>4. CASE Execute(c)
  <2>1. PICK S \in SUBSET Digests : outs' = [outs EXCEPT ![c] = S] /\ Todo(c, S)
    BY <1>4 DEF Execute
  <2>2. outs'[c] = S /\ todo'[c] = S
    BY <2>1 DEF Todo, TypeInv, TypeOK
  <2>3. begun'[c] = clock /\ reply'[c] = None
    BY <1>4 DEF Execute, Send, TypeInv, TypeOK
  <2> QED
    BY <1>0, <2>2, <2>3 DEF UploadInv
<1>5. CASE Recover(c) /\ job[c] \in {"upload", "publish"}
  <2>1. CASE Send(c, call[c]) /\ UNCHANGED <<job, work>>
    <3>1. reply'[c] = None
      BY <2>1 DEF Send, TypeInv, TypeOK
    <3> QED
      BY <1>0, <2>1, <3>1, HeldStays DEF UploadInv, Uploading, work
  <2> QED
    BY <1>3, <1>5, <2>1 DEF Recover
<1>6. CASE UploadBlob(c) /\ Succeeded(c)
  <2> DEFINE left == todo[c] \ {call[c].target[2]}
  <2>1. /\ job[c] = "upload" /\ reply[c] # None /\ reply[c].status = 200
        /\ Todo(c, left) /\ UNCHANGED <<outs, begun>> /\ reply'[c] = None
    BY <1>6 DEF UploadBlob, Reads, Succeeded, Send, TypeInv, TypeOK
  <2>2. PICK d \in outs[c] : call[c].target = <<"cas", d>>
    <3>1. PICK d \in outs[c] : call[c] = BlobCall(d)
      BY <1>0, <2>1 DEF CallInv
    <3>2. call[c].target = <<"cas", d>>
      BY <3>1 DEF BlobCall, Request
    <3> QED
      BY <3>2
  <2>3. todo'[c] = todo[c] \ {d}
    BY <2>1, <2>2 DEF Todo, TypeInv, TypeOK
  <2>4. \A e \in outs[c] \ todo'[c] : Held(e, begun[c])
    BY <1>0, <2>1, <2>2, <2>3 DEF UploadInv, Uploading
  <2> HIDE DEF left
  <2> QED
    BY <1>0, <2>1, <2>4, HeldStays DEF UploadInv, Uploading
<1>7. CASE UploadBlob(c) /\ ~Succeeded(c)
  BY <1>5, <1>7 DEF UploadBlob, Reads
<1>8. CASE PublishEntry(c)
  BY <1>3, <1>5, <1>8 DEF PublishEntry, Reads
<1>9. CASE StartBuild(c) \/ LookUp(c)
  BY <1>2, <1>4, <1>9 DEF StartBuild, LookUp
<1>10. CASE FetchBlob(c)
  BY <1>1, <1>3, <1>4, <1>10 DEF FetchBlob, Reads
<1>11. CASE StartGradle(c) \/ Probe(c) \/ ProbeEnds(c) \/ StartPush(c)
  BY <1>2, <1>3, <1>11 DEF StartGradle, Probe, ProbeEnds, StartPush
<1>12. CASE Resolve(c)
  BY <1>1, <1>2, <1>12 DEF Resolve, Reads
<1>13. CASE PushPart(c)
  BY <1>1, <1>2, <1>13 DEF PushPart
<1> QED
  BY <1>6, <1>7, <1>8, <1>9, <1>10, <1>11, <1>12, <1>13 DEF Act

LEMMA ActFresh ==
  ASSUME TypeInv, FreshInv, NEW c \in Clients, Act(c)
  PROVE  FreshInv'
<1>1. clock' = clock /\ \A e \in Clients : e # c => UNCHANGED Mine(e)
  <2>1. clock' = clock
    BY DEF Act, StartBuild, LookUp, FetchBlob, UploadBlob, PublishEntry, StartGradle,
       Resolve, Probe, ProbeEnds, StartPush, PushPart, Crash, Reads, Worker
  <2> QED
    BY <2>1, OthersAlone
<1>2. CASE Crash(c) \/ PushPart(c)
  <2>1. UploadInv(c)'
    <3>1. job'[c] \in {"push", "done"}
      BY <1>2 DEF Crash, End, PushPart, Become, TypeInv, TypeOK
    <3> QED
      BY <3>1 DEF UploadInv, Uploading
  <2>2. kept' = kept
    BY <1>2 DEF Crash, PushPart
  <2>3. CASE UNCHANGED bucket
    BY <1>1, <2>1, <2>3, HeldStays, SameStoreInv, OneUpload DEF FreshInv
  <2>4. CASE step[c] = "put" /\ StorePut(c)
    BY <1>1, <2>1, <2>2, <2>4, BuildPutFresh, OneUpload
  <2>5. CASE PutPart(c)
    BY <1>1, <2>1, <2>2, <2>5, PartFresh, OneUpload
  <2> QED
    BY <1>2, <2>3, <2>4, <2>5 DEF Crash, PushPart
<1>3. CASE ~Crash(c) /\ ~PushPart(c)
  <2>1. UNCHANGED bucket
    BY <1>3 DEF Act, StartBuild, LookUp, FetchBlob, UploadBlob, PublishEntry, StartGradle,
       Resolve, Probe, ProbeEnds, StartPush, Reads, Worker
  <2>2. UploadInv(c)'
    BY <1>1, <1>3, <2>1, ActUpload
  <2> QED
    BY <1>1, <2>1, <2>2, HeldStays, SameStoreInv, OneUpload DEF FreshInv
<1> QED
  BY <1>2, <1>3

THEOREM FreshInvHolds == Spec => []FreshInv
<1>1. ASSUME TypeInv, Init PROVE FreshInv
  BY <1>1, ObjectFacts
  DEF Init, FreshInv, UploadsInv, UploadInv, Uploading, StoreInv, ObjectsInv, EntryInv, Stored
<1>2. ASSUME TypeInv, FreshInv, [Next]_vars PROVE FreshInv'
  <2>1. CASE UNCHANGED vars
    BY <1>2, <2>1
    DEF vars, work, http, FreshInv, UploadsInv, UploadInv, Uploading, StoreInv, ObjectsInv,
        EntryInv, Stored, Held
  <2> QED
    BY <1>2, <2>1, HandleFresh, ActFresh, ExpireFresh, TickFresh DEF Next
<1> QED
  BY TypeCorrect, <1>1, <1>2, PTL DEF Spec

\* An entry that outlives the longest upload names blobs that are all stored,
\* each with its own content, for any builds, failures and crashes.
THEOREM FreshEntriesAreComplete == Spec => []FreshEntryIsComplete
<1>1. TypeInv /\ FreshInv => FreshEntryIsComplete
  BY ObjectFacts
  DEF FreshInv, StoreInv, ObjectsInv, EntryInv, Held, FreshEntryIsComplete, Stored
<1> QED
  BY TypeCorrect, FreshInvHolds, <1>1, PTL

-----------------------------------------------------------------------------
(* Reads agree: when pushes are made one after the other, all that is      *)
(* stored under maven/ is of the push that succeeded last, and a copy of   *)
(* another's file has run out MavenTTL after that push ended.              *)

MavenInv ==
  /\ \A k \in MavenKeys : kept[k] # None => kept[k].until <= clock + MavenTTL
  /\ release # None =>
       /\ release.at <= clock
       /\ \A k \in MavenKeys :
            /\ Stored(k) => bucket[k].data = release.by
            /\ kept[k] # None =>
                 kept[k].data = release.by \/ kept[k].until <= release.at + MavenTTL

\* One push at a time; what it has put is its own.
PushInv(c) ==
  /\ job[c] # "push" => pushed[c] = 0
  /\ job[c] = "push" =>
       /\ release = None
       /\ \A d \in Clients : job[d] = "push" => d = c
       /\ \A i \in 1 .. pushed[c] :
            Stored(<<"maven", Parts[i]>>) => bucket[<<"maven", Parts[i]>>].data = c

Settled(c) == release # None /\ release.at + MavenTTL < begun[c]

ReadInv(c) ==
  /\ begun[c] <= clock
  /\ got[c] # {} => role[c] = "gradle"
  /\ job[c] \in Building => role[c] = "build"
  /\ job[c] = "gradle" => role[c] = "gradle"
  /\ Settled(c) =>
       /\ got[c] \subseteq {release.by}
       /\ job[c] = "gradle" /\ reply[c] # None /\ reply[c].status = 200 =>
            reply[c].data = release.by

SettledInv ==
  /\ MavenInv
  /\ \A c \in Clients : PushInv(c)
  /\ \A c \in Clients : ReadInv(c)

LEMMA ReleaseFacts ==
  ASSUME TypeInv
  PROVE  /\ clock \in Nat /\ MavenTTL \in Nat
         /\ \A c \in Clients : begun[c] \in Nat /\ pushed[c] \in 0 .. Len(Parts) - 1
         /\ release # None => release.at \in Nat /\ release.by \in Clients
         /\ \A k \in MavenKeys : k \in Keys /\ (kept[k] # None => kept[k].until \in Nat)
         /\ Len(Parts) \in Nat
<1>1. \A k \in MavenKeys : k \in Keys
  BY KeyFacts
<1> QED
  BY <1>1, TimesAssumption, PartsAssumption DEF TypeInv, TypeOK

\* A step of one client that leaves maven/ and its copies alone, or loses objects.
LEMMA QuietSettled ==
  ASSUME TypeInv, SettledInv, NEW c \in Clients,
         \A k \in MavenKeys : bucket'[k] = bucket[k] \/ bucket'[k] = None,
         UNCHANGED <<clock, release, role>>, MavenInv',
         \A e \in Clients : e # c => UNCHANGED Mine(e),
         job'[c] # "push" /\ pushed'[c] = 0, ReadInv(c)'
  PROVE  SettledInv'
<1>1. ASSUME NEW e \in Clients, e # c
      PROVE  job'[e] = job[e] /\ pushed'[e] = pushed[e] /\ begun'[e] = begun[e]
             /\ got'[e] = got[e] /\ reply'[e] = reply[e]
  BY <1>1 DEF Mine
<1>2. ASSUME NEW e \in Clients PROVE ReadInv(e)'
  <2>1. CASE e # c
    <3>1. ReadInv(e)
      BY DEF SettledInv
    <3> QED
      BY <1>1, <2>1, <3>1 DEF ReadInv, Settled
  <2> QED
    BY <2>1
<1>3. ASSUME NEW e \in Clients PROVE PushInv(e)'
  <2>1. CASE e # c
    <3>1. PushInv(e) /\ pushed[e] \in 0 .. Len(Parts) - 1 /\ Len(Parts) \in Nat
      BY ReleaseFacts DEF SettledInv
    <3>2. \A i \in 1 .. pushed[e] : <<"maven", Parts[i]>> \in MavenKeys
      BY <3>1, KeyFacts, PartsAssumption
    <3> QED
      BY <1>1, <2>1, <3>1, <3>2 DEF PushInv, Stored
  <2>2. CASE e = c
    BY <2>2 DEF PushInv
  <2> QED
    BY <2>1, <2>2
<1> QED
  BY <1>2, <1>3 DEF SettledInv

LEMMA SameMaven ==
  ASSUME SettledInv, UNCHANGED <<kept, clock, release>>,
         \A k \in MavenKeys : bucket'[k] = bucket[k] \/ bucket'[k] = None
  PROVE  MavenInv'
  BY DEF SettledInv, MavenInv, Stored

\* Builds put nothing under maven/.
LEMMA BuildPutsNoMaven ==
  ASSUME TypeInv, NEW c \in Clients, step[c] = "put", StorePut(c)
  PROVE  \A k \in MavenKeys : bucket'[k] = bucket[k]
<1>1. call[c].target \in BazelKeys
  BY BuildPuts
<1> QED
  BY <1>1, KeyFacts DEF StorePut, Key, TypeInv, TypeOK

LEMMA PushersSendNothing ==
  ASSUME TypeInv, NEW c \in Clients, step[c] # "none"
  PROVE  job[c] # "push"
  BY DEF TypeInv, TypeOK, CallsInv, CallInv

LEMMA GradleAsksMaven ==
  ASSUME TypeInv, NEW c \in Clients, job[c] = "gradle"
  PROVE  call[c].target \in MavenKeys
<1>1. PICK k \in MavenKeys : call[c] = ReadCall(k)
  BY DEF TypeInv, CallsInv, CallInv
<1> QED
  BY <1>1 DEF ReadCall, Request

LEMMA HandleSettled ==
  ASSUME TypeInv, SettledInv, NEW c \in Clients, Handle(c) \/ AnsweredOnTheWay(c),
         UNCHANGED role
  PROVE  SettledInv'
<1>1. /\ UNCHANGED <<clock, release, job, work>>
      /\ \A e \in Clients : e # c => UNCHANGED Mine(e)
  BY HandleAlone, OthersAlone
<1>2. job'[c] # "push" /\ pushed'[c] = 0
  <2>1. step[c] # "none"
    BY DEF Handle, Fetch, R2Put, R2Get, R2Head, AnsweredOnTheWay
  <2> QED
    BY <1>1, <2>1, PushersSendNothing DEF SettledInv, PushInv, work
<1>3. ReadInv(c) /\ MavenInv
  BY DEF SettledInv
<1>4. ASSUME NEW status, NEW data, Answer(c, status, data),
             job[c] = "gradle" /\ status = 200 /\ Settled(c) => data = release.by
      PROVE  ReadInv(c)'
  <2>1. reply'[c] = [status |-> status, data |-> data]
    BY <1>4 DEF Answer, TypeInv, TypeOK
  <2>2. UNCHANGED <<job, begun, got>>
    BY <1>1 DEF work
  <2> QED
    BY <1>1, <1>3, <1>4, <2>1, <2>2 DEF ReadInv, Settled
<1>5. ASSUME NEW op, Await(c, op) PROVE ReadInv(c)'
  BY <1>1, <1>3, <1>5 DEF Await, ReadInv, Settled, work
<1>6. CASE Fetch(c)
  <2>1. ReadInv(c)'
    BY <1>4, <1>5, <1>6 DEF Fetch, HandleMavenRepository, HandleBazelCache
  <2> QED
    BY <1>1, <1>2, <1>6, <2>1, SameMaven, QuietSettled DEF Fetch
<1>7. CASE R2Put(c)
  <2>1. \A k \in MavenKeys : bucket'[k] = bucket[k]
    BY <1>7, BuildPutsNoMaven DEF R2Put
  <2>2. job[c] # "gradle"
    BY <1>7, BuildPuts DEF R2Put
  <2>3. ReadInv(c)'
    BY <1>4, <1>7, <2>2 DEF R2Put, Rejected
  <2> QED
    BY <1>1, <1>2, <1>7, <2>1, <2>3, SameMaven, QuietSettled DEF R2Put
<1>8. CASE R2Head(c)
  <2>1. ASSUME job[c] = "gradle" PROVE FALSE
    <3>1. PICK k \in MavenKeys : call[c] = ReadCall(k)
      BY <2>1 DEF TypeInv, CallsInv, CallInv
    <3>2. call[c].method = "GET"
      BY <3>1 DEF ReadCall, Request
    <3> QED
      BY <1>8, <3>2 DEF R2Head, TypeInv, StepsInv, StepInv
  <2>2. ReadInv(c)'
    BY <1>4, <1>8, <2>1 DEF R2Head, Rejected
  <2> QED
    BY <1>1, <1>2, <1>8, <2>2, SameMaven, QuietSettled DEF R2Head
<1>9. CASE R2Get(c)
  <2>1. bucket' = bucket /\ call[c].target \in Keys
    BY <1>9 DEF R2Get, TypeInv, TypeOK, Waiting
  <2>2. ReadInv(c)'
    <3>1. job[c] = "gradle" /\ Settled(c) /\ bucket[Key(c)] # None =>
            bucket[Key(c)].data = release.by
      BY <1>3, GradleAsksMaven DEF Key, Settled, MavenInv, Stored
    <3> QED
      BY <1>4, <1>9, <3>1 DEF R2Get, Rejected
  <2>3. MavenInv'
    <3>1. CASE UNCHANGED kept
      BY <1>1, <2>1, <3>1, SameMaven
    <3>2. CASE /\ bucket[Key(c)] # None /\ Headers(c).scope = "public"
               /\ kept' = [kept EXCEPT ![call[c].target] =
                    [data |-> bucket[Key(c)].data, until |-> clock + Headers(c).maxAge]]
      <4> DEFINE copy == [data |-> bucket[Key(c)].data, until |-> clock + Headers(c).maxAge]
      <4>1. ForMaven(c) /\ Headers(c).maxAge = MavenTTL
        BY <3>2 DEF Headers, CacheObjectHeaders, MavenObjectHeaders
      <4>2. call[c].target \in MavenKeys
        BY <2>1, <4>1, KeyFacts DEF ForMaven
      <4>3. copy.until = clock + MavenTTL /\ copy.data = bucket[call[c].target].data
        BY <4>1 DEF Key
      <4>4. kept' = [kept EXCEPT ![call[c].target] = copy]
        BY <3>2
      <4> HIDE DEF copy
      <4>5. \A k \in MavenKeys :
              kept'[k] = (IF k = call[c].target THEN copy ELSE kept[k])
        BY <4>4, KeyFacts DEF TypeInv, TypeOK
      <4>6. release # None => copy.data = release.by
        BY <1>3, <3>2, <4>2, <4>3 DEF MavenInv, Stored, Key
      <4>7. \A k \in MavenKeys : kept'[k] # None => kept'[k].until <= clock + MavenTTL
        BY <1>3, <4>3, <4>5, ReleaseFacts DEF MavenInv
      <4>8. ASSUME release # None, NEW k \in MavenKeys, kept'[k] # None
            PROVE  kept'[k].data = release.by \/ kept'[k].until <= release.at + MavenTTL
        BY <1>3, <4>5, <4>6, <4>8 DEF MavenInv
      <4> QED
        BY <1>1, <1>3, <2>1, <4>7, <4>8 DEF MavenInv, Stored
    <3> QED
      BY <1>9, <3>1, <3>2 DEF R2Get, MayBeKept
  <2> QED
    BY <1>1, <1>2, <2>1, <2>2, <2>3, QuietSettled
<1>10. CASE AnsweredOnTheWay(c)
  <2>1. /\ kept[call[c].target] # None /\ clock <= kept[call[c].target].until
        /\ Answer(c, 200, kept[call[c].target].data) /\ UNCHANGED <<bucket, kept>>
    BY <1>10 DEF AnsweredOnTheWay
  <2>2. ASSUME job[c] = "gradle", Settled(c)
        PROVE  kept[call[c].target].data = release.by
    <3>1. call[c].target \in MavenKeys
      BY <2>2, GradleAsksMaven
    <3>2. kept[call[c].target].until \in Nat
      BY <2>1, <3>1, ReleaseFacts
    <3>3. ~(kept[call[c].target].until <= release.at + MavenTTL)
      <4>1. /\ release # None /\ release.at + MavenTTL < begun[c] /\ begun[c] <= clock
            /\ begun[c] \in Nat /\ clock \in Nat /\ release.at \in Nat /\ MavenTTL \in Nat
        BY <1>3, <2>2, ReleaseFacts DEF Settled, ReadInv
      <4> QED
        BY <2>1, <3>2, <4>1
    <3> QED
      BY <1>3, <2>1, <2>2, <3>1, <3>3 DEF MavenInv, Settled
  <2>3. ReadInv(c)'
    BY <1>4, <2>1, <2>2
  <2> QED
    BY <1>1, <1>2, <2>1, <2>3, SameMaven, QuietSettled
<1> QED
  BY <1>6, <1>7, <1>8, <1>9, <1>10 DEF Handle

LEMMA EndSettled ==
  ASSUME TypeInv, SettledInv, NEW c \in Clients, End(c), UNCHANGED <<clock, role>>
  PROVE  ReadInv(c)' /\ job'[c] = "done" /\ pushed'[c] = 0
<1>1. job'[c] = "done" /\ begun'[c] = 0 /\ got'[c] = {} /\ pushed'[c] = 0
  BY DEF End, Become, Forget, TypeInv, TypeOK
<1> QED
  BY <1>1, ReleaseFacts DEF ReadInv, Building

LEMMA ExecuteSettled ==
  ASSUME TypeInv, SettledInv, NEW c \in Clients, job[c] \in Building, Execute(c),
         UNCHANGED <<Worker, role>>
  PROVE  ReadInv(c)' /\ job'[c] # "push" /\ pushed'[c] = 0
<1>1. /\ job'[c] = "upload" /\ begun'[c] = clock /\ got' = got /\ pushed' = pushed
      /\ UNCHANGED <<clock, release>>
  BY DEF Execute, Become, Worker, TypeInv, TypeOK
<1>2. ReadInv(c) /\ PushInv(c)
  BY DEF SettledInv
<1>3. got[c] = {} /\ role[c] = "build" /\ job[c] # "push" /\ pushed[c] = 0
  BY <1>2 DEF ReadInv, PushInv, Building
<1> QED
  BY <1>1, <1>3, ReleaseFacts DEF ReadInv, Settled, Building

\* A job that goes on, with no answer yet to its next request.
LEMMA GoOnSettled ==
  ASSUME TypeInv, SettledInv, NEW c \in Clients, reply'[c] = None, job[c] # "push",
         UNCHANGED <<clock, release, role, begun, got, pushed>>,
         job'[c] # "push",
         job'[c] \in Building => role[c] = "build",
         job'[c] = "gradle" => role[c] = "gradle"
  PROVE  ReadInv(c)' /\ job'[c] # "push" /\ pushed'[c] = 0
<1>1. ReadInv(c) /\ PushInv(c)
  BY DEF SettledInv
<1> QED
  BY <1>1 DEF ReadInv, Settled, PushInv

LEMMA SendReply ==
  ASSUME TypeInv, NEW c \in Clients, (\E q : Send(c, q)) \/ Hangup(c)
  PROVE  reply'[c] = None
  BY DEF Send, Hangup, TypeInv, TypeOK

LEMMA JobNow ==
  ASSUME TypeInv, NEW c \in Clients
  PROVE  \A next : Become(c, next) => job'[c] = next
  BY DEF Become, TypeInv, TypeOK

LEMMA BuildSettled ==
  ASSUME TypeInv, SettledInv, NEW c \in Clients, UNCHANGED role,
         StartBuild(c) \/ LookUp(c) \/ FetchBlob(c) \/ UploadBlob(c) \/ PublishEntry(c)
  PROVE  ReadInv(c)' /\ job'[c] # "push" /\ pushed'[c] = 0
<1>0. UNCHANGED Worker /\ UNCHANGED <<bucket, kept, clock, release>>
  BY DEF StartBuild, LookUp, FetchBlob, UploadBlob, PublishEntry, Reads, Worker
<1>1. CASE End(c)
  BY <1>0, <1>1, EndSettled
<1>2. CASE job[c] \in Building /\ Execute(c)
  BY <1>0, <1>2, ExecuteSettled
<1>3. job[c] \in Building => role[c] = "build" /\ job[c] # "push" /\ job[c] # "gradle"
  BY DEF SettledInv, ReadInv, Building
<1>4. ASSUME job[c] \in Building, \E q : Send(c, q), UNCHANGED <<begun, got, pushed>>,
             job'[c] \in Building
      PROVE  ReadInv(c)' /\ job'[c] # "push" /\ pushed'[c] = 0
  BY <1>0, <1>3, <1>4, SendReply, GoOnSettled DEF Building
<1>5. CASE StartBuild(c)
  <2>1. /\ role[c] = "build" /\ job[c] # "push" /\ job'[c] = "lookup"
        /\ reply'[c] = None /\ UNCHANGED <<begun, got, pushed>>
    BY <1>5, SendReply, JobNow DEF StartBuild, Idle
  <2> QED
    BY <1>0, <2>1, GoOnSettled DEF Building
<1>6. CASE LookUp(c)
  BY <1>2, <1>4, <1>6, JobNow DEF LookUp, Reads, Building
<1>7. CASE FetchBlob(c)
  BY <1>1, <1>2, <1>4, <1>7 DEF FetchBlob, Reads, Building
<1>8. CASE Recover(c) /\ job[c] \in {"upload", "publish"}
  BY <1>1, <1>4, <1>8 DEF Recover, work, Building
<1>9. CASE UploadBlob(c)
  BY <1>4, <1>8, <1>9, JobNow DEF UploadBlob, Reads, Building
<1>10. CASE PublishEntry(c)
  BY <1>1, <1>8, <1>10 DEF PublishEntry, Reads
<1> QED
  BY <1>5, <1>6, <1>7, <1>9, <1>10

LEMMA ReaderSettled ==
  ASSUME TypeInv, SettledInv, NEW c \in Clients, UNCHANGED role,
         StartGradle(c) \/ Resolve(c) \/ Probe(c) \/ ProbeEnds(c)
  PROVE  ReadInv(c)' /\ job'[c] # "push" /\ pushed'[c] = 0
<1>0. UNCHANGED <<bucket, kept, clock, release>>
  BY DEF StartGradle, Resolve, Probe, ProbeEnds, Reads, Worker
<1>1. CASE StartGradle(c)
  <2>1. /\ job[c] = "idle" /\ job'[c] = "gradle" /\ role[c] = "gradle"
        /\ begun'[c] = clock /\ got'[c] = {} /\ reply'[c] = None /\ pushed' = pushed
    BY <1>1, SendReply, JobNow DEF StartGradle, Idle, TypeInv, TypeOK
  <2>2. pushed[c] = 0
    BY <2>1 DEF SettledInv, PushInv
  <2> QED
    BY <1>0, <2>1, <2>2, ReleaseFacts DEF ReadInv, Settled, Building
<1>2. CASE Resolve(c)
  <2>1. /\ job[c] = "gradle" /\ step[c] = "answered" /\ reply[c] # None
        /\ job'[c] \in {"gradle", "idle"} /\ reply'[c] = None
        /\ UNCHANGED <<begun, pushed>>
    BY <1>2, SendReply, JobNow DEF Resolve, Reads, TypeInv, TypeOK
  <2>2. ReadInv(c) /\ PushInv(c)
    BY DEF SettledInv
  <2>3. got'[c] = got[c] \/ (got'[c] = got[c] \cup {reply[c].data} /\ reply[c].status = 200)
    BY <1>2, ResolveGot DEF Succeeded, TypeInv, TypeOK
  <2>4. Settled(c) => got'[c] \subseteq {release.by}
    BY <2>1, <2>2, <2>3 DEF ReadInv
  <2>5. role[c] = "gradle" /\ pushed[c] = 0
    BY <2>1, <2>2 DEF ReadInv, PushInv
  <2> QED
    BY <1>0, <2>1, <2>2, <2>4, <2>5 DEF ReadInv, Settled, Building
<1>3. CASE Probe(c)
  <2>1. job[c] # "push" /\ job'[c] = "probe" /\ reply'[c] = None /\ UNCHANGED <<begun, got, pushed>>
    BY <1>3, SendReply, JobNow DEF Probe, Idle, work
  <2> QED
    BY <1>0, <2>1, GoOnSettled DEF Building
<1>4. CASE ProbeEnds(c)
  BY <1>0, <1>4, EndSettled DEF ProbeEnds
<1> QED
  BY <1>1, <1>2, <1>3, <1>4

LEMMA StartPushSettled ==
  ASSUME SerialPushes, TypeInv, SettledInv, NEW c \in Clients, StartPush(c), UNCHANGED role
  PROVE  SettledInv'
<1>1. /\ job[c] = "idle" /\ release' = None /\ Become(c, "push")
      /\ \A p \in Clients : job[p] # "push"
      /\ UNCHANGED <<bucket, kept, clock, work, http>>
  BY DEF StartPush, Idle
<1>2. \A e \in Clients : job'[e] = (IF e = c THEN "push" ELSE job[e])
  BY <1>1 DEF Become, TypeInv, TypeOK
<1>3. MavenInv'
  BY <1>1 DEF SettledInv, MavenInv
<1>4. ASSUME NEW e \in Clients PROVE ReadInv(e)'
  <2>1. ReadInv(e)
    BY DEF SettledInv
  <2> QED
    BY <1>1, <1>2, <2>1 DEF ReadInv, Settled, Building, work
<1>5. ASSUME NEW e \in Clients PROVE PushInv(e)'
  <2>1. PushInv(e) /\ pushed[e] = 0
    BY <1>1 DEF SettledInv, PushInv
  <2> QED
    BY <1>1, <1>2, <2>1 DEF PushInv, work
<1> QED
  BY <1>3, <1>4, <1>5 DEF SettledInv

\* A push that puts a part has the repository for itself; with the last part, all
\* of it is its own.
LEMMA PushPartSettled ==
  ASSUME TypeInv, SettledInv, NEW c \in Clients, PushPart(c), UNCHANGED role
  PROVE  SettledInv'
<1>1. /\ job[c] = "push" /\ release = None /\ UNCHANGED <<kept, clock, begun, got, http>>
      /\ \A d \in Clients : job[d] = "push" => d = c
      /\ \A i \in 1 .. pushed[c] :
           Stored(<<"maven", Parts[i]>>) => bucket[<<"maven", Parts[i]>>].data = c
      /\ pushed[c] \in 0 .. Len(Parts) - 1 /\ Len(Parts) \in Nat
  BY ReleaseFacts DEF PushPart, SettledInv, PushInv
<1>2. \A e \in Clients : e # c => job'[e] = job[e] /\ pushed'[e] = pushed[e]
  BY OthersAlone DEF Act, Mine
<1>3. ASSUME NEW e \in Clients, release' = None \/ release'.at = clock PROVE ReadInv(e)'
  <2>1. ReadInv(e) /\ begun[e] \in Nat /\ clock \in Nat /\ MavenTTL \in Nat
    BY ReleaseFacts DEF SettledInv
  <2>2. job'[e] = job[e] \/ job'[e] \in {"push", "done"}
    BY <1>2, JobNow DEF PushPart
  <2>3. ~Settled(e)'
    BY <1>1, <1>3, <2>1 DEF Settled, ReadInv
  <2> QED
    BY <1>1, <2>1, <2>2, <2>3 DEF ReadInv, Building
<1>4. ASSUME NEW e \in Clients, job'[c] # "push", pushed'[c] = 0 PROVE PushInv(e)'
  BY <1>1, <1>2, <1>4 DEF SettledInv, PushInv
<1>5. CASE UNCHANGED release /\ pushed'[c] = 0 /\ job'[c] = "done"
  BY <1>1, <1>3, <1>4, <1>5 DEF SettledInv, MavenInv
<1>6. ASSUME PutPart(c), NEW i \in 1 .. pushed[c] + 1
      PROVE  bucket'[<<"maven", Parts[i]>>] # None => bucket'[<<"maven", Parts[i]>>].data = c
  <2> DEFINE k == <<"maven", Parts[pushed[c] + 1]>>
             j == <<"maven", Parts[i]>>
  <2>1. j \in MavenKeys /\ j \in Keys
    BY <1>1, KeyFacts, PartsAssumption
  <2>2. /\ bucket'[k] = [data |-> c, at |-> clock]
        /\ \A l \in Keys : l # k => bucket'[l] = bucket[l]
    BY <1>1, <1>6, PartTypes
  <2>3. CASE j = k
    BY <2>2, <2>3
  <2>4. CASE j # k
    <3>1. i \in 1 .. pushed[c]
      BY <1>1, <2>4
    <3>2. bucket'[j] = bucket[j]
      BY <2>1, <2>2, <2>4
    <3> HIDE DEF k
    <3> QED
      BY <1>1, <3>1, <3>2 DEF Stored
  <2> QED
    BY <2>3, <2>4
<1>7. CASE /\ PutPart(c) /\ pushed[c] + 1 < Len(Parts)
           /\ pushed' = [pushed EXCEPT ![c] = @ + 1] /\ UNCHANGED <<job, release>>
  <2>1. pushed'[c] = pushed[c] + 1
    BY <1>7 DEF TypeInv, TypeOK
  <2>2. PushInv(c)'
    BY <1>1, <1>6, <1>7, <2>1 DEF PushInv, Stored
  <2>3. \A e \in Clients : e # c => PushInv(e)'
    BY <1>1, <1>2, <1>7 DEF SettledInv, PushInv
  <2> QED
    BY <1>1, <1>3, <1>7, <2>2, <2>3 DEF SettledInv, MavenInv
<1>8. CASE /\ PutPart(c) /\ pushed[c] + 1 = Len(Parts)
           /\ pushed' = [pushed EXCEPT ![c] = 0] /\ Become(c, "done")
           /\ release' = [by |-> c, at |-> clock]
  <2>1. pushed'[c] = 0 /\ job'[c] = "done"
    BY <1>8, JobNow DEF TypeInv, TypeOK
  <2>2. release'.by = c /\ release'.at = clock /\ clock \in Nat
    BY <1>8, ReleaseFacts
  <2>3. ASSUME NEW k \in MavenKeys, bucket'[k] # None PROVE bucket'[k].data = c
    <3>1. PICK i \in DOMAIN Parts : k = <<"maven", Parts[i]>>
      BY DEF MavenKeys
    <3>2. i \in 1 .. pushed[c] + 1
      BY <1>8, PartsAssumption
    <3> QED
      BY <1>6, <1>8, <2>3, <3>1, <3>2
  <2>4. MavenInv'
    BY <1>1, <2>2, <2>3, ReleaseFacts DEF SettledInv, MavenInv, Stored
  <2> QED
    BY <1>3, <1>4, <2>1, <2>2, <2>4 DEF SettledInv
<1>9. pushed' = [pushed EXCEPT ![c] = 0] => pushed'[c] = 0
  BY DEF TypeInv, TypeOK
<1> QED
  BY <1>5, <1>7, <1>8, <1>9, JobNow DEF PushPart

LEMMA CrashSettled ==
  ASSUME TypeInv, SettledInv, NEW c \in Clients, Crash(c), UNCHANGED role
  PROVE  SettledInv'
<1>1. End(c) /\ UNCHANGED <<kept, clock, release>>
  BY DEF Crash
<1>2. /\ ReadInv(c)' /\ job'[c] = "done" /\ pushed'[c] = 0
      /\ \A e \in Clients : e # c => UNCHANGED Mine(e)
  BY <1>1, EndSettled, EndAlone
<1>3. CASE UNCHANGED bucket
  BY <1>1, <1>2, <1>3, SameMaven, QuietSettled
<1>4. CASE step[c] = "put" /\ StorePut(c)
  BY <1>1, <1>2, <1>4, BuildPutsNoMaven, SameMaven, QuietSettled
<1>5. CASE job[c] = "push" /\ PutPart(c)
  <2>1. release = None /\ \A e \in Clients : e # c => job[e] # "push"
    BY <1>5 DEF SettledInv, PushInv
  <2>2. ASSUME NEW e \in Clients PROVE PushInv(e)' /\ ReadInv(e)'
    <3>1. CASE e = c
      BY <1>2, <3>1 DEF PushInv
    <3>2. CASE e # c
      <4>1. /\ job'[e] = job[e] /\ pushed'[e] = pushed[e] /\ begun'[e] = begun[e]
            /\ got'[e] = got[e]
        BY <1>2, <3>2 DEF Mine
      <4> QED
        BY <1>1, <2>1, <3>2, <4>1 DEF SettledInv, PushInv, ReadInv, Settled
    <3> QED
      BY <3>1, <3>2
  <2>3. MavenInv'
    BY <1>1, <2>1 DEF SettledInv, MavenInv
  <2> QED
    BY <2>2, <2>3 DEF SettledInv
<1> QED
  BY <1>3, <1>4, <1>5 DEF Crash

LEMMA ExpireSettled ==
  ASSUME TypeInv, SettledInv, NEW k \in Keys, Expire(k), UNCHANGED role
  PROVE  SettledInv'
<1>1. /\ \A j \in Keys : bucket'[j] = bucket[j] \/ bucket'[j] = None
      /\ UNCHANGED <<kept, clock, release, job, work, http>>
  BY DEF Expire, TypeInv, TypeOK
<1>2. MavenInv'
  BY <1>1, KeyFacts, SameMaven
<1>3. ASSUME NEW c \in Clients PROVE PushInv(c)'
  <2>1. PushInv(c) /\ pushed[c] \in 0 .. Len(Parts) - 1 /\ Len(Parts) \in Nat
    BY ReleaseFacts DEF SettledInv
  <2>2. \A i \in 1 .. pushed[c] : <<"maven", Parts[i]>> \in Keys
    BY <2>1, KeyFacts, PartsAssumption
  <2> QED
    BY <1>1, <2>1, <2>2 DEF PushInv, Stored, work
<1>4. ASSUME NEW c \in Clients PROVE ReadInv(c)'
  BY <1>1 DEF SettledInv, ReadInv, Settled, work, http
<1> QED
  BY <1>2, <1>3, <1>4 DEF SettledInv

LEMMA TickSettled ==
  ASSUME TypeInv, SettledInv, Tick, UNCHANGED role
  PROVE  SettledInv'
<1>1. clock' = clock + 1 /\ UNCHANGED <<bucket, kept, release, job, work, http>>
  BY DEF Tick
<1>2. MavenInv'
  BY <1>1, ReleaseFacts DEF SettledInv, MavenInv, Stored
<1>3. ASSUME NEW c \in Clients PROVE PushInv(c)'
  BY <1>1 DEF SettledInv, PushInv, Stored, work
<1>4. ASSUME NEW c \in Clients PROVE ReadInv(c)'
  BY <1>1, ReleaseFacts DEF SettledInv, ReadInv, Settled, work, http
<1> QED
  BY <1>2, <1>3, <1>4 DEF SettledInv

LEMMA ActSettled ==
  ASSUME SerialPushes, TypeInv, SettledInv, NEW c \in Clients, Act(c), UNCHANGED role
  PROVE  SettledInv'
<1>1. CASE StartPush(c) \/ PushPart(c) \/ Crash(c)
  BY <1>1, StartPushSettled, PushPartSettled, CrashSettled
<1>2. CASE ~(StartPush(c) \/ PushPart(c) \/ Crash(c))
  <2>1. UNCHANGED <<bucket, kept, clock, release>>
    BY <1>2 DEF Act, StartBuild, LookUp, FetchBlob, UploadBlob, PublishEntry, StartGradle,
       Resolve, Probe, ProbeEnds, Reads, Worker
  <2>2. ReadInv(c)' /\ job'[c] # "push" /\ pushed'[c] = 0
    BY <1>2, BuildSettled, ReaderSettled DEF Act
  <2> QED
    BY <2>1, <2>2, OthersAlone, SameMaven, QuietSettled
<1> QED
  BY <1>1, <1>2

\* Gradle is given files and checksums of one push, if pushes are not made at the
\* same time.
THEOREM SettledReadsDoAgree ==
  ASSUME SerialPushes
  PROVE  Spec => []SettledReadsAgree
<1>1. ASSUME TypeInv, Init PROVE SettledInv
  BY <1>1, ReleaseFacts, KeyFacts
  DEF Init, SettledInv, MavenInv, PushInv, ReadInv, Settled, Stored, Building
<1>2. ASSUME TypeInv, SettledInv, [Next]_vars PROVE SettledInv'
  <2>1. CASE UNCHANGED vars
    BY <1>2, <2>1
    DEF vars, work, http, SettledInv, MavenInv, PushInv, ReadInv, Settled, Stored
  <2> QED
    BY <1>2, <2>1, HandleSettled, ActSettled, ExpireSettled, TickSettled DEF Next
<1>3. SettledInv => SettledReadsAgree
  BY DEF SettledInv, ReadInv, Settled, SettledReadsAgree
<1> QED
  BY TypeCorrect, <1>1, <1>2, <1>3, PTL DEF Spec

-----------------------------------------------------------------------------
(* Each step of the worker is one of BuildCache, or leaves it as it is.    *)

Entries   == [k \in BazelKeys |-> Contents(k)]
Questions == [c \in Clients |-> Asked(c)]
Answers   == [c \in Clients |-> Answered(c)]

AbstractVars == <<Entries, Questions, Answers>>

\* The steps of BuildCache, said of this module's state.
LEMMA AbstractSteps ==
  ASSUME NEW c \in Clients
  PROVE  /\ Cache!Ask(c) <=>
              /\ \E q \in Cache!Question : Questions' = [Questions EXCEPT ![c] = q]
              /\ Answers' = [Answers EXCEPT ![c] = None] /\ UNCHANGED Entries
         /\ \A op : Cache!Pending(c, op) <=>
              Questions[c] # None /\ Answers[c] = None /\ Questions[c].op = op
         /\ \A kind, value : Cache!Says(c, kind, value) <=>
              /\ Answers' = [Answers EXCEPT ![c] = [kind |-> kind, value |-> value]]
              /\ UNCHANGED Questions
         /\ Cache!Stored(c) <=> Entries' = [Entries EXCEPT ![Questions[c].key] = Questions[c].value]
         /\ Cache!vars = AbstractVars
  BY DEF Cache!Ask, Cache!Pending, Cache!Says, Cache!Stored, Cache!vars, Entries, Questions,
     Answers, AbstractVars

LEMMA AbstractAnswers ==
  ASSUME NEW c \in Clients
  PROVE  /\ Cache!Read(c) <=>
              /\ Cache!Pending(c, "read") /\ Entries[Questions[c].key] # None
              /\ Cache!Says(c, "ok", Entries[Questions[c].key]) /\ UNCHANGED Entries
         /\ Cache!Exists(c) <=>
              /\ Cache!Pending(c, "exists") /\ Entries[Questions[c].key] # None
              /\ Cache!Says(c, "ok", None) /\ UNCHANGED Entries
         /\ Cache!Miss(c) <=>
              /\ Cache!Pending(c, "read") \/ Cache!Pending(c, "exists")
              /\ Entries[Questions[c].key] = None
              /\ Cache!Says(c, "absent", None) /\ UNCHANGED Entries
         /\ Cache!Refuse(c) <=>
              Cache!Pending(c, "invalid") /\ Cache!Says(c, "refused", None) /\ UNCHANGED Entries
         /\ Cache!Break(c) <=>
              /\ Questions[c] # None /\ Answers[c] = None /\ Questions[c].op # "invalid"
              /\ Cache!Says(c, "error", None)
              /\ UNCHANGED Entries \/ (Questions[c].op = "write" /\ Cache!Stored(c))
         /\ Cache!Leave(c) <=>
              /\ Questions' = [Questions EXCEPT ![c] = None]
              /\ Answers' = [Answers EXCEPT ![c] = None]
              /\ UNCHANGED Entries \/ (Cache!Pending(c, "write") /\ Cache!Stored(c))
  BY DEF Cache!Read, Cache!Exists, Cache!Miss, Cache!Refuse, Cache!Break, Cache!Leave,
     Entries, Questions, Answers

LEMMA QuestionFacts ==
  ASSUME NEW q \in Call
  PROVE  /\ QuestionOf(q) \in Cache!Question /\ QuestionOf(q) # None
         /\ ~q.token \/ q.target \notin BazelKeys => QuestionOf(q).op = "invalid"
         /\ q.token /\ q.target \in BazelKeys =>
              /\ q.method = "PUT" /\ q.body # None =>
                   QuestionOf(q) = [op |-> "write", key |-> q.target, value |-> q.body]
              /\ q.method = "GET" => QuestionOf(q) = [op |-> "read", key |-> q.target]
              /\ q.method = "HEAD" => QuestionOf(q) = [op |-> "exists", key |-> q.target]
              /\ q.method = "POST" \/ (q.method = "PUT" /\ q.body = None) =>
                   QuestionOf(q).op = "invalid"
<1>1. q.method \in {"PUT", "GET", "HEAD", "POST"} /\ q.body \in Data \cup {None}
  BY CallFields
<1>2. QuestionOf(q) \in Cache!Question
  BY <1>1 DEF QuestionOf, Cache!Question
<1> QED
  BY <1>1, <1>2, QuestionsAssumption DEF QuestionOf

LEMMA OneAsker ==
  ASSUME NEW c \in Clients,
         \A e \in Clients : e # c => call'[e] = call[e] /\ reply'[e] = reply[e]
  PROVE  /\ Questions' = [Questions EXCEPT ![c] = Asked(c)']
         /\ Answers' = [Answers EXCEPT ![c] = Answered(c)']
<1>1. \A e \in Clients : e # c => Asked(e)' = Asked(e) /\ Answered(e)' = Answered(e)
  BY DEF Asked, Answered, ToBazel, ForMaven
<1> QED
  BY <1>1 DEF Questions, Answers

LEMMA EntriesStay ==
  ASSUME \A k \in BazelKeys : bucket'[k] = bucket[k]
  PROVE  UNCHANGED Entries
<1>1. \A k \in BazelKeys : Contents(k)' = Contents(k)
  BY DEF Contents, Stored
<1> QED
  BY <1>1 DEF Entries

\* The put of a build is the write that it asked for.
LEMMA EntriesPut ==
  ASSUME TypeInv, NEW c \in Clients, step[c] = "put", StorePut(c), UNCHANGED kept
  PROVE  /\ Questions[c] = [op |-> "write", key |-> call[c].target, value |-> call[c].body]
         /\ Entries' = [Entries EXCEPT ![Questions[c].key] = Questions[c].value]
<1> DEFINE k == call[c].target
           data == call[c].body
<1>1. /\ k \in BazelKeys /\ k \in Keys /\ data \in Data
      /\ \A d \in Digests : k = <<"ac", d>> => data \in Entry
  BY BuildPuts, KeyFacts
<1>2. /\ bucket'[k] = [data |-> data, at |-> clock] /\ bucket'[k] # None
      /\ \A j \in Keys : j # k => bucket'[j] = bucket[j]
  BY <1>1, PutTypes DEF StorePut, Key
<1>3. /\ call[c] \in Call /\ call[c].token /\ call[c].method = "PUT" /\ data # None
      /\ call[c] # None
  BY DEF TypeInv, TypeOK, StepsInv, StepInv, Waiting
<1>4. Questions[c] = [op |-> "write", key |-> k, value |-> data]
  BY <1>1, <1>3, QuestionFacts, KeyFacts DEF Questions, Asked, ToBazel, ForMaven
<1> HIDE DEF k, data
<1>5. \A j \in BazelKeys : Contents(j)' = (IF j = k THEN data ELSE Contents(j))
  BY <1>1, <1>2, KeyFacts DEF Contents, Stored
<1>6. Entries' = [Entries EXCEPT ![k] = data]
  BY <1>1, <1>5 DEF Entries
<1> QED
  BY <1>4, <1>6 DEF k, data

\* What the answer of the worker says, if the request was for Bazel's keys.
LEMMA AnswerSays ==
  ASSUME TypeInv, NEW c \in Clients, call[c] # None, step[c] # "answered",
         NEW status \in Nat, NEW data \in Data \cup {None}, Answer(c, status, data)
  PROVE  /\ ~ForMaven(c) =>
              /\ Questions[c] = QuestionOf(call[c]) /\ Questions[c] # None
              /\ Answers[c] = None
              /\ Cache!Says(c, AnswerOf(Questions[c].op, [status |-> status, data |-> data]).kind,
                            data)
         /\ ForMaven(c) => Questions' = Questions /\ Answers' = Answers
<1>1. /\ call' = call /\ reply[c] = None /\ call[c] \in Call
      /\ \A e \in Clients : e # c => call'[e] = call[e] /\ reply'[e] = reply[e]
      /\ reply'[c] = [status |-> status, data |-> data]
  BY DEF Answer, TypeInv, TypeOK
<1>2. /\ Questions' = [Questions EXCEPT ![c] = Asked(c)']
      /\ Answers' = [Answers EXCEPT ![c] = Answered(c)']
  BY <1>1, OneAsker
<1>3. Questions[c] = Asked(c) /\ Asked(c)' = Asked(c) /\ Answers[c] = None
  BY <1>1 DEF Questions, Answers, Asked, Answered, ToBazel, ForMaven
<1>4. Questions' = Questions
  BY <1>2, <1>3 DEF Questions
<1>5. CASE ForMaven(c)
  <2>1. Answered(c)' = None
    BY <1>1, <1>5 DEF Answered, ToBazel, ForMaven
  <2> QED
    BY <1>2, <1>3, <1>4, <1>5, <2>1 DEF Answers
<1>6. CASE ~ForMaven(c)
  <2>1. Questions[c] = QuestionOf(call[c]) /\ Questions[c] # None
    BY <1>1, <1>3, <1>6, QuestionFacts DEF Asked, ToBazel
  <2> DEFINE r == [status |-> status, data |-> data]
             says == AnswerOf(Questions[c].op, r)
  <2>2. reply'[c] = r /\ r # None
    BY <1>1, NoneAssumption
  <2>3. says = [kind |-> says.kind, value |-> data]
    BY DEF AnswerOf
  <2>4. Answered(c)' = says
    BY <1>1, <1>3, <1>6, <2>2 DEF Answered, ToBazel, ForMaven
  <2>5. Cache!Says(c, says.kind, data)
    BY <1>2, <1>4, <2>3, <2>4, AbstractSteps
  <2> QED
    BY <1>3, <1>6, <2>1, <2>5
<1> QED
  BY <1>5, <1>6

LEMMA MavenAnswerSays ==
  ASSUME TypeInv, NEW c \in Clients, call[c] # None, step[c] # "answered", ForMaven(c),
         NEW status \in Nat, NEW data \in Data \cup {None}, Answer(c, status, data)
  PROVE  Questions' = Questions /\ Answers' = Answers
  BY AnswerSays

LEMMA BazelAnswerSays ==
  ASSUME TypeInv, NEW c \in Clients, call[c] # None, step[c] # "answered", ~ForMaven(c),
         NEW status \in Nat, NEW data \in Data \cup {None}, Answer(c, status, data)
  PROVE  /\ Questions[c] = QuestionOf(call[c]) /\ Questions[c] # None /\ Answers[c] = None
         /\ Cache!Says(c, AnswerOf(Questions[c].op, [status |-> status, data |-> data]).kind, data)
  BY AnswerSays

CacheStep == Cache!Next \/ UNCHANGED AbstractVars

\* Steps of the worker that ask R2, or answer by themselves.
LEMMA FetchImplements ==
  ASSUME TypeInv, NEW c \in Clients, Fetch(c)
  PROVE  CacheStep
<1>1. step[c] = "sent" /\ call[c] # None /\ call[c] \in Call /\ UNCHANGED Entries
  BY EntriesStay DEF Fetch, TypeInv, TypeOK, Waiting
<1>2. ASSUME NEW op, Await(c, op) PROVE CacheStep
  BY <1>1, <1>2
  DEF Await, CacheStep, AbstractVars, Questions, Answers, Asked, Answered, ToBazel, ForMaven
<1>3. ASSUME ForMaven(c), NEW status \in {400, 405}, Answer(c, status, None) PROVE CacheStep
  <2>1. status \in Nat /\ None \in Data \cup {None}
    OBVIOUS
  <2>2. Questions' = Questions /\ Answers' = Answers
    <3>1. step[c] # "answered"
      BY <1>1
    <3> QED
      BY <1>1, <1>3, <2>1, <3>1, MavenAnswerSays
  <2> QED
    BY <1>1, <2>2 DEF CacheStep, AbstractVars
<1>4. ASSUME ~ForMaven(c), NEW status \in {400, 401, 404, 405}, Answer(c, status, None),
             QuestionOf(call[c]).op = "invalid"
      PROVE  CacheStep
  <2>1. status \in Nat /\ None \in Data \cup {None}
    OBVIOUS
  <2> DEFINE says == AnswerOf(Questions[c].op, [status |-> status, data |-> None])
  <2>2. /\ Questions[c].op = "invalid" /\ Questions[c] # None /\ Answers[c] = None
        /\ Cache!Says(c, says.kind, None)
    BY <1>1, <1>4, <2>1, BazelAnswerSays
  <2>3. says.kind = "refused"
    BY <2>2 DEF AnswerOf
  <2> HIDE DEF says
  <2>4. Cache!Refuse(c)
    BY <1>1, <2>2, <2>3, AbstractSteps, AbstractAnswers
  <2> QED
    BY <2>4 DEF CacheStep, Cache!Next
<1>5. CASE ForMaven(c)
  BY <1>2, <1>3, <1>5 DEF Fetch, HandleMavenRepository
<1>6. CASE ~ForMaven(c) /\ ~Authorized(c) /\ Answer(c, 401, None)
  BY <1>1, <1>4, <1>6, QuestionFacts DEF Authorized
<1>7. CASE ~ForMaven(c) /\ Authorized(c) /\ call[c].target = Elsewhere /\ Answer(c, 404, None)
  BY <1>1, <1>4, <1>7, QuestionFacts, KeyFacts
<1>8. CASE ~ForMaven(c) /\ Authorized(c) /\ call[c].target # Elsewhere /\ HandleBazelCache(c)
  <2>1. call[c].token /\ call[c].target \in BazelKeys
    BY <1>1, <1>8, CallFields, KeyFacts DEF ForMaven, Authorized
  <2>2. CASE call[c].method = "PUT" /\ call[c].body = None /\ Answer(c, 400, None)
    BY <1>1, <1>4, <1>8, <2>1, <2>2, QuestionFacts
  <2>3. CASE call[c].method = "POST" /\ Answer(c, 405, None)
    BY <1>1, <1>4, <1>8, <2>1, <2>3, QuestionFacts
  <2> QED
    BY <1>2, <1>8, <2>2, <2>3 DEF HandleBazelCache
<1> QED
  BY <1>5, <1>6, <1>7, <1>8 DEF Fetch

LEMMA R2Question ==
  ASSUME TypeInv, NEW c \in Clients, step[c] \in Waiting
  PROVE  /\ call[c] # None /\ call[c] \in Call /\ step[c] # "answered"
         /\ call[c].target \in Keys
         /\ ~ForMaven(c) =>
              /\ call[c].target \in BazelKeys
              /\ step[c] = "get" => QuestionOf(call[c]) = [op |-> "read", key |-> call[c].target]
              /\ step[c] = "head" => QuestionOf(call[c]) = [op |-> "exists", key |-> call[c].target]
         /\ step[c] = "put" => ~ForMaven(c)
<1>1. call[c] # None /\ call[c] \in Call /\ step[c] # "answered" /\ call[c].target \in Keys
  BY DEF TypeInv, TypeOK, Waiting
<1>2. ~ForMaven(c) => call[c].target \in BazelKeys /\ call[c].token
  BY <1>1, KeyFacts DEF TypeInv, StepsInv, StepInv, ForMaven
<1>3. step[c] = "put" => ~ForMaven(c)
  BY KeyFacts DEF TypeInv, StepsInv, StepInv, ForMaven
<1> QED
  BY <1>1, <1>2, <1>3, QuestionFacts DEF TypeInv, StepsInv, StepInv

\* An operation of R2 that fails is an error, before or after a put.
LEMMA RejectedImplements ==
  ASSUME TypeInv, NEW c \in Clients, step[c] \in Waiting, Rejected(c),
         UNCHANGED kept,
         UNCHANGED bucket \/ (step[c] = "put" /\ StorePut(c))
  PROVE  CacheStep
<1>1. Answer(c, 500, None) /\ 500 \in Nat /\ None \in Data \cup {None}
  BY DEF Rejected
<1>2. CASE ForMaven(c)
  <2>1. UNCHANGED Entries
    BY <1>2, R2Question, EntriesStay
  <2>2. Questions' = Questions /\ Answers' = Answers
    BY <1>1, <1>2, R2Question, MavenAnswerSays
  <2> QED
    BY <2>1, <2>2 DEF CacheStep, AbstractVars
<1>3. CASE ~ForMaven(c)
  <2> DEFINE says == AnswerOf(Questions[c].op, [status |-> 500, data |-> None])
  <2>0. call[c] # None /\ step[c] # "answered"
    BY R2Question
  <2>1. /\ Questions[c] = QuestionOf(call[c]) /\ Questions[c] # None /\ Answers[c] = None
        /\ Cache!Says(c, says.kind, None)
    BY <1>1, <1>3, <2>0, BazelAnswerSays
  <2>2. says.kind = "error"
    BY DEF AnswerOf
  <2>3. step[c] = "put" =>
          Questions[c] = [op |-> "write", key |-> call[c].target, value |-> call[c].body]
    <3> SUFFICES ASSUME step[c] = "put"
                 PROVE  Questions[c] = [op |-> "write", key |-> call[c].target, value |-> call[c].body]
      OBVIOUS
    <3>1. /\ call[c].method = "PUT" /\ call[c].body # None /\ call[c].token
          /\ call[c].target \in BazelKeys
      BY DEF TypeInv, StepsInv, StepInv
    <3> QED
      BY <2>1, <3>1, R2Question, QuestionFacts
  <2>4. Questions[c].op # "invalid"
    <3>1. CASE step[c] = "put"
      BY <2>3, <3>1
    <3>2. CASE step[c] = "get"
      <4>1. QuestionOf(call[c]) = [op |-> "read", key |-> call[c].target]
        BY <1>3, <3>2, R2Question
      <4> QED
        BY <2>1, <4>1
    <3>3. CASE step[c] = "head"
      <4>1. QuestionOf(call[c]) = [op |-> "exists", key |-> call[c].target]
        BY <1>3, <3>3, R2Question
      <4> QED
        BY <2>1, <4>1
    <3> QED
      BY <3>1, <3>2, <3>3 DEF Waiting
  <2>5. UNCHANGED Entries \/ (Questions[c].op = "write" /\ Cache!Stored(c))
    BY <2>3, EntriesStay, EntriesPut, AbstractSteps
  <2> HIDE DEF says
  <2>6. Cache!Break(c)
    BY <2>1, <2>2, <2>4, <2>5, AbstractAnswers
  <2> QED
    BY <2>6 DEF CacheStep, Cache!Next
<1> QED
  BY <1>2, <1>3

LEMMA R2Implements ==
  ASSUME TypeInv, NEW c \in Clients, R2Put(c) \/ R2Get(c) \/ R2Head(c)
  PROVE  CacheStep
<1>1. step[c] \in Waiting
  BY DEF R2Put, R2Get, R2Head, Waiting
<1>2. CASE R2Put(c) /\ StorePut(c) /\ Answer(c, 200, None)
  <2> DEFINE says == AnswerOf(Questions[c].op, [status |-> 200, data |-> None])
  <2>1. step[c] = "put" /\ UNCHANGED kept /\ 200 \in Nat /\ None \in Data \cup {None}
    BY <1>2 DEF R2Put
  <2>2. /\ Questions[c] # None /\ Answers[c] = None /\ Cache!Says(c, says.kind, None)
    <3>1. call[c] # None /\ step[c] # "answered" /\ ~ForMaven(c)
      BY <1>1, <2>1, R2Question
    <3> QED
      BY <1>2, <2>1, <3>1, BazelAnswerSays
  <2>3. says.kind = "ok"
    BY DEF AnswerOf
  <2> HIDE DEF says
  <2>3a. /\ Questions[c] = [op |-> "write", key |-> call[c].target, value |-> call[c].body]
         /\ Entries' = [Entries EXCEPT ![Questions[c].key] = Questions[c].value]
    BY <1>2, <2>1, EntriesPut
  <2>4. Questions[c].op = "write" /\ Cache!Stored(c)
    <3>1. Questions[c].op = "write"
      BY <2>3a
    <3> QED
      BY <2>3a, <3>1, AbstractSteps
  <2>5. Cache!Write(c)
    BY <2>2, <2>3, <2>4, AbstractSteps DEF Cache!Write
  <2> QED
    BY <2>5 DEF CacheStep, Cache!Next
<1>3. CASE R2Put(c) /\ Rejected(c)
  BY <1>1, <1>3, RejectedImplements DEF R2Put
<1>4. CASE (R2Get(c) \/ R2Head(c)) /\ ForMaven(c)
  <2>1. PICK status \in Nat, data \in Data \cup {None} : Answer(c, status, data)
    <3>1. bucket[Key(c)] # None => bucket[Key(c)].data \in Data
      BY <1>1, R2Question DEF Key, TypeInv, TypeOK
    <3>2. 200 \in Nat /\ 404 \in Nat /\ 500 \in Nat
      OBVIOUS
    <3> QED
      BY <1>4, <3>1, <3>2 DEF R2Get, R2Head, Rejected
  <2>2. UNCHANGED Entries
    BY <1>4, EntriesStay DEF R2Get, R2Head
  <2>3. Questions' = Questions /\ Answers' = Answers
    BY <1>1, <1>4, <2>1, R2Question, MavenAnswerSays
  <2> QED
    BY <2>2, <2>3 DEF CacheStep, AbstractVars
<1>5. CASE (R2Get(c) \/ R2Head(c)) /\ ~ForMaven(c)
  <2>1. /\ UNCHANGED Entries /\ Key(c) = call[c].target /\ call[c].target \in BazelKeys
        /\ Entries[call[c].target] = Contents(call[c].target)
    BY <1>1, <1>5, R2Question, EntriesStay DEF R2Get, R2Head, Key, Entries
  <2>2. CASE Rejected(c) /\ UNCHANGED <<bucket, kept>>
    BY <1>1, <2>2, RejectedImplements
  <2>3. ASSUME NEW data \in Data \cup {None}, Answer(c, 200, data),
               bucket[Key(c)] # None,
               R2Get(c) => data = bucket[Key(c)].data,
               R2Head(c) => data = None
        PROVE  CacheStep
    <3> DEFINE says == AnswerOf(Questions[c].op, [status |-> 200, data |-> data])
    <3>1. /\ Questions[c] = QuestionOf(call[c]) /\ Questions[c] # None /\ Answers[c] = None
          /\ Cache!Says(c, says.kind, data)
      <4>1. call[c] # None /\ step[c] # "answered" /\ ~ForMaven(c)
        BY <1>1, <1>5, R2Question
      <4>2. PICK status \in Nat : status = 200
        OBVIOUS
      <4>3. Answer(c, status, data)
        BY <2>3, <4>2
      <4>4. /\ Questions[c] = QuestionOf(call[c]) /\ Questions[c] # None /\ Answers[c] = None
            /\ Cache!Says(c, AnswerOf(Questions[c].op, [status |-> status, data |-> data]).kind,
                          data)
        BY <4>1, <4>3, BazelAnswerSays
      <4> QED
        BY <4>2, <4>4
    <3>2. says.kind = "ok"
      BY DEF AnswerOf
    <3>3. /\ Questions[c].key = call[c].target
          /\ Questions[c].op = (IF R2Get(c) THEN "read" ELSE "exists")
      <4>1. step[c] = (IF R2Get(c) THEN "get" ELSE "head")
        BY <1>5 DEF R2Get, R2Head
      <4>2. QuestionOf(call[c]) =
              [op |-> IF R2Get(c) THEN "read" ELSE "exists", key |-> call[c].target]
        BY <1>1, <1>5, <4>1, R2Question
      <4> QED
        BY <3>1, <4>2
    <3>4. bucket[Key(c)].data \in Data /\ Contents(call[c].target) = bucket[Key(c)].data
      BY <1>1, <2>1, <2>3, R2Question DEF Contents, Stored, TypeInv, TypeOK
    <3>5. Entries[Questions[c].key] # None /\ (R2Get(c) => data = Entries[Questions[c].key])
      BY <2>1, <2>3, <3>3, <3>4, NoneAssumption
    <3> HIDE DEF says
    <3>6. CASE R2Get(c)
      <4>1. Cache!Read(c)
        BY <2>1, <3>1, <3>2, <3>3, <3>5, <3>6, AbstractSteps, AbstractAnswers
      <4> QED
        BY <4>1 DEF CacheStep, Cache!Next
    <3>7. CASE ~R2Get(c)
      <4>1. Cache!Exists(c)
        BY <1>5, <2>1, <2>3, <3>1, <3>2, <3>3, <3>5, <3>7, AbstractSteps, AbstractAnswers
      <4> QED
        BY <4>1 DEF CacheStep, Cache!Next
    <3> QED
      BY <3>6, <3>7
  <2>4. CASE bucket[Key(c)] = None /\ Answer(c, 404, None)
    <3> DEFINE says == AnswerOf(Questions[c].op, [status |-> 404, data |-> None])
    <3>0. 404 \in Nat /\ None \in Data \cup {None}
      OBVIOUS
    <3>1. /\ Questions[c] = QuestionOf(call[c]) /\ Questions[c] # None /\ Answers[c] = None
          /\ Cache!Says(c, says.kind, None)
      <4>1. call[c] # None /\ step[c] # "answered"
        BY <1>1, R2Question
      <4> QED
        BY <1>5, <2>4, <3>0, <4>1, BazelAnswerSays
    <3>2. /\ Questions[c].key = call[c].target
          /\ Questions[c].op \in {"read", "exists"}
      <4>1. step[c] = "get" \/ step[c] = "head"
        BY <1>5 DEF R2Get, R2Head
      <4>2. PICK op \in {"read", "exists"} :
              QuestionOf(call[c]) = [op |-> op, key |-> call[c].target]
        BY <1>1, <1>5, <4>1, R2Question
      <4> QED
        BY <3>1, <4>2
    <3>3. says.kind = "absent"
      BY <3>2 DEF AnswerOf
    <3>4. Entries[Questions[c].key] = None
      BY <2>1, <2>4, <3>2 DEF Contents, Stored
    <3> HIDE DEF says
    <3>5. Cache!Miss(c)
      BY <2>1, <3>1, <3>2, <3>3, <3>4, AbstractSteps, AbstractAnswers
    <3> QED
      BY <3>5 DEF CacheStep, Cache!Next
  <2>5. bucket[Key(c)] # None => bucket[Key(c)].data \in Data \cup {None}
    BY <1>1, <2>1, R2Question DEF TypeInv, TypeOK
  <2>6. ~(R2Get(c) /\ R2Head(c))
    BY DEF R2Get, R2Head
  <2>7. CASE R2Get(c)
    BY <2>2, <2>3, <2>4, <2>5, <2>6, <2>7 DEF R2Get
  <2>8. CASE R2Head(c)
    <3>1. None \in Data \cup {None}
      OBVIOUS
    <3> QED
      BY <2>2, <2>3, <2>4, <2>6, <2>8, <3>1 DEF R2Head
  <2> QED
    BY <1>5, <2>7, <2>8
<1> QED
  BY <1>2, <1>3, <1>4, <1>5 DEF R2Put

\* What a client does is to ask, or to leave.
LEMMA SendImplements ==
  ASSUME TypeInv, NEW c \in Clients, UNCHANGED Entries,
         (\E q \in Call : Send(c, q)) \/ Hangup(c)
  PROVE  CacheStep
<1>1. /\ \A e \in Clients : e # c => call'[e] = call[e] /\ reply'[e] = reply[e]
      /\ reply'[c] = None
  BY HttpAlone, SendReply
<1>2. /\ Questions' = [Questions EXCEPT ![c] = Asked(c)']
      /\ Answers' = [Answers EXCEPT ![c] = Answered(c)']
  BY <1>1, OneAsker
<1>3. Answered(c)' = None
  BY <1>1 DEF Answered
<1>4. CASE Asked(c)' = None
  <2>1. Cache!Leave(c)
    BY <1>2, <1>3, <1>4, AbstractAnswers
  <2> QED
    BY <2>1 DEF CacheStep, Cache!Next
<1>5. CASE Asked(c)' \in Cache!Question
  <2>1. Cache!Ask(c)
    BY <1>2, <1>3, <1>5, AbstractSteps
  <2> QED
    BY <2>1 DEF CacheStep, Cache!Next
<1>6. Asked(c)' = None \/ Asked(c)' \in Cache!Question
  <2>1. CASE Hangup(c)
    BY <2>1 DEF Hangup, Asked, ToBazel, TypeInv, TypeOK
  <2>2. ASSUME NEW q \in Call, Send(c, q) PROVE Asked(c)' = None \/ Asked(c)' \in Cache!Question
    <3>1. call'[c] = q
      BY <2>2 DEF Send, TypeInv, TypeOK
    <3> QED
      BY <3>1, QuestionFacts DEF Asked
  <2> QED
    BY <2>1, <2>2
<1> QED
  BY <1>4, <1>5, <1>6

LEMMA PartKeepsEntries ==
  ASSUME TypeInv, NEW c \in Clients, PutPart(c), UNCHANGED kept
  PROVE  UNCHANGED Entries
<1> DEFINE part == <<"maven", Parts[pushed[c] + 1]>>
<1>1. part \in MavenKeys /\ \A j \in Keys : j # part => bucket'[j] = bucket[j]
  BY PartTypes
<1> HIDE DEF part
<1>2. \A k \in BazelKeys : bucket'[k] = bucket[k]
  BY <1>1, KeyFacts
<1> QED
  BY <1>2, EntriesStay

LEMMA ActImplements ==
  ASSUME TypeInv, TypeInv', NEW c \in Clients, Act(c)
  PROVE  CacheStep
<1>1. ASSUME NEW q, Send(c, q) PROVE q \in Call
  <2>1. call'[c] = q /\ q # None
    BY <1>1 DEF Send, TypeInv, TypeOK
  <2> QED
    BY <2>1 DEF TypeInv, TypeOK
<1>2. ASSUME UNCHANGED bucket, (\E q : Send(c, q)) \/ Hangup(c) PROVE CacheStep
  <2>1. UNCHANGED Entries
    BY <1>2, EntriesStay
  <2> QED
    BY <1>1, <1>2, <2>1, SendImplements
<1>3. CASE StartPush(c) \/ PushPart(c)
  <2>1. UNCHANGED http
    BY <1>3 DEF StartPush, PushPart
  <2>2. UNCHANGED Entries
    BY <1>3, PartKeepsEntries, EntriesStay DEF StartPush, PushPart
  <2>3. Questions' = Questions /\ Answers' = Answers
    BY <2>1 DEF http, Questions, Answers, Asked, Answered, ToBazel, ForMaven
  <2> QED
    BY <2>2, <2>3 DEF CacheStep, AbstractVars
<1>4. CASE Crash(c)
  <2>1. Hangup(c) /\ UNCHANGED kept
    BY <1>4 DEF Crash, End
  <2>2. CASE UNCHANGED bucket
    BY <1>2, <2>1, <2>2
  <2>3. CASE PutPart(c)
    BY <2>1, <2>3, PartKeepsEntries, SendImplements
  <2>4. CASE step[c] = "put" /\ StorePut(c)
    <3>1. /\ Questions[c] = [op |-> "write", key |-> call[c].target, value |-> call[c].body]
          /\ Entries' = [Entries EXCEPT ![Questions[c].key] = Questions[c].value]
      BY <2>1, <2>4, EntriesPut
    <3>2. /\ \A e \in Clients : e # c => call'[e] = call[e] /\ reply'[e] = reply[e]
          /\ call'[c] = None /\ reply'[c] = None /\ reply[c] = None
          /\ call[c] \in Call /\ call[c] # None
      BY <2>1, <2>4, HttpAlone DEF Hangup, TypeInv, TypeOK, Waiting
    <3>3. /\ Questions' = [Questions EXCEPT ![c] = Asked(c)']
          /\ Answers' = [Answers EXCEPT ![c] = Answered(c)']
      BY <3>2, OneAsker
    <3>4. Asked(c)' = None /\ Answered(c)' = None
      BY <3>2 DEF Asked, Answered, ToBazel
    <3>5. Questions[c] # None /\ Answers[c] = None
      <4>1. ~ForMaven(c)
        BY <2>4, R2Question DEF Waiting
      <4>2. Questions[c] = QuestionOf(call[c])
        BY <3>2, <4>1 DEF Questions, Asked, ToBazel
      <4> QED
        BY <3>2, <4>2, QuestionFacts DEF Answers, Answered
    <3>6. Questions[c].op = "write"
      BY <3>1
    <3>7. Cache!Pending(c, "write") /\ Cache!Stored(c)
      BY <3>1, <3>5, <3>6, AbstractSteps
    <3>8. Cache!Leave(c)
      BY <3>3, <3>4, <3>7, AbstractAnswers
    <3> QED
      BY <3>8 DEF CacheStep, Cache!Next
  <2> QED
    BY <1>4, <2>2, <2>3, <2>4 DEF Crash
<1>5. CASE ~(StartPush(c) \/ PushPart(c) \/ Crash(c))
  <2>1. UNCHANGED bucket
    BY <1>5 DEF Act, StartBuild, LookUp, FetchBlob, UploadBlob, PublishEntry, StartGradle,
       Resolve, Probe, ProbeEnds, Reads, Worker
  <2>2. (\E q : Send(c, q)) \/ Hangup(c)
    BY <1>5 DEF Act, StartBuild, LookUp, FetchBlob, UploadBlob, PublishEntry, StartGradle,
       Resolve, Probe, ProbeEnds, Recover, Execute, End
  <2> QED
    BY <1>2, <2>1, <2>2
<1> QED
  BY <1>3, <1>4, <1>5

LEMMA EnvironmentImplements ==
  ASSUME TypeInv, (\E k \in Keys : Expire(k)) \/ Tick
  PROVE  CacheStep
<1>1. UNCHANGED http
  BY DEF Expire, Tick
<1>2. Questions' = Questions /\ Answers' = Answers
  BY <1>1 DEF http, Questions, Answers, Asked, Answered, ToBazel, ForMaven
<1>3. CASE Tick
  BY <1>2, <1>3, EntriesStay DEF Tick, CacheStep, AbstractVars
<1>4. ASSUME NEW k \in Keys, Expire(k) PROVE CacheStep
  <2>1. bucket'[k] = None /\ \A j \in Keys : j # k => bucket'[j] = bucket[j]
    BY <1>4 DEF Expire, TypeInv, TypeOK
  <2>2. CASE k \in BazelKeys
    <3>1. \A j \in BazelKeys : Contents(j)' = (IF j = k THEN None ELSE Contents(j))
      BY <2>1, KeyFacts DEF Contents, Stored
    <3>2. Entries' = [Entries EXCEPT ![k] = None]
      BY <2>2, <3>1 DEF Entries
    <3>3. Cache!Drop(k)
      BY <1>2, <3>2 DEF Cache!Drop, Entries, Questions, Answers
    <3> QED
      BY <2>2, <3>3 DEF CacheStep, Cache!Next
  <2>3. CASE k \notin BazelKeys
    <3>1. \A j \in BazelKeys : bucket'[j] = bucket[j]
      BY <2>1, <2>3, KeyFacts
    <3> QED
      BY <1>2, <3>1, EntriesStay DEF CacheStep, AbstractVars
  <2> QED
    BY <2>2, <2>3
<1> QED
  BY <1>3, <1>4

\* Every behaviour of the worker, its clients, the bucket and the caches on the
\* way is one of a build cache.
THEOREM BuildCacheIsImplemented == Spec => ImplementsBuildCache
<1>1. Init => Cache!Init
  <2> SUFFICES ASSUME Init PROVE Cache!Init
    OBVIOUS
  <2>1. \A k \in BazelKeys : Contents(k) = None
    BY KeyFacts DEF Init, Contents, Stored
  <2>2. \A c \in Clients : Asked(c) = None /\ Answered(c) = None
    BY DEF Init, Asked, Answered, ToBazel
  <2> QED
    BY <2>1, <2>2 DEF Cache!Init
<1>2. ASSUME TypeInv, TypeInv', [Next]_vars PROVE [Cache!Next]_(Cache!vars)
  <2>1. CacheStep
    <3>1. CASE UNCHANGED vars
      <4>1. UNCHANGED <<bucket, http>>
        BY <3>1 DEF vars
      <4>2. Questions' = Questions /\ Answers' = Answers
        BY <4>1 DEF http, Questions, Answers, Asked, Answered, ToBazel, ForMaven
      <4> QED
        BY <4>1, <4>2, EntriesStay DEF CacheStep, AbstractVars
    <3>2. ASSUME NEW c \in Clients, AnsweredOnTheWay(c) PROVE CacheStep
      <4>1. /\ call[c] # None /\ step[c] # "answered" /\ kept[call[c].target] # None
            /\ Answer(c, 200, kept[call[c].target].data) /\ call[c].target \in Keys
            /\ UNCHANGED bucket
        BY <1>2, <3>2 DEF AnsweredOnTheWay, TypeInv, TypeOK, Waiting
      <4>2. ForMaven(c)
        BY <1>2, <4>1, KeyFacts DEF ForMaven, TypeInv, DataInv
      <4>3. kept[call[c].target].data \in Data \cup {None} /\ 200 \in Nat
        BY <1>2, <4>1 DEF TypeInv, TypeOK
      <4>4. Questions' = Questions /\ Answers' = Answers
        BY <1>2, <4>1, <4>2, <4>3, MavenAnswerSays
      <4> QED
        BY <4>1, <4>4, EntriesStay DEF CacheStep, AbstractVars
    <3> QED
      BY <1>2, <3>1, <3>2, FetchImplements, R2Implements, ActImplements,
         EnvironmentImplements DEF Next, Handle
  <2>2. UNCHANGED AbstractVars => UNCHANGED Cache!vars
    BY DEF Cache!vars, AbstractVars, Entries, Questions, Answers
  <2> QED
    BY <2>1, <2>2 DEF CacheStep
<1> QED
  BY TypeCorrect, <1>1, <1>2, PTL DEF Spec, ImplementsBuildCache, Cache!Spec

=============================================================================
