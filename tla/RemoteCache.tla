----------------------------- MODULE RemoteCache -----------------------------
(***************************************************************************)
(* The remote cache (tools/remote-cache): a Cloudflare worker in front of  *)
(* an R2 bucket.  Bazel reads and writes ac/ and cas/ through it with a    *)
(* token, Gradle reads maven/ without, a script pushes to maven/ past the  *)
(* worker, and a lifecycle rule deletes what is old.                       *)
(*                                                                         *)
(* An action is one await of the worker and the code up to it, one answer  *)
(* a client acts on, or one put of the script.  A client has one job and   *)
(* one request at a time.                                                  *)
(*                                                                         *)
(* A definition X_Y before a definition X is a mutation of X.              *)
(***************************************************************************)
EXTENDS Integers, Sequences

CONSTANTS
  Clients,      \* clients, each used for one job
  Digests,      \* SHA-256 digests, of actions and of blobs
  Actions,      \* the digests that are of actions
  Parts,        \* what the script puts for one file, one after the other
  Teams,        \* bound: the jobs that clients have at the same time
  Probes,       \* calls of other clients, each sent on its own
  MaxAge,       \* age at which the lifecycle rule deletes, 604800 s
  MaxUpload,    \* seconds from a build's first upload to its last
  MavenTTL,     \* max-age of Maven answers, 300 s
  BazelTTL,     \* max-age of Bazel answers, 31536000 s
  MaxTime,      \* bound: last value of the clock
  StoreFaults,  \* may an R2 operation fail?
  Crashes,      \* may a client stop half way?
  SerialPushes, \* does a push wait for the one before?
  None

BazelKeys == {"ac", "cas"} \X Digests
MavenKeys == {"maven"} \X {Parts[i] : i \in DOMAIN Parts}
Keys      == BazelKeys \cup MavenKeys

Dotted    == <<"maven", "..">> \* a Maven path with two dots in it
Elsewhere == <<"other", "">>   \* a path that is neither

\* A blob is known by its digest, the entry of an action names blobs, a file of
\* a Maven repository is known by who pushed it.
Entry == [blobs: SUBSET Digests]
Data  == Digests \cup Entry \cup Clients

Call == [method: {"PUT", "GET", "HEAD", "POST"}, \* POST: any other
         target: Keys \cup {Dotted, Elsewhere},
         token: BOOLEAN, body: Data \cup {None}]

ASSUME TimesAssumption ==
  /\ MaxAge \in Nat /\ MaxUpload \in Nat /\ MavenTTL \in Nat
  /\ BazelTTL \in Nat /\ MaxTime \in Nat
  /\ MaxUpload <= MaxAge

ASSUME FlagsAssumption ==
  StoreFaults \in BOOLEAN /\ Crashes \in BOOLEAN /\ SerialPushes \in BOOLEAN

ASSUME TeamsAssumption ==
  Teams \subseteq [Clients -> {"build", "gradle", "push", "probe", "none"}]

ASSUME PartsAssumption ==
  Parts \in Seq(STRING) /\ Len(Parts) > 0 /\ \A i \in DOMAIN Parts : Parts[i] # ".."

ASSUME ActionsAssumption == Actions \subseteq Digests

\* Whoever has the token and uploads is Bazel.
ASSUME ProbesAssumption ==
  /\ Probes \subseteq Call
  /\ \A q \in Probes :
       q.token /\ q.method = "PUT" /\ q.body # None => q.target \notin BazelKeys

VARIABLES
  bucket,  \* R2: key -> [data, at], at the time it was put, or None
  kept,    \* a shared HTTP cache: key -> [data, until] or None
  clock,
  release, \* the push that succeeded last and its end, None if one began since
  role,    \* client -> the job it will do, chosen at the start
  job,     \* client -> what it does
  act,     \* build -> its action
  outs,    \* build -> the blobs it uploads
  todo,    \* build -> the blobs not yet fetched or uploaded
  begun,   \* client -> when its upload or its reading began
  pushed,  \* push -> number of parts put
  got,     \* Gradle -> whose files it was given
  call,    \* client -> its HTTP request or None
  step,    \* client -> where that request is
  reply    \* client -> [status, data] or None

work == <<act, outs, todo, begun, pushed, got>>
http == <<call, step, reply>>
vars == <<bucket, kept, clock, release, role, job, work, http>>

ASSUME NoneAssumption ==
  /\ None \notin Data /\ None \notin Call
  /\ None \notin [data: Data, at: Nat]
  /\ None \notin [data: Data, until: Nat]
  /\ None \notin [by: Clients, at: Nat]
  /\ None \notin [status: Nat, data: Data \cup {None}]

Waiting == {"put", "get", "head"}
Building == {"lookup", "fetch", "upload", "publish"}

TypeOK ==
  /\ bucket \in [Keys -> [data: Data, at: Nat] \cup {None}]
  /\ kept \in [Keys -> [data: Data, until: Nat] \cup {None}]
  /\ clock \in Nat
  /\ release \in [by: Clients, at: Nat] \cup {None}
  /\ role \in Teams
  /\ job \in [Clients -> Building \cup {"idle", "gradle", "probe", "push", "done"}]
  /\ act \in [Clients -> Actions \cup {None}]
  /\ outs \in [Clients -> SUBSET Digests]
  /\ todo \in [Clients -> SUBSET Digests]
  /\ begun \in [Clients -> Nat]
  /\ pushed \in [Clients -> 0 .. Len(Parts) - 1]
  /\ got \in [Clients -> SUBSET Data]
  /\ call \in [Clients -> Call \cup {None}]
  /\ step \in [Clients -> Waiting \cup {"none", "sent", "answered"}]
  /\ reply \in [Clients -> [status: Nat, data: Data \cup {None}] \cup {None}]
  /\ \A c \in Clients :
       /\ step[c] = "none" <=> call[c] = None
       /\ step[c] = "answered" <=> reply[c] # None
       /\ step[c] \in Waiting => call[c].target \in Keys
       /\ job[c] \in Building => act[c] # None

Init ==
  /\ bucket = [k \in Keys |-> None]
  /\ kept = [k \in Keys |-> None]
  /\ clock = 0
  /\ release = None
  /\ role \in Teams
  /\ job = [c \in Clients |-> "idle"]
  /\ act = [c \in Clients |-> None]
  /\ outs = [c \in Clients |-> {}]
  /\ todo = [c \in Clients |-> {}]
  /\ begun = [c \in Clients |-> 0]
  /\ pushed = [c \in Clients |-> 0]
  /\ got = [c \in Clients |-> {}]
  /\ call = [c \in Clients |-> None]
  /\ step = [c \in Clients |-> "none"]
  /\ reply = [c \in Clients |-> None]

-----------------------------------------------------------------------------
(* The worker (src/index.ts).                                              *)

Answer(c, status, data) ==
  /\ step' = [step EXCEPT ![c] = "answered"]
  /\ reply' = [reply EXCEPT ![c] = [status |-> status, data |-> data]]
  /\ UNCHANGED call

Await(c, op) == step' = [step EXCEPT ![c] = op] /\ UNCHANGED <<call, reply>>

Authorized(c) == call[c].token

ForMaven(c) == call[c].target[1] = "maven"

\* PUT, GET and HEAD of one object; R2 is asked in the next action.
HandleBazelCache(c) ==
  LET method == call[c].method IN
  \/ /\ method = "PUT" /\ call[c].body = None
     /\ Answer(c, 400, None)
  \/ /\ method = "PUT" /\ call[c].body # None
     /\ Await(c, "put")
  \/ method = "GET" /\ Await(c, "get")
  \/ method = "HEAD" /\ Await(c, "head")
  \/ method = "POST" /\ Answer(c, 405, None)

HandleMavenRepository(c) ==
  LET method == call[c].method IN
  \/ method \notin {"GET", "HEAD"} /\ Answer(c, 405, None)
  \/ /\ method \in {"GET", "HEAD"} /\ call[c].target = Dotted
     /\ Answer(c, 400, None)
  \/ method = "GET" /\ call[c].target # Dotted /\ Await(c, "get")
  \/ method = "HEAD" /\ call[c].target # Dotted /\ Await(c, "head")

\* fetch: Maven paths come first and need no token.
Fetch(c) ==
  /\ step[c] = "sent"
  /\ \/ ForMaven(c) /\ HandleMavenRepository(c)
     \/ /\ ~ForMaven(c) /\ ~Authorized(c)
        /\ Answer(c, 401, None)
     \/ /\ ~ForMaven(c) /\ Authorized(c) /\ call[c].target = Elsewhere
        /\ Answer(c, 404, None)
     \/ /\ ~ForMaven(c) /\ Authorized(c) /\ call[c].target # Elsewhere
        /\ HandleBazelCache(c)
  /\ UNCHANGED <<bucket, kept, clock, release, job, work>>

Key_DigestOnly(c) ==
  IF ForMaven(c) THEN call[c].target ELSE <<"cas", call[c].target[2]>>

\* The key of the object: the space it is in, and the digest or path.
Key(c) == call[c].target

StorePut_IfAbsent(c) ==
  bucket' = IF bucket[Key(c)] # None THEN bucket
            ELSE [bucket EXCEPT ![Key(c)] = [data |-> call[c].body, at |-> clock]]

\* A put replaces the object and its age, whether or not it is the same.
StorePut(c) ==
  bucket' = [bucket EXCEPT ![Key(c)] = [data |-> call[c].body, at |-> clock]]

\* A rejected promise is not caught: the runtime answers 500.
Rejected(c) == StoreFaults /\ Answer(c, 500, None)

R2Put(c) ==
  /\ step[c] = "put"
  /\ \/ StorePut(c) /\ (Answer(c, 200, None) \/ Rejected(c))
     \/ UNCHANGED bucket /\ Rejected(c)
  /\ UNCHANGED <<kept, clock, release, job, work>>

\* mavenObjectHeaders and cacheObjectHeaders: who may keep the answer, and for
\* how many seconds.
MavenObjectHeaders_Immutable == [scope |-> "public", maxAge |-> BazelTTL]

MavenObjectHeaders == [scope |-> "public", maxAge |-> MavenTTL]

CacheObjectHeaders == [scope |-> "private", maxAge |-> BazelTTL]

Headers(c) == IF ForMaven(c) THEN MavenObjectHeaders ELSE CacheObjectHeaders

\* A shared cache on the way may keep a public answer.
MayBeKept(c, data) ==
  \/ UNCHANGED kept
  \/ /\ Headers(c).scope = "public"
     /\ kept' = [kept EXCEPT ![call[c].target] =
                   [data |-> data, until |-> clock + Headers(c).maxAge]]

R2Get(c) ==
  /\ step[c] = "get"
  /\ \/ /\ bucket[Key(c)] # None
        /\ Answer(c, 200, bucket[Key(c)].data)
        /\ MayBeKept(c, bucket[Key(c)].data)
     \/ /\ bucket[Key(c)] = None
        /\ Answer(c, 404, None)
        /\ UNCHANGED kept
     \/ Rejected(c) /\ UNCHANGED kept
  /\ UNCHANGED <<bucket, clock, release, job, work>>

R2Head(c) ==
  /\ step[c] = "head"
  /\ \/ bucket[Key(c)] # None /\ Answer(c, 200, None)
     \/ bucket[Key(c)] = None /\ Answer(c, 404, None)
     \/ Rejected(c)
  /\ UNCHANGED <<bucket, kept, clock, release, job, work>>

\* A GET that a shared cache answers with what it kept.
AnsweredOnTheWay(c) ==
  /\ step[c] = "sent" /\ call[c].method = "GET" /\ call[c].target \in Keys
  /\ kept[call[c].target] # None
  /\ clock <= kept[call[c].target].until
  /\ Answer(c, 200, kept[call[c].target].data)
  /\ UNCHANGED <<bucket, kept, clock, release, job, work>>

\* The rule expire-bazel-cache: prefix "", so Maven files as well.
Expire(k) ==
  /\ bucket[k] # None
  /\ clock > bucket[k].at + MaxAge
  /\ bucket' = [bucket EXCEPT ![k] = None]
  /\ UNCHANGED <<kept, clock, release, job, work, http>>

-----------------------------------------------------------------------------
(* Bazel: look up an action; fetch its blobs; if one is missing, run the   *)
(* action, upload the blobs, and then the entry that names them.           *)

Request(method, target, token, body) ==
  [method |-> method, target |-> target, token |-> token, body |-> body]

LookupCall(a)   == Request("GET", <<"ac", a>>, TRUE, None)
FetchCall(d)    == Request("GET", <<"cas", d>>, TRUE, None)
BlobCall(d)     == Request("PUT", <<"cas", d>>, TRUE, d)
EntryCall(a, S) == Request("PUT", <<"ac", a>>, TRUE, [blobs |-> S])

Send(c, q) ==
  /\ call' = [call EXCEPT ![c] = q]
  /\ step' = [step EXCEPT ![c] = "sent"]
  /\ reply' = [reply EXCEPT ![c] = None]

Hangup(c) ==
  /\ call' = [call EXCEPT ![c] = None]
  /\ step' = [step EXCEPT ![c] = "none"]
  /\ reply' = [reply EXCEPT ![c] = None]

Become(c, next) == job' = [job EXCEPT ![c] = next]

Todo(c, blobs) == todo' = [todo EXCEPT ![c] = blobs]

\* What a job worked on means nothing when it has ended.
Forget(c) ==
  /\ act' = [act EXCEPT ![c] = None]
  /\ outs' = [outs EXCEPT ![c] = {}]
  /\ todo' = [todo EXCEPT ![c] = {}]
  /\ pushed' = [pushed EXCEPT ![c] = 0]

End(c) ==
  /\ Become(c, "done") /\ Hangup(c) /\ Forget(c)
  /\ begun' = [begun EXCEPT ![c] = 0]
  /\ got' = [got EXCEPT ![c] = {}]

Idle(c, next) == job[c] = "idle" /\ role[c] = next

Worker == <<bucket, kept, clock, release>>

\* The client acts on the answer it was given.
Reads(c, in) == job[c] = in /\ step[c] = "answered" /\ UNCHANGED Worker

Succeeded(c) == reply[c].status = 200

StartBuild(c) ==
  /\ Idle(c, "build")
  /\ \E a \in Actions :
       /\ act' = [act EXCEPT ![c] = a]
       /\ Send(c, LookupCall(a))
  /\ Become(c, "lookup")
  /\ UNCHANGED <<Worker, outs, todo, begun, pushed, got>>

\* What the action yields may differ from run to run.  Bazel stores the action
\* itself as a blob, too.
Execute(c) ==
  /\ \E S \in SUBSET Digests :
       /\ act[c] \in S
       /\ outs' = [outs EXCEPT ![c] = S]
       /\ Todo(c, S)
       /\ \E d \in S : Send(c, BlobCall(d))
  /\ begun' = [begun EXCEPT ![c] = clock]
  /\ Become(c, "upload")
  /\ UNCHANGED <<act, pushed, got>>

LookUp(c) ==
  /\ Reads(c, "lookup")
  /\ \/ /\ Succeeded(c)
        /\ Todo(c, reply[c].data.blobs)
        /\ \E d \in reply[c].data.blobs : Send(c, FetchCall(d))
        /\ Become(c, "fetch")
        /\ UNCHANGED <<act, outs, begun, pushed, got>>
     \/ ~Succeeded(c) /\ Execute(c)

FetchBlob(c) ==
  /\ Reads(c, "fetch")
  /\ LET left == todo[c] \ {call[c].target[2]} IN
     \/ Succeeded(c) /\ left = {} /\ End(c)
     \/ /\ Succeeded(c)
        /\ \E d \in left : Send(c, FetchCall(d))
        /\ Todo(c, left)
        /\ UNCHANGED <<job, act, outs, begun, pushed, got>>
     \/ ~Succeeded(c) /\ Execute(c)

\* Give up or try again.
Recover(c) == End(c) \/ (Send(c, call[c]) /\ UNCHANGED <<job, work>>)

UploadBlob(c) ==
  /\ Reads(c, "upload")
  /\ LET left == todo[c] \ {call[c].target[2]} IN
     \/ /\ Succeeded(c)
        /\ \/ \E d \in left : Send(c, BlobCall(d)) /\ UNCHANGED job
           \/ /\ left = {}
              /\ Send(c, EntryCall(act[c], outs[c]))
              /\ Become(c, "publish")
        /\ Todo(c, left)
        /\ UNCHANGED <<act, outs, begun, pushed, got>>
     \/ ~Succeeded(c) /\ Recover(c)

PublishEntry(c) ==
  /\ Reads(c, "publish")
  /\ (Succeeded(c) /\ End(c)) \/ (~Succeeded(c) /\ Recover(c))

-----------------------------------------------------------------------------
(* Gradle, the push script and other clients.                              *)

ReadCall(k) == Request("GET", k, FALSE, None)

StartGradle(c) ==
  /\ Idle(c, "gradle")
  /\ \E k \in MavenKeys : Send(c, ReadCall(k))
  /\ begun' = [begun EXCEPT ![c] = clock]
  /\ got' = [got EXCEPT ![c] = {}]
  /\ Become(c, "gradle")
  /\ UNCHANGED <<Worker, act, outs, todo, pushed>>

Resolve(c) ==
  /\ Reads(c, "gradle")
  /\ got' = [got EXCEPT ![c] =
       IF Succeeded(c) THEN @ \cup {reply[c].data} ELSE @]
  /\ \/ \E k \in MavenKeys : Send(c, ReadCall(k)) /\ UNCHANGED job
     \/ Hangup(c) /\ Become(c, "idle")
  /\ UNCHANGED <<act, outs, todo, begun, pushed>>

Probe(c) ==
  /\ Idle(c, "probe")
  /\ \E q \in Probes : Send(c, q)
  /\ Become(c, "probe")
  /\ UNCHANGED <<Worker, work>>

ProbeEnds(c) == Reads(c, "probe") /\ End(c)

\* push-maven-local.sh for one file: the file, its two checksums, and for
\* maven-metadata-local.xml a copy under another name.
StartPush(c) ==
  /\ Idle(c, "push")
  /\ SerialPushes => \A p \in Clients : job[p] # "push"
  /\ Become(c, "push")
  /\ release' = None
  /\ UNCHANGED <<bucket, kept, clock, work, http>>

PutPart(c) ==
  bucket' = [bucket EXCEPT ![<<"maven", Parts[pushed[c] + 1]>>] =
               [data |-> c, at |-> clock]]

\* One wrangler r2 object put; the script ends at the first that fails.
PushPart(c) ==
  /\ job[c] = "push"
  /\ \/ /\ PutPart(c)
        /\ \/ /\ pushed[c] + 1 < Len(Parts)
              /\ pushed' = [pushed EXCEPT ![c] = @ + 1]
              /\ UNCHANGED <<job, release>>
           \/ /\ pushed[c] + 1 = Len(Parts)
              /\ pushed' = [pushed EXCEPT ![c] = 0]
              /\ Become(c, "done")
              /\ release' = [by |-> c, at |-> clock]
     \/ /\ StoreFaults
        /\ PutPart(c) \/ UNCHANGED bucket
        /\ pushed' = [pushed EXCEPT ![c] = 0]
        /\ Become(c, "done")
        /\ UNCHANGED release
  /\ UNCHANGED <<kept, clock, act, outs, todo, begun, got, http>>

-----------------------------------------------------------------------------
(* The environment.                                                        *)

\* A client goes; its request, or the put of its script, may still be applied.
Crash(c) ==
  /\ Crashes /\ job[c] \notin {"idle", "done"}
  /\ \/ UNCHANGED bucket
     \/ step[c] = "put" /\ StorePut(c)
     \/ job[c] = "push" /\ PutPart(c)
  /\ End(c)
  /\ UNCHANGED <<kept, clock, release>>

\* An upload takes at most MaxUpload seconds.
Tick ==
  /\ clock < MaxTime
  /\ \A c \in Clients :
       job[c] \in {"upload", "publish"} => clock < begun[c] + MaxUpload
  /\ clock' = clock + 1
  /\ UNCHANGED <<bucket, kept, release, job, work, http>>

Handle(c) == Fetch(c) \/ R2Put(c) \/ R2Get(c) \/ R2Head(c)

Act(c) ==
  \/ StartBuild(c) \/ LookUp(c) \/ FetchBlob(c) \/ UploadBlob(c) \/ PublishEntry(c)
  \/ StartGradle(c) \/ Resolve(c) \/ Probe(c) \/ ProbeEnds(c)
  \/ StartPush(c) \/ PushPart(c) \/ Crash(c)

Next ==
  /\ \/ \E c \in Clients : Handle(c) \/ AnsweredOnTheWay(c) \/ Act(c)
     \/ \E k \in Keys : Expire(k)
     \/ Tick
  /\ UNCHANGED role

Spec == Init /\ [][Next]_vars

-----------------------------------------------------------------------------
(* Properties.                                                             *)

Stored(k) == bucket[k] # None

\* Until an upload's length before its own end of life, an entry of an action
\* names blobs that are all in the bucket and are what their digests say,
\* whichever builds uploaded them, whatever failed or crashed, and although
\* the lifecycle rule deletes each object by its own age.
FreshEntryIsComplete ==
  \A a \in Digests :
    LET entry == bucket[<<"ac", a>>] IN
    entry # None /\ clock + MaxUpload <= entry.at + MaxAge =>
      \A d \in entry.data.blobs :
        Stored(<<"cas", d>>) /\ bucket[<<"cas", d>>].data = d

\* Gradle, reading when the copies kept of older files have run out and no push
\* has begun since one succeeded, is given files and checksums of that push.
SettledReadsAgree ==
  \A c \in Clients :
    release # None /\ release.at + MavenTTL < begun[c] =>
      got[c] \subseteq {release.by}

=============================================================================
