------------------------------ MODULE BuildCache ------------------------------
(***************************************************************************)
(* What the remote cache promises a Bazel client, without HTTP, routes,    *)
(* tokens, the bucket and its clock: a question that is in order is        *)
(* answered from the entries as they stand at one instant between question *)
(* and answer, or with an error; every other question is refused and       *)
(* touches nothing; and nothing but a write adds or changes an entry.      *)
(***************************************************************************)
CONSTANTS
  Askers,
  Keys,
  Values,
  None

VARIABLES
  entries, \* key -> value or None
  asked,   \* asker -> question, None before the first and after the last
  answer   \* asker -> answer to that question, None before it is answered

vars == <<entries, asked, answer>>

Question ==
  [op: {"write"}, key: Keys, value: Values]
    \cup [op: {"read", "exists"}, key: Keys]
    \cup [op: {"invalid"}]

Init ==
  /\ entries = [k \in Keys |-> None]
  /\ asked = [c \in Askers |-> None]
  /\ answer = [c \in Askers |-> None]

Ask(c) ==
  /\ \E q \in Question : asked' = [asked EXCEPT ![c] = q]
  /\ answer' = [answer EXCEPT ![c] = None]
  /\ UNCHANGED entries

Pending(c, op) == asked[c] # None /\ answer[c] = None /\ asked[c].op = op

Says(c, kind, value) ==
  /\ answer' = [answer EXCEPT ![c] = [kind |-> kind, value |-> value]]
  /\ UNCHANGED asked

Stored(c) == entries' = [entries EXCEPT ![asked[c].key] = asked[c].value]

Write(c) == Pending(c, "write") /\ Stored(c) /\ Says(c, "ok", None)

Read(c) ==
  /\ Pending(c, "read")
  /\ entries[asked[c].key] # None
  /\ Says(c, "ok", entries[asked[c].key])
  /\ UNCHANGED entries

Exists(c) ==
  /\ Pending(c, "exists")
  /\ entries[asked[c].key] # None
  /\ Says(c, "ok", None)
  /\ UNCHANGED entries

Miss(c) ==
  /\ Pending(c, "read") \/ Pending(c, "exists")
  /\ entries[asked[c].key] = None
  /\ Says(c, "absent", None)
  /\ UNCHANGED entries

Refuse(c) ==
  /\ Pending(c, "invalid")
  /\ Says(c, "refused", None)
  /\ UNCHANGED entries

\* An error tells nothing: a write may have been done.
Break(c) ==
  /\ asked[c] # None /\ answer[c] = None /\ asked[c].op # "invalid"
  /\ Says(c, "error", None)
  /\ UNCHANGED entries \/ (asked[c].op = "write" /\ Stored(c))

Leave(c) ==
  /\ asked' = [asked EXCEPT ![c] = None]
  /\ answer' = [answer EXCEPT ![c] = None]
  /\ UNCHANGED entries \/ (Pending(c, "write") /\ Stored(c))

Drop(k) ==
  /\ entries' = [entries EXCEPT ![k] = None]
  /\ UNCHANGED <<asked, answer>>

Next ==
  \/ \E c \in Askers :
       \/ Ask(c) \/ Write(c) \/ Read(c) \/ Exists(c) \/ Miss(c)
       \/ Refuse(c) \/ Break(c) \/ Leave(c)
  \/ \E k \in Keys : Drop(k)

Spec == Init /\ [][Next]_vars

=============================================================================
