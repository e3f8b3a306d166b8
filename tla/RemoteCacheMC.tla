---------------------------- MODULE RemoteCacheMC ----------------------------
(***************************************************************************)
(* RemoteCache read as a BuildCache, and the instance that TLC checks.     *)
(***************************************************************************)
EXTENDS RemoteCacheRefinement, TLC

ClientSymmetry == Permutations(Clients)

MavenParts == <<"file", "md5">>

\* Two builds, a build and another client, or two pushes with Gradle.
ClientTeams ==
  LET Team(first, second, third) ==
        {[d \in Clients |-> IF d = b THEN first ELSE IF d = c THEN second ELSE third] :
           <<b, c>> \in {pair \in Clients \X Clients : pair[1] # pair[2]}}
  IN  Team("build", "build", "none") \cup Team("build", "probe", "none")
        \cup Team("push", "push", "gradle")

\* One call of each kind that the other jobs do not send: without token,
\* without body, of other methods, of other paths.
ProbeCalls ==
  LET a == CHOOSE d \in Actions : TRUE
  IN  {Request("PUT", <<"ac", a>>, FALSE, [blobs |-> {a}]), Request("GET", <<"ac", a>>, FALSE, None),
       Request("GET", <<"ac", a>>, TRUE, None),
       Request("PUT", <<"cas", a>>, TRUE, None), Request("HEAD", <<"ac", a>>, TRUE, None),
       Request("POST", <<"cas", a>>, TRUE, None), Request("GET", Elsewhere, TRUE, None),
       Request("PUT", <<"maven", "file">>, TRUE, a),
       Request("HEAD", <<"maven", "file">>, FALSE, None),
       Request("GET", Dotted, FALSE, None)}

=============================================================================
