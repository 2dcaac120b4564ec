------------------------------- MODULE MCSession -------------------------------
(* Small sets of calls for Session. *)
EXTENDS Session

\* An optional parameter: there or not.
Maybe(kind, args) == {<<>>} \cup {<<Param(kind, a)>> : a \in args}

Whole(text) == View(text, <<>>)
K == Whole(<<"k">>)
KL == Whole(<<"k", "l">>)
L == Whole(<<"l">>)
\* The first letter of "kl", as a view.
KofKL == View(<<"k">>, <<"l">>)

At(path) == <<Param("url", Location("parsed", FALSE, "h", path))>>
Method(m) == <<Param("method", m)>>

Dictionaries == {<<"Content-Type", "Accept">>, <<"Host", "Authorization">>}
User == Credentials(Whole(<<"u">>), Whole(<<"p">>))

\* One parameter of each kind, or none.
Plain ==
  {Call(Method(m) \o At(<<"/">>) \o h \o a \o d) :
     m \in {"GET", "POST"}, h \in Maybe("headers", Dictionaries), a \in Maybe("auth", {User}),
     d \in Maybe("data", {Data("form", <<K, L, K>>)})}

\* Fields, keys and parameters that are given twice, and texts for data.
Repeated ==
  {Call(Method("GET") \o At(<<"/">>) \o ps) :
     ps \in {<<Param("headers", <<"Accept", "Host", "Accept">>)>>,
             <<Param("headers", <<"Accept">>), Param("headers", <<"Host">>)>>,
             <<Param("data", Data("text", <<>>)), Param("data", Data("form", <<K>>)),
               Param("method", "POST")>>,
             <<Param("data", Data("text", <<>>)), Param("method", "POST")>>}}

\* Every shape of path, with keys that are views.
Queries ==
  {Call(Method("GET") \o At(path) \o q) :
     path \in {<<"/">>, <<"/", "a">>, <<"/", "a", "/">>, <<"garbage">>},
     q \in {<<Param("params", <<>>)>>, <<Param("params", <<L>>), Param("params", <<KofKL, K, KL>>)>>}}

\* Empty users and passwords, colons in them, and views.
Logins ==
  {Call(Method("GET") \o At(<<"/">>) \o <<Param("auth", Credentials(u, p))>>) :
     u \in {Whole(<<>>), Whole(<<"u", ":", "v">>), View(<<"u">>, <<"v">>)},
     p \in {Whole(<<>>), Whole(<<"p", ":">>)}}

\* Calls that end in an exception or an assertion.
Bad ==
  {Call(Method("unknown") \o At(<<"/">>) \o <<Param("headers", <<"Accept">>), Param("auth", User)>>),
   Call(At(<<"/">>)), Call(Method("GET")),
   Call(Method("GET") \o <<Param("url", Location("failed", FALSE, "", <<>>))>>),
   Call(Method("GET") \o <<Param("url", Location("throws", FALSE, "", <<>>)),
                           Param("headers", <<"Accept">>)>>),
   Call(Method("GET") \o At(<<"/">>) \o <<Param("headers", <<"Host", "X-Custom">>)>>)}

Edits == {Edit("set", "Host"), Edit("set", "Content-Type"), Edit("erase", "Authorization"),
          Edit("erase", "Accept")}

MCCalls == Plain \cup Repeated \cup Queries \cup Logins \cup Bad \cup Edits

=============================================================================
