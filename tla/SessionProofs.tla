----------------------------- MODULE SessionProofs -----------------------------
(***************************************************************************)
(* Theorems about Session.                                                 *)
(***************************************************************************)
EXTENDS Session, ParametersProofs, SequenceTheorems

-----------------------------------------------------------------------------
(* Calls and what request_parameters keeps of them *)

\* The place of the last parameter of a kind in call c.
LastIn(c, kind) == SelectLastInSeq(c.params, LAMBDA p : p.kind = kind)

\* The parameters of a call are a list.
LEMMA CallList ==
  ASSUME NEW c \in Calls
  PROVE  /\ IsCall(c)
         /\ c.params \in Seq(Range(c.params)) /\ Len(c.params) \in Nat
         /\ \A i \in 1 .. Len(c.params) : Typed(c.params[i])
         /\ c.does = "request" => c.field = ""
         /\ c.does # "request" => c.field \in KnownFields /\ c.does \in {"set", "erase"}
                                  /\ c.params = <<>>
<1>1. IsCall(c)
  BY SessionAssumption
<1>2. CASE /\ c = Call(c.params) /\ IsList(c.params)
           /\ \A i \in DOMAIN c.params : Typed(c.params[i])
  <2>1. c.params \in Seq(Range(c.params))
    BY <1>2 DEF IsList
  <2>2. c.does = "request" /\ c.field = ""
    <3> DEFINE ps == c.params
    <3>1. c = Call(ps)
      BY <1>2
    <3> HIDE DEF ps
    <3> QED BY <3>1 DEF Call
  <2>3. Len(c.params) \in Nat /\ DOMAIN c.params = 1 .. Len(c.params)
    BY <2>1
  <2> QED BY <1>1, <1>2, <2>1, <2>2, <2>3
<1>3. CASE c = Edit(c.does, c.field) /\ c.does \in {"set", "erase"} /\ c.field \in KnownFields
  <2>1. c.params = <<>>
    <3> DEFINE d == c.does
               f == c.field
    <3>1. c = Edit(d, f)
      BY <1>3
    <3> HIDE DEF d, f
    <3> QED BY <3>1 DEF Edit
  <2>2. Len(c.params) = 0 /\ c.params \in Seq(Range(c.params))
    BY <2>1
  <2>3. c.does # "request"
    BY <1>3
  <2>4. \A i \in 1 .. Len(c.params) : FALSE
    BY <2>2
  <2> QED BY <1>1, <1>3, <2>1, <2>2, <2>3, <2>4
<1> QED BY <1>1, <1>2, <1>3 DEF IsCall

\* A parameter the request has is the last of its kind.
LEMMA ParameterOf ==
  ASSUME NEW c \in Calls, NEW k \in ParamKinds
  PROVE  /\ LastIn(c, k) \in 0 .. Len(c.params)
         /\ LastIn(c, k) # 0 => /\ Typed(c.params[LastIn(c, k)])
                                /\ c.params[LastIn(c, k)].kind = k
         /\ Parameters(c)[k] = IF LastIn(c, k) = 0 THEN <<>>
                               ELSE <<c.params[LastIn(c, k)].arg>>
<1>1. c.params \in Seq(Range(c.params)) /\ \A i \in 1 .. Len(c.params) : Typed(c.params[i])
  BY CallList
<1>2. /\ LastIn(c, k) \in 0 .. Len(c.params)
      /\ LastIn(c, k) # 0 => c.params[LastIn(c, k)].kind = k
      /\ Parameters(c)[k] = IF LastIn(c, k) = 0 THEN <<>>
                            ELSE <<c.params[LastIn(c, k)].arg>>
  BY <1>1, LastParameter DEF LastIn, Parameters
<1> QED BY <1>1, <1>2

\* What the parameters of a call can be.
LEMMA ParametersTyped ==
  ASSUME NEW c \in Calls
  PROVE  LET r == Parameters(c)
         IN  /\ r.method # <<>> => r.method = <<r.method[1]>> /\ r.method[1] \in {"GET", "POST", "unknown"}
             /\ r.headers # <<>> => IsList(r.headers[1])
             /\ r.params # <<>> => IsList(r.params[1])
             /\ r.data # <<>> => r.data[1].kind \in {"form", "text"} /\ IsList(r.data[1].keys)
             /\ r.url # <<>> => /\ r.url[1].status \in {"parsed", "failed", "throws"}
                                /\ r.url[1].status = "parsed" => IsList(r.url[1].path) /\ r.url[1].path # <<>>
             /\ r.auth # <<>> => /\ r.auth[1] = [user |-> r.auth[1].user, password |-> r.auth[1].password]
                                 /\ IsList(r.auth[1].user) /\ IsList(r.auth[1].password)
<1> DEFINE r == Parameters(c)
<1>1. {"method", "headers", "params", "data", "url", "auth"} \subseteq ParamKinds
  BY DEF ParamKinds
<1>2. ASSUME NEW k \in ParamKinds, r[k] # <<>>
      PROVE  \E p : Typed(p) /\ p.kind = k /\ r[k] = <<p.arg>>
  <2> DEFINE q == c.params[LastIn(c, k)]
  <2>1. Typed(q) /\ q.kind = k /\ r[k] = <<q.arg>>
    BY <1>2, ParameterOf
  <2> HIDE DEF q, r
  <2> QED BY <2>1
<1> HIDE DEF r
<1>3. ASSUME r.method # <<>>
      PROVE  r.method = <<r.method[1]>> /\ r.method[1] \in {"GET", "POST", "unknown"}
  <2>1. PICK p : Typed(p) /\ p.kind = "method" /\ r.method = <<p.arg>>
    BY <1>1, <1>2, <1>3
  <2> QED BY <2>1 DEF Typed
<1>4. ASSUME r.headers # <<>>
      PROVE  IsList(r.headers[1])
  <2>1. PICK p : Typed(p) /\ p.kind = "headers" /\ r.headers = <<p.arg>>
    BY <1>1, <1>2, <1>4
  <2> QED BY <2>1 DEF Typed
<1>5. ASSUME r.params # <<>>
      PROVE  IsList(r.params[1])
  <2>1. PICK p : Typed(p) /\ p.kind = "params" /\ r.params = <<p.arg>>
    BY <1>1, <1>2, <1>5
  <2> QED BY <2>1 DEF Typed
<1>6. ASSUME r.data # <<>>
      PROVE  r.data[1].kind \in {"form", "text"} /\ IsList(r.data[1].keys)
  <2>1. PICK p : Typed(p) /\ p.kind = "data" /\ r.data = <<p.arg>>
    BY <1>1, <1>2, <1>6
  <2> QED BY <2>1 DEF Typed
<1>7. ASSUME r.url # <<>>
      PROVE  /\ r.url[1].status \in {"parsed", "failed", "throws"}
             /\ r.url[1].status = "parsed" => IsList(r.url[1].path) /\ r.url[1].path # <<>>
  <2>1. PICK p : Typed(p) /\ p.kind = "url" /\ r.url = <<p.arg>>
    BY <1>1, <1>2, <1>7
  <2> QED BY <2>1 DEF Typed
<1>8. ASSUME r.auth # <<>>
      PROVE  /\ r.auth[1] = [user |-> r.auth[1].user, password |-> r.auth[1].password]
             /\ IsList(r.auth[1].user) /\ IsList(r.auth[1].password)
  <2>1. PICK p : Typed(p) /\ p.kind = "auth" /\ r.auth = <<p.arg>>
    BY <1>1, <1>2, <1>8
  <2> QED BY <2>1 DEF Typed
<1> QED BY <1>3, <1>4, <1>5, <1>6, <1>7, <1>8 DEF r

-----------------------------------------------------------------------------
(* The headers of a session *)

\* The fields a request names, each with its place in the list.
LEMMA FieldsGiven ==
  ASSUME NEW c \in Calls
  PROVE  LET r == Parameters(c)
         IN  \A f \in DOMAIN Fields(r) : Fields(r)[f] \in Nat
<1> DEFINE r == Parameters(c)
<1>1. CASE r.headers = <<>>
  BY <1>1 DEF Fields, EmptyDictionary
<1>2. CASE r.headers # <<>>
  <2>1. r.headers[1] \in Seq(Range(r.headers[1]))
    BY <1>2, ParametersTyped DEF IsList
  <2>2. Fields(r) = HeadersOf(r.headers[1])
    BY <1>2 DEF Fields
  <2> DEFINE keys == r.headers[1]
             d == HeadersOf(keys)
  <2> HIDE DEF keys
  <2>3. \A f \in DOMAIN d : d[f] \in 1 .. Len(keys)
    BY <2>1, DictionaryHasLast DEF keys
  <2>4. Len(keys) \in Nat /\ Fields(r) = d
    BY <2>1, <2>2 DEF keys
  <2> HIDE DEF d
  <2> QED BY <2>3, <2>4
<1> QED BY <1>1, <1>2

\* What prepare_request makes of every field.
LEMMA PreparedFields ==
  ASSUME NEW h, DOMAIN h = KnownFields, NEW r, NEW n
  PROVE  LET g == WithGiven(h, r, n)
             p == Prepared(h, r, n)
         IN  /\ DOMAIN p = KnownFields
             /\ p["Host"] = Append(g["Host"], Value("url", n))
             /\ p["Authorization"] = IF r.auth # <<>> THEN Append(g["Authorization"], Value("auth", n))
                                     ELSE g["Authorization"]
             /\ p["Content-Type"] = g["Content-Type"] /\ p["Accept"] = g["Accept"]
             /\ p = [f \in KnownFields |-> p[f]]
             /\ \A f \in KnownFields :
                  g[f] = IF f \in DOMAIN Fields(r) THEN <<Given(n, Fields(r)[f])>> ELSE h[f]
BY DEF Prepared, WithAuth, WithHost, WithGiven, Insert, KnownFields

\* It keeps the type of the headers.
LEMMA PreparedType ==
  ASSUME NEW h \in Headers, NEW c \in Calls, NEW n \in 0 .. MaxCalls
  PROVE  /\ Prepared(h, Parameters(c), n) \in Headers
         /\ AfterPost(Prepared(h, Parameters(c), n), Parameters(c), n) \in Headers
<1> DEFINE r == Parameters(c)
           g == WithGiven(h, r, n)
           p == Prepared(h, r, n)
<1>1. \A from \in {"url", "auth", "form"} : Value(from, n) \in Values
  BY DEF Value, Values
<1>2. \A i \in Nat : Given(n, i) \in Values
  BY DEF Given, Values
<1>3. DOMAIN h = KnownFields /\ \A f \in KnownFields : h[f] \in Seq(Values)
  BY DEF Headers
<1>4. \A f \in DOMAIN Fields(r) : Fields(r)[f] \in Nat
  BY FieldsGiven
<1> HIDE DEF r
<1>5. \A f \in KnownFields : g[f] \in Seq(Values)
  BY <1>2, <1>3, <1>4 DEF WithGiven
<1>6. \A f \in KnownFields : p[f] \in Seq(Values)
  <2>1. /\ p["Host"] = Append(g["Host"], Value("url", n))
        /\ p["Authorization"] \in {Append(g["Authorization"], Value("auth", n)), g["Authorization"]}
        /\ p["Content-Type"] = g["Content-Type"] /\ p["Accept"] = g["Accept"]
    <3>1. /\ p["Host"] = Append(g["Host"], Value("url", n))
          /\ p["Authorization"] = IF r.auth # <<>> THEN Append(g["Authorization"], Value("auth", n))
                                  ELSE g["Authorization"]
          /\ p["Content-Type"] = g["Content-Type"] /\ p["Accept"] = g["Accept"]
      BY <1>3 DEF Prepared, WithAuth, WithHost, WithGiven, Insert, KnownFields
    <3> HIDE DEF g, p
    <3> QED BY <3>1
  <2> HIDE DEF g, p
  <2>2. /\ Append(g["Host"], Value("url", n)) \in Seq(Values)
        /\ Append(g["Authorization"], Value("auth", n)) \in Seq(Values)
    BY <1>1, <1>5 DEF KnownFields
  <2> QED BY <1>5, <2>1, <2>2 DEF KnownFields
<1>7. p \in Headers
  BY <1>3, <1>6, PreparedFields DEF Headers
<1> HIDE DEF p
<1>8. AfterPost(p, r, n) \in Headers
  <2>1. Append(p["Content-Type"], Value("form", n)) \in Seq(Values)
    BY <1>1, <1>7 DEF Headers, KnownFields
  <2>2. [p EXCEPT !["Content-Type"] = Append(@, Value("form", n))] \in Headers
    BY <1>7, <2>1 DEF Headers
  <2> QED BY <1>7, <2>2 DEF AfterPost, Insert
<1> QED BY <1>7, <1>8 DEF p, r

-----------------------------------------------------------------------------
(* The types *)

\* A sequence is a list of what is in it.
LEMMA SequencesAreLists ==
  ASSUME NEW T, NEW s \in Seq(T)
  PROVE  IsList(s)
<1>1. \A i \in 1 .. Len(s) : s[i] \in Range(s)
  BY DEF Range
<1>2. s \in [1 .. Len(s) -> Range(s)]
  BY <1>1
<1> QED BY <1>2, SeqDef DEF IsList

\* One more element, behind the others.
LEMMA Appended ==
  ASSUME NEW s, IsList(s), NEW x
  PROVE  LET t == Append(s, x)
         IN  /\ IsList(t) /\ Len(t) = Len(s) + 1 /\ Len(s) \in Nat
             /\ DOMAIN s = 1 .. Len(s) /\ DOMAIN t = 1 .. Len(s) + 1
             /\ \A i \in 1 .. Len(s) : t[i] = s[i]
             /\ t[Len(s) + 1] = x
<1> DEFINE T == Range(s) \cup {x}
<1>1. s \in Seq(Range(s))
  BY DEF IsList
<1>2. \A i \in 1 .. Len(s) : s[i] \in T
  BY <1>1
<1>3. s \in Seq(T)
  <2>1. s \in [1 .. Len(s) -> T]
    BY <1>1, <1>2
  <2> HIDE DEF T
  <2> QED BY <1>1, <2>1, SeqDef
<1>4. x \in T
  OBVIOUS
<1> HIDE DEF T
<1>5. Append(s, x) \in Seq(T)
  BY <1>3, <1>4
<1>6. IsList(Append(s, x))
  BY <1>5, SequencesAreLists
<1> QED BY <1>3, <1>4, <1>5, <1>6

\* There is one more call, and those before it are as they were.
LEMMA OneMoreCall ==
  ASSUME TypeOK, Goes, NEW c \in Calls, calls' = Append(calls, c)
  PROVE  /\ This \in 1 .. MaxCalls /\ calls' \in Seq(Calls) /\ Len(calls') = This
         /\ DOMAIN calls' = 1 .. This /\ DOMAIN calls = 1 .. This - 1
         /\ \A n \in DOMAIN calls : n < This /\ n \in DOMAIN calls' /\ calls'[n] = calls[n]
         /\ calls'[This] = c
BY SessionAssumption DEF TypeOK, Goes, This

\* What the type invariant says of request i.
RequestType(i) ==
  /\ sent[i].headers \in Headers /\ sent[i].method \in {"GET", "POST"}
  /\ sent[i].body.kind \in {"none", "form", "text"}
  /\ sent[i].call \in DOMAIN calls
  /\ \A j \in 1 .. i - 1 : sent[j].call < sent[i].call

\* The steps that hand no request over.
LEMMA NothingSent ==
  ASSUME TypeOK, Goes, NEW c \in Calls, calls' = Append(calls, c), sent' = sent,
         headers' \in Headers, aborted' \in BOOLEAN
  PROVE  TypeOK'
<1>1. calls' \in Seq(Calls) /\ \A n \in DOMAIN calls : n \in DOMAIN calls'
  BY OneMoreCall
<1>2. \A i \in DOMAIN sent' : RequestType(i)'
  BY <1>1 DEF TypeOK, RequestType
<1>3. IsList(sent')
  BY DEF TypeOK, IsList
<1> QED BY <1>1, <1>2, <1>3 DEF TypeOK, RequestType

\* The parameters of a call that comes to a request.
LEMMA GoodParameters ==
  ASSUME NEW c \in Calls, ~Aborts(Parameters(c)), ~UrlThrows(Parameters(c)), ~Throws(Parameters(c))
  PROVE  LET r == Parameters(c)
         IN  /\ r.url # <<>> /\ r.url[1].status = "parsed"
             /\ r.method # <<>> /\ r.method[1] \in {"GET", "POST"}
             /\ Body(r).kind \in {"none", "form", "text"}
             /\ DOMAIN Fields(r) \subseteq KnownFields
<1> DEFINE r == Parameters(c)
<1>1. /\ r.url # <<>> => r.url[1].status \in {"parsed", "failed", "throws"}
      /\ r.method # <<>> => r.method = <<r.method[1]>> /\ r.method[1] \in {"GET", "POST", "unknown"}
      /\ r.data # <<>> => r.data[1].kind \in {"form", "text"}
  BY ParametersTyped
<1>2. ~Aborts(r) /\ ~UrlThrows(r) /\ ~Throws(r)
  OBVIOUS
<1> HIDE DEF r
<1>3. r.url # <<>> /\ r.url[1].status = "parsed"
  BY <1>1, <1>2 DEF Aborts, UrlThrows, UrlStatus
<1>4. r.method # <<>> /\ DOMAIN Fields(r) \subseteq KnownFields
  BY <1>2, <1>3 DEF Aborts, UrlStatus
<1>5. r.method[1] \in {"GET", "POST"}
  BY <1>1, <1>2, <1>4 DEF Throws
<1>6. Body(r).kind \in {"none", "form", "text"}
  BY <1>1 DEF Body, ValueOr, Data
<1> QED BY <1>3, <1>4, <1>5, <1>6 DEF r

\* What a call hands over.
Handed(c, n, h) ==
  LET r == Parameters(c)
  IN  [call |-> n, method |-> r.method[1], target |-> Target(r.url[1].path, r), headers |-> h,
       body |-> Body(r), auth |-> IF r.auth = <<>> THEN <<>> ELSE <<EncodedStr(r.auth[1])>>]

\* A request that is handed over is the last, and those before it are as they were.
LEMMA RequestStep ==
  ASSUME TypeOK, NEW c \in Calls, Request(c)
  PROVE  LET m == Len(sent) + 1
             h == Prepared(headers, Parameters(c), This)
         IN  /\ Goes /\ calls' = Append(calls, c) /\ c.does = "request"
             /\ h \in Headers /\ headers' = AfterPost(h, Parameters(c), This) /\ headers' \in Headers
             /\ Len(sent) \in Nat /\ DOMAIN sent = 1 .. Len(sent) /\ DOMAIN sent' = 1 .. m
             /\ \A i \in DOMAIN sent : sent'[i] = sent[i]
             /\ sent'[m] = Handed(c, This, h) /\ IsList(sent')
<1>1. /\ Goes /\ calls' = Append(calls, c) /\ c.does = "request"
      /\ headers' = AfterPost(Prepared(headers, Parameters(c), This), Parameters(c), This)
      /\ sent' = Append(sent, Handed(c, This, Prepared(headers, Parameters(c), This)))
  BY DEF Request, Handed
<1>2. IsList(sent) /\ headers \in Headers
  BY DEF TypeOK
<1>3. This \in 0 .. MaxCalls
  BY <1>1, OneMoreCall
<1> QED BY <1>1, <1>2, <1>3, Appended, PreparedType

\* It keeps the types.
LEMMA RequestTypes ==
  ASSUME TypeOK, NEW c \in Calls, Request(c)
  PROVE  TypeOK'
<1> DEFINE m == Len(sent) + 1
           h == Prepared(headers, Parameters(c), This)
<1>1. /\ Goes /\ calls' = Append(calls, c) /\ headers' \in Headers /\ h \in Headers
      /\ Len(sent) \in Nat /\ DOMAIN sent = 1 .. Len(sent) /\ DOMAIN sent' = 1 .. m
      /\ \A i \in DOMAIN sent : sent'[i] = sent[i]
      /\ sent'[m] = Handed(c, This, h) /\ IsList(sent')
  BY RequestStep
<1> HIDE DEF h
<1>2. /\ calls' \in Seq(Calls) /\ This \in DOMAIN calls'
      /\ \A n \in DOMAIN calls : n < This /\ n \in DOMAIN calls'
  BY <1>1, OneMoreCall
<1>3. Parameters(c).method[1] \in {"GET", "POST"} /\ Body(Parameters(c)).kind \in {"none", "form", "text"}
  BY GoodParameters DEF Request
<1>4. \A i \in DOMAIN sent : RequestType(i)
  BY DEF TypeOK, RequestType
<1>5. ASSUME NEW i \in DOMAIN sent'
      PROVE  RequestType(i)'
  <2>1. CASE i = m
    <3>1. /\ sent'[i].call = This /\ sent'[i].headers = h
          /\ sent'[i].method = Parameters(c).method[1] /\ sent'[i].body = Body(Parameters(c))
      BY <1>1, <2>1 DEF Handed
    <3>2. \A j \in 1 .. i - 1 : j \in DOMAIN sent /\ sent'[j] = sent[j]
      BY <1>1, <2>1
    <3>3. \A j \in 1 .. i - 1 : sent'[j].call < This
      BY <1>2, <1>4, <3>2 DEF RequestType
    <3> QED BY <1>1, <1>2, <1>3, <3>1, <3>3 DEF RequestType
  <2>2. CASE i # m
    <3>1. i \in DOMAIN sent /\ \A j \in 1 .. i - 1 : j \in DOMAIN sent
      BY <1>1, <2>2
    <3>2. RequestType(i)
      BY <1>4, <3>1
    <3> QED BY <1>1, <1>2, <3>1, <3>2 DEF RequestType
  <2> QED BY <2>1, <2>2
<1>6. aborted' \in BOOLEAN
  BY DEF Request, TypeOK
<1> QED BY <1>1, <1>2, <1>5, <1>6 DEF TypeOK, RequestType

\* The other calls: refused, ended by an exception or an assertion, or an edit.
OtherCall(c) == RequestRefused(c) \/ RequestThrows(c) \/ RequestAborts(c) \/ EditHeaders(c)

\* They hand nothing over.
LEMMA OtherStep ==
  ASSUME TypeOK, NEW c \in Calls, OtherCall(c)
  PROVE  /\ Goes /\ calls' = Append(calls, c) /\ sent' = sent
         /\ headers' \in Headers /\ aborted' \in BOOLEAN
<1>1. Goes /\ calls' = Append(calls, c) /\ sent' = sent /\ aborted' \in BOOLEAN
  BY DEF OtherCall, RequestRefused, RequestThrows, RequestAborts, EditHeaders, TypeOK
<1>2. headers \in Headers /\ This \in 1 .. MaxCalls
  BY <1>1, OneMoreCall DEF TypeOK
<1>3. CASE RequestThrows(c)
  <2>1. This \in 0 .. MaxCalls
    BY <1>2
  <2>2. headers' = Prepared(headers, Parameters(c), This)
    BY <1>3 DEF RequestThrows
  <2> QED BY <1>1, <1>2, <2>1, <2>2, PreparedType
<1>4. CASE EditHeaders(c)
  <2> DEFINE v == IF c.does = "set" THEN <<Value("edit", This)>> ELSE <<>>
  <2>1. Value("edit", This) \in Values
    BY <1>2 DEF Value, Values
  <2>2. v \in Seq(Values)
    BY <2>1
  <2>3. headers' = [headers EXCEPT ![c.field] = v]
    BY <1>4 DEF EditHeaders
  <2> HIDE DEF v
  <2>4. headers' \in Headers
    BY <1>2, <2>2, <2>3 DEF Headers
  <2> QED BY <1>1, <2>4
<1>5. CASE RequestRefused(c) \/ RequestAborts(c)
  BY <1>1, <1>2, <1>5 DEF RequestRefused, RequestAborts
<1> QED BY <1>1, <1>3, <1>4, <1>5 DEF OtherCall

\* Initially there is nothing but the default fields.
LEMMA TypeInit == Init => TypeOK
<1> SUFFICES ASSUME Init
             PROVE  TypeOK
  OBVIOUS
<1>1. Value("default", 0) \in Values
  BY SessionAssumption DEF Value, Values
<1>2. Default \in Headers
  BY <1>1 DEF Default, Headers, KnownFields
<1>3. IsList(<<>>)
  <2>1. <<>> \in Seq({})
    OBVIOUS
  <2> QED BY <2>1, SequencesAreLists
<1>4. headers = Default /\ sent = <<>> /\ calls = <<>> /\ aborted = FALSE
  BY DEF Init
<1>5. DOMAIN sent = {} /\ calls \in Seq(Calls)
  BY <1>4
<1> QED BY <1>2, <1>3, <1>4, <1>5 DEF TypeOK

\* What a step does, seen from the requests.
LEMMA StepCases ==
  ASSUME [Next]_vars
  PROVE  \/ UNCHANGED vars
         \/ \E c \in Calls : Request(c)
         \/ \E c \in Calls : OtherCall(c)
BY DEF Next, OtherCall

\* Every step keeps the types.
LEMMA TypeStep == TypeOK /\ [Next]_vars => TypeOK'
<1> SUFFICES ASSUME TypeOK, [Next]_vars
             PROVE  TypeOK'
  OBVIOUS
<1>1. CASE UNCHANGED vars
  BY <1>1 DEF vars, TypeOK
<1>2. ASSUME NEW c \in Calls, OtherCall(c)
      PROVE  TypeOK'
  BY <1>2, OtherStep, NothingSent
<1> QED BY <1>1, <1>2, RequestTypes, StepCases

\* The headers, the requests and the history keep their types, for every set of calls, and
\* requests go out in the order of the calls, at most one for each.
THEOREM TypeCorrect == Spec => []TypeOK
BY TypeInit, TypeStep, PTL DEF Spec

-----------------------------------------------------------------------------
(* What a request has of its own call *)

\* The argument of the last parameter of a kind in call c; its list of keys, or nothing.
ArgIn(c, kind) == c.params[LastIn(c, kind)].arg
KeysIn(c, kind) == IF LastIn(c, kind) = 0 THEN <<>> ELSE ArgIn(c, kind)

\* What the properties say of request q of call c.
Carries(q, c) ==
  LET n == q.call
      h == q.headers
      keys == KeysIn(c, "headers")
  IN  /\ Last(h["Host"]) = Value("url", n)
      /\ LastIn(c, "auth") # 0
           => h["Authorization"] # <<>> /\ Last(h["Authorization"]) = Value("auth", n)
      /\ \A k \in DOMAIN keys :
           (\A j \in k + 1 .. Len(keys) : keys[j] # keys[k]) => h[keys[k]][1] = Given(n, k)
      /\ \A f \in Range(keys) \ {"Host", "Authorization"} : Len(h[f]) = 1
      /\ q.method = ArgIn(c, "method")
      /\ q.body.kind = IF q.method = "POST" /\ LastIn(c, "data") # 0
                       THEN ArgIn(c, "data").kind ELSE "none"

Queries(q, c) ==
  LET t == q.target
      path == ArgIn(c, "url").path
  IN  /\ FirstValues(t.query, KeysIn(c, "params"))
      /\ q.body.kind = "form" => FirstValues(q.body.pairs, ArgIn(c, "data").keys)
      /\ path \in {t.path, Append(t.path, "/")}
      /\ path # t.path => LastIn(c, "params") # 0

Authorizes(q, c) ==
  /\ (q.auth # <<>>) <=> (LastIn(c, "auth") # 0)
  /\ q.auth # <<>> =>
       LET given == ArgIn(c, "auth")
       IN  ~Contains(given.user, ":") => Decoded(q.auth[1]) = given

\* The properties say it of every request.
LEMMA OwnOfEach ==
  /\ CarriesItsOwn <=> \A i \in DOMAIN sent : Carries(sent[i], calls[sent[i].call])
  /\ QueryIsItsOwn <=> \A i \in DOMAIN sent : Queries(sent[i], calls[sent[i].call])
  /\ CredentialsArrive <=> \A i \in DOMAIN sent : Authorizes(sent[i], calls[sent[i].call])
BY DEF CarriesItsOwn, Carries, QueryIsItsOwn, Queries, CredentialsArrive, Authorizes,
       LastOf, LastIn, ArgOf, ArgIn, KeysOf, KeysIn, Names

\* A parameter of the request, by its place in the call.
LEMMA ParameterAt ==
  ASSUME NEW c \in Calls, NEW k \in ParamKinds
  PROVE  /\ Parameters(c)[k] # <<>> <=> LastIn(c, k) # 0
         /\ Parameters(c)[k] # <<>> => /\ Parameters(c)[k] = <<ArgIn(c, k)>>
                                      /\ Parameters(c)[k][1] = ArgIn(c, k)
<1>1. Parameters(c)[k] = IF LastIn(c, k) = 0 THEN <<>> ELSE <<ArgIn(c, k)>>
  BY ParameterOf DEF ArgIn
<1>2. CASE LastIn(c, k) = 0
  BY <1>1, <1>2
<1>3. CASE LastIn(c, k) # 0
  <2>1. Parameters(c)[k] = <<ArgIn(c, k)>>
    BY <1>1, <1>3
  <2> HIDE DEF ArgIn
  <2> QED BY <1>3, <2>1
<1> QED BY <1>2, <1>3

\* The fields of a request are the keys of the last dictionary, each with its last place.
LEMMA FieldsAre ==
  ASSUME NEW c \in Calls
  PROVE  LET keys == KeysIn(c, "headers")
             d == Fields(Parameters(c))
         IN  /\ IsList(keys) /\ DOMAIN d = Range(keys)
             /\ \A f \in Range(keys) :
                  /\ d[f] \in 1 .. Len(keys) /\ keys[d[f]] = f
                  /\ \A j \in 1 .. Len(keys) : keys[j] = f => j <= d[f]
                  /\ d[f] = Max({j \in DOMAIN keys : keys[j] = f})
<1> DEFINE r == Parameters(c)
           keys == KeysIn(c, "headers")
           d == Fields(r)
<1>1. "headers" \in ParamKinds
  BY DEF ParamKinds
<1>2. CASE r.headers = <<>>
  <2>1. LastIn(c, "headers") = 0
    BY <1>1, <1>2, ParameterAt
  <2>2. keys = <<>>
    BY <2>1 DEF KeysIn
  <2>3. Range(keys) = {} /\ IsList(keys)
    <3> HIDE DEF keys
    <3>1. <<>> \in Seq({}) /\ DOMAIN keys = {}
      BY <2>2
    <3>2. IsList(keys)
      BY <2>2, <3>1, SequencesAreLists
    <3> QED BY <3>1, <3>2 DEF Range
  <2>4. DOMAIN d = {}
    BY <1>2 DEF Fields, EmptyDictionary
  <2> QED BY <2>3, <2>4
<1>3. CASE r.headers # <<>>
  <2>1. LastIn(c, "headers") # 0 /\ r.headers[1] = ArgIn(c, "headers")
    BY <1>1, <1>3, ParameterAt
  <2>2. keys = r.headers[1]
    BY <2>1 DEF KeysIn
  <2>3. IsList(keys)
    BY <1>3, <2>2, ParametersTyped
  <2>4. keys \in Seq(Range(keys))
    BY <2>3 DEF IsList
  <2>5. d = HeadersOf(keys)
    BY <1>3, <2>2 DEF Fields
  <2> HIDE DEF keys, d
  <2>6. /\ DOMAIN HeadersOf(keys) = Range(keys)
        /\ \A f \in DOMAIN HeadersOf(keys) :
             /\ HeadersOf(keys)[f] \in 1 .. Len(keys) /\ keys[HeadersOf(keys)[f]] = f
             /\ \A j \in 1 .. Len(keys) : keys[j] = f => j <= HeadersOf(keys)[f]
             /\ HeadersOf(keys)[f] = Max({j \in DOMAIN keys : keys[j] = f})
    BY <2>4, DictionaryHasLast, ZenonT(30)
  <2>7. /\ DOMAIN d = Range(keys)
        /\ \A f \in Range(keys) :
             /\ d[f] \in 1 .. Len(keys) /\ keys[d[f]] = f
             /\ \A j \in 1 .. Len(keys) : keys[j] = f => j <= d[f]
             /\ d[f] = Max({j \in DOMAIN keys : keys[j] = f})
    BY <2>5, <2>6, Zenon
  <2> QED BY <2>3, <2>7 DEF keys, d
<1> QED BY <1>2, <1>3

\* What a call hands over carries what the call gave.
LEMMA HandedCarries ==
  ASSUME NEW c \in Calls, NEW g \in Headers, NEW n \in 0 .. MaxCalls,
         ~Aborts(Parameters(c)), ~UrlThrows(Parameters(c)), ~Throws(Parameters(c))
  PROVE  Carries(Handed(c, n, Prepared(g, Parameters(c), n)), c)
<1> DEFINE r == Parameters(c)
           w == WithGiven(g, r, n)
           h == Prepared(g, r, n)
           q == Handed(c, n, h)
           keys == KeysIn(c, "headers")
<1>1. /\ q.call = n /\ q.headers = h /\ q.method = r.method[1] /\ q.body = Body(r)
  BY DEF Handed
<1>2. /\ r.method # <<>> /\ DOMAIN Fields(r) \subseteq KnownFields
  BY GoodParameters
<1>3. \A f \in KnownFields : g[f] \in Seq(Values)
  BY DEF Headers
<1>4. /\ h["Host"] = Append(w["Host"], Value("url", n))
      /\ h["Authorization"] = IF r.auth # <<>> THEN Append(w["Authorization"], Value("auth", n))
                              ELSE w["Authorization"]
      /\ h["Content-Type"] = w["Content-Type"] /\ h["Accept"] = w["Accept"]
  BY DEF Headers, Prepared, WithAuth, WithHost, WithGiven, Insert, KnownFields
<1>5. \A f \in KnownFields :
        w[f] = IF f \in DOMAIN Fields(r) THEN <<Given(n, Fields(r)[f])>> ELSE g[f]
  BY DEF WithGiven
<1>6. {"method", "auth", "data"} \subseteq ParamKinds
  BY DEF ParamKinds
<1>7. /\ IsList(keys) /\ DOMAIN Fields(r) = Range(keys)
      /\ \A f \in Range(keys) :
           /\ Fields(r)[f] \in 1 .. Len(keys) /\ keys[Fields(r)[f]] = f
           /\ \A j \in 1 .. Len(keys) : keys[j] = f => j <= Fields(r)[f]
  BY FieldsAre
<1>8. keys \in Seq(Range(keys))
  BY <1>7 DEF IsList
<1>9. \A k \in ParamKinds : /\ r[k] # <<>> <=> LastIn(c, k) # 0
                            /\ r[k] # <<>> => r[k] = <<ArgIn(c, k)>> /\ r[k][1] = ArgIn(c, k)
  BY ParameterAt
<1> HIDE DEF r, w, h, q, keys
<1>10. \A f \in KnownFields : /\ \E T : w[f] \in Seq(T)
                              /\ f \in Range(keys) => w[f] = <<Given(n, Fields(r)[f])>>
  <2> SUFFICES ASSUME NEW f \in KnownFields
               PROVE  /\ \E T : w[f] \in Seq(T)
                      /\ f \in Range(keys) => w[f] = <<Given(n, Fields(r)[f])>>
    OBVIOUS
  <2>1. CASE f \in Range(keys)
    <3>1. w[f] = <<Given(n, Fields(r)[f])>>
      BY <1>5, <1>7, <2>1
    <3>2. w[f] \in Seq({Given(n, Fields(r)[f])})
      BY <3>1
    <3> QED BY <3>1, <3>2
  <2>2. CASE f \notin Range(keys)
    BY <1>3, <1>5, <1>7, <2>2
  <2> QED BY <2>1, <2>2
<1>11. \A f \in KnownFields : f \in Range(keys) =>
         h[f][1] = Given(n, Fields(r)[f]) /\ (f \notin {"Host", "Authorization"} => Len(h[f]) = 1)
  <2> SUFFICES ASSUME NEW f \in KnownFields, f \in Range(keys)
               PROVE  /\ h[f][1] = Given(n, Fields(r)[f])
                      /\ f \notin {"Host", "Authorization"} => Len(h[f]) = 1
    OBVIOUS
  <2> DEFINE x == Given(n, Fields(r)[f])
  <2>1. w[f] = <<x>>
    BY <1>10
  <2> HIDE DEF x
  <2>2. /\ Append(w[f], Value("url", n))[1] = x /\ Append(w[f], Value("auth", n))[1] = x
        /\ w[f][1] = x /\ Len(w[f]) = 1
    BY <2>1
  <2>3. h[f] \in {w[f], Append(w[f], Value("url", n)), Append(w[f], Value("auth", n))}
        /\ (f \notin {"Host", "Authorization"} => h[f] = w[f])
    BY <1>4 DEF KnownFields
  <2> QED BY <2>2, <2>3 DEF x
<1>12. Last(h["Host"]) = Value("url", n)
  <2>1. PICK T : w["Host"] \in Seq(T)
    BY <1>10 DEF KnownFields
  <2> QED BY <1>4, <2>1 DEF Last
<1>13. LastIn(c, "auth") # 0
         => h["Authorization"] # <<>> /\ Last(h["Authorization"]) = Value("auth", n)
  <2> SUFFICES ASSUME LastIn(c, "auth") # 0
               PROVE  h["Authorization"] # <<>> /\ Last(h["Authorization"]) = Value("auth", n)
    OBVIOUS
  <2>1. PICK T : w["Authorization"] \in Seq(T)
    BY <1>10 DEF KnownFields
  <2>2. h["Authorization"] = Append(w["Authorization"], Value("auth", n))
    BY <1>4, <1>6, <1>9
  <2> QED BY <2>1, <2>2 DEF Last
<1>14. ASSUME NEW k \in DOMAIN keys, \A j \in k + 1 .. Len(keys) : keys[j] # keys[k]
       PROVE  h[keys[k]][1] = Given(n, k)
  <2> DEFINE f == keys[k]
             p == Fields(r)[f]
  <2>1. f \in Range(keys) /\ f \in KnownFields
    BY <1>2, <1>7 DEF Range
  <2>2. k \in 1 .. Len(keys) /\ Len(keys) \in Nat
    BY <1>8
  <2>3. p \in 1 .. Len(keys) /\ keys[p] = f /\ k <= p
    BY <1>7, <2>1, <2>2
  <2>4. h[f][1] = Given(n, p)
    BY <1>11, <2>1
  <2> HIDE DEF p
  <2>5. ~(p > k)
    BY <1>14, <2>2, <2>3
  <2>6. p = k
    BY <2>2, <2>3, <2>5
  <2> QED BY <2>4, <2>6
<1>15. \A f \in Range(keys) \ {"Host", "Authorization"} : Len(h[f]) = 1
  BY <1>2, <1>7, <1>11
<1>16. r.method = <<ArgIn(c, "method")>> /\ r.method[1] = ArgIn(c, "method")
  BY <1>2, <1>6, <1>9
<1>17. Body(r).kind = IF r.method[1] = "POST" /\ LastIn(c, "data") # 0
                      THEN ArgIn(c, "data").kind ELSE "none"
  <2>1. r.method = <<"POST">> <=> r.method[1] = "POST"
    BY <1>16
  <2>2. r.data # <<>> <=> LastIn(c, "data") # 0
    BY <1>6, <1>9
  <2>3. r.data # <<>> => r.data[1] = ArgIn(c, "data")
    BY <1>6, <1>9
  <2> QED BY <2>1, <2>2, <2>3 DEF Body, ValueOr, Data
<1> QED
  BY <1>1, <1>12, <1>13, <1>14, <1>15, <1>16, <1>17 DEF Carries, q, h, r, keys

\* params(...) and data(...) keep the first values.
LEMMA FirstOfParams ==
  ASSUME NEW keys, IsList(keys)
  PROVE  FirstValues(ParamsOf(keys), keys)
<1> DEFINE d == ParamsOf(keys)
<1>1. keys \in Seq(Range(keys))
  BY DEF IsList
<1>2. /\ DOMAIN d = {CString(keys[i]) : i \in DOMAIN keys}
      /\ \A x \in DOMAIN d :
           /\ d[x] \in 1 .. Len(keys) /\ CString(keys[d[x]]) = x
           /\ \A j \in 1 .. Len(keys) : CString(keys[j]) = x => d[x] <= j
  BY <1>1, DictionaryHasFirst
<1>3. Len(keys) \in Nat
  BY <1>1
<1> HIDE DEF d
<1>4. ASSUME NEW x \in DOMAIN d, NEW i \in 1 .. d[x] - 1
      PROVE  CString(keys[i]) # x
  <2>1. d[x] \in 1 .. Len(keys)
    BY <1>2
  <2>2. i \in 1 .. Len(keys) /\ ~(d[x] <= i)
    BY <1>3, <2>1
  <2> QED BY <1>2, <2>2
<1> QED BY <1>2, <1>4 DEF FirstValues, CString, d

\* A path is its front and a slash, if it ends in one.
LEMMA SlashOff ==
  ASSUME NEW path, IsList(path), path # <<>>, Last(path) = "/"
  PROVE  Append(Front(path), "/") = path
<1>1. PICK n \in Nat : n = Len(path) /\ path \in Seq(Range(path))
  BY DEF IsList
<1>2. n >= 1 /\ path[n] = "/"
  BY <1>1 DEF Last
<1>3. Front(path) \in Seq(Range(path)) /\ Len(Front(path)) = n - 1
      /\ \A i \in 1 .. n - 1 : Front(path)[i] = path[i]
  BY <1>1, <1>2 DEF Front
<1> HIDE DEF Front
<1>4. "/" \in Range(path)
  BY <1>1, <1>2 DEF Range
<1>5. /\ Append(Front(path), "/") \in Seq(Range(path)) /\ Len(Append(Front(path), "/")) = n
      /\ \A i \in 1 .. n : Append(Front(path), "/")[i] = path[i]
  BY <1>2, <1>3, <1>4
<1> QED BY <1>1, <1>5

\* What a call hands over asks for what the call gave.
LEMMA HandedQueries ==
  ASSUME NEW c \in Calls, NEW n, NEW h,
         ~Aborts(Parameters(c)), ~UrlThrows(Parameters(c)), ~Throws(Parameters(c))
  PROVE  Queries(Handed(c, n, h), c)
<1> DEFINE r == Parameters(c)
           q == Handed(c, n, h)
           path == ArgIn(c, "url").path
           keys == KeysIn(c, "params")
<1>1. {"url", "params", "data"} \subseteq ParamKinds
  BY DEF ParamKinds
<1>2. \A k \in ParamKinds : /\ r[k] # <<>> <=> LastIn(c, k) # 0
                            /\ r[k] # <<>> => r[k] = <<ArgIn(c, k)>> /\ r[k][1] = ArgIn(c, k)
  BY ParameterAt
<1>3. r.url # <<>> /\ r.url[1].status = "parsed"
  BY GoodParameters
<1>4. /\ r.url[1].path = path /\ IsList(path) /\ path # <<>>
      /\ r.params # <<>> => IsList(r.params[1])
      /\ r.data # <<>> => IsList(r.data[1].keys)
  BY <1>1, <1>2, <1>3, ParametersTyped
<1>5. q.target = Target(path, r) /\ q.body = Body(r)
  BY <1>4 DEF Handed
<1> HIDE DEF r, q, path
<1>6. /\ FirstValues(q.target.query, keys)
      /\ path \in {q.target.path, Append(q.target.path, "/")}
      /\ path # q.target.path => LastIn(c, "params") # 0
  <2>1. CASE r.params = <<>>
    <3>1. Target(path, r) = [path |-> path, query |-> EmptyDictionary] /\ LastIn(c, "params") = 0
      BY <1>1, <1>2, <2>1 DEF Target
    <3>2. keys = <<>>
      BY <3>1 DEF KeysIn
    <3>3. FirstValues(EmptyDictionary, <<>>)
      BY DEF FirstValues, EmptyDictionary
    <3>4. q.target.path = path /\ q.target.query = EmptyDictionary
      BY <1>5, <3>1
    <3> HIDE DEF keys
    <3> QED BY <3>2, <3>3, <3>4
  <2>2. CASE r.params # <<>>
    <3>1. LastIn(c, "params") # 0 /\ r.params[1] = keys /\ IsList(keys)
      BY <1>1, <1>2, <1>4, <2>2 DEF KeysIn
    <3> HIDE DEF keys
    <3>2. Target(path, r) = [path |-> IF Last(path) = "/" THEN Front(path) ELSE path,
                             query |-> ParamsOf(keys)]
      BY <2>2, <3>1 DEF Target
    <3>3. q.target.query = ParamsOf(keys)
          /\ q.target.path = IF Last(path) = "/" THEN Front(path) ELSE path
      BY <1>5, <3>2
    <3>4. FirstValues(q.target.query, keys)
      BY <3>1, <3>3, FirstOfParams
    <3> QED BY <1>4, <3>1, <3>3, <3>4, SlashOff
  <2> QED BY <2>1, <2>2
<1>7. q.body.kind = "form" => FirstValues(q.body.pairs, ArgIn(c, "data").keys)
  <2> SUFFICES ASSUME q.body.kind = "form"
               PROVE  FirstValues(q.body.pairs, ArgIn(c, "data").keys)
    OBVIOUS
  <2>1. r.data # <<>> /\ q.body.pairs = ParamsOf(r.data[1].keys)
    BY <1>5 DEF Body, ValueOr, Data
  <2>2. r.data[1] = ArgIn(c, "data") /\ IsList(r.data[1].keys)
    BY <1>1, <1>2, <1>4, <2>1
  <2> QED BY <2>1, <2>2, FirstOfParams
<1> QED BY <1>6, <1>7 DEF Queries, q, path

\* A server reads the credentials as they were given.
LEMMA DecodedAsGiven ==
  ASSUME NEW user, NEW password, IsList(user), IsList(password), ~Contains(user, ":")
  PROVE  Decoded(EncodedStr([user |-> user, password |-> password]))
           = [user |-> user, password |-> password]
<1> DEFINE text == user \o <<":">> \o password
           colon == SelectInSeq(text, LAMBDA c : c = ":")
           T == Range(user) \cup Range(password) \cup {":"}
<1>1. PICK m \in Nat, n \in Nat : m = Len(user) /\ n = Len(password)
  BY DEF IsList
<1>2. user \in Seq(T) /\ password \in Seq(T) /\ <<":">> \in Seq(T)
  <2>1. user \in [1 .. m -> T] /\ password \in [1 .. n -> T]
    BY <1>1 DEF IsList, Range
  <2>2. ":" \in T
    OBVIOUS
  <2> HIDE DEF T
  <2> QED BY <2>1, <2>2, SeqDef
<1> HIDE DEF T
<1>3. /\ text \in Seq(T) /\ Len(text) = m + 1 + n
      /\ \A i \in 1 .. m : text[i] = user[i]
      /\ text[m + 1] = ":"
      /\ \A i \in 1 .. n : text[m + 1 + i] = password[i]
  BY <1>1, <1>2
<1> HIDE DEF text
<1>4. colon = m + 1
  <2> DEFINE I == {i \in 1 .. Len(text) : text[i] = ":"}
  <2>1. m + 1 \in I /\ I \in SUBSET (1 .. m + 1 + n) /\ \A i \in I : m + 1 <= i
    <3>1. \A i \in 1 .. m : text[i] # ":"
      BY <1>1, <1>3 DEF Contains
    <3> QED BY <1>3, <3>1
  <2>2. colon = Min(I)
    BY <2>1 DEF SelectInSeq
  <2> HIDE DEF I, colon
  <2>3. m + 1 + n \in Nat /\ I # {}
    BY <2>1
  <2>4. Min(I) \in I /\ \A y \in I : Min(I) <= y
    BY <2>1, <2>3, Extremes
  <2> DEFINE x == Min(I)
  <2>5. x \in 1 .. m + 1 + n /\ m + 1 <= x /\ x <= m + 1
    BY <2>1, <2>4
  <2> HIDE DEF x
  <2>6. x = m + 1
    BY <2>5
  <2> QED BY <2>2, <2>6 DEF x
<1> HIDE DEF colon
<1>5. SubSeq(text, 1, m) = user
  <2>1. /\ SubSeq(text, 1, m) \in Seq(T) /\ Len(SubSeq(text, 1, m)) = m
        /\ \A i \in 1 .. m : SubSeq(text, 1, m)[i] = text[i]
    BY <1>3
  <2> QED BY <1>1, <1>2, <1>3, <2>1
<1>6. SubSeq(text, m + 2, Len(text)) = password
  <2> DEFINE rest == SubSeq(text, m + 2, Len(text))
  <2>1. /\ rest \in Seq(T) /\ Len(rest) = n
        /\ \A i \in 1 .. n : rest[i] = text[m + 1 + i]
    BY <1>3
  <2> HIDE DEF rest
  <2>2. \A i \in 1 .. n : rest[i] = password[i]
    BY <1>3, <2>1
  <2>3. rest = password
    BY <1>1, <1>2, <2>1, <2>2, SMTT(30)
  <2> QED BY <2>3 DEF rest
<1>7. Decoded(EncodedStr([user |-> user, password |-> password]))
        = [user |-> SubSeq(text, 1, colon - 1), password |-> SubSeq(text, colon + 1, Len(text))]
  <2> DEFINE e == EncodedStr([user |-> user, password |-> password])
  <2>1. e.encoded.base64 = text
    BY DEF EncodedStr, Base64, text
  <2> HIDE DEF e
  <2>2. Decoded(e) = [user |-> SubSeq(text, 1, colon - 1), password |-> SubSeq(text, colon + 1, Len(text))]
    BY <2>1 DEF Decoded, SelectInSeq, colon
  <2> QED BY <2>2 DEF e
<1>8. colon - 1 = m /\ colon + 1 = m + 2
  BY <1>4
<1>9. SubSeq(text, 1, colon - 1) = user /\ SubSeq(text, colon + 1, Len(text)) = password
  BY <1>5, <1>6, <1>8
<1> QED BY <1>7, <1>9

\* What a call hands over has the credentials the call gave.
LEMMA HandedAuthorizes ==
  ASSUME NEW c \in Calls, NEW n, NEW h
  PROVE  Authorizes(Handed(c, n, h), c)
<1> DEFINE r == Parameters(c)
           q == Handed(c, n, h)
<1>1. q.auth = IF r.auth = <<>> THEN <<>> ELSE <<EncodedStr(r.auth[1])>>
  BY DEF Handed
<1>2. "auth" \in ParamKinds
  BY DEF ParamKinds
<1>3. /\ r.auth # <<>> <=> LastIn(c, "auth") # 0
      /\ r.auth # <<>> => r.auth[1] = ArgIn(c, "auth")
  BY <1>2, ParameterAt
<1>4. r.auth # <<>> => /\ r.auth[1] = [user |-> r.auth[1].user, password |-> r.auth[1].password]
                      /\ IsList(r.auth[1].user) /\ IsList(r.auth[1].password)
  BY ParametersTyped
<1> HIDE DEF r, q
<1>5. CASE r.auth = <<>>
  BY <1>1, <1>3, <1>5 DEF Authorizes, q
<1>6. CASE r.auth # <<>>
  <2>1. q.auth # <<>> /\ q.auth[1] = EncodedStr(r.auth[1])
    BY <1>1, <1>6
  <2>2. ~Contains(r.auth[1].user, ":") => Decoded(EncodedStr(r.auth[1])) = r.auth[1]
    BY <1>4, <1>6, DecodedAsGiven
  <2> QED BY <1>3, <1>6, <2>1, <2>2 DEF Authorizes, q
<1> QED BY <1>5, <1>6

\* The three together, of every request: with the types this is inductive, as a request and its call
\* do not change after they were made.
OwnInv ==
  /\ TypeOK
  /\ \A i \in DOMAIN sent :
       LET q == sent[i]
           c == calls[q.call]
       IN  Carries(q, c) /\ Queries(q, c) /\ Authorizes(q, c)

\* There are no requests to begin with, ...
LEMMA OwnInit == Init => OwnInv
<1> SUFFICES ASSUME Init
             PROVE  OwnInv
  OBVIOUS
<1>1. DOMAIN sent = {}
  BY DEF Init
<1> QED BY <1>1, TypeInit DEF OwnInv

\* ... those that there are stay as they are, ...
LEMMA OldRequest ==
  ASSUME OwnInv, NEW c \in Calls, Goes, calls' = Append(calls, c),
         NEW i \in DOMAIN sent, sent'[i] = sent[i]
  PROVE  LET q == sent'[i]
             d == calls'[q.call]
         IN  Carries(q, d) /\ Queries(q, d) /\ Authorizes(q, d)
<1>1. sent[i].call \in DOMAIN calls
  BY DEF OwnInv, TypeOK
<1>2. calls'[sent[i].call] = calls[sent[i].call]
  BY <1>1, OneMoreCall DEF OwnInv
<1> QED BY <1>2 DEF OwnInv

\* ... and a new one has what its call gave.
LEMMA OwnStep == OwnInv /\ [Next]_vars => OwnInv'
<1> SUFFICES ASSUME OwnInv, [Next]_vars
             PROVE  OwnInv'
  OBVIOUS
<1>1. TypeOK /\ TypeOK'
  BY TypeStep DEF OwnInv
<1>2. CASE UNCHANGED vars
  BY <1>1, <1>2 DEF OwnInv, vars
<1>3. ASSUME NEW c \in Calls, OtherCall(c)
      PROVE  OwnInv'
  <2>1. Goes /\ calls' = Append(calls, c) /\ sent' = sent
    BY <1>1, <1>3, OtherStep
  <2> QED BY <1>1, <2>1, OldRequest DEF OwnInv
<1>4. ASSUME NEW c \in Calls, Request(c)
      PROVE  OwnInv'
  <2> DEFINE m == Len(sent) + 1
             h == Prepared(headers, Parameters(c), This)
  <2>1. /\ Goes /\ calls' = Append(calls, c)
        /\ Len(sent) \in Nat /\ DOMAIN sent = 1 .. Len(sent) /\ DOMAIN sent' = 1 .. m
        /\ \A i \in DOMAIN sent : sent'[i] = sent[i]
        /\ sent'[m] = Handed(c, This, h)
    BY <1>1, <1>4, RequestStep
  <2>2. This \in 0 .. MaxCalls /\ calls'[This] = c
    BY <1>1, <2>1, OneMoreCall
  <2>3. headers \in Headers
    BY <1>1 DEF TypeOK
  <2>4. ~Aborts(Parameters(c)) /\ ~UrlThrows(Parameters(c)) /\ ~Throws(Parameters(c))
    BY <1>4 DEF Request
  <2>5. Carries(sent'[m], c)
    BY <2>1, <2>2, <2>3, <2>4, HandedCarries
  <2>6. Queries(sent'[m], c) /\ Authorizes(sent'[m], c)
    BY <2>1, <2>4, HandedQueries, HandedAuthorizes
  <2>7. sent'[m].call = This
    BY <2>1 DEF Handed
  <2>8. ASSUME NEW i \in DOMAIN sent'
        PROVE  LET q == sent'[i]
                   d == calls'[q.call]
               IN  Carries(q, d) /\ Queries(q, d) /\ Authorizes(q, d)
    <3>1. CASE i = m
      BY <2>2, <2>5, <2>6, <2>7, <3>1
    <3>2. CASE i # m
      <4>1. i \in DOMAIN sent
        BY <2>1, <3>2
      <4> QED BY <2>1, <4>1, OldRequest
    <3> QED BY <3>1, <3>2
  <2> QED BY <1>1, <2>8 DEF OwnInv
<1> QED BY <1>2, <1>3, <1>4, StepCases

\* So the properties hold.
LEMMA OwnImplies == OwnInv => CarriesItsOwn /\ QueryIsItsOwn /\ CredentialsArrive
BY OwnOfEach DEF OwnInv

\* A request carries what its own call gave, however often a parameter or a field was given and
\* whatever earlier calls left in headers_ (prepare_request).
THEOREM RequestCarriesItsOwn == Spec => []CarriesItsOwn
BY OwnInit, OwnStep, OwnImplies, PTL DEF Spec

\* Its query and its form have the keys of its last params() and data(), each with its first
\* value, and its path is that of the URL, but for one slash.
THEOREM QueryIsOfItsCall == Spec => []QueryIsItsOwn
BY OwnInit, OwnStep, OwnImplies, PTL DEF Spec

\* A server reads the user and the password the call gave, if the user has no colon.
THEOREM CredentialsAreRead == Spec => []CredentialsArrive
BY OwnInit, OwnStep, OwnImplies, PTL DEF Spec

-----------------------------------------------------------------------------
(* What accumulates in the headers *)

\* What call c, of number k, does to field f, seen from the call alone.
PreparesIn(c) == LastIn(c, "url") # 0 /\ ArgIn(c, "url").status = "parsed"
ResetsIn(f, c) == (PreparesIn(c) /\ f \in Range(KeysIn(c, "headers"))) \/ c.field = f
LeftIn(f, c, k) ==
  CASE c.does = "set" -> <<Value("edit", k)>>
    [] c.does = "erase" -> <<>>
    [] OTHER -> <<Given(k, Max({j \in DOMAIN KeysIn(c, "headers") : KeysIn(c, "headers")[j] = f}))>>

\* The last reset is the largest of the numbers of the calls that reset.
LEMMA LastResetIs ==
  ASSUME NEW f, NEW n \in Nat
  PROVE  /\ LastReset(f, n) \in 0 .. n
         /\ LastReset(f, n) # 0 => Resets(f, LastReset(f, n))
<1> DEFINE S == {k \in 1 .. n : Resets(f, k)}
<1>1. LastReset(f, n) = IF S = {} THEN 0 ELSE Max(S)
  BY DEF LastReset
<1>2. S \in SUBSET (1 .. n)
  OBVIOUS
<1>5. \A k \in S : Resets(f, k)
  OBVIOUS
<1> HIDE DEF S
<1>3. CASE S = {}
  BY <1>1, <1>3
<1>4. CASE S # {}
  <2>1. Max(S) \in S
    BY <1>2, <1>4, Extremes
  <2>2. Max(S) \in 1 .. n /\ LastReset(f, n) = Max(S)
    BY <1>1, <1>2, <1>4, <2>1
  <2>3. Resets(f, Max(S))
    BY <1>5, <2>1
  <2> QED BY <2>2, <2>3
<1> QED BY <1>3, <1>4

\* One that is among them and is the largest there can be is the last.
LEMMA LargestIsLast ==
  ASSUME NEW n \in Nat, NEW S \in SUBSET (1 .. n), n \in S
  PROVE  Max(S) = n
<1> DEFINE x == Max(S)
<1>1. x \in S /\ \A y \in S : y <= x
  BY Extremes
<1> HIDE DEF x
<1>2. x \in 1 .. n /\ n <= x
  BY <1>1
<1>3. x = n
  BY <1>2
<1> QED BY <1>3 DEF x

\* Some values are followed by none, ...
LEMMA FollowedByNone ==
  ASSUME NEW base, IsList(base), NEW source
  PROVE  FollowedBy(base, base, {}, source)
<1>1. PICK n \in Nat : n = Len(base)
  BY DEF IsList
<1>2. Len(base) + 1 .. Len(base) = {}
  BY <1>1
<1>3. IsPrefix(base, base)
  BY <1>1 DEF IsPrefix
<1> QED BY <1>2, <1>3 DEF FollowedBy

\* The front of a list is that of a longer one.
LEMMA FrontOfLonger ==
  ASSUME NEW h, IsList(h), NEW v, NEW b \in 0 .. Len(h)
  PROVE  SubSeq(Append(h, v), 1, b) = SubSeq(h, 1, b)
<1> DEFINE T == Range(h) \cup {v}
<1>1. h \in Seq(Range(h)) /\ \A i \in 1 .. Len(h) : h[i] \in T
  BY DEF IsList
<1>2. h \in [1 .. Len(h) -> T]
  BY <1>1
<1>3. v \in T
  OBVIOUS
<1> HIDE DEF T
<1>4. h \in Seq(T) /\ <<v>> \in Seq(T) /\ Len(h) \in Nat
  BY <1>1, <1>2, <1>3, SeqDef
<1>5. Append(h, v) = h \o <<v>>
  BY <1>3, <1>4, AppendIsConcat
<1>6. CASE b = 0
  BY <1>6, SubSeqEmpty
<1>7. CASE b # 0
  <2>1. 1 \in 1 .. Len(h) /\ b \in 1 .. Len(h)
    BY <1>4, <1>7
  <2> QED BY <1>4, <1>5, <2>1, SubSeqOfConcat1
<1> QED BY <1>6, <1>7

\* ... and with one more value by one more.
LEMMA FollowedByOneMore ==
  ASSUME NEW h, IsList(h), NEW base, IsList(base), NEW callers, NEW source,
         FollowedBy(h, base, callers, source), NEW v, v.from = source, v.call \in Nat,
         \A k \in callers : k \in Nat /\ k < v.call
  PROVE  FollowedBy(Append(h, v), base, callers \cup {v.call}, source)
<1> DEFINE g == Append(h, v)
<1>1. PICK b \in Nat, n \in Nat : b = Len(base) /\ n = Len(h)
  BY DEF IsList
<1>2. /\ Len(g) = n + 1 /\ g[n + 1] = v /\ \A j \in 1 .. n : g[j] = h[j]
  BY <1>1, Appended
<1>3. /\ IsPrefix(base, h) /\ {h[j].call : j \in b + 1 .. n} = callers
      /\ \A j, k \in b + 1 .. n : j < k => h[j].call < h[k].call
      /\ \A j \in b + 1 .. n : h[j].from = source
  BY <1>1 DEF FollowedBy
<1>4. b <= n
  BY <1>1, <1>3 DEF IsPrefix
<1>10. IsPrefix(base, g)
  <2>1. b \in 0 .. n
    BY <1>4
  <2>2. SubSeq(g, 1, b) = SubSeq(h, 1, b)
    BY <1>1, <2>1, FrontOfLonger
  <2> HIDE DEF g
  <2>3. b <= Len(g)
    BY <1>2, <1>4
  <2> QED BY <1>1, <1>3, <2>2, <2>3 DEF IsPrefix
<1> HIDE DEF g
<1>5. /\ \A j \in b + 1 .. n + 1 : j \in b + 1 .. n \/ j = n + 1
      /\ \A j \in b + 1 .. n : j \in 1 .. n /\ j \in b + 1 .. n + 1
      /\ n + 1 \in b + 1 .. n + 1
  BY <1>4
<1>7. \A j \in b + 1 .. n : g[j] = h[j] /\ h[j].call \in callers
  BY <1>2, <1>3, <1>5
<1>6. {g[j].call : j \in b + 1 .. n + 1} = callers \cup {v.call}
  <2>1. \A j \in b + 1 .. n + 1 : g[j].call \in callers \cup {v.call}
    BY <1>2, <1>5, <1>7
  <2>2. \A x \in callers : \E j \in b + 1 .. n + 1 : x = g[j].call
    BY <1>3, <1>5, <1>7
  <2>3. v.call = g[n + 1].call
    BY <1>2
  <2> QED BY <1>5, <2>1, <2>2, <2>3
<1>8. ASSUME NEW j \in b + 1 .. n + 1, NEW k \in b + 1 .. n + 1, j < k
      PROVE  g[j].call < g[k].call
  <2>1. j \in b + 1 .. n
    BY <1>8
  <2>2. CASE k = n + 1
    BY <1>2, <1>7, <2>1, <2>2
  <2>3. CASE k # n + 1
    <3>1. k \in b + 1 .. n
      BY <1>5, <2>3
    <3> QED BY <1>3, <1>7, <1>8, <2>1, <3>1
  <2> QED BY <2>2, <2>3
<1>9. \A j \in b + 1 .. n + 1 : g[j].from = source
  BY <1>2, <1>3, <1>5, <1>7
<1>11. Len(base) + 1 .. Len(g) = b + 1 .. n + 1
  BY <1>1, <1>2
<1>12. FollowedBy(g, base, callers \cup {v.call}, source)
  BY <1>6, <1>8, <1>9, <1>10, <1>11 DEF FollowedBy
<1> QED BY <1>12 DEF g

\* A call was made, and nothing was handed over but by it.
OneMore(c) ==
  /\ Goes /\ calls' = Append(calls, c)
  /\ \A i \in DOMAIN sent : i \in DOMAIN sent' /\ sent'[i] = sent[i]
  /\ \A i \in DOMAIN sent' : i \in DOMAIN sent \/ sent'[i].call = This

\* What Session says of call k, by its number, in terms of the call.
ByNumber(f, k) ==
  LET c == calls[k]
  IN  /\ Resets(f, k) <=> ResetsIn(f, c)
      /\ LeftBy(f, k) = IF k = 0 THEN Default[f] ELSE LeftIn(f, c, k)
      /\ Inserted(f, k) <=>
           /\ PreparesIn(c)
           /\ \/ f = "Host"
              \/ f = "Authorization" /\ LastIn(c, "auth") # 0
              \/ f = "Content-Type"
                   /\ \E i \in DOMAIN sent : sent[i].call = k /\ sent[i].body.kind = "form"

\* It says the same.
LEMMA SaidByNumber == \A f, k : ByNumber(f, k)
<1> SUFFICES ASSUME NEW f, NEW k
             PROVE  ByNumber(f, k)
  OBVIOUS
<1>1. Prepares(k) <=> PreparesIn(calls[k])
  BY DEF Prepares, PreparesIn, LastOf, ArgOf, LastIn, ArgIn
<1>2. Resets(f, k) <=> ResetsIn(f, calls[k])
  BY DEF Resets, ResetsIn, Names, KeysOf, KeysIn, Prepares, PreparesIn, LastOf, ArgOf, LastIn, ArgIn
<1>3. LeftBy(f, k) = IF k = 0 THEN Default[f] ELSE LeftIn(f, calls[k], k)
  BY DEF LeftBy, LeftIn, KeysOf, KeysIn, LastOf, ArgOf, LastIn, ArgIn
<1>4. LastOf("auth", k) = LastIn(calls[k], "auth")
  BY DEF LastOf, LastIn
<1> QED BY <1>1, <1>2, <1>3, <1>4 DEF ByNumber, Inserted

\* And so it does after a step.
LEMMA SaidAfterStep == (\A f, k : ByNumber(f, k))'
BY SaidByNumber, PTL

\* What is said of the calls before it stays as it was.
LEMMA OldCalls ==
  ASSUME TypeOK, NEW c \in Calls, OneMore(c), NEW f
  PROVE  /\ \A k \in 1 .. This - 1 : Inserted(f, k)' <=> Inserted(f, k)
         /\ \A k \in 0 .. This - 1 : LeftBy(f, k)' = LeftBy(f, k)
         /\ \A n \in 0 .. This - 1 : LastReset(f, n)' = LastReset(f, n)
<1>1. /\ This \in Nat /\ \A k \in 1 .. This - 1 : calls'[k] = calls[k]
  BY OneMoreCall DEF OneMore
<1>2. ASSUME NEW k \in 1 .. This - 1
      PROVE  /\ Resets(f, k)' <=> Resets(f, k)
             /\ LeftBy(f, k)' = LeftBy(f, k)
             /\ Inserted(f, k)' <=> Inserted(f, k)
  <2>1. calls'[k] = calls[k]
    BY <1>1
  <2>2. ByNumber(f, k) /\ ByNumber(f, k)'
    BY SaidByNumber, SaidAfterStep
  <2>3. (\E i \in DOMAIN sent' : sent'[i].call = k /\ sent'[i].body.kind = "form")
          <=> \E i \in DOMAIN sent : sent[i].call = k /\ sent[i].body.kind = "form"
    BY <1>1 DEF OneMore
  <2>4. Resets(f, k)' <=> Resets(f, k)
    BY <2>1, <2>2 DEF ByNumber
  <2>5. LeftBy(f, k)' = LeftBy(f, k)
    BY <2>1, <2>2 DEF ByNumber
  <2>6. Inserted(f, k)' <=> Inserted(f, k)
    BY <2>1, <2>2, <2>3 DEF ByNumber
  <2> QED BY <2>4, <2>5, <2>6
<1>4. LeftBy(f, 0)' = LeftBy(f, 0)
  BY DEF LeftBy
<1>5. ASSUME NEW n \in 0 .. This - 1
      PROVE  LastReset(f, n)' = LastReset(f, n)
  <2>1. {k \in 1 .. n : Resets(f, k)'} = {k \in 1 .. n : Resets(f, k)}
    BY <1>1, <1>2
  <2> QED BY <2>1 DEF LastReset
<1>6. \A k \in 0 .. This - 1 : LeftBy(f, k)' = LeftBy(f, k)
  BY <1>1, <1>2, <1>4
<1> QED BY <1>2, <1>5, <1>6

\* What it adds.
LEMMA NewCall ==
  ASSUME TypeOK, NEW c \in Calls, OneMore(c), NEW f, NEW n \in Nat, n = This
  PROVE  /\ LeftBy(f, n)' = LeftIn(f, c, n)
         /\ LastReset(f, n)' = IF ResetsIn(f, c) THEN n ELSE LastReset(f, n - 1)
         /\ Inserted(f, n)' <=>
              /\ PreparesIn(c)
              /\ \/ f = "Host"
                 \/ f = "Authorization" /\ LastIn(c, "auth") # 0
                 \/ f = "Content-Type"
                      /\ \E i \in DOMAIN sent' : sent'[i].call = n /\ sent'[i].body.kind = "form"
<1>1. /\ n \in 1 .. MaxCalls /\ calls'[n] = c
  BY OneMoreCall DEF OneMore
<1>2. ByNumber(f, n)'
  BY SaidAfterStep
<1>3. Resets(f, n)' <=> ResetsIn(f, c)
  BY <1>1, <1>2 DEF ByNumber
<1>4. LeftBy(f, n)' = LeftIn(f, c, n)
  BY <1>1, <1>2 DEF ByNumber
<1>5. LastReset(f, n)' = IF ResetsIn(f, c) THEN n ELSE LastReset(f, n - 1)
  <2> DEFINE S == {k \in 1 .. n : Resets(f, k)'}
  <2>1. LastReset(f, n)' = IF S = {} THEN 0 ELSE Max(S)
    BY DEF LastReset
  <2>2. CASE ResetsIn(f, c)
    <3>1. n \in S /\ S \in SUBSET (1 .. n)
      BY <1>1, <1>3, <2>2
    <3> HIDE DEF S
    <3>2. Max(S) = n
      BY <3>1, LargestIsLast
    <3> QED BY <2>1, <2>2, <3>1, <3>2
  <2>3. CASE ~ResetsIn(f, c)
    <3>1. n - 1 \in 0 .. This - 1
      BY <1>1
    <3>2. LastReset(f, n - 1)' = LastReset(f, n - 1)
      BY <3>1, OldCalls
    <3>3. \A k \in 1 .. n : Resets(f, k)' => k \in 1 .. n - 1
      BY <1>1, <1>3, <2>3
    <3>4. \A k \in 1 .. n - 1 : k \in 1 .. n
      BY <1>1
    <3>5. S = {k \in 1 .. n - 1 : Resets(f, k)'}
      BY <3>3, <3>4
    <3> HIDE DEF S
    <3>6. LastReset(f, n - 1)' = IF S = {} THEN 0 ELSE Max(S)
      BY <3>5 DEF LastReset
    <3> QED BY <2>1, <2>3, <3>2, <3>6
  <2> QED BY <2>2, <2>3
<1>6. Inserted(f, n)' <=>
              /\ PreparesIn(c)
              /\ \/ f = "Host"
                 \/ f = "Authorization" /\ LastIn(c, "auth") # 0
                 \/ f = "Content-Type"
                      /\ \E i \in DOMAIN sent' : sent'[i].call = n /\ sent'[i].body.kind = "form"
  BY <1>1, <1>2 DEF ByNumber
<1> QED BY <1>4, <1>5, <1>6

\* What was said of earlier requests still holds.
LEMMA OldAccumulated ==
  ASSUME TypeOK, NEW c \in Calls, OneMore(c), NEW f, NEW h,
         NEW n \in 0 .. This - 1, NEW m \in 0 .. This - 1, Accumulated(h, f, n, m)
  PROVE  Accumulated(h, f, n, m)'
<1>1. LastReset(f, n)' = LastReset(f, n) /\ This \in Nat /\ n \in Nat
  BY OldCalls, OneMoreCall DEF OneMore
<1>2. PICK last \in 0 .. This - 1 : last = LastReset(f, n)
  BY <1>1, LastResetIs
<1>3. LeftBy(f, last)' = LeftBy(f, last)
  BY OldCalls
<1>4. {k \in 1 .. m : k >= last /\ Inserted(f, k)'} = {k \in 1 .. m : k >= last /\ Inserted(f, k)}
  BY <1>1, OldCalls
<1>5. FollowedBy(h, LeftBy(f, last), {k \in 1 .. m : k >= last /\ Inserted(f, k)}, Source(f))
  BY <1>2 DEF Accumulated
<1>6. LastReset(f, n)' = last
  BY <1>1, <1>2
<1> QED BY <1>3, <1>4, <1>5, <1>6 DEF Accumulated

\* What a call leaves in a field is a list, and so is a default.
LEMMA LeftIsList ==
  ASSUME NEW f \in KnownFields, NEW k
  PROVE  (\A c : IsList(LeftIn(f, c, k))) /\ IsList(Default[f]) /\ IsList(LeftBy(f, k))
<1>1. IsList(<<>>) /\ \A x : IsList(<<x>>)
  <2>1. <<>> \in Seq({}) /\ \A x : <<x>> \in Seq({x})
    OBVIOUS
  <2> QED BY <2>1, SequencesAreLists
<1>2. \A c : IsList(LeftIn(f, c, k))
  BY <1>1 DEF LeftIn
<1>3. IsList(Default[f])
  BY <1>1 DEF Default
<1>4. ByNumber(f, k)
  BY SaidByNumber
<1> QED BY <1>2, <1>3, <1>4 DEF ByNumber

\* After a step it is one too.
LEMMA LeftIsListThen ==
  ASSUME NEW f \in KnownFields, NEW k
  PROVE  IsList(LeftBy(f, k)')
<1>1. ByNumber(f, k)'
  BY SaidAfterStep
<1> QED BY <1>1, LeftIsList DEF ByNumber

\* A call first puts what it gives in the place of a field, if it does.
LEMMA ResetHere ==
  ASSUME TypeOK, NEW c \in Calls, OneMore(c), NEW f \in KnownFields,
         NEW n \in Nat, n = This, NEW h, Accumulated(h, f, n - 1, n - 1),
         NEW g, g = IF ResetsIn(f, c) THEN LeftIn(f, c, n) ELSE h
  PROVE  Accumulated(g, f, n, n - 1)'
<1>1. n \in 1 .. MaxCalls /\ n - 1 \in 0 .. This - 1
  BY OneMoreCall DEF OneMore
<1>2. LeftBy(f, n)' = LeftIn(f, c, n)
  BY NewCall
<1>3. LastReset(f, n)' = IF ResetsIn(f, c) THEN n ELSE LastReset(f, n - 1)
  BY NewCall
<1>4. CASE ResetsIn(f, c)
  <2>1. {k \in 1 .. n - 1 : k >= n /\ Inserted(f, k)'} = {}
    BY <1>1
  <2>2. FollowedBy(g, g, {}, Source(f)) /\ g = LeftBy(f, n)'
    BY <1>2, <1>4, LeftIsList, FollowedByNone
  <2>3. LastReset(f, n)' = n
    BY <1>3, <1>4
  <2> QED BY <2>1, <2>2, <2>3 DEF Accumulated
<1>5. CASE ~ResetsIn(f, c)
  <2>1. LastReset(f, n - 1)' = LastReset(f, n - 1)
    BY <1>1, OldCalls
  <2>2. LastReset(f, n)' = LastReset(f, n - 1)'
    BY <1>3, <1>5, <2>1
  <2>3. Accumulated(h, f, n - 1, n - 1)'
    BY <1>1, OldAccumulated
  <2> QED BY <1>5, <2>2, <2>3 DEF Accumulated
<1> QED BY <1>4, <1>5

\* Then it inserts what it inserts.
LEMMA InsertHere ==
  ASSUME TypeOK, NEW c \in Calls, OneMore(c), NEW f \in KnownFields,
         NEW n \in Nat, n = This, NEW g, IsList(g), Accumulated(g, f, n, n - 1)',
         NEW v, v = Value(Source(f), n)
  PROVE  /\ Inserted(f, n)' => Accumulated(Append(g, v), f, n, n)'
         /\ ~Inserted(f, n)' => Accumulated(g, f, n, n)'
<1>1. n \in 1 .. MaxCalls
  BY OneMoreCall DEF OneMore
<1>2. PICK last \in 0 .. n : last = LastReset(f, n)'
  <2>1. LastReset(f, n)' \in 0 .. n
    <3>1. LastReset(f, n)' = IF ResetsIn(f, c) THEN n ELSE LastReset(f, n - 1)
      BY NewCall
    <3>2. LastReset(f, n - 1) \in 0 .. n - 1
      BY <1>1, LastResetIs
    <3> QED BY <1>1, <3>1, <3>2
  <2> QED BY <2>1
<1> DEFINE before == {k \in 1 .. n - 1 : k >= last /\ Inserted(f, k)'}
           now == {k \in 1 .. n : k >= last /\ Inserted(f, k)'}
<1>3. FollowedBy(g, LeftBy(f, last)', before, Source(f)) /\ IsList(LeftBy(f, last)')
  BY <1>2, LeftIsListThen DEF Accumulated
<1>4. (Inserted(f, n)' => now = before \cup {n}) /\ (~Inserted(f, n)' => now = before)
  BY <1>1
<1>5. \A k \in before : k \in Nat /\ k < n
  BY <1>1
<1>6. \A x : FollowedBy(x, LeftBy(f, last)', now, Source(f)) => Accumulated(x, f, n, n)'
  BY <1>2 DEF Accumulated
<1> HIDE DEF before, now
<1>8. v.from = Source(f) /\ v.call = n
  BY DEF Value
<1>7. FollowedBy(Append(g, v), LeftBy(f, last)', before \cup {n}, Source(f))
  BY <1>3, <1>5, <1>8, FollowedByOneMore
<1> QED BY <1>3, <1>4, <1>6, <1>7

\* A request whose URL is parsed leaves in the headers what it gives and what it inserts.
LEMMA PreparedAccumulates ==
  ASSUME TypeOK, AccumulatedInv, NEW c \in Calls, OneMore(c), c.does = "request",
         ~Aborts(Parameters(c)), ~UrlThrows(Parameters(c)),
         NEW n \in Nat, n = This, NEW f \in KnownFields,
         NEW p, p = Prepared(headers, Parameters(c), n)[f]
  PROVE  /\ f = "Content-Type" => Accumulated(p, f, n, n - 1)'
         /\ f # "Content-Type" => Accumulated(p, f, n, n)'
         /\ IsList(p) /\ PreparesIn(c)
<1> DEFINE r == Parameters(c)
<1>1. PICK h : h = headers[f]
  OBVIOUS
<1>2. PICK g : g = WithGiven(headers, r, n)[f]
  OBVIOUS
<1>3. PreparesIn(c) /\ DOMAIN Fields(r) \subseteq KnownFields
  <2>1. "url" \in ParamKinds
    BY DEF ParamKinds
  <2>2. r.url # <<>> => r.url[1].status \in {"parsed", "failed", "throws"}
    BY ParametersTyped
  <2>3. r.url # <<>> /\ UrlStatus(r) = "parsed" /\ r.url[1].status = "parsed"
    BY <2>2 DEF Aborts, UrlThrows, UrlStatus
  <2>4. LastIn(c, "url") # 0 /\ ArgIn(c, "url") = r.url[1]
    BY <2>1, <2>3, ParameterAt
  <2> QED BY <2>3, <2>4 DEF PreparesIn, Aborts
<1>4. Accumulated(h, f, n - 1, n - 1) /\ IsList(h)
  <2>1. ~aborted /\ Len(calls) = n - 1
    BY OneMoreCall DEF OneMore, Goes, This, TypeOK
  <2>2. h \in Seq(Values)
    BY <1>1 DEF TypeOK, Headers
  <2> QED BY <1>1, <2>1, <2>2, SequencesAreLists DEF AccumulatedInv
<1>5. g = IF ResetsIn(f, c) THEN LeftIn(f, c, n) ELSE h
  <2>1. g = IF f \in DOMAIN Fields(r) THEN <<Given(n, Fields(r)[f])>> ELSE h
    BY <1>1, <1>2 DEF WithGiven
  <2>2. c.field = "" /\ f # ""
    BY CallList DEF KnownFields
  <2>3. DOMAIN Fields(r) = Range(KeysIn(c, "headers"))
    BY FieldsAre
  <2>4. ResetsIn(f, c) <=> f \in DOMAIN Fields(r)
    BY <1>3, <2>2, <2>3 DEF ResetsIn
  <2>5. f \in DOMAIN Fields(r) => LeftIn(f, c, n) = <<Given(n, Fields(r)[f])>>
    <3>1. f \in DOMAIN Fields(r)
            => Fields(r)[f] = Max({j \in DOMAIN KeysIn(c, "headers") : KeysIn(c, "headers")[j] = f})
      BY <2>3, FieldsAre
    <3> QED BY <3>1 DEF LeftIn
  <2> QED BY <2>1, <2>4, <2>5
<1>6. Accumulated(g, f, n, n - 1)' /\ IsList(g)
  <2>1. IsList(LeftIn(f, c, n))
    BY LeftIsList
  <2> QED BY <1>4, <1>5, <2>1, ResetHere
<1>7. /\ p = IF f = "Host" THEN Append(g, Value("url", n))
             ELSE IF f = "Authorization" /\ r.auth # <<>> THEN Append(g, Value("auth", n)) ELSE g
  <2>1. DOMAIN headers = KnownFields
    BY DEF TypeOK, Headers
  <2> DEFINE w == WithGiven(headers, r, n)
             q == Prepared(headers, r, n)
  <2>2. /\ q["Host"] = Append(w["Host"], Value("url", n))
        /\ q["Authorization"] = IF r.auth # <<>> THEN Append(w["Authorization"], Value("auth", n))
                                ELSE w["Authorization"]
        /\ q["Content-Type"] = w["Content-Type"] /\ q["Accept"] = w["Accept"]
    BY <2>1, PreparedFields
  <2>3. p = q[f] /\ g = w[f]
    BY <1>2
  <2> HIDE DEF r, w, q
  <2> QED BY <2>2, <2>3 DEF KnownFields
<1>8. r.auth # <<>> <=> LastIn(c, "auth") # 0
  <2>1. "auth" \in ParamKinds
    BY DEF ParamKinds
  <2> QED BY <2>1, ParameterAt
<1>9. f # "Content-Type" => (Inserted(f, n)' <=> f = "Host" \/ (f = "Authorization" /\ r.auth # <<>>))
  BY <1>3, <1>8, NewCall
<1> HIDE DEF r
<1>11. IsList(p)
  BY <1>6, <1>7, Appended
<1>12. CASE f = "Host"
  <2>1. Accumulated(Append(g, Value("url", n)), f, n, n)'
    BY <1>6, <1>9, <1>12, InsertHere DEF Source
  <2> QED BY <1>3, <1>7, <1>11, <1>12, <2>1
<1>13. CASE f = "Authorization"
  <2>1. IF r.auth # <<>> THEN Accumulated(Append(g, Value("auth", n)), f, n, n)'
        ELSE Accumulated(g, f, n, n)'
    BY <1>6, <1>9, <1>13, InsertHere DEF Source
  <2> QED BY <1>3, <1>7, <1>11, <1>13, <2>1
<1>14. CASE f = "Content-Type"
  BY <1>3, <1>6, <1>7, <1>11, <1>14
<1>15. CASE f = "Accept"
  <2>1. Accumulated(g, f, n, n)'
    BY <1>6, <1>9, <1>15, InsertHere
  <2> QED BY <1>3, <1>7, <1>11, <1>15, <2>1
<1> QED BY <1>12, <1>13, <1>14, <1>15 DEF KnownFields

\* What AccumulatedInv and HeadersAccumulate say of a field.
FieldHolds(f) == Accumulated(headers[f], f, Len(calls), Len(calls))
RequestHolds(i, f) ==
  LET n == sent[i].call
  IN  Accumulated(sent[i].headers[f], f, n, IF f = "Content-Type" THEN n - 1 ELSE n)

HeadersInv == TypeOK /\ AccumulatedInv /\ HeadersAccumulate

\* The requests that were handed over before a call keep what they have.
LEMMA OldRequests ==
  ASSUME HeadersInv, NEW c \in Calls, OneMore(c), NEW i \in DOMAIN sent, NEW f \in KnownFields
  PROVE  RequestHolds(i, f)'
<1>1. TypeOK /\ sent'[i] = sent[i]
  BY DEF HeadersInv, OneMore
<1>2. DOMAIN calls = 1 .. This - 1 /\ sent[i].call \in DOMAIN calls /\ This \in Nat
  BY <1>1, OneMoreCall DEF OneMore, TypeOK
<1>3. PICK n, h : n \in 1 .. This - 1 /\ n = sent[i].call /\ h = sent[i].headers[f]
  BY <1>2
<1>4. PICK m \in 0 .. This - 1 : m = IF f = "Content-Type" THEN n - 1 ELSE n
  BY <1>2, <1>3
<1>5. Accumulated(h, f, n, m)
  BY <1>3, <1>4 DEF HeadersInv, HeadersAccumulate
<1>6. n \in 0 .. This - 1
  BY <1>2, <1>3
<1>7. Accumulated(h, f, n, m)'
  BY <1>1, <1>5, <1>6, OldAccumulated
<1> QED BY <1>1, <1>3, <1>4, <1>7 DEF RequestHolds

\* A call that hands nothing over keeps HeadersInv, if it does so for the headers.
LEMMA NothingHanded ==
  ASSUME HeadersInv, NEW c \in Calls, OneMore(c), TypeOK', sent' = sent,
         ~aborted' => \A f \in KnownFields : FieldHolds(f)'
  PROVE  HeadersInv'
<1>1. AccumulatedInv'
  BY DEF AccumulatedInv, FieldHolds
<1>2. \A i \in DOMAIN sent', f \in KnownFields : RequestHolds(i, f)'
  BY OldRequests
<1>3. HeadersAccumulate'
  BY <1>2 DEF HeadersAccumulate, RequestHolds
<1> QED BY <1>1, <1>3 DEF HeadersInv

\* Initially every field has its default.
LEMMA HeadersInit == Init => HeadersInv
<1> SUFFICES ASSUME Init
             PROVE  HeadersInv
  OBVIOUS
<1>1. headers = Default /\ sent = <<>> /\ calls = <<>> /\ Len(calls) = 0
  BY DEF Init
<1>2. HeadersAccumulate
  <2>1. DOMAIN sent = {}
    BY <1>1
  <2> QED BY <2>1 DEF HeadersAccumulate
<1>3. ASSUME NEW f \in KnownFields
      PROVE  Accumulated(Default[f], f, 0, 0)
  <2>1. 1 .. 0 = {}
    OBVIOUS
  <2>2. LastReset(f, 0) = 0
    BY <2>1 DEF LastReset
  <2>3. LeftBy(f, 0) = Default[f]
    BY DEF LeftBy
  <2>4. FollowedBy(Default[f], Default[f], {}, Source(f))
    BY LeftIsList, FollowedByNone
  <2>5. {k \in 1 .. 0 : k >= 0 /\ Inserted(f, k)} = {}
    BY <2>1
  <2> QED BY <2>2, <2>3, <2>4, <2>5 DEF Accumulated
<1>4. AccumulatedInv
  BY <1>1, <1>3 DEF AccumulatedInv
<1> QED BY <1>2, <1>4, TypeInit DEF HeadersInv

\* A call that neither puts anything in a field nor inserts anything, or only the former.
LEMMA NotPrepared ==
  ASSUME TypeOK, AccumulatedInv, NEW c \in Calls, OneMore(c), ~PreparesIn(c), NEW f \in KnownFields,
         headers'[f] = IF c.field = f THEN LeftIn(f, c, This) ELSE headers[f]
  PROVE  FieldHolds(f)'
<1>1. /\ This \in Nat /\ Len(calls) = This - 1 /\ Len(calls') = This
  BY OneMoreCall DEF OneMore, This, TypeOK
<1>2. PICK n, h : n \in Nat /\ n = This /\ h = headers[f]
  BY <1>1
<1>3. PICK g : g = headers'[f]
  OBVIOUS
<1>4. Accumulated(h, f, n - 1, n - 1)
  BY <1>1, <1>2 DEF AccumulatedInv, OneMore, Goes
<1>5. g = IF ResetsIn(f, c) THEN LeftIn(f, c, n) ELSE h
  BY <1>2, <1>3 DEF ResetsIn
<1>6. Accumulated(g, f, n, n - 1)'
  BY <1>2, <1>4, <1>5, ResetHere
<1>7. IsList(g)
  <2>1. headers[f] \in Seq(Values)
    BY DEF TypeOK, Headers
  <2>2. IsList(LeftIn(f, c, n)) /\ IsList(h)
    BY <1>2, <2>1, LeftIsList, SequencesAreLists
  <2> QED BY <1>5, <2>2
<1>8. ~Inserted(f, n)'
  BY <1>2, NewCall
<1>10. Accumulated(g, f, n, n)'
  BY <1>2, <1>6, <1>7, <1>8, InsertHere
<1> QED BY <1>1, <1>2, <1>3, <1>10 DEF FieldHolds

\* The calls that hand nothing over keep HeadersInv.
LEMMA OtherKeepsHeaders ==
  ASSUME HeadersInv, NEW c \in Calls, OtherCall(c)
  PROVE  HeadersInv'
<1>1. TypeOK /\ AccumulatedInv /\ TypeOK'
  BY OtherStep, NothingSent DEF HeadersInv
<1>2. Goes /\ calls' = Append(calls, c) /\ sent' = sent
  BY <1>1, OtherStep
<1>3. OneMore(c)
  BY <1>2 DEF OneMore
<1>4. PICK n \in Nat : n = This
  BY <1>1 DEF TypeOK, This
<1>5. \A i \in DOMAIN sent' : sent'[i].call # n
  BY <1>1, <1>2, <1>4, OneMoreCall DEF TypeOK
<1>6. CASE RequestRefused(c)
  <2>1. ~PreparesIn(c)
    <3>1. "url" \in ParamKinds /\ UrlStatus(Parameters(c)) = "throws"
      BY <1>6 DEF ParamKinds, RequestRefused, UrlThrows
    <3>2. LastIn(c, "url") # 0 /\ ArgIn(c, "url").status = "throws"
      BY <3>1, ParameterAt DEF UrlStatus
    <3> QED BY <3>2 DEF PreparesIn
  <2>2. headers' = headers /\ c.does = "request"
    BY <1>6 DEF RequestRefused
  <2>3. \A f \in KnownFields : c.field # f
    BY <2>2, CallList DEF KnownFields
  <2>4. \A f \in KnownFields : FieldHolds(f)'
    BY <1>1, <1>3, <2>1, <2>2, <2>3, NotPrepared
  <2> QED BY <1>1, <1>2, <1>3, <2>4, NothingHanded
<1>7. CASE RequestThrows(c)
  <2>1. /\ headers' = Prepared(headers, Parameters(c), n) /\ c.does = "request"
        /\ ~Aborts(Parameters(c)) /\ ~UrlThrows(Parameters(c))
    BY <1>4, <1>7 DEF RequestThrows, Throws
  <2>2. ASSUME NEW f \in KnownFields
        PROVE  FieldHolds(f)'
    <3>1. PICK p : p = Prepared(headers, Parameters(c), n)[f]
      OBVIOUS
    <3>2. /\ f = "Content-Type" => Accumulated(p, f, n, n - 1)'
          /\ f # "Content-Type" => Accumulated(p, f, n, n)'
          /\ IsList(p)
      BY <1>1, <1>3, <1>4, <2>1, <3>1, PreparedAccumulates
    <3>3. f = "Content-Type" => ~Inserted(f, n)'
      BY <1>1, <1>3, <1>4, <1>5, NewCall
    <3>5. Accumulated(p, f, n, n)'
      BY <1>1, <1>3, <1>4, <3>2, <3>3, InsertHere
    <3>6. Len(calls') = n /\ headers'[f] = p
      BY <1>1, <1>3, <1>4, <2>1, <3>1, OneMoreCall DEF OneMore
    <3> QED BY <3>5, <3>6 DEF FieldHolds
  <2> QED BY <1>1, <1>2, <1>3, <2>2, NothingHanded
<1>8. CASE RequestAborts(c)
  <2>1. aborted'
    BY <1>8 DEF RequestAborts
  <2> QED BY <1>1, <1>2, <1>3, <2>1, NothingHanded
<1>9. CASE EditHeaders(c)
  <2>1. ~PreparesIn(c)
    <3>1. "url" \in ParamKinds /\ c.params = <<>> /\ c.does # "request"
      BY <1>9, CallList DEF ParamKinds, EditHeaders
    <3>2. Len(c.params) = 0
      BY <3>1
    <3>3. LastIn(c, "url") \in 0 .. Len(c.params)
      BY <3>1, ParameterOf
    <3> QED BY <3>2, <3>3 DEF PreparesIn
  <2>2. /\ c.does \in {"set", "erase"}
        /\ headers' = [headers EXCEPT ![c.field] =
                         IF c.does = "set" THEN <<Value("edit", This)>> ELSE <<>>]
    BY <1>9 DEF EditHeaders
  <2>3. \A f \in KnownFields :
          headers'[f] = IF c.field = f THEN LeftIn(f, c, This) ELSE headers[f]
    BY <1>1, <2>2 DEF LeftIn, TypeOK, Headers
  <2>4. \A f \in KnownFields : FieldHolds(f)'
    BY <1>1, <1>3, <2>1, <2>3, NotPrepared
  <2> QED BY <1>1, <1>2, <1>3, <2>4, NothingHanded
<1> QED BY <1>6, <1>7, <1>8, <1>9 DEF OtherCall

\* So does one that hands a request over.
LEMMA RequestKeepsHeaders ==
  ASSUME HeadersInv, NEW c \in Calls, Request(c)
  PROVE  HeadersInv'
<1> DEFINE r == Parameters(c)
<1>1. TypeOK /\ AccumulatedInv /\ TypeOK'
  BY RequestTypes DEF HeadersInv
<1>2. PICK n \in Nat : n = This
  BY <1>1 DEF TypeOK, This
<1>20. PICK m : m = Len(sent) + 1
  OBVIOUS
<1>3. PICK q : q = Prepared(headers, r, n)
  OBVIOUS
<1>4. /\ Goes /\ calls' = Append(calls, c) /\ c.does = "request"
      /\ q \in Headers /\ headers' = AfterPost(q, r, n)
      /\ Len(sent) \in Nat /\ DOMAIN sent = 1 .. Len(sent) /\ DOMAIN sent' = 1 .. m
      /\ \A i \in DOMAIN sent : sent'[i] = sent[i]
      /\ sent'[m] = Handed(c, n, q)
  BY <1>20, <1>1, <1>2, <1>3, RequestStep
<1>5. sent'[m].call = n /\ sent'[m].headers = q /\ sent'[m].body = Body(r)
  BY <1>4 DEF Handed
<1>6. /\ \A i \in DOMAIN sent : i \in DOMAIN sent' /\ sent'[i] = sent[i]
      /\ \A i \in DOMAIN sent' : i \in DOMAIN sent \/ i = m
      /\ m \in DOMAIN sent'
  BY <1>20, <1>4
<1>7. OneMore(c)
  BY <1>2, <1>4, <1>5, <1>6 DEF OneMore
<1>8. \A i \in DOMAIN sent : sent'[i].call # n
  BY <1>1, <1>2, <1>4, OneMoreCall DEF TypeOK
<1>9. (\E i \in DOMAIN sent' : sent'[i].call = n /\ sent'[i].body.kind = "form")
        <=> Body(r).kind = "form"
  BY <1>5, <1>6, <1>8
<1>10. ~Aborts(r) /\ ~UrlThrows(r)
  BY DEF Request
<1>11. Len(calls') = n
  BY <1>1, <1>2, <1>7, OneMoreCall DEF OneMore
<1>12. ASSUME NEW f \in KnownFields
       PROVE  FieldHolds(f)' /\ RequestHolds(m, f)'
  <2>1. PICK p : p = q[f]
    OBVIOUS
  <2>2. p = Prepared(headers, r, n)[f]
    BY <1>3, <2>1
  <2>3. /\ f = "Content-Type" => Accumulated(p, f, n, n - 1)'
        /\ f # "Content-Type" => Accumulated(p, f, n, n)'
        /\ IsList(p) /\ PreparesIn(c)
    BY <1>1, <1>2, <1>4, <1>7, <1>10, <2>2, PreparedAccumulates
  <2>4. RequestHolds(m, f)'
    BY <1>5, <2>1, <2>3 DEF RequestHolds
  <2>5. CASE f = "Content-Type"
    <3>1. Inserted(f, n)' <=> Body(r).kind = "form"
      BY <1>1, <1>2, <1>7, <1>9, <2>3, <2>5, NewCall
    <3>2. headers'[f] = IF Body(r).kind = "form" THEN Append(p, Value("form", n)) ELSE p
      BY <1>4, <2>1, <2>5 DEF AfterPost, Insert, Headers
    <3>3. Source(f) = "form"
      BY <2>5 DEF Source
    <3> HIDE DEF r
    <3>4. PICK x : x = headers'[f]
      OBVIOUS
    <3>5. Accumulated(x, f, n, n)'
      BY <1>1, <1>2, <1>7, <2>3, <2>5, <3>1, <3>2, <3>3, <3>4, InsertHere
    <3> QED BY <1>11, <2>4, <3>4, <3>5 DEF FieldHolds
  <2>6. CASE f # "Content-Type"
    <3>1. headers'[f] = p
      BY <1>4, <2>1, <2>6 DEF AfterPost, Insert, Headers
    <3> QED BY <1>11, <2>3, <2>4, <2>6, <3>1 DEF FieldHolds
  <2> QED BY <2>5, <2>6
<1>13. AccumulatedInv'
  BY <1>12 DEF AccumulatedInv, FieldHolds
<1>14. \A i \in DOMAIN sent', f \in KnownFields : RequestHolds(i, f)'
  BY <1>6, <1>7, <1>12, OldRequests
<1>15. HeadersAccumulate'
  BY <1>14 DEF HeadersAccumulate, RequestHolds
<1> QED BY <1>1, <1>13, <1>15 DEF HeadersInv

\* Every step keeps HeadersInv.
LEMMA HeadersStep == HeadersInv /\ [Next]_vars => HeadersInv'
<1> SUFFICES ASSUME HeadersInv, [Next]_vars
             PROVE  HeadersInv'
  OBVIOUS
<1>1. CASE UNCHANGED vars
  <2>1. TypeOK'
    BY <1>1 DEF HeadersInv, vars, TypeOK
  <2>2. ASSUME NEW f, NEW k
        PROVE  /\ Resets(f, k)' <=> Resets(f, k)
               /\ LeftBy(f, k)' = LeftBy(f, k)
               /\ Inserted(f, k)' <=> Inserted(f, k)
    <3>1. ByNumber(f, k) /\ ByNumber(f, k)'
      BY SaidByNumber, SaidAfterStep
    <3> QED BY <1>1, <3>1 DEF ByNumber, vars
  <2>3. \A f, n : LastReset(f, n)' = LastReset(f, n)
    BY <2>2 DEF LastReset
  <2>4. \A h, f, n, m : Accumulated(h, f, n, m)' <=> Accumulated(h, f, n, m)
    <3> SUFFICES ASSUME NEW h, NEW f, NEW n, NEW m
                 PROVE  Accumulated(h, f, n, m)' <=> Accumulated(h, f, n, m)
      OBVIOUS
    <3>1. PICK last : last = LastReset(f, n)
      OBVIOUS
    <3>2. last = LastReset(f, n)' /\ LeftBy(f, last)' = LeftBy(f, last)
      BY <2>2, <2>3, <3>1
    <3>3. {k \in 1 .. m : k >= last /\ Inserted(f, k)'} = {k \in 1 .. m : k >= last /\ Inserted(f, k)}
      BY <2>2
    <3> QED BY <3>1, <3>2, <3>3 DEF Accumulated
  <2>5. AccumulatedInv' /\ HeadersAccumulate'
    BY <1>1, <2>4 DEF HeadersInv, vars, AccumulatedInv, HeadersAccumulate
  <2> QED BY <2>1, <2>5 DEF HeadersInv
<1> QED BY <1>1, OtherKeepsHeaders, RequestKeepsHeaders, StepCases

\* So both hold.
LEMMA HeadersImply == HeadersInv => AccumulatedInv /\ HeadersAccumulate
BY DEF HeadersInv

\* headers_ of a session is, field by field, what the last call that put something in the field's
\* place left there, and one value for every later call that inserted one (prepare_request).
THEOREM SessionAccumulates == Spec => []AccumulatedInv
BY HeadersInit, HeadersStep, HeadersImply, PTL DEF Spec

\* And that is what a request carries: hosts, credentials and content types of earlier calls, the
\* failed ones included, unless a dictionary or an edit replaced them.
THEOREM HeadersAreAccumulated == Spec => []HeadersAccumulate
BY HeadersInit, HeadersStep, HeadersImply, PTL DEF Spec

=============================================================================
