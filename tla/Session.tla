-------------------------------- MODULE Session --------------------------------
(***************************************************************************)
(* session: the header fields it keeps from one request to the next, and   *)
(* the requests it prepares.                                               *)
(*                                                                         *)
(* headers_ is a multimap: a field has a sequence of values, `insert' adds *)
(* one and `set' replaces them all.  A value is named by where it comes    *)
(* from and by the number of the call that brought it.                     *)
(***************************************************************************)
EXTENDS Parameters

CONSTANTS
  Calls,        \* what the caller does: calls of request, edits of headers()
  MaxCalls      \* bound: how many

ASSUME SessionAssumption == MaxCalls \in Nat /\ \A c \in Calls : IsCall(c)

VARIABLES
  headers,        \* headers_
  sent,           \* the requests handed to the transport
  calls,          \* history: what the caller did
  aborted         \* an assertion has ended the process

vars == <<headers, sent, calls, aborted>>

\* A value: where it comes from, the call, and its place in a dictionary of that call.
Value(from, n) == [from |-> from, call |-> n, at |-> 0]
Given(n, i) == [from |-> "given", call |-> n, at |-> i]

\* One of the four default fields stands for all.
Default == [f \in KnownFields |-> IF f = "Accept" THEN <<Value("default", 0)>> ELSE <<>>]

\* basic_fields::insert.
Insert(h, f, v) == [h EXCEPT ![f] = Append(@, v)]

\* session() and fill_default_headers.
Init ==
  /\ headers = Default
  /\ sent = <<>> /\ calls = <<>>
  /\ aborted = FALSE

-----------------------------------------------------------------------------
(* prepare_request *)

\* The dictionary of a request: *p.req_headers, if there is one.
Fields(r) == IF r.headers = <<>> THEN EmptyDictionary ELSE HeadersOf(r.headers[1])

\* for (auto& f : *p.req_headers) headers_.set(f.name(), f.value())
WithGiven(h, r, n) ==
  [f \in KnownFields |-> IF f \in DOMAIN Fields(r) THEN <<Given(n, Fields(r)[f])>> ELSE h[f]]

HostReplaced(h, n) ==        \* (mutant) set for insert
  [h EXCEPT !["Host"] = <<Value("url", n)>>]

WithHost(h, n) == Insert(h, "Host", Value("url", n))

AuthOnce(h, r, n) ==         \* (mutant) only if there is none yet
  IF r.auth # <<>> /\ h["Authorization"] = <<>>
  THEN Insert(h, "Authorization", Value("auth", n)) ELSE h

WithAuth(h, r, n) ==
  IF r.auth # <<>> THEN Insert(h, "Authorization", Value("auth", n)) ELSE h

\* headers_ when it is copied to the request.
Prepared(h, r, n) == WithAuth(WithHost(WithGiven(h, r, n), n), r, n)

\* The target: with params(), even empty ones, a slash is taken off the end of the path.
Target(path, r) ==
  IF r.params = <<>> THEN [path |-> path, query |-> EmptyDictionary]
  ELSE [path |-> IF Last(path) = "/" THEN Front(path) ELSE path,
        query |-> ParamsOf(r.params[1])]

\* prepare_post_data: the data goes into the body of a POST and of nothing else.
Body(r) ==
  LET d == IF r.method = <<"POST">> THEN ValueOr(r.data, Data("none", <<>>)) ELSE Data("none", <<>>)
  IN  [kind |-> d.kind, pairs |-> ParamsOf(d.keys)]

\* It inserts the content type of a form in headers_, which has been copied already.
AfterPost(h, r, n) ==
  IF Body(r).kind = "form" THEN Insert(h, "Content-Type", Value("form", n)) ELSE h

\* What comes of the URL; without one, get() of the optional is an assertion.
UrlStatus(r) == IF r.url = <<>> THEN "failed" ELSE r.url[1].status

\* What ends in an assertion: no URL or one that does not parse, no method, and a field
\* without an enumerator, in basic_fields::set.
Aborts(r) ==
  \/ UrlStatus(r) = "failed"
  \/ UrlStatus(r) = "parsed" /\ (r.method = <<>> \/ ~(DOMAIN Fields(r) \subseteq KnownFields))

\* The expectation of the grammar throws, before anything has changed.
UrlThrows(r) == UrlStatus(r) = "throws"

\* A method string_to_verb does not know, upper case as they are, is refused by the
\* request with an exception.
Throws(r) == ~UrlThrows(r) /\ r.method = <<"unknown">>

\* The parameters of call c, and its number when it is made.
Parameters(c) == RequestParameters(c.params)
This == Len(calls) + 1

\* The process is there, and there may be one more call.
Goes == ~aborted /\ Len(calls) < MaxCalls

\* request().  What the transport then does, or throws, is nothing to the session.
Request(c) ==
  LET r == Parameters(c)
      h == Prepared(headers, r, This)
  IN  /\ Goes /\ c.does = "request"
      /\ ~Aborts(r) /\ ~UrlThrows(r) /\ ~Throws(r)
      /\ headers' = AfterPost(h, r, This)
      /\ sent' = Append(sent, [call |-> This, method |-> r.method[1],
                               target |-> Target(r.url[1].path, r), headers |-> h, body |-> Body(r),
                               auth |-> IF r.auth = <<>> THEN <<>> ELSE <<EncodedStr(r.auth[1])>>])
      /\ calls' = Append(calls, c)
      /\ UNCHANGED aborted

RequestThrowsEarly(c) ==     \* (mutant) the method is looked at first
  /\ Goes /\ c.does = "request" /\ ~Aborts(Parameters(c)) /\ Throws(Parameters(c))
  /\ calls' = Append(calls, c)
  /\ UNCHANGED <<headers, sent, aborted>>

RequestRefused(c) ==
  /\ Goes /\ c.does = "request" /\ UrlThrows(Parameters(c))
  /\ calls' = Append(calls, c)
  /\ UNCHANGED <<headers, sent, aborted>>

\* The exception leaves headers_ as they have become.
RequestThrows(c) ==
  /\ Goes /\ c.does = "request" /\ ~Aborts(Parameters(c)) /\ Throws(Parameters(c))
  /\ headers' = Prepared(headers, Parameters(c), This)
  /\ calls' = Append(calls, c)
  /\ UNCHANGED <<sent, aborted>>

RequestDropped(c) ==         \* (mutant) the assertion is compiled to a return
  /\ Goes /\ c.does = "request" /\ Aborts(Parameters(c))
  /\ sent' = Append(sent, [call |-> This, method |-> "", target |-> <<>>, headers |-> headers,
                           body |-> <<>>, auth |-> <<>>])
  /\ calls' = Append(calls, c)
  /\ UNCHANGED <<headers, aborted>>

RequestAborts(c) ==
  /\ Goes /\ c.does = "request" /\ Aborts(Parameters(c))
  /\ aborted' = TRUE
  /\ calls' = Append(calls, c)
  /\ UNCHANGED <<headers, sent>>

\* The caller sets or erases a field through headers().
EditHeaders(c) ==
  /\ Goes /\ c.does \in {"set", "erase"}
  /\ headers' = [headers EXCEPT ![c.field] = IF c.does = "set" THEN <<Value("edit", This)>> ELSE <<>>]
  /\ calls' = Append(calls, c)
  /\ UNCHANGED <<sent, aborted>>

Next ==
  \E c \in Calls :
    Request(c) \/ RequestRefused(c) \/ RequestThrows(c) \/ RequestAborts(c) \/ EditHeaders(c)

Spec == Init /\ [][Next]_vars

-----------------------------------------------------------------------------
(* Properties *)

Values ==
  [from : {"default", "given", "url", "auth", "form", "edit"}, call : 0 .. MaxCalls, at : Nat]
Headers == [KnownFields -> Seq(Values)]

\* The types of the variables; a call hands over at most one request, in the order of the
\* calls, and a process that was aborted makes no more.
TypeOK ==
  /\ headers \in Headers /\ IsList(sent)
  /\ \A i \in DOMAIN sent :
       /\ sent[i].headers \in Headers /\ sent[i].method \in {"GET", "POST"}
       /\ sent[i].body.kind \in {"none", "form", "text"}
       /\ sent[i].call \in DOMAIN calls
       /\ \A j \in 1 .. i - 1 : sent[j].call < sent[i].call
  /\ calls \in Seq(Calls) /\ aborted \in BOOLEAN

\* The place of the last parameter of a kind in call n, 0 if it has none.
LastOf(kind, n) == SelectLastInSeq(calls[n].params, LAMBDA p : p.kind = kind)
\* Its argument.
ArgOf(kind, n) == calls[n].params[LastOf(kind, n)].arg
\* Its list of keys, or nothing.
KeysOf(kind, n) == IF LastOf(kind, n) = 0 THEN <<>> ELSE ArgOf(kind, n)
Names(kind, n) == Range(KeysOf(kind, n))

\* Whatever earlier calls left in headers_, and however often a parameter or a field was
\* given, a request carries what its own call gave: of its last headers(), the last value
\* of every field, and one value for a field nothing else is inserted in; the host of its
\* URL last among the Host fields, its credentials last among the Authorization fields;
\* the last data if it is a POST by its last method.
CarriesItsOwn ==
  \A i \in DOMAIN sent :
    LET n == sent[i].call
        h == sent[i].headers
        keys == KeysOf("headers", n)
    IN  /\ Last(h["Host"]) = Value("url", n)
        /\ LastOf("auth", n) # 0
             => h["Authorization"] # <<>> /\ Last(h["Authorization"]) = Value("auth", n)
        /\ \A k \in DOMAIN keys :
             (\A j \in k + 1 .. Len(keys) : keys[j] # keys[k]) => h[keys[k]][1] = Given(n, k)
        /\ \A f \in Names("headers", n) \ {"Host", "Authorization"} : Len(h[f]) = 1
        /\ sent[i].method = ArgOf("method", n)
        /\ sent[i].body.kind = IF sent[i].method = "POST" /\ LastOf("data", n) # 0
                               THEN ArgOf("data", n).kind ELSE "none"

\* Dictionary d has every key of the list once, with its first value, and nothing else; a
\* key comes with what follows it in memory, by which two keys can become one.
FirstValues(d, keys) ==
  LET k(i) == keys[i].text \o keys[i].rest
  IN  /\ DOMAIN d = {k(i) : i \in DOMAIN keys}
      /\ \A x \in DOMAIN d : k(d[x]) = x /\ \A i \in 1 .. d[x] - 1 : k(i) # x

\* The query of a request has the keys of its last params(), a form those of its last
\* data(), each with its first value and nothing else; the path is that of the URL, but
\* for one slash at its end.
QueryIsItsOwn ==
  \A i \in DOMAIN sent :
    LET t == sent[i].target
        n == sent[i].call
        path == ArgOf("url", n).path
    IN  /\ FirstValues(t.query, KeysOf("params", n))
        /\ sent[i].body.kind = "form" => FirstValues(sent[i].body.pairs, ArgOf("data", n).keys)
        /\ path \in {t.path, Append(t.path, "/")}
        /\ path # t.path => LastOf("params", n) # 0

\* What a server makes of the credentials: the text up to the first colon and the rest.
Decoded(e) ==
  LET text == e.encoded.base64
      colon == SelectInSeq(text, LAMBDA c : c = ":")
  IN  [user |-> SubSeq(text, 1, colon - 1), password |-> SubSeq(text, colon + 1, Len(text))]

\* The server of a request reads the user and the password its call gave, if the user has
\* no colon: never a part of one in the other, also when one of them is empty.
CredentialsArrive ==
  \A i \in DOMAIN sent :
    /\ (sent[i].auth # <<>>) <=> (LastOf("auth", sent[i].call) # 0)
    /\ sent[i].auth # <<>> =>
         LET given == ArgOf("auth", sent[i].call)
         IN  ~Contains(given.user, ":") => Decoded(sent[i].auth[1]) = given

\* Call k came as far as the headers: its URL was parsed.
Prepares(k) == LastOf("url", k) # 0 /\ ArgOf("url", k).status = "parsed"

\* It put something in the place of field f: a dictionary that names it, or an edit of it.
Resets(f, k) == (Prepares(k) /\ f \in Names("headers", k)) \/ calls[k].field = f

\* The last of the calls up to n that did; 0 for none.
LastReset(f, n) ==
  LET resets == {k \in 1 .. n : Resets(f, k)}
  IN  IF resets = {} THEN 0 ELSE Max(resets)

\* What it left: the default, a value of its own, or nothing.
LeftBy(f, k) ==
  IF k = 0 THEN Default[f]
  ELSE CASE calls[k].does = "set" -> <<Value("edit", k)>>
         [] calls[k].does = "erase" -> <<>>
         [] OTHER -> <<Given(k, Max({j \in DOMAIN KeysOf("headers", k) : KeysOf("headers", k)[j] = f}))>>

\* Call k inserted a value in field f, also if it failed after that.
Inserted(f, k) ==
  /\ Prepares(k)
  /\ \/ f = "Host"
     \/ f = "Authorization" /\ LastOf("auth", k) # 0
     \/ f = "Content-Type" /\ \E i \in DOMAIN sent : sent[i].call = k /\ sent[i].body.kind = "form"

\* Where a value inserted in field f comes from.
Source(f) == CASE f = "Host" -> "url" [] f = "Authorization" -> "auth" [] OTHER -> "form"

\* The values h are `base' and after it one value for each of some calls, in their order.
FollowedBy(h, base, callers, source) ==
  LET added == Len(base) + 1 .. Len(h)
  IN  /\ IsPrefix(base, h)
      /\ {h[j].call : j \in added} = callers
      /\ \A j, k \in added : j < k => h[j].call < h[k].call
      /\ \A j \in added : h[j].from = source

\* h is what field f has come to: what the last call up to n that reset it put there, or the
\* default, and after it one value for every call from there up to call m that inserted one.
Accumulated(h, f, n, m) ==
  LET last == LastReset(f, n)
  IN  FollowedBy(h, LeftBy(f, last), {k \in 1 .. m : k >= last /\ Inserted(f, k)}, Source(f))

\* What a request carries is exactly what has come together in the session: hosts, credentials and
\* content types of earlier calls, the failed ones included, are all still there, unless a
\* dictionary or an edit put something in their place.
HeadersAccumulate ==
  \A i \in DOMAIN sent, f \in KnownFields :
    LET n == sent[i].call
    IN  Accumulated(sent[i].headers[f], f, n, IF f = "Content-Type" THEN n - 1 ELSE n)

\* And so it is with the headers of the session itself, as long as the process is there: with this
\* and the types it is inductive.
AccumulatedInv ==
  ~aborted => \A f \in KnownFields : Accumulated(headers[f], f, Len(calls), Len(calls))

-----------------------------------------------------------------------------
(* What the comments of the code say *)

\* "Insert the content type header" (session.ipp): a POST of form data has one.
FormHasContentType ==
  \A i \in DOMAIN sent : sent[i].body.kind = "form" => sent[i].headers["Content-Type"] # <<>>

\* "The dictionary/map of HTTP headers to be sent" (parameters.hpp): a request that has a URL
\* and a method goes out with its dictionary, whatever fields that names.
GivenHeadersAreSent ==
  aborted => LET r == RequestParameters(Last(calls).params)
             IN  r.method = <<>> \/ r.url = <<>> \/ r.url[1].status # "parsed"

=============================================================================
