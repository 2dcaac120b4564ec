--------------------------------- MODULE Client ---------------------------------
(***************************************************************************)
(* A program that uses the library: sessions one after the other, each     *)
(* with its transport, made by the caller for several calls or by the free *)
(* functions get and post for one, and the results that outlive them.      *)
(* Sessions share nothing, so that one at a time is enough.                *)
(*                                                                         *)
(* The session is Session, its transport AsioTransport; request i of the   *)
(* one, `sent[i]', is call i of the other, `calls[i]'.                     *)
(***************************************************************************)
EXTENDS Parameters, SecureSetup

CONSTANTS
  Hosts, TlsHosts, Replies,   \* as in AsioTransport
  Calls,        \* as in Session
  Signer,       \* the authority that signed the certificate of each TLS host
  CertHosts,    \* the TLS hosts that ask for a certificate of the client
  MaxCalls,     \* bound: calls in a session
  MaxOpens,     \* bound: calls of chunk_response() in a session
  MaxSessions   \* bound: sessions

VARIABLES
  headers, sent, asked, aborted,                       \* Session
  is_connected, peer, ssl, pc, cur, conn, c2s, s2c, calls,   \* AsioTransport
  owner,        \* who made the session there is: "nobody", "caller" or "function"
  sessions,     \* how many there have been
  held,         \* the results of sessions that are gone: their calls, and has_chunked_response_
  undefined     \* a transport that is gone was used

S == INSTANCE Session WITH calls <- asked
T == INSTANCE AsioTransport

ASSUME ClientAssumption ==
  /\ TlsHosts \subseteq Hosts /\ T!NoHost \notin Hosts
  /\ Replies \subseteq {"normal", "interim", "big"}
  /\ MaxCalls \in Nat /\ MaxOpens \in Nat /\ MaxSessions \in Nat
  /\ \A c \in Calls : IsCall(c)

sessionVars == <<headers, sent, asked, aborted>>
transportVars == <<is_connected, peer, ssl, pc, cur, conn, c2s, s2c, calls>>
clientVars == <<owner, sessions, held, undefined>>
vars == <<sessionVars, transportVars, clientVars>>

Init ==
  /\ S!Init /\ T!Init
  /\ owner = "nobody" /\ sessions = 0
  /\ held = {} /\ undefined = FALSE

Runs == ~aborted /\ ~undefined /\ pc # "terminated"

-----------------------------------------------------------------------------
(* A session and its transport *)

\* rparams.stream ? *rparams.stream : false
Streamed(r) == ValueOr(r.stream, FALSE)

\* The transport is given what the URL and the parameters say.
Sends(r) ==
  /\ T!Send
  /\ LET call == Last(calls')
         url == r.url[1]
     IN  call.host = url.host /\ call.secure = url.secure /\ call.stream = Streamed(r)

\* session::request, or an edit of headers().
Asks(c) ==
  \/ S!Request(c) /\ Sends(S!Parameters(c))
  \/ /\ S!RequestRefused(c) \/ S!RequestThrows(c) \/ S!RequestAborts(c) \/ S!EditHeaders(c)
     /\ UNCHANGED transportVars

\* The parameters of the request the transport is at, and the TLS stream they make.
Current == S!Parameters(asked[sent[cur].call])
Stream == Prepared(ValueOr(Current.verify, NotGiven), ValueOr(Current.cert, ""))

\* Client and server agree: the client on the server's certificate, if it verifies one, the
\* server on that of the client, if it asks for one.
Agree ==
  /\ Stream.verifies => Signer[peer] \in Stream.trusted
  /\ peer \in CertHosts => Stream.presents # "nothing"

\* A step of send or send_secure.
Transports ==
  /\ Runs /\ T!Client
  /\ pc = "hello" => (pc' = "idle" <=> LoadThrows(ValueOr(Current.verify, NotGiven)))
  /\ pc = "handshake" /\ s2c # <<>> /\ Head(s2c).kind = "hello" => (pc' = "write" <=> Agree)
  /\ UNCHANGED <<sessionVars, clientVars>>

Serves == Runs /\ T!Serve /\ UNCHANGED <<sessionVars, clientVars>>

Closes == Runs /\ T!ServerCloses /\ UNCHANGED <<sessionVars, clientVars>>

\* The caller reads a streamed response of the session it has, for the first time or again.
Reads ==
  /\ Runs /\ owner = "caller"
  /\ T!StreamOpen \/ T!StreamBegin \/ T!StreamLeave
  /\ UNCHANGED <<sessionVars, clientVars>>

-----------------------------------------------------------------------------
(* The life of a session *)

\* The caller makes a session ...
Open ==
  /\ Runs /\ owner = "nobody" /\ sessions < MaxSessions
  /\ owner' = "caller" /\ sessions' = sessions + 1
  /\ UNCHANGED <<sessionVars, transportVars, held, undefined>>

\* ... and uses it.
Ask ==
  /\ Runs /\ owner = "caller" /\ pc = "idle"
  /\ \E c \in Calls : Asks(c)
  /\ UNCHANGED clientVars

\* get and post: a session for one call.
Function ==
  /\ Runs /\ owner = "nobody" /\ sessions < MaxSessions
  /\ \E c \in Calls : c.does = "request" /\ Asks(c)
  /\ owner' = "function" /\ sessions' = sessions + 1
  /\ UNCHANGED <<held, undefined>>

\* The results that were returned: calls that came to an end or were handed over to be read.
Returned ==
  {[call |-> asked[sent[i].call], chunked |-> calls[i].chunked] :
     i \in {i \in DOMAIN calls : calls[i].outcome \in {"ok", "streaming"} \/ calls[i].rst = "failed"}}

SessionKept ==               \* (mutant) a session of a free function that lives on, a static one
  /\ Runs /\ owner # "nobody" /\ pc = "idle"
  /\ owner' = "nobody" /\ held' = held \cup Returned
  /\ UNCHANGED <<sessionVars, transportVars, sessions, undefined>>

\* The session goes, and its transport with it: the caller's when the caller likes, that of
\* a free function when the call returns or throws.  What is next to come is new.
End ==
  /\ Runs /\ owner # "nobody" /\ pc = "idle"
  /\ owner' = "nobody" /\ held' = held \cup Returned
  /\ headers' = S!Default /\ sent' = <<>> /\ asked' = <<>>
  /\ is_connected' = FALSE /\ peer' = T!NoHost /\ ssl' = "none"
  /\ conn' = "none" /\ c2s' = <<>> /\ s2c' = <<>>
  /\ calls' = <<>>
  /\ UNCHANGED <<aborted, pc, cur, sessions, undefined>>

\* operator<< on a result whose session is gone: has_chunked_response() says whether it is
\* read through the transport.
UseHeld ==
  /\ Runs /\ owner = "nobody"
  /\ \E h \in held : h.chunked
  /\ undefined' = TRUE
  /\ UNCHANGED <<sessionVars, transportVars, owner, sessions, held>>

Next ==
  \/ Open \/ Ask \/ Function \/ End \/ UseHeld
  \/ Transports \/ Serves \/ Closes \/ Reads

Spec == Init /\ [][Next]_vars

\* The thread goes on with the call it is in, and servers answer or close.
FairSpec == Spec /\ WF_vars(Transports) /\ WF_vars(Serves)

-----------------------------------------------------------------------------
(* Properties *)

\* The types of the variables of this module; every request that was handed over is a call
\* of the transport, and there are none without a session.
TypeOK ==
  /\ owner \in {"nobody", "caller", "function"} /\ sessions \in 0 .. MaxSessions
  /\ held \subseteq [call : Calls, chunked : BOOLEAN] /\ undefined \in BOOLEAN
  /\ Len(sent) = Len(calls)
  /\ owner = "nobody" => pc = "idle" /\ calls = <<>>

\* Call n of the session names field Host in a dictionary or an edit.
NamesHost(n) == asked[n].field = "Host" \/ "Host" \in DOMAIN S!Fields(S!Parameters(asked[n]))
Url(n) == S!Parameters(asked[n]).url[1]

\* The host that serves a request is named in one of its Host fields, though it need not be
\* the host of its URL, unless the caller has put its own Host there.  (The connection is
\* that of an earlier call, the Host field of that call has stayed in the session.)
PeerIsNamed ==
  \A i \in DOMAIN calls :
    calls[i].served # T!NoHost =>
      \/ \E k \in DOMAIN sent[i].headers["Host"] :
           LET v == sent[i].headers["Host"][k]
           IN  v.from = "url" /\ Url(v.call).host = calls[i].served
      \/ \E n \in 1 .. sent[i].call : NamesHost(n)

\* get and post make one call on a connection of its own: it goes to the host of its URL with
\* no Host but that one and those it gave, and if they return, other than a stream, it is
\* with the response to this call.
FunctionsAreAlone ==
  owner = "function" =>
    \A i \in DOMAIN calls :
      /\ i = 1 /\ calls[i].served \in {T!NoHost, Url(sent[i].call).host}
      /\ \A k \in DOMAIN sent[i].headers["Host"] : sent[i].headers["Host"][k].call = sent[i].call
      /\ ~NamesHost(sent[i].call) => Len(sent[i].headers["Host"]) = 1
      /\ calls[i].outcome = "ok" => calls[i].answer = 1 /\ calls[i].body = 1

\* The last stream() of call c asks for a stream.
AsksForStream(c) ==
  LET n == SelectLastInSeq(c.params, LAMBDA p : p.kind = "stream")
  IN  n # 0 /\ c.params[n].arg

\* A result of a session that is gone is marked to be read through its transport exactly when
\* the last stream() of its call asked for that, whatever became of the call: all others can
\* be used, and a transport that is gone is used only for one of these.
WholeResultsOutliveSessions ==
  /\ \A h \in held : h.chunked <=> AsksForStream(h.call)
  /\ undefined => \E h \in held : AsksForStream(h.call)

\* Host h is what this verify(...) asks for: signed by an authority in the file, if it is on.
GoodFor(verify, h) ==
  verify # <<>> /\ verify[1].on =>
    verify[1].kind = "path" /\ Disk[verify[1].path] = Signer[h]

\* A request that was to be verified by the authorities in a file is served over TLS only by a
\* host one of them signed; verify(true) names none, and no host is good for it.
VerifiedByFile ==
  \A i \in DOMAIN calls :
    calls[i].secure /\ calls[i].served # T!NoHost =>
      GoodFor(S!Parameters(asked[sent[i].call]).verify, calls[i].served)

-----------------------------------------------------------------------------
(* The inductive invariant that ties a session to its transport *)

\* A call of the transport was given what the parameters of its request say.
HandedOver ==
  \A i \in DOMAIN calls :
    LET r == S!Parameters(asked[sent[i].call])
    IN  /\ r.url # <<>> /\ r.url[1].status = "parsed"
        /\ calls[i].host = r.url[1].host /\ calls[i].secure = r.url[1].secure
        /\ calls[i].stream = Streamed(r)

\* The peer that a call has made its handshake with is good for its verify(...), already before
\* the request is written.
ShakenInv ==
  \A i \in DOMAIN calls : T!Shaken(i) => GoodFor(S!Parameters(asked[sent[i].call]).verify, peer)

\* Without a session nothing was asked; a free function asks once, with all responses of its
\* session read, there being none, and reads none in a loop.
AloneInv ==
  /\ owner = "nobody" => asked = <<>>
  /\ owner = "function" =>
       /\ Len(asked) <= 1 /\ Len(calls) <= 1
       /\ pc \notin {"stream", "terminated"} /\ (pc = "read" => ~calls[cur].stream)
       /\ \A i \in DOMAIN calls : calls[i].readers = 0
       /\ \A i \in DOMAIN calls : calls[i].clean /\ (calls[i].outcome = "ok" => ~calls[i].stream)

\* Every call of the transport is its request's, no host has shaken hands that the request was not
\* to be served by, and the session of a free function has but one call.
CompositionInv == HandedOver /\ ShakenInv /\ AloneInv

-----------------------------------------------------------------------------
(* Liveness *)

\* Against servers that answer or close, every call returns or throws, whatever earlier calls of
\* its session left on the connection: get and post do, and download_file.
CallsReturn == (pc \notin {"idle", "stream", "terminated"}) ~> (pc = "idle")

-----------------------------------------------------------------------------
(* What the comments of the code say *)

\* "Option to provide the SSL client cert file (.pem)" (parameters.hpp): a call that gives a
\* certificate has one in its handshake.
CertificateIsPresented ==
  pc = "handshake" /\ Current.cert # <<>> /\ Disk[Current.cert[1]] \notin {"nothing", "garbage"}
    => Stream.presents = Disk[Current.cert[1]]

=============================================================================
