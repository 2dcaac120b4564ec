----------------------------- MODULE AsioTransport -----------------------------
(***************************************************************************)
(* asio_transport: one adapter, as a session owns it, used by one thread   *)
(* for a sequence of calls of send and send_secure, plain or streamed, and *)
(* for reading the streamed responses it handed out (the loops of          *)
(* ChunkedResponse, seen from the connection), each through one reader at  *)
(* a time, though through a new one as often as the caller likes.  The     *)
(* adapter keeps one socket, one ssl_stream_ and one flag.                 *)
(*                                                                         *)
(* The connection is two queues of messages: `c2s' to the server, `s2c'    *)
(* back.  A message is whole; a response is two of them, a head and the    *)
(* rest, so that it can be left half read.  `enc' says whether a message   *)
(* is inside the TLS session.  Every call has a number; messages carry the *)
(* number of the request they belong to, which only the properties look at.*)
(***************************************************************************)
EXTENDS Naturals, Sequences, FiniteSets

CONSTANTS
  Hosts,        \* host and port pairs URLs name
  TlsHosts,     \* those that speak TLS
  Replies,      \* the kinds of response the servers give
  MaxCalls,     \* bound: calls of send and send_secure
  MaxOpens      \* bound: calls of chunk_response()

NoHost == "no host"

ASSUME CallsAssumption ==
  /\ TlsHosts \subseteq Hosts /\ NoHost \notin Hosts
  /\ Replies \subseteq {"normal", "interim", "big"}
  /\ MaxCalls \in Nat /\ MaxOpens \in Nat

VARIABLES
  \* asio_transport
  is_connected,  \* is_connected_
  peer,          \* what sock_ is connected to
  ssl,           \* ssl_stream_: "none", "up" after its handshake, "raw" while it has
                 \* no TLS session, before its handshake or after it lost it
  \* the thread
  pc,            \* where in send, send_secure or read_next_chunked_body it is
  cur,           \* the call it is in
  \* the connection
  conn,          \* the server's side: "none", "fresh", "plain", "tls", "gone"
  c2s, s2c,
  \* the calls
  calls          \* one record per call of send or send_secure

adapterVars == <<is_connected, peer, ssl>>
wireVars == <<conn, c2s, s2c>>
vars == <<is_connected, peer, ssl, pc, cur, conn, c2s, s2c, calls>>

\* A message to the server: a ClientHello, an alert or request i.
ToServer(kind, enc, i) == [kind |-> kind, enc |-> enc, id |-> i]
\* A message to the client: a ServerHello, the head or the rest of a response, a head
\* that announces a body over the limit, a 1xx response, or bytes that are none of them.
ToClient(kind, enc, i) == [kind |-> kind, enc |-> enc, id |-> i]

\* Nothing of the responses to the calls made so far is left on the connection.
AllRead ==
  \A i \in 1 .. Len(calls) : calls[i].outcome = "ok" /\ calls[i].rst = "done"

\* The record of a call: its arguments, how it ended, has_chunked_response_ of its response
\* and how many readers that has had, the responses the last of them was given the head and
\* the rest of, the host that served it, the buffer and the state of the parser,
\* and whether all earlier responses had been read when it was made.
NewCall(h, secure, stream) ==
  [host |-> h, secure |-> secure, stream |-> stream, outcome |-> "pending",
   chunked |-> FALSE, readers |-> 0,
   answer |-> 0, body |-> 0, served |-> NoHost, buf |-> <<>>, rst |-> "start", clean |-> AllRead]

Init ==
  /\ is_connected = FALSE /\ peer = NoHost /\ ssl = "none"
  /\ pc = "idle" /\ cur = 0
  /\ conn = "none" /\ c2s = <<>> /\ s2c = <<>>
  /\ calls = <<>>

-----------------------------------------------------------------------------
(* send and send_secure *)

\* Where a call goes once there is a connection.
Connected(secure) == IF secure THEN "hello" ELSE "write"

\* The record of the call the thread is in becomes r.
Becomes(r) == calls' = [calls EXCEPT ![cur] = r]

\* The call is left by an exception; what its local buffer held is gone.
Fails ==
  /\ Becomes([calls[cur] EXCEPT !.outcome = "error", !.buf = <<>>])
  /\ pc' = "idle" /\ cur' = 0

\* Enter send or send_secure.
Send ==
  /\ pc = "idle" /\ Len(calls) < MaxCalls
  /\ \E h \in Hosts, secure \in BOOLEAN, stream \in BOOLEAN :
       /\ calls' = Append(calls, NewCall(h, secure, stream))
       /\ pc' = IF is_connected THEN Connected(secure) ELSE "connect"
  /\ cur' = Len(calls) + 1
  /\ UNCHANGED <<adapterVars, wireVars>>

ConnectForgotten ==          \* (mutant) connect_to_peer does not set the flag
  /\ pc = "connect"
  /\ is_connected' = FALSE /\ peer' = calls[cur].host
  /\ conn' = "fresh" /\ c2s' = <<>> /\ s2c' = <<>>
  /\ pc' = Connected(calls[cur].secure)
  /\ UNCHANGED <<ssl, cur, calls>>

\* connect_to_peer.
Connect ==
  /\ pc = "connect"
  /\ is_connected' = TRUE /\ peer' = calls[cur].host
  /\ conn' = "fresh" /\ c2s' = <<>> /\ s2c' = <<>>
  /\ pc' = Connected(calls[cur].secure)
  /\ UNCHANGED <<ssl, cur, calls>>

\* The name does not resolve or nobody answers.
ConnectFails ==
  /\ pc = "connect" /\ Fails
  /\ UNCHANGED <<adapterVars, wireVars>>

\* A new ssl_stream over the socket, also when there was one; its ClientHello.
Hello ==
  /\ pc = "hello"
  /\ ssl' = "raw"
  /\ c2s' = IF conn = "gone" THEN c2s ELSE Append(c2s, ToServer("hello", FALSE, cur))
  /\ pc' = "handshake"
  /\ UNCHANGED <<is_connected, peer, cur, conn, s2c, calls>>

\* load_verify_file throws, after the stream was replaced.
SetupFails ==
  /\ pc = "hello" /\ Fails
  /\ ssl' = "raw"
  /\ UNCHANGED <<is_connected, peer, wireVars>>

HandshakeDone ==
  /\ pc = "handshake" /\ s2c # <<>> /\ Head(s2c).kind = "hello"
  /\ s2c' = Tail(s2c)
  /\ ssl' = "up"
  /\ pc' = "write"
  /\ UNCHANGED <<is_connected, peer, cur, conn, c2s, calls>>

\* The certificate is refused.
HandshakeRefused ==
  /\ pc = "handshake" /\ s2c # <<>> /\ Head(s2c).kind = "hello"
  /\ Fails
  /\ s2c' = Tail(s2c)
  /\ c2s' = IF conn = "gone" THEN c2s ELSE Append(c2s, ToServer("alert", FALSE, cur))
  /\ UNCHANGED <<adapterVars, conn>>

\* The peer does not speak TLS, or not any more, or is gone.
HandshakeFails ==
  /\ pc = "handshake"
  /\ \/ s2c # <<>> /\ Head(s2c).kind # "hello" /\ s2c' = Tail(s2c)
     \/ s2c = <<>> /\ conn = "gone" /\ s2c' = s2c
  /\ Fails
  /\ UNCHANGED <<adapterVars, conn, c2s>>

\* What write puts on the connection: nothing reaches a peer that is gone.
Written(msgs) == IF conn = "gone" THEN c2s ELSE c2s \o msgs

MarkedAlways(c) ==           \* (mutant) every response is marked
  IF c.stream THEN [c EXCEPT !.outcome = "streaming", !.chunked = TRUE]
  ELSE [c EXCEPT !.chunked = TRUE]

\* A streamed response is marked with set_chunked_response.
Marked(c) ==
  IF c.stream THEN [c EXCEPT !.outcome = "streaming", !.chunked = TRUE] ELSE c

WriteTwice ==                \* (mutant) the request is written again
  /\ pc = "write"
  /\ c2s' = Written(<<ToServer("req", calls[cur].secure, cur),
                      ToServer("req", calls[cur].secure, cur)>>)
  /\ Becomes(Marked(calls[cur]))
  /\ pc' = IF calls[cur].stream THEN "idle" ELSE "read"
  /\ cur' = IF calls[cur].stream THEN 0 ELSE cur
  /\ UNCHANGED <<adapterVars, conn, s2c>>

\* send_impl: write the request; a streamed response is returned unread.
Write ==
  /\ pc = "write"
  /\ c2s' = Written(<<ToServer("req", calls[cur].secure, cur)>>)
  /\ Becomes(Marked(calls[cur]))
  /\ pc' = IF calls[cur].stream THEN "idle" ELSE "read"
  /\ cur' = IF calls[cur].stream THEN 0 ELSE cur
  /\ UNCHANGED <<adapterVars, conn, s2c>>

\* write may also see that the peer is gone.
WriteFails ==
  /\ pc = "write" /\ conn = "gone" /\ Fails
  /\ UNCHANGED <<adapterVars, wireVars>>

-----------------------------------------------------------------------------
(* Reading: http::read of send_impl at "read", read_next_chunked_body at "stream" *)

Reading == pc \in {"read", "stream"}
Buf == calls[cur].buf

\* Whether the reader goes through ssl_stream_: send_impl is given the stream the request
\* was written to, read_next_chunked_body takes ssl_stream_ whenever there is one.
ThroughSsl == IF pc = "read" THEN calls[cur].secure ELSE ssl # "none"

\* A TLS record the socket is asked for is noise to the parser.
Received(t) == IF t.enc = ThroughSsl THEN t ELSE [t EXCEPT !.kind = "junk"]

\* read_some: at least one message, at most all there are.  A TLS session whose records
\* were taken from under it cannot go on.
Receive ==
  /\ Reading /\ Buf = <<>> /\ s2c # <<>>
  /\ ThroughSsl => ssl = "up"
  /\ \E k \in 1 .. Len(s2c) :
       /\ ThroughSsl => \A n \in 1 .. k : s2c[n].enc
       /\ Becomes([calls[cur] EXCEPT !.buf = [n \in 1 .. k |-> Received(s2c[n])]])
       /\ ssl' = IF \E n \in 1 .. k : s2c[n].enc # ThroughSsl THEN "raw" ELSE ssl
       /\ s2c' = SubSeq(s2c, k + 1, Len(s2c))
  /\ UNCHANGED <<is_connected, peer, pc, cur, conn, c2s>>

\* The head of a response: whichever comes first on the connection.
ParseHead ==
  /\ Reading /\ Buf # <<>> /\ calls[cur].rst = "start"
  /\ Head(Buf).kind = "head"
  /\ Becomes([calls[cur] EXCEPT !.buf = Tail(@), !.answer = Head(Buf).id, !.rst = "body"])
  /\ UNCHANGED <<adapterVars, pc, cur, wireVars>>

\* The message is complete: what is left in the buffer is lost, a local one being gone and
\* that of a reader not read any more when its parser is done.
Complete(rst) ==
  /\ Becomes([calls[cur] EXCEPT
                !.buf = <<>>,
                !.answer = IF rst = "interim" THEN Head(Buf).id ELSE @,
                !.body = Head(Buf).id, !.rst = rst, !.outcome = "ok"])
  /\ pc' = "idle" /\ cur' = 0
  /\ UNCHANGED <<adapterVars, wireVars>>

ParseRest ==
  /\ Reading /\ Buf # <<>> /\ calls[cur].rst = "body"
  /\ Head(Buf).kind = "rest"
  /\ Complete("done")

\* A 1xx response has no body: to the parser it is all there is.
ParseInterim ==
  /\ Reading /\ Buf # <<>> /\ calls[cur].rst = "start"
  /\ Head(Buf).kind = "interim"
  /\ Complete("interim")

\* What stops a reader: bytes that are not what the parser expects, a body over the
\* limit, a TLS stream without a session or with bytes that are no records, or the end
\* of the connection.
Stuck ==
  /\ Reading
  /\ \/ /\ Buf # <<>>
        /\ \/ calls[cur].rst = "start" /\ Head(Buf).kind \notin {"head", "interim"}
           \/ calls[cur].rst = "body" /\ Head(Buf).kind # "rest"
     \/ Buf = <<>> /\ ThroughSsl /\ (ssl # "up" \/ (s2c # <<>> /\ ~Head(s2c).enc))
     \/ Buf = <<>> /\ s2c = <<>> /\ conn = "gone"

ReadFailsRetries ==          \* (mutant) the read is tried again
  /\ pc = "read" /\ Stuck
  /\ Becomes([calls[cur] EXCEPT !.outcome = "error", !.buf = <<>>])
  /\ UNCHANGED <<adapterVars, wireVars, pc, cur>>

\* http::read throws out of send_impl.
ReadFails ==
  /\ pc = "read" /\ Stuck /\ Fails
  /\ UNCHANGED <<adapterVars, wireVars>>

\* An error code in the body of a streamed response.  The reader is stuck there for good.
StreamFails ==
  /\ pc = "stream" /\ Stuck /\ calls[cur].rst = "body"
  /\ Becomes([calls[cur] EXCEPT !.outcome = "error", !.buf = <<>>, !.rst = "failed"])
  /\ pc' = "idle" /\ cur' = 0
  /\ UNCHANGED <<adapterVars, wireVars>>

\* An exception in its head, out of the noexcept operator++.
StreamTerminates ==
  /\ pc = "stream" /\ Stuck /\ calls[cur].rst = "start"
  /\ pc' = "terminated"
  /\ UNCHANGED <<adapterVars, cur, wireVars, calls>>

\* c with a new reader, that has read nothing.
Reopened(c) ==
  [c EXCEPT !.outcome = "streaming", !.readers = @ + 1,
            !.answer = 0, !.body = 0, !.buf = <<>>, !.rst = "start"]

\* All readers so far.
Opens == Cardinality(UNION {{i} \X (1 .. calls[i].readers) : i \in 1 .. Len(calls)})

\* The caller loops over chunk_response() of a streamed response, be it unread, half read,
\* read to its end or failed.  It is a new reader every time: empty buffer, new parser; what
\* an earlier one had read ahead is gone.
StreamOpen ==
  /\ pc = "idle"
  /\ \E i \in 1 .. Len(calls) :
       /\ calls[i].chunked /\ Opens < MaxOpens
       /\ cur' = i
       /\ calls' = [calls EXCEPT ![i] = Reopened(calls[i])]
  /\ pc' = "stream"
  /\ UNCHANGED <<adapterVars, wireVars>>

\* The caller goes on with a reader it has left: begin() again.  (One that has come to its
\* end or has failed does so again, and moves nothing.)
StreamBegin ==
  /\ pc = "idle"
  /\ \E i \in 1 .. Len(calls) :
       /\ calls[i].outcome = "streaming" /\ calls[i].readers > 0
       /\ cur' = i
  /\ pc' = "stream"
  /\ UNCHANGED <<adapterVars, wireVars, calls>>

\* The caller leaves the loop, which it can after the head.
StreamLeave ==
  /\ pc = "stream" /\ calls[cur].rst = "body"
  /\ pc' = "idle" /\ cur' = 0
  /\ UNCHANGED <<adapterVars, wireVars, calls>>

-----------------------------------------------------------------------------
(* The server at the other end *)

\* The kinds of response to request i: an ordinary one, one preceded by a 1xx response,
\* one whose body is over the limit of the parser.
Response(enc, i) ==
  LET head == ToClient("head", enc, i)
      rest == ToClient("rest", enc, i)
  IN  [normal  |-> <<head, rest>>,
       interim |-> <<ToClient("interim", enc, i), head, rest>>,
       big     |-> <<ToClient("bighead", enc, i), rest>>]

Understood(t) ==
  \/ t.kind = "hello" /\ conn = "fresh" /\ peer \in TlsHosts
  \/ t.kind = "req" /\ ~t.enc /\ conn \in {"fresh", "plain"} /\ peer \notin TlsHosts
  \/ t.kind = "req" /\ t.enc /\ conn = "tls"

ServeHello ==
  /\ conn # "gone" /\ c2s # <<>> /\ Head(c2s).kind = "hello" /\ Understood(Head(c2s))
  /\ c2s' = Tail(c2s) /\ s2c' = Append(s2c, ToClient("hello", FALSE, Head(c2s).id))
  /\ conn' = "tls"
  /\ UNCHANGED <<adapterVars, pc, cur, calls>>

ServeRequest ==
  /\ conn # "gone" /\ c2s # <<>> /\ Head(c2s).kind = "req" /\ Understood(Head(c2s))
  /\ c2s' = Tail(c2s)
  /\ \E kind \in Replies : s2c' = s2c \o Response(Head(c2s).enc, Head(c2s).id)[kind]
  /\ conn' = IF Head(c2s).enc THEN "tls" ELSE "plain"
  /\ LET i == Head(c2s).id
     IN  calls' = [calls EXCEPT ![i] = [calls[i] EXCEPT !.served = peer]]
  /\ UNCHANGED <<adapterVars, pc, cur>>

\* What it does not understand it may complain about, and it closes the connection.
ServeJunk ==
  /\ conn # "gone" /\ c2s # <<>> /\ ~Understood(Head(c2s))
  /\ s2c' \in {s2c, Append(s2c, ToClient("junk", FALSE, 0))}
  /\ c2s' = <<>> /\ conn' = "gone"
  /\ UNCHANGED <<adapterVars, pc, cur, calls>>

\* The connection ends, or is reset and what had arrived is lost.
ServerCloses ==
  /\ conn \notin {"none", "gone"}
  /\ conn' = "gone" /\ c2s' = <<>>
  /\ s2c' \in {s2c, <<>>}
  /\ UNCHANGED <<adapterVars, pc, cur, calls>>

Client ==
  \/ Connect \/ ConnectFails \/ Hello \/ SetupFails
  \/ HandshakeDone \/ HandshakeRefused \/ HandshakeFails \/ Write \/ WriteFails
  \/ Receive \/ ParseHead \/ ParseRest \/ ParseInterim 
  \/ ReadFails \/ StreamFails \/ StreamTerminates

Serve == ServeHello \/ ServeRequest \/ ServeJunk

Next == Send \/ StreamOpen \/ StreamBegin \/ StreamLeave \/ Client \/ Serve \/ ServerCloses

Spec == Init /\ [][Next]_vars

-----------------------------------------------------------------------------
(* Properties *)

Messages(kinds) == [kind : kinds, enc : BOOLEAN, id : 0 .. MaxCalls]
Incoming == Messages({"hello", "head", "rest", "bighead", "interim", "junk"})

CallRecords ==
  [host : Hosts, secure : BOOLEAN, stream : BOOLEAN,
   outcome : {"pending", "streaming", "ok", "error"}, chunked : BOOLEAN, readers : Nat,
   answer : 0 .. MaxCalls,
   body : 0 .. MaxCalls, served : Hosts \cup {NoHost}, buf : Seq(Incoming),
   rst : {"start", "body", "done", "interim", "failed"}, clean : BOOLEAN]

\* The types of the variables; the thread is in a call exactly outside "idle", and that
\* call has not ended.
TypeOK ==
  /\ is_connected \in BOOLEAN
  /\ peer \in Hosts \cup {NoHost}
  /\ ssl \in {"none", "raw", "up"}
  /\ pc \in {"idle", "connect", "hello", "handshake", "write", "read", "stream",
             "terminated"}
  /\ conn \in {"none", "fresh", "plain", "tls", "gone"}
  /\ c2s \in Seq(Messages({"hello", "req", "alert"}))
  /\ s2c \in Seq(Incoming)
  /\ calls \in Seq(CallRecords) /\ Len(calls) <= MaxCalls
  /\ cur \in 0 .. Len(calls) /\ (cur = 0 <=> pc = "idle")
  /\ pc \in {"connect", "hello", "handshake", "write", "read"}
       => cur = Len(calls) /\ calls[cur].outcome = "pending"

\* The caller made at most one reader of every streamed response.
ReadOnce == \A i \in 1 .. Len(calls) : calls[i].readers <= 1

\* A call is given the response to its own request when every earlier response had been
\* read to its end, with no error and no 1xx response among them, and, if it is
\* streamed, when it is read to its end before the next call, unless a streamed response
\* was given a second reader.  (send_impl keeps no account of what is outstanding: it reads
\* whatever comes first, and so does a new reader of a response that has been read.)
OwnResponse ==
  ReadOnce =>
    \A i \in 1 .. Len(calls) :
      /\ calls[i].clean
      /\ calls[i].stream /\ i < Len(calls) => calls[i + 1].clean
      => {calls[i].answer, calls[i].body} \subseteq {0, i}

\* No response is given to two calls, but for the 1xx response that goes before it.
AnsweredOnce ==
  \A i, j \in 1 .. Len(calls) :
    i # j /\ calls[i].answer # 0 /\ calls[i].answer = calls[j].answer
      => "interim" \in {calls[i].rst, calls[j].rst}

\* One adapter talks to one host, whatever its calls name: that of the call that
\* connected it.  (is_connected_ is never reset, close() is empty.)
OneHost ==
  \A i, j \in 1 .. Len(calls) :
    NoHost \notin {calls[i].served, calls[j].served}
      => calls[i].served = calls[j].served

\* At most one send_secure of an adapter gets past its handshake: the second one starts a
\* new handshake inside the session of the first.
OneSecureCall ==
  Cardinality({i \in 1 .. Len(calls) :
                 calls[i].secure /\ calls[i].served # NoHost}) <= 1

\* How call i, of record c, stands, as its caller sees it: the response it has is its own, or a 1xx
\* response, or that of another call.
Standing(c, i) ==
  CASE c.outcome = "pending" -> "waiting"
    [] c.outcome = "streaming" -> "unread"
    [] c.outcome = "error" -> "failed"
    [] c.outcome = "ok" /\ c.rst = "interim" -> "interim"
    [] OTHER -> IF c.answer = i /\ c.body = i THEN "own" ELSE "other"

Promise == INSTANCE Exchange WITH
  standing <- [i \in DOMAIN calls |-> Standing(calls[i], i)],
  handed <- {i \in DOMAIN calls : calls[i].chunked},
  orderly <- ReadOnce /\ \A i \in DOMAIN calls : calls[i].clean

\* The adapter keeps the promise of Exchange: to a caller who makes a call only when the
\* response to the one before is there and read to its end, and reads a streamed response
\* once, it gives every response to its call or a failure; and what it has given to a call
\* it changes only when the caller reads a streamed response again.
InOrder == Promise!Spec

-----------------------------------------------------------------------------
(* The inductive invariant behind OneHost *)

\* The flag is up exactly when there is a peer, which connect_to_peer, called when it is
\* down, chooses; and every call that was served was served by it.
HostInv ==
  /\ is_connected <=> peer # NoHost
  /\ pc = "connect" => ~is_connected
  /\ \A i \in 1 .. Len(calls) : calls[i].served \in {NoHost, peer}

AdapterInv == TypeOK /\ HostInv

-----------------------------------------------------------------------------
(* The inductive invariant behind the responses the calls are given *)

Parts == {"head", "rest"}
\* The messages that are the head or the rest of a response.
Kinds(p) == IF p = "head" THEN {"head", "bighead"} ELSE {"rest"}

\* The messages of any response.
Responses == {"head", "bighead", "rest", "interim"}

\* Where the thread is in a call before its request is written.
Asking == {"connect", "hello", "handshake", "write"}

\* Queue q has a message of one of some kinds, and number k ...
Carries(q, kinds, k) == \E n \in 1 .. Len(q) : q[n].kind \in kinds /\ q[n].id = k

\* ... and at most one of each number.
Once(q, kinds) ==
  \A m, n \in 1 .. Len(q) :
    q[m].kind \in kinds /\ q[n].kind \in kinds /\ q[m].id = q[n].id => m = n

\* The messages of some kinds in queue q have numbers of a set.
Only(q, kinds, ids) == \A n \in 1 .. Len(q) : q[n].kind \in kinds => q[n].id \in ids

\* Request k is not served yet.
Asked(k) == (cur = k /\ pc \in Asking) \/ Carries(c2s, {"req"}, k)

\* Part p of response k is under way ...
OnWire(p, k) == Carries(s2c, Kinds(p), k)

\* ... or call i has it, read or in its buffer.
Part(p, i) == IF p = "head" THEN calls[i].answer ELSE calls[i].body
Has(p, i, k) ==
  \/ calls[i].rst # "interim" /\ Part(p, i) = k
  \/ Carries(calls[i].buf, Kinds(p), k)

\* In queue q a 1xx response is followed by the head of the response it goes before.
Followed(q) ==
  \A n \in 1 .. Len(q) :
    q[n].kind = "interim" => n < Len(q) /\ q[n + 1].kind = "head" /\ q[n + 1].id = q[n].id

\* Messages belong to calls, and a 1xx response does not come alone.
WireInv ==
  /\ Only(c2s, {"req"}, 1 .. Len(calls))
  /\ Only(s2c, Responses, 1 .. Len(calls))
  /\ \A i \in 1 .. Len(calls) : Only(calls[i].buf, Responses, 1 .. Len(calls))
  /\ Followed(s2c)

\* Every request and every part of its response is in one place at most: still to be
\* served, under way, or with one call.
OnceInv ==
  /\ Once(c2s, {"req"})
  /\ pc \in Asking => ~Carries(c2s, {"req"}, cur)
  /\ \A p \in Parts : Once(s2c, Kinds(p))
  /\ \A p \in Parts, k \in 1 .. Len(calls) :
       /\ OnWire(p, k) => ~Asked(k)
       /\ \A i \in 1 .. Len(calls) :
            Has(p, i, k) => /\ ~Asked(k) /\ ~OnWire(p, k)
                            /\ \A j \in 1 .. Len(calls) : Has(p, j, k) => i = j

\* What has been read of the response of a call, against its outcome.
Consistent(c) ==
  /\ {c.answer, c.body} \subseteq 0 .. Len(calls)
  /\ c.outcome \in {"pending", "streaming"} => c.rst \in {"start", "body"}
  /\ c.outcome = "pending" /\ c.stream => c.rst = "start"
  /\ c.outcome = "ok" => c.rst \in {"done", "interim"}
  /\ c.outcome = "streaming" => c.chunked
  /\ c.chunked => c.stream /\ c.outcome # "pending"
  /\ c.outcome = "ok" \/ c.rst = "failed" => (c.chunked <=> c.stream)
  /\ c.readers > 0 => c.chunked
  /\ c.chunked /\ c.readers = 0 => c.outcome = "streaming" /\ c.rst = "start"
  /\ c.answer = 0 <=> c.rst = "start"
  /\ c.body = 0 <=> c.rst \in {"start", "body", "failed"}

\* The thread is in the only call that has not returned; before a call that is made with
\* all responses read, all responses stay read, if they have one reader.
RecordInv ==
  /\ pc \in {"stream", "terminated"} =>
       calls[cur].outcome = "streaming" /\ calls[cur].readers > 0
  /\ pc = "read" => ~calls[cur].stream
  /\ \A i \in 1 .. Len(calls) :
       /\ Consistent(calls[i])
       /\ calls[i].outcome = "pending" => i = cur /\ pc \in Asking \cup {"read"}
       /\ calls[i].clean /\ ReadOnce =>
            \A j \in 1 .. i - 1 : calls[j].outcome = "ok" /\ calls[j].rst = "done"

\* When a call is made with all responses read, each by one reader, there is no response but
\* its own on the connection, and none to be made, before the next call is made.
OwnInv ==
  LET n == Len(calls)
  IN  n > 0 /\ calls[n].clean /\ ReadOnce =>
        /\ Only(c2s, {"req"}, {n})
        /\ Only(s2c, Responses, {n})
        /\ Only(calls[n].buf, Responses, {n})
        /\ {calls[n].answer, calls[n].body} \subseteq {0, n}

\* Call i has made a handshake, which its request has followed or will.
Shaken(i) ==
  /\ calls[i].secure
  /\ \/ calls[i].served # NoHost
     \/ cur = i /\ pc = "write"
     \/ Carries(c2s, {"req"}, i)

\* A connection has one ServerHello, and one call that used it.
HelloInv ==
  /\ \A m, n \in 1 .. Len(s2c) : s2c[m].kind = "hello" /\ s2c[n].kind = "hello" => m = n
  /\ (\E n \in 1 .. Len(s2c) : s2c[n].kind = "hello") \/ conn \in {"none", "fresh"} =>
       \A i \in 1 .. Len(calls) : ~Shaken(i)
  /\ conn \in {"none", "fresh"} => \A n \in 1 .. Len(s2c) : s2c[n].kind # "hello"
  /\ \A i, j \in 1 .. Len(calls) : Shaken(i) /\ Shaken(j) => i = j

\* The peer is the host that a call names, the one that connected to it, and before that no call
\* was served, nor had one put its request on the connection.
PeerInv ==
  peer # NoHost =>
    \E j \in 1 .. Len(calls) :
      /\ calls[j].host = peer
      /\ \A i \in 1 .. j - 1 : calls[i].served = NoHost /\ ~Asked(i)

\* Every request and every part of a response is in its place, whatever was read, left or lost;
\* with the types, the flag and OwnResponse this is inductive.
PlacesInv == WireInv /\ OnceInv /\ RecordInv /\ OwnInv /\ HelloInv

ResponseInv == AdapterInv /\ PlacesInv /\ OwnResponse

-----------------------------------------------------------------------------
(* What the comments of the code say *)

\* "The URL to query" (parameters.hpp): a request is served by the host of its URL.
RequestReachesItsURL ==
  \A i \in 1 .. Len(calls) : calls[i].served \in {NoHost, calls[i].host}

=============================================================================
