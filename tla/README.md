# Cpp-Hypertext in TLA+

Cpp-Hypertext is a header-only HTTP client on Boost.Beast and Boost.Asio. This directory holds
TLA+ modules that model its parts, the TLC configurations that check them on small instances,
and proofs, checked by TLAPS, that hold for every value of the constants. Paths below are
relative to `src/include/hypertext/` unless they start with `src/`.

## The system

| part | state it keeps | operations | where |
|---|---|---|---|
| session | `headers_`, `requests_sent_`, `url_view_`, its transport | `request`, `get`, `post`, `headers` | `session.hpp`, `impl/session.ipp` |
| request parameters | one optional per parameter, for the length of a call | `set_param`, the creators `url(...)`, `headers(...)`, ... | `session.hpp`, `parameters.hpp`, `impl/parameters.ipp` |
| asio_transport | `sock_`, `ssl_stream_`, `is_connected_` | `send`, `send_secure`, `read_next_chunked_body` | `asio_transport_adapter.hpp`, `impl/` |
| response | the beast message, `has_chunked_response_` | `chunk_response`, accessors | `types.hpp` |
| chunked_response | buffer, parser, storage, error code; the iterator's `finished_` | `begin`, `*it`, `++it`, `end` | `types.hpp`, `impl/response.ipp` |
| url_view, URL parser | the parsed URL | `host`, `port`, `target`, `build_query_string`, `resource_name` | `url.hpp`, `impl/url.ipp`, `utils/url_parser/parser.hpp` |
| free functions | a session for one call | `get`, `post`, `operator<<`, `download_file` | `http_free_funcs.hpp`, `impl/` |
| basic_auth, auth_concept | user and password | `encoded_str` | `basic_auth.hpp`, `impl/basic_auth.ipp`, `auth_concept.hpp` |
| type traits, ct_string | none, compile time | | `type_traits.hpp`, `detail/`, `utils/` |
| exceptions, version | none | | `exceptions.hpp`, `version.hpp` |
| chunk_server_ex.py | the peer of the streaming tests | `do_GET` | `src/tests/` |

How they interact. A call of `session::request` folds its arguments into request parameters,
parses the URL, changes the session's headers, copies them into a request and calls the
transport: `send` for http, `send_secure` for https. The transport connects if it has no
connection, writes the request and reads the response; with `stream(true)` it returns the
response unread. The caller then reads a streamed response through `chunk_response()`, whose
iterator calls back into the transport (`read_next_chunked_body`), which calls the parser,
which calls the two callbacks of the chunk block. There are no threads: what is concurrent is
the peer and the network, and the loops over streamed responses, which the caller may start,
leave and resume between other calls on the same connection. The free functions make a session
for one call; what they return refers to the transport of that session, which is gone.

What is hard here:

- the reader of chunked bodies resumes in the middle of a buffer, a chunk or a message, and
  must give the same chunks however TCP segments the bytes;
- errors in a streamed body are only an error code in an object the range-for does not show,
  and errors in its head leave a `noexcept` function;
- one connection carries the responses of several calls, and nothing records which of them are
  outstanding, nor whether there is still a connection;
- the session's headers are both its defaults and the scratch space of each request, and the
  caller may change them too;
- the steps of `send_secure` change a context and a stream made from it, and their order decides
  what the handshake is done with;
- strings are handed on as views whose `data()` is read as a C string, or that outlive what they
  show.

What makes each part correct: the reader gives the chunks of the server whole, in order and
once, and a truncated body is never taken for a complete one (chunked_response); a call is
given the response to its own request, by the host it names, and returns (asio_transport); a
request carries what its own call gave, whatever earlier calls left (session); the last of
several equal parameters counts (parameters); host, port and target are those of the URL (url);
credentials reach the server as they were given (basic_auth); the file holds the body of the
response, and a result can be used when the session is gone (free functions); a host that
was to be verified was (send_secure).

## Modules

| module | models |
|---|---|
| `ChunkedResponse` | the streaming reader, its loop, the server and the segments of the connection |
| `ChunkDelivery` | the abstract promise of a loop over a streamed response |
| `ChunkedResponseProofs` | the theorems about `ChunkedResponse` |
| `ChunkDeliveryProofs` | more of them: what a loop may find first, and that one loop implements `ChunkDelivery` |
| `AsioTransport` | one adapter over several calls, the connection and the peer |
| `Exchange` | the abstract promise of one connection to a caller that makes one call after the other |
| `SecureSetup` | how `send_secure` sets up its TLS stream, step by step, as operators |
| `AsioTransportProofs` | the theorems about the types, the flag and the peer of `AsioTransport` |
| `AsioTransportResponses` | those about which response a call is given, with that it implements `Exchange` |
| `Parameters` | what `headers(...)`, `params(...)`, `data(...)`, `auth(...)` and `set_param` keep of what they are given |
| `ParametersProofs` | what the folds of `Parameters` come to, for lists of any length |
| `Session` | the headers of a session over several requests and edits, and the requests |
| `SessionProofs` | the theorems about `Session` |
| `MCSession` | the calls `Session` is checked with |
| `Client` | a program with its sessions: `Session` composed with `AsioTransport`, the free functions `get` and `post`, and results that outlive their session |
| `ClientProofs` | the theorems about `Client`, from those of `Session` and `AsioTransport` |
| `MCClient` | the hosts, files and calls `Client` is checked with |
| `Url` | the grammar of URLs and `url_view`, as operators on sequences of characters |
| `Download` | `download_file` over several calls, its name, its request and its file |
| `DownloadProofs` | the theorems about `Download` and, through it, about `Url`: the files, and what becomes of a URL |
| `MCDownload` | the URLs `Download` is checked with |

Definitions marked `(mutant)` are deliberately wrong variants of the definition that follows
them. No specification uses them; they exist so that each property can be seen to fail when the
code they stand for is wrong in that way.

### ChunkedResponse

The bytes of a connection are tokens: a response head, a chunk-size line, a unit of chunk data,
the last-chunk. `stream` is all the server put on the connection, `rcvd` how much of it the
client has received, `used` how much the parser has consumed, so that `pbuf_` is what lies
between. `pst`, `rem`, `limit` and `fields` are the parser, `chunk_body` the storage, `ec` is
`ec_`, `pc` says where the thread is in the loop:

| model | code |
|---|---|
| `ChunkResponse`, `Begin`, `Deref`, `LoopEnd` | `chunk_response()`, `begin()`, `operator*`, `operator==` (`types.hpp` 206-273, 376-382) |
| `FillWhenDone`, `Fill`, `Return` | `fill_in_next_chunk` (`impl/response.ipp` 60-83): the early return, the flag, the header copy and the result |
| `HeaderAlreadyRead`, `HeaderReadFails`, `BodyReadFails`, `ReadDone` | `read_next_chunked_body_impl` (`impl/asio_transport_adapter.ipp` 157-172) and how its two reads end |
| `OnChunkHeader`, `ParseChunkPart`, `ParseChunkEnd` | the callbacks (`impl/response.ipp` 15-57) |
| `Receive`, `ConnectionGone`, the other `Parse...` actions | Beast: external, as the code uses it |
| `SendHeader`, `WriteChunk`, `WriteLast` | `do_GET` of `src/tests/chunk_server_ex.py` (67-117) |

Each TCP segmentation is a choice in `Receive`; a connection may be cut at any point
(`CloseConnection`), also in the middle of a chunk, and what was under way may be lost. Other
servers than that of the tests may add trailer fields, give a Content-Length or have no body.

`ChunkDelivery` has only the sizes of the chunks, whether the message was ended or cut, the
chunks handed over and the outcome. `ChunkedResponse!Delivers` is the refinement: for one loop
over one `chunk_response()`, what the loop body is given without the stale first element and
without the empty element of the last-chunk.

### AsioTransport

`is_connected`, `peer` and `ssl` are the adapter's members, `conn`, `c2s` and `s2c` the server's
state and the two directions of the connection, `calls` one record per call: its arguments, its
outcome, the response it was given the head (`answer`) and the rest (`body`) of, the host that
served it, the mark `set_chunked_response` leaves on its response (`chunked`), how many readers that
has had (`readers`), and the buffer and parser state of the last of them. A response is two messages,
so that it can be left half read. `Send`, `Connect`, `Hello`, `Handshake...`, `Write`, `Receive`,
`Parse...` and `ReadFails` are the steps of `send` and `send_secure`. `StreamOpen` is
`chunk_response()` and the loop over it: on any response with the mark, be it unread, half read, read to
its end or failed, it makes a new reader with an empty buffer and a parser at its start, as every
`os << response` does (`types.hpp` 74-79, 376-382). `StreamLeave` and `StreamBegin` are the caller leaving
the loop and going on with the same reader. The reads are `Receive` and the `Parse...` actions at
`pc = "stream"`. A new reader of a response that has been read takes the head of the next response on
the connection: nothing in the code tells it that there is none to come. A read takes any number of the
messages that have arrived; a buffer local to `send_impl` is lost with what is left in it.

The server is external. A plain server answers plain requests; a TLS server does one handshake
per connection and then answers requests inside it; what it does not understand it may complain
about before it closes. It answers in one of three ways: with an ordinary response, with a 1xx
response before it, or with a body over the limit of the parser, which makes the read fail. It
may close or reset the connection at any moment.

`Exchange` knows of each call only how it stands: waiting, a streamed response in hand, or ended
with its own response, a 1xx response to it, another's, or a failure; and whether every call so far
was made in order, that is, when all before it had their own response, and no streamed response was
read again. `AsioTransport!InOrder` is the refinement: as long as this is so no call is given another's
response, and what has ended stays as it is but for a streamed response that the caller reads again
(`ReadAgain`), under every segmentation, failure and 1xx response, and whatever the
server complains about. `Standing` maps the record of a call to how it stands.

### SecureSetup

`Prepared` is the part of `send_secure` before the handshake: a new context, the stream made from
it, the verify mode set on the stream, the authorities of a file added to the context, the
certificate loaded into the context. A stream shares the authorities of its context and has a copy
of its certificate, as it was when the stream was made: this is OpenSSL, and external. `Disk` says
what is at each path: nothing regular, no PEM, an authority or a certificate.

### Parameters and Session

`Parameters` is pure. `HeadersOf` and `ParamsOf` fold a list of pairs with `set` and `emplace`,
which differ in what they do with a key that is there; the value of a pair is its place in the list,
so that a property can ask which one was kept. `View` is a text and what follows it in memory,
`CString` what `data()` makes of it: the keys of `params(...)` and `data(...)` and both parts of the
credentials are read so. (In `data(...)` of a text and in `url(...)` it is the same; there only
whole texts are given.) `EncodedStr` is `HTTPBasicAuth::encoded_str`. `RequestParameters` folds a
list of parameters of all ten kinds as `set_param` does.

`headers` maps a field to the sequence of its values, as the multimap of Beast does: `insert`
appends, `set` replaces. A value is named by where it comes from and the number of the call that
brought it, and by its place in a dictionary, which is all the properties need to know. `Request` is
the whole of `session::request` up to the transport: the dictionary is set, the host and the
credentials are inserted, the headers are copied to the request, and only then is the content type
of a form inserted into the headers of the session. It does not always get that far:
`RequestRefused` is a URL that makes the grammar throw, before anything has changed; `RequestThrows`
a method `string_to_verb` does not know, which `request.method()` refuses when the headers have
changed already; `RequestAborts` the assertions: no URL or one that does not parse, no method, a
field Beast has no enumerator for (the build of the repository, `src/tests/compile.txt`, has its
assertions on). `EditHeaders` is the caller, through `headers()`. One of the four default fields
stands for all.

`SessionAssumption` says that `Calls` are calls: a request with a list of parameters, each with an
argument of the type its creator takes (`Typed`), or an edit of a known field. This is what the
compiler sees to (`parameters.hpp`, `session.hpp`), and all the proofs ask of the caller.

### Client

`Client` instantiates `Session` and `AsioTransport` side by side: request `i` of the one is call `i` of
the other. `Asks` is `session::request`: the session's step and, if it comes to a request, `Sends`, with
the host and the kind of transport of the URL and the last `stream(...)`. `Transports` is a step of the
adapter, whose two choices, whether the setup of the stream throws and whether the handshake
succeeds, are decided by `SecureSetup` and the parameters of the call. `Open`, `Ask` and `End` are
the caller with a session of his own, `Function` and `End` are `get` and `post`. `End` is the end of the
session with its transport; the next session is new. `held` are the results the caller
still has then, each with its call and the mark the transport left on it, and `UseHeld` is `operator<<`,
which asks for the mark (`has_chunked_response()`) and nothing else: a result that has it is read through a
transport that is gone, which is undefined, and the model ends there. What the call had asked for
is left to the property to compare. `Reads` is the caller reading a streamed response of the session
he has, for the first time or again. Sessions share nothing, so
there is one at a time. `ClientAssumption` is that of its two components.

### Url and Download

`Url` is pure. A URL is its scheme and the sequence of characters after it; letters and digits
come in runs, because nothing in the code depends on more. `Character` and `IsUrl` say what such a
sequence is; `Space`, `Alnum`, `DomainChar` and `Ascii` are the classes the grammar tells apart. `Parse` follows the grammar rule by rule
(`utils/url_parser/parser.hpp` 106-123), with the white space that `phrase_parse` skips before every
character but not inside a number, and has three results: parsed, failed (`failed()`), or an
exception, because what follows the colon of a port is an expectation. A port is a 16 bit number
with a sign, kept in an unsigned short. `Targets` and `ResourceNames` are sets, because `target()` makes
a view of a string that is gone when it returns: what a caller finds there is the target or
anything else (`Garbage`).

`Download` is `download_file` (`impl/http_free_funcs.ipp` 68-131), one call after the other in one
directory. `pc` is where it is; `files` the directory; `good` the state of the output stream, whose
failures nobody asks for. `Refused`, `FromUrl` and `NotAssigned` are the three ways through the
choice of the name; `Request`, `Answered`, `Open`, `Write` and `Return` the download;
`RequestAborts`, `RequestFails`, `OpenFails` and `WriteFails` what can go wrong. `last` is a
history: for each file, the call that opened it last.

## Runs

| run | module | bounds | what it shows |
|---|---|---|---|
| `ChunkLoop` | ChunkedResponse | 3 chunks of at most 2 units, limit 4, one loop | chunks whole and in order, no truncation without an error code, the process ends only for a failure in the head, the head is there before the data, the loop ends; the loop implements `ChunkDelivery`, and `OneLoopInv`, which the proof of that rests on, holds |
| `ChunkReuse` | ChunkedResponse | 2 chunks, limit 3, two `chunk_response()`, three loops | the first element of a loop is what the storage held; the inductive invariants `ReaderInv` and `StaleInv` hold under breaks and reuse |
| `AdapterCalls` | AsioTransport | 3 calls, 3 readers, a plain and a TLS host, all kinds of reply | which response a call is given, and by which host; the adapter implements `Exchange`; the inductive invariants behind this: `PlacesInv`, of where every request and response is, `HostInv` and `PeerInv`, of the flag and the peer |
| `SecondHost` | AsioTransport | 2 calls, two plain hosts | violated: a request for a second host goes to the first |
| `SessionCalls` | MCSession | 3 of 52 calls, wrong ones and edits among them | each request carries what its call gave, in the way repeated fields, keys and parameters are kept, and exactly what has accumulated in the session, whose own headers are that too (`AccumulatedInv`); credentials can be had back |
| `FormContentType` | MCSession | 2 requests | violated: the first form is sent without its Content-Type |
| `CustomHeader` | MCSession | 2 requests | violated: a header Beast has no enumerator for ends the process |
| `Clients` | MCClient | 2 sessions of at most 2 of 19 calls, 2 readers, 2 plain and 2 TLS hosts | the host that serves a request is in its Host fields; a free function gets its own answer from its own host; results whose calls did not ask for a stream, and only they, can be used when the session is gone; nobody is trusted but by the file given; every call comes back; `CompositionInv` ties the session to its transport |
| `ClientCertificate` | MCClient | 1 call | violated: the certificate of the client is not in the handshake |
| `Downloads` | MCDownload | 2 calls, 180 URLs, bodies of at most 2 buffers | which host, port and target a URL comes to, the name of the file, and whose answer a file holds; `DownloadInv`, the inductive invariant behind that |
| `GivenName` | MCDownload | as above | violated: a download that is given a file name ends the process |
| `HyphenHost` | MCDownload | as above | violated: the host of a request ends before a hyphen, and what follows becomes its target |

The runs that are violated check what a comment of the code says and show that the code does
otherwise; `PROJECT.json` quotes each comment.

The properties that pass describe the code as it is, which for the adapter means with their
conditions: `OwnResponse` says a call is given its own response *when* all earlier responses had
been read to the end, none of them failed or was a 1xx response, a streamed response is read
before the next call, and none is read by two readers (`ReadOnce`). Each of these conditions is needed: without any of them TLC finds a call
that is given another's response. `HeadersAccumulate` gives in closed form what a request carries
after any sequence of earlier ones, hosts and credentials of other calls included; it is the
reference definition the step by step model is compared with: what the last dictionary or edit
that named the field left, and one value for every later call that inserted one, in their order, each
of the source of its field; calls that failed at their method are among them, calls whose URL was
refused are not.

`Clients` asks what needs the session and its transport together. The Host field of a request is that
of its URL, the connection that of an earlier call (`SecondHost`); `PeerIsNamed` says that the host
that is reached is still in one of the Host fields, because they accumulate, unless the caller
has put one there. It is the accumulation that the mutant of this property takes away.
`FunctionsAreAlone` says that none of this concerns `get` and `post`. `WholeResultsOutliveSessions` compares
two things that are decided far apart: the mark on a result, which `send_impl` sets and `operator<<` asks
for, and the last `stream(...)` the call was given; after any failure, 1xx response or second reader the
result that is held has the mark exactly when the call asked for it. `VerifiedByFile` covers the paths
through the setup: `verify(true)` trusts nobody, as the context has no authorities, and a path where
there is no file is passed over, but the mode is set all the same.

`Downloads` compares the parser with a second reading of the URL by the positions of its delimiters:
for the URLs the grammar is meant for (`Wellformed`) host, port, target and file name are those of
the URL, and for all others nothing of the text is lost or moved (`SplitKeepsText`), wherever the
parser puts it. `FileIsLastAnswer` relates every file to the call that opened it last, across calls
that fail before they open it and writes that fail after.

Bounds. Two units are enough for a chunk to arrive in pieces, three chunks for one segment to hold
the end of one, the whole of the next and the start of a third, and for the body limit to be hit
after some were delivered. Three calls are enough for a response to be left over by the first, taken
by the second and missed by the third, or for a streamed response to be read after two others; three
readers for each call to have its own, or one response two of them with another in between; two
hosts for a request to reach the wrong one. Three calls of a session are enough for a value to be
given, replaced or erased, and added to. Two sessions of two calls are enough for the second call to
be made on the connection of the first, and for a result of the first session to be used in the
second's place; two readers for a response to be read again; the kinds of reply beyond the ordinary one are left to `AdapterCalls`. Two downloads
are enough for one to meet the file of the other; the URLs are all texts of at most two characters,
with every kind of character the grammar distinguishes, and every combination of nine authorities
and six paths. `MaxBuffers`, `MaxChunks`, `MaxSize`, `MaxOpens`, `MaxLoops`, `MaxCalls` and
`MaxSessions` bound what the environment does and appear only in the guards of its actions (and in
the types that follow from them). Deadlock is not checked: the program may end after any call.

Fairness. `ChunkedResponse!FairSpec` is weakly fair to the steps of the one thread once it is in a
loop, and to nothing else: not to the server, nor to the caller. `LoopEnds` therefore speaks of a
server that has sent all it will, or has gone. `Client!FairSpec` is weakly fair to the steps of the
thread inside a call (`Transports`) and to the server's answers (`Serves`), not to the caller, nor
to the server's closing. `CallsReturn` needs the second because nothing in the code limits the wait:
a timeout that is given is stored (`session.hpp` 151) and never used, and without that fairness
`CallsReturn` is violated.

## Proofs

`ChunkedResponseProofs` proves, for every body limit and every bound on chunks, sizes, loops and
calls of `chunk_response()`, with `BoundsAssumption` (the bounds are natural numbers) as the only
assumption:

- `TypeCorrect`: the type invariant;
- `ReaderInvariant`: `ReaderInv`, the inductive invariant;
- `ChunksWholeAndInOrder`, `TruncationLeavesError`, `BodyNeverTerminates`, `HeaderIsFirst`: the safety
  properties of the run `ChunkLoop`, from it.

`WholeChunksInOrder` is not inductive by itself: that the next chunk the parser completes is the
server's next one depends on where the parser is. `ReaderInv` adds what the stream looks like
(`StreamInv`: one head, the chunks in order, the last-chunk; `ChunkAt` says what follows a size line
even when the connection was cut inside the chunk), where the parser is in it and what the storage
holds (`ParserInv`), what has been returned to the caller (`ReturnInv`) and how the chunks
completed relate to the elements given (`LoopInv`). The proof takes each of these through the
actions: the server's actions only extend or cut the stream (`NextTokKept`, `ChunkAtKept`), the
client's leave the stream alone (`ClientStep`), and a piece of a chunk is appended where
`PieceAppended` says.

`AsioTransportProofs` proves for every number of calls, hosts and kinds of reply, from
`CallsAssumption`:

- `TypeCorrect`: the type invariant, with the relation of `pc` to the call in progress;
- `FlagAndPeer`: `HostInv`: the flag is up exactly when there is a peer, `connect_to_peer` is entered
  only while it is down, and every call that was served was served by that peer. With `TypeOK` this
  is inductive (`AdapterInvariant`): `HostStep` goes through the actions, of which only `Connect`
  chooses a peer, when no call has been served yet;
- `OneHostOnly`: `OneHost`, which is not inductive by itself because it does not mention the peer
  that will serve the next call.

`ChunkDeliveryProofs`, from the same assumption:

- `StaleInvariant`, `FirstElement`: `StaleInv` and, from it, `FirstElementIsStale`. `StaleInv` says what is left in the storage when a
  loop ends: nothing, the chunk it stopped at, or, when the connection was cut inside a chunk and
  that has been reported (`CutInChunk`), the part that came; nothing moves any more then, so that it
  is still the beginning of the next chunk when a later loop finds it;
- `OneLoopInvariant`, `OneLoopDelivers`: a specification with at most one `chunk_response()` and at most one loop (two
  hypotheses of the theorem, which are the case of `handle_chunked_response`) implements
  `ChunkDelivery`, and keeps `OneLoopInv`. The mapping leaves out the first element of the loop; that it is the empty storage
  is what `OneLoopInv` adds to `ReaderInv`. With two loops the refinement is false, by
  `FirstElementIsStale`.

`AsioTransportResponses`, from `CallsAssumption`:

- `MessagesInPlace`, `OwnResponses`, `EveryResponseOnce`, `SecureCallOnce`: that a call is given its own
  response cannot be shown from the calls alone, because what it is given is what is on the connection
  when it reads. `PlacesInv` says of every request and of both parts of its response that they are in
  one place at most: still with the thread, on the way to the server, on the way back, or with one call,
  read or in its buffer (`OnceInv`); that messages belong to calls and a 1xx response is followed by the
  head it goes before (`WireInv`); what the record of a call can be, its mark and its readers included
  (`RecordInv`); that a call made when all responses were read, each by one reader, is alone on the
  connection until the next is made (`OwnInv`); and that a
  connection has one ServerHello and one call that used it (`HelloInv`). For `OwnInv` one has to know
  that with all responses read nothing is left on the connection: every call has ended with a response of
  its own, so the calls and the responses are one to one (`AllTaken`, a pigeonhole argument), and a response
  is in one place. A second reader (`StreamOpen` on a response that had one) forgets what the first was
  given, so that this count is lost; it disturbs none of the rest, as what it forgets is in no other place
  (`ReopenedRecord`, `OpenRecord`). Hence `ReadOnce` in `OwnInv`, in the part of `RecordInv` about earlier calls
  and in `OwnResponse`, and not in `AnsweredOnce`. With `HostInv`, the types and `OwnResponse` this is `ResponseInv`, which is inductive;
- `KeepsPromise`: `InOrder`, the refinement of `Exchange`, action by action; a first reader is a stutter, a
  later one `ReadAgain` (`PromiseOpen`);
- `PeerOfFirstCall`: `PeerInv`: the peer is the host of a call, and no call before that one has been served
  or will be. This is what ties the connection to a URL in `ClientProofs`.

`ParametersProofs` has no assumption: `LastParameter`, `DictionaryHasLast` and `DictionaryHasFirst` say in
closed form what the three folds of `Parameters` come to. A fold is a recursive function on the length of
the list; what it is for every length is shown without induction by looking at the least length at which
two definitions would differ (`Least`, from the well-foundedness of < on the naturals).

`SessionProofs`, from `SessionAssumption`:

- `TypeCorrect`: requests go out in the order of their calls, one at most for each;
- `RequestCarriesItsOwn`, `QueryIsOfItsCall`, `CredentialsAreRead`: `CarriesItsOwn`, `QueryIsItsOwn`,
  `CredentialsArrive`. The three hold of a request when it is made and later, as neither it nor its
  call changes (`OwnInv`); that they hold when it is made follows from the closed forms;
- `SessionAccumulates`, `HeadersAreAccumulated`: `AccumulatedInv` and `HeadersAccumulate`. The first says of the
  headers of the session what the second says of those of a request; both refer to the calls by their
  number, so that each step moves `LastReset` or adds one call to those that inserted (`ResetHere`,
  `InsertHere`), or leaves all as it was (`OldAccumulated`).

`DownloadProofs`, from `DownloadAssumption` (the bounds are natural numbers, and the URLs are schemes with
a sequence of characters after them, of any length):

- `FileInvariant`, `DownloadTypes`, `FileIsFromLastCall`: `DownloadInv`, which is inductive with the types, and
  `FileIsLastAnswer`. A file that is being written says nothing of its end; `FileInv` adds that what is in it
  and what is still to be written are the answer it was opened for, as long as all writes succeeded.
  `UrlInv` says that the name and the request come from one URL, although it is parsed twice; no definition
  of `Url` has to be expanded for either;
- `RequestGoesWhereUrlSays`, `NameIsEndOfUrl`: `RequestFollowsUrl` and `NameEndsUrl`. `Delimited` says where the
  authority of a well-formed text ends and where its colon is; from this `DelimitedHost` and
  `DelimitedParse` say what the parser makes of it, so that both readings of the text agree. The name
  is what `LastSlash` says of the target, which is the end of the text (`EndIsSuffix`);
- `ParserKeepsText`: `SplitKeepsText`, for all URLs that are parsed. `Kept` is what is left of a stretch of the
  text without its white space; it is that of its two parts (`KeptSplits`, by `SqueezeConcat`), nothing for
  white space and the character itself for any other, and the text is host, colon, white space, number
  and target, one after the other (`HostIsAscii`, `PortIsText`, `PathIsKept`).

What `Span` takes and what `Squeeze` leaves is shown for texts of any length without induction: by the first
place where it would not be so (`Firsts`, `SqueezeSteps`, `Reached`).

`ClientProofs`, from `ClientAssumption`, uses the theorems of both components. `Client` names the definitions
of `Session` and `AsioTransport` through instances of its own, and the proofs through instances of the proof
modules; a first section shows that they are the same (`SameSteps` and those around it). The invariant
`Inv` is `TypeOK`, `CompositionInv`, `ResponseInv` and `PeerInv` of the transport and `HeadersInv` of the
session. A step of one component is a step of its specification, and a stutter of the other, so that each
invariant is kept by its own theorem's lemma; the end of a session leaves both as they were
initially (`EndKeeps`). What remains is `CompositionInv`: that a call of the transport has the host, the
kind and the stream of its request (`HandedOver`), that the peer a call has shaken hands with is good for
its `verify` (`ShakenInv`, inductive where `VerifiedByFile` is not, because the handshake is over before the
call is served), and that a free function makes one call, whose response has no reader (`AloneInv`).

- `ClientTypes`, `ClientInvariant`: `TypeOK` and `CompositionInv`;
- `VerifiedHosts`: `VerifiedByFile`, from `ShakenInv`, for all files, signers and hosts;
- `ResultsOutliveSessions`: `WholeResultsOutliveSessions`. A result that is returned has the mark exactly when its
  call of the transport was to be streamed (`Consistent`, a part of `RecordInv`), this is what the parameters of
  its request say (`HandedOver`), and these say what the last `stream(...)` did (`LastParameter`, through
  `StreamAsked`); so it is when the session ends (`MarkedAsAsked`), and nothing changes a result that is held;
- `PeersAreNamed`: `PeerIsNamed`, from three facts of the two components: the peer is the host of a call
  (`PeerInv`), this call came before the request in question (`TypeOK` of `Session`), and without an edit or
  a dictionary its Host field is still there (`HeadersAccumulate`);
- `FunctionsAlone`: `FunctionsAreAlone`, from the same and `OwnResponse`, whose condition on readers holds there.

Only model-checked:

- the liveness properties `LoopEnds` and `CallsReturn`, which are out of the prover's reach;
- the six properties that are violated.

## What is left out

- The type traits and `ct_string` are decided by the compiler; the exceptions and the version have
  no behaviour. `put`, `delete_`, `head` and `session::close` are declared and not defined.
- Accessors: `requests_sent()` is 0 throughout, as nothing adds to it; `elapsed_time()` is never set;
  the `status_code` of a streamed result is what a response has before its head is read, 200.
- In `ChunkedResponse`: chunk extensions, gzip, a moved `chunked_response` (its callbacks would refer
  to the old object; no code here moves one), and the post-increment, which does not compile.
- In `AsioTransport`: responses without a length and responses to HEAD, and two readers of one response that
  are both kept and used in turn: a new reader is taken for the end of the one before it. Whether the setup of a TLS
  stream and its handshake succeed is a choice there; `Client` decides it by `SecureSetup`.
- In `Client`: the loop over a streamed response of a live session is that of `AsioTransport`; its
  chunks are those of `ChunkedResponse`.
- In `Url`: letters and digits one by one.
- In `Download`: the coding of the body (the request accepts gzip and the file gets what comes); a write that
  fails only when the stream is flushed at its end, which is not told apart from one that fails before.
- Properties that exempt undefined behaviour: a view of the string `target()` made that is read when the
  string is gone (`Garbage`) is a possible outcome in `Url`, and `NameEndsUrl` and `RequestFollowsUrl` say what
  holds otherwise. Whether trailer fields show up in the header of a streamed response depends on the
  segmentation (`impl/response.ipp` 72); `HeaderBeforeData` only says that the head is there.
- A comment says `read_header` is for the first call of `read_next_chunked_body` only
  (`impl/asio_transport_adapter.ipp` 164); `ChunkedResponse` models what the code does, which is to
  call it whenever the buffer is empty.
- In `Session`: the text of the request. The path is what the
  reader of `target()` finds; that it may be found too late is modelled in `Url`, and one of the paths
  of `MCSession` is what may be found then. With `params()` the path loses a slash at its end, so that
  the target of a URL without a path is `?k=v` or, with no pairs, empty; `QueryIsItsOwn` describes it as
  it is.
- `session.hpp` 37-39 declares a session movable; over `asio_transport`, which has neither a copy nor
  a move constructor, those are deleted. This is the compiler's to say.

## Plan

What the code has is modelled, and every invariant and action property that a run checks and that holds
is proved for every value of the constants, with the two refinements. What would be next belongs to the
code: when a finding is corrected, its run becomes one that passes, and its property one to prove.
