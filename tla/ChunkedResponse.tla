---------------------------- MODULE ChunkedResponse ----------------------------
(***************************************************************************)
(* The streaming reader of types.hpp and response.ipp: a chunked_response  *)
(* owns one chunk_response_block (flat_buffer, parser, storage, error      *)
(* code); a chunk_iterator drives it, one fill_in_next_chunk per ++, from  *)
(* the range-for loops of handle_chunked_response and of the tests.  The   *)
(* peer is the server of tests/chunk_server_ex.py, on a TCP connection     *)
(* that may be cut anywhere and that hands the bytes over in arbitrary     *)
(* segments.                                                               *)
(*                                                                         *)
(* The bytes of the connection are tokens: a response header, a chunk-size *)
(* line, a unit of chunk data, the last-chunk with its trailer.  `stream'  *)
(* is every token the server put on the connection, of which the client    *)
(* has received the first `rcvd' and parsed the first `used': pbuf_ holds  *)
(* stream[used + 1 .. rcvd].  Data tokens carry the chunk and the offset   *)
(* they were written at, which only the properties look at.                *)
(***************************************************************************)
EXTENDS Integers, Sequences

CONSTANTS
  BodyLimit,   \* body_limit of the beast parser, in units of data
  MaxChunks,   \* bound: chunks the server writes
  MaxSize,     \* bound: units of data in a chunk
  MaxOpens,    \* bound: calls of chunk_response() on the response
  MaxLoops     \* bound: range-for loops over a chunked_response

ASSUME BoundsAssumption ==
  /\ BodyLimit \in Nat
  /\ MaxChunks \in Nat
  /\ MaxSize \in Nat
  /\ MaxOpens \in Nat
  /\ MaxLoops \in Nat

VARIABLES
  \* the server and the connection
  srv,          \* what the server does next
  sizes,        \* sizes of the chunks it wrote
  stream,       \* tokens it put on the connection
  rcvd,         \* tokens the client read from the socket
  \* chunk_response_block
  used,         \* tokens of pbuf_ the parser consumed
  pst,          \* state of parser_
  rem,          \* data of the current chunk parser_ has not seen
  limit,        \* body limit left to parser_
  fields,       \* field groups in the message of parser_
  chunk_body,   \* chunk_body_
  ec,           \* ec_
  \* fill_in_next_chunk, the iterator and the loop around it
  read_header,  \* local of fill_in_next_chunk
  finished,     \* finished_ of the iterator
  pc,           \* where the calling thread is
  resp_fields,  \* field groups in the header of the parent response
  \* history
  opens,        \* calls of chunk_response()
  loops,        \* loops begun
  filled,       \* chunks completed by fill_in_next_chunk
  base,         \* `filled' when the current loop began
  got           \* what the current loop was given, one entry per *it

srvVars  == <<srv, sizes, stream>>
parseVars == <<used, pst, rem, limit, fields, chunk_body, filled>>
userVars == <<opens, loops, base, got>>
vars == <<srv, sizes, stream, rcvd, used, pst, rem, limit, fields, chunk_body,
          ec, read_header, finished, pc, resp_fields, opens, loops, filled,
          base, got>>

-----------------------------------------------------------------------------
(* Tokens *)

HeaderKinds == {"hdr_chunked", "hdr_length", "hdr_none"}
Kinds == HeaderKinds \cup {"size", "data", "last"}
Token == [kind : Kinds, chunk : Nat, val : Nat]

HeaderTok(k) == [kind |-> k, chunk |-> 0, val |-> 0]
DataTok(i, j) == [kind |-> "data", chunk |-> i, val |-> j]
LastTok(t) == [kind |-> "last", chunk |-> 0, val |-> t]   \* t trailer fields

\* Chunk i of n units as write_chunk puts it on the wire: size line, then data.
ChunkToks(i, n) ==
  [j \in 1 .. n + 1 |-> IF j = 1 THEN [kind |-> "size", chunk |-> i, val |-> n]
                        ELSE DataTok(i, j - 1)]

\* The data of the i-th chunk the server wrote.
Payload(i) == [j \in 1 .. sizes[i] |-> DataTok(i, j)]

-----------------------------------------------------------------------------
Init ==
  /\ srv = "start" /\ sizes = <<>> /\ stream = <<>> /\ rcvd = 0
  /\ used = 0 /\ pst = "start" /\ rem = 0 /\ limit = BodyLimit /\ fields = {}
  /\ chunk_body = <<>> /\ ec = "ok"
  /\ read_header = FALSE /\ finished = FALSE /\ pc = "idle" /\ resp_fields = {}
  /\ opens = 0 /\ loops = 0 /\ filled = 0 /\ base = 0 /\ got = <<>>

-----------------------------------------------------------------------------
(* The server and the network *)

clientVars == <<rcvd, parseVars, ec, read_header, finished, pc, resp_fields, userVars>>

\* What the server does after each kind of response head.
ServerAfter == [hdr_chunked |-> "chunked", hdr_length |-> "length", hdr_none |-> "finished"]

\* The response head.  chunk_server_ex.py announces a chunked body; another
\* server may give a Content-Length, or a response that has no body at all.
SendHeader ==
  /\ srv = "start"
  /\ \E k \in HeaderKinds :
       /\ stream' = Append(stream, HeaderTok(k))
       /\ srv' = ServerAfter[k]
  /\ UNCHANGED <<sizes, clientVars>>

\* One non-empty chunk (empty ones are skipped).
WriteChunk ==
  /\ srv = "chunked" /\ Len(sizes) < MaxChunks
  /\ \E n \in 1 .. MaxSize :
       /\ sizes' = Append(sizes, n)
       /\ stream' = stream \o ChunkToks(Len(sizes) + 1, n)
  /\ UNCHANGED <<srv, clientVars>>

\* The last-chunk; a server other than chunk_server_ex.py may add a trailer.
WriteLast ==
  /\ srv = "chunked"
  /\ \E t \in {0, 1} : stream' = Append(stream, LastTok(t))
  /\ srv' = "finished"
  /\ UNCHANGED <<sizes, clientVars>>

\* The body of a response with a Content-Length.
WriteLengthBody ==
  /\ srv = "length"
  /\ stream' = Append(stream, DataTok(0, 1))
  /\ srv' = "finished"
  /\ UNCHANGED <<sizes, clientVars>>

\* The peer goes away; what was not delivered yet may be lost.
CloseConnection ==
  /\ srv # "closed"
  /\ srv' = "closed"
  /\ \E k \in rcvd .. Len(stream) : stream' = SubSeq(stream, 1, k)
  /\ UNCHANGED <<sizes, clientVars>>

Server ==
  \/ SendHeader \/ WriteChunk \/ WriteLast \/ WriteLengthBody \/ CloseConnection

-----------------------------------------------------------------------------
(* The caller: chunk_response() and the range-for loop *)

\* chunk_response(): a new block with an empty buffer and a new parser.  What
\* an earlier block had read ahead is gone with its buffer.
ChunkResponse ==
  /\ pc = "idle" /\ opens < MaxOpens
  /\ opens' = opens + 1
  /\ used' = rcvd /\ pst' = "start" /\ rem' = 0 /\ limit' = BodyLimit
  /\ fields' = {} /\ chunk_body' = <<>> /\ ec' = "ok" /\ finished' = FALSE
  /\ got' = <<>>
  /\ UNCHANGED <<srvVars, rcvd, read_header, pc, resp_fields, loops, filled, base>>

\* begin(): an iterator that is not finished, on whatever the block holds.
Begin ==
  /\ pc = "idle" /\ opens > 0 /\ loops < MaxLoops
  /\ loops' = loops + 1
  /\ finished' = FALSE /\ got' = <<>> /\ base' = filled
  /\ pc' = "test"
  /\ UNCHANGED <<srvVars, rcvd, parseVars, ec, read_header, resp_fields, opens>>

\* it != end() holds: the loop body is given *it.
Deref ==
  /\ pc = "test" /\ ~finished
  /\ got' = Append(got, chunk_body)
  /\ pc' = "incr"
  /\ UNCHANGED <<srvVars, rcvd, parseVars, ec, read_header, finished, resp_fields,
                 opens, loops, base>>

\* it == end(): the loop is left.
LoopEnd ==
  /\ pc = "test" /\ finished
  /\ pc' = "idle"
  /\ UNCHANGED <<srvVars, rcvd, parseVars, ec, read_header, finished, resp_fields, userVars>>

\* The loop body breaks out.
Break ==
  /\ pc = "incr"
  /\ pc' = "idle"
  /\ UNCHANGED <<srvVars, rcvd, parseVars, ec, read_header, finished, resp_fields, userVars>>

-----------------------------------------------------------------------------
(* ++it: fill_in_next_chunk and read_next_chunked_body *)

BufferEmpty == used = rcvd
Next1 == stream[used + 1]    \* the first token of pbuf_

\* There is nothing more to parse.
FillWhenDone ==
  /\ pc = "incr" /\ pst = "complete"
  /\ finished' = TRUE
  /\ pc' = "test"
  /\ UNCHANGED <<srvVars, rcvd, parseVars, ec, read_header, resp_fields, userVars>>

FillFlagSwapped ==           \* (mutant) the header is copied when it was not read
  /\ pc = "incr" /\ pst # "complete"
  /\ read_header' = ~BufferEmpty
  /\ pc' = IF BufferEmpty THEN "header" ELSE "read"
  /\ UNCHANGED <<srvVars, rcvd, parseVars, ec, finished, resp_fields, userVars>>

\* Enter read_next_chunked_body: through read_header if the buffer is empty.
Fill ==
  /\ pc = "incr" /\ pst # "complete"
  /\ read_header' = BufferEmpty
  /\ pc' = IF BufferEmpty THEN "header" ELSE "read"
  /\ UNCHANGED <<srvVars, rcvd, parseVars, ec, finished, resp_fields, userVars>>

\* read_header returns at once when the parser already has the header.
HeaderAlreadyRead ==
  /\ pc = "header" /\ pst # "start"
  /\ pc' = "read"
  /\ UNCHANGED <<srvVars, rcvd, parseVars, ec, read_header, finished, resp_fields, userVars>>

ReturnErrorLost(e) ==        \* (mutant) the error code is not kept in ec_
  /\ ec' = "ok"
  /\ finished' = (e \notin {"ok", "end_of_chunk"})
  /\ resp_fields' = IF read_header THEN fields ELSE resp_fields
  /\ pc' = "test"
  /\ UNCHANGED <<srvVars, rcvd, read_header, userVars>>

\* The end of fill_in_next_chunk, e being the error code read() left.
Return(e) ==
  /\ ec' = e
  /\ finished' = (e \notin {"ok", "end_of_chunk"})
  /\ resp_fields' = IF read_header THEN fields ELSE resp_fields
  /\ pc' = "test"
  /\ UNCHANGED <<srvVars, rcvd, read_header, userVars>>

\* The parser asks for more: the buffer is empty, or read_header has found neither
\* a response head in it nor an end of message that shows there is none.
NeedsMore ==
  \/ pc = "header" /\ pst = "start" /\ BufferEmpty
  \/ pc = "header" /\ pst = "start" /\ ~BufferEmpty
       /\ Next1.kind \notin HeaderKinds
       /\ \A p \in used + 1 .. rcvd : stream[p].kind # "last"
  \/ pc = "read" /\ pst # "complete" /\ BufferEmpty

\* read_some: the socket delivers at least one token and at most all there are.
Receive ==
  /\ NeedsMore
  /\ \E k \in rcvd + 1 .. Len(stream) : rcvd' = k
  /\ UNCHANGED <<srvVars, parseVars, ec, read_header, finished, pc, resp_fields, userVars>>

ConnectionGone == NeedsMore /\ srv = "closed" /\ rcvd = Len(stream)

\* read_header throws, out of the noexcept operator++.
HeaderReadFails ==
  /\ ConnectionGone /\ pc = "header"
  /\ pc' = "terminated"
  /\ UNCHANGED <<srvVars, rcvd, parseVars, ec, read_header, finished, resp_fields, userVars>>

BodyReadThrows ==            \* (mutant) read() is the overload that throws
  /\ ConnectionGone /\ pc = "read"
  /\ pc' = "terminated"
  /\ UNCHANGED <<srvVars, rcvd, parseVars, ec, read_header, finished, resp_fields, userVars>>

BodyReadRetries ==           \* (mutant) the end of the stream is not an error
  /\ ConnectionGone /\ pc = "read"
  /\ UNCHANGED vars

\* read() reports the end of the stream in ec.
BodyReadFails ==
  /\ ConnectionGone /\ pc = "read"
  /\ Return("partial_message")
  /\ UNCHANGED parseVars

-----------------------------------------------------------------------------
(* parser_.put on what pbuf_ holds *)

ParserAfterNoBody ==         \* (mutant) a body that is not chunked is passed over
  [hdr_chunked |-> "chunk_header", hdr_length |-> "complete", hdr_none |-> "complete"]

\* The state each kind of response head leaves the parser in.
ParserAfter == [hdr_chunked |-> "chunk_header", hdr_length |-> "body", hdr_none |-> "complete"]

ParseHeader ==
  /\ pc = "header" /\ pst = "start" /\ ~BufferEmpty
  /\ Next1.kind \in HeaderKinds
  /\ used' = used + 1
  /\ pst' = ParserAfter[Next1.kind]
  /\ fields' = {"head"}
  /\ pc' = "read"
  /\ UNCHANGED <<srvVars, rcvd, rem, limit, chunk_body, filled, ec, read_header,
                 finished, resp_fields, userVars>>

\* Bytes that are not a response head: read_header throws, out of the noexcept
\* operator++, at the latest when they hold an end of message (which data may).
ParseGarbage ==
  /\ pc = "header" /\ pst = "start" /\ ~BufferEmpty
  /\ Next1.kind \notin HeaderKinds
  /\ pc' = "terminated"
  /\ UNCHANGED <<srvVars, rcvd, parseVars, ec, read_header, finished, resp_fields, userVars>>

StorageKept == chunk_body    \* (mutant) the callback does not clear the storage
\* The storage after on_chunk_header_cb_.
OnChunkHeader == <<>>

ParseChunkHeaderUnlimited == \* (mutant) the body limit is not looked at
  /\ pc = "read" /\ pst = "chunk_header" /\ ~BufferEmpty
  /\ Next1.kind = "size"
  /\ used' = used + 1
  /\ pst' = "chunk_body" /\ rem' = Next1.val /\ limit' = limit - Next1.val
  /\ chunk_body' = OnChunkHeader
  /\ UNCHANGED <<srvVars, rcvd, fields, filled, ec, read_header, finished, pc,
                 resp_fields, userVars>>

\* A chunk-size line.
ParseChunkHeader ==
  /\ pc = "read" /\ pst = "chunk_header" /\ ~BufferEmpty
  /\ Next1.kind = "size" /\ Next1.val <= limit
  /\ used' = used + 1
  /\ pst' = "chunk_body" /\ rem' = Next1.val /\ limit' = limit - Next1.val
  /\ chunk_body' = OnChunkHeader
  /\ UNCHANGED <<srvVars, rcvd, fields, filled, ec, read_header, finished, pc,
                 resp_fields, userVars>>

\* A chunk that exceeds the body limit is an error of read().
ParseOverLimit ==
  /\ pc = "read" /\ pst = "chunk_header" /\ ~BufferEmpty
  /\ Next1.kind = "size" /\ Next1.val > limit
  /\ Return("body_limit")
  /\ UNCHANGED parseVars

\* Number of data tokens on_chunk_body_cb_ is given: all of the chunk that is
\* in the buffer.
Piece == IF rem <= rcvd - used THEN rem ELSE rcvd - used

ParseChunkPartReturns ==     \* (mutant) every piece is reported as the end of the chunk
  /\ pc = "read" /\ pst = "chunk_body" /\ ~BufferEmpty
  /\ Piece < rem
  /\ chunk_body' = chunk_body \o SubSeq(stream, used + 1, used + Piece)
  /\ used' = used + Piece /\ rem' = rem - Piece
  /\ Return("end_of_chunk")
  /\ UNCHANGED <<pst, limit, fields, filled>>

\* on_chunk_body_cb_ appends a piece; more of the chunk is to come.
ParseChunkPart ==
  /\ pc = "read" /\ pst = "chunk_body" /\ ~BufferEmpty
  /\ Piece < rem
  /\ chunk_body' = chunk_body \o SubSeq(stream, used + 1, used + Piece)
  /\ used' = used + Piece /\ rem' = rem - Piece
  /\ UNCHANGED <<srvVars, rcvd, pst, limit, fields, filled, ec, read_header,
                 finished, pc, resp_fields, userVars>>

\* on_chunk_body_cb_ appends the rest of the chunk and stops read() with
\* end_of_chunk.
ParseChunkEnd ==
  /\ pc = "read" /\ pst = "chunk_body" /\ ~BufferEmpty
  /\ Piece = rem
  /\ chunk_body' = chunk_body \o SubSeq(stream, used + 1, used + Piece)
  /\ used' = used + Piece /\ rem' = 0
  /\ pst' = "chunk_header"
  /\ filled' = filled + 1
  /\ Return("end_of_chunk")
  /\ UNCHANGED <<limit, fields>>

\* The last-chunk; on_chunk_header_cb_ is called for it too.
ParseLast ==
  /\ pc = "read" /\ pst = "chunk_header" /\ ~BufferEmpty
  /\ Next1.kind = "last"
  /\ used' = used + 1
  /\ pst' = "complete"
  /\ fields' = IF Next1.val > 0 THEN fields \cup {"trailer"} ELSE fields
  /\ chunk_body' = OnChunkHeader
  /\ UNCHANGED <<srvVars, rcvd, rem, limit, filled, ec, read_header, finished, pc,
                 resp_fields, userVars>>

\* read() is left without an error when the message is complete.
ReadDone ==
  /\ pc = "read" /\ pst = "complete"
  /\ Return("ok")
  /\ UNCHANGED parseVars

\* A body that is not chunked is refused by the empty_body of the parser.
ParseUnexpectedBody ==
  /\ pc = "read" /\ pst = "body" /\ ~BufferEmpty
  /\ Return("unexpected_body")
  /\ UNCHANGED parseVars

Parse ==
  \/ ParseHeader \/ ParseGarbage \/ ParseChunkHeader \/ ParseOverLimit
  \/ ParseChunkPart \/ ParseChunkEnd \/ ParseLast \/ ParseUnexpectedBody

\* The steps the calling thread takes by itself once it is in the loop.
Thread ==
  \/ Deref \/ LoopEnd \/ FillWhenDone \/ Fill \/ HeaderAlreadyRead
  \/ Receive \/ HeaderReadFails \/ BodyReadFails \/ Parse \/ ReadDone

Next == Server \/ ChunkResponse \/ Begin \/ Break \/ Thread

Spec == Init /\ [][Next]_vars

\* The thread runs; the server and the user of the library need not act.
FairSpec == Spec /\ WF_vars(Thread)

-----------------------------------------------------------------------------
(* Properties *)

InLoop == pc \in {"test", "incr", "header", "read"}

\* The values the variables take.
TypeOK ==
  /\ srv \in {"start", "chunked", "length", "finished", "closed"}
  /\ sizes \in Seq(Nat \ {0})
  /\ stream \in Seq(Token)
  /\ rcvd \in 0 .. Len(stream)
  /\ used \in 0 .. rcvd
  /\ pst \in {"start", "chunk_header", "chunk_body", "body", "complete"}
  /\ rem \in Nat
  /\ limit \in 0 .. BodyLimit
  /\ fields \subseteq {"head", "trailer"}
  /\ chunk_body \in Seq(Token)
  /\ ec \in {"ok", "end_of_chunk", "partial_message", "body_limit", "unexpected_body"}
  /\ read_header \in BOOLEAN
  /\ finished \in BOOLEAN
  /\ pc \in {"idle", "test", "incr", "header", "read", "terminated"}
  /\ resp_fields \subseteq {"head", "trailer"}
  /\ opens \in Nat /\ loops \in Nat /\ filled \in Nat /\ base \in Nat
  /\ got \in Seq(Seq(Token))

\* From its second element on, a loop is given the chunks of the server, whole,
\* in order, each once, however the bytes were segmented and wherever the
\* connection was cut; after them at most one empty element, the last-chunk.
WholeChunksInOrder ==
  \A k \in 2 .. Len(got) :
    \/ base + k - 1 <= Len(sizes) /\ got[k] = Payload(base + k - 1)
    \/ got[k] = <<>> /\ k = Len(got) /\ pst = "complete" /\ filled = base + k - 2

\* What a loop is given first is what the storage of the block still held: nothing
\* in a first loop, else the chunk the previous loop stopped at, or, after an error,
\* the part of the next chunk that had arrived.
FirstElementIsStale ==
  InLoop /\ got # <<>> =>
    \/ got[1] = <<>>
    \/ loops > 1 /\ base > 0 /\ got[1] = Payload(base)
    \/ /\ loops > 1 /\ base < Len(sizes) /\ ec = "partial_message"
       /\ got[1] = SubSeq(Payload(base + 1), 1, Len(got[1]))

\* A loop that ends without an error code was given every chunk the server wrote
\* before the last-chunk: a cut connection, the body limit and a body that is not
\* chunked all leave an error in ec_, the only trace of them the caller has.
NoSilentTruncation ==
  finished /\ ec \in {"ok", "end_of_chunk"} => pst = "complete" /\ filled = Len(sizes)

\* An exception leaves the noexcept operator++, and ends the process, only while
\* the response header has not been read: no failure in the body does.
TerminateOnlyInHeader == pc = "terminated" => pst = "start" /\ fields = {}

\* When the loop body is given data of a chunk, the parent response already has
\* the header fields the server sent.
HeaderBeforeData ==
  (\E k \in 1 .. Len(got) : got[k] # <<>>) => "head" \in resp_fields

\* With one chunk_response() per response, a loop that runs when the server has
\* sent all it will, or has gone, ends, or ends the process.
LoopEnds ==
  (InLoop /\ opens = 1 /\ srv \in {"finished", "closed"}) ~> ~InLoop

-----------------------------------------------------------------------------
(* What the loop implements *)

\* How the message ended, as far as the client may still learn.
Wire ==
  IF \E p \in 1 .. Len(stream) : stream[p].kind \in {"last", "hdr_none"} THEN "ended"
  ELSE IF srv = "closed" THEN "cut"
  ELSE "open"

\* The chunks among what the loop was given: not the stale first element, nor the
\* empty one of the last-chunk.
Delivered ==
  SubSeq(got, 2, IF got # <<>> /\ got[Len(got)] = <<>> THEN Len(got) - 1 ELSE Len(got))

Status ==
  IF pc = "terminated" \/ (finished /\ pst # "complete") THEN "failed"
  ELSE IF finished THEN "complete"
  ELSE IF pc = "idle" /\ loops > 0 THEN "left"
  ELSE "streaming"

Delivery == INSTANCE ChunkDelivery
              WITH Unit <- DataTok, wire <- Wire, out <- Delivered, status <- Status

\* One loop over one chunk_response() implements ChunkDelivery: it hands over the
\* chunks and completes only when the server ended the message and all were given.
Delivers == Delivery!Spec

-----------------------------------------------------------------------------
(* The inductive invariant behind the safety properties *)

\* What follows position p of the stream, where chunk i ends (or the head, i = 0).
NextTok(p, i) ==
  /\ p < Len(stream) =>
       \/ stream[p + 1].kind = "last" /\ i = Len(sizes)
       \/ stream[p + 1].kind = "size" /\ stream[p + 1].chunk = i + 1
  /\ p = Len(stream) /\ srv = "chunked" => i = Len(sizes)

\* From position p on, the stream holds chunk i of the server, or the part of it
\* that was not lost.
ChunkAt(p, i) ==
  /\ i \in 1 .. Len(sizes) /\ stream[p].val = sizes[i]
  /\ \A j \in 1 .. sizes[i] : p + j <= Len(stream) => stream[p + j] = DataTok(i, j)
  /\ srv = "chunked" => p + sizes[i] <= Len(stream)
  /\ NextTok(p + sizes[i], i)

\* What is on the connection: one head, the chunks in order, the last-chunk.
StreamInv ==
  /\ \A p \in 1 .. Len(stream) :
       /\ stream[p].kind \in HeaderKinds => p = 1
       /\ stream[p].kind = "size" => ChunkAt(p, stream[p].chunk)
       /\ stream[p].kind = "last" => p = Len(stream) /\ srv \in {"finished", "closed"}
  /\ srv = "start" => stream = <<>> /\ sizes = <<>>
  /\ srv = "chunked" => stream # <<>> /\ stream[1].kind = "hdr_chunked"
  /\ srv = "length" => stream # <<>> /\ stream[1].kind = "hdr_length"
  /\ stream # <<>> =>
       IF stream[1].kind = "hdr_chunked" THEN NextTok(1, 0)
       ELSE sizes = <<>> /\ srv \in {"length", "finished", "closed"}

\* Where the parser is in the stream, and what the storage holds.
ParserInv ==
  /\ used = 0 => filled = 0 /\ pst = "start"
  /\ pst = "start" =>
       /\ fields = {} /\ chunk_body = <<>> /\ pc # "read"
       /\ pc \in {"idle", "test", "incr"} => BufferEmpty
  /\ pst # "start" => "head" \in fields
  /\ pst \in {"chunk_header", "chunk_body"} => stream[1].kind = "hdr_chunked"
  /\ pst = "chunk_header" => NextTok(used, filled)
  /\ pst = "chunk_body" =>
       /\ filled + 1 \in 1 .. Len(sizes) /\ rem \in 1 .. sizes[filled + 1]
       /\ LET q == sizes[filled + 1] - rem IN
            /\ used - q \in 1 .. Len(stream)
            /\ stream[used - q].kind = "size" /\ stream[used - q].chunk = filled + 1
            /\ Len(chunk_body) = q
            /\ \A j \in 1 .. q : chunk_body[j] = DataTok(filled + 1, j)
  /\ pst = "complete" =>
       filled = Len(sizes) /\ chunk_body = <<>> /\ srv \in {"finished", "closed"}

\* When the caller sees an error code, and when the parent response its header.
ReturnInv ==
  /\ finished => /\ pc \in {"idle", "test"}
                 /\ pst = "complete" \/ ec \notin {"ok", "end_of_chunk"}
  /\ pc = "header" => read_header
  /\ pc = "terminated" => pst = "start"
  /\ "head" \notin resp_fields =>
       /\ \A k \in 1 .. Len(got) : got[k] = <<>>
       /\ pst = "start" \/ (pc = "read" /\ read_header)

\* How far the loop is, against the chunks completed.
LoopInv ==
  /\ pc = "test" /\ got = <<>> => filled = base
  /\ pc = "test" /\ ~finished /\ got # <<>> =>
       \/ /\ pst = "chunk_header" /\ filled = base + Len(got) /\ filled \in 1 .. Len(sizes)
          /\ chunk_body = Payload(filled)
       \/ pst = "complete" /\ filled = base + Len(got) - 1
  /\ pc \in {"incr", "header", "read"} => got # <<>>
  /\ pc = "incr" =>
       \/ filled = base + Len(got) - 1
       \/ pst = "complete" /\ filled = base + Len(got) - 2
  /\ pc \in {"header", "read"} => filled = base + Len(got) - 1

ReaderInv ==
  /\ TypeOK /\ StreamInv /\ ParserInv /\ ReturnInv /\ LoopInv /\ WholeChunksInOrder

\* The connection was cut inside a chunk and its end reported: nothing moves any more.
CutInChunk ==
  /\ pst = "chunk_body" /\ ec = "partial_message"
  /\ srv = "closed" /\ rcvd = Len(stream) /\ BufferEmpty

\* What a loop may find in the storage, and keep as its first element.
StaleInv ==
  /\ InLoop \/ chunk_body # <<>> => loops > 0
  /\ chunk_body # <<>> /\ pc = "test" /\ got = <<>> => loops > 1
  /\ pst = "body" => chunk_body = <<>>
  /\ pst = "chunk_header" =>
       chunk_body = <<>> \/ (filled \in 1 .. Len(sizes) /\ chunk_body = Payload(filled))
  /\ pst = "chunk_body" /\ pc # "read" => CutInChunk
  /\ InLoop /\ got # <<>> =>
       \/ got[1] = <<>>
       \/ loops > 1 /\ base \in 1 .. Len(sizes) /\ got[1] = Payload(base)
       \/ /\ loops > 1 /\ base < Len(sizes) /\ CutInChunk
          /\ got[1] = SubSeq(Payload(base + 1), 1, Len(got[1]))

\* What holds besides when the caller opens the stream once and loops once: the loop
\* begins on an untouched block, so its first element is the empty storage; and a
\* complete parser has seen what completes a message.
OneLoopInv ==
  /\ opens <= 1 /\ loops <= 1 /\ base = 0
  /\ opens = 0 => loops = 0
  /\ loops = 0 => pc = "idle" /\ got = <<>> /\ ~finished /\ filled = 0 /\ pst = "start"
  /\ pc = "test" /\ got = <<>> => pst = "start" /\ ~finished
  /\ got # <<>> => got[1] = <<>>
  /\ pst = "complete" => used > 0 /\ stream[used].kind \in {"last", "hdr_none"}

=============================================================================
